SPECIFICATION FairSpec
CONSTANTS
  Transfers = {t1, t2}
  t1 = t1
  t2 = t2
  Isochronous = TRUE
  BadPackets = FALSE
  TransferErrors = TRUE
  SubmitFails = FALSE
  Unplugs = FALSE
  MaxFrames = 3
  MaxSessions = 2
INVARIANTS CloseEndsAll SleepersAreWoken
PROPERTIES EachFrameOnce CloseReturns PublishedIsTaken
CHECK_DEADLOCK FALSE
