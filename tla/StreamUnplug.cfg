SPECIFICATION FairSpec
CONSTANTS
  Transfers = {t1, t2}
  t1 = t1
  t2 = t2
  Isochronous = TRUE
  BadPackets = TRUE
  TransferErrors = FALSE
  SubmitFails = TRUE
  Unplugs = TRUE
  MaxFrames = 2
  MaxSessions = 1
INVARIANTS OneEscapesTheCancel
PROPERTIES UnpluggedEndsUser
CHECK_DEADLOCK FALSE
