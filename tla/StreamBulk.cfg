SPECIFICATION Spec
CONSTANTS
  Transfers = {t1, t2}
  t1 = t1
  t2 = t2
  Isochronous = FALSE
  BadPackets = TRUE
  TransferErrors = TRUE
  SubmitFails = FALSE
  Unplugs = FALSE
  MaxFrames = 3
  MaxSessions = 2
SYMMETRY TransferSymmetry
INVARIANTS WholeFrames
PROPERTIES IsMailbox
CHECK_DEADLOCK FALSE
