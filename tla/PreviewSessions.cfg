SPECIFICATION Spec
CONSTANTS
  NULL = NULL
  Frames = {f1, f2}
  CaptureThreads = {c1, c2}
  Windows = {w1}
  Callbacks = {o1, o2}
  Modes = {"YUYV"}
  Calls = {"start", "stop", "setPreviewDisplay", "setFrameCallback"}
  MAX_FRAME = 1
  MaxSessions = 2
  MaxSets = 3
  SpuriousWakeups = TRUE
  Slots <- PreviewSlots
CHECK_DEADLOCK FALSE
SYMMETRY AllSymmetry
INVARIANTS StoppedIsQuiescent CallbackReferenced
