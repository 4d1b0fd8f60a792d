SPECIFICATION FairSpec
CONSTANTS
  NULL = NULL
  Frames = {f1, f2}
  CaptureThreads = {c1}
  Windows = {w1}
  Callbacks = {o1}
  Modes = {"YUYV"}
  Calls = {"start", "stop", "setPreviewDisplay", "setFrameCallback"}
  MAX_FRAME = 2
  MaxSessions = 1
  MaxSets = 2
  SpuriousWakeups = FALSE
  Slots <- PreviewSlots
CHECK_DEADLOCK FALSE
PROPERTIES QueuedFrameIsTaken ReplaceReturns
