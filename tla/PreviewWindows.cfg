SPECIFICATION Spec
CONSTANTS
  NULL = NULL
  Frames = {f1, f2, f3}
  CaptureThreads = {c1}
  Windows = {w1}
  Callbacks = {o1}
  Modes = {"YUYV", "MJPEG"}
  Calls = {"start", "stop", "setPreviewDisplay", "setCaptureDisplay"}
  MAX_FRAME = 2
  MaxSessions = 1
  MaxSets = 3
  SpuriousWakeups = FALSE
  Slots <- PreviewSlots
SYMMETRY Symmetry
CHECK_DEADLOCK FALSE
INVARIANTS TypeOK FrameOwnership LeakBound
PROPERTIES MjpegReturnsFrames
