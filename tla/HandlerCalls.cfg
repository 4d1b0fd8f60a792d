SPECIFICATION FairSpec
CONSTANTS
  NULL = NULL
  Callers = {t1}
  Calls = {"open", "close", "startPreview", "stopPreview", "startRecording",
           "stopRecording", "captureStill", "startCameraFoucs", "release"}
  MaxCalls = 5
INVARIANTS OpenIsHeld WaitedIsStopped
PROPERTIES StopReturns ReleaseEnds
CHECK_DEADLOCK FALSE
