SPECIFICATION FairSpec
CONSTANTS
  NULL = NULL
  MaxOpens = 2
  MaxControls = 2
  MaxEvents = 1
INVARIANTS PolledIsOpen WaitersAreWoken DoneIsReported ReleaseEndsAll
PROPERTIES ControlReturns ReleaseReturns StatusIsHandled
CHECK_DEADLOCK FALSE
