SPECIFICATION FairSpec
CONSTANTS
  MaxRecordings = 2
  Params <- AllParams
INVARIANTS LegalCalls TrackNotLost IdleIsQuiet
PROPERTIES RecordingEnds
CHECK_DEADLOCK FALSE
