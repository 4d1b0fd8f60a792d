SPECIFICATION FairSpec
CONSTANTS
  NULL = NULL
  Devices = {d1}
  MaxBlocks = 4
  MaxRegisters = 1
  MaxRequests = 2
INVARIANTS OpenIsKnown
PROPERTIES AnswerNotLost RequestIsAnswered
CHECK_DEADLOCK FALSE
