SPECIFICATION FairSpec
CONSTANTS
  Kinds = {"bulk", "iso", "control"}
  NumUrbs = 3
  BulkStalls = FALSE
INVARIANTS UrbsOutlived CompletedIsComplete ReturnUnderWay
PROPERTIES IsContract ComesBack
CHECK_DEADLOCK FALSE
