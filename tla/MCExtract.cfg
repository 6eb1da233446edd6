CONSTANTS
  x = x
  y = y
  z = z
  Names = {x, y, z}
  Listing <- Mixed
  Workers = 2
  MaxRuns = 2
SPECIFICATION FairSpec
INVARIANTS
  TypeOK
  SuccessIsWhole
  FailedLeavesNoData
PROPERTIES
  ExistingSkipped
  RunEnds
CHECK_DEADLOCK FALSE
