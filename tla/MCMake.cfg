CONSTANTS
  Specs <- TwoDevices
  Page = 1
  SlotCount = 2
  CopySectors = 1
  Alignment <- OneSector
  GroupMax <- Limits
  Requests <- SomeRequests
  MaxRuns = 2
SPECIFICATION Spec
INVARIANTS
  TypeOK
  PlanIsSound
  LoadableIsWhole
  SuccessIsBuilt
CHECK_DEADLOCK FALSE
