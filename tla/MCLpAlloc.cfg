CONSTANTS
  DeviceTables <- Tables
  MaxExtents = 3
  MaxSector = 4
  MaxLen = 2
SPECIFICATION Spec
INVARIANTS
  FindFreeIsFirstPlace
  ScanFindsFirstFit
  LargestRunIsGranted
  PlanPacksAllSpace
CHECK_DEADLOCK FALSE
