CONSTANTS
  x = x
  y = y
  z = z
  Names = {x, y}
  Listing <- Placeholder
  Workers = 2
  MaxRuns = 1
SPECIFICATION Spec
INVARIANTS
  EverythingUnpacked
CHECK_DEADLOCK FALSE
