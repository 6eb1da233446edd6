CONSTANTS
  x = x
  y = y
  z = z
  Names = {x}
  Listing <- SameName
  Workers = 2
  MaxRuns = 1
SPECIFICATION Spec
INVARIANTS
  ExtractedKept
CHECK_DEADLOCK FALSE
