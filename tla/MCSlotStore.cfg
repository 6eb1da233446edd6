CONSTANTS
  p1 = p1
  p2 = p2
  SlotCount = 2
  MaxSize = 2
  MetadataBase = 3
  Procs <- Commands
  MaxVersion = 4
SYMMETRY Alike
SPECIFICATION Spec
INVARIANTS
  TypeOK
  Recoverable
  CopiesInvariant
  CompleteEditsDoubled
  PrimaryNotOlder
PROPERTIES
  NeighboursUntouched
CHECK_DEADLOCK FALSE
