CONSTANTS
  p1 = p1
  p2 = p2
  odm = odm
  sys = sys
  old = old
  Procs = {p1, p2}
  LastLoop = 0
  Nodes = {0}
  Table <- TwoFiles
  BlockImage = FALSE
  OtherWindow <- SameWindow
  LastSector = 7
  Holds <- SparseFile
SPECIFICATION Spec
INVARIANTS
  ShowsPartition
CHECK_DEADLOCK FALSE
