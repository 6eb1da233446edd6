CONSTANTS
  p1 = p1
  p2 = p2
  odm = odm
  sys = sys
  old = old
  Procs = {p1, p2}
  LastLoop = 2
  Nodes = {0, 2}
  Table <- OneFile
  BlockImage = FALSE
  OtherWindow <- SameWindow
  LastSector = 7
  Holds <- RawFile
SPECIFICATION FairSpec
INVARIANTS
  TypeOK
  ShowsPartition
  NoStray
PROPERTIES
  OthersUntouched
  CommandsEnd
CHECK_DEADLOCK FALSE
