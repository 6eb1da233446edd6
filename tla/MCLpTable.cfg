CONSTANTS
  a = a
  b = b
  cow = cow
  gd = gd
  gm = gm
  gcow = gcow
  Names = {a, b, cow}
  CowNames = {cow}
  GroupNames = {gd, gm, gcow}
  NewGroups = {gcow}
  CowGroup = gcow
  Devs <- TwoDevices
  MaxRequest = 2
  GroupSizes = {1}
  HeaderSize = 128
  MetadataMax = 604
  InitTables <- SomeTables
SYMMETRY Alike
SPECIFICATION Spec
INVARIANTS
  TypeOK
  WindowsApart
  NoOrphanExtent
  LimitsRespected
  ExtentsApart
  CascadeLoopCompacts
PROPERTIES
  ImplementsPool
CHECK_DEADLOCK FALSE
