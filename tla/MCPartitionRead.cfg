CONSTANTS
  BlockUnits = 4
  MaxRun = 8
  MaxChunks = 3
  Contents <- SomeContents
  Foreign <- WithFill
  SectorUnits = 2
  Devices <- ThreeDevices
  PrimaryPaths <- ImagePath
  StemNames <- Stems
  FoldedNames <- Folds
  Files <- TwoFiles
  SpecLists <- SomeSpecs
  ExtentLists <- Partitions
  Skips = {0, 1, 5, 8}
  Sizes = {3, 100}
  SkipBuf = 3
  ReadBuf = 5
SPECIFICATION Spec
INVARIANTS
  TypeOK
  OpensIffWhole
  ReadIsFaithful
PROPERTIES
  ReadEnds
CHECK_DEADLOCK FALSE
