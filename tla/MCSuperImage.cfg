CONSTANTS
  p1 = p1
  p2 = p2
  SlotCount = 2
  MaxSize = 2
  MetadataBase = 3
  Procs <- Commands
  MaxVersion = 2
  MaxEdits = 2
  Names <- XNames
  NewNames = {"x_b"}
  BaseOf <- XBase
  SuffixOf <- XSuffix
  Dev <- TwoSectors
  Sizes = {1, 2}
  MadeTable <- XMade
SYMMETRY Alike
SPECIFICATION ImageSpec
INVARIANTS
  ImageTypeOK
  PayloadIntact
  ReadsWhatItEdits
CONSTRAINT EditsBounded
CHECK_DEADLOCK FALSE
