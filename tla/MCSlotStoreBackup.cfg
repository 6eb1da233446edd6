CONSTANTS
  p1 = p1
  p2 = p2
  SlotCount = 2
  MaxSize = 2
  MetadataBase = 3
  Procs <- Commands
  MaxVersion = 3
SYMMETRY Alike
SPECIFICATION Spec
INVARIANTS
  BackupLoadWritable
CHECK_DEADLOCK FALSE
