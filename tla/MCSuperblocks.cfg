CONSTANTS
  Blocks = 7
  Counts = {5, 7}
  Maxes = {1, 2}
  Vals = {0, 1}
  Dirs = {0, 3}
  MaxCalls = 4
  MaxMoves = 3
  Deviations = {}
SPECIFICATION Spec
INVARIANTS
  TypeOK
  RamIsDisk
PROPERTIES
  IsPlainSuper
  MountReturns
CHECK_DEADLOCK FALSE
