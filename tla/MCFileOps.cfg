SPECIFICATION Spec
CONSTANTS
  Blocks <- MCBlocks
  BlockSize = 6
  PtrSize = 1
  FileMax = 12
  CacheSize = 3
  InlineMax = 2
  WriteSizes = {1, 7}
  ReadSizes = {6}
  Targets = {1, 8, 12}
  Opens <- MCOpens
  MaxEdits = 2
  MaxTrouble = 1
  ScanMidway = FALSE
  Unknown = Unknown
INVARIANTS
  TypeOK
  SavedIsIntact
  PlaceIsCurrent
PROPERTIES
  CallsReturn
  IsPlainFile
