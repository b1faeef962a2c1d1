CONSTANTS
  Names <- MCNames
  Letters = {1, 2}
  Attrs = {1, 2}
  Files <- MCFiles
  MaxPairs = 3
  Capacity = 16
  Half = 8
  MaxCalls = 3
  Deviations = {"userattrs"}
SPECIFICATION Spec
PROPERTIES
  IsPlainEntries
CHECK_DEADLOCK FALSE
