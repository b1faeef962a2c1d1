CONSTANTS
  Names <- MCNames
  DirSlots = {d}
  FileSlots = {f}
  MaxPairs = 6
  Capacity = 2
  Half = 1
  MaxMoves = 2
  MaxSets = 1
  MaxCalls = 4
  SeekTo = {3, 5}
  Shut = Shut
  Gone = Gone
  Deviations = {"drop"}
SPECIFICATION Spec
INVARIANTS
  ListIsSorted
CHECK_DEADLOCK FALSE
