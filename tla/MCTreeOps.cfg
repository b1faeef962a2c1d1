SPECIFICATION Spec
CONSTANTS
  Root = root
  Dirs = {d1, d2}
  Files = {f1}
  Names = {n1, n2}
  None = None
  MaxCalls = 4
  MaxMoves = 1
  MovesIn = {"create", "remove", "rename", "gc", "repair"}
  FailsIn = {"create", "mkdir", "remove"}
  LaterFails = FALSE
  PlainWords = {"x", "y", "toolong"}
  LongWords = {"toolong"}
  MaxFolder = 2
  MaxPath = 7
INVARIANTS
  TypeOK
  ReturnsDone
  ListIsTree
  GdiskIsDisk
  CopiesCurrent
  AssertsHold
PROPERTIES
  CallsAreAtomic
  CallsReturn
