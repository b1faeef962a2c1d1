SPECIFICATION Spec
CONSTANTS
  BlockCount = 5
  Lookahead = 3
  NewCounts <- NoGrow
INVARIANTS
  TypeOK
  CkpointCoversWindow
PROPERTIES
  AllocReturnsFree
  NoSpaceOnlyWhenFull
  AllocReturns
