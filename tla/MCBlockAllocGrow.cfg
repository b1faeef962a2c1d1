SPECIFICATION SpecGrow
CONSTANTS
  BlockCount = 4
  Lookahead = 3
  NewCounts <- GrowBy
PROPERTIES
  AllocReturnsFree
