SPECIFICATION Spec
CONSTANTS
  Blocks = {b1, b2, b3}
  Values = {v1, v2}
  NoValue = NoValue
  Units = 3
  RevMod = 4
  ErasedRevs = {3}
  Tired = {2}
  OutOfOrder = TRUE
  Setups <- MCSetups
INVARIANTS
  TypeOK
  HandleCurrent
PROPERTIES
  CommitIsAtomic
  ProgOnlyErased
  CommitEnds
SYMMETRY Interchangeable
