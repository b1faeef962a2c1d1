SPECIFICATION Spec
CONSTANTS
  Blocks = {b1, b2}
  NoBlock = NoBlock
  BlockSize = 4
  CacheSize = 2
  ReadSize = 2
  ProgSize = 1
  Chunk = 1
  Stamps = {s1, s2}
  Erased = Erased
  Lengths = {1, 3}
  Reads <- MCReads
  MaxBad = 1
INVARIANTS
  TypeOK
  ReadsAreCurrent
  ProgFindsRoom
PROPERTIES
  CachesAreInvisible
SYMMETRY Interchangeable
