SPECIFICATION Spec
CONSTANTS
  MAX = 4
  NULL = NULL
  Ptrs = {q1, q2}
  Sizes = {1, 2}
INVARIANTS
  TypeOK
  RingShape
  CharSizeIsTotal
  FindsPositions
  FindsBytes
PROPERTY ImplementsLog
