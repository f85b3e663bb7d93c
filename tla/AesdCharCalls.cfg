SPECIFICATION LinesSpec
CONSTANTS
  MAX = 2
  NULL = NULL
  Procs = {p1, p2}
  Files = {f1}
  Ptrs = {q1, q2, q3, q4}
  NONE = NONE
  NL = NL
  ZERO = ZERO
  UNINIT = UNINIT
  x = x
  Bytes <- MCBytes
  Requests <- CallRequests
  SIZE_T = 64
  FailSites = {"line_kmalloc", "rest_kmalloc", "copy_to_user", "copy_from_user", "signal"}
  MaxLine = 3
  MaxLost = 0
SYMMETRY Symmetry
INVARIANTS EntriesAreLines PosNonNegative
PROPERTIES Linearizable SeeksLand
