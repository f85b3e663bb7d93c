SPECIFICATION Spec
CONSTANTS
  MAX = 2
  NULL = NULL
  Procs = {p1, p2}
  Files = {f1}
  Ptrs = {q1, q2, q3, q4, q5}
  NONE = NONE
  NL = NL
  ZERO = ZERO
  UNINIT = UNINIT
  x = x
  Bytes <- MCBytes
  Requests <- DataRequests
  SIZE_T = 64
  FailSites = {"krealloc"}
  MaxLine = 4
  MaxLost = 1
SYMMETRY Symmetry
INVARIANT EntriesInitialised
