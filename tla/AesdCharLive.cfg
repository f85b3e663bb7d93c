SPECIFICATION FairSpec
CONSTANTS
  MAX = 1
  NULL = NULL
  Procs = {p1, p2}
  Files = {f1}
  Ptrs = {q1, q2, q3}
  NONE = NONE
  NL = NL
  ZERO = ZERO
  UNINIT = UNINIT
  x = x
  Bytes <- MCBytes
  Requests <- LiveRequests
  SIZE_T = 64
  FailSites = {"krealloc", "line_kmalloc", "entry_kmalloc", "rest_kmalloc", "signal"}
  MaxLine = 3
  MaxLost = 0

PROPERTY CallsReturn
