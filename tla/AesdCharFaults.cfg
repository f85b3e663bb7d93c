SPECIFICATION Spec
CONSTANTS
  MAX = 2
  NULL = NULL
  Procs = {p1, p2}
  Files = {f1}
  Ptrs = {q1, q2, q3, q4, q5}
  NONE = NONE
  NL = NL
  ZERO = ZERO
  UNINIT = UNINIT
  x = x
  Bytes <- MCBytes
  Requests <- DataRequests
  SIZE_T = 64
  FailSites = {"krealloc", "line_kmalloc", "entry_kmalloc", "rest_kmalloc",
               "get_user", "copy_to_user", "copy_from_user", "signal", "cdev_add"}
  MaxLine = 4
  MaxLost = 1
SYMMETRY Symmetry
INVARIANTS TypeOK MutexExact HeapSafe NoLeak
PROPERTY StoredLinesKept
