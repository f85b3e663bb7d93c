SPECIFICATION Spec
CONSTANTS
  NAME = NAME
  NUMBER = NUMBER
  Builds = {TRUE}
  NEWLINE = NEWLINE
  ZERO = ZERO
  NULL = NULL
  Bytes = {ZERO, NEWLINE, NAME, NUMBER}
  VECTOR_BASE_SIZE = 2
  Chunks <- MCChunks
  MallocFails = FALSE
  CopyOrders = {"forward"}
  MaxStream = 7
INVARIANT StoresInside
