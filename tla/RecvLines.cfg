SPECIFICATION FairSpec
CONSTANTS
  NAME = NAME
  NUMBER = NUMBER
  Builds = {TRUE, FALSE}
  NEWLINE = NEWLINE
  ZERO = ZERO
  NULL = NULL
  Bytes = {ZERO, NEWLINE, NAME, NUMBER}
  VECTOR_BASE_SIZE = 2
  Chunks <- MCChunks
  MallocFails = TRUE
  CopyOrders = {"forward"}
  MaxStream = 7
INVARIANTS TypeOK NothingLost NoLineWaits WholeLines CommandsExact
PROPERTY AppendReturns
