SPECIFICATION FairSpec
CONSTANTS
  c1 = c1
  c2 = c2
  a = a
  b = b
  seek0 = seek0
  seek1 = seek1
  NONE = NONE
  TIMESTAMP = TIMESTAMP
  Conns = {c1, c2}
  Plans <- CrowdAndSolo
  Commands = {seek0, seek1}
  Target <- Targets
  USE_AESD_CHAR_DEVICE = FALSE
  MAX = 2
  Std = {0, 1, 2}
  LOGGER = TRUE
  DAEMON = FALSE
  MaxFds = 10
  SOCKET_BUFFER = 1
  MallocFails = FALSE
  Hasty = {c1}
INVARIANTS TypeOK MutexExact FdsOwned NoFdLeak StaleWindow
PROPERTIES ShutsDown PacketsHandled
