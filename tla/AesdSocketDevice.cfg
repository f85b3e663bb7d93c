SPECIFICATION Spec
CONSTANTS
  c1 = c1
  c2 = c2
  a = a
  b = b
  seek0 = seek0
  seek1 = seek1
  NONE = NONE
  TIMESTAMP = TIMESTAMP
  Conns = {c1, c2}
  Plans <- CrowdsAndQueue
  Commands = {seek0, seek1}
  Target <- Targets
  USE_AESD_CHAR_DEVICE = TRUE
  MAX = 2
  Std = {1, 2}
  LOGGER = TRUE
  DAEMON = TRUE
  MaxFds = 10
  SOCKET_BUFFER = 1
  MallocFails = TRUE
  Hasty = {}
INVARIANTS MutexExact ReplyIsFile NoFdLeak ListenerKept
