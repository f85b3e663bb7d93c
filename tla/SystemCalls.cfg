\* Two threads run commands, and one more child belongs to somebody else.
SPECIFICATION FairSpec
CONSTANTS
  Threads = {t1, t2}
  HOST = host
  Std = {0, 1, 2}
  MaxFds = 4
  MaxForks = 2
INVARIANTS
  TypeOK
  ResultExact
  ChildReaped
  OutputExact
PROPERTIES
  CallsReturn
CHECK_DEADLOCK FALSE
