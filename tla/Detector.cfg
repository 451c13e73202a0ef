CONSTANTS
  PIDs = {1, 2}
  HASH_SIZE = 1
  RECENT_SECS = 1
  STALE_SECS = 2
  INIT_CAPACITY = 2
  ALLOC_FAILS = {}
  NOFILE = 6
  MAX_PIDS = 2
  READ_UNITS = 4
  FAULTS = {"spawn"}
  TOTAL_EVENTS = 1
  BATCHES = 2
  MSG_UNITS = {2, 3}
  RING_SIZE = 2
  MAX_EXECS = 2
  MAX_TIME = 0
SPECIFICATION Spec
INVARIANTS
  TypeOK
  ThreadsArePolled
  MessagesStayHome
  BlocksOnReuseOnly
  PipesClosedAtExit
PROPERTIES
  DeliverySpec
