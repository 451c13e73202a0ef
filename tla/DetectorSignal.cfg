CONSTANTS
  PIDs = {1}
  HASH_SIZE = 1
  RECENT_SECS = 1
  STALE_SECS = 2
  INIT_CAPACITY = 2
  ALLOC_FAILS = {}
  NOFILE = 3
  MAX_PIDS = 1
  READ_UNITS = 4
  FAULTS = {}
  TOTAL_EVENTS = 1
  BATCHES = 1
  MSG_UNITS = {3}
  RING_SIZE = 1
  MAX_EXECS = 1
  MAX_TIME = 0
SPECIFICATION FairSpec
PROPERTIES
  SignalCleansUp
