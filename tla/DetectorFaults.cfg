CONSTANTS
  PIDs = {1, 2}
  HASH_SIZE = 1
  RECENT_SECS = 1
  STALE_SECS = 1
  INIT_CAPACITY = 1
  ALLOC_FAILS = {"node", "realloc", "strndup"}
  NOFILE = 5
  MAX_PIDS = 1
  READ_UNITS = 4
  FAULTS = {"poll", "entry", "pipe", "perf_open", "weights", "pollfd", "rpoll"}
  TOTAL_EVENTS = 2
  BATCHES = 2
  MSG_UNITS = {2, 3}
  RING_SIZE = 2
  MAX_EXECS = 2
  MAX_TIME = 1
SPECIFICATION Spec
INVARIANTS
  DescriptorsHaveOwners
PROPERTIES
  DeliveredIsFiled
