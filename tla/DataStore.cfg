CONSTANTS
  PIDs = {1, 2, 3}
  HASH_SIZE = 2
  STALE_SECS = 2
  INIT_CAPACITY = 1
  ALLOC_FAILS = {"node", "strndup"}
  MAX_TIME = 3
  MAX_MESSAGES = 2
SPECIFICATION Spec
INVARIANTS
  TypeOK
  UniqueNodes
  CapacityIsAllocated
  FreshDataKept
  SweepIsComplete
CHECK_DEADLOCK FALSE
