CONSTANTS
  PIDs = {1, 2}
  HASH_SIZE = 1
  RECENT_SECS = 1
  STALE_SECS = 2
  INIT_CAPACITY = 2
  ALLOC_FAILS = {}
  NOFILE = 6
  MAX_PIDS = 2
  READ_UNITS = 4
  FAULTS = {"pollfd"}
  TOTAL_EVENTS = 1
  BATCHES = 1
  MSG_UNITS = {3}
  RING_SIZE = 2
  MAX_EXECS = 3
  MAX_TIME = 0
SPECIFICATION FairSpec
INVARIANTS
  ReadNeverBlocks
PROPERTIES
  FirstMessageArrives
  SignalEndsProcess
  EventsAreHandled
