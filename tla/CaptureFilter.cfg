CONSTANTS
  PIDs = {1, 2, 3}
  HASH_SIZE = 2
  RECENT_SECS = 2
  MAX_TIME = 3
  MAX_EVENTS = 3
SPECIFICATION Spec
INVARIANTS
  TypeOK
  UniqueNodes
  TableMatchesHistory
  PassagesSpaced
PROPERTIES
  NoFalseSuppression
  LimiterSpec
CHECK_DEADLOCK FALSE
