SPECIFICATION FairSpec
CONSTANTS
  Threads = {1, 2}
  PIDs = {1, 2}
  NOFILE = 4
  TOTAL_EVENTS = 2
  TOTAL_SAMPLES = 2
  MAX_DATA_POINTS = 1
  FAULTS = {"spawn", "monitor", "sampler", "perf_open", "csv", "read", "usage"}
INVARIANTS
  TypeOK
  SamplerIsJoined
  EventsClosed
  CsvIsComplete
PROPERTIES
  DataStandsDuringSave
  EveryThreadEnds
