CONSTANTS
  ROUNDS = 3
  PERIOD = 3
  DUMP_AT = 5
  PRINT_AT = 10
  MAX_CALL = 1
SPECIFICATION FairSpec
INVARIANTS
  VmiIsOpenWhenUsed
  PrintsWholeRecord
  SavesAlone
PROPERTIES
  EveryRunEnds
