CONSTANTS
  TOTAL_SAMPLES = 6
  PRINT_EVERY = 2
  MODULUS = 3
  MAX_COUNT = 2
  Texts <- MCTexts
  INPUT_DIM = 3
  HIDDEN1_DIM = 2
  HIDDEN2_DIM = 3
  OUTPUT_DIM = 2
  COLS_PER_ROW = 1
  MAX_ROWS = 2
  MAX_MESSAGES = 3
  Models <- MCModels
  ReadLimits = {4, 5}
SPECIFICATION HistorySpec
INVARIANTS
  InputHasSamples
CHECK_DEADLOCK FALSE
