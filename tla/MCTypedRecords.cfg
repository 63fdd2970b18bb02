SPECIFICATION Spec
CHECK_DEADLOCK FALSE
CONSTANTS
  None = None
  HEADER_SIZE = 8
  PAGE_SIZE = 64
  NEOID_CEILING = 50
  ENTRY_START = 16
  MIN_ENTRIES = 3
  VALID_PERCENT = 60
  MAX_CLASS_ID = 92
  MAX_NEOID = 30
  MIN_PAIR_OFFSET = 8
  MAX_PAIR_OFFSET = 1000
  MAX_PAIR_ID = 1000
  CLASS_IDS = {51, 53, 81}
  Files <- MCFiles
  ClassSets <- MCClassSets
  MaxCalls = 2
INVARIANT
  EveryClassRecordIsTyped
