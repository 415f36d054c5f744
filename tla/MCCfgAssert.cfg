SPECIFICATION CfgSpec
CONSTANTS
  MAX_BLOCKS = 4
  MAX_ENTRY = 3
  MAX_SHAPE = 4
  MAX_CODE = 0
  MAX_MEMORY = 0
  Graphs <- MCAllGraphs
  CodesOf <- MCCodes
  MemoryOf <- MCMemory
  IR_MAX_SPLIT_SIZE = 8
  BOTTOM_UP_LIMIT = 4
  IR_MERGE_EMPTY_ENTRIES = {FALSE, TRUE}
INVARIANT AssertKNotZero
