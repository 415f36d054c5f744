SPECIFICATION CfgSpec
CONSTANTS
  MAX_BLOCKS = 5
  MAX_ENTRY = 4
  MAX_SHAPE = 7
  MAX_CODE = 4
  MAX_MEMORY = 4
  Graphs <- MCGraphs
  CodesOf <- MCCodes
  MemoryOf <- MCMemory
  IR_MAX_SPLIT_SIZE = 8
  BOTTOM_UP_LIMIT = 4
  IR_MERGE_EMPTY_ENTRIES = {FALSE, TRUE}
INVARIANTS TreeRight LoopsRight CodeMotionRight LinearRight LayoutRight ConversionRight
PROPERTY Terminates
