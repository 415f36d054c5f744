SPECIFICATION FairSpec
CONSTANTS
  GP = {0, 1, 2}
  FP = {3}
  MEM = {4, 5}
  CONST <- MCConst
  Width = {2}
  IR_HAVE_SWAP_INT = TRUE
INVARIANTS RightValue NothingLost
PROPERTY Terminates
