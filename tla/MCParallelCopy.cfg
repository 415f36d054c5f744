SPECIFICATION FairSpec
CONSTANTS
  GP = {0, 1, 2, 3, 4}
  FP = {5, 6, 7}
  Width = {2}
  IR_HAVE_SWAP_INT = TRUE
INVARIANTS RightValue NothingLost
PROPERTY Terminates
