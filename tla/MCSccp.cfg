SPECIFICATION FairSpec
CONSTANTS
  WIDTH = 3
  IR_OPT_CFG = TRUE
  Programs <- MCPrograms
  Unoptimized <- MCUnoptimized
INVARIANTS RingsMatchIdentities GraphWellFormed SameResult CfgMatchesGraph
PROPERTIES OnlyWeakened Terminates
