CONSTANTS
    Bits8 = 3
    Bits32 = 4
    Bits64 = 6
    Wanted <- Reassoc
SPECIFICATION MCSpec
INVARIANT ValuePreserved
CHECK_DEADLOCK FALSE
