CONSTANTS
    Bits8 = 3
    Bits32 = 4
    Bits64 = 6
    Wanted <- Agreed
SPECIFICATION MCSpec
INVARIANTS WellTyped ValuePreserved
PROPERTY Terminates
CHECK_DEADLOCK FALSE
