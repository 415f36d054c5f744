CONSTANTS
    Regs = {0, 1, 2, 3}
    RAX = 0
    RCX = 1
    RDX = 2
    ArgReg = 1
    ScratchRegs = {0, 1, 2}
    Families = {"line", "diamond", "loop", "nested", "fused", "spread", "sizes", "consts"}
SPECIFICATION Spec
INVARIANTS Solved OperandsRight PlacesApart RangesExact
PROPERTY Terminates
