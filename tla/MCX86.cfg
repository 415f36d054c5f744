CONSTANTS
  Bits8 = 3
  Bits32 = 5
  Bits64 = 7
  Programs <- Progs
  MaxSpilled = 1
  InputsOf <- ArgsOf
SPECIFICATION Spec
INVARIANTS
  OutcomeRight
  ValuesInPlace
