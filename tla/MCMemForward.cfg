SPECIFICATION Spec
CONSTANTS
  Expr <- MCExpr
  AddrSets <- MCAddrSets
  Consts <- MCConsts
  VarTypes = {"I2"}
  Steps = 3
INVARIANTS
  WellFormed
  MemoryLooksTheSame
  AliasAnswers
CHECK_DEADLOCK FALSE
