SPECIFICATION Spec
CONSTANTS
  LongBits = 8
  UnsFrom = 16
  HSSIZ = 6
  NARG = 4
  MaxExpand = 20
  NIF = 4
  MaxInc = 2
  Families = {"cond", "expr", "macro", "file", "lex", "end"}
  Programs <- AllPrograms
INVARIANTS
  Meaning
  LinesInStep
  FullyExpanded
  TokensStaySeparate
CHECK_DEADLOCK FALSE
