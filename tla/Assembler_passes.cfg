SPECIFICATION Spec
CONSTANTS
  MemSize = 6
  Default = 2
  Reach = 2
  Name = {n1}
  NoAddr = NoAddr
  Kinds <- AllKinds
  Values = {1, 3}
  MaxTokens = 6
CONSTRAINT ShortMix
INVARIANTS PassesAgree ImageContiguous RefsResolve DebugRangesOrdered
CHECK_DEADLOCK FALSE
