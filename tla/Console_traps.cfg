SPECIFICATION FairSpec
CONSTANTS
  Byte = 6
  Mem <- MCMem
  Linefeed = 5
  StartMsg = 0
  InMsg = 7
  HaltMsg = 7
  BadMsg = 0
  UserRegs <- MCUserRegs
  MaxKeys = 1
INVARIANTS RegistersKept DisplayedExactly FreshKey
PROPERTIES KeySeen OutputReturns
CHECK_DEADLOCK FALSE
