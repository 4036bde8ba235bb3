SPECIFICATION FairHistSpec
CONSTANTS
  MemSize = 2
  Word = {0}
  Zero = 0
  MaxFinishDepth = 3
  MaxPipe = 2
  Files <- MCBlankFiles
  Os <- MCBlankOs
  OsPC = 0
  NoFile = NoFile
INVARIANTS BreakpointHolds FinishCountExact NextRemembered
PROPERTIES GuiInputGetsAttention CtrlCStops
CHECK_DEADLOCK FALSE
