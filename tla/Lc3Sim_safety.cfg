SPECIFICATION Spec
CONSTANTS
  MemSize = 2
  Word = {0, 1}
  Zero = 0
  MaxFinishDepth = 3
  MaxPipe = 2
  Files <- MCFiles
  Os <- MCOs
  OsPC = 0
  NoFile = NoFile
INVARIANTS NoStaleGoal CodeWindowCurrent NoUpdateLost
CHECK_DEADLOCK FALSE
