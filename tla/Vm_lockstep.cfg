SPECIFICATION Spec
CONSTANTS
  Files <- MCFiles
  NoFile = NoFile
  Os <- MCOs
  Chars <- MCChars
  Garbage = {0, 1}
  Wide <- Wide24
  MaxExecute = 2
  MaxRuns = 3
INVARIANTS Lockstep ConvertKeepsMeaning
CHECK_DEADLOCK FALSE
