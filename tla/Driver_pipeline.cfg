SPECIFICATION Spec
CONSTANTS
  CommandLines <- MCCommandLines
  Leftovers <- MCLeftovers
INVARIANTS Built NoTempLeft
PROPERTIES KeepsPromise Ends
CHECK_DEADLOCK FALSE
