SPECIFICATION EditSpec
CONSTANTS
  FOREVER = 4
  Facts <- MCFacts
  Pairs <- MCPairs
  Objects <- MCObjects
  Values = {x, y}
  Windows <- MCWindows
  Loaded <- MCLoaded
  MaxTime = 2
  MaxWrites = 3
CHECK_DEADLOCK FALSE
INVARIANTS LastEditAnswers
