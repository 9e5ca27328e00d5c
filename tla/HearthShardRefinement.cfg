SPECIFICATION Spec
CONSTANTS
  FOREVER = 3
  Keys = {k1, k2}
  Values = {x, y}
  Windows <- NestedWindows
  MaxRank = 1
  MaxConf = 0
  MaxTime = 1
  MaxRows = 2
  MaxBatch = 2
  NoSeq = NoSeq
PROPERTIES ImplementsBeliefMap
