SPECIFICATION Spec
CONSTANTS
  FOREVER = 5
  Keys = {k1}
  Values = {x}
  Windows <- MCWindows
  MaxRank = 1
  MaxConf = 1
  MaxTime = 2
  MaxRows = 3
  MaxBatch = 1
  NoSeq = NoSeq
INVARIANTS TypeOK IndexesAreDerived OpenCellsDisjoint BeliefSettled
PROPERTIES PastFrozen HumanEditsStand
