SPECIFICATION Spec
CONSTANTS
  FOREVER = 4
  a = a
  b = b
  c = c
  Shards = {s1, s2}
  Nodes = {a, b, c}
  Edges <- Chain
  Windows <- OpenWindows
  MaxTime = 1
  MaxRows = 2
  MaxBatch = 1
SYMMETRY Symmetry
INVARIANTS AdjacencyIsDerived OpenLinksDisjoint TraverseReaches
PROPERTIES LinkPastFrozen
