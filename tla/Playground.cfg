SPECIFICATION Spec
CONSTANTS
  Jobs = {j1, j2}
  Watched = {j1}
  Datasets = {d1}
  MaxDatasets = 1
  MaxEvents = 2
  MaxFinds = 2
  MaxEdits = 1
  RevealPerFrame = 1
  Demo = Demo
  None = None
INVARIANTS ReadsBuiltWorld WatcherServed
PROPERTIES BuiltTakesOver WatchersLeave
