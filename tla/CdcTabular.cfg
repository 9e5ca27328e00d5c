SPECIFICATION Spec
CONSTANTS
  KeyTexts = {"a", "a~2"}
  Values = {"x", "y"}
  Tables <- SomeTables
  Null = Null
  MaxCycle = 2
  MaxStops = 1
INVARIANTS PullExact StreamingAgrees StateIsRegistered MirrorMatchesState
