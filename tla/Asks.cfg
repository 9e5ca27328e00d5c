SPECIFICATION Spec
CONSTANTS
  FOREVER = 3
  Facts <- MCFacts
  Pairs <- MCPairs
  Objects <- MCObjects
  Windows <- MCWindows
  Loaded <- MCLoaded
  Values = {"x", "y"}
  NoProp = NoProp
  Questions <- MCQuestions
  Asked <- MCAsked
  MaxTime = 1
  MaxWrites = 2
INVARIANTS Evidenced HitIsCurrent
PROPERTIES OptionsHoldData
