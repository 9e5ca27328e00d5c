SPECIFICATION Spec
CONSTANTS
  Candidates = {g1, g2, g3, g4}
  Attributes = {1, 2, 3}
  Sigmas = {1, 2}
SYMMETRY Symmetry
CHECK_DEADLOCK FALSE
INVARIANTS LatticeIsIceberg EnumerationComplete
