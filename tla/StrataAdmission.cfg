SPECIFICATION AdmissionSpec
CONSTANTS
  Candidates = {"g1", "g2", "g3"}
  Attributes = {1, 2, 3}
  Sigmas = {1, 2}
  Properties = {1, 2}
  Starts <- MCStarts
  Deltas <- MCDeltas
CHECK_DEADLOCK FALSE
INVARIANTS TargetsNearest AdmittedAddsSomething ProposalsReplay
