SPECIFICATION TransformSpec
CONSTANTS
    Transforms <- MCTransforms
    Sources <- MCSources
    Retries = {0, 1}
    MaxRegistrations = 3
    MaxRuns = 3
    MaxEdits = 1
    MaxFaults = 1
INVARIANTS
    ResultsExact
    OutputsSettled
    FailureIsolated
    PlanHonoured
CHECK_DEADLOCK FALSE
