SPECIFICATION Spec
CONSTANTS
    Calls = {c1, c2, c3}
    WindowSize = 3
    FailureThreshold = 2
    SuccessThreshold = 2
    HalfOpenTrials = 1
    OpenDuration = 1
INVARIANT TrialsWithinBudget
