SPECIFICATION FairSpec
CONSTANTS
    Calls = {c1, c2, c3, c4}
    WindowSize = 4
    FailureThreshold = 3
    SuccessThreshold = 3
    HalfOpenTrials = 2
    OpenDuration = 2
INVARIANTS
    TypeOK
    HalfOpenBookkeeping
    ClosedBelowThreshold
    BudgetNotLost
PROPERTIES
    ImplementsCircuitBreaker
    Recovers
