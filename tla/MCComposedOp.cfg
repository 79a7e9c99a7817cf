SPECIFICATION FairSpec
CONSTANTS
    Default = 2
    InitialDelays = {0, 5}
    MaxDelays = {0, 3}
    DefaultInitialDelay = 1
    DefaultMaxDelay = 4
    Multiplier = 2
    RetryAfters = {0, 5}
    Deadlines <- MCDeadlines
    Lag = 1
    MaxPolls = 4
    MaxAge = 35
    MaxOps = 1
    MaxLegs = 2
INVARIANTS
    WaitLaw
    WaitStopsWithContext
PROPERTIES
    WaitEnds
CHECK_DEADLOCK FALSE
