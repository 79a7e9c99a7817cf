SPECIFICATION Spec
CONSTANTS
    Default = 3
    InitialDelays = {0}
    MaxDelays = {0}
    DefaultInitialDelay = 1
    DefaultMaxDelay = 4
    Multiplier = 2
    RetryAfters = {0}
    Deadlines <- MCDeadlines
    Lag = 1
    MaxPolls = 2
    MaxAge = 10
    MaxOps = 1
    MaxLegs = 2
INVARIANTS
    LegKeyOnWire
CHECK_DEADLOCK FALSE
