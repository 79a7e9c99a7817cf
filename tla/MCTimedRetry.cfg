SPECIFICATION FairSpec
CONSTANTS
    Calls = {c1}
    MaxAttempts = 4
    Initial = 1
    MaxBackoff = 3
    MinDelays = {0, 2}
    Multiplier = 2
    DecorrelationFactor = 3
    AllowNonIdempotent = FALSE
    Hints = {0, 4}
    Methods = {"query", "put", "create"}
    AttachedKeys = {0, 1}
    Default = 2
    Placements = {"outside", "inside"}
    Deadlines <- MCDeadlines
    Lag = 1
    MaxAge = 30
INVARIANTS
    RetryTypeOK
    OneKeyPerCall
    UnsafeSentOnce
    BackoffLaw
    CallStopsWithContext
PROPERTIES
    HungCallsEnd
