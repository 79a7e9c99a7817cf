SPECIFICATION FairSpec
CONSTANTS
    Calls = {c1, c2}
    MaxAttempts = 2
    Initial = 1
    MaxBackoff = 1
    MinDelays = {0}
    Multiplier = 2
    DecorrelationFactor = 3
    AllowNonIdempotent = FALSE
    Hints = {0}
    Methods = {"put", "create"}
    AttachedKeys = {0}
    WindowSize = 2
    FailureThreshold = 2
    SuccessThreshold = 1
    HalfOpenTrials = 1
    OpenDuration = 1
INVARIANTS
    OneRecordPerCall
PROPERTIES
    ImplementsBreaker
    CallsReturn
