SPECIFICATION FairSpec
CONSTANTS
    MaxAttempts = 3
    HedgeIdempotent = FALSE
INVARIANTS
    TypeOK
    FailsOnlyIfAllFail
    UnsafeNotHedged
PROPERTIES
    AttemptsEnd
    OneGoodAttemptIsEnough
