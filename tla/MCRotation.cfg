SPECIFICATION FairSpec
CONSTANTS
    Callers = {a, b}
    Kinds = {"client_credentials", "authorization_code", "broker", "passthrough"}
    Lifetimes = {0, 1}
    skewWindow = 1
    MaxCacheDuration = 1
    MaxHandover = 2
    MaxTransit = 1
    MaxTime = 2
    MaxTokens = 5
    MaxCalls = 2
    MaxRevocations = 1
INVARIANTS
    TypeOK
    SecondTryUsesNewToken
    NoRefreshReplay
    FetchesHaveCause
    ForwardsNoOlderToken
PROPERTIES
    LateByTransitOnly
    CallsEnd
CHECK_DEADLOCK FALSE
