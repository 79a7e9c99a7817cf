SPECIFICATION FairSpec
CONSTANTS
    Keys = {k1}
    KeyPrefixes = {{k1}}
    capacity = 1
    maxBytes = 1
    Policies <- MCPolicies
    MaxTime = 4
    Callers = {a, b}
    NegativeTTL = 1
    MaxFetch = 1
    MaxVersion = 3
    MaxCalls = 4
INVARIANTS
    StaleAtMost
    FlushedUnlessInFlight
PROPERTIES
    CallsReturn
CHECK_DEADLOCK FALSE
