SPECIFICATION StoreSpec
CONSTANTS
    Keys = {k1, k2, k3, k4}
    KeyPrefixes = {{k1, k2}, {k3, k4}}
    capacity = 3
    maxBytes = 4
    Policies <- MCPolicies
    MaxTime = 2
INVARIANTS
    InTandem
    WithinBudget
PROPERTIES
    EvictsOldestOnly
