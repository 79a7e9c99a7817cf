SPECIFICATION Spec
CONSTANTS
    Lookaheads = {1}
    MaxPages = 2
    MaxItems = 1
INVARIANTS
    NoSilentTruncation
