SPECIFICATION FairSpec
CONSTANTS
    Lookaheads = {0, 1, 2}
    MaxPages = 4
    MaxItems = 2
INVARIANTS
    PrefetchBounded
PROPERTIES
    ImplementsPageWalk
    ProducerExits
    WalkEnds
