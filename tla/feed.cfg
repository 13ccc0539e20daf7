SPECIFICATION FairSpec
CONSTANTS
    MaxFiles = 6
    MaxCommit = 2
    Matches <- MCMatches
    BATCH_SIZE = 2
    Count = 3
INVARIANTS
    PositionExact
    NoLostWakeup
PROPERTIES
    Delivered
    ImplementsFeed
