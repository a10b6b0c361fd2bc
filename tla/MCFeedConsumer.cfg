SPECIFICATION FairSpec
CONSTANTS
    o1 = o1  o2 = o2  o3 = o3
    Refs <- MCRefs
    PageLimit = 2
    MaxEventId = 4
    MaxRuns = 3
    NoOrder = NoOrder
CHECK_DEADLOCK FALSE
INVARIANTS
    FeedTypeOK
    NothingSkipped
    OneLineAhead
PROPERTIES
    LinesAscend
    HasMoreIsExact
    ReachesTheHead
