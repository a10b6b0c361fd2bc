SPECIFICATION Spec
CONSTANTS
    r1 = r1  r2 = r2  r3 = r3
    o1 = o1  o2 = o2  c1 = c1  s1 = s1  s2 = s2
    Requests <- MCRequests
    Refs <- MCRefs
    Customers <- MCCustomers
    Skus <- MCSkus
    Submissions <- MCSubmissions
    Catalogue <- MCCatalogue
    Prices <- MCPrices
    PoolMaxSize = 3
    MaxEventId = 2
    MaxCents = 3
    NoOrder = NoOrder  NoPrice = NoPrice  NoBody = NoBody  Nobody = Nobody
SYMMETRY RequestSymmetry
INVARIANTS
    IntakeTypeOK
    OneEventPerOrder
    AnswersMatchTheStore
    AtMostOneCreated
    NoAssertionFailure
    NoWaitCycle
PROPERTIES
    CommitOrderedLog
    ImplementsOrderBook
    ImplementsOrderServer
