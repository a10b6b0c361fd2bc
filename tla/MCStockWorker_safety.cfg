SPECIFICATION Spec
CONSTANTS
    w1 = w1  w2 = w2  o1 = o1  o2 = o2  s1 = s1
    Workers <- MCWorkers
    Refs <- MCRefs
    Skus <- MCSkus
    Payloads <- MCPayloads
    InitialOnHand <- MCInitialOnHand
    SeededSkus = {}
    BatchSize = 2
    IntMin <- NarrowIntMin
    MaxEventId = 3
    MaxRewinds = 0
    NoOrder = NoOrder  NoLevel = NoLevel  Unknown = Unknown
SYMMETRY WorkerSymmetry
INVARIANTS
    StockWorkerTypeOK
    LagNeverNegative
    LoggedOnce
PROPERTIES
    ImplementsInventory
