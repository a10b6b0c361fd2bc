SPECIFICATION Spec
CONSTANTS
    w1 = w1  w2 = w2  o1 = o1  o2 = o2  s1 = s1  s2 = s2
    Workers <- MCWorkers
    Refs <- MCRefs
    Skus <- MCSkus
    Payloads <- MCPayloads
    InitialOnHand <- MCInitialOnHand
    SeededSkus = {s1}
    BatchSize = 2
    IntMin <- NarrowIntMin
    MaxEventId = 3
    MaxFaults = 2
    MaxRewinds = 1
    NoOrder = NoOrder  NoLevel = NoLevel  Nobody = Nobody
SYMMETRY WorkerSymmetry
INVARIANTS
    StockApplierTypeOK
    StockConserved
    AsOfIsExact
    OffsetMatchesStatus
    ExitsOnlyOnOverflow
PROPERTIES
    ImplementsInventory
