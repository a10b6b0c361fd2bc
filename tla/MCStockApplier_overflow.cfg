SPECIFICATION Spec
CONSTANTS
    w1 = w1  w2 = w2  o1 = o1  o2 = o2  s1 = s1  s2 = s2
    Workers <- MCWorkers
    Refs <- MCRefs
    Skus <- MCSkus
    Payloads <- PlainPayloads
    InitialOnHand <- MCInitialOnHand
    SeededSkus = {s1, s2}
    BatchSize = 2
    IntMin <- NarrowIntMin
    MaxEventId = 2
    MaxFaults = 0
    MaxRewinds = 0
    NoOrder = NoOrder  NoLevel = NoLevel  Nobody = Nobody
INVARIANTS
    NoLowerBound
