SPECIFICATION FairSpec
CONSTANTS
    w1 = w1  w2 = w2  o1 = o1  o2 = o2  s1 = s1  s2 = s2
    Workers <- MCWorkers
    Refs <- MCRefs
    Skus <- MCSkus
    Payloads <- PlainPayloads
    InitialOnHand <- MCInitialOnHand
    SeededSkus = {s1}
    BatchSize = 1
    IntMin <- WideIntMin
    MaxEventId = 3
    MaxFaults = 1
    MaxRewinds = 0
    NoOrder = NoOrder  NoLevel = NoLevel  Nobody = Nobody
PROPERTIES
    EveryOrderIsApplied
