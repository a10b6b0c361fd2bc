SPECIFICATION FairSpec
CONSTANTS
    w1 = w1  w2 = w2  o1 = o1  o2 = o2  s1 = s1
    Workers = {w1}
    Refs <- MCRefs
    Skus <- MCSkus
    Payloads <- MCPayloads
    InitialOnHand <- MCInitialOnHand
    SeededSkus = {s1}
    BatchSize = 1
    IntMin <- WideIntMin
    MaxEventId = 2
    MaxRewinds = 1
    NoOrder = NoOrder  NoLevel = NoLevel  Unknown = Unknown
PROPERTIES
    StopEndsTheProcess
