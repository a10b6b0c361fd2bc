SPECIFICATION Spec
CONSTANTS
    k1 = k1  k2 = k2  o1 = o1  o2 = o2  s1 = s1  s2 = s2
    Seeders = {k1, k2}
    DemoOf <- MCDemoOf
    Refs = {o1, o2}
    Skus = {s1, s2}
    Payloads <- MCPayloads
    InitialOnHand <- MCInitialOnHand
    SeededSkus = {}
    IntMin <- WideIntMin
    BatchSize = 2
    MaxEventId = 3
    MaxRewinds = 0
    MaxTime = 1
    NoOrder = NoOrder  NoLevel = NoLevel  NoTime = NoTime  NoRead = NoRead
SYMMETRY RefSymmetry
INVARIANTS
    OrdersStockTypeOK
    EveryProductHasALevel
    TimesInOrder
    StockReadStaysExact
PROPERTIES
    ReadsAgree
    ImplementsInventory
