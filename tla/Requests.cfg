SPECIFICATION MCSpec
CONSTANTS
    a1 = a1
    a2 = a2
    b1 = b1
    ap = ap
    A = A
    B = B
    Requests = {r1}
    Models = {a1, a2, b1, ap}
    Provider <- MCProvider
    Billing <- MCBilling
    Orders <- MCOrders
    Selected = NoModel
    NoModel = NoModel
    Contended = {a1}
    QuotaProvider = A
    FailureLimit = 2
    MaxCandidates = 3
    Short = 1
    Long = 2
    MaxProbes = 1
    Tasks = {w1, w2, w3, w4}
    Limit = 2
    Window = 2
    MaxTime = 5
    Clients = {c1, c2}
    NoRequest = NoRequest
    MaxWaiting = 1
    MaxRounds = 2
    MaxAttempts = 3
    MaxCorrections = 1
    MaxChunks = 3
    MaxTools = 2
INVARIANTS
    TypesOK
    NothingIsLeaked
    FallbackIsOrderly
    StreamIsWhole
    StrictWindow
PROPERTIES
    RoomIsReserved
    RequestsSettle
    ImplementsQuota
CHECK_DEADLOCK FALSE
