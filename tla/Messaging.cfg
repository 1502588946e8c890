SPECIFICATION MCSpec
CONSTANTS
    Typed = {t1}
    Voices = {v1, v2}
    Chat <- MCChat
    Deliveries = {1, 2, 3}
    t1 = t1
    v1 = v1
    v2 = v2
    DedupKeys = {k1, k2}
    MaxRetries = 1
    Runners = {r1, r2}
    Ids = {id}
    None = None
    StopAll = StopAll
    MaxStops = 1
    MaxCancels = 1
    Callers = {c1, c2}
    Nobody = Nobody
    MaxVersion = 2
    MaxFaults = 1
INVARIANTS
    TypesOK
    IntakeLeavesNothing
    AnsweredByNewest
    EveryProcessIsOwned
PROPERTIES
    MessagingSettles
    FileNeverOlder
    ClearReturnsSaved
CHECK_DEADLOCK FALSE
