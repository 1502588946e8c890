SPECIFICATION Spec
CONSTANTS
    Executions = {e1, e2, e3}
    e1 = e1
    e2 = e2
    e3 = e3
    Nobody = Nobody
    MaxAttempts = 2
    MaxConcurrency = 2
    RateLimit = 2
    Coordinated = TRUE
    LeaderMayVanish = TRUE
SYMMETRY ExecutionSymmetry
INVARIANTS
    TypeOK
    SlotsConserved
    ProbeHasOwner
    NoLostWakeup
    RecoveryIsExclusive
PROPERTIES
    FailedNeverCallsAgain
    ImplementsCircuit
CHECK_DEADLOCK FALSE
