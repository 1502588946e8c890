SPECIFICATION Spec
CONSTANTS
    Executions = {e1, e2}
    e1 = e1
    e2 = e2
    Nobody = Nobody
    MaxAttempts = 2
    MaxConcurrency = 2
    RateLimit = 2
    Coordinated = TRUE
    LeaderMayVanish = TRUE
INVARIANTS
    LeaderCanReturn
CHECK_DEADLOCK FALSE
