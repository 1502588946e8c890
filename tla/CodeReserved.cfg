SPECIFICATION Spec
CONSTANTS
    c1 = c1
    s1 = s1
    Calls = {c1}
    Sends = {s1}
    OperationOf <- MCOperationOf
    NoSend = NoSend
    MaxGenerations = 2
    Scenarios <- MCScenarios
INVARIANTS
    SessionIsReserved
CHECK_DEADLOCK FALSE
