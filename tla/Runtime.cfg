SPECIFICATION MCSpec
CONSTANTS
    MaxRuntimes = 2
    Clients = {c1, c2}
    NoRuntime = NoRuntime
    k1 = k1
    k2 = k2
    k3 = k3
    s1 = s1
    s2 = s2
    Calls = {k1, k2, k3}
    Sends = {s1, s2}
    OperationOf <- MCOperationOf
    NoSend = NoSend
    MaxGenerations = 2
    Scenarios <- MCScenarios
    Observers = {o1, o2}
    QueueSize = 2
    MaxEvents = 4
    Processes = {p1, p2}
    Nobody = Nobody
    Budgets <- MCBudgets
    Executions = {e1, e2}
    RoutedExecutions = {e1, e2, e3}
INVARIANTS
    TypesOK
    ChangesAreWhole
    RunsAreFaithful
    NothingIsLeft
    NoEventIsMissed
    CredentialsSurvive
    OwnFailureOnly
PROPERTIES
    CatalogIsOfCurrent
    ImplementsLifetimes
    StartsAreWanted
    RuntimeSettles
CHECK_DEADLOCK FALSE
