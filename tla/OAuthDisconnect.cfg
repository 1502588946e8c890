SPECIFICATION Spec
CONSTANTS
    Processes = {p1}
    Nobody = Nobody
    Budgets <- MCBudgets
INVARIANTS
    DisconnectRemoves
CHECK_DEADLOCK FALSE
