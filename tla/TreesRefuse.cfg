CONSTANTS
    Nodes = {a, b}
    NoNode = NoNode
    MaxTrees = 1
    MaxClaims = 1
SPECIFICATION Spec
INVARIANTS
    ActiveCanBeCancelled
