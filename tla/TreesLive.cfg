CONSTANTS
    Nodes = {a, b}
    NoNode = NoNode
    MaxTrees = 2
    MaxClaims = 2
SPECIFICATION FairSpec
INVARIANTS
    LostClaimIsCancelled
    ClearedStaysCleared
PROPERTIES
    TurnsSettle
