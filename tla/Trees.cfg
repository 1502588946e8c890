CONSTANTS
    Nodes = {a, b, c}
    NoNode = NoNode
    MaxTrees = 2
    MaxClaims = 1
SPECIFICATION Spec
SYMMETRY Symmetry
INVARIANTS
    TypeOK
    EveryTurnIsOwned
    ConversationsAreFound
PROPERTIES
    OnlyLiveFailuresSpread
