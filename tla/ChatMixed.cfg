SPECIFICATION Spec
CONSTANTS
    MaxAttempts = 3
    MaxCorrections = 1
    MaxChunks = 3
    MaxTools = 2
INVARIANTS
    StreamContract
CHECK_DEADLOCK FALSE
