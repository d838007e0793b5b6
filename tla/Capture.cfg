SPECIFICATION Spec
CONSTANTS
    Blocks = 5
    Batch = 2
    Ahead = 2
    Window = 2
    MaxVersion = 2
INVARIANTS
    SentIsFixed
    AheadIsBounded
    CleanupIsAlone
PROPERTIES
    SendEnds
CHECK_DEADLOCK FALSE
