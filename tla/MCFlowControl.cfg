SPECIFICATION FairSpec
CONSTANTS
    Size <- ManySize
    Start <- ManyStart
    Block = 4
    Frame = 2
    Streams = 2
    Window = 8
    Streaming = TRUE
    Pipe = 1
    ReplyPipe = 2
INVARIANTS
    TypeOK
    NothingOverflows
    CreditIsConserved
    NothingRefused
    CommitIsDue
PROPERTIES
    ConnectionEnds
CHECK_DEADLOCK FALSE
