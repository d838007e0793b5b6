SPECIFICATION FairSpec
CONSTANTS
    Frames <- MCFrames
    Length = 4
    Chunk = 3
    Buffer = 2
    Room = 2
INVARIANTS
    WireIsExact
    KernelOwnsWhatItUses
PROPERTIES
    CopyEnds
CHECK_DEADLOCK FALSE
