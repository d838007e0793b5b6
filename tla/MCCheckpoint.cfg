CONSTANTS
    long = long
    short = short
    Files <- MCFiles
    Blocks <- MCBlocks
    Streaming = TRUE
SPECIFICATION FairSpec
INVARIANTS
    DurableSurvives
    JournalBacked
    UnsavedIsDirty
    ResultIsWhole
    PauseSavesAll
    Inductive
PROPERTIES
    GenerationsAdvance
    KeepsPromise
    AcceptedBecomesDurable
    StopEnds
