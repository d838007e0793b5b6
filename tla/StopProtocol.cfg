CONSTANTS
    FileCount = 2
    MaxAttempts = 2
SPECIFICATION FairSpec
CHECK_DEADLOCK FALSE
INVARIANTS
    TypeOK
    SteadyDiscardIsConfirmed
    SentIsPublished
    DiscardedIsUnpublished
    ShownAgrees
PROPERTIES
    AttemptEnds
    LockIsFreed
