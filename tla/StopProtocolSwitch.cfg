CONSTANTS
    FileCount = 2
    MaxAttempts = 2
SPECIFICATION Spec
CHECK_DEADLOCK FALSE
INVARIANT
    DiscardIsConfirmed
