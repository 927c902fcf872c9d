SPECIFICATION Spec
CONSTANTS
    QueueDepth = 2
    HighWatermark = 2
    LowWatermark = 1
    AutosaveInterval = 1
    MaxTick = 2
    MaxRequests = 2
    MaxRuns = 2
INVARIANT OnlyWholeSaves
INVARIANT RequestsAccounted
PROPERTY SavesAreKept
PROPERTY StartFindsASave
CHECK_DEADLOCK FALSE
