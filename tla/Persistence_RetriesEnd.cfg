SPECIFICATION ServingSpec
CONSTANTS
    QueueDepth = 2
    HighWatermark = 2
    LowWatermark = 1
    AutosaveInterval = 0
    MaxTick = 2
    MaxRequests = 1
    MaxRuns = 1
PROPERTY RetriesEnd
CHECK_DEADLOCK FALSE
