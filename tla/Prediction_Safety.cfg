SPECIFICATION Spec
CONSTANTS
    Scenes <- MCScenes
    Shoves = {0, 1}
    Move <- MCMove
    InputBufferDepth = 2
    StateBufferDepth = 2
    InterpolationDelay = 1
    MaxPredictionTicks = 1
    PositionThreshold = 1
    MaxHostTick = 3
    MaxClientTick = 3
INVARIANTS
    EveryInputCountsOnce
PROPERTIES
    ShownTimeAdvances
    OwnBodyKept
CHECK_DEADLOCK FALSE
