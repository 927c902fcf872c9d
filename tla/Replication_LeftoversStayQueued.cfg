SPECIFICATION Spec
CONSTANTS
    Place = {p1, p2}
    Velocity = {v1}
    Connection = {c1, c2}
    MaxEntity = 2
    MaxClients = 1
    MaxEntitiesPerUpdate = 2
    ReliableQueueDepth = 2
    UnreliableQueueDepth = 1
    BandwidthBudget = 51
    InterestRadius = 1
    MaxTick = 1
    MaxRegistrations = 1
    MaxAck = 0
INVARIANTS
    LeftoversStayQueued
CHECK_DEADLOCK FALSE
