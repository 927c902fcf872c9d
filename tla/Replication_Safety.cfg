SPECIFICATION Spec
CONSTANTS
    Place = {p1, p2}
    Velocity = {v1, v2}
    Connection = {c1, c2}
    MaxEntity = 2
    MaxClients = 1
    MaxEntitiesPerUpdate = 1
    ReliableQueueDepth = 1
    UnreliableQueueDepth = 1
    BandwidthBudget = 77
    InterestRadius = 1
    MaxTick = 2
    MaxRegistrations = 2
    MaxAck = 1
SYMMETRY Symmetry
INVARIANTS
    AcksAreTheirClients
PROPERTIES
    WholeClientsKnowTheirWorld
CHECK_DEADLOCK FALSE
