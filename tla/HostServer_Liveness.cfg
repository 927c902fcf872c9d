SPECIFICATION FairSpec
CONSTANTS
    p1 = p1
    p2 = p2
    Peer = {p1, p2}
    Traffic <- LifeTraffic
    MaxConnections = 1
    HandshakeTicks = 1
    ConnectionTicks = 1
    HeartbeatTicks = 1
    MaxDatagrams = 2
    MaxBacklog = 1
PROPERTIES
    HandshakeDecided
    SilentPeerRemoved
    MembershipReported
