SPECIFICATION ServerSpec
CONSTANTS
    p1 = p1
    p2 = p2
    Peer = {p1, p2}
    Traffic <- ServerTraffic
    MaxConnections = 2
    HandshakeTicks = 1
    ConnectionTicks = 1
    HeartbeatTicks = 1
    MaxDatagrams = 2
    MaxBacklog = 0
    MaxPlayers = 2
    RespawnDelay = 1
    MaxSpawnFailures = 1
SYMMETRY PeerSymmetry
INVARIANTS
    RoutingConsistent
    MembersAreConnected
    PlayersConsistent
    MemberPlayersAreSuspended
PROPERTIES
    NothingAfterBye
    ImplementsMembership
    OnePlayerPerConnection
