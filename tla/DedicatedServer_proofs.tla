------------------------ MODULE DedicatedServer_proofs ------------------------
(***************************************************************************)
(* The dedicated server, for any peers, traffic, capacities, budgets and   *)
(* bounds.  First the host alone: its membership, its sends and what it    *)
(* implements.  Then the server's frame: the host behaves as it does       *)
(* alone, and the players it makes agree with the engine, with their       *)
(* connections and with the session.                                       *)
(***************************************************************************)
EXTENDS DedicatedServer, FiniteSetTheorems, SequenceTheorems, TLAPS

-----------------------------------------------------------------------------
(***************************************************************************)
(* HostServer.                                                             *)
(***************************************************************************)

\* Removing position i of a sequence shifts what follows it to the left.
LEMMA RemoveAtProperties ==
    ASSUME NEW S, NEW s \in Seq(S), NEW i \in 1..Len(s)
    PROVE  /\ SeqExt!RemoveAt(s, i) \in Seq(S)
           /\ Len(SeqExt!RemoveAt(s, i)) = Len(s) - 1
           /\ \A j \in 1..(Len(s) - 1) :
                 SeqExt!RemoveAt(s, i)[j] = IF j < i THEN s[j] ELSE s[j + 1]
<1> DEFINE a == SubSeq(s, 1, i - 1)
           b == SubSeq(s, i + 1, Len(s))
<1>1. Len(s) \in Nat /\ i \in Int /\ 1 <= i /\ i <= Len(s)
  BY LenProperties
<1>2. a \in Seq(S) /\ Len(a) = i - 1 /\ \A j \in 1..(i - 1) : a[j] = s[j]
  BY <1>1, SubSeqProperties
<1>3. b \in Seq(S) /\ Len(b) = Len(s) - i /\ \A j \in 1..(Len(s) - i) : b[j] = s[i + j]
  BY <1>1, SubSeqProperties
<1>4. SeqExt!RemoveAt(s, i) = a \o b
  BY DEF SeqExt!RemoveAt
<1> HIDE DEF a, b
<1>5. /\ a \o b \in Seq(S)
      /\ Len(a \o b) = Len(a) + Len(b)
      /\ \A j \in 1..(Len(a) + Len(b)) :
            (a \o b)[j] = IF j <= Len(a) THEN a[j] ELSE b[j - Len(a)]
  BY <1>2, <1>3, ConcatProperties
<1>6. Len(a) + Len(b) = Len(s) - 1
  BY <1>1, <1>2, <1>3
<1>7. ASSUME NEW j \in 1..(Len(s) - 1)
      PROVE  (a \o b)[j] = IF j < i THEN s[j] ELSE s[j + 1]
  <2>1. CASE j < i
    <3>1. j \in 1..(i - 1) /\ j <= Len(a)
      BY <1>1, <1>2, <2>1
    <3> QED
      BY <1>1, <1>2, <1>5, <1>6, <2>1, <3>1
  <2>2. CASE ~(j < i)
    <3>1. j - (i - 1) \in 1..(Len(s) - i) /\ i + (j - (i - 1)) = j + 1 /\ ~(j <= Len(a))
      BY <1>1, <1>2, <2>2
    <3> QED
      BY <1>1, <1>2, <1>3, <1>5, <1>6, <2>2, <3>1
  <2> QED
    BY <2>1, <2>2
<1> QED
  BY <1>4, <1>5, <1>6, <1>7
-----------------------------------------------------------------------------
USE DEF ConnectionId, Ids

\* What the handlers write into a connection is a connection again.
LEMMA ConnectionUpdates ==
    ASSUME NEW c \in Connection
    PROVE  /\ [c EXCEPT !.recvAge = 0] \in Connection
           /\ [c EXCEPT !.sendAge = 0] \in Connection
           /\ [c EXCEPT !.createdAge = Older(@, HandshakeTicks + 1),
                        !.recvAge = Older(@, ConnectionTicks + 1),
                        !.sendAge = Older(@, HeartbeatTicks)] \in Connection
           /\ \A h \in HandshakeState : [c EXCEPT !.handshake = h] \in Connection
           /\ [c EXCEPT !.handshake = "Established", !.state = "Connected",
                        !.sendAge = 0] \in Connection
<1>1. /\ 0 \in 0..(ConnectionTicks + 1)
      /\ 0 \in 0..HeartbeatTicks
  BY TicksAssumption
<1>2. /\ \A a \in 0..(HandshakeTicks + 1) : Older(a, HandshakeTicks + 1) \in 0..(HandshakeTicks + 1)
      /\ \A a \in 0..(ConnectionTicks + 1) : Older(a, ConnectionTicks + 1) \in 0..(ConnectionTicks + 1)
      /\ \A a \in 0..HeartbeatTicks : Older(a, HeartbeatTicks) \in 0..HeartbeatTicks
  BY TicksAssumption DEF Older
<1>3. "Established" \in HandshakeState /\ "Connected" \in ConnectionState
  BY DEF HandshakeState, ConnectionState
<1> QED
  BY <1>1, <1>2, <1>3 DEF Connection

\* Disconnect keeps the types of all it writes.
LEMMA DisconnectType ==
    ASSUME TypeOK, NEW id \in ConnectionId, Disconnect(id)
    PROVE  /\ DOMAIN table' \subseteq ConnectionId
           /\ table' \in [DOMAIN table' -> Connection]
           /\ DOMAIN conns' \subseteq ConnectionId
           /\ conns' \in [DOMAIN conns' -> HostConn]
           /\ DOMAIN endpointToConn' \subseteq Peer
           /\ endpointToConn' \in [DOMAIN endpointToConn' -> ConnectionId]
           /\ members' \in SUBSET ConnectionId
           /\ admitted' \in SUBSET ConnectionId
           /\ deltas' \in Seq(Delta)
           /\ lastSent' \in [Peer -> Control \cup {"Bye", "Nothing"}]
<1>1. DOMAIN table' \subseteq ConnectionId /\ table' \in [DOMAIN table' -> Connection]
  BY DEF TypeOK, Disconnect, Erase
<1>2. DOMAIN conns' \subseteq ConnectionId /\ conns' \in [DOMAIN conns' -> HostConn]
  <2>1. CASE id \in DOMAIN conns
    BY <2>1 DEF TypeOK, Disconnect, Erase
  <2>2. CASE id \notin DOMAIN conns
    BY <2>2 DEF TypeOK, Disconnect
  <2> QED
    BY <2>1, <2>2
<1>3. /\ DOMAIN endpointToConn' \subseteq Peer
      /\ endpointToConn' \in [DOMAIN endpointToConn' -> ConnectionId]
  <2>1. CASE id \in DOMAIN conns
    BY <2>1 DEF TypeOK, Disconnect, Erase
  <2>2. CASE id \notin DOMAIN conns
    BY <2>2 DEF TypeOK, Disconnect
  <2> QED
    BY <2>1, <2>2
<1>4. /\ members' \in SUBSET ConnectionId
      /\ admitted' \in SUBSET ConnectionId
      /\ deltas' \in Seq(Delta)
  <2>1. [kind |-> "Left", connection |-> id] \in Delta
    BY DEF Delta
  <2>2. Append(deltas, [kind |-> "Left", connection |-> id]) \in Seq(Delta)
    BY <2>1, AppendProperties DEF TypeOK
  <2> QED
    BY <2>2 DEF TypeOK, Disconnect, Remove, sessionVars
<1>5. lastSent' \in [Peer -> Control \cup {"Bye", "Nothing"}]
  BY DEF TypeOK, Disconnect, TrySend
<1> QED
  BY <1>1, <1>2, <1>3, <1>4, <1>5

\* Every step of the host keeps the types.
LEMMA TypeStep ==
    ASSUME TypeOK, [Next]_hostVars
    PROVE  TypeOK'
<1> USE TicksAssumption
<1>1. CASE FrameStep
  <2>1. CASE BeginFrame
    BY <2>1 DEF TypeOK, BeginFrame, Stage, connVars, sessionVars, transportVars, historyVars
  <2>2. CASE BeginTick
    <3>1. ASSUME NEW id \in Ids
          PROVE  table'[id] \in Connection
      BY <2>2, ConnectionUpdates DEF TypeOK, BeginTick
    <3>2. DOMAIN table' = Ids /\ table' \in [DOMAIN table' -> Connection]
      BY <2>2, <3>1 DEF BeginTick
    <3> QED
      BY <2>2, <3>2 DEF TypeOK, BeginTick, Stage, sessionVars, transportVars, historyVars
  <2>3. CASE EndPoll
    BY <2>3 DEF TypeOK, EndPoll, Stage, connVars, sessionVars, transportVars, historyVars
  <2>4. CASE EndAccept
    BY <2>4 DEF TypeOK, EndAccept, Stage, connVars, sessionVars, transportVars, historyVars
  <2>5. CASE EndReceive
    BY <2>5 DEF TypeOK, EndReceive, Stage, connVars, sessionVars, transportVars, historyVars
  <2>6. CASE EndTimeouts
    BY <2>6 DEF TypeOK, EndTimeouts, Stage, connVars, sessionVars, transportVars, historyVars
  <2>7. CASE EndHandshake
    BY <2>7 DEF TypeOK, EndHandshake, Stage, connVars, sessionVars, transportVars, historyVars
  <2>8. CASE Heartbeat
    <3>1. ASSUME NEW id \in Ids
          PROVE  table'[id] \in Connection
      BY <2>8, ConnectionUpdates DEF TypeOK, Heartbeat
    <3>2. DOMAIN table' = Ids /\ table' \in [DOMAIN table' -> Connection]
      BY <2>8, <3>1 DEF Heartbeat
    <3>3. ASSUME NEW id \in DOMAIN conns
          PROVE  conns'[id] \in HostConn
      <4>1. conns[id] \in HostConn
        BY DEF TypeOK
      <4>2. Append(conns[id].outbox, "Ping") \in Seq(Control)
        BY <4>1, AppendProperties DEF HostConn, Control
      <4>3. [conns[id] EXCEPT !.outbox = Append(@, "Ping")] \in HostConn
        BY <4>1, <4>2 DEF HostConn
      <4> QED
        BY <2>8, <4>1, <4>3 DEF Heartbeat
    <3>4. DOMAIN conns' = DOMAIN conns /\ conns' \in [DOMAIN conns' -> HostConn]
      BY <2>8, <3>3 DEF Heartbeat
    <3> QED
      BY <2>8, <3>2, <3>4 DEF TypeOK, Heartbeat, Stage, sessionVars, transportVars, historyVars
  <2>9. CASE EndDrain
    BY <2>9 DEF TypeOK, EndDrain, Stage, connVars, sessionVars, transportVars, historyVars
  <2> QED
    BY <1>1, <2>1, <2>2, <2>3, <2>4, <2>5, <2>6, <2>7, <2>8, <2>9 DEF FrameStep
<1>2. CASE Accept
  <2>1. Head(accepted) \in Peer /\ Tail(accepted) \in Seq(Peer)
    BY <1>2, HeadTailProperties DEF TypeOK, Accept
  <2> DEFINE peer == Head(accepted)
             c == NewConnection(peer)
             hc == [endpoint |-> peer, inbox |-> <<>>, outbox |-> <<>>]
  <2>2. c \in Connection
    BY <2>1, TicksAssumption DEF NewConnection, Connection, ConnectionState, HandshakeState
  <2>3. hc \in HostConn
    BY <2>1, EmptySeq DEF HostConn
  <2>4. /\ table' = Put(table, nextId, c)
        /\ conns' = Put(conns, nextId, hc)
        /\ endpointToConn' = Put(endpointToConn, peer, nextId)
    BY <1>2 DEF Accept
  <2> HIDE DEF c, hc
  <2>5. DOMAIN table' \subseteq ConnectionId /\ table' \in [DOMAIN table' -> Connection]
    BY <2>2, <2>4 DEF TypeOK, Put
  <2>6. DOMAIN conns' \subseteq ConnectionId /\ conns' \in [DOMAIN conns' -> HostConn]
    BY <2>3, <2>4 DEF TypeOK, Put
  <2>7. /\ DOMAIN endpointToConn' \subseteq Peer
        /\ endpointToConn' \in [DOMAIN endpointToConn' -> ConnectionId]
    BY <2>1, <2>4 DEF TypeOK, Put
  <2>8. nextId' \in ConnectionId /\ accepted' \in Seq(Peer)
    BY <1>2, <2>1 DEF TypeOK, Accept
  <2> QED
    BY <1>2, <2>5, <2>6, <2>7, <2>8 DEF TypeOK, Accept, sessionVars, historyVars
<1>3. CASE RejectCapacity
  <2>1. Head(accepted) \in Peer /\ Tail(accepted) \in Seq(Peer)
    BY <1>3, HeadTailProperties DEF TypeOK, RejectCapacity
  <2> QED
    BY <1>3, <2>1 DEF TypeOK, RejectCapacity, TrySend, connVars, sessionVars, historyVars
<1>4. CASE DropDatagram
  <2>1. Tail(received) \in Seq(Peer)
    BY <1>4, HeadTailProperties DEF TypeOK, DropDatagram, Take
  <2> QED
    BY <1>4, <2>1 DEF TypeOK, DropDatagram, Take, connVars, sessionVars, historyVars
<1>5. ASSUME NEW id \in 1..(nextId - 1), ConnectionStep(id)
      PROVE  TypeOK'
  <2>0. id \in ConnectionId
    BY DEF TypeOK
  <2>1. ASSUME NEW message \in HandshakeMessage, ReceiveHandshake(id, message)
        PROVE  TypeOK'
    <3>1. Tail(received) \in Seq(Peer)
      BY <2>1, HeadTailProperties DEF TypeOK, ReceiveHandshake, Arrives, Take
    <3>2. conns[id] \in HostConn
      BY <2>1 DEF TypeOK, ReceiveHandshake, Arrives
    <3>3. Append(conns[id].inbox, message) \in Seq(HandshakeMessage)
      BY <3>2, AppendProperties DEF HostConn
    <3>4. DOMAIN conns' = DOMAIN conns /\ conns' \in [DOMAIN conns' -> HostConn]
      BY <2>1, <3>2, <3>3 DEF TypeOK, ReceiveHandshake, HostConn
    <3>5. DOMAIN table' = Ids /\ table' \in [DOMAIN table' -> Connection]
      BY <2>1, ConnectionUpdates DEF TypeOK, ReceiveHandshake, Heard
    <3> QED
      BY <2>1, <3>1, <3>4, <3>5
      DEF TypeOK, ReceiveHandshake, Arrives, Take, sessionVars, historyVars
  <2>2. CASE ReceivePing(id)
    <3>1. Tail(received) \in Seq(Peer)
      BY <2>2, HeadTailProperties DEF TypeOK, ReceivePing, Arrives, Take
    <3>2. conns[id] \in HostConn
      BY <2>2 DEF TypeOK, ReceivePing, Arrives
    <3>3. Append(conns[id].outbox, "Pong") \in Seq(Control)
      BY <3>2, AppendProperties DEF HostConn, Control
    <3>4. DOMAIN conns' = DOMAIN conns /\ conns' \in [DOMAIN conns' -> HostConn]
      BY <2>2, <3>2, <3>3 DEF TypeOK, ReceivePing, EnqueueControl, HostConn
    <3>5. DOMAIN table' = Ids /\ table' \in [DOMAIN table' -> Connection]
      BY <2>2, ConnectionUpdates DEF TypeOK, ReceivePing, Heard
    <3> QED
      BY <2>2, <3>1, <3>4, <3>5
      DEF TypeOK, ReceivePing, Arrives, Take, sessionVars, historyVars
  <2>3. CASE ReceiveBye(id)
    <3>1. Tail(received) \in Seq(Peer)
      BY <2>3, HeadTailProperties DEF TypeOK, ReceiveBye, Arrives, Take
    <3> QED
      BY <2>0, <2>3, <3>1, DisconnectType
      DEF TypeOK, ReceiveBye, Arrives, Take, historyVars
  <2>4. CASE ReceiveOther(id)
    <3>1. Tail(received) \in Seq(Peer)
      BY <2>4, HeadTailProperties DEF TypeOK, ReceiveOther, Arrives, Take
    <3>2. DOMAIN table' = Ids /\ table' \in [DOMAIN table' -> Connection]
      BY <2>4, ConnectionUpdates DEF TypeOK, ReceiveOther, Heard
    <3> QED
      BY <2>4, <3>1, <3>2 DEF TypeOK, ReceiveOther, Arrives, Take, sessionVars, historyVars
  <2>5. CASE TimeOut(id)
    BY <2>0, <2>5, DisconnectType DEF TypeOK, TimeOut, transportVars, historyVars
  <2>6. CASE SkipHandshake(id)
    BY <2>6 DEF TypeOK, SkipHandshake, Handshaking, connVars, sessionVars, transportVars, historyVars
  <2>7. CASE DropHandshake(id)
    BY <2>0, <2>7, DisconnectType
    DEF TypeOK, DropHandshake, Outcome, Handshaking, transportVars, historyVars
  <2>8. ASSUME NEW state \in HandshakeState, AdvanceHandshake(id, state)
        PROVE  TypeOK'
    <3>1. conns[id] \in HostConn /\ conns[id].inbox # <<>>
      BY <2>8 DEF TypeOK, AdvanceHandshake, Outcome
    <3>2. Tail(conns[id].inbox) \in Seq(HandshakeMessage)
      BY <3>1, HeadTailProperties DEF HostConn
    <3>3. Append(conns[id].outbox, Reply(state)) \in Seq(Control)
      BY <3>1, AppendProperties DEF HostConn, Control, Reply
    <3>4. DOMAIN conns' = DOMAIN conns /\ conns' \in [DOMAIN conns' -> HostConn]
      <4> DEFINE hc == [conns[id] EXCEPT !.inbox = Tail(@), !.outbox = Append(@, Reply(state))]
      <4>1. hc \in HostConn
        BY <3>1, <3>2, <3>3 DEF HostConn
      <4>2. conns' = [conns EXCEPT ![id] = hc]
        BY <2>8 DEF AdvanceHandshake
      <4> HIDE DEF hc
      <4> QED
        BY <4>1, <4>2 DEF TypeOK
    <3>5. DOMAIN table' = Ids /\ table' \in [DOMAIN table' -> Connection]
      <4>1. CASE id \notin Ids
        BY <2>8, <4>1 DEF TypeOK, AdvanceHandshake
      <4>2. CASE id \in Ids
        <5>1. table[id] \in Connection
          BY <4>2 DEF TypeOK
        <5>2. CASE state = "Established"
          BY <2>8, <5>1, <5>2, ConnectionUpdates DEF TypeOK, AdvanceHandshake
        <5>3. CASE state # "Established"
          BY <2>8, <5>1, <5>3, ConnectionUpdates DEF TypeOK, AdvanceHandshake
        <5> QED
          BY <5>2, <5>3
      <4> QED
        BY <4>1, <4>2
    <3>6. Append(deltas, [kind |-> "Joined", connection |-> id]) \in Seq(Delta)
      <4>1. [kind |-> "Joined", connection |-> id] \in Delta
        BY <2>0 DEF Delta
      <4> QED
        BY <4>1, AppendProperties DEF TypeOK
    <3>7. /\ members' \in SUBSET ConnectionId
          /\ admitted' \in SUBSET ConnectionId
          /\ deltas' \in Seq(Delta)
      BY <2>0, <2>8, <3>6 DEF TypeOK, AdvanceHandshake, Admit, sessionVars
    <3> QED
      BY <2>8, <3>4, <3>5, <3>7
      DEF TypeOK, AdvanceHandshake, Outcome, Handshaking, transportVars, historyVars
  <2>9. CASE DrainPacket(id)
    <3>1. conns[id] \in HostConn /\ conns[id].outbox # <<>>
      BY <2>9 DEF TypeOK, DrainPacket
    <3>2. /\ Head(conns[id].outbox) \in Control
          /\ Tail(conns[id].outbox) \in Seq(Control)
          /\ conns[id].endpoint \in Peer
      BY <3>1, HeadTailProperties DEF HostConn
    <3>3. DOMAIN conns' = DOMAIN conns /\ conns' \in [DOMAIN conns' -> HostConn]
      BY <2>9, <3>1, <3>2 DEF TypeOK, DrainPacket, HostConn
    <3>4. lastSent' \in [Peer -> Control \cup {"Bye", "Nothing"}]
      BY <2>9, <3>2 DEF TypeOK, DrainPacket, TrySend
    <3> QED
      BY <2>9, <3>3, <3>4 DEF TypeOK, DrainPacket, sessionVars, transportVars, historyVars
  <2>10. CASE DrainNext(id)
    BY <2>10 DEF TypeOK, DrainNext, connVars, sessionVars, transportVars, historyVars
  <2>11. CASE StopConnection(id)
    BY <2>0, <2>11, DisconnectType DEF TypeOK, StopConnection, transportVars, historyVars
  <2> QED
    BY <1>5, <2>1, <2>2, <2>3, <2>4, <2>5, <2>6, <2>7, <2>8, <2>9, <2>10, <2>11
    DEF ConnectionStep
<1>6. CASE StopStep
  <2>1. CASE Stop
    BY <2>1 DEF TypeOK, Stop, Stage, connVars, sessionVars, historyVars
  <2>2. CASE EndStop
    BY <2>2 DEF TypeOK, EndStop, Stage, Nothing, sessionVars, transportVars, historyVars
  <2>3. CASE Stopped
    BY <2>3 DEF TypeOK, Stopped, hostVars, connVars, sessionVars, transportVars, historyVars
  <2> QED
    BY <1>6, <2>1, <2>2, <2>3 DEF StopStep
<1>7. ASSUME NEW id \in 1..(nextId - 1), NEW kind \in {"Joined", "Left"},
             DeliverDelta(kind, id)
      PROVE  TypeOK'
  <2>1. deltas' \in Seq(Delta)
    BY <1>7, RemoveAtProperties, LenProperties DEF TypeOK, DeliverDelta
  <2>2. joined' \in SUBSET ConnectionId /\ left' \in SUBSET ConnectionId
    BY <1>7 DEF TypeOK, DeliverDelta
  <2> QED
    BY <1>7, <2>1, <2>2 DEF TypeOK, DeliverDelta, connVars, transportVars
<1>8. ASSUME NEW id \in 1..(nextId - 1), NEW message \in DataMessage,
             ReceiveData(id, message)
      PROVE  TypeOK'
  <2>1. Tail(received) \in Seq(Peer)
    BY <1>8, HeadTailProperties DEF TypeOK, ReceiveData, Arrives, Take
  <2>2. DOMAIN table' = Ids /\ table' \in [DOMAIN table' -> Connection]
    BY <1>8, ConnectionUpdates DEF TypeOK, ReceiveData, Heard
  <2> QED
    BY <1>8, <2>1, <2>2 DEF TypeOK, ReceiveData, Arrives, Take, sessionVars, historyVars
<1>9. ASSUME NEW peer \in Peer, PollDatagram(peer)
      PROVE  TypeOK'
  <2>1. Append(received, peer) \in Seq(Peer) /\ Append(accepted, peer) \in Seq(Peer)
    BY AppendProperties DEF TypeOK
  <2> QED
    BY <1>9, <2>1 DEF TypeOK, PollDatagram, connVars, sessionVars, historyVars
<1>10. CASE UNCHANGED hostVars
  BY <1>10 DEF TypeOK, hostVars, connVars, sessionVars, transportVars, historyVars
<1> QED
  BY <1>1, <1>2, <1>3, <1>4, <1>5, <1>6, <1>7, <1>8, <1>9, <1>10
  DEF Next, PassStep, SharedStep

(***************************************************************************)
(* Type correctness of every variable, for every value of the constants.   *)
(***************************************************************************)
THEOREM TypeInvariant == Spec => []TypeOK
<1>1. Init => TypeOK
  BY EmptySeq DEF Init, TypeOK, Stage, Nothing
<1> QED
  BY <1>1, TypeStep, PTL DEF Spec
-----------------------------------------------------------------------------
(***************************************************************************)
(* Routing: the three keyed stores, the loops over them and the endpoints  *)
(* the transport accepts.                                                  *)
(***************************************************************************)
RouteInv ==
    /\ RoutingConsistent /\ TodoIsStored /\ EndpointsAreFresh /\ WithinTable
    /\ \A id \in Ids : id < nextId

\* A step that keeps the keys and endpoints of the stores keeps the routes.
LEMMA RoutesKept ==
    ASSUME RouteInv,
           Ids' = Ids, DOMAIN conns' = DOMAIN conns,
           \A id \in Ids : table'[id].endpoint = table[id].endpoint,
           \A id \in DOMAIN conns : conns'[id].endpoint = conns[id].endpoint,
           UNCHANGED <<endpointToConn, nextId>>
    PROVE  RoutingConsistent' /\ WithinTable' /\ (\A id \in Ids' : id < nextId')
<1>1. RoutingConsistent'
  BY DEF RouteInv, RoutingConsistent
<1>2. WithinTable'
  BY DEF RouteInv, WithinTable
<1> QED
  BY <1>1, <1>2 DEF RouteInv

\* Disconnect takes a stored connection out of all three stores.
LEMMA DisconnectRoutes ==
    ASSUME TypeOK, RouteInv, NEW id \in Ids, Disconnect(id)
    PROVE  /\ Ids' = Ids \ {id}
           /\ \A other \in Ids \ {id} : table'[other] = table[other]
           /\ RoutingConsistent'
           /\ WithinTable'
           /\ DOMAIN endpointToConn' \subseteq DOMAIN endpointToConn
<1>1. Ids' = Ids \ {id} /\ \A other \in Ids \ {id} : table'[other] = table[other]
  BY DEF Disconnect, Erase
<1>2. id \in DOMAIN conns /\ conns[id].endpoint = table[id].endpoint
  BY DEF RouteInv, RoutingConsistent
<1>3. /\ DOMAIN conns' = DOMAIN conns \ {id}
      /\ \A other \in DOMAIN conns \ {id} : conns'[other] = conns[other]
  BY <1>2 DEF Disconnect, Erase
<1>4. /\ DOMAIN endpointToConn' = DOMAIN endpointToConn \ {table[id].endpoint}
      /\ \A p \in DOMAIN endpointToConn' : endpointToConn'[p] = endpointToConn[p]
  BY <1>2 DEF Disconnect, Erase
<1>5. RoutingConsistent'
  BY <1>1, <1>3, <1>4 DEF RouteInv, RoutingConsistent
<1>6. WithinTable'
  <2>1. IsFiniteSet(Ids) /\ Cardinality(Ids) <= MaxConnections
    BY DEF RouteInv, WithinTable
  <2>2. IsFiniteSet(Ids') /\ Cardinality(Ids') <= Cardinality(Ids)
    BY <1>1, <2>1, FS_Subset
  <2>3. Cardinality(Ids) \in Nat /\ Cardinality(Ids') \in Nat
    BY <2>1, <2>2, FS_CardinalityType
  <2> QED
    BY <2>1, <2>2, <2>3, CapacityAssumption DEF WithinTable
<1> QED
  BY <1>1, <1>4, <1>5, <1>6

\* The transport's side of the routes is kept when no endpoint is added.
LEMMA EndpointsKept ==
    ASSUME EndpointsAreFresh, UNCHANGED <<known, accepted>>,
           DOMAIN endpointToConn' \subseteq DOMAIN endpointToConn
    PROVE  EndpointsAreFresh'
BY DEF EndpointsAreFresh

\* Taking the head off the accepted endpoints.
LEMMA AcceptedTail ==
    ASSUME TypeOK, EndpointsAreFresh, accepted # <<>>, accepted' = Tail(accepted),
           known' = known,
           DOMAIN endpointToConn' \subseteq DOMAIN endpointToConn \cup {Head(accepted)}
    PROVE  EndpointsAreFresh' /\ Head(accepted) \in known \ DOMAIN endpointToConn
<1>1. /\ Len(accepted) \in Nat \ {0}
      /\ DOMAIN accepted = 1..Len(accepted)
      /\ accepted' \in Seq(Peer)
      /\ Len(accepted') = Len(accepted) - 1
      /\ \A i \in 1..Len(accepted') : accepted'[i] = accepted[i + 1]
      /\ Head(accepted) = accepted[1]
  BY LenProperties, EmptySeq, HeadTailProperties DEF TypeOK
<1>2. DOMAIN accepted' = 1..(Len(accepted) - 1)
  BY <1>1, LenProperties
<1>3. \A i \in DOMAIN accepted' : i + 1 \in DOMAIN accepted /\ i + 1 # 1
  BY <1>1, <1>2
<1> QED
  BY <1>1, <1>2, <1>3 DEF EndpointsAreFresh

\* Every step of the host keeps the routes.
LEMMA RouteStep ==
    ASSUME TypeOK, RouteInv, [Next]_hostVars
    PROVE  RouteInv'
<1>1. CASE FrameStep
  <2>1. CASE BeginFrame
    BY <2>1, RoutesKept, EndpointsKept
    DEF BeginFrame, RouteInv, TodoIsStored, connVars, sessionVars, transportVars, historyVars
  <2>2. CASE EndPoll
    BY <2>2, RoutesKept, EndpointsKept
    DEF EndPoll, RouteInv, TodoIsStored, connVars, sessionVars, transportVars, historyVars
  <2>3. CASE EndAccept
    BY <2>3, RoutesKept, EndpointsKept
    DEF EndAccept, RouteInv, TodoIsStored, connVars, sessionVars, transportVars, historyVars
  <2>4. CASE EndReceive
    BY <2>4, RoutesKept, EndpointsKept
    DEF EndReceive, RouteInv, TodoIsStored, connVars, sessionVars, transportVars, historyVars
  <2>5. CASE EndTimeouts
    BY <2>5, RoutesKept, EndpointsKept
    DEF EndTimeouts, RouteInv, TodoIsStored, connVars, sessionVars, transportVars, historyVars
  <2>6. CASE EndHandshake
    BY <2>6, RoutesKept, EndpointsKept
    DEF EndHandshake, RouteInv, TodoIsStored, connVars, sessionVars, transportVars, historyVars
  <2>7. CASE EndDrain
    BY <2>7, RoutesKept, EndpointsKept
    DEF EndDrain, RouteInv, TodoIsStored, connVars, sessionVars, transportVars, historyVars
  <2>8. CASE BeginTick
    <3>1. Ids' = Ids /\ \A id \in Ids : table'[id].endpoint = table[id].endpoint
      BY <2>8 DEF BeginTick, TypeOK, Connection
    <3> QED
      BY <2>8, <3>1, RoutesKept, EndpointsKept
      DEF BeginTick, RouteInv, TodoIsStored, transportVars
  <2>9. CASE Heartbeat
    <3>1. Ids' = Ids /\ \A id \in Ids : table'[id].endpoint = table[id].endpoint
      BY <2>9 DEF Heartbeat
    <3>2. /\ DOMAIN conns' = DOMAIN conns
          /\ \A id \in DOMAIN conns : conns'[id].endpoint = conns[id].endpoint
      BY <2>9 DEF TypeOK, HostConn, Heartbeat
    <3> QED
      BY <2>9, <3>1, <3>2, RoutesKept, EndpointsKept
      DEF Heartbeat, RouteInv, TodoIsStored, transportVars
  <2> QED
    BY <1>1, <2>1, <2>2, <2>3, <2>4, <2>5, <2>6, <2>7, <2>8, <2>9 DEF FrameStep
<1>2. CASE Accept
  <2> DEFINE peer == Head(accepted)
  <2>1. nextId \in Nat /\ nextId \notin Ids
    BY DEF TypeOK, RouteInv
  <2>2. /\ Ids' = Ids \cup {nextId}
        /\ \A id \in Ids : table'[id] = table[id]
        /\ table'[nextId].endpoint = peer
    BY <1>2, <2>1 DEF Accept, Put, NewConnection
  <2>3. /\ DOMAIN conns' = DOMAIN conns \cup {nextId}
        /\ \A id \in DOMAIN conns : conns'[id] = conns[id]
        /\ conns'[nextId].endpoint = peer
    BY <1>2, <2>1 DEF Accept, Put, RouteInv, RoutingConsistent
  <2>4. DOMAIN endpointToConn' = DOMAIN endpointToConn \cup {peer}
    BY <1>2 DEF Accept, Put
  <2>5. EndpointsAreFresh' /\ peer \notin DOMAIN endpointToConn
    BY <1>2, <2>4, AcceptedTail DEF Accept, RouteInv
  <2>6. /\ \A p \in DOMAIN endpointToConn : endpointToConn'[p] = endpointToConn[p]
        /\ endpointToConn'[peer] = nextId
    BY <1>2, <2>5 DEF Accept, Put
  <2> HIDE DEF peer
  <2>7. RoutingConsistent'
    <3>1. DOMAIN conns' = Ids'
      BY <2>2, <2>3 DEF RouteInv, RoutingConsistent
    <3>2. ASSUME NEW id \in Ids'
          PROVE  /\ conns'[id].endpoint = table'[id].endpoint
                 /\ table'[id].endpoint \in DOMAIN endpointToConn'
                 /\ endpointToConn'[table'[id].endpoint] = id
      <4>1. CASE id \in Ids
        BY <2>2, <2>3, <2>4, <2>6, <4>1 DEF RouteInv, RoutingConsistent
      <4>2. CASE id = nextId
        BY <2>2, <2>3, <2>4, <2>6, <4>2
      <4> QED
        BY <2>2, <4>1, <4>2
    <3>3. ASSUME NEW p \in DOMAIN endpointToConn'
          PROVE  endpointToConn'[p] \in Ids' /\ table'[endpointToConn'[p]].endpoint = p
      <4>1. CASE p \in DOMAIN endpointToConn
        BY <2>2, <2>6, <4>1 DEF RouteInv, RoutingConsistent
      <4>2. CASE p = peer
        BY <2>2, <2>6, <4>2
      <4> QED
        BY <2>4, <4>1, <4>2
    <3> QED
      BY <3>1, <3>2, <3>3 DEF RoutingConsistent
  <2>8. WithinTable'
    <3>1. IsFiniteSet(Ids) /\ Cardinality(Ids) < MaxConnections
      BY <1>2 DEF Accept, RouteInv, WithinTable
    <3>2. IsFiniteSet(Ids') /\ Cardinality(Ids') = Cardinality(Ids) + 1
      BY <2>1, <2>2, <3>1, FS_AddElement
    <3>3. Cardinality(Ids) \in Nat
      BY <3>1, FS_CardinalityType
    <3> QED
      BY <3>1, <3>2, <3>3, CapacityAssumption DEF WithinTable
  <2>9. \A id \in Ids' : id < nextId'
    <3>1. nextId' = nextId + 1
      BY <1>2 DEF Accept
    <3>2. \A id \in Ids : id \in Nat /\ id < nextId
      BY DEF TypeOK, RouteInv
    <3> QED
      BY <2>1, <2>2, <3>1, <3>2
  <2>10. TodoIsStored'
    BY <1>2 DEF Accept, TodoIsStored
  <2> QED
    BY <2>5, <2>7, <2>8, <2>9, <2>10 DEF RouteInv
<1>3. CASE RejectCapacity
  BY <1>3, RoutesKept, AcceptedTail
  DEF RejectCapacity, RouteInv, TodoIsStored, connVars
<1>4. CASE DropDatagram
  BY <1>4, RoutesKept, EndpointsKept
  DEF DropDatagram, RouteInv, TodoIsStored, connVars
<1>5. ASSUME NEW id \in 1..(nextId - 1), ConnectionStep(id)
      PROVE  RouteInv'
  <2>1. ASSUME NEW message \in HandshakeMessage, ReceiveHandshake(id, message)
        PROVE  RouteInv'
    <3>1. Ids' = Ids /\ \A x \in Ids : table'[x].endpoint = table[x].endpoint
      BY <2>1 DEF TypeOK, Connection, ReceiveHandshake, Heard
    <3>2. /\ DOMAIN conns' = DOMAIN conns
          /\ \A x \in DOMAIN conns : conns'[x].endpoint = conns[x].endpoint
      BY <2>1 DEF TypeOK, HostConn, ReceiveHandshake
    <3> QED
      BY <2>1, <3>1, <3>2, RoutesKept, EndpointsKept
      DEF ReceiveHandshake, Arrives, RouteInv, TodoIsStored
  <2>2. CASE ReceivePing(id)
    <3>1. Ids' = Ids /\ \A x \in Ids : table'[x].endpoint = table[x].endpoint
      BY <2>2 DEF TypeOK, Connection, ReceivePing, Heard
    <3>2. /\ DOMAIN conns' = DOMAIN conns
          /\ \A x \in DOMAIN conns : conns'[x].endpoint = conns[x].endpoint
      BY <2>2 DEF TypeOK, HostConn, ReceivePing, EnqueueControl
    <3> QED
      BY <2>2, <3>1, <3>2, RoutesKept, EndpointsKept
      DEF ReceivePing, Arrives, RouteInv, TodoIsStored
  <2>3. CASE ReceiveBye(id)
    BY <2>3, DisconnectRoutes, EndpointsKept
    DEF ReceiveBye, Arrives, Take, RouteInv, TodoIsStored
  <2>4. CASE ReceiveOther(id)
    <3>1. Ids' = Ids /\ \A x \in Ids : table'[x].endpoint = table[x].endpoint
      BY <2>4 DEF TypeOK, Connection, ReceiveOther, Heard
    <3> QED
      BY <2>4, <3>1, RoutesKept, EndpointsKept
      DEF ReceiveOther, Arrives, RouteInv, TodoIsStored
  <2>5. CASE TimeOut(id)
    BY <2>5, DisconnectRoutes, EndpointsKept
    DEF TimeOut, IsNext, RouteInv, TodoIsStored, transportVars
  <2>6. CASE SkipHandshake(id)
    BY <2>6, RoutesKept, EndpointsKept
    DEF SkipHandshake, Handshaking, RouteInv, TodoIsStored, connVars, transportVars
  <2>7. CASE DropHandshake(id)
    BY <2>7, DisconnectRoutes, EndpointsKept
    DEF DropHandshake, Outcome, Handshaking, IsNext, RouteInv, TodoIsStored, transportVars
  <2>8. ASSUME NEW state \in HandshakeState, AdvanceHandshake(id, state)
        PROVE  RouteInv'
    <3>1. Ids' = Ids /\ \A x \in Ids : table'[x].endpoint = table[x].endpoint
      <4>1. CASE state = "Established"
        <5>1. table' = [table EXCEPT ![id] = [@ EXCEPT !.handshake = state,
                                                       !.state = "Connected",
                                                       !.sendAge = 0]]
          BY <2>8, <4>1 DEF AdvanceHandshake
        <5>2. \A x \in Ids : table[x] \in Connection
          BY DEF TypeOK
        <5>3. ASSUME NEW x \in Ids
              PROVE  table'[x].endpoint = table[x].endpoint
          <6>1. CASE x = id
            <7>1. table'[x] = [table[x] EXCEPT !.handshake = state,
                                               !.state = "Connected",
                                               !.sendAge = 0]
              BY <5>1, <6>1
            <7>2. table[x] \in Connection
              BY <5>2
            <7> QED
              BY <7>1, <7>2 DEF Connection
          <6>2. CASE x # id
            BY <5>1, <6>2
          <6> QED
            BY <6>1, <6>2
        <5>4. Ids' = Ids
          BY <5>1
        <5> QED
          BY <5>3, <5>4
      <4>2. CASE state # "Established"
        <5>1. table' = [table EXCEPT ![id].handshake = state]
          BY <2>8, <4>2 DEF AdvanceHandshake
        <5> QED
          BY <5>1 DEF TypeOK, Connection
      <4> QED
        BY <4>1, <4>2
    <3>2. /\ DOMAIN conns' = DOMAIN conns
          /\ \A x \in DOMAIN conns : conns'[x].endpoint = conns[x].endpoint
      BY <2>8 DEF TypeOK, HostConn, AdvanceHandshake
    <3> QED
      BY <2>8, <3>1, <3>2, RoutesKept, EndpointsKept
      DEF AdvanceHandshake, Outcome, Handshaking, RouteInv, TodoIsStored, transportVars
  <2>9. CASE DrainPacket(id)
    <3>2. /\ DOMAIN conns' = DOMAIN conns
          /\ \A x \in DOMAIN conns : conns'[x].endpoint = conns[x].endpoint
      BY <2>9 DEF TypeOK, HostConn, DrainPacket
    <3> QED
      BY <2>9, <3>2, RoutesKept, EndpointsKept
      DEF DrainPacket, RouteInv, TodoIsStored, transportVars
  <2>10. CASE DrainNext(id)
    BY <2>10, RoutesKept, EndpointsKept
    DEF DrainNext, RouteInv, TodoIsStored, connVars, transportVars
  <2>11. CASE StopConnection(id)
    BY <2>11, DisconnectRoutes, EndpointsKept
    DEF StopConnection, IsNext, RouteInv, TodoIsStored, transportVars
  <2> QED
    BY <1>5, <2>1, <2>2, <2>3, <2>4, <2>5, <2>6, <2>7, <2>8, <2>9, <2>10, <2>11
    DEF ConnectionStep
<1>6. CASE StopStep
  <2>1. CASE Stop
    BY <2>1, RoutesKept, EndpointsKept DEF Stop, RouteInv, TodoIsStored, connVars
  <2>2. CASE EndStop
    BY <2>2, EndpointsKept
    DEF EndStop, Nothing, RouteInv, RoutingConsistent, TodoIsStored, WithinTable, transportVars
  <2>3. CASE Stopped
    BY <2>3, RoutesKept, EndpointsKept
    DEF Stopped, hostVars, connVars, RouteInv, TodoIsStored, transportVars
  <2> QED
    BY <1>6, <2>1, <2>2, <2>3 DEF StopStep
<1>7. ASSUME NEW id \in 1..(nextId - 1), NEW kind \in {"Joined", "Left"},
             DeliverDelta(kind, id)
      PROVE  RouteInv'
  BY <1>7, RoutesKept, EndpointsKept
  DEF DeliverDelta, RouteInv, TodoIsStored, connVars, transportVars
<1>8. ASSUME NEW id \in 1..(nextId - 1), NEW message \in DataMessage,
             ReceiveData(id, message)
      PROVE  RouteInv'
  <2>1. Ids' = Ids /\ \A x \in Ids : table'[x].endpoint = table[x].endpoint
    BY <1>8 DEF TypeOK, Connection, ReceiveData, Heard
  <2> QED
    BY <1>8, <2>1, RoutesKept, EndpointsKept
    DEF ReceiveData, Arrives, RouteInv, TodoIsStored
<1>9. ASSUME NEW peer \in Peer, PollDatagram(peer)
      PROVE  RouteInv'
  <2>1. EndpointsAreFresh'
    <3>1. CASE peer \in known
      BY <1>9, <3>1 DEF PollDatagram, connVars, RouteInv, EndpointsAreFresh
    <3>2. CASE peer \notin known
      <4>1. /\ Len(accepted) \in Nat
            /\ DOMAIN accepted = 1..Len(accepted)
            /\ accepted' \in Seq(Peer)
            /\ Len(accepted') = Len(accepted) + 1
            /\ \A i \in 1..Len(accepted) : accepted'[i] = accepted[i]
            /\ accepted'[Len(accepted) + 1] = peer
        BY <1>9, <3>2, LenProperties, AppendProperties DEF PollDatagram, TypeOK
      <4>2. DOMAIN accepted' = DOMAIN accepted \cup {Len(accepted) + 1}
        BY <4>1, LenProperties
      <4> QED
        BY <1>9, <3>2, <4>1, <4>2 DEF PollDatagram, connVars, RouteInv, EndpointsAreFresh
    <3> QED
      BY <3>1, <3>2
  <2> QED
    BY <1>9, <2>1, RoutesKept DEF PollDatagram, RouteInv, TodoIsStored, connVars
<1>10. CASE UNCHANGED hostVars
  BY <1>10, RoutesKept, EndpointsKept
  DEF hostVars, connVars, RouteInv, TodoIsStored, transportVars
<1> QED
  BY <1>1, <1>2, <1>3, <1>4, <1>5, <1>6, <1>7, <1>8, <1>9, <1>10
  DEF Next, PassStep, SharedStep

LEMMA RouteInit == Init => RouteInv
<1>1. Init => Ids = {} /\ DOMAIN conns = {} /\ DOMAIN endpointToConn = {}
  BY DEF Init, Nothing
<1>2. Init => WithinTable
  BY <1>1, FS_EmptySet, CapacityAssumption DEF WithinTable
<1>3. Init => EndpointsAreFresh
  BY <1>1 DEF Init, EndpointsAreFresh
<1> QED
  BY <1>1, <1>2, <1>3 DEF Init, RouteInv, RoutingConsistent, TodoIsStored

(***************************************************************************)
(* ConnectionTable, m_conns and m_endpointToConn agree at every point of   *)
(* every loop of the tick and of Stop, for any number of peers and slots.  *)
(***************************************************************************)
THEOREM Routing == Spec => []RoutingConsistent
<1>1. RouteInv => RoutingConsistent
  BY DEF RouteInv
<1> QED
  BY <1>1, RouteInit, RouteStep, TypeInvariant, PTL DEF Spec

-----------------------------------------------------------------------------
(***************************************************************************)
(* What HostServer promises of its session, on top of its routes: members  *)
(* are the established connections, each membership is reported once and   *)
(* in order, and nothing follows a Bye.                                    *)
(***************************************************************************)

USE DEF ConnectionId, Ids

ReachInv == TypeOK /\ RouteInv

LEMMA ReachIsInvariant == Spec => []ReachInv
<1>1. TypeOK /\ RouteInv => ReachInv
  BY DEF ReachInv
<1> QED
  BY <1>1, TypeInvariant, RouteInit, RouteStep, PTL DEF Spec

-----------------------------------------------------------------------------
(***************************************************************************)
(* Members.  The three ways a step can touch the session, and the rest.    *)
(***************************************************************************)

\* An id that is admitted, or stored, was given out before; a stored connection that
\* was ever a member still is one.
MemberInv ==
    /\ MembersAreConnected
    /\ \A id \in admitted : id < nextId
    /\ members \subseteq admitted
    /\ admitted \cap Ids \subseteq members

\* A step that keeps the ids and phases keeps the members.
LEMMA MembersKept ==
    ASSUME MemberInv, Ids' = Ids, nextId' = nextId, UNCHANGED <<members, admitted>>,
           \A id \in Ids : /\ table'[id].handshake = table[id].handshake
                           /\ table'[id].state = table[id].state
    PROVE  MemberInv'
  BY DEF MemberInv, MembersAreConnected

\* Whatever disconnects a stored connection ends its membership with it.
LEMMA DisconnectMembers ==
    ASSUME MemberInv, NEW id \in Ids, Disconnect(id), nextId' = nextId
    PROVE  MemberInv'
<1>1. Ids' = Ids \ {id} /\ \A other \in Ids \ {id} : table'[other] = table[other]
  BY DEF Disconnect, Erase
<1>2. members' = members \ {id} /\ admitted' = admitted
  BY DEF Disconnect, Remove, sessionVars
<1> QED
  BY <1>1, <1>2 DEF MemberInv, MembersAreConnected

\* A handshake that completes makes a member: Admit is not refused, because a table
\* with a connection that is no member has room for one more member.
LEMMA AdmitSucceeds ==
    ASSUME ReachInv, MemberInv, NEW id \in Ids, table[id].handshake # "Established",
           Admit(id)
    PROVE  /\ id \notin admitted
           /\ members' = members \cup {id}
           /\ admitted' = admitted \cup {id}
           /\ deltas' = Append(deltas, [kind |-> "Joined", connection |-> id])
<1>1. id \notin members /\ members \subseteq Ids
  BY DEF MemberInv, MembersAreConnected
<1>2. id \notin admitted
  BY <1>1 DEF MemberInv
<1>3. IsFiniteSet(Ids) /\ Cardinality(Ids) <= MaxConnections
  BY DEF ReachInv, RouteInv, WithinTable
<1>4. /\ IsFiniteSet(members) /\ Cardinality(members) \in Nat
      /\ IsFiniteSet(members \cup {id})
      /\ Cardinality(members \cup {id}) = Cardinality(members) + 1
  BY <1>1, <1>3, FS_Subset, FS_AddElement, FS_CardinalityType
<1>5. Cardinality(members \cup {id}) <= Cardinality(Ids)
  BY <1>1, <1>3, FS_Subset
<1>6. Cardinality(members) < MaxConnections
  BY <1>3, <1>4, <1>5, FS_CardinalityType, CapacityAssumption
<1> QED
  BY <1>1, <1>2, <1>6 DEF Admit

\* What an advance of the handshake does to its connection.
LEMMA AdvanceEffect ==
    ASSUME ReachInv, NEW id \in 1..(nextId - 1), NEW state \in HandshakeState,
           AdvanceHandshake(id, state)
    PROVE  /\ id \in Ids /\ Ids' = Ids /\ nextId' = nextId
           /\ table[id].handshake # "Established"
           /\ \A other \in Ids \ {id} : table'[other] = table[other]
           /\ table'[id].handshake = state
           /\ state = "Established" => table'[id].state = "Connected" /\ Admit(id)
           /\ state # "Established" => /\ table'[id].state = table[id].state
                                       /\ UNCHANGED sessionVars
           /\ UNCHANGED <<joined, left>>
<1>1. id \in Ids
  BY DEF AdvanceHandshake, Outcome, Handshaking, IsNext, ReachInv, RouteInv, TodoIsStored
<1>2. table[id] \in Connection
  BY <1>1 DEF ReachInv, TypeOK
<1>3. nextId' = nextId /\ UNCHANGED <<joined, left>>
  BY DEF AdvanceHandshake, Outcome, historyVars
<1>4. table[id].handshake # "Established"
  <2>1. PICK authorized \in BOOLEAN :
           state = Advance(table[id].handshake, Head(conns[id].inbox), authorized)
    BY DEF AdvanceHandshake, Outcome
  <2> QED
    BY <2>1 DEF Advance, HandshakeState
<1>5. CASE state = "Established"
  <2>1. /\ table' = [table EXCEPT ![id] = [@ EXCEPT !.handshake = state,
                                                    !.state = "Connected",
                                                    !.sendAge = 0]]
        /\ Admit(id)
    BY <1>5 DEF AdvanceHandshake
  <2>2. /\ Ids' = Ids
        /\ \A other \in Ids \ {id} : table'[other] = table[other]
        /\ table'[id] = [table[id] EXCEPT !.handshake = state,
                                          !.state = "Connected",
                                          !.sendAge = 0]
    BY <1>1, <2>1
  <2>3. table'[id].handshake = state /\ table'[id].state = "Connected"
    BY <1>2, <2>2 DEF Connection
  <2> QED
    BY <1>1, <1>3, <1>4, <1>5, <2>1, <2>2, <2>3
<1>6. CASE state # "Established"
  <2>1. table' = [table EXCEPT ![id].handshake = state] /\ UNCHANGED sessionVars
    BY <1>6 DEF AdvanceHandshake
  <2>2. /\ Ids' = Ids
        /\ \A other \in Ids \ {id} : table'[other] = table[other]
        /\ table'[id] = [table[id] EXCEPT !.handshake = state]
    BY <1>1, <2>1
  <2>3. table'[id].handshake = state /\ table'[id].state = table[id].state
    BY <1>2, <2>2 DEF Connection
  <2> QED
    BY <1>1, <1>3, <1>4, <1>6, <2>1, <2>2, <2>3
<1> QED
  BY <1>5, <1>6

LEMMA AdvanceMembers ==
    ASSUME ReachInv, MemberInv, NEW id \in 1..(nextId - 1), NEW state \in HandshakeState,
           AdvanceHandshake(id, state)
    PROVE  MemberInv'
<1>1. CASE state = "Established"
  <2>1. /\ members' = members \cup {id}
        /\ admitted' = admitted \cup {id}
    BY <1>1, AdvanceEffect, AdmitSucceeds
  <2>2. id < nextId
    BY DEF ReachInv, TypeOK
  <2> QED
    BY <1>1, <2>1, <2>2, AdvanceEffect DEF MemberInv, MembersAreConnected
<1>2. CASE state # "Established"
  BY <1>2, AdvanceEffect DEF MemberInv, MembersAreConnected, sessionVars
<1> QED
  BY <1>1, <1>2

LEMMA MemberStep == ReachInv /\ MemberInv /\ [Next]_hostVars => MemberInv'
<1> SUFFICES ASSUME ReachInv, MemberInv, [Next]_hostVars PROVE MemberInv'
  OBVIOUS
<1>0. \A id \in Ids : table[id] \in Connection
  BY DEF ReachInv, TypeOK
<1>1. CASE FrameStep
  <2>1. CASE BeginTick \/ Heartbeat
    <3>1. /\ Ids' = Ids
          /\ \A id \in Ids : /\ table'[id].handshake = table[id].handshake
                             /\ table'[id].state = table[id].state
      BY <1>0, <2>1 DEF BeginTick, Heartbeat, Connection
    <3> QED
      BY <2>1, <3>1, MembersKept DEF BeginTick, Heartbeat, sessionVars
  <2>2. CASE \/ BeginFrame \/ EndPoll \/ EndAccept \/ EndReceive
             \/ EndTimeouts \/ EndHandshake \/ EndDrain
    <3>1. UNCHANGED <<connVars, sessionVars>>
      BY <2>2 DEF BeginFrame, EndPoll, EndAccept, EndReceive, EndTimeouts, EndHandshake,
                  EndDrain
    <3> QED
      BY <3>1, MembersKept DEF connVars, sessionVars
  <2> QED
    BY <1>1, <2>1, <2>2 DEF FrameStep
<1>2. CASE Accept
  <2>1. nextId \in Nat /\ nextId \notin Ids /\ nextId \notin admitted
    BY DEF ReachInv, TypeOK, RouteInv, MemberInv
  <2>2. /\ Ids' = Ids \cup {nextId}
        /\ \A id \in Ids : table'[id] = table[id]
        /\ table'[nextId].handshake = "None" /\ table'[nextId].state = "Handshaking"
    BY <1>2, <2>1 DEF Accept, Put, NewConnection
  <2>3. nextId' = nextId + 1 /\ UNCHANGED <<members, admitted>>
    BY <1>2 DEF Accept, sessionVars
  <2>4. \A id \in admitted : id \in Nat /\ id < nextId
    BY DEF ReachInv, TypeOK, MemberInv
  <2>5. \A id \in admitted' : id < nextId'
    BY <2>1, <2>3, <2>4
  <2> QED
    BY <2>1, <2>2, <2>3, <2>5 DEF MemberInv, MembersAreConnected
<1>3. CASE RejectCapacity \/ DropDatagram
  BY <1>3, MembersKept DEF RejectCapacity, DropDatagram, connVars, sessionVars
<1>4. ASSUME NEW id \in 1..(nextId - 1), ConnectionStep(id)
      PROVE  MemberInv'
  <2>1. CASE \/ \E message \in HandshakeMessage : ReceiveHandshake(id, message)
             \/ ReceivePing(id) \/ ReceiveOther(id)
    <3>1. id \in Ids /\ Heard(id) /\ nextId' = nextId /\ UNCHANGED sessionVars
      BY <2>1 DEF ReceiveHandshake, ReceivePing, ReceiveOther, Arrives
    <3>2. /\ Ids' = Ids
          /\ \A x \in Ids : /\ table'[x].handshake = table[x].handshake
                            /\ table'[x].state = table[x].state
      BY <1>0, <3>1 DEF Heard, Connection
    <3> QED
      BY <3>1, <3>2, MembersKept DEF sessionVars
  <2>2. CASE ReceiveBye(id) \/ TimeOut(id) \/ DropHandshake(id) \/ StopConnection(id)
    <3>1. Disconnect(id) /\ nextId' = nextId
      BY <2>2 DEF ReceiveBye, Arrives, TimeOut, DropHandshake, Outcome, StopConnection
    <3>2. id \in Ids
      BY <2>2 DEF ReceiveBye, Arrives, TimeOut, DropHandshake, Outcome, Handshaking,
                  StopConnection, IsNext, ReachInv, RouteInv, TodoIsStored
    <3> QED
      BY <3>1, <3>2, DisconnectMembers
  <2>3. CASE \E state \in HandshakeState : AdvanceHandshake(id, state)
    BY <2>3, AdvanceMembers
  <2>4. CASE SkipHandshake(id) \/ DrainPacket(id) \/ DrainNext(id)
    BY <2>4, MembersKept DEF SkipHandshake, DrainPacket, DrainNext, connVars, sessionVars
  <2> QED
    BY <1>4, <2>1, <2>2, <2>3, <2>4 DEF ConnectionStep
<1>5. CASE StopStep
  BY <1>5, MembersKept DEF StopStep, Stop, EndStop, Stopped, hostVars, connVars, sessionVars
<1>6. ASSUME NEW id \in 1..(nextId - 1), NEW message \in DataMessage,
             ReceiveData(id, message)
      PROVE  MemberInv'
  <2>1. id \in Ids /\ Heard(id) /\ nextId' = nextId /\ UNCHANGED sessionVars
    BY <1>6 DEF ReceiveData, Arrives
  <2>2. /\ Ids' = Ids
        /\ \A x \in Ids : /\ table'[x].handshake = table[x].handshake
                          /\ table'[x].state = table[x].state
    BY <1>0, <2>1 DEF Heard, Connection
  <2> QED
    BY <2>1, <2>2, MembersKept DEF sessionVars
<1>7. ASSUME NEW id, NEW kind, DeliverDelta(kind, id)
      PROVE  MemberInv'
  BY <1>7, MembersKept DEF DeliverDelta, connVars
<1>8. ASSUME NEW peer, PollDatagram(peer)
      PROVE  MemberInv'
  BY <1>8, MembersKept DEF PollDatagram, connVars, sessionVars
<1>9. CASE UNCHANGED hostVars
  BY <1>9, MembersKept DEF hostVars, connVars, sessionVars
<1> QED
  BY <1>1, <1>2, <1>3, <1>4, <1>5, <1>6, <1>7, <1>8, <1>9
  DEF Next, PassStep, SharedStep

(***************************************************************************)
(* The session's members are exactly the connections whose handshake is    *)
(* complete: Admit is never refused, and every way a connection can go     *)
(* (Bye, timeout, bad handshake, Stop) takes its membership with it        *)
(* (HostServer.cpp, Session.cpp).                                          *)
(***************************************************************************)
THEOREM Members == Spec => []MembersAreConnected
<1>1. Init => MemberInv
  BY DEF Init, Nothing, MemberInv, MembersAreConnected
<1>2. MemberInv => MembersAreConnected
  BY DEF MemberInv
<1> QED
  BY <1>1, <1>2, MemberStep, ReachIsInvariant, PTL DEF Spec
-----------------------------------------------------------------------------
(***************************************************************************)
(* Reports.  What the delta queue holds is what is still to be reported.   *)
(***************************************************************************)

Report(kind, id) == [kind |-> kind, connection |-> id]

DeltaInv ==
    /\ \A i \in DOMAIN deltas :
          /\ deltas[i].kind = "Joined" => deltas[i].connection \in admitted \ joined
          /\ deltas[i].kind = "Left" => deltas[i].connection \in admitted \ (members \cup left)
    /\ \A i, j \in DOMAIN deltas : deltas[i] = deltas[j] => i = j
    /\ \A i \in DOMAIN deltas :
          deltas[i].kind = "Left" =>
             \/ deltas[i].connection \in joined
             \/ \E j \in DOMAIN deltas :
                   j < i /\ deltas[j] = Report("Joined", deltas[i].connection)
    /\ \A id \in admitted \ joined :
          \E j \in DOMAIN deltas : deltas[j] = Report("Joined", id)
    /\ \A id \in admitted \ (members \cup left) :
          \E j \in DOMAIN deltas : deltas[j] = Report("Left", id)
    /\ joined \cup left \subseteq admitted
    /\ left \subseteq joined \ members

\* What an append to the queue is.
LEMMA QueueAppend ==
    ASSUME TypeOK, NEW d \in Delta, deltas' = Append(deltas, d)
    PROVE  /\ Len(deltas) \in Nat /\ DOMAIN deltas = 1..Len(deltas)
           /\ DOMAIN deltas' = DOMAIN deltas \cup {Len(deltas) + 1}
           /\ \A i \in DOMAIN deltas : deltas'[i] = deltas[i]
           /\ deltas'[Len(deltas) + 1] = d
           /\ \A i \in DOMAIN deltas : i < Len(deltas) + 1
<1>1. deltas \in Seq(Delta) /\ Len(deltas) \in Nat /\ DOMAIN deltas = 1..Len(deltas)
  BY LenProperties DEF TypeOK
<1>2. /\ deltas' \in Seq(Delta) /\ Len(deltas') = Len(deltas) + 1
      /\ \A i \in 1..Len(deltas) : deltas'[i] = deltas[i]
      /\ deltas'[Len(deltas) + 1] = d
  BY <1>1, AppendProperties
<1>3. DOMAIN deltas' = 1..(Len(deltas) + 1)
  BY <1>1, <1>2, LenProperties
<1> QED
  BY <1>1, <1>2, <1>3

\* A new member, and the report of it.
LEMMA JoinedIsQueued ==
    ASSUME TypeOK, DeltaInv, NEW id \in ConnectionId \ admitted,
           members' = members \cup {id}, admitted' = admitted \cup {id},
           deltas' = Append(deltas, Report("Joined", id)), UNCHANGED <<joined, left>>
    PROVE  DeltaInv'
<1> DEFINE d == Report("Joined", id)
           n == Len(deltas) + 1
<1>1. d \in Delta /\ d.kind = "Joined" /\ d.connection = id
  BY DEF Report, Delta
<1>2. /\ DOMAIN deltas' = DOMAIN deltas \cup {n} /\ n \notin DOMAIN deltas
      /\ \A i \in DOMAIN deltas : deltas'[i] = deltas[i]
      /\ deltas'[n] = d
  BY <1>1, QueueAppend
<1> HIDE DEF n
<1>3. \A i \in DOMAIN deltas : deltas[i].connection # id
  <2>1. \A i \in DOMAIN deltas : deltas[i] \in Delta
    BY LenProperties DEF TypeOK
  <2> QED
    BY <2>1 DEF DeltaInv, Delta
<1>4. \A i, j \in DOMAIN deltas' : deltas'[i] = deltas'[j] => i = j
  BY <1>1, <1>2, <1>3 DEF DeltaInv
<1>5. \A i \in DOMAIN deltas' :
         /\ deltas'[i].kind = "Joined" => deltas'[i].connection \in admitted' \ joined'
         /\ deltas'[i].kind = "Left" =>
               deltas'[i].connection \in admitted' \ (members' \cup left')
  BY <1>1, <1>2, <1>3 DEF DeltaInv
<1>6. \A i \in DOMAIN deltas' :
         deltas'[i].kind = "Left" =>
            \/ deltas'[i].connection \in joined'
            \/ \E j \in DOMAIN deltas' :
                  j < i /\ deltas'[j] = Report("Joined", deltas'[i].connection)
  BY <1>1, <1>2 DEF DeltaInv
<1>7. \A other \in admitted' \ joined' :
         \E j \in DOMAIN deltas' : deltas'[j] = Report("Joined", other)
  BY <1>2 DEF DeltaInv
<1>8. \A other \in admitted' \ (members' \cup left') :
         \E j \in DOMAIN deltas' : deltas'[j] = Report("Left", other)
  BY <1>2 DEF DeltaInv
<1>9. joined' \cup left' \subseteq admitted' /\ left' \subseteq joined' \ members'
  BY DEF DeltaInv
<1> QED
  BY <1>4, <1>5, <1>6, <1>7, <1>8, <1>9 DEF DeltaInv

\* A member that goes, and the report of it: its joining was reported or is queued.
LEMMA LeftIsQueued ==
    ASSUME TypeOK, DeltaInv, NEW id \in members, members \subseteq admitted,
           members' = members \ {id}, deltas' = Append(deltas, Report("Left", id)),
           UNCHANGED <<admitted, joined, left>>
    PROVE  DeltaInv'
<1> DEFINE d == Report("Left", id)
           n == Len(deltas) + 1
<1>1. d \in Delta /\ d.kind = "Left" /\ d.connection = id
  BY DEF Report, Delta, TypeOK
<1>2. /\ DOMAIN deltas' = DOMAIN deltas \cup {n} /\ n \notin DOMAIN deltas
      /\ \A i \in DOMAIN deltas : deltas'[i] = deltas[i] /\ i < n
      /\ deltas'[n] = d
  BY <1>1, QueueAppend
<1> HIDE DEF n
<1>3. \A i \in DOMAIN deltas : deltas[i] # d
  BY <1>1 DEF DeltaInv
<1>4. \A i, j \in DOMAIN deltas' : deltas'[i] = deltas'[j] => i = j
  BY <1>1, <1>2, <1>3 DEF DeltaInv
<1>5. \A i \in DOMAIN deltas' :
         /\ deltas'[i].kind = "Joined" => deltas'[i].connection \in admitted' \ joined'
         /\ deltas'[i].kind = "Left" =>
               deltas'[i].connection \in admitted' \ (members' \cup left')
  BY <1>1, <1>2 DEF DeltaInv
<1>6. \A i \in DOMAIN deltas' :
         deltas'[i].kind = "Left" =>
            \/ deltas'[i].connection \in joined'
            \/ \E j \in DOMAIN deltas' :
                  j < i /\ deltas'[j] = Report("Joined", deltas'[i].connection)
  <2>1. ASSUME NEW i \in DOMAIN deltas, deltas[i].kind = "Left",
               deltas[i].connection \notin joined
        PROVE  \E j \in DOMAIN deltas' :
                  j < i /\ deltas'[j] = Report("Joined", deltas'[i].connection)
    BY <1>2, <2>1 DEF DeltaInv
  <2>2. ASSUME id \notin joined
        PROVE  \E j \in DOMAIN deltas' : j < n /\ deltas'[j] = Report("Joined", id)
    BY <1>2, <2>2 DEF DeltaInv
  <2> QED
    BY <1>1, <1>2, <2>1, <2>2
<1>7. \A other \in admitted' \ joined' :
         \E j \in DOMAIN deltas' : deltas'[j] = Report("Joined", other)
  BY <1>2 DEF DeltaInv
<1>8. \A other \in admitted' \ (members' \cup left') :
         \E j \in DOMAIN deltas' : deltas'[j] = Report("Left", other)
  BY <1>2 DEF DeltaInv
<1>9. joined' \cup left' \subseteq admitted' /\ left' \subseteq joined' \ members'
  BY DEF DeltaInv
<1> QED
  BY <1>4, <1>5, <1>6, <1>7, <1>8, <1>9 DEF DeltaInv

\* The report the consumer takes is the first of its connection: a leave is taken after
\* its join, because a join still queued would come before it.
LEMMA Delivered ==
    ASSUME TypeOK, DeltaInv, NEW kind \in {"Joined", "Left"}, NEW id,
           DeliverDelta(kind, id)
    PROVE  /\ DeltaInv'
           /\ kind = "Joined" => id \in admitted \ joined
           /\ kind = "Left" => id \in joined \ (members \cup left)
<1>1. PICK k \in DOMAIN deltas :
         /\ IsNextDelta(k)
         /\ deltas[k] = Report(kind, id)
         /\ deltas' = SeqExt!RemoveAt(deltas, k)
  BY DEF DeliverDelta, Report
<1>2. /\ joined' = IF kind = "Joined" THEN joined \cup {id} ELSE joined
      /\ left' = IF kind = "Left" THEN left \cup {id} ELSE left
      /\ UNCHANGED <<members, admitted>>
  BY DEF DeliverDelta
<1>3. deltas \in Seq(Delta) /\ Len(deltas) \in Nat /\ DOMAIN deltas = 1..Len(deltas)
  BY LenProperties DEF TypeOK
<1> DEFINE old(i) == IF i < k THEN i ELSE i + 1
           new(i) == IF i < k THEN i ELSE i - 1
<1>4. /\ DOMAIN deltas' = 1..(Len(deltas) - 1)
      /\ \A i \in 1..(Len(deltas) - 1) : deltas'[i] = deltas[old(i)]
  <2>1. k \in 1..Len(deltas)
    BY <1>3
  <2>2. /\ deltas' \in Seq(Delta) /\ Len(deltas') = Len(deltas) - 1
        /\ \A i \in 1..(Len(deltas) - 1) :
              deltas'[i] = IF i < k THEN deltas[i] ELSE deltas[i + 1]
    BY <1>1, <1>3, <2>1, RemoveAtProperties
  <2>3. DOMAIN deltas' = 1..Len(deltas')
    BY <2>2, LenProperties
  <2> QED
    BY <1>3, <2>1, <2>2, <2>3
<1>5. \A i \in DOMAIN deltas' : old(i) \in DOMAIN deltas /\ old(i) # k
  BY <1>3, <1>4
<1>6. \A i \in DOMAIN deltas : i # k =>
         new(i) \in DOMAIN deltas' /\ deltas'[new(i)] = deltas[i]
  BY <1>3, <1>4
<1>7. \A i \in DOMAIN deltas', j \in DOMAIN deltas :
         j # k /\ j < old(i) => new(j) < i
  BY <1>3, <1>4
<1>8. \A i, j \in DOMAIN deltas' : old(i) = old(j) => i = j
  BY <1>3, <1>4
<1>9. \A i \in DOMAIN deltas' : deltas'[i] = deltas[old(i)]
  BY <1>4
<1> HIDE DEF old, new
<1>10. Report(kind, id).kind = kind /\ Report(kind, id).connection = id
  BY DEF Report
<1>11. /\ kind = "Joined" => id \in admitted \ joined
       /\ kind = "Left" => id \in joined \ (members \cup left)
  <2>1. CASE kind = "Joined"
    BY <1>1, <1>10, <2>1 DEF DeltaInv
  <2>2. CASE kind = "Left"
    <3>1. id \in admitted \ (members \cup left)
      BY <1>1, <1>10, <2>2 DEF DeltaInv
    <3>2. ASSUME id \notin joined PROVE FALSE
      <4>1. PICK j \in DOMAIN deltas : j < k /\ deltas[j] = Report("Joined", id)
        BY <1>1, <1>10, <2>2, <3>2 DEF DeltaInv
      <4>2. deltas[j].connection = id
        BY <4>1 DEF Report
      <4>3. id \in Int
        BY <3>1 DEF TypeOK
      <4>4. k <= j
        BY <1>1, <1>10, <4>2, <4>3 DEF IsNextDelta
      <4> QED
        BY <1>3, <4>1, <4>4
    <3> QED
      BY <2>2, <3>1, <3>2
  <2> QED
    BY <2>1, <2>2
<1>12. \A i \in DOMAIN deltas' : deltas'[i] # Report(kind, id)
  BY <1>1, <1>5, <1>9 DEF DeltaInv
<1>13. \A i \in DOMAIN deltas' : deltas'[i] \in Delta
  BY <1>3, <1>5, <1>9
<1>14. ASSUME NEW i \in DOMAIN deltas'
       PROVE  /\ deltas'[i].kind = "Joined" => deltas'[i].connection \in admitted' \ joined'
              /\ deltas'[i].kind = "Left" =>
                    deltas'[i].connection \in admitted' \ (members' \cup left')
  <2>1. deltas'[i].kind = kind => deltas'[i].connection # id
    BY <1>12, <1>13 DEF Delta, Report
  <2> QED
    BY <1>2, <1>5, <1>9, <2>1 DEF DeltaInv
<1>15. \A i, j \in DOMAIN deltas' : deltas'[i] = deltas'[j] => i = j
  BY <1>5, <1>8, <1>9 DEF DeltaInv
<1>16. ASSUME NEW i \in DOMAIN deltas', deltas'[i].kind = "Left",
              deltas'[i].connection \notin joined'
       PROVE  \E j \in DOMAIN deltas' :
                 j < i /\ deltas'[j] = Report("Joined", deltas'[i].connection)
  <2>1. deltas[old(i)].kind = "Left" /\ deltas[old(i)].connection \notin joined
    BY <1>2, <1>9, <1>16
  <2>2. PICK j \in DOMAIN deltas :
           j < old(i) /\ deltas[j] = Report("Joined", deltas[old(i)].connection)
    BY <1>5, <2>1 DEF DeltaInv
  <2>3. deltas[j].kind = "Joined" /\ deltas[j].connection = deltas'[i].connection
    BY <1>9, <2>2 DEF Report
  <2>4. j # k
    BY <1>1, <1>2, <1>10, <1>16, <2>3
  <2> QED
    BY <1>6, <1>7, <1>9, <2>2, <2>4
<1>17. ASSUME NEW other \in admitted' \ joined'
       PROVE  \E j \in DOMAIN deltas' : deltas'[j] = Report("Joined", other)
  <2>1. PICK j \in DOMAIN deltas : deltas[j] = Report("Joined", other)
    BY <1>2, <1>17 DEF DeltaInv
  <2>2. deltas[j].kind = "Joined" /\ deltas[j].connection = other
    BY <2>1 DEF Report
  <2>3. j # k
    BY <1>1, <1>2, <1>10, <1>17, <2>2
  <2> QED
    BY <1>6, <2>1, <2>3
<1>18. ASSUME NEW other \in admitted' \ (members' \cup left')
       PROVE  \E j \in DOMAIN deltas' : deltas'[j] = Report("Left", other)
  <2>1. PICK j \in DOMAIN deltas : deltas[j] = Report("Left", other)
    BY <1>2, <1>18 DEF DeltaInv
  <2>2. deltas[j].kind = "Left" /\ deltas[j].connection = other
    BY <2>1 DEF Report
  <2>3. j # k
    BY <1>1, <1>2, <1>10, <1>18, <2>2
  <2> QED
    BY <1>6, <2>1, <2>3
<1>19. joined' \cup left' \subseteq admitted' /\ left' \subseteq joined' \ members'
  BY <1>2, <1>11 DEF DeltaInv
<1> QED
  BY <1>11, <1>14, <1>15, <1>16, <1>17, <1>18, <1>19 DEF DeltaInv

-----------------------------------------------------------------------------
(***************************************************************************)
(* Every step is one of the abstract membership's, or none.                *)
(***************************************************************************)

SessionInv == ReachInv /\ MemberInv /\ DeltaInv

SessionStep == DeltaInv' /\ [Membership!Next]_(Membership!membershipVars)

\* A step that leaves the session and its reports alone.
LEMMA SessionKept ==
    ASSUME DeltaInv, UNCHANGED <<sessionVars, historyVars>>
    PROVE  SessionStep
<1>1. DeltaInv'
  BY DEF DeltaInv, sessionVars, historyVars
<1>2. UNCHANGED Membership!membershipVars
  BY DEF sessionVars, historyVars, Membership!membershipVars
<1> QED
  BY <1>1, <1>2 DEF SessionStep

LEMMA DisconnectSession ==
    ASSUME SessionInv, NEW id \in ConnectionId, Disconnect(id), UNCHANGED historyVars
    PROVE  SessionStep
<1>1. CASE id \in members
  <2>1. /\ members' = members \ {id}
        /\ deltas' = Append(deltas, Report("Left", id))
        /\ UNCHANGED <<admitted, joined, left>>
    BY <1>1 DEF Disconnect, Remove, Report, historyVars
  <2>2. DeltaInv'
    BY <1>1, <2>1, LeftIsQueued DEF SessionInv, ReachInv, MemberInv
  <2>3. Membership!Leave(id)
    BY <1>1, <2>1 DEF Membership!Leave
  <2> QED
    BY <1>1, <2>2, <2>3 DEF SessionStep, Membership!Next
<1>2. CASE id \notin members
  BY <1>2, SessionKept DEF Disconnect, Remove, SessionInv
<1> QED
  BY <1>1, <1>2

LEMMA AdvanceSession ==
    ASSUME SessionInv, NEW id \in 1..(nextId - 1), NEW state \in HandshakeState,
           AdvanceHandshake(id, state)
    PROVE  SessionStep
<1>1. CASE state = "Established"
  <2>1. /\ id \in ConnectionId \ admitted
        /\ members' = members \cup {id}
        /\ admitted' = admitted \cup {id}
        /\ deltas' = Append(deltas, Report("Joined", id))
        /\ UNCHANGED <<joined, left>>
    BY <1>1, AdvanceEffect, AdmitSucceeds DEF SessionInv, ReachInv, TypeOK, Report
  <2>2. DeltaInv'
    BY <2>1, JoinedIsQueued DEF SessionInv, ReachInv
  <2>3. Membership!Join(id) /\ id \in admitted'
    BY <2>1 DEF Membership!Join
  <2> QED
    BY <2>2, <2>3 DEF SessionStep, Membership!Next
<1>2. CASE state # "Established"
  BY <1>2, AdvanceEffect, SessionKept DEF SessionInv, historyVars
<1> QED
  BY <1>1, <1>2

LEMMA DeliverSession ==
    ASSUME SessionInv, NEW id, NEW kind \in {"Joined", "Left"}, DeliverDelta(kind, id)
    PROVE  SessionStep
<1>1. /\ DeltaInv'
      /\ kind = "Joined" => id \in admitted \ joined
      /\ kind = "Left" => id \in joined \ (members \cup left)
  BY Delivered DEF SessionInv, ReachInv
<1>2. /\ joined' = IF kind = "Joined" THEN joined \cup {id} ELSE joined
      /\ left' = IF kind = "Left" THEN left \cup {id} ELSE left
      /\ UNCHANGED <<members, admitted>>
  BY DEF DeliverDelta
<1>3. CASE kind = "Joined"
  BY <1>1, <1>2, <1>3 DEF SessionStep, Membership!Next, Membership!TellJoined
<1>4. CASE kind = "Left"
  BY <1>1, <1>2, <1>4 DEF SessionStep, Membership!Next, Membership!TellLeft
<1> QED
  BY <1>3, <1>4

LEMMA StepsRefine == SessionInv /\ [Next]_hostVars => SessionStep
<1> SUFFICES ASSUME SessionInv, [Next]_hostVars PROVE SessionStep
  OBVIOUS
<1>0. \A id \in 1..(nextId - 1) : id \in ConnectionId
  BY DEF SessionInv, ReachInv, TypeOK
<1>1. CASE FrameStep
  BY <1>1, SessionKept
  DEF SessionInv, FrameStep, BeginFrame, BeginTick, EndPoll, EndAccept, EndReceive,
      EndTimeouts, EndHandshake, Heartbeat, EndDrain
<1>2. CASE Accept \/ RejectCapacity \/ DropDatagram
  BY <1>2, SessionKept DEF SessionInv, Accept, RejectCapacity, DropDatagram
<1>3. ASSUME NEW id \in 1..(nextId - 1), ConnectionStep(id)
      PROVE  SessionStep
  <2>1. CASE \/ \E message \in HandshakeMessage : ReceiveHandshake(id, message)
             \/ ReceivePing(id) \/ ReceiveOther(id)
             \/ SkipHandshake(id) \/ DrainPacket(id) \/ DrainNext(id)
    BY <2>1, SessionKept
    DEF SessionInv, ReceiveHandshake, ReceivePing, ReceiveOther, Arrives, SkipHandshake,
        DrainPacket, DrainNext
  <2>2. CASE ReceiveBye(id) \/ TimeOut(id) \/ DropHandshake(id) \/ StopConnection(id)
    <3>1. Disconnect(id) /\ UNCHANGED historyVars
      BY <2>2 DEF ReceiveBye, Arrives, TimeOut, DropHandshake, Outcome, StopConnection
    <3> QED
      BY <1>0, <3>1, DisconnectSession
  <2>3. CASE \E state \in HandshakeState : AdvanceHandshake(id, state)
    BY <2>3, AdvanceSession
  <2> QED
    BY <1>3, <2>1, <2>2, <2>3 DEF ConnectionStep
<1>4. CASE StopStep
  BY <1>4, SessionKept DEF SessionInv, StopStep, Stop, EndStop, Stopped, hostVars
<1>5. CASE SharedStep
  <2>1. ASSUME NEW id, NEW message, ReceiveData(id, message)
        PROVE  SessionStep
    BY <2>1, SessionKept DEF SessionInv, ReceiveData, Arrives
  <2> QED
    BY <1>5, <2>1, DeliverSession DEF SharedStep
<1>6. CASE \E peer \in Peer : PollDatagram(peer)
  BY <1>6, SessionKept DEF SessionInv, PollDatagram
<1>7. CASE UNCHANGED hostVars
  BY <1>7, SessionKept DEF SessionInv, hostVars
<1> QED
  BY <1>1, <1>2, <1>3, <1>4, <1>5, <1>6, <1>7 DEF Next, PassStep

LEMMA SessionInit == Init => MemberInv /\ DeltaInv
  BY DEF Init, Nothing, MemberInv, MembersAreConnected, DeltaInv

LEMMA SessionIsInvariant == Spec => []SessionInv
<1>1. ReachInv /\ MemberInv /\ DeltaInv <=> SessionInv
  BY DEF SessionInv
<1>2. SessionInv /\ [Next]_hostVars => DeltaInv'
  BY StepsRefine DEF SessionStep
<1> QED
  BY <1>1, <1>2, SessionInit, MemberStep, ReachIsInvariant, PTL DEF Spec

(***************************************************************************)
(* Session and delta queue implement the abstract membership: a connection *)
(* is a member at most once, and the consumer is told of its joining and   *)
(* then of its leaving, each once and never ahead of the fact              *)
(* (Session.cpp, PlayerDeltaQueue.h).                                      *)
(***************************************************************************)
THEOREM Refinement == Spec => ImplementsMembership
<1>1. Init => Membership!Init
  BY DEF Init, Membership!Init
<1>2. SessionInv /\ [Next]_hostVars => [Membership!Next]_(Membership!membershipVars)
  BY StepsRefine DEF SessionStep
<1> QED
  BY <1>1, <1>2, SessionIsInvariant, PTL DEF Spec, ImplementsMembership, Membership!Spec
-----------------------------------------------------------------------------
(***************************************************************************)
(* Byes.  What was sent a Bye is an address no store routes to any more.   *)
(***************************************************************************)

FarewellInv ==
    \A p \in Peer :
       lastSent[p] = "Bye" =>
          /\ p \in known \ DOMAIN endpointToConn
          /\ \A i \in DOMAIN accepted : accepted[i] # p

ByeIsLast == \A p \in Peer : lastSent[p] = "Bye" => lastSent'[p] = "Bye"

\* A step that sends nothing and routes to no address it did not route to before.
LEMMA NothingIsSent ==
    ASSUME FarewellInv, UNCHANGED <<lastSent, known, accepted>>,
           DOMAIN endpointToConn' \subseteq DOMAIN endpointToConn
    PROVE  FarewellInv' /\ ByeIsLast
  BY DEF FarewellInv, ByeIsLast

LEMMA DisconnectFarewell ==
    ASSUME ReachInv, FarewellInv, NEW id \in Ids, Disconnect(id),
           UNCHANGED <<known, accepted>>
    PROVE  FarewellInv' /\ ByeIsLast
<1> DEFINE e == table[id].endpoint
<1>1. e \in DOMAIN endpointToConn /\ conns[id].endpoint = e /\ id \in DOMAIN conns
  BY DEF ReachInv, RouteInv, RoutingConsistent
<1>2. /\ e \in known /\ e \in Peer
      /\ \A i \in DOMAIN accepted : accepted[i] # e
  BY <1>1 DEF ReachInv, TypeOK, RouteInv, EndpointsAreFresh
<1>3. DOMAIN endpointToConn' = DOMAIN endpointToConn \ {e}
  BY <1>1 DEF Disconnect, Erase
<1>4. lastSent' = lastSent \/ lastSent' = [lastSent EXCEPT ![e] = "Bye"]
  BY DEF Disconnect, TrySend
<1>5. \A p \in Peer : lastSent'[p] = lastSent[p] \/ (p = e /\ lastSent'[p] = "Bye")
  BY <1>4 DEF ReachInv, TypeOK
<1> HIDE DEF e
<1> QED
  BY <1>2, <1>3, <1>5 DEF FarewellInv, ByeIsLast

\* What the accepted endpoints are once the first is taken.
LEMMA TakenEndpoint ==
    ASSUME ReachInv, accepted # <<>>, accepted' = Tail(accepted)
    PROVE  /\ Head(accepted) \in known \ DOMAIN endpointToConn /\ Head(accepted) \in Peer
           /\ \E i \in DOMAIN accepted : accepted[i] = Head(accepted)
           /\ \A i \in DOMAIN accepted' : /\ accepted'[i] # Head(accepted)
                                          /\ \E j \in DOMAIN accepted :
                                                accepted[j] = accepted'[i]
<1>1. /\ Len(accepted) \in Nat \ {0}
      /\ DOMAIN accepted = 1..Len(accepted)
      /\ accepted' \in Seq(Peer)
      /\ Len(accepted') = Len(accepted) - 1
      /\ \A i \in 1..Len(accepted') : accepted'[i] = accepted[i + 1]
      /\ Head(accepted) = accepted[1] /\ Head(accepted) \in Peer
  BY LenProperties, EmptySeq, HeadTailProperties DEF ReachInv, TypeOK
<1>2. DOMAIN accepted' = 1..(Len(accepted) - 1)
  BY <1>1, LenProperties
<1>3. \A i \in DOMAIN accepted' : i + 1 \in DOMAIN accepted /\ i + 1 # 1
  BY <1>1, <1>2
<1>4. 1 \in DOMAIN accepted
  BY <1>1
<1> QED
  BY <1>1, <1>2, <1>3, <1>4 DEF ReachInv, RouteInv, EndpointsAreFresh

LEMMA FarewellStep ==
    ReachInv /\ FarewellInv /\ [Next]_hostVars => FarewellInv' /\ [ByeIsLast]_hostVars
<1> SUFFICES ASSUME ReachInv, FarewellInv, [Next]_hostVars
             PROVE  FarewellInv' /\ ByeIsLast
  OBVIOUS
<1>1. CASE FrameStep
  BY <1>1, NothingIsSent
  DEF FrameStep, BeginFrame, BeginTick, EndPoll, EndAccept, EndReceive, EndTimeouts,
      EndHandshake, Heartbeat, EndDrain, connVars, transportVars
<1>2. CASE Accept
  <2>1. /\ DOMAIN endpointToConn' = DOMAIN endpointToConn \cup {Head(accepted)}
        /\ UNCHANGED <<lastSent, known>>
    BY <1>2 DEF Accept, Put
  <2>2. /\ \E i \in DOMAIN accepted : accepted[i] = Head(accepted)
        /\ \A i \in DOMAIN accepted' :
              \E j \in DOMAIN accepted : accepted[j] = accepted'[i]
    BY <1>2, TakenEndpoint DEF Accept
  <2> QED
    BY <2>1, <2>2 DEF FarewellInv, ByeIsLast
<1>3. CASE RejectCapacity
  <2> DEFINE e == Head(accepted)
  <2>1. /\ e \in known \ DOMAIN endpointToConn /\ e \in Peer
        /\ \A i \in DOMAIN accepted' :
              accepted'[i] # e /\ \E j \in DOMAIN accepted : accepted[j] = accepted'[i]
    BY <1>3, TakenEndpoint DEF RejectCapacity
  <2>2. UNCHANGED <<known, endpointToConn>>
    BY <1>3 DEF RejectCapacity, connVars
  <2>3. lastSent' = lastSent \/ lastSent' = [lastSent EXCEPT ![e] = "Bye"]
    BY <1>3 DEF RejectCapacity, TrySend
  <2>4. \A p \in Peer : lastSent'[p] = lastSent[p] \/ (p = e /\ lastSent'[p] = "Bye")
    BY <2>3 DEF ReachInv, TypeOK
  <2> HIDE DEF e
  <2> QED
    BY <2>1, <2>2, <2>4 DEF FarewellInv, ByeIsLast
<1>4. CASE DropDatagram
  BY <1>4, NothingIsSent DEF DropDatagram, connVars
<1>5. ASSUME NEW id \in 1..(nextId - 1), ConnectionStep(id)
      PROVE  FarewellInv' /\ ByeIsLast
  <2>1. CASE \/ \E message \in HandshakeMessage : ReceiveHandshake(id, message)
             \/ ReceivePing(id) \/ ReceiveOther(id)
    BY <2>1, NothingIsSent DEF ReceiveHandshake, ReceivePing, ReceiveOther, Arrives
  <2>2. CASE ReceiveBye(id) \/ TimeOut(id) \/ DropHandshake(id) \/ StopConnection(id)
    <3>1. Disconnect(id) /\ UNCHANGED <<known, accepted>>
      BY <2>2
      DEF ReceiveBye, Arrives, TimeOut, DropHandshake, Outcome, StopConnection, transportVars
    <3>2. id \in Ids
      BY <2>2 DEF ReceiveBye, Arrives, TimeOut, DropHandshake, Outcome, Handshaking,
                  StopConnection, IsNext, ReachInv, RouteInv, TodoIsStored
    <3> QED
      BY <3>1, <3>2, DisconnectFarewell
  <2>3. CASE SkipHandshake(id) \/ DrainNext(id)
    BY <2>3, NothingIsSent DEF SkipHandshake, DrainNext, connVars, transportVars
  <2>4. CASE \E state \in HandshakeState : AdvanceHandshake(id, state)
    BY <2>4, NothingIsSent DEF AdvanceHandshake, Outcome, transportVars
  <2>5. CASE DrainPacket(id)
    <3> DEFINE e == conns[id].endpoint
    <3>1. e \in DOMAIN endpointToConn
      BY <2>5 DEF DrainPacket, ReachInv, RouteInv, RoutingConsistent
    <3>2. UNCHANGED <<known, accepted, endpointToConn>>
      BY <2>5 DEF DrainPacket, transportVars
    <3>3. PICK packet :
             lastSent' = lastSent \/ lastSent' = [lastSent EXCEPT ![e] = packet]
      BY <2>5 DEF DrainPacket, TrySend
    <3>4. \A p \in Peer : p # e => lastSent'[p] = lastSent[p]
      BY <3>3 DEF ReachInv, TypeOK
    <3>5. lastSent'[e] # "Bye"
      <4>1. lastSent[e] # "Bye" /\ e \in Peer
        BY <3>1 DEF FarewellInv, ReachInv, TypeOK
      <4>2. conns[id].outbox # <<>> /\ conns[id].outbox \in Seq(Control)
        BY <2>5 DEF DrainPacket, ReachInv, TypeOK, HostConn
      <4>3. Head(conns[id].outbox) \in Control
        BY <4>2, HeadTailProperties
      <4>4. \/ lastSent' = lastSent
            \/ lastSent' = [lastSent EXCEPT ![e] = Head(conns[id].outbox)]
        BY <2>5 DEF DrainPacket, TrySend
      <4> QED
        BY <4>1, <4>3, <4>4 DEF Control, ReachInv, TypeOK
    <3> HIDE DEF e
    <3> QED
      BY <3>1, <3>2, <3>4, <3>5 DEF FarewellInv, ByeIsLast
  <2> QED
    BY <1>5, <2>1, <2>2, <2>3, <2>4, <2>5 DEF ConnectionStep
<1>6. CASE StopStep
  BY <1>6, NothingIsSent
  DEF StopStep, Stop, EndStop, Stopped, Nothing, hostVars, connVars, transportVars
<1>7. CASE SharedStep
  BY <1>7, NothingIsSent
  DEF SharedStep, DeliverDelta, ReceiveData, Arrives, connVars, transportVars
<1>8. ASSUME NEW peer \in Peer, PollDatagram(peer)
      PROVE  FarewellInv' /\ ByeIsLast
  <2>1. UNCHANGED <<lastSent, endpointToConn>> /\ known' = known \cup {peer}
    BY <1>8 DEF PollDatagram, connVars
  <2>2. CASE peer \in known
    BY <1>8, <2>1, <2>2 DEF PollDatagram, FarewellInv, ByeIsLast
  <2>3. CASE peer \notin known
    <3>1. accepted' = Append(accepted, peer) /\ accepted \in Seq(Peer)
      BY <1>8, <2>3 DEF PollDatagram, ReachInv, TypeOK
    <3>2. /\ Len(accepted) \in Nat /\ DOMAIN accepted = 1..Len(accepted)
          /\ accepted' \in Seq(Peer) /\ Len(accepted') = Len(accepted) + 1
          /\ \A i \in 1..Len(accepted) : accepted'[i] = accepted[i]
          /\ accepted'[Len(accepted) + 1] = peer
      BY <3>1, LenProperties, AppendProperties
    <3>3. DOMAIN accepted' = DOMAIN accepted \cup {Len(accepted) + 1}
      BY <3>2, LenProperties
    <3> QED
      BY <2>1, <2>3, <3>2, <3>3 DEF FarewellInv, ByeIsLast
  <2> QED
    BY <2>2, <2>3
<1>9. CASE UNCHANGED hostVars
  BY <1>9, NothingIsSent DEF hostVars, connVars, transportVars
<1> QED
  BY <1>1, <1>2, <1>3, <1>4, <1>5, <1>6, <1>7, <1>8, <1>9 DEF Next, PassStep

(***************************************************************************)
(* Nothing is sent to a peer once it was sent a Bye: its address routes    *)
(* nowhere any more, so that no outbox is drained to it, and the transport *)
(* never accepts it again (HostServer.cpp, Disconnect and the drain).      *)
(***************************************************************************)
THEOREM Farewell == Spec => NothingAfterBye
<1>1. Init => FarewellInv
  BY DEF Init, FarewellInv
<1>2. Spec => [][ByeIsLast]_hostVars
  BY <1>1, FarewellStep, ReachIsInvariant, PTL DEF Spec
<1> QED
  BY <1>2 DEF ByeIsLast, NothingAfterBye

-----------------------------------------------------------------------------
(***************************************************************************)
(* DedicatedServer.                                                        *)
(***************************************************************************)

\* A step of the server is a step of the host, or leaves the host alone.
LEMMA HostStep == [ServerNext]_serverVars => [Next]_hostVars
<1> SUFFICES ASSUME [ServerNext]_serverVars PROVE [Next]_hostVars
  OBVIOUS
<1>1. CASE HostOnlyStep
  BY <1>1 DEF HostOnlyStep, Next, FrameStep
<1>2. CASE ServerBeginTick
  BY <1>2 DEF ServerBeginTick, Next, FrameStep
<1>3. ASSUME NEW id \in 1..(nextId - 1),
             \/ ApplyJoined(id) \/ ApplyLeft(id)
             \/ HandleJoinRequest(id) \/ HandleRespawnRequest(id)
      PROVE  Next
  <2>1. \/ \E kind \in {"Joined", "Left"} : DeliverDelta(kind, id)
        \/ \E message \in DataMessage : ReceiveData(id, message)
    BY <1>3 DEF ApplyJoined, ApplyLeft, HandleJoinRequest, HandleRespawnRequest, DataMessage
  <2> QED
    BY <2>1 DEF SharedStep, Next
<1>4. CASE \E p \in Registered : Death(p)
  BY <1>4 DEF Death
<1>5. CASE UNCHANGED serverVars
  BY <1>5 DEF serverVars
<1> QED
  BY <1>1, <1>2, <1>3, <1>4, <1>5 DEF ServerNext

(***************************************************************************)
(* With players attached, the host still implements its own specification, *)
(* so that all that is proved of it holds of the server (the handlers and  *)
(* the delta consumer change nothing of the host's).                       *)
(***************************************************************************)
THEOREM ServerImplementsHost == ServerSpec => Spec
<1>1. ServerInit => Init
  BY DEF ServerInit
<1> QED
  BY <1>1, HostStep, PTL DEF ServerSpec, Spec

LEMMA SessionInServer == ServerSpec => []SessionInv
  BY ServerImplementsHost, SessionIsInvariant

-----------------------------------------------------------------------------
(***************************************************************************)
(* The players.                                                            *)
(***************************************************************************)

\* A bound player is bound to the connection it was made for, whose leave was not
\* applied; an unbound one is of a connection whose leave was.
BindingOf(record, gone) ==
    IF record.connection = NoConnection
    THEN record.sessionMember \in gone
    ELSE record.connection = record.sessionMember /\ record.connection \notin gone

PlayerInv ==
    /\ PlayersConsistent
    /\ \A p \in Registered : p < nextPlayer /\ BindingOf(players[p], left)

\* A connection that may join, and did not leave, has no record, bound or not.
LEMMA BoundOnce ==
    ASSUME PlayerInv, NEW connection, CanJoin(connection), connection \notin left,
           NEW p \in Registered
    PROVE  players[p].sessionMember # connection
<1>1. players[p].connection # connection
  BY DEF CanJoin, BoundTo
<1> QED
  BY <1>1 DEF PlayerInv, BindingOf

\* A join that is accepted: a new record, bound to a connection no record was made for.
LEMMA AcceptedJoin ==
    ASSUME PlayerInv, NEW c \in Nat \ {0}, JoinAccepted(c), c \notin left, left' = left
    PROVE  /\ PlayerInv'
           /\ Registered' = Registered \cup {nextPlayer}
           /\ players'[nextPlayer].connection = c
           /\ \A p \in Registered : players'[p] = players[p]
<1> DEFINE new == [lifecycle |-> "Active", connection |-> c,
                   sessionMember |-> c, respawnIn |-> 0]
<1>1. nextPlayer \in Nat \ {0} /\ nextPlayer \notin Registered
  BY DEF PlayerInv, PlayersConsistent, PlayersTypeOK, PlayerId
<1>2. /\ Registered' = Registered \cup {nextPlayer}
      /\ players'[nextPlayer] = new
      /\ \A p \in Registered : players'[p] = players[p]
      /\ players' = [p \in Registered' |-> players'[p]]
      /\ entities' = entities \cup {nextPlayer} /\ nextPlayer' = nextPlayer + 1
      /\ CanJoin(c)
  BY <1>1 DEF JoinAccepted, Put, Registered
<1>3. new \in PlayerRecord
  BY RespawnAssumption DEF PlayerRecord, Lifecycle
<1>4. /\ new.connection = c /\ new.sessionMember = c /\ new.lifecycle = "Active"
  OBVIOUS
<1>5. \A p \in Registered : players[p].sessionMember # c
  BY <1>2, BoundOnce
<1> HIDE DEF new
<1>6. PlayersTypeOK'
  <2>1. \A p \in Registered' : players'[p] \in PlayerRecord /\ p \in PlayerId
    BY <1>1, <1>2, <1>3 DEF PlayerInv, PlayersConsistent, PlayersTypeOK, PlayerId, Registered
  <2>2. players' \in [Registered' -> PlayerRecord]
    BY <1>2, <2>1
  <2> QED
    BY <1>1, <1>2, <2>1, <2>2
    DEF PlayerInv, PlayersConsistent, PlayersTypeOK, PlayerId, Registered
<1>7. NoOrphanEntity'
  BY <1>2 DEF PlayerInv, PlayersConsistent, NoOrphanEntity
<1>8. MappingIsBijective'
  BY <1>2, <1>4, <1>5 DEF PlayerInv, PlayersConsistent, MappingIsBijective
<1>9. SuspendedIsUnbound'
  BY <1>2, <1>4 DEF PlayerInv, PlayersConsistent, SuspendedIsUnbound, NoConnection
<1>10. \A p \in Registered' : p < nextPlayer' /\ BindingOf(players'[p], left')
  <2>1. \A p \in Registered : p \in Nat /\ p < nextPlayer
    BY DEF PlayerInv, PlayersConsistent, PlayersTypeOK, PlayerId, Registered
  <2>2. \A p \in Registered' : p < nextPlayer'
    BY <1>1, <1>2, <2>1
  <2>3. \A p \in Registered : BindingOf(players'[p], left')
    BY <1>2 DEF PlayerInv, BindingOf
  <2>4. BindingOf(players'[nextPlayer], left')
    BY <1>2, <1>4 DEF BindingOf, NoConnection
  <2> QED
    BY <1>2, <2>2, <2>3, <2>4
<1> QED
  BY <1>2, <1>4, <1>6, <1>7, <1>8, <1>9, <1>10 DEF PlayerInv, PlayersConsistent

\* What changes records only, and keeps each of them sound, keeps the players so.
LEMMA RecordsChange ==
    ASSUME PlayerInv, UNCHANGED <<nextPlayer, entities>>,
           players' = [p \in Registered |-> players'[p]],
           \A p \in Registered :
              /\ players'[p] \in PlayerRecord
              /\ players'[p].sessionMember = players[p].sessionMember
              /\ players'[p].lifecycle = "Suspended" <=> players'[p].connection = NoConnection
              /\ BindingOf(players'[p], left')
    PROVE  PlayerInv'
<1>1. Registered' = Registered
  BY DEF Registered
<1>2. PlayersTypeOK'
  BY <1>1 DEF PlayerInv, PlayersConsistent, PlayersTypeOK, Registered
<1>3. MappingIsBijective'
  <2>1. \A p \in Registered : players'[p].connection \in {players'[p].sessionMember, NoConnection}
    BY DEF BindingOf
  <2> QED
    BY <1>1, <2>1 DEF PlayerInv, PlayersConsistent, MappingIsBijective
<1> QED
  BY <1>1, <1>2, <1>3
  DEF PlayerInv, PlayersConsistent, NoOrphanEntity, SuspendedIsUnbound

\* A join request in each of its outcomes, for a connection whose leave was not applied.
LEMMA JoinPreserves ==
    ASSUME PlayerInv, NEW c \in Nat \ {0}, RequestJoin(c), c \notin left, left' = left
    PROVE  PlayerInv'
<1>1. CASE JoinRefused(c)
  BY <1>1 DEF JoinRefused, playerVars, PlayerInv, PlayersConsistent, PlayersTypeOK,
              NoOrphanEntity, MappingIsBijective, SuspendedIsUnbound, Registered
<1>2. CASE JoinAccepted(c)
  BY <1>2, AcceptedJoin
<1>3. CASE JoinSpawnFailed(c)
  <2>1. nextPlayer' = nextPlayer + 1 /\ UNCHANGED <<players, entities>> /\ Registered' = Registered
    BY <1>3 DEF JoinSpawnFailed, Registered
  <2>2. \A p \in Registered : p \in Nat
    BY DEF PlayerInv, PlayersConsistent, PlayersTypeOK, PlayerId, Registered
  <2>3. nextPlayer' \in PlayerId /\ \A p \in Registered : p < nextPlayer'
    BY <2>1, <2>2 DEF PlayerInv, PlayersConsistent, PlayersTypeOK, PlayerId
  <2> QED
    BY <2>1, <2>3 DEF PlayerInv, PlayersConsistent, PlayersTypeOK, NoOrphanEntity,
                      MappingIsBijective, SuspendedIsUnbound
<1> QED
  BY <1>1, <1>2, <1>3 DEF RequestJoin

\* The leave that is applied suspends whoever was bound to it, dead or alive.
LEMMA SuspendPreserves ==
    ASSUME PlayerInv, NEW c \in Nat \ {0}, SuspendOnLeave(c), left' = left \cup {c}
    PROVE  PlayerInv'
<1>1. /\ players' = [p \in Registered |->
                     IF p \in BoundTo(c) /\ players[p].lifecycle \in {"Active", "Dead"}
                     THEN [players[p] EXCEPT !.lifecycle = "Suspended",
                                             !.connection = NoConnection]
                     ELSE players[p]]
      /\ UNCHANGED <<nextPlayer, entities>>
  BY DEF SuspendOnLeave
<1>2. ASSUME NEW p \in Registered
      PROVE  /\ players'[p] \in PlayerRecord
             /\ players'[p].sessionMember = players[p].sessionMember
             /\ players'[p].lifecycle = "Suspended" <=> players'[p].connection = NoConnection
             /\ BindingOf(players'[p], left')
  <2>1. players[p] \in PlayerRecord /\ BindingOf(players[p], left)
        /\ (players[p].lifecycle = "Suspended" <=> players[p].connection = NoConnection)
    BY DEF PlayerInv, PlayersConsistent, PlayersTypeOK, SuspendedIsUnbound, Registered
  <2>2. CASE players[p].connection = c
    <3>1. players[p].lifecycle \in {"Active", "Dead"}
      BY <2>1, <2>2 DEF PlayerRecord, Lifecycle, NoConnection
    <3>2. players'[p] = [players[p] EXCEPT !.lifecycle = "Suspended",
                                           !.connection = NoConnection]
      BY <1>1, <2>2, <3>1 DEF BoundTo
    <3>3. players[p].sessionMember = c
      BY <2>1, <2>2 DEF BindingOf, NoConnection
    <3>4. /\ players'[p].lifecycle = "Suspended" /\ players'[p].connection = NoConnection
          /\ players'[p].sessionMember = c /\ players'[p] \in PlayerRecord
      <4>1. NoConnection \in Nat /\ "Suspended" \in Lifecycle
        BY DEF NoConnection, Lifecycle
      <4>2. players'[p] \in PlayerRecord
        BY <2>1, <3>2, <4>1 DEF PlayerRecord
      <4>3. /\ players'[p].lifecycle = "Suspended" /\ players'[p].connection = NoConnection
            /\ players'[p].sessionMember = players[p].sessionMember
        BY <2>1, <3>2 DEF PlayerRecord
      <4> QED
        BY <3>3, <4>2, <4>3
    <3> QED
      BY <3>3, <3>4 DEF BindingOf
  <2>3. CASE players[p].connection # c
    <3>1. players'[p] = players[p]
      BY <1>1, <2>3 DEF BoundTo
    <3> QED
      BY <2>1, <2>3, <3>1 DEF BindingOf
  <2> QED
    BY <2>2, <2>3
<1>3. players' = [p \in Registered |-> players'[p]]
  BY <1>1
<1> QED
  BY <1>1, <1>2, <1>3, RecordsChange

\* Deaths, respawns and the ticks of a delay touch no binding.
LEMMA LifePreserves ==
    ASSUME PlayerInv, left' = left,
           \/ \E p \in Registered : NotifyDeath(p) \/ Respawn(p)
           \/ PlayersTick
           \/ UNCHANGED playerVars
    PROVE  /\ PlayerInv'
           /\ Registered' = Registered
           /\ \A p \in Registered : players'[p].connection = players[p].connection
<1>0. /\ \A p \in Registered : players[p] \in PlayerRecord /\ BindingOf(players[p], left)
      /\ \A p \in Registered :
            players[p].lifecycle = "Suspended" <=> players[p].connection = NoConnection
      /\ players = [p \in Registered |-> players[p]]
  BY DEF PlayerInv, PlayersConsistent, PlayersTypeOK, SuspendedIsUnbound, Registered
<1> DEFINE Soft(p) == /\ players'[p] \in PlayerRecord
                      /\ players'[p].sessionMember = players[p].sessionMember
                      /\ players'[p].connection = players[p].connection
                      /\ players'[p].lifecycle = "Suspended"
                            <=> players[p].lifecycle = "Suspended"
<1>1. ASSUME NEW q \in Registered, NotifyDeath(q)
      PROVE  /\ players' = [p \in Registered |-> players'[p]]
             /\ \A p \in Registered : Soft(p)
             /\ UNCHANGED <<nextPlayer, entities>>
  <2>1. /\ players[q].lifecycle = "Active"
        /\ players' = [players EXCEPT ![q].lifecycle = "Dead", ![q].respawnIn = RespawnDelay]
        /\ UNCHANGED <<nextPlayer, entities>>
    BY <1>1 DEF NotifyDeath
  <2>2. /\ players' = [p \in Registered |-> players'[p]]
        /\ players'[q] = [players[q] EXCEPT !.lifecycle = "Dead", !.respawnIn = RespawnDelay]
        /\ \A p \in Registered \ {q} : players'[p] = players[p]
    BY <1>0, <2>1 DEF Registered
  <2>3. Soft(q)
    BY <1>0, <2>1, <2>2, RespawnAssumption DEF PlayerRecord, Lifecycle
  <2> QED
    BY <1>0, <2>1, <2>2, <2>3
<1>2. ASSUME NEW q \in Registered, Respawn(q)
      PROVE  /\ players' = [p \in Registered |-> players'[p]]
             /\ \A p \in Registered : Soft(p)
             /\ UNCHANGED <<nextPlayer, entities>>
  <2>1. /\ players[q].lifecycle = "Dead"
        /\ players' = [players EXCEPT ![q].lifecycle = "Active"]
        /\ UNCHANGED <<nextPlayer, entities>>
    BY <1>2 DEF Respawn, CanRespawn
  <2>2. /\ players' = [p \in Registered |-> players'[p]]
        /\ players'[q] = [players[q] EXCEPT !.lifecycle = "Active"]
        /\ \A p \in Registered \ {q} : players'[p] = players[p]
    BY <1>0, <2>1 DEF Registered
  <2>3. Soft(q)
    BY <1>0, <2>1, <2>2 DEF PlayerRecord, Lifecycle
  <2> QED
    BY <1>0, <2>1, <2>2, <2>3
<1>3. ASSUME PlayersTick
      PROVE  /\ players' = [p \in Registered |-> players'[p]]
             /\ \A p \in Registered : Soft(p)
             /\ UNCHANGED <<nextPlayer, entities>>
  <2>1. /\ UNCHANGED <<nextPlayer, entities>>
        /\ players' = [p \in Registered |->
              [players[p] EXCEPT !.respawnIn = IF @ > 0 THEN @ - 1 ELSE 0]]
    BY <1>3 DEF PlayersTick
  <2>2. ASSUME NEW p \in Registered PROVE Soft(p)
    <3>1. players'[p] = [players[p] EXCEPT !.respawnIn = IF @ > 0 THEN @ - 1 ELSE 0]
      BY <2>1
    <3> QED
      BY <1>0, <3>1, RespawnAssumption DEF PlayerRecord
  <2> QED
    BY <2>1, <2>2
<1>4. ASSUME UNCHANGED playerVars
      PROVE  /\ players' = [p \in Registered |-> players'[p]]
             /\ \A p \in Registered : Soft(p)
             /\ UNCHANGED <<nextPlayer, entities>>
  BY <1>0, <1>4 DEF playerVars
<1>5. /\ players' = [p \in Registered |-> players'[p]]
      /\ \A p \in Registered : Soft(p)
      /\ UNCHANGED <<nextPlayer, entities>>
  BY <1>1, <1>2, <1>3, <1>4
<1>6. \A p \in Registered : BindingOf(players'[p], left')
  BY <1>0, <1>5 DEF BindingOf
<1>7. PlayerInv'
  BY <1>0, <1>5, <1>6, RecordsChange
<1>8. Registered' = Registered
  BY <1>5 DEF Registered
<1> QED
  BY <1>5, <1>7, <1>8

\* The steps of the server, as the players see them.
Plays(id) ==
    \/ RequestJoin(id) /\ id \notin left /\ left' = left
    \/ SuspendOnLeave(id) /\ left' = left \cup {id}

Lives ==
    /\ left' = left
    /\ \/ \E p \in Registered : NotifyDeath(p) \/ Respawn(p)
       \/ PlayersTick
       \/ UNCHANGED playerVars

\* The session is what keeps a connection from being joined after it left: a report of
\* its joining is taken before, and a message comes from a connection that is stored.
LEMMA ServerSteps ==
    ASSUME SessionInv, [ServerNext]_serverVars
    PROVE  Lives \/ \E id \in Nat \ {0} : Plays(id)
<1>0. \A id \in 1..(nextId - 1) : id \in Nat \ {0}
  BY DEF SessionInv, ReachInv, TypeOK
<1>1. CASE HostOnlyStep /\ UNCHANGED playerVars
  <2>1. left' = left
    <3>1. ASSUME NEW id, ConnectionStep(id) PROVE left' = left
      BY <3>1 DEF ConnectionStep, ReceiveHandshake, ReceivePing, ReceiveBye, ReceiveOther,
         Arrives, TimeOut, SkipHandshake, DropHandshake, AdvanceHandshake, Outcome,
         DrainPacket, DrainNext, StopConnection, historyVars
    <3> QED
      BY <1>1, <3>1 DEF HostOnlyStep, BeginFrame, EndPoll, EndAccept, EndReceive,
         EndTimeouts, EndHandshake, Heartbeat, EndDrain, PassStep, Accept, RejectCapacity,
         DropDatagram, StopStep, Stop, EndStop, Stopped, PollDatagram, hostVars, historyVars
  <2> QED
    BY <1>1, <2>1 DEF Lives
<1>2. CASE ServerBeginTick
  BY <1>2 DEF ServerBeginTick, BeginTick, historyVars, Lives
<1>3. ASSUME NEW id \in 1..(nextId - 1), ApplyJoined(id)
      PROVE  Plays(id)
  <2>1. DeliverDelta("Joined", id) /\ RequestJoin(id)
    BY <1>3 DEF ApplyJoined
  <2>2. id \in admitted \ joined /\ left' = left
    BY <2>1, Delivered DEF SessionInv, ReachInv, DeliverDelta
  <2> QED
    BY <2>1, <2>2 DEF SessionInv, DeltaInv, Plays
<1>4. ASSUME NEW id \in 1..(nextId - 1), ApplyLeft(id)
      PROVE  Plays(id)
  BY <1>4 DEF ApplyLeft, DeliverDelta, Plays
<1>5. ASSUME NEW id \in 1..(nextId - 1), HandleJoinRequest(id)
      PROVE  Plays(id)
  <2>1. id \in Ids /\ left' = left /\ RequestJoin(id)
    BY <1>5 DEF HandleJoinRequest, ReceiveData, Arrives, historyVars
  <2>2. id \notin left
    BY <2>1 DEF SessionInv, MemberInv, DeltaInv
  <2> QED
    BY <2>1, <2>2 DEF Plays
<1>6. ASSUME NEW id \in 1..(nextId - 1), HandleRespawnRequest(id)
      PROVE  Lives
  BY <1>6 DEF HandleRespawnRequest, ReceiveData, Arrives, historyVars, RespawnRequest,
              BoundTo, Lives
<1>7. ASSUME NEW p \in Registered, Death(p)
      PROVE  Lives
  BY <1>7 DEF Death, hostVars, historyVars, Lives
<1>8. CASE UNCHANGED serverVars
  BY <1>8 DEF serverVars, hostVars, historyVars, Lives
<1> QED
  BY <1>0, <1>1, <1>2, <1>3, <1>4, <1>5, <1>6, <1>7, <1>8 DEF ServerNext

LEMMA PlayerInit == ServerInit => PlayerInv
  BY DEF ServerInit, PlayersInit, Nothing, PlayerInv, PlayersConsistent, PlayersTypeOK,
         PlayerId, NoOrphanEntity, MappingIsBijective, SuspendedIsUnbound, Registered

LEMMA PlayerStep ==
    SessionInv /\ PlayerInv /\ [ServerNext]_serverVars => PlayerInv'
<1> SUFFICES ASSUME SessionInv, PlayerInv, [ServerNext]_serverVars PROVE PlayerInv'
  OBVIOUS
<1>1. CASE Lives
  BY <1>1, LifePreserves DEF Lives
<1>2. ASSUME NEW id \in Nat \ {0}, Plays(id) PROVE PlayerInv'
  BY <1>2, JoinPreserves, SuspendPreserves DEF Plays
<1> QED
  BY <1>1, <1>2, ServerSteps

LEMMA PlayersAreInvariant == ServerSpec => []PlayerInv
  BY PlayerInit, PlayerStep, SessionInServer, PTL DEF ServerSpec

(***************************************************************************)
(* The registry, its mappings and the engine agree at every point of the   *)
(* frame: no orphan entity, no shared connection or session key, and       *)
(* exactly the suspended players are unbound (PlayerManager.cpp).          *)
(***************************************************************************)
THEOREM Consistent == ServerSpec => []PlayersConsistent
<1>1. PlayerInv => PlayersConsistent
  BY DEF PlayerInv
<1> QED
  BY <1>1, PlayersAreInvariant, PTL

(***************************************************************************)
(* No member leaves a live player behind: a player bound to a connection   *)
(* that was a member is bound to one that is, or whose leave is queued     *)
(* (PlayerManagerService.h, PlayerSessionObserver.cpp).                    *)
(***************************************************************************)
THEOREM Suspended == ServerSpec => []MemberPlayersAreSuspended
<1>1. ASSUME SessionInv, PlayerInv PROVE MemberPlayersAreSuspended
  <2> SUFFICES ASSUME NEW p \in Registered, NEW id, id = players[p].connection,
                      id # NoConnection, id \in admitted, id \notin members
               PROVE  LeavePending(id)
    BY DEF MemberPlayersAreSuspended
  <2>1. id \notin left
    BY <1>1 DEF PlayerInv, BindingOf
  <2>2. \E j \in DOMAIN deltas : deltas[j] = Report("Left", id)
    BY <1>1, <2>1 DEF SessionInv, DeltaInv
  <2> QED
    BY <2>2 DEF LeavePending, Report
<1> QED
  BY <1>1, PlayersAreInvariant, SessionInServer, PTL

(***************************************************************************)
(* A connection is one player for life: a player is bound at its creation, *)
(* to a connection no player was made for, and never to another one.       *)
(***************************************************************************)
THEOREM OnePlayer == ServerSpec => OnePlayerPerConnection
<1> DEFINE Once ==
      \A p \in Registered' :
          players'[p].connection # NoConnection =>
              IF p \in Registered
              THEN players'[p].connection = players[p].connection
              ELSE \A q \in Registered : players[q].sessionMember # players'[p].connection
<1>1. ASSUME SessionInv, PlayerInv, [ServerNext]_serverVars PROVE Once
  <2>1. CASE Lives
    BY <1>1, <2>1, LifePreserves DEF Lives
  <2>2. ASSUME NEW id \in Nat \ {0}, RequestJoin(id), id \notin left, left' = left
        PROVE  Once
    <3>1. CASE JoinAccepted(id)
      <4>1. /\ Registered' = Registered \cup {nextPlayer}
            /\ players'[nextPlayer].connection = id
            /\ \A p \in Registered : players'[p] = players[p]
        BY <1>1, <2>2, <3>1, AcceptedJoin
      <4>2. \A q \in Registered : players[q].sessionMember # id
        BY <1>1, <2>2, <3>1, BoundOnce DEF JoinAccepted
      <4> QED
        BY <4>1, <4>2
    <3>2. CASE UNCHANGED players
      BY <3>2 DEF Registered
    <3> QED
      BY <2>2, <3>1, <3>2 DEF RequestJoin, JoinRefused, JoinSpawnFailed, playerVars
  <2>3. ASSUME NEW id \in Nat \ {0}, SuspendOnLeave(id)
        PROVE  Once
    <3>1. players' = [p \in Registered |->
                     IF p \in BoundTo(id) /\ players[p].lifecycle \in {"Active", "Dead"}
                     THEN [players[p] EXCEPT !.lifecycle = "Suspended",
                                             !.connection = NoConnection]
                     ELSE players[p]]
      BY <2>3 DEF SuspendOnLeave
    <3>2. Registered' = Registered /\ \A p \in Registered : players[p] \in PlayerRecord
      BY <1>1, <3>1 DEF Registered, PlayerInv, PlayersConsistent, PlayersTypeOK
    <3>3. ASSUME NEW p \in Registered, players'[p].connection # NoConnection
          PROVE  players'[p] = players[p]
      BY <3>1, <3>2, <3>3 DEF PlayerRecord
    <3> QED
      BY <3>2, <3>3
  <2> QED
    BY <1>1, <2>1, <2>2, <2>3, ServerSteps DEF Plays
<1> QED
  BY <1>1, PlayersAreInvariant, SessionInServer, PTL DEF ServerSpec, OnePlayerPerConnection
=============================================================================
