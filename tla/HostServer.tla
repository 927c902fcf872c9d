----------------------------- MODULE HostServer -----------------------------
(***************************************************************************)
(* The host endpoint of the networking module: HostServer::Tick and        *)
(* HostServer::Stop over the ConnectionTable, the Handshake state machine, *)
(* the Session and the UDP transport, as one deterministic pass per frame. *)
(*                                                                         *)
(* The pass is single-threaded, but it is a long sequence of loops over    *)
(* stores that the loops themselves change, so it is modelled loop by      *)
(* loop: "stage" says which loop of the frame runs and "todo" which ids it *)
(* still has to visit.  A frame is                                         *)
(*                                                                         *)
(*   idle -> players (tick 250: the session's deltas are drained)          *)
(*        -> poll -> accept -> receive -> timeouts -> handshake            *)
(*        -> heartbeat -> drain (tick 900) -> idle                         *)
(*                                                                         *)
(* Ticks are kept as ages (ticks elapsed since the stored tick), which     *)
(* saturate one past the last value a comparison can tell apart.           *)
(* The network may lose, delay, duplicate and reorder: any peer may at any *)
(* poll deliver any datagram kind the constant Traffic offers.             *)
(***************************************************************************)
EXTENDS Integers, Sequences, FiniteSets, Maps

SeqExt == INSTANCE SequencesExt

CONSTANTS
    Peer,             \* remote addresses; one transport endpoint is minted per address
    Traffic,          \* the datagram kinds the network carries
    MaxConnections,   \* [networking] max_connections: table and session capacity
    HandshakeTicks,   \* handshake_timeout_ms as ticks
    ConnectionTicks,  \* connection_timeout_ms as ticks
    HeartbeatTicks,   \* heartbeat_interval_ms as ticks
    MaxDatagrams,     \* datagrams one Poll can take out of max_bytes_per_tick
    MaxBacklog        \* bound: packets an early end of the drain leaves per outbox

\* Messages that carry a handshake id and a payload that decodes.  "HelloBad"
\* has another protocol version, "ResponseBad" another nonce; "Echo" is a
\* Challenge or Established sent back at the host.
HandshakeMessage == {"Hello", "HelloBad", "Response", "ResponseBad", "Echo"}

\* "Other": Pong, an unassigned control id, or a handshake id whose payload is
\* too short.  "Malformed": the header does not decode.
Datagram == HandshakeMessage
            \cup {"Ping", "Bye", "Other", "Malformed", "JoinRequest", "RespawnRequest"}

\* The ids at or above kDataIdMin that have a registered handler.
DataMessage == {"JoinRequest", "RespawnRequest"}

ASSUME TrafficAssumption  == Traffic \subseteq Datagram
ASSUME PeerAssumption     == IsFiniteSet(Peer)
ASSUME CapacityAssumption == MaxConnections \in Nat \ {0}
ASSUME TicksAssumption    == /\ HandshakeTicks \in Nat \ {0}
                             /\ ConnectionTicks \in Nat \ {0}
                             /\ HeartbeatTicks \in Nat \ {0}
ASSUME BudgetAssumption   == MaxDatagrams \in Nat /\ MaxBacklog \in Nat

VARIABLES
    stage,           \* the loop of the frame that runs
    todo,            \* ids the present loop has still to visit
    nextId,          \* ConnectionTable::m_nextId
    table,           \* ConnectionTable::m_entries, by id
    conns,           \* HostServer::m_conns, by id
    endpointToConn,  \* HostServer::m_endpointToConn, by endpoint
    members,         \* Session::m_members
    deltas,          \* PlayerDeltaQueue::m_deltas, filled by the session observer
    known,           \* UdpTransport::m_addrToEndpoint: addresses with an endpoint
    accepted,        \* UdpTransport::m_accepted
    received,        \* UdpTransport::m_received: the senders; contents at Receive
    bound,           \* UdpTransport::m_bound
    lastSent,        \* the last packet handed to the socket for each address
    admitted,        \* history: connections that are or were session members
    joined, left     \* history: connections the delta consumer was told of

transportVars == <<known, accepted, received, bound>>
connVars      == <<nextId, table, conns, endpointToConn>>
historyVars   == <<joined, left>>
sessionVars   == <<members, deltas, admitted>>
hostVars == <<stage, todo, connVars, sessionVars, transportVars, lastSent, historyVars>>

ConnectionId == Nat \ {0}
Stage == {"idle", "players", "poll", "accept", "receive", "timeouts",
          "handshake", "heartbeat", "drain", "stopping", "stopped"}
HandshakeState == {"None", "ChallengeSent", "Established"}
Control == {"Challenge", "Established", "Ping", "Pong"}

\* The state the host gives a stored connection: Add leaves Disconnected, the
\* accept loop sets Handshaking at once, and BeginDisconnect removes the entry.
ConnectionState == {"Handshaking", "Connected"}

Connection == [endpoint   : Peer,
               state      : ConnectionState,
               handshake  : HandshakeState,
               createdAge : 0..(HandshakeTicks + 1),
               recvAge    : 0..(ConnectionTicks + 1),
               sendAge    : 0..HeartbeatTicks]

HostConn == [endpoint : Peer, inbox : Seq(HandshakeMessage), outbox : Seq(Control)]

Delta == [kind : {"Joined", "Left"}, connection : ConnectionId]

TypeOK ==
    /\ stage \in Stage
    /\ todo \in SUBSET ConnectionId
    /\ nextId \in ConnectionId
    /\ DOMAIN table \subseteq ConnectionId
    /\ table \in [DOMAIN table -> Connection]
    /\ DOMAIN conns \subseteq ConnectionId
    /\ conns \in [DOMAIN conns -> HostConn]
    /\ DOMAIN endpointToConn \subseteq Peer
    /\ endpointToConn \in [DOMAIN endpointToConn -> ConnectionId]
    /\ members \in SUBSET ConnectionId
    /\ deltas \in Seq(Delta)
    /\ known \in SUBSET Peer
    /\ accepted \in Seq(Peer)
    /\ received \in Seq(Peer)
    /\ bound \in BOOLEAN
    /\ lastSent \in [Peer -> Control \cup {"Bye", "Nothing"}]
    /\ admitted \in SUBSET ConnectionId
    /\ joined \in SUBSET ConnectionId
    /\ left \in SUBSET ConnectionId
-----------------------------------------------------------------------------
Ids == DOMAIN table

\* The first id a loop over Ids() has still to visit: Ids() is ascending.
IsNext(id) == id \in todo /\ \A other \in todo : id <= other

Older(age, limit) == IF age < limit THEN age + 1 ELSE limit

\* Handing a packet to the transport: an unbound transport returns Error, and
\* the socket may fail or block, which every caller here ignores.
TrySend(peer, packet) ==
    \/ bound /\ lastSent' = [lastSent EXCEPT ![peer] = packet]
    \/ UNCHANGED lastSent

\* Mutants of Remove: the session keeps the member; a stranger's leave is
\* reported too; a member's leave is not reported.
RemoveNothing(id) == UNCHANGED sessionVars

RemoveAnyone(id) ==
    /\ members' = members \ {id}
    /\ deltas' = Append(deltas, [kind |-> "Left", connection |-> id])
    /\ UNCHANGED admitted

RemoveSilently(id) == members' = members \ {id} /\ UNCHANGED <<deltas, admitted>>

\* Session::Admit and Session::Remove with the PlayerSessionObserver attached:
\* each membership change enqueues exactly one delta.
Admit(id) ==
    IF Cardinality(members) < MaxConnections /\ id \notin members
    THEN /\ members' = members \cup {id}
         /\ admitted' = admitted \cup {id}
         /\ deltas' = Append(deltas, [kind |-> "Joined", connection |-> id])
    ELSE UNCHANGED sessionVars

Remove(id) ==
    IF id \in members
    THEN /\ members' = members \ {id}
         /\ deltas' = Append(deltas, [kind |-> "Left", connection |-> id])
         /\ UNCHANGED admitted
    ELSE UNCHANGED sessionVars

\* Mutant: the endpoint's route outlives its connection.
DisconnectKeepsRoute(id) ==
    /\ table' = Erase(table, id)
    /\ IF id \in Ids THEN TrySend(table[id].endpoint, "Bye") ELSE UNCHANGED lastSent
    /\ Remove(id)
    /\ conns' = Erase(conns, id)
    /\ UNCHANGED endpointToConn

\* HostServer::Disconnect: table first, then the Bye, the session, the routes.
Disconnect(id) ==
    /\ table' = Erase(table, id)
    /\ IF id \in Ids THEN TrySend(table[id].endpoint, "Bye") ELSE UNCHANGED lastSent
    /\ Remove(id)
    /\ IF id \in DOMAIN conns
       THEN /\ endpointToConn' = Erase(endpointToConn, conns[id].endpoint)
            /\ conns' = Erase(conns, id)
       ELSE UNCHANGED <<conns, endpointToConn>>

EnqueueControl(id, packet) ==
    conns' = [conns EXCEPT ![id].outbox = Append(@, packet)]

\* Handshake::Advance.  The state a message leads to, or "drop".
Advance(state, message, authorized) ==
    CASE state = "None" /\ message = "Hello" -> "ChallengeSent"
      [] state = "ChallengeSent" /\ message = "Response" /\ authorized -> "Established"
      [] OTHER -> "drop"

\* The control message a successful advance sends.
Reply(state) == IF state = "ChallengeSent" THEN "Challenge" ELSE "Established"

\* Mutants of Overdue: any message extends the handshake's budget; only
\* handshakes time out.
OverdueSinceReceive(id) ==
    IF table[id].handshake # "Established"
    THEN table[id].recvAge > HandshakeTicks
    ELSE table[id].state = "Connected" /\ table[id].recvAge > ConnectionTicks

OverdueHandshakeOnly(id) ==
    table[id].handshake # "Established" /\ table[id].createdAge > HandshakeTicks

\* ConnectionTable::ScanTimeouts: strictly past the budget of its phase.
Overdue(id) ==
    IF table[id].handshake # "Established"
    THEN table[id].createdAge > HandshakeTicks
    ELSE table[id].state = "Connected" /\ table[id].recvAge > ConnectionTicks
-----------------------------------------------------------------------------
Init ==
    /\ stage = "idle"
    /\ todo = {}
    /\ nextId = 1
    /\ table = Nothing
    /\ conns = Nothing
    /\ endpointToConn = Nothing
    /\ members = {}
    /\ deltas = <<>>
    /\ admitted = {}
    /\ known = {}
    /\ accepted = <<>>
    /\ received = <<>>
    /\ bound = TRUE
    /\ lastSent = [p \in Peer |-> "Nothing"]
    /\ joined = {}
    /\ left = {}

BeginFrame ==
    /\ stage = "idle"
    /\ stage' = "players"
    /\ UNCHANGED <<todo, connVars, sessionVars, transportVars, lastSent, historyVars>>

\* PlayerDeltaQueue::Drain sorts by connection id, equal ids in arrival order;
\* the loop of ApplyPendingDeltas consumes the sorted deltas one after another.
IsNextDelta(i) ==
    /\ i \in DOMAIN deltas
    /\ \A j \in DOMAIN deltas :
          \/ deltas[i].connection < deltas[j].connection
          \/ deltas[i].connection = deltas[j].connection /\ i <= j

DeliverDelta(kind, id) ==
    /\ stage = "players"
    /\ \E i \in DOMAIN deltas :
          /\ IsNextDelta(i)
          /\ deltas[i] = [kind |-> kind, connection |-> id]
          /\ deltas' = SeqExt!RemoveAt(deltas, i)
    /\ joined' = IF kind = "Joined" THEN joined \cup {id} ELSE joined
    /\ left' = IF kind = "Left" THEN left \cup {id} ELSE left
    /\ UNCHANGED <<stage, todo, connVars, members, admitted, transportVars, lastSent>>

\* NetworkingService::Tick: ++m_tick, then the pass starts.
BeginTick ==
    /\ stage = "players"
    /\ deltas = <<>>
    /\ stage' = "poll"
    /\ table' = [id \in Ids |->
                   [table[id] EXCEPT !.createdAge = Older(@, HandshakeTicks + 1),
                                     !.recvAge = Older(@, ConnectionTicks + 1),
                                     !.sendAge = Older(@, HeartbeatTicks)]]
    /\ UNCHANGED <<todo, nextId, conns, endpointToConn, sessionVars, transportVars,
                   lastSent, historyVars>>

\* Mutant: every datagram is reported as a new endpoint.
PollAcceptsAlways(peer) ==
    /\ stage = "poll"
    /\ Len(received) < MaxDatagrams
    /\ received' = Append(received, peer)
    /\ known' = known \cup {peer}
    /\ accepted' = Append(accepted, peer)
    /\ UNCHANGED <<stage, todo, connVars, sessionVars, bound, lastSent, historyVars>>

\* UdpTransport::Poll takes one datagram; the first of an address mints its
\* endpoint and accepts it.
PollDatagram(peer) ==
    /\ stage = "poll"
    /\ Len(received) < MaxDatagrams
    /\ received' = Append(received, peer)
    /\ known' = known \cup {peer}
    /\ accepted' = IF peer \in known THEN accepted ELSE Append(accepted, peer)
    /\ UNCHANGED <<stage, todo, connVars, sessionVars, bound, lastSent, historyVars>>

EndPoll ==
    /\ stage = "poll"
    /\ stage' = "accept"
    /\ UNCHANGED <<todo, connVars, sessionVars, transportVars, lastSent, historyVars>>
-----------------------------------------------------------------------------
\* ConnectionTable::Add, and the state the accept loop sets at once.
NewConnection(peer) ==
    [endpoint |-> peer, state |-> "Handshaking", handshake |-> "None",
     createdAge |-> 0, recvAge |-> 0, sendAge |-> 0]

\* Step 2 of the tick: every accepted endpoint, before any datagram is read.
Accept ==
    /\ stage = "accept"
    /\ accepted # <<>>
    /\ Cardinality(Ids) < MaxConnections
    /\ LET peer == Head(accepted) IN
          /\ table' = Put(table, nextId, NewConnection(peer))
          /\ conns' = Put(conns, nextId, [endpoint |-> peer, inbox |-> <<>>, outbox |-> <<>>])
          /\ endpointToConn' = Put(endpointToConn, peer, nextId)
    /\ nextId' = nextId + 1
    /\ accepted' = Tail(accepted)
    /\ UNCHANGED <<stage, todo, sessionVars, known, received, bound, lastSent, historyVars>>

RejectCapacity ==
    /\ stage = "accept"
    /\ accepted # <<>>
    /\ Cardinality(Ids) >= MaxConnections
    /\ TrySend(Head(accepted), "Bye")
    /\ accepted' = Tail(accepted)
    /\ UNCHANGED <<stage, todo, connVars, sessionVars, known, received, bound, historyVars>>

EndAccept ==
    /\ stage = "accept"
    /\ accepted = <<>>
    /\ stage' = "receive"
    /\ UNCHANGED <<todo, connVars, sessionVars, transportVars, lastSent, historyVars>>
-----------------------------------------------------------------------------
\* Step 3: the received datagrams in arrival order.
Take == stage = "receive" /\ received # <<>> /\ received' = Tail(received)

\* An unknown endpoint, or a header that does not decode: dropped before the
\* receive tick is stored.
DropDatagram ==
    /\ Take
    /\ Head(received) \notin DOMAIN endpointToConn \/ "Malformed" \in Traffic
    /\ UNCHANGED <<stage, todo, connVars, sessionVars, known, accepted, bound,
                   lastSent, historyVars>>

\* A datagram of this kind arrives from connection id and its header decodes.
\* The code also skips an id one of the stores lacks: RoutingConsistent says
\* that never happens, and a state where it did would deadlock here.
Arrives(id, message) ==
    /\ Take
    /\ message \in Traffic
    /\ Head(received) \in DOMAIN endpointToConn
    /\ id = endpointToConn[Head(received)]
    /\ id \in Ids \cap DOMAIN conns
    /\ UNCHANGED <<stage, todo, nextId, known, accepted, bound, historyVars>>

Heard(id) == table' = [table EXCEPT ![id].recvAge = 0]

\* One handshake message is buffered; step 4b advances it.
ReceiveHandshake(id, message) ==
    /\ message \in HandshakeMessage
    /\ Arrives(id, message)
    /\ Heard(id)
    /\ conns' = [conns EXCEPT ![id].inbox = Append(@, message)]
    /\ UNCHANGED <<endpointToConn, sessionVars, lastSent>>

ReceivePing(id) ==
    /\ Arrives(id, "Ping")
    /\ Heard(id)
    /\ EnqueueControl(id, "Pong")
    /\ UNCHANGED <<endpointToConn, sessionVars, lastSent>>

ReceiveBye(id) ==
    /\ Arrives(id, "Bye")
    /\ Disconnect(id)

ReceiveOther(id) ==
    /\ Arrives(id, "Other")
    /\ Heard(id)
    /\ UNCHANGED <<conns, endpointToConn, sessionVars, lastSent>>

\* MessageRegistry::Dispatch calls the registered handler whatever the state of
\* the connection; what the handlers do is in module DedicatedServer.
ReceiveData(id, message) ==
    /\ message \in DataMessage
    /\ Arrives(id, message)
    /\ Heard(id)
    /\ UNCHANGED <<conns, endpointToConn, sessionVars, lastSent>>

\* Step 4a starts: the scan collects the overdue ids before any is removed.
EndReceive ==
    /\ stage = "receive"
    /\ received = <<>>
    /\ stage' = "timeouts"
    /\ todo' = {id \in Ids : Overdue(id)}
    /\ UNCHANGED <<connVars, sessionVars, transportVars, lastSent, historyVars>>
-----------------------------------------------------------------------------
TimeOut(id) ==
    /\ stage = "timeouts"
    /\ IsNext(id)
    /\ todo' = todo \ {id}
    /\ Disconnect(id)
    /\ UNCHANGED <<stage, nextId, transportVars, historyVars>>

EndTimeouts ==
    /\ stage = "timeouts"
    /\ todo = {}
    /\ stage' = "handshake"
    /\ todo' = Ids
    /\ UNCHANGED <<connVars, sessionVars, transportVars, lastSent, historyVars>>

\* Step 4b: at most one buffered message per connection and tick.
Handshaking(id) == stage = "handshake" /\ IsNext(id) /\ todo' = todo \ {id}

SkipHandshake(id) ==
    /\ Handshaking(id)
    /\ id \notin DOMAIN conns \/ conns[id].inbox = <<>>
    /\ UNCHANGED <<stage, connVars, sessionVars, transportVars, lastSent, historyVars>>

\* The outcome of the head of the inbox; IConnectionAuthenticator::Authorize may
\* allow or deny.
Outcome(id, state) ==
    /\ Handshaking(id)
    /\ id \in DOMAIN conns
    /\ conns[id].inbox # <<>>
    /\ \E authorized \in BOOLEAN :
          state = Advance(table[id].handshake, Head(conns[id].inbox), authorized)
    /\ UNCHANGED <<stage, nextId, transportVars, historyVars>>

AdvanceHandshake(id, state) ==
    /\ state \in HandshakeState
    /\ Outcome(id, state)
    /\ conns' = [conns EXCEPT ![id] =
                  [@ EXCEPT !.inbox = Tail(conns[id].inbox),
                            !.outbox = Append(conns[id].outbox, Reply(state))]]
    /\ IF state = "Established"
       THEN /\ table' = [table EXCEPT ![id] = [@ EXCEPT !.handshake = state,
                                                        !.state = "Connected",
                                                        !.sendAge = 0]]
            /\ Admit(id)
       ELSE /\ table' = [table EXCEPT ![id].handshake = state]
            /\ UNCHANGED sessionVars
    /\ UNCHANGED <<endpointToConn, lastSent>>

DropHandshake(id) == Outcome(id, "drop") /\ Disconnect(id)

EndHandshake ==
    /\ stage = "handshake"
    /\ todo = {}
    /\ stage' = "heartbeat"
    /\ UNCHANGED <<todo, connVars, sessionVars, transportVars, lastSent, historyVars>>
-----------------------------------------------------------------------------
HeartbeatDue(id) == table[id].state = "Connected" /\ table[id].sendAge >= HeartbeatTicks

\* Step 5, the whole loop; step 6 then visits every id.
Heartbeat ==
    /\ stage = "heartbeat"
    /\ LET due == {id \in Ids \cap DOMAIN conns : HeartbeatDue(id)} IN
          /\ conns' = [id \in DOMAIN conns |->
                         IF id \in due
                         THEN [conns[id] EXCEPT !.outbox = Append(@, "Ping")]
                         ELSE conns[id]]
          /\ table' = [id \in Ids |->
                         IF id \in due THEN [table[id] EXCEPT !.sendAge = 0] ELSE table[id]]
    /\ stage' = "drain"
    /\ todo' = Ids
    /\ UNCHANGED <<nextId, endpointToConn, sessionVars, transportVars, lastSent, historyVars>>

\* Step 6 sends the head of the outbox; a failed send loses the packet.
DrainPacket(id) ==
    /\ stage = "drain"
    /\ IsNext(id)
    /\ id \in DOMAIN conns
    /\ conns[id].outbox # <<>>
    /\ TrySend(conns[id].endpoint, Head(conns[id].outbox))
    /\ conns' = [conns EXCEPT ![id].outbox = Tail(@)]
    /\ UNCHANGED <<stage, todo, nextId, table, endpointToConn, sessionVars,
                   transportVars, historyVars>>

DrainNext(id) ==
    /\ stage = "drain"
    /\ IsNext(id)
    /\ id \notin DOMAIN conns \/ conns[id].outbox = <<>>
    /\ todo' = todo \ {id}
    /\ UNCHANGED <<stage, connVars, sessionVars, transportVars, lastSent, historyVars>>

\* All ids visited, or the byte budget is spent, or the socket would block: what
\* is queued waits for the next tick.
EndDrain ==
    /\ stage = "drain"
    /\ todo = {} \/ \A id \in DOMAIN conns : Len(conns[id].outbox) <= MaxBacklog
    /\ stage' = "idle"
    /\ todo' = {}
    /\ UNCHANGED <<connVars, sessionVars, transportVars, lastSent, historyVars>>
-----------------------------------------------------------------------------
\* HostServer::Stop, called once the frame dispatcher no longer runs.
Stop ==
    /\ stage = "idle"
    /\ stage' = "stopping"
    /\ bound' = FALSE
    /\ todo' = Ids
    /\ UNCHANGED <<connVars, sessionVars, known, accepted, received, lastSent, historyVars>>

StopConnection(id) ==
    /\ stage = "stopping"
    /\ IsNext(id)
    /\ todo' = todo \ {id}
    /\ Disconnect(id)
    /\ UNCHANGED <<stage, nextId, transportVars, historyVars>>

EndStop ==
    /\ stage = "stopping"
    /\ todo = {}
    /\ stage' = "stopped"
    /\ conns' = Nothing
    /\ endpointToConn' = Nothing
    /\ UNCHANGED <<todo, nextId, table, sessionVars, transportVars, lastSent, historyVars>>

\* A stopped host ticks no more.
Stopped == stage = "stopped" /\ UNCHANGED hostVars
-----------------------------------------------------------------------------
\* The steps that concern no other component.
FrameStep ==
    \/ BeginFrame \/ BeginTick \/ EndPoll \/ EndAccept \/ EndReceive
    \/ EndTimeouts \/ EndHandshake \/ Heartbeat \/ EndDrain

ConnectionStep(id) ==
    \/ \E message \in HandshakeMessage : ReceiveHandshake(id, message)
    \/ ReceivePing(id) \/ ReceiveBye(id) \/ ReceiveOther(id)
    \/ TimeOut(id)
    \/ SkipHandshake(id) \/ DropHandshake(id)
    \/ \E state \in HandshakeState : AdvanceHandshake(id, state)
    \/ DrainPacket(id) \/ DrainNext(id)
    \/ StopConnection(id)

PassStep ==
    \/ Accept \/ RejectCapacity \/ DropDatagram
    \/ \E id \in 1..(nextId - 1) : ConnectionStep(id)

StopStep == Stop \/ EndStop \/ Stopped

\* The steps another component takes part in: the delta consumer at tick 250
\* and the data-message handlers.
SharedStep ==
    \E id \in 1..(nextId - 1) :
       \/ \E kind \in {"Joined", "Left"} : DeliverDelta(kind, id)
       \/ \E message \in DataMessage : ReceiveData(id, message)

Next ==
    \/ FrameStep \/ PassStep \/ SharedStep \/ StopStep
    \/ \E peer \in Peer : PollDatagram(peer)

Spec == Init /\ [][Next]_hostVars
-----------------------------------------------------------------------------
\* The frame loop calls the pass for ever unless the host is stopped.  No
\* fairness is asked of the network (PollDatagram) nor of Stop.
FairSpec == Spec /\ WF_hostVars(FrameStep \/ PassStep \/ SharedStep \/ EndStop)
-----------------------------------------------------------------------------
Running == stage \notin {"stopping", "stopped"}

(***************************************************************************)
(* The three stores every datagram and every packet is routed through,     *)
(* ConnectionTable, m_conns and m_endpointToConn, name the same            *)
(* connections at every point of every loop: no orphan endpoint, no queue  *)
(* without a connection, one connection per endpoint.  They are updated at *)
(* different lines of Accept and Disconnect, in the middle of loops.       *)
(***************************************************************************)
RoutingConsistent ==
    /\ DOMAIN conns = Ids
    /\ \A id \in Ids : /\ conns[id].endpoint = table[id].endpoint
                       /\ table[id].endpoint \in DOMAIN endpointToConn
                       /\ endpointToConn[table[id].endpoint] = id
    /\ \A p \in DOMAIN endpointToConn :
          endpointToConn[p] \in Ids /\ table[endpointToConn[p]].endpoint = p

(***************************************************************************)
(* The session's members are exactly the connections whose handshake is    *)
(* complete: Admit is never refused and never skipped, and every way a     *)
(* connection can go (Bye, timeout, bad handshake, Stop) takes its         *)
(* membership with it.                                                     *)
(***************************************************************************)
MembersAreConnected ==
    /\ members = {id \in Ids : table[id].handshake = "Established"}
    /\ members = {id \in Ids : table[id].state = "Connected"}

-----------------------------------------------------------------------------
(***************************************************************************)
(* What makes the invariants above inductive.                              *)
(***************************************************************************)

\* What a loop has still to visit is still stored: no iteration removes an id
\* another iteration will look at.
TodoIsStored ==
    /\ stage \in {"timeouts", "handshake", "drain"} => todo \subseteq Ids
    /\ stage = "stopping" => todo = Ids

\* The transport accepts an address once: an accepted endpoint routes nowhere.
EndpointsAreFresh ==
    /\ DOMAIN endpointToConn \subseteq known
    /\ \A i \in DOMAIN accepted : accepted[i] \in known \ DOMAIN endpointToConn
    /\ \A i, j \in DOMAIN accepted : accepted[i] = accepted[j] => i = j

IdsAreFresh == \A id \in Ids \cup admitted : id < nextId

WithinTable == IsFiniteSet(Ids) /\ Cardinality(Ids) <= MaxConnections

\* A stored connection that was ever a member still is one.
HistoryAgrees ==
    /\ members \cup joined \subseteq admitted
    /\ admitted \cap Ids \subseteq members
    /\ left \subseteq joined \ members

-----------------------------------------------------------------------------
(***************************************************************************)
(* Nothing is sent to a peer once it was sent a Bye: what its outbox still *)
(* held is discarded, and no later pass reaches the endpoint.              *)
(***************************************************************************)
NothingAfterBye ==
    [][\A p \in Peer : lastSent[p] = "Bye" => lastSent'[p] = "Bye"]_hostVars

Membership == INSTANCE SessionMembership

(***************************************************************************)
(* Session and delta queue implement the abstract membership: once a       *)
(* member at most, told of joining and leaving exactly once, in order.     *)
(***************************************************************************)
ImplementsMembership == Membership!Spec

(***************************************************************************)
(* A peer cannot hold a slot without completing the handshake: whatever it *)
(* sends, the connection is established or gone after finitely many steps. *)
(***************************************************************************)
HandshakeDecided ==
    \A id \in 1..Cardinality(Peer) :
       id \in Ids ~> (id \notin Ids \/ id \in members)

(***************************************************************************)
(* A silent peer is dropped: a connection is heard of again or removed.    *)
(***************************************************************************)
SilentPeerRemoved ==
    \A id \in 1..Cardinality(Peer) :
       (id \in Ids /\ table[id].recvAge > 0)
           ~> (id \notin Ids \/ table[id].recvAge = 0)

(***************************************************************************)
(* Unless the host stops, the consumer learns of every membership and of   *)
(* its end.                                                                *)
(***************************************************************************)
MembershipReported ==
    \A id \in 1..Cardinality(Peer) :
       /\ id \in admitted ~> (id \in joined \/ ~Running)
       /\ (id \in admitted /\ id \notin members) ~> (id \in left \/ ~Running)
=============================================================================
