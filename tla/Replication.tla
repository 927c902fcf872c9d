----------------------------- MODULE Replication -----------------------------
(***************************************************************************)
(* The replication pipeline: ReplicationManager::Update with its worker,   *)
(* the interest policy, the delta encoder, the two bounded queues and the  *)
(* packet builder, and the client registry with its acknowledgements.      *)
(*                                                                         *)
(* A frame publishes a snapshot or leaves the last one (tick 400), moves   *)
(* the bubble (tick 300) and runs one worker pass over every client (tick  *)
(* 450).  The pass is one step: nothing else runs inside it, and what it   *)
(* does to one client reads nothing another client's turn writes but the   *)
(* scratch queues.  Between frames clients come, move, acknowledge and go. *)
(*                                                                         *)
(* The tracked state of an entity is its place, which stands for position  *)
(* and flags, and its velocity; an entity is within the interest radius of *)
(* a focus when both are one place.  A change of either is a change, and   *)
(* the baseline keeps both; a packet says the place only.                  *)
(* Packets are assembled and never sent by this code.  "view" is what a    *)
(* client knows that applies every packet assembled for it, in order.      *)
(* Clients acknowledge what they please; the network keeps every           *)
(* acknowledgement and delivers it late, again or never.                   *)
(***************************************************************************)
EXTENDS Integers, Sequences, FiniteSets, TLC, Maps

CONSTANTS
    MaxEntity,             \* bound: entity ids are 1..MaxEntity
    Place,                 \* positions and flags, and focus positions
    Velocity,
    Connection,
    MaxClients,            \* [replication] max_clients
    MaxEntitiesPerUpdate,  \* [replication] max_entities_per_update
    ReliableQueueDepth,    \* [replication] reliable_queue_depth
    UnreliableQueueDepth,  \* [replication] unreliable_queue_depth
    BandwidthBudget,       \* [replication] bandwidth_budget_bytes_per_tick, 0: off
    InterestRadius,        \* [replication] interest_radius_meters, 0: off
    MaxTick,               \* bound: the world moves in MaxTick frames
    MaxRegistrations,      \* bound: clients registered in all
    MaxAck                 \* bound: acknowledged replication ids

\* What ReplicationConfiguration::FromConfig accepts.
ASSUME ConfigurationAssumption ==
    /\ MaxClients \in Nat \ {0}
    /\ MaxEntitiesPerUpdate \in Nat \ {0}
    /\ ReliableQueueDepth \in Nat \ {0}
    /\ UnreliableQueueDepth \in Nat \ {0}
    /\ BandwidthBudget \in Nat
    /\ InterestRadius \in Nat
ASSUME BoundAssumption ==
    MaxEntity \in Nat /\ MaxTick \in Nat /\ MaxRegistrations \in Nat /\ MaxAck \in Nat

VARIABLES
    running,       \* the manager is subscribed and not shut down
    tick,          \* frames in which the world moved
    published,     \* what Acquire returns: the entities' states, or NoSnapshot
    clients,       \* ReplicationClientRegistry::m_records, by id
    nextClientId,
    acks,          \* acknowledgements sent, that may arrive at any time
    baselines,     \* ReplicationWorker::m_baselines, by client id
    queues,        \* the worker's scratch queues
    view,          \* history: what the packets say, by client id
    whole,         \* history: clients no record of whose was left out
    said           \* history: what a registered client has acknowledged, by id

registryVars == <<clients, nextClientId>>
ackVars == <<acks, said>>
workerVars == <<baselines, queues>>
historyVars == <<view, whole>>
vars == <<running, tick, published, registryVars, ackVars, workerVars, historyVars>>

Entity == 1..MaxEntity
ClientId == 1..MaxRegistrations
\* Never a snapshot: entity ids start at 1, and 0 is the reserved none.
NoSnapshot == [e \in {0} |-> 0]
Tracked == [place : Place, velocity : Velocity]
Worlds == UNION {[S -> Tracked] : S \in SUBSET Entity}

EntityState == [place : Place, velocity : Velocity, version : 1..(MaxTick + 1)]
Known == UNION {[S -> EntityState] : S \in SUBSET Entity}
\* The acknowledged id and its tick go together: one number.
Client == [connection : Connection, focus : Place, acked : 0..MaxAck]
Ack == [client : ClientId, id : 1..MaxAck]

\* ClassifyReliability.  A change lost on the way is repaired by a later one
\* only for the kinds that are not here.
Reliability(kind) ==
    IF kind \in {"EntitySpawn", "EntityRemove", "Inventory", "QuestUpdate", "PlayerJoin",
                 "PlayerLeave", "Combat", "Damage"}
    THEN "Reliable"
    ELSE "Unreliable"

Empty == [Reliable |-> <<>>, Unreliable |-> <<>>]

Init ==
    /\ running = TRUE
    /\ tick = 0
    /\ published = NoSnapshot
    /\ clients = Nothing
    /\ nextClientId = 1
    /\ acks = {}
    /\ baselines = Nothing
    /\ queues = Empty
    /\ view = Nothing
    /\ whole = {}
    /\ said = Nothing
-----------------------------------------------------------------------------
(* ReplicationClientRegistry.                                              *)

\* Mutant: the id of a client that left is given out again.
FreshIdReused == CHOOSE id \in 1..nextClientId :
                    id \notin DOMAIN clients /\ \A k \in 1..(id - 1) : k \in DOMAIN clients
FreshId == nextClientId

Register(connection, focus) ==
    /\ running
    /\ Cardinality(DOMAIN clients) < MaxClients
    /\ \A id \in DOMAIN clients : clients[id].connection # connection
    /\ nextClientId <= MaxRegistrations
    /\ clients' = Put(clients, FreshId,
                      [connection |-> connection, focus |-> focus, acked |-> 0])
    /\ nextClientId' = nextClientId + 1
    /\ view' = Put(view, FreshId, Nothing)
    /\ whole' = whole \cup {FreshId}
    /\ said' = Put(said, FreshId, {})
    /\ UNCHANGED <<running, tick, published, acks, workerVars>>

\* The worker's baseline of the client stays behind.
Unregister(id) ==
    /\ running
    /\ clients' = Erase(clients, id)
    /\ view' = Erase(view, id)
    /\ whole' = whole \ {id}
    /\ said' = Erase(said, id)
    /\ UNCHANGED <<running, tick, published, nextClientId, acks, workerVars>>

UpdateFocus(id, focus) ==
    /\ running
    /\ clients' = [clients EXCEPT ![id].focus = focus]
    /\ UNCHANGED <<running, tick, published, nextClientId, ackVars, workerVars, historyVars>>

\* A client acknowledges a packet, under the id it was given.
SendAck(id, n) ==
    /\ acks' = acks \cup {[client |-> id, id |-> n]}
    /\ said' = [said EXCEPT ![id] = @ \cup {n}]
    /\ UNCHANGED <<running, tick, published, registryVars, workerVars, historyVars>>

\* Monotonic: an older or equal one is ignored.
Advances(record, ack) == ack.id > record.acked

\* HandleReplicationAck and RecordAck.  One of an unknown client is an error.
Acknowledge(ack) ==
    /\ running
    /\ clients' = IF ack.client \in DOMAIN clients /\ Advances(clients[ack.client], ack)
                  THEN [clients EXCEPT ![ack.client].acked = ack.id]
                  ELSE clients
    /\ UNCHANGED <<running, tick, published, nextClientId, ackVars, workerVars, historyVars>>
-----------------------------------------------------------------------------
(* One client's turn in ReplicationWorker::Execute.                        *)

\* Mutant: only the bubble counts.
RelevantInBubble(focus, world, inside) == DOMAIN world \cap inside
\* BubbleInterestPolicy::SelectRelevant.
Relevant(focus, world, inside) ==
    {e \in DOMAIN world : e \in inside \/ (InterestRadius > 0 /\ world[e].place = focus)}

\* BuildCurrentStates: the relevant entities with what the snapshot has of them.
Current(id, world, inside) == [e \in Relevant(clients[id].focus, world, inside) |-> world[e]]

\* BaselineFor: an unknown client starts from nothing.
Baseline(id) == IF id \in DOMAIN baselines THEN baselines[id] ELSE Nothing

Added(base, current)   == DOMAIN current \ DOMAIN base
Removed(base, current) == DOMAIN base \ DOMAIN current
\* EntityTrackedEqual compares what is sent and what is not.
Differs(a, b) == a.place # b.place \/ a.velocity # b.velocity
Changed(base, current) ==
    {e \in DOMAIN current \cap DOMAIN base : Differs(base[e], current[e])}

\* NextEntityBaseline.  The encoder stamps the records it emits the same way.
NextBaseline(base, current) ==
    [e \in DOMAIN current |->
       [place |-> current[e].place, velocity |-> current[e].velocity,
        version |-> IF e \in Added(base, current) THEN 1
                    ELSE base[e].version + (IF e \in Changed(base, current) THEN 1 ELSE 0)]]

\* EncodeEntityDelta reports Overflow: the turn ends here.
Overflows(base, current) ==
    Cardinality(Added(base, current) \cup Changed(base, current)) > MaxEntitiesPerUpdate

Ascending(S) ==
    CHOOSE s \in [1..Cardinality(S) -> S] : \A i, j \in DOMAIN s : i < j => s[i] < s[j]

\* The records EnqueueChangeSet makes of one category.
Batch(base, current, kind) ==
    LET of   == [EntityRemove |-> Removed(base, current), EntitySpawn |-> Added(base, current),
                 Position |-> Changed(base, current)][kind]
        next == NextBaseline(base, current)
    IN [i \in 1..Cardinality(of) |->
          LET e == Ascending(of)[i] IN
          [kind |-> kind, entity |-> e,
           state |-> IF kind = "EntityRemove" THEN [version |-> 0] ELSE next[e]]]

\* What one queue is offered: removed, added, changed.
Routed(base, current, reliability) ==
    LET To(kind) == IF Reliability(kind) = reliability THEN Batch(base, current, kind) ELSE <<>>
    IN To("EntityRemove") \o To("EntitySpawn") \o To("Position")

Due(base, current) ==
    Cardinality(Removed(base, current)) + Cardinality(Added(base, current))
        + Cardinality(Changed(base, current))

Least(m, n) == IF m < n THEN m ELSE n
Prefix(s, n) == SubSeq(s, 1, Least(Len(s), n))

\* A full queue refuses the record, and with it all that come after.
Enqueued(base, current) ==
    [Reliable   |-> Prefix(Routed(base, current, "Reliable"), ReliableQueueDepth),
     Unreliable |-> Prefix(Routed(base, current, "Unreliable"), UnreliableQueueDepth)]

HeaderBytes == 21
RecordBytes == 26
ChecksumBytes == 4
MaxRecords == 65535   \* recordCount is 16 bits on the wire

\* BuildPacket: the records one packet takes.  A budget below an empty frame is
\* an error, and the turn goes on without the packet.
Room ==
    LET empty == HeaderBytes + ChecksumBytes
        cap   == Least(MaxEntitiesPerUpdate, MaxRecords)
    IN  IF BandwidthBudget = 0 THEN cap
        ELSE IF BandwidthBudget < empty THEN 0
        ELSE Least((BandwidthBudget - empty) \div RecordBytes, cap)

\* What is written of a state: version, flags and position, no velocity.
OnWire(state) == [place |-> state.place, version |-> state.version]
Written(s) ==
    [i \in DOMAIN s |-> IF s[i].kind = "EntityRemove" THEN s[i]
                        ELSE [s[i] EXCEPT !.state = OnWire(@)]]

Packets(base, current) ==
    LET q == Enqueued(base, current)
    IN  Written(Prefix(q.Reliable, Room) \o Prefix(q.Unreliable, Room))

LeftQueued(base, current) ==
    LET q == Enqueued(base, current)
        Rest(s) == SubSeq(s, Len(Prefix(s, Room)) + 1, Len(s))
    IN [Reliable |-> Rest(q.Reliable), Unreliable |-> Rest(q.Unreliable)]

\* A client that applies a packet: removals erase, spawns and movements set.
Applied(known, packet) ==
    LET Of(e) == {i \in DOMAIN packet : packet[i].entity = e}
        gone == {e \in DOMAIN known : \E i \in Of(e) : packet[i].kind = "EntityRemove"}
        told == {packet[i].entity : i \in {j \in DOMAIN packet : packet[j].kind # "EntityRemove"}}
    IN [e \in (DOMAIN known \ gone) \cup told |->
          IF e \in told THEN packet[CHOOSE i \in Of(e) : TRUE].state ELSE known[e]]

\* Mutant: a client over the cap, that nothing was queued for, is advanced too.
AdvancedOverCap(base, current) == NextBaseline(base, current)
\* The baseline after the turn; one over the cap keeps it and catches up later.
Advanced(base, current) ==
    IF Overflows(base, current) THEN base ELSE NextBaseline(base, current)
-----------------------------------------------------------------------------
\* ReplicationManager::Update, after the bubble moved to "inside" and the
\* snapshot manager published "world" (or did not: world is the one before).
Update(world, inside) ==
    LET Now(id)  == Current(id, world, inside)
        served   == {id \in DOMAIN clients : ~Overflows(Baseline(id), Now(id))}
        Sent(id) == Packets(Baseline(id), Now(id))
        last     == CHOOSE id \in served : \A k \in served : k <= id
    IN
    /\ baselines' = [id \in DOMAIN baselines \cup DOMAIN clients |->
                       IF id \in DOMAIN clients
                       THEN Advanced(Baseline(id), Now(id))
                       ELSE baselines[id]]
    /\ queues' = IF served = {} THEN queues
                 ELSE LeftQueued(Baseline(last), Now(last))
    /\ view' = [id \in DOMAIN view |->
                  IF id \in served THEN Applied(view[id], Sent(id)) ELSE view[id]]
    /\ whole' = whole \ {id \in served : Len(Sent(id)) < Due(Baseline(id), Now(id))}

\* The engine moves, adds and removes entities until the bound; the bubble may
\* change in any frame.
Frame(world, inside, captured) ==
    /\ running
    /\ tick = MaxTick => ~captured
    /\ tick' = IF captured THEN tick + 1 ELSE tick
    /\ published' = IF captured THEN world ELSE published
    /\ IF published' = NoSnapshot
       THEN UNCHANGED <<workerVars, view, whole>>
       ELSE Update(published', inside)
    /\ UNCHANGED <<running, registryVars, ackVars>>

\* Unsubscribed, then shut down: FlushQueues.
Shutdown ==
    /\ running
    /\ running' = FALSE
    /\ queues' = Empty
    /\ UNCHANGED <<tick, published, registryVars, ackVars, baselines, historyVars>>

Next ==
    \/ \E world \in Worlds, inside \in SUBSET Entity : Frame(world, inside, TRUE)
    \/ \E inside \in SUBSET Entity : Frame(published, inside, FALSE)
    \/ \E c \in Connection, focus \in Place : Register(c, focus)
    \/ \E id \in DOMAIN clients :
          \/ Unregister(id)
          \/ \E focus \in Place : UpdateFocus(id, focus)
          \/ \E n \in 1..MaxAck : SendAck(id, n)
    \/ \E ack \in acks : Acknowledge(ack)
    \/ Shutdown

Spec == Init /\ [][Next]_vars
-----------------------------------------------------------------------------
TypeOK ==
    /\ running \in BOOLEAN
    /\ tick \in 0..MaxTick
    /\ published \in Worlds \cup {NoSnapshot}
    /\ DOMAIN clients \subseteq ClientId
    /\ \A id \in DOMAIN clients : clients[id] \in Client
    /\ nextClientId \in 1..(MaxRegistrations + 1)
    /\ DOMAIN baselines \subseteq ClientId
    /\ \A id \in DOMAIN baselines : baselines[id] \in Known
    /\ DOMAIN queues = {"Reliable", "Unreliable"}
    /\ Len(queues.Reliable) <= ReliableQueueDepth
    /\ Len(queues.Unreliable) <= UnreliableQueueDepth
    /\ DOMAIN view = DOMAIN clients
    /\ whole \subseteq DOMAIN clients
    /\ acks \subseteq Ack /\ DOMAIN said = DOMAIN clients

\* What a client can know of what the worker counts it to know.
Seen(known) == [e \in DOMAIN known |-> OnWire(known[e])]
InReach(id) ==
    {e \in DOMAIN published : InterestRadius > 0 /\ published[e].place = clients[id].focus}

\* A client no record of whose was left out has the world the worker counts
\* from: entities the snapshot has, where it has them, none in reach missing.
KnowsItsWorld(id) ==
    /\ view[id] = Seen(baselines[id])
    /\ \A e \in DOMAIN view[id] : e \in DOMAIN published /\ view[id][e].place = published[e].place
    /\ InReach(id) \subseteq DOMAIN view[id]

(***************************************************************************)
(* After a worker pass a client that was served, and no record of whose    *)
(* was ever left out, knows where its world is.  What other clients were   *)
(* sent, a pass skipped over the cap, and clients that came and left       *)
(* before never show in what it knows.  A pass serves a client whose delta *)
(* is within the cap; one it skips keeps its baseline (ReplicationWorker:: *)
(* Execute).  How an entity moves it is never told: the packets have no    *)
(* velocity, although the baseline counts it.                              *)
(***************************************************************************)
WholeClientsKnowTheirWorld ==
    /\ []TypeOK
    /\ [][\A id \in DOMAIN clients \cap whole' :
             LET base == Baseline(id) IN
             (clients' = clients /\ id \in DOMAIN baselines' /\ base # baselines'[id]) =>
                KnowsItsWorld(id)'
         ]_vars

(***************************************************************************)
(* An acknowledgement that arrives after its client left is never counted  *)
(* for another: what a client is recorded to have acknowledged, it has     *)
(* said itself since it was registered (ReplicationManager::               *)
(* HandleReplicationAck, ReplicationClientRegistry::Register).             *)
(***************************************************************************)
AcksAreTheirClients ==
    \A id \in DOMAIN clients : clients[id].acked \in {0} \cup said[id]

(***************************************************************************)
(* Records that do not fit into a packet remain queued for the next one    *)
(* (ReplicationPacketBuilder::BuildPacket): while a client does not know   *)
(* what it is counted to know, some record waits.                          *)
(***************************************************************************)
LeftoversStayQueued ==
    \A id \in DOMAIN clients : view[id] # Seen(Baseline(id)) => queues # Empty

=============================================================================
