---------------------------- MODULE PlayerManager ----------------------------
(***************************************************************************)
(* The player subsystem: PlayerManager and its PlayerRegistry, the         *)
(* lifecycle rules of PlayerLifecycle, and the entities it has the engine  *)
(* materialise through IPlayerSpawnGateway.  A player outlives its         *)
(* connection: a disconnect suspends the record and keeps the entity.      *)
(*                                                                         *)
(* Session::TryReclaim answers NotFound for every token, so ApplyReclaim   *)
(* returns TokenUnknown before it changes anything: it has no action.      *)
(*                                                                         *)
(* respawnEligibleTick is kept as the ticks still to wait.  A refused      *)
(* request changes nothing and is not a step, except a refused join, which *)
(* the callers that ignore its outcome take (JoinRefused).                 *)
(***************************************************************************)
EXTENDS Integers, FiniteSets, Maps

CONSTANTS
    MaxPlayers,       \* [player] max_players: capacity of the registry
    RespawnDelay,     \* [player] respawn_delay_ticks
    MaxSpawnFailures  \* bound: spawns the engine may refuse

ASSUME PlayersAssumption == MaxPlayers \in Nat \ {0}
ASSUME RespawnAssumption == RespawnDelay \in Nat /\ MaxSpawnFailures \in Nat

VARIABLES
    players,    \* PlayerRegistry::m_records, by PlayerId
    nextPlayer, \* PlayerRegistry::m_nextId
    entities    \* external: the player entities the engine holds, by the id that asked

playerVars == <<players, nextPlayer, entities>>

PlayerId == Nat \ {0}
NoConnection == 0

\* Joining is left inside RequestJoin, AwaitingRespawn is never stored (a request
\* that comes too early is refused), and nothing ever removes a player.
Lifecycle == {"Active", "Dead", "Suspended"}

PlayerRecord == [lifecycle     : Lifecycle,
                 connection    : Nat,      \* 0: not bound
                 sessionMember : Nat \ {0},
                 respawnIn     : 0..RespawnDelay]

PlayersTypeOK ==
    /\ DOMAIN players \subseteq PlayerId
    /\ players \in [DOMAIN players -> PlayerRecord]
    /\ nextPlayer \in PlayerId
    /\ entities \in SUBSET PlayerId

PlayersInit ==
    /\ players = Nothing
    /\ nextPlayer = 1
    /\ entities = {}
-----------------------------------------------------------------------------
Registered == DOMAIN players

\* FindByConnection through the accelerator RebuildAccelerators derives.
BoundTo(connection) == {p \in Registered : players[p].connection = connection}

\* Mutant: a connection that has a player is admitted again.
CanJoinAgain(connection) == Cardinality(Registered) < MaxPlayers

CanJoin(connection) ==
    BoundTo(connection) = {} /\ Cardinality(Registered) < MaxPlayers

\* Mutant: the entity is materialised before the request is refused.
JoinRefusedAfterSpawn(connection) ==
    /\ ~CanJoin(connection)
    /\ nextPlayer - 1 - Cardinality(Registered) < MaxSpawnFailures
    /\ entities' = entities \cup {nextPlayer}
    /\ nextPlayer' = nextPlayer + 1
    /\ UNCHANGED players

JoinRefused(connection) == ~CanJoin(connection) /\ UNCHANGED playerVars

\* The engine materialises the entity and the record is inserted Active.
JoinAccepted(connection) ==
    /\ CanJoin(connection)
    /\ players' = Put(players, nextPlayer,
                      [lifecycle |-> "Active", connection |-> connection,
                       sessionMember |-> connection, respawnIn |-> 0])
    /\ entities' = entities \cup {nextPlayer}
    /\ nextPlayer' = nextPlayer + 1

\* The engine refuses the entity: the id is spent, nothing is inserted.
JoinSpawnFailed(connection) ==
    /\ CanJoin(connection)
    /\ nextPlayer - 1 - Cardinality(Registered) < MaxSpawnFailures
    /\ nextPlayer' = nextPlayer + 1
    /\ UNCHANGED <<players, entities>>

RequestJoin(connection) ==
    \/ JoinRefused(connection)
    \/ JoinAccepted(connection)
    \/ JoinSpawnFailed(connection)

\* Mutant: a dead player is skipped.
SuspendSkipsDead(connection) ==
    /\ players' = [p \in Registered |->
                     IF p \in BoundTo(connection) /\ players[p].lifecycle = "Active"
                     THEN [players[p] EXCEPT !.lifecycle = "Suspended",
                                             !.connection = NoConnection]
                     ELSE players[p]]
    /\ UNCHANGED <<nextPlayer, entities>>

\* A connection that left suspends the player bound to it, if there is one; the
\* session key stays for a reclaim, the network binding is cleared.
SuspendOnLeave(connection) ==
    /\ players' = [p \in Registered |->
                     IF p \in BoundTo(connection) /\ players[p].lifecycle \in {"Active", "Dead"}
                     THEN [players[p] EXCEPT !.lifecycle = "Suspended",
                                             !.connection = NoConnection]
                     ELSE players[p]]
    /\ UNCHANGED <<nextPlayer, entities>>

\* Only an eligible dead player comes back; the entity survived its death.
CanRespawn(p) == players[p].lifecycle = "Dead" /\ players[p].respawnIn = 0

Respawn(p) ==
    /\ p \in Registered
    /\ CanRespawn(p)
    /\ players' = [players EXCEPT ![p].lifecycle = "Active"]
    /\ UNCHANGED <<nextPlayer, entities>>

\* RespawnRequestHandler: for the player bound to the requesting connection.
RespawnRequest(connection) ==
    \/ \E p \in BoundTo(connection) : Respawn(p)
    \/ /\ \A p \in BoundTo(connection) : ~CanRespawn(p)
       /\ UNCHANGED playerVars

\* Called by the host's gameplay code for a player that is alive.
NotifyDeath(p) ==
    /\ p \in Registered
    /\ players[p].lifecycle = "Active"
    /\ players' = [players EXCEPT ![p].lifecycle = "Dead",
                                  ![p].respawnIn = RespawnDelay]
    /\ UNCHANGED <<nextPlayer, entities>>

\* A tick goes by for every scheduled respawn.
PlayersTick ==
    /\ players' = [p \in Registered |->
                     [players[p] EXCEPT !.respawnIn = IF @ > 0 THEN @ - 1 ELSE 0]]
    /\ UNCHANGED <<nextPlayer, entities>>
-----------------------------------------------------------------------------
(***************************************************************************)
(* Every materialised player entity belongs to a registered player and     *)
(* every registered player has its entity: no orphan is left by a refused, *)
(* failed or repeated join, and none is destroyed by a disconnect.         *)
(***************************************************************************)
NoOrphanEntity == entities = Registered

(***************************************************************************)
(* The four-way mapping of the registry (player, connection, session key,  *)
(* entity) is one to one: two records never share a connection or the      *)
(* session key a reclaim would resolve, and a bound record's key is its    *)
(* connection.                                                             *)
(***************************************************************************)
MappingIsBijective ==
    /\ \A p, q \in Registered :
          players[p].sessionMember = players[q].sessionMember => p = q
    /\ \A p \in Registered :
          players[p].connection \in {players[p].sessionMember, NoConnection}

(***************************************************************************)
(* The lifecycle and the network binding of a player agree: exactly the    *)
(* suspended players have no connection.                                   *)
(***************************************************************************)
SuspendedIsUnbound ==
    \A p \in Registered :
       players[p].lifecycle = "Suspended" <=> players[p].connection = NoConnection

(***************************************************************************)
(* The registry, its derived mappings and the engine agree: the three      *)
(* above and the types, at every point of the frame.                       *)
(***************************************************************************)
PlayersConsistent ==
    PlayersTypeOK /\ NoOrphanEntity /\ MappingIsBijective /\ SuspendedIsUnbound
=============================================================================
