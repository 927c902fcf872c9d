--------------------------- MODULE DedicatedServer ---------------------------
(***************************************************************************)
(* The frame of the dedicated server with both of its stateful ends: the   *)
(* networking pass of HostServer (tick 900) and the player subsystem of    *)
(* PlayerManager (tick 250).  They meet at two places: the delta queue the *)
(* session observer fills and PlayerManagerService drains, and the two     *)
(* data messages whose handlers call the PlayerManager directly.           *)
(***************************************************************************)
EXTENDS HostServer, PlayerManager

serverVars == <<hostVars, playerVars>>

ServerInit == Init /\ PlayersInit

\* ApplyPendingDeltas: a Joined delta is a join with the default profile.
ApplyJoined(id) == DeliverDelta("Joined", id) /\ RequestJoin(id)

ApplyLeft(id) == DeliverDelta("Left", id) /\ SuspendOnLeave(id)

\* JoinRequestHandler and RespawnRequestHandler run inside the receive loop.
HandleJoinRequest(id) == ReceiveData(id, "JoinRequest") /\ RequestJoin(id)

HandleRespawnRequest(id) == ReceiveData(id, "RespawnRequest") /\ RespawnRequest(id)

\* The clocks of both subsystems count frames.
ServerBeginTick == BeginTick /\ PlayersTick

\* Host gameplay reports a death between the player tick and the network tick.
Death(p) == stage = "players" /\ NotifyDeath(p) /\ UNCHANGED hostVars

HostOnlyStep ==
    \/ BeginFrame \/ EndPoll \/ EndAccept \/ EndReceive
    \/ EndTimeouts \/ EndHandshake \/ Heartbeat \/ EndDrain
    \/ PassStep \/ StopStep
    \/ \E peer \in Peer : PollDatagram(peer)

ServerNext ==
    \/ HostOnlyStep /\ UNCHANGED playerVars
    \/ ServerBeginTick
    \/ \E id \in 1..(nextId - 1) :
          ApplyJoined(id) \/ ApplyLeft(id) \/ HandleJoinRequest(id) \/ HandleRespawnRequest(id)
    \/ \E p \in Registered : Death(p)

ServerSpec == ServerInit /\ [][ServerNext]_serverVars
-----------------------------------------------------------------------------
\* A Left delta of this connection is queued.
LeavePending(id) == \E i \in DOMAIN deltas : deltas[i] = [kind |-> "Left", connection |-> id]

(***************************************************************************)
(* A player whose connection was ever a session member is bound only while *)
(* it still is one, or until the queued Left delta is applied: no member   *)
(* leaves a live player behind.                                            *)
(***************************************************************************)
MemberPlayersAreSuspended ==
    \A p \in Registered :
       LET id == players[p].connection IN
          (id # NoConnection /\ id \in admitted) => id \in members \/ LeavePending(id)

(***************************************************************************)
(* A connection is one player for life, however many join requests and     *)
(* Joined deltas name it, in whichever order they come: a player is bound  *)
(* to a connection at its creation only, and never rebound.                *)
(***************************************************************************)
OnePlayerPerConnection ==
    [][\A p \in Registered' :
          players'[p].connection # NoConnection =>
              IF p \in Registered
              THEN players'[p].connection = players[p].connection
              ELSE \A q \in Registered : players[q].sessionMember # players'[p].connection
      ]_serverVars
=============================================================================
