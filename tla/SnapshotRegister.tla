-------------------------- MODULE SnapshotRegister --------------------------
(***************************************************************************)
(* What the snapshot pipeline promises to those who read the simulation    *)
(* (replication, persistence): a register that holds the latest published  *)
(* state, from which a reader takes a lease on one state, keeps it         *)
(* unchanged for as long as it likes, whatever is published meanwhile, and *)
(* gives it back.  Buffers, counts and the pool's capacity do not show.    *)
(***************************************************************************)
CONSTANTS Reader, NoSnapshot

VARIABLES
    latest,  \* the state published last, or NoSnapshot
    lease    \* the state each reader holds, or NoSnapshot

registerVars == <<latest, lease>>

Init == latest = NoSnapshot /\ lease = [r \in Reader |-> NoSnapshot]

Publish(state) == state # NoSnapshot /\ latest' = state /\ UNCHANGED lease

Take(r) ==
    /\ latest # NoSnapshot /\ lease[r] = NoSnapshot
    /\ lease' = [lease EXCEPT ![r] = latest]
    /\ UNCHANGED latest

GiveBack(r) ==
    /\ lease[r] # NoSnapshot
    /\ lease' = [lease EXCEPT ![r] = NoSnapshot]
    /\ UNCHANGED latest

Next ==
    \/ Publish(latest')
    \/ \E r \in Reader : Take(r) \/ GiveBack(r)

Spec == Init /\ [][Next]_registerVars
=============================================================================
