-------------------------- MODULE SessionMembership --------------------------
(***************************************************************************)
(* What the session promises to whoever observes it (ISessionObserver, the *)
(* player subsystem behind its delta queue): a connection is a member at   *)
(* most once in its life, and the consumer is told of its joining and then *)
(* of its leaving, each exactly once and never ahead of the fact.          *)
(***************************************************************************)
EXTENDS Naturals

VARIABLES
    admitted,  \* connections that are or were members
    members,   \* connections that are members now
    joined,    \* connections whose joining the consumer was told of
    left       \* connections whose leaving the consumer was told of

membershipVars == <<admitted, members, joined, left>>

Init == admitted = {} /\ members = {} /\ joined = {} /\ left = {}

Join(id) ==
    /\ id \notin admitted
    /\ admitted' = admitted \cup {id}
    /\ members' = members \cup {id}
    /\ UNCHANGED <<joined, left>>

Leave(id) ==
    /\ id \in members
    /\ members' = members \ {id}
    /\ UNCHANGED <<admitted, joined, left>>

TellJoined(id) ==
    /\ id \in admitted
    /\ id \notin joined
    /\ joined' = joined \cup {id}
    /\ UNCHANGED <<admitted, members, left>>

TellLeft(id) ==
    /\ id \in joined
    /\ id \notin members
    /\ id \notin left
    /\ left' = left \cup {id}
    /\ UNCHANGED <<admitted, members, joined>>

\* Every id a step is about is in the set that names it, before or after.
Next ==
    \/ \E id \in admitted' : Join(id)
    \/ \E id \in members : Leave(id)
    \/ \E id \in admitted : TellJoined(id)
    \/ \E id \in joined : TellLeft(id)

Spec == Init /\ [][Next]_membershipVars
=============================================================================
