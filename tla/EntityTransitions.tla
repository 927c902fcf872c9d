-------------------------- MODULE EntityTransitions --------------------------
(***************************************************************************)
(* How the host decides which entities of the world are online: the entity *)
(* feed (order 200) keeps the EntityRegistry in step with the engine's     *)
(* client objects, the BubbleManager (300) computes the online set around  *)
(* the players, and the TransitionManager (350) drives the engine's A-Life *)
(* switch and reads it back.                                               *)
(*                                                                         *)
(* A frame is FeedTick, BubbleUpdate, TransitionUpdate, with nothing in    *)
(* between; the engine and the players act between two frames.  The engine *)
(* is external: an A-Life object is online or offline, and its client      *)
(* object, which is all the feed and the bubble see, follows with a lag.   *)
(* An id is used again by another object once the first is gone.           *)
(***************************************************************************)
EXTENDS Integers

CONSTANTS
    Entity,    \* the ids the engine hands out
    MaxLives,  \* bound: objects that carry the same id, one after the other
    MaxRecords \* bound: records made for an id; past it no client object comes

ASSUME BoundsAssumption == MaxLives \in Nat \ {0} /\ MaxRecords \in Nat \ {0}

VARIABLES
    stage,       \* which subscriber the frame comes to next
    object,      \* the engine: the A-Life object of each id
    client,      \* the engine: the ids in the level's object list
    near,        \* where each id's object is, seen from the nearest player
    observing,   \* EngineEntityFeed::m_relcaseRegistered
    destroyed,   \* EngineEntityFeed::m_pendingDestroys
    record,      \* EntityRegistry: the generation of each live record, 0: none
    generation,  \* EntityRegistry::m_generationById
    recordLife,  \* history: the life of the object each record was made for
    online,      \* BubbleManager::m_online
    previous,    \* BubbleManager::m_previousOnline
    intent,      \* TransitionManager::m_intent
    records,     \* TransitionManager::m_lastRecords
    commanded    \* history: the life of the object the last command reached

engineVars     == <<object, client, near>>
registryVars   == <<observing, destroyed, record, generation, recordLife>>
bubbleVars     == <<online, previous>>
transitionVars == <<intent, records, commanded>>
vars == <<stage, engineVars, registryVars, bubbleVars, transitionVars>>

\* Within the activation radius, between the two radii, beyond both.
Near   == {"inside", "band", "outside"}
Intent == {"Offline", "PendingOnline", "Online", "PendingOffline"}
Kind   == {"Activate", "Deactivate"}
Outcome == {"Applied", "AlreadyInState", "EntityMissing"}

\* An object before the first switch, or after it was released.
Unswitched(life, alive) ==
    [life |-> life, alive |-> alive, online |-> FALSE,
     canSwitchOnline |-> TRUE, canSwitchOffline |-> TRUE]

Init ==
    /\ stage = "idle"
    /\ object = [e \in Entity |-> Unswitched(0, FALSE)]
    /\ client = {}
    /\ near = [e \in Entity |-> "outside"]
    /\ observing = FALSE
    /\ destroyed = {}
    /\ record = [e \in Entity |-> 0]
    /\ generation = [e \in Entity |-> 0]
    /\ recordLife = [e \in Entity |-> 0]
    /\ online = {}
    /\ previous = {}
    /\ intent = [e \in Entity |-> "Offline"]
    /\ records = {}
    /\ commanded = [e \in Entity |-> 0]

---------------------------------------------------------------------------
(* The engine and the players, between two frames.                         *)

Between ==
    /\ stage = "idle"
    /\ UNCHANGED <<stage, record, generation, recordLife, observing,
                   bubbleVars, transitionVars>>

\* A new object gets an id whose last object left nothing behind.
Spawn(e) ==
    /\ Between
    /\ ~object[e].alive /\ e \notin client /\ object[e].life < MaxLives
    /\ object' = [object EXCEPT ![e] = Unswitched(object[e].life + 1, TRUE)]
    /\ UNCHANGED <<client, near, destroyed>>

Release(e) ==
    /\ Between
    /\ object[e].alive
    /\ object' = [object EXCEPT ![e] = Unswitched(object[e].life, FALSE)]
    /\ UNCHANGED <<client, near, destroyed>>

\* try_switch_online and try_switch_offline: the flags decide; with both set it
\* is the distance to the one actor, which may want either.
SwitchOnline(e) ==
    /\ Between
    /\ object[e].alive /\ ~object[e].online /\ object[e].canSwitchOnline
    /\ object' = [object EXCEPT ![e].online = TRUE]
    /\ UNCHANGED <<client, near, destroyed>>

SwitchOffline(e) ==
    /\ Between
    /\ object[e].alive /\ object[e].online /\ object[e].canSwitchOffline
    /\ object' = [object EXCEPT ![e].online = FALSE]
    /\ UNCHANGED <<client, near, destroyed>>

\* The client object comes after its A-Life object went online and goes after
\* it went offline or was released; relcase tells the feed's observer.
ClientSpawn(e) ==
    /\ Between
    /\ object[e].online /\ e \notin client /\ generation[e] < MaxRecords
    /\ client' = client \cup {e}
    /\ UNCHANGED <<object, near, destroyed>>

ClientDestroy(e) ==
    /\ Between
    /\ ~object[e].online /\ e \in client
    /\ client' = client \ {e}
    /\ destroyed' = IF observing THEN destroyed \cup {e} ELSE destroyed
    /\ UNCHANGED <<object, near>>

Move(e, where) ==
    /\ Between
    /\ near[e] # where
    /\ near' = [near EXCEPT ![e] = where]
    /\ UNCHANGED <<object, client, destroyed>>

---------------------------------------------------------------------------
(* EngineEntityFeed::Tick over EntityRegistry.                             *)

Registered == {e \in Entity : record[e] # 0}

\* Mutant: the queued destroys are not applied.
KeptForNew == Registered

\* The records that survive the queued destroys.
Kept == Registered \ destroyed

\* m_generationById outlives the record: a new one never repeats a handle.
NextGeneration(e) == generation[e] + 1

\* Queued destroys first, then every client object that has no record gets one.
FeedTick ==
    LET added == client \ Kept IN
    /\ stage = "idle"
    /\ stage' = "bubble"
    /\ observing' = TRUE
    /\ destroyed' = {}
    /\ record' = [e \in Entity |->
           IF e \in added THEN NextGeneration(e) ELSE IF e \in Kept THEN record[e] ELSE 0]
    /\ generation' = [e \in Entity |->
           IF e \in added THEN NextGeneration(e) ELSE generation[e]]
    /\ recordLife' = [e \in Entity |->
           IF e \in added THEN object[e].life ELSE IF e \in Kept THEN recordLife[e] ELSE 0]
    /\ UNCHANGED <<engineVars, bubbleVars, transitionVars>>

---------------------------------------------------------------------------
(* BubbleManager::Update.  Hysteresis: in within the inner radius, out     *)
(* beyond the outer one.                                                   *)

Inside == {e \in client : near[e] = "inside" \/ (near[e] = "band" /\ e \in online)}

BubbleUpdate ==
    /\ stage = "bubble"
    /\ stage' = "transition"
    /\ previous' = online
    /\ online' = Inside
    /\ UNCHANGED <<engineVars, registryVars, transitionVars>>

Activations   == online \ previous
Deactivations == previous \ online

---------------------------------------------------------------------------
(* TransitionManager::Update.                                              *)

\* Mutants: one of the two confirmations is forgotten; an entity that is
\* pending offline is not asked back.
ReconciledOffline(e) ==
    IF intent[e] = "PendingOffline" /\ object[e].alive /\ ~object[e].online
    THEN "Offline" ELSE intent[e]
NeedsActivateSettled(state) == state = "Offline"

\* Reconcile: IsOnline is nullopt for an id the engine does not know.
Reconciled(e) ==
    CASE intent[e] = "PendingOnline" /\ object[e].alive /\ object[e].online -> "Online"
      [] intent[e] = "PendingOffline" /\ object[e].alive /\ ~object[e].online -> "Offline"
      [] OTHER -> intent[e]

NeedsActivate(state)   == state \notin {"Online", "PendingOnline"}
NeedsDeactivate(state) == state \notin {"Offline", "PendingOffline"}

\* Reconcile first, then the edges of the bubble, without those whose entity has
\* no record and those the intent already answers.
Staged(e) ==
    {kind \in Kind :
        /\ e \in Registered
        /\ \/ kind = "Activate" /\ e \in Activations /\ NeedsActivate(Reconciled(e))
           \/ kind = "Deactivate" /\ e \in Deactivations /\ NeedsDeactivate(Reconciled(e))}

\* Mutant: activation allows the switch but does not forbid the way back.
OverriddenHalf(e, kind) ==
    IF kind = "Activate" THEN [object[e] EXCEPT !.canSwitchOnline = TRUE]
    ELSE [object[e] EXCEPT !.canSwitchOffline = TRUE]

\* EngineAlifeSwitchGateway::ApplyOne: pin the object on one side.
Overridden(e, kind) ==
    [object[e] EXCEPT !.canSwitchOnline = (kind = "Activate"),
                      !.canSwitchOffline = (kind = "Deactivate")]

OutcomeOf(e, kind) ==
    CASE ~object[e].alive -> "EntityMissing"
      [] object[e].alive /\ object[e].online = (kind = "Activate") -> "AlreadyInState"
      [] OTHER -> "Applied"

IntentAfter(e) ==
    CASE "Activate" \in Staged(e) -> "PendingOnline"
      [] "Deactivate" \in Staged(e) -> "PendingOffline"
      [] OTHER -> Reconciled(e)

TransitionUpdate ==
    /\ stage = "transition"
    /\ stage' = "idle"
    /\ intent' = [e \in Entity |-> IntentAfter(e)]
    /\ commanded' = [e \in Entity |->
           IF Staged(e) # {} THEN object[e].life ELSE commanded[e]]
    /\ records' = UNION {{[id |-> e, kind |-> kind, outcome |-> OutcomeOf(e, kind)] :
                             kind \in Staged(e)} : e \in Entity}
    /\ object' = [e \in Entity |->
           CASE object[e].alive /\ "Activate" \in Staged(e) -> Overridden(e, "Activate")
             [] object[e].alive /\ "Deactivate" \in Staged(e) -> Overridden(e, "Deactivate")
             [] OTHER -> object[e]]
    /\ UNCHANGED <<client, near, registryVars, bubbleVars>>

Next ==
    \/ \E e \in Entity :
        \/ Spawn(e) \/ Release(e)
        \/ SwitchOnline(e) \/ SwitchOffline(e)
        \/ ClientSpawn(e) \/ ClientDestroy(e)
        \/ \E where \in Near : Move(e, where)
    \/ FeedTick
    \/ BubbleUpdate
    \/ TransitionUpdate

Spec == Init /\ [][Next]_vars

---------------------------------------------------------------------------
(* Properties.                                                             *)

Lives == 0..MaxLives

TypeOK ==
    /\ stage \in {"idle", "bubble", "transition"}
    /\ object \in [Entity -> [life : Lives, alive : BOOLEAN, online : BOOLEAN,
                              canSwitchOnline : BOOLEAN, canSwitchOffline : BOOLEAN]]
    /\ client \in SUBSET Entity
    /\ near \in [Entity -> Near]
    /\ observing \in BOOLEAN
    /\ destroyed \in SUBSET Entity
    /\ record \in [Entity -> Nat]
    /\ generation \in [Entity -> Nat]
    /\ recordLife \in [Entity -> Lives]
    /\ online \in SUBSET Entity
    /\ previous \in SUBSET Entity
    /\ intent \in [Entity -> Intent]
    /\ records \in SUBSET [id : Entity, kind : Kind, outcome : Outcome]
    /\ commanded \in [Entity -> Lives]

\* What the subscribers after the feed find in the registry: exactly the level's
\* objects, each under a record made for it and not for an earlier object that
\* had its id.
RecordsAreCurrent ==
    stage # "idle" =>
        /\ Registered = client
        /\ \A e \in client : recordLife[e] = object[e].life

\* A handle never comes back: the record of another object of the same id has a
\* generation no record of that id had before.
HandlesAreFresh ==
    [][\A e \in Entity :
          (record'[e] # 0 /\ recordLife'[e] # recordLife[e]) =>
              record'[e] > generation[e]]_vars

\* Whatever became of the switch, the layer means online what the bubble wants
\* online: an entity that comes back while it is pending offline is asked back.
BubbleIsIntended ==
    stage = "idle" =>
        \A e \in online : intent[e] \in {"PendingOnline", "Online"}

\* The override holds: the engine's own switch never takes an object offline
\* that the layer commanded online and has seen there.
ConfirmedStaysOnline ==
    \A e \in Entity :
        (intent[e] = "Online" /\ object[e].alive /\ commanded[e] = object[e].life)
            => object[e].online

PinnedOnline(e)  == object[e].canSwitchOnline /\ ~object[e].canSwitchOffline
PinnedOffline(e) == object[e].canSwitchOffline /\ ~object[e].canSwitchOnline

\* A switch the layer asked the engine for is confirmed, unless the entity is
\* released or the layer changes its mind.
SwitchesSettle ==
    \A e \in Entity :
        /\ (intent[e] = "PendingOnline" /\ PinnedOnline(e))
               ~> (intent[e] = "Online" \/ ~PinnedOnline(e))
        /\ (intent[e] = "PendingOffline" /\ PinnedOffline(e))
               ~> (intent[e] = "Offline" \/ ~PinnedOffline(e))

\* Frames keep coming, and A-Life's update comes back to an object it must
\* switch again and again.
Fairness ==
    /\ WF_vars(FeedTick) /\ WF_vars(BubbleUpdate) /\ WF_vars(TransitionUpdate)
    /\ \A e \in Entity :
        /\ SF_vars(SwitchOnline(e) /\ PinnedOnline(e))
        /\ SF_vars(SwitchOffline(e) /\ PinnedOffline(e))

FairSpec == Spec /\ Fairness

=============================================================================
