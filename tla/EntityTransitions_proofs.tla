----------------------- MODULE EntityTransitions_proofs -----------------------
(***************************************************************************)
(* Proofs about EntityTransitions, for every set of ids and every bound on *)
(* the objects and records of an id: what the registry, the bubble and the *)
(* transition layer mean by an entity is the object that carries its id.   *)
(***************************************************************************)
EXTENDS EntityTransitions, TLAPS

Means(e) == intent[e] \in {"PendingOnline", "Online"}

\* A record whose object left is a queued destroy: the observer was there, since
\* it registers before the first record is made.  After the feed none is left.
RegistryInv ==
    /\ \A e \in Registered : observing
    /\ \A e \in Registered \ destroyed : e \in client /\ recordLife[e] = object[e].life
    /\ stage # "idle" => destroyed = {} /\ client \subseteq Registered

\* The layer has answered the bubble it saw last; at its own tick that is the
\* previous one.
BubbleInv ==
    /\ stage # "transition" => \A e \in online : Means(e)
    /\ stage = "transition" => online \subseteq client /\ \A e \in previous : Means(e)

\* An object the layer commanded online is pinned there, and no command reaches
\* an object before it exists.
CommandInv ==
    \A e \in Entity :
        /\ commanded[e] <= object[e].life
        /\ commanded[e] = object[e].life /\ object[e].alive =>
              /\ Means(e) => ~object[e].canSwitchOffline
              /\ intent[e] = "Online" => object[e].online

Inv == TypeOK /\ RegistryInv /\ BubbleInv /\ CommandInv

EngineStep ==
    \E e \in Entity :
        \/ Spawn(e) \/ Release(e)
        \/ SwitchOnline(e) \/ SwitchOffline(e)
        \/ ClientSpawn(e) \/ ClientDestroy(e)
        \/ \E where \in Near : Move(e, where)

---------------------------------------------------------------------------
(* Type correctness.                                                       *)

ObjectType == [life : Lives, alive : BOOLEAN, online : BOOLEAN,
               canSwitchOnline : BOOLEAN, canSwitchOffline : BOOLEAN]

LEMMA InitTyped == Init => TypeOK
<1> SUFFICES ASSUME Init PROVE TypeOK
  OBVIOUS
<1>1. 0 \in Lives
  BY BoundsAssumption DEF Lives
<1>2. Unswitched(0, FALSE) \in ObjectType
  BY <1>1 DEF Unswitched, ObjectType
<1>3. object \in [Entity -> ObjectType]
  BY <1>2 DEF Init
<1> QED
  BY <1>1, <1>3 DEF Init, TypeOK, ObjectType, Near, Intent

\* The engine's steps keep every variable in its type.
LEMMA EngineTyped == TypeOK /\ EngineStep => TypeOK'
<1> SUFFICES ASSUME TypeOK, NEW e \in Entity,
                    \/ Spawn(e) \/ Release(e)
                    \/ SwitchOnline(e) \/ SwitchOffline(e)
                    \/ ClientSpawn(e) \/ ClientDestroy(e)
                    \/ \E where \in Near : Move(e, where)
             PROVE  TypeOK'
  BY DEF EngineStep
<1>1. UNCHANGED <<stage, record, generation, recordLife, observing, bubbleVars, transitionVars>>
  BY DEF Spawn, Release, SwitchOnline, SwitchOffline, ClientSpawn, ClientDestroy, Move, Between
<1>2. object[e] \in ObjectType /\ object \in [Entity -> ObjectType]
  BY DEF TypeOK, ObjectType
<1>3. object' \in [Entity -> ObjectType]
  <2>1. CASE Spawn(e)
    <3>1. object[e].life + 1 \in Lives
      BY <1>2, <2>1, BoundsAssumption DEF Spawn, ObjectType, Lives
    <3> QED
      BY <1>2, <2>1, <3>1 DEF Spawn, Unswitched, ObjectType
  <2>2. CASE Release(e)
    BY <1>2, <2>2 DEF Release, Unswitched, ObjectType
  <2>3. CASE SwitchOnline(e) \/ SwitchOffline(e)
    BY <1>2, <2>3 DEF SwitchOnline, SwitchOffline, ObjectType
  <2>4. CASE ClientSpawn(e) \/ ClientDestroy(e) \/ \E where \in Near : Move(e, where)
    BY <1>2, <2>4 DEF ClientSpawn, ClientDestroy, Move
  <2> QED
    BY <2>1, <2>2, <2>3, <2>4
<1>4. client' \in SUBSET Entity /\ near' \in [Entity -> Near] /\ destroyed' \in SUBSET Entity
  BY DEF TypeOK, Spawn, Release, SwitchOnline, SwitchOffline, ClientSpawn, ClientDestroy, Move
<1> QED
  BY <1>1, <1>3, <1>4 DEF TypeOK, ObjectType, bubbleVars, transitionVars

LEMMA FeedTyped == TypeOK /\ FeedTick => TypeOK'
<1> SUFFICES ASSUME TypeOK, FeedTick PROVE TypeOK'
  OBVIOUS
<1> DEFINE added == client \ Kept
<1>1. \A e \in Entity : NextGeneration(e) \in Nat /\ object[e].life \in Lives
  BY DEF TypeOK, NextGeneration
<1>2. record' \in [Entity -> Nat] /\ generation' \in [Entity -> Nat]
  BY <1>1 DEF TypeOK, FeedTick
<1>3. recordLife' \in [Entity -> Lives]
  BY <1>1, BoundsAssumption DEF TypeOK, FeedTick, Lives
<1>4. /\ stage' \in {"idle", "bubble", "transition"}
      /\ observing' \in BOOLEAN /\ destroyed' \in SUBSET Entity
      /\ UNCHANGED <<object, client, near, online, previous, intent, records, commanded>>
  BY DEF FeedTick, engineVars, bubbleVars, transitionVars
<1> QED
  BY <1>2, <1>3, <1>4 DEF TypeOK

LEMMA BubbleTyped == TypeOK /\ BubbleUpdate => TypeOK'
  BY DEF TypeOK, BubbleUpdate, Inside, engineVars, registryVars, transitionVars

\* An entity is not entering and leaving the bubble at once.
LEMMA OneKindStaged ==
    \A e \in Entity : ~("Activate" \in Staged(e) /\ "Deactivate" \in Staged(e))
  BY DEF Staged, Activations, Deactivations

LEMMA TransitionTyped == TypeOK /\ TransitionUpdate => TypeOK'
<1> SUFFICES ASSUME TypeOK, TransitionUpdate PROVE TypeOK'
  OBVIOUS
<1>1. \A e \in Entity : object[e] \in ObjectType /\ intent[e] \in Intent
  BY DEF TypeOK, ObjectType
<1>2. \A e \in Entity : IntentAfter(e) \in Intent
  BY <1>1 DEF IntentAfter, Reconciled, Intent
<1>3. intent' \in [Entity -> Intent]
  BY <1>2 DEF TransitionUpdate
<1>4. object' \in [Entity -> ObjectType]
  <2>1. \A e \in Entity, kind \in Kind : Overridden(e, kind) \in ObjectType
    BY <1>1 DEF Overridden, ObjectType
  <2>2. ASSUME NEW e \in Entity
        PROVE  (CASE object[e].alive /\ "Activate" \in Staged(e) -> Overridden(e, "Activate")
                  [] object[e].alive /\ "Deactivate" \in Staged(e) -> Overridden(e, "Deactivate")
                  [] OTHER -> object[e]) \in ObjectType
    BY <1>1, <2>1 DEF Kind
  <2> QED
    BY <2>2 DEF TransitionUpdate
<1>5. commanded' \in [Entity -> Lives]
  BY <1>1 DEF TypeOK, TransitionUpdate, ObjectType
<1>6. records' \in SUBSET [id : Entity, kind : Kind, outcome : Outcome]
  <2>1. \A e \in Entity : Staged(e) \subseteq Kind
    BY DEF Staged
  <2>2. \A e \in Entity, kind \in Kind : OutcomeOf(e, kind) \in Outcome
    BY DEF OutcomeOf, Outcome
  <2>3. ASSUME NEW r \in records'
        PROVE  r \in [id : Entity, kind : Kind, outcome : Outcome]
    <3>1. PICK e \in Entity :
             \E kind \in Staged(e) : r = [id |-> e, kind |-> kind, outcome |-> OutcomeOf(e, kind)]
      BY <2>3 DEF TransitionUpdate
    <3> QED
      BY <2>1, <2>2, <3>1
  <2> QED
    BY <2>3
<1>7. stage' = "idle" /\ UNCHANGED <<client, near, registryVars, bubbleVars>>
  BY DEF TransitionUpdate
<1> QED
  BY <1>3, <1>4, <1>5, <1>6, <1>7 DEF TypeOK, ObjectType, registryVars, bubbleVars

---------------------------------------------------------------------------
(* The registry.                                                           *)

LEMMA RegistryKept == TypeOK /\ RegistryInv /\ [Next]_vars => RegistryInv'
<1> SUFFICES ASSUME TypeOK, RegistryInv, [Next]_vars PROVE RegistryInv'
  OBVIOUS
<1>1. ASSUME EngineStep PROVE RegistryInv'
  <2> SUFFICES ASSUME NEW e \in Entity,
                      \/ Spawn(e) \/ Release(e)
                      \/ SwitchOnline(e) \/ SwitchOffline(e)
                      \/ ClientSpawn(e) \/ ClientDestroy(e)
                      \/ \E where \in Near : Move(e, where)
               PROVE  RegistryInv'
    BY <1>1 DEF EngineStep
  <2>1. stage = "idle" /\ UNCHANGED <<stage, record, recordLife, observing>>
    BY DEF Spawn, Release, SwitchOnline, SwitchOffline, ClientSpawn, ClientDestroy, Move, Between
  <2>2. Registered' = Registered
    BY <2>1 DEF Registered
  <2>3. \A other \in Registered \ destroyed' :
           other \in client' /\ recordLife[other] = object'[other].life
    <3> SUFFICES ASSUME NEW other \in Registered \ destroyed'
                 PROVE  other \in client' /\ recordLife[other] = object'[other].life
      OBVIOUS
    <3>1. other \in Entity /\ observing
      BY DEF Registered, RegistryInv
    <3>2. other \notin destroyed
      BY <3>1 DEF Spawn, Release, SwitchOnline, SwitchOffline, ClientSpawn, ClientDestroy, Move
    <3>3. other \in client /\ recordLife[other] = object[other].life
      BY <3>2 DEF RegistryInv
    <3>4. other \in client'
      BY <3>1, <3>3 DEF Spawn, Release, SwitchOnline, SwitchOffline, ClientSpawn, ClientDestroy, Move
    <3>5. object'[other].life = object[other].life
      <4>1. other # e => object'[other] = object[other]
        BY <3>1 DEF TypeOK, Spawn, Release, SwitchOnline, SwitchOffline,
                    ClientSpawn, ClientDestroy, Move
      <4>2. CASE Spawn(e)
        BY <3>3, <4>1, <4>2 DEF Spawn
      <4>3. CASE Release(e)
        BY <3>1, <4>1, <4>3 DEF TypeOK, Release, Unswitched
      <4>4. CASE SwitchOnline(e) \/ SwitchOffline(e)
        BY <3>1, <4>1, <4>4 DEF TypeOK, SwitchOnline, SwitchOffline
      <4>5. CASE ClientSpawn(e) \/ ClientDestroy(e) \/ \E where \in Near : Move(e, where)
        BY <4>5 DEF ClientSpawn, ClientDestroy, Move
      <4> QED
        BY <4>2, <4>3, <4>4, <4>5
    <3> QED
      BY <3>3, <3>4, <3>5
  <2> QED
    BY <2>1, <2>2, <2>3 DEF RegistryInv
<1>2. ASSUME FeedTick PROVE RegistryInv'
  <2> DEFINE added == client \ Kept
  <2>1. /\ stage' = "bubble" /\ observing' = TRUE /\ destroyed' = {}
        /\ UNCHANGED <<object, client>>
    BY <1>2 DEF FeedTick, engineVars
  <2>2. \A e \in Entity :
           /\ record'[e] = IF e \in added THEN NextGeneration(e)
                            ELSE IF e \in Kept THEN record[e] ELSE 0
           /\ recordLife'[e] = IF e \in added THEN object[e].life
                                ELSE IF e \in Kept THEN recordLife[e] ELSE 0
    BY <1>2 DEF FeedTick
  <2>3. \A e \in Kept : e \in client /\ recordLife[e] = object[e].life
    BY DEF Kept, RegistryInv
  <2>4. client \subseteq Entity
    BY DEF TypeOK
  <2>5. Registered' \subseteq client
    BY <2>2, <2>3 DEF Registered
  <2>6. client \subseteq Registered'
    <3> SUFFICES ASSUME NEW e \in client PROVE record'[e] # 0
      BY <2>4 DEF Registered
    <3>1. NextGeneration(e) # 0
      BY <2>4 DEF TypeOK, NextGeneration
    <3>2. e \in Kept => record[e] # 0
      BY DEF Kept, Registered
    <3> QED
      BY <2>2, <2>4, <3>1, <3>2
  <2>7. \A e \in Registered' : recordLife'[e] = object[e].life
    BY <2>2, <2>3, <2>5 DEF Registered
  <2> QED
    BY <2>1, <2>5, <2>6, <2>7 DEF RegistryInv
<1>3. ASSUME BubbleUpdate PROVE RegistryInv'
  BY <1>3 DEF BubbleUpdate, RegistryInv, Registered, engineVars, registryVars
<1>4. ASSUME TransitionUpdate PROVE RegistryInv'
  <2>1. stage' = "idle" /\ UNCHANGED <<client, observing, destroyed, record, recordLife>>
    BY <1>4 DEF TransitionUpdate, registryVars
  <2>2. \A e \in Entity : object'[e].life = object[e].life
    BY <1>4 DEF TypeOK, TransitionUpdate, Overridden
  <2> QED
    BY <2>1, <2>2 DEF RegistryInv, Registered
<1>5. ASSUME UNCHANGED vars PROVE RegistryInv'
  BY <1>5 DEF vars, engineVars, registryVars, RegistryInv, Registered
<1> QED
  BY <1>1, <1>2, <1>3, <1>4, <1>5 DEF Next, EngineStep

---------------------------------------------------------------------------
(* The bubble and the intents.                                             *)

\* Reading a switch back keeps which way the layer means an entity to go.
LEMMA ReconciledMeans ==
    \A e \in Entity :
        Means(e) <=> Reconciled(e) \in {"PendingOnline", "Online"}
  BY DEF Means, Reconciled

LEMMA BubbleKept == TypeOK /\ RegistryInv /\ BubbleInv /\ [Next]_vars => BubbleInv'
<1> SUFFICES ASSUME TypeOK, RegistryInv, BubbleInv, [Next]_vars PROVE BubbleInv'
  OBVIOUS
<1>1. ASSUME EngineStep PROVE BubbleInv'
  <2>1. stage = "idle" /\ UNCHANGED <<stage, online, intent>>
    BY <1>1 DEF EngineStep, Spawn, Release, SwitchOnline, SwitchOffline, ClientSpawn,
                ClientDestroy, Move, Between, bubbleVars, transitionVars
  <2> QED
    BY <2>1 DEF BubbleInv, Means
<1>2. ASSUME FeedTick PROVE BubbleInv'
  BY <1>2 DEF FeedTick, BubbleInv, Means, bubbleVars, transitionVars
<1>3. ASSUME BubbleUpdate PROVE BubbleInv'
  BY <1>3 DEF BubbleUpdate, Inside, BubbleInv, Means, engineVars, transitionVars
<1>4. ASSUME TransitionUpdate PROVE BubbleInv'
  <2>1. stage = "transition" /\ stage' = "idle" /\ UNCHANGED online
    BY <1>4 DEF TransitionUpdate, bubbleVars
  <2> SUFFICES ASSUME NEW e \in online
               PROVE  intent'[e] \in {"PendingOnline", "Online"}
    BY <2>1 DEF BubbleInv, Means
  <2>2. e \in Entity /\ e \in Registered
    BY <2>1 DEF TypeOK, BubbleInv, RegistryInv
  <2>3. intent'[e] = IntentAfter(e)
    BY <1>4, <2>2 DEF TransitionUpdate
  <2>4. "Deactivate" \notin Staged(e)
    BY DEF Staged, Deactivations
  <2>5. CASE "Activate" \in Staged(e)
    BY <2>3, <2>4, <2>5 DEF IntentAfter
  <2>6. CASE "Activate" \notin Staged(e)
    <3>1. e \in previous \/ ~NeedsActivate(Reconciled(e))
      BY <2>2, <2>6 DEF Staged, Activations, Kind
    <3>2. Reconciled(e) \in {"PendingOnline", "Online"}
      BY <2>1, <2>2, <3>1, ReconciledMeans DEF BubbleInv, NeedsActivate
    <3> QED
      BY <2>3, <2>4, <2>6, <3>2 DEF IntentAfter
  <2> QED
    BY <2>5, <2>6
<1>5. ASSUME UNCHANGED vars PROVE BubbleInv'
  BY <1>5 DEF vars, engineVars, bubbleVars, transitionVars, BubbleInv, Means
<1> QED
  BY <1>1, <1>2, <1>3, <1>4, <1>5 DEF Next, EngineStep

---------------------------------------------------------------------------
(* The commands.                                                           *)

LEMMA CommandKept == TypeOK /\ CommandInv /\ [Next]_vars => CommandInv'
<1> SUFFICES ASSUME TypeOK, CommandInv, [Next]_vars, NEW e \in Entity
             PROVE  /\ commanded'[e] <= object'[e].life
                    /\ commanded'[e] = object'[e].life /\ object'[e].alive =>
                          /\ intent'[e] \in {"PendingOnline", "Online"}
                                => ~object'[e].canSwitchOffline
                          /\ intent'[e] = "Online" => object'[e].online
  BY DEF CommandInv, Means
<1> DEFINE Holds == /\ commanded'[e] <= object'[e].life
                    /\ commanded'[e] = object'[e].life /\ object'[e].alive =>
                          /\ intent'[e] \in {"PendingOnline", "Online"}
                                => ~object'[e].canSwitchOffline
                          /\ intent'[e] = "Online" => object'[e].online
<1>1. /\ commanded[e] <= object[e].life
      /\ commanded[e] = object[e].life /\ object[e].alive =>
            /\ Means(e) => ~object[e].canSwitchOffline
            /\ intent[e] = "Online" => object[e].online
  BY DEF CommandInv
<1>2. object[e].life \in Nat /\ commanded[e] \in Nat /\ object \in [Entity -> ObjectType]
  BY BoundsAssumption DEF TypeOK, Lives, ObjectType
<1>3. ASSUME EngineStep PROVE Holds
  <2>1. UNCHANGED <<intent, commanded>>
    BY <1>3 DEF EngineStep, Spawn, Release, SwitchOnline, SwitchOffline, ClientSpawn,
                ClientDestroy, Move, Between, transitionVars
  <2>2. PICK i \in Entity :
           \/ Spawn(i) \/ Release(i)
           \/ SwitchOnline(i) \/ SwitchOffline(i)
           \/ ClientSpawn(i) \/ ClientDestroy(i)
           \/ \E where \in Near : Move(i, where)
    BY <1>3 DEF EngineStep
  <2>3. CASE Spawn(i)
    <3>1. i = e => object'[e].life = object[e].life + 1
      BY <1>2, <2>3 DEF Spawn, Unswitched
    <3>2. i # e => object'[e] = object[e]
      BY <1>2, <2>3 DEF Spawn
    <3> QED
      BY <1>1, <1>2, <2>1, <3>1, <3>2 DEF Means
  <2>4. CASE Release(i)
    <3>1. i = e => object'[e].life = object[e].life /\ object'[e].alive = FALSE
      BY <1>2, <2>4 DEF Release, Unswitched
    <3>2. i # e => object'[e] = object[e]
      BY <1>2, <2>4 DEF Release
    <3> QED
      BY <1>1, <1>2, <2>1, <3>1, <3>2 DEF Means
  <2>5. CASE SwitchOnline(i)
    <3>1. i = e => object'[e] = [object[e] EXCEPT !.online = TRUE]
      BY <1>2, <2>5 DEF SwitchOnline
    <3>2. i # e => object'[e] = object[e]
      BY <1>2, <2>5 DEF SwitchOnline
    <3> QED
      BY <1>1, <1>2, <2>1, <3>1, <3>2 DEF Means, ObjectType
  <2>6. CASE SwitchOffline(i)
    <3>1. i = e => object'[e] = [object[e] EXCEPT !.online = FALSE] /\ object[e].canSwitchOffline
      BY <1>2, <2>6 DEF SwitchOffline
    <3>2. i # e => object'[e] = object[e]
      BY <1>2, <2>6 DEF SwitchOffline
    <3> QED
      BY <1>1, <1>2, <2>1, <3>1, <3>2 DEF Means, ObjectType
  <2>7. CASE ClientSpawn(i) \/ ClientDestroy(i) \/ \E where \in Near : Move(i, where)
    <3>1. UNCHANGED object
      BY <2>7 DEF ClientSpawn, ClientDestroy, Move
    <3> QED
      BY <1>1, <2>1, <3>1 DEF Means
  <2> QED
    BY <2>2, <2>3, <2>4, <2>5, <2>6, <2>7
<1>4. ASSUME FeedTick \/ BubbleUpdate \/ UNCHANGED vars PROVE Holds
  <2>1. UNCHANGED <<object, intent, commanded>>
    BY <1>4 DEF FeedTick, BubbleUpdate, vars, engineVars, transitionVars
  <2> QED
    BY <1>1, <2>1 DEF Means
<1>5. ASSUME TransitionUpdate PROVE Holds
  <2>1. /\ intent'[e] = IntentAfter(e)
        /\ commanded'[e] = IF Staged(e) # {} THEN object[e].life ELSE commanded[e]
        /\ object'[e] =
              CASE object[e].alive /\ "Activate" \in Staged(e) -> Overridden(e, "Activate")
                [] object[e].alive /\ "Deactivate" \in Staged(e) -> Overridden(e, "Deactivate")
                [] OTHER -> object[e]
    BY <1>5 DEF TransitionUpdate
  <2>2. /\ object'[e].life = object[e].life
        /\ object'[e].alive = object[e].alive
        /\ object'[e].online = object[e].online
    BY <1>2, <2>1 DEF Overridden, ObjectType
  <2>3. commanded'[e] <= object'[e].life
    BY <1>1, <1>2, <2>1, <2>2
  <2>4. CASE "Activate" \in Staged(e)
    <3>1. intent'[e] = "PendingOnline"
      BY <2>1, <2>4, OneKindStaged DEF IntentAfter
    <3>2. object[e].alive => ~object'[e].canSwitchOffline
      <4> SUFFICES ASSUME object[e].alive PROVE ~object'[e].canSwitchOffline
        OBVIOUS
      <4>1. object'[e] = Overridden(e, "Activate")
        BY <2>1, <2>4, OneKindStaged
      <4> QED
        BY <1>2, <4>1 DEF Overridden, ObjectType
    <3> QED
      BY <2>2, <2>3, <3>1, <3>2
  <2>5. CASE "Deactivate" \in Staged(e)
    <3>1. intent'[e] = "PendingOffline"
      BY <2>1, <2>5, OneKindStaged DEF IntentAfter
    <3> QED
      BY <2>3, <3>1
  <2>6. CASE Staged(e) = {}
    <3>1. intent'[e] = Reconciled(e) /\ commanded'[e] = commanded[e] /\ object'[e] = object[e]
      BY <2>1, <2>6 DEF IntentAfter
    <3>2. Reconciled(e) = "Online" => intent[e] = "Online" \/ object[e].online
      BY DEF Reconciled
    <3>3. intent'[e] \in {"PendingOnline", "Online"} <=> Means(e)
      BY <3>1, ReconciledMeans
    <3> QED
      BY <1>1, <2>3, <3>1, <3>2, <3>3
  <2>7. Staged(e) \subseteq {"Activate", "Deactivate"}
    BY DEF Staged, Kind
  <2> QED
    BY <2>4, <2>5, <2>6, <2>7
<1> QED
  BY <1>3, <1>4, <1>5 DEF Next, EngineStep

---------------------------------------------------------------------------
(* The theorems.                                                           *)

LEMMA InitInv == Init => Inv
<1> SUFFICES ASSUME Init PROVE Inv
  OBVIOUS
<1>1. Registered = {}
  BY DEF Init, Registered
<1>2. CommandInv
  <2> SUFFICES ASSUME NEW e \in Entity
               PROVE  commanded[e] <= object[e].life /\ ~object[e].alive
    BY DEF CommandInv
  <2>1. object[e] = [life |-> 0, alive |-> FALSE, online |-> FALSE,
                     canSwitchOnline |-> TRUE, canSwitchOffline |-> TRUE]
    BY DEF Init, Unswitched
  <2>2. commanded[e] = 0
    BY DEF Init
  <2> QED
    BY <2>1, <2>2
<1> QED
  BY <1>1, <1>2, InitTyped DEF Init, Inv, RegistryInv, BubbleInv

LEMMA StepInv == Inv /\ [Next]_vars => Inv'
<1> SUFFICES ASSUME Inv, [Next]_vars PROVE Inv'
  OBVIOUS
<1>1. TypeOK /\ RegistryInv /\ BubbleInv /\ CommandInv
  BY DEF Inv
<1>2. TypeOK'
  <2>1. CASE UNCHANGED vars
    BY <1>1, <2>1 DEF vars, engineVars, registryVars, bubbleVars, transitionVars, TypeOK
  <2> QED
    BY <1>1, <2>1, EngineTyped, FeedTyped, BubbleTyped, TransitionTyped DEF Next, EngineStep
<1> QED
  BY <1>1, <1>2, RegistryKept, BubbleKept, CommandKept DEF Inv

\* Inv is an inductive invariant of the entity layer.
THEOREM Invariance == Spec => []Inv
<1> QED
  BY InitInv, StepInv, PTL DEF Spec

\* The variables keep their types, whatever the engine does between frames.
THEOREM TypeInvariant == Spec => []TypeOK
<1>1. Inv => TypeOK
  BY DEF Inv
<1> QED
  BY <1>1, Invariance, PTL

\* EngineEntityFeed::Tick leaves in the registry exactly the level's objects, each
\* under a record made for it.
THEOREM CurrentRecords == Spec => []RecordsAreCurrent
<1>1. Inv => RecordsAreCurrent
  <2> SUFFICES ASSUME Inv, stage # "idle"
               PROVE  Registered = client /\ \A e \in client : recordLife[e] = object[e].life
    BY DEF RecordsAreCurrent
  <2> QED
    BY DEF Inv, RegistryInv
<1> QED
  BY <1>1, Invariance, PTL

\* After TransitionManager::Update what the bubble wants online is meant online.
THEOREM BubbleIsAnswered == Spec => []BubbleIsIntended
<1>1. Inv => BubbleIsIntended
  BY DEF Inv, BubbleInv, BubbleIsIntended, Means
<1> QED
  BY <1>1, Invariance, PTL

\* The override of EngineAlifeSwitchGateway::ApplyOne holds against the engine's
\* own switch.
THEOREM OverrideHolds == Spec => []ConfirmedStaysOnline
<1>1. Inv => ConfirmedStaysOnline
  BY DEF Inv, CommandInv, ConfirmedStaysOnline
<1> QED
  BY <1>1, Invariance, PTL

\* A handle of the registry is never given again: the record of another object
\* has a generation no record of the id had before.
THEOREM FreshHandles == Spec => HandlesAreFresh
<1>1. Inv /\ [Next]_vars =>
         [\A e \in Entity :
             (record'[e] # 0 /\ recordLife'[e] # recordLife[e]) =>
                 record'[e] > generation[e]]_vars
  <2> SUFFICES ASSUME Inv, Next, NEW e \in Entity,
                      record'[e] # 0, recordLife'[e] # recordLife[e]
               PROVE  record'[e] > generation[e]
    OBVIOUS
  <2>1. FeedTick
    <3>1. EngineStep \/ BubbleUpdate \/ TransitionUpdate => UNCHANGED recordLife
      BY DEF EngineStep, Spawn, Release, SwitchOnline, SwitchOffline, ClientSpawn,
             ClientDestroy, Move, Between, BubbleUpdate, TransitionUpdate, registryVars
    <3> QED
      BY <3>1 DEF Next, EngineStep
  <2>2. record'[e] = NextGeneration(e)
    BY <2>1 DEF FeedTick
  <2>3. generation[e] \in Nat
    BY DEF Inv, TypeOK
  <2> QED
    BY <2>2, <2>3 DEF NextGeneration
<1> QED
  BY <1>1, Invariance, PTL DEF Spec, HandlesAreFresh
=============================================================================
