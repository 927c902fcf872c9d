----------------------------- MODULE Snapshots -----------------------------
(***************************************************************************)
(* The snapshot pipeline: SnapshotManager::Tick over the SnapshotBuilder,  *)
(* the reference-counted SnapshotPool and the latest-wins SnapshotQueue,   *)
(* and the readers that Acquire and Release.                               *)
(*                                                                         *)
(* Tick is one step: the queue is single-threaded, and the header's        *)
(* contract is one producer and any number of readers, each of which may   *)
(* keep what it acquired across later ticks.  A captured state is its      *)
(* simulation tick and what was captured (World).                          *)
(***************************************************************************)
EXTENDS Integers, FiniteSets

CONSTANTS
    Capacity,  \* [snapshot] pool_capacity
    Reader,    \* those who acquire: the replication and persistence managers
    World,     \* what a capture may find
    MaxTick    \* bound on the frames

ASSUME CapacityAssumption == Capacity \in Nat /\ Capacity >= 2
ASSUME ReaderAssumption == IsFiniteSet(Reader)
ASSUME TickAssumption == MaxTick \in Nat

VARIABLES
    slots,      \* SnapshotPool::m_slots: the count and the buffer of each
    poolInUse,  \* SnapshotPool::m_inUse
    nextId,     \* SnapshotBuilder::m_nextId
    current,    \* SnapshotQueue::m_current: a slot, or NoSlot
    tick,       \* SnapshotManager::m_tick
    holds       \* the slot each reader acquired and has not released

vars == <<slots, poolInUse, nextId, current, tick, holds>>

Slot   == 1..Capacity
NoSlot == 0
Blank  == [id |-> 0, tick |-> 0, state |-> "Building", world |-> {}]
Buffer == [id : Nat, tick : Nat, state : {"Building", "Finalized"},
           world : SUBSET World]
Free   == [refCount |-> 0, inUse |-> FALSE, buffer |-> Blank]

Init ==
    /\ slots = [s \in Slot |-> Free]
    /\ poolInUse = 0
    /\ nextId = 1
    /\ current = NoSlot
    /\ tick = 0
    /\ holds = [r \in Reader |-> NoSlot]

---------------------------------------------------------------------------
(* SnapshotPool.                                                           *)

\* Mutant: Acquire does not look at inUse.
AnySlots == Slot

FreeSlots == {s \in Slot : ~slots[s].inUse}
LowestFree == CHOOSE s \in FreeSlots : \A other \in FreeSlots : s <= other

\* Mutants: a new reader is not counted; the buffer goes back to the free set
\* with its last reader but one.
AddRefNone(pool, s) == pool
DropRefEarly(pool, s) ==
    [pool EXCEPT ![s] = [refCount |-> @.refCount - 1, inUse |-> @.refCount > 2,
                         buffer |-> @.buffer]]

AddRef(pool, s) == [pool EXCEPT ![s].refCount = @ + 1]

\* ReturnToPool: one reference less; free once there is none.
DropRef(pool, s) ==
    [pool EXCEPT ![s] = [refCount |-> @.refCount - 1, inUse |-> @.refCount > 1,
                         buffer |-> @.buffer]]

\* What m_inUse is taken down by once a reference of s was dropped.
Freed(pool, s) == IF pool[s].inUse THEN 0 ELSE 1

---------------------------------------------------------------------------
(* SnapshotManager::Tick.                                                  *)

\* The slot a build occupies, with what Capture left in it.
Built(s, state, world) ==
    [slots EXCEPT ![s] = [refCount |-> 1, inUse |-> TRUE,
        buffer |-> [id |-> nextId, tick |-> tick + 1, state |-> state, world |-> world]]]

\* No free buffer: the tick is skipped and what is published stays.
TickExhausted ==
    /\ tick < MaxTick
    /\ FreeSlots = {}
    /\ tick' = tick + 1
    /\ UNCHANGED <<slots, poolInUse, nextId, current, holds>>

\* Mutant: the superseded snapshot keeps its publication reference.
SupersededKept(pool) == pool

\* SnapshotQueue::Publish: the build's reference becomes the publication's, and
\* that of the snapshot it supersedes is dropped.
Superseded(pool) == IF current = NoSlot THEN pool ELSE DropRef(pool, current)

\* Mutant: Tick does not look at what Capture returned, and publishes.
TickPublishesAborted(world) ==
    LET s == LowestFree IN
    /\ tick < MaxTick
    /\ FreeSlots # {}
    /\ tick' = tick + 1
    /\ nextId' = nextId + 1
    /\ current' = s
    /\ slots' = Superseded(Built(s, "Building", world))
    /\ poolInUse' = Cardinality({other \in Slot : slots'[other].inUse})
    /\ UNCHANGED holds

\* Capture fails (too many entities or players, ids that do not ascend) after it
\* appended some of them: the build's buffer returns to the pool.
TickAborts(world) ==
    LET s == LowestFree IN
    /\ tick < MaxTick
    /\ FreeSlots # {}
    /\ tick' = tick + 1
    /\ nextId' = nextId + 1
    /\ slots' = DropRef(Built(s, "Building", world), s)
    /\ poolInUse' = poolInUse + 1 - Freed(slots', s)
    /\ UNCHANGED <<current, holds>>

TickPublishes(world) ==
    LET s == LowestFree IN
    /\ tick < MaxTick
    /\ FreeSlots # {}
    /\ tick' = tick + 1
    /\ nextId' = nextId + 1
    /\ current' = s
    /\ slots' = Superseded(Built(s, "Finalized", world))
    /\ poolInUse' = poolInUse + 1
                    - (IF current = NoSlot THEN 0 ELSE Freed(slots', current))
    /\ UNCHANGED holds

---------------------------------------------------------------------------
(* SnapshotQueue::Acquire and Release.                                     *)

Acquire(r) ==
    /\ current # NoSlot /\ holds[r] = NoSlot
    /\ slots' = AddRef(slots, current)
    /\ holds' = [holds EXCEPT ![r] = current]
    /\ UNCHANGED <<poolInUse, nextId, current, tick>>

Release(r) ==
    /\ holds[r] # NoSlot
    /\ slots' = DropRef(slots, holds[r])
    /\ poolInUse' = poolInUse - Freed(slots', holds[r])
    /\ holds' = [holds EXCEPT ![r] = NoSlot]
    /\ UNCHANGED <<nextId, current, tick>>

Next ==
    \/ TickExhausted
    \/ \E world \in SUBSET World : TickAborts(world) \/ TickPublishes(world)
    \/ \E r \in Reader : Acquire(r) \/ Release(r)

Spec == Init /\ [][Next]_vars

---------------------------------------------------------------------------
(* Properties.                                                             *)

TypeOK ==
    /\ slots \in [Slot -> [refCount : Nat, inUse : BOOLEAN, buffer : Buffer]]
    /\ poolInUse \in 0..Capacity
    /\ nextId \in Nat \ {0}
    /\ current \in Slot \cup {NoSlot}
    /\ tick \in 0..MaxTick
    /\ holds \in [Reader -> Slot \cup {NoSlot}]

Readers(s) == {r \in Reader : holds[r] = s}
Publication(s) == IF current = s THEN 1 ELSE 0

\* The count of every buffer is exactly the readers that hold it, plus one while
\* it is the published one; a buffer is out of the free set exactly while counted.
CountsExact ==
    \A s \in Slot :
        /\ slots[s].refCount = Cardinality(Readers(s)) + Publication(s)
        /\ slots[s].inUse <=> slots[s].refCount > 0

\* InUse() agrees with the slots, so no buffer is ever lost to the pool.
PoolAgrees == poolInUse = Cardinality({s \in Slot : slots[s].inUse})

\* What is published or held was sealed: neither a half-captured buffer nor the
\* one an aborted build left behind is ever seen.
SeenAreSealed ==
    \A s \in Slot : current = s \/ Readers(s) # {} => slots[s].buffer.state = "Finalized"

\* A capture that fails, or a pool that is exhausted, leaves the published
\* snapshot as it was; a publication moves to a later tick and id, never back.
PublicationsAscend ==
    [][current # NoSlot =>
        LET before == slots[current].buffer
            after  == slots'[current'].buffer
        IN  current' # NoSlot
            /\ IF current' = current
               THEN after = before
               ELSE after.id > before.id /\ after.tick > before.tick]_vars

Register == INSTANCE SnapshotRegister WITH
    NoSnapshot <- Blank,
    latest     <- IF current = NoSlot THEN Blank ELSE slots[current].buffer,
    lease      <- [r \in Reader |->
                      IF holds[r] = NoSlot THEN Blank ELSE slots[holds[r]].buffer]

\* The pipeline is the register of SnapshotRegister: a reader's snapshot is not
\* reused, rebuilt or changed while the reader has it.
ImplementsRegister == Register!Spec

\* An exhausted pool is not exhausted for good: readers release what they hold.
ExhaustionEnds == FreeSlots = {} ~> FreeSlots # {}

Fairness == \A r \in Reader : WF_vars(Release(r))

FairSpec == Spec /\ Fairness
=============================================================================
