-------------------------- MODULE Snapshots_proofs --------------------------
(***************************************************************************)
(* Proofs about Snapshots, for every capacity of the pool, every set of    *)
(* readers and every bound on the ticks: the counts of the pool are exact, *)
(* and so what a reader sees is sealed and never changes under it.         *)
(***************************************************************************)
EXTENDS Snapshots, FiniteSetTheorems, WellFoundedInduction, TLAPS

\* No buffer is from the future: what is built next is newer than all of them.
BuffersArePast ==
    \A s \in Slot : slots[s].buffer.id < nextId /\ slots[s].buffer.tick <= tick

Inv == TypeOK /\ CountsExact /\ PoolAgrees /\ SeenAreSealed /\ BuffersArePast

---------------------------------------------------------------------------
(* The pool's choice of a slot, and the sets that are counted.             *)

\* Acquire returns a free slot whenever there is one.
LEMMA LowestFreeIsFree ==
    ASSUME FreeSlots # {}
    PROVE  LowestFree \in FreeSlots
<1> DEFINE R == OpToRel(<, Nat)
<1>1. FreeSlots \subseteq Nat
  BY CapacityAssumption DEF FreeSlots, Slot
<1>2. IsWellFoundedOn(R, Nat)
  BY NatLessThanWellFounded
<1>3. PICK s \in FreeSlots : \A other \in FreeSlots : ~(<<other, s>> \in R)
  BY <1>1, <1>2, WFMin
<1>4. \A other \in FreeSlots : s <= other
  <2> TAKE other \in FreeSlots
  <2>1. ~(other < s)
    BY <1>1, <1>3 DEF OpToRel
  <2> QED
    BY <1>1, <2>1
<1> QED
  BY <1>4 DEF LowestFree

\* The readers of a slot are finitely many.
LEMMA ReadersFinite ==
    \A s \in Slot : IsFiniteSet(Readers(s)) /\ Cardinality(Readers(s)) \in Nat
<1> TAKE s \in Slot
<1>1. Readers(s) \subseteq Reader
  BY DEF Readers
<1>2. IsFiniteSet(Readers(s))
  BY <1>1, ReaderAssumption, FS_Subset
<1> QED
  BY <1>2, FS_CardinalityType

\* A slot that is free is neither held nor published.
LEMMA FreeIsUnseen ==
    ASSUME TypeOK, CountsExact, NEW s \in FreeSlots
    PROVE  s \in Slot /\ Readers(s) = {} /\ current # s /\ slots[s].refCount = 0
<1>1. s \in Slot /\ ~slots[s].inUse
  BY DEF FreeSlots
<1>2. slots[s].refCount \in Nat
  BY <1>1 DEF TypeOK
<1>3. slots[s].refCount = 0
  BY <1>1, <1>2 DEF CountsExact
<1>4. Cardinality(Readers(s)) \in Nat /\ IsFiniteSet(Readers(s))
  BY <1>1, ReadersFinite
<1>5. Publication(s) \in {0, 1}
  BY DEF Publication
<1>6. Cardinality(Readers(s)) = 0 /\ Publication(s) = 0
  BY <1>1, <1>3, <1>4, <1>5 DEF CountsExact
<1> QED
  BY <1>1, <1>3, <1>4, <1>6, FS_EmptySet DEF Publication

---------------------------------------------------------------------------
(* What each operation of the pool does to each slot.                      *)

Pool == [Slot -> [refCount : Nat, inUse : BOOLEAN, buffer : Buffer]]
InUse(pool) == {s \in Slot : pool[s].inUse}

\* ReturnToPool takes one reference off one slot and leaves its buffer alone.
LEMMA DropRefEffect ==
    ASSUME NEW pool \in Pool, NEW s \in Slot, pool[s].refCount > 0
    PROVE  /\ DropRef(pool, s) \in Pool
           /\ \A t \in Slot : DropRef(pool, s)[t].buffer = pool[t].buffer
           /\ \A t \in Slot \ {s} : DropRef(pool, s)[t] = pool[t]
           /\ DropRef(pool, s)[s].refCount = pool[s].refCount - 1
           /\ DropRef(pool, s)[s].inUse <=> pool[s].refCount > 1
<1> DEFINE slot == [refCount |-> pool[s].refCount - 1,
                    inUse |-> pool[s].refCount > 1, buffer |-> pool[s].buffer]
<1>1. pool[s] \in [refCount : Nat, inUse : BOOLEAN, buffer : Buffer]
  BY DEF Pool
<1>2. pool[s].refCount - 1 \in Nat
  BY <1>1
<1>3. slot \in [refCount : Nat, inUse : BOOLEAN, buffer : Buffer]
  BY <1>1, <1>2
<1>4. DropRef(pool, s) = [pool EXCEPT ![s] = slot]
  BY <1>1 DEF DropRef, Pool
<1> HIDE DEF slot
<1>5. DropRef(pool, s) \in Pool
  BY <1>3, <1>4 DEF Pool
<1>6. DropRef(pool, s)[s] = slot /\ \A t \in Slot \ {s} : DropRef(pool, s)[t] = pool[t]
  BY <1>4 DEF Pool
<1>7. /\ slot.buffer = pool[s].buffer
      /\ slot.refCount = pool[s].refCount - 1
      /\ slot.inUse <=> pool[s].refCount > 1
  BY DEF slot
<1> QED
  BY <1>5, <1>6, <1>7

\* AddRef adds one reference to one slot and changes nothing else.
LEMMA AddRefEffect ==
    ASSUME NEW pool \in Pool, NEW s \in Slot
    PROVE  /\ AddRef(pool, s) \in Pool
           /\ \A t \in Slot : AddRef(pool, s)[t].buffer = pool[t].buffer
           /\ \A t \in Slot : AddRef(pool, s)[t].inUse = pool[t].inUse
           /\ \A t \in Slot \ {s} : AddRef(pool, s)[t] = pool[t]
           /\ AddRef(pool, s)[s].refCount = pool[s].refCount + 1
<1> DEFINE slot == [pool[s] EXCEPT !.refCount = @ + 1]
<1>1. pool[s] \in [refCount : Nat, inUse : BOOLEAN, buffer : Buffer]
  BY DEF Pool
<1>2. slot \in [refCount : Nat, inUse : BOOLEAN, buffer : Buffer]
  BY <1>1
<1>3. slot.buffer = pool[s].buffer /\ slot.inUse = pool[s].inUse
      /\ slot.refCount = pool[s].refCount + 1
  BY <1>1
<1>4. AddRef(pool, s) = [pool EXCEPT ![s] = slot]
  BY <1>1 DEF AddRef, Pool
<1> HIDE DEF slot
<1>5. AddRef(pool, s) \in Pool
  BY <1>2, <1>4 DEF Pool
<1>6. AddRef(pool, s)[s] = slot /\ \A t \in Slot \ {s} : AddRef(pool, s)[t] = pool[t]
  BY <1>4 DEF Pool
<1> QED
  BY <1>3, <1>5, <1>6

\* A build occupies one slot with one reference and a buffer newer than any.
LEMMA BuiltEffect ==
    ASSUME TypeOK, NEW s \in Slot, NEW state \in {"Building", "Finalized"},
           NEW world \in SUBSET World
    PROVE  /\ Built(s, state, world) \in Pool
           /\ \A t \in Slot \ {s} : Built(s, state, world)[t] = slots[t]
           /\ Built(s, state, world)[s].refCount = 1
           /\ Built(s, state, world)[s].inUse
           /\ Built(s, state, world)[s].buffer =
                [id |-> nextId, tick |-> tick + 1, state |-> state, world |-> world]
<1> DEFINE buffer == [id |-> nextId, tick |-> tick + 1, state |-> state, world |-> world]
           slot   == [refCount |-> 1, inUse |-> TRUE, buffer |-> buffer]
<1>1. tick \in Nat /\ nextId \in Nat
  BY TickAssumption DEF TypeOK
<1>2. buffer \in Buffer
  BY <1>1 DEF Buffer
<1>3. slot \in [refCount : Nat, inUse : BOOLEAN, buffer : Buffer]
  BY <1>2
<1>4. Built(s, state, world) = [slots EXCEPT ![s] = slot]
  BY DEF Built
<1>5. slots \in Pool
  BY DEF TypeOK, Pool
<1>6. slot.refCount = 1 /\ slot.inUse /\ slot.buffer = buffer
  OBVIOUS
<1> HIDE DEF slot
<1>7. Built(s, state, world) \in Pool
  BY <1>3, <1>4, <1>5 DEF Pool
<1>8. Built(s, state, world)[s] = slot
      /\ \A t \in Slot \ {s} : Built(s, state, world)[t] = slots[t]
  BY <1>4, <1>5 DEF Pool
<1> QED
  BY <1>6, <1>7, <1>8

\* The slots in use are finitely many, at most the capacity.
LEMMA InUseFinite ==
    ASSUME NEW pool
    PROVE  /\ IsFiniteSet(InUse(pool))
           /\ Cardinality(InUse(pool)) \in 0..Capacity
<1>1. IsFiniteSet(Slot) /\ Cardinality(Slot) = Capacity
  BY CapacityAssumption, FS_Interval DEF Slot
<1>2. InUse(pool) \in SUBSET Slot
  BY DEF InUse
<1>3. IsFiniteSet(InUse(pool)) /\ Cardinality(InUse(pool)) <= Capacity
  BY <1>1, <1>2, FS_Subset
<1>4. Cardinality(InUse(pool)) \in Nat
  BY <1>3, FS_CardinalityType
<1> QED
  BY <1>3, <1>4, CapacityAssumption

\* Dropping a reference takes a slot out of the slots in use when it was the last.
LEMMA InUseAfterDrop ==
    ASSUME NEW pool \in Pool, NEW s \in Slot, pool[s].refCount > 0, pool[s].inUse
    PROVE  Cardinality(InUse(DropRef(pool, s)))
             = Cardinality(InUse(pool)) - Freed(DropRef(pool, s), s)
<1> DEFINE after == DropRef(pool, s)
<1>1. IsFiniteSet(InUse(pool)) /\ Cardinality(InUse(pool)) \in Nat
  BY InUseFinite
<1>2. \A t \in Slot \ {s} : after[t] = pool[t]
  BY DropRefEffect
<1>3. s \in InUse(pool)
  BY DEF InUse
<1> HIDE DEF after
<1>4. CASE after[s].inUse
  <2>1. InUse(after) = InUse(pool)
    BY <1>2, <1>3, <1>4 DEF InUse
  <2> QED
    BY <1>1, <1>4, <2>1 DEF Freed, after
<1>5. CASE ~after[s].inUse
  <2>1. InUse(after) = InUse(pool) \ {s}
    BY <1>2, <1>5 DEF InUse
  <2>2. Cardinality(InUse(after)) = Cardinality(InUse(pool)) - 1
    BY <1>1, <1>3, <2>1, FS_RemoveElement
  <2> QED
    BY <1>5, <2>2 DEF Freed, after
<1> QED
  BY <1>4, <1>5

\* A build takes one more slot into use.
LEMMA InUseAfterBuild ==
    ASSUME TypeOK, CountsExact, NEW s \in FreeSlots,
           NEW state \in {"Building", "Finalized"}, NEW world \in SUBSET World
    PROVE  Cardinality(InUse(Built(s, state, world))) = Cardinality(InUse(slots)) + 1
<1> DEFINE after == Built(s, state, world)
<1>1. IsFiniteSet(InUse(slots)) /\ Cardinality(InUse(slots)) \in Nat
  BY InUseFinite
<1>2. s \in Slot /\ ~slots[s].inUse
  BY DEF FreeSlots
<1>3. after[s].inUse
  BY <1>2, BuiltEffect
<1>4. \A t \in Slot \ {s} : after[t] = slots[t]
  BY <1>2 DEF Built, TypeOK
<1> HIDE DEF after
<1>5. InUse(after) = InUse(slots) \cup {s} /\ s \notin InUse(slots)
  BY <1>2, <1>3, <1>4 DEF InUse
<1> QED
  BY <1>1, <1>5, FS_AddElement DEF after

\* PoolAgrees, and with it the bound on m_inUse, from the count of what is in use.
LEMMA PoolAgreesFrom ==
    ASSUME poolInUse = Cardinality(InUse(slots))
    PROVE  PoolAgrees /\ poolInUse \in 0..Capacity
  BY InUseFinite DEF PoolAgrees, InUse

\* A buffer that is published or held has a reference, and is out of the free set.
LEMMA SeenIsCounted ==
    ASSUME TypeOK, CountsExact, NEW s \in Slot, current = s \/ Readers(s) # {}
    PROVE  slots[s].refCount > 0 /\ slots[s].inUse
<1>1. Cardinality(Readers(s)) \in Nat /\ IsFiniteSet(Readers(s))
  BY ReadersFinite
<1>2. slots[s].refCount = Cardinality(Readers(s)) + Publication(s)
  BY DEF CountsExact
<1>3. CASE current = s
  BY <1>1, <1>2, <1>3 DEF Publication, CountsExact
<1>4. CASE Readers(s) # {}
  <2>1. Cardinality(Readers(s)) # 0
    BY <1>1, <1>4, FS_EmptySet
  <2> QED
    BY <1>1, <1>2, <2>1 DEF Publication, CountsExact
<1> QED
  BY <1>3, <1>4

---------------------------------------------------------------------------
(* Every action preserves the invariant.                                   *)

\* A reader acquires: one reader more, one reference more.
LEMMA AcquireStep ==
    ASSUME Inv, NEW r \in Reader, Acquire(r)
    PROVE  Inv'
<1> USE DEF Inv
<1>0. PICK c \in Slot : c = current
  BY DEF Acquire, TypeOK
<1>1. c \in Slot /\ r \notin Readers(c) /\ slots \in Pool
  BY <1>0 DEF Acquire, Readers, TypeOK, NoSlot, Slot, Pool
<1>2. slots[c].refCount > 0 /\ slots[c].inUse
  BY <1>0, <1>1, SeenIsCounted
<1>3. /\ slots' \in Pool
      /\ \A t \in Slot : slots'[t].buffer = slots[t].buffer
      /\ \A t \in Slot : slots'[t].inUse = slots[t].inUse
      /\ \A t \in Slot \ {c} : slots'[t] = slots[t]
      /\ slots'[c].refCount = slots[c].refCount + 1
  BY <1>0, <1>1, AddRefEffect DEF Acquire
<1>4. holds' = [holds EXCEPT ![r] = c] /\ current' = current
  BY <1>0 DEF Acquire
<1>5. Readers(c)' = Readers(c) \cup {r}
  BY <1>1, <1>4 DEF Readers, TypeOK
<1>6. \A t \in Slot \ {c} : Readers(t)' = Readers(t)
  BY <1>1, <1>4 DEF Readers, TypeOK, Acquire, NoSlot, Slot
<1>7. Cardinality(Readers(c)') = Cardinality(Readers(c)) + 1
  BY <1>1, <1>5, ReadersFinite, FS_AddElement
<1>8. TypeOK'
  BY <1>1, <1>3, <1>4 DEF TypeOK, Pool, Acquire
<1>9. CountsExact'
  <2> SUFFICES ASSUME NEW t \in Slot
               PROVE  /\ slots'[t].refCount = Cardinality(Readers(t)') + Publication(t)'
                      /\ slots'[t].inUse <=> slots'[t].refCount > 0
    BY DEF CountsExact
  <2>1. Publication(t)' = Publication(t)
    BY <1>4 DEF Publication
  <2>2. slots[t].refCount = Cardinality(Readers(t)) + Publication(t)
        /\ (slots[t].inUse <=> slots[t].refCount > 0)
    BY DEF CountsExact
  <2>3. Cardinality(Readers(t)) \in Nat /\ Publication(t) \in {0, 1}
    BY ReadersFinite DEF Publication
  <2>4. CASE t = c
    BY <1>2, <1>3, <1>7, <2>1, <2>2, <2>3, <2>4
  <2>5. CASE t # c
    BY <1>3, <1>6, <2>1, <2>2, <2>5
  <2> QED
    BY <2>4, <2>5
<1>10. InUse(slots') = InUse(slots)
  BY <1>3 DEF InUse
<1>11. PoolAgrees'
  BY <1>10 DEF PoolAgrees, InUse, Acquire
<1>12. SeenAreSealed'
  BY <1>0, <1>1, <1>3, <1>4, <1>6 DEF SeenAreSealed
<1>13. BuffersArePast'
  BY <1>3 DEF BuffersArePast, Acquire
<1> QED
  BY <1>8, <1>9, <1>11, <1>12, <1>13

\* A reader releases: the slot is free again when it was the last reference.
LEMMA ReleaseStep ==
    ASSUME Inv, NEW r \in Reader, Release(r)
    PROVE  Inv'
<1> USE DEF Inv
<1>0. PICK h \in Slot : h = holds[r]
  BY DEF Release, TypeOK
<1>1. h \in Slot /\ r \in Readers(h) /\ slots \in Pool
  BY <1>0 DEF Readers, TypeOK, Pool
<1>2. slots[h].refCount > 0 /\ slots[h].inUse
  BY <1>1, SeenIsCounted
<1>3. /\ slots' = DropRef(slots, h)
      /\ poolInUse' = poolInUse - Freed(slots', h)
      /\ holds' = [holds EXCEPT ![r] = NoSlot]
      /\ current' = current /\ nextId' = nextId /\ tick' = tick
  BY <1>0 DEF Release
<1>4. /\ slots' \in Pool
      /\ \A t \in Slot : slots'[t].buffer = slots[t].buffer
      /\ \A t \in Slot \ {h} : slots'[t] = slots[t]
      /\ slots'[h].refCount = slots[h].refCount - 1
      /\ slots'[h].inUse <=> slots[h].refCount > 1
  BY <1>1, <1>2, <1>3, DropRefEffect
<1>5. Readers(h)' = Readers(h) \ {r}
  BY <1>0, <1>1, <1>3 DEF Readers, TypeOK, NoSlot, Slot
<1>6. \A t \in Slot \ {h} : Readers(t)' = Readers(t)
  BY <1>0, <1>1, <1>3 DEF Readers, TypeOK, NoSlot, Slot
<1>7. Cardinality(Readers(h)') = Cardinality(Readers(h)) - 1
  BY <1>1, <1>5, ReadersFinite, FS_RemoveElement
<1>8. poolInUse' = Cardinality(InUse(slots'))
  <2>1. poolInUse = Cardinality(InUse(slots))
    BY DEF PoolAgrees, InUse
  <2> QED
    BY <1>1, <1>2, <1>3, <2>1, InUseAfterDrop
<1>9. PoolAgrees' /\ poolInUse' \in 0..Capacity
  BY <1>8, InUseFinite DEF PoolAgrees, InUse
<1>10. TypeOK'
  BY <1>3, <1>4, <1>9 DEF TypeOK, Pool
<1>11. CountsExact'
  <2> SUFFICES ASSUME NEW t \in Slot
               PROVE  /\ slots'[t].refCount = Cardinality(Readers(t)') + Publication(t)'
                      /\ slots'[t].inUse <=> slots'[t].refCount > 0
    BY DEF CountsExact
  <2>1. Publication(t)' = Publication(t)
    BY <1>3 DEF Publication
  <2>2. slots[t].refCount = Cardinality(Readers(t)) + Publication(t)
        /\ (slots[t].inUse <=> slots[t].refCount > 0)
    BY DEF CountsExact
  <2>3. Cardinality(Readers(t)) \in Nat /\ Publication(t) \in {0, 1}
        /\ slots[t].refCount \in Nat
    BY ReadersFinite DEF Publication, TypeOK
  <2>4. CASE t = h
    BY <1>2, <1>4, <1>7, <2>1, <2>2, <2>3, <2>4
  <2>5. CASE t # h
    BY <1>4, <1>6, <2>1, <2>2, <2>5
  <2> QED
    BY <2>4, <2>5
<1>12. SeenAreSealed'
  BY <1>1, <1>3, <1>4, <1>5, <1>6 DEF SeenAreSealed
<1>13. BuffersArePast'
  BY <1>3, <1>4 DEF BuffersArePast
<1> QED
  BY <1>9, <1>10, <1>11, <1>12, <1>13

\* A failed capture leaves the pool as it found it, but for the slot's buffer.
LEMMA TickAbortsStep ==
    ASSUME Inv, NEW world \in SUBSET World, TickAborts(world)
    PROVE  Inv'
<1> USE DEF Inv
<1>0. PICK s \in FreeSlots : s = LowestFree
  BY LowestFreeIsFree DEF TickAborts
<1>1. s \in Slot /\ Readers(s) = {} /\ current # s /\ slots[s].refCount = 0
  BY FreeIsUnseen
<1> DEFINE mid == Built(s, "Building", world)
<1>2. /\ mid \in Pool
      /\ mid[s].refCount = 1 /\ mid[s].inUse
      /\ mid[s].buffer =
           [id |-> nextId, tick |-> tick + 1, state |-> "Building", world |-> world]
  BY <1>1, BuiltEffect
<1>3. \A t \in Slot \ {s} : mid[t] = slots[t]
  BY <1>1 DEF Built, TypeOK
<1>4. poolInUse = Cardinality(InUse(slots))
      /\ Cardinality(InUse(mid)) = Cardinality(InUse(slots)) + 1
  BY InUseAfterBuild DEF PoolAgrees, InUse
<1>5. /\ slots' = DropRef(mid, s)
      /\ poolInUse' = poolInUse + 1 - Freed(slots', s)
      /\ nextId' = nextId + 1 /\ tick' = tick + 1 /\ tick < MaxTick
      /\ current' = current /\ holds' = holds
  BY <1>0 DEF TickAborts
<1> HIDE DEF mid
<1>6. /\ slots' \in Pool
      /\ \A t \in Slot : slots'[t].buffer = mid[t].buffer
      /\ \A t \in Slot \ {s} : slots'[t] = mid[t]
      /\ slots'[s].refCount = 0
      /\ ~slots'[s].inUse
  BY <1>1, <1>2, <1>5, DropRefEffect
<1>7. \A t \in Slot \ {s} : slots'[t] = slots[t]
  BY <1>3, <1>6
<1>8. poolInUse' = Cardinality(InUse(slots'))
  <2>1. Cardinality(InUse(slots')) = Cardinality(InUse(mid)) - Freed(slots', s)
    BY <1>1, <1>2, <1>5, InUseAfterDrop
  <2>2. Freed(slots', s) \in Nat /\ Cardinality(InUse(slots)) \in Nat
    BY InUseFinite DEF Freed
  <2> QED
    BY <1>4, <1>5, <2>1, <2>2
<1>9. PoolAgrees' /\ poolInUse' \in 0..Capacity
  BY <1>8, InUseFinite DEF PoolAgrees, InUse
<1>10. TypeOK'
  BY <1>5, <1>6, <1>9, TickAssumption DEF TypeOK, Pool
<1>11. CountsExact'
  <2>1. \A t \in Slot : Readers(t)' = Readers(t) /\ Publication(t)' = Publication(t)
    BY <1>5 DEF Readers, Publication
  <2>2. Cardinality(Readers(s)) = 0 /\ Publication(s) = 0
    BY <1>1, FS_EmptySet DEF Publication
  <2> QED
    BY <1>6, <1>7, <2>1, <2>2 DEF CountsExact
<1>12. SeenAreSealed'
  BY <1>1, <1>5, <1>7 DEF SeenAreSealed, Readers
<1>13. BuffersArePast'
  <2>1. slots'[s].buffer.id = nextId /\ slots'[s].buffer.tick = tick + 1
    BY <1>1, <1>2, <1>6
  <2> QED
    BY <1>5, <1>7, <2>1, TickAssumption DEF BuffersArePast, TypeOK, Buffer
<1> QED
  BY <1>9, <1>10, <1>11, <1>12, <1>13

\* A publication, as the change it makes slot by slot: the build's slot "s" is
\* sealed with the one reference of the publication, and the superseded slot
\* loses that reference.
LEMMA PublishEffect ==
    ASSUME Inv, NEW world \in SUBSET World, TickPublishes(world), NEW s \in FreeSlots,
           s = LowestFree
    PROVE  /\ slots' \in Pool
           /\ current' = s
           /\ slots'[s].refCount = 1 /\ slots'[s].inUse
           /\ slots'[s].buffer =
                [id |-> nextId, tick |-> tick + 1, state |-> "Finalized", world |-> world]
           /\ \A t \in Slot \ {s} : slots'[t].buffer = slots[t].buffer
           /\ \A t \in Slot \ {s, current} : slots'[t] = slots[t]
           /\ current # NoSlot =>
                /\ slots'[current].refCount = slots[current].refCount - 1
                /\ slots'[current].inUse <=> slots[current].refCount > 1
           /\ poolInUse' = Cardinality(InUse(slots'))
<1> USE DEF Inv
<1>1. s \in Slot /\ Readers(s) = {} /\ current # s /\ slots[s].refCount = 0
  BY FreeIsUnseen
<1> DEFINE mid == Built(s, "Finalized", world)
<1>2. /\ mid \in Pool
      /\ mid[s].refCount = 1 /\ mid[s].inUse
      /\ mid[s].buffer =
           [id |-> nextId, tick |-> tick + 1, state |-> "Finalized", world |-> world]
  BY <1>1, BuiltEffect
<1>3. \A t \in Slot \ {s} : mid[t] = slots[t]
  BY <1>1 DEF Built, TypeOK
<1>4. poolInUse = Cardinality(InUse(slots))
      /\ Cardinality(InUse(mid)) = Cardinality(InUse(slots)) + 1
  BY InUseAfterBuild DEF PoolAgrees, InUse
<1>5. /\ slots' = Superseded(mid)
      /\ poolInUse' = poolInUse + 1
                      - (IF current = NoSlot THEN 0 ELSE Freed(slots', current))
      /\ current' = s
  BY DEF TickPublishes
<1>6. Cardinality(InUse(slots)) \in Nat
  BY InUseFinite
<1> HIDE DEF mid
<1>7. CASE current = NoSlot
  <2>1. slots' = mid
    BY <1>5, <1>7 DEF Superseded
  <2> QED
    BY <1>2, <1>3, <1>4, <1>5, <1>6, <1>7, <2>1
<1>8. CASE current # NoSlot
  <2>0. PICK c \in Slot : c = current
    BY <1>8 DEF TypeOK
  <2>1. slots' = DropRef(mid, c)
    BY <1>5, <1>8, <2>0 DEF Superseded
  <2>2. c # s /\ mid[c] = slots[c]
    BY <1>1, <1>3, <2>0
  <2>3. mid[c].refCount > 0 /\ mid[c].inUse
    BY <2>0, <2>2, SeenIsCounted
  <2>4. /\ slots' \in Pool
        /\ \A t \in Slot : slots'[t].buffer = mid[t].buffer
        /\ \A t \in Slot \ {c} : slots'[t] = mid[t]
        /\ slots'[c].refCount = mid[c].refCount - 1
        /\ slots'[c].inUse <=> mid[c].refCount > 1
    BY <1>2, <2>1, <2>3, DropRefEffect
  <2>5. Cardinality(InUse(slots')) = Cardinality(InUse(mid)) - Freed(slots', c)
    BY <1>2, <2>1, <2>3, InUseAfterDrop
  <2>6. Freed(slots', c) \in Nat
    BY DEF Freed
  <2>7. poolInUse' = Cardinality(InUse(slots'))
    BY <1>4, <1>5, <1>6, <1>8, <2>0, <2>5, <2>6
  <2>8. slots'[s] = mid[s]
    BY <1>1, <2>2, <2>4
  <2>9. \A t \in Slot \ {s} : slots'[t].buffer = slots[t].buffer
    BY <1>3, <2>4
  <2>10. \A t \in Slot \ {s, c} : slots'[t] = slots[t]
    BY <1>3, <2>4
  <2> QED
    BY <1>2, <1>5, <2>0, <2>2, <2>4, <2>7, <2>8, <2>9, <2>10
<1> QED
  BY <1>7, <1>8

\* A publication moves the queue's reference to the slot that was built.
LEMMA TickPublishesStep ==
    ASSUME Inv, NEW world \in SUBSET World, TickPublishes(world)
    PROVE  Inv'
<1> USE DEF Inv
<1>0. PICK s \in FreeSlots : s = LowestFree
  BY LowestFreeIsFree DEF TickPublishes
<1>1. s \in Slot /\ Readers(s) = {} /\ current # s /\ slots[s].refCount = 0
  BY FreeIsUnseen
<1>2. /\ nextId' = nextId + 1 /\ tick' = tick + 1 /\ tick < MaxTick /\ holds' = holds
  BY DEF TickPublishes
<1>3. slots' \in Pool /\ current' = s
  BY <1>0, PublishEffect
<1>4. slots'[s].refCount = 1 /\ slots'[s].inUse
  BY <1>0, PublishEffect
<1>5. slots'[s].buffer =
        [id |-> nextId, tick |-> tick + 1, state |-> "Finalized", world |-> world]
  BY <1>0, PublishEffect
<1>6. \A t \in Slot \ {s} : slots'[t].buffer = slots[t].buffer
  BY <1>0, PublishEffect
<1>7. \A t \in Slot \ {s, current} : slots'[t] = slots[t]
  BY <1>0, PublishEffect
<1>8. current # NoSlot =>
        /\ slots'[current].refCount = slots[current].refCount - 1
        /\ slots'[current].inUse <=> slots[current].refCount > 1
  BY <1>0, PublishEffect
<1>9. poolInUse' = Cardinality(InUse(slots'))
  BY <1>0, PublishEffect
<1>10. PoolAgrees' /\ poolInUse' \in 0..Capacity
  BY <1>9, InUseFinite DEF PoolAgrees, InUse
<1>11. TypeOK'
  BY <1>1, <1>2, <1>3, <1>10, TickAssumption DEF TypeOK, Pool
<1>12. CountsExact'
  <2> SUFFICES ASSUME NEW t \in Slot
               PROVE  /\ slots'[t].refCount = Cardinality(Readers(t)') + Publication(t)'
                      /\ slots'[t].inUse <=> slots'[t].refCount > 0
    BY DEF CountsExact
  <2>1. Readers(t)' = Readers(t) /\ Publication(t)' = IF t = s THEN 1 ELSE 0
    BY <1>2, <1>3 DEF Readers, Publication
  <2>2. slots[t].refCount = Cardinality(Readers(t)) + Publication(t)
        /\ (slots[t].inUse <=> slots[t].refCount > 0)
    BY DEF CountsExact
  <2>3. Cardinality(Readers(t)) \in Nat /\ slots[t].refCount \in Nat
    BY ReadersFinite DEF TypeOK
  <2>4. CASE t = s
    BY <1>1, <1>4, <2>1, <2>4, FS_EmptySet
  <2>5. CASE t # s /\ t = current
    <3>1. Publication(t) = 1 /\ current # NoSlot
      BY <2>5 DEF Publication, Slot, NoSlot
    <3>2. slots'[t].refCount = slots[t].refCount - 1
      BY <1>8, <2>5, <3>1
    <3>3. slots'[t].inUse <=> slots[t].refCount > 1
      BY <1>8, <2>5, <3>1
    <3> QED
      BY <2>1, <2>2, <2>3, <2>5, <3>1, <3>2, <3>3
  <2>6. CASE t # s /\ t # current
    <3>1. Publication(t) = 0 /\ slots'[t] = slots[t]
      BY <1>7, <2>6 DEF Publication
    <3> QED
      BY <2>1, <2>2, <2>6, <3>1
  <2> QED
    BY <2>4, <2>5, <2>6
<1>13. SeenAreSealed'
  <2> SUFFICES ASSUME NEW t \in Slot, current' = t \/ Readers(t)' # {}
               PROVE  slots'[t].buffer.state = "Finalized"
    BY DEF SeenAreSealed
  <2>1. Readers(t)' = Readers(t)
    BY <1>2 DEF Readers
  <2>2. CASE t = s
    BY <1>5, <2>2
  <2>3. CASE t # s
    BY <1>3, <1>6, <2>1, <2>3 DEF SeenAreSealed
  <2> QED
    BY <2>2, <2>3
<1>14. BuffersArePast'
  <2>1. slots'[s].buffer.id = nextId /\ slots'[s].buffer.tick = tick + 1
    BY <1>5
  <2> QED
    BY <1>2, <1>6, <2>1, TickAssumption DEF BuffersArePast, TypeOK, Buffer
<1> QED
  BY <1>10, <1>11, <1>12, <1>13, <1>14

---------------------------------------------------------------------------
(* The invariant, and what follows from it.                                *)

\* A reserved pool with nothing published satisfies the invariant.
LEMMA InitInv ==
    ASSUME Init
    PROVE  Inv
<1> USE DEF Init
<1>1. TypeOK
  <2>1. Free \in [refCount : Nat, inUse : BOOLEAN, buffer : Buffer]
    BY DEF Free, Blank, Buffer
  <2> QED
    BY <2>1, CapacityAssumption, TickAssumption DEF TypeOK, NoSlot
<1>2. \A s \in Slot : slots[s].refCount = 0 /\ ~slots[s].inUse /\ slots[s].buffer = Blank
  BY DEF Free
<1>3. \A s \in Slot : Readers(s) = {} /\ current # s
  BY DEF Readers, Slot, NoSlot
<1>4. CountsExact
  BY <1>2, <1>3, FS_EmptySet DEF CountsExact, Publication
<1>5. PoolAgrees
  <2>1. {s \in Slot : slots[s].inUse} = {}
    BY <1>2
  <2> QED
    BY <2>1, FS_EmptySet DEF PoolAgrees
<1>6. SeenAreSealed
  BY <1>3 DEF SeenAreSealed
<1>7. BuffersArePast
  BY <1>2 DEF BuffersArePast, Blank
<1> QED
  BY <1>1, <1>4, <1>5, <1>6, <1>7 DEF Inv

\* Every step preserves the invariant.
LEMMA NextInv ==
    ASSUME Inv, [Next]_vars
    PROVE  Inv'
<1>1. CASE TickExhausted
  <2>1. UNCHANGED <<slots, poolInUse, nextId, current, holds>>
        /\ tick' = tick + 1 /\ tick < MaxTick
    BY <1>1 DEF TickExhausted
  <2>2. tick \in Nat /\ \A s \in Slot : slots[s].buffer.tick \in Nat
    BY TickAssumption DEF Inv, TypeOK, Buffer
  <2>3. TypeOK'
    BY <2>1, <2>2, TickAssumption DEF Inv, TypeOK
  <2>4. CountsExact' /\ PoolAgrees' /\ SeenAreSealed'
    BY <2>1 DEF Inv, CountsExact, PoolAgrees, SeenAreSealed, Readers, Publication
  <2>5. BuffersArePast'
    BY <2>1, <2>2 DEF Inv, BuffersArePast
  <2> QED
    BY <2>3, <2>4, <2>5 DEF Inv
<1>2. ASSUME NEW world \in SUBSET World, TickAborts(world)
      PROVE  Inv'
  BY <1>2, TickAbortsStep
<1>3. ASSUME NEW world \in SUBSET World, TickPublishes(world)
      PROVE  Inv'
  BY <1>3, TickPublishesStep
<1>4. ASSUME NEW r \in Reader, Acquire(r)
      PROVE  Inv'
  BY <1>4, AcquireStep
<1>5. ASSUME NEW r \in Reader, Release(r)
      PROVE  Inv'
  BY <1>5, ReleaseStep
<1>6. CASE UNCHANGED vars
  BY <1>6 DEF vars, Inv, TypeOK, CountsExact, PoolAgrees, SeenAreSealed, BuffersArePast,
              Readers, Publication
<1> QED
  BY <1>1, <1>2, <1>3, <1>4, <1>5, <1>6 DEF Next

\* The invariant holds throughout.
LEMMA Invariance == Spec => []Inv
<1>1. Init => Inv
  BY InitInv
<1>2. Inv /\ [Next]_vars => Inv'
  BY NextInv
<1> QED
  BY <1>1, <1>2, PTL DEF Spec

\* The types of the pipeline's state, with the bound on the slots in use.
THEOREM TypeInvariant == Spec => []TypeOK
<1>1. Inv => TypeOK
  BY DEF Inv
<1> QED
  BY <1>1, Invariance, PTL

\* For every pool and every set of readers, the count of each buffer is exactly
\* the readers that hold it plus the publication (SnapshotPool, SnapshotQueue).
THEOREM ReferenceCounting == Spec => []CountsExact
<1>1. Inv => CountsExact
  BY DEF Inv
<1> QED
  BY <1>1, Invariance, PTL

\* What is published or held is sealed, never a build or what one left behind.
THEOREM OnlySealedIsSeen == Spec => []SeenAreSealed
<1>1. Inv => SeenAreSealed
  BY DEF Inv
<1> QED
  BY <1>1, Invariance, PTL

\* The published snapshot is replaced by later ones only, and is left as it is
\* by ticks that skip or abort and by the readers.
THEOREM Ascent == Spec => PublicationsAscend
<1> DEFINE Ascends ==
       current # NoSlot =>
        LET before == slots[current].buffer
            after  == slots'[current'].buffer
        IN  current' # NoSlot
            /\ IF current' = current
               THEN after = before
               ELSE after.id > before.id /\ after.tick > before.tick
<1>1. ASSUME Inv, Next, current # NoSlot
      PROVE  Ascends
  <2> USE DEF Inv
  <2>0. PICK c \in Slot : c = current
    BY <1>1 DEF TypeOK
  <2>1. ASSUME current' = current, slots'[c].buffer = slots[c].buffer
        PROVE  Ascends
    BY <2>0, <2>1, <1>1
  <2>2. CASE TickExhausted
    BY <2>1, <2>2 DEF TickExhausted
  <2>3. ASSUME NEW world \in SUBSET World, TickAborts(world)
        PROVE  Ascends
    <3>0. PICK s \in FreeSlots : s = LowestFree
      BY <2>3, LowestFreeIsFree DEF TickAborts
    <3>1. s \in Slot /\ c # s
      BY <1>1, <2>0, FreeIsUnseen
    <3>2. slots' = DropRef(Built(s, "Building", world), s) /\ current' = current
      BY <2>3, <3>0 DEF TickAborts
    <3>3. slots'[c] = slots[c]
      BY <1>1, <3>1, <3>2 DEF DropRef, Built, TypeOK
    <3> QED
      BY <2>1, <3>2, <3>3
  <2>4. ASSUME NEW world \in SUBSET World, TickPublishes(world)
        PROVE  Ascends
    <3>0. PICK s \in FreeSlots : s = LowestFree
      BY <2>4, LowestFreeIsFree DEF TickPublishes
    <3>1. s \in Slot /\ c # s
      BY <1>1, <2>0, FreeIsUnseen
    <3>2. current' = s
      BY <1>1, <2>4, <3>0, PublishEffect
    <3>3. slots'[s].buffer =
            [id |-> nextId, tick |-> tick + 1, state |-> "Finalized", world |-> world]
      BY <1>1, <2>4, <3>0, PublishEffect
    <3>4. slots[c].buffer.id < nextId /\ slots[c].buffer.tick <= tick
      BY <1>1 DEF BuffersArePast
    <3>5. slots[c].buffer.tick \in Nat /\ tick \in Nat
      BY <1>1, TickAssumption DEF TypeOK, Buffer
    <3> QED
      BY <2>0, <3>1, <3>2, <3>3, <3>4, <3>5 DEF Slot, NoSlot
  <2>5. ASSUME NEW r \in Reader, Acquire(r)
        PROVE  Ascends
    <3>1. slots' = AddRef(slots, c) /\ current' = current /\ slots \in Pool
      BY <1>1, <2>0, <2>5 DEF Acquire, TypeOK, Pool
    <3> QED
      BY <2>1, <3>1, AddRefEffect
  <2>6. ASSUME NEW r \in Reader, Release(r)
        PROVE  Ascends
    <3>1. PICK h \in Slot : h = holds[r]
      BY <1>1, <2>6 DEF Release, TypeOK
    <3>2. slots' = DropRef(slots, h) /\ current' = current /\ slots \in Pool
      BY <1>1, <2>6, <3>1 DEF Release, TypeOK, Pool
    <3>3. slots[h].refCount > 0
      BY <1>1, <3>1, SeenIsCounted DEF Readers
    <3> QED
      BY <2>1, <3>2, <3>3, DropRefEffect
  <2> QED
    BY <1>1, <2>2, <2>3, <2>4, <2>5, <2>6 DEF Next
<1>2. Inv /\ [Next]_vars => [Ascends]_vars
  BY <1>1
<1> QED
  BY <1>2, Invariance, PTL DEF Spec, PublicationsAscend

---------------------------------------------------------------------------
(* The refinement.                                                         *)

\* What the register of SnapshotRegister sees of a state.
Latest == IF current = NoSlot THEN Blank ELSE slots[current].buffer
Lease  == [r \in Reader |-> IF holds[r] = NoSlot THEN Blank ELSE slots[holds[r]].buffer]

\* A step that leaves the buffer of every seen slot alone, and the readers'
\* holdings, leaves every lease as it was.
LEMMA LeasesKept ==
    ASSUME TypeOK, holds' = holds,
           \A t \in Slot : Readers(t) # {} => slots'[t].buffer = slots[t].buffer
    PROVE  Lease' = Lease
<1>1. \A r \in Reader : holds[r] # NoSlot =>
        slots'[holds[r]].buffer = slots[holds[r]].buffer
  BY DEF TypeOK, Readers
<1> QED
  BY <1>1 DEF Lease

\* Each step of the pipeline is a step of the register or leaves it unchanged.
LEMMA StepRefines ==
    ASSUME Inv, [Next]_vars
    PROVE  [Register!Next]_(Register!registerVars)
<1> USE DEF Inv
<1>a. Latest' = Latest /\ Lease' = Lease => UNCHANGED Register!registerVars
  BY DEF Register!registerVars, Latest, Lease
<1>b. \/ Register!Publish(Latest')
      \/ \E r \in Reader : Register!Take(r) \/ Register!GiveBack(r)
      => Register!Next
  BY DEF Register!Next, Latest
<1>1. ASSUME TickExhausted
      PROVE  Latest' = Latest /\ Lease' = Lease
  BY <1>1 DEF TickExhausted, Latest, Lease
<1>2. ASSUME NEW world \in SUBSET World, TickAborts(world)
      PROVE  Latest' = Latest /\ Lease' = Lease
  <2>0. PICK s \in FreeSlots : s = LowestFree
    BY <1>2, LowestFreeIsFree DEF TickAborts
  <2>1. s \in Slot /\ Readers(s) = {} /\ current # s
    BY FreeIsUnseen
  <2>2. current' = current /\ holds' = holds
        /\ slots' = DropRef(Built(s, "Building", world), s)
    BY <1>2, <2>0 DEF TickAborts
  <2>3. \A t \in Slot \ {s} : slots'[t] = slots[t]
    BY <2>1, <2>2 DEF DropRef, Built, TypeOK
  <2>4. Latest' = Latest
    BY <2>1, <2>2, <2>3 DEF Latest, TypeOK
  <2>5. Lease' = Lease
    BY <2>1, <2>2, <2>3, LeasesKept
  <2> QED
    BY <2>4, <2>5
<1>3. ASSUME NEW world \in SUBSET World, TickPublishes(world)
      PROVE  Register!Publish(Latest')
  <2>0. PICK s \in FreeSlots : s = LowestFree
    BY <1>3, LowestFreeIsFree DEF TickPublishes
  <2>1. s \in Slot /\ Readers(s) = {}
    BY FreeIsUnseen
  <2>2. current' = s
    BY <1>3, <2>0, PublishEffect
  <2>3. \A t \in Slot \ {s} : slots'[t].buffer = slots[t].buffer
    BY <1>3, <2>0, PublishEffect
  <2>4. slots'[s].buffer =
          [id |-> nextId, tick |-> tick + 1, state |-> "Finalized", world |-> world]
    BY <1>3, <2>0, PublishEffect
  <2>5. Latest' # Blank
    BY <2>1, <2>2, <2>4 DEF Latest, Blank, Slot, NoSlot
  <2>6. Lease' = Lease
    BY <1>3, <2>1, <2>3, LeasesKept DEF TickPublishes
  <2> QED
    BY <2>5, <2>6 DEF Register!Publish, Latest, Lease
<1>4. ASSUME NEW r \in Reader, Acquire(r)
      PROVE  Register!Take(r)
  <2>0. PICK c \in Slot : c = current
    BY <1>4 DEF Acquire, TypeOK
  <2>1. /\ holds[r] = NoSlot /\ current # NoSlot /\ current' = current
        /\ slots' = AddRef(slots, c) /\ holds' = [holds EXCEPT ![r] = c]
    BY <1>4, <2>0 DEF Acquire
  <2>2. \A t \in Slot : slots'[t].buffer = slots[t].buffer
    BY <2>1, AddRefEffect DEF TypeOK, Pool
  <2>3. Latest = slots[c].buffer /\ Latest' = Latest
    BY <2>0, <2>1, <2>2 DEF Latest
  <2>4. Latest # Blank
    BY <2>0, <2>3 DEF SeenAreSealed, Blank
  <2>5. Lease[r] = Blank
    BY <2>1 DEF Lease
  <2>6. \A q \in Reader : Lease'[q] = IF q = r THEN Latest ELSE Lease[q]
    BY <2>0, <2>1, <2>2, <2>3 DEF Lease, TypeOK
  <2>7. Lease' = [Lease EXCEPT ![r] = Latest]
    BY <2>6 DEF Lease
  <2> QED
    BY <2>3, <2>4, <2>5, <2>7 DEF Register!Take, Latest, Lease
<1>5. ASSUME NEW r \in Reader, Release(r)
      PROVE  Register!GiveBack(r)
  <2>0. PICK h \in Slot : h = holds[r]
    BY <1>5 DEF Release, TypeOK
  <2>1. /\ holds[r] # NoSlot /\ current' = current
        /\ slots' = DropRef(slots, h) /\ holds' = [holds EXCEPT ![r] = NoSlot]
    BY <1>5, <2>0 DEF Release
  <2>2. Readers(h) # {}
    BY <2>0 DEF Readers
  <2>3. \A t \in Slot : slots'[t].buffer = slots[t].buffer
    BY <2>0, <2>1, <2>2, SeenIsCounted, DropRefEffect DEF TypeOK, Pool
  <2>4. Latest' = Latest
    BY <2>1, <2>3 DEF Latest, TypeOK
  <2>5. Lease[r] # Blank
    BY <2>0, <2>1, <2>2 DEF Lease, SeenAreSealed, Blank
  <2>6. \A q \in Reader : Lease'[q] = IF q = r THEN Blank ELSE Lease[q]
    BY <2>1, <2>3 DEF Lease, TypeOK
  <2>7. Lease' = [Lease EXCEPT ![r] = Blank]
    BY <2>6 DEF Lease
  <2> QED
    BY <2>4, <2>5, <2>7 DEF Register!GiveBack, Latest, Lease
<1>6. ASSUME UNCHANGED vars
      PROVE  Latest' = Latest /\ Lease' = Lease
  BY <1>6 DEF vars, Latest, Lease
<1> QED
  BY <1>a, <1>b, <1>1, <1>2, <1>3, <1>4, <1>5, <1>6 DEF Next

\* The pipeline implements the register: for every capacity of at least two and
\* every set of readers, what a reader acquired stays as it was until released.
THEOREM Refinement == Spec => ImplementsRegister
<1>1. Init => Register!Init
  BY DEF Init, Register!Init
<1>2. Inv /\ [Next]_vars => [Register!Next]_(Register!registerVars)
  BY StepRefines
<1> QED
  BY <1>1, <1>2, Invariance, PTL DEF Spec, ImplementsRegister, Register!Spec
=============================================================================
