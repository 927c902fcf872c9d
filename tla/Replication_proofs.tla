------------------------- MODULE Replication_proofs -------------------------
(***************************************************************************)
(* Proofs about Replication, for every set of connections, places and      *)
(* velocities and every setting: no acknowledgement is counted for another *)
(* client than its own, and a client no record of whose was left out knows *)
(* where its world is.                                                     *)
(***************************************************************************)
EXTENDS Replication, FiniteSetTheorems, SequenceTheorems, WellFoundedInduction, TLAPS

-----------------------------------------------------------------------------
(***************************************************************************)
(* One client's turn: what a packet says is what the baseline becomes.     *)
(***************************************************************************)

LEMMA EntitiesAreFinite ==
    ASSUME NEW S \in SUBSET Entity
    PROVE  IsFiniteSet(S) /\ Cardinality(S) \in Nat
<1>1. IsFiniteSet(Entity)
  BY BoundAssumption, FS_Interval DEF Entity
<1>2. IsFiniteSet(S)
  BY <1>1, FS_Subset
<1> QED
  BY <1>2, FS_CardinalityType

Enumerates(s, S) ==
    /\ s \in [1..Cardinality(S) -> S]
    /\ \A i, j \in DOMAIN s : i < j => s[i] < s[j]

\* By the size of the set: its greatest element comes last.
LEMMA AscendingExists ==
    ASSUME NEW S \in SUBSET Entity
    PROVE  \E s : Enumerates(s, S)
<1> DEFINE T == {n \in Nat : \E Q \in SUBSET Entity :
                    Cardinality(Q) = n /\ ~\E s : Enumerates(s, Q)}
           R == OpToRel(<, Nat)
<1>0. IsWellFoundedOn(R, Nat)
  BY NatLessThanWellFounded
<1>m. MaxEntity \in Nat
  BY BoundAssumption
<1>1. T = {}
  <2> SUFFICES ASSUME T # {} PROVE FALSE
    OBVIOUS
  <2>1. T \subseteq Nat
    OBVIOUS
  <2>2. PICK n \in T : \A m \in T : ~(<<m, n>> \in R)
    <3> HIDE DEF T, R
    <3> QED
      BY <1>0, <2>1, WFMin
  <2>3. PICK Q \in SUBSET Entity : Cardinality(Q) = n /\ ~\E s : Enumerates(s, Q)
    BY DEF T
  <2>4. IsFiniteSet(Q) /\ n \in Nat
    BY <2>3, EntitiesAreFinite
  <2>n. \A e \in Q : e \in Nat /\ 1 <= e /\ e <= MaxEntity
    BY <1>m DEF Entity
  <2>5. Q # {}
    <3> SUFFICES ASSUME Q = {} PROVE Enumerates([i \in {} |-> i], Q)
      BY <2>3
    <3>1. 1..Cardinality(Q) = {}
      BY FS_EmptySet
    <3> QED
      BY <3>1 DEF Enumerates
  <2>6. PICK top \in Q : \A e \in Q : e <= top
    <3> DEFINE below == {MaxEntity - e : e \in Q}
    <3>1. below \subseteq Nat /\ below # {}
      BY <1>m, <2>5, <2>n
    <3> HIDE DEF below, R
    <3>2. PICK k \in below : \A m \in below : ~(<<m, k>> \in R)
      BY <1>0, <3>1, WFMin
    <3>3. \A m \in below : ~(m < k)
      BY <3>1, <3>2 DEF R, OpToRel
    <3>4. PICK e \in Q : k = MaxEntity - e
      BY DEF below
    <3>5. \A d \in Q : ~(MaxEntity - d < MaxEntity - e)
      BY <3>3, <3>4 DEF below
    <3> QED
      BY <1>m, <2>n, <3>4, <3>5
  <2>7. /\ Q \ {top} \in SUBSET Entity /\ Cardinality(Q \ {top}) = n - 1
        /\ n - 1 \in Nat
    <3>1. Cardinality(Q \ {top}) = n - 1
      BY <2>3, <2>4, FS_RemoveElement
    <3>2. Cardinality(Q \ {top}) \in Nat
      BY EntitiesAreFinite
    <3> QED
      BY <3>1, <3>2
  <2>8. n - 1 \notin T
    <3>1. n - 1 < n
      BY <2>4
    <3> HIDE DEF T
    <3> QED
      BY <2>2, <2>4, <2>7, <3>1 DEF OpToRel
  <2>9. PICK s : Enumerates(s, Q \ {top})
    BY <2>7, <2>8
  <2> DEFINE q == [i \in 1..n |-> IF i = n THEN top ELSE s[i]]
  <2>10. s \in [1..(n - 1) -> Q \ {top}] /\ \A i, j \in 1..(n - 1) : i < j => s[i] < s[j]
    BY <2>7, <2>9 DEF Enumerates
  <2>11. q \in [1..n -> Q]
    BY <2>4, <2>10
  <2>12. ASSUME NEW i \in 1..n, NEW j \in 1..n, i < j PROVE q[i] < q[j]
    <3>1. i \in 1..(n - 1) /\ q[i] = s[i] /\ s[i] \in Q \ {top}
      BY <2>4, <2>10, <2>12
    <3>2. CASE j = n
      <4>1. s[i] <= top /\ s[i] # top /\ s[i] \in Int /\ top \in Int
        BY <2>6, <2>n, <3>1
      <4> QED
        BY <3>1, <3>2, <4>1
    <3>3. CASE j # n
      BY <2>4, <2>10, <2>12, <3>1, <3>3
    <3> QED
      BY <3>2, <3>3
  <2>13. Enumerates(q, Q)
    <3> HIDE DEF q
    <3> QED
      BY <2>3, <2>11, <2>12 DEF Enumerates
  <2> QED
    BY <2>3, <2>13
<1> QED
  BY <1>1, EntitiesAreFinite

LEMMA AscendingType ==
    ASSUME NEW S \in SUBSET Entity
    PROVE  /\ Ascending(S) \in [1..Cardinality(S) -> S]
           /\ \A e \in S : \E i \in 1..Cardinality(S) : Ascending(S)[i] = e
<1> DEFINE s == Ascending(S)
<1>1. Enumerates(s, S)
  BY AscendingExists DEF Ascending, Enumerates
<1> HIDE DEF s
<1>2. s \in [1..Cardinality(S) -> S] /\ Cardinality(S) \in Nat /\ IsFiniteSet(S)
  BY <1>1, EntitiesAreFinite DEF Enumerates
<1>3. s \in Injection(1..Cardinality(S), S)
  <2>0. \A e \in S : e \in Nat
    BY BoundAssumption DEF Entity
  <2>1. ASSUME NEW i \in 1..Cardinality(S), NEW j \in 1..Cardinality(S), i < j
        PROVE  s[i] # s[j]
    <3>1. s[i] < s[j] /\ s[i] \in Nat /\ s[j] \in Nat
      BY <1>1, <1>2, <2>0, <2>1 DEF Enumerates
    <3> QED
      BY <3>1
  <2>2. \A i, j \in 1..Cardinality(S) : i # j => i < j \/ j < i
    BY <1>2
  <2> QED
    BY <1>2, <2>1, <2>2 DEF Injection, IsInjective
<1>4. Cardinality(1..Cardinality(S)) = Cardinality(S)
  BY <1>2, FS_Interval
<1>5. s \in Surjection(1..Cardinality(S), S)
  BY <1>2, <1>3, <1>4, FS_Injection
<1> QED
  BY <1>2, <1>5 DEF s, Surjection

State == [place : Place, velocity : Velocity, version : Nat]
Record == [kind : {"EntityRemove", "EntitySpawn", "Position"}, entity : Entity,
           state : State \cup [version : {0}]]
IsBaseline(base) == base \in [DOMAIN base -> State] /\ DOMAIN base \in SUBSET Entity
IsCurrent(current) == current \in [DOMAIN current -> Tracked] /\ DOMAIN current \in SUBSET Entity

LEMMA NextBaselineType ==
    ASSUME NEW base, IsBaseline(base), NEW current, IsCurrent(current)
    PROVE  /\ IsBaseline(NextBaseline(base, current))
           /\ DOMAIN NextBaseline(base, current) = DOMAIN current
           /\ \A e \in DOMAIN current :
                 /\ NextBaseline(base, current)[e].place = current[e].place
                 /\ NextBaseline(base, current)[e].velocity = current[e].velocity
                 /\ NextBaseline(base, current)[e].version =
                       IF e \notin DOMAIN base THEN 1
                       ELSE IF Differs(base[e], current[e]) THEN base[e].version + 1
                       ELSE base[e].version
<1> DEFINE version(e) == IF e \in Added(base, current) THEN 1
                         ELSE base[e].version + (IF e \in Changed(base, current) THEN 1 ELSE 0)
<1>1. NextBaseline(base, current) =
         [e \in DOMAIN current |-> [place |-> current[e].place, velocity |-> current[e].velocity,
                                    version |-> version(e)]]
  BY DEF NextBaseline
<1>2. ASSUME NEW e \in DOMAIN current
      PROVE  /\ version(e) \in Nat
             /\ version(e) = IF e \notin DOMAIN base THEN 1
                             ELSE IF Differs(base[e], current[e]) THEN base[e].version + 1
                             ELSE base[e].version
  <2>1. e \in DOMAIN base => base[e].version \in Nat
    BY DEF IsBaseline, State
  <2>2. e \in Added(base, current) <=> e \notin DOMAIN base
    BY DEF Added
  <2>3. e \in DOMAIN base => (e \in Changed(base, current) <=> Differs(base[e], current[e]))
    BY DEF Changed
  <2> QED
    BY <2>1, <2>2, <2>3
<1> HIDE DEF version
<1>3. \A e \in DOMAIN current : current[e].place \in Place /\ current[e].velocity \in Velocity
  BY DEF IsCurrent, Tracked
<1>4. /\ DOMAIN NextBaseline(base, current) = DOMAIN current
      /\ \A e \in DOMAIN current :
            NextBaseline(base, current)[e] =
               [place |-> current[e].place, velocity |-> current[e].velocity,
                version |-> version(e)]
      /\ NextBaseline(base, current) =
            [e \in DOMAIN current |-> NextBaseline(base, current)[e]]
  BY <1>1
<1>5. \A e \in DOMAIN current : NextBaseline(base, current)[e] \in State
  BY <1>2, <1>3, <1>4 DEF State
<1>6. IsBaseline(NextBaseline(base, current))
  BY <1>4, <1>5 DEF IsBaseline, IsCurrent
<1> QED
  BY <1>2, <1>4, <1>6

Category(base, current, kind) ==
    [EntityRemove |-> Removed(base, current), EntitySpawn |-> Added(base, current),
     Position |-> Changed(base, current)][kind]

\* A batch has one record of every entity of its category, and no other.
LEMMA BatchType ==
    ASSUME NEW base, IsBaseline(base), NEW current, IsCurrent(current),
           NEW kind \in {"EntityRemove", "EntitySpawn", "Position"}
    PROVE  LET batch == Batch(base, current, kind)
               of    == Category(base, current, kind)
           IN  /\ batch \in Seq(Record) /\ Len(batch) = Cardinality(of) /\ Cardinality(of) \in Nat
               /\ \A i \in 1..Len(batch) :
                     /\ batch[i].kind = kind /\ batch[i].entity \in of
                     /\ kind # "EntityRemove" =>
                           batch[i].state = NextBaseline(base, current)[batch[i].entity]
               /\ \A e \in of : \E i \in 1..Len(batch) : batch[i].entity = e
<1> DEFINE of    == Category(base, current, kind)
           next  == NextBaseline(base, current)
           order == Ascending(of)
           n     == Cardinality(of)
           made(e) == [kind |-> kind, entity |-> e,
                       state |-> IF kind = "EntityRemove" THEN [version |-> 0] ELSE next[e]]
<1>1. of \in SUBSET Entity
  BY DEF Category, Removed, Added, Changed, IsBaseline, IsCurrent
<1>2. kind # "EntityRemove" => of \subseteq DOMAIN current
  BY DEF Category, Added, Changed
<1>3. Batch(base, current, kind) = [i \in 1..n |-> made(order[i])]
  BY DEF Batch, Category
<1>4. \A e \in DOMAIN current : next[e] \in State
  BY NextBaselineType DEF IsBaseline
<1> HIDE DEF of, next
<1>5. order \in [1..n -> of] /\ \A e \in of : \E i \in 1..n : order[i] = e
  BY <1>1, AscendingType
<1>6. n \in Nat
  BY <1>1, EntitiesAreFinite
<1> HIDE DEF order, n
<1>7. \A e \in of : made(e) \in Record
  BY <1>1, <1>2, <1>4 DEF Record
<1>8. \A e \in of : /\ made(e).kind = kind /\ made(e).entity = e
                     /\ kind # "EntityRemove" => made(e).state = next[e]
  OBVIOUS
<1> HIDE DEF made
<1> DEFINE batch == [i \in 1..n |-> made(order[i])]
<1>9. batch \in [1..n -> Record]
  BY <1>5, <1>7
<1>10. batch \in Seq(Record) /\ Len(batch) = n
  BY <1>6, <1>9
<1>11. \A i \in 1..n : batch[i] = made(order[i]) /\ order[i] \in of
  BY <1>5
<1>12. Batch(base, current, kind) = batch
  BY <1>3
<1> HIDE DEF batch
<1>13. ASSUME NEW i \in 1..n
       PROVE  /\ batch[i].kind = kind /\ batch[i].entity = order[i] /\ order[i] \in of
              /\ kind # "EntityRemove" => batch[i].state = next[batch[i].entity]
  <2>1. batch[i] = made(order[i]) /\ order[i] \in of
    BY <1>11
  <2>2. /\ made(order[i]).kind = kind /\ made(order[i]).entity = order[i]
        /\ kind # "EntityRemove" => made(order[i]).state = next[order[i]]
    BY DEF made
  <2> QED
    BY <2>1, <2>2
<1>14. ASSUME NEW e \in of PROVE \E i \in 1..n : batch[i].entity = e
  <2>1. PICK i \in 1..n : order[i] = e
    BY <1>5
  <2> QED
    BY <2>1, <1>13
<1>15. n = Cardinality(of)
  BY DEF n
<1>16. /\ batch \in Seq(Record) /\ Len(batch) = Cardinality(of) /\ Cardinality(of) \in Nat
       /\ \A i \in 1..Len(batch) :
             /\ batch[i].kind = kind /\ batch[i].entity \in of
             /\ kind # "EntityRemove" => batch[i].state = next[batch[i].entity]
       /\ \A e \in of : \E i \in 1..Len(batch) : batch[i].entity = e
  BY <1>6, <1>10, <1>13, <1>14, <1>15
<1> QED
  BY <1>12, <1>16 DEF of, next

LEMMA PrefixType ==
    ASSUME NEW S, NEW s \in Seq(S), NEW n \in Nat
    PROVE  /\ Prefix(s, n) \in Seq(S)
           /\ Len(Prefix(s, n)) \in Nat /\ Len(Prefix(s, n)) <= Len(s) /\ Len(Prefix(s, n)) <= n
           /\ Len(Prefix(s, n)) = Len(s) => Prefix(s, n) = s
<1> DEFINE m == IF Len(s) < n THEN Len(s) ELSE n
<1>1. Len(s) \in Nat /\ m \in Nat /\ m <= Len(s) /\ m <= n
  BY LenProperties
<1> HIDE DEF m
<1>2. \A i \in 1..m : s[i] \in S
  BY <1>1, ElementOfSeq
<1>3. /\ SubSeq(s, 1, m) \in Seq(S)
      /\ Len(SubSeq(s, 1, m)) = IF 1 <= m THEN m - 1 + 1 ELSE 0
  BY <1>1, <1>2, SubSeqProperties
<1>4. Len(SubSeq(s, 1, m)) = m
  BY <1>1, <1>3
<1>5. SubSeq(s, 1, Len(s)) = s
  BY SubSeqFull
<1>6. Prefix(s, n) = SubSeq(s, 1, m)
  BY DEF Prefix, Least, m
<1> QED
  BY <1>1, <1>3, <1>4, <1>5, <1>6

LEMMA RoomType == Room \in Nat
<1> DEFINE empty == HeaderBytes + ChecksumBytes
           cap   == Least(MaxEntitiesPerUpdate, MaxRecords)
           fit   == (BandwidthBudget - empty) \div RecordBytes
<1>1. cap \in Nat
  BY ConfigurationAssumption DEF Least, MaxRecords
<1>2. BandwidthBudget \in Nat /\ empty = 25
  BY ConfigurationAssumption DEF HeaderBytes, ChecksumBytes
<1>3. ~(BandwidthBudget < empty) => fit \in Nat
  <2>1. \A x \in Nat : x \div 26 \in Nat
    OBVIOUS
  <2>2. ~(BandwidthBudget < empty) => BandwidthBudget - empty \in Nat
    BY <1>2
  <2> HIDE DEF empty
  <2> QED
    BY <2>1, <2>2 DEF RecordBytes
<1>4. Room = IF BandwidthBudget = 0 THEN cap
             ELSE IF BandwidthBudget < empty THEN 0 ELSE Least(fit, cap)
  BY DEF Room
<1> HIDE DEF empty, cap, fit
<1> QED
  BY <1>1, <1>3, <1>4 DEF Least

\* What the queues are offered: removals and spawns in one, movements in the other.
LEMMA RoutedType ==
    ASSUME NEW base, IsBaseline(base), NEW current, IsCurrent(current)
    PROVE  /\ Routed(base, current, "Reliable") =
                 Batch(base, current, "EntityRemove") \o Batch(base, current, "EntitySpawn")
           /\ Routed(base, current, "Unreliable") = Batch(base, current, "Position")
           /\ Routed(base, current, "Reliable") \in Seq(Record)
           /\ Routed(base, current, "Unreliable") \in Seq(Record)
           /\ Len(Routed(base, current, "Reliable")) + Len(Routed(base, current, "Unreliable"))
                 = Due(base, current)
           /\ Len(Routed(base, current, "Reliable")) \in Nat
           /\ Len(Routed(base, current, "Unreliable")) \in Nat
<1> DEFINE removed == Batch(base, current, "EntityRemove")
           added   == Batch(base, current, "EntitySpawn")
           changed == Batch(base, current, "Position")
<1>1. /\ Reliability("EntityRemove") = "Reliable" /\ Reliability("EntitySpawn") = "Reliable"
      /\ Reliability("Position") = "Unreliable"
  BY DEF Reliability
<1>2. /\ Routed(base, current, "Reliable") = removed \o added \o <<>>
      /\ Routed(base, current, "Unreliable") = <<>> \o <<>> \o changed
  BY <1>1 DEF Routed
<1>3. removed \in Seq(Record) /\ added \in Seq(Record) /\ changed \in Seq(Record)
  BY BatchType
<1>4. /\ Len(removed) = Cardinality(Removed(base, current)) /\ Len(removed) \in Nat
      /\ Len(added) = Cardinality(Added(base, current)) /\ Len(added) \in Nat
      /\ Len(changed) = Cardinality(Changed(base, current)) /\ Len(changed) \in Nat
  BY BatchType DEF Category
<1> HIDE DEF removed, added, changed
<1>5. /\ removed \o added \in Seq(Record)
      /\ Len(removed \o added) = Len(removed) + Len(added)
  BY <1>3, ConcatProperties
<1>6. removed \o added \o <<>> = removed \o added
  BY <1>5, ConcatEmptySeq
<1>7. <<>> \o <<>> \o changed = changed
  <2>1. <<>> \in Seq(Record)
    BY EmptySeq
  <2>2. <<>> \o <<>> = <<>>
    BY <2>1, ConcatEmptySeq
  <2> QED
    BY <1>3, <2>2, ConcatEmptySeq
<1> DEFINE reliable   == Routed(base, current, "Reliable")
           unreliable == Routed(base, current, "Unreliable")
<1>8. reliable = removed \o added /\ unreliable = changed
  BY <1>2, <1>6, <1>7
<1>9. Due(base, current) = Len(removed) + Len(added) + Len(changed)
  BY <1>4 DEF Due
<1> HIDE DEF reliable, unreliable
<1>10. /\ reliable \in Seq(Record) /\ unreliable \in Seq(Record)
       /\ Len(reliable) = Len(removed) + Len(added) /\ Len(unreliable) = Len(changed)
  BY <1>3, <1>5, <1>8
<1>11. /\ Len(reliable) + Len(unreliable) = Due(base, current)
       /\ Len(reliable) \in Nat /\ Len(unreliable) \in Nat
  BY <1>4, <1>9, <1>10
<1> QED
  BY <1>8, <1>10, <1>11 DEF removed, added, changed, reliable, unreliable

\* Writing records to a packet leaves none out.
LEMMA WrittenType ==
    ASSUME NEW s \in Seq(Record)
    PROVE  /\ DOMAIN Written(s) = DOMAIN s /\ Len(Written(s)) = Len(s)
           /\ \A i \in DOMAIN s :
                 /\ Written(s)[i].kind = s[i].kind /\ Written(s)[i].entity = s[i].entity
                 /\ s[i].kind # "EntityRemove" => Written(s)[i].state = OnWire(s[i].state)
<1>1. DOMAIN s = 1..Len(s) /\ Len(s) \in Nat
  BY LenProperties
<1>2. Written(s) = [i \in 1..Len(s) |-> Written(s)[i]] /\ DOMAIN Written(s) = 1..Len(s)
  BY <1>1 DEF Written
<1>3. Len(Written(s)) = Len(s)
  BY <1>1, <1>2
<1>4. ASSUME NEW i \in DOMAIN s
      PROVE  /\ Written(s)[i].kind = s[i].kind /\ Written(s)[i].entity = s[i].entity
             /\ s[i].kind # "EntityRemove" => Written(s)[i].state = OnWire(s[i].state)
  <2>1. s[i] \in Record
    BY <1>1, ElementOfSeq
  <2>2. Written(s)[i] = IF s[i].kind = "EntityRemove" THEN s[i]
                        ELSE [s[i] EXCEPT !.state = OnWire(@)]
    BY DEF Written
  <2> QED
    BY <2>1, <2>2 DEF Record
<1> QED
  BY <1>1, <1>2, <1>3, <1>4

\* A turn that left no record out has sent all three batches.
LEMMA WholePackets ==
    ASSUME NEW base, IsBaseline(base), NEW current, IsCurrent(current),
           ~(Len(Packets(base, current)) < Due(base, current))
    PROVE  Packets(base, current) =
               Written(Batch(base, current, "EntityRemove") \o Batch(base, current, "EntitySpawn")
                          \o Batch(base, current, "Position"))
<1> DEFINE reliable   == Routed(base, current, "Reliable")
           unreliable == Routed(base, current, "Unreliable")
           rq == Prefix(reliable, ReliableQueueDepth)
           uq == Prefix(unreliable, UnreliableQueueDepth)
           rp == Prefix(rq, Room)
           up == Prefix(uq, Room)
<1>1. /\ reliable \in Seq(Record) /\ unreliable \in Seq(Record)
      /\ Len(reliable) + Len(unreliable) = Due(base, current)
      /\ Len(reliable) \in Nat /\ Len(unreliable) \in Nat
  BY RoutedType
<1>2. Packets(base, current) = Written(rp \o up)
  BY DEF Packets, Enqueued
<1> HIDE DEF reliable, unreliable
<1>3. ReliableQueueDepth \in Nat /\ UnreliableQueueDepth \in Nat /\ Room \in Nat
  BY ConfigurationAssumption, RoomType
<1>4. /\ rq \in Seq(Record) /\ Len(rq) \in Nat /\ Len(rq) <= Len(reliable)
      /\ Len(rq) = Len(reliable) => rq = reliable
      /\ uq \in Seq(Record) /\ Len(uq) \in Nat /\ Len(uq) <= Len(unreliable)
      /\ Len(uq) = Len(unreliable) => uq = unreliable
  BY <1>1, <1>3, PrefixType
<1> HIDE DEF rq, uq
<1>5. /\ rp \in Seq(Record) /\ Len(rp) \in Nat /\ Len(rp) <= Len(rq)
      /\ Len(rp) = Len(rq) => rp = rq
      /\ up \in Seq(Record) /\ Len(up) \in Nat /\ Len(up) <= Len(uq)
      /\ Len(up) = Len(uq) => up = uq
  BY <1>3, <1>4, PrefixType
<1> HIDE DEF rp, up
<1>6. Len(Written(rp \o up)) = Len(rp) + Len(up)
  <2>1. rp \o up \in Seq(Record) /\ Len(rp \o up) = Len(rp) + Len(up)
    BY <1>5, ConcatProperties
  <2> QED
    BY <2>1, WrittenType
<1>7. rp = reliable /\ up = unreliable
  BY <1>1, <1>2, <1>4, <1>5, <1>6
<1> QED
  BY <1>2, <1>7, RoutedType DEF reliable, unreliable

\* The places of w are those of the three lists, each of them met.
Holds(w, t, u, v) ==
    /\ \A k \in DOMAIN w : \/ \E i \in 1..Len(t) : w[k] = t[i]
                           \/ \E i \in 1..Len(u) : w[k] = u[i]
                           \/ \E i \in 1..Len(v) : w[k] = v[i]
    /\ \A i \in 1..Len(t) : \E k \in DOMAIN w : w[k] = t[i]
    /\ \A i \in 1..Len(u) : \E k \in DOMAIN w : w[k] = u[i]
    /\ \A i \in 1..Len(v) : \E k \in DOMAIN w : w[k] = v[i]

LEMMA ThreeInARow ==
    ASSUME NEW S, NEW t \in Seq(S), NEW u \in Seq(S), NEW v \in Seq(S)
    PROVE  Holds(t \o u \o v, t, u, v)
<1> DEFINE tu == t \o u
           m  == Len(t)
           n  == Len(u)
           l  == Len(v)
<1>1. m \in Nat /\ n \in Nat /\ l \in Nat
  BY LenProperties
<1>2. /\ tu \in Seq(S) /\ Len(tu) = m + n
      /\ \A k \in 1..(m + n) : tu[k] = IF k <= m THEN t[k] ELSE u[k - m]
  BY ConcatProperties
<1> HIDE DEF tu
<1> DEFINE w == tu \o v
<1>3. /\ w \in Seq(S) /\ Len(w) = m + n + l
      /\ \A k \in 1..(m + n + l) : w[k] = IF k <= m + n THEN tu[k] ELSE v[k - (m + n)]
  <2>1. /\ w \in Seq(S) /\ Len(w) = Len(tu) + l
        /\ \A k \in 1..(Len(tu) + l) : w[k] = IF k <= Len(tu) THEN tu[k] ELSE v[k - Len(tu)]
    <3>1. tu \in Seq(S) /\ v \in Seq(S)
      BY <1>2
    <3> QED
      BY <3>1, ConcatProperties
  <2> HIDE DEF w, m, n, l
  <2> QED
    BY <1>2, <2>1
<1>4. DOMAIN w = 1..(m + n + l)
  BY <1>3, LenProperties
<1> HIDE DEF w, m, n, l
<1>5. ASSUME NEW k \in 1..(m + n + l)
      PROVE  \/ \E i \in 1..m : w[k] = t[i]
             \/ \E i \in 1..n : w[k] = u[i]
             \/ \E i \in 1..l : w[k] = v[i]
  <2>1. CASE k <= m
    <3>1. k \in 1..m /\ k \in 1..(m + n) /\ k <= m + n
      BY <1>1, <2>1
    <3>2. w[k] = tu[k] /\ tu[k] = t[k]
      BY <1>2, <1>3, <2>1, <3>1
    <3> QED
      BY <3>1, <3>2
  <2>2. CASE m < k /\ k <= m + n
    <3>1. k - m \in 1..n /\ k \in 1..(m + n) /\ ~(k <= m)
      BY <1>1, <2>2
    <3>2. w[k] = tu[k] /\ tu[k] = u[k - m]
      BY <1>2, <1>3, <2>2, <3>1
    <3> QED
      BY <3>1, <3>2
  <2>3. CASE m + n < k
    <3>1. k - (m + n) \in 1..l /\ ~(k <= m + n)
      BY <1>1, <2>3
    <3>2. w[k] = v[k - (m + n)]
      BY <1>3, <3>1
    <3> QED
      BY <3>1, <3>2
  <2> QED
    BY <1>1, <2>1, <2>2, <2>3
<1>6. ASSUME NEW i \in 1..m PROVE i \in 1..(m + n + l) /\ w[i] = t[i]
  <2>1. /\ i \in 1..(m + n) /\ i <= m
        /\ i \in 1..(m + n + l) /\ i <= m + n
    BY <1>1
  <2> QED
    BY <1>2, <1>3, <2>1
<1>7. ASSUME NEW i \in 1..n PROVE m + i \in 1..(m + n + l) /\ w[m + i] = u[i]
  <2>1. /\ m + i \in 1..(m + n) /\ ~(m + i <= m) /\ (m + i) - m = i
        /\ m + i \in 1..(m + n + l) /\ m + i <= m + n
    BY <1>1
  <2> QED
    BY <1>2, <1>3, <2>1
<1>8. ASSUME NEW i \in 1..l PROVE m + n + i \in 1..(m + n + l) /\ w[m + n + i] = v[i]
  <2>1. /\ m + n + i \in 1..(m + n + l) /\ ~(m + n + i <= m + n)
        /\ (m + n + i) - (m + n) = i
    BY <1>1
  <2> QED
    BY <1>3, <2>1
<1> QED
  <2>1. m = Len(t) /\ n = Len(u) /\ l = Len(v)
    BY DEF m, n, l
  <2>2. Holds(w, t, u, v)
    BY <1>4, <1>5, <1>6, <1>7, <1>8, <2>1 DEF Holds
  <2> QED
    BY <2>2 DEF w, tu

\* A client that held the baseline and applies a whole turn's records holds the next one.
LEMMA AppliedIsNext ==
    ASSUME NEW base, IsBaseline(base), NEW current, IsCurrent(current),
           ~(Len(Packets(base, current)) < Due(base, current))
    PROVE  Applied(Seen(base), Packets(base, current)) = Seen(NextBaseline(base, current))
<1> DEFINE r == Batch(base, current, "EntityRemove")
           a == Batch(base, current, "EntitySpawn")
           c == Batch(base, current, "Position")
           next   == NextBaseline(base, current)
           gone   == Removed(base, current)
           fresh  == Added(base, current)
           moved  == Changed(base, current)
           offer  == r \o a \o c
           packet == Packets(base, current)
<1>1. packet = Written(offer)
  BY WholePackets
<1>2. /\ r \in Seq(Record)
      /\ \A i \in 1..Len(r) : r[i].kind = "EntityRemove" /\ r[i].entity \in gone
      /\ \A e \in gone : \E i \in 1..Len(r) : r[i].entity = e
  BY BatchType DEF Category
<1>3. /\ a \in Seq(Record)
      /\ \A i \in 1..Len(a) : /\ a[i].kind # "EntityRemove" /\ a[i].entity \in fresh
                              /\ a[i].state = next[a[i].entity]
      /\ \A e \in fresh : \E i \in 1..Len(a) : a[i].entity = e
  <2>1. "EntitySpawn" # "EntityRemove"
    OBVIOUS
  <2> QED
    BY <2>1, BatchType DEF Category
<1>4. /\ c \in Seq(Record)
      /\ \A i \in 1..Len(c) : /\ c[i].kind # "EntityRemove" /\ c[i].entity \in moved
                              /\ c[i].state = next[c[i].entity]
      /\ \A e \in moved : \E i \in 1..Len(c) : c[i].entity = e
  <2>1. "Position" # "EntityRemove"
    OBVIOUS
  <2> QED
    BY <2>1, BatchType DEF Category
<1>5. /\ gone = DOMAIN base \ DOMAIN current /\ fresh = DOMAIN current \ DOMAIN base
      /\ moved = {e \in DOMAIN current \cap DOMAIN base : Differs(base[e], current[e])}
  BY DEF Removed, Added, Changed
<1>6. /\ next = [e \in DOMAIN current |-> next[e]]
      /\ \A e \in DOMAIN current : next[e].place = current[e].place
      /\ \A e \in DOMAIN current \ (fresh \cup moved) : next[e].version = base[e].version
  <2>1. next = [e \in DOMAIN current |-> next[e]]
    BY DEF NextBaseline
  <2> QED
    BY <1>5, <2>1, NextBaselineType DEF IsBaseline
<1> HIDE DEF r, a, c, next, gone, fresh, moved, packet, offer
<1>7. /\ DOMAIN packet = DOMAIN offer
      /\ \A k \in DOMAIN offer :
            /\ packet[k].kind = offer[k].kind /\ packet[k].entity = offer[k].entity
            /\ offer[k].kind # "EntityRemove" => packet[k].state = OnWire(offer[k].state)
  <2>1. offer \in Seq(Record)
    <3>1. r \o a \in Seq(Record) /\ c \in Seq(Record)
      BY <1>2, <1>3, <1>4, ConcatProperties
    <3> QED
      BY <3>1, ConcatProperties DEF offer
  <2> QED
    BY <1>1, <2>1, WrittenType
<1>8. /\ \A k \in DOMAIN offer : \/ \E i \in 1..Len(r) : offer[k] = r[i]
                                 \/ \E i \in 1..Len(a) : offer[k] = a[i]
                                 \/ \E i \in 1..Len(c) : offer[k] = c[i]
      /\ \A i \in 1..Len(r) : \E k \in DOMAIN offer : offer[k] = r[i]
      /\ \A i \in 1..Len(a) : \E k \in DOMAIN offer : offer[k] = a[i]
      /\ \A i \in 1..Len(c) : \E k \in DOMAIN offer : offer[k] = c[i]
  <2>1. r \in Seq(Record) /\ a \in Seq(Record) /\ c \in Seq(Record)
    BY <1>2, <1>3, <1>4
  <2> DEFINE w == r \o a \o c
  <2>2. Holds(w, r, a, c)
    BY <2>1, ThreeInARow
  <2>3. offer = w
    BY DEF offer
  <2> HIDE DEF w
  <2> QED
    BY <2>2, <2>3 DEF Holds
<1> DEFINE Of(e) == {k \in DOMAIN packet : packet[k].entity = e}
           erased == {e \in DOMAIN Seen(base) : \E k \in Of(e) : packet[k].kind = "EntityRemove"}
           told   == {packet[k].entity :
                        k \in {j \in DOMAIN packet : packet[j].kind # "EntityRemove"}}
<1>9. \A k \in DOMAIN packet :
         \/ packet[k].kind = "EntityRemove" /\ packet[k].entity \in gone
         \/ /\ packet[k].kind # "EntityRemove" /\ packet[k].entity \in fresh \cup moved
            /\ packet[k].state = OnWire(next[packet[k].entity])
  <2> SUFFICES ASSUME NEW k \in DOMAIN packet
               PROVE  \/ packet[k].kind = "EntityRemove" /\ packet[k].entity \in gone
                      \/ /\ packet[k].kind # "EntityRemove"
                         /\ packet[k].entity \in fresh \cup moved
                         /\ packet[k].state = OnWire(next[packet[k].entity])
    OBVIOUS
  <2>1. CASE \E i \in 1..Len(r) : offer[k] = r[i]
    BY <1>2, <1>7, <2>1
  <2>2. CASE \E i \in 1..Len(a) : offer[k] = a[i]
    BY <1>3, <1>7, <2>2
  <2>3. CASE \E i \in 1..Len(c) : offer[k] = c[i]
    BY <1>4, <1>7, <2>3
  <2> QED
    BY <1>7, <1>8, <2>1, <2>2, <2>3
<1>10. \A e \in gone : \E k \in DOMAIN packet :
          packet[k].kind = "EntityRemove" /\ packet[k].entity = e
  BY <1>2, <1>7, <1>8
<1>11. \A e \in fresh \cup moved : \E k \in DOMAIN packet :
          packet[k].kind # "EntityRemove" /\ packet[k].entity = e
  <2> SUFFICES ASSUME NEW e \in fresh \cup moved
               PROVE  \E k \in DOMAIN packet :
                         packet[k].kind # "EntityRemove" /\ packet[k].entity = e
    OBVIOUS
  <2>1. CASE e \in fresh
    <3>1. PICK i \in 1..Len(a) : a[i].entity = e
      BY <1>3, <2>1
    <3>2. PICK k \in DOMAIN offer : offer[k] = a[i]
      BY <1>8
    <3> QED
      BY <1>3, <1>7, <3>1, <3>2
  <2>2. CASE e \in moved
    <3>1. PICK i \in 1..Len(c) : c[i].entity = e
      BY <1>4, <2>2
    <3>2. PICK k \in DOMAIN offer : offer[k] = c[i]
      BY <1>8
    <3> QED
      BY <1>4, <1>7, <3>1, <3>2
  <2> QED
    BY <2>1, <2>2
<1>12. gone \cap (fresh \cup moved) = {} /\ gone \subseteq DOMAIN base
  BY <1>5
<1>s. DOMAIN Seen(base) = DOMAIN base /\ \A e \in DOMAIN base : Seen(base)[e] = OnWire(base[e])
  BY DEF Seen
<1>13. erased = gone /\ told = fresh \cup moved
  BY <1>s, <1>9, <1>10, <1>11, <1>12
<1>14. (DOMAIN Seen(base) \ erased) \cup told = DOMAIN current
  BY <1>s, <1>5, <1>13
<1>15. ASSUME NEW e \in DOMAIN current, e \in told
       PROVE  packet[CHOOSE k \in Of(e) : TRUE].state = OnWire(next[e])
  <2>1. Of(e) # {}
    BY <1>11, <1>13, <1>15
  <2>2. \A k \in Of(e) : packet[k].state = OnWire(next[e])
    BY <1>9, <1>12, <1>13, <1>15
  <2> HIDE DEF Of
  <2> QED
    BY <2>1, <2>2
<1>16. ASSUME NEW e \in DOMAIN current, e \notin told PROVE Seen(base)[e] = OnWire(next[e])
  <2>1. e \in DOMAIN base /\ base[e].place = current[e].place /\ next[e].version = base[e].version
    BY <1>5, <1>6, <1>13, <1>16 DEF Differs
  <2> QED
    BY <1>s, <1>6, <2>1 DEF OnWire
<1>17. Applied(Seen(base), packet) =
          [e \in (DOMAIN Seen(base) \ erased) \cup told |->
             IF e \in told THEN packet[CHOOSE k \in Of(e) : TRUE].state ELSE Seen(base)[e]]
  BY DEF Applied
<1> HIDE DEF Of, erased, told
<1>18. Applied(Seen(base), packet) =
          [e \in DOMAIN current |->
             IF e \in told THEN packet[CHOOSE k \in Of(e) : TRUE].state ELSE Seen(base)[e]]
  BY <1>14, <1>17
<1>19. Applied(Seen(base), packet) = [e \in DOMAIN current |-> OnWire(next[e])]
  BY <1>15, <1>16, <1>18
<1>20. Seen(next) = [e \in DOMAIN current |-> OnWire(next[e])]
  BY <1>6 DEF Seen
<1> QED
  BY <1>19, <1>20 DEF next, packet

-----------------------------------------------------------------------------
(***************************************************************************)
(* The client registry and its acknowledgements.                           *)
(***************************************************************************)

\* The client registry: records of registered ids, all of them given out before.
\* Every acknowledgement under way names such an id, and its client, while it is
\* registered, has said it.
RegistryInv ==
    /\ nextClientId \in 1..(MaxRegistrations + 1)
    /\ DOMAIN clients \subseteq 1..(nextClientId - 1)
    /\ \A id \in DOMAIN clients : clients[id] \in Client
    /\ acks \subseteq Ack /\ DOMAIN said = DOMAIN clients
    /\ \A ack \in acks : /\ ack.client < nextClientId
                         /\ ack.client \in DOMAIN clients => ack.id \in said[ack.client]
    /\ AcksAreTheirClients

\* The operations of ReplicationClientRegistry and the network, each on its own.
LEMMA RegisterEffect ==
    ASSUME RegistryInv, NEW c \in Connection, NEW focus \in Place, Register(c, focus)
    PROVE  RegistryInv'
<1> DEFINE new == [connection |-> c, focus |-> focus, acked |-> 0]
<1>1. /\ clients' = [id \in DOMAIN clients \cup {nextClientId} |->
                        IF id = nextClientId THEN new ELSE clients[id]]
      /\ said' = [id \in DOMAIN said \cup {nextClientId} |->
                     IF id = nextClientId THEN {} ELSE said[id]]
      /\ nextClientId' = nextClientId + 1 /\ acks' = acks
  BY DEF Register, FreshId, Put
<1>2. new \in Client /\ new.acked = 0
  BY BoundAssumption DEF Client
<1>3. nextClientId \in Nat /\ nextClientId \notin DOMAIN clients
  BY BoundAssumption DEF RegistryInv
<1> HIDE DEF new
<1>4. DOMAIN clients' \subseteq 1..(nextClientId' - 1)
  BY <1>1 DEF RegistryInv
<1>5. nextClientId' \in 1..(MaxRegistrations + 1)
  BY <1>1, BoundAssumption DEF RegistryInv, Register
<1>6. ASSUME NEW ack \in acks'
      PROVE  /\ ack.client < nextClientId'
             /\ ack.client \in DOMAIN clients' => ack.id \in said'[ack.client]
  <2>1. /\ ack.client < nextClientId /\ ack.client \in Nat
        /\ ack.client \in DOMAIN clients => ack.id \in said[ack.client]
    BY <1>1, <1>6, BoundAssumption DEF RegistryInv, Ack, ClientId
  <2>2. ack.client # nextClientId /\ ack.client < nextClientId'
    BY <1>1, <1>3, <2>1
  <2> QED
    BY <1>1, <2>1, <2>2 DEF RegistryInv
<1>7. AcksAreTheirClients'
  <2> SUFFICES ASSUME NEW id \in DOMAIN clients'
               PROVE  clients'[id].acked \in {0} \cup said'[id]
    BY DEF AcksAreTheirClients
  <2>1. CASE id = nextClientId
    BY <1>1, <1>2, <2>1
  <2>2. CASE id # nextClientId
    BY <1>1, <2>2 DEF RegistryInv, AcksAreTheirClients
  <2> QED
    BY <2>1, <2>2
<1>8. acks' \subseteq Ack /\ DOMAIN said' = DOMAIN clients'
  BY <1>1 DEF RegistryInv
<1>9. \A id \in DOMAIN clients' : clients'[id] \in Client
  BY <1>1, <1>2 DEF RegistryInv
<1> QED
  BY <1>4, <1>5, <1>6, <1>7, <1>8, <1>9 DEF RegistryInv

LEMMA UnregisterEffect ==
    ASSUME RegistryInv, NEW gone \in DOMAIN clients, Unregister(gone)
    PROVE  RegistryInv'
<1>1. /\ clients' = [id \in DOMAIN clients \ {gone} |-> clients[id]]
      /\ said' = [id \in DOMAIN said \ {gone} |-> said[id]]
      /\ nextClientId' = nextClientId /\ acks' = acks
  BY DEF Unregister, Erase
<1> QED
  BY <1>1 DEF RegistryInv, AcksAreTheirClients

LEMMA UpdateFocusEffect ==
    ASSUME RegistryInv, NEW of \in DOMAIN clients, NEW focus \in Place,
           UpdateFocus(of, focus)
    PROVE  RegistryInv'
<1>1. /\ clients' = [clients EXCEPT ![of].focus = focus]
      /\ nextClientId' = nextClientId /\ acks' = acks /\ said' = said
  BY DEF UpdateFocus, ackVars
<1>2. \A id \in DOMAIN clients : clients[id] \in Client
  BY DEF RegistryInv
<1>3. /\ DOMAIN clients' = DOMAIN clients
      /\ \A id \in DOMAIN clients : id # of => clients'[id] = clients[id]
      /\ clients'[of] = [clients[of] EXCEPT !.focus = focus]
  BY <1>1
<1>4. clients'[of] \in Client /\ clients'[of].acked = clients[of].acked
  BY <1>2, <1>3 DEF Client
<1>5. /\ \A id \in DOMAIN clients' : clients'[id] \in Client
      /\ \A id \in DOMAIN clients' : clients'[id].acked = clients[id].acked
  BY <1>2, <1>3, <1>4
<1> QED
  BY <1>1, <1>3, <1>5 DEF RegistryInv, AcksAreTheirClients

LEMMA SendAckEffect ==
    ASSUME RegistryInv, NEW of \in DOMAIN clients, NEW n \in 1..MaxAck, SendAck(of, n)
    PROVE  RegistryInv'
<1>1. /\ clients' = clients /\ nextClientId' = nextClientId
      /\ acks' = acks \cup {[client |-> of, id |-> n]}
      /\ said' = [said EXCEPT ![of] = @ \cup {n}]
  BY DEF SendAck, registryVars
<1>2. of \in ClientId /\ of < nextClientId
  BY BoundAssumption DEF RegistryInv, ClientId
<1>3. /\ DOMAIN said' = DOMAIN said /\ of \in DOMAIN said
      /\ \A id \in DOMAIN said : said[id] \subseteq said'[id]
      /\ n \in said'[of]
  BY <1>1 DEF RegistryInv
<1>4. acks' \subseteq Ack
  BY <1>1, <1>2 DEF RegistryInv, Ack
<1>5. ASSUME NEW ack \in acks'
      PROVE  /\ ack.client < nextClientId'
             /\ ack.client \in DOMAIN clients' => ack.id \in said'[ack.client]
  <2>1. CASE ack \in acks
    BY <1>1, <1>3, <2>1 DEF RegistryInv
  <2>2. CASE ack = [client |-> of, id |-> n]
    BY <1>1, <1>2, <1>3, <2>2
  <2> QED
    BY <1>1, <2>1, <2>2
<1>6. AcksAreTheirClients'
  BY <1>1, <1>3 DEF RegistryInv, AcksAreTheirClients
<1> QED
  BY <1>1, <1>3, <1>4, <1>5, <1>6 DEF RegistryInv

\* What arrives was said by the client it is counted for, or for nobody.
LEMMA AcknowledgeEffect ==
    ASSUME RegistryInv, NEW ack \in acks, Acknowledge(ack)
    PROVE  RegistryInv' /\ DOMAIN clients' = DOMAIN clients
<1> DEFINE of == ack.client
<1>1. /\ clients' = IF of \in DOMAIN clients /\ Advances(clients[of], ack)
                    THEN [clients EXCEPT ![of].acked = ack.id]
                    ELSE clients
      /\ nextClientId' = nextClientId /\ acks' = acks /\ said' = said
  BY DEF Acknowledge, ackVars
<1>2. /\ \A id \in DOMAIN clients : clients[id] \in Client
      /\ ack \in Ack /\ (of \in DOMAIN clients => ack.id \in said[of])
  BY DEF RegistryInv
<1>3. CASE clients' = clients
  BY <1>1, <1>3 DEF RegistryInv, AcksAreTheirClients
<1>4. CASE of \in DOMAIN clients /\ clients' = [clients EXCEPT ![of].acked = ack.id]
  <2>1. /\ DOMAIN clients' = DOMAIN clients
        /\ \A id \in DOMAIN clients : id # of => clients'[id] = clients[id]
        /\ clients'[of] = [clients[of] EXCEPT !.acked = ack.id]
    BY <1>4
  <2>2. ack.id \in 0..MaxAck
    BY <1>2, BoundAssumption DEF Ack
  <2>3. clients'[of] \in Client /\ clients'[of].acked = ack.id
    BY <1>2, <1>4, <2>1, <2>2 DEF Client
  <2>4. \A id \in DOMAIN clients' : clients'[id] \in Client
    BY <1>2, <2>1, <2>3
  <2>5. AcksAreTheirClients'
    BY <1>1, <1>2, <1>4, <2>1, <2>3 DEF RegistryInv, AcksAreTheirClients
  <2> QED
    BY <1>1, <2>1, <2>4, <2>5 DEF RegistryInv
<1> QED
  BY <1>1, <1>3, <1>4

LEMMA Steps == RegistryInv /\ [Next]_vars => RegistryInv'
<1> SUFFICES ASSUME RegistryInv, [Next]_vars PROVE RegistryInv'
  OBVIOUS
<1>1. UNCHANGED <<registryVars, ackVars>> => RegistryInv'
  BY DEF registryVars, ackVars, RegistryInv, AcksAreTheirClients
<1>2. CASE \/ \E world \in Worlds, inside \in SUBSET Entity : Frame(world, inside, TRUE)
           \/ \E inside \in SUBSET Entity : Frame(published, inside, FALSE)
           \/ Shutdown
  BY <1>1, <1>2 DEF Frame, Shutdown
<1>3. CASE \E c \in Connection, focus \in Place : Register(c, focus)
  BY <1>3, RegisterEffect
<1>4. CASE \E id \in DOMAIN clients : Unregister(id)
  BY <1>4, UnregisterEffect
<1>5. CASE \E id \in DOMAIN clients, focus \in Place : UpdateFocus(id, focus)
  BY <1>5, UpdateFocusEffect
<1>6. CASE \E id \in DOMAIN clients, n \in 1..MaxAck : SendAck(id, n)
  BY <1>6, SendAckEffect
<1>7. CASE \E ack \in acks : Acknowledge(ack)
  BY <1>7, AcknowledgeEffect
<1>8. CASE UNCHANGED vars
  BY <1>1, <1>8 DEF vars
<1> QED
  BY <1>2, <1>3, <1>4, <1>5, <1>6, <1>7, <1>8 DEF Next

\* However late, however often and in whatever order acknowledgements arrive, none is
\* counted for another client than the one that said it: an id is never given out again
\* (ReplicationClientRegistry::Register, ReplicationManager::HandleReplicationAck).
THEOREM OwnAcks == Spec => []AcksAreTheirClients
<1>1. Init => RegistryInv
  BY BoundAssumption DEF Init, Nothing, RegistryInv, AcksAreTheirClients
<1>2. RegistryInv /\ [Next]_vars => RegistryInv'
  BY Steps
<1>3. RegistryInv => AcksAreTheirClients
  BY DEF RegistryInv
<1> QED
  BY <1>1, <1>2, <1>3, PTL DEF Spec
-----------------------------------------------------------------------------
(***************************************************************************)
(* What a client is told.  A version never runs ahead of the frames, and   *)
(* one stamped in the last frame has the entity where the snapshot has it; *)
(* a client no record of whose was left out knows the worker's baseline.   *)
(***************************************************************************)

Versions ==
    /\ published # NoSnapshot => tick >= 1
    /\ DOMAIN baselines \subseteq 1..(nextClientId - 1)
    /\ \A id \in DOMAIN baselines : \A e \in DOMAIN baselines[id] :
          /\ baselines[id][e].version <= tick
          /\ baselines[id][e].version = tick =>
                e \in DOMAIN published /\ ~Differs(baselines[id][e], published[e])

Told == \A id \in whole : view[id] = Seen(Baseline(id))

Inv == TypeOK /\ RegistryInv /\ Versions /\ Told

Learns ==
    \A id \in DOMAIN clients \cap whole' :
       LET base == Baseline(id) IN
       (clients' = clients /\ id \in DOMAIN baselines' /\ base # baselines'[id]) =>
          KnowsItsWorld(id)'

LEMMA WorldType ==
    ASSUME NEW world \in Worlds
    PROVE  /\ world \in [DOMAIN world -> Tracked] /\ DOMAIN world \in SUBSET Entity
           /\ world # NoSnapshot
<1>1. PICK S \in SUBSET Entity : world \in [S -> Tracked]
  BY DEF Worlds
<1>2. DOMAIN NoSnapshot = {0}
  BY DEF NoSnapshot
<1>3. 0 \notin Entity
  BY BoundAssumption DEF Entity
<1> QED
  BY <1>1, <1>2, <1>3

LEMMA KnownType ==
    ASSUME NEW base
    PROVE  base \in Known <=> /\ base \in [DOMAIN base -> EntityState]
                              /\ DOMAIN base \in SUBSET Entity
  BY DEF Known

\* The inputs of a client's turn.
LEMMA TurnType ==
    ASSUME TypeOK, NEW id \in DOMAIN clients, NEW world \in Worlds, NEW inside
    PROVE  /\ IsBaseline(Baseline(id))
           /\ IsCurrent(Current(id, world, inside))
           /\ DOMAIN Current(id, world, inside) = Relevant(clients[id].focus, world, inside)
           /\ \A e \in DOMAIN Current(id, world, inside) :
                 e \in DOMAIN world /\ Current(id, world, inside)[e] = world[e]
<1>1. IsBaseline(Baseline(id))
  <2>1. CASE id \in DOMAIN baselines
    <3>1. Baseline(id) \in Known
      BY <2>1 DEF TypeOK, Baseline
    <3>2. /\ Baseline(id) \in [DOMAIN Baseline(id) -> EntityState]
          /\ DOMAIN Baseline(id) \in SUBSET Entity
      BY <3>1, KnownType
    <3>3. EntityState \subseteq State
      BY BoundAssumption DEF EntityState, State
    <3> QED
      BY <3>2, <3>3 DEF IsBaseline
  <2>2. CASE id \notin DOMAIN baselines
    BY <2>2 DEF Baseline, Nothing, IsBaseline
  <2> QED
    BY <2>1, <2>2
<1>2. Relevant(clients[id].focus, world, inside) \subseteq DOMAIN world
  BY DEF Relevant
<1> QED
  BY <1>1, <1>2, WorldType DEF Current, IsCurrent

LEMMA QueuesBounded ==
    ASSUME NEW base, IsBaseline(base), NEW current, IsCurrent(current)
    PROVE  /\ DOMAIN LeftQueued(base, current) = {"Reliable", "Unreliable"}
           /\ Len(LeftQueued(base, current).Reliable) <= ReliableQueueDepth
           /\ Len(LeftQueued(base, current).Unreliable) <= UnreliableQueueDepth
<1>1. ASSUME NEW s \in Seq(Record), NEW depth \in Nat
      PROVE  LET q == Prefix(s, depth) IN
             Len(SubSeq(q, Len(Prefix(q, Room)) + 1, Len(q))) <= depth
  <2> DEFINE q == Prefix(s, depth)
             m == Len(Prefix(q, Room))
  <2>1. q \in Seq(Record) /\ Len(q) \in Nat /\ Len(q) <= depth
    BY PrefixType
  <2> HIDE DEF q
  <2>2. m \in Nat
    BY <2>1, RoomType, PrefixType
  <2> HIDE DEF m
  <2>3. \A i \in (m + 1)..Len(q) : q[i] \in Record
    BY <2>1, <2>2, ElementOfSeq
  <2>4. Len(SubSeq(q, m + 1, Len(q))) =
           IF m + 1 <= Len(q) THEN Len(q) - (m + 1) + 1 ELSE 0
    BY <2>1, <2>2, <2>3, SubSeqProperties
  <2>5. Len(SubSeq(q, m + 1, Len(q))) <= depth
    BY <2>1, <2>2, <2>4
  <2> QED
    BY <2>5 DEF q, m
<1>2. /\ Routed(base, current, "Reliable") \in Seq(Record)
      /\ Routed(base, current, "Unreliable") \in Seq(Record)
  BY RoutedType
<1> QED
  BY <1>1, <1>2, ConfigurationAssumption DEF LeftQueued, Enqueued

\* The next baseline of a client that is served.
LEMMA NextVersions ==
    ASSUME Inv, NEW id \in DOMAIN clients, NEW inside, NEW captured \in BOOLEAN,
           published' \in Worlds, tick' \in 1..MaxTick,
           tick' = IF captured THEN tick + 1 ELSE tick,
           ~captured => published' = published
    PROVE  LET next == NextBaseline(Baseline(id), Current(id, published', inside)) IN
           /\ next \in Known
           /\ DOMAIN next = Relevant(clients[id].focus, published', inside)
           /\ \A e \in DOMAIN next :
                 /\ next[e].version <= tick'
                 /\ e \in DOMAIN published' /\ ~Differs(next[e], published'[e])
<1> DEFINE base    == Baseline(id)
           current == Current(id, published', inside)
           next    == NextBaseline(base, current)
<1>1. /\ IsBaseline(base) /\ IsCurrent(current)
      /\ DOMAIN current = Relevant(clients[id].focus, published', inside)
      /\ \A e \in DOMAIN current : e \in DOMAIN published' /\ current[e] = published'[e]
  BY TurnType DEF Inv
<1>2. \A e \in DOMAIN base :
         /\ base[e].version \in 1..tick
         /\ base[e].version = tick => ~Differs(base[e], published[e])
  <2>1. CASE id \in DOMAIN baselines
    <3>1. base = baselines[id] /\ base \in [DOMAIN base -> EntityState]
      BY <2>1, KnownType DEF Baseline, Inv, TypeOK
    <3>2. \A e \in DOMAIN base : base[e].version \in 1..(MaxTick + 1)
      BY <3>1 DEF EntityState
    <3>3. \A e \in DOMAIN base : /\ base[e].version <= tick
                                 /\ base[e].version = tick => ~Differs(base[e], published[e])
      BY <2>1, <3>1 DEF Inv, Versions
    <3>4. tick \in Nat
      BY BoundAssumption DEF Inv, TypeOK
    <3> HIDE DEF base
    <3> QED
      BY <3>2, <3>3, <3>4, BoundAssumption
  <2>2. CASE id \notin DOMAIN baselines
    BY <2>2 DEF Baseline, Nothing
  <2> QED
    BY <2>1, <2>2
<1> HIDE DEF base, current
<1>3. /\ IsBaseline(next) /\ DOMAIN next = DOMAIN current
      /\ \A e \in DOMAIN current :
            /\ next[e].place = current[e].place /\ next[e].velocity = current[e].velocity
            /\ next[e].version = IF e \notin DOMAIN base THEN 1
                                 ELSE IF Differs(base[e], current[e]) THEN base[e].version + 1
                                 ELSE base[e].version
  BY <1>1, NextBaselineType
<1> HIDE DEF next
<1>4. tick \in Nat /\ MaxTick \in Nat
  BY BoundAssumption DEF Inv, TypeOK
<1>5. ASSUME NEW e \in DOMAIN current PROVE next[e].version \in 1..tick'
  <2>1. CASE e \notin DOMAIN base
    BY <1>3, <1>4, <2>1
  <2>2. CASE e \in DOMAIN base /\ ~Differs(base[e], current[e])
    BY <1>2, <1>3, <1>4, <2>2
  <2>3. CASE e \in DOMAIN base /\ Differs(base[e], current[e])
    <3>1. next[e].version = base[e].version + 1 /\ base[e].version \in 1..tick
      BY <1>2, <1>3, <2>3
    <3>2. ~captured => base[e].version # tick
      BY <1>1, <1>2, <2>3
    <3> QED
      BY <1>4, <3>1, <3>2
  <2> QED
    BY <2>1, <2>2, <2>3
<1>6. \A e \in DOMAIN next : next[e] \in EntityState
  <2>1. \A e \in DOMAIN next : next[e] \in State
    BY <1>3 DEF IsBaseline
  <2>2. \A e \in DOMAIN next : next[e].version \in 1..(MaxTick + 1)
    BY <1>3, <1>4, <1>5
  <2> QED
    BY <2>1, <2>2 DEF State, EntityState
<1>7. next \in Known
  BY <1>3, <1>6, KnownType DEF IsBaseline
<1>8. \A e \in DOMAIN next : /\ next[e].version <= tick'
                             /\ e \in DOMAIN published' /\ ~Differs(next[e], published'[e])
  BY <1>1, <1>3, <1>4, <1>5 DEF Differs
<1> QED
  BY <1>1, <1>3, <1>7, <1>8 DEF next, base, current

LEMMA FrameStep ==
    ASSUME Inv, NEW world, NEW inside, NEW captured \in BOOLEAN,
           IF captured THEN world \in Worlds ELSE world = published,
           Frame(world, inside, captured)
    PROVE  Inv' /\ Learns
<1>1. /\ running' = running /\ clients' = clients /\ nextClientId' = nextClientId
      /\ tick' = IF captured THEN tick + 1 ELSE tick
      /\ published' = IF captured THEN world ELSE published
      /\ tick = MaxTick => ~captured
      /\ acks' = acks /\ said' = said
  BY DEF Frame, registryVars, ackVars
<1>2. /\ tick \in 0..MaxTick /\ MaxTick \in Nat /\ running \in BOOLEAN
      /\ published \in Worlds \cup {NoSnapshot}
      /\ DOMAIN clients \subseteq ClientId /\ (\A id \in DOMAIN clients : clients[id] \in Client)
      /\ nextClientId \in 1..(MaxRegistrations + 1) /\ DOMAIN view = DOMAIN clients
      /\ whole \subseteq DOMAIN clients
  BY BoundAssumption DEF Inv, TypeOK
<1>3. tick' \in 0..MaxTick /\ (captured => tick' \in 1..MaxTick /\ tick < tick')
  BY <1>1, <1>2
<1>4. RegistryInv'
  BY <1>1 DEF Inv, RegistryInv, AcksAreTheirClients
<1>5. CASE published' = NoSnapshot
  <2>1. ~captured
    BY <1>1, <1>5, WorldType
  <2>2. /\ tick' = tick /\ published' = published
        /\ baselines' = baselines /\ queues' = queues /\ view' = view /\ whole' = whole
    BY <1>1, <1>5, <2>1 DEF Frame, workerVars
  <2>3. TypeOK'
    BY <1>1, <2>2 DEF Inv, TypeOK
  <2>4. Versions' /\ Told'
    BY <1>1, <2>2 DEF Inv, Versions, Told, Baseline
  <2>5. Learns
    BY <2>2 DEF Learns, Baseline
  <2> QED
    BY <1>4, <2>3, <2>4, <2>5 DEF Inv
<1>6. CASE published' # NoSnapshot
  <2> DEFINE Now(id)  == Current(id, published', inside)
             Sent(id) == Packets(Baseline(id), Now(id))
             next(id) == NextBaseline(Baseline(id), Now(id))
             served   == {id \in DOMAIN clients : ~Overflows(Baseline(id), Now(id))}
             last     == CHOOSE id \in served : \A k \in served : k <= id
  <2>1. /\ baselines' = [id \in DOMAIN baselines \cup DOMAIN clients |->
                           IF id \in DOMAIN clients
                           THEN Advanced(Baseline(id), Now(id))
                           ELSE baselines[id]]
        /\ queues' = IF served = {} THEN queues
                     ELSE LeftQueued(Baseline(last), Now(last))
        /\ view' = [id \in DOMAIN view |->
                      IF id \in served THEN Applied(view[id], Sent(id)) ELSE view[id]]
        /\ whole' = whole \ {id \in served : Len(Sent(id)) < Due(Baseline(id), Now(id))}
    BY <1>6 DEF Frame, Update
  <2>2. /\ published' \in Worlds /\ tick' \in 1..MaxTick
        /\ ~captured => published' = published /\ tick' = tick
    BY <1>1, <1>2, <1>3, <1>6 DEF Inv, Versions
  <2>3. \A id \in DOMAIN clients : IsBaseline(Baseline(id)) /\ IsCurrent(Now(id))
    BY <2>2, TurnType DEF Inv
  <2>4. ASSUME NEW id \in served
        PROVE  /\ id \in DOMAIN clients /\ next(id) \in Known
               /\ DOMAIN next(id) = Relevant(clients[id].focus, published', inside)
               /\ \A e \in DOMAIN next(id) :
                     /\ next(id)[e].version <= tick'
                     /\ e \in DOMAIN published' /\ ~Differs(next(id)[e], published'[e])
    BY <1>1, <2>2, NextVersions
  <2>5. \A id \in DOMAIN clients : Advanced(Baseline(id), Now(id)) =
                                      IF id \in served THEN next(id) ELSE Baseline(id)
    BY DEF Advanced
  <2>6. ASSUME NEW id \in served, id \in whole' PROVE Applied(view[id], Sent(id)) = Seen(next(id))
    <3>1. id \in DOMAIN clients /\ id \in whole /\ ~(Len(Sent(id)) < Due(Baseline(id), Now(id)))
      BY <2>1, <2>6
    <3>2. view[id] = Seen(Baseline(id))
      BY <3>1 DEF Inv, Told
    <3> QED
      BY <2>3, <3>1, <3>2, AppliedIsNext
  <2>7. served = {} \/ last \in DOMAIN clients
    <3> SUFFICES ASSUME served # {} PROVE last \in served
      OBVIOUS
    <3>1. served \subseteq ClientId
      BY <1>2
    <3> HIDE DEF served
    <3>2. \E id \in served : \A k \in served : k <= id
      <4> DEFINE below == {MaxRegistrations - k : k \in served}
      <4>1. \A k \in served : k \in Nat /\ MaxRegistrations - k \in Nat
        BY <3>1, BoundAssumption DEF ClientId
      <4>2. below \subseteq Nat /\ below # {}
        BY <4>1
      <4> HIDE DEF below
      <4>3. PICK m \in below : \A k \in below : ~(<<k, m>> \in OpToRel(<, Nat))
        BY <4>2, NatLessThanWellFounded, WFMin
      <4>4. \A k \in below : ~(k < m)
        BY <4>2, <4>3 DEF OpToRel
      <4>5. PICK id \in served : m = MaxRegistrations - id
        BY DEF below
      <4>6. \A k \in served : ~(MaxRegistrations - k < MaxRegistrations - id)
        BY <4>4, <4>5 DEF below
      <4>7. \A k \in served : k <= id
        BY <4>1, <4>6, BoundAssumption
      <4> QED
        BY <4>7
    <3> QED
      BY <3>2
  <2> HIDE DEF Sent, next, served, last
  <2>8. \A id \in DOMAIN clients : baselines'[id] = IF id \in served THEN next(id) ELSE Baseline(id)
    BY <2>1, <2>5
  <2>9. \A id \in DOMAIN baselines \ DOMAIN clients : baselines'[id] = baselines[id]
    BY <2>1
  <2>10. DOMAIN baselines' = DOMAIN baselines \cup DOMAIN clients
    BY <2>1
  <2>11. \A id \in DOMAIN baselines' :
            \/ id \in served /\ baselines'[id] = next(id)
            \/ id \in DOMAIN baselines /\ baselines'[id] = baselines[id]
            \/ baselines'[id] = Nothing
    BY <2>8, <2>9, <2>10 DEF Baseline
  <2>12. ASSUME NEW id \in DOMAIN baselines'
         PROVE  /\ baselines'[id] \in Known
                /\ \A e \in DOMAIN baselines'[id] :
                      /\ baselines'[id][e].version <= tick'
                      /\ baselines'[id][e].version = tick' =>
                            e \in DOMAIN published' /\ ~Differs(baselines'[id][e], published'[e])
    <3>1. CASE id \in served /\ baselines'[id] = next(id)
      BY <2>4, <3>1
    <3>2. CASE id \in DOMAIN baselines /\ baselines'[id] = baselines[id]
      <4>1. baselines[id] \in Known
        BY <3>2 DEF Inv, TypeOK
      <4>2. \A e \in DOMAIN baselines[id] : baselines[id][e].version \in Nat
        BY <4>1, KnownType, BoundAssumption DEF EntityState
      <4>3. \A e \in DOMAIN baselines[id] :
               /\ baselines[id][e].version <= tick
               /\ baselines[id][e].version = tick =>
                     e \in DOMAIN published /\ ~Differs(baselines[id][e], published[e])
        BY <3>2 DEF Inv, Versions
      <4>4. \A e \in DOMAIN baselines[id] :
               /\ baselines[id][e].version <= tick'
               /\ baselines[id][e].version = tick' =>
                     e \in DOMAIN published' /\ ~Differs(baselines[id][e], published'[e])
        BY <1>2, <1>3, <2>2, <4>2, <4>3
      <4> QED
        BY <3>2, <4>1, <4>4
    <3>3. CASE baselines'[id] = Nothing
      BY <3>3, KnownType DEF Nothing
    <3> QED
      BY <2>11, <3>1, <3>2, <3>3
  <2>13. /\ DOMAIN queues' = {"Reliable", "Unreliable"}
         /\ Len(queues'.Reliable) <= ReliableQueueDepth
         /\ Len(queues'.Unreliable) <= UnreliableQueueDepth
    <3>1. CASE served = {}
      BY <2>1, <3>1 DEF Inv, TypeOK
    <3>2. CASE served # {}
      BY <2>1, <2>3, <2>7, <3>2, QueuesBounded
    <3> QED
      BY <3>1, <3>2
  <2>14. DOMAIN baselines \subseteq 1..(nextClientId - 1) /\ DOMAIN baselines \subseteq ClientId
    BY DEF Inv, Versions, TypeOK
  <2>15. TypeOK'
    BY <1>1, <1>2, <1>3, <1>4, <2>1, <2>2, <2>10, <2>12, <2>13, <2>14 DEF TypeOK, RegistryInv
  <2>16. Versions'
    BY <1>1, <1>2, <2>2, <2>10, <2>12, <2>14 DEF Versions, Inv, RegistryInv
  <2>17. \A id \in whole' : id \in whole /\ id \in DOMAIN clients /\ id \in DOMAIN view
    BY <1>2, <2>1
  <2>18. ASSUME NEW id \in whole' PROVE view'[id] = Seen(baselines'[id]) /\ id \in DOMAIN baselines'
    <3>1. CASE id \in served
      BY <2>1, <2>6, <2>8, <2>10, <2>17, <3>1
    <3>2. CASE id \notin served
      BY <2>1, <2>8, <2>10, <2>17, <3>2 DEF Inv, Told
    <3> QED
      BY <3>1, <3>2
  <2>19. Told'
    BY <2>18 DEF Told, Baseline
  <2>20. Learns
    <3> SUFFICES ASSUME NEW id \in DOMAIN clients \cap whole', Baseline(id) # baselines'[id]
                 PROVE  KnowsItsWorld(id)'
      BY DEF Learns
    <3>1. id \in served /\ baselines'[id] = next(id) /\ view'[id] = Seen(next(id))
      BY <2>8, <2>18
    <3>0. /\ DOMAIN view'[id] = DOMAIN next(id)
          /\ \A e \in DOMAIN next(id) : view'[id][e].place = next(id)[e].place
      BY <3>1 DEF Seen, OnWire
    <3>2. \A e \in DOMAIN view'[id] :
             e \in DOMAIN published' /\ view'[id][e].place = published'[e].place
      BY <2>4, <3>0, <3>1 DEF Differs
    <3>3. {e \in DOMAIN published' : InterestRadius > 0 /\ published'[e].place = clients[id].focus}
             \subseteq DOMAIN view'[id]
      BY <2>4, <3>0, <3>1 DEF Relevant
    <3>4. InReach(id)' \subseteq DOMAIN view'[id]
      BY <1>1, <3>3 DEF InReach
    <3> QED
      BY <3>1, <3>2, <3>4 DEF KnowsItsWorld
  <2> QED
    BY <1>4, <2>15, <2>16, <2>19, <2>20 DEF Inv
<1> QED
  BY <1>5, <1>6

\* What the registry's operations and the shutdown leave of the snapshot and baselines.
LEMMA SnapshotKept ==
    ASSUME Inv, RegistryInv', nextClientId <= nextClientId',
           UNCHANGED <<tick, published, baselines>>
    PROVE  Versions' /\ (\A id : Baseline(id)' = Baseline(id)) /\ (~(clients' = clients) \/ Learns)
<1>1. Versions'
  <2>1. nextClientId \in Int /\ nextClientId' \in Int
    BY BoundAssumption DEF RegistryInv, Inv
  <2>2. DOMAIN baselines' \subseteq 1..(nextClientId' - 1)
    BY <2>1 DEF Inv, Versions
  <2> QED
    BY <2>2 DEF Inv, Versions
<1> QED
  BY <1>1 DEF Baseline, Learns

LEMMA RegisterStep ==
    ASSUME Inv, NEW c \in Connection, NEW focus \in Place, Register(c, focus)
    PROVE  Inv' /\ Learns
<1>1. RegistryInv'
  BY RegisterEffect DEF Inv
<1>2. /\ nextClientId' = nextClientId + 1 /\ nextClientId \in 1..(MaxRegistrations + 1)
      /\ nextClientId <= MaxRegistrations /\ UNCHANGED <<running, tick, published, baselines, queues>>
      /\ view' = [k \in DOMAIN view \cup {nextClientId} |->
                    IF k = nextClientId THEN Nothing ELSE view[k]]
      /\ whole' = whole \cup {nextClientId}
      /\ DOMAIN clients' = DOMAIN clients \cup {nextClientId}
  BY DEF Register, FreshId, Put, workerVars, Inv, RegistryInv
<1>3. Versions' /\ \A id : Baseline(id)' = Baseline(id)
  BY <1>1, <1>2, SnapshotKept, BoundAssumption
<1>4. nextClientId \notin DOMAIN baselines /\ nextClientId \notin whole
  BY <1>2 DEF Inv, Versions, TypeOK, RegistryInv
<1>5. Told'
  <2> SUFFICES ASSUME NEW id \in whole' PROVE view'[id] = Seen(Baseline(id))
    BY <1>3 DEF Told
  <2>1. CASE id = nextClientId
    BY <1>2, <1>4, <2>1 DEF Baseline, Seen, Nothing
  <2>2. CASE id # nextClientId
    BY <1>2, <2>2 DEF Told, Inv, TypeOK
  <2> QED
    BY <2>1, <2>2
<1>6. TypeOK'
  <2>1. DOMAIN clients' \subseteq ClientId /\ nextClientId' \in 1..(MaxRegistrations + 1)
    BY <1>2, BoundAssumption DEF Inv, TypeOK, ClientId
  <2>2. DOMAIN view' = DOMAIN clients' /\ whole' \subseteq DOMAIN clients'
    BY <1>2 DEF Inv, TypeOK
  <2> QED
    BY <1>1, <1>2, <2>1, <2>2 DEF Inv, TypeOK, RegistryInv
<1>7. Learns
  BY <1>2 DEF Learns, Baseline
<1> QED
  BY <1>1, <1>3, <1>5, <1>6, <1>7 DEF Inv

LEMMA UnregisterStep ==
    ASSUME Inv, NEW gone \in DOMAIN clients, Unregister(gone)
    PROVE  Inv' /\ Learns
<1>1. RegistryInv'
  BY UnregisterEffect DEF Inv
<1>2. /\ UNCHANGED <<running, tick, published, nextClientId, baselines, queues>>
      /\ view' = [k \in DOMAIN view \ {gone} |-> view[k]]
      /\ whole' = whole \ {gone}
      /\ DOMAIN clients' = DOMAIN clients \ {gone}
  BY DEF Unregister, Erase, workerVars
<1>3. Versions' /\ \A id : Baseline(id)' = Baseline(id)
  BY <1>1, <1>2, SnapshotKept, BoundAssumption DEF Inv, RegistryInv
<1>4. Told'
  BY <1>2, <1>3 DEF Told, Inv, TypeOK
<1>5. TypeOK'
  BY <1>1, <1>2 DEF Inv, TypeOK, RegistryInv
<1>6. Learns
  BY <1>2 DEF Learns, Baseline
<1> QED
  BY <1>1, <1>3, <1>4, <1>5, <1>6 DEF Inv

\* A focus moves or an acknowledgement is sent or arrives.
LEMMA RecordStep ==
    ASSUME Inv, RegistryInv', DOMAIN clients' = DOMAIN clients,
           UNCHANGED <<running, tick, published, nextClientId, workerVars, historyVars>>
    PROVE  Inv' /\ Learns
<1>1. UNCHANGED <<running, tick, published, nextClientId, baselines, queues, view, whole>>
  BY DEF workerVars, historyVars
<1>2. Versions' /\ \A id : Baseline(id)' = Baseline(id)
  BY <1>1, SnapshotKept, BoundAssumption DEF Inv, RegistryInv
<1>3. Told' /\ TypeOK' /\ Learns
  BY <1>1, <1>2 DEF Told, Inv, TypeOK, RegistryInv, Learns, Baseline
<1> QED
  BY <1>2, <1>3 DEF Inv

LEMMA ShutdownStep ==
    ASSUME Inv, Shutdown
    PROVE  Inv' /\ Learns
<1>1. /\ UNCHANGED <<tick, published, clients, nextClientId, baselines, view, whole>>
      /\ UNCHANGED <<acks, said>>
      /\ running' = FALSE /\ queues' = Empty
  BY DEF Shutdown, registryVars, ackVars, historyVars
<1>2. RegistryInv'
  BY <1>1 DEF Inv, RegistryInv, AcksAreTheirClients
<1>3. Versions' /\ \A id : Baseline(id)' = Baseline(id)
  BY <1>1, <1>2, SnapshotKept, BoundAssumption DEF Inv, RegistryInv
<1>4. Told' /\ Learns
  BY <1>1, <1>3 DEF Told, Inv, Learns, Baseline
<1>5. TypeOK'
  <2>1. /\ DOMAIN queues' = {"Reliable", "Unreliable"}
        /\ Len(queues'.Reliable) <= ReliableQueueDepth
        /\ Len(queues'.Unreliable) <= UnreliableQueueDepth
    BY <1>1, ConfigurationAssumption DEF Empty
  <2> QED
    BY <1>1, <1>2, <2>1 DEF Inv, TypeOK, RegistryInv
<1> QED
  BY <1>2, <1>3, <1>4, <1>5 DEF Inv

LEMMA Invariance ==
    ASSUME Inv, [Next]_vars
    PROVE  Inv' /\ [Learns]_vars
<1>1. ASSUME NEW world \in Worlds, NEW inside \in SUBSET Entity, Frame(world, inside, TRUE)
      PROVE  Inv' /\ Learns
  BY <1>1, FrameStep
<1>2. ASSUME NEW inside \in SUBSET Entity, Frame(published, inside, FALSE)
      PROVE  Inv' /\ Learns
  BY <1>2, FrameStep
<1>3. CASE \E c \in Connection, focus \in Place : Register(c, focus)
  BY <1>3, RegisterStep
<1>4. ASSUME NEW id \in DOMAIN clients, Unregister(id)
      PROVE  Inv' /\ Learns
  BY <1>4, UnregisterStep
<1>5. ASSUME NEW id \in DOMAIN clients, NEW focus \in Place, UpdateFocus(id, focus)
      PROVE  Inv' /\ Learns
  <2>1. RegistryInv'
    BY <1>5, UpdateFocusEffect DEF Inv
  <2>2. DOMAIN clients' = DOMAIN clients
    BY <1>5 DEF UpdateFocus
  <2> QED
    BY <1>5, <2>1, <2>2, RecordStep DEF UpdateFocus
<1>6. ASSUME NEW id \in DOMAIN clients, NEW n \in 1..MaxAck, SendAck(id, n)
      PROVE  Inv' /\ Learns
  <2>1. RegistryInv'
    BY <1>6, SendAckEffect DEF Inv
  <2> QED
    BY <1>6, <2>1, RecordStep DEF SendAck, registryVars
<1>7. ASSUME NEW ack \in acks, Acknowledge(ack)
      PROVE  Inv' /\ Learns
  <2>1. RegistryInv' /\ DOMAIN clients' = DOMAIN clients
    BY <1>7, AcknowledgeEffect DEF Inv
  <2> QED
    BY <1>7, <2>1, RecordStep DEF Acknowledge
<1>8. CASE Shutdown
  BY <1>8, ShutdownStep
<1>9. CASE UNCHANGED vars
  <2>1. /\ UNCHANGED <<running, tick, published, clients, nextClientId, baselines, queues>>
        /\ UNCHANGED <<view, whole, acks, said>>
    BY <1>9 DEF vars, registryVars, ackVars, workerVars, historyVars
  <2>2. TypeOK' /\ RegistryInv' /\ Versions' /\ Told'
    BY <2>1 DEF Inv, TypeOK, RegistryInv, AcksAreTheirClients, Versions, Told, Baseline
  <2> QED
    BY <1>9, <2>2 DEF Inv
<1> QED
  BY <1>1, <1>2, <1>3, <1>4, <1>5, <1>6, <1>7, <1>8, <1>9 DEF Next

LEMMA Initially ==
    ASSUME Init
    PROVE  Inv
<1>0. DOMAIN Nothing = {}
  BY DEF Nothing
<1>1. TypeOK
  <2>1. /\ DOMAIN queues = {"Reliable", "Unreliable"}
        /\ Len(queues.Reliable) <= ReliableQueueDepth
        /\ Len(queues.Unreliable) <= UnreliableQueueDepth
    BY ConfigurationAssumption DEF Init, Empty
  <2>2. /\ running \in BOOLEAN /\ tick \in 0..MaxTick /\ published = NoSnapshot
        /\ nextClientId \in 1..(MaxRegistrations + 1) /\ whole = {} /\ acks = {} /\ said = Nothing
        /\ clients = Nothing /\ baselines = Nothing /\ view = Nothing
    BY BoundAssumption DEF Init
  <2> QED
    BY <1>0, <2>1, <2>2 DEF TypeOK
<1>2. RegistryInv /\ Versions /\ Told
  BY BoundAssumption DEF Init, RegistryInv, AcksAreTheirClients, Versions, Told, Nothing
<1> QED
  BY <1>1, <1>2 DEF Inv

\* A client no record of whose was left out by a full queue or a short packet knows,
\* after a pass that served it, every relevant entity, its place where the snapshot has
\* it and nothing else, whatever was skipped before and whoever left; the velocity is
\* counted and never told (ReplicationWorker.cpp, Execute; DeltaEncoder.cpp,
\* EncodeEntityDelta; ReplicationPacketBuilder.cpp, BuildPacket).
THEOREM WholeClients == Spec => WholeClientsKnowTheirWorld
<1>1. Init => Inv
  BY Initially
<1>2. Inv /\ [Next]_vars => Inv' /\ [Learns]_vars
  BY Invariance
<1>3. Inv => TypeOK
  BY DEF Inv
<1>4. Spec => []TypeOK /\ [][Learns]_vars
  BY <1>1, <1>2, <1>3, PTL DEF Spec
<1> QED
  BY <1>4 DEF Learns, WholeClientsKnowTheirWorld
=============================================================================
