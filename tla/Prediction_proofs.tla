-------------------------- MODULE Prediction_proofs --------------------------
(***************************************************************************)
(* Proofs about Prediction, for every size of its buffers, every cap and   *)
(* delay, whatever the host does and whatever becomes of its frames.       *)
(***************************************************************************)
EXTENDS Prediction, SequenceTheorems, WellFoundedInduction, TLAPS

---------------------------------------------------------------------------
(* Numbers and recursions over them.                                       *)

LEMMA Least ==
    ASSUME NEW T \in SUBSET Nat, T # {}
    PROVE  \E least \in T : \A other \in T : least <= other
<1> DEFINE R == OpToRel(<, Nat)
<1>1. IsWellFoundedOn(R, Nat)
  BY NatLessThanWellFounded
<1>2. PICK least \in T : \A other \in T : ~(<<other, least>> \in R)
  <2> HIDE DEF R
  <2> QED
    BY <1>1, WFMin
<1>3. \A other \in T : ~(other < least)
  BY <1>2 DEF OpToRel
<1> QED
  BY <1>3

\* What holds at 0 and is passed on holds up to n.
LEMMA Upward ==
    ASSUME NEW n \in Nat, NEW T, 0 \in T,
           \A i \in 1..n : i - 1 \in T => i \in T
    PROVE  \A i \in 0..n : i \in T
<1> SUFFICES ASSUME {i \in 0..n : i \notin T} # {} PROVE FALSE
  OBVIOUS
<1>1. PICK i \in 0..n : i \notin T /\ \A other \in 0..n : other \notin T => i <= other
  <2> DEFINE Out == {i \in 0..n : i \notin T}
  <2>1. Out \in SUBSET Nat /\ Out # {}
    OBVIOUS
  <2>2. PICK i \in Out : \A other \in Out : i <= other
    <3> HIDE DEF Out
    <3> QED
      BY <2>1, Least
  <2> QED
    BY <2>2
<1>2. i # 0 /\ i - 1 \in 0..n /\ ~(i <= i - 1)
  BY <1>1
<1> QED
  BY <1>1, <1>2

Steps(S, n) == [1..n -> [S -> S]]

Run(g, S, n, first, step) ==
    /\ g \in [0..n -> S] /\ g[0] = first
    /\ \A i \in 1..n : g[i] = step[i][g[i - 1]]

\* A first value and a function for every further one determine a sequence of values.
LEMMA Iteration ==
    ASSUME NEW S, NEW first \in S, NEW n \in Nat, NEW step \in Steps(S, n)
    PROVE  \E g : Run(g, S, n, first, step)
<1> DEFINE Good(g, k) == g[0] = first /\ \A i \in 1..k : g[i] = step[i][g[i - 1]]
           T == {k \in 0..n : \E g \in [0..k -> S] : Good(g, k)}
<1>0. step \in [1..n -> [S -> S]]
  BY DEF Steps
<1>1. 0 \in T
  <2> DEFINE h == [i \in 0..0 |-> first]
  <2>1. h \in [0..0 -> S] /\ h[0] = first /\ 1..0 = {}
    OBVIOUS
  <2> HIDE DEF h
  <2> QED
    BY <2>1
<1>2. ASSUME NEW k \in 1..n, k - 1 \in T PROVE k \in T
  <2>1. PICK g \in [0..(k - 1) -> S] : Good(g, k - 1)
    BY <1>2
  <2> DEFINE h == [i \in 0..k |-> IF i = k THEN step[k][g[k - 1]] ELSE g[i]]
  <2>2. h \in [0..k -> S]
    BY <1>0, <2>1
  <2>3. h[0] = first
    BY <2>1
  <2>4. \A i \in 1..k : h[i - 1] = g[i - 1]
    OBVIOUS
  <2>5. \A i \in 1..k : h[i] = step[i][h[i - 1]]
    BY <2>1, <2>4
  <2> HIDE DEF h
  <2> QED
    BY <2>2, <2>3, <2>5
<1>3. \A k \in 0..n : k \in T
  <2> HIDE DEF T
  <2> QED
    BY <1>1, <1>2, Upward
<1>4. n \in T
  <2> HIDE DEF T
  <2> QED
    BY <1>3
<1> QED
  BY <1>4 DEF Run

---------------------------------------------------------------------------
(* The ring of inputs.                                                     *)

Command == [sequence : Nat, tick : Nat, move : Int]

LEMMA Members ==
    ASSUME NEW c \in Seq(Command)
    PROVE  /\ Len(c) \in Nat
           /\ \A i \in 1..Len(c) : /\ c[i] \in Command
                                   /\ c[i].sequence \in Nat /\ c[i].tick \in Nat
                                   /\ c[i].move \in Int
<1>1. Len(c) \in Nat /\ \A i \in 1..Len(c) : c[i] \in Command
  OBVIOUS
<1> QED
  BY <1>1 DEF Command

Ascend(commands) ==
    \A i, j \in 1..Len(commands) : i < j => commands[i].sequence < commands[j].sequence

IsFirst(i, commands, sequence) ==
    /\ \A k \in 1..(i - 1) : commands[k].sequence <= sequence
    /\ i <= Len(commands) => commands[i].sequence > sequence

LEMMA FirstExists ==
    ASSUME NEW c \in Seq(Command), NEW s \in Nat
    PROVE  /\ FirstAfter(c, s) \in 1..(Len(c) + 1)
           /\ IsFirst(FirstAfter(c, s), c, s)
<1> DEFINE Past == {i \in 1..Len(c) : c[i].sequence > s}
<1>0. Len(c) \in Nat /\ \A i \in 1..Len(c) : c[i].sequence \in Nat
  BY Members
<1>1. \E i \in 1..(Len(c) + 1) : IsFirst(i, c, s)
  <2>1. CASE Past = {}
    <3>1. \A i \in 1..Len(c) : c[i].sequence <= s
      BY <1>0, <2>1
    <3>2. IsFirst(Len(c) + 1, c, s)
      BY <1>0, <3>1 DEF IsFirst
    <3> QED
      BY <1>0, <3>2
  <2>2. CASE Past # {}
    <3>1. PICK i \in Past : \A other \in Past : i <= other
      <4>1. Past \in SUBSET Nat
        OBVIOUS
      <4> HIDE DEF Past
      <4> QED
        BY <4>1, <2>2, Least
    <3>2. \A k \in 1..(i - 1) : c[k].sequence <= s
      <4> SUFFICES ASSUME NEW k \in 1..(i - 1) PROVE c[k].sequence <= s
        OBVIOUS
      <4>1. k \in 1..Len(c) /\ ~(i <= k)
        BY <1>0, <3>1
      <4>2. k \notin Past
        BY <3>1, <4>1
      <4> QED
        BY <1>0, <4>1, <4>2
    <3>3. IsFirst(i, c, s)
      BY <3>1, <3>2 DEF IsFirst
    <3> QED
      BY <1>0, <3>1, <3>3
  <2> QED
    BY <2>1, <2>2
<1> QED
  BY <1>1 DEF FirstAfter, IsFirst

\* There is only one place where the inputs past a sequence begin.
LEMMA FirstUnique ==
    ASSUME NEW c \in Seq(Command), NEW s \in Nat, NEW i \in 1..(Len(c) + 1), IsFirst(i, c, s)
    PROVE  FirstAfter(c, s) = i
<1> DEFINE j == FirstAfter(c, s)
<1>1. j \in 1..(Len(c) + 1) /\ IsFirst(j, c, s)
  BY FirstExists
<1>2. Len(c) \in Nat /\ \A k \in 1..Len(c) : c[k].sequence \in Nat
  BY Members
<1> HIDE DEF j
<1>3. ~(i < j)
  BY <1>1, <1>2 DEF IsFirst
<1>4. ~(j < i)
  BY <1>1, <1>2 DEF IsFirst
<1>5. j = i
  BY <1>1, <1>2, <1>3, <1>4
<1> QED
  BY <1>5 DEF j

\* Pending is the end of the ring, past the sequence.
LEMMA PendingIs ==
    ASSUME NEW c \in Seq(Command), NEW s \in Nat, Ascend(c)
    PROVE  LET p == FirstAfter(c, s)
               q == Pending(c, s)
           IN  /\ q \in Seq(Command) /\ Len(q) = Len(c) + 1 - p
               /\ \A i \in 1..Len(q) : /\ i + p - 1 \in 1..Len(c) /\ q[i] = c[i + p - 1]
                                       /\ q[i].sequence > s
               /\ Ascend(q)
<1> DEFINE p == FirstAfter(c, s)
           q == Pending(c, s)
<1>1. p \in 1..(Len(c) + 1) /\ IsFirst(p, c, s) /\ Len(c) \in Nat
  BY FirstExists
<1>2. q = SubSeq(c, p, Len(c))
  BY DEF Pending
<1> HIDE DEF p, q
<1>3. /\ q \in Seq(Command) /\ Len(q) = Len(c) + 1 - p
      /\ \A i \in 1..Len(q) : i + p - 1 \in 1..Len(c) /\ q[i] = c[i + p - 1]
  BY <1>1, <1>2
<1>4. \A i \in 1..Len(c) : c[i].sequence \in Nat
  BY Members
<1>5. \A i \in 1..Len(q) : q[i].sequence > s
  <2> SUFFICES ASSUME NEW i \in 1..Len(q) PROVE q[i].sequence > s
    OBVIOUS
  <2>1. i + p - 1 \in 1..Len(c) /\ q[i] = c[i + p - 1] /\ p \in 1..Len(c) /\ p <= i + p - 1
    BY <1>1, <1>3
  <2>2. c[p].sequence > s
    BY <1>1, <2>1 DEF IsFirst
  <2>3. i + p - 1 = p \/ c[p].sequence < c[i + p - 1].sequence
    BY <2>1 DEF Ascend
  <2> QED
    BY <1>4, <2>1, <2>2, <2>3
<1>6. Ascend(q)
  <2> SUFFICES ASSUME NEW i \in 1..Len(q), NEW j \in 1..Len(q), i < j
               PROVE  q[i].sequence < q[j].sequence
    BY DEF Ascend
  <2>1. i + p - 1 < j + p - 1
    BY <1>1
  <2> QED
    BY <1>1, <1>3, <2>1 DEF Ascend
<1> QED
  BY <1>3, <1>5, <1>6 DEF p, q

\* An input past the sequence joins what is pending.
LEMMA PendingAppend ==
    ASSUME NEW c \in Seq(Command), NEW s \in Nat, NEW e \in Command, e.sequence > s
    PROVE  Pending(Append(c, e), s) = Append(Pending(c, s), e)
<1> DEFINE p == FirstAfter(c, s)
           d == Append(c, e)
<1>1. p \in 1..(Len(c) + 1) /\ IsFirst(p, c, s) /\ Len(c) \in Nat
  BY FirstExists
<1>2. /\ d \in Seq(Command) /\ Len(d) = Len(c) + 1 /\ d[Len(c) + 1] = e
      /\ \A i \in 1..Len(c) : d[i] = c[i]
  OBVIOUS
<1> HIDE DEF p, d
<1>3. IsFirst(p, d, s)
  <2>1. \A k \in 1..(p - 1) : d[k].sequence <= s
    <3>1. 1..(p - 1) \subseteq 1..Len(c)
      BY <1>1
    <3> QED
      BY <1>1, <1>2, <3>1 DEF IsFirst
  <2>2. d[p].sequence > s
    BY <1>1, <1>2 DEF IsFirst
  <2> QED
    BY <2>1, <2>2 DEF IsFirst
<1>4. FirstAfter(d, s) = p
  <2>1. p \in 1..(Len(d) + 1)
    BY <1>1, <1>2
  <2> QED
    BY <1>2, <1>3, <2>1, FirstUnique
<1>5. SubSeq(d, p, Len(d)) = Append(SubSeq(c, p, Len(c)), e)
  <2>1. SubSeq(c, p, Len(c)) \in Seq(Command) /\ Len(SubSeq(c, p, Len(c))) = Len(c) + 1 - p
    BY <1>1
  <2>2. SubSeq(d, p, Len(d)) \in Seq(Command) /\ Len(SubSeq(d, p, Len(d))) = Len(c) + 2 - p
    BY <1>1, <1>2
  <2>3. \A i \in 1..(Len(c) + 1 - p) : /\ SubSeq(c, p, Len(c))[i] = c[i + p - 1]
                                       /\ SubSeq(d, p, Len(d))[i] = d[i + p - 1]
                                       /\ i + p - 1 \in 1..Len(c)
    BY <1>1, <1>2
  <2>4. SubSeq(d, p, Len(d))[Len(c) + 2 - p] = e
    BY <1>1, <1>2
  <2> DEFINE a == SubSeq(c, p, Len(c))
             b == SubSeq(d, p, Len(d))
  <2> HIDE DEF a, b
  <2>5. /\ Append(a, e) \in Seq(Command) /\ Len(Append(a, e)) = Len(a) + 1
        /\ Append(a, e)[Len(a) + 1] = e /\ \A i \in 1..Len(a) : Append(a, e)[i] = a[i]
    BY <2>1 DEF a
  <2>6. \A i \in 1..Len(b) : b[i] = Append(a, e)[i]
    <3> SUFFICES ASSUME NEW i \in 1..Len(b) PROVE b[i] = Append(a, e)[i]
      OBVIOUS
    <3>1. Len(a) = Len(c) + 1 - p /\ Len(b) = Len(a) + 1 /\ Len(a) \in Nat
      BY <1>1, <2>1, <2>2 DEF a, b
    <3>2. CASE i = Len(a) + 1
      <4>1. Len(a) + 1 = Len(c) + 2 - p
        BY <1>1, <3>1
      <4>2. b[Len(c) + 2 - p] = e
        BY <2>4 DEF b
      <4> QED
        BY <2>5, <3>2, <4>1, <4>2
    <3>3. CASE i \in 1..Len(a)
      <4>1. a[i] = c[i + p - 1] /\ b[i] = d[i + p - 1] /\ i + p - 1 \in 1..Len(c)
        BY <2>3, <3>1, <3>3 DEF a, b
      <4>2. b[i] = a[i]
        BY <1>2, <4>1
      <4> QED
        BY <2>5, <3>3, <4>2
    <3> QED
      BY <3>1, <3>2, <3>3
  <2>7. Len(b) = Len(Append(a, e))
    BY <1>1, <2>1, <2>2, <2>5 DEF a, b
  <2>8. b = Append(a, e)
    BY <2>2, <2>5, <2>6, <2>7, SeqEqual DEF b
  <2> QED
    BY <2>8 DEF a, b
<1> QED
  BY <1>4, <1>5 DEF Pending, p, d

\* Nothing is dropped of a ring that is past the sequence.
LEMMA PendingAll ==
    ASSUME NEW c \in Seq(Command), NEW s \in Nat, \A i \in 1..Len(c) : c[i].sequence > s
    PROVE  Pending(c, s) = c
<1>1. Len(c) \in Nat
  OBVIOUS
<1>2. IsFirst(1, c, s)
  BY <1>1 DEF IsFirst
<1>3. FirstAfter(c, s) = 1
  BY <1>1, <1>2, FirstUnique
<1>4. SubSeq(c, 1, Len(c)) = c
  BY SubSeqFull
<1> QED
  BY <1>3, <1>4 DEF Pending

\* To drop up to a sequence and then up to a later one is to drop up to the later one.
LEMMA PendingTwice ==
    ASSUME NEW c \in Seq(Command), Ascend(c), NEW s \in Nat, NEW t \in Nat, s <= t
    PROVE  Pending(Pending(c, s), t) = Pending(c, t)
<1> DEFINE p == FirstAfter(c, s)
           q == Pending(c, s)
           r == FirstAfter(q, t)
           z == r + p - 1
<1>1. p \in 1..(Len(c) + 1) /\ IsFirst(p, c, s) /\ Len(c) \in Nat
  BY FirstExists
<1>2. /\ q \in Seq(Command) /\ Len(q) = Len(c) + 1 - p
      /\ \A i \in 1..Len(q) : i + p - 1 \in 1..Len(c) /\ q[i] = c[i + p - 1]
  BY PendingIs
<1>3. r \in 1..(Len(q) + 1) /\ IsFirst(r, q, t)
  <2> HIDE DEF q
  <2> QED
    BY <1>2, FirstExists
<1>4. \A i \in 1..Len(c) : c[i].sequence \in Nat
  BY Members
<1>5. SubSeq(q, r, Len(q)) = SubSeq(c, z, Len(c))
  <2>0. q = SubSeq(c, p, Len(c))
    BY DEF Pending
  <2> HIDE DEF p, q, r
  <2>1. /\ SubSeq(q, r, Len(q)) \in Seq(Command)
        /\ Len(SubSeq(q, r, Len(q))) = Len(q) + 1 - r
        /\ \A i \in 1..(Len(q) + 1 - r) : SubSeq(q, r, Len(q))[i] = q[i + r - 1]
    BY <1>2, <1>3
  <2>2. z \in 1..(Len(c) + 1) /\ Len(c) + 1 - z = Len(q) + 1 - r
    BY <1>1, <1>2, <1>3
  <2> HIDE DEF z
  <2>3. /\ SubSeq(c, z, Len(c)) \in Seq(Command)
        /\ Len(SubSeq(c, z, Len(c))) = Len(q) + 1 - r
        /\ \A i \in 1..(Len(q) + 1 - r) : SubSeq(c, z, Len(c))[i] = c[i + z - 1]
    BY <1>1, <2>2
  <2>4. \A i \in 1..(Len(q) + 1 - r) : q[i + r - 1] = c[i + z - 1]
    <3> SUFFICES ASSUME NEW i \in 1..(Len(q) + 1 - r) PROVE q[i + r - 1] = c[i + z - 1]
      OBVIOUS
    <3>1. i + r - 1 \in 1..Len(q) /\ (i + r - 1) + p - 1 = i + z - 1
      BY <1>1, <1>2, <1>3 DEF z
    <3> QED
      BY <1>2, <3>1
  <2> QED
    BY <2>1, <2>3, <2>4, SeqEqual
<1> HIDE DEF p, q, r
<1>6. z \in 1..(Len(c) + 1)
  BY <1>1, <1>2, <1>3
<1>7. IsFirst(z, c, t)
  <2>1. \A k \in 1..(z - 1) : c[k].sequence <= t
    <3> SUFFICES ASSUME NEW k \in 1..(z - 1) PROVE c[k].sequence <= t
      OBVIOUS
    <3>1. CASE k < p
      <4>1. c[k].sequence <= s
        BY <1>1, <3>1 DEF IsFirst
      <4>2. k \in 1..Len(c)
        BY <1>1, <1>6
      <4> QED
        BY <1>4, <4>1, <4>2
    <3>2. CASE p <= k
      <4>1. k - p + 1 \in 1..(r - 1) /\ k - p + 1 \in 1..Len(q) /\ (k - p + 1) + p - 1 = k
        BY <1>1, <1>2, <1>3, <3>2
      <4>2. q[k - p + 1].sequence <= t
        BY <1>3, <4>1 DEF IsFirst
      <4>3. q[k - p + 1] = c[k]
        BY <1>2, <4>1
      <4> QED
        BY <4>2, <4>3
    <3> QED
      BY <1>1, <3>1, <3>2
  <2>2. z <= Len(c) => c[z].sequence > t
    <3> SUFFICES ASSUME z <= Len(c) PROVE c[z].sequence > t
      OBVIOUS
    <3>1. r \in 1..Len(q) /\ r <= Len(q)
      BY <1>1, <1>2, <1>3
    <3> QED
      BY <1>2, <1>3, <3>1 DEF IsFirst
  <2> QED
    BY <2>1, <2>2 DEF IsFirst
<1>8. FirstAfter(c, t) = z
  <2> HIDE DEF z
  <2> QED
    BY <1>6, <1>7, FirstUnique
<1> QED
  BY <1>5, <1>8 DEF Pending, q, r

\* What a replay applies of inputs that are all due: the first ones, up to the cap.
LEMMA AppliedIs ==
    ASSUME NEW c \in Seq(Command), NEW s \in Nat, NEW t \in Nat,
           \A i \in 1..Len(c) : c[i].sequence > s /\ c[i].tick <= t
    PROVE  Applied(c, s, t) = SubSeq(c, 1, IF Len(c) < MaxPredictionTicks THEN Len(c)
                                           ELSE MaxPredictionTicks)
<1> DEFINE m == IF Len(c) < MaxPredictionTicks THEN Len(c) ELSE MaxPredictionTicks
           Stops(n) == /\ n <= MaxPredictionTicks
                       /\ \A i \in 1..n : c[i].tick <= t
                       /\ \/ n \in {Len(c), MaxPredictionTicks}
                          \/ c[n + 1].tick > t
           k == CHOOSE n \in 0..Len(c) : Stops(n)
<1>1. Len(c) \in Nat /\ \A i \in 1..Len(c) : c[i].tick \in Nat
  BY Members
<1>2. MaxPredictionTicks \in Nat
  BY PredictionAssumption
<1>3. m \in 0..Len(c) /\ Stops(m)
  BY <1>1, <1>2
<1>4. k \in 0..Len(c) /\ Stops(k)
  <2> HIDE DEF Stops, m
  <2> QED
    BY <1>3
<1>5. k = m
  <2> HIDE DEF k
  <2>1. k = Len(c) \/ k = MaxPredictionTicks \/ (k + 1 \in 1..Len(c) /\ c[k + 1].tick > t)
    BY <1>1, <1>4
  <2> QED
    BY <1>1, <1>2, <1>4, <2>1
<1>6. Pending(c, s) = c
  BY PendingAll
<1> QED
  BY <1>5, <1>6 DEF Applied

\* Whatever is due, what a replay applies is a run of inputs.
LEMMA AppliedTyped ==
    ASSUME NEW c \in Seq(Command), Ascend(c), NEW s \in Nat, NEW t \in Nat
    PROVE  Applied(c, s, t) \in Seq(Command)
<1> DEFINE q == Pending(c, s)
           Stops(n) == /\ n <= MaxPredictionTicks
                       /\ \A i \in 1..n : q[i].tick <= t
                       /\ \/ n \in {Len(q), MaxPredictionTicks}
                          \/ q[n + 1].tick > t
           k == CHOOSE n \in 0..Len(q) : Stops(n)
<1>1. q \in Seq(Command)
  BY PendingIs
<1>2. Applied(c, s, t) = SubSeq(q, 1, k)
  BY DEF Applied
<1> HIDE DEF q
<1>3. Len(q) \in Nat /\ \A i \in 1..Len(q) : q[i].tick \in Nat
  BY <1>1, Members
<1>4. MaxPredictionTicks \in Nat
  BY PredictionAssumption
<1>5. \E n \in 0..Len(q) : Stops(n)
  <2> DEFINE Late == {i \in 1..Len(q) : q[i].tick > t}
             Ends == Late \cup {Len(q) + 1, MaxPredictionTicks + 1}
  <2>1. Ends \in SUBSET Nat /\ Ends # {}
    BY <1>3, <1>4
  <2>2. PICK e \in Ends : \A other \in Ends : e <= other
    <3> HIDE DEF Ends
    <3> QED
      BY <2>1, Least
  <2>3. e - 1 \in 0..Len(q) /\ e - 1 <= MaxPredictionTicks /\ (e - 1) + 1 = e
    BY <1>3, <1>4, <2>2
  <2>4. \A i \in 1..(e - 1) : q[i].tick <= t
    <3> SUFFICES ASSUME NEW i \in 1..(e - 1) PROVE q[i].tick <= t
      OBVIOUS
    <3>1. i \in 1..Len(q) /\ ~(e <= i)
      BY <1>3, <2>3
    <3>2. i \notin Late
      BY <2>2, <3>1
    <3> QED
      BY <1>3, <3>1, <3>2
  <2>5. e - 1 \in {Len(q), MaxPredictionTicks} \/ q[(e - 1) + 1].tick > t
    BY <1>3, <1>4, <2>2, <2>3
  <2> QED
    BY <2>3, <2>4, <2>5
<1>6. k \in 0..Len(q)
  <2> HIDE DEF Stops
  <2> QED
    BY <1>5
<1> HIDE DEF k
<1>7. SubSeq(q, 1, k) \in Seq(Command)
  BY <1>1, <1>3, <1>6
<1> QED
  BY <1>2, <1>7

---------------------------------------------------------------------------
(* The replay.                                                             *)

State == [id : Nat, tick : Nat, position : Int, motion : Int]

\* A replay ends with the body it began with, where the inputs have carried it.
LEMMA Replays ==
    ASSUME NEW b \in State, NEW c \in Seq(Command)
    PROVE  LET replay == ReplayFrom(b, c) IN
           /\ replay \in Seq(State) /\ Len(replay) = Len(c) + 1
           /\ Last(replay) \in State /\ Last(replay).id = b.id
           /\ Travelled(c) \in Int
           /\ Last(replay).position = b.position + Travelled(c)
<1> DEFINE n == Len(c)
           walk == CHOOSE g : g = [i \in 0..n |-> IF i = 0 THEN b
                                                  ELSE Integrate(g[i - 1], c[i])]
           sum == CHOOSE g : g = [i \in 0..n |-> IF i = 0 THEN 0 ELSE g[i - 1] + c[i].move]
<1>1. n \in Nat /\ \A i \in 1..n : c[i] \in Command
  BY Members
<1>2. ReplayFrom(b, c) = [i \in 1..(n + 1) |-> walk[i - 1]]
  BY DEF ReplayFrom
<1>3. Travelled(c) = sum[n]
  BY DEF Travelled
<1> HIDE DEF n
<1>0. n \in Nat
  BY <1>1
<1>4. ASSUME NEW i \in 1..n, NEW s \in State PROVE Integrate(s, c[i]) \in State
  <2>1. s.id \in Nat /\ s.position \in Int
    BY DEF State
  <2>2. c[i].tick \in Nat /\ c[i].move \in Int
    BY <1>1 DEF Command
  <2> QED
    BY <2>1, <2>2 DEF Integrate, State
<1>5. walk = [i \in 0..n |-> IF i = 0 THEN b ELSE Integrate(walk[i - 1], c[i])]
  <2> DEFINE step == [i \in 1..n |-> [s \in State |-> Integrate(s, c[i])]]
  <2>1. step \in Steps(State, n)
    BY <1>4 DEF Steps
  <2>2. PICK g : Run(g, State, n, b, step)
    <3> HIDE DEF step
    <3> QED
      BY <1>0, <2>1, Iteration
  <2>3. \A i \in 1..n : g[i] = Integrate(g[i - 1], c[i])
    <3> SUFFICES ASSUME NEW i \in 1..n PROVE g[i] = Integrate(g[i - 1], c[i])
      OBVIOUS
    <3>1. i - 1 \in 0..n
      BY <1>0
    <3>2. g[i - 1] \in State
      BY <2>2, <3>1 DEF Run
    <3> QED
      BY <2>2, <3>2 DEF Run
  <2>4. g = [i \in 0..n |-> IF i = 0 THEN b ELSE Integrate(g[i - 1], c[i])]
    BY <1>0, <2>2, <2>3 DEF Run
  <2> QED
    BY <2>4
<1>6. sum = [i \in 0..n |-> IF i = 0 THEN 0 ELSE sum[i - 1] + c[i].move]
  <2> DEFINE step == [i \in 1..n |-> [s \in Int |-> s + c[i].move]]
  <2>0. \A i \in 1..n : c[i].move \in Int
    BY <1>1 DEF Command
  <2>1. step \in Steps(Int, n)
    BY <2>0 DEF Steps
  <2>2. PICK g : Run(g, Int, n, 0, step)
    <3>1. 0 \in Int
      OBVIOUS
    <3> HIDE DEF step
    <3> QED
      BY <1>0, <2>1, <3>1, Iteration
  <2>3. \A i \in 1..n : g[i] = g[i - 1] + c[i].move
    <3> SUFFICES ASSUME NEW i \in 1..n PROVE g[i] = g[i - 1] + c[i].move
      OBVIOUS
    <3>1. i - 1 \in 0..n
      BY <1>0
    <3>2. g[i - 1] \in Int
      BY <2>2, <3>1 DEF Run
    <3> QED
      BY <2>2, <3>2 DEF Run
  <2>4. g = [i \in 0..n |-> IF i = 0 THEN 0 ELSE g[i - 1] + c[i].move]
    BY <1>0, <2>2, <2>3 DEF Run
  <2> QED
    BY <2>4
<1> HIDE DEF walk, sum
<1>7. /\ walk[0] = b /\ sum[0] = 0
      /\ \A i \in 1..n : /\ walk[i] = Integrate(walk[i - 1], c[i])
                         /\ sum[i] = sum[i - 1] + c[i].move
  BY <1>1, <1>5, <1>6
<1>8. \A i \in 0..n : /\ walk[i] \in State /\ walk[i].id = b.id /\ sum[i] \in Int
                      /\ walk[i].position = b.position + sum[i]
  <2> DEFINE T == {i \in 0..n : /\ walk[i] \in State /\ walk[i].id = b.id /\ sum[i] \in Int
                                /\ walk[i].position = b.position + sum[i]}
  <2>1. 0 \in T
    BY <1>1, <1>7 DEF State
  <2>2. ASSUME NEW i \in 1..n, i - 1 \in T PROVE i \in T
    <3>1. walk[i - 1] \in State /\ walk[i - 1].id = b.id /\ sum[i - 1] \in Int
      BY <2>2
    <3>2. walk[i] \in State
      BY <1>4, <1>7, <3>1
    <3>3. walk[i].id = walk[i - 1].id /\ walk[i].position = walk[i - 1].position + c[i].move
      <4>1. walk[i] = Integrate(walk[i - 1], c[i])
        BY <1>7
      <4>2. \A s, e : /\ Integrate(s, e).id = s.id
                     /\ Integrate(s, e).position = s.position + e.move
        BY DEF Integrate
      <4> QED
        BY <4>1, <4>2
    <3>4. c[i].move \in Int /\ b.position \in Int
      BY <1>1 DEF Command, State
    <3>5. sum[i] = sum[i - 1] + c[i].move /\ walk[i - 1].position = b.position + sum[i - 1]
      BY <1>7, <2>2
    <3>6. sum[i] \in Int /\ walk[i].position = b.position + sum[i]
      BY <3>1, <3>3, <3>4, <3>5
    <3> QED
      BY <3>1, <3>2, <3>3, <3>6
  <2>3. \A i \in 0..n : i \in T
    <3> HIDE DEF T
    <3> QED
      BY <1>0, <2>1, <2>2, Upward
  <2> QED
    BY <2>3
<1>9. /\ ReplayFrom(b, c) \in Seq(State) /\ Len(ReplayFrom(b, c)) = n + 1
      /\ Last(ReplayFrom(b, c)) = walk[n]
  <2> DEFINE r == ReplayFrom(b, c)
  <2>1. \A i \in 1..(n + 1) : i - 1 \in 0..n
    BY <1>0
  <2>2. \A i \in 1..(n + 1) : walk[i - 1] \in State
    BY <1>8, <2>1
  <2>3. r \in [1..(n + 1) -> State] /\ n + 1 \in Nat
    BY <1>0, <1>2, <2>2
  <2>4. r[n + 1] = walk[(n + 1) - 1]
    BY <1>0, <1>2
  <2> HIDE DEF r
  <2>5. r \in Seq(State) /\ Len(r) = n + 1
    BY <2>3
  <2> QED
    BY <1>0, <2>4, <2>5 DEF Last, r
<1>10. n \in 0..n
  BY <1>0
<1> QED
  BY <1>3, <1>8, <1>9, <1>10 DEF n

LEMMA TravelledInt ==
    ASSUME NEW c \in Seq(Command)
    PROVE  Travelled(c) \in Int
<1>1. Nowhere \in State
  BY DEF Nowhere, State, None
<1> QED
  BY <1>1, Replays

\* What is recorded of a replay fits into the buffer.
LEMMA RecordedFits ==
    ASSUME states \in Seq(State), Len(states) <= StateBufferDepth,
           NEW replay \in Seq(State), Len(replay) >= 1
    PROVE  Recorded(replay) \in Seq(State) /\ Len(Recorded(replay)) <= StateBufferDepth
<1> DEFINE S == {s \in Seq(State) : Len(s) <= StateBufferDepth}
           n == Len(replay) - 1
           kept == CHOOSE g : g = [i \in 0..n |-> IF i = 0 THEN states
                                                  ELSE Record(g[i - 1], replay[i + 1])]
<1>1. n \in Nat /\ \A i \in 1..n : replay[i + 1] \in State
  OBVIOUS
<1>0. n \in Nat
  BY <1>1
<1>2. Recorded(replay) = kept[n]
  BY DEF Recorded
<1> HIDE DEF n
<1>3. ASSUME NEW s \in S, NEW e \in State PROVE Record(s, e) \in S
  <2>1. StateBufferDepth \in Nat \ {0}
    BY PredictionAssumption
  <2>2. CASE Len(s) < StateBufferDepth
    BY <2>1, <2>2 DEF Record
  <2>3. CASE ~(Len(s) < StateBufferDepth)
    <3>1. Tail(s) \in Seq(State) /\ Len(Tail(s)) = Len(s) - 1
      BY <2>1, <2>3
    <3>2. Append(Tail(s), e) \in S
      BY <2>1, <3>1
    <3> QED
      BY <2>3, <3>2 DEF Record
  <2> QED
    BY <2>2, <2>3
<1>4. kept = [i \in 0..n |-> IF i = 0 THEN states ELSE Record(kept[i - 1], replay[i + 1])]
  <2> DEFINE step == [i \in 1..n |-> [s \in S |-> Record(s, replay[i + 1])]]
  <2>1. step \in Steps(S, n)
    <3> HIDE DEF S
    <3> QED
      BY <1>1, <1>3 DEF Steps
  <2>2. PICK g : Run(g, S, n, states, step)
    <3>1. states \in S
      OBVIOUS
    <3> HIDE DEF step, S
    <3> QED
      BY <1>0, <2>1, <3>1, Iteration
  <2> HIDE DEF S
  <2>3. \A i \in 1..n : g[i] = Record(g[i - 1], replay[i + 1])
    <3> SUFFICES ASSUME NEW i \in 1..n PROVE g[i] = Record(g[i - 1], replay[i + 1])
      OBVIOUS
    <3>1. i - 1 \in 0..n
      BY <1>0
    <3>2. g[i - 1] \in S
      BY <2>2, <3>1 DEF Run
    <3> QED
      BY <2>2, <3>2 DEF Run
  <2>4. g = [i \in 0..n |-> IF i = 0 THEN states ELSE Record(g[i - 1], replay[i + 1])]
    BY <1>0, <2>2, <2>3 DEF Run
  <2> QED
    BY <2>4
<1> HIDE DEF kept
<1>5. /\ kept[0] = states
      /\ \A i \in 1..n : kept[i] = Record(kept[i - 1], replay[i + 1])
  BY <1>1, <1>4
<1>6. \A i \in 0..n : kept[i] \in S
  <2> DEFINE T == {i \in 0..n : kept[i] \in S}
  <2>1. 0 \in T
    BY <1>1, <1>5
  <2>2. ASSUME NEW i \in 1..n, i - 1 \in T PROVE i \in T
    <3> HIDE DEF S
    <3> QED
      BY <1>1, <1>3, <1>5, <2>2
  <2>3. \A i \in 0..n : i \in T
    <3> HIDE DEF T
    <3> QED
      BY <1>1, <2>1, <2>2, Upward
  <2> QED
    BY <2>3
<1> QED
  BY <1>1, <1>2, <1>6

---------------------------------------------------------------------------
(* The inductive invariant.                                                *)

\* What a frame says; it acknowledges no input that has not been recorded.
FrameOK(f) ==
    /\ f.tick \in Nat /\ f.ackedInputSequence \in 0..lastSequence
    /\ \A i \in DOMAIN f.players : f.players[i].entity \in Nat /\ f.players[i].position \in Int

Typed ==
    /\ host.tick \in Nat /\ host.position \in Int /\ host.processed \in 0..lastSequence
    /\ \A f \in sent : FrameOK(f)
    /\ clientTick \in 0..MaxClientTick /\ identity \in BOOLEAN
    /\ polled \in 0..clientTick /\ (phase = "poll" => polled < clientTick)
    /\ lastSequence \in 0..polled
    /\ states \in Seq(State) /\ confirmed \in State /\ current \in State
    /\ confirmedSequence \in 0..lastSequence

\* The ring of inputs holds what was recorded and is not yet acknowledged.
RingInv ==
    /\ taken \in Seq(Command) /\ Ascend(taken)
    /\ \A i \in 1..Len(taken) : taken[i].sequence <= lastSequence /\ taken[i].tick <= clientTick
    /\ inputs = Pending(taken, confirmedSequence)

\* What is confirmed is what a frame said, of the body that is shown.
ConfirmedInv ==
    /\ current.id = confirmed.id
    /\ \/ confirmed = Nowhere /\ confirmedSequence = 0
       \/ \E f \in sent : \E i \in DOMAIN f.players :
             /\ f.ackedInputSequence = confirmedSequence
             /\ f.players[i].entity \in {None, confirmed.id}
             /\ f.players[i].position = confirmed.position

\* Between two passes the confirmed inputs are shown with the others on top.
ShownOwn ==
    phase = "idle" /\ clientTick > 0 /\ ~identity =>
        current = Last(ReplayFrom(confirmed, Applied(inputs, confirmedSequence, clientTick)))

PhaseInv == IF identity THEN phase \in {"idle", "identity"} ELSE phase # "identity"

FramesInv ==
    /\ frames \in Seq(sent)
    /\ \A i, j \in 1..Len(frames) : i < j => frames[i].tick < frames[j].tick

\* The others are shown at one time, which no later frame and no later pass runs behind.
ShownOthers ==
    ~identity =>
        /\ \A e \in shown : /\ e.time \in Nat /\ frames # <<>> /\ e.time <= Last(frames).tick
                            /\ e.time <= Head(frames).tick \/ e.time <= Target(clientTick)
        /\ \A e, other \in shown : e.time = other.time

Inv == /\ TypeOK /\ Typed /\ RingInv /\ ConfirmedInv /\ ShownOwn /\ PhaseInv /\ FramesInv
       /\ ShownOthers

---------------------------------------------------------------------------
(* The frames of the others.                                               *)

FrameTicks(q) ==
    /\ \A i \in 1..Len(q) : q[i].tick \in Nat
    /\ \A i, j \in 1..Len(q) : i < j => q[i].tick < q[j].tick

\* A ring that is not empty ends no earlier than it begins.
LEMMA HeadAndLast ==
    ASSUME NEW S, NEW q \in Seq(S), q # <<>>, FrameTicks(q)
    PROVE  /\ Len(q) \in Nat /\ Len(q) >= 1 /\ Head(q) = q[1] /\ Last(q) = q[Len(q)]
           /\ Head(q).tick \in Nat /\ Last(q).tick \in Nat /\ Head(q).tick <= Last(q).tick
           /\ \A i \in 1..Len(q) : Head(q).tick <= q[i].tick /\ q[i].tick <= Last(q).tick
<1>1. Len(q) \in Nat /\ Len(q) >= 1 /\ Head(q) = q[1] /\ Last(q) = q[Len(q)]
  BY DEF Last
<1>2. \A i, j \in 1..Len(q) : i <= j => q[i].tick <= q[j].tick
  <2> SUFFICES ASSUME NEW i \in 1..Len(q), NEW j \in 1..Len(q), i <= j
               PROVE  q[i].tick <= q[j].tick
    OBVIOUS
  <2>1. i = j \/ i < j
    BY <1>1
  <2> QED
    BY <2>1 DEF FrameTicks
<1>3. 1 \in 1..Len(q) /\ Len(q) \in 1..Len(q)
  BY <1>1
<1> QED
  BY <1>1, <1>2, <1>3 DEF FrameTicks

LEMMA FramesTyped ==
    ASSUME Typed, FramesInv
    PROVE  FrameTicks(frames)
<1>1. \A i \in 1..Len(frames) : frames[i] \in sent
  BY DEF FramesInv
<1> QED
  BY <1>1 DEF FramesInv, FrameTicks, Typed, FrameOK

\* Push keeps the ring ascending, and moves both of its ends onwards.
LEMMA Pushed ==
    ASSUME Typed, FramesInv, Len(frames) <= StateBufferDepth, NEW f \in sent
    PROVE  LET q == PushFrame(f) IN
           /\ q \in Seq(sent) /\ FrameTicks(q) /\ Len(q) <= StateBufferDepth
           /\ frames # <<>> => /\ q # <<>> /\ Head(frames).tick <= Head(q).tick
                               /\ Last(frames).tick <= Last(q).tick
<1>0. FrameTicks(frames)
  BY FramesTyped
<1>1. CASE frames # <<>> /\ f.tick <= Last(frames).tick
  <2>1. PushFrame(f) = frames
    BY <1>1 DEF PushFrame
  <2>2. Head(frames).tick \in Nat /\ Last(frames).tick \in Nat
    BY <1>0, <1>1, HeadAndLast DEF FramesInv
  <2> QED
    BY <1>0, <1>1, <2>1, <2>2 DEF FramesInv
<1>2. CASE ~(frames # <<>> /\ f.tick <= Last(frames).tick)
  <2> DEFINE kept == IF Len(frames) < StateBufferDepth THEN frames ELSE Tail(frames)
             d == IF Len(frames) < StateBufferDepth THEN 0 ELSE 1
             q == Append(kept, f)
  <2>0. PushFrame(f) = q
    BY <1>2 DEF PushFrame
  <2>1. f.tick \in Nat /\ StateBufferDepth \in Nat /\ StateBufferDepth > 0
    BY PredictionAssumption DEF Typed, FrameOK
  <2>2. /\ kept \in Seq(sent) /\ Len(kept) = Len(frames) - d /\ Len(kept) < StateBufferDepth
        /\ \A i \in 1..Len(kept) : kept[i] = frames[i + d] /\ i + d \in 1..Len(frames)
    BY <2>1 DEF FramesInv
  <2>3. d \in {0, 1} /\ Len(frames) \in Nat
    BY DEF FramesInv
  <2> HIDE DEF kept, d
  <2>4. /\ q \in Seq(sent) /\ Len(q) = Len(kept) + 1 /\ q[Len(kept) + 1] = f
        /\ \A i \in 1..Len(kept) : q[i] = kept[i]
    BY <2>2
  <2> HIDE DEF q
  <2>5. \A i \in 1..Len(kept) : q[i] = frames[i + d] /\ i + d \in 1..Len(frames)
    BY <2>2, <2>4
  <2>6. \A i \in 1..Len(frames) : frames[i].tick \in Nat /\ frames[i].tick < f.tick
    <3> SUFFICES ASSUME NEW i \in 1..Len(frames)
                 PROVE  frames[i].tick \in Nat /\ frames[i].tick < f.tick
      OBVIOUS
    <3>1. frames # <<>>
      BY DEF FramesInv
    <3>2. Last(frames).tick \in Nat /\ frames[i].tick <= Last(frames).tick
      BY <1>0, <3>1, HeadAndLast DEF FramesInv
    <3>3. frames[i].tick \in Nat
      BY <1>0 DEF FrameTicks
    <3> QED
      BY <1>2, <2>1, <3>1, <3>2, <3>3
  <2>7. Len(kept) \in Nat
    BY <2>2
  <2>8. FrameTicks(q)
    <3>1. \A i \in 1..Len(q) : q[i].tick \in Nat
      BY <2>1, <2>4, <2>5, <2>6, <2>7
    <3>2. ASSUME NEW i \in 1..Len(q), NEW j \in 1..Len(q), i < j
          PROVE  q[i].tick < q[j].tick
      <4>1. i \in 1..Len(kept)
        BY <2>4, <2>7, <3>2
      <4>2. CASE j = Len(kept) + 1
        BY <2>4, <2>5, <2>6, <4>1, <4>2
      <4>3. CASE j \in 1..Len(kept)
        <5>1. i + d < j + d
          BY <2>3, <3>2
        <5>2. /\ q[i] = frames[i + d] /\ i + d \in 1..Len(frames)
              /\ q[j] = frames[j + d] /\ j + d \in 1..Len(frames)
          BY <2>5, <4>1, <4>3
        <5> QED
          BY <5>1, <5>2 DEF FramesInv
      <4> QED
        BY <2>4, <2>7, <4>2, <4>3
    <3> QED
      BY <3>1, <3>2 DEF FrameTicks
  <2>9. q # <<>> /\ Len(q) <= StateBufferDepth
    BY <2>1, <2>2, <2>4, <2>7
  <2>10. ASSUME frames # <<>>
         PROVE  Head(frames).tick <= Head(q).tick /\ Last(frames).tick <= Last(q).tick
    <3>1. /\ Head(frames).tick \in Nat /\ Last(frames) = frames[Len(frames)]
          /\ Len(frames) >= 1
          /\ \A i \in 1..Len(frames) : Head(frames).tick <= frames[i].tick
      BY <1>0, <2>10, HeadAndLast DEF FramesInv
    <3>2. Head(q) = q[1] /\ Last(q) = q[Len(q)] /\ Last(q) = f
      BY <2>4, <2>8, <2>9, HeadAndLast
    <3>3. Last(frames).tick < f.tick /\ Last(frames).tick \in Nat
      BY <2>3, <2>6, <3>1
    <3>4. Head(frames).tick <= q[1].tick
      <4>1. CASE Len(kept) = 0
        <5>1. q[1] = f
          BY <2>4, <4>1
        <5>2. 1 \in 1..Len(frames)
          BY <2>3, <3>1
        <5> QED
          BY <2>1, <2>6, <3>1, <5>1, <5>2
      <4>2. CASE Len(kept) # 0
        <5>1. 1 \in 1..Len(kept)
          BY <2>7, <4>2
        <5> QED
          BY <2>5, <3>1, <5>1
      <4> QED
        BY <4>1, <4>2
    <3> QED
      BY <2>1, <3>2, <3>3, <3>4
  <2> QED
    BY <2>0, <2>4, <2>8, <2>9, <2>10
<1> QED
  BY <1>1, <1>2

\* The time at which the others are shown: the target, within the frames there are.
ShownTime ==
    LET target == Target(clientTick)
    IN  IF target <= Head(frames).tick THEN Head(frames).tick
        ELSE IF target >= Last(frames).tick THEN Last(frames).tick ELSE target

LEMMA TargetNat ==
    ASSUME clientTick \in Nat
    PROVE  Target(clientTick) \in Nat
  BY PredictionAssumption DEF Target

LEMMA Interpolated ==
    ASSUME Typed, FramesInv, NEW e \in Interpolate(clientTick)
    PROVE  frames # <<>> /\ e.time = ShownTime
<1> DEFINE target == Target(clientTick)
           pair == Pair(target)
<1>1. frames # <<>>
  BY DEF Interpolate
<1>2. e.time = Blend(pair, target)
  BY <1>1 DEF Interpolate
<1>3. /\ Len(frames) \in Nat /\ Len(frames) >= 1
      /\ Head(frames) = frames[1] /\ Last(frames) = frames[Len(frames)]
      /\ \A i \in 1..Len(frames) : frames[i].tick \in Nat
  BY <1>1, FramesTyped, HeadAndLast DEF FrameTicks, FramesInv
<1>4. target \in Nat
  BY TargetNat, PredictionAssumption DEF Typed
<1> HIDE DEF target
<1>5. CASE target <= Head(frames).tick
  <2>1. pair = <<Head(frames), Head(frames)>>
    BY <1>5 DEF Pair
  <2>2. Blend(pair, target) = Head(frames).tick
    BY <2>1 DEF Blend
  <2> QED
    BY <1>1, <1>2, <1>5, <2>2 DEF ShownTime, target
<1>6. CASE ~(target <= Head(frames).tick) /\ target >= Last(frames).tick
  <2>1. pair = <<Last(frames), Last(frames)>>
    BY <1>6 DEF Pair
  <2>2. Blend(pair, target) = Last(frames).tick
    BY <2>1 DEF Blend
  <2> QED
    BY <1>1, <1>2, <1>6, <2>2 DEF ShownTime, target
<1>7. CASE ~(target <= Head(frames).tick) /\ ~(target >= Last(frames).tick)
  <2> DEFINE Between(k) == frames[k].tick <= target /\ target < frames[k + 1].tick
             i == CHOOSE k \in 1..(Len(frames) - 1) : Between(k)
             Later == {k \in 1..Len(frames) : frames[k].tick > target}
  <2>1. pair = <<frames[i], frames[i + 1]>>
    BY <1>7 DEF Pair
  <2>2. \E k \in 1..(Len(frames) - 1) : Between(k)
    <3>1. Later \in SUBSET Nat /\ Len(frames) \in Later
      BY <1>3, <1>4, <1>7
    <3>2. PICK j \in Later : \A other \in Later : j <= other
      <4> HIDE DEF Later
      <4> QED
        BY <3>1, Least
    <3>3. j # 1
      BY <1>3, <1>4, <1>7, <3>2
    <3>4. j - 1 \in 1..(Len(frames) - 1) /\ j - 1 \in 1..Len(frames) /\ ~(j <= j - 1)
      BY <1>3, <3>2, <3>3
    <3>5. j - 1 \notin Later
      BY <3>2, <3>4
    <3>6. frames[j - 1].tick <= target /\ target < frames[(j - 1) + 1].tick
      BY <1>3, <1>4, <3>2, <3>4, <3>5
    <3> QED
      BY <3>4, <3>6
  <2>3. Between(i)
    <3> HIDE DEF Between
    <3> QED
      BY <2>2
  <2>4. i \in 1..(Len(frames) - 1)
    <3> HIDE DEF Between
    <3> QED
      BY <2>2
  <2> HIDE DEF i
  <2>5. frames[i].tick \in Nat /\ frames[i + 1].tick \in Nat
    BY <1>3, <2>4
  <2>6. frames[i] # frames[i + 1]
    BY <1>4, <2>3, <2>5
  <2> HIDE DEF pair
  <2>7. pair[1] = frames[i] /\ pair[2] = frames[i + 1]
    BY <2>1
  <2>8. Blend(pair, target) = target
    BY <2>6, <2>7 DEF Blend
  <2> QED
    BY <1>1, <1>2, <1>7, <2>8 DEF ShownTime, target
<1> QED
  BY <1>5, <1>6, <1>7

---------------------------------------------------------------------------
(* The invariant holds at first and is kept by every action.               *)

LEMMA InitInv == Init => Inv
<1> SUFFICES ASSUME Init PROVE Inv
  OBVIOUS
<1>1. TypeOK
  BY PredictionAssumption DEF Init, TypeOK
<1>2. Nowhere \in State
  BY DEF Nowhere, State, None
<1>3. Typed
  BY <1>2, PredictionAssumption DEF Init, Typed
<1>4. <<>> \in Seq(Command) /\ Len(<<>>) = 0 /\ 1..0 = {}
  OBVIOUS
<1>5. Pending(<<>>, 0) = <<>>
  BY <1>4, PendingAll
<1>6. RingInv
  BY <1>4, <1>5 DEF Init, RingInv, Ascend
<1>7. ConfirmedInv /\ ShownOwn /\ PhaseInv /\ FramesInv /\ ShownOthers
  BY <1>4 DEF Init, ConfirmedInv, ShownOwn, PhaseInv, FramesInv, ShownOthers
<1> QED
  BY <1>1, <1>3, <1>6, <1>7 DEF Inv

LEMMA HostFrameInv == Inv /\ HostFrame => Inv'
<1> SUFFICES ASSUME Inv, HostFrame PROVE Inv'
  OBVIOUS
<1> USE DEF Inv
<1>1. PICK to \in host.processed..lastSequence, shove \in Shoves, scene \in Scenes :
          LET position == host.position + shove + Travelled(Processed(host.processed, to))
              frame == [tick |-> host.tick + 1, ackedInputSequence |-> to,
                        players |-> [i \in DOMAIN scene.players |->
                                        [entity |-> scene.players[i],
                                         position |-> IF scene.players[i] = 1
                                                      THEN position ELSE 0]],
                        entities |-> scene.entities]
          IN  /\ host' = [tick |-> host.tick + 1, position |-> position, processed |-> to]
              /\ sent' = sent \cup {frame}
  BY DEF HostFrame
<1> DEFINE position == host.position + shove + Travelled(Processed(host.processed, to))
           frame == [tick |-> host.tick + 1, ackedInputSequence |-> to,
                     players |-> [i \in DOMAIN scene.players |->
                                     [entity |-> scene.players[i],
                                      position |-> IF scene.players[i] = 1
                                                   THEN position ELSE 0]],
                     entities |-> scene.entities]
<1>2. host' = [tick |-> host.tick + 1, position |-> position, processed |-> to]
      /\ sent' = sent \cup {frame}
  BY <1>1
<1>3. UNCHANGED <<localVars, phase, clientTick, identity, frames, shown>>
  BY DEF HostFrame
<1>4. to \in 0..lastSequence /\ lastSequence \in Nat /\ host.processed \in Nat /\ to \in Nat
  BY DEF Typed
<1>5. Processed(host.processed, to) \in Seq(Command)
  <2>1. /\ FirstAfter(taken, host.processed) \in 1..(Len(taken) + 1)
        /\ FirstAfter(taken, to) \in 1..(Len(taken) + 1)
    BY <1>4, FirstExists DEF RingInv
  <2>2. taken \in Seq(Command) /\ Len(taken) \in Nat
    BY DEF RingInv
  <2>3. ASSUME NEW m \in 1..(Len(taken) + 1), NEW n \in 1..(Len(taken) + 1)
        PROVE  SubSeq(taken, m, n - 1) \in Seq(Command)
    BY <2>2
  <2> QED
    BY <2>1, <2>3 DEF Processed
<1>6. position \in Int
  <2>1. Travelled(Processed(host.processed, to)) \in Int
    BY <1>5, TravelledInt
  <2>2. host.position \in Int /\ shove \in Int
    BY PredictionAssumption DEF Typed
  <2> QED
    BY <2>1, <2>2
<1> HIDE DEF position
<1>7. FrameOK(frame)
  <2>1. scene.players \in Seq(Nat)
    BY PredictionAssumption
  <2>2. \A i \in DOMAIN scene.players : scene.players[i] \in Nat
    BY <2>1
  <2>3. host.tick + 1 \in Nat
    BY DEF Typed
  <2> QED
    BY <1>4, <1>6, <2>2, <2>3 DEF FrameOK
<1>8. frame \in sent' /\ \A f \in sent' : f \in sent \/ f = frame
  BY <1>2
<1> HIDE DEF frame
<1>9. Typed'
  <2>1. \A f \in sent' : FrameOK(f)
    BY <1>7, <1>8 DEF Typed
  <2>2. \A f : FrameOK(f)' <=> FrameOK(f)
    BY <1>3 DEF FrameOK, localVars
  <2>3. host'.tick \in Nat /\ host'.position \in Int /\ host'.processed \in 0..lastSequence
    BY <1>2, <1>4, <1>6 DEF Typed
  <2> QED
    BY <1>3, <2>1, <2>2, <2>3 DEF Typed, localVars
<1>10. sent \subseteq sent'
  BY <1>2
<1>11. TypeOK' /\ RingInv' /\ PhaseInv' /\ ShownOwn' /\ ShownOthers'
  <2>1. TypeOK' /\ PhaseInv'
    BY <1>3 DEF TypeOK, PhaseInv, localVars
  <2>2. RingInv'
    BY <1>3 DEF RingInv, localVars
  <2>3. ShownOwn'
    BY <1>3 DEF ShownOwn, localVars
  <2>4. ShownOthers'
    BY <1>3 DEF ShownOthers
  <2> QED
    BY <2>1, <2>2, <2>3, <2>4
<1>12. ConfirmedInv'
  BY <1>3, <1>10 DEF ConfirmedInv, localVars
<1>13. FramesInv'
  <2>1. \A i \in 1..Len(frames) : frames[i] \in sent'
    BY <1>10 DEF FramesInv
  <2>2. frames \in Seq(sent')
    BY <1>10 DEF FramesInv
  <2> QED
    BY <1>3, <2>2 DEF FramesInv
<1> QED
  BY <1>9, <1>11, <1>12, <1>13

\* A pass begins: nothing is shown yet, and the time to show moves on.
LEMMA AdvanceInv == Inv /\ Advance => Inv'
<1> SUFFICES ASSUME Inv, Advance PROVE Inv'
  OBVIOUS
<1> USE DEF Inv
<1>1. /\ phase = "idle" /\ clientTick < MaxClientTick /\ clientTick' = clientTick + 1
      /\ phase' = IF identity THEN "identity" ELSE "poll"
      /\ UNCHANGED <<hostVars, localVars, identity, frames, shown>>
  BY DEF Advance
<1>2. clientTick \in Nat /\ MaxClientTick \in Nat
  BY PredictionAssumption DEF Typed
<1>3. TypeOK' /\ PhaseInv'
  BY <1>1 DEF TypeOK, PhaseInv, Typed, localVars
<1>4. Typed'
  <2>1. \A f : FrameOK(f)' <=> FrameOK(f)
    BY <1>1 DEF FrameOK, localVars
  <2>2. clientTick' \in 0..MaxClientTick /\ polled \in 0..clientTick' /\ polled < clientTick'
    BY <1>1, <1>2 DEF Typed
  <2> QED
    BY <1>1, <2>1, <2>2 DEF Typed, localVars, hostVars
<1>5. RingInv'
  <2>1. \A i \in 1..Len(taken) : taken[i].tick <= clientTick'
    <3> SUFFICES ASSUME NEW i \in 1..Len(taken) PROVE taken[i].tick <= clientTick'
      OBVIOUS
    <3>1. taken[i].tick \in Nat /\ taken[i].tick <= clientTick
      BY Members DEF RingInv
    <3> QED
      BY <1>1, <1>2, <3>1
  <2> QED
    BY <1>1, <2>1 DEF RingInv, localVars
<1>6. ConfirmedInv' /\ FramesInv'
  BY <1>1 DEF ConfirmedInv, FramesInv, localVars, hostVars
<1>7. ShownOwn'
  BY <1>1 DEF ShownOwn
<1>8. ShownOthers'
  <2>1. Target(clientTick) <= Target(clientTick')
    BY <1>1, <1>2, PredictionAssumption DEF Target
  <2>2. Target(clientTick) \in Nat /\ Target(clientTick') \in Nat
    BY <1>1, <1>2, PredictionAssumption DEF Target
  <2>3. \A e \in shown : e.time \in Nat /\ e.time <= Target(clientTick) =>
            e.time <= Target(clientTick')
    BY <2>1, <2>2
  <2> QED
    BY <1>1, <2>3 DEF ShownOthers
<1> QED
  BY <1>3, <1>4, <1>5, <1>6, <1>7, <1>8

LEMMA ShowAuthoritativeInv == Inv /\ ShowAuthoritative => Inv'
<1> SUFFICES ASSUME Inv, ShowAuthoritative PROVE Inv'
  OBVIOUS
<1> USE DEF Inv
<1>1. /\ phase = "identity"
      /\ UNCHANGED <<hostVars, localVars, phase, clientTick, identity, frames>>
  BY DEF ShowAuthoritative
<1>2. identity
  BY <1>1 DEF PhaseInv, Typed
<1>3. TypeOK' /\ PhaseInv' /\ RingInv' /\ ConfirmedInv' /\ FramesInv'
  BY <1>1 DEF TypeOK, PhaseInv, RingInv, ConfirmedInv, FramesInv, localVars, hostVars
<1>4. Typed'
  <2>1. \A f : FrameOK(f)' <=> FrameOK(f)
    BY <1>1 DEF FrameOK, localVars
  <2> QED
    BY <1>1, <2>1 DEF Typed, localVars, hostVars
<1>5. ShownOwn' /\ ShownOthers'
  BY <1>1, <1>2 DEF ShownOwn, ShownOthers
<1> QED
  BY <1>3, <1>4, <1>5

\* An input that is taken joins the ring and the history; one that is not leaves both.
LEMMA PollInputInv == Inv /\ PollInput => Inv'
<1> SUFFICES ASSUME Inv, PollInput PROVE Inv'
  OBVIOUS
<1> USE DEF Inv
<1>1. /\ phase = "poll" /\ phase' = "drain"
      /\ UNCHANGED <<hostVars, clientTick, identity, frames, shown>>
  BY DEF PollInput
<1>2. ~identity
  BY <1>1 DEF PhaseInv
<1>3. PhaseInv' /\ ShownOwn' /\ ShownOthers' /\ FramesInv'
  BY <1>1, <1>2 DEF PhaseInv, ShownOwn, ShownOthers, FramesInv, hostVars
<1>4. CASE UNCHANGED localVars
  <2>1. TypeOK' /\ RingInv' /\ ConfirmedInv'
    BY <1>1, <1>4 DEF TypeOK, RingInv, ConfirmedInv, localVars, hostVars
  <2>2. \A f : FrameOK(f)' <=> FrameOK(f)
    BY <1>4 DEF FrameOK, localVars
  <2>3. Typed'
    BY <1>1, <1>4, <2>2 DEF Typed, localVars, hostVars
  <2> QED
    BY <1>3, <2>1, <2>3
<1>5. ASSUME NEW sequence \in {polled, polled + 1} \ {0}, polled' = sequence,
             Push([sequence |-> sequence, tick |-> clientTick, move |-> Move(sequence)]),
             UNCHANGED <<states, confirmed, confirmedSequence, current, correction>>
      PROVE  Inv'
  <2> DEFINE command == [sequence |-> sequence, tick |-> clientTick, move |-> Move(sequence)]
  <2>0. /\ clientTick \in Nat /\ clientTick <= MaxClientTick /\ MaxClientTick \in Nat
        /\ polled \in Nat /\ polled < clientTick /\ lastSequence \in Nat
        /\ lastSequence <= polled /\ confirmedSequence \in Nat
        /\ confirmedSequence <= lastSequence
    BY <1>1, PredictionAssumption DEF Typed
  <2>1. sequence \in 1..MaxClientTick /\ sequence <= clientTick /\ polled <= sequence
    BY <1>5, <2>0
  <2>2. command \in Command
    BY <2>0, <2>1, PredictionAssumption DEF Command
  <2>3. command.sequence = sequence /\ command.tick = clientTick
    OBVIOUS
  <2> HIDE DEF command
  <2>4. \A f : f.ackedInputSequence \in 0..lastSequence =>
            f.ackedInputSequence \in 0..sequence
    BY <2>0, <2>1
  <2>5. CASE sequence > lastSequence /\ Len(inputs) < InputBufferDepth
    <3>1. /\ inputs' = Append(inputs, command) /\ lastSequence' = sequence
          /\ taken' = Append(taken, command)
      BY <1>5, <2>3, <2>5 DEF Push, command
    <3>2. inputs \in Seq(Command) /\ InputBufferDepth \in Nat
      BY <2>0, PendingIs, PredictionAssumption DEF RingInv
    <3>3. TypeOK'
      <4>1. Len(inputs') <= InputBufferDepth
        BY <2>2, <2>5, <3>1, <3>2
      <4> QED
        BY <1>1, <1>5, <4>1 DEF TypeOK
    <3>4. RingInv'
      <4>1. /\ taken' \in Seq(Command) /\ Len(taken') = Len(taken) + 1 /\ Len(taken) \in Nat
            /\ taken'[Len(taken) + 1] = command
            /\ \A i \in 1..Len(taken) : taken'[i] = taken[i]
        BY <2>2, <3>1 DEF RingInv
      <4>2. \A i \in 1..Len(taken) : /\ taken[i].sequence \in Nat
                                     /\ taken[i].sequence <= lastSequence
                                     /\ taken[i].tick <= clientTick
        BY Members DEF RingInv
      <4>3. \A i \in 1..Len(taken') : taken'[i].sequence <= lastSequence'
                                      /\ taken'[i].tick <= clientTick'
        <5> SUFFICES ASSUME NEW i \in 1..Len(taken')
                     PROVE  taken'[i].sequence <= lastSequence' /\ taken'[i].tick <= clientTick'
          OBVIOUS
        <5>1. CASE i = Len(taken) + 1
          BY <1>1, <2>0, <2>1, <2>3, <3>1, <4>1, <5>1
        <5>2. CASE i \in 1..Len(taken)
          BY <1>1, <2>0, <2>1, <2>5, <3>1, <4>1, <4>2, <5>2
        <5> QED
          BY <4>1, <5>1, <5>2
      <4>4. Ascend(taken')
        <5> SUFFICES ASSUME NEW i \in 1..Len(taken'), NEW j \in 1..Len(taken'), i < j
                     PROVE  taken'[i].sequence < taken'[j].sequence
          BY DEF Ascend
        <5>1. i \in 1..Len(taken)
          BY <4>1
        <5>2. CASE j = Len(taken) + 1
          BY <2>0, <2>1, <2>3, <2>5, <4>1, <4>2, <5>1, <5>2
        <5>3. CASE j \in 1..Len(taken)
          BY <4>1, <5>1, <5>3 DEF RingInv, Ascend
        <5> QED
          BY <4>1, <5>2, <5>3
      <4>5. inputs' = Pending(taken', confirmedSequence')
        <5>1. command.sequence > confirmedSequence
          BY <2>0, <2>1, <2>3, <2>5
        <5>2. Pending(Append(taken, command), confirmedSequence)
                  = Append(Pending(taken, confirmedSequence), command)
          BY <2>0, <2>2, <5>1, PendingAppend DEF RingInv
        <5> QED
          BY <1>5, <3>1, <5>2 DEF RingInv
      <4> QED
        BY <4>1, <4>3, <4>4, <4>5 DEF RingInv
    <3>5. Typed'
      <4>1. \A f \in sent' : FrameOK(f)'
        BY <1>1, <2>4, <3>1 DEF Typed, FrameOK, hostVars
      <4>2. host'.processed \in 0..lastSequence'
        BY <1>1, <2>0, <2>1, <3>1 DEF Typed, hostVars
      <4>3. /\ polled' \in 0..clientTick' /\ lastSequence' \in 0..polled'
            /\ confirmedSequence' \in 0..lastSequence'
        BY <1>1, <1>5, <2>0, <2>1, <2>5, <3>1
      <4> QED
        BY <1>1, <1>5, <4>1, <4>2, <4>3 DEF Typed, hostVars
    <3>6. ConfirmedInv'
      BY <1>1, <1>5 DEF ConfirmedInv, hostVars
    <3> QED
      BY <1>3, <3>3, <3>4, <3>5, <3>6
  <2>6. CASE ~(sequence > lastSequence /\ Len(inputs) < InputBufferDepth)
    <3>1. UNCHANGED <<inputs, lastSequence, taken>>
      BY <1>5, <2>3, <2>6 DEF Push, command
    <3>2. TypeOK' /\ RingInv' /\ ConfirmedInv'
      BY <1>1, <1>5, <3>1 DEF TypeOK, RingInv, ConfirmedInv, hostVars
    <3>3. \A f : FrameOK(f)' <=> FrameOK(f)
      BY <3>1 DEF FrameOK
    <3>4. polled' \in 0..clientTick' /\ lastSequence' \in 0..polled'
      BY <1>1, <1>5, <2>0, <2>1, <3>1
    <3>5. Typed'
      BY <1>1, <1>5, <3>1, <3>3, <3>4 DEF Typed, hostVars
    <3> QED
      BY <1>3, <3>2, <3>5
  <2> QED
    BY <2>5, <2>6
<1> QED
  BY <1>4, <1>5 DEF PollInput

\* A replay from a state of the body gives a state of the body, and records that fit.
LEMMA ReplayEffect ==
    ASSUME Inv, NEW b \in State, NEW c \in Seq(Command), Ascend(c), NEW s \in Nat
    PROVE  LET replay == ReplayFrom(b, Applied(c, s, clientTick)) IN
           /\ Last(replay) \in State /\ Last(replay).id = b.id
           /\ Recorded(replay) \in Seq(State) /\ Len(Recorded(replay)) <= StateBufferDepth
<1> DEFINE due == Applied(c, s, clientTick)
           replay == ReplayFrom(b, due)
<1>1. clientTick \in Nat
  BY PredictionAssumption DEF Inv, Typed
<1>2. due \in Seq(Command)
  BY <1>1, AppliedTyped
<1> HIDE DEF due
<1>3. /\ replay \in Seq(State) /\ Len(replay) = Len(due) + 1
      /\ Last(replay) \in State /\ Last(replay).id = b.id
  BY <1>2, Replays
<1> HIDE DEF replay
<1>4. Len(replay) >= 1
  BY <1>2, <1>3
<1>5. Recorded(replay) \in Seq(State) /\ Len(Recorded(replay)) <= StateBufferDepth
  BY <1>3, <1>4, RecordedFits DEF Inv, Typed, TypeOK
<1> QED
  BY <1>3, <1>5 DEF replay, due

\* Reconciling with what a frame says of a player: the acknowledged inputs leave the ring,
\* and the body that is shown stays the same once there is one.
LEMMA Reconciled ==
    ASSUME Inv, NEW f \in sent, NEW i \in DOMAIN f.players,
           Reconcile(f.players[i], f.ackedInputSequence),
           sent' = sent, clientTick' = clientTick
    PROVE  /\ RingInv' /\ ConfirmedInv'
           /\ states' \in Seq(State) /\ confirmed' \in State /\ current' \in State
           /\ polled' = polled /\ lastSequence' = lastSequence
           /\ confirmedSequence' \in 0..lastSequence
           /\ Len(inputs') <= InputBufferDepth /\ Len(states') <= StateBufferDepth
           /\ correction' \in {"None", "Smoothed", "Snapped"}
           /\ current.id # None => current'.id = current.id
<1> USE DEF Inv
<1> DEFINE player == f.players[i]
           acked == f.ackedInputSequence
<1>1. CASE Regressed(acked) \/ OtherBody(player)
  <2>1. UNCHANGED localVars
    BY <1>1 DEF Reconcile
  <2>2. RingInv' /\ ConfirmedInv'
    BY <2>1 DEF RingInv, ConfirmedInv, localVars
  <2> QED
    BY <2>1, <2>2 DEF localVars, Typed, TypeOK
<1>2. CASE ~(Regressed(acked) \/ OtherBody(player))
  <2> DEFINE left == PruneUpTo(acked)
             replay == ReplayFrom(Baseline(player), Applied(left, acked, clientTick))
  <2>1. /\ inputs' = left /\ confirmed' = Baseline(player) /\ confirmedSequence' = acked
        /\ states' = Recorded(replay) /\ current' = Last(replay)
        /\ correction' = CorrectionKind(Last(replay), current)
        /\ UNCHANGED <<taken, polled, lastSequence>>
    BY <1>2 DEF Reconcile
  <2>2. /\ acked \in 0..lastSequence /\ acked \in Nat /\ lastSequence \in Nat
        /\ player.entity \in Nat /\ player.position \in Int
    BY DEF Typed, FrameOK
  <2>3. confirmedSequence \in Nat /\ confirmedSequence <= acked
    <3>1. confirmedSequence \in Nat
      BY DEF Typed
    <3> QED
      BY <1>2, <2>2, <3>1 DEF Regressed
  <2>4. inputs = Pending(taken, confirmedSequence) /\ taken \in Seq(Command) /\ Ascend(taken)
    BY DEF RingInv
  <2>5. left = Pending(taken, acked)
    BY <2>2, <2>3, <2>4, PendingTwice DEF PruneUpTo
  <2>6. left \in Seq(Command) /\ Ascend(left)
    BY <2>2, <2>4, <2>5, PendingIs
  <2>7. Len(left) <= InputBufferDepth
    <3>1. inputs \in Seq(Command) /\ Ascend(inputs)
      BY <2>3, <2>4, PendingIs
    <3>2. Len(left) = Len(inputs) + 1 - FirstAfter(inputs, acked)
      BY <2>2, <3>1, PendingIs DEF PruneUpTo
    <3>3. FirstAfter(inputs, acked) \in 1..(Len(inputs) + 1)
      BY <2>2, <3>1, FirstExists
    <3>4. InputBufferDepth \in Nat /\ Len(inputs) \in Nat /\ Len(inputs) <= InputBufferDepth
      BY <3>1, PredictionAssumption DEF TypeOK
    <3> QED
      BY <3>2, <3>3, <3>4
  <2>8. Baseline(player) \in State /\ Baseline(player).position = player.position
    BY <2>2 DEF Baseline, State, Typed
  <2>9. /\ Baseline(player).id = (IF player.entity # None THEN player.entity ELSE confirmed.id)
        /\ confirmed.id # None => Baseline(player).id = confirmed.id
    BY <1>2 DEF Baseline, OtherBody
  <2> HIDE DEF left
  <2>10. /\ Last(replay) \in State /\ Last(replay).id = Baseline(player).id
         /\ Recorded(replay) \in Seq(State) /\ Len(Recorded(replay)) <= StateBufferDepth
    BY <2>2, <2>6, <2>8, ReplayEffect
  <2> HIDE DEF replay
  <2>11. RingInv'
    BY <2>1, <2>4, <2>5 DEF RingInv
  <2>12. ConfirmedInv'
    <3>1. player.entity \in {None, Baseline(player).id}
      BY <2>9
    <3>2. current'.id = confirmed'.id
      BY <2>1, <2>10
    <3>3. \E g \in sent' : \E k \in DOMAIN g.players :
              /\ g.ackedInputSequence = confirmedSequence'
              /\ g.players[k].entity \in {None, confirmed'.id}
              /\ g.players[k].position = confirmed'.position
      BY <2>1, <2>8, <3>1
    <3> QED
      BY <3>2, <3>3 DEF ConfirmedInv
  <2>13. correction' \in {"None", "Smoothed", "Snapped"}
    BY <2>1 DEF CorrectionKind
  <2>14. current.id # None => current'.id = current.id
    BY <2>1, <2>9, <2>10 DEF ConfirmedInv
  <2> QED
    BY <2>1, <2>2, <2>7, <2>8, <2>10, <2>11, <2>12, <2>13, <2>14
<1> QED
  BY <1>1, <1>2

\* The player that is found in a frame is one the frame lists.
LEMMA Selected ==
    ASSUME NEW f, NEW player \in SelectLocalPlayer(f)
    PROVE  \E i \in DOMAIN f.players : player = f.players[i]
  BY DEF SelectLocalPlayer

\* What a frame changes of the local player, and nothing else.
LEMMA NextFrameLocal ==
    ASSUME Inv, NextFrame
    PROVE  /\ RingInv' /\ ConfirmedInv'
           /\ states' \in Seq(State) /\ confirmed' \in State /\ current' \in State
           /\ polled' = polled /\ lastSequence' = lastSequence
           /\ confirmedSequence' \in 0..lastSequence
           /\ Len(inputs') <= InputBufferDepth /\ Len(states') <= StateBufferDepth
           /\ correction' \in {"None", "Smoothed", "Snapped"}
           /\ current.id # None => current'.id = current.id
<1>1. PICK f \in sent : IF SelectLocalPlayer(f) = {} THEN UNCHANGED localVars
                        ELSE \E player \in SelectLocalPlayer(f) :
                                 Reconcile(player, f.ackedInputSequence)
  BY DEF NextFrame
<1>2. sent' = sent /\ clientTick' = clientTick
  BY DEF NextFrame, hostVars
<1>3. CASE UNCHANGED localVars
  <2>1. RingInv' /\ ConfirmedInv'
    BY <1>2, <1>3 DEF RingInv, ConfirmedInv, localVars, Inv
  <2> QED
    BY <1>3, <2>1 DEF localVars, Inv, Typed, TypeOK
<1>4. ASSUME NEW player \in SelectLocalPlayer(f), Reconcile(player, f.ackedInputSequence)
      PROVE  \E i \in DOMAIN f.players : Reconcile(f.players[i], f.ackedInputSequence)
  BY <1>4, Selected
<1>5. CASE \E i \in DOMAIN f.players : Reconcile(f.players[i], f.ackedInputSequence)
  BY <1>2, <1>5, Reconciled
<1> QED
  BY <1>1, <1>3, <1>4, <1>5

LEMMA NextFrameInv == Inv /\ NextFrame => Inv'
<1> SUFFICES ASSUME Inv, NextFrame PROVE Inv'
  OBVIOUS
<1>1. PICK f \in sent : frames' = PushFrame(f)
  BY DEF NextFrame
<1>2. /\ phase = "drain"
      /\ UNCHANGED <<hostVars, phase, clientTick, identity, shown>>
  BY DEF NextFrame
<1>3. /\ RingInv' /\ ConfirmedInv'
      /\ states' \in Seq(State) /\ confirmed' \in State /\ current' \in State
      /\ polled' = polled /\ lastSequence' = lastSequence
      /\ confirmedSequence' \in 0..lastSequence
      /\ Len(inputs') <= InputBufferDepth /\ Len(states') <= StateBufferDepth
      /\ correction' \in {"None", "Smoothed", "Snapped"}
  BY NextFrameLocal
<1> USE DEF Inv
<1>4. /\ frames' \in Seq(sent) /\ FrameTicks(frames') /\ Len(frames') <= StateBufferDepth
      /\ frames # <<>> => /\ frames' # <<>> /\ Head(frames).tick <= Head(frames').tick
                          /\ Last(frames).tick <= Last(frames').tick
  BY <1>1, Pushed DEF TypeOK
<1>5. TypeOK' /\ PhaseInv' /\ ShownOwn'
  BY <1>2, <1>3, <1>4 DEF TypeOK, PhaseInv, ShownOwn
<1>6. Typed'
  <2>1. \A g : FrameOK(g)' <=> FrameOK(g)
    BY <1>3 DEF FrameOK
  <2> QED
    BY <1>2, <1>3, <2>1 DEF Typed, hostVars
<1>7. FramesInv'
  BY <1>2, <1>4 DEF FramesInv, FrameTicks, hostVars
<1>8. ShownOthers'
  <2> SUFFICES ASSUME ~identity
               PROVE  /\ \A e \in shown :
                            /\ e.time \in Nat /\ frames' # <<>> /\ e.time <= Last(frames').tick
                            /\ e.time <= Head(frames').tick \/ e.time <= Target(clientTick)
                      /\ \A e, other \in shown : e.time = other.time
    BY <1>2 DEF ShownOthers
  <2>1. \A e, other \in shown : e.time = other.time
    BY DEF ShownOthers
  <2>2. ASSUME NEW e \in shown
        PROVE  /\ e.time \in Nat /\ frames' # <<>> /\ e.time <= Last(frames').tick
               /\ e.time <= Head(frames').tick \/ e.time <= Target(clientTick)
    <3>1. /\ e.time \in Nat /\ frames # <<>> /\ e.time <= Last(frames).tick
          /\ e.time <= Head(frames).tick \/ e.time <= Target(clientTick)
      BY DEF ShownOthers
    <3>2. Head(frames).tick \in Nat /\ Last(frames).tick \in Nat
      BY <3>1, FramesTyped, HeadAndLast DEF FramesInv
    <3>3. Head(frames').tick \in Nat /\ Last(frames').tick \in Nat
      BY <1>4, <3>1, HeadAndLast
    <3> QED
      BY <1>4, <3>1, <3>2, <3>3
  <2> QED
    BY <2>1, <2>2
<1> QED
  BY <1>3, <1>5, <1>6, <1>7, <1>8

\* Whatever was shown, what is shown next is no older and no newer than the last frame.
LEMMA ShownNext ==
    ASSUME Inv, ~identity, NEW new \in Interpolate(clientTick)
    PROVE  /\ new.time = ShownTime /\ frames # <<>> /\ new.time \in Nat
           /\ new.time <= Last(frames).tick
           /\ new.time <= Head(frames).tick \/ new.time <= Target(clientTick)
           /\ \A old \in shown : old.time <= new.time
<1> USE DEF Inv
<1>1. frames # <<>> /\ new.time = ShownTime
  BY Interpolated
<1>2. Head(frames).tick \in Nat /\ Last(frames).tick \in Nat
      /\ Head(frames).tick <= Last(frames).tick
  BY <1>1, FramesTyped, HeadAndLast DEF FramesInv
<1>3. Target(clientTick) \in Nat
  BY TargetNat, PredictionAssumption DEF Typed
<1>4. \A old \in shown : /\ old.time \in Nat /\ old.time <= Last(frames).tick
                         /\ old.time <= Head(frames).tick \/ old.time <= Target(clientTick)
  BY DEF ShownOthers
<1>5. /\ ShownTime \in Nat /\ ShownTime <= Last(frames).tick
      /\ ShownTime <= Head(frames).tick \/ ShownTime <= Target(clientTick)
  BY <1>2, <1>3 DEF ShownTime
<1>6. \A old \in shown : old.time <= ShownTime
  BY <1>2, <1>3, <1>4 DEF ShownTime
<1> QED
  BY <1>1, <1>5, <1>6

LEMMA PresentInv == Inv /\ Present => Inv'
<1> SUFFICES ASSUME Inv, Present PROVE Inv'
  OBVIOUS
<1>1. /\ phase \in {"drain", "identity"} /\ phase' = "idle"
      /\ UNCHANGED <<hostVars, clientTick, identity, frames, taken, polled, inputs,
                     lastSequence, confirmed, confirmedSequence, correction>>
  BY DEF Present
<1> USE DEF Inv
<1>2. PhaseInv' /\ RingInv' /\ FramesInv'
  BY <1>1 DEF PhaseInv, RingInv, FramesInv, hostVars
<1>3. \A f : FrameOK(f)' <=> FrameOK(f)
  BY <1>1 DEF FrameOK
<1>4. CASE phase = "drain"
  <2> DEFINE replay == ReplayFrom(confirmed, Applied(inputs, confirmedSequence, clientTick))
  <2>1. /\ current' = Last(replay) /\ states' = Recorded(replay)
        /\ shown' = Interpolate(clientTick)
    BY <1>4 DEF Present
  <2>2. confirmedSequence \in Nat /\ inputs \in Seq(Command) /\ Ascend(inputs)
    <3>1. confirmedSequence \in Nat
      BY DEF Typed
    <3> QED
      BY <3>1, PendingIs DEF RingInv
  <2>3. /\ Last(replay) \in State /\ Last(replay).id = confirmed.id
        /\ Recorded(replay) \in Seq(State) /\ Len(Recorded(replay)) <= StateBufferDepth
    BY <2>2, ReplayEffect DEF Typed
  <2>4. ShownOwn'
    BY <1>1, <2>1 DEF ShownOwn
  <2> HIDE DEF replay
  <2>5. TypeOK'
    BY <1>1, <2>1, <2>3 DEF TypeOK
  <2>6. Typed'
    BY <1>1, <1>3, <2>1, <2>3 DEF Typed, hostVars
  <2>7. ConfirmedInv'
    BY <1>1, <2>1, <2>3 DEF ConfirmedInv, hostVars
  <2>8. ShownOthers'
    <3>1. ~identity
      BY <1>4 DEF PhaseInv
    <3>2. \A e \in shown' : /\ e.time = ShownTime /\ e.time \in Nat /\ frames # <<>>
                            /\ e.time <= Last(frames).tick
                            /\ e.time <= Head(frames).tick \/ e.time <= Target(clientTick)
      BY <2>1, <3>1, ShownNext
    <3> QED
      BY <1>1, <3>2 DEF ShownOthers
  <2> QED
    BY <1>2, <2>4, <2>5, <2>6, <2>7, <2>8
<1>5. CASE phase = "identity"
  <2>1. UNCHANGED <<current, states, shown>>
    BY <1>5 DEF Present
  <2>2. identity
    BY <1>5 DEF PhaseInv, Typed
  <2>3. TypeOK' /\ ConfirmedInv' /\ ShownOwn' /\ ShownOthers'
    BY <1>1, <2>1, <2>2 DEF TypeOK, ConfirmedInv, ShownOwn, ShownOthers, hostVars
  <2>4. Typed'
    BY <1>1, <1>3, <2>1 DEF Typed, hostVars
  <2> QED
    BY <1>2, <2>3, <2>4
<1> QED
  BY <1>1, <1>4, <1>5

LEMMA StutterInv == Inv /\ UNCHANGED vars => Inv'
<1> SUFFICES ASSUME Inv, UNCHANGED vars PROVE Inv'
  OBVIOUS
<1> USE DEF Inv, vars, hostVars, localVars
<1>1. TypeOK' /\ RingInv' /\ ConfirmedInv' /\ ShownOwn'
  BY DEF TypeOK, RingInv, ConfirmedInv, ShownOwn
<1>2. PhaseInv' /\ FramesInv' /\ ShownOthers'
  BY DEF PhaseInv, FramesInv, ShownOthers
<1>3. \A f : FrameOK(f)' <=> FrameOK(f)
  BY DEF FrameOK
<1>4. Typed'
  BY <1>3 DEF Typed
<1> QED
  BY <1>1, <1>2, <1>4

LEMMA Invariance == Spec => []Inv
<1>1. Init => Inv
  BY InitInv
<1>2. Inv /\ [Next]_vars => Inv'
  BY HostFrameInv, AdvanceInv, ShowAuthoritativeInv, PollInputInv, NextFrameInv,
     PresentInv, StutterInv DEF Next
<1> QED
  BY <1>1, <1>2, PTL DEF Spec

---------------------------------------------------------------------------
(* What the client shows.                                                  *)

\* Whatever becomes of the frames, every input the client recorded counts exactly once in
\* what it shows of its player: in the position of a frame that acknowledges it, or
\* replayed on top of that position, up to the cap.
THEOREM CountedOnce == Spec => []EveryInputCountsOnce
<1>1. Inv => EveryInputCountsOnce
  <2> SUFFICES ASSUME Inv, phase = "idle", clientTick > 0, ~identity
               PROVE
        LET open == Pending(taken, confirmedSequence)
            replayed == SubSeq(open, 1, IF Len(open) < MaxPredictionTicks THEN Len(open)
                                        ELSE MaxPredictionTicks)
            base == current.position - Travelled(replayed)
        IN  \/ confirmed = Nowhere /\ confirmedSequence = 0 /\ base = 0
            \/ \E f \in sent : \E i \in DOMAIN f.players :
                  /\ f.ackedInputSequence = confirmedSequence
                  /\ f.players[i].entity \in {None, current.id}
                  /\ base = f.players[i].position
    BY DEF EveryInputCountsOnce, Inv
  <2> USE DEF Inv
  <2> DEFINE open == Pending(taken, confirmedSequence)
             replayed == SubSeq(open, 1, IF Len(open) < MaxPredictionTicks THEN Len(open)
                                         ELSE MaxPredictionTicks)
             base == current.position - Travelled(replayed)
  <2>0. inputs = open /\ confirmedSequence \in Nat /\ clientTick \in Nat
    BY PredictionAssumption DEF RingInv, Typed
  <2>1. /\ open \in Seq(Command) /\ Ascend(open)
        /\ Len(open) = Len(taken) + 1 - FirstAfter(taken, confirmedSequence)
        /\ \A i \in 1..Len(open) :
              /\ i + FirstAfter(taken, confirmedSequence) - 1 \in 1..Len(taken)
              /\ open[i] = taken[i + FirstAfter(taken, confirmedSequence) - 1]
              /\ open[i].sequence > confirmedSequence
    BY <2>0, PendingIs DEF RingInv
  <2> HIDE DEF open
  <2>2. \A i \in 1..Len(open) : open[i].sequence > confirmedSequence /\ open[i].tick <= clientTick
    BY <2>1 DEF RingInv
  <2>3. Applied(open, confirmedSequence, clientTick) = replayed
    BY <2>0, <2>1, <2>2, AppliedIs
  <2>4. replayed \in Seq(Command)
    BY <2>0, <2>1, <2>3, AppliedTyped
  <2> HIDE DEF replayed
  <2>5. current = Last(ReplayFrom(confirmed, replayed))
    BY <2>0, <2>3 DEF ShownOwn
  <2>6. current.position = confirmed.position + Travelled(replayed)
        /\ Travelled(replayed) \in Int
    BY <2>4, <2>5, Replays DEF Typed
  <2>7. confirmed.position \in Int
    BY DEF Typed, State
  <2>8. base = confirmed.position
    BY <2>6, <2>7
  <2> HIDE DEF base
  <2>9. CASE confirmed = Nowhere /\ confirmedSequence = 0
    <3>1. confirmed.position = 0
      BY <2>9 DEF Nowhere
    <3> QED
      BY <2>8, <2>9, <3>1 DEF base, replayed, open
  <2>10. CASE \E f \in sent : \E i \in DOMAIN f.players :
                 /\ f.ackedInputSequence = confirmedSequence
                 /\ f.players[i].entity \in {None, confirmed.id}
                 /\ f.players[i].position = confirmed.position
    <3>1. current.id = confirmed.id
      BY DEF ConfirmedInv
    <3> QED
      BY <2>8, <2>10, <3>1 DEF base, replayed, open
  <2> QED
    BY <2>9, <2>10 DEF ConfirmedInv
<1> QED
  BY <1>1, Invariance, PTL

\* What is shown of the others never runs back in time and is never newer than the newest
\* frame, however frames are delayed, repeated, reordered or lost.
THEOREM TimeAdvances == Spec => ShownTimeAdvances
<1>1. Inv /\ [Next]_vars =>
          (~identity => \A new \in shown' : /\ new.time <= Last(frames).tick
                                            /\ \A old \in shown : old.time <= new.time)
  <2> SUFFICES ASSUME Inv, [Next]_vars, ~identity, NEW new \in shown'
               PROVE  new.time <= Last(frames).tick /\ \A old \in shown : old.time <= new.time
    OBVIOUS
  <2>1. CASE shown' = shown
    <3>1. \A e \in shown : e.time \in Nat /\ e.time <= Last(frames).tick
      BY DEF Inv, ShownOthers
    <3>2. \A e, other \in shown : e.time = other.time
      BY DEF Inv, ShownOthers
    <3> QED
      BY <2>1, <3>1, <3>2
  <2>2. CASE shown' = Interpolate(clientTick)
    BY <2>2, ShownNext
  <2>3. shown' = shown \/ shown' = Interpolate(clientTick)
    <3>1. ~ShowAuthoritative
      BY DEF ShowAuthoritative, Inv, PhaseInv
    <3> QED
      BY <3>1 DEF Next, vars, HostFrame, Advance, PollInput, NextFrame, Present
  <2> QED
    BY <2>1, <2>2, <2>3
<1> QED
  BY <1>1, Invariance, PTL DEF Spec, ShownTimeAdvances

\* Once the client has found its player's body it shows no other.
THEOREM BodyKept == Spec => OwnBodyKept
<1>1. Inv /\ [Next]_vars => (current.id # None => current'.id = current.id)
  <2> SUFFICES ASSUME Inv, [Next]_vars, current.id # None
               PROVE  current'.id = current.id
    OBVIOUS
  <2>1. CASE NextFrame
    BY <2>1, NextFrameLocal
  <2>2. CASE Present
    <3>1. CASE phase = "drain"
      <4>1. current' = Last(ReplayFrom(confirmed,
                                       Applied(inputs, confirmedSequence, clientTick)))
        BY <2>2, <3>1 DEF Present
      <4>2. confirmedSequence \in Nat /\ confirmed \in State
        BY DEF Inv, Typed
      <4>3. inputs \in Seq(Command) /\ Ascend(inputs)
        BY <4>2, PendingIs DEF Inv, RingInv
      <4>4. current'.id = confirmed.id
        BY <4>1, <4>2, <4>3, ReplayEffect
      <4> QED
        BY <4>4 DEF Inv, ConfirmedInv
    <3>2. CASE phase # "drain"
      BY <2>2, <3>2 DEF Present
    <3> QED
      BY <3>1, <3>2
  <2>3. CASE ~NextFrame /\ ~Present
    <3>1. current' = current
      BY <2>3 DEF Next, vars, localVars, HostFrame, Advance, ShowAuthoritative, PollInput, Push
    <3> QED
      BY <3>1
  <2> QED
    BY <2>1, <2>2, <2>3
<1> QED
  BY <1>1, Invariance, PTL DEF Spec, OwnBodyKept
=============================================================================
