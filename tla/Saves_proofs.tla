---------------------------- MODULE Saves_proofs ----------------------------
(***************************************************************************)
(* Proofs about how a world is saved and how it comes back.                *)
(*                                                                         *)
(* Persistence, for every queue, interval and bound: whatever interrupts   *)
(* the program, a file under a save's name is a whole save that was        *)
(* reported, no save is given up but to a later run of its id, every start *)
(* after the first save finds one, and no request is lost or doubled by    *)
(* retries and interrupted flushes.                                        *)
(*                                                                         *)
(* Recovery, for any save, any set of migration steps and any refusal,     *)
(* whatever the versions of the build.                                     *)
(***************************************************************************)
EXTENDS Persistence, Recovery, FiniteSetTheorems, SequenceTheorems, WellFoundedInduction,
        TLAPS

---------------------------------------------------------------------------
(* The ids of a queue of requests.                                         *)

IdsOf(q)    == {q[i].id : i \in 1..Len(q)}
Distinct(q) == \A i, j \in 1..Len(q) : q[i].id = q[j].id => i = j

\* A request put at the tail adds its id, and doubles none when it is new.
LEMMA AppendIds ==
    ASSUME NEW q \in Seq(Request), NEW r \in Request
    PROVE  /\ Append(q, r) \in Seq(Request)
           /\ Len(Append(q, r)) = Len(q) + 1
           /\ IdsOf(Append(q, r)) = IdsOf(q) \cup {r.id}
           /\ Distinct(q) /\ r.id \notin IdsOf(q) => Distinct(Append(q, r))
<1> DEFINE t == Append(q, r)
<1>1. /\ t \in Seq(Request) /\ Len(t) = Len(q) + 1 /\ t[Len(q) + 1] = r
      /\ \A i \in 1..Len(q) : t[i] = q[i]
  OBVIOUS
<1>2. Len(q) \in Nat
  OBVIOUS
<1> HIDE DEF t
<1>3. 1..Len(t) = 1..Len(q) \cup {Len(q) + 1}
  BY <1>1, <1>2
<1>4. IdsOf(t) = IdsOf(q) \cup {r.id}
  BY <1>1, <1>3 DEF IdsOf
<1>5. ASSUME Distinct(q), r.id \notin IdsOf(q)
      PROVE  Distinct(t)
  <2> SUFFICES ASSUME NEW i \in 1..Len(t), NEW j \in 1..Len(t), t[i].id = t[j].id
               PROVE  i = j
    BY DEF Distinct
  <2>1. \A k \in 1..Len(q) : t[k].id # r.id
    BY <1>1, <1>5 DEF IdsOf
  <2> QED
    BY <1>1, <1>3, <1>5, <2>1 DEF Distinct
<1> QED
  BY <1>1, <1>4, <1>5 DEF t

\* The front request taken off a queue takes its id with it.
LEMMA TailIds ==
    ASSUME NEW q \in Seq(Request), q # <<>>, Distinct(q)
    PROVE  /\ Head(q) \in Request
           /\ Tail(q) \in Seq(Request)
           /\ Len(Tail(q)) = Len(q) - 1
           /\ IdsOf(Tail(q)) = IdsOf(q) \ {Head(q).id}
           /\ Head(q).id \in IdsOf(q)
           /\ Distinct(Tail(q))
<1> DEFINE t == Tail(q)
<1>1. /\ t \in Seq(Request) /\ Len(t) = Len(q) - 1 /\ Len(q) \in Nat \ {0}
      /\ \A i \in 1..Len(t) : t[i] = q[i + 1]
      /\ Head(q) = q[1] /\ q[1] \in Request
  OBVIOUS
<1> HIDE DEF t
<1>2. \A k \in 2..Len(q) : q[k].id \in IdsOf(t)
  <2> TAKE k \in 2..Len(q)
  <2>1. k - 1 \in 1..Len(t) /\ t[k - 1] = q[k]
    BY <1>1
  <2> QED
    BY <2>1 DEF IdsOf
<1>3. \A x \in IdsOf(t) : \E k \in 2..Len(q) : x = q[k].id
  <2> TAKE x \in IdsOf(t)
  <2>1. PICK i \in 1..Len(t) : x = t[i].id
    BY DEF IdsOf
  <2>2. i + 1 \in 2..Len(q) /\ t[i] = q[i + 1]
    BY <1>1
  <2> QED
    BY <2>1, <2>2
<1>4. \A k \in 2..Len(q) : q[k].id # q[1].id
  BY <1>1 DEF Distinct
<1>5. IdsOf(q) = {q[k].id : k \in 2..Len(q)} \cup {q[1].id}
  BY <1>1 DEF IdsOf
<1>6. IdsOf(t) = IdsOf(q) \ {q[1].id}
  BY <1>2, <1>3, <1>4, <1>5
<1>7. Distinct(t)
  <2> SUFFICES ASSUME NEW i \in 1..Len(t), NEW j \in 1..Len(t), t[i].id = t[j].id
               PROVE  i = j
    BY DEF Distinct
  <2>1. q[i + 1].id = q[j + 1].id /\ i + 1 \in 1..Len(q) /\ j + 1 \in 1..Len(q)
    BY <1>1
  <2>2. i + 1 = j + 1
    BY <2>1 DEF Distinct
  <2> QED
    BY <2>2
<1> QED
  BY <1>1, <1>5, <1>6, <1>7 DEF t

\* As many ids as requests, when none is doubled.
LEMMA DistinctCount ==
    ASSUME NEW q \in Seq(Request), Distinct(q)
    PROVE  Cardinality(IdsOf(q)) = Len(q)
<1> DEFINE f == [i \in 1..Len(q) |-> q[i].id]
<1>1. Len(q) \in Nat
  OBVIOUS
<1>2. IsFiniteSet(1..Len(q)) /\ Cardinality(1..Len(q)) = Len(q)
  BY <1>1, FS_Interval
<1>3. f \in Bijection(1..Len(q), IdsOf(q))
  BY DEF Bijection, Injection, Surjection, IsInjective, Distinct, IdsOf
<1> QED
  BY <1>2, <1>3, FS_Bijection DEF ExistsBijection

---------------------------------------------------------------------------
(* The inductive invariant.                                                *)

\* The fields of SaveScheduler, as TypeOK types them.
Scheduler ==
    [pending : SUBSET (Requestable \cup {"Deferred"}), deferredTick : 0..MaxTick,
     lastAutosave : 0..MaxTick, armed : BOOLEAN, nextId : 0..(MaxRequests + MaxTick)]

\* A flush runs only while the program does, never tries more requests than
\* are queued, leaves room for the one in hand, and renames the save it wrote.
FlushInv ==
    /\ work.stage # "idle" => running /\ work.snapshot \in 1..MaxTick
    /\ work.stage = "drain" => work.left \in 1..Len(queue)
    /\ work.stage \in {"write", "rename"} =>
          work.request \in Request /\ work.left <= Len(queue) /\ HasRoom(queue)
    /\ work.stage = "rename" =>
          temps[work.request.id] = Whole(SaveOf(work.request))

\* Where the requests of this run are; a program that is down has none.
Accounts ==
    /\ running => 1..scheduler.nextId = IdsOf(queue) \cup InHand \cup Written \cup dropped
    /\ Distinct(queue)
    /\ IdsOf(queue) \cap (InHand \cup Written \cup dropped) = {}
    /\ InHand \cap (Written \cup dropped) = {}
    /\ ~running => scheduler = IdleScheduler /\ queue = <<>> /\ dropped = {}

\* What was committed is on the disk, under its id, for good.
DiskInv ==
    /\ OnlyWholeSaves
    /\ \A written \in Committed : written.run <= run /\ files[written.id].kind = "whole"

Inv == TypeOK /\ FlushInv /\ Accounts /\ DiskInv

USE QueueAssumption, IntervalAssumption, BoundAssumption

LEMMA IdsAreNat == Ids \subseteq Nat /\ \A n \in Nat : n + 1 \in Ids => 1..(n + 1) \subseteq Ids
  BY DEF Ids

LEMMA CommittedTyped == TypeOK => Committed \subseteq Save
  BY DEF TypeOK, Committed

LEMMA SchedulerTyped == TypeOK => scheduler \in Scheduler
  BY DEF TypeOK, Scheduler

\* The scheduler's steps keep its type: a request to save, the baseline of the
\* autosaves, and a request that goes out.
LEMMA ArmedTyped ==
    ASSUME NEW s \in Scheduler, NEW now \in 0..MaxTick
    PROVE  Armed(s, now) \in Scheduler /\ Armed(s, now).nextId = s.nextId
  BY DEF Armed, Scheduler

LEMMA AskTyped ==
    ASSUME NEW s \in Scheduler, NEW t \in Requestable \cup {"Deferred"}
    PROVE  /\ [s EXCEPT !.pending = @ \cup {t}] \in Scheduler
           /\ [s EXCEPT !.pending = @ \cup {t}].nextId = s.nextId
  BY DEF Scheduler

LEMMA DeferTyped ==
    ASSUME NEW s \in Scheduler, NEW u \in 1..MaxTick
    PROVE  /\ [s EXCEPT !.pending = @ \cup {"Deferred"}, !.deferredTick = u] \in Scheduler
           /\ [s EXCEPT !.pending = @ \cup {"Deferred"}, !.deferredTick = u].nextId = s.nextId
<1>1. u \in 0..MaxTick
  OBVIOUS
<1>2. s.pending \cup {"Deferred"} \in SUBSET (Requestable \cup {"Deferred"})
  BY DEF Scheduler
<1> QED
  BY <1>1, <1>2 DEF Scheduler

LEMMA EmitTyped ==
    ASSUME NEW s \in Scheduler, NEW t, NEW now \in 0..MaxTick, s.nextId + 1 \in Ids
    PROVE  AfterEmit(s, t, now) \in Scheduler /\ AfterEmit(s, t, now).nextId = s.nextId + 1
<1>1. s.nextId + 1 \in 0..(MaxRequests + MaxTick)
  BY DEF Ids
<1> QED
  BY <1>1 DEF AfterEmit, Scheduler

LEMMA InvInit == Init => Inv
<1> SUFFICES ASSUME Init PROVE Inv
  OBVIOUS
<1>1. TypeOK
  <2>1. scheduler \in Scheduler
    BY DEF Init, Scheduler, IdleScheduler
  <2>2. work \in [stage : {"idle", "drain", "write", "rename"}, left : 0..QueueDepth,
                  request : Request \cup {NoRequest}, snapshot : 0..MaxTick]
    BY DEF Init, Idle
  <2>3. files \in [Ids -> Content] /\ temps \in [Ids -> Content]
    BY DEF Init, Content
  <2>4. queue \in Seq(Request) /\ Len(queue) <= QueueDepth /\ committed \in Seq(Save)
    BY DEF Init
  <2>5. run \in 1..MaxRuns /\ tick \in 0..MaxTick /\ published \in 0..MaxTick
    BY DEF Init
  <2> QED
    BY <2>1, <2>2, <2>3, <2>4, <2>5 DEF Init, TypeOK, Scheduler
<1>2. FlushInv
  BY DEF Init, FlushInv, Idle
<1>3. Committed = {} /\ Written = {} /\ InHand = {} /\ IdsOf(queue) = {}
  BY DEF Init, Committed, Written, InHand, IdsOf, Idle
<1>4. Accounts
  BY <1>3 DEF Init, Accounts, IdleScheduler, Distinct
<1>5. DiskInv
  BY <1>3 DEF Init, DiskInv, OnlyWholeSaves
<1> QED
  BY <1>1, <1>2, <1>4, <1>5 DEF Inv

\* What only waits in the scheduler touches nothing else.
LEMMA AskPreserves ==
    ASSUME Inv, \/ \E trigger \in Requestable : RequestSave(trigger)
                \/ \E untilTick \in 1..MaxTick : DeferSave(untilTick)
    PROVE  Inv'
<1>1. /\ running /\ work.stage = "idle"
      /\ scheduler'.nextId = scheduler.nextId
      /\ scheduler' \in Scheduler
      /\ UNCHANGED <<running, run, tick, published, queue, backpressured, work,
                     files, temps, committed, dropped, recovered>>
  <2>1. scheduler \in Scheduler
    BY SchedulerTyped DEF Inv
  <2>2. CASE \E trigger \in Requestable : RequestSave(trigger)
    BY <2>1, <2>2, AskTyped DEF RequestSave, disk
  <2>3. CASE \E untilTick \in 1..MaxTick : DeferSave(untilTick)
    BY <2>1, <2>3, DeferTyped DEF DeferSave, disk
  <2> QED
    BY <2>2, <2>3
<1>2. TypeOK'
  BY <1>1 DEF Inv, TypeOK, Scheduler
<1>3. Committed' = Committed /\ Written' = Written /\ InHand' = InHand
  BY <1>1 DEF Committed, Written, InHand
<1> QED
  BY <1>1, <1>2, <1>3 DEF Inv, FlushInv, SaveOf, Accounts, DiskInv, OnlyWholeSaves

\* A frame: a request may enter the queue, or be refused, with a new id.
LEMMA UpdatePreserves ==
    ASSUME Inv, NEW captured \in BOOLEAN, Update(captured)
    PROVE  Inv'
<1> DEFINE now == IF tick < MaxTick THEN tick + 1 ELSE tick
           armed == Armed(scheduler, now)
           new(t) == [id |-> armed.nextId + 1, trigger |-> t, requestTick |-> now]
<1>1. /\ running /\ running' /\ run' = run /\ work.stage = "idle"
      /\ tick' = now
      /\ published' = (IF captured THEN now ELSE published)
      /\ UNCHANGED <<files, temps, committed, recovered>>
      /\ work' = IF published' > 0 /\ queue' # <<>>
                 THEN [Idle EXCEPT !.stage = "drain", !.left = Len(queue'),
                                   !.snapshot = published']
                 ELSE Idle
  BY DEF Update, disk
<1>2. /\ now \in 0..MaxTick
      /\ armed.nextId = scheduler.nextId
      /\ armed \in Scheduler
  <2>1. now \in 0..MaxTick
    BY DEF Inv, TypeOK
  <2> HIDE DEF now
  <2> QED
    BY <2>1, SchedulerTyped, ArmedTyped DEF Inv
<1>3. InHand = {} /\ InHand' = {} /\ Written' = Written /\ Committed' = Committed
  BY <1>1 DEF InHand, Written, Committed, Idle
<1>4. \/ /\ scheduler' = armed
         /\ UNCHANGED <<queue, backpressured, dropped>>
      \/ \E t \in Trigger :
         /\ new(t).id \in Ids
         /\ scheduler' = AfterEmit(armed, t, now)
         /\ queue' = Published(queue, new(t))
         /\ backpressured' = IF HasRoom(queue)
                             THEN Backpressure(backpressured, Len(queue'))
                             ELSE backpressured
         /\ dropped' = dropped \cup {id \in {new(t).id} : queue' = queue}
  BY DEF Update, Emitted, Trigger
<1> HIDE DEF now, armed
<1> DEFINE Entered ==
      /\ scheduler' \in Scheduler
      /\ queue' \in Seq(Request) /\ Len(queue') <= QueueDepth
      /\ backpressured' \in BOOLEAN /\ dropped' \in SUBSET Ids
      /\ 1..scheduler'.nextId = IdsOf(queue') \cup Written \cup dropped'
      /\ Distinct(queue')
      /\ IdsOf(queue') \cap (Written \cup dropped') = {}
<1>5. Entered
  <2>1. CASE scheduler' = armed /\ UNCHANGED <<queue, backpressured, dropped>>
    BY <1>1, <1>2, <1>3, <2>1 DEF Inv, TypeOK, Accounts
  <2>2. ASSUME NEW t \in Trigger,
               /\ new(t).id \in Ids
               /\ scheduler' = AfterEmit(armed, t, now)
               /\ queue' = Published(queue, new(t))
               /\ backpressured' = IF HasRoom(queue)
                                   THEN Backpressure(backpressured, Len(queue'))
                                   ELSE backpressured
               /\ dropped' = dropped \cup {id \in {new(t).id} : queue' = queue}
        PROVE  Entered
    <3> DEFINE id == scheduler.nextId + 1
    <3>1. new(t) \in Request /\ new(t).id = id
      BY <1>2, <2>2 DEF Request
    <3>2. /\ scheduler'.nextId = id
          /\ scheduler' \in Scheduler
      BY <1>2, <2>2, EmitTyped
    <3>3. /\ 1..scheduler.nextId = IdsOf(queue) \cup Written \cup dropped
          /\ Distinct(queue) /\ IdsOf(queue) \cap (Written \cup dropped) = {}
          /\ scheduler.nextId \in Nat
      <4>1. scheduler.nextId \in Nat
        BY <1>2 DEF Scheduler
      <4> QED
        BY <1>1, <1>3, <4>1 DEF Inv, Accounts
    <3>4. id \notin IdsOf(queue) \cup Written \cup dropped /\ 1..id = 1..scheduler.nextId \cup {id}
      BY <3>3
    <3>5. backpressured' \in BOOLEAN
      BY <2>2 DEF Backpressure, Inv, TypeOK
    <3> DEFINE r == new(t)
    <3>6. /\ r \in Request /\ r.id = id /\ id \in Ids
          /\ queue' = Published(queue, r)
          /\ dropped' = dropped \cup {x \in {id} : queue' = queue}
          /\ queue \in Seq(Request) /\ Len(queue) <= QueueDepth /\ dropped \subseteq Ids
      BY <2>2, <3>1 DEF Inv, TypeOK
    <3> HIDE DEF id, new, r
    <3>7. CASE HasRoom(queue)
      <4>1. queue' = Append(queue, r)
        BY <3>6, <3>7 DEF Published
      <4>2. /\ queue' \in Seq(Request) /\ Len(queue') = Len(queue) + 1
            /\ IdsOf(queue') = IdsOf(queue) \cup {id} /\ Distinct(queue')
        BY <3>3, <3>4, <3>6, <4>1, AppendIds
      <4>3. queue' # queue /\ Len(queue') <= QueueDepth
        BY <3>6, <3>7, <4>2 DEF HasRoom
      <4>4. dropped' = dropped
        BY <3>6, <4>3
      <4> QED
        BY <3>2, <3>3, <3>4, <3>5, <3>6, <4>2, <4>3, <4>4
    <3>8. CASE ~HasRoom(queue)
      <4>1. queue' = queue /\ dropped' = dropped \cup {id}
        BY <3>6, <3>8 DEF Published
      <4> QED
        BY <3>2, <3>3, <3>4, <3>5, <3>6, <4>1
    <3> QED
      BY <3>7, <3>8
  <2> QED
    BY <1>4, <2>1, <2>2
<1> HIDE DEF new
<1>6. TypeOK'
  <2>1. published' \in 0..MaxTick
    BY <1>1, <1>2 DEF Inv, TypeOK
  <2>2. work' \in [stage : {"idle", "drain", "write", "rename"}, left : 0..QueueDepth,
                   request : Request \cup {NoRequest}, snapshot : 0..MaxTick]
    <3>1. Len(queue') \in 0..QueueDepth
      BY <1>5
    <3>2. Idle \in [stage : {"idle", "drain", "write", "rename"}, left : 0..QueueDepth,
                    request : Request \cup {NoRequest}, snapshot : 0..MaxTick]
      BY DEF Idle
    <3> QED
      BY <1>1, <2>1, <3>1, <3>2 DEF Idle
  <2> QED
    BY <1>1, <1>2, <1>5, <2>1, <2>2 DEF Inv, TypeOK, Scheduler
<1>7. FlushInv'
  <2>1. published' \in 0..MaxTick
    BY <1>6 DEF TypeOK
  <2>2. queue' # <<>> => Len(queue') \in 1..Len(queue')
    BY <1>5
  <2> QED
    BY <1>1, <2>1, <2>2 DEF FlushInv, Idle
<1>8. Accounts'
  BY <1>1, <1>3, <1>5 DEF Accounts
<1>9. DiskInv'
  BY <1>1, <1>3 DEF Inv, DiskInv, OnlyWholeSaves
<1> QED
  BY <1>6, <1>7, <1>8, <1>9 DEF Inv

\* The front request goes from the queue into the worker's hand.
LEMMA BeginCommitPreserves ==
    ASSUME Inv, BeginCommit
    PROVE  Inv'
<1> DEFINE r == Head(queue)
<1>1. /\ running /\ work.stage = "drain"
      /\ queue' = Tail(queue)
      /\ backpressured' = Backpressure(backpressured, Len(queue'))
      /\ work' = [work EXCEPT !.stage = "write", !.left = @ - 1, !.request = r]
      /\ temps' = [temps EXCEPT ![r.id] = Partial]
      /\ UNCHANGED <<files, running, run, tick, published, scheduler, committed,
                     dropped, recovered>>
  BY DEF BeginCommit, Released, Opened
<1>2. queue \in Seq(Request) /\ Distinct(queue) /\ work.left \in 1..Len(queue)
  BY <1>1 DEF Inv, TypeOK, Accounts, FlushInv
<1>3. /\ r \in Request /\ queue' \in Seq(Request)
      /\ Len(queue') = Len(queue) - 1 /\ IdsOf(queue') = IdsOf(queue) \ {r.id}
      /\ r.id \in IdsOf(queue) /\ Distinct(queue')
  <2>1. queue # <<>>
    BY <1>2
  <2> QED
    BY <1>1, <1>2, <2>1, TailIds
<1> HIDE DEF r
<1>4. /\ work'.stage = "write" /\ work'.left = work.left - 1 /\ work'.request = r
      /\ work'.snapshot = work.snapshot /\ work' \in [stage : {"idle", "drain", "write", "rename"},
            left : 0..QueueDepth, request : Request \cup {NoRequest}, snapshot : 0..MaxTick]
  <2>1. work.left - 1 \in 0..QueueDepth
    BY <1>2 DEF Inv, TypeOK
  <2> QED
    BY <1>1, <1>3, <2>1 DEF Inv, TypeOK
<1>5. InHand = {} /\ InHand' = {r.id} /\ Written' = Written /\ Committed' = Committed
  BY <1>1, <1>4 DEF InHand, Written, Committed
<1>6. TypeOK'
  <2>1. Len(queue') <= QueueDepth
    BY <1>2, <1>3 DEF Inv, TypeOK
  <2>2. backpressured' \in BOOLEAN
    BY <1>1 DEF Backpressure, Inv, TypeOK
  <2>3. temps' \in [Ids -> Content]
    BY <1>1 DEF Inv, TypeOK, Content
  <2> QED
    BY <1>1, <1>3, <1>4, <2>1, <2>2, <2>3 DEF Inv, TypeOK
<1>7. FlushInv'
  <2>1. HasRoom(queue')
    BY <1>2, <1>3 DEF HasRoom, Inv, TypeOK
  <2> QED
    BY <1>1, <1>2, <1>3, <1>4, <2>1 DEF Inv, FlushInv
<1>8. Accounts'
  BY <1>1, <1>3, <1>5 DEF Inv, Accounts
<1>9. DiskInv'
  BY <1>1, <1>5 DEF Inv, DiskInv, OnlyWholeSaves
<1> QED
  BY <1>6, <1>7, <1>8, <1>9 DEF Inv

\* The temporary file now holds the save.
LEMMA WritePreserves ==
    ASSUME Inv, WriteSucceeds
    PROVE  Inv'
<1>1. /\ running /\ work.stage = "write"
      /\ work' = [work EXCEPT !.stage = "rename"]
      /\ temps' = [temps EXCEPT ![work.request.id] = Whole(SaveOf(work.request))]
      /\ UNCHANGED <<running, run, tick, published, scheduler, queue, backpressured,
                     files, committed, dropped, recovered>>
  BY DEF WriteSucceeds
<1>2. /\ work'.stage = "rename" /\ work'.left = work.left /\ work'.request = work.request
      /\ work'.snapshot = work.snapshot /\ work' \in [stage : {"idle", "drain", "write", "rename"},
            left : 0..QueueDepth, request : Request \cup {NoRequest}, snapshot : 0..MaxTick]
  BY <1>1 DEF Inv, TypeOK
<1>3. SaveOf(work.request) \in Save /\ SaveOf(work.request)' = SaveOf(work.request)
      /\ work.request.id \in Ids
  BY <1>1, <1>2 DEF Inv, TypeOK, FlushInv, SaveOf, Save, Request
<1>4. Written' = Written /\ Committed' = Committed /\ InHand' = InHand
  BY <1>1, <1>2 DEF InHand, Written, Committed
<1>5. temps' \in [Ids -> Content] /\ temps'[work.request.id] = Whole(SaveOf(work.request))
  <2>1. temps \in [Ids -> Content] /\ Whole(SaveOf(work.request)) \in Content
    BY <1>3 DEF Inv, TypeOK, Content
  <2> QED
    BY <1>1, <1>3, <2>1
<1>6. TypeOK'
  BY <1>1, <1>2, <1>5 DEF Inv, TypeOK
<1>7. FlushInv'
  BY <1>1, <1>2, <1>3, <1>5 DEF Inv, FlushInv, HasRoom
<1>8. Accounts'
  BY <1>1, <1>4 DEF Inv, Accounts
<1>9. DiskInv'
  BY <1>1, <1>4 DEF Inv, DiskInv, OnlyWholeSaves
<1> QED
  BY <1>6, <1>7, <1>8, <1>9 DEF Inv

\* Where a request leaves the flush: on to the next, or done.
LEMMA AfterRequestTyped ==
    ASSUME Inv, work.stage \in {"write", "rename"}
    PROVE  LET upcoming == AfterRequest(work.left) IN
           /\ upcoming \in [stage : {"idle", "drain", "write", "rename"}, left : 0..QueueDepth,
                        request : Request \cup {NoRequest}, snapshot : 0..MaxTick]
           /\ upcoming.stage \in {"idle", "drain"}
           /\ upcoming.stage = "drain" => /\ upcoming.left \in 1..Len(queue)
                                          /\ upcoming.snapshot \in 1..MaxTick
<1>1. /\ work \in [stage : {"idle", "drain", "write", "rename"}, left : 0..QueueDepth,
                    request : Request \cup {NoRequest}, snapshot : 0..MaxTick]
      /\ work.left <= Len(queue) /\ work.snapshot \in 1..MaxTick /\ Len(queue) \in Nat
  BY DEF Inv, TypeOK, FlushInv
<1>2. Idle \in [stage : {"idle", "drain", "write", "rename"}, left : 0..QueueDepth,
               request : Request \cup {NoRequest}, snapshot : 0..MaxTick]
  BY DEF Idle
<1>3. work.left = 0 => AfterRequest(work.left) = Idle
  BY DEF AfterRequest
<1>4. work.left # 0 =>
         AfterRequest(work.left) = [work EXCEPT !.stage = "drain", !.request = NoRequest]
  BY DEF AfterRequest
<1>5. CASE work.left = 0
  BY <1>2, <1>3, <1>5 DEF Idle
<1>6. CASE work.left # 0
  <2> DEFINE upcoming == [work EXCEPT !.stage = "drain", !.request = NoRequest]
  <2>1. /\ upcoming \in [stage : {"idle", "drain", "write", "rename"}, left : 0..QueueDepth,
                     request : Request \cup {NoRequest}, snapshot : 0..MaxTick]
        /\ upcoming.stage = "drain" /\ upcoming.left = work.left /\ upcoming.snapshot = work.snapshot
    BY <1>1
  <2>2. work.left \in 1..Len(queue)
    BY <1>1, <1>6
  <2> QED
    BY <1>1, <1>4, <1>6, <2>1, <2>2
<1> QED
  BY <1>5, <1>6

\* A commit that fails puts its request back: the slot it left is still free.
LEMMA CommitFailsPreserves ==
    ASSUME Inv, CommitFails
    PROVE  Inv'
<1> DEFINE r == work.request
<1>1. /\ running /\ work.stage \in {"write", "rename"}
      /\ temps' \in {temps, [temps EXCEPT ![r.id] = NoFile]}
      /\ queue' = Retried(queue, r)
      /\ backpressured' = (IF HasRoom(queue)
                           THEN Backpressure(backpressured, Len(queue'))
                           ELSE backpressured)
      /\ work' = AfterRequest(work.left)
      /\ UNCHANGED <<files, running, run, tick, published, scheduler, committed, dropped,
                     recovered>>
  BY DEF CommitFails, Removed
<1>2. /\ r \in Request /\ r.id \in Ids /\ queue \in Seq(Request) /\ Len(queue) <= QueueDepth
      /\ Distinct(queue) /\ InHand = {r.id} /\ r.id \notin IdsOf(queue) /\ HasRoom(queue)
  BY <1>1 DEF Inv, TypeOK, FlushInv, Accounts, InHand, Request
<1>3. /\ work' \in [stage : {"idle", "drain", "write", "rename"}, left : 0..QueueDepth,
                     request : Request \cup {NoRequest}, snapshot : 0..MaxTick]
      /\ work'.stage \in {"idle", "drain"}
      /\ work'.stage = "drain" => work'.left \in 1..Len(queue) /\ work'.snapshot \in 1..MaxTick
  BY <1>1, AfterRequestTyped
<1> HIDE DEF r
<1>4. /\ queue' \in Seq(Request) /\ Len(queue') <= QueueDepth /\ Len(queue) <= Len(queue')
      /\ Distinct(queue') /\ IdsOf(queue') = IdsOf(queue) \cup {r.id}
  <2>1. queue' = Append(queue, r)
    BY <1>1, <1>2 DEF Retried
  <2>2. /\ queue' \in Seq(Request) /\ Len(queue') = Len(queue) + 1 /\ Distinct(queue')
        /\ IdsOf(queue') = IdsOf(queue) \cup {r.id}
    BY <1>2, <2>1, AppendIds
  <2> QED
    BY <1>2, <2>2 DEF HasRoom
<1>5. InHand' = {} /\ Written' = Written /\ Committed' = Committed
  BY <1>1, <1>3 DEF InHand, Written, Committed
<1>6. TypeOK'
  <2>1. backpressured' \in BOOLEAN
    BY <1>1 DEF Backpressure, Inv, TypeOK
  <2>2. temps' \in [Ids -> Content]
    BY <1>1 DEF Inv, TypeOK, Content
  <2> QED
    BY <1>1, <1>3, <1>4, <2>1, <2>2 DEF Inv, TypeOK
<1>7. FlushInv'
  BY <1>1, <1>3, <1>4 DEF FlushInv
<1>8. Accounts'
  <2>1. /\ 1..scheduler.nextId = IdsOf(queue) \cup {r.id} \cup Written \cup dropped
        /\ IdsOf(queue) \cap (Written \cup dropped) = {}
        /\ r.id \notin Written \cup dropped
    BY <1>1, <1>2 DEF Inv, Accounts
  <2>2. /\ 1..scheduler.nextId = IdsOf(queue') \cup Written \cup dropped'
        /\ IdsOf(queue') \cap (Written \cup dropped') = {}
    BY <1>1, <1>4, <2>1
  <2> QED
    BY <1>1, <1>4, <1>5, <2>2 DEF Accounts
<1>9. DiskInv'
  BY <1>1, <1>5 DEF Inv, DiskInv, OnlyWholeSaves
<1> QED
  BY <1>6, <1>7, <1>8, <1>9 DEF Inv

\* A rename that succeeds commits the save: a file that was there under that id
\* is of an earlier run, because this run writes an id once.
LEMMA RenameEffect ==
    ASSUME Inv, RenameSucceeds
    PROVE  /\ Inv'
           /\ \A id \in Ids : files[id].kind = "whole" /\ files'[id] # files[id] =>
                 /\ files'[id].kind = "whole"
                 /\ files'[id].save.run > files[id].save.run
<1> DEFINE id == work.request.id
           written == SaveOf(work.request)
<1>1. /\ running /\ work.stage = "rename"
      /\ files' = [files EXCEPT ![id] = temps[id]]
      /\ temps' = [temps EXCEPT ![id] = NoFile]
      /\ committed' = Append(committed, written)
      /\ work' = AfterRequest(work.left)
      /\ UNCHANGED <<running, run, tick, published, scheduler, queue, backpressured,
                     dropped, recovered>>
  BY DEF RenameSucceeds
<1>2. /\ work.request \in Request /\ id \in Ids /\ InHand = {id}
      /\ temps[id] = Whole(written) /\ id \notin Written \cup dropped \cup IdsOf(queue)
  BY <1>1 DEF Inv, TypeOK, FlushInv, Accounts, InHand, Request
<1>3. written \in Save /\ written.id = id /\ written.run = run
  BY <1>1, <1>2 DEF Inv, TypeOK, FlushInv, SaveOf, Save, Request
<1>4. /\ work' \in [stage : {"idle", "drain", "write", "rename"}, left : 0..QueueDepth,
                     request : Request \cup {NoRequest}, snapshot : 0..MaxTick]
      /\ work'.stage \in {"idle", "drain"}
      /\ work'.stage = "drain" => work'.left \in 1..Len(queue) /\ work'.snapshot \in 1..MaxTick
  BY <1>1, AfterRequestTyped
<1>5. /\ files \in [Ids -> Content] /\ temps \in [Ids -> Content] /\ committed \in Seq(Save)
      /\ run \in Nat
  BY DEF Inv, TypeOK
<1> HIDE DEF id, written
<1>6. /\ files'[id] = Whole(written)
      /\ \A other \in Ids : other # id => files'[other] = files[other]
  BY <1>1, <1>2, <1>5
<1>7. Committed' = Committed \cup {written} /\ committed' \in Seq(Save)
  <2>1. /\ committed' \in Seq(Save) /\ Len(committed') = Len(committed) + 1
        /\ committed'[Len(committed) + 1] = written /\ Len(committed) \in Nat
        /\ \A i \in 1..Len(committed) : committed'[i] = committed[i]
    BY <1>1, <1>3, <1>5
  <2>2. 1..Len(committed') = 1..Len(committed) \cup {Len(committed) + 1}
    BY <2>1
  <2> QED
    BY <2>1, <2>2 DEF Committed
<1>8. InHand' = {} /\ Written' = Written \cup {id}
  BY <1>1, <1>3, <1>4, <1>7 DEF InHand, Written
<1>9. TypeOK'
  <2>1. Whole(written) \in Content /\ NoFile \in Content
    BY <1>3 DEF Content
  <2>2. files' \in [Ids -> Content] /\ temps' \in [Ids -> Content]
    BY <1>1, <1>2, <1>5, <2>1
  <2> QED
    BY <1>1, <1>4, <1>7, <2>2 DEF Inv, TypeOK
<1>10. FlushInv'
  BY <1>1, <1>4 DEF FlushInv
<1>11. Accounts'
  BY <1>1, <1>2, <1>8 DEF Inv, Accounts
<1>12. DiskInv'
  <2>1. OnlyWholeSaves'
    <3> SUFFICES ASSUME NEW other \in Ids, files'[other] # NoFile
                 PROVE  \E s \in Committed' : s.id = other /\ files'[other] = Whole(s)
      BY DEF OnlyWholeSaves
    <3>1. CASE other = id
      BY <1>3, <1>6, <1>7, <3>1
    <3>2. CASE other # id
      BY <1>6, <1>7, <3>2 DEF Inv, DiskInv, OnlyWholeSaves
    <3> QED
      BY <3>1, <3>2
  <2>2. \A s \in Committed' : s.run <= run /\ files'[s.id].kind = "whole"
    <3> TAKE s \in Committed'
    <3>1. CASE s = written
      BY <1>3, <1>5, <1>6, <3>1 DEF Whole
    <3>2. CASE s # written
      <4>1. s \in Committed /\ s.id \in Ids
        BY <1>7, <3>2, CommittedTyped DEF Inv, Save
      <4>2. s.run <= run /\ files[s.id].kind = "whole"
        BY <4>1 DEF Inv, DiskInv
      <4> QED
        BY <1>6, <4>1, <4>2 DEF Whole
    <3> QED
      BY <3>1, <3>2
  <2> QED
    BY <1>1, <2>1, <2>2 DEF DiskInv
<1>13. ASSUME NEW other \in Ids, files[other].kind = "whole", files'[other] # files[other]
       PROVE  files'[other].kind = "whole" /\ files'[other].save.run > files[other].save.run
  <2>1. other = id /\ files[id] # NoFile
    BY <1>6, <1>13 DEF NoFile
  <2>2. PICK old \in Committed : old.id = id /\ files[id] = Whole(old)
    BY <1>2, <2>1 DEF Inv, DiskInv, OnlyWholeSaves
  <2>3. old.run <= run /\ old.run # run /\ old \in Save
    BY <1>2, <2>2, CommittedTyped DEF Inv, DiskInv, Written
  <2>4. old.run < run
    BY <1>5, <2>3 DEF Save
  <2> QED
    BY <1>3, <1>6, <2>1, <2>2, <2>4 DEF Whole
<1> QED
  BY <1>9, <1>10, <1>11, <1>12, <1>13 DEF Inv

\* What a program that goes down leaves: the disk, and nothing else.
LEMMA ForgetPreserves ==
    ASSUME Inv, Stop \/ Crash
    PROVE  Inv' /\ files' = files
<1>1. /\ ~running' /\ tick' = 0 /\ published' = 0 /\ scheduler' = IdleScheduler
      /\ queue' = <<>> /\ backpressured' = FALSE /\ work' = Idle /\ dropped' = {}
      /\ UNCHANGED <<run, files, temps, committed, recovered>> /\ running' \in BOOLEAN
  BY DEF Stop, Crash, Forget, disk
<1>2. Committed' = Committed /\ InHand' = {} /\ IdsOf(queue') = {}
  BY <1>1 DEF Committed, InHand, Idle, IdsOf
<1>3. TypeOK'
  <2>1. scheduler' \in Scheduler
    BY <1>1 DEF Scheduler, IdleScheduler
  <2>2. work' \in [stage : {"idle", "drain", "write", "rename"}, left : 0..QueueDepth,
                   request : Request \cup {NoRequest}, snapshot : 0..MaxTick]
    BY <1>1 DEF Idle
  <2>3. tick' \in 0..MaxTick /\ published' \in 0..MaxTick /\ dropped' \in SUBSET Ids
        /\ backpressured' \in BOOLEAN
    <3>1. backpressured' = FALSE /\ dropped' = {} /\ tick' = 0 /\ published' = 0
      BY <1>1
    <3>2. 0 \in 0..MaxTick /\ {} \in SUBSET Ids /\ FALSE \in BOOLEAN
      OBVIOUS
    <3>3. backpressured' \in BOOLEAN
      BY <3>1, Zenon
    <3> QED
      BY <3>1, <3>2, <3>3
  <2>4. queue' \in Seq(Request) /\ Len(queue') <= QueueDepth
    BY <1>1
  <2> QED
    BY <1>1, <2>1, <2>2, <2>3, <2>4 DEF Inv, TypeOK, Scheduler
<1>4. FlushInv' /\ Distinct(queue')
  BY <1>1 DEF FlushInv, Idle, Distinct
<1>5. Accounts'
  BY <1>1, <1>2, <1>4 DEF Accounts
<1>6. DiskInv'
  BY <1>1, <1>2 DEF Inv, DiskInv, OnlyWholeSaves
<1> QED
  BY <1>1, <1>3, <1>4, <1>5, <1>6 DEF Inv

\* A set of ids that is not empty has a greatest one, which Newest is.
LEMMA NewestExists ==
    ASSUME Enumerated # {}
    PROVE  Newest \in Enumerated
<1> DEFINE K == MaxRequests + MaxTick
           below == {K - id : id \in Enumerated}
           R == OpToRel(<, Nat)
<1>1. K \in Nat /\ \A id \in Enumerated : id \in 1..K
  BY DEF Enumerated, Ids
<1>2. below \subseteq Nat /\ below # {}
  BY <1>1
<1>3. IsWellFoundedOn(R, Nat)
  BY NatLessThanWellFounded
<1> HIDE DEF below
<1>4. PICK n \in below : \A m \in below : ~(<<m, n>> \in R)
  BY <1>2, <1>3, WFMin
<1>5. \A m \in below : ~(m < n)
  BY <1>2, <1>4 DEF OpToRel
<1>6. PICK id \in Enumerated : n = K - id
  BY DEF below
<1>7. \A other \in Enumerated : other <= id
  <2> TAKE other \in Enumerated
  <2>1. ~(K - other < n)
    BY <1>5 DEF below
  <2> QED
    BY <1>1, <1>6, <2>1
<1> QED
  BY <1>6, <1>7 DEF Newest

\* A start takes the newest save, and finds one as soon as one was committed.
LEMMA StartEffect ==
    ASSUME Inv, Start
    PROVE  /\ Inv' /\ files' = files
           /\ committed # <<>> => recovered' \in Committed
<1>1. /\ ~running /\ running' = TRUE /\ run' = run + 1 /\ run < MaxRuns
      /\ recovered' = (IF Enumerated = {} THEN NoSave ELSE files[Newest].save)
      /\ UNCHANGED <<tick, published, scheduler, queue, backpressured, work,
                     files, temps, committed, dropped>>
  BY DEF Start, memory, disk
<1>2. /\ scheduler = IdleScheduler /\ queue = <<>> /\ dropped = {} /\ work.stage = "idle"
      /\ run \in 1..MaxRuns
  BY <1>1 DEF Inv, TypeOK, Accounts, FlushInv
<1>3. Enumerated # {} => recovered' \in Committed
  <2> SUFFICES ASSUME Enumerated # {} PROVE recovered' \in Committed
    OBVIOUS
  <2>1. Newest \in Ids /\ files[Newest].kind = "whole"
    BY NewestExists DEF Enumerated
  <2>2. PICK written \in Committed : files[Newest] = Whole(written)
    BY <2>1 DEF Inv, DiskInv, OnlyWholeSaves, NoFile
  <2> QED
    BY <1>1, <2>2 DEF Whole
<1>4. committed # <<>> => Enumerated # {}
  <2> SUFFICES ASSUME committed # <<>> PROVE Enumerated # {}
    OBVIOUS
  <2>1. committed \in Seq(Save)
    BY DEF Inv, TypeOK
  <2>2. 1 \in 1..Len(committed)
    BY <2>1
  <2>3. committed[1] \in Committed /\ committed[1] \in Save
    BY <2>1, <2>2 DEF Committed
  <2>4. committed[1].id \in Ids
    BY <2>3 DEF Save
  <2> QED
    BY <2>3, <2>4 DEF Inv, DiskInv, Enumerated
<1>5. /\ Committed' = Committed /\ InHand' = {} /\ IdsOf(queue') = {} /\ Written' = {}
      /\ run' \in 1..MaxRuns
  <2>1. \A written \in Committed : written.run # run + 1
    BY <1>2, CommittedTyped DEF Inv, DiskInv, Save
  <2> QED
    BY <1>1, <1>2, <2>1 DEF Committed, InHand, IdsOf, Written
<1>6. TypeOK'
  <2>1. recovered' \in Save \cup {NoSave}
    BY <1>1, <1>3, CommittedTyped DEF Inv
  <2> QED
    BY <1>1, <1>5, <2>1 DEF Inv, TypeOK
<1>7. FlushInv'
  BY <1>1, <1>2 DEF FlushInv
<1>8. Accounts'
  BY <1>1, <1>2, <1>5 DEF Inv, Accounts, IdleScheduler
<1>9. DiskInv'
  <2>1. \A written \in Committed : written.run <= run + 1
    BY <1>2, CommittedTyped DEF Inv, DiskInv, Save
  <2> QED
    BY <1>1, <1>5, <2>1 DEF Inv, DiskInv, OnlyWholeSaves
<1> QED
  BY <1>1, <1>3, <1>4, <1>6, <1>7, <1>8, <1>9 DEF Inv

---------------------------------------------------------------------------
(* Theorems.                                                               *)

\* One step of the program, up or down.
LEMMA InvStep ==
    ASSUME Inv, [Next]_vars
    PROVE  Inv'
<1>1. CASE \/ \E trigger \in Requestable : RequestSave(trigger)
           \/ \E untilTick \in 1..MaxTick : DeferSave(untilTick)
  BY <1>1, AskPreserves
<1>2. CASE \E captured \in BOOLEAN : Update(captured)
  BY <1>2, UpdatePreserves
<1>3. CASE BeginCommit
  BY <1>3, BeginCommitPreserves
<1>4. CASE WriteSucceeds
  BY <1>4, WritePreserves
<1>5. CASE CommitFails
  BY <1>5, CommitFailsPreserves
<1>6. CASE RenameSucceeds
  BY <1>6, RenameEffect
<1>7. CASE Stop \/ Crash
  BY <1>7, ForgetPreserves
<1>8. CASE Start
  BY <1>8, StartEffect
<1>9. CASE UNCHANGED vars
  BY <1>9 DEF vars, memory, disk, Inv, TypeOK, FlushInv, SaveOf, Accounts, DiskInv,
              OnlyWholeSaves, Committed, InHand, Written
<1> QED
  BY <1>1, <1>2, <1>3, <1>4, <1>5, <1>6, <1>7, <1>8, <1>9 DEF Next

LEMMA Invariance == Spec => []Inv
  BY InvInit, InvStep, PTL DEF Spec

\* Every variable keeps its type and every emitted request is in exactly one
\* place: queued, in the worker's hand, written, or refused by a queue that was full
\* when it was due; a retry is never refused.
THEOREM Requests == Spec => []RequestsAccounted
<1>1. ASSUME Inv PROVE RequestsAccounted
  <2>1. queue \in Seq(Request) /\ Distinct(queue) /\ QueuedIds = IdsOf(queue)
    BY <1>1 DEF Inv, TypeOK, Accounts, QueuedIds, IdsOf
  <2>2. Cardinality(QueuedIds) = Len(queue)
    BY <2>1, DistinctCount
  <2> QED
    BY <1>1, <2>1, <2>2 DEF Inv, Accounts, RequestsAccounted
<1> QED
  BY <1>1, Invariance, PTL

\* Whatever interrupts the program, a file under a save's name is whole, is the
\* save of that id, and was reported committed.
THEOREM WholeSaves == Spec => []OnlyWholeSaves
<1>1. Inv => OnlyWholeSaves
  BY DEF Inv, DiskInv
<1> QED
  BY <1>1, Invariance, PTL

\* A committed save is given up only to a save of its id by a later run.
THEOREM Kept == Spec => SavesAreKept
<1> DEFINE KeptOf(id) == files[id].kind = "whole" /\ files'[id] # files[id] =>
                            /\ files'[id].kind = "whole"
                            /\ files'[id].save.run > files[id].save.run
<1>1. ASSUME Inv, [Next]_vars PROVE \A id \in Ids : KeptOf(id)
  <2>1. CASE RenameSucceeds
    BY <1>1, <2>1, RenameEffect
  <2>2. CASE files' = files
    BY <2>2
  <2>3. RenameSucceeds \/ files' = files
    BY <1>1 DEF Next, vars, RequestSave, DeferSave, Update, BeginCommit, Opened,
                WriteSucceeds, CommitFails, Removed, Stop, Crash, Forget, Start, disk
  <2> QED
    BY <2>1, <2>2, <2>3
<1> QED
  BY <1>1, Invariance, PTL DEF Spec, SavesAreKept

\* Once a save was committed, every later start has one to recover from.
THEOREM Recovered == Spec => StartFindsASave
<1>1. ASSUME Inv, [Next]_vars, ~running, running', committed # <<>>
      PROVE  recovered' \in Committed
  <2>1. Start
    BY <1>1 DEF Next, vars, RequestSave, DeferSave, Update, BeginCommit, WriteSucceeds,
                CommitFails, RenameSucceeds, Stop, Crash, Forget
  <2> QED
    BY <1>1, <2>1, StartEffect
<1> QED
  BY <1>1, Invariance, PTL DEF Spec, StartFindsASave

---------------------------------------------------------------------------
(***************************************************************************)
(* Recovery.                                                               *)
(***************************************************************************)

(***************************************************************************)
(* The dry run of a migration.                                             *)
(***************************************************************************)

\* One step of CanMigrate's loop from v, when g says what becomes of later versions.
Reached(g, v, to) ==
    v = to \/ (v < to /\ v \in DOMAIN steps /\ steps[v] > v /\ g[steps[v]])

StepsOK == DOMAIN steps \subseteq Version /\ \A v \in DOMAIN steps : steps[v] \in Version

\* A step leads to a later version, so the recursion of the dry run is well founded.
LEMMA ReachesExists ==
    ASSUME StepsOK, NEW to \in Version
    PROVE  \E g : g = [v \in Version |-> Reached(g, v, to)]
<1> DEFINE Good(g, n) == \A v \in Version : v > MaxVersion - n => g[v] = Reached(g, v, to)
           T == {n \in Nat : ~\E g \in [Version -> BOOLEAN] : Good(g, n)}
           R == OpToRel(<, Nat)
<1>0. MaxVersion \in Nat
  BY RecoveryAssumption
<1>1. T = {}
  <2> SUFFICES ASSUME T # {} PROVE FALSE
    OBVIOUS
  <2>1. IsWellFoundedOn(R, Nat)
    BY NatLessThanWellFounded
  <2>2. T \subseteq Nat
    OBVIOUS
  <2>3. PICK n \in T : \A m \in T : ~(<<m, n>> \in R)
    <3> HIDE DEF T, R
    <3> QED
      BY <2>1, <2>2, WFMin
  <2>4. n # 0
    <3>1. Good([v \in Version |-> FALSE], 0)
      BY <1>0 DEF Version
    <3>2. [v \in Version |-> FALSE] \in [Version -> BOOLEAN]
      OBVIOUS
    <3> QED
      BY <3>1, <3>2
  <2>5. n - 1 \in Nat /\ n - 1 < n
    BY <2>4
  <2>6. n - 1 \notin T
    <3> HIDE DEF T
    <3> QED
      BY <2>2, <2>3, <2>5 DEF OpToRel
  <2>7. PICK g \in [Version -> BOOLEAN] : Good(g, n - 1)
    BY <2>5, <2>6
  <2> DEFINE w == MaxVersion - (n - 1)
             h == [v \in Version |-> IF v = w THEN Reached(g, w, to) ELSE g[v]]
  <2>8. h \in [Version -> BOOLEAN]
    BY <2>7 DEF Reached
  <2>9. Good(h, n)
    <3> SUFFICES ASSUME NEW v \in Version, v > MaxVersion - n
                 PROVE  h[v] = Reached(h, v, to)
      OBVIOUS
    <3>1. v >= w
      BY <1>0 DEF Version
    <3>2. v \in DOMAIN steps /\ steps[v] > v => steps[v] \in Version /\ steps[v] # w
      BY <1>0, <3>1 DEF Version, StepsOK
    <3>3. v \in DOMAIN steps /\ steps[v] > v => h[steps[v]] = g[steps[v]]
      BY <3>2
    <3>4. Reached(h, v, to) = Reached(g, v, to)
      BY <3>3 DEF Reached
    <3>5. CASE v = w
      BY <3>4, <3>5
    <3>6. CASE v # w
      <4>1. v > MaxVersion - (n - 1)
        BY <1>0, <3>1, <3>6 DEF Version
      <4>2. g[v] = Reached(g, v, to)
        BY <4>1, <2>7
      <4> QED
        BY <3>4, <3>6, <4>2
    <3> QED
      BY <3>5, <3>6
  <2> HIDE DEF h
  <2> QED
    BY <2>8, <2>9
<1>2. PICK g \in [Version -> BOOLEAN] : Good(g, MaxVersion)
  BY <1>0, <1>1
<1>3. \A v \in Version : g[v] = Reached(g, v, to)
  BY <1>0, <1>2 DEF Version
<1>4. g = [v \in Version |-> Reached(g, v, to)]
  BY <1>2, <1>3
<1> QED
  BY <1>4

\* CanMigrate is its loop: stop at the target, fail past it or where no step goes on.
LEMMA CanMigrateUnfolds ==
    ASSUME StepsOK, NEW from \in Version, NEW to \in Version
    PROVE  CanMigrate(from, to) <=>
               \/ from = to
               \/ /\ from < to /\ from \in DOMAIN steps /\ steps[from] > from
                  /\ CanMigrate(steps[from], to)
<1> DEFINE reaches == CHOOSE g : g = [v \in Version |-> Reached(g, v, to)]
<1>1. reaches = [v \in Version |-> Reached(reaches, v, to)]
  BY ReachesExists
<1>2. \A v : CanMigrate(v, to) = reaches[v]
  BY DEF CanMigrate, Reached
<1> HIDE DEF reaches
<1>3. reaches[from] = Reached(reaches, from, to)
  BY <1>1
<1> QED
  BY <1>2, <1>3 DEF Reached

\* It reads nothing but the steps.
LEMMA CanMigrateStable ==
    ASSUME steps' = steps
    PROVE  \A from, to : CanMigrate(from, to)' = CanMigrate(from, to)
  BY DEF CanMigrate

-----------------------------------------------------------------------------
(***************************************************************************)
(* The records of a save, in their order.                                  *)
(***************************************************************************)

\* How many records come before those of phase p.
Before(p) ==
    LET registry == Len(loaded.entities)
        players  == Len(loaded.players)
        alife    == Len(loaded.alife)
    IN  [World |-> 0, Registry |-> 2, Players |-> 2 + registry,
         ALife |-> 2 + registry + players, Scheduler |-> 2 + registry + players + alife,
         Complete |-> 3 + registry + players + alife][p]

LEMMA RecordsOf ==
    /\ Records("World") = <<"world", "environment">>
    /\ Records("Registry") = loaded.entities
    /\ Records("Players") = loaded.players
    /\ Records("ALife") = loaded.alife
    /\ Records("Scheduler") = <<"scheduler">>
  BY Zenon DEF Records

LEMMA BeforeOf ==
    /\ Before("World") = 0
    /\ Before("Registry") = 2
    /\ Before("Players") = 2 + Len(loaded.entities)
    /\ Before("ALife") = 2 + Len(loaded.entities) + Len(loaded.players)
    /\ Before("Scheduler") = 2 + Len(loaded.entities) + Len(loaded.players)
                               + Len(loaded.alife)
    /\ Before("Complete") = 3 + Len(loaded.entities) + Len(loaded.players)
                               + Len(loaded.alife)
  BY DEF Before

LEMMA PhasesInOrder ==
    /\ PhaseAfter("World") = "Registry" /\ PhaseAfter("Registry") = "Players"
    /\ PhaseAfter("Players") = "ALife" /\ PhaseAfter("ALife") = "Scheduler"
    /\ PhaseAfter("Scheduler") = "Complete"
  BY Zenon DEF PhaseAfter

LEMMA ConcatPlaces ==
    ASSUME NEW S, NEW t \in Seq(S), NEW u \in Seq(S)
    PROVE  /\ t \o u \in Seq(S) /\ Len(t \o u) = Len(t) + Len(u)
           /\ \A k \in 1..Len(t) : (t \o u)[k] = t[k]
           /\ \A k \in 1..Len(u) : (t \o u)[Len(t) + k] = u[k]
<1>1. Len(t) \in Nat /\ Len(u) \in Nat
  BY LenProperties
<1>2. /\ t \o u \in Seq(S) /\ Len(t \o u) = Len(t) + Len(u)
      /\ \A k \in 1..Len(t) + Len(u) :
            (t \o u)[k] = IF k <= Len(t) THEN t[k] ELSE u[k - Len(t)]
  BY ConcatProperties
<1>3. ASSUME NEW k \in 1..Len(u) PROVE (t \o u)[Len(t) + k] = u[k]
  <2>1. /\ Len(t) + k \in 1..Len(t) + Len(u)
        /\ ~(Len(t) + k <= Len(t)) /\ (Len(t) + k) - Len(t) = k
    BY <1>1
  <2> QED
    BY <1>2, <2>1
<1> QED
  BY <1>1, <1>2, <1>3

Acceptable == UNION {{Tagged(p)[i] : i \in DOMAIN Records(p)} : p \in Restores}

\* What the lists of a save are.
LEMMA ContentType ==
    ASSUME NEW c \in SaveContent
    PROVE  /\ c.entities \in Seq(EntityRecord) /\ Len(c.entities) \in 0..MaxEntities
           /\ c.players \in Seq(Id) /\ Len(c.players) \in Nat
           /\ c.alife \in Seq({1}) /\ Len(c.alife) \in Nat
           /\ c.build \in {Compatibility, Compatibility + 1}
           /\ c.miscounted \in BOOLEAN
<1>1. \A S : \A n \in Nat : \A s \in BoundedSeq(S, n) : s \in Seq(S) /\ Len(s) \in 0..n
  BY DEF BoundedSeq, SeqOf
<1> QED
  BY <1>1, RecoveryAssumption DEF SaveContent

LEMMA NoContentType == NoContent \in SaveContent
<1>1. \A S : \A n \in Nat : <<>> \in BoundedSeq(S, n)
  BY DEF BoundedSeq, SeqOf
<1> QED
  BY <1>1, RecoveryAssumption DEF NoContent, SaveContent

\* What the file holds.
LEMMA FileType ==
    ASSUME save \in Artifact
    PROVE  content \in SaveContent
  BY NoContentType DEF content, Artifact

LEMMA TaggedType ==
    ASSUME loaded \in SaveContent, NEW p \in Restores
    PROVE  /\ Tagged(p) \in Seq(Acceptable)
           /\ Len(Tagged(p)) = Len(Records(p)) /\ Len(Records(p)) \in Nat
           /\ \A i \in 1..Len(Records(p)) :
                  Tagged(p)[i] = [phase |-> p, record |-> Records(p)[i]]
<1>1. Len(Records(p)) \in Nat /\ DOMAIN Records(p) = 1..Len(Records(p))
  <2>1. \E S : Records(p) \in Seq(S)
    <3>1. <<"world", "environment">> \in Seq({"world", "environment"})
          /\ <<"scheduler">> \in Seq({"scheduler"})
      OBVIOUS
    <3> QED
      BY <3>1, ContentType, RecordsOf DEF Restores
  <2> QED
    BY <2>1, LenProperties
<1>2. Tagged(p) = [i \in 1..Len(Records(p)) |-> [phase |-> p, record |-> Records(p)[i]]]
  BY <1>1 DEF Tagged
<1>3. \A i \in 1..Len(Records(p)) : Tagged(p)[i] \in Acceptable
  BY <1>1 DEF Acceptable
<1>4. Tagged(p) \in [1..Len(Records(p)) -> Acceptable]
  BY <1>2, <1>3
<1> QED
  BY <1>1, <1>2, <1>4

\* One phase begins where the one before it ends, the players' after the entities.
LEMMA PhasesAreAdjacent ==
    ASSUME loaded \in SaveContent, NEW q \in Restores
    PROVE  /\ Before(q) \in Nat /\ Before(PhaseAfter(q)) = Before(q) + Len(Records(q))
           /\ Before("Complete") \in Nat /\ Before(q) <= Before("Complete")
           /\ 2 + Len(loaded.entities) <= Before("Complete")
           /\ q \notin {"World", "Registry"} => 2 + Len(loaded.entities) <= Before(q)
<1> DEFINE e == Len(loaded.entities)
           p == Len(loaded.players)
           a == Len(loaded.alife)
<1>1. e \in Nat /\ p \in Nat /\ a \in Nat
  BY ContentType
<1>2. Len(<<"world", "environment">>) = 2 /\ Len(<<"scheduler">>) = 1
  OBVIOUS
<1>3. /\ Len(Records("World")) = 2 /\ Len(Records("Registry")) = e
      /\ Len(Records("Players")) = p /\ Len(Records("ALife")) = a
      /\ Len(Records("Scheduler")) = 1
  BY <1>2, RecordsOf
<1>4. /\ Before("World") = 0 /\ Before("Registry") = 2 /\ Before("Players") = 2 + e
      /\ Before("ALife") = 2 + e + p /\ Before("Scheduler") = 2 + e + p + a
      /\ Before("Complete") = 3 + e + p + a
  BY BeforeOf
<1> SUFFICES /\ Before(q) \in Nat /\ Before(PhaseAfter(q)) = Before(q) + Len(Records(q))
             /\ Before("Complete") \in Nat /\ Before(q) <= Before("Complete")
             /\ 2 + e <= Before("Complete")
             /\ q \notin {"World", "Registry"} => 2 + e <= Before(q)
  OBVIOUS
<1> HIDE DEF e, p, a
<1>5. CASE q = "World"
  <2>1. Before(q) = 0 /\ Before(PhaseAfter(q)) = 2 /\ Len(Records(q)) = 2
    BY <1>3, <1>4, <1>5, PhasesInOrder
  <2>2. Before("Complete") = 3 + e + p + a
    BY <1>4
  <2>3. q \in {"World", "Registry"}
    BY <1>5
  <2>4. Before(PhaseAfter(q)) = Before(q) + Len(Records(q)) /\ Before(q) \in Nat
    BY <2>1
  <2>5. /\ Before("Complete") \in Nat /\ Before(q) <= Before("Complete")
        /\ 2 + e <= Before("Complete")
    BY <1>1, <2>1, <2>2
  <2> QED
    BY <2>3, <2>4, <2>5
<1>6. CASE q = "Registry"
  <2>1. Before(q) = 2 /\ Before(PhaseAfter(q)) = 2 + e /\ Len(Records(q)) = e
    BY <1>3, <1>4, <1>6, PhasesInOrder
  <2> QED
    BY <1>1, <1>4, <1>6, <2>1
<1>7. CASE q = "Players"
  <2>1. Before(q) = 2 + e /\ Before(PhaseAfter(q)) = 2 + e + p /\ Len(Records(q)) = p
    BY <1>3, <1>4, <1>7, PhasesInOrder
  <2> QED
    BY <1>1, <1>4, <2>1
<1>8. CASE q = "ALife"
  <2>1. Before(q) = 2 + e + p /\ Before(PhaseAfter(q)) = 2 + e + p + a /\ Len(Records(q)) = a
    BY <1>3, <1>4, <1>8, PhasesInOrder
  <2> QED
    BY <1>1, <1>4, <2>1
<1>9. CASE q = "Scheduler"
  <2>1. /\ Before(q) = 2 + e + p + a /\ Before(PhaseAfter(q)) = 3 + e + p + a
        /\ Len(Records(q)) = 1
    BY <1>3, <1>4, <1>9, PhasesInOrder
  <2> QED
    BY <1>1, <1>4, <2>1
<1> QED
  BY <1>5, <1>6, <1>7, <1>8, <1>9 DEF Restores

\* The phases partition the positions: a record's place is its place in its phase.
LEMMA EverythingIsOrdered ==
    ASSUME loaded \in SaveContent
    PROVE  /\ Everything \in Seq(Acceptable)
           /\ Len(Everything) = Before("Complete")
           /\ \A p \in Restores, k \in Nat :
                 k \in 1..Len(Records(p)) =>
                    /\ Before(p) + k \in 1..Len(Everything)
                    /\ Everything[Before(p) + k] = [phase |-> p, record |-> Records(p)[k]]
           /\ \A i \in 1..Len(Everything) :
                 \E p \in Restores, k \in Nat :
                    k \in 1..Len(Records(p)) /\ i = Before(p) + k
<1> DEFINE w == Tagged("World")
           r == Tagged("Registry")
           p == Tagged("Players")
           a == Tagged("ALife")
           s == Tagged("Scheduler")
<1>1. /\ w \in Seq(Acceptable) /\ r \in Seq(Acceptable) /\ p \in Seq(Acceptable)
      /\ a \in Seq(Acceptable) /\ s \in Seq(Acceptable)
  BY TaggedType DEF Restores
<1>2. /\ Len(w) = 2 /\ Len(r) = Len(loaded.entities) /\ Len(p) = Len(loaded.players)
      /\ Len(a) = Len(loaded.alife) /\ Len(s) = 1
  <2>1. \A q \in Restores : Len(Tagged(q)) = Len(Records(q))
    BY TaggedType
  <2>2. /\ Len(Records("World")) = 2 /\ Records("Registry") = loaded.entities
        /\ Records("Players") = loaded.players /\ Records("ALife") = loaded.alife
        /\ Len(Records("Scheduler")) = 1
    BY RecordsOf
  <2> QED
    BY <2>1, <2>2 DEF Restores
<1>3. /\ Len(loaded.entities) \in Nat /\ Len(loaded.players) \in Nat
      /\ Len(loaded.alife) \in Nat
  BY ContentType, LenProperties
<1>4. Everything = w \o r \o p \o a \o s
  BY DEF Everything
<1>5. \A q \in Restores, k \in Nat : k \in 1..Len(Records(q)) =>
         Tagged(q)[k] = [phase |-> q, record |-> Records(q)[k]]
  BY TaggedType
<1>6. /\ Len(Records("World")) = Len(w) /\ Len(Records("Registry")) = Len(r)
      /\ Len(Records("Players")) = Len(p) /\ Len(Records("ALife")) = Len(a)
      /\ Len(Records("Scheduler")) = Len(s)
  BY TaggedType DEF Restores
<1>7. /\ Len(w) \in Nat /\ Len(r) \in Nat /\ Len(p) \in Nat /\ Len(a) \in Nat
      /\ Len(s) \in Nat
  BY <1>1, LenProperties
<1> HIDE DEF w, r, p, a, s
<1>8. /\ Before("World") = 0
      /\ Before("Registry") = Len(w)
      /\ Before("Players") = Len(w) + Len(r)
  BY <1>2, BeforeOf
<1>9. /\ Before("ALife") = Len(w) + Len(r) + Len(p)
      /\ Before("Scheduler") = Len(w) + Len(r) + Len(p) + Len(a)
  BY <1>2, BeforeOf
<1>10. Before("Complete") = Len(w) + Len(r) + Len(p) + Len(a) + Len(s)
  <2>1. Before("Complete") = 3 + Len(r) + Len(p) + Len(a)
    BY <1>2, BeforeOf
  <2>2. Len(w) = 2 /\ Len(s) = 1
    BY <1>2
  <2> QED
    BY <1>7, <2>1, <2>2
<1> DEFINE wr   == w \o r
           wrp  == wr \o p
           wrpa == wrp \o a
<1>11. /\ wr \in Seq(Acceptable) /\ Len(wr) = Len(w) + Len(r)
       /\ \A k \in 1..Len(w) : wr[k] = w[k]
       /\ \A k \in 1..Len(r) : wr[Len(w) + k] = r[k]
  BY <1>1, ConcatPlaces
<1>12. Everything = wr \o p \o a \o s
  BY <1>4
<1> HIDE DEF wr
<1>13. /\ wrp \in Seq(Acceptable) /\ Len(wrp) = Len(wr) + Len(p)
       /\ \A k \in 1..Len(wr) : wrp[k] = wr[k]
       /\ \A k \in 1..Len(p) : wrp[Len(wr) + k] = p[k]
  <2>1. wr \in Seq(Acceptable) /\ p \in Seq(Acceptable)
    BY <1>1, <1>11
  <2>2. /\ wr \o p \in Seq(Acceptable) /\ Len(wr \o p) = Len(wr) + Len(p)
        /\ \A k \in 1..Len(wr) : (wr \o p)[k] = wr[k]
        /\ \A k \in 1..Len(p) : (wr \o p)[Len(wr) + k] = p[k]
    BY <2>1, ConcatPlaces
  <2> QED
    BY <2>2
<1>14. Everything = wrp \o a \o s
  BY <1>12
<1> HIDE DEF wrp
<1>15. /\ wrpa \in Seq(Acceptable) /\ Len(wrpa) = Len(wrp) + Len(a)
       /\ \A k \in 1..Len(wrp) : wrpa[k] = wrp[k]
       /\ \A k \in 1..Len(a) : wrpa[Len(wrp) + k] = a[k]
  <2>1. wrp \in Seq(Acceptable) /\ a \in Seq(Acceptable)
    BY <1>1, <1>13
  <2>2. /\ wrp \o a \in Seq(Acceptable) /\ Len(wrp \o a) = Len(wrp) + Len(a)
        /\ \A k \in 1..Len(wrp) : (wrp \o a)[k] = wrp[k]
        /\ \A k \in 1..Len(a) : (wrp \o a)[Len(wrp) + k] = a[k]
    BY <2>1, ConcatPlaces
  <2> QED
    BY <2>2
<1>16. Everything = wrpa \o s
  BY <1>14
<1> HIDE DEF wrpa
<1>17. /\ Everything \in Seq(Acceptable) /\ Len(Everything) = Len(wrpa) + Len(s)
       /\ \A k \in 1..Len(wrpa) : Everything[k] = wrpa[k]
       /\ \A k \in 1..Len(s) : Everything[Len(wrpa) + k] = s[k]
  <2>1. wrpa \in Seq(Acceptable) /\ s \in Seq(Acceptable)
    BY <1>1, <1>15
  <2>2. /\ wrpa \o s \in Seq(Acceptable) /\ Len(wrpa \o s) = Len(wrpa) + Len(s)
        /\ \A k \in 1..Len(wrpa) : (wrpa \o s)[k] = wrpa[k]
        /\ \A k \in 1..Len(s) : (wrpa \o s)[Len(wrpa) + k] = s[k]
    BY <2>1, ConcatPlaces
  <2> QED
    BY <2>2, <1>16
<1>18. Len(wrp) = Len(w) + Len(r) + Len(p) /\ Len(wrpa) = Len(w) + Len(r) + Len(p) + Len(a)
  BY <1>7, <1>11, <1>13, <1>15
<1>19. Len(Everything) = Before("Complete")
  BY <1>10, <1>17, <1>18
<1>20. \A k \in 1..Len(wrp) : Everything[k] = wrp[k]
  BY <1>7, <1>15, <1>17, <1>18
<1>21. \A k \in 1..Len(wr) : Everything[k] = wr[k]
  BY <1>7, <1>11, <1>13, <1>18, <1>20
<1>22. ASSUME NEW q \in Restores, NEW k \in Nat, k \in 1..Len(Records(q))
       PROVE  /\ Before(q) + k \in 1..Len(Everything)
              /\ Everything[Before(q) + k] = Tagged(q)[k]
  <2>1. CASE q = "World"
    <3>1. k \in 1..Len(w)
      BY <2>1, <1>22, <1>6
    <3>2. k \in 1..Len(wr) /\ k \in 1..Len(Everything) /\ Before(q) + k = k
      BY <3>1, <2>1, <1>7, <1>8, <1>11, <1>17, <1>18
    <3> QED
      BY <3>1, <3>2, <2>1, <1>11, <1>21 DEF w
  <2>2. CASE q = "Registry"
    <3>1. k \in 1..Len(r) /\ Before(q) = Len(w)
      BY <2>2, <1>22, <1>6, <1>8
    <3>2. Before(q) + k \in 1..Len(wr) /\ Before(q) + k \in 1..Len(Everything)
      BY <3>1, <1>7, <1>11, <1>17, <1>18
    <3> QED
      BY <3>1, <3>2, <2>2, <1>11, <1>21 DEF r
  <2>3. CASE q = "Players"
    <3>1. k \in 1..Len(p) /\ Before(q) = Len(wr)
      BY <2>3, <1>22, <1>6, <1>8, <1>11
    <3>2. Before(q) + k \in 1..Len(wrp) /\ Before(q) + k \in 1..Len(Everything)
      BY <3>1, <1>7, <1>11, <1>13, <1>17, <1>18
    <3> QED
      BY <3>1, <3>2, <2>3, <1>13, <1>20 DEF p
  <2>4. CASE q = "ALife"
    <3>1. k \in 1..Len(a) /\ Before(q) = Len(wrp)
      BY <2>4, <1>22, <1>6, <1>9, <1>18
    <3>2. Before(q) + k \in 1..Len(wrpa) /\ Before(q) + k \in 1..Len(Everything)
      BY <3>1, <1>7, <1>15, <1>17, <1>18
    <3> QED
      BY <3>1, <3>2, <2>4, <1>15, <1>17 DEF a
  <2>5. CASE q = "Scheduler"
    <3>1. k \in 1..Len(s) /\ Before(q) = Len(wrpa)
      BY <2>5, <1>22, <1>6, <1>9, <1>18
    <3>2. Before(q) + k \in 1..Len(Everything)
      BY <3>1, <1>7, <1>17, <1>18
    <3> QED
      BY <3>1, <3>2, <2>5, <1>17 DEF s
  <2> QED
    BY <2>1, <2>2, <2>3, <2>4, <2>5 DEF Restores
<1>23. ASSUME NEW i \in 1..Len(Everything)
       PROVE  \E q \in Restores, k \in Nat : k \in 1..Len(Records(q)) /\ i = Before(q) + k
  <2>1. /\ i \in Nat /\ 1 <= i
        /\ i <= Len(w) + Len(r) + Len(p) + Len(a) + Len(s)
    BY <1>7, <1>17, <1>18
  <2>2. CASE i <= Len(w)
    <3>1. i \in 1..Len(Records("World")) /\ i = Before("World") + i
      BY <2>1, <2>2, <1>6, <1>7, <1>8
    <3> QED
      BY <3>1, <2>1 DEF Restores
  <2>3. CASE i > Len(w) /\ i <= Len(w) + Len(r)
    <3> DEFINE k == i - Len(w)
    <3>1. k \in Nat /\ k \in 1..Len(r) /\ i = Len(w) + k
      BY <2>1, <2>3, <1>7
    <3> HIDE DEF k
    <3> QED
      BY <3>1, <1>6, <1>8 DEF Restores
  <2>4. CASE i > Len(w) + Len(r) /\ i <= Len(w) + Len(r) + Len(p)
    <3> DEFINE k == i - (Len(w) + Len(r))
    <3>1. k \in Nat /\ k \in 1..Len(p) /\ i = Len(w) + Len(r) + k
      BY <2>1, <2>4, <1>7
    <3> HIDE DEF k
    <3> QED
      BY <3>1, <1>6, <1>8 DEF Restores
  <2>5. CASE i > Len(w) + Len(r) + Len(p) /\ i <= Len(w) + Len(r) + Len(p) + Len(a)
    <3> DEFINE k == i - (Len(w) + Len(r) + Len(p))
    <3>1. k \in Nat /\ k \in 1..Len(a) /\ i = Len(w) + Len(r) + Len(p) + k
      BY <2>1, <2>5, <1>7
    <3> HIDE DEF k
    <3> QED
      BY <3>1, <1>6, <1>9 DEF Restores
  <2>6. CASE i > Len(w) + Len(r) + Len(p) + Len(a)
    <3> DEFINE k == i - (Len(w) + Len(r) + Len(p) + Len(a))
    <3>1. k \in Nat /\ k \in 1..Len(s) /\ i = Len(w) + Len(r) + Len(p) + Len(a) + k
      BY <2>1, <2>6, <1>7
    <3> HIDE DEF k
    <3> QED
      BY <3>1, <1>6, <1>9 DEF Restores
  <2> QED
    BY <2>1, <2>2, <2>3, <2>4, <2>5, <2>6, <1>7
<1>24. \A q \in Restores, k \in Nat : k \in 1..Len(Records(q)) =>
          /\ Before(q) + k \in 1..Len(Everything)
          /\ Everything[Before(q) + k] = [phase |-> q, record |-> Records(q)[k]]
  BY <1>5, <1>22
<1> HIDE DEF Everything
<1> QED
  BY <1>17, <1>19, <1>23, <1>24

-----------------------------------------------------------------------------
(***************************************************************************)
(* The inductive invariant: where the pipeline stands says what the sinks  *)
(* hold, and what it found out of the save before.                         *)
(***************************************************************************)

Sound == save.file = "whole" /\ IntegrityVerdict(content) = "Ok"

Place ==
    /\ phase = "Complete" => next = 1
    /\ phase # "Complete" => next <= Len(Records(phase)) + 1
    /\ applied \in Seq(Acceptable)
    /\ Len(applied) = Before(phase) + next - 1
    /\ \A i \in 1..Len(applied) : applied[i] = Everything[i]
    /\ restored = IF phase \in {"World", "Registry"} THEN 0 ELSE Len(loaded.entities)

Progress ==
    /\ outcome = "Ok" <=> state = "Completed"
    /\ outcome = "none" <=> state \notin {"Completed", "Failed"}
    /\ phase = "Complete" <=> state = "Completed"
    /\ (state \notin {"Restoring", "Completed"} /\ outcome # "PartialRecovery") =>
          phase = "World" /\ next = 1
    /\ outcome = "PartialRecovery" => phase # "Complete" /\ next <= Len(Records(phase))

\* The walk of the migration has kept what the dry run says of the build version.
Findings ==
    /\ state = "Validating" => save.file = "whole" /\ loaded = content
    /\ state \in {"Migrating", "Restoring", "Completed"} \/ outcome = "PartialRecovery" => Sound
    /\ state = "Migrating" =>
          /\ version \in Version
          /\ content.build > Target => version = content.build
          /\ content.build <= Target =>
                /\ version <= Target
                /\ CanMigrate(content.build, Target) <=> CanMigrate(version, Target)
    /\ state \in {"Restoring", "Completed"} =>
          version = Target /\ CanMigrate(content.build, Target)
    /\ outcome = "VersionUnsupported" => ~CanMigrate(content.build, Target)

RecoveryInv == RecoveryTypeOK /\ Place /\ Progress /\ Findings

LEMMA Verdicts ==
    /\ \A f : ParseVerdict(f) \in (Failures \ {"VersionUnsupported"}) \cup {"Ok"}
    /\ \A f \in {"whole"} \cup Damage : ParseVerdict(f) = "Ok" => f = "whole"
    /\ \A c : IntegrityVerdict(c) \in (Failures \ {"VersionUnsupported"}) \cup {"Ok"}
    /\ \A c : c.miscounted \in BOOLEAN /\ IntegrityVerdict(c) = "Ok" =>
          ~c.miscounted /\ ReferencesResolve(c) /\ c.build = Compatibility
<1>1. \A f : ParseVerdict(f) \in {"NothingToLoad", "CorruptedSave", "VersionMismatch",
                                  "ChecksumFailure", "Ok"}
  BY Zenon DEF ParseVerdict
<1>2. \A f \in {"whole"} \cup Damage : ParseVerdict(f) = "Ok" => f = "whole"
  BY Zenon DEF ParseVerdict, Damage
<1>3. \A c : IntegrityVerdict(c) \in {"IntegrityFailure", "MissingData", "VersionMismatch", "Ok"}
  BY Zenon DEF IntegrityVerdict
<1>4. \A c : c.miscounted \in BOOLEAN /\ IntegrityVerdict(c) = "Ok" =>
         ~c.miscounted /\ ReferencesResolve(c) /\ c.build = Compatibility
  BY Zenon DEF IntegrityVerdict
<1> QED
  BY <1>1, <1>2, <1>3, <1>4 DEF Failures

\* What was read never changes, and what is said of it does not either.
LEMMA FileStable ==
    ASSUME save' = save
    PROVE  content' = content /\ Sound' = Sound
<1>1. content' = content
  BY DEF content
<1> QED
  BY <1>1 DEF Sound

\* Nor do the records once the migration is over.
LEMMA SaveStable ==
    ASSUME save' = save, loaded' = loaded
    PROVE  /\ content' = content /\ Everything' = Everything /\ Acceptable' = Acceptable
           /\ \A p : Records(p)' = Records(p) /\ Before(p)' = Before(p)
           /\ Sound' = Sound
<1>1. content' = content /\ Sound' = Sound
  BY FileStable
<1>2. \A p : Records(p)' = Records(p)
  BY Zenon DEF Records
<1>3. \A p : Before(p)' = Before(p)
  BY DEF Before
<1>4. \A p : Tagged(p)' = Tagged(p)
  BY <1>2 DEF Tagged
<1>5. Everything' = Everything
  BY <1>4 DEF Everything
<1>6. Acceptable' = Acceptable
  BY <1>2, <1>4 DEF Acceptable
<1> QED
  BY <1>1, <1>2, <1>3, <1>5, <1>6

LEMMA InitInv == RecoveryInit => RecoveryInv
<1> SUFFICES ASSUME RecoveryInit PROVE RecoveryInv
  OBVIOUS
<1> USE DEF RecoveryInit
<1>1. RecoveryTypeOK
  BY NoContentType, RecoveryAssumption, VersionAssumption DEF RecoveryTypeOK, Restores, Failures
<1>2. Place
  BY RecordsOf, BeforeOf DEF Place
<1>3. Progress
  BY RecordsOf DEF Progress
<1>4. Findings
  BY DEF Findings
<1> QED
  BY <1>1, <1>2, <1>3, <1>4 DEF RecoveryInv

\* Whatever leaves the restore alone keeps its part.
LEMMA PlaceStable ==
    ASSUME Place, UNCHANGED <<save, loaded, phase, next, applied, restored>>
    PROVE  Place'
  BY SaveStable DEF Place

\* Before the restore begins the place is the start of everything, whatever the
\* records are.
LEMMA PlaceAtStart ==
    ASSUME Place, phase = "World", next = 1, loaded' \in SaveContent,
           UNCHANGED <<phase, next, applied, restored>>
    PROVE  Place'
<1>1. Len(applied) = 0 /\ restored = 0
  BY BeforeOf DEF Place
<1>2. applied = <<>>
  BY <1>1, EmptySeq DEF Place
<1>3. Before("World")' = 0 /\ Len(Records("World"))' = 2
  BY DEF Before, Records
<1>4. applied' \in Seq(Acceptable')
  BY <1>2
<1>5. Before(phase)' = 0 /\ Len(Records(phase))' = 2
  BY <1>3
<1> QED
  BY <1>1, <1>2, <1>4, <1>5 DEF Place

LEMMA StepInv == RecoveryInv /\ [RecoveryNext]_recoveryVars => RecoveryInv'
<1> SUFFICES ASSUME RecoveryInv, [RecoveryNext]_recoveryVars PROVE RecoveryInv'
  OBVIOUS
<1> USE DEF RecoveryInv
<1>s. /\ Compatibility \in Version /\ Target \in Version
      /\ \A v \in Version : v \in Nat
  BY RecoveryAssumption, VersionAssumption DEF Version
<1>t. StepsOK
  BY DEF StepsOK, RecoveryTypeOK
<1>b. Sound => content.build = Compatibility
  BY Verdicts, FileType, ContentType DEF Sound, RecoveryTypeOK
<1>1. ASSUME NEW from \in Version, NEW to \in Version, Register(from, to)
      PROVE  RecoveryInv'
  <2> USE <1>1 DEF Register
  <2>1. RecoveryTypeOK'
    BY DEF RecoveryTypeOK
  <2>2. Place'
    BY PlaceStable
  <2>3. Progress'
    BY SaveStable DEF Progress
  <2>4. Findings'
    BY SaveStable DEF Findings, Progress
  <2> QED
    BY <2>1, <2>2, <2>3, <2>4
<1>2. CASE Recover
  <2> USE <1>2 DEF Recover
  <2>1. RecoveryTypeOK'
    BY DEF RecoveryTypeOK
  <2>2. Place'
    BY PlaceStable
  <2>3. Progress'
    BY SaveStable DEF Progress
  <2>4. Findings'
    BY SaveStable DEF Findings, Progress
  <2> QED
    BY <2>1, <2>2, <2>3, <2>4
<1>3. CASE Parse
  <2> USE <1>3 DEF Parse, Ends
  <2>0. save.file \in {"whole"} \cup Damage
    BY DEF RecoveryTypeOK, Artifact
  <2>1. RecoveryTypeOK'
    BY Verdicts, FileType DEF RecoveryTypeOK
  <2>2. Place'
    BY <2>1, PlaceAtStart DEF Progress, RecoveryTypeOK
  <2>3. Progress'
    BY Verdicts DEF Progress, Failures
  <2>4. Findings'
    BY <2>0, FileStable, Verdicts DEF Findings, Progress, Failures
  <2> QED
    BY <2>1, <2>2, <2>3, <2>4
<1>4. CASE Validate
  <2> USE <1>4 DEF Validate, Ends
  <2>0. /\ loaded = content
        /\ IntegrityVerdict(loaded) = "Ok" => Sound /\ loaded.build \in Version
    BY <1>s, <1>b DEF Findings, Sound
  <2>1. RecoveryTypeOK'
    BY <2>0, Verdicts DEF RecoveryTypeOK, Version
  <2>2. Place'
    BY PlaceStable
  <2>3. Progress'
    BY SaveStable, Verdicts DEF Progress, Failures
  <2>4. Findings'
    BY <2>0, SaveStable, CanMigrateStable, Verdicts DEF Findings, Progress, Failures
  <2> QED
    BY <2>1, <2>2, <2>3, <2>4
<1>5. CASE MigrateStep
  <2> USE <1>5 DEF MigrateStep, Ends
  <2>0. /\ version \in Version /\ steps[version] \in Version
        /\ steps[version] > version /\ steps[version] <= Target /\ version \in DOMAIN steps
    BY DEF Findings, RecoveryTypeOK, StepFits
  <2>1. RecoveryTypeOK'
    BY <2>0, RewrittenAssumption DEF RecoveryTypeOK, Version, Failures
  <2>2. Place'
    BY <2>1, PlaceAtStart DEF Progress, RecoveryTypeOK
  <2>3. Progress'
    BY DEF Progress, Failures
  <2>4. content.build <= Target
    BY <1>s, <1>b DEF Findings
  <2>5. CanMigrate(version, Target) <=> CanMigrate(steps[version], Target)
    BY <2>0, <1>s, <1>t, CanMigrateUnfolds
  <2>6. ASSUME version' = steps[version] /\ UNCHANGED <<state, outcome>>
        PROVE  Findings'
    <3>1. CanMigrate(content.build, Target) <=> CanMigrate(version', Target)
      BY <2>4, <2>5, <2>6 DEF Findings
    <3>2. CanMigrate(content.build, Target)' = CanMigrate(content.build, Target)
      BY FileStable, CanMigrateStable
    <3>3. CanMigrate(version, Target)' = CanMigrate(version', Target)
      BY CanMigrateStable
    <3>4. /\ state' = "Migrating" /\ outcome' = outcome /\ content' = content /\ Sound' = Sound
          /\ version' \in Version /\ version' <= Target
      BY <2>0, <2>6, FileStable
    <3>5. outcome = "none" /\ Sound
      BY DEF Findings, Progress
    <3>6. /\ content'.build = content.build
          /\ CanMigrate(content.build, Target)' <=> CanMigrate(version, Target)'
      BY <3>1, <3>2, <3>3, <3>4
    <3>7. (state = "Migrating" =>
             /\ version \in Version
             /\ content.build > Target => version = content.build
             /\ content.build <= Target =>
                   /\ version <= Target
                   /\ CanMigrate(content.build, Target) <=> CanMigrate(version, Target))'
      <4>1. ~(content'.build > Target)
        BY <2>4, <3>6, <1>s, <1>b, <3>5
      <4> QED
        BY <2>4, <3>4, <3>6, <4>1
    <3>8. (outcome = "none" /\ Sound /\ state = "Migrating")'
      BY <3>4, <3>5
    <3> QED
      BY <3>7, <3>8 DEF Findings
  <2>7. ASSUME Ends("StepFailed") /\ UNCHANGED version
        PROVE  Findings'
    BY <2>7, FileStable DEF Findings, Progress
  <2>8. Findings'
    BY <2>6, <2>7
  <2> QED
    BY <2>1, <2>2, <2>3, <2>8
<1>6. CASE NoPath
  <2> USE <1>6 DEF NoPath, Ends
  <2>0. content.build \in Version /\ version \in Version
    BY <1>s, <1>b DEF Findings
  <2>1. RecoveryTypeOK'
    BY DEF RecoveryTypeOK, Failures
  <2>2. Place'
    BY PlaceStable
  <2>3. Progress'
    BY SaveStable DEF Progress
  <2>4. ~CanMigrate(content.build, Target)
    <3>1. CASE content.build > Target
      BY <2>0, <3>1, <1>s, <1>t, CanMigrateUnfolds
    <3>2. CASE content.build <= Target /\ version < Target /\ ~StepFits(version)
      <4>1. ASSUME version \in DOMAIN steps, steps[version] > Target
            PROVE  ~CanMigrate(steps[version], Target)
        <5>1. steps[version] \in Version
          BY <4>1 DEF RecoveryTypeOK
        <5> QED
          BY <4>1, <5>1, <1>s, <1>t, CanMigrateUnfolds
      <4>2. ~CanMigrate(version, Target)
        <5>1. version \in DOMAIN steps => steps[version] \in Version
          BY DEF RecoveryTypeOK
        <5> QED
          BY <2>0, <3>2, <4>1, <5>1, <1>s, <1>t, CanMigrateUnfolds DEF StepFits
      <4> QED
        BY <3>2, <4>2 DEF Findings
    <3> QED
      BY <2>0, <3>1, <3>2, <1>s
  <2>5. Findings'
    BY <2>4, SaveStable, CanMigrateStable DEF Findings, Progress
  <2> QED
    BY <2>1, <2>2, <2>3, <2>5
<1>7. CASE Migrated
  <2> USE <1>7 DEF Migrated
  <2>1. RecoveryTypeOK'
    BY DEF RecoveryTypeOK
  <2>2. Place'
    BY PlaceStable
  <2>3. Progress'
    BY SaveStable DEF Progress
  <2>4. version = Target
    BY <1>s DEF Findings
  <2>5. CanMigrate(Target, Target)
    BY <1>s, <1>t, CanMigrateUnfolds
  <2>6. Findings'
    BY <2>4, <2>5, SaveStable, CanMigrateStable DEF Findings, Progress
  <2> QED
    BY <2>1, <2>2, <2>3, <2>6
<1>r. ASSUME state = "Restoring"
      PROVE  /\ phase \in Restores /\ Len(Records(phase)) \in Nat /\ next \in Nat
             /\ Before(phase) \in Nat /\ loaded \in SaveContent
  <2>1. phase \in Restores /\ next \in Nat /\ loaded \in SaveContent
    BY <1>r DEF RecoveryTypeOK, Progress
  <2>2. Before(phase) \in Nat
    BY <2>1, PhasesAreAdjacent
  <2> QED
    BY <2>1, <2>2, TaggedType
<1>8. CASE Apply
  <2> USE <1>8 DEF Apply
  <2> DEFINE record == [phase |-> phase, record |-> Records(phase)[next]]
  <2>0. next \in 1..Len(Records(phase)) /\ Len(applied) \in Nat
    BY <1>r DEF RecoveryTypeOK, Place
  <2>1. /\ Before(phase) + next = Len(applied) + 1
        /\ Everything[Len(applied) + 1] = record
    <3>1. Everything[Before(phase) + next] = record
      BY <1>r, <2>0, EverythingIsOrdered
    <3>2. Len(applied) = Before(phase) + next - 1
      BY DEF Place
    <3> HIDE DEF record
    <3> QED
      BY <1>r, <3>1, <3>2
  <2>2. record \in Acceptable
    <3>1. Tagged(phase) \in Seq(Acceptable) /\ Len(Tagged(phase)) = Len(Records(phase))
      BY <1>r, TaggedType
    <3>2. Tagged(phase)[next] \in Acceptable
      BY <2>0, <3>1, ElementOfSeq
    <3> QED
      BY <1>r, <2>0, <3>2, TaggedType
  <2>3. applied' = Append(applied, record)
    OBVIOUS
  <2> HIDE DEF record
  <2>4. /\ applied' \in Seq(Acceptable) /\ Len(applied') = Len(applied) + 1
        /\ \A i \in 1..Len(applied) : applied'[i] = applied[i]
        /\ applied'[Len(applied) + 1] = record
    BY <2>2, <2>3, AppendProperties DEF Place
  <2>5. Place'
    <3>1. \A i \in 1..Len(applied') : applied'[i] = Everything'[i]
      BY <2>0, <2>1, <2>4, SaveStable DEF Place
    <3>2. Len(applied') = Before(phase)' + next' - 1
      BY <1>r, <2>1, <2>4, SaveStable
    <3>3. phase' # "Complete" => next' <= Len(Records(phase)') + 1
      BY <1>r, <2>0, SaveStable
    <3>4. phase' = phase /\ phase # "Complete" /\ loaded' = loaded /\ restored' = restored
      BY <1>r, SaveStable DEF Restores
    <3> QED
      BY <2>4, <3>1, <3>2, <3>3, <3>4, SaveStable DEF Place
  <2>6. RecoveryTypeOK'
    <3>1. record.phase \in Restores
      BY <1>r DEF record
    <3>2. \A i \in DOMAIN applied' : applied'[i].phase \in Restores
      BY <2>0, <2>4, <3>1, LenProperties DEF RecoveryTypeOK, Place
    <3> QED
      BY <3>2 DEF RecoveryTypeOK
  <2>7. Progress'
    BY SaveStable DEF Progress
  <2>8. Findings'
    BY SaveStable, CanMigrateStable DEF Findings, Progress
  <2> QED
    BY <2>5, <2>6, <2>7, <2>8
<1>9. CASE SinkRefuses
  <2> USE <1>9 DEF SinkRefuses, Refused, Ends
  <2>1. RecoveryTypeOK'
    BY DEF RecoveryTypeOK
  <2>2. Place'
    BY PlaceStable
  <2>3. Progress'
    BY SaveStable DEF Progress
  <2>4. Findings'
    BY SaveStable, CanMigrateStable DEF Findings, Progress
  <2> QED
    BY <2>1, <2>2, <2>3, <2>4
<1>10. CASE PhaseDone
  <2> USE <1>10 DEF PhaseDone
  <2>0. /\ next = Len(Records(phase)) + 1 /\ Len(applied) = Before(phase) + Len(Records(phase))
        /\ Len(loaded.entities) \in 0..MaxEntities
    BY <1>r, ContentType DEF Place, Progress
  <2>1. phase' \in Restores \cup {"Complete"} /\ (phase' = "Complete" <=> phase = "Scheduler")
    BY <1>r, PhasesInOrder DEF Restores
  <2>2. RecoveryTypeOK'
    BY <2>0, <2>1 DEF RecoveryTypeOK
  <2>3. Before(phase') = Before(phase) + Len(Records(phase))
    BY <1>r, PhasesAreAdjacent
  <2>4. phase' # "Complete" => Len(Records(phase')) \in Nat
    BY <1>r, <2>1, TaggedType
  <2>5. restored' = IF phase' \in {"World", "Registry"} THEN 0 ELSE Len(loaded.entities)
    BY <1>r, PhasesInOrder DEF Restores, Place
  <2>6. Place'
    BY <1>r, <2>0, <2>3, <2>4, <2>5, SaveStable DEF Place
  <2>7. Progress'
    BY <1>r, <2>1, SaveStable DEF Progress
  <2>8. Findings'
    BY SaveStable, CanMigrateStable DEF Findings, Progress
  <2> QED
    BY <2>2, <2>6, <2>7, <2>8
<1>11. CASE UNCHANGED recoveryVars
  <2> USE <1>11 DEF recoveryVars
  <2>1. RecoveryTypeOK'
    BY DEF RecoveryTypeOK
  <2>2. Place'
    BY PlaceStable
  <2>3. Progress'
    BY SaveStable DEF Progress
  <2>4. Findings'
    BY SaveStable, CanMigrateStable DEF Findings
  <2> QED
    BY <2>1, <2>2, <2>3, <2>4
<1> QED
  BY <1>1, <1>2, <1>3, <1>4, <1>5, <1>6, <1>7, <1>8, <1>9, <1>10, <1>11 DEF RecoveryNext

LEMMA RecoveryInvariance == RecoverySpec => []RecoveryInv
  BY InitInv, StepInv, PTL DEF RecoverySpec

-----------------------------------------------------------------------------
(***************************************************************************)
(* What the invariant implies.                                             *)
(***************************************************************************)

\* The sinks never hold more than the save has.
LEMMA AppliedFits ==
    ASSUME RecoveryInv
    PROVE  Len(applied) <= Len(Everything) /\ Len(Everything) \in Nat
<1>1. /\ loaded \in SaveContent /\ Len(applied) = Before(phase) + next - 1 /\ next \in Nat
      /\ phase \in Restores \cup {"Complete"}
  BY DEF RecoveryInv, RecoveryTypeOK, Place
<1>2. Everything \in Seq(Acceptable) /\ Len(Everything) = Before("Complete")
  BY <1>1, EverythingIsOrdered
<1>3. Len(Everything) \in Nat
  BY <1>2, LenProperties
<1>4. CASE phase = "Complete"
  BY <1>1, <1>2, <1>3, <1>4 DEF RecoveryInv, Place
<1>5. CASE phase \in Restores
  <2>1. /\ Len(Records(phase)) \in Nat /\ next <= Len(Records(phase)) + 1
        /\ Before(phase) \in Nat
    BY <1>1, <1>5, TaggedType, PhasesAreAdjacent DEF RecoveryInv, Place, Restores
  <2>2. Before(phase) + Len(Records(phase)) <= Len(Everything)
    <3>1. CASE Len(Records(phase)) = 0
      <4>1. Before(phase) <= Before("Complete")
        BY <1>1, <1>5, PhasesAreAdjacent
      <4> QED
        BY <1>2, <2>1, <3>1, <4>1
    <3>2. CASE Len(Records(phase)) # 0
      <4>1. Len(Records(phase)) \in 1..Len(Records(phase))
        BY <2>1, <3>2
      <4>2. Before(phase) + Len(Records(phase)) \in 1..Len(Everything)
        BY <1>1, <1>5, <2>1, <4>1, EverythingIsOrdered
      <4> QED
        BY <1>3, <4>2
    <3> QED
      BY <3>1, <3>2
  <2> QED
    BY <1>1, <1>3, <2>1, <2>2
<1> QED
  BY <1>1, <1>3, <1>4, <1>5

\* Records have reached a sink only of a sound save.
LEMMA AppliedIsSound ==
    ASSUME RecoveryInv
    PROVE  applied # <<>> => Sound
<1>1. ASSUME phase = "World", next = 1 PROVE applied = <<>>
  <2>1. Len(applied) = 0
    BY <1>1, BeforeOf DEF RecoveryInv, Place
  <2> QED
    BY <2>1, EmptySeq DEF RecoveryInv, Place
<1> QED
  BY <1>1 DEF RecoveryInv, Progress, Findings

\* No sink sees a record of a file that is damaged, of another format or of an
\* incompatible build, and none before a chain of steps led exactly to the target,
\* whatever steps are registered (RecoveryPipeline::Recover, SaveMigrator).
THEOREM SoundSaves == RecoverySpec => []OnlySoundSavesAreApplied
<1>1. RecoveryInv => OnlySoundSavesAreApplied
  <2> SUFFICES ASSUME RecoveryInv PROVE OnlySoundSavesAreApplied
    OBVIOUS
  <2>1. Sound => save.file = "whole" /\ ~content.miscounted /\ content.build = Compatibility
    BY Verdicts, FileType, ContentType DEF Sound, RecoveryInv, RecoveryTypeOK
  <2>2. applied # <<>> => Sound
    BY AppliedIsSound
  <2> QED
    BY <2>1, <2>2 DEF RecoveryInv, Findings, OnlySoundSavesAreApplied
<1> QED
  BY <1>1, RecoveryInvariance, PTL

\* Where a record is among those the sinks hold says which it is.
LEMMA AppliedIs ==
    ASSUME RecoveryInv, NEW i \in DOMAIN applied
    PROVE  /\ DOMAIN applied = 1..Len(applied) /\ Len(applied) \in Nat
           /\ \E q \in Restores, k \in Nat :
                 /\ k \in 1..Len(Records(q)) /\ i = Before(q) + k
                 /\ applied[i] = [phase |-> q, record |-> Records(q)[k]]
<1>1. loaded \in SaveContent /\ applied \in Seq(Acceptable)
  BY DEF RecoveryInv, RecoveryTypeOK, Place
<1>2. DOMAIN applied = 1..Len(applied) /\ Len(applied) \in Nat
  BY <1>1, LenProperties
<1>3. Len(applied) <= Len(Everything) /\ Len(Everything) \in Nat
  BY AppliedFits
<1>4. PICK q \in Restores, k \in Nat : k \in 1..Len(Records(q)) /\ i = Before(q) + k
  <2>1. i \in 1..Len(Everything)
    BY <1>2, <1>3
  <2> QED
    BY <1>1, <2>1, EverythingIsOrdered
<1>5. applied[i] = Everything[i]
  BY <1>2 DEF RecoveryInv, Place
<1>6. applied[i] = [phase |-> q, record |-> Records(q)[k]]
  BY <1>1, <1>4, <1>5, EverythingIsOrdered
<1> QED
  BY <1>2, <1>4, <1>6

\* A player is restored after every record of the entity it plays, whatever migration
\* steps have made of the save, and where they have left it alone the entity is there
\* (PlayerRestorer after EntityRestorer, ValidateReferences before the migration).
THEOREM PlayersLast == RecoverySpec => []PlayersFollowTheirEntity
<1>1. RecoveryInv => PlayersFollowTheirEntity
  <2> DEFINE Registered(j, e) == applied[j].phase = "Registry" /\ applied[j].record.id = e
  <2> SUFFICES ASSUME RecoveryInv, NEW i \in DOMAIN applied,
                      applied[i].phase = "Players", applied[i].record # 0
               PROVE  /\ \A j \in DOMAIN applied : Registered(j, applied[i].record) => j < i
                      /\ loaded = content =>
                            \E j \in 1..(i - 1) : Registered(j, applied[i].record)
    BY DEF PlayersFollowTheirEntity
  <2>1. loaded \in SaveContent /\ save \in Artifact
    BY DEF RecoveryInv, RecoveryTypeOK
  <2>2. DOMAIN applied = 1..Len(applied) /\ Len(applied) \in Nat
    BY AppliedIs
  <2>3. Len(loaded.entities) \in Nat /\ Before("Registry") = 2
        /\ Before("Players") = 2 + Len(loaded.entities)
    BY <2>1, ContentType, BeforeOf
  <2>4. PICK k \in Nat : /\ k \in 1..Len(loaded.players) /\ i = 2 + Len(loaded.entities) + k
                         /\ applied[i].record = loaded.players[k]
    <3>1. PICK q \in Restores, k \in Nat :
                 /\ k \in 1..Len(Records(q)) /\ i = Before(q) + k
                 /\ applied[i] = [phase |-> q, record |-> Records(q)[k]]
      BY AppliedIs
    <3>2. q = "Players"
      BY <3>1
    <3> QED
      BY <3>1, <3>2, <2>3, RecordsOf
  <2>5. ASSUME NEW j \in DOMAIN applied, applied[j].phase = "Registry"
        PROVE  j < i
    <3>1. PICK q \in Restores, m \in Nat :
                 /\ m \in 1..Len(Records(q)) /\ j = Before(q) + m
                 /\ applied[j] = [phase |-> q, record |-> Records(q)[m]]
      BY AppliedIs
    <3>2. q = "Registry"
      BY <2>5, <3>1
    <3>3. m \in 1..Len(loaded.entities) /\ j = 2 + m
      BY <3>1, <3>2, <2>3, RecordsOf
    <3> QED
      BY <3>3, <2>3, <2>4
  <2>6. ASSUME loaded = content
        PROVE  \E j \in 1..(i - 1) : Registered(j, applied[i].record)
    <3>1. ReferencesResolve(loaded)
      <4>1. applied # <<>>
        BY <2>2
      <4> QED
        BY <2>1, <2>6, <4>1, AppliedIsSound, ContentType, Verdicts DEF Sound
    <3>2. k \in DOMAIN loaded.players
      BY <2>1, <2>4, ContentType, LenProperties
    <3>3. PICK m \in DOMAIN loaded.entities : loaded.entities[m].id = loaded.players[k]
      BY <3>1, <3>2, <2>4 DEF ReferencesResolve
    <3>4. m \in 1..Len(loaded.entities) /\ m \in Nat
      BY <2>1, <3>3, ContentType, LenProperties
    <3>5. 2 + m \in 1..(i - 1) /\ 2 + m \in 1..Len(applied)
      BY <2>2, <2>3, <2>4, <3>4
    <3>6. applied[2 + m] = [phase |-> "Registry", record |-> loaded.entities[m]]
      <4>1. Everything[2 + m] = [phase |-> "Registry", record |-> Records("Registry")[m]]
        BY <2>1, <2>3, <3>4, RecordsOf, EverythingIsOrdered DEF Restores
      <4>2. applied[2 + m] = Everything[2 + m]
        BY <3>5 DEF RecoveryInv, Place
      <4> QED
        BY <4>1, <4>2, RecordsOf
    <3> QED
      BY <2>4, <3>3, <3>5, <3>6
  <2> QED
    BY <2>5, <2>6
<1> QED
  BY <1>1, RecoveryInvariance, PTL

\* The report of a recovery is what happened, whichever record was refused
\* (RecoveryPipeline::Recover).
THEOREM Report == RecoverySpec => []ReportIsTrue
<1>1. RecoveryInv => ReportIsTrue
  <2> SUFFICES ASSUME RecoveryInv PROVE ReportIsTrue
    OBVIOUS
  <2>1. /\ loaded \in SaveContent /\ applied \in Seq(Acceptable)
        /\ \A k \in 1..Len(applied) : applied[k] = Everything[k]
        /\ Len(applied) = Before(phase) + next - 1
    BY DEF RecoveryInv, RecoveryTypeOK, Place
  <2>2. DOMAIN applied = 1..Len(applied) /\ Len(applied) \in Nat
    BY <2>1, LenProperties
  <2>3. /\ Everything \in Seq(Acceptable) /\ Len(Everything) \in Nat
        /\ Len(Everything) = Before("Complete")
    BY <2>1, EverythingIsOrdered, LenProperties
  <2>4. Len(applied) <= Len(Everything)
    BY <2>1, AppliedFits
  <2>5. IsPrefix(applied, Everything)
    <3> DEFINE n == Len(applied)
    <3>1. /\ SubSeq(applied, 1, n) \in Seq(Acceptable)
          /\ Len(SubSeq(applied, 1, n)) = n
          /\ \A k \in 1..n : SubSeq(applied, 1, n)[k] = applied[k]
      BY <2>1, <2>2, SubSeqFull
    <3>2. \A k \in 1..n : Everything[k] \in Acceptable
      BY <2>2, <2>3, <2>4, ElementOfSeq
    <3>3. /\ SubSeq(Everything, 1, n) \in Seq(Acceptable)
          /\ Len(SubSeq(Everything, 1, n)) = n
          /\ \A k \in 1..n : SubSeq(Everything, 1, n)[k] = Everything[k]
      <4>1. /\ SubSeq(Everything, 1, n) \in Seq(Acceptable)
            /\ Len(SubSeq(Everything, 1, n)) = IF 1 <= n THEN n - 1 + 1 ELSE 0
            /\ \A k \in 1..(n - 1 + 1) : SubSeq(Everything, 1, n)[k] = Everything[1 + k - 1]
        BY <2>2, <3>2, SubSeqProperties
      <4> QED
        BY <2>2, <4>1
    <3>4. SubSeq(applied, 1, n) = SubSeq(Everything, 1, n)
      BY <2>1, <3>1, <3>3, SeqEqual
    <3> QED
      BY <2>4, <3>4 DEF IsPrefix
  <2>6. outcome = "Ok" => applied = Everything
    <3> SUFFICES ASSUME outcome = "Ok" PROVE applied = Everything
      OBVIOUS
    <3>1. phase = "Complete" /\ next = 1
      BY DEF RecoveryInv, Progress, Place
    <3>2. Len(applied) = Len(Everything)
      BY <2>1, <2>3, <3>1
    <3> QED
      BY <2>1, <2>3, <3>2, SeqEqual
  <2>7. outcome = "PartialRecovery" => applied # Everything
    <3> SUFFICES ASSUME outcome = "PartialRecovery" PROVE Len(applied) < Len(Everything)
      BY <2>2, <2>3
    <3>1. phase \in Restores /\ next \in Nat /\ next >= 1 /\ next <= Len(Records(phase))
      BY DEF RecoveryInv, Progress, RecoveryTypeOK
    <3>2. Before(phase) + next \in 1..Len(Everything)
      <4>1. Len(Records(phase)) \in Nat
        BY <2>1, <3>1, TaggedType
      <4>2. next \in 1..Len(Records(phase))
        BY <3>1, <4>1
      <4> QED
        BY <2>1, <3>1, <4>2, EverythingIsOrdered
    <3> QED
      BY <2>1, <2>3, <3>1, <3>2, PhasesAreAdjacent
  <2>8. outcome \in Failures => applied = <<>>
    <3> SUFFICES ASSUME outcome \in Failures PROVE applied = <<>>
      OBVIOUS
    <3>1. phase = "World" /\ next = 1
      BY DEF RecoveryInv, Progress, Failures
    <3>2. Len(applied) = 0
      BY <2>1, <3>1, BeforeOf
    <3> QED
      BY <2>1, <3>2, EmptySeq
  <2>9. /\ outcome = "VersionUnsupported" => ~CanMigrate(content.build, Target)
        /\ outcome = "Ok" <=> state = "Completed"
        /\ restored \in {0, Len(loaded.entities)}
    BY DEF RecoveryInv, Findings, Progress, Place
  <2>10. ASSUME NEW i \in 1..restored
         PROVE  \E j \in DOMAIN applied :
                   applied[j] = [phase |-> "Registry", record |-> loaded.entities[i]]
    <3>1. /\ phase \notin {"World", "Registry"} /\ restored = Len(loaded.entities)
          /\ next >= 1 /\ next \in Nat
      BY <2>10 DEF RecoveryInv, Place, RecoveryTypeOK
    <3>2. Len(loaded.entities) \in Nat
      BY <2>1, ContentType
    <3>3. Before(phase) >= 2 + Len(loaded.entities) /\ Before(phase) \in Nat
      <4>1. phase = "Complete" \/ (phase \in Restores /\ phase \notin {"World", "Registry"})
        BY <3>1 DEF RecoveryInv, RecoveryTypeOK
      <4>2. "World" \in Restores
        BY DEF Restores
      <4> QED
        BY <2>1, <3>2, <4>1, <4>2, PhasesAreAdjacent
    <3>4. 2 + i \in 1..Len(applied)
      BY <2>1, <3>1, <3>2, <3>3
    <3>5. Everything[2 + i] = [phase |-> "Registry", record |-> loaded.entities[i]]
      <4>1. Before("Registry") = 2 /\ i \in Nat /\ i \in 1..Len(Records("Registry"))
        BY <3>1, <3>2, BeforeOf, RecordsOf
      <4> QED
        BY <2>1, <4>1, RecordsOf, EverythingIsOrdered DEF Restores
    <3> QED
      BY <2>1, <2>2, <3>4, <3>5
  <2> QED
    BY <2>5, <2>6, <2>7, <2>8, <2>9, <2>10 DEF ReportIsTrue, RecoveryInv
<1> QED
  BY <1>1, RecoveryInvariance, PTL
=============================================================================
