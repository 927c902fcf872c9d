---------------------------- MODULE Persistence ----------------------------
(***************************************************************************)
(* The persistence framework over the filesystem save store, across        *)
(* crashes and restarts: SaveScheduler, PersistenceQueue,                  *)
(* PersistenceManager::Update, PersistenceWorker::Flush, the transaction   *)
(* of FilesystemSaveBackend, and the choice of a save at startup.          *)
(*                                                                         *)
(* One frame is Update (a due request enters the queue, the published      *)
(* snapshot is taken) and, when there is work, one round of                *)
(*                                                                         *)
(*   drain: BeginCommit -> write: Write... -> rename: Rename... -> drain   *)
(*                                                                         *)
(* per request queued at its start.  The process can be killed between any *)
(* two of these steps; only "files" and "temps" outlive it.                *)
(* A save is what the properties tell apart in one: its id, the run of the *)
(* program that wrote it, and the simulation tick of its snapshot.         *)
(***************************************************************************)
EXTENDS Integers, Sequences, FiniteSets

CONSTANTS
    QueueDepth,        \* [persistence] queue_depth
    HighWatermark,     \* [persistence] backpressure_high_watermark, 0: off
    LowWatermark,      \* [persistence] backpressure_low_watermark
    AutosaveInterval,  \* [persistence] autosave_interval_ticks, 0: off
    MaxTick,           \* bound: the clock stops there, frames do not
    MaxRequests,       \* bound: saves asked for in one run
    MaxRuns            \* bound: times the program is started

ASSUME QueueAssumption ==
    /\ QueueDepth \in Nat \ {0}
    /\ HighWatermark \in 0..QueueDepth
    /\ LowWatermark \in 0..HighWatermark
ASSUME IntervalAssumption == AutosaveInterval \in Nat
ASSUME BoundAssumption ==
    MaxTick \in Nat /\ MaxRequests \in Nat /\ MaxRuns \in Nat \ {0}

VARIABLES
    running,        \* the process is up and its services are initialised
    run,            \* history: how many times it was started
    tick,           \* PersistenceManager::m_tick
    published,      \* simulationTick of the snapshot Acquire returns, 0: none
    scheduler,      \* SaveScheduler's fields
    queue,          \* PersistenceQueue's requests, oldest first
    backpressured,  \* PersistenceQueue::m_backpressured
    work,           \* where Flush stands
    files,          \* save_<id>.smps, by id
    temps,          \* save_<id>.smps.tmp, by id
    committed,      \* history: the saves Commit reported Ok for, in order
    dropped,        \* history: requests of this run refused when they were due
    recovered       \* the save startup recovery was given

memory  == <<scheduler, queue, backpressured, work>>
disk    == <<files, temps>>
vars == <<running, run, tick, published, memory, disk, committed, dropped, recovered>>

\* SaveTrigger, in the order the scheduler serves them.
Triggers == <<"Shutdown", "Administrative", "Manual", "Deferred", "Autosave">>
Trigger == {Triggers[i] : i \in 1..5}
Requestable == {"Shutdown", "Administrative", "Manual"}

Ids     == 1..(MaxRequests + MaxTick)
Request == [id : Ids, trigger : Trigger, requestTick : 0..MaxTick]
Save    == [id : Ids, run : 1..MaxRuns, tick : 1..MaxTick]

NoFile  == [kind |-> "none"]
Partial == [kind |-> "partial"]   \* a file whose bytes do not parse
Whole(save) == [kind |-> "whole", save |-> save]
Content == {NoFile, Partial} \cup {Whole(save) : save \in Save}
NoSave  == [id |-> 0, run |-> 0, tick |-> 0]

NoRequest == [id |-> 0, trigger |-> "Manual", requestTick |-> 0]
Idle == [stage |-> "idle", left |-> 0, request |-> NoRequest, snapshot |-> 0]

IdleScheduler ==
    [pending |-> {}, deferredTick |-> 0, lastAutosave |-> 0, armed |-> FALSE, nextId |-> 0]

Init ==
    /\ running = TRUE
    /\ run = 1
    /\ tick = 0
    /\ published = 0
    /\ scheduler = IdleScheduler
    /\ queue = <<>>
    /\ backpressured = FALSE
    /\ work = Idle
    /\ files = [id \in Ids |-> NoFile]
    /\ temps = [id \in Ids |-> NoFile]
    /\ committed = <<>>
    /\ dropped = {}
    /\ recovered = NoSave

---------------------------------------------------------------------------
(* SaveScheduler.  The four pending flags are a set: asking twice before   *)
(* the flag is served is one save.                                         *)

\* Bound: a run may ask for MaxRequests saves; autosaves come on top.
MayAsk == scheduler.nextId + Cardinality(scheduler.pending) < MaxRequests

RequestSave(trigger) ==
    /\ running /\ work.stage = "idle" /\ MayAsk
    /\ scheduler' = [scheduler EXCEPT !.pending = @ \cup {trigger}]
    /\ UNCHANGED <<running, run, tick, published, queue, backpressured, work,
                   disk, committed, dropped, recovered>>

\* A later DeferSave overwrites the tick of a pending one.
DeferSave(untilTick) ==
    /\ running /\ work.stage = "idle" /\ MayAsk
    /\ scheduler' = [scheduler EXCEPT !.pending = @ \cup {"Deferred"},
                                      !.deferredTick = untilTick]
    /\ UNCHANGED <<running, run, tick, published, queue, backpressured, work,
                   disk, committed, dropped, recovered>>

\* The first Tick sets the autosave baseline, so none is due on it.
Armed(s, now) ==
    IF s.armed THEN s ELSE [s EXCEPT !.lastAutosave = now, !.armed = TRUE]

Due(s, now) ==
    {t \in s.pending : t = "Deferred" => now >= s.deferredTick}
    \cup {t \in {"Autosave"} : AutosaveInterval > 0
                               /\ now - s.lastAutosave >= AutosaveInterval}

\* At most one request per Tick: the first due trigger of Triggers.
Emitted(s, now) ==
    {t \in Due(s, now) : \E i \in 1..5 :
        Triggers[i] = t /\ \A j \in 1..(i - 1) : Triggers[j] \notin Due(s, now)}

AfterEmit(s, trigger, now) ==
    [s EXCEPT !.pending = @ \ {trigger},
              !.lastAutosave = IF trigger = "Autosave" THEN now ELSE @,
              !.nextId = @ + 1]

---------------------------------------------------------------------------
(* PersistenceQueue.                                                       *)

HasRoom(q) == Len(q) < QueueDepth

\* Mutant: a full queue makes room for the new request.
PublishedOverOldest(q, request) ==
    IF HasRoom(q) THEN Append(q, request) ELSE Append(Tail(q), request)

Published(q, request) == IF HasRoom(q) THEN Append(q, request) ELSE q

\* Mutants: the slot is kept after its request was copied; a failed save is
\* not put back.
ReleasedNever(q) == q
RetriedNever(q, request) == q

\* Release of the front slot, then Retry at the tail when the save failed.
Released(q) == Tail(q)
Retried(q, request) == IF HasRoom(q) THEN Append(q, request) ELSE q

\* UpdateBackpressure after a change of the count: hysteresis between marks.
Backpressure(before, count) ==
    /\ HighWatermark > 0
    /\ IF before THEN count > LowWatermark ELSE count >= HighWatermark

---------------------------------------------------------------------------
(* PersistenceManager::Update.                                             *)

\* Update up to the flush, with "captured": whether SnapshotManager, earlier
\* in the frame, published a snapshot of this tick or left the previous one.
Update(captured) ==
    LET now     == IF tick < MaxTick THEN tick + 1 ELSE tick
        armed   == Armed(scheduler, now)
        emitted == Emitted(armed, now)
        request(t) == [id |-> armed.nextId + 1, trigger |-> t, requestTick |-> now]
    IN
    /\ running /\ work.stage = "idle"
    /\ tick' = now
    /\ published' = IF captured THEN now ELSE published
    /\ \/ /\ emitted = {}
          /\ scheduler' = armed
          /\ UNCHANGED <<queue, backpressured, dropped>>
       \/ \E t \in emitted :
          /\ request(t).id \in Ids
          /\ scheduler' = AfterEmit(armed, t, now)
          /\ queue' = Published(queue, request(t))
          /\ backpressured' = IF HasRoom(queue)
                              THEN Backpressure(backpressured, Len(queue'))
                              ELSE backpressured
          /\ dropped' = dropped \cup {id \in {request(t).id} : queue' = queue}
    /\ work' = IF published' > 0 /\ queue' # <<>>
               THEN [Idle EXCEPT !.stage = "drain", !.left = Len(queue'),
                                 !.snapshot = published']
               ELSE Idle
    /\ UNCHANGED <<running, run, disk, committed, recovered>>

---------------------------------------------------------------------------
(* PersistenceWorker::Flush over the filesystem backend.  The requests the *)
(* queue held at its start are tried once each, all with that snapshot.    *)

AfterRequest(left) ==
    IF left = 0 THEN Idle ELSE [work EXCEPT !.stage = "drain", !.request = NoRequest]

SaveOf(request) == [id |-> request.id, run |-> run, tick |-> work.snapshot]

\* Mutants: the save is written in place; the target goes with the temporary.
OpenedInPlace(id) ==
    files' = [files EXCEPT ![id] = Partial] /\ UNCHANGED temps
RemovedWithTarget(id) ==
    files' = [files EXCEPT ![id] = NoFile] /\ temps' = [temps EXCEPT ![id] = NoFile]

\* fopen(tempPath, "wb"), and fs::remove(tempPath), whose error is ignored.
Opened(id)  == temps' = [temps EXCEPT ![id] = Partial] /\ UNCHANGED files
Removed(id) ==
    /\ temps' \in {temps, [temps EXCEPT ![id] = NoFile]}
    /\ UNCHANGED files

\* Take the front request, validate, Begin, Write, and open Commit's temporary
\* file, which truncates it.  The published snapshot is sealed, so the
\* validation passes; Begin and Write do not fail in this backend.
BeginCommit ==
    /\ running /\ work.stage = "drain"
    /\ queue' = Released(queue)
    /\ backpressured' = Backpressure(backpressured, Len(queue'))
    /\ work' = [work EXCEPT !.stage = "write", !.left = @ - 1, !.request = Head(queue)]
    /\ Opened(Head(queue).id)
    /\ UNCHANGED <<running, run, tick, published, scheduler, committed, dropped,
                   recovered>>

WriteSucceeds ==
    /\ running /\ work.stage = "write"
    /\ work' = [work EXCEPT !.stage = "rename"]
    /\ temps' = [temps EXCEPT ![work.request.id] = Whole(SaveOf(work.request))]
    /\ UNCHANGED <<running, run, tick, published, scheduler, queue, backpressured,
                   files, committed, dropped, recovered>>

\* Either failure of Commit tries to remove the temporary file; the worker aborts
\* the transaction and puts the request back.
CommitFails ==
    /\ running /\ work.stage \in {"write", "rename"}
    /\ Removed(work.request.id)
    /\ queue' = Retried(queue, work.request)
    /\ backpressured' = IF HasRoom(queue)
                        THEN Backpressure(backpressured, Len(queue'))
                        ELSE backpressured
    /\ work' = AfterRequest(work.left)
    /\ UNCHANGED <<running, run, tick, published, scheduler, committed, dropped,
                   recovered>>

RenameSucceeds ==
    LET id == work.request.id IN
    /\ running /\ work.stage = "rename"
    /\ files' = [files EXCEPT ![id] = temps[id]]
    /\ temps' = [temps EXCEPT ![id] = NoFile]
    /\ committed' = Append(committed, SaveOf(work.request))
    /\ work' = AfterRequest(work.left)
    /\ UNCHANGED <<running, run, tick, published, scheduler, queue, backpressured,
                   dropped, recovered>>

---------------------------------------------------------------------------
(* Going down and coming up.                                               *)

\* What a process loses.
Forget ==
    /\ running' = FALSE
    /\ tick' = 0
    /\ published' = 0
    /\ scheduler' = IdleScheduler
    /\ queue' = <<>>
    /\ backpressured' = FALSE
    /\ work' = Idle
    /\ dropped' = {}
    /\ UNCHANGED <<run, disk, committed, recovered>>

\* DestroyRuntime: the frame bridge goes first, so no further Update, and
\* PersistenceManager::Shutdown only stops the worker.  A crash between two
\* frames leaves the same state behind.
Stop == running /\ work.stage = "idle" /\ Forget

\* Killed in the middle of a flush; the disk keeps what the last step left.
Crash == running /\ work.stage # "idle" /\ Forget

\* Mutant: ParseSaveId asks for one character more than the shortest name has.
EnumeratedLongNames == {id \in Ids \ {1} : files[id].kind = "whole"}

\* Enumerate: the files of the directory that parse, their ids ascending.
Enumerated == {id \in Ids : files[id].kind = "whole"}
Newest == CHOOSE id \in Enumerated : \A other \in Enumerated : other <= id

\* Startup recovery reads the last descriptor, if there is one.
Start ==
    /\ ~running /\ run < MaxRuns
    /\ running' = TRUE
    /\ run' = run + 1
    /\ recovered' = IF Enumerated = {} THEN NoSave ELSE files[Newest].save
    /\ UNCHANGED <<tick, published, memory, disk, committed, dropped>>

Next ==
    \/ \E trigger \in Requestable : RequestSave(trigger)
    \/ \E untilTick \in 1..MaxTick : DeferSave(untilTick)
    \/ \E captured \in BOOLEAN : Update(captured)
    \/ BeginCommit
    \/ WriteSucceeds
    \/ CommitFails
    \/ RenameSucceeds
    \/ Stop
    \/ Crash
    \/ Start

Spec == Init /\ [][Next]_vars

---------------------------------------------------------------------------
(* Properties.                                                             *)

\* Types, conjoined with RequestsAccounted.
TypeOK ==
    /\ running \in BOOLEAN
    /\ run \in 1..MaxRuns
    /\ tick \in 0..MaxTick
    /\ published \in 0..MaxTick
    /\ scheduler \in [pending : SUBSET (Requestable \cup {"Deferred"}),
                     deferredTick : 0..MaxTick, lastAutosave : 0..MaxTick,
                     armed : BOOLEAN, nextId : 0..(MaxRequests + MaxTick)]
    /\ queue \in Seq(Request)
    /\ Len(queue) <= QueueDepth
    /\ backpressured \in BOOLEAN
    /\ work \in [stage : {"idle", "drain", "write", "rename"}, left : 0..QueueDepth,
                request : Request \cup {NoRequest}, snapshot : 0..MaxTick]
    /\ files \in [Ids -> Content]
    /\ temps \in [Ids -> Content]
    /\ committed \in Seq(Save)
    /\ dropped \in SUBSET Ids
    /\ recovered \in Save \cup {NoSave}

Committed == {committed[i] : i \in 1..Len(committed)}
QueuedIds == {queue[i].id : i \in 1..Len(queue)}
InHand    == IF work.stage \in {"write", "rename"} THEN {work.request.id} ELSE {}
Written   == {save.id : save \in {c \in Committed : c.run = run}}

\* Whatever interrupts the program, and whenever: a file under a save's name is
\* whole, is the save of that id, and was reported committed.
OnlyWholeSaves ==
    \A id \in Ids : files[id] # NoFile =>
        \E save \in Committed : save.id = id /\ files[id] = Whole(save)

\* A save that was reported committed is only ever given up to a save of the
\* same id that a later run of the program writes over it.
SavesAreKept ==
    [][\A id \in Ids : files[id].kind = "whole" /\ files'[id] # files[id] =>
            /\ files'[id].kind = "whole"
            /\ files'[id].save.run > files[id].save.run]_vars

\* Every request the scheduler emitted in this run is in exactly one place:
\* queued, in the worker's hand, written, or refused by a queue that was full when
\* it was due.  A failed commit neither loses nor doubles one: Retry could refuse it
\* too, but always finds room.
RequestsAccounted ==
    /\ TypeOK
    /\ running => 1..scheduler.nextId = QueuedIds \cup InHand \cup Written \cup dropped
    /\ Cardinality(QueuedIds) = Len(queue)
    /\ QueuedIds \cap (InHand \cup Written \cup dropped) = {}
    /\ InHand \cap (Written \cup dropped) = {}

\* Once a save was committed, every later start finds one to recover from.
StartFindsASave ==
    [][~running /\ running' /\ committed # <<>> => recovered' \in Committed]_vars

\* What PersistenceConfiguration.h says of max_retries: a save that keeps failing
\* is abandoned in the end.  The code does not do this: max_retries and
\* retry_backoff_ticks are parsed and never read, a failed save goes back to the
\* queue each time and is tried again by the next flush.
RetriesEnd ==
    \A id \in Ids : id \in QueuedIds ~> (id \notin QueuedIds \cup InHand \/ ~running)

\* Frames keep coming, captures do not fail for ever, and the flush runs on.  Of
\* the file system nothing is assumed: the disk may refuse for ever.
Serving ==
    /\ WF_vars(Update(TRUE))
    /\ WF_vars(BeginCommit)
    /\ WF_vars(WriteSucceeds \/ CommitFails)
    /\ WF_vars(RenameSucceeds \/ CommitFails)
ServingSpec == Spec /\ Serving

=============================================================================
