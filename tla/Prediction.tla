----------------------------- MODULE Prediction -----------------------------
(***************************************************************************)
(* The client's presentation: PredictionManager shows the local player     *)
(* ahead of the host, and corrects itself by the host's frames;            *)
(* InterpolationManager shows everybody else a little behind them.         *)
(*                                                                         *)
(* The host, what carries its frames and what samples the input are        *)
(* outside: frames come late, more than once, out of order or not at all,  *)
(* and the host may move the player for reasons of its own.  A position is *)
(* a number, and an input a displacement: when no two of them sum up to    *)
(* the same, a position tells which inputs are in it.  Where a remote      *)
(* entity is, is the tick it was there: what is shown of it is the time    *)
(* that is shown.                                                          *)
(***************************************************************************)
EXTENDS Integers, Sequences, SequencesExt, FiniteSets

CONSTANTS
    Scenes,              \* what a frame may say of players, in order, and of the others
    Shoves,              \* how far the host may move the player on its own
    Move(_),             \* what the input of a sequence displaces
    InputBufferDepth, StateBufferDepth, InterpolationDelay, MaxPredictionTicks,
    PositionThreshold,   \* the correction above which the player snaps
    MaxHostTick,         \* bound: frames of the host
    MaxClientTick        \* bound: passes of the client

ASSUME PredictionAssumption ==
    /\ {InputBufferDepth, StateBufferDepth, MaxPredictionTicks} \subseteq Nat \ {0}
    /\ {InterpolationDelay, PositionThreshold, MaxHostTick, MaxClientTick} \subseteq Nat
    /\ Shoves \subseteq Int /\ \A n \in 1..MaxClientTick : Move(n) \in Int
    /\ \A s \in Scenes : s.players \in Seq(Nat)

VARIABLES
    host,        \* its tick, the player's position and the last input it processed
    sent,        \* the frames sent so far: any of them may arrive, at any time
    taken,       \* every input the client recorded, in order
    phase,       \* where Advance is
    clientTick,
    identity,    \* whether this is the host's own presentation
    polled,      \* the sequence of the last input sampled
    inputs,      \* InputBuffer, and the last sequence it took
    lastSequence,
    states,      \* StateBuffer
    confirmed,   \* m_confirmed, m_confirmedSequence
    confirmedSequence,
    current,     \* m_current: what is shown of the local player
    correction,  \* m_lastCorrection
    frames,      \* SnapshotBuffer
    shown        \* what was last shown of the others

hostVars == <<host, sent>>
localVars == <<taken, polled, inputs, lastSequence, states, confirmed, confirmedSequence,
               current, correction>>
vars == <<hostVars, localVars, phase, clientTick, identity, frames, shown>>

None == 0
Nowhere == [id |-> None, tick |-> 0, position |-> 0, motion |-> 0]

Init ==
    /\ host = [tick |-> 0, position |-> 0, processed |-> 0]
    /\ sent = {}
    /\ phase = "idle" /\ clientTick = 0
    /\ identity \in BOOLEAN
    /\ taken = <<>> /\ polled = 0 /\ inputs = <<>> /\ lastSequence = 0
    /\ states = <<>>
    /\ confirmed = Nowhere /\ confirmedSequence = 0 /\ current = Nowhere
    /\ correction = "None"
    /\ frames = <<>> /\ shown = {}

---------------------------------------------------------------------------
(* InputBuffer.                                                            *)

\* A sample repeated, or out of order, is refused; a full buffer takes no more.
Push(command) ==
    IF command.sequence > lastSequence /\ Len(inputs) < InputBufferDepth
    THEN /\ inputs' = Append(inputs, command)
         /\ lastSequence' = command.sequence
         /\ taken' = Append(taken, command)
    ELSE UNCHANGED <<inputs, lastSequence, taken>>

\* Where the inputs past a sequence begin.
FirstAfter(commands, sequence) ==
    CHOOSE i \in 1..(Len(commands) + 1) :
        /\ \A k \in 1..(i - 1) : commands[k].sequence <= sequence
        /\ i <= Len(commands) => commands[i].sequence > sequence

\* Sequences ascend in the ring, so that what is left of it is its end.
Pending(commands, from) == SubSeq(commands, FirstAfter(commands, from), Len(commands))

PruneUpTo(sequence) == Pending(inputs, sequence)

---------------------------------------------------------------------------
(* The host, as the client knows it: it takes inputs in order, and each    *)
(* frame tells how far it has come.                                        *)

Travelled(commands) ==
    LET through[i \in 0..Len(commands)] ==
            IF i = 0 THEN 0 ELSE through[i - 1] + commands[i].move
    IN  through[Len(commands)]

Processed(from, to) == SubSeq(taken, FirstAfter(taken, from), FirstAfter(taken, to) - 1)

HostFrame ==
    /\ host.tick < MaxHostTick
    /\ \E to \in host.processed..lastSequence, shove \in Shoves, scene \in Scenes :
          LET position == host.position + shove + Travelled(Processed(host.processed, to))
              frame == [tick |-> host.tick + 1, ackedInputSequence |-> to,
                        players |-> [i \in DOMAIN scene.players |->
                                        [entity |-> scene.players[i],
                                         position |-> IF scene.players[i] = 1
                                                      THEN position ELSE 0]],
                        entities |-> scene.entities]
          IN  /\ host' = [tick |-> host.tick + 1, position |-> position, processed |-> to]
              /\ sent' = sent \cup {frame}
    /\ UNCHANGED <<localVars, phase, clientTick, identity, frames, shown>>

---------------------------------------------------------------------------
(* PredictionStep, StateBuffer and ReplayFrom.                             *)

\* Mutant: the next state is not told whose it is.
IntegrateNobody(prior, command) ==
    [id |-> None, tick |-> command.tick,
     position |-> prior.position + command.move, motion |-> command.move]

Integrate(prior, command) ==
    [id |-> prior.id, tick |-> command.tick,
     position |-> prior.position + command.move, motion |-> command.move]

\* A tick that has been recorded is never recorded again.
Record(buffer, state) ==
    IF buffer # <<>> /\ state.tick <= Last(buffer).tick THEN buffer
    ELSE Append(IF Len(buffer) < StateBufferDepth THEN buffer ELSE Tail(buffer), state)

\* The inputs a replay applies: in order, up to a tick, and no more than the cap.
Applied(commands, from, toTick) ==
    LET pending == Pending(commands, from)
        applied == CHOOSE n \in 0..Len(pending) :
                       /\ n <= MaxPredictionTicks
                       /\ \A i \in 1..n : pending[i].tick <= toTick
                       /\ \/ n \in {Len(pending), MaxPredictionTicks}
                          \/ pending[n + 1].tick > toTick
    IN  SubSeq(pending, 1, applied)

\* The states a replay passes through, the baseline first.
ReplayFrom(baseline, commands) ==
    LET through[i \in 0..Len(commands)] ==
            IF i = 0 THEN baseline ELSE Integrate(through[i - 1], commands[i])
    IN  [i \in 1..(Len(commands) + 1) |-> through[i - 1]]

Recorded(replay) ==
    LET through[i \in 0..(Len(replay) - 1)] ==
            IF i = 0 THEN states ELSE Record(through[i - 1], replay[i + 1])
    IN  through[Len(replay) - 1]

---------------------------------------------------------------------------
(* PredictionManager::Reconcile.                                           *)

\* Mutant: the host is right, whenever it said so.
NeverRegressed(acked) == FALSE

\* A regressed acknowledgement.
Regressed(acked) == confirmedSequence > 0 /\ acked < confirmedSequence

OtherBody(player) ==
    confirmed.id # None /\ player.entity # None /\ player.entity # confirmed.id

Distance(a, b) == IF a > b THEN a - b ELSE b - a

CorrectionKind(new, old) ==
    LET error == Distance(new.position, old.position)
        turn  == Distance(new.motion, old.motion)
    IN  IF error > PositionThreshold \/ turn > PositionThreshold THEN "Snapped"
        ELSE IF error > 0 \/ turn > 0 THEN "Smoothed" ELSE "None"

\* The host's position; what the host does not send is carried over.
Baseline(player) ==
    [id |-> IF player.entity # None THEN player.entity ELSE confirmed.id,
     tick |-> confirmed.tick, position |-> player.position, motion |-> current.motion]

Reconcile(player, acked) ==
    IF Regressed(acked) \/ OtherBody(player)
    THEN UNCHANGED localVars
    ELSE LET left   == PruneUpTo(acked)
             replay == ReplayFrom(Baseline(player), Applied(left, acked, clientTick))
         IN  /\ inputs' = left
             /\ confirmed' = Baseline(player)
             /\ confirmedSequence' = acked
             /\ states' = Recorded(replay)
             /\ current' = Last(replay)
             /\ correction' = CorrectionKind(Last(replay), current)
             /\ UNCHANGED <<taken, polled, lastSequence>>

---------------------------------------------------------------------------
(* SnapshotBuffer and InterpolationManager.                                *)

\* Mutant: a late frame is put where it arrives.
PushedAsItComes(frame) ==
    Append(IF Len(frames) < StateBufferDepth THEN frames ELSE Tail(frames), frame)

\* Frames ascend; a full buffer forgets its oldest.
PushFrame(frame) ==
    IF frames # <<>> /\ frame.tick <= Last(frames).tick THEN frames
    ELSE Append(IF Len(frames) < StateBufferDepth THEN frames ELSE Tail(frames), frame)

Target(renderTick) ==
    IF renderTick > InterpolationDelay THEN renderTick - InterpolationDelay ELSE 0

\* The two frames around the target, or twice the first or the last: never beyond.
Pair(target) ==
    IF target <= Head(frames).tick THEN <<Head(frames), Head(frames)>>
    ELSE IF target >= Last(frames).tick THEN <<Last(frames), Last(frames)>>
    ELSE LET i == CHOOSE k \in 1..(Len(frames) - 1) :
                     frames[k].tick <= target /\ target < frames[k + 1].tick
         IN  <<frames[i], frames[i + 1]>>

\* A linear step between two ticks is the target itself.
Blend(pair, target) == IF pair[1] = pair[2] THEN pair[1].tick ELSE target

\* Only who is in both frames is shown.
Interpolate(renderTick) ==
    IF frames = <<>> THEN {}
    ELSE LET target == Target(renderTick)
             pair   == Pair(target)
         IN  {[id |-> e, time |-> Blend(pair, target)] :
                 e \in pair[1].entities \cap pair[2].entities}

---------------------------------------------------------------------------
(* ClientPresentationDriver::Advance, one call at a time.                  *)

Advance ==
    /\ phase = "idle" /\ clientTick < MaxClientTick
    /\ clientTick' = clientTick + 1
    /\ phase' = IF identity THEN "identity" ELSE "poll"
    /\ UNCHANGED <<hostVars, localVars, identity, frames, shown>>

\* A host's presentation: frames are shown as they are.
ShowAuthoritative ==
    /\ phase = "identity"
    /\ \E f \in sent : shown' = {[id |-> e, time |-> f.tick] : e \in f.entities}
    /\ UNCHANGED <<hostVars, localVars, phase, clientTick, identity, frames>>

\* There may be no input, or one, or the last one again.
PollInput ==
    /\ phase = "poll"
    /\ phase' = "drain"
    /\ \/ UNCHANGED localVars
       \/ \E sequence \in {polled, polled + 1} \ {0} :
             /\ polled' = sequence
             /\ Push([sequence |-> sequence, tick |-> clientTick, move |-> Move(sequence)])
             /\ UNCHANGED <<states, confirmed, confirmedSequence, current, correction>>
    /\ UNCHANGED <<hostVars, clientTick, identity, frames, shown>>

\* The established body, or before there is one the first player.
SelectLocalPlayer(frame) ==
    LET own == {i \in DOMAIN frame.players :
                   current.id = None \/ frame.players[i].entity = current.id}
    IN  {frame.players[i] : i \in {k \in own : \A other \in own : k <= other}}

\* A frame too late for the buffer is reconciled all the same.
NextFrame ==
    /\ phase = "drain"
    /\ \E f \in sent :
          /\ frames' = PushFrame(f)
          /\ IF SelectLocalPlayer(f) = {} THEN UNCHANGED localVars
             ELSE \E player \in SelectLocalPlayer(f) :
                      Reconcile(player, f.ackedInputSequence)
    /\ UNCHANGED <<hostVars, phase, clientTick, identity, shown>>

Present ==
    /\ phase \in {"drain", "identity"}
    /\ phase' = "idle"
    /\ IF phase = "drain"
       THEN LET replay == ReplayFrom(confirmed,
                                     Applied(inputs, confirmedSequence, clientTick))
            IN  /\ current' = Last(replay)
                /\ states' = Recorded(replay)
                /\ shown' = Interpolate(clientTick)
       ELSE UNCHANGED <<current, states, shown>>
    /\ UNCHANGED <<hostVars, clientTick, identity, frames, taken, polled, inputs,
                   lastSequence, confirmed, confirmedSequence, correction>>

Next == HostFrame \/ Advance \/ ShowAuthoritative \/ PollInput \/ NextFrame \/ Present

Spec == Init /\ [][Next]_vars

---------------------------------------------------------------------------
(* Properties.                                                             *)

TypeOK ==
    /\ phase \in {"idle", "identity", "poll", "drain"}
    /\ Len(inputs) <= InputBufferDepth
    /\ Len(states) <= StateBufferDepth /\ Len(frames) <= StateBufferDepth
    /\ correction \in {"None", "Smoothed", "Snapped"}

\* Every input the client recorded counts exactly once in what it shows, whatever
\* becomes of the frames: either in the position of a frame that acknowledges it, or
\* replayed on top of that position, until the cap (Reconcile, PruneUpTo, ReplayFrom).
EveryInputCountsOnce ==
    /\ TypeOK
    /\ phase = "idle" /\ clientTick > 0 /\ ~identity =>
        LET open == Pending(taken, confirmedSequence)
            replayed == SubSeq(open, 1, IF Len(open) < MaxPredictionTicks THEN Len(open)
                                        ELSE MaxPredictionTicks)
            base == current.position - Travelled(replayed)
        IN  \/ confirmed = Nowhere /\ confirmedSequence = 0 /\ base = 0
            \/ \E f \in sent : \E i \in DOMAIN f.players :
                  /\ f.ackedInputSequence = confirmedSequence
                  /\ f.players[i].entity \in {None, current.id}
                  /\ base = f.players[i].position

\* What is shown of the others never runs back in time and is never newer than the
\* newest frame, however frames are delayed, repeated, reordered or lost.
ShownTimeAdvances ==
    [][~identity =>
        \A new \in shown' :
            /\ new.time <= Last(frames).tick
            /\ \A old \in shown : old.time <= new.time]_vars

\* Once the client has found its player's body it shows no other.
OwnBodyKept == [][current.id # None => current'.id = current.id]_vars
=============================================================================
