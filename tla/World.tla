------------------------------- MODULE World -------------------------------
(***************************************************************************)
(* WorldManager: the lifecycle of the simulated world, its clock, and the  *)
(* context it publishes once a frame for everybody else to read.           *)
(*                                                                         *)
(* Simulated time is counted in frames that were not paused; the length of *)
(* a frame and the speed only scale it.                                    *)
(***************************************************************************)
EXTENDS Naturals

CONSTANT Weather   \* what the engine may report of the sky, names and emissions

VARIABLES
    world,    \* the lifecycle state
    clock,    \* SimulationClock: the tick and the simulated time
    sampled,  \* m_weather and m_emissionActive
    context   \* the WorldContext last published

worldVars == <<world, clock, sampled, context>>

WorldLifecycleState == {"Created", "Initialized", "Running", "Paused", "ShutDown"}

Unknown == "unknown"

WorldInit ==
    /\ world = "Created"
    /\ clock = [tick |-> 0, time |-> 0]
    /\ sampled = Unknown
    /\ context = [tick |-> 0, time |-> 0, weather |-> Unknown]

IsLegalTransition(from, to) ==
    \/ to = "Initialized" /\ from = "Created"
    \/ to = "Running"     /\ from \in {"Initialized", "Paused"}
    \/ to = "Paused"      /\ from = "Running"
    \/ to = "ShutDown"    /\ from # "ShutDown"

TransitionTo(target) ==
    /\ IsLegalTransition(world, target)
    /\ world' = target
    /\ UNCHANGED <<clock, sampled, context>>

WorldStart == world = "Initialized" /\ TransitionTo("Running")
Pause      == TransitionTo("Paused")
Resume     == world = "Paused" /\ TransitionTo("Running")

\* Shutdown of a world that is shut down already is a no-op.
WorldShutdown == world' = "ShutDown" /\ UNCHANGED <<clock, sampled, context>>

\* Mutant: a paused world publishes nothing.
AdvancedUnlessPaused(c) ==
    IF world = "Running" THEN [tick |-> c.tick + 1, time |-> c.time + 1] ELSE c

\* SimulationClock::Advance, AdvancePausedTick.
Advanced(c) == [tick |-> c.tick + 1, time |-> c.time + (IF world = "Running" THEN 1 ELSE 0)]

\* Without an environment (the main menu) the last sample stays.
SampleEnvironment == sampled' \in Weather \cup {sampled}

PublishContext ==
    context' = [tick |-> clock'.tick, time |-> clock'.time, weather |-> sampled']

WorldTick ==
    IF world \in {"Running", "Paused"}
    THEN /\ clock' = Advanced(clock)
         /\ SampleEnvironment
         /\ PublishContext
         /\ UNCHANGED world
    ELSE UNCHANGED worldVars
=============================================================================
