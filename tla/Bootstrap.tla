----------------------------- MODULE Bootstrap -----------------------------
(***************************************************************************)
(* The composition root: what Initialize, the frame bridge and Shutdown do *)
(* to the registries, the dispatcher and the world, one call at a time.    *)
(*                                                                         *)
(* The wiring is a table of steps in the order of the code.  A step that   *)
(* is refused, or that the operating system fails, leaves the rest undone  *)
(* and goes on with DestroyRuntime, as a Shutdown does.                    *)
(***************************************************************************)
EXTENDS Configuration, Services, World

CONSTANTS
    Absent,     \* a configuration file that does not exist
    Contents,   \* of each configuration file, what it may hold
    MaxFrames,  \* bound: frames of one start
    MaxStarts   \* bound: calls of Initialize that find no runtime

ConfigFile == {"development", "server", "client"}

ASSUME ContentsAssumption == DOMAIN Contents = ConfigFile

VARIABLES
    stage,    \* what the composition root is doing
    at,       \* the step of StartUp, or of TearDown, it comes to next
    disk,     \* what each configuration file holds
    cached,   \* the subscribers the Runtime kept a pointer to
    held,     \* of the bridge, the driver and the feed, those that exist
    starts,   \* calls of Initialize so far
    frames    \* frames dispatched since the last of them

rootVars == <<stage, at, disk, cached, held, starts, frames>>
vars == <<rootVars, registries, worldVars>>

---------------------------------------------------------------------------
(* The wiring.                                                             *)

Step(do, who, key) == [do |-> do, who |-> who, key |-> key]
Config(section)    == Step("config", section, 0)
Registered(n)      == Step("register", n, 0)
Ticked(n, key)     == Step("subscribe", n, key)
Cached(n)          == Step("cache", n, 0)
Do(what)           == Step(what, "Runtime", 0)

\* tick_order
kWorld           == 100
kEntityRegistry  == 200
kPlayerLifecycle == 250
kBubble          == 300
kAlifeTransition == 350
kScripting       == 375
kReplication     == 400
kReplicationPipeline == 450
kPersistence     == 500
kPlugins         == 700
kNetworking      == 900

WorldConfigs   == <<Config("world"), Config("entity_registry"), Config("bubble")>>
WorldService   == <<Registered("World")>>
EntityServices == <<Registered("EntityRegistry"), Do("feed"),
                    Ticked("EntityFeed", kEntityRegistry), Registered("WorldQueries"),
                    Registered("Environment")>>
PlayerFoundation == <<Config("networking"), Config("player"), Registered("Session")>>
Bubble     == <<Registered("BubbleManager"), Ticked("BubbleManager", kBubble),
                Cached("BubbleManager")>>
Transition == <<Registered("TransitionManager"),
                Ticked("TransitionManager", kAlifeTransition), Cached("TransitionManager")>>
Networking == <<Config("transport"), Registered("Transport"), Registered("MessageRegistry"),
                Registered("Networking"), Ticked("Networking", kNetworking),
                Cached("Networking")>>
Players    == <<Registered("PlayerManager"), Cached("PlayerManager"),
                Ticked("PlayerManager", kPlayerLifecycle), Ticked("World", kWorld)>>
Snapshot   == <<Config("snapshot"), Registered("SnapshotManager"),
                Ticked("SnapshotManager", kReplication), Cached("SnapshotManager")>>
Replicating == <<Config("replication"), Registered("Replication"),
                Ticked("Replication", kReplicationPipeline), Cached("Replication")>>
Saving     == <<Config("persistence"), Config("saveload"), Do("backend"),
                Registered("Persistence"), Ticked("Persistence", kPersistence),
                Cached("Persistence")>>
Scripts    == <<Config("lua"), Registered("Scripting"), Ticked("Scripting", kScripting),
                Cached("Scripting")>>
Extensions == <<Config("plugins"), Registered("Plugins"), Ticked("Plugins", kPlugins),
                Cached("Plugins"), Cached("World")>>
Presentation == <<Config("prediction"), Do("driver")>>

StartUp ==
    <<Do("logging"), Do("development"), Do("server"), Do("client"), Do("engine")>>
    \o WorldConfigs \o WorldService \o EntityServices \o PlayerFoundation \o Bubble
    \o Transition \o Networking \o Players \o Snapshot \o Replicating \o Saving
    \o Scripts \o Extensions \o Presentation
    \o <<Do("initialize"), Do("modules"), Do("world"), Do("extensions"), Do("bridge")>>

\* DestroyRuntime: what it takes away, in this order.
TearDown ==
    <<"bridge", "driver", "EntityFeed", "Plugins", "Persistence", "Scripting", "Replication",
      "SnapshotManager", "Networking", "TransitionManager", "BubbleManager",
      "PlayerManager", "World", "services">>

---------------------------------------------------------------------------

Init ==
    /\ stage = "off" /\ at = 0 /\ starts = 0 /\ frames = 0
    /\ disk \in {d \in [ConfigFile -> UNION {Contents[f] : f \in ConfigFile}] :
                    \A f \in ConfigFile : d[f] \in Contents[f]}
    /\ cached = {} /\ held = {}
    /\ RegistriesInit
    /\ WorldInit

\* A call of Initialize that finds a runtime keeps it, and changes nothing.
Initialize ==
    /\ stage = "off" /\ starts < MaxStarts
    /\ stage' = "starting" /\ at' = 1
    /\ starts' = starts + 1 /\ frames' = 0
    /\ UNCHANGED <<disk, cached, held, registries, worldVars>>

Now == StartUp[at]
Starting(do) == stage = "starting" /\ Now.do = do

Proceed ==
    IF at < Len(StartUp)
    THEN at' = at + 1 /\ UNCHANGED stage
    ELSE at' = 0 /\ stage' = "running"

\* The error is reported and DestroyRuntime takes down what there is.
Fail ==
    /\ stage' = "stopping" /\ at' = 1
    /\ UNCHANGED <<cached, held, starts, frames, registries, worldVars>>

\* The three files.  What the program writes for a missing one:
DefaultContent(f) ==
    [development |-> <<Header("meta"), Pair("config_version", Number(1))>>,
     server |->
        <<Header("meta"), Pair("config_version", Number(1)), Header("world"),
          Pair("simulation_speed", Number(1)), Pair("day_length_minutes", Number(90)),
          Pair("debug_logging", Flag(FALSE)), Header("persistence"),
          Pair("queue_depth", Number(16)), Pair("autosave_interval_ticks", Number(0)),
          Pair("backpressure_high_watermark", Number(12)),
          Pair("backpressure_low_watermark", Number(4)), Header("plugins"),
          Pair("plugin_directory", Text(7)), Pair("max_plugins", Number(64)),
          Pair("enabled", Flag(TRUE))>>,
     client |->
        <<Header("meta"), Pair("config_version", Number(1)), Header("prediction"),
          Pair("input_buffer_depth", Number(128)), Pair("max_prediction_ticks", Number(8))>>][f]

kCurrentVersion == 1

\* A missing version, and one that is no number, count as the first.
TooNew(file) ==
    LET meta == Given(file, "meta") IN
    /\ "config_version" \in DOMAIN meta
    /\ \E v \in GetInt(meta["config_version"]) : v > kCurrentVersion

LoadOrCreate(f) == IF disk[f] = Absent THEN DefaultContent(f) ELSE disk[f]

LoadConfiguration(f) ==
    /\ Starting(f)
    /\ ParsesWell(LoadOrCreate(f)) /\ ~TooNew(LoadOrCreate(f))
    /\ disk' = [disk EXCEPT ![f] = LoadOrCreate(f)]
    /\ Proceed
    /\ UNCHANGED <<cached, held, starts, frames, registries, worldVars>>

RefuseConfiguration(f) ==
    /\ Starting(f)
    /\ ~ParsesWell(LoadOrCreate(f)) \/ TooNew(LoadOrCreate(f))
    /\ disk' = [disk EXCEPT ![f] = LoadOrCreate(f)]
    /\ Fail

\* FromConfig; [prediction] is the one section of the client's file.
FileOf(section) == IF section = "prediction" THEN disk["client"] ELSE disk["server"]

\* What a step is refused for, with nothing but the program to blame.
Refused ==
    \/ Now.do = "config"    /\ ~Accepts(FileOf(Now.who), Now.who)
    \/ Now.do = "register"  /\ AlreadyRegistered(Now.who)
    \/ Now.do = "subscribe" /\ SubscriptionTaken(Now.who, Now.key)
    \/ Now.do = "world"     /\ world # "Initialized"

Configure ==
    /\ Starting("config")
    /\ ~Refused
    /\ Proceed
    /\ UNCHANGED <<disk, cached, held, starts, frames, registries, worldVars>>

RefuseStep ==
    /\ stage = "starting" /\ Refused
    /\ UNCHANGED disk
    /\ Fail

\* The log directory or file, a configuration file that cannot be read or written,
\* an engine of another version, the save directory, the engine's frame list.
Unavailable ==
    /\ stage = "starting"
    /\ Now.do \in ConfigFile \cup {"logging", "engine", "backend", "bridge"}
    /\ UNCHANGED disk
    /\ Fail

Build ==
    /\ stage = "starting"
    /\ Now.do \in {"logging", "engine", "backend", "extensions"}
    /\ Proceed
    /\ UNCHANGED <<disk, cached, held, starts, frames, registries, worldVars>>

Create ==
    /\ stage = "starting"
    /\ Now.do \in {"feed", "driver", "bridge"}
    /\ held' = held \cup {Now.do}
    /\ Proceed
    /\ UNCHANGED <<disk, cached, starts, frames, registries, worldVars>>

RegisterService ==
    /\ Starting("register")
    /\ ~Refused
    /\ Register(Now.who)
    /\ Proceed
    /\ UNCHANGED <<disk, cached, held, starts, frames, initialized, subscribers, turn,
                   modules, worldVars>>

SubscribeToFrames ==
    /\ Starting("subscribe")
    /\ ~Refused
    /\ Subscribe(Now.who, Now.key)
    /\ Proceed
    /\ UNCHANGED <<disk, cached, held, starts, frames, services, initialized, turn,
                   modules, worldVars>>

Cache ==
    /\ Starting("cache")
    /\ cached' = cached \cup {Now.who}
    /\ Proceed
    /\ UNCHANGED <<disk, held, starts, frames, registries, worldVars>>

---------------------------------------------------------------------------
(* InitializeAll, and the rest of InitializeRuntime.                       *)

Enabled(section) == Settings(disk["server"], section).enabled

\* Only the host's socket can fail, and only a host that listens has one; the
\* others would fail on a second start of the same object.
CanFail(service) ==
    \/ service = "Networking" /\ Enabled("networking")
    \/ service = "World" /\ ~IsLegalTransition(world, "Initialized")

InitializeService ==
    /\ Starting("initialize")
    /\ DependenciesInOrder /\ Pending # {}
    /\ initialized' = initialized \cup {FirstPending}
    /\ IF FirstPending = "World"
       THEN TransitionTo("Initialized")
       ELSE UNCHANGED worldVars
    /\ UNCHANGED <<rootVars, services, subscribers, turn, modules>>

ServiceFails ==
    /\ Starting("initialize")
    /\ DependenciesInOrder /\ Pending # {} /\ CanFail(FirstPending)
    /\ stage' = "unwinding"
    /\ UNCHANGED <<at, disk, cached, held, starts, frames, registries, worldVars>>

\* Mutant: the failure of a service is not passed on.
AllInitializedOrFailed ==
    /\ Starting("initialize")
    /\ Pending = {} \/ CanFail(FirstPending)
    /\ Proceed
    /\ UNCHANGED <<disk, cached, held, starts, frames, registries, worldVars>>

AllInitialized ==
    /\ Starting("initialize")
    /\ Pending = {}
    /\ Proceed
    /\ UNCHANGED <<disk, cached, held, starts, frames, registries, worldVars>>

\* One service less: the inner step of ShutdownAll.
ShutdownNext ==
    /\ Finished # {}
    /\ initialized' = initialized \ {LastInitialized}
    /\ IF LastInitialized = "World" THEN WorldShutdown ELSE UNCHANGED worldVars
    /\ UNCHANGED <<rootVars, services, subscribers, turn, modules>>

Unwind == stage = "unwinding" /\ ShutdownNext

Unwound ==
    /\ stage = "unwinding" /\ Finished = {}
    /\ UNCHANGED disk
    /\ Fail

RegisterModules ==
    /\ Starting("modules")
    /\ modules' = AttachImplementation(
                      Declare({"World", "Player", "Replication", "Persistence",
                               "Networking", "Plugins", "Diagnostics"}), "World")
    /\ Proceed
    /\ UNCHANGED <<disk, cached, held, starts, frames, services, initialized, subscribers,
                   turn, worldVars>>

StartWorld ==
    /\ Starting("world")
    /\ WorldStart
    /\ Proceed
    /\ UNCHANGED <<disk, cached, held, starts, frames, registries>>

---------------------------------------------------------------------------
(* A frame: Dispatch, one subscriber at a time, then the presentation.     *)

BeginFrame ==
    /\ "bridge" \in held /\ stage = "running" /\ turn = 0
    /\ frames < MaxFrames
    /\ frames' = frames + 1
    /\ turn' = 1
    /\ UNCHANGED <<stage, at, disk, cached, held, starts, services, initialized,
                   subscribers, modules, worldVars>>

TickSubscriber ==
    /\ turn \in DOMAIN subscribers
    /\ IF subscribers[turn].who = "World" THEN WorldTick ELSE UNCHANGED worldVars
    /\ turn' = turn + 1
    /\ UNCHANGED <<rootVars, services, initialized, subscribers, modules>>

AdvanceClientPresentation ==
    /\ turn > Len(subscribers)
    /\ turn' = 0
    /\ UNCHANGED <<rootVars, services, initialized, subscribers, modules, worldVars>>

\* Pause and Resume are the composition root's to call.
PauseOrResume ==
    /\ stage = "running" /\ turn = 0
    /\ Pause \/ Resume
    /\ UNCHANGED <<rootVars, registries>>

---------------------------------------------------------------------------
(* Shutdown and DestroyRuntime.                                            *)

Shutdown ==
    /\ stage = "running" /\ turn = 0
    /\ stage' = "stopping" /\ at' = 1
    /\ UNCHANGED <<disk, cached, held, starts, frames, registries, worldVars>>

Gone == TearDown[at]
Stopping(what) == stage = "stopping" /\ at \in DOMAIN TearDown /\ Gone = what

TakeAway ==
    /\ Stopping("bridge") \/ Stopping("driver")
    /\ held' = held \ {Gone}
    /\ at' = at + 1
    /\ UNCHANGED <<stage, disk, cached, starts, frames, registries, worldVars>>

TakeAwayFeed ==
    /\ Stopping("EntityFeed")
    /\ IF "feed" \in held THEN Unsubscribe("EntityFeed") ELSE UNCHANGED subscribers
    /\ held' = held \ {"feed"}
    /\ at' = at + 1
    /\ UNCHANGED <<stage, disk, cached, starts, frames, services, initialized, turn,
                   modules, worldVars>>

\* Mutant: DestroyRuntime counts on everything having been cached.
UnsubscribeAll ==
    /\ stage = "stopping" /\ at \in DOMAIN TearDown
    /\ Gone \in cached
    /\ Unsubscribe(Gone)
    /\ cached' = cached \ {Gone}
    /\ at' = at + 1
    /\ UNCHANGED <<stage, disk, held, starts, frames, services, initialized, turn,
                   modules, worldVars>>

\* Only what was cached is unsubscribed.
UnsubscribeCached ==
    /\ stage = "stopping" /\ at \in DOMAIN TearDown
    /\ Gone \in DOMAIN Dependencies
    /\ IF Gone \in cached THEN Unsubscribe(Gone) ELSE UNCHANGED subscribers
    /\ cached' = cached \ {Gone}
    /\ at' = at + 1
    /\ UNCHANGED <<stage, disk, held, starts, frames, services, initialized, turn,
                   modules, worldVars>>

ShutdownService == Stopping("services") /\ ShutdownNext

\* The Runtime is destroyed, and its members with it.
Destroy ==
    /\ Stopping("services") /\ Finished = {}
    /\ stage' = "off" /\ at' = 0
    /\ cached' = {} /\ held' = {}
    /\ services' = <<>> /\ initialized' = {} /\ subscribers' = <<>> /\ turn' = 0
    /\ modules' = <<>>
    /\ world' = "Created" /\ clock' = [tick |-> 0, time |-> 0] /\ sampled' = Unknown
    /\ context' = [tick |-> 0, time |-> 0, weather |-> Unknown]
    /\ UNCHANGED <<disk, starts, frames>>

---------------------------------------------------------------------------

Start ==
    \/ Initialize
    \/ \E f \in ConfigFile : LoadConfiguration(f) \/ RefuseConfiguration(f)
    \/ Configure \/ RefuseStep \/ Unavailable \/ Build \/ Create
    \/ RegisterService \/ SubscribeToFrames \/ Cache
    \/ InitializeService \/ ServiceFails \/ AllInitialized \/ Unwind \/ Unwound
    \/ RegisterModules \/ StartWorld

Run  == BeginFrame \/ TickSubscriber \/ AdvanceClientPresentation \/ PauseOrResume

Stop == \/ Shutdown \/ TakeAway \/ TakeAwayFeed \/ UnsubscribeCached
        \/ ShutdownService \/ Destroy

Next == Start \/ Run \/ Stop

Spec == Init /\ [][Next]_vars

\* Initialize and Shutdown run to their end once they are called.
FairSpec == Spec /\ WF_vars(Next)

---------------------------------------------------------------------------
(* Properties.                                                             *)

TypeOK ==
    /\ stage \in {"off", "starting", "unwinding", "running", "stopping"}
    /\ at \in 0..Len(StartUp)
    /\ disk \in [ConfigFile -> UNION {Contents[f] \cup {DefaultContent(f)} : f \in ConfigFile}]
    /\ cached \subseteq DOMAIN Dependencies
    /\ held \subseteq {"feed", "driver", "bridge"}
    /\ ToSet(services) \subseteq DOMAIN Dependencies
    /\ turn \in 0..(Len(subscribers) + 1)
    /\ world \in WorldLifecycleState

\* What the constructors were given to call, declared as a dependency or not.
References ==
    {<<"BubbleManager", "WorldQueries">>, <<"Networking", "Transport">>,
     <<"Networking", "Session">>, <<"Networking", "MessageRegistry">>,
     <<"PlayerManager", "Session">>, <<"PlayerManager", "MessageRegistry">>,
     <<"Replication", "BubbleManager">>, <<"Replication", "SnapshotManager">>}

\* While a service is up, so is every service it names as a dependency and every
\* one it calls: in a start, when a start fails half way, and in a shutdown.
SupportedWhileUp ==
    /\ TypeOK
    /\ \A s \in initialized : Dependencies[s] \subseteq initialized
    /\ \A pair \in References : pair[1] \in initialized => pair[2] \in initialized

\* The engine reaches nothing half built or half destroyed: while the frame bridge
\* exists the world runs and every subscriber of the dispatcher is alive and up.
FramesReachTheLiving ==
    "bridge" \in held =>
        /\ world \in {"Running", "Paused"}
        /\ {"feed", "driver"} \subseteq held
        /\ \A i \in DOMAIN subscribers :
              subscribers[i].who \in initialized \cup {"EntityFeed"}
        /\ initialized = DOMAIN Dependencies

Position(who) == CHOOSE i \in DOMAIN subscribers : subscribers[i].who = who

\* Which subscriber reads in its turn what another leaves in its own: in an object
\* both were constructed with, or in the engine (the switches of TransitionManager,
\* the effects of scripts and plugins).  The first list is read in the frame it was
\* written in, the second in the frame after.
Feeds ==
    {<<"EntityFeed", "TransitionManager">>, <<"PlayerManager", "BubbleManager">>,
     <<"PlayerManager", "SnapshotManager">>, <<"BubbleManager", "TransitionManager">>,
     <<"BubbleManager", "Replication">>, <<"TransitionManager", "SnapshotManager">>,
     <<"Scripting", "SnapshotManager">>, <<"SnapshotManager", "Replication">>,
     <<"SnapshotManager", "Persistence">>}
LateFeeds ==
    {<<"Networking", "PlayerManager">>, <<"Plugins", "SnapshotManager">>,
     <<"TransitionManager", "EntityFeed">>}

\* In every frame the world takes the first turn, so that whoever comes after it
\* finds the context of this frame, paused or not; of the listed pairs a consumer of
\* Feeds comes after its producer, and one of LateFeeds before it: joins, leaves and
\* requests of players, what plugins do and what switches did take effect a frame
\* late, never in some frames at once and in others late.
FramesAreFresh ==
    "bridge" \in held =>
        /\ Position("World") = 1
        /\ turn > 1 => context.tick = frames
        /\ \A pair \in Feeds : Position(pair[1]) < Position(pair[2])
        /\ \A pair \in LateFeeds : Position(pair[2]) < Position(pair[1])

\* TicksFromMs, at kDefaultMsPerTick.
Ticks(ms) == LET ticks == (ms + 15) \div 16 IN IF ticks = 0 THEN 1 ELSE ticks

\* What the other modules assume of their settings holds of every configuration
\* the program runs with.
SettingsFit ==
    stage = "running" =>
        LET file == disk["server"]
            net  == Settings(file, "networking")
            udp  == Settings(file, "transport")
            save == Settings(file, "persistence")
        IN  /\ net.max_connections >= 1
            /\ Ticks(net.handshake_timeout_ms) \in 1..Ticks(net.connection_timeout_ms)
            /\ Ticks(net.heartbeat_interval_ms) \in 1..Ticks(net.connection_timeout_ms)
            /\ udp.mtu_payload_bytes \in (PacketHeaderWireSize + 1)..udp.max_bytes_per_tick
            /\ Settings(file, "snapshot").pool_capacity >= 2
            /\ Settings(file, "replication").reliable_queue_depth >= 1
            /\ save.backpressure_low_watermark <= save.backpressure_high_watermark
            /\ save.backpressure_high_watermark <= save.queue_depth
            /\ save.version >= 1

\* A call of Initialize ends with a host that runs, or with nothing; a call of
\* Shutdown ends with nothing.
CallsReturn ==
    /\ stage = "starting" ~> stage \in {"running", "off"}
    /\ stage \in {"unwinding", "stopping"} ~> stage = "off"
=============================================================================
