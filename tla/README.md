# Formal model of the STALKER-MP multiplayer module

This directory holds TLA+ specifications of the `Multiplayer` module of
STALKER-MP (`src/Multiplayer`), the TLC configurations that check them on small
instances and the TLAPS proofs about them. Paths below are relative to
`Multiplayer/`.

## 1. Inventory of the system

The module is a dedicated server built into the game process. It has **one
thread**: the engine's frame callback calls `FrameDispatcher::Dispatch`, which
ticks every subscriber in ascending order key. Nothing is concurrent in the
threading sense; what is hard is the order of phases inside a frame, loops over
stores the loop itself changes, queues carried from one frame to the next, an
unreliable network, and a disk and an engine that may fail half way.

| order | part | state | operations | interacts with |
|---|---|---|---|---|
| - | Core: `FrameDispatcher`, `ServiceRegistry`, `Bootstrap` | ordered subscribers, services in dependency order, startup stage | subscribe, unsubscribe, dispatch, initialise all, shut down all | every part below |
| 100-200 | World: `WorldManager`, `EntityRegistry` | registered entities with generation and lifecycle | register, online, offline, unregister, events | Bubble, Transition, Snapshot |
| 250 | Players: `PlayerManager`, `PlayerRegistry`, `PlayerSessionObserver`, `PlayerDeltaQueue` | player records, id allocator, delta queue | join, suspend on leave, death, respawn | Session (deltas), message handlers, engine (spawn) |
| 300 | `BubbleManager` | active set with hysteresis | update from player positions | Players, EntityRegistry, Transition |
| 350 | `TransitionManager`, `TransitionIntentStore` | pending switches, recorded intents | request, issue, reconcile | Bubble, engine A-Life |
| 375 | Lua: `ScriptManager`, `LuaManager` | script registry, bindings, disabled scripts | load, bind, dispatch, disable, unload, reload | everything, read-only |
| 400 | Snapshot: `SnapshotManager`, builder, pool, queue | reference-counted snapshots | build, publish, acquire, release | Replication, Persistence |
| 450 | Replication: `ReplicationManager`, worker, encoder, queues | baseline and priority queues per client | register client, deltas, packets, acknowledge | Snapshot, (Networking, not wired) |
| 500 | Persistence: `SaveScheduler`, `PersistenceQueue`, `PersistenceWorker`, save stores | pending requests, stored saves | schedule, publish, write, commit, retry | Snapshot, disk |
| startup | Save/load: `SaveReader`, validator, migration, `RecoveryPipeline` | none between runs | read, parse, validate, migrate, restore | save store, engine |
| 700 | Plugins: `PluginHost`, `PluginManager` | registry, instances, subscriptions, isolated plugins | bind, start, dispatch, isolate, unload, shut down | read-only surface |
| 900 | Networking: `HostServer`, `ConnectionTable`, `Handshake`, `Session`, `MessageRegistry`, UDP transport | connections, queues, members | the tick: poll, accept, receive, time out, advance handshakes, heartbeat, drain; stop | peers, Players |
| - | Configuration | three ini files, one record per section | parse, read with defaults, validate | every part, at start |
| - | `Reliability`, `Fragmentation`, `PacketQueues` | sequence windows, fragments | send, acknowledge, reassemble | used by nothing but their tests |
| end of frame | Prediction: `ClientPresentationDriver`, `PredictionManager`, `InterpolationManager` | inputs, states and frames in ring buffers, the confirmed and the shown state | poll, predict, reconcile, replay, interpolate | host frames; the host itself presents in identity mode |

What makes each part correct:

* **Networking**: the three keyed stores name the same connections; members are
  the established connections; a slot is never held past its budget; nothing is
  sent after a Bye; every membership is reported once and in order.
* **Players**: one player per connection for life; no entity without a player;
  suspended means unbound; a member that leaves leaves no live player behind.
* **World/Transition**: a generation never resolves to another entity; the set
  of online entities converges to what the bubble wants.
* **Snapshot**: a snapshot a consumer holds is never recycled; a consumer sees
  the latest published one.
* **Persistence**: a request is queued, in hand, written, or refused by a full queue; a
  crash leaves the last committed save readable; recovery finds one.
* **Replication**: what a client was sent is what its baseline says it knows; an
  acknowledgement counts for the client that gave it and no other.
* **Composition root**: whatever step of a start fails, services stand on what they
  need, and the engine never reaches a subscriber that is gone or not yet up.
* **Lua and plugins**: a fault stays with whoever committed it; the books kept of a
  script agree; only a plugin that is initialised and sound hears events.
* **Prediction**: an input counts exactly once in what is shown, whatever becomes of
  the frames; the others never run back in time.

The hazards of the code, each at its line and with the property that covers it,
are in `PROJECT.json`.

## 2. Plan

Modules, in the order in which they matter to the running server.

| module | models | state |
|---|---|---|
| `Maps` | functions with a changing domain, as `std::map` | done |
| `SessionMembership` | abstract: who is a member and what was reported | done |
| `HostServer` | the networking tick and `Stop` | done; all of its safety proved |
| `PlayerManager` | player records, bindings and entities | done |
| `DedicatedServer` | the frame: `HostServer` and `PlayerManager` composed | done, proved |
| `Persistence` | scheduling, queue, flush, the file transaction, crash and start | done, proved |
| `SnapshotRegister` | abstract: one latest snapshot, leases that do not change | done |
| `Snapshots` | the reference-counted pool and its readers | done, proved |
| `EntityTransitions` | entity feed, registry, bubble, A-Life switching | done, proved |
| `Recovery` | read, validate, migrate and restore a save | done, proved |
| `Replication` | per-client baselines, interest, queues, caps, acknowledgements | done, proved |
| `Configuration` | the ini files and the settings read from them | done |
| `Services` | `ServiceRegistry`, `FrameDispatcher`, `ModuleRegistry` | done |
| `World` | `WorldManager`: lifecycle, clock, context | done |
| `Bootstrap` | the composition root over the last three: start, frames, teardown | done; all of its safety proved |
| `Scripting`, `Plugins` | the Lua layer and the plugin framework | done |
| `Extensions` | both as the host runs them | done, proved |
| `Prediction` | the client's presentation under an unreliable stream of frames | done, proved |

`MC*` modules give the constants of a specification their finite values. No module
is planned for `Reliability`, `Fragmentation` and `PacketQueues`: no code of the
program calls them, so they have no behaviour to relate to anything.

Every safety property that a passing run checks is a theorem; what is only
model-checked is the liveness.

## 3. The modules and the code

`PROJECT.json` maps every definition to its lines. What follows is how to read
the state and the actions.

**HostServer** (`net/HostServer.cpp`, `ConnectionTable.cpp`, `Handshake.cpp`,
`Session.cpp`, `MessageRegistry.cpp`, `adapters/PlatformSockets.cpp`). One frame
is the player tick (250) followed by the networking tick (900). `stage` names the
loop that runs and `todo` the ids it has still to visit, because
`HostServer::Tick` iterates over stores that `Accept` and `Disconnect` change.
`table`, `conns` and `endpointToConn` are the three keyed stores; `members`,
`deltas` are the session and the queue its observer fills. Ticks are ages that
saturate one past the largest budget. The network loses, repeats, delays and
reorders: at any poll any peer delivers any kind of datagram in `Traffic`. A
handshake or message payload is its kind; "bad" kinds stand for payloads the code
refuses. The drain may end early, as when the byte budget of a tick is spent or the
socket would block; what it leaves is sent by a later tick, and `MaxBacklog`
bounds how much of it an outbox may hold at that point.

**PlayerManager / DedicatedServer** (`player/*.cpp`). A player record has a
lifecycle, a binding and a respawn delay; the engine's spawn may be refused
`MaxSpawnFailures` times. The two subsystems meet in two places, and both are
joint actions: the delta queue (`ApplyJoined`, `ApplyLeft` at 250) and the message
handlers, which run inside the receive loop (`HandleJoinRequest`,
`HandleRespawnRequest` at 900).

**Persistence** (`persistence/*.cpp`, `adapters/PlatformSaveStore.cpp`,
`core/Bootstrap.cpp`). `Update` is a frame up to the flush; `BeginCommit`, the
write and the rename are steps of their own because the process can die between
them. `files` and `temps` outlive a crash, everything else restarts. A save is its
id, the run that wrote it and the tick of its snapshot. `Start` enumerates the
directory as the store does and takes the highest id, as `Bootstrap` does. A save that
fails goes back to the queue each time; the settings for retries and their delay are
never read, so the model has none (section 6).

**Snapshots** (`snapshot/*.cpp`). A tick is one action, because nothing runs
between acquiring a buffer and publishing or abandoning it: `TickExhausted`,
`TickAborts` (a capture that fails at any of its stages) and `TickPublishes`.
Readers acquire and release at any time and may hold across ticks.

**EntityTransitions** (`world/BubbleManager.cpp`, `TransitionManager.cpp`,
`EntityRegistry.cpp`, `adapters/EngineAdapters.cpp`). The three ticks of a frame
are three actions with nothing in between; the engine acts between frames. The
A-Life object of an id is external: alive or not, online or not, and the two
switch flags the gateway sets. Its client object, which is all the feed and the
bubble see, comes and goes with a lag. Distances are inside, in the band or
outside.

**Recovery** (`saveload/*.cpp`). The file is its verdict: absent, damaged in one of
the ways the reader distinguishes, or whole with records. `loaded` is the save in memory,
`content` what the file holds. Migration steps are registered before recovery starts; each
rewrites `loaded` in place, into any of `Rewritten` or not at all, and nothing
validates the result. Each record handed to a sink is a step, and a sink may refuse it.

**Replication** (`replication/*.cpp`). A frame publishes
a snapshot or leaves the last one, moves the bubble and runs one worker pass over
every client; between frames clients register, move, acknowledge in any order and
go. A tracked state of an entity is a place and a velocity, and an entity is within the
interest radius of a focus when both are one place. A change of either makes a record,
but a record on the wire (`OnWire`) has no velocity. The pass is one action: nothing runs
inside it, and clients meet only in the scratch queues. `view` is history: what a
client knows that applies every packet assembled for it. `acks` are the acknowledgements
on their way, which arrive in any order, any number of times and after their client has
gone; `said` is which of them a registered client has given. `whole` are the clients no
record of whose the queue or the packet left out. Their view is their
baseline and their world, but for the velocities; for the others the code gives no such promise (section 6).

**Configuration, Services, World, Bootstrap** (`config/`, `core/*.cpp`,
`world/WorldManager.cpp`, `FromConfig` of every section). An ini file is a sequence
of lines, each of its kind; a value is what `GetInt`, `GetBool` and `GetString`
understand of it. `StartUp` and `TearDown` are the tables of steps the composition
root takes, in the order of the code, and `at` is the step it comes to. Every step
that can be refused, by a registry, by a setting or by the operating system, may
be; a start that fails goes on with `DestroyRuntime` as `Shutdown` does.
`initialized` are the services that are up; `cached` and `held` are what the
Runtime keeps a pointer to and what exists of bridge, driver and feed. A frame is
`Dispatch`, one subscriber after the other, and then the client presentation. `Feeds` and
`LateFeeds` list who reads what another subscriber wrote, in an object both were
constructed with or in the engine: nine read what was written in the same frame; players
read the membership changes of networking, the snapshot the effects of plugins, and the
entity feed the switches of the transition layer, all of the frame before.
`Pause` and `Resume` have no caller in the program; the model lets the engine call
them. A file that is missing is created with its defaults, which a second start reads.

**Scripting, Plugins, Extensions** (`lua/*.cpp`, `plugin/*.cpp`,
`adapters/PlatformScriptStore.cpp`). `Extensions` starts the runtime, loads the
scripts, starts the plugins, ticks scripts (375) before plugins (700) in every
frame and takes them down in the reverse order; between frames the managers' public
operations bind, publish, disable, unload and reload. A script file is what the
loader finds out about it; the interpreter and the plugins are external, and each
call of them may be answered with a fault. `called` and `told` are the calls of the
last step with their answers. Scripts and plugins that are registered but bound to
nothing are what the shipped program has: it binds no callback and no plugin itself.

**Prediction** (`prediction/*.cpp`). A pass of the client polls and records input,
drains the frames that arrived, reconciles with each, and presents: it replays what
is not confirmed and interpolates the others. Positions are whole
numbers on a line and an input is a displacement, `Move`; the run gives every input one
that no other has, so that a position tells which inputs are in it. The host is external: it processes inputs in
order, may move the player by `Shoves`, and its frames come late, twice, in any
order or not at all. The order of players inside a frame changes with `Scenes`.

**Abstract specifications.** `SessionMembership` says that connections join
once, leave once, and that each is reported in that order; `HostServer`
implements it (`ImplementsMembership`, in the run). `SnapshotRegister` is one
latest snapshot that only moves forward, and leases whose content never changes
while held; `Snapshots` implements it (`ImplementsRegister`, in the run and
proved).

## 4. Runs

| run | states | what it shows |
|---|---|---|
| `HostServer_Liveness` | 148,939 | every handshake is decided, a silent peer is removed, every membership change is reported |
| `DedicatedServer_Safety` | 1,595,612 | routing stores agree at every point of every loop; members are exactly the connections whose handshake is complete; nothing follows a Bye; refinement of `SessionMembership`; with joins by delta and by message, deaths, respawns and refused spawns: registry, mappings and engine agree, a connection has one player for life, and a member that leaves leaves none behind |
| `Persistence_Safety` | 830,998 | saves are whole and kept through crashes between any two steps; a start finds one; requests are in exactly one place, also when the queue overflows |
| `Persistence_RetriesEnd` | violation | a save that fails is retried in every frame for ever |
| `Snapshots_Safety` | 7,141 | counts, sealing, order of publication, refinement of `SnapshotRegister`, recovery from exhaustion |
| `EntityTransitions_Safety` | 6,549 | registry, bubble and transition layer agree with the engine; switches settle |
| `Recovery_Safety` | 346,160 | only sound saves are applied, players after their entities, the report is true, whatever migration steps make of the save |
| `Replication_Safety` | 151,666 | the packets of a client say what its baseline says of places and versions, whatever the cap did and whoever came before; what a client is recorded to have acknowledged it has said itself |
| `Replication_LeftoversStayQueued` | violation | a record a packet had no room for is gone after the next pass |
| `Bootstrap_Safety` | 162,974 | services stand on what they need, the engine reaches the living, the world has the first turn and listed readers come after their writers, or before them if they read a frame late; settings fit what the modules assume, every call returns |
| `Extensions_Safety` | 944,336 | the books of the scripts agree, faults stay where they happen, only initialised plugins hear events |
| `Prediction_Safety` | 1,211,885 | every input counts once, the others never run back in time, the own body is kept |

Bounds, and why they are enough:

* *HostServer* is checked for safety inside `DedicatedServer_Safety` and alone for liveness.
  Two peers and two slots give every pair of connections that can meet in one loop (one
  ends while the other is visited, or takes the freed slot), with the table full and not
  full; two datagrams per poll give every pair of orders inside one receive loop. Budgets of one tick make every timeout
  reachable next to every other event. `HelloBad`, `ResponseBad` and `Echo`
  fail a handshake in each of its states, so that the first stands for all three in the
  safety run. Pings, unassigned ids and headers that do not decode touch nothing the safety
  properties read beyond what a refused join request does, and are in the liveness run.
  That run has one slot for two peers, so slots are contended, and a backlog of one packet,
  so that every outbox carries a packet from one tick into the next; the safety
  properties do not read the outboxes, and their run has no backlog.
* *DedicatedServer*: the same two peers, two player slots and one refused spawn.
* *Persistence*: a queue of two with its watermarks at two and one, two requests beside
  the autosaves and two runs of the program. Three requests are made before a snapshot is
  published, so that the queue overflows and the third is refused, and one run writes over
  the ids of another. A retry never meets a full queue, since the flush is
  synchronous and the slot was freed by the same request; `RequestsAccounted` says so. The run for retries has one
  request, no autosave and a single run of the program. The clock stops
  at `MaxTick`; frames do not. The safety half is proved for all bounds.
* *Snapshots*: three buffers and three readers, so that readers can hold a
  superseded buffer, the published one and one more at once and exhaust the pool;
  four ticks turn every buffer over. No symmetry, since the run checks liveness.
* *EntityTransitions*: no handler looks at two ids together, so one id with two
  objects after each other and three records covers what two can meet; the proofs
  hold for any set of ids.
* *Recovery*: two entities and one player; versions up to four with target three, so
  that chains of steps, gaps and overshoots exist. A step may leave the save alone or make
  of it a save that lost its records, one whose player names an entity that is gone, or
  one that is whole; the proofs hold for any set of results.
* *Replication*: two entities, two places and two velocities, and two connections on
  one slot, so that one client leaves and the other, or the same again, comes after it,
  while its baseline and its acknowledgements on the way are still there. A cap of one entity makes a pass
  skip the client; queues of one and packets of at most two records leave records out.
  Places, velocities and connections are symmetric. A turn reads nothing another client's
  turn writes but the scratch queues, which it clears first; two clients at once, which
  with acknowledgements would take some two million states, are left to the proofs: they
  hold for any number.
  The run for the leftovers has packets of one record.
* *Bootstrap*: server files with every key of the networking, transport, snapshot,
  persistence and world sections at its edges, malformed values, and the pairs of keys
  a rule relates; two starts, so that the second meets what the first left; two frames,
  so that one meets what the other left.
* *Extensions*: two scripts with two callbacks, so that one faults with another callback
  of its own and one of a neighbour behind it; three plugins, of which two are
  accepted, one of these made for an older host, and one asks for an API that is not on
  offer; three bindings, so that one owner has two.
* *Prediction*: buffers of two and three passes, so that every buffer wraps; a replay cap
  and a threshold of one, so that both are exceeded.

Seven families say `CHECK_DEADLOCK FALSE`. In `Persistence` the process may stop after its
last bounded run, in `Snapshots` nothing can happen once the clock is at its bound
and nothing was ever published, in `Recovery` the pipeline ends, in `Bootstrap` the last
start is over, in `Extensions` the host is down, in `Replication` the manager is shut
down, and in `Prediction` the passes are bounded.

Fairness:

* *HostServer*: weak fairness of the frame loop only. The engine calls the
  dispatcher every frame and each loop of a tick ends. Nothing is assumed of the
  network, and `Stop` need not happen.
* *Snapshots*: every reader releases what it holds; in the code they release in the
  tick in which they acquire (`ReplicationManager::Update`,
  `PersistenceManager::Update`).
* *Persistence*: in `Persistence_RetriesEnd` frames, captures and the flush go on; nothing
  is assumed of the disk, which may refuse for ever.
* *EntityTransitions*: the frame's three ticks, and strong fairness of A-Life's
  update of an object pinned to one side (it visits its objects in a round).
* *Bootstrap*: weak fairness of the next step as a whole. `Initialize` and `Shutdown` are
  sequential code: once called, they run. Nothing makes the engine call them.

## 5. Proofs

| module | theorems |
|---|---|
| `DedicatedServer_proofs`, of `HostServer` | `TypeInvariant`, `Routing`, `Members`, `Refinement`, `Farewell` |
| `DedicatedServer_proofs`, of the composition | `ServerImplementsHost`, `Consistent`, `Suspended`, `OnePlayer` |
| `Saves_proofs`, of `Persistence` | `Requests`, `WholeSaves`, `Kept`, `Recovered` |
| `Saves_proofs`, of `Recovery` | `SoundSaves`, `PlayersLast`, `Report` |
| `Snapshots_proofs` | `TypeInvariant`, `ReferenceCounting`, `OnlySealedIsSeen`, `Ascent`, `Refinement` |
| `EntityTransitions_proofs` | `TypeInvariant`, `CurrentRecords`, `BubbleIsAnswered`, `OverrideHolds`, `FreshHandles` |
| `Extensions_proofs` | `BooksAgree`, `Contained`, `Contract` |
| `Replication_proofs` | `OwnAcks`, `WholeClients` |
| `Bootstrap_proofs` | `Supported`, `Reached`, `Fresh`, `Fit` |
| `Prediction_proofs` | `CountedOnce`, `TimeAdvances`, `BodyKept` |

They hold for every value of the constants under the named assumptions of the
modules: `HostServer` a finite set of peers and positive capacities and budgets;
`Persistence` what its settings validate and nothing of the bounds; `Snapshots` at
least two buffers, finitely many readers; `EntityTransitions` the two bounds positive,
any set of ids; `Extensions` ids that are numbers, any manifests; `Recovery` that the
target of a migration and the build's versions are versions, and that a step makes a
save of a save; `Replication` the queue
depths and caps its configuration validates; `Bootstrap` a width of unsigned settings
above 65536, and any content whatever of the configuration files; `Prediction` positive
buffers and cap, any delay and threshold, and displacements that are whole numbers, equal
ones included. Its host is held to what it processes: no frame acknowledges an input that
was not recorded.

* **Routing.** `RoutingConsistent` alone is not inductive: a loop may visit an id
  that is gone, and `Accept` may be given an endpoint that is already routed.
  `TodoIsStored` (the ids still to visit in the loops that rely on it are in the
  table) and `EndpointsAreFresh` (an accepted endpoint has no connection yet, which
  follows from one endpoint per address) close it.
* **Members and Refinement.** `MemberInv` adds to `MembersAreConnected` that an id was
  given out before it is admitted and that a stored connection once admitted is still
  a member; a table with one connection that is no member then has room for it, by a
  count, so that `Admit` is never refused where its result is not looked at. `DeltaInv`
  is about positions in the delta queue: a connection's Joined comes before its Left,
  each is there at most once, and of a member that joined, or departed, and was not
  yet told of the report is queued. With it every step of
  the host is a step of `SessionMembership` or a stutter.
* **Farewell.** `FarewellInv`: an address that was sent a Bye is known, is not routed and
  is not waiting to be accepted; hence no loop reaches it again.
* **DedicatedServer.** `ServerImplementsHost` comes first, `ServerSpec => Spec`: the players
  never touch the host's state, so that all of the above holds of the composition.
  `PlayerInv` then relates both: a bound player is bound to the connection it was made
  for, whose leave was not applied, and an unbound one is of a connection whose leave
  was. With `DeltaInv` that gives `Suspended`.
* **Persistence.** `Accounts`: every id emitted in this run is queued, in hand, written or
  refused; what is queued, in hand or done is disjoint. `FlushInv` says where the flush stands and that a slot stays free for the request in hand. The id in hand was not
  written in this run, so that a file it replaces is of an earlier one (`Kept`). `DiskInv`: what is under a save's name is whole and was committed, and whatever was
  committed has a whole file under its id; the highest of the ids found exists because
  `<` is well-founded on them.
* **Snapshots.** The inductive invariant is
  `TypeOK /\ CountsExact /\ PoolAgrees /\ SeenAreSealed /\ BuffersArePast`.
  `CountsExact` is what makes a free slot unseen, so that building into it changes
  nothing a reader has; the counting steps are cardinality lemmas. `PoolAgrees` is
  the counter `m_inUse`, needed for the pool's own bound. `BuffersArePast` says that
  what is built next is newer than all buffers and gives `Ascent`. `Refinement`
  maps every tick to a step of `SnapshotRegister` or to a stutter.
* **EntityTransitions.** The invariant has three parts, proved separately.
  `RegistryInv`: a record whose object left is a queued destroy, which needs that
  the feed observes destroys before its first record exists. `BubbleInv`: what the
  bubble last wanted is meant online, as a statement about `online` outside and
  about `previous` inside the frame. `CommandInv`: a command never reaches a later
  object of its id, and an object commanded online is pinned there.
* **Extensions.** `ScriptBooks` and `PluginBooks` are the three books of each side;
  `QuietOutside` says that nobody is called outside a frame. `Contained` needs that a
  script's first faulting callback exists, again by well-foundedness. `Contract` is about
  events and about what is left initialised; who is told to shut down is not in it, since
  the code shuts down instances that never ran (section 6).
* **Recovery.** The records of a save are the concatenation of five phases, and the
  invariant `Place` says how many records lie before the phase and the record the
  pipeline stands at: what was applied is that prefix, record by record, so that no player
  comes before a record of its entity, and where the migration has left the save as it was
  read, and checked, the entity is in the phase before (`PlayersLast`); and a refusal leaves a proper prefix
  (`Report`). That the walk of the migrator arrives where its dry run says it does needs
  the recursion of `CanMigrate` unfolded by one step. Its steps ascend and versions are
  bounded, so that a function that satisfies the recursion exists; were there none, there
  would be a least number of versions for which there is none, and one more step extends
  it.
* **Replication.** `RegistryInv`: the ids given out lie below `nextClientId`, and
  so do those of acknowledgements on their way, so that none is ever counted for a client
  that came later (`OwnAcks`). `WholeClients` is about what a client makes of the packets
  of a turn. A queue of removals, spawns and moves that
  was neither cut by its depth nor by the packet names every entity at most once and the
  three kinds name different ones; applied in either order of the two queues it turns the
  old baseline into the new one (`AppliedIsNext`). `Told` says that the client's view is
  its baseline without the velocities, and `Versions` that a version is at most `tick`, the frames in which the world
  moved, and equal to it only for what is published where the baseline has it.
* **Bootstrap.** The table of start-up steps is evaluated once, in the lemmas `Places`,
  `Wiring` and `Order`; all that follows uses what they say of it: where each service is
  registered, with which key each subscriber subscribes, which step is which. `Begun` says that what a
  start has built is what the steps before `at` build. `Ordered` says that the services
  that are up are the first ones in the order of registration and that every callee is
  registered before its caller, whether or not it is named as a dependency. It holds in every stage, also
  half way down, and gives `Supported`; it is where the order of the code is used. `Bridged` is
  the state the frame bridge stands for: everything registered, initialised and
  subscribed, and the clock one behind the frame until the world's turn. It gives `Reached` and
  `Fresh`: the world first, nine listed readers after their writers and three before; a
  subscriber's position is determined by its key because the dispatcher
  inserts in ascending order (`SubscribeEffect`). `Accepted` keeps that a section once
  accepted stays as it was read; a number of an accepted section is its default or lies
  within its bounds, so that the cast to 32 bits loses nothing of it, which gives `Fit`.

* **Prediction.** `RingInv`: the ring of inputs is the end of the recorded ones, past the
  acknowledgement that is confirmed. It is kept because acknowledgements that regress are
  refused, and because dropping up to one acknowledgement and then up to a later one is
  dropping up to the later (`PendingTwice`). `ConfirmedInv` says that what is confirmed is
  what one frame said, of the body that is shown. Between two passes what is shown is the
  replay of the ring from there (`ShownOwn`); it ends where the sum of the displacements
  carries the confirmed position (`Replays`), which gives `CountedOnce`. Both the replay
  and the sum are recursions over the ring; `Iteration` says that such a recursion has a
  solution, and `Upward` carries a set of numbers from 0 to the length. `ShownOthers`
  says that all the others are shown at one time, which is not beyond the last frame and
  not beyond both the first frame and the target; frames and target only move onwards
  (`Pushed`), and the next time shown is the target held between the two ends
  (`Interpolated`).

Only model-checked: all liveness properties (`HandshakeDecided`,
`SilentPeerRemoved`, `MembershipReported`, `ExhaustionEnds`,
`SwitchesSettle`, `CallsReturn`), since fairness is outside the prover's reach.

Two things recur in the proofs. A recursion, or the choice of a first or last
element, is unfolded by way of a least counterexample, because an induction over the
naturals cannot be cited for a formula of one's own. And each inductive
invariant was checked on the states of its run before it was proved. `Saves_proofs`
and `DedicatedServer_proofs` each hold the proofs of two neighbouring components.

## 6. Where the code and its documents differ

Two differences are shown by a run:

* `PersistenceConfiguration.h:35-40` and `docs/Persistence.md:125-126` promise that a
  failed save is retried at most `max_retries` times, after a delay of
  `retry_backoff_ticks`, and is then abandoned. Both are parsed
  (`PersistenceConfiguration.cpp:54`, `:58`) and never read: the save goes back to the
  queue every time and is tried again in the next frame (`Persistence_RetriesEnd`).
* `docs/Replication.md:79` says that records which do not fit a packet "remain queued for
  the next packet". The queues are scratch queues of one pass: the next clears them, while
  the baseline has advanced to the whole current set (`ReplicationWorker.cpp:126`), and
  the record is lost until its entity changes again (`Replication_LeftoversStayQueued`).

Others were met while modelling and have no run, because the model would only
restate them. Networking and players:

* A data message is dispatched before its connection's handshake is complete
  (`HostServer.cpp:210`), so a join request can bind a player to a connection that goes
  before it is ever a member; no Left follows, and the player stays bound, where
  `docs/PlayerLifecycle.md:50` says that a disconnect suspends it.
* Nothing calls `CloseEndpoint` (`PlatformSockets.cpp:213`): endpoints and the addresses
  they were minted for are kept until the transport is destroyed
  (`docs/Sprint-006-Architecture.md:80`).
* `HostServer::Stop` closes the socket before it sends its Byes, and an unbound
  transport sends nothing (`HostServer.h:41`).
* `reconnectRetentionTicks` is never read; a suspended record stays for ever and
  keeps its place in the registry (`PlayerConfiguration.h:29-31`).
* Joins and respawns by message change players at 900, while
  `docs/PlayerLifecycle.md:46` says "All mutation happens at 250".

World and saves:

* An intent is not dropped when its entity leaves (`TransitionManager.cpp:128`;
  `docs/Sprint-005-Architecture.md:313` says "drop intent to untracked"): the next
  entity of that id inherits it, and one that inherits an online intent is not switched
  while the bubble holds it. The properties are about intents by id and do not see this.
* `TransitionManager.cpp:167-168` promises that `EntityMissing` and `Failed` are
  retried; no code retries.
* Bubble candidates are client objects, so an entity switched offline is not seen
  again until the engine makes one for another reason (`docs/BubbleManager.md`).
* What migration steps make of a save is not validated again (`SaveMigrator.cpp:87`,
  `RecoveryPipeline.cpp:54-70`): a player may then name an entity the save no longer has,
  where `docs/SaveLoad.md:80` says that a corrupted save can never corrupt the world. The
  program registers no steps.
* A level unload drops queued destroys without unregistering their records.
* `docs/Sprint-005-Architecture.md:318` promises convergence whenever bubble and
  engine disagree; the read-back converges pending states only.
* A shutdown save is accepted and never written: it waits for a later frame
  (`PersistenceTypes.h:62`, `PersistenceManager.cpp:20-23`).
* Recovery takes the highest id for the newest save (`Bootstrap.cpp:1107-1108`), while
  ids restart in every run and a retry keeps its id. It tries that one only: one that
  was committed and fails validation has no fallback.
* A save of an older world, schema or persistence version is restored as it is: the
  pipeline asks the migrator for the version of the format only
  (`RecoveryPipeline.cpp:57`, `docs/SaveLoad.md:85-88`).
* `SaveLoadTypes.h:44` calls `PartialRecovery` rolled back and `Bootstrap.cpp:1095`
  speaks of a world left intact; applied records stay applied. The shipped sinks
  refuse nothing.
* `IsBackpressured` is never asked; `RequestSave(Manual)` waits behind the two
  triggers above it.
* `SaveReader` reserves the record count of the file before its checksum is known.

Replication and prediction:

* Velocity is compared (`DeltaEncoder.cpp:20-25`), queued and kept in the baseline
  (`docs/Replication.md:67`), and a record on the wire has no field for it
  (`ReplicationPacketBuilder.cpp:105-112`, `docs/Replication.md:79`): an entity that only
  changes its velocity costs records that tell the client nothing.
* A client whose delta is over the cap is skipped with its baseline unchanged, and the
  next delta is at least as large while the entities stay.
* A frame older than the last, with an equal acknowledgement, is dropped by the
  interpolation buffer and reconciled with all the same; the confirmed state then goes
  back to it.
* `Reconcile` compares with a prediction that already holds the input of this pass, so an
  ordinary new input counts as a correction (`PredictionTypes.h:61`). `StateBuffer` is
  not rewritten with corrected states and nobody reads it.
* The client's render tick is its own count and not related to the host's: one that joins
  late shows the oldest frame it has, where `docs/Prediction.md:82` says
  "`interpolation_delay_ticks` behind the newest". Until a player's body is known the
  first player of a frame is taken for it, which may be somebody else's.

Composition root, configuration, extensions:

* A malformed integer silently becomes its default, where `NetworkingConfig.cpp:19` says
  "Present-but-invalid => error"; out-of-range values are refused. A heartbeat of 999 ms
  under a timeout of 1000 ms is accepted, and both are 63 ticks.
* `[lua] enabled`, `max_scripts`, its budgets, `validate_on_load`, `strictIntegrity`,
  `migrationEnabled`, `maxGenerations`, `maxPlugins` and the snapshot `queue_depth` are
  parsed and never used.
* A start that fails after `Bootstrap.cpp:725` and before the frame bridge destroys the
  world while it is subscribed, which `FrameDispatcher.h:20-22` rules out; no frame can
  reach it. The adapters said to be declared before the registries
  (`Bootstrap.cpp:211`) are declared after them.
* `Dependencies()` of the networking service does not list the transport, the session or
  the message registry it calls.
* `PlatformScriptStore.cpp:97` leaves a script's API version at 0 for "later steps" to
  resolve, and none does; under the default `strictApiVersion` (`LuaConfiguration.h:49`)
  the validator refuses every script found on disk.
* The comment in `PluginHost.cpp:167` has `ShutdownAll` shut down the plugins that ran or
  were isolated; one that was bound after `Startup` is `Loaded`, which the lifecycle table
  accepts (`PluginLifecycle.cpp:38`), and is shut down without having been initialised.
* A `LuaManager::Init` that fails half way leaves a state that `Shutdown` does not destroy.
  A reloaded script has none of its callbacks.

## 7. Not modelled

`PROJECT.json` lists every part with the reason. In short:

* `Reliability`, `Fragmentation`, `PacketQueues` and `PacketHeader` are used by their tests
  only; `SaveManager`, `SaveWriter` and the in-memory stores have no caller in the
  program.
* Of `Replication`, the player delta, the priorities, the statistics and the gate of
  `ReplicationUpdate`. No code of the program registers a client, routes an
  acknowledgement or sends a packet; the model lets the engine do so.
* Client mode is not wired into the composition root: the host presents in identity
  mode with a source that yields no frames. `Prediction` models the client on its own.
* Lifecycle states and event subscribers of `EntityRegistry` beyond what the feed drives,
  levels, reclaim of a suspended player (a stub in the session).
* Byte layouts, checksums, the characters of numbers, sockets, logging and diagnostics are
  abstracted to the outcomes their callers tell apart. Power loss is outside: the code
  does not synchronise a file before renaming it.
* The engine, the Lua interpreter and the code of plugins are external, and modelled by
  how the code uses them; the map marks them.
