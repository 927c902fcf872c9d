------------------------------ MODULE Plugins ------------------------------
(***************************************************************************)
(* The plugin framework: the manifests registered in the program, the      *)
(* loader and its validator, PluginRegistry, EventBinding, FaultIsolation, *)
(* PluginHost and PluginManager.                                           *)
(*                                                                         *)
(* A plugin's instance is code of somebody else: what is kept of it is     *)
(* what it was told, and that each call may be answered with a fault.      *)
(***************************************************************************)
EXTENDS Integers, FiniteSets, Functions

CONSTANTS
    Plugin,    \* PluginIds: numbers, in the order of dispatch
    PluginEvent,
    Manifest,  \* of each plugin, its descriptor
    HostApi,   \* [plugins] version
    StrictApi, \* [plugins] strict_api_version
    Admitted   \* [plugins] enabled

ASSUME PluginsAssumption ==
    /\ Plugin \subseteq Nat \ {0}
    /\ "OnTick" \in PluginEvent
    /\ DOMAIN Manifest \subseteq Plugin
    /\ HostApi \in Nat /\ StrictApi \in BOOLEAN /\ Admitted \in BOOLEAN

VARIABLES
    plugins,        \* PluginRegistry: of each registered plugin, its state
    instances,      \* PluginHost: of each bound instance, what it was last told
    subscriptions,  \* EventBinding: (event, plugin)
    isolated,       \* FaultIsolation::m_disabled
    told            \* the plugins the last step told of an event, and their answer

pluginVars == <<plugins, instances, subscriptions, isolated, told>>

PluginsInit ==
    /\ plugins = [p \in {} |-> "Discovered"]
    /\ instances = [p \in {} |-> "created"]
    /\ subscriptions = {} /\ isolated = {} /\ told = {}

---------------------------------------------------------------------------
(* PluginLifecycle, PluginValidator and PluginLoader.                      *)

PluginLegal(state, action) ==
    CASE action = "Validate"   -> state = "Discovered"
      [] action = "Load"       -> state = "Validated"
      [] action = "Initialize" -> state = "Loaded"
      [] action = "Activate"   -> state = "Initialized"
      [] action = "Shutdown"   -> state \in {"Loaded", "Initialized", "Active", "Failed"}
      [] OTHER                 -> FALSE

\* No API is on offer in this composition, and the store never gives a plugin twice.
AvailableApis == {}

Valid(p) ==
    LET d == Manifest[p] IN
    /\ Admitted
    /\ d.minApi <= d.maxApi
    /\ p \notin DOMAIN plugins
    /\ HostApi >= d.minApi
    /\ StrictApi => HostApi <= d.maxApi
    /\ d.requires \subseteq AvailableApis
    /\ p \notin d.dependencies

LoadedPlugins == {p \in DOMAIN Manifest : Valid(p)}

---------------------------------------------------------------------------
(* PluginHost.                                                             *)

BindPlugin(p) ==
    /\ p \notin DOMAIN instances
    /\ instances' = [q \in DOMAIN instances \cup {p} |->
                        IF q = p THEN "created" ELSE instances[q]]
    /\ told' = {}
    /\ UNCHANGED <<plugins, subscriptions, isolated>>

Subscribe(event, p) ==
    /\ <<event, p>> \notin subscriptions
    /\ subscriptions' = subscriptions \cup {<<event, p>>}
    /\ told' = {}
    /\ UNCHANGED <<plugins, instances, isolated>>

\* FaultIsolation::Isolate: remembered as disabled, and Failed in the registry.
Isolate(faulted) == isolated' = isolated \cup faulted

\* Startup: LoadAll, then InitializeAll over what is bound, loaded and not isolated.
Startup(failing) ==
    LET loaded  == [p \in DOMAIN plugins \cup LoadedPlugins |->
                       IF p \in LoadedPlugins THEN "Loaded" ELSE plugins[p]]
        started == {p \in (DOMAIN instances \cap DOMAIN loaded) \ isolated :
                       PluginLegal(loaded[p], "Initialize")}
        Told(p) == IF p \in failing THEN "refused" ELSE "initialized"
    IN  /\ plugins' = [p \in DOMAIN loaded |->
                          IF p \in started
                          THEN IF p \in failing THEN "Failed" ELSE "Active"
                          ELSE loaded[p]]
        /\ instances' = [p \in DOMAIN instances |->
                            IF p \in started THEN Told(p) ELSE instances[p]]
        /\ Isolate(started \cap failing)
        /\ told' = {}
        /\ UNCHANGED subscriptions

SubscribersFor(event) == {p \in Plugin : <<event, p>> \in subscriptions}

\* Mutant: Invoke asks for a registered plugin only.
ReachableOnceLoaded(p) == p \in (DOMAIN instances \cap DOMAIN plugins) \ isolated

\* Invoke: bound, not isolated, registered and Active.
Reachable(p) ==
    /\ p \in DOMAIN instances
    /\ p \notin isolated
    /\ p \in DOMAIN plugins /\ plugins[p] = "Active"

\* DispatchEvent: one plugin's fault isolates that plugin.
Publish(event) ==
    LET invoked == {p \in SubscribersFor(event) : Reachable(p)} IN
    \E faulty \in SUBSET invoked :
        /\ Isolate(faulty)
        /\ plugins' = [p \in DOMAIN plugins |->
                          IF p \in faulty THEN "Failed" ELSE plugins[p]]
        /\ told' = {<<p, p \notin faulty>> : p \in invoked}
        /\ UNCHANGED <<instances, subscriptions>>

PluginTick == Publish("OnTick")

Ends(p) == p \in DOMAIN plugins /\ PluginLegal(plugins[p], "Shutdown")

\* ShutdownAll, and the faults are forgotten.
PluginShutdown ==
    /\ instances' = [p \in DOMAIN instances |->
                        IF Ends(p) THEN "shut down" ELSE instances[p]]
    /\ plugins' = [p \in DOMAIN plugins |->
                      IF p \in DOMAIN instances /\ Ends(p) THEN "Shutdown" ELSE plugins[p]]
    /\ isolated' = {}
    /\ told' = {}
    /\ UNCHANGED subscriptions

PluginsQuiet == told' = {} /\ UNCHANGED <<plugins, instances, subscriptions, isolated>>
=============================================================================
