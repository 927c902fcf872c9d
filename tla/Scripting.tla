----------------------------- MODULE Scripting -----------------------------
(***************************************************************************)
(* The Lua layer above the runtime seam: LuaManager, ScriptLoader and the  *)
(* validator, ScriptRegistry, EventBinding, and ScriptManager over them.   *)
(*                                                                         *)
(* A script file is what the loader finds out about it; a callback is an   *)
(* opaque id that, when invoked, may fault.                                *)
(***************************************************************************)
EXTENDS Integers, FiniteSets, Functions

CONSTANTS
    Script,      \* ScriptIds: numbers, in the order of the registry
    Callback,    \* CallbackIds: numbers
    Event,       \* of the ten events, those that are dispatched
    ApiVersion,  \* [lua] version
    Strict       \* [lua] strict_api_version

ASSUME ScriptingAssumption ==
    /\ Script \subseteq Nat \ {0} /\ Callback \subseteq Nat \ {0}
    /\ "OnTick" \in Event
    /\ ApiVersion \in Nat \ {0} /\ Strict \in BOOLEAN

VARIABLES
    runtime,   \* the VM behind the seam, and whether LuaManager finished
    scripts,   \* ScriptRegistry: of each registered script, its state
    bindings,  \* EventBinding: (event, script, callback)
    disabled,  \* m_disabled
    called     \* the callbacks the last step invoked, and how each answered

scriptVars == <<runtime, scripts, bindings, disabled, called>>

NoScripts == [s \in {} |-> "Unloaded"]

ScriptingInit ==
    /\ runtime = [state |-> FALSE, initialized |-> FALSE]
    /\ scripts = NoScripts
    /\ bindings = {} /\ disabled = {} /\ called = {}

---------------------------------------------------------------------------
(* LuaManager.                                                             *)

\* CreateState, LoadStandardLibraries and the seven RegisterFunction each may
\* refuse; what came before the refusal stays.
LuaInit ==
    \/ /\ runtime.initialized
       /\ UNCHANGED runtime
    \/ /\ ~runtime.initialized
       /\ runtime' \in {runtime, [state |-> TRUE, initialized |-> FALSE],
                        [state |-> TRUE, initialized |-> TRUE]}

LuaShutdown ==
    runtime' = IF runtime.initialized THEN [state |-> FALSE, initialized |-> FALSE]
               ELSE runtime

---------------------------------------------------------------------------
(* ScriptLifecycle, ScriptValidator and ScriptLoader.                      *)

\* The part of the table a script can walk here: nothing executes or suspends one.
ScriptApplied(state, action) ==
    CASE action = "Load" /\ state = "Unloaded"     -> "Loaded"
      [] action = "Initialize" /\ state = "Loaded" -> "Initialized"
      [] OTHER                                     -> state

\* What the loader may find behind a descriptor.
File == {"unreadable", "broken", "whole"}

\* The store cannot tell what API a file was written for.
FileApiVersion == 0

LoadOutcome(s, file, loaded) ==
    CASE file = "unreadable"                    -> "LoadFailed"
      [] s \in loaded                           -> "DuplicateScript"
      [] FileApiVersion > ApiVersion            -> "ApiIncompatible"
      [] Strict /\ FileApiVersion # ApiVersion  -> "VersionMismatch"
      [] file = "broken"                        -> "SyntaxError"
      [] OTHER                                  -> "Ok"

LoadedState == ScriptApplied(ScriptApplied("Unloaded", "Load"), "Initialize")

\* Enumerate gives some files, and each is loaded whatever becomes of the others.
LoadAllScripts(files) ==
    LET loaded == {s \in DOMAIN files :
                      LoadOutcome(s, files[s], DOMAIN scripts) = "Ok"}
    IN  scripts' = [s \in loaded \cup DOMAIN scripts |->
                       IF s \in loaded THEN LoadedState ELSE scripts[s]]

---------------------------------------------------------------------------
(* ScriptManager: binding and unloading.                                   *)

BindCallback(event, s, callback) ==
    /\ s \in DOMAIN scripts
    /\ <<event, s, callback>> \notin bindings
    /\ bindings' = bindings \cup {<<event, s, callback>>}
    /\ called' = {}
    /\ UNCHANGED <<runtime, scripts, disabled>>

\* Mutant: only one event's callbacks are unbound.
WithoutCallbacksOfTick(s) == {b \in bindings : b[2] # s \/ b[1] # "OnTick"}

WithoutCallbacks(s) == {b \in bindings : b[2] # s}
Enabled(s) == disabled \ {s}

Unload(s) ==
    /\ s \in DOMAIN scripts
    /\ bindings' = WithoutCallbacks(s)
    /\ disabled' = Enabled(s)
    /\ scripts' = Restrict(scripts, DOMAIN scripts \ {s})
    /\ called' = {}
    /\ UNCHANGED runtime

\* The old script is gone before it is known whether the new one loads.
Reload(s, file) ==
    LET others == Restrict(scripts, DOMAIN scripts \ {s}) IN
    /\ bindings' = IF s \in DOMAIN scripts THEN WithoutCallbacks(s) ELSE bindings
    /\ disabled' = IF s \in DOMAIN scripts THEN Enabled(s) ELSE disabled
    /\ scripts' = IF LoadOutcome(s, file, DOMAIN others) = "Ok"
                  THEN [t \in DOMAIN others \cup {s} |->
                           IF t = s THEN LoadedState ELSE others[t]]
                  ELSE others
    /\ called' = {}
    /\ UNCHANGED runtime

---------------------------------------------------------------------------
(* ScriptManager: dispatch.                                                *)

CallbacksFor(event) == {b \in bindings : b[1] = event}

\* The two tests DispatchEvent makes before it calls.
Skipped(s) == s \in disabled \/ s \notin DOMAIN scripts

\* Mutant: a fault is only seen by the next event.
InvokedDespiteFaults(event, faulty) == {b \in CallbacksFor(event) : ~Skipped(b[2])}

\* Callbacks are called in ascending order; a script's first fault disables it, so
\* that of its callbacks those up to the fault are called.
Invoked(event, faulty) ==
    {b \in CallbacksFor(event) :
        /\ ~Skipped(b[2])
        /\ \A f \in faulty : f[2] = b[2] => b[3] <= f[3]}

Disable(faulted) ==
    /\ disabled' = disabled \cup faulted
    /\ scripts' = [s \in DOMAIN scripts |->
                      IF s \in faulted THEN "Failed" ELSE scripts[s]]

DispatchScripts(event, faulty) ==
    LET invoked == Invoked(event, faulty) IN
    /\ Disable({b[2] : b \in invoked \cap faulty})
    /\ called' = {<<b, b \notin faulty>> : b \in invoked}
    /\ UNCHANGED <<runtime, bindings>>

\* The faults are whatever the callbacks report.
Dispatch(event) == \E faulty \in SUBSET CallbacksFor(event) : DispatchScripts(event, faulty)

ScriptTick == Dispatch("OnTick")

ScriptShutdown == disabled' = {}

ScriptsQuiet == called' = {} /\ UNCHANGED <<runtime, scripts, bindings, disabled>>
=============================================================================
