----------------------------- MODULE Extensions -----------------------------
(***************************************************************************)
(* Scripting and Plugins as the composition root runs them: started once   *)
(* before the first frame, ticked in every frame, scripts at 375 and       *)
(* plugins at 700, and taken down in the reverse order.                    *)
(*                                                                         *)
(* Between frames the rest of the program may bind, unload, reload and     *)
(* publish events: the managers' public operations.                        *)
(***************************************************************************)
EXTENDS Scripting, Plugins

CONSTANTS
    MaxBindings   \* bound: bindings of callbacks and subscriptions, together

VARIABLES stage

vars == <<stage, scriptVars, pluginVars>>

Init ==
    /\ stage = "wired"
    /\ ScriptingInit
    /\ PluginsInit

Move(from, to) == stage = from /\ stage' = to

---------------------------------------------------------------------------
(* Start.                                                                  *)

\* Plugins are bound before Startup, or after it.
Bind(p) ==
    /\ stage \in {"wired", "running"}
    /\ BindPlugin(p)
    /\ ScriptsQuiet
    /\ UNCHANGED stage

StartLua ==
    /\ Move("wired", "lua")
    /\ LuaInit
    /\ UNCHANGED <<scripts, bindings, disabled, called, pluginVars>>

\* Scripts are loaded only if the runtime came up; a failure is not fatal.
LoadScripts ==
    /\ Move("lua", "scripts")
    /\ IF runtime.initialized
       THEN \E onDisk \in SUBSET Script : \E files \in [onDisk -> File] :
                LoadAllScripts(files)
       ELSE UNCHANGED scripts
    /\ UNCHANGED <<runtime, bindings, disabled, called, pluginVars>>

StartPlugins ==
    /\ Move("scripts", "running")
    /\ \E failing \in SUBSET Plugin : Startup(failing)
    /\ ScriptsQuiet

---------------------------------------------------------------------------
(* Frames, and the operations between them.                                *)

TickScripts ==
    /\ Move("running", "ticked")
    /\ ScriptTick
    /\ PluginsQuiet

TickPlugins ==
    /\ Move("ticked", "running")
    /\ PluginTick
    /\ ScriptsQuiet

Between(op) == stage = "running" /\ op /\ UNCHANGED stage

Bound == Cardinality(bindings) + Cardinality(subscriptions)

ScriptOperation ==
    \/ \E e \in Event, s \in Script, c \in Callback :
          Bound < MaxBindings /\ BindCallback(e, s, c)
    \/ \E s \in Script : Unload(s)
    \/ \E s \in Script, file \in File : Reload(s, file)
    \/ \E e \in Event \ {"OnTick"} : Dispatch(e)

PluginOperation ==
    \/ \E e \in PluginEvent, p \in Plugin :
          Bound < MaxBindings /\ Subscribe(e, p)
    \/ \E e \in PluginEvent \ {"OnTick"} : Publish(e)

OperateScripts == Between(ScriptOperation) /\ PluginsQuiet

OperatePlugins == Between(PluginOperation) /\ ScriptsQuiet

---------------------------------------------------------------------------
(* DestroyRuntime: LuaManager first, then ShutdownAll in reverse order.    *)

StopLua ==
    /\ Move("running", "stopping")
    /\ LuaShutdown
    /\ called' = {}
    /\ PluginsQuiet
    /\ UNCHANGED <<scripts, bindings, disabled>>

StopPlugins ==
    /\ Move("stopping", "plugins down")
    /\ PluginShutdown
    /\ ScriptsQuiet

StopScripts ==
    /\ Move("plugins down", "down")
    /\ ScriptShutdown
    /\ UNCHANGED <<runtime, scripts, bindings, called, pluginVars>>

Next ==
    \/ \E p \in Plugin : Bind(p)
    \/ StartLua \/ LoadScripts \/ StartPlugins
    \/ TickScripts \/ TickPlugins \/ OperateScripts \/ OperatePlugins
    \/ StopLua \/ StopPlugins \/ StopScripts

Spec == Init /\ [][Next]_vars

---------------------------------------------------------------------------
(* Properties.                                                             *)

TypeOK ==
    /\ stage \in {"wired", "lua", "scripts", "running", "ticked", "stopping",
                  "plugins down", "down"}
    /\ DOMAIN scripts \subseteq Script
    /\ bindings \subseteq Event \X Script \X Callback
    /\ disabled \subseteq Script
    /\ DOMAIN plugins \subseteq Plugin /\ isolated \subseteq Plugin
    /\ subscriptions \subseteq PluginEvent \X Plugin

\* ScriptManager's three books agree until the shutdown: the scripts it has disabled
\* are exactly those the registry calls Failed, and no callback stays bound to a
\* script that is gone (ScriptManager.cpp Disable, Unload, Reload).
ScriptBooksAgree ==
    /\ TypeOK
    /\ stage # "down" =>
          /\ disabled = {s \in DOMAIN scripts : scripts[s] = "Failed"}
          /\ \A b \in bindings : b[2] \in DOMAIN scripts

\* A fault costs the script, or the plugin, that committed it and nobody else: it is
\* called no more, in this event or a later one, until it is loaded again, and
\* whoever stays sound hears every event it is bound to.
FaultsAreContained ==
    [][/\ \A x \in called' : ~(x[1][2] \in DOMAIN scripts /\ scripts[x[1][2]] = "Failed")
       /\ \A x, y \in called' :
             (x[1][2] = y[1][2] /\ ~x[2]) => y[1][3] <= x[1][3]
       /\ TickScripts =>
             \A b \in CallbacksFor("OnTick") :
                scripts'[b[2]] # "Failed" => <<b, TRUE>> \in called'
       /\ \A x \in told' : plugins[x[1]] # "Failed"
       /\ TickPlugins =>
             \A p \in SubscribersFor("OnTick") :
                (p \in DOMAIN plugins /\ plugins'[p] = "Active" /\ p \in DOMAIN instances)
                    => <<p, TRUE>> \in told']_vars

\* IPlugin: an instance hears events only between an Initialize it answered with Ok
\* and its Shutdown, one that refused is never active, and when the host is down
\* none is left initialised.  Of who else is told to shut down this says nothing.
PluginContract ==
    [][/\ \A x \in told' : instances[x[1]] = "initialized"
       /\ \A p \in DOMAIN plugins' : plugins'[p] = "Active" => instances'[p] = "initialized"
       /\ stage' \in {"plugins down", "down"} =>
             \A p \in DOMAIN instances' : instances'[p] # "initialized"]_vars
=============================================================================
