------------------------- MODULE Extensions_proofs -------------------------
(***************************************************************************)
(* Proofs about Extensions, for every set of scripts, callbacks, events    *)
(* and plugins, every manifest and every setting: the books of the script  *)
(* manager agree, a fault costs only who committed it, and only plugins    *)
(* that were initialised and not shut down yet hear events.                *)
(***************************************************************************)
EXTENDS Extensions, WellFoundedInduction, TLAPS

Stages == {"wired", "lua", "scripts", "running", "ticked", "stopping",
           "plugins down", "down"}

\* The script half of TypeOK, and what the books have to agree on.
ScriptBooks ==
    /\ stage \in Stages
    /\ DOMAIN scripts \subseteq Script
    /\ bindings \subseteq Event \X Script \X Callback
    /\ disabled \subseteq Script
    /\ stage # "down" =>
          /\ disabled = {s \in DOMAIN scripts : scripts[s] = "Failed"}
          /\ \A b \in bindings : b[2] \in DOMAIN scripts

\* The plugin half: an active plugin is an initialised instance that no fault
\* isolated, and an initialised instance can still be shut down.
PluginBooks ==
    /\ DOMAIN plugins \subseteq Plugin
    /\ subscriptions \subseteq PluginEvent \X Plugin
    /\ \A p \in isolated : p \in DOMAIN plugins /\ plugins[p] = "Failed"
    /\ \A p \in DOMAIN plugins :
          plugins[p] = "Active" => p \in DOMAIN instances /\ instances[p] = "initialized"
    /\ \A p \in DOMAIN instances :
          instances[p] = "initialized" =>
             p \in DOMAIN plugins /\ plugins[p] \in {"Active", "Failed"}
    /\ stage \in {"plugins down", "down"} =>
          \A p \in DOMAIN instances : instances[p] # "initialized"

\* Nobody is called outside the running stages.
QuietOutside == stage \notin {"running", "ticked"} => called = {} /\ told = {}

Inv == ScriptBooks /\ PluginBooks /\ QuietOutside

---------------------------------------------------------------------------
(* The operators.                                                          *)

\* A script that loads was not registered.
LEMMA LoadsOnce ==
    \A s, file, loaded : LoadOutcome(s, file, loaded) = "Ok" => s \notin loaded
  BY DEF LoadOutcome

\* A script that loads has not failed.
LEMMA LoadedIsSound == LoadedState # "Failed"
  BY DEF LoadedState, ScriptApplied

\* Disabling scripts keeps the books: what is marked is what is called Failed.
LEMMA DisableKeepsBooks ==
    ASSUME NEW faulted, faulted \subseteq DOMAIN scripts, Disable(faulted),
           disabled = {s \in DOMAIN scripts : scripts[s] = "Failed"}
    PROVE  /\ DOMAIN scripts' = DOMAIN scripts
           /\ disabled' = {s \in DOMAIN scripts' : scripts'[s] = "Failed"}
  BY DEF Disable

\* A plugin that loads was not registered.
LEMMA PluginLoadsOnce ==
    \A p \in LoadedPlugins : p \in Plugin /\ p \notin DOMAIN plugins
  BY PluginsAssumption DEF LoadedPlugins, Valid

---------------------------------------------------------------------------
(* The script layer.                                                       *)

\* Whoever an event reaches is registered and sound.
LEMMA InvokedAreSound ==
    ASSUME ScriptBooks, stage # "down", NEW event, NEW faulty,
           NEW b \in Invoked(event, faulty)
    PROVE  b \in bindings /\ b[2] \in DOMAIN scripts /\ scripts[b[2]] # "Failed"
  BY DEF Invoked, CallbacksFor, Skipped, ScriptBooks

LEMMA DispatchKeepsBooks ==
    ASSUME ScriptBooks, stage # "down", NEW event, Dispatch(event), stage' \in Stages
    PROVE  ScriptBooks'
<1>1. PICK faulty : DispatchScripts(event, faulty)
  BY DEF Dispatch
<1> DEFINE faulted == {b[2] : b \in Invoked(event, faulty) \cap faulty}
<1>2. faulted \subseteq DOMAIN scripts
  BY InvokedAreSound
<1>3. Disable(faulted) /\ bindings' = bindings
  BY <1>1 DEF DispatchScripts
<1> HIDE DEF faulted
<1>4. /\ DOMAIN scripts' = DOMAIN scripts
      /\ disabled' = {s \in DOMAIN scripts' : scripts'[s] = "Failed"}
  BY <1>2, <1>3, DisableKeepsBooks DEF ScriptBooks
<1> QED
  BY <1>3, <1>4 DEF ScriptBooks

LEMMA ScriptBooksInit == Init => ScriptBooks
  BY DEF Init, ScriptingInit, NoScripts, ScriptBooks, Stages

LEMMA ScriptBooksNext == ScriptBooks /\ [Next]_vars => ScriptBooks'
<1> SUFFICES ASSUME ScriptBooks, [Next]_vars PROVE ScriptBooks'
  OBVIOUS
<1>1. CASE \E p \in Plugin : Bind(p)
  BY <1>1 DEF Bind, ScriptsQuiet, ScriptBooks
<1>2. CASE StartLua
  BY <1>2 DEF StartLua, Move, ScriptBooks, Stages
<1>3. CASE LoadScripts
  <2>1. CASE ~runtime.initialized
    BY <1>3, <2>1 DEF LoadScripts, Move, ScriptBooks, Stages
  <2>2. CASE runtime.initialized
    <3>1. PICK onDisk \in SUBSET Script : \E files \in [onDisk -> File] : LoadAllScripts(files)
      BY <1>3, <2>2 DEF LoadScripts
    <3>2. PICK files \in [onDisk -> File] : LoadAllScripts(files)
      BY <3>1
    <3> DEFINE loaded == {s \in DOMAIN files :
                             LoadOutcome(s, files[s], DOMAIN scripts) = "Ok"}
    <3>3. scripts' = [s \in loaded \cup DOMAIN scripts |->
                         IF s \in loaded THEN LoadedState ELSE scripts[s]]
      BY <3>2 DEF LoadAllScripts
    <3>4. loaded \subseteq Script /\ loaded \cap DOMAIN scripts = {}
      BY LoadsOnce
    <3> HIDE DEF loaded
    <3>5. disabled' = disabled /\ bindings' = bindings /\ stage = "lua" /\ stage' = "scripts"
      BY <1>3 DEF LoadScripts, Move
    <3> QED
      BY <3>3, <3>4, <3>5, LoadedIsSound DEF ScriptBooks, Stages
  <2> QED
    BY <2>1, <2>2
<1>4. CASE StartPlugins
  BY <1>4 DEF StartPlugins, Move, ScriptsQuiet, ScriptBooks, Stages
<1>5. CASE TickScripts
  <2>1. stage # "down" /\ stage' \in Stages /\ Dispatch("OnTick")
    BY <1>5 DEF TickScripts, Move, ScriptTick, Stages
  <2> QED
    BY <2>1, DispatchKeepsBooks
<1>6. CASE TickPlugins
  BY <1>6 DEF TickPlugins, Move, ScriptsQuiet, ScriptBooks, Stages
<1>7. CASE OperateScripts
  <2>0. stage = "running" /\ stage' = stage /\ stage' \in Stages /\ ScriptOperation
    BY <1>7 DEF OperateScripts, Between, Stages
  <2>1. CASE \E e \in Event, s \in Script, c \in Callback :
                Bound < MaxBindings /\ BindCallback(e, s, c)
    BY <2>0, <2>1 DEF BindCallback, ScriptBooks
  <2>2. CASE \E s \in Script : Unload(s)
    <3>1. PICK s \in Script : Unload(s)
      BY <2>2
    <3> QED
      BY <2>0, <3>1 DEF Unload, WithoutCallbacks, Enabled, Restrict, ScriptBooks
  <2>3. CASE \E s \in Script, file \in File : Reload(s, file)
    <3>1. PICK s \in Script, file \in File : Reload(s, file)
      BY <2>3
    <3> DEFINE others == Restrict(scripts, DOMAIN scripts \ {s})
    <3>2. /\ DOMAIN others = DOMAIN scripts \ {s}
          /\ \A t \in DOMAIN others : others[t] = scripts[t]
      BY DEF Restrict
    <3>3. /\ bindings' = IF s \in DOMAIN scripts THEN WithoutCallbacks(s) ELSE bindings
          /\ disabled' = IF s \in DOMAIN scripts THEN Enabled(s) ELSE disabled
      BY <3>1 DEF Reload
    <3>4. \A b \in bindings' : b \in bindings /\ b[2] \in DOMAIN others
      BY <2>0, <3>2, <3>3 DEF WithoutCallbacks, ScriptBooks
    <3>5. disabled' = {t \in DOMAIN others : others[t] = "Failed"}
      BY <2>0, <3>2, <3>3 DEF Enabled, ScriptBooks
    <3>6. \/ scripts' = others
          \/ scripts' = [t \in DOMAIN others \cup {s} |->
                            IF t = s THEN LoadedState ELSE others[t]]
      BY <3>1 DEF Reload
    <3>7. s \notin DOMAIN others /\ DOMAIN others \subseteq Script
      BY <3>2 DEF ScriptBooks
    <3> HIDE DEF others
    <3> QED
      BY <2>0, <3>4, <3>5, <3>6, <3>7, LoadedIsSound DEF ScriptBooks
  <2>4. CASE \E e \in Event \ {"OnTick"} : Dispatch(e)
    BY <2>0, <2>4, DispatchKeepsBooks
  <2> QED
    BY <2>0, <2>1, <2>2, <2>3, <2>4 DEF ScriptOperation
<1>8. CASE OperatePlugins
  BY <1>8 DEF OperatePlugins, Between, ScriptsQuiet, ScriptBooks
<1>9. CASE StopLua
  BY <1>9 DEF StopLua, Move, ScriptBooks, Stages
<1>10. CASE StopPlugins
  BY <1>10 DEF StopPlugins, Move, ScriptsQuiet, ScriptBooks, Stages
<1>11. CASE StopScripts
  BY <1>11 DEF StopScripts, Move, ScriptShutdown, ScriptBooks, Stages
<1>12. CASE UNCHANGED vars
  BY <1>12 DEF vars, scriptVars, ScriptBooks
<1> QED
  BY <1>1, <1>2, <1>3, <1>4, <1>5, <1>6, <1>7, <1>8, <1>9, <1>10, <1>11, <1>12 DEF Next
---------------------------------------------------------------------------
(* The plugin layer.                                                       *)

LEMMA PluginBooksInit == Init => PluginBooks
  BY DEF Init, PluginsInit, PluginBooks

\* The start initialises who is bound and loaded, and nobody a second time.
LEMMA StartupKeepsBooks ==
    ASSUME PluginBooks, NEW failing, Startup(failing), stage' = "running"
    PROVE  PluginBooks'
<1> DEFINE loaded  == [p \in DOMAIN plugins \cup LoadedPlugins |->
                          IF p \in LoadedPlugins THEN "Loaded" ELSE plugins[p]]
           started == {p \in (DOMAIN instances \cap DOMAIN loaded) \ isolated :
                          PluginLegal(loaded[p], "Initialize")}
<1>1. /\ plugins' = [p \in DOMAIN loaded |->
                        IF p \in started
                        THEN IF p \in failing THEN "Failed" ELSE "Active"
                        ELSE loaded[p]]
      /\ instances' = [p \in DOMAIN instances |->
                          IF p \in started
                          THEN IF p \in failing THEN "refused" ELSE "initialized"
                          ELSE instances[p]]
      /\ isolated' = isolated \cup (started \cap failing)
      /\ subscriptions' = subscriptions
  BY DEF Startup, Isolate
<1>2. \A p \in started : loaded[p] = "Loaded"
  BY DEF PluginLegal
<1>3. started \subseteq DOMAIN instances \cap DOMAIN loaded
  OBVIOUS
<1>4. \A p \in LoadedPlugins : p \in Plugin /\ p \notin DOMAIN plugins
  BY PluginLoadsOnce
<1>5. /\ DOMAIN loaded = DOMAIN plugins \cup LoadedPlugins
      /\ \A p \in LoadedPlugins : loaded[p] = "Loaded"
      /\ \A p \in DOMAIN plugins : loaded[p] = plugins[p]
  BY <1>4
<1> HIDE DEF loaded, started
<1>6. DOMAIN plugins' \subseteq Plugin
  BY <1>1, <1>4, <1>5 DEF PluginBooks
<1>7. \A p \in isolated' : p \in DOMAIN plugins' /\ plugins'[p] = "Failed"
  BY <1>1, <1>2, <1>3, <1>5 DEF PluginBooks
<1>8. \A p \in DOMAIN plugins' :
         plugins'[p] = "Active" => p \in DOMAIN instances' /\ instances'[p] = "initialized"
  BY <1>1, <1>2, <1>3, <1>5 DEF PluginBooks
<1>9. \A p \in DOMAIN instances' :
         instances'[p] = "initialized" =>
            p \in DOMAIN plugins' /\ plugins'[p] \in {"Active", "Failed"}
  BY <1>1, <1>2, <1>3, <1>5 DEF PluginBooks
<1> QED
  BY <1>1, <1>6, <1>7, <1>8, <1>9 DEF PluginBooks

\* An event takes plugins from Active to Failed, and moves nobody else.
LEMMA PublishKeepsBooks ==
    ASSUME PluginBooks, NEW event, Publish(event), stage' \in {"running", "ticked"}
    PROVE  PluginBooks'
<1>1. PICK faulty \in SUBSET {p \in SubscribersFor(event) : Reachable(p)} :
         /\ Isolate(faulty)
         /\ plugins' = [p \in DOMAIN plugins |->
                           IF p \in faulty THEN "Failed" ELSE plugins[p]]
         /\ UNCHANGED <<instances, subscriptions>>
  BY DEF Publish
<1>2. \A p \in faulty : p \in DOMAIN plugins
  BY DEF Reachable
<1>3. isolated' = isolated \cup faulty
  BY <1>1 DEF Isolate
<1> QED
  BY <1>1, <1>2, <1>3 DEF PluginBooks

\* Every instance that was initialised is shut down.
LEMMA ShutdownKeepsBooks ==
    ASSUME PluginBooks, PluginShutdown
    PROVE  PluginBooks'
<1>1. \A p \in DOMAIN instances : instances[p] = "initialized" => Ends(p)
  BY DEF PluginBooks, Ends, PluginLegal
<1>2. /\ instances' = [p \in DOMAIN instances |->
                          IF Ends(p) THEN "shut down" ELSE instances[p]]
      /\ plugins' = [p \in DOMAIN plugins |->
                        IF p \in DOMAIN instances /\ Ends(p) THEN "Shutdown" ELSE plugins[p]]
      /\ isolated' = {} /\ subscriptions' = subscriptions
  BY DEF PluginShutdown
<1>3. \A p \in DOMAIN instances' : instances'[p] # "initialized"
  BY <1>1, <1>2
<1>4. \A p \in DOMAIN plugins' : plugins'[p] # "Active"
  BY <1>1, <1>2 DEF PluginBooks
<1> QED
  BY <1>2, <1>3, <1>4 DEF PluginBooks

LEMMA PluginBooksNext == PluginBooks /\ [Next]_vars => PluginBooks'
<1> SUFFICES ASSUME PluginBooks, [Next]_vars PROVE PluginBooks'
  OBVIOUS
<1>1. CASE \E p \in Plugin : Bind(p)
  BY <1>1 DEF Bind, BindPlugin, PluginBooks
<1>2. CASE StartLua
  BY <1>2 DEF StartLua, Move, pluginVars, PluginBooks
<1>3. CASE LoadScripts
  BY <1>3 DEF LoadScripts, Move, pluginVars, PluginBooks
<1>4. CASE StartPlugins
  BY <1>4, StartupKeepsBooks DEF StartPlugins, Move
<1>5. CASE TickScripts
  BY <1>5 DEF TickScripts, Move, PluginsQuiet, PluginBooks
<1>6. CASE TickPlugins
  BY <1>6, PublishKeepsBooks DEF TickPlugins, Move, PluginTick
<1>7. CASE OperateScripts
  BY <1>7 DEF OperateScripts, Between, PluginsQuiet, PluginBooks
<1>8. CASE OperatePlugins
  <2>0. stage = "running" /\ stage' = stage /\ PluginOperation
    BY <1>8 DEF OperatePlugins, Between
  <2>1. CASE \E e \in PluginEvent, p \in Plugin :
                Bound < MaxBindings /\ Subscribe(e, p)
    BY <2>0, <2>1 DEF Subscribe, PluginBooks
  <2>2. CASE \E e \in PluginEvent \ {"OnTick"} : Publish(e)
    BY <2>0, <2>2, PublishKeepsBooks
  <2> QED
    BY <2>0, <2>1, <2>2 DEF PluginOperation
<1>9. CASE StopLua
  BY <1>9 DEF StopLua, Move, PluginsQuiet, PluginBooks
<1>10. CASE StopPlugins
  BY <1>10, ShutdownKeepsBooks DEF StopPlugins
<1>11. CASE StopScripts
  BY <1>11 DEF StopScripts, Move, pluginVars, PluginBooks
<1>12. CASE UNCHANGED vars
  BY <1>12 DEF vars, pluginVars, PluginBooks
<1> QED
  BY <1>1, <1>2, <1>3, <1>4, <1>5, <1>6, <1>7, <1>8, <1>9, <1>10, <1>11, <1>12 DEF Next

---------------------------------------------------------------------------
(* The invariant.                                                          *)

LEMMA QuietInit == Init => QuietOutside
  BY DEF Init, ScriptingInit, PluginsInit, QuietOutside

LEMMA QuietNext == QuietOutside /\ [Next]_vars => QuietOutside'
<1> SUFFICES ASSUME QuietOutside, [Next]_vars PROVE QuietOutside'
  OBVIOUS
<1>1. CASE \E p \in Plugin : Bind(p)
  BY <1>1 DEF Bind, BindPlugin, ScriptsQuiet, QuietOutside
<1>2. CASE StartLua \/ LoadScripts \/ StopScripts
  BY <1>2 DEF StartLua, LoadScripts, StopScripts, Move, pluginVars, QuietOutside
<1>3. CASE StartPlugins \/ TickScripts \/ TickPlugins
  BY <1>3 DEF StartPlugins, TickScripts, TickPlugins, Move, QuietOutside
<1>4. CASE OperateScripts \/ OperatePlugins
  BY <1>4 DEF OperateScripts, OperatePlugins, Between, QuietOutside
<1>5. CASE StopLua
  BY <1>5 DEF StopLua, PluginsQuiet, QuietOutside
<1>6. CASE StopPlugins
  BY <1>6 DEF StopPlugins, PluginShutdown, ScriptsQuiet, QuietOutside
<1>7. CASE UNCHANGED vars
  BY <1>7 DEF vars, scriptVars, pluginVars, QuietOutside
<1> QED
  BY <1>1, <1>2, <1>3, <1>4, <1>5, <1>6, <1>7 DEF Next

LEMMA Invariance == Spec => []Inv
<1>1. Init => Inv
  BY ScriptBooksInit, PluginBooksInit, QuietInit DEF Inv
<1>2. Inv /\ [Next]_vars => Inv'
  BY ScriptBooksNext, PluginBooksNext, QuietNext DEF Inv
<1> QED
  BY <1>1, <1>2, PTL DEF Spec

\* The three books of the script manager, disabled, registered and bound, agree after
\* any sequence of binds, faults, unloads and reloads (ScriptManager.cpp).
THEOREM BooksAgree == Spec => []ScriptBooksAgree
<1>1. Inv => ScriptBooksAgree
  <2> SUFFICES ASSUME Inv PROVE ScriptBooksAgree
    OBVIOUS
  <2>1. isolated \subseteq Plugin
    BY DEF Inv, PluginBooks
  <2> QED
    BY <2>1 DEF Inv, ScriptBooks, PluginBooks, Stages, ScriptBooksAgree, TypeOK
<1> QED
  BY <1>1, Invariance, PTL

---------------------------------------------------------------------------
(* Faults and the plugin contract, as facts about one step.                *)

\* In every step whoever is called, and whoever is told, was sound before it, and a
\* script's fault is the last of its calls.
CalledAreSound ==
    /\ \A x \in called' : ~(x[1][2] \in DOMAIN scripts /\ scripts[x[1][2]] = "Failed")
    /\ \A x, y \in called' : (x[1][2] = y[1][2] /\ ~x[2]) => y[1][3] <= x[1][3]

ToldAreActive ==
    \A x \in told' : plugins[x[1]] = "Active" /\ instances[x[1]] = "initialized"

LEMMA DispatchCallsSound ==
    ASSUME ScriptBooks, stage # "down", NEW event, Dispatch(event)
    PROVE  CalledAreSound
<1>1. PICK faulty \in SUBSET CallbacksFor(event) : DispatchScripts(event, faulty)
  BY DEF Dispatch
<1> DEFINE invoked == Invoked(event, faulty)
<1>2. called' = {<<b, b \notin faulty>> : b \in invoked}
  BY <1>1 DEF DispatchScripts
<1>3. \A b \in invoked : scripts[b[2]] # "Failed"
  BY InvokedAreSound
<1>4. \A b \in invoked : \A f \in faulty : f[2] = b[2] => b[3] <= f[3]
  BY DEF Invoked
<1> HIDE DEF invoked
<1>5. \A x \in called' : x[1] \in invoked
  BY <1>2
<1>6. \A x \in called' : ~x[2] => x[1] \in faulty
  <2> SUFFICES ASSUME NEW c \in invoked, c \notin faulty, ~<<c, c \notin faulty>>[2]
               PROVE  FALSE
    BY <1>2
  <2>1. (c \notin faulty) = TRUE
    OBVIOUS
  <2>2. <<c, c \notin faulty>> = <<c, TRUE>>
    BY <2>1
  <2> QED
    BY <2>2
<1> QED
  BY <1>3, <1>4, <1>5, <1>6 DEF CalledAreSound

LEMMA PublishTellsActive ==
    ASSUME PluginBooks, NEW event, Publish(event)
    PROVE  ToldAreActive
<1> DEFINE invoked == {p \in SubscribersFor(event) : Reachable(p)}
<1>1. PICK faulty \in SUBSET invoked : told' = {<<p, p \notin faulty>> : p \in invoked}
  BY DEF Publish
<1>2. \A p \in invoked : plugins[p] = "Active" /\ instances[p] = "initialized"
  BY DEF Reachable, PluginBooks
<1> HIDE DEF invoked
<1>3. \A x \in told' : x[1] \in invoked
  BY <1>1
<1> QED
  BY <1>2, <1>3 DEF ToldAreActive

LEMMA StepsCallSound == Inv /\ Next => CalledAreSound /\ ToldAreActive
<1> SUFFICES ASSUME Inv, Next PROVE CalledAreSound /\ ToldAreActive
  OBVIOUS
<1>1. called' = {} => CalledAreSound
  BY DEF CalledAreSound
<1>2. told' = {} => ToldAreActive
  BY DEF ToldAreActive
<1>3. CASE \E p \in Plugin : Bind(p)
  BY <1>1, <1>2, <1>3 DEF Bind, BindPlugin, ScriptsQuiet
<1>4. CASE StartLua \/ LoadScripts \/ StopScripts
  BY <1>1, <1>2, <1>4
  DEF StartLua, LoadScripts, StopScripts, Move, pluginVars, Inv, QuietOutside
<1>5. CASE StartPlugins
  BY <1>1, <1>2, <1>5 DEF StartPlugins, Startup, ScriptsQuiet
<1>6. CASE TickScripts
  BY <1>2, <1>6, DispatchCallsSound DEF TickScripts, Move, ScriptTick, PluginsQuiet, Inv
<1>7. CASE TickPlugins
  BY <1>1, <1>7, PublishTellsActive DEF TickPlugins, PluginTick, ScriptsQuiet, Inv
<1>8. CASE OperateScripts
  <2>1. ToldAreActive
    BY <1>2, <1>8 DEF OperateScripts, PluginsQuiet
  <2>2. CalledAreSound
    BY <1>1, <1>8, DispatchCallsSound
    DEF OperateScripts, Between, ScriptOperation, BindCallback, Unload, Reload, Inv
  <2> QED
    BY <2>1, <2>2
<1>9. CASE OperatePlugins
  BY <1>1, <1>2, <1>9, PublishTellsActive
  DEF OperatePlugins, Between, PluginOperation, Subscribe, ScriptsQuiet, Inv
<1>10. CASE StopLua
  BY <1>1, <1>2, <1>10 DEF StopLua, PluginsQuiet
<1>11. CASE StopPlugins
  BY <1>1, <1>2, <1>11 DEF StopPlugins, PluginShutdown, ScriptsQuiet
<1> QED
  BY <1>3, <1>4, <1>5, <1>6, <1>7, <1>8, <1>9, <1>10, <1>11 DEF Next

\* IPlugin: an instance hears events between an Initialize it answered with Ok and its
\* Shutdown, and the shutdown of the host leaves none initialised (PluginHost.cpp).
THEOREM Contract == Spec => PluginContract
<1> DEFINE A == /\ \A x \in told' : instances[x[1]] = "initialized"
                /\ \A p \in DOMAIN plugins' :
                      plugins'[p] = "Active" => instances'[p] = "initialized"
                /\ stage' \in {"plugins down", "down"} =>
                      \A p \in DOMAIN instances' : instances'[p] # "initialized"
<1>1. Inv /\ Inv' /\ [Next]_vars => [A]_vars
  <2> SUFFICES ASSUME Inv, Inv', Next PROVE A
    OBVIOUS
  <2>1. ToldAreActive
    BY StepsCallSound
  <2>2. PluginBooks'
    BY DEF Inv
  <2> QED
    BY <2>1, <2>2 DEF ToldAreActive, PluginBooks
<1>2. Spec => [][A]_vars
  BY <1>1, Invariance, PTL DEF Spec
<1> QED
  BY <1>2 DEF PluginContract

\* A script none of whose callbacks faulted has had every one of them called: among
\* faulting callbacks there is a first, which is called and disables the script.
LEMMA SoundScriptsHearAll ==
    ASSUME ScriptBooks, stage # "down", NEW event, NEW faulty,
           faulty \subseteq CallbacksFor(event), DispatchScripts(event, faulty),
           NEW b \in CallbacksFor(event), scripts'[b[2]] # "Failed"
    PROVE  <<b, TRUE>> \in called'
<1> DEFINE invoked == Invoked(event, faulty)
           faulted == {f[2] : f \in invoked \cap faulty}
           mine    == {f \in faulty : f[2] = b[2]}
           places  == {f[3] : f \in mine}
<1>1. called' = {<<c, c \notin faulty>> : c \in invoked}
  BY DEF DispatchScripts
<1>2. scripts' = [s \in DOMAIN scripts |-> IF s \in faulted THEN "Failed" ELSE scripts[s]]
  BY DEF DispatchScripts, Disable
<1>3. b \in bindings /\ b[2] \in DOMAIN scripts
  BY DEF CallbacksFor, ScriptBooks
<1>4. b[2] \notin faulted /\ scripts[b[2]] # "Failed"
  BY <1>2, <1>3
<1>5. ~Skipped(b[2])
  BY <1>3, <1>4 DEF Skipped, ScriptBooks
<1>6. mine = {}
  <2> SUFFICES ASSUME mine # {} PROVE FALSE
    OBVIOUS
  <2>0. \A f \in mine : f \in Event \X Script \X Callback
    BY DEF CallbacksFor, ScriptBooks
  <2>1. places # {} /\ places \subseteq Nat
    <3>1. \A f \in mine : f[3] \in Nat
      BY <2>0, ScriptingAssumption
    <3> QED
      BY <3>1
  <2> DEFINE R == OpToRel(<, Nat)
  <2>2. IsWellFoundedOn(R, Nat)
    BY NatLessThanWellFounded
  <2> HIDE DEF places
  <2>3. PICK n \in places : \A m \in places : ~(<<m, n>> \in R)
    BY <2>1, <2>2, WFMin
  <2>4. \A m \in places : n <= m
    <3> TAKE m \in places
    <3>1. ~(m < n)
      BY <2>1, <2>3 DEF OpToRel
    <3> QED
      BY <2>1, <3>1
  <2>5. PICK f \in mine : f[3] = n
    BY DEF places
  <2>6. \A g \in faulty : g[2] = f[2] => f[3] <= g[3]
    BY <2>4, <2>5 DEF places
  <2>7. f \in invoked
    BY <2>5, <2>6, <1>5 DEF Invoked
  <2> QED
    BY <2>5, <2>7, <1>4
<1>7. b \in invoked /\ b \notin faulty
  BY <1>5, <1>6 DEF Invoked
<1> HIDE DEF invoked
<1>8. (b \notin faulty) = TRUE
  BY <1>7
<1>9. \E c \in invoked : <<b, TRUE>> = <<c, c \notin faulty>>
  BY <1>7, <1>8
<1> QED
  BY <1>1, <1>9

\* A plugin that is active after a tick it subscribed to was told of it.
LEMMA ActivePluginsAreTold ==
    ASSUME PluginBooks, NEW event, Publish(event), NEW p \in SubscribersFor(event),
           p \in DOMAIN plugins, plugins'[p] = "Active"
    PROVE  <<p, TRUE>> \in told'
<1> DEFINE invoked == {q \in SubscribersFor(event) : Reachable(q)}
<1>1. PICK faulty \in SUBSET invoked :
         /\ plugins' = [q \in DOMAIN plugins |->
                           IF q \in faulty THEN "Failed" ELSE plugins[q]]
         /\ told' = {<<q, q \notin faulty>> : q \in invoked}
  BY DEF Publish
<1>2. p \notin faulty /\ plugins[p] = "Active"
  BY <1>1
<1>3. p \in invoked
  BY <1>2 DEF Reachable, PluginBooks
<1> HIDE DEF invoked
<1>4. (p \notin faulty) = TRUE
  BY <1>2
<1>5. \E q \in invoked : <<p, TRUE>> = <<q, q \notin faulty>>
  BY <1>3, <1>4
<1> QED
  BY <1>1, <1>5

\* A fault costs the script or the plugin that committed it and nobody else: it is
\* called no more, and who stays sound hears every tick (DispatchEvent, Isolate).
THEOREM Contained == Spec => FaultsAreContained
<1> DEFINE A == /\ \A x \in called' :
                      ~(x[1][2] \in DOMAIN scripts /\ scripts[x[1][2]] = "Failed")
                /\ \A x, y \in called' :
                      (x[1][2] = y[1][2] /\ ~x[2]) => y[1][3] <= x[1][3]
                /\ TickScripts =>
                      \A b \in CallbacksFor("OnTick") :
                         scripts'[b[2]] # "Failed" => <<b, TRUE>> \in called'
                /\ \A x \in told' : plugins[x[1]] # "Failed"
                /\ TickPlugins =>
                      \A p \in SubscribersFor("OnTick") :
                         (p \in DOMAIN plugins /\ plugins'[p] = "Active"
                            /\ p \in DOMAIN instances) => <<p, TRUE>> \in told'
<1>1. Inv /\ [Next]_vars => [A]_vars
  <2> SUFFICES ASSUME Inv, Next PROVE A
    OBVIOUS
  <2>1. CalledAreSound /\ ToldAreActive
    BY StepsCallSound
  <2>2. ASSUME TickScripts, NEW b \in CallbacksFor("OnTick"), scripts'[b[2]] # "Failed"
        PROVE  <<b, TRUE>> \in called'
    <3>1. stage # "down"
      BY <2>2 DEF TickScripts, Move
    <3>2. PICK faulty \in SUBSET CallbacksFor("OnTick") : DispatchScripts("OnTick", faulty)
      BY <2>2 DEF TickScripts, ScriptTick, Dispatch
    <3> QED
      BY <2>2, <3>1, <3>2, SoundScriptsHearAll DEF Inv
  <2>3. ASSUME TickPlugins, NEW p \in SubscribersFor("OnTick"), p \in DOMAIN plugins,
               plugins'[p] = "Active"
        PROVE  <<p, TRUE>> \in told'
    BY <2>3, ActivePluginsAreTold DEF TickPlugins, PluginTick, Inv
  <2> QED
    BY <2>1, <2>2, <2>3 DEF CalledAreSound, ToldAreActive
<1>2. Spec => [][A]_vars
  BY <1>1, Invariance, PTL DEF Spec
<1> QED
  BY <1>2 DEF FaultsAreContained

=============================================================================
