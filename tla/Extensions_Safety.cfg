SPECIFICATION Spec
CONSTANTS
    Script = {1, 2}
    Callback = {1, 2}
    Event = {"OnTick", "OnPlayerJoin"}
    ApiVersion = 1
    Strict = FALSE
    Plugin = {1, 2, 3}
    PluginEvent = {"OnTick", "OnWorldLoaded"}
    Manifest <- MCManifest
    HostApi = 1
    StrictApi = FALSE
    Admitted = TRUE
    MaxBindings = 3
INVARIANTS
    ScriptBooksAgree
PROPERTIES
    FaultsAreContained
    PluginContract
CHECK_DEADLOCK FALSE
