--------------------------- MODULE Configuration ---------------------------
(***************************************************************************)
(* What the ini files say and what the program makes of it: the line       *)
(* parser of Config.cpp and the FromConfig of every section.               *)
(*                                                                         *)
(* A value of a file is a number, a flag word (true, no, off, ...) or a    *)
(* text, which is nothing but its length.  Doubles are modelled by the     *)
(* integers, unsigned 32-bit settings by 0..MaxU32.                        *)
(***************************************************************************)
EXTENDS Integers, Sequences

CONSTANT MaxU32   \* the largest value of an unsigned setting

ASSUME WidthAssumption == MaxU32 \in Nat /\ MaxU32 > 65536

Number(n) == [kind |-> "number", value |-> n]
Flag(b)   == [kind |-> "flag", value |-> IF b THEN 1 ELSE 0]
Text(n)   == [kind |-> "text", value |-> n]

\* ConfigStore::GetInt, GetBool and the length GetString gives: the set of what
\* they return, empty for nullopt.
GetInt(raw)    == IF raw.kind = "number" THEN {raw.value} ELSE {}
GetBool(raw)   == IF raw.kind = "flag" \/ raw = Number(0) \/ raw = Number(1)
                  THEN {raw.value = 1} ELSE {}
GetLength(raw) == IF raw.kind = "text" THEN {raw.value} ELSE {1}

---------------------------------------------------------------------------
(* ParseText: a file is a sequence of lines.                               *)

Header(s)  == [line |-> "header", section |-> s]
Pair(k, v) == [line |-> "pair", key |-> k, value |-> v]
Skipped    == [line |-> "skipped"]  \* blank, or a comment
Broken     == [line |-> "broken"]   \* a bad header, no '=', an empty key

\* The section a line belongs to: that of the last header above it.
SectionOf(file, i) ==
    LET headers == {j \in 1..i : file[j].line = "header"} IN
    IF headers = {} THEN "" ELSE file[CHOOSE j \in headers : \A k \in headers : k <= j].section

ParsesWell(file) == \A i \in DOMAIN file : file[i].line # "broken"

\* The lines that give the keys of a section; of two with one key the later wins.
PairsOf(file, s) ==
    {i \in DOMAIN file : file[i].line = "pair" /\ SectionOf(file, i) = s}
Given(file, s) ==
    [k \in {file[i].key : i \in PairsOf(file, s)} |->
        file[CHOOSE i \in PairsOf(file, s) :
                /\ file[i].key = k
                /\ \A j \in PairsOf(file, s) : file[j].key = k => j <= i].value]

---------------------------------------------------------------------------
(* How FromConfig reads a key: the getter, the bounds of what it accepts,  *)
(* and whether a value the getter does not understand is an error.         *)

Within(least, most) == [get |-> "int", least |-> least, most |-> most, strict |-> FALSE]
AtLeast(least)      == Within(least, MaxU32)
Bool                == [get |-> "bool", least |-> 0, most |-> 1, strict |-> FALSE]
Token(most)         == [get |-> "text", least |-> 1, most |-> most, strict |-> FALSE]
Double(least)       == [get |-> "int", least |-> least, most |-> MaxU32, strict |-> TRUE]

WorldReads  == [simulation_speed |-> Double(1), day_length_minutes |-> Double(1),
                debug_logging |-> [Bool EXCEPT !.strict = TRUE]]
EntityRegistryReads == [debug_logging |-> Bool]
\* debug_flags is a signed 64-bit value cast down: 0 and up is accepted.
BubbleReads == [simulation_radius |-> Double(1), activation_margin |-> Double(0),
                deactivation_margin |-> Double(0), maximum_radius |-> Double(1),
                debug_flags |-> Within(0, 2 * MaxU32)]
NetworkingReads == [enabled |-> Bool, max_connections |-> Within(1, 4096),
                    connection_timeout_ms |-> AtLeast(1000),
                    handshake_timeout_ms |-> AtLeast(500),
                    heartbeat_interval_ms |-> AtLeast(100), debug_flags |-> AtLeast(0)]
TransportReads == [listen_port |-> Within(1, 65535), bind_address |-> Token(45),
                   backlog |-> Within(1, 1024), mtu_payload_bytes |-> Within(256, 9000),
                   max_outgoing_queue |-> Within(1, 65536),
                   max_incoming_queue |-> Within(1, 65536),
                   max_bytes_per_tick |-> AtLeast(1), reliable_window |-> Within(1, 65535),
                   reassembly_budget_ticks |-> Within(1, 100000)]
PlayerReads == [max_players |-> AtLeast(1), respawn_delay_ticks |-> AtLeast(0),
                reconnect_retention_ticks |-> AtLeast(0), spawn_policy_id |-> AtLeast(0)]
SnapshotReads == [pool_capacity |-> AtLeast(2), max_entities |-> AtLeast(1),
                  max_players |-> AtLeast(1), version |-> AtLeast(1),
                  queue_depth |-> AtLeast(1), build_budget_ticks |-> AtLeast(0)]
ReplicationReads ==
    [max_clients |-> AtLeast(1), max_entities_per_update |-> AtLeast(1),
     max_players_per_update |-> AtLeast(1), reliable_queue_depth |-> AtLeast(1),
     unreliable_queue_depth |-> AtLeast(1), retry_limit |-> AtLeast(1),
     bandwidth_budget_bytes_per_tick |-> AtLeast(0),
     interest_radius_meters |-> AtLeast(0), update_budget_ticks |-> AtLeast(0),
     version |-> AtLeast(1)]
PersistenceReads ==
    [queue_depth |-> AtLeast(1), autosave_interval_ticks |-> AtLeast(0),
     max_retries |-> AtLeast(0), retry_backoff_ticks |-> AtLeast(0),
     backpressure_high_watermark |-> AtLeast(0),
     backpressure_low_watermark |-> AtLeast(0), version |-> AtLeast(1)]
SaveLoadReads == [save_directory |-> Token(MaxU32), max_generations |-> AtLeast(1),
                  load_on_startup |-> Bool, strict_integrity |-> Bool,
                  migration_enabled |-> Bool, version |-> AtLeast(1)]
LuaReads == [script_directory |-> Token(MaxU32), max_scripts |-> AtLeast(1),
             execution_budget_micros |-> AtLeast(1), recursion_limit |-> AtLeast(1),
             enabled |-> Bool, validate_on_load |-> Bool,
             strict_api_version |-> Bool, version |-> AtLeast(1)]
PluginReads == [plugin_directory |-> Token(MaxU32), max_plugins |-> AtLeast(1),
                enabled |-> Bool, validate_on_load |-> Bool,
                strict_api_version |-> Bool, version |-> AtLeast(1)]
PredictionReads ==
    [input_buffer_depth |-> AtLeast(1), state_buffer_depth |-> AtLeast(1),
     interpolation_delay_ticks |-> AtLeast(0), max_prediction_ticks |-> AtLeast(1),
     position_correction_threshold_mm |-> AtLeast(0),
     rotation_correction_threshold_mrad |-> AtLeast(0),
     velocity_correction_threshold_mm |-> AtLeast(0), version |-> AtLeast(1)]

Reads == [world |-> WorldReads, entity_registry |-> EntityRegistryReads,
          bubble |-> BubbleReads, networking |-> NetworkingReads,
          transport |-> TransportReads, player |-> PlayerReads,
          snapshot |-> SnapshotReads, replication |-> ReplicationReads,
          persistence |-> PersistenceReads, saveload |-> SaveLoadReads,
          lua |-> LuaReads, plugins |-> PluginReads, prediction |-> PredictionReads]

Section == DOMAIN Reads

---------------------------------------------------------------------------
(* The values of keys that are not given, and of those whose value the     *)
(* getter does not understand.                                             *)

WorldDefaults  == [simulation_speed |-> 1, day_length_minutes |-> 90, debug_logging |-> FALSE]
BubbleDefaults == [simulation_radius |-> 150, activation_margin |-> 10,
                   deactivation_margin |-> 30, maximum_radius |-> 500, debug_flags |-> 0]
NetworkingDefaults == [enabled |-> FALSE, max_connections |-> 16,
                       connection_timeout_ms |-> 15000, handshake_timeout_ms |-> 5000,
                       heartbeat_interval_ms |-> 2000, debug_flags |-> 0]
TransportDefaults == [listen_port |-> 27015, bind_address |-> 7, backlog |-> 32,
                      mtu_payload_bytes |-> 1200, max_outgoing_queue |-> 256,
                      max_incoming_queue |-> 256, max_bytes_per_tick |-> 262144,
                      reliable_window |-> 256, reassembly_budget_ticks |-> 120]
PlayerDefaults == [max_players |-> 32, respawn_delay_ticks |-> 300,
                   reconnect_retention_ticks |-> 3600, spawn_policy_id |-> 0]
SnapshotDefaults == [pool_capacity |-> 4, max_entities |-> 4096, max_players |-> 64,
                     version |-> 1, queue_depth |-> 2, build_budget_ticks |-> 0]
ReplicationDefaults ==
    [max_clients |-> 64, max_entities_per_update |-> 1024, max_players_per_update |-> 64,
     reliable_queue_depth |-> 256, unreliable_queue_depth |-> 512, retry_limit |-> 5,
     bandwidth_budget_bytes_per_tick |-> 65536, interest_radius_meters |-> 150,
     update_budget_ticks |-> 0, version |-> 1]
PersistenceDefaults ==
    [queue_depth |-> 16, autosave_interval_ticks |-> 0, max_retries |-> 3,
     retry_backoff_ticks |-> 30, backpressure_high_watermark |-> 12,
     backpressure_low_watermark |-> 4, version |-> 1]
SaveLoadDefaults == [save_directory |-> 5, max_generations |-> 8, load_on_startup |-> TRUE,
                     strict_integrity |-> TRUE, migration_enabled |-> TRUE, version |-> 1]
LuaDefaults == [script_directory |-> 7, max_scripts |-> 256,
                execution_budget_micros |-> 2000, recursion_limit |-> 64, enabled |-> TRUE,
                validate_on_load |-> TRUE, strict_api_version |-> TRUE, version |-> 1]
PluginDefaults == [plugin_directory |-> 7, max_plugins |-> 64, enabled |-> TRUE,
                   validate_on_load |-> TRUE, strict_api_version |-> TRUE, version |-> 1]
PredictionDefaults ==
    [input_buffer_depth |-> 128, state_buffer_depth |-> 128,
     interpolation_delay_ticks |-> 2, max_prediction_ticks |-> 8,
     position_correction_threshold_mm |-> 250, rotation_correction_threshold_mrad |-> 100,
     velocity_correction_threshold_mm |-> 500, version |-> 1]

Defaults == [world |-> WorldDefaults, entity_registry |-> [debug_logging |-> FALSE],
             bubble |-> BubbleDefaults, networking |-> NetworkingDefaults,
             transport |-> TransportDefaults, player |-> PlayerDefaults,
             snapshot |-> SnapshotDefaults, replication |-> ReplicationDefaults,
             persistence |-> PersistenceDefaults, saveload |-> SaveLoadDefaults,
             lua |-> LuaDefaults, plugins |-> PluginDefaults,
             prediction |-> PredictionDefaults]

---------------------------------------------------------------------------
(* FromConfig.                                                             *)

Understood(read, raw) ==
    [int |-> GetInt(raw), bool |-> GetBool(raw), text |-> GetLength(raw)][read.get]

ValueAccepted(read, raw) ==
    /\ read.strict => Understood(read, raw) # {}
    /\ read.get # "bool" => \A v \in Understood(read, raw) : v \in read.least..read.most

\* What the section gets; casts keep the low 32 bits.
Settings(file, s) ==
    LET given == Given(file, s) IN
    [k \in DOMAIN Reads[s] |->
        IF k \notin DOMAIN given \/ Understood(Reads[s][k], given[k]) = {}
        THEN Defaults[s][k]
        ELSE LET v == CHOOSE v \in Understood(Reads[s][k], given[k]) : TRUE IN
             IF Reads[s][k].get = "int" THEN v % (MaxU32 + 1) ELSE v]

\* Mutant: the watermarks are compared with each other only.
PersistenceRulesLoose(c) == c.backpressure_low_watermark <= c.backpressure_high_watermark

\* Rules that relate two keys of a section.
BubbleRules(c)      == c.deactivation_margin >= c.activation_margin
NetworkingRules(c)  == /\ c.handshake_timeout_ms <= c.connection_timeout_ms
                       /\ c.heartbeat_interval_ms < c.connection_timeout_ms
PacketHeaderWireSize == 18
TransportRules(c)   == /\ c.mtu_payload_bytes > PacketHeaderWireSize
                       /\ c.max_bytes_per_tick >= c.mtu_payload_bytes
SnapshotRules(c)    == c.queue_depth <= c.pool_capacity
PersistenceRules(c) == /\ c.backpressure_low_watermark <= c.backpressure_high_watermark
                       /\ c.backpressure_high_watermark <= c.queue_depth

RulesKept(s, c) == /\ s = "bubble"      => BubbleRules(c)
                   /\ s = "networking"  => NetworkingRules(c)
                   /\ s = "transport"   => TransportRules(c)
                   /\ s = "snapshot"    => SnapshotRules(c)
                   /\ s = "persistence" => PersistenceRules(c)

Accepts(file, s) ==
    /\ \A k \in DOMAIN Given(file, s) \cap DOMAIN Reads[s] :
          ValueAccepted(Reads[s][k], Given(file, s)[k])
    /\ RulesKept(s, Settings(file, s))
=============================================================================
