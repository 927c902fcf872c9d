---------------------------- MODULE MCBootstrap ----------------------------
(* Bootstrap with files that put each key of the sections with rules at    *)
(* the edges of what it accepts, and files that are malformed.             *)
EXTENDS Bootstrap

CONSTANT absent

One(section, key, value) == <<Header(section), Pair(key, value)>>
Two(section, k1, v1, k2, v2) == <<Header(section), Pair(k1, v1), Pair(k2, v2)>>

Checked == {"networking", "transport", "snapshot", "persistence", "world"}
Edges(section) ==
    UNION {{One(section, k, Number(v)) :
               v \in {0, Reads[section][k].least - 1, Reads[section][k].least,
                      Reads[section][k].most, Reads[section][k].most + 1}} :
           k \in DOMAIN Reads[section]}

ServerFiles ==
    UNION {Edges(section) : section \in Checked}
    \cup {One("world", "simulation_speed", Text(3)), One("networking", "enabled", Flag(TRUE)),
          One("networking", "max_connections", Text(5)),
          One("lua", "script_directory", Text(0)), One("meta", "config_version", Number(2)),
          One("meta", "config_version", Text(3)),
          One("bubble", "activation_margin", Number(31)), <<Broken>>, <<Skipped>>,
          Two("networking", "handshake_timeout_ms", Number(1000),
              "connection_timeout_ms", Number(1000)),
          Two("networking", "heartbeat_interval_ms", Number(1000),
              "connection_timeout_ms", Number(1000)),
          Two("persistence", "queue_depth", Number(1), "queue_depth", Number(16)),
          Two("persistence", "backpressure_high_watermark", Number(20),
              "queue_depth", Number(20)),
          Two("persistence", "backpressure_low_watermark", Number(13),
              "backpressure_high_watermark", Number(12)),
          Two("transport", "mtu_payload_bytes", Number(9000),
              "max_bytes_per_tick", Number(8999)), absent}
ClientFiles == {absent, One("prediction", "max_prediction_ticks", Number(0))}

MCContents == [development |-> {absent}, server |-> ServerFiles, client |-> ClientFiles]
=============================================================================
