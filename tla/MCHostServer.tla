---------------------------- MODULE MCHostServer ----------------------------
(***************************************************************************)
(* TLC instances of HostServer.                                            *)
(***************************************************************************)
EXTENDS HostServer

\* The kinds that build up, keep and end a connection, and those without effect.
LifeTraffic == {"Hello", "Response", "Ping", "Bye", "Other", "Malformed"}
=============================================================================
