-------------------------- MODULE MCDedicatedServer --------------------------
(***************************************************************************)
(* TLC instances of DedicatedServer.                                       *)
(***************************************************************************)
EXTENDS DedicatedServer, TLC

\* Peers are interchangeable: ids are handed out in arrival order.
PeerSymmetry == Permutations(Peer)

\* What builds a member up and ends it, one message that fails any handshake, and
\* the data messages.
ServerTraffic == {"Hello", "HelloBad", "Response", "Bye"} \cup DataMessage
=============================================================================
