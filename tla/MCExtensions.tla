---------------------------- MODULE MCExtensions ----------------------------
(* Extensions with three manifests: two the host accepts, one of them for an *)
(* older host, and one that asks for an API that is not on offer.            *)
EXTENDS Extensions, TLC

Accepted(least, most) ==
    [minApi |-> least, maxApi |-> most, requires |-> {}, dependencies |-> {}]

MCManifest == (1 :> Accepted(1, 1)) @@ (2 :> Accepted(0, 0))
              @@ (3 :> [Accepted(1, 1) EXCEPT !.requires = {7}])
=============================================================================
