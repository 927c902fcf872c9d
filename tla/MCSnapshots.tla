---------------------------- MODULE MCSnapshots ----------------------------
(* A small instance of Snapshots for TLC.  No symmetry: the run checks a   *)
(* liveness property.                                                      *)
EXTENDS Snapshots

CONSTANTS r1, r2, r3, w1
=============================================================================
