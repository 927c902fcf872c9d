--------------------------- MODULE MCReplication ---------------------------
(* Replication with interchangeable places, velocities and connections.    *)
EXTENDS Replication
Symmetry == Permutations(Place) \cup Permutations(Velocity) \cup Permutations(Connection)
=============================================================================
