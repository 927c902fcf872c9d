---------------------------- MODULE MCPrediction ----------------------------
(* Prediction with the local player 1, a player 2 who may be first in a      *)
(* frame, and an entity 9 who comes and goes.                                *)
EXTENDS Prediction

\* No two sums of different inputs are equal, and shoves do not make them so.
MCMove(sequence) == 10 * 2 ^ sequence

MCScenes == {[players |-> <<1>>, entities |-> {9}],
             [players |-> <<2, 1>>, entities |-> {9}],
             [players |-> <<0>>, entities |-> {}]}
=============================================================================
