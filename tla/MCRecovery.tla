----------------------------- MODULE MCRecovery -----------------------------
(***************************************************************************)
(* What migration steps make of a save in the model-checked instance: a    *)
(* save that has lost its records, one whose player names an entity that   *)
(* is gone, and one that is whole.                                         *)
(***************************************************************************)
EXTENDS Recovery

MCRewritten ==
    {NoContent,
     [NoContent EXCEPT !.entities = <<[id |-> 1, ref |-> 2]>>, !.players = <<2>>],
     [NoContent EXCEPT !.entities = <<[id |-> 1, ref |-> 0], [id |-> 2, ref |-> 1]>>,
                       !.players = <<2>>, !.alife = <<1>>]}

=============================================================================
