---------------------------- MODULE MCRunInputs ----------------------------
(* Two tasks, of which the second only has to follow the first. *)
EXTENDS RunInputs
=============================================================================
