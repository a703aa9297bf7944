-------------------------- MODULE MCTaskLifecycle --------------------------
(***************************************************************************)
(* Two tasks, both waiting in the pending folder, under one executor.      *)
(***************************************************************************)
EXTENDS TaskLifecycle

MCTasks == 1..2
=============================================================================
