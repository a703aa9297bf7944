---------------------------- MODULE MCProviderRun ----------------------------
(* A call at a time on either platform, each over a fresh process tree. *)
EXTENDS ProviderRun
=============================================================================
