-------------------------- MODULE MCExecutorClaim --------------------------
(***************************************************************************)
(* A few commands in one private home, on either platform.                 *)
(***************************************************************************)
EXTENDS ExecutorClaim

MCBoth == {"posix", "nt"}
=============================================================================
