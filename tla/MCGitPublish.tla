---------------------------- MODULE MCGitPublish ----------------------------
(***************************************************************************)
(* One task, from the flow's last stage to the end of its pull request.    *)
(***************************************************************************)
EXTENDS GitPublish

MCScopes == {"commit", "push", "pull_request"}
MCFrom == {"work"}
=============================================================================
