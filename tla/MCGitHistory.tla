----------------------------- MODULE MCGitHistory -----------------------------
(* Instances of GitHistory for TLC. *)
EXTENDS GitHistory
=============================================================================
