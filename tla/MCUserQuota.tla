------------------------------ MODULE MCUserQuota ------------------------------
(* Instances of UserQuota for TLC. *)
EXTENDS UserQuota, TLC

Symmetry == Permutations(Processes)
=============================================================================
