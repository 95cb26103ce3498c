------------------------------- MODULE MCLogins -------------------------------
(* Instances of Logins for TLC. *)
EXTENDS Logins, TLC

(* Where the record is looked for matters in one process as in a cluster.   *)
SettingsChecked == {<<FALSE, FALSE>>, <<TRUE, FALSE>>, <<FALSE, TRUE>>}

(* Browsers, challenges and requests are interchangeable; nothing here is a *)
(* liveness property.                                                       *)
Symmetry ==
  Permutations(Browsers) \union Permutations(Challenges) \union Permutations(Requests)
=============================================================================
