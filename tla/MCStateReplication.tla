-------------------------- MODULE MCStateReplication --------------------------
(* Small instances of StateReplication for TLC.                             *)
EXTENDS StateReplication
=============================================================================
