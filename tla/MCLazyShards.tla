----------------------------- MODULE MCLazyShards -----------------------------
(* Small instances of LazyShards for TLC.                                    *)
EXTENDS LazyShards, TLC

Symmetry == Permutations(Workers) \union Permutations(Files)
=============================================================================
