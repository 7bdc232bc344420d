---------------------------- MODULE MCCacheIndex ----------------------------
(* Small instances of CacheIndex for TLC. *)
EXTENDS CacheIndex, TLC

Symmetry == Permutations(Requests)
=============================================================================
