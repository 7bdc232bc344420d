----------------------------- MODULE MCLogPurge -----------------------------
(* Small instances of LogPurge for TLC. *)
EXTENDS LogPurge, TLC

Symmetry == Permutations(Loggers)
=============================================================================
