------------------------------ MODULE MCBrowser ------------------------------
(* Small instances of Browser for TLC. *)
EXTENDS Browser, TLC

Symmetry == Permutations(Requests)
=============================================================================
