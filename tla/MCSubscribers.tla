---------------------------- MODULE MCSubscribers ----------------------------
(* Small instances of Subscribers for TLC. *)
EXTENDS Subscribers, TLC

Symmetry == Permutations(Connections) \cup Permutations(Objects) \cup Permutations(Notifiers)
=============================================================================
