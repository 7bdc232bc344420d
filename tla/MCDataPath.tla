----------------------------- MODULE MCDataPath -----------------------------
(* Small instances of DataPath for TLC: two batches of what is started by   *)
(* hand, one and the beginning of the next of what starts with the service. *)
EXTENDS DataPath, TLC

Symmetry == Permutations(Manual) \cup Permutations(Proxies)

MCMaxPoints == [c \in Collectors |-> IF c \in AutoStart THEN 3 ELSE 4]
=============================================================================
