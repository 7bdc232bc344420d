------------------------------- MODULE MCTags -------------------------------
(* Small instances of Tags for TLC. *)
EXTENDS Tags, TLC

CONSTANTS a, b

\* A file that gives one tag another group, and one with a group there is not.
Files == {{[name |-> a, groupid |-> 2], [name |-> b, groupid |-> 1]},
          {[name |-> a, groupid |-> 2], [name |-> b, groupid |-> 3]}}
Symmetry == Permutations(Operators) \cup Permutations(Requests)
=============================================================================
