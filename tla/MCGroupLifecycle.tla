-------------------------- MODULE MCGroupLifecycle --------------------------
(* Small instances of GroupLifecycle for TLC. *)
EXTENDS GroupLifecycle, TLC

F(def, auto, int) ==
    [defaultGroup |-> def, runAtStart |-> auto, interval |-> int]

\* Started by hand or with the service; one with an interval of 0.
RunForms == {F(FALSE, FALSE, 1), F(FALSE, TRUE, 1), F(TRUE, FALSE, 0)}

\* The default group or not, always started by hand.
DefaultForms == {F(TRUE, FALSE, 1), F(FALSE, FALSE, 1)}

OneForm == {F(FALSE, FALSE, 1)}

Administer == {"delete", "new", "update", "list"}

Symmetry == Permutations(Requests) \cup Permutations(Collectors)
=============================================================================
