----------------------------- MODULE MessageLog -----------------------------
(***************************************************************************)
(* What a cache of messages promises of its files: messages are written in *)
(* the order of their numbers; what is safe stays safe; a fault keeps the  *)
(* first of what is pending and loses the rest, or does nothing.           *)
(***************************************************************************)
EXTENDS Naturals

CONSTANT Messages   \* the numbers of messages

VARIABLES
    safe,      \* the messages that no fault takes away
    pending,   \* the messages that have been written and are not safe yet
    faults     \* how often there was a fault

vars == <<safe, pending, faults>>

Init == safe = {} /\ pending = {} /\ faults = 0

Write(k) ==
    /\ \A j \in safe \cup pending : j < k
    /\ pending' = pending \cup {k}
    /\ UNCHANGED <<safe, faults>>

Sync ==
    /\ safe' = safe \cup pending
    /\ pending' = {}
    /\ UNCHANGED faults

Crash(kept) ==
    /\ \A j \in kept, k \in pending \ kept : j < k
    /\ safe' = safe \cup kept
    /\ pending' = {}
    /\ faults' = faults + 1

Fault ==
    /\ faults' = faults + 1
    /\ UNCHANGED <<safe, pending>>

Next ==
    \/ \E k \in Messages : Write(k)
    \/ Sync
    \/ \E kept \in SUBSET pending : Crash(kept)
    \/ Fault

Spec == Init /\ [][Next]_vars
=============================================================================
