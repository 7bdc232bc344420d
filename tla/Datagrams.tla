----------------------------- MODULE Datagrams ------------------------------
(***************************************************************************)
(* What the data path promises of the batches it emits: each source numbers *)
(* its batches from 0, every batch is handed over once, and a batch that   *)
(* has been handed over arrives at the diode once or is lost.  Nothing is  *)
(* promised of the order across proxies, and no loss is ever repaired.     *)
(***************************************************************************)
EXTENDS Naturals

CONSTANT Sources

VARIABLES
    count,    \* how many batches each source has handed over
    flight,   \* the batches handed over and neither arrived nor lost
    arrived   \* the batches that have left towards the diode

vars == <<count, flight, arrived>>

Batch == Sources \X Nat

TypeOK ==
    /\ count \in [Sources -> Nat]
    /\ flight \subseteq Batch
    /\ arrived \subseteq Batch

Init ==
    /\ count = [s \in Sources |-> 0]
    /\ flight = {}
    /\ arrived = {}

Hand(s) ==
    /\ flight' = flight \cup {<<s, count[s]>>}
    /\ count' = [count EXCEPT ![s] = @ + 1]
    /\ UNCHANGED arrived

Arrive(m) ==
    /\ m \in flight
    /\ flight' = flight \ {m}
    /\ arrived' = arrived \cup {m}
    /\ UNCHANGED count

Lose(m) ==
    /\ m \in flight
    /\ flight' = flight \ {m}
    /\ UNCHANGED <<count, arrived>>

Next ==
    \/ \E s \in Sources : Hand(s)
    \/ \E m \in flight : Arrive(m) \/ Lose(m)

Spec == Init /\ [][Next]_vars

\* A batch is in flight or has arrived, not both, and its number was given
\* out: no batch is ever emitted twice.
AtMostOnce ==
    /\ flight \cap arrived = {}
    /\ \A m \in flight \cup arrived : m[2] < count[m[1]]
=============================================================================
