------------------------------ MODULE LogPurge ------------------------------
(***************************************************************************)
(* The event log (logger/logger.go): every entry is created as a row of    *)
(* logs, and the one who has created it then counts the rows and deletes   *)
(* the first one as often as there are too many.  Any goroutine logs, and  *)
(* nothing but the database's single statements is atomic.  CLEAR ALL      *)
(* ENTRIES deletes every row (routes/data.go 131-142).                     *)
(*                                                                         *)
(* Abstracted: a row is its ID.  SQLite gives a new row the highest ID of  *)
(* the table plus one.  First finds the lowest ID; when it finds none,     *)
(* gorm refuses the deletion of a row without an ID.                       *)
(* The statements do not fail: of one that does the code takes no notice,  *)
(* and a DELETE that fails is counted as well, so that its row stays until *)
(* the next purge.                                                         *)
(***************************************************************************)
EXTENDS Naturals, FiniteSets

CONSTANTS
    Loggers,     \* goroutines that log
    Capacity,    \* rows that are kept: 1000 in the code
    MaxEntries,  \* entries that are logged: a bound
    Clearing,    \* whether somebody clears the log: both are tried
    None         \* no row

ASSUME LoggersAssumption == IsFiniteSet(Loggers)
ASSUME CapacityAssumption == Capacity \in Nat
ASSUME BoundsAssumption == MaxEntries \in Nat
ASSUME ClearingAssumption == Clearing \subseteq BOOLEAN
ASSUME NoneAssumption == None \notin Nat

VARIABLES
    rows,     \* the IDs of the rows
    entries,  \* how many entries were logged
    pc,       \* where each logger is
    result,   \* the count in its purge
    first,    \* the row its purge is about to delete
    mayClear  \* whether the log is cleared in this behaviour

vars == <<rows, entries, pc, result, first, mayClear>>

TypeOK ==
    /\ rows \subseteq 1 .. MaxEntries
    /\ entries \in 0 .. MaxEntries
    /\ pc \in [Loggers -> {"idle", "count", "first", "delete"}]
    /\ result \in [Loggers -> 0 .. MaxEntries]
    /\ first \in [Loggers -> (1 .. MaxEntries) \cup {None}]
    /\ mayClear \in Clearing
    /\ \A l \in Loggers : pc[l] = "delete" => result[l] > Capacity

Init ==
    /\ rows = {} /\ entries = 0
    /\ pc = [l \in Loggers |-> "idle"]
    /\ result = [l \in Loggers |-> 0]
    /\ first = [l \in Loggers |-> None]
    /\ mayClear \in Clearing

Goto(l, p) == pc' = [pc EXCEPT ![l] = p]

IsNewID(id) ==
    \/ rows = {} /\ id = 1
    \/ id - 1 \in rows /\ \A r \in rows : r < id

\* Log: the entry is created, and purge is called.
Log(l) ==
    /\ pc[l] = "idle" /\ entries < MaxEntries
    /\ entries' = entries + 1
    /\ \E id \in 1 .. MaxEntries : IsNewID(id) /\ rows' = rows \cup {id}
    /\ Goto(l, "count")
    /\ UNCHANGED <<result, first, mayClear>>

Count(l) ==
    /\ pc[l] = "count"
    /\ result' = [result EXCEPT ![l] = Cardinality(rows)]
    /\ Goto(l, "first")
    /\ UNCHANGED <<rows, entries, first, mayClear>>

\* Mutation: the row without an order that First would give.
IsLatest(id) == id \in rows /\ \A r \in rows : id >= r

IsFirst(id) == id \in rows /\ \A r \in rows : id <= r

First(l) ==
    /\ pc[l] = "first" /\ result[l] > Capacity
    /\ \/ \E id \in rows : IsFirst(id) /\ first' = [first EXCEPT ![l] = id]
       \/ rows = {} /\ first' = [first EXCEPT ![l] = None]
    /\ Goto(l, "delete")
    /\ UNCHANGED <<rows, entries, result, mayClear>>

\* Mutation: the result does not go down.
DeleteUncounted(l) ==
    /\ pc[l] = "delete"
    /\ rows' = rows \ {first[l]}
    /\ Goto(l, "first")
    /\ UNCHANGED <<entries, result, first, mayClear>>

Delete(l) ==
    /\ pc[l] = "delete"
    /\ rows' = rows \ {first[l]}
    /\ result' = [result EXCEPT ![l] = @ - 1]
    /\ Goto(l, "first")
    /\ UNCHANGED <<entries, first, mayClear>>

\* Mutation: one row too many stays.
PurgedEarly(l) ==
    /\ pc[l] = "first" /\ result[l] <= Capacity + 1
    /\ Goto(l, "idle")
    /\ UNCHANGED <<rows, entries, result, first, mayClear>>

Purged(l) ==
    /\ pc[l] = "first" /\ result[l] <= Capacity
    /\ Goto(l, "idle")
    /\ UNCHANGED <<rows, entries, result, first, mayClear>>

DeleteDataAllItems ==
    /\ mayClear /\ rows # {}
    /\ rows' = {}
    /\ UNCHANGED <<entries, pc, result, first, mayClear>>

Purge(l) == Count(l) \/ First(l) \/ Delete(l) \/ Purged(l)

Next == DeleteDataAllItems \/ \E l \in Loggers : Log(l) \/ Purge(l)

Spec == Init /\ [][Next]_vars

\* A goroutine that has logged goes on.
FairSpec == Spec /\ \A l \in Loggers : WF_vars(Purge(l))
-----------------------------------------------------------------------------
(***************************************************************************)
(* Properties.                                                             *)
(***************************************************************************)
Working == {l \in Loggers : pc[l] # "idle"}

\* The log stays within its capacity and one row for each goroutine that is
\* still at it, although purges that overlap count the same rows and delete
\* the same first one.
Bounded == Cardinality(rows) <= Capacity + Cardinality(Working)

\* What is deleted is the oldest: the rows that are left are the latest ones,
\* without a gap.  (It takes that the log is never empty, neither cleared nor
\* purged by more goroutines than its capacity is for: IDs then start again, and
\* a purge deletes the new row with the ID it has read.)
OldestGoFirst ==
    ~mayClear => \A id \in 1 .. entries : (\E r \in rows : r <= id) => id \in rows

\* Every purge ends: one that has found too many rows does not chase the
\* entries that come while it deletes.
PurgeEnds == \A l \in Loggers : pc[l] # "idle" ~> pc[l] = "idle"
=============================================================================
