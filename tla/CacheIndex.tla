----------------------------- MODULE CacheIndex -----------------------------
(***************************************************************************)
(* The index of the cache (engine/cache.go 66-103, 127-189, 237-266):      *)
(* cacheInfo, which GetCacheInfo rebuilds for every look at it, and        *)
(* pruneCache every ten seconds; and SEND AGAIN, which looks the selected  *)
(* files up in it.                                                         *)
(*                                                                         *)
(* cacheMutex covers the rebuilding and nothing else: the readers use      *)
(* cacheInfo after it is unlocked.  A panic in a request or in pruneCache  *)
(* is not recovered and ends the process.                                  *)
(*                                                                         *)
(* Abstracted: a file is a number in the order of filepath.Walk; every     *)
(* file has a size, so Size is zero when no item is indexed; the days of   *)
(* retention are a file becoming old.  processMessages is in CacheFiles;   *)
(* here a file may appear.  The open file cannot be removed (Windows).     *)
(***************************************************************************)
EXTENDS Naturals, Sequences, FiniteSets

CONSTANTS
    MaxFile,      \* files 1 to MaxFile: a bound
    Requests,     \* requests that may be at work at once
    MaxRequests,  \* requests of a behaviour: a bound
    MayAge,       \* whether files may pass their retention
    MayGrow,      \* whether files may appear
    Pruner,       \* the goroutine of pruneCache
    None          \* nobody

ASSUME BoundsAssumption == MaxFile \in Nat \ {0} /\ MaxRequests \in Nat
ASSUME PrunerAssumption == Pruner \notin Requests /\ None \notin Requests \cup {Pruner}
ASSUME ChoicesAssumption == MayAge \in BOOLEAN /\ MayGrow \in BOOLEAN

Files == 1 .. MaxFile
Walkers == Requests \cup {Pruner}

VARIABLES
    last,      \* the newest file, which is open
    removed,   \* files pruneCache has removed
    old,       \* files past their retention
    items,     \* cacheInfo.Items
    count,     \* cacheInfo.Count
    lock,      \* who holds cacheMutex
    pc,        \* where each walker is
    todo,      \* the files its walk or its loop has still to look at
    want,      \* the files a request is to send again; {} when it only asks
    lost,      \* those of them that are not sent, as they were not looked up or found
    asked,     \* how many requests there were
    alive,     \* whether the process runs
    proxy      \* whether there was a proxy when the process began

disk == <<last, removed, old>>
index == <<items, count>>
vars == <<disk, index, lock, pc, todo, want, lost, asked, alive, proxy>>

OnDisk == (1 .. last) \ removed

PC == {"idle", "lock", "list", "walk", "unlock", "first", "last", "prune", "remove", "resend", "copy", "dead"}

\* The files of a set in the order of the walk.
Sorted(s) == CHOOSE q \in [1 .. Cardinality(s) -> s] :
                 \A i, j \in 1 .. Cardinality(s) : i < j => q[i] < q[j]

TypeOK ==
    /\ last \in Files /\ removed \subseteq 1 .. last - 1 /\ old \subseteq 1 .. last
    /\ items \in Seq(Files) /\ count \in 0 .. MaxFile
    /\ lock \in Walkers \cup {None}
    /\ pc \in [Walkers -> PC]
    /\ todo \in [Walkers -> Seq(Files)]
    /\ want \in [Requests -> SUBSET Files]
    /\ lost \in [Requests -> SUBSET Files]
    /\ asked \in 0 .. MaxRequests
    /\ alive \in BOOLEAN /\ proxy \in BOOLEAN

Init ==
    /\ last \in Files /\ removed = {} /\ old = {}
    /\ items = <<>> /\ count = 0
    /\ lock = None
    /\ pc = [w \in Walkers |-> "idle"]
    /\ todo = [w \in Walkers |-> <<>>]
    /\ want = [r \in Requests |-> {}]
    /\ lost = [r \in Requests |-> {}]
    /\ asked = 0
    /\ alive = TRUE /\ proxy \in BOOLEAN

Goto(w, l) == pc' = [pc EXCEPT ![w] = l]
Panic == alive' = FALSE /\ pc' = [w \in Walkers |-> "dead"]

\* A new file is opened; the one before it is closed.
NewFile ==
    /\ alive /\ MayGrow /\ last < MaxFile
    /\ last' = last + 1
    /\ UNCHANGED <<removed, old, index, lock, pc, todo, want, lost, asked, alive>>

\* Files grow old in the order they were made.
Age ==
    /\ alive /\ MayAge
    /\ \E f \in (1 .. last) \ old :
          /\ \A g \in 1 .. f - 1 : g \in old
          /\ old' = old \cup {f}
    /\ UNCHANGED <<last, removed, index, lock, pc, todo, want, lost, asked, alive>>

(***************************************************************************)
(* The requests: GetSysInfo, GetFileTransferInfo and its twin ask for the  *)
(* index; ResendCacheItems uses the one that is there if it has a size.    *)
(***************************************************************************)
GetCacheInfo(r) ==
    /\ pc[r] = "idle" /\ asked < MaxRequests
    /\ asked' = asked + 1
    /\ want' = [want EXCEPT ![r] = {}]
    /\ lost' = [lost EXCEPT ![r] = {}]
    /\ Goto(r, "lock")
    /\ UNCHANGED <<disk, index, lock, todo, alive>>

ResendCacheItems(r) ==
    /\ pc[r] = "idle" /\ asked < MaxRequests
    /\ asked' = asked + 1
    /\ \E s \in SUBSET OnDisk \ {{}} :
          /\ want' = [want EXCEPT ![r] = s]
          /\ todo' = [todo EXCEPT ![r] = Sorted(s)]
    /\ lost' = [lost EXCEPT ![r] = {}]
    /\ Goto(r, IF Len(items) = 0 THEN "lock" ELSE "resend")
    /\ UNCHANGED <<disk, index, lock, alive>>

\* GET /system/sendhistory: copyDir walks the directory itself, and only a
\* file it cannot read ends the walk.
SendFullCache(r) ==
    /\ pc[r] = "idle" /\ asked < MaxRequests
    /\ asked' = asked + 1
    /\ todo' = [todo EXCEPT ![r] = Sorted(OnDisk)]
    /\ Goto(r, "copy")
    /\ UNCHANGED <<disk, index, lock, want, lost, alive>>

PruneTick ==
    /\ pc[Pruner] = "idle"
    /\ Goto(Pruner, "lock")
    /\ UNCHANGED <<disk, index, lock, todo, want, lost, asked, alive>>

(***************************************************************************)
(* refreshCache, under cacheMutex.  Walk reads the names of a directory    *)
(* first and looks each of them up then; for a name that is gone it calls  *)
(* indexer with no info, and info.IsDir panics.                            *)
(***************************************************************************)
\* Mutations: the index is not emptied first; the rebuilding does not wait for
\* the mutex.
LockKeepsItems(w) ==
    /\ pc[w] = "lock" /\ lock = None
    /\ lock' = w
    /\ Goto(w, "list")
    /\ UNCHANGED <<disk, index, todo, want, lost, asked, alive>>

LockAnyway(w) ==
    /\ pc[w] = "lock"
    /\ lock' = w
    /\ items' = <<>>
    /\ Goto(w, "list")
    /\ UNCHANGED <<disk, count, todo, want, lost, asked, alive>>

Lock(w) ==
    /\ pc[w] = "lock" /\ lock = None
    /\ lock' = w
    /\ items' = <<>>
    /\ Goto(w, "list")
    /\ UNCHANGED <<disk, count, todo, want, lost, asked, alive>>

ReadNames(w) ==
    /\ pc[w] = "list"
    /\ todo' = [todo EXCEPT ![w] = Sorted(OnDisk)]
    /\ Goto(w, "walk")
    /\ UNCHANGED <<disk, index, lock, want, lost, asked, alive>>

Indexer(w) ==
    /\ pc[w] = "walk" /\ todo[w] # <<>>
    /\ \/ /\ Head(todo[w]) \in OnDisk
          /\ items' = Append(items, Head(todo[w]))
          /\ todo' = [todo EXCEPT ![w] = Tail(@)]
          /\ UNCHANGED <<pc, alive>>
       \/ /\ Head(todo[w]) \notin OnDisk
          /\ Panic
          /\ UNCHANGED <<items, todo>>
    /\ UNCHANGED <<disk, count, lock, want, lost, asked>>

SetCount(w) ==
    /\ pc[w] = "walk" /\ todo[w] = <<>>
    /\ count' = Len(items)
    /\ Goto(w, "unlock")
    /\ UNCHANGED <<disk, items, lock, todo, want, lost, asked, alive>>

Unlock(w) ==
    /\ pc[w] = "unlock"
    /\ lock' = None
    /\ Goto(w, IF w = Pruner THEN "prune" ELSE "first")
    /\ UNCHANGED <<disk, index, todo, want, lost, asked, alive>>

(***************************************************************************)
(* After refreshCache, without the mutex.                                  *)
(***************************************************************************)
Answer(r) ==
    IF want[r] = {}
    THEN Goto(r, "idle") /\ UNCHANGED todo
    ELSE Goto(r, "resend") /\ todo' = [todo EXCEPT ![r] = Sorted(want[r])]

ReadFirst(r) ==
    /\ r \in Requests /\ pc[r] = "first"
    /\ \/ /\ count = 0
          /\ Answer(r)
          /\ UNCHANGED alive
       \/ /\ count > 0 /\ Len(items) > 0
          /\ Goto(r, "last")
          /\ UNCHANGED <<todo, alive>>
       \/ /\ count > 0 /\ Len(items) = 0
          /\ Panic
          /\ UNCHANGED todo
    /\ UNCHANGED <<disk, index, lock, want, lost, asked>>

\* Mutation: the index of the last item is the count.
ReadLastPastEnd(r) ==
    /\ r \in Requests /\ pc[r] = "last"
    /\ \/ /\ count + 1 \in 1 .. Len(items)
          /\ Answer(r)
          /\ UNCHANGED alive
       \/ /\ count + 1 \notin 1 .. Len(items)
          /\ Panic
          /\ UNCHANGED todo
    /\ UNCHANGED <<disk, index, lock, want, lost, asked>>

ReadLast(r) ==
    /\ r \in Requests /\ pc[r] = "last"
    /\ \/ /\ count \in 1 .. Len(items)
          /\ Answer(r)
          /\ UNCHANGED alive
       \/ /\ count \notin 1 .. Len(items)
          /\ Panic
          /\ UNCHANGED todo
    /\ UNCHANGED <<disk, index, lock, want, lost, asked>>

\* Without a proxy, of which only the presence is asked, none is looked up.
NoProxy(r) ==
    /\ r \in Requests /\ pc[r] = "resend" /\ ~proxy /\ todo[r] # <<>>
    /\ lost' = [lost EXCEPT ![r] = want[r]]
    /\ todo' = [todo EXCEPT ![r] = <<>>]
    /\ UNCHANGED <<disk, index, lock, pc, want, asked, alive>>

\* One selected file: the loop over cacheInfo.Items.  A copy that fails, of a
\* file that is gone or otherwise, is logged and counted like one that does not.
Indexed(f) == \E i \in 1 .. Len(items) : items[i] = f

Resend(r) ==
    /\ r \in Requests /\ pc[r] = "resend" /\ proxy /\ todo[r] # <<>>
    /\ LET f == Head(todo[r])
       IN  lost' = [lost EXCEPT ![r] = IF Indexed(f) THEN @ ELSE @ \cup {f}]
    /\ todo' = [todo EXCEPT ![r] = Tail(@)]
    /\ UNCHANGED <<disk, index, lock, pc, want, asked, alive>>

Resent(r) ==
    /\ r \in Requests /\ pc[r] = "resend" /\ todo[r] = <<>>
    /\ Goto(r, "idle")
    /\ want' = [want EXCEPT ![r] = {}]
    /\ lost' = [lost EXCEPT ![r] = {}]
    /\ UNCHANGED <<disk, index, lock, todo, asked, alive>>

\* copyDir's function of one name: for a file that is gone the walk has no info
\* to ask, or, if it goes between that and the reading, the copy is given up, as
\* it is when the file cannot be read or its copy not be written.
CopyOne(r) ==
    /\ r \in Requests /\ pc[r] = "copy" /\ todo[r] # <<>>
    /\ \/ /\ Head(todo[r]) \in OnDisk
          /\ todo' = [todo EXCEPT ![r] = Tail(@)]
          /\ UNCHANGED <<pc, alive>>
       \/ Head(todo[r]) \notin OnDisk /\ Panic /\ UNCHANGED todo
       \/ Goto(r, "idle") /\ UNCHANGED <<todo, alive>>
    /\ UNCHANGED <<disk, index, lock, want, lost, asked>>

CopiedAll(r) ==
    /\ r \in Requests /\ pc[r] = "copy" /\ todo[r] = <<>>
    /\ Goto(r, "idle")
    /\ UNCHANGED <<disk, index, lock, todo, want, lost, asked, alive>>

\* pruneCache after its refresh: the range keeps the slice it finds, whose
\* elements stay as they are, as a rebuilt index has an array of its own.
BeginPrune ==
    /\ pc[Pruner] = "prune"
    /\ todo' = [todo EXCEPT ![Pruner] = items]
    /\ Goto(Pruner, "remove")
    /\ UNCHANGED <<disk, index, lock, want, lost, asked, alive>>

\* os.Remove of the open file fails, and nobody looks.
Remove ==
    /\ pc[Pruner] = "remove" /\ todo[Pruner] # <<>>
    /\ LET f == Head(todo[Pruner])
       IN  removed' = IF f \in old /\ f # last THEN removed \cup {f} ELSE removed
    /\ todo' = [todo EXCEPT ![Pruner] = Tail(@)]
    /\ UNCHANGED <<last, old, index, lock, pc, want, lost, asked, alive>>

\* Mutation: the goroutine ends after its first round.
PrunedReturns ==
    /\ pc[Pruner] = "remove" /\ todo[Pruner] = <<>>
    /\ Goto(Pruner, "dead")
    /\ UNCHANGED <<disk, index, lock, todo, want, lost, asked, alive>>

Pruned ==
    /\ pc[Pruner] = "remove" /\ todo[Pruner] = <<>>
    /\ Goto(Pruner, "idle")
    /\ UNCHANGED <<disk, index, lock, todo, want, lost, asked, alive>>

\* What a walker does once it is at work.
Refresh(w) == Lock(w) \/ ReadNames(w) \/ Indexer(w) \/ SetCount(w) \/ Unlock(w)
Use(r) == \/ ReadFirst(r) \/ ReadLast(r) \/ NoProxy(r) \/ Resend(r) \/ Resent(r)
          \/ CopyOne(r) \/ CopiedAll(r)
PruneCache == BeginPrune \/ Remove \/ Pruned

Next ==
    /\ \/ NewFile \/ Age \/ PruneTick \/ PruneCache
       \/ \E w \in Walkers : Refresh(w)
       \/ \E r \in Requests : \/ GetCacheInfo(r) \/ ResendCacheItems(r)
                              \/ SendFullCache(r) \/ Use(r)
    /\ UNCHANGED proxy

Spec == Init /\ [][Next]_vars

\* Goroutines run on and the ticker ticks.  There are finitely many requests,
\* so the pruner cannot starve, and weak fairness is enough.
FairSpec ==
    /\ Spec
    /\ WF_vars((PruneTick \/ Refresh(Pruner) \/ PruneCache) /\ UNCHANGED proxy)
    /\ \A r \in Requests : WF_vars((Refresh(r) \/ Use(r)) /\ UNCHANGED proxy)
-----------------------------------------------------------------------------
(***************************************************************************)
(* Properties.                                                             *)
(***************************************************************************)
\* Whatever rebuilds meet, the index is of one walk: no file is in it twice, the
\* first and the last item, whose times GetCacheInfo reports (cache.go:69, :70),
\* are the oldest and the newest in it, and when the mutex is free the count is
\* that of the items and a file that is not among them is newer than all.
IndexIsOneWalk ==
    /\ \A i, j \in 1 .. Len(items) : i < j => items[i] < items[j]
    /\ lock = None =>
          /\ count = Len(items)
          /\ \A f \in OnDisk : Indexed(f) \/ \A i \in 1 .. Len(items) : items[i] < f

\* Where there is a proxy, a selected file that is there is found, unless the
\* index is being rebuilt at that moment or is older than the file: however the
\* rebuilds of requests and pruneCache meet and files come and go, what they
\* leave in cacheInfo is the whole of one walk.
SelectedAreFound ==
    [][proxy => \A r \in Requests : \A f \in lost'[r] \ lost[r] :
          f \in removed \/ lock # None \/ \A i \in DOMAIN items : items[i] < f]_vars

\* The process dies in here only while somebody walks over the files, and, as
\* long as there is nothing to prune, only when two walkers overlap: a request
\* finds in the index it has built what its count says (cache.go:69, :70).
DiesByOverlap ==
    [][alive /\ ~alive' =>
          /\ lock # None \/ \E r \in Requests : pc[r] = "copy"
          /\ old = {} => \E v, w \in Walkers : v # w /\ pc[v] # "idle" /\ pc[w] # "idle"]_vars

\* A file past its retention is in the end removed, unless it is the open one
\* or the process has died: no rebuild makes pruneCache miss a file for good.
OldAreRemoved == \A f \in Files : (f \in old /\ f < last) ~> (f \in removed \/ ~alive)

\* Not run, TLC refutes it: "Checking the files ... and clicking SEND AGAIN will
\* copy the selected files" (USERINTERFACE.md:131), those that are still there.
\* An index that is being rebuilt does not have them, and without a proxy none
\* is copied.
SelectedAreCopied == \A r \in Requests : lost[r] \subseteq removed
=============================================================================
