-------------------------- MODULE CacheIndexProofs --------------------------
(***************************************************************************)
(* Proofs about CacheIndex, for every set of requests and any number of    *)
(* files: TypeOK, DiesByOverlap and SelectedAreFound, from one inductive   *)
(* invariant:                                                              *)
(*   - Mutex: who rebuilds the index holds cacheMutex;                     *)
(*   - Known: whoever looks at a file looks at one that is there or was    *)
(*     past its retention;                                                 *)
(*   - Walk: the index is in the order of the walk, and a file that is     *)
(*     there is in it, is still to come in the walk, or is newer than all  *)
(*     of both; so what a walk leaves is whole;                            *)
(*   - Counted: a request that reads the last item has seen a count.       *)
(***************************************************************************)
EXTENDS CacheIndex, FiniteSetTheorems, TLAPS

Increasing(q) == \A i, j \in 1 .. Len(q) : i < j => q[i] < q[j]

(***************************************************************************)
(* Sorted.  The place of a file is how many files of the set there are up  *)
(* to it; from place to file, this is the sequence.                        *)
(***************************************************************************)
UpTo(s, f) == {g \in s : g <= f}
Place(s) == [f \in s |-> Cardinality(UpTo(s, f))]

LEMMA FilesFinite ==
    ASSUME NEW s, s \subseteq Files
    PROVE  IsFiniteSet(s) /\ Cardinality(s) \in 0 .. MaxFile
  <1>1. IsFiniteSet(Files) /\ Cardinality(Files) = MaxFile
    BY FS_Interval, BoundsAssumption DEF Files
  <1>2. IsFiniteSet(s) /\ Cardinality(s) <= Cardinality(Files)
    BY <1>1, FS_Subset
  <1> QED
    BY <1>1, <1>2, FS_CardinalityType

LEMMA PlaceGrows ==
    ASSUME NEW s, s \subseteq Files, NEW f \in s, NEW g \in s
    PROVE  /\ Place(s)[f] \in 1 .. Cardinality(s)
           /\ f < g => Place(s)[f] < Place(s)[g]
  <1>1. f \in Nat /\ g \in Nat /\ s \subseteq Nat
    BY BoundsAssumption DEF Files
  <1>2. UpTo(s, f) \subseteq s /\ f \in UpTo(s, f)
    BY <1>1 DEF UpTo
  <1>3. /\ IsFiniteSet(s) /\ Cardinality(s) \in Nat
        /\ IsFiniteSet(UpTo(s, f)) /\ Cardinality(UpTo(s, f)) \in Nat
        /\ IsFiniteSet(UpTo(s, g)) /\ Cardinality(UpTo(s, g)) \in Nat
    BY <1>2, FilesFinite, BoundsAssumption DEF UpTo
  <1>4. Cardinality(UpTo(s, f)) <= Cardinality(s)
    BY <1>2, <1>3, FS_Subset
  <1>5. Cardinality(UpTo(s, f)) # 0
    BY <1>2, <1>3, FS_EmptySet
  <1>6. ASSUME f < g
        PROVE  Cardinality(UpTo(s, f)) < Cardinality(UpTo(s, g))
    <2>1. UpTo(s, f) \subseteq UpTo(s, g) /\ g \in UpTo(s, g) /\ g \notin UpTo(s, f)
        <3>1. ~(g <= f) /\ \A h \in s : h <= f => h <= g
        BY <1>1, <1>6
      <3>2. g <= g
        BY <1>1
      <3> QED
        BY <3>1, <3>2 DEF UpTo
    <2>2. /\ Cardinality(UpTo(s, f)) <= Cardinality(UpTo(s, g))
          /\ Cardinality(UpTo(s, f)) # Cardinality(UpTo(s, g))
      BY <1>3, <2>1, FS_Subset
    <2> QED
      BY <1>3, <2>2
  <1> QED
    BY <1>3, <1>4, <1>5, <1>6 DEF Place

IsSorted(q, s) ==
    /\ q \in [1 .. Cardinality(s) -> s]
    /\ \A i, j \in 1 .. Cardinality(s) : i < j => q[i] < q[j]

LEMMA CanSort ==
    ASSUME NEW s, s \subseteq Files
    PROVE  \E q : IsSorted(q, s)
  <1> DEFINE n == Cardinality(s)
             p == Place(s)
  <1>0. n \in Nat /\ IsFiniteSet(s)
    BY FilesFinite, BoundsAssumption
  <1>1. n \in Nat /\ IsFiniteSet(s) /\ s \subseteq Nat
    BY <1>0 DEF Files
  <1>2. p \in [s -> 1 .. n]
    BY PlaceGrows DEF Place
  <1>3. \A f, g \in s : p[f] = p[g] => f = g
    <2> SUFFICES ASSUME NEW f \in s, NEW g \in s, p[f] = p[g] PROVE f = g
      OBVIOUS
    <2>1. ~(f < g) /\ ~(g < f) /\ f \in Nat /\ g \in Nat
      <3>1. p[f] \in 1 .. n
        BY <1>2
      <3> HIDE DEF p, n
      <3>2. ~(p[f] < p[g]) /\ ~(p[g] < p[f])
        BY <1>1, <3>1
      <3> QED
        BY <1>1, <3>2, PlaceGrows DEF p
    <2> QED
      BY <2>1
  <1>4. p \in Injection(s, 1 .. n)
    BY <1>2, <1>3 DEF Injection, IsInjective
  <1>5. IsFiniteSet(1 .. n) /\ Cardinality(1 .. n) = n
    BY <1>1, FS_Interval
  <1>6. p \in Surjection(s, 1 .. n)
    BY <1>4, <1>5, FS_Injection
  <1>7. \A i \in 1 .. n : \E f \in s : p[f] = i
    BY <1>6 DEF Surjection
  <1> DEFINE q == [i \in 1 .. n |-> CHOOSE f \in s : p[f] = i]
  <1>8. \A i \in 1 .. n : q[i] \in s /\ p[q[i]] = i
    BY <1>7
  <1>9. q \in [1 .. n -> s]
    BY <1>8
  <1> HIDE DEF q
  <1>10. ASSUME NEW i \in 1 .. n, NEW j \in 1 .. n, i < j
         PROVE  q[i] < q[j]
    <2>1. /\ q[i] \in Nat /\ q[j] \in Nat
      BY <1>1, <1>8
    <2>2. ~(q[j] < q[i])
      <3>1. p[q[i]] = i /\ p[q[j]] = j /\ ~(j < i)
        BY <1>1, <1>8, <1>10
      <3> HIDE DEF p
      <3>2. q[j] < q[i] => p[q[j]] < p[q[i]]
        BY <1>8, PlaceGrows DEF p
      <3> QED
        BY <3>1, <3>2
    <2>3. q[i] # q[j]
      <3>1. p[q[i]] = i /\ p[q[j]] = j /\ i # j
        BY <1>1, <1>8, <1>10
      <3> QED
        BY <3>1
    <2> QED
      BY <2>1, <2>2, <2>3
  <1> QED
    BY <1>9, <1>10 DEF IsSorted

LEMMA SortedFacts ==
    ASSUME NEW s, s \subseteq Files
    PROVE  /\ Sorted(s) \in Seq(Files) /\ Increasing(Sorted(s))
           /\ \A i \in 1 .. Len(Sorted(s)) : Sorted(s)[i] \in s
           /\ \A f \in s : \E i \in 1 .. Len(Sorted(s)) : Sorted(s)[i] = f
           /\ s # {} => Sorted(s) # <<>>
  <1> DEFINE n == Cardinality(s)
             q == Sorted(s)
  <1>0. n \in Nat /\ IsFiniteSet(s)
    BY FilesFinite, BoundsAssumption
  <1>1. n \in Nat /\ IsFiniteSet(s) /\ s \subseteq Nat
    BY <1>0 DEF Files
  <1>2. IsSorted(q, s)
    BY CanSort DEF IsSorted, Sorted
  <1>3. q \in [1 .. n -> s] /\ \A i, j \in 1 .. n : i < j => q[i] < q[j]
    BY <1>2 DEF IsSorted
  <1> HIDE DEF q
  <1>4. q \in Seq(Files) /\ Len(q) = n
    <2>1. q \in [1 .. n -> Files]
      BY <1>3
    <2> HIDE DEF n
    <2> QED
      BY <1>1, <2>1
  <1>5. \A f \in s : \E i \in 1 .. n : q[i] = f
    <2>1. \A i, j \in 1 .. n : q[i] = q[j] => i = j
      <3> SUFFICES ASSUME NEW i \in 1 .. n, NEW j \in 1 .. n, q[i] = q[j]
                   PROVE  i = j
        OBVIOUS
      <3>0. q[i] \in s
        BY <1>3
      <3>1. i \in Nat /\ j \in Nat
        BY <1>1
      <3>4. q[i] \in Nat
        BY <1>1, <3>0
      <3> HIDE DEF n
      <3>2. ~(i < j) /\ ~(j < i)
        BY <1>3, <3>1, <3>4
      <3> QED
        BY <3>1, <3>2
    <2>2. q \in Injection(1 .. n, s)
      BY <1>3, <2>1 DEF Injection, IsInjective
    <2>3. Cardinality(1 .. n) = n
      BY <1>1, FS_Interval
    <2>4. q \in Surjection(1 .. n, s)
      BY <1>1, <2>2, <2>3, FS_Injection
    <2> QED
      BY <2>4 DEF Surjection
  <1>6. s # {} => n # 0
    BY <1>1, FS_EmptySet
  <1> QED
    BY <1>1, <1>3, <1>4, <1>5, <1>6 DEF q, Increasing
-----------------------------------------------------------------------------
(***************************************************************************)
(* The inductive invariant: the index is rebuilt by the holder of the      *)
(* mutex, from the names it has read in their order, and what a walk       *)
(* leaves is the whole of it.                                              *)
(***************************************************************************)
Refreshes(w) == pc[w] \in {"list", "walk", "unlock"}
Mutex == alive => \A w \in Walkers : Refreshes(w) <=> lock = w
Alive == \A w \in Walkers : alive <=> pc[w] # "dead"

Known ==
    /\ removed \subseteq old
    /\ \A w \in Walkers : \A i \in 1 .. Len(todo[w]) : todo[w][i] <= last
    /\ \A i \in 1 .. Len(items) : items[i] <= last
    /\ \A r \in Requests : want[r] \subseteq 1 .. last

Newer(f) == \A i \in 1 .. Len(items) : items[i] < f
Pending(w, f) == \E i \in 1 .. Len(todo[w]) : todo[w][i] = f

Settled ==
    /\ count = Len(items)
    /\ \A f \in OnDisk : Indexed(f) \/ Newer(f)

InOrder(w) ==
    /\ Increasing(todo[w])
    /\ \A i \in 1 .. Len(todo[w]) : Newer(todo[w][i])

Complete(w) ==
    /\ items # <<>> \/ todo[w] # <<>>
    /\ \A f \in OnDisk :
          \/ Indexed(f) \/ Pending(w, f)
          \/ Newer(f) /\ \A i \in 1 .. Len(todo[w]) : todo[w][i] < f

Walk ==
    /\ Increasing(items)
    /\ lock = None => Settled
    /\ \A w \in Walkers :
          /\ pc[w] = "list" => items = <<>>
          /\ pc[w] = "walk" => InOrder(w) /\ Complete(w)
          /\ pc[w] = "unlock" => Settled

Counted == \A r \in Requests : pc[r] = "last" => count > 0
-----------------------------------------------------------------------------
(***************************************************************************)
(* TypeOK.  An index that is in order is not longer than there are files.  *)
(***************************************************************************)
LEMMA IncreasingLength ==
    ASSUME NEW q \in Seq(Files), Increasing(q)
    PROVE  Len(q) \in 0 .. MaxFile
  <1>1. Len(q) \in Nat /\ \A i \in 1 .. Len(q) : q[i] \in Files
    OBVIOUS
  <1>2. Files \subseteq Nat
    BY DEF Files
  <1>3. \A i, j \in 1 .. Len(q) : q[i] = q[j] => i = j
    <2> SUFFICES ASSUME NEW i \in 1 .. Len(q), NEW j \in 1 .. Len(q), q[i] = q[j]
                 PROVE  i = j
      OBVIOUS
    <2>1. q[i] \in Nat
      BY <1>1, <1>2
    <2>2. ~(i < j) /\ ~(j < i)
      BY <2>1 DEF Increasing
    <2> QED
      BY <1>1, <2>2
  <1> DEFINE f == [i \in 1 .. Len(q) |-> q[i]]
  <1>4. f \in Injection(1 .. Len(q), Files)
    BY <1>1, <1>3 DEF Injection, IsInjective
  <1>5. IsFiniteSet(Files) /\ Cardinality(Files) = MaxFile
    BY FS_Interval, BoundsAssumption DEF Files
  <1>6. Cardinality(1 .. Len(q)) = Len(q)
    <2> DEFINE n == Len(q)
    <2>1. n \in Nat
      BY <1>1
    <2> HIDE DEF n
    <2>2. Cardinality(1 .. n) = n
      BY <2>1, FS_Interval
    <2> QED
      BY <2>2 DEF n
  <1> HIDE DEF f
  <1>7. Len(q) <= MaxFile
    BY <1>4, <1>5, <1>6, FS_Injection
  <1> QED
    BY <1>1, <1>7, BoundsAssumption

LEMMA OnDiskFiles ==
    ASSUME TypeOK
    PROVE  /\ OnDisk \subseteq Files /\ OnDisk \subseteq 1 .. last /\ OnDisk # {}
           /\ last \in Nat /\ last \in Files /\ 1 .. last \subseteq Files
  <1>1. last \in Nat /\ last >= 1 /\ last <= MaxFile
    BY BoundsAssumption DEF TypeOK, Files
  <1>2. last \in OnDisk
    BY <1>1 DEF TypeOK, OnDisk
  <1>3. 1 .. last \subseteq Files
    BY <1>1, BoundsAssumption DEF Files
  <1> QED
    BY <1>1, <1>2, <1>3 DEF OnDisk, TypeOK

LEMMA TailFacts ==
    ASSUME NEW S, NEW q \in Seq(S), q # <<>>
    PROVE  /\ Tail(q) \in Seq(S) /\ Len(q) \in Nat \ {0}
           /\ Len(Tail(q)) = Len(q) - 1
           /\ Head(q) = q[1] /\ Head(q) \in S
           /\ \A i \in 1 .. Len(q) - 1 : Tail(q)[i] = q[i + 1]
  OBVIOUS

\* Where a step leads to, and that it leaves the rest of the types.
LEMMA InitTyped == Init => TypeOK
  <1> SUFFICES ASSUME Init PROVE TypeOK
    OBVIOUS
  <1>1. MaxFile \in Nat /\ MaxRequests \in Nat /\ <<>> \in Seq(Files)
    BY BoundsAssumption
  <1> QED
    BY <1>1 DEF Init, TypeOK, PC

LEMMA ProcessTyped ==
    ASSUME TypeOK, Walk, UNCHANGED proxy,
           \/ NewFile \/ Age \/ PruneTick \/ PruneCache
    PROVE  TypeOK'
  <1> USE DEF Goto, PC, disk, index
  <1>0. Pruner \in Walkers /\ last \in Nat /\ last \in Files /\ 1 .. last \subseteq Files
    BY OnDiskFiles DEF Walkers
  <1>1. CASE NewFile
    <2>1. last' = last + 1 /\ last + 1 \in Files
      BY <1>0, <1>1, BoundsAssumption DEF NewFile, Files
    <2>2. removed \subseteq 1 .. last /\ old \subseteq 1 .. last + 1
      BY <1>0 DEF TypeOK
    <2>3. removed' \subseteq 1 .. last' - 1 /\ old' \subseteq 1 .. last'
      BY <1>0, <1>1, <2>1, <2>2 DEF NewFile
    <2> QED
      BY <1>1, <2>1, <2>3 DEF NewFile, TypeOK
  <1>2. CASE Age
    BY <1>2 DEF Age, TypeOK
  <1>3. CASE PruneTick
    BY <1>0, <1>3 DEF PruneTick, TypeOK
  <1>4. CASE BeginPrune
    BY <1>0, <1>4 DEF BeginPrune, TypeOK
  <1>5. CASE Remove
    <2>1. todo[Pruner] \in Seq(Files)
      BY <1>0 DEF TypeOK
    <2>2. Tail(todo[Pruner]) \in Seq(Files)
      BY <1>5, <2>1, TailFacts DEF Remove
    <2>3. removed' \subseteq 1 .. last - 1
      <3> DEFINE f == Head(todo[Pruner])
      <3>1. removed' = IF f \in old /\ f # last THEN removed \cup {f} ELSE removed
        BY <1>5 DEF Remove
      <3>2. f \in old /\ f # last => f \in 1 .. last - 1
        <4> HIDE DEF f
        <4> QED
          BY <1>0 DEF TypeOK
      <3> QED
        BY <3>1, <3>2 DEF TypeOK
    <2> QED
      BY <1>0, <1>5, <2>2, <2>3 DEF Remove, TypeOK
  <1>6. CASE Pruned
    BY <1>0, <1>6 DEF Pruned, TypeOK
  <1> QED
    BY <1>1, <1>2, <1>3, <1>4, <1>5, <1>6 DEF PruneCache

LEMMA RefreshTyped ==
    ASSUME TypeOK, Walk, UNCHANGED proxy, NEW w \in Walkers, Refresh(w)
    PROVE  TypeOK'
  <1> USE DEF Goto, PC, disk, index
  <1>1. CASE Lock(w)
    BY <1>1 DEF Lock, TypeOK
  <1>2. CASE ReadNames(w)
    <2>1. Sorted(OnDisk) \in Seq(Files)
      BY OnDiskFiles, SortedFacts
    <2> QED
      BY <1>2, <2>1 DEF ReadNames, TypeOK
  <1>3. CASE Indexer(w)
    <2>1. todo[w] \in Seq(Files) /\ items \in Seq(Files)
      BY DEF TypeOK
    <2>2. Tail(todo[w]) \in Seq(Files) /\ Head(todo[w]) \in Files
      BY <1>3, <2>1, TailFacts DEF Indexer
    <2>3. Append(items, Head(todo[w])) \in Seq(Files)
      BY <2>1, <2>2
    <2>4. items' \in Seq(Files) /\ todo' \in [Walkers -> Seq(Files)]
      BY <1>3, <2>1, <2>2, <2>3 DEF Indexer, TypeOK
    <2>5. pc' \in [Walkers -> PC] /\ alive' \in BOOLEAN
      BY <1>3 DEF Indexer, Panic, TypeOK
    <2> QED
      BY <1>3, <2>4, <2>5 DEF Indexer, TypeOK
  <1>4. CASE SetCount(w)
    <2>1. count' \in 0 .. MaxFile
      BY <1>4, IncreasingLength DEF SetCount, TypeOK, Walk
    <2> QED
      BY <1>4, <2>1 DEF SetCount, TypeOK
  <1>5. CASE Unlock(w)
    BY <1>5 DEF Unlock, TypeOK
  <1> QED
    BY <1>1, <1>2, <1>3, <1>4, <1>5 DEF Refresh

\* What GetCacheInfo goes on with, or a request that dies.
LEMMA AnswerTyped ==
    ASSUME TypeOK, NEW r \in Requests, Answer(r)
    PROVE  pc' \in [Walkers -> PC] /\ todo' \in [Walkers -> Seq(Files)]
  <1>1. r \in Walkers /\ Sorted(want[r]) \in Seq(Files)
    BY SortedFacts DEF Walkers, TypeOK
  <1> QED
    BY <1>1 DEF Answer, Goto, PC, TypeOK

LEMMA RequestTyped ==
    ASSUME TypeOK, UNCHANGED proxy, NEW r \in Requests,
           \/ GetCacheInfo(r) \/ ResendCacheItems(r) \/ SendFullCache(r)
           \/ Use(r)
    PROVE  TypeOK'
  <1> USE DEF PC, disk, index
  <1>0. r \in Walkers /\ todo[r] \in Seq(Files)
    BY DEF Walkers, TypeOK
  <1>1. CASE GetCacheInfo(r)
    BY <1>0, <1>1, BoundsAssumption DEF GetCacheInfo, Goto, TypeOK
  <1>2. CASE ResendCacheItems(r)
    <2>1. PICK s \in SUBSET OnDisk \ {{}} :
             /\ want' = [want EXCEPT ![r] = s]
             /\ todo' = [todo EXCEPT ![r] = Sorted(s)]
      BY <1>2 DEF ResendCacheItems
    <2>2. s \subseteq Files /\ Sorted(s) \in Seq(Files)
      BY <2>1, OnDiskFiles, SortedFacts
    <2>3. /\ want' \in [Requests -> SUBSET Files]
          /\ todo' \in [Walkers -> Seq(Files)]
      BY <1>0, <2>1, <2>2 DEF TypeOK
    <2> QED
      BY <1>0, <1>2, <2>3, BoundsAssumption DEF ResendCacheItems, Goto, TypeOK
  <1>3. CASE SendFullCache(r)
    <2>1. Sorted(OnDisk) \in Seq(Files)
      BY OnDiskFiles, SortedFacts
    <2> QED
      BY <1>0, <1>3, <2>1, BoundsAssumption DEF SendFullCache, Goto, TypeOK
  <1>4. CASE ReadFirst(r) \/ ReadLast(r)
    <2>1. pc' \in [Walkers -> PC] /\ todo' \in [Walkers -> Seq(Files)]
      BY <1>0, <1>4, AnswerTyped DEF ReadFirst, ReadLast, Panic, Goto, TypeOK
    <2>2. alive' \in BOOLEAN
      BY <1>4 DEF ReadFirst, ReadLast, Panic, TypeOK
    <2>3. UNCHANGED <<disk, index, lock, want, lost, asked>>
      BY <1>4 DEF ReadFirst, ReadLast
    <2> QED
      BY <2>1, <2>2, <2>3 DEF TypeOK
  <1>5. CASE NoProxy(r)
    <2>1. <<>> \in Seq(Files) /\ want[r] \in SUBSET Files
      BY DEF TypeOK
    <2>2. /\ lost' \in [Requests -> SUBSET Files]
          /\ todo' \in [Walkers -> Seq(Files)]
      BY <1>0, <1>5, <2>1 DEF NoProxy, TypeOK
    <2> QED
      BY <1>5, <2>2 DEF NoProxy, TypeOK
  <1>9. CASE Resend(r)
    <2>1. Tail(todo[r]) \in Seq(Files) /\ Head(todo[r]) \in Files
      BY <1>0, <1>9, TailFacts DEF Resend
    <2>2. /\ lost' \in [Requests -> SUBSET Files]
          /\ todo' \in [Walkers -> Seq(Files)]
      BY <1>0, <1>9, <2>1 DEF Resend, TypeOK
    <2> QED
      BY <1>9, <2>2 DEF Resend, TypeOK
  <1>6. CASE Resent(r)
    BY <1>0, <1>6 DEF Resent, Goto, TypeOK
  <1>7. CASE CopyOne(r)
    <2>1. Tail(todo[r]) \in Seq(Files)
      BY <1>0, <1>7, TailFacts DEF CopyOne
    <2>2. /\ pc' \in [Walkers -> PC] /\ todo' \in [Walkers -> Seq(Files)]
          /\ alive' \in BOOLEAN
      BY <1>0, <1>7, <2>1 DEF CopyOne, Panic, Goto, TypeOK
    <2> QED
      BY <1>7, <2>2 DEF CopyOne, TypeOK
  <1>8. CASE CopiedAll(r)
    BY <1>0, <1>8 DEF CopiedAll, Goto, TypeOK
  <1> QED
    BY <1>1, <1>2, <1>3, <1>4, <1>5, <1>9, <1>6, <1>7, <1>8 DEF Use

LEMMA NextTyped == TypeOK /\ Walk /\ [Next]_vars => TypeOK'
  <1>1. TypeOK /\ UNCHANGED vars => TypeOK'
    BY DEF TypeOK, vars, disk, index
  <1> QED
    BY <1>1, ProcessTyped, RefreshTyped, RequestTyped DEF Next
-----------------------------------------------------------------------------
(***************************************************************************)
(* The mutex, and the files that are known.                                *)
(***************************************************************************)
LEMMA NextMutex == TypeOK /\ Mutex /\ [Next]_vars => Mutex'
  <1> SUFFICES ASSUME TypeOK, Mutex, [Next]_vars, alive'
               PROVE  \A w \in Walkers : Refreshes(w)' <=> lock' = w
    BY DEF Mutex
  <1> USE DEF TypeOK, Refreshes, Goto, Panic
  <1>1. alive /\ \A w \in Walkers : Refreshes(w) <=> lock = w
    <2>1. alive
      BY DEF Next, vars, NewFile, Age, PruneTick, PruneCache, BeginPrune, Remove,
             Pruned, Refresh, Lock, ReadNames, Indexer, SetCount, Unlock,
             GetCacheInfo, ResendCacheItems, SendFullCache, Use, ReadFirst,
             ReadLast, NoProxy, Resend, Resent, CopyOne, CopiedAll
    <2> QED
      BY <2>1 DEF Mutex
  <1>2. Pruner \in Walkers /\ Requests \subseteq Walkers /\ None \notin Walkers
    BY PrunerAssumption DEF Walkers
  <1>3. CASE UNCHANGED vars
    BY <1>1, <1>3 DEF vars
  <1>4. CASE NewFile \/ Age \/ PruneTick \/ PruneCache
    BY <1>1, <1>2, <1>4
    DEF NewFile, Age, PruneTick, PruneCache, BeginPrune, Remove, Pruned
  <1>5. ASSUME NEW v \in Walkers, Refresh(v)
        PROVE  \A w \in Walkers : Refreshes(w)' <=> lock' = w
    <2>1. CASE Lock(v)
      BY <1>1, <1>2, <2>1 DEF Lock
    <2>2. CASE ReadNames(v) \/ Indexer(v) \/ SetCount(v)
      BY <1>1, <2>2 DEF ReadNames, Indexer, SetCount
    <2>3. CASE Unlock(v)
      BY <1>1, <1>2, <2>3 DEF Unlock
    <2> QED
      BY <1>5, <2>1, <2>2, <2>3 DEF Refresh
  <1>6. ASSUME NEW r \in Requests,
               \/ GetCacheInfo(r) \/ ResendCacheItems(r) \/ SendFullCache(r)
               \/ Use(r)
        PROVE  \A w \in Walkers : Refreshes(w)' <=> lock' = w
    <2>1. CASE GetCacheInfo(r) \/ ResendCacheItems(r) \/ SendFullCache(r)
      BY <1>1, <1>2, <2>1 DEF GetCacheInfo, ResendCacheItems, SendFullCache
    <2>2. CASE ReadFirst(r) \/ ReadLast(r)
      BY <1>1, <1>2, <2>2 DEF ReadFirst, ReadLast, Answer
    <2>3. CASE NoProxy(r) \/ Resend(r) \/ Resent(r) \/ CopyOne(r) \/ CopiedAll(r)
      BY <1>1, <1>2, <2>3 DEF NoProxy, Resend, Resent, CopyOne, CopiedAll
    <2> QED
      BY <1>6, <2>1, <2>2, <2>3 DEF Use
  <1> QED
    BY <1>3, <1>4, <1>5, <1>6 DEF Next

LEMMA NextAlive == TypeOK /\ Alive /\ [Next]_vars => Alive'
  <1> SUFFICES ASSUME TypeOK, Alive, [Next]_vars PROVE Alive'
    OBVIOUS
  <1> USE DEF TypeOK, Alive, Goto, Panic
  <1>1. Pruner \in Walkers /\ Requests \subseteq Walkers
    BY DEF Walkers
  <1>2. CASE UNCHANGED vars
    BY <1>2 DEF vars
  <1>3. CASE NewFile \/ Age \/ PruneTick \/ PruneCache
    BY <1>1, <1>3
    DEF NewFile, Age, PruneTick, PruneCache, BeginPrune, Remove, Pruned
  <1>4. ASSUME NEW v \in Walkers, Refresh(v)
        PROVE  Alive'
    BY <1>4 DEF Refresh, Lock, ReadNames, Indexer, SetCount, Unlock
  <1>5. ASSUME NEW r \in Requests,
               \/ GetCacheInfo(r) \/ ResendCacheItems(r) \/ SendFullCache(r)
               \/ Use(r)
        PROVE  Alive'
    BY <1>1, <1>5
    DEF GetCacheInfo, ResendCacheItems, SendFullCache, Use, ReadFirst, ReadLast,
        Answer, NoProxy, Resend, Resent, CopyOne, CopiedAll
  <1> QED
    BY <1>2, <1>3, <1>4, <1>5 DEF Next

\* Files that a walker looks at are there at the moment, or were.
TodoKnown(w) == \A i \in 1 .. Len(todo[w]) : todo[w][i] <= last

LEMMA SortedKnown ==
    ASSUME TypeOK, NEW s, s \subseteq 1 .. last
    PROVE  \A i \in 1 .. Len(Sorted(s)) : Sorted(s)[i] <= last
  <1>1. s \subseteq Files /\ \A f \in s : f <= last
    BY OnDiskFiles
  <1> QED
    BY <1>1, SortedFacts

LEMMA TailKnown ==
    ASSUME TypeOK, NEW w \in Walkers, todo[w] # <<>>, TodoKnown(w)
    PROVE  /\ \A i \in 1 .. Len(Tail(todo[w])) : Tail(todo[w])[i] <= last
           /\ Head(todo[w]) <= last
  <1>1. todo[w] \in Seq(Files)
    BY DEF TypeOK
  <1>2. /\ Len(todo[w]) \in Nat \ {0} /\ Head(todo[w]) = todo[w][1]
        /\ Len(Tail(todo[w])) = Len(todo[w]) - 1
        /\ \A i \in 1 .. Len(todo[w]) - 1 : Tail(todo[w])[i] = todo[w][i + 1]
    BY <1>1, TailFacts
  <1> QED
    BY <1>2 DEF TodoKnown

\* A step that gives nobody but v other files to look at.
LEMMA KnownStep ==
    ASSUME TypeOK, Known, NEW v \in Walkers,
           last' \in {last, last + 1}, removed' \subseteq old',
           \A w \in Walkers \ {v} : todo'[w] = todo[w],
           \A i \in 1 .. Len(todo'[v]) : todo'[v][i] <= last,
           \A i \in 1 .. Len(items') : items'[i] <= last,
           \A r \in Requests : want'[r] \subseteq 1 .. last,
           todo'[v] \in Seq(Files), items' \in Seq(Files)
    PROVE  Known'
  <1>1. last \in Nat /\ last <= last' /\ last' \in Nat
    BY OnDiskFiles
  <1>0. Files \subseteq Nat
    BY DEF Files
  <1>2. \A w \in Walkers : todo'[w] \in Seq(Files)
    BY DEF TypeOK
  <1>3. ASSUME NEW w \in Walkers, NEW i \in 1 .. Len(todo'[w])
        PROVE  todo'[w][i] <= last'
    <2>1. todo'[w][i] <= last
      BY DEF Known
    <2>2. todo'[w][i] \in Files
      BY <1>2
    <2> QED
      BY <1>0, <1>1, <2>1, <2>2
  <1>4. ASSUME NEW i \in 1 .. Len(items')
        PROVE  items'[i] <= last'
    <2>1. items'[i] \in Files
      OBVIOUS
    <2>2. items'[i] <= last /\ items'[i] \in Nat
      BY <1>0, <2>1
    <2> QED
      BY <1>1, <2>2
  <1>5. \A r \in Requests : want'[r] \subseteq 1 .. last'
    BY <1>1
  <1> QED
    BY <1>3, <1>4, <1>5 DEF Known

LEMMA NextKnown == TypeOK /\ Known /\ [Next]_vars => Known'
  <1> SUFFICES ASSUME TypeOK, Known, [Next]_vars PROVE Known'
    OBVIOUS
  <1>0. /\ Pruner \in Walkers /\ Requests \subseteq Walkers
        /\ \A w \in Walkers : todo[w] \in Seq(Files) /\ TodoKnown(w)
        /\ removed \subseteq old /\ items \in Seq(Files)
        /\ \A i \in 1 .. Len(items) : items[i] <= last
        /\ \A r \in Requests : want[r] \subseteq 1 .. last
    BY DEF Walkers, TypeOK, Known, TodoKnown
  <1> USE DEF disk, index
  <1>1. CASE /\ UNCHANGED <<todo, items, want>>
             /\ last' \in {last, last + 1} /\ removed' \subseteq old'
    BY <1>0, <1>1, KnownStep DEF TodoKnown
  \* A step of v, on whose list alone it works.
  <1>2. ASSUME NEW v \in Walkers, NEW q \in Seq(Files),
               \A i \in 1 .. Len(q) : q[i] <= last,
               todo' = [todo EXCEPT ![v] = q],
               UNCHANGED <<last, items, want>>, removed' \subseteq old'
        PROVE  Known'
    <2>1. /\ todo'[v] = q /\ \A w \in Walkers \ {v} : todo'[w] = todo[w]
          /\ last' = last /\ items' = items /\ want' = want
      BY <1>2 DEF TypeOK
    <2> QED
      BY <1>0, <1>2, <2>1, KnownStep
  <1>3. CASE UNCHANGED vars
    BY <1>0, <1>1, <1>3 DEF vars
  <1>4. CASE NewFile \/ Age \/ PruneTick \/ Pruned
    BY <1>0, <1>1, <1>4 DEF NewFile, Age, PruneTick, Pruned
  <1>5. CASE BeginPrune
    BY <1>0, <1>2, <1>5 DEF BeginPrune
  <1>6. CASE Remove
    <2>1. /\ Tail(todo[Pruner]) \in Seq(Files)
          /\ \A i \in 1 .. Len(Tail(todo[Pruner])) : Tail(todo[Pruner])[i] <= last
      BY <1>0, <1>6, TailFacts, TailKnown DEF Remove
    <2>2. UNCHANGED <<last, items, want>> /\ removed' \subseteq old'
      BY <1>0, <1>6 DEF Remove
    <2> QED
      BY <1>0, <1>2, <1>6, <2>1, <2>2 DEF Remove
  <1>7. ASSUME NEW w \in Walkers, Refresh(w)
        PROVE  Known'
    <2>1. CASE Lock(w)
      <3>1. items' = <<>> /\ UNCHANGED <<disk, todo, want>>
        BY <2>1 DEF Lock
      <3> QED
        BY <1>0, <3>1, KnownStep DEF TodoKnown
    <2>2. CASE ReadNames(w)
      <3>1. Sorted(OnDisk) \in Seq(Files)
        BY OnDiskFiles, SortedFacts
      <3>2. \A i \in 1 .. Len(Sorted(OnDisk)) : Sorted(OnDisk)[i] <= last
        BY OnDiskFiles, SortedKnown
      <3> QED
        BY <1>0, <1>2, <2>2, <3>1, <3>2 DEF ReadNames
    <2>3. CASE Indexer(w) /\ Head(todo[w]) \in OnDisk
      <3> DEFINE h == Head(todo[w])
      <3>1. /\ Tail(todo[w]) \in Seq(Files) /\ h \in Files /\ h <= last
            /\ \A i \in 1 .. Len(Tail(todo[w])) : Tail(todo[w])[i] <= last
        BY <1>0, <2>3, TailFacts, TailKnown DEF Indexer
      <3>2. /\ items' = Append(items, h) /\ todo' = [todo EXCEPT ![w] = Tail(todo[w])]
            /\ UNCHANGED <<disk, want>>
        BY <2>3 DEF Indexer
      <3>3. /\ items' \in Seq(Files)
            /\ \A i \in 1 .. Len(items') : items'[i] <= last
        <4> HIDE DEF h
        <4> QED
          BY <1>0, <3>1, <3>2
      <3>4. /\ todo'[w] = Tail(todo[w])
            /\ \A v \in Walkers \ {w} : todo'[v] = todo[v]
        BY <3>2 DEF TypeOK
      <3> QED
        BY <1>0, <3>1, <3>2, <3>3, <3>4, KnownStep
    <2>4. CASE Indexer(w) /\ Head(todo[w]) \notin OnDisk
      BY <1>0, <1>1, <2>4 DEF Indexer
    <2>5. CASE SetCount(w) \/ Unlock(w)
      BY <1>0, <1>1, <2>5 DEF SetCount, Unlock
    <2> QED
      BY <1>7, <2>1, <2>2, <2>3, <2>4, <2>5 DEF Refresh
  <1>8. ASSUME NEW r \in Requests,
               \/ GetCacheInfo(r) \/ ResendCacheItems(r) \/ SendFullCache(r)
               \/ Use(r)
        PROVE  Known'
    <2>0. UNCHANGED <<disk, items>> /\ r \in Walkers
      BY <1>0, <1>8 DEF GetCacheInfo, ResendCacheItems, SendFullCache, Use, ReadFirst,
         ReadLast, NoProxy, Resend, Resent, CopyOne, CopiedAll
    <2>t. todo[r] # <<>> =>
            /\ Tail(todo[r]) \in Seq(Files)
            /\ \A i \in 1 .. Len(Tail(todo[r])) : Tail(todo[r])[i] <= last
      BY <1>0, <2>0, TailFacts, TailKnown
    <2>1. CASE GetCacheInfo(r) \/ Resent(r)
      <3>1. UNCHANGED todo /\ want' = [want EXCEPT ![r] = {}]
        BY <2>1 DEF GetCacheInfo, Resent
      <3>2. \A q \in Requests : want'[q] \subseteq 1 .. last
        BY <1>0, <3>1 DEF TypeOK
      <3> QED
        BY <1>0, <2>0, <3>1, <3>2, KnownStep DEF TodoKnown
    <2>2. CASE ResendCacheItems(r)
      <3>1. PICK s \in SUBSET OnDisk \ {{}} :
               /\ want' = [want EXCEPT ![r] = s]
               /\ todo' = [todo EXCEPT ![r] = Sorted(s)]
        BY <2>2 DEF ResendCacheItems
      <3>2. /\ s \subseteq 1 .. last /\ Sorted(s) \in Seq(Files)
            /\ \A i \in 1 .. Len(Sorted(s)) : Sorted(s)[i] <= last
        BY <3>1, OnDiskFiles, SortedFacts, SortedKnown
      <3>3. \A q \in Requests : want'[q] \subseteq 1 .. last
        BY <1>0, <3>1, <3>2 DEF TypeOK
      <3>4. /\ todo'[r] = Sorted(s)
            /\ \A v \in Walkers \ {r} : todo'[v] = todo[v]
        BY <2>0, <3>1 DEF TypeOK
      <3> QED
        BY <1>0, <2>0, <3>2, <3>3, <3>4, KnownStep
    <2>3. CASE SendFullCache(r)
      <3>1. /\ Sorted(OnDisk) \in Seq(Files)
            /\ \A i \in 1 .. Len(Sorted(OnDisk)) : Sorted(OnDisk)[i] <= last
        BY OnDiskFiles, SortedFacts, SortedKnown
      <3> QED
        BY <1>0, <1>2, <2>0, <2>3, <3>1 DEF SendFullCache
    <2>4. CASE ReadFirst(r) \/ ReadLast(r)
      <3>1. /\ Sorted(want[r]) \in Seq(Files)
            /\ \A i \in 1 .. Len(Sorted(want[r])) : Sorted(want[r])[i] <= last
        BY <1>0, SortedFacts, SortedKnown DEF TypeOK
      <3>2. UNCHANGED want
        BY <2>4 DEF ReadFirst, ReadLast
      <3>3. UNCHANGED todo \/ todo' = [todo EXCEPT ![r] = Sorted(want[r])]
        BY <2>4 DEF ReadFirst, ReadLast, Answer
      <3> QED
        BY <1>0, <1>1, <1>2, <2>0, <3>1, <3>2, <3>3
    <2>5. CASE Resend(r)
      BY <1>0, <1>2, <2>0, <2>t, <2>5 DEF Resend
    <2>8. CASE NoProxy(r)
      <3>1. /\ UNCHANGED want /\ todo'[r] = <<>> /\ <<>> \in Seq(Files)
            /\ \A v \in Walkers \ {r} : todo'[v] = todo[v]
        BY <2>0, <2>8 DEF NoProxy, TypeOK
      <3>2. \A i \in 1 .. Len(<<>>) : <<>>[i] <= last
        OBVIOUS
      <3> QED
        BY <1>0, <1>2, <2>0, <2>8, <3>1, <3>2 DEF NoProxy
    <2>6. CASE CopyOne(r)
      BY <1>0, <1>1, <1>2, <2>0, <2>t, <2>6 DEF CopyOne
    <2>7. CASE CopiedAll(r)
      BY <1>0, <1>1, <2>0, <2>7 DEF CopiedAll
    <2> QED
      BY <1>8, <2>1, <2>2, <2>3, <2>4, <2>5, <2>6, <2>7, <2>8 DEF Use
  <1> QED
    BY <1>3, <1>4, <1>5, <1>6, <1>7, <1>8 DEF Next, PruneCache
-----------------------------------------------------------------------------
(***************************************************************************)
(* The walk.                                                               *)
(***************************************************************************)
\* A step that leaves the index alone, and those who rebuild it.
Aside ==
    /\ UNCHANGED <<items, count, lock>>
    /\ \A w \in Walkers : Refreshes(w)' => pc'[w] = pc[w] /\ todo'[w] = todo[w]
    /\ \A f \in OnDisk' : f \in OnDisk \/ f = last + 1

LEMMA WalkAside ==
    ASSUME TypeOK, Known, Walk, Aside
    PROVE  Walk'
  <1>1. /\ last \in Nat /\ Files \subseteq Nat /\ items \in Seq(Files)
        /\ \A w \in Walkers : todo[w] \in Seq(Files)
    BY OnDiskFiles DEF TypeOK, Files
  <1>2. /\ items' = items /\ count' = count /\ lock' = lock
        /\ \A f : Indexed(f)' = Indexed(f) /\ Newer(f)' = Newer(f)
    BY DEF Aside, Indexed, Newer
  <1>3. Newer(last + 1)
    <2> SUFFICES ASSUME NEW i \in 1 .. Len(items) PROVE items[i] < last + 1
      BY DEF Newer
    <2>0. items[i] \in Files
      BY <1>1
    <2>1. items[i] \in Nat
      BY <1>1, <2>0
    <2>2. items[i] <= last
      BY DEF Known
    <2> QED
      BY <1>1, <2>1, <2>2
  <1>4. ASSUME Settled
        PROVE  Settled'
    BY <1>2, <1>3, <1>4 DEF Aside, Settled
  <1>5. ASSUME NEW w \in Walkers, pc'[w] = "walk"
        PROVE  InOrder(w)' /\ Complete(w)'
    <2>1. pc[w] = "walk" /\ todo'[w] = todo[w]
      BY <1>5 DEF Aside, Refreshes
    <2>2. InOrder(w) /\ Complete(w)
      BY <2>1 DEF Walk
    <2>3. InOrder(w)'
      BY <1>2, <2>1, <2>2 DEF InOrder, Increasing
    <2>4. \A i \in 1 .. Len(todo[w]) : todo[w][i] < last + 1
      <3> SUFFICES ASSUME NEW i \in 1 .. Len(todo[w]) PROVE todo[w][i] < last + 1
        OBVIOUS
      <3>1. todo[w][i] \in Files
        BY <1>1
      <3>2. todo[w][i] <= last
        BY DEF Known
      <3>3. todo[w][i] \in Nat
        BY <1>1, <3>1
      <3> QED
        BY <1>1, <3>2, <3>3
    <2>5. Complete(w)'
      <3>1. \A f : Pending(w, f)' = Pending(w, f)
        BY <2>1 DEF Pending
      <3> QED
        BY <1>2, <1>3, <2>1, <2>2, <2>4, <3>1 DEF Aside, Complete
    <2> QED
      BY <2>3, <2>5
  <1>6. \A w \in Walkers :
           /\ pc'[w] = "list" => items' = <<>>
           /\ pc'[w] = "unlock" => Settled'
    BY <1>2, <1>4 DEF Aside, Refreshes, Walk
  <1>7. Increasing(items)' /\ (lock' = None => Settled')
    BY <1>2, <1>4 DEF Walk, Increasing
  <1>8. \A w \in Walkers : pc'[w] = "walk" => InOrder(w)' /\ Complete(w)'
    BY <1>5
  <1> QED
    BY <1>6, <1>7, <1>8 DEF Walk

LEMMA ProcessAside ==
    ASSUME TypeOK, NewFile \/ Age \/ PruneTick \/ PruneCache \/ UNCHANGED vars
    PROVE  Aside
  <1>1. Pruner \in Walkers /\ last \in Nat
    BY OnDiskFiles DEF Walkers
  <1>2. OnDisk' \subseteq OnDisk \cup {last + 1}
    <2>1. CASE NewFile
      <3>1. last' = last + 1 /\ removed' = removed
        BY <2>1 DEF NewFile
      <3>2. 1 .. last + 1 = (1 .. last) \cup {last + 1}
        BY <1>1
      <3> QED
        BY <3>1, <3>2 DEF OnDisk
    <2>2. CASE ~NewFile
      <3>1. last' = last /\ removed \subseteq removed'
        BY <2>2 DEF Age, PruneTick, PruneCache, BeginPrune, Remove, Pruned,
                    vars, disk
      <3> QED
        BY <3>1 DEF OnDisk
    <2> QED
      BY <2>1, <2>2
  <1> QED
    BY <1>1, <1>2
    DEF Aside, TypeOK, Refreshes, Goto, NewFile, Age, PruneTick, PruneCache,
        BeginPrune, Remove, Pruned, vars, disk, index

LEMMA RequestAside ==
    ASSUME TypeOK, NEW r \in Requests,
           \/ GetCacheInfo(r) \/ ResendCacheItems(r) \/ SendFullCache(r)
           \/ Use(r)
    PROVE  Aside
  <1>1. r \in Walkers
    BY DEF Walkers
  <1>2. OnDisk' = OnDisk
    BY DEF OnDisk, disk, GetCacheInfo, ResendCacheItems, SendFullCache, Use,
           ReadFirst, ReadLast, NoProxy, Resend, Resent, CopyOne, CopiedAll
  <1> USE DEF Aside, TypeOK, Refreshes, Goto, Panic, disk, index
  <1>3. CASE GetCacheInfo(r) \/ ResendCacheItems(r) \/ SendFullCache(r)
    BY <1>1, <1>2, <1>3 DEF GetCacheInfo, ResendCacheItems, SendFullCache
  <1>4. CASE ReadFirst(r) \/ ReadLast(r)
    BY <1>1, <1>2, <1>4 DEF ReadFirst, ReadLast, Answer
  <1>5. CASE NoProxy(r) \/ Resend(r) \/ Resent(r) \/ CopyOne(r) \/ CopiedAll(r)
    BY <1>1, <1>2, <1>5 DEF NoProxy, Resend, Resent, CopyOne, CopiedAll
  <1> QED
    BY <1>3, <1>4, <1>5 DEF Use

\* Only the holder of the mutex is at the index.
LEMMA HolderAlone ==
    ASSUME Mutex, Alive, NEW w \in Walkers, Refreshes(w)
    PROVE  lock = w /\ \A v \in Walkers : Refreshes(v) => v = w
  <1>1. alive
    BY DEF Alive, Refreshes
  <1> QED
    BY <1>1 DEF Mutex

LEMMA LockWalk ==
    ASSUME TypeOK, Mutex, Alive, Walk, NEW w \in Walkers, Lock(w)
    PROVE  Walk'
  <1>1. /\ lock = None /\ lock' = w /\ items' = <<>> /\ pc' = [pc EXCEPT ![w] = "list"]
        /\ None \notin Walkers
    BY PrunerAssumption DEF Lock, Goto, Walkers
  <1>2. \A v \in Walkers : ~Refreshes(v)
    BY <1>1, HolderAlone
  <1>3. pc'[w] = "list" /\ \A v \in Walkers \ {w} : pc'[v] \notin {"walk", "unlock"}
    BY <1>1, <1>2 DEF Refreshes, TypeOK
  <1>4. Increasing(items')
    BY <1>1 DEF Increasing
  <1> QED
    BY <1>1, <1>3, <1>4 DEF Walk

LEMMA ReadNamesWalk ==
    ASSUME TypeOK, Mutex, Alive, Walk, NEW w \in Walkers, ReadNames(w)
    PROVE  Walk'
  <1>1. /\ lock = w /\ \A v \in Walkers : Refreshes(v) => v = w
        /\ items = <<>> /\ None \notin Walkers
    BY HolderAlone, PrunerAssumption DEF ReadNames, Refreshes, Walk, Walkers
  <1>2. /\ UNCHANGED <<disk, index, lock>> /\ pc' = [pc EXCEPT ![w] = "walk"]
        /\ todo' = [todo EXCEPT ![w] = Sorted(OnDisk)]
    BY DEF ReadNames, Goto
  <1>3. /\ todo'[w] = Sorted(OnDisk) /\ pc'[w] = "walk" /\ items' = <<>>
        /\ \A v \in Walkers \ {w} : pc'[v] \notin {"walk", "unlock"}
    BY <1>1, <1>2 DEF TypeOK, Refreshes, index
  <1>4. /\ Increasing(Sorted(OnDisk)) /\ Sorted(OnDisk) # <<>>
        /\ \A f \in OnDisk : \E i \in 1 .. Len(Sorted(OnDisk)) : Sorted(OnDisk)[i] = f
    BY OnDiskFiles, SortedFacts
  <1>5. InOrder(w)'
    BY <1>3, <1>4 DEF InOrder, Newer, Increasing
  <1>6. Complete(w)'
    BY <1>2, <1>3, <1>4 DEF Complete, Pending, OnDisk, disk
  <1>7. Increasing(items')
    BY <1>3 DEF Increasing
  <1> QED
    BY <1>1, <1>2, <1>3, <1>5, <1>6, <1>7 DEF Walk

LEMMA SetCountWalk ==
    ASSUME TypeOK, Mutex, Alive, Walk, NEW w \in Walkers, SetCount(w)
    PROVE  Walk' /\ count' > 0
  <1>1. /\ lock = w /\ \A v \in Walkers : Refreshes(v) => v = w
        /\ todo[w] = <<>> /\ Complete(w) /\ None \notin Walkers
    BY HolderAlone, PrunerAssumption DEF SetCount, Refreshes, Walk, Walkers
  <1>2. /\ UNCHANGED <<disk, items, lock>> /\ count' = Len(items)
        /\ pc' = [pc EXCEPT ![w] = "unlock"]
    BY DEF SetCount, Goto
  <1>3. /\ pc'[w] = "unlock"
        /\ \A v \in Walkers \ {w} : pc'[v] \notin {"list", "walk", "unlock"}
    BY <1>1, <1>2 DEF TypeOK, Refreshes
  <1>4. items # <<>> /\ \A f \in OnDisk : Indexed(f) \/ Newer(f)
    BY <1>1 DEF Complete, Pending
  <1>5. Settled'
    BY <1>2, <1>4 DEF Settled, Indexed, Newer, OnDisk, disk
  <1>6. Len(items) > 0
    <2>1. items \in Seq(Files)
      BY DEF TypeOK
    <2> QED
      BY <1>4, <2>1
  <1>7. Increasing(items')
    BY <1>2 DEF Walk, Increasing
  <1> QED
    BY <1>1, <1>2, <1>3, <1>5, <1>6, <1>7 DEF Walk

LEMMA UnlockWalk ==
    ASSUME TypeOK, Mutex, Alive, Walk, NEW w \in Walkers, Unlock(w)
    PROVE  Walk'
  <1>1. (\A v \in Walkers : Refreshes(v) => v = w) /\ Settled
    BY HolderAlone DEF Unlock, Refreshes, Walk
  <1>2. UNCHANGED <<disk, index>>
        /\ pc' = [pc EXCEPT ![w] = IF w = Pruner THEN "prune" ELSE "first"]
    BY DEF Unlock, Goto
  <1>3. \A v \in Walkers : pc'[v] \notin {"list", "walk", "unlock"}
    BY <1>1, <1>2 DEF TypeOK, Refreshes
  <1>4. Settled'
    BY <1>1, <1>2 DEF Settled, Indexed, Newer, OnDisk, disk, index
  <1>5. Increasing(items')
    BY <1>2 DEF Walk, Increasing, index
  <1> QED
    BY <1>3, <1>4, <1>5 DEF Walk

LEMMA AppendFacts ==
    ASSUME NEW S, NEW p \in Seq(S), NEW h \in S
    PROVE  /\ Len(p) \in Nat /\ Len(Append(p, h)) = Len(p) + 1
           /\ Append(p, h)[Len(p) + 1] = h
           /\ \A k \in 1 .. Len(p) : Append(p, h)[k] = p[k] /\ p[k] \in S
  OBVIOUS

\* One more item: h, which is first in q and above all of p.
LEMMA OneMore ==
    ASSUME NEW p \in Seq(Nat), NEW q \in Seq(Nat), q # <<>>,
           Increasing(p), Increasing(q),
           \A i \in 1 .. Len(q) : \A k \in 1 .. Len(p) : p[k] < q[i]
    PROVE  /\ Increasing(Append(p, Head(q))) /\ Increasing(Tail(q))
           /\ \A i \in 1 .. Len(Tail(q)) :
                 \A k \in 1 .. Len(Append(p, Head(q))) :
                    Append(p, Head(q))[k] < Tail(q)[i]
  <1> DEFINE h == Head(q)
             z == Tail(q)
             pp == Append(p, h)
             n == Len(p)
  <1>1. /\ z \in Seq(Nat) /\ Len(q) \in Nat \ {0} /\ Len(z) = Len(q) - 1
        /\ h = q[1] /\ h \in Nat
        /\ \A i \in 1 .. Len(q) - 1 : z[i] = q[i + 1]
    BY TailFacts
  <1>2. \A i \in 1 .. Len(z) : i + 1 \in 1 .. Len(q) /\ z[i] = q[i + 1] /\ h < z[i]
    BY <1>1 DEF Increasing
  <1> HIDE DEF h, z
  <1>3. /\ n \in Nat /\ Len(pp) = n + 1 /\ pp[n + 1] = h
        /\ \A k \in 1 .. n : pp[k] = p[k] /\ p[k] \in Nat
    BY <1>1, AppendFacts
  <1> HIDE DEF pp
  <1>4. \A k \in 1 .. n : p[k] < h
    <2>1. 1 \in 1 .. Len(q) /\ h = q[1]
      BY <1>1
    <2> QED
      BY <2>1
  <1>5. Increasing(pp)
    <2> SUFFICES ASSUME NEW i \in 1 .. n + 1, NEW j \in 1 .. n + 1, i < j
                 PROVE  pp[i] < pp[j]
      BY <1>3 DEF Increasing
    <2>1. i \in 1 .. n
      BY <1>3
    <2>2. CASE j = n + 1
      BY <1>3, <1>4, <2>1, <2>2
    <2>3. CASE j # n + 1
      <3>1. n \in Nat
        BY <1>3
      <3>2. j \in 1 .. n
        BY <2>3, <3>1
      <3> QED
        BY <1>3, <2>1, <3>2 DEF Increasing
    <2> QED
      BY <2>2, <2>3
  <1>6. Increasing(z)
    <2> SUFFICES ASSUME NEW i \in 1 .. Len(z), NEW j \in 1 .. Len(z), i < j
                 PROVE  z[i] < z[j]
      BY DEF Increasing
    <2>1. i + 1 < j + 1
      BY <1>1
    <2> QED
      BY <1>2, <2>1 DEF Increasing
  <1>7. ASSUME NEW i \in 1 .. Len(z), NEW k \in 1 .. n + 1
        PROVE  pp[k] < z[i]
    <2>1. CASE k = n + 1
      BY <1>2, <1>3, <2>1
    <2>2. CASE k # n + 1
      <3>1. k \in 1 .. n
        BY <1>3, <2>2
      <3> QED
        BY <1>2, <1>3, <3>1
    <2> QED
      BY <2>1, <2>2
  <1> QED
    BY <1>3, <1>5, <1>6, <1>7 DEF pp, h, z

LEMMA IndexerWalk ==
    ASSUME TypeOK, Mutex, Alive, Walk, NEW w \in Walkers, Indexer(w),
           Head(todo[w]) \in OnDisk
    PROVE  Walk'
  <1> DEFINE q == todo[w]
             h == Head(q)
             z == Tail(q)
             n == Len(items)
  <1>1. /\ lock = w /\ \A v \in Walkers : Refreshes(v) => v = w
        /\ InOrder(w) /\ Complete(w) /\ None \notin Walkers /\ q # <<>>
    BY HolderAlone, PrunerAssumption DEF Indexer, Refreshes, Walk, Walkers
  <1>2. /\ UNCHANGED <<disk, count, lock, pc>> /\ items' = Append(items, h)
        /\ todo'[w] = z
    BY DEF Indexer, TypeOK
  <1>3. items \in Seq(Files) /\ q \in Seq(Files) /\ Files \subseteq Nat
    BY DEF TypeOK, Files
  <1>4. items \in Seq(Nat) /\ q \in Seq(Nat)
    <2>1. ASSUME NEW s \in Seq(Files)
          PROVE  s \in Seq(Nat)
      <3>1. Len(s) \in Nat /\ s \in [1 .. Len(s) -> Files]
        OBVIOUS
      <3>2. s \in [1 .. Len(s) -> Nat]
        BY <1>3, <3>1, Zenon
      <3> QED
        BY <3>1, <3>2
    <2> QED
      BY <1>3, <2>1
  <1>5. /\ Increasing(items') /\ Increasing(z)
        /\ \A i \in 1 .. Len(z) : \A k \in 1 .. Len(items') : items'[k] < z[i]
    BY <1>1, <1>2, <1>4, OneMore DEF Walk, InOrder, Newer
  <1>6. InOrder(w)'
    BY <1>2, <1>5 DEF InOrder, Newer
  <1>7. Complete(w)'
    <2>0. /\ h = q[1] /\ h \in Nat /\ Len(q) \in Nat \ {0} /\ Len(z) = Len(q) - 1
          /\ \A i \in 1 .. Len(q) - 1 : z[i] = q[i + 1]
      BY <1>1, <1>4, TailFacts
    <2>1. /\ n \in Nat /\ Len(items') = n + 1 /\ items'[n + 1] = h
          /\ \A k \in 1 .. n : items'[k] = items[k]
      BY <1>2, <1>3, <2>0
    <2>2. items' # <<>>
      BY <2>1
    <2> HIDE DEF q, h, z, n
    <2> SUFFICES ASSUME NEW f \in OnDisk
                 PROVE  \/ Indexed(f)' \/ Pending(w, f)'
                        \/ Newer(f)' /\ \A i \in 1 .. Len(z) : z[i] < f
      BY <1>2, <2>2 DEF Complete, OnDisk, disk
    <2>3. CASE Indexed(f)
      <3>1. \A k \in 1 .. n : k \in 1 .. n + 1
        BY <2>1
      <3> QED
        BY <2>1, <2>3, <3>1 DEF Indexed, n
    <2>4. CASE Pending(w, f)
      <3>1. PICK i \in 1 .. Len(q) : q[i] = f
        BY <2>4 DEF Pending, q
      <3>2. CASE i = 1
        <4>1. n + 1 \in 1 .. n + 1
          BY <2>1
        <4> QED
          BY <2>0, <2>1, <3>1, <3>2, <4>1 DEF Indexed
      <3>3. CASE i # 1
        <4>1. i - 1 \in 1 .. Len(z) /\ i - 1 \in 1 .. Len(q) - 1 /\ i - 1 + 1 = i
          BY <2>0, <3>1, <3>3
        <4>2. z[i - 1] = q[i]
          BY <2>0, <4>1
        <4> QED
          BY <1>2, <3>1, <4>1, <4>2 DEF Pending
      <3> QED
        BY <3>2, <3>3
    <2>5. CASE Newer(f) /\ \A i \in 1 .. Len(q) : q[i] < f
      <3>1. h < f
        BY <2>0, <2>5
      <3>2. ASSUME NEW k \in 1 .. n + 1
            PROVE  items'[k] < f
        <4>1. CASE k = n + 1
          BY <2>1, <3>1, <4>1
        <4>2. CASE k # n + 1
          <5>1. k \in 1 .. n
            BY <2>1, <4>2
          <5> QED
            BY <2>1, <2>5, <5>1 DEF Newer, n
        <4> QED
          BY <4>1, <4>2
      <3>3. ASSUME NEW i \in 1 .. Len(z)
            PROVE  z[i] < f
        <4>1. i \in 1 .. Len(q) - 1 /\ i + 1 \in 1 .. Len(q)
          BY <2>0
        <4> QED
          BY <2>0, <2>5, <4>1
      <3> QED
        BY <2>1, <3>2, <3>3 DEF Newer
    <2> QED
      BY <1>1, <2>3, <2>4, <2>5 DEF Complete, q
  <1>8. \A v \in Walkers \ {w} : pc'[v] \notin {"list", "walk", "unlock"}
    BY <1>1, <1>2 DEF Refreshes
  <1>9. pc'[w] = "walk" /\ lock' # None
    BY <1>1, <1>2 DEF Indexer
  <1> QED
    BY <1>5, <1>6, <1>7, <1>8, <1>9 DEF Walk

LEMMA NextWalk ==
    ASSUME TypeOK, Mutex, Alive, Known, Walk, [Next]_vars
    PROVE  Walk'
  <1>1. CASE \/ NewFile \/ Age \/ PruneTick \/ PruneCache \/ UNCHANGED vars
    BY <1>1, ProcessAside, WalkAside
  <1>2. ASSUME NEW w \in Walkers, Refresh(w)
        PROVE  Walk'
    <2>1. CASE Indexer(w) /\ Head(todo[w]) \notin OnDisk
      <3>1. Aside
        BY <2>1 DEF Aside, Indexer, Panic, Refreshes, OnDisk, disk
      <3> QED
        BY <3>1, WalkAside
    <2> QED
      BY <1>2, <2>1, LockWalk, ReadNamesWalk, IndexerWalk, SetCountWalk, UnlockWalk
      DEF Refresh
  <1>3. ASSUME NEW r \in Requests,
               \/ GetCacheInfo(r) \/ ResendCacheItems(r) \/ SendFullCache(r)
               \/ Use(r)
        PROVE  Walk'
    BY <1>3, RequestAside, WalkAside
  <1> QED
    BY <1>1, <1>2, <1>3 DEF Next

LEMMA NextCounted ==
    ASSUME TypeOK, Mutex, Alive, Walk, Counted, [Next]_vars
    PROVE  Counted'
  <1> USE DEF Counted, TypeOK, Goto, disk, index
  <1>1. Pruner \in Walkers /\ Requests \subseteq Walkers
    BY DEF Walkers
  <1>2. CASE UNCHANGED vars
    BY <1>2 DEF vars
  <1>3. CASE NewFile \/ Age \/ PruneTick \/ PruneCache
    BY <1>1, <1>3, PrunerAssumption
    DEF NewFile, Age, PruneTick, PruneCache, BeginPrune, Remove, Pruned
  <1>4. ASSUME NEW w \in Walkers, Refresh(w)
        PROVE  Counted'
    <2>1. CASE Lock(w) \/ ReadNames(w) \/ Indexer(w) \/ Unlock(w)
      BY <1>1, <2>1 DEF Lock, ReadNames, Indexer, Unlock, Panic
    <2>2. CASE SetCount(w)
      <3>1. count' > 0
        BY <2>2, SetCountWalk
      <3> QED
        BY <3>1
    <2> QED
      BY <1>4, <2>1, <2>2 DEF Refresh
  <1>5. ASSUME NEW r \in Requests,
               \/ GetCacheInfo(r) \/ ResendCacheItems(r) \/ SendFullCache(r)
               \/ Use(r)
        PROVE  Counted'
    <2>1. CASE GetCacheInfo(r) \/ ResendCacheItems(r) \/ SendFullCache(r)
      BY <1>1, <2>1 DEF GetCacheInfo, ResendCacheItems, SendFullCache
    <2>2. CASE ReadFirst(r) \/ ReadLast(r)
      BY <1>1, <2>2 DEF ReadFirst, ReadLast, Answer, Panic
    <2>3. CASE NoProxy(r) \/ Resend(r) \/ Resent(r) \/ CopyOne(r) \/ CopiedAll(r)
      BY <1>1, <2>3 DEF NoProxy, Resend, Resent, CopyOne, CopiedAll, Panic
    <2> QED
      BY <1>5, <2>1, <2>2, <2>3 DEF Use
  <1> QED
    BY <1>2, <1>3, <1>4, <1>5 DEF Next
-----------------------------------------------------------------------------
IInv == TypeOK /\ Mutex /\ Alive /\ Known /\ Walk /\ Counted

LEMMA InitIInv == Init => IInv
  <1> SUFFICES ASSUME Init PROVE IInv
    OBVIOUS
  <1>1. TypeOK
    BY InitTyped
  <1>2. /\ items = <<>> /\ count = 0 /\ lock = None /\ alive /\ removed = {} /\ old = {}
        /\ \A w \in Walkers : pc[w] = "idle" /\ todo[w] = <<>>
        /\ None \notin Walkers /\ \A r \in Requests : pc[r] = "idle" /\ want[r] = {}
    BY PrunerAssumption DEF Init, Walkers
  <1>3. Mutex /\ Alive /\ Counted
    BY <1>2 DEF Mutex, Alive, Counted, Refreshes, Walkers
  <1>4. Known
    <2>0. 1 .. Len(<<>>) = {}
      OBVIOUS
    <2>1. 1 .. Len(items) = {} /\ \A w \in Walkers : 1 .. Len(todo[w]) = {}
      BY <1>2, <2>0, Zenon
    <2>2. removed \subseteq old /\ \A r \in Requests : want[r] \subseteq 1 .. last
      BY <1>2, Zenon
    <2> QED
      BY <2>1, <2>2, Zenon DEF Known
  <1>5. Walk
    BY <1>2 DEF Walk, Settled, Newer, Increasing
  <1> QED
    BY <1>1, <1>3, <1>4, <1>5 DEF IInv

LEMMA NextIInv == IInv /\ [Next]_vars => IInv'
  BY NextTyped, NextMutex, NextAlive, NextKnown, NextWalk, NextCounted DEF IInv

LEMMA Invariance == Spec => []IInv
  BY InitIInv, NextIInv, PTL DEF Spec

\* cacheInfo has its types, and its count is that of a walk over at most the
\* files there are (refreshCache).
THEOREM TypeCorrect == Spec => []TypeOK
  <1>1. IInv => TypeOK
    BY DEF IInv
  <1> QED
    BY <1>1, Invariance, PTL

\* The index is of one walk, however the rebuilds of requests and pruneCache
\* meet (refreshCache, under cacheMutex).
THEOREM OneWalk == Spec => []IndexIsOneWalk
  <1>1. IInv => IndexIsOneWalk
    BY DEF IInv, Walk, Increasing, Settled, Newer, IndexIsOneWalk
  <1> QED
    BY <1>1, Invariance, PTL
-----------------------------------------------------------------------------
(***************************************************************************)
(* How the process dies in here, and what SEND AGAIN misses.               *)
(***************************************************************************)
LEMMA WhoDies ==
    ASSUME alive, ~alive', [Next]_vars
    PROVE  \/ \E w \in Walkers : Indexer(w) /\ Head(todo[w]) \notin OnDisk
           \/ \E r \in Requests : pc[r] = "first" /\ count > 0 /\ Len(items) = 0
           \/ \E r \in Requests : pc[r] = "last" /\ count \notin 1 .. Len(items)
           \/ \E r \in Requests :
                 pc[r] = "copy" /\ todo[r] # <<>> /\ Head(todo[r]) \notin OnDisk
  <1>1. CASE NewFile \/ Age \/ PruneTick \/ PruneCache \/ UNCHANGED vars
    BY <1>1 DEF NewFile, Age, PruneTick, PruneCache, BeginPrune, Remove, Pruned, vars
  <1>2. ASSUME NEW w \in Walkers, Refresh(w)
        PROVE  Indexer(w) /\ Head(todo[w]) \notin OnDisk
    BY <1>2 DEF Refresh, Lock, ReadNames, Indexer, SetCount, Unlock
  <1>3. ASSUME NEW r \in Requests,
               \/ GetCacheInfo(r) \/ ResendCacheItems(r) \/ SendFullCache(r)
               \/ Use(r)
        PROVE  \/ pc[r] = "first" /\ count > 0 /\ Len(items) = 0
               \/ pc[r] = "last" /\ count \notin 1 .. Len(items)
               \/ pc[r] = "copy" /\ todo[r] # <<>> /\ Head(todo[r]) \notin OnDisk
    BY <1>3
    DEF GetCacheInfo, ResendCacheItems, SendFullCache, Use, ReadFirst, ReadLast,
        NoProxy, Resend, Resent, CopyOne, CopiedAll
  <1> QED
    BY <1>1, <1>2, <1>3 DEF Next

\* A file that was to be looked at and is gone was past its retention.
LEMMA GoneWasOld ==
    ASSUME TypeOK, Known, NEW w \in Walkers, todo[w] # <<>>,
           Head(todo[w]) \notin OnDisk
    PROVE  Head(todo[w]) \in removed /\ old # {}
  <1>1. Head(todo[w]) \in Files /\ Head(todo[w]) <= last
    <2>1. todo[w] \in Seq(Files)
      BY DEF TypeOK
    <2> QED
      BY <2>1, TailFacts, TailKnown DEF Known, TodoKnown
  <1>2. Head(todo[w]) \in 1 .. last
    <2>1. last \in Nat
      BY OnDiskFiles
    <2> QED
      BY <1>1, <2>1 DEF Files
  <1> QED
    BY <1>2 DEF OnDisk, Known

\* What a request finds in cacheInfo is one with its count, but for another's
\* rebuilding.
LEMMA OtherRebuilds ==
    ASSUME IInv, alive, NEW r \in Requests, pc[r] \in {"first", "last"},
           count # Len(items)
    PROVE  /\ lock # None
           /\ \E v, w \in Walkers : v # w /\ pc[v] # "idle" /\ pc[w] # "idle"
  <1>1. lock # None
    BY DEF IInv, Walk, Settled
  <1>2. lock \in Walkers /\ Refreshes(lock)
    BY <1>1 DEF IInv, TypeOK, Mutex
  <1>3. r \in Walkers /\ r # lock /\ pc[r] # "idle" /\ pc[lock] # "idle"
    BY <1>2 DEF Walkers, Refreshes
  <1> QED
    BY <1>1, <1>2, <1>3

LEMMA StepDies ==
    ASSUME IInv, [Next]_vars, alive, ~alive'
    PROVE  /\ lock # None \/ \E r \in Requests : pc[r] = "copy"
           /\ old = {} => \E v, w \in Walkers : v # w /\ pc[v] # "idle" /\ pc[w] # "idle"
  <1>0. TypeOK /\ Mutex /\ Alive /\ Known /\ Counted /\ None \notin Walkers
    BY PrunerAssumption DEF IInv, Walkers
  <1>1. ASSUME NEW w \in Walkers, Indexer(w), Head(todo[w]) \notin OnDisk
        PROVE  lock # None /\ old # {}
    BY <1>0, <1>1, HolderAlone, GoneWasOld DEF Indexer, Refreshes
  <1>2. ASSUME NEW r \in Requests, pc[r] = "copy", todo[r] # <<>>,
               Head(todo[r]) \notin OnDisk
        PROVE  old # {}
    BY <1>0, <1>2, GoneWasOld DEF Walkers
  <1>3. ASSUME NEW r \in Requests, pc[r] = "first", count > 0, Len(items) = 0
        PROVE  pc[r] \in {"first", "last"} /\ count # Len(items)
    BY <1>3
  <1>4. ASSUME NEW r \in Requests, pc[r] = "last", count \notin 1 .. Len(items)
        PROVE  pc[r] \in {"first", "last"} /\ count # Len(items)
    <2>1. count \in Nat /\ count > 0
      BY <1>0, <1>4, BoundsAssumption DEF TypeOK, Counted
    <2> QED
      BY <1>4, <2>1
  <1> QED
    BY <1>1, <1>2, <1>3, <1>4, WhoDies, OtherRebuilds

\* The process dies in here only while somebody walks over the files, and, as
\* long as there is nothing to prune, only when two walkers overlap (indexer,
\* GetCacheInfo's Items[0] and Items[Count-1], copyDir).
THEOREM Deaths == Spec => DiesByOverlap
  <1>1. IInv /\ [Next]_vars =>
           [alive /\ ~alive' =>
              /\ lock # None \/ \E r \in Requests : pc[r] = "copy"
              /\ old = {} => \E v, w \in Walkers :
                                v # w /\ pc[v] # "idle" /\ pc[w] # "idle"]_vars
    BY StepDies
  <1> QED
    BY <1>1, Invariance, PTL DEF Spec, DiesByOverlap

\* Only the loop of SEND AGAIN adds to what was not found.
LEMMA OnlyResendLoses ==
    ASSUME TypeOK, [Next]_vars, NEW r \in Requests, NEW f \in lost'[r] \ lost[r],
           proxy
    PROVE  Resend(r) /\ f = Head(todo[r]) /\ ~Indexed(f)
  <1>1. lost \in [Requests -> SUBSET Files]
    BY DEF TypeOK
  <1>2. lost' # lost
    OBVIOUS
  <1>3. CASE NewFile \/ Age \/ PruneTick \/ PruneCache \/ UNCHANGED vars
    BY <1>2, <1>3
    DEF NewFile, Age, PruneTick, PruneCache, BeginPrune, Remove, Pruned, vars
  <1>4. ASSUME NEW w \in Walkers, Refresh(w)
        PROVE  FALSE
    BY <1>2, <1>4 DEF Refresh, Lock, ReadNames, Indexer, SetCount, Unlock
  <1>5. ASSUME NEW q \in Requests,
               \/ GetCacheInfo(q) \/ ResendCacheItems(q) \/ SendFullCache(q)
               \/ Use(q)
        PROVE  Resend(q) /\ q = r
    <2>1. CASE GetCacheInfo(q) \/ ResendCacheItems(q) \/ Resent(q)
      <3>1. lost' = [lost EXCEPT ![q] = {}]
        BY <2>1 DEF GetCacheInfo, ResendCacheItems, Resent
      <3> QED
        BY <1>1, <3>1
    <2>2. CASE Resend(q)
      <3>1. q # r => lost'[r] = lost[r]
        BY <1>1, <2>2 DEF Resend
      <3> QED
        BY <2>2, <3>1
    <2>3. CASE \/ SendFullCache(q) \/ ReadFirst(q) \/ ReadLast(q)
               \/ CopyOne(q) \/ CopiedAll(q)
      BY <1>2, <2>3 DEF SendFullCache, ReadFirst, ReadLast, CopyOne, CopiedAll
    <2> QED
      BY <1>5, <2>1, <2>2, <2>3 DEF Use, NoProxy
  <1>6. Resend(r)
    BY <1>3, <1>4, <1>5 DEF Next
  <1> QED
    BY <1>1, <1>6 DEF Resend

\* Where there is a proxy, a selected file that is there is found, unless the
\* index is being rebuilt at that moment or is older than it (ResendCacheItems).
THEOREM NothingMissed == Spec => SelectedAreFound
  <1>1. ASSUME IInv, [Next]_vars, NEW r \in Requests, NEW f \in lost'[r] \ lost[r],
               proxy
        PROVE  f \in removed \/ lock # None \/ \A i \in DOMAIN items : items[i] < f
    <2>0. TypeOK /\ Known /\ Walk
      BY <1>1 DEF IInv
    <2>1. Resend(r) /\ f = Head(todo[r]) /\ ~Indexed(f)
      BY <1>1, <2>0, OnlyResendLoses
    <2>2. f \notin OnDisk => f \in removed
      BY <2>0, <2>1, GoneWasOld DEF Resend, Walkers
    <2>3. f \in OnDisk /\ lock = None => Newer(f)
      BY <2>0, <2>1 DEF Walk, Settled
    <2>4. DOMAIN items = 1 .. Len(items)
      BY <2>0 DEF TypeOK
    <2> QED
      BY <2>2, <2>3, <2>4 DEF Newer
  <1>2. IInv /\ [Next]_vars =>
           [proxy => \A r \in Requests : \A f \in lost'[r] \ lost[r] :
               f \in removed \/ lock # None \/ \A i \in DOMAIN items : items[i] < f]_vars
    BY <1>1
  <1> QED
    BY <1>2, Invariance, PTL DEF Spec, SelectedAreFound
=============================================================================
