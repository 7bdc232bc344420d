-------------------------- MODULE LogServiceProofs --------------------------
(***************************************************************************)
(* Proofs about two small parts beside the engine: LogPurge, and at the    *)
(* end Service.                                                            *)
(*                                                                         *)
(* LogPurge, for every finite set of loggers, every capacity and number of *)
(* entries: TypeOK, Bounded from what each purge has left to delete, and   *)
(* OldestGoFirst for loggers that are few beside the capacity, and that    *)
(* every step of a purge brings it nearer to its end.                      *)
(***************************************************************************)
EXTENDS LogPurge, Service, FiniteSetTheorems, TLAPS

\* There are as many rows as entries at most.
LEMMA RowsCount ==
    ASSUME TypeOK
    PROVE  IsFiniteSet(rows) /\ Cardinality(rows) \in 0 .. MaxEntries
  <1>1. IsFiniteSet(1 .. MaxEntries) /\ Cardinality(1 .. MaxEntries) = MaxEntries
    BY FS_Interval, BoundsAssumption
  <1>2. IsFiniteSet(rows) /\ Cardinality(rows) <= Cardinality(1 .. MaxEntries)
    BY <1>1, FS_Subset DEF TypeOK
  <1> QED
    BY <1>1, <1>2, FS_CardinalityType

LEMMA InitTyped == Init => TypeOK
  BY BoundsAssumption DEF Init, TypeOK

LEMMA NextTyped == TypeOK /\ [Next]_vars => TypeOK'
  <1> SUFFICES ASSUME TypeOK, [Next]_vars PROVE TypeOK'
    OBVIOUS
  <1> USE CapacityAssumption, BoundsAssumption, NoneAssumption DEF Goto
  <1>1. CASE UNCHANGED vars
    BY <1>1 DEF vars, TypeOK
  <1>2. CASE DeleteDataAllItems
    BY <1>2 DEF DeleteDataAllItems, TypeOK
  <1>3. ASSUME NEW l \in Loggers, Log(l)
        PROVE  TypeOK'
    BY <1>3 DEF Log, TypeOK
  <1>4. ASSUME NEW l \in Loggers, Count(l)
        PROVE  TypeOK'
    BY <1>4, RowsCount DEF Count, TypeOK
  <1>5. ASSUME NEW l \in Loggers, First(l)
        PROVE  TypeOK'
    <2>1. PICK id \in (1 .. MaxEntries) \cup {None} :
                first' = [first EXCEPT ![l] = id]
      BY <1>5 DEF First, TypeOK
    <2> QED
      BY <1>5, <2>1 DEF First, TypeOK
  <1>6. ASSUME NEW l \in Loggers, Delete(l)
        PROVE  TypeOK'
    <2>1. result[l] - 1 \in 0 .. MaxEntries
      BY <1>6 DEF Delete, TypeOK
    <2> QED
      BY <1>6, <2>1 DEF Delete, TypeOK
  <1>7. ASSUME NEW l \in Loggers, Purged(l)
        PROVE  TypeOK'
    BY <1>7 DEF Purged, TypeOK
  <1> QED
    BY <1>1, <1>2, <1>3, <1>4, <1>5, <1>6, <1>7 DEF Next, Purge

\* The state has its types at any moment: a result does not go below zero.
THEOREM TypeCorrect == Spec => []TypeOK
  BY InitTyped, NextTyped, PTL DEF Spec
-----------------------------------------------------------------------------
(***************************************************************************)
(* Bounded.  Purges that overlap delete the same first row, so a row that  *)
(* is gone may count for several of them.  For every m the rows beyond m   *)
(* are as many at most as the purges that will still see more than m rows: *)
(* a deletion that takes purges out of that number has taken a row that    *)
(* the purges beyond m + 1 do not count.                                   *)
(***************************************************************************)
\* What a purge has left: the count it goes by, less the deletion of a row
\* that somebody else has already deleted.
Left(l) == IF pc[l] = "delete" /\ first[l] \notin rows THEN result[l] - 1
           ELSE result[l]

More(m) == {l \in Loggers : \/ pc[l] = "count"
                            \/ pc[l] \in {"first", "delete"} /\ Left(l) > m}

Beyond(m) == Cardinality(rows) <= m + Cardinality(More(m))

Purging == \A m \in Nat : m >= Capacity => Beyond(m)

LEMMA LoggersCount ==
    ASSUME NEW S, S \subseteq Loggers, NEW T, T \subseteq S
    PROVE  /\ IsFiniteSet(S) /\ Cardinality(S) \in Nat
           /\ IsFiniteSet(T) /\ Cardinality(T) \in Nat
           /\ Cardinality(T) <= Cardinality(S)
  <1>1. IsFiniteSet(S)
    BY LoggersAssumption, FS_Subset
  <1>2. IsFiniteSet(T) /\ Cardinality(T) <= Cardinality(S)
    BY <1>1, FS_Subset
  <1> QED
    BY <1>1, <1>2, FS_CardinalityType

\* A step that adds no row, and takes no purge out of the number.
LEMMA BeyondKept ==
    ASSUME TypeOK, NEW m \in Nat, Beyond(m),
           rows' \subseteq rows, More(m) \subseteq More(m)'
    PROVE  Beyond(m)'
  <1>1. /\ Cardinality(More(m)) <= Cardinality(More(m)')
        /\ Cardinality(More(m)) \in Nat /\ Cardinality(More(m)') \in Nat
    BY LoggersCount DEF More
  <1>2. Cardinality(rows') <= Cardinality(rows) /\ IsFiniteSet(rows')
    BY RowsCount, FS_Subset
  <1>3. Cardinality(rows) \in Nat /\ Cardinality(rows') \in Nat
    BY <1>2, RowsCount, FS_CardinalityType
  <1> QED
    BY <1>1, <1>2, <1>3 DEF Beyond

LEMMA BeyondEmpty ==
    ASSUME NEW m \in Nat, rows' = {}
    PROVE  Beyond(m)'
  <1>1. Cardinality(rows') = 0
    BY FS_EmptySet
  <1>2. Cardinality(More(m)') \in Nat
    BY LoggersCount DEF More
  <1> QED
    BY <1>1, <1>2 DEF Beyond

\* An entry adds one row and one purge.
LEMMA LogBeyond ==
    ASSUME TypeOK, NEW m \in Nat, Beyond(m), NEW l \in Loggers, Log(l)
    PROVE  Beyond(m)'
  <1>1. PICK id : rows' = rows \cup {id}
    BY DEF Log
  <1>2. /\ Cardinality(rows') <= Cardinality(rows) + 1
        /\ Cardinality(rows) \in Nat /\ Cardinality(rows') \in Nat
    <2>1. IsFiniteSet(rows) /\ Cardinality(rows) \in Nat
      BY RowsCount, BoundsAssumption
    <2>2. Cardinality(rows') \in {Cardinality(rows), Cardinality(rows) + 1}
      BY <1>1, <2>1, FS_AddElement
    <2> QED
      BY <2>1, <2>2
  <1>3. l \notin More(m)
    BY DEF Log, More
  <1>4. More(m) \cup {l} \subseteq More(m)'
    BY <1>1 DEF Log, Goto, More, Left, TypeOK
  <1>5. Cardinality(More(m) \cup {l}) = Cardinality(More(m)) + 1
    BY <1>3, LoggersCount, FS_AddElement DEF More
  <1>6. /\ Cardinality(More(m) \cup {l}) <= Cardinality(More(m)')
        /\ Cardinality(More(m)') \in Nat /\ Cardinality(More(m)) \in Nat
    BY <1>4, LoggersCount DEF More
  <1> QED
    BY <1>2, <1>5, <1>6 DEF Beyond

\* A count that is not beyond m takes a purge out of the number, and says so.
LEMMA CountBeyond ==
    ASSUME TypeOK, NEW m \in Nat, Beyond(m), NEW l \in Loggers, Count(l)
    PROVE  Beyond(m)'
  <1>1. CASE Cardinality(rows) > m
    <2>1. Left(l)' = Cardinality(rows) /\ pc'[l] = "first"
      BY DEF Count, Goto, Left, TypeOK
    <2>2. \A k \in Loggers \ {l} :
             k \in More(m) => k \in More(m)'
      BY DEF Count, Goto, More, Left, TypeOK
    <2>3. More(m) \subseteq More(m)'
      BY <1>1, <2>1, <2>2 DEF More
    <2> QED
      BY <2>3, BeyondKept DEF Count
  <1>2. CASE ~(Cardinality(rows) > m)
    <2>1. rows' = rows /\ Cardinality(rows) \in Nat
      BY RowsCount DEF Count
    <2>2. Cardinality(More(m)') \in Nat
      BY LoggersCount DEF More
    <2> QED
      BY <1>2, <2>1, <2>2 DEF Beyond
  <1> QED
    BY <1>1, <1>2

\* A purge goes on with a row that is there, or there is none left.
LEMMA FirstBeyond ==
    ASSUME TypeOK, NEW m \in Nat, Beyond(m), NEW l \in Loggers, First(l)
    PROVE  Beyond(m)'
  <1>1. CASE rows = {}
    BY <1>1, BeyondEmpty DEF First
  <1>2. CASE rows # {}
    <2>1. rows' = rows /\ pc' = [pc EXCEPT ![l] = "delete"] /\ result' = result
      BY DEF First, Goto
    <2>2. PICK id \in rows : first' = [first EXCEPT ![l] = id]
      BY <1>2 DEF First
    <2>3. \A k \in Loggers : k \in More(m) => k \in More(m)'
      BY <2>1, <2>2 DEF First, More, Left, TypeOK
    <2> QED
      BY <2>1, <2>3, BeyondKept DEF More
  <1> QED
    BY <1>1, <1>2

\* A deletion of a row that is there may take several purges out of the
\* number, from m + 1: then the bound of m + 1 is the one that goes down.
LEMMA DeleteBeyond ==
    ASSUME TypeOK, Purging, NEW m \in Nat, m >= Capacity,
           NEW l \in Loggers, Delete(l)
    PROVE  Beyond(m)'
  <1> DEFINE x == first[l]
  <1>1. /\ pc[l] = "delete" /\ pc' = [pc EXCEPT ![l] = "first"]
        /\ rows' = rows \ {x} /\ UNCHANGED first
        /\ result' = [result EXCEPT ![l] = result[l] - 1]
    BY DEF Delete, Goto
  <1>2. Beyond(m) /\ Beyond(m + 1)
    BY CapacityAssumption DEF Purging
  <1>3. \A k \in Loggers : result[k] \in Nat
    BY BoundsAssumption DEF TypeOK
  <1>4. CASE x \notin rows
    <2>1. \A k \in Loggers : k \in More(m) => k \in More(m)'
      BY <1>1, <1>3, <1>4 DEF More, Left, TypeOK
    <2> QED
      BY <1>1, <1>2, <2>1, BeyondKept DEF More
  <1>5. CASE x \in rows
    <2>1. \A k \in Loggers : k \in More(m + 1) => k \in More(m)'
      BY <1>1, <1>3, <1>5 DEF More, Left, TypeOK
    <2>2. /\ Cardinality(More(m + 1)) <= Cardinality(More(m)')
          /\ Cardinality(More(m + 1)) \in Nat /\ Cardinality(More(m)') \in Nat
      BY <2>1, LoggersCount DEF More
    <2>3. /\ Cardinality(rows') = Cardinality(rows) - 1
          /\ Cardinality(rows) \in Nat
      <3>1. IsFiniteSet(rows) /\ Cardinality(rows) \in Nat
        BY RowsCount, BoundsAssumption
      <3> HIDE DEF x
      <3>2. Cardinality(rows \ {x}) = Cardinality(rows) - 1
        BY <1>5, <3>1, FS_RemoveElement
      <3> QED
        BY <1>1, <3>1, <3>2
    <2> QED
      BY <1>2, <2>2, <2>3 DEF Beyond
  <1> QED
    BY <1>4, <1>5

LEMMA NextPurging == TypeOK /\ Purging /\ [Next]_vars => Purging'
  <1> SUFFICES ASSUME TypeOK, Purging, [Next]_vars,
                      NEW m \in Nat, m >= Capacity
               PROVE  Beyond(m)'
    BY DEF Purging
  <1>0. Beyond(m)
    BY DEF Purging
  <1>1. CASE UNCHANGED vars
    BY <1>0, <1>1 DEF vars, Beyond, More, Left
  <1>2. CASE DeleteDataAllItems
    BY <1>2, BeyondEmpty DEF DeleteDataAllItems
  <1>3. ASSUME NEW l \in Loggers, Log(l)
        PROVE  Beyond(m)'
    BY <1>0, <1>3, LogBeyond
  <1>4. ASSUME NEW l \in Loggers, Count(l)
        PROVE  Beyond(m)'
    BY <1>0, <1>4, CountBeyond
  <1>5. ASSUME NEW l \in Loggers, First(l)
        PROVE  Beyond(m)'
    BY <1>0, <1>5, FirstBeyond
  <1>6. ASSUME NEW l \in Loggers, Delete(l)
        PROVE  Beyond(m)'
    BY <1>6, DeleteBeyond
  \* The purge that ends has not counted beyond the capacity.
  <1>7. ASSUME NEW l \in Loggers, Purged(l)
        PROVE  Beyond(m)'
    <2>1. ~(result[l] > m)
      BY <1>7, CapacityAssumption, BoundsAssumption DEF Purged, TypeOK
    <2>2. \A k \in Loggers : k \in More(m) => k \in More(m)'
      BY <1>7, <2>1 DEF Purged, Goto, More, Left, TypeOK
    <2> QED
      BY <1>0, <1>7, <2>2, BeyondKept DEF Purged, More
  <1> QED
    BY <1>1, <1>2, <1>3, <1>4, <1>5, <1>6, <1>7 DEF Next, Purge

\* The log stays within its capacity and one row for each goroutine at work
\* (logger/logger.go 12-48), however many log at once.
THEOREM StaysBounded == Spec => []Bounded
  <1>1. Init => Purging
    <2> SUFFICES ASSUME Init, NEW m \in Nat PROVE Beyond(m)
      BY DEF Purging
    <2> QED
      BY FS_EmptySet, LoggersCount DEF Init, Beyond, More
  <1>2. TypeOK /\ Purging => Bounded
    <2> SUFFICES ASSUME TypeOK, Purging PROVE Bounded
      OBVIOUS
    <2>1. Beyond(Capacity)
      BY CapacityAssumption DEF Purging
    <2>2. More(Capacity) \subseteq Working /\ Working \subseteq Loggers
      BY DEF More, Working
    <2>3. /\ Cardinality(More(Capacity)) <= Cardinality(Working)
          /\ Cardinality(More(Capacity)) \in Nat
          /\ Cardinality(Working) \in Nat
      BY <2>2, LoggersCount
    <2> QED
      BY <2>1, <2>3, RowsCount, CapacityAssumption DEF Beyond, Bounded
  <1> QED
    BY <1>1, <1>2, InitTyped, NextTyped, NextPurging, PTL DEF Spec
-----------------------------------------------------------------------------
(***************************************************************************)
(* OldestGoFirst.  What the purges at work may still delete, Debts, is     *)
(* never so much that the log could become empty, if there are few         *)
(* loggers: each has counted one row for each of them beyond the capacity  *)
(* at most, by Bounded.  Then IDs do not start again.                      *)
(***************************************************************************)
Most == Capacity + Cardinality(Loggers)
Others == Cardinality(Loggers) * (Cardinality(Loggers) - 1)
FewLoggers == Others < Capacity

Purges(l) == pc[l] \in {"first", "delete"}
Beyonds(S) == S \X (Capacity + 1 .. Most)
Debts == {x \in Beyonds(Loggers) : Purges(x[1]) /\ x[2] <= result[x[1]]}

CountedFew == \A l \in Loggers : result[l] <= Most

Reserve ==
    \/ rows = 1 .. entries /\ Debts = {}
    \/ Cardinality(rows) + Others >= Capacity + Cardinality(Debts)

Latest ==
    /\ rows \subseteq 1 .. entries
    /\ entries > 0 => entries \in rows
    /\ \A id \in 1 .. entries : (\E r \in rows : r <= id) => id \in rows
    /\ \A l \in Loggers : pc[l] = "delete" =>
          first[l] \in 1 .. entries /\ \A r \in rows : first[l] <= r

OInv == CountedFew /\ (~mayClear => Reserve /\ Latest)

LEMMA Numbers ==
    /\ Cardinality(Loggers) \in Nat /\ Most \in Nat /\ Others \in Nat
    /\ Capacity \in Nat /\ Capacity <= Most
  <1> DEFINE n == Cardinality(Loggers)
  <1>1. n \in Nat
    BY LoggersAssumption, FS_CardinalityType
  <1> HIDE DEF n
  <1>2. n * (n - 1) \in Nat
    <2>1. CASE n = 0
      BY <2>1
    <2>2. CASE n # 0
      <3>1. n - 1 \in Nat
        BY <1>1, <2>2
      <3> QED
        BY <1>1, <3>1
    <2> QED
      BY <2>1, <2>2
  <1>3. Capacity + n \in Nat /\ Capacity <= Capacity + n
    BY <1>1, CapacityAssumption
  <1> QED
    BY <1>1, <1>2, <1>3, CapacityAssumption DEF n, Most, Others

LEMMA BeyondsFinite ==
    ASSUME NEW S, S \subseteq Loggers, NEW D, D \subseteq Beyonds(S)
    PROVE  /\ IsFiniteSet(D) /\ Cardinality(D) \in Nat
           /\ Cardinality(D) <= Cardinality(S) * Cardinality(Loggers)
  <1>1. IsFiniteSet(S) /\ Cardinality(S) \in Nat
    BY LoggersCount
  <1>2. /\ IsFiniteSet(Capacity + 1 .. Most)
        /\ Cardinality(Capacity + 1 .. Most) = Cardinality(Loggers)
    <2> DEFINE n == Cardinality(Loggers)
    <2>1. n \in Nat /\ Capacity \in Nat /\ Most = Capacity + n
      BY Numbers DEF Most
    <2> HIDE DEF n
    <2>2. IF Capacity + 1 > Capacity + n THEN 0 = n
          ELSE (Capacity + n) - (Capacity + 1) + 1 = n
      BY <2>1
    <2>3. Capacity + 1 \in Int /\ Capacity + n \in Int
      BY <2>1
    <2>4. /\ IsFiniteSet(Capacity + 1 .. Capacity + n)
          /\ Cardinality(Capacity + 1 .. Capacity + n) = n
      BY <2>2, <2>3, FS_Interval
    <2> QED
      BY <2>1, <2>4 DEF n
  <1>3. /\ IsFiniteSet(Beyonds(S))
        /\ Cardinality(Beyonds(S)) = Cardinality(S) * Cardinality(Loggers)
    <2> DEFINE T == Capacity + 1 .. Most
    <2>1. Beyonds(S) = S \X T
      BY DEF Beyonds
    <2>2. IsFiniteSet(T) /\ Cardinality(T) = Cardinality(Loggers)
      BY <1>2
    <2> HIDE DEF T
    <2>3. /\ IsFiniteSet(S \X T)
          /\ Cardinality(S \X T) = Cardinality(S) * Cardinality(T)
      BY <1>1, <2>2, FS_Product
    <2> QED
      BY <2>1, <2>2, <2>3
  <1>4. IsFiniteSet(D) /\ Cardinality(D) <= Cardinality(Beyonds(S))
    BY <1>3, FS_Subset
  <1> QED
    BY <1>3, <1>4, FS_CardinalityType

LEMMA DebtsFinite ==
    /\ IsFiniteSet(Debts) /\ Cardinality(Debts) \in Nat
    /\ IsFiniteSet(Debts') /\ Cardinality(Debts') \in Nat
  <1>1. Debts \subseteq Beyonds(Loggers) /\ Debts' \subseteq Beyonds(Loggers)
    BY DEF Debts, Beyonds, Most
  <1> QED
    BY <1>1, BeyondsFinite

\* What all but one can owe.
LEMMA OthersDebts ==
    ASSUME NEW l \in Loggers, NEW D, D \subseteq Beyonds(Loggers \ {l})
    PROVE  IsFiniteSet(D) /\ Cardinality(D) \in Nat /\ Cardinality(D) <= Others
  <1> DEFINE n == Cardinality(Loggers)
  <1>1. Cardinality(Loggers \ {l}) = n - 1 /\ n \in Nat
    BY Numbers, LoggersAssumption, FS_RemoveElement
  <1>2. IsFiniteSet(D) /\ Cardinality(D) \in Nat /\ Cardinality(D) <= (n - 1) * n
    <2>1. Loggers \ {l} \subseteq Loggers
      OBVIOUS
    <2> QED
      BY <1>1, <2>1, BeyondsFinite
  <1> HIDE DEF n
  <1>3. (n - 1) * n = n * (n - 1)
    BY <1>1
  <1> QED
    BY <1>2, <1>3 DEF n, Others

\* What one owes that has counted c rows.
LEMMA OwnDebts ==
    ASSUME NEW l \in Loggers, NEW c \in Nat, c >= Capacity, c <= Most,
           NEW D, D = {x \in Beyonds({l}) : x[2] <= c}
    PROVE  IsFiniteSet(D) /\ Cardinality(D) = c - Capacity
  <1>0. Capacity \in Nat /\ Most \in Nat
    BY Numbers
  <1>1. D = {l} \X (Capacity + 1 .. c)
    BY <1>0 DEF Beyonds
  <1>2. /\ IsFiniteSet(Capacity + 1 .. c)
        /\ Cardinality(Capacity + 1 .. c) = c - Capacity
    <2>1. Capacity + 1 \in Int /\ c \in Int
      BY <1>0
    <2>2. IF Capacity + 1 > c THEN 0 = c - Capacity
          ELSE c - (Capacity + 1) + 1 = c - Capacity
      BY <1>0
    <2> QED
      BY <2>1, <2>2, FS_Interval
  <1>3. IsFiniteSet({l}) /\ Cardinality({l}) = 1
    BY FS_Singleton
  <1> DEFINE K == Capacity + 1 .. c
  <1> HIDE DEF K
  <1>4. /\ IsFiniteSet({l} \X K)
        /\ Cardinality({l} \X K) = Cardinality({l}) * Cardinality(K)
    BY <1>2, <1>3, FS_Product DEF K
  <1>5. D = {l} \X K /\ Cardinality(K) = c - Capacity
    BY <1>1, <1>2 DEF K
  <1>6. Cardinality(D) = 1 * (c - Capacity) /\ IsFiniteSet(D)
    BY <1>3, <1>4, <1>5, Zenon
  <1>7. 1 * (c - Capacity) = c - Capacity
    BY <1>0
  <1> QED
    BY <1>6, <1>7, Zenon

LEMMA NextCountedFew ==
    ASSUME TypeOK, Bounded, CountedFew, [Next]_vars
    PROVE  CountedFew'
  <1>1. CASE \/ DeleteDataAllItems \/ UNCHANGED vars
             \/ \E l \in Loggers : Log(l) \/ First(l) \/ Purged(l)
    BY <1>1 DEF CountedFew, DeleteDataAllItems, Log, First, Purged, vars, Most
  <1>2. ASSUME NEW l \in Loggers, Count(l)
        PROVE  CountedFew'
    <2>1. /\ Cardinality(Working) <= Cardinality(Loggers)
          /\ Cardinality(Working) \in Nat /\ Cardinality(rows) \in Nat
      BY LoggersCount, RowsCount, BoundsAssumption DEF Working
    <2>2. Cardinality(rows) <= Most
      BY <2>1, Numbers DEF Bounded, Most
    <2> QED
      BY <1>2, <2>2 DEF Count, CountedFew, TypeOK, Most
  <1>3. ASSUME NEW l \in Loggers, Delete(l)
        PROVE  CountedFew'
    <2>1. result[l] \in Nat /\ result[l] - 1 <= Most
      BY Numbers, BoundsAssumption DEF CountedFew, TypeOK
    <2> QED
      BY <1>3, <2>1 DEF Delete, CountedFew, TypeOK, Most
  <1> QED
    BY <1>1, <1>2, <1>3 DEF Next, Purge

\* The log is not empty once an entry was made, and what a purge is about to
\* delete is the oldest row.
LEMMA NewIsLatest ==
    ASSUME TypeOK, Latest, NEW id \in 1 .. MaxEntries, IsNewID(id)
    PROVE  id = entries + 1
  <1>1. entries \in Nat /\ rows \subseteq Nat
    BY BoundsAssumption DEF TypeOK
  <1>2. CASE rows = {} /\ id = 1
    BY <1>1, <1>2 DEF Latest
  <1>3. CASE id - 1 \in rows /\ \A r \in rows : r < id
    <2>1. id - 1 <= entries /\ entries > 0
      BY <1>1, <1>3 DEF Latest
    <2>2. entries < id
      BY <1>3, <2>1 DEF Latest
    <2> QED
      BY <1>1, <2>1, <2>2
  <1> QED
    BY <1>2, <1>3 DEF IsNewID

\* A purge that goes on owes a deletion.
LEMMA PurgeOwes ==
    ASSUME TypeOK, CountedFew, NEW l \in Loggers, Purges(l), result[l] > Capacity
    PROVE  <<l, result[l]>> \in Debts
  <1>1. result[l] \in Nat /\ result[l] <= Most /\ Capacity \in Nat /\ Most \in Nat
    BY Numbers, BoundsAssumption DEF CountedFew, TypeOK
  <1>2. result[l] \in Capacity + 1 .. Most
    BY <1>1
  <1> QED
    BY <1>1, <1>2 DEF Debts, Beyonds

LEMMA SpareRow ==
    ASSUME FewLoggers, Reserve, Debts # {}
    PROVE  Cardinality(rows) + Others >= Capacity + Cardinality(Debts)
  BY DEF Reserve

LEMMA LogKeepsReserve ==
    ASSUME TypeOK, Reserve, Latest, NEW l \in Loggers, Log(l)
    PROVE  Reserve'
  <1>1. rows' = rows \cup {entries + 1} /\ entries' = entries + 1
    BY NewIsLatest DEF Log
  <1>2. Debts' = Debts
    <2>1. result' = result /\ \A k \in Loggers : Purges(k)' <=> Purges(k)
      BY DEF Log, Goto, Purges, TypeOK
    <2> QED
      BY <2>1 DEF Debts, Beyonds, Most
  <1>3. entries \in Nat
    BY BoundsAssumption DEF TypeOK
  <1>4. CASE rows = 1 .. entries /\ Debts = {}
    BY <1>1, <1>2, <1>3, <1>4 DEF Reserve
  <1>5. CASE Cardinality(rows) + Others >= Capacity + Cardinality(Debts)
    <2>1. IsFiniteSet(rows) /\ Cardinality(rows) \in Nat
      BY RowsCount, BoundsAssumption
    <2>2. IsFiniteSet(rows') /\ Cardinality(rows) <= Cardinality(rows')
      <3>1. IsFiniteSet(rows')
        BY <1>1, <2>1, FS_AddElement
      <3> QED
        BY <1>1, <3>1, FS_Subset
    <2>3. Cardinality(rows') \in Nat
      BY <2>2, FS_CardinalityType
    <2>4. Others' = Others
      BY DEF Others
    <2> QED
      BY <1>2, <1>5, <2>1, <2>2, <2>3, <2>4, Numbers, DebtsFinite DEF Reserve
  <1> QED
    BY <1>4, <1>5 DEF Reserve

\* What counts is owed from then on, and is there.
LEMMA CountKeepsReserve ==
    ASSUME TypeOK, Bounded, CountedFew, CountedFew', Reserve,
           NEW l \in Loggers, Count(l)
    PROVE  Reserve'
  <1> DEFINE R == Cardinality(rows)
             Own == {x \in Beyonds({l}) : x[2] <= R}
  <1>1. /\ pc[l] = "count" /\ pc' = [pc EXCEPT ![l] = "first"]
        /\ result' = [result EXCEPT ![l] = R] /\ UNCHANGED <<rows, entries>>
    BY DEF Count, Goto
  <1>2. R \in Nat /\ R <= Most /\ Capacity \in Nat
    BY <1>1, RowsCount, BoundsAssumption, Numbers DEF CountedFew, TypeOK, Most
  <1>3. Debts \subseteq Beyonds(Loggers \ {l})
    BY <1>1 DEF Debts, Beyonds, Purges
  <1>4. Debts' = Debts \cup Own
    <2>1. \A k \in Loggers \ {l} : (Purges(k)' <=> Purges(k)) /\ result'[k] = result[k]
      BY <1>1 DEF Purges, TypeOK
    <2>2. Purges(l)' /\ result'[l] = R /\ ~Purges(l)
      BY <1>1 DEF Purges, TypeOK
    <2> HIDE DEF R
    <2>3. ASSUME NEW x \in Beyonds(Loggers)
          PROVE  x \in Debts' <=> x \in Debts \/ x \in Own
      <3>1. Most' = Most /\ Beyonds(Loggers)' = Beyonds(Loggers)
        BY DEF Most, Beyonds
      <3>2. x[1] \in Loggers /\ (x \in Beyonds({l}) <=> x[1] = l)
        BY DEF Beyonds
      <3>3. CASE x[1] = l
        BY <2>2, <3>1, <3>2, <3>3 DEF Debts
      <3>4. CASE x[1] # l
        BY <2>1, <3>1, <3>2, <3>4 DEF Debts
      <3> QED
        BY <3>3, <3>4
    <2>4. Debts' \subseteq Beyonds(Loggers) /\ Debts \cup Own \subseteq Beyonds(Loggers)
      BY DEF Debts, Beyonds, Most
    <2> QED
      BY <2>3, <2>4
  <1>5. CASE R <= Capacity
    <2>1. Own = {}
      BY <1>2, <1>5, Numbers DEF Beyonds
    <2>2. Debts' = Debts /\ Others' = Others
      BY <1>4, <2>1 DEF Others
    <2> QED
      BY <1>1, <2>2 DEF Reserve
  <1>6. CASE ~(R <= Capacity)
    <2>1. IsFiniteSet(Own) /\ Cardinality(Own) = R - Capacity
      <3>1. R >= Capacity
        BY <1>2, <1>6
      <3> HIDE DEF R
      <3> QED
        BY <1>2, <3>1, OwnDebts
    <2>2. IsFiniteSet(Debts) /\ Cardinality(Debts) \in Nat /\ Cardinality(Debts) <= Others
      BY <1>3, OthersDebts
    <2>3. Debts \cap Own = {}
      BY <1>3 DEF Beyonds
    <2>4. Cardinality(Debts') = Cardinality(Debts) + (R - Capacity)
      <3>1. Cardinality(Debts \cap Own) = 0
        BY <2>3, FS_EmptySet
      <3>2. Cardinality(Debts \cup Own) =
               Cardinality(Debts) + Cardinality(Own) - Cardinality(Debts \cap Own)
        <4> HIDE DEF Own
        <4> QED
          BY <2>1, <2>2, FS_Union
      <3>3. Cardinality(Debts') = Cardinality(Debts) + (R - Capacity) - 0
        BY <1>4, <2>1, <3>1, <3>2, Zenon
      <3> HIDE DEF R
      <3> QED
        BY <1>2, <2>2, <3>3
    <2>5. Others' = Others /\ Cardinality(rows') = R
      BY <1>1 DEF Others
    <2> HIDE DEF R
    <2>6. R + Others >= Capacity + Cardinality(Debts')
      BY <1>2, <2>2, <2>4, Numbers
    <2> QED
      BY <2>5, <2>6 DEF Reserve
  <1> QED
    BY <1>5, <1>6

\* A deletion takes one row at most, and is owed no more.
LEMMA DeleteKeepsReserve ==
    ASSUME FewLoggers, TypeOK, CountedFew, Reserve, NEW l \in Loggers, Delete(l)
    PROVE  Reserve' /\ rows' # {}
  <1> DEFINE x == <<l, result[l]>>
  <1>1. /\ pc[l] = "delete" /\ pc' = [pc EXCEPT ![l] = "first"]
        /\ rows' = rows \ {first[l]}
        /\ result' = [result EXCEPT ![l] = result[l] - 1]
    BY DEF Delete, Goto
  <1>2. result[l] > Capacity /\ result[l] \in Nat
    BY <1>1, BoundsAssumption DEF TypeOK
  <1>3. x \in Debts
    BY <1>1, <1>2, PurgeOwes DEF Purges
  <1>4. Debts' = Debts \ {x}
    <2>1. \A k \in Loggers \ {l} : (Purges(k)' <=> Purges(k)) /\ result'[k] = result[k]
      BY <1>1 DEF Purges, TypeOK
    <2>2. Purges(l)' /\ result'[l] = result[l] - 1 /\ Purges(l)
      BY <1>1 DEF Purges, TypeOK
    <2>3. ASSUME NEW y \in Beyonds(Loggers)
          PROVE  y \in Debts' <=> y \in Debts /\ y # x
      <3>1. Most' = Most /\ Beyonds(Loggers)' = Beyonds(Loggers)
        BY DEF Most, Beyonds
      <3>2. y[1] \in Loggers /\ y[2] \in Nat /\ y = <<y[1], y[2]>>
        BY Numbers DEF Beyonds
      <3>3. CASE y[1] = l
        <4>1. y[2] <= result[l] - 1 <=> y[2] <= result[l] /\ y[2] # result[l]
          BY <1>2, <3>2
        <4>2. y # x <=> y[2] # result[l]
          BY <3>2, <3>3
        <4> QED
          BY <2>2, <3>1, <3>3, <4>1, <4>2 DEF Debts
      <3>4. CASE y[1] # l
        <4>1. y # x
          BY <3>4
        <4> QED
          BY <2>1, <3>1, <3>2, <3>4, <4>1 DEF Debts
      <3> QED
        BY <3>3, <3>4
    <2>4. Debts' \subseteq Beyonds(Loggers) /\ Debts \subseteq Beyonds(Loggers)
      BY DEF Debts, Beyonds, Most
    <2> HIDE DEF x
    <2> QED
      BY <2>3, <2>4
  <1>5. Cardinality(Debts') = Cardinality(Debts) - 1
    <2> HIDE DEF x
    <2> QED
      BY <1>3, <1>4, DebtsFinite, FS_RemoveElement
  <1>6. Cardinality(rows) + Others >= Capacity + Cardinality(Debts)
    BY <1>3, SpareRow
  <1>7. /\ IsFiniteSet(rows') /\ Cardinality(rows') \in Nat
        /\ Cardinality(rows) \in Nat /\ Cardinality(rows') >= Cardinality(rows) - 1
    <2>1. IsFiniteSet(rows) /\ Cardinality(rows) \in Nat
      BY RowsCount, BoundsAssumption
    <2>2. /\ IsFiniteSet(rows \ {first[l]})
          /\ Cardinality(rows \ {first[l]}) =
                IF first[l] \in rows THEN Cardinality(rows) - 1 ELSE Cardinality(rows)
      BY <2>1, FS_RemoveElement
    <2>3. Cardinality(rows') \in {Cardinality(rows) - 1, Cardinality(rows)}
      BY <1>1, <2>2
    <2> QED
      BY <1>1, <2>1, <2>2, <2>3, FS_CardinalityType
  <1>8. Others' = Others
    BY DEF Others
  <1>9. Cardinality(rows') + Others >= Capacity + Cardinality(Debts')
    BY <1>5, <1>6, <1>7, DebtsFinite, Numbers
  <1>10. Cardinality(rows') # 0
    BY <1>7, <1>9, DebtsFinite, Numbers DEF FewLoggers
  <1> QED
    BY <1>8, <1>9, <1>10, FS_EmptySet DEF Reserve

LEMMA NextReserve ==
    ASSUME FewLoggers, TypeOK, Bounded, CountedFew, CountedFew', Reserve, Latest,
           [Next]_vars, ~mayClear
    PROVE  Reserve'
  \* A step that no purge has counted or deleted in.
  <1>1. CASE /\ UNCHANGED <<rows, entries, result>>
             /\ \A k \in Loggers : result[k] > Capacity => (Purges(k)' <=> Purges(k))
    <2>1. Most' = Most /\ Beyonds(Loggers)' = Beyonds(Loggers) /\ Others' = Others
      BY DEF Most, Beyonds, Others
    <2>2. ASSUME NEW x \in Beyonds(Loggers)
          PROVE  x \in Debts' <=> x \in Debts
      <3>1. x[1] \in Loggers /\ x[2] > Capacity /\ x[2] \in Nat
        BY Numbers DEF Beyonds
      <3>2. result[x[1]] \in Nat /\ Capacity \in Nat
        BY <3>1, BoundsAssumption, CapacityAssumption DEF TypeOK
      <3>3. x[2] <= result[x[1]] => result[x[1]] > Capacity
        BY <3>1, <3>2
      <3> QED
        BY <1>1, <2>1, <3>1, <3>3 DEF Debts
    <2>3. Debts' = Debts
      BY <2>1, <2>2 DEF Debts
    <2> QED
      BY <1>1, <2>1, <2>3 DEF Reserve
  <1>2. CASE UNCHANGED vars
    BY <1>1, <1>2 DEF vars, Purges
  <1>3. ASSUME NEW l \in Loggers, First(l)
        PROVE  Reserve'
    BY <1>1, <1>3 DEF First, Goto, Purges, TypeOK
  <1>4. ASSUME NEW l \in Loggers, Purged(l)
        PROVE  Reserve'
    <2>1. ~(result[l] > Capacity)
      BY <1>4, CapacityAssumption, BoundsAssumption DEF Purged, TypeOK
    <2> QED
      BY <1>1, <1>4, <2>1 DEF Purged, Goto, Purges, TypeOK
  <1> QED
    BY <1>2, <1>3, <1>4, LogKeepsReserve, CountKeepsReserve, DeleteKeepsReserve
    DEF Next, Purge, DeleteDataAllItems

LEMMA LogKeepsLatest ==
    ASSUME TypeOK, Latest, NEW l \in Loggers, Log(l)
    PROVE  Latest'
  <1>1. /\ rows' = rows \cup {entries + 1} /\ entries' = entries + 1
        /\ pc' = [pc EXCEPT ![l] = "count"] /\ first' = first
    BY NewIsLatest DEF Log, Goto
  <1>2. entries \in Nat /\ rows \subseteq 1 .. entries
    BY BoundsAssumption DEF TypeOK, Latest
  <1>3. rows' \subseteq 1 .. entries' /\ entries' \in rows'
    BY <1>1, <1>2
  <1>4. ASSUME NEW id \in 1 .. entries', NEW r \in rows', r <= id
        PROVE  id \in rows'
    <2>1. CASE id = entries + 1
      BY <1>1, <2>1
    <2>2. CASE id # entries + 1
      <3>1. id \in 1 .. entries /\ r # entries + 1
        BY <1>1, <1>2, <1>4, <2>2
      <3> QED
        BY <1>1, <1>4, <3>1 DEF Latest
    <2> QED
      BY <2>1, <2>2
  <1>5. ASSUME NEW k \in Loggers, pc'[k] = "delete"
        PROVE  first'[k] \in 1 .. entries' /\ \A r \in rows' : first'[k] <= r
    <2>1. pc[k] = "delete"
      BY <1>1, <1>5 DEF TypeOK
    <2>2. first[k] \in 1 .. entries /\ \A r \in rows : first[k] <= r
      BY <2>1 DEF Latest
    <2> QED
      BY <1>1, <1>2, <2>2
  <1> QED
    BY <1>3, <1>4, <1>5 DEF Latest

LEMMA FirstKeepsLatest ==
    ASSUME FewLoggers, TypeOK, CountedFew, Reserve, Latest, NEW l \in Loggers, First(l)
    PROVE  Latest'
  <1>1. /\ pc[l] = "first" /\ result[l] > Capacity /\ UNCHANGED <<rows, entries>>
        /\ pc' = [pc EXCEPT ![l] = "delete"]
    BY DEF First, Goto
  <1>2. rows # {}
    <2>1. Cardinality(rows) + Others >= Capacity + Cardinality(Debts)
      BY <1>1, PurgeOwes, SpareRow DEF Purges
    <2>2. Cardinality(rows) # 0
      BY <2>1, RowsCount, BoundsAssumption, DebtsFinite, Numbers DEF FewLoggers
    <2> QED
      BY <2>2, FS_EmptySet
  <1>3. PICK id \in rows : IsFirst(id) /\ first' = [first EXCEPT ![l] = id]
    BY <1>2 DEF First
  <1>4. ASSUME NEW k \in Loggers, pc'[k] = "delete"
        PROVE  first'[k] \in 1 .. entries /\ \A r \in rows : first'[k] <= r
    <2>1. CASE k = l
      BY <1>3, <2>1 DEF TypeOK, Latest, IsFirst
    <2>2. CASE k # l
      BY <1>1, <1>3, <1>4, <2>2 DEF TypeOK, Latest
    <2> QED
      BY <2>1, <2>2
  <1> QED
    BY <1>1, <1>4 DEF Latest

LEMMA DeleteKeepsLatest ==
    ASSUME TypeOK, Latest, rows' # {}, NEW l \in Loggers, Delete(l)
    PROVE  Latest'
  <1> DEFINE f == first[l]
  <1>1. /\ rows' = rows \ {f} /\ UNCHANGED <<entries, first>>
        /\ f \in 1 .. entries /\ \A r \in rows : f <= r
        /\ \A k \in Loggers : pc'[k] = "delete" => pc[k] = "delete"
    BY DEF Delete, Goto, Latest, TypeOK
  <1>2. entries \in Nat /\ rows \subseteq 1 .. entries
    BY BoundsAssumption DEF TypeOK, Latest
  <1> HIDE DEF f
  <1>3. entries > 0 => entries \in rows'
    <2> SUFFICES ASSUME entries > 0 PROVE entries # f
      BY <1>1 DEF Latest
    <2>1. PICK r \in rows : r # f
      BY <1>1
    <2> QED
      BY <1>1, <1>2, <2>1
  <1>4. ASSUME NEW id \in 1 .. entries, NEW r \in rows', r <= id
        PROVE  id \in rows'
    <2>1. id \in rows
      BY <1>1, <1>4 DEF Latest
    <2>2. r \in 1 .. entries /\ f <= r /\ r # f
      BY <1>1, <1>2
    <2>3. id # f
      BY <1>1, <1>2, <1>4, <2>2
    <2> QED
      BY <1>1, <2>1, <2>3
  <1> QED
    BY <1>1, <1>2, <1>3, <1>4 DEF Latest

LEMMA NextLatest ==
    ASSUME FewLoggers, TypeOK, CountedFew, Reserve, Latest, [Next]_vars, ~mayClear
    PROVE  Latest'
  <1>1. CASE UNCHANGED vars
    BY <1>1 DEF vars, Latest
  <1>2. ASSUME NEW l \in Loggers, Count(l) \/ Purged(l)
        PROVE  Latest'
    BY <1>2 DEF Count, Purged, Goto, Latest, TypeOK
  <1>3. ASSUME NEW l \in Loggers, Delete(l)
        PROVE  Latest'
    BY <1>3, DeleteKeepsReserve, DeleteKeepsLatest
  <1> QED
    BY <1>1, <1>2, <1>3, LogKeepsLatest, FirstKeepsLatest
    DEF Next, Purge, DeleteDataAllItems

\* The rows that are left are the latest ones, without a gap (logger/logger.go
\* 12-48), for any number of loggers n with n * (n - 1) below the capacity: up
\* to 32 that log at once, for the capacity of 1000.
THEOREM OldestFirst ==
    ASSUME FewLoggers
    PROVE  Spec => []OldestGoFirst
  <1>1. Init => OInv
    <2> SUFFICES ASSUME Init PROVE OInv
      OBVIOUS
    <2>1. CountedFew
      BY Numbers DEF Init, CountedFew
    <2>2. Debts = {} /\ rows = 1 .. entries
      BY DEF Init, Debts, Beyonds, Purges
    <2>3. Latest
      BY DEF Init, Latest
    <2> QED
      BY <2>1, <2>2, <2>3 DEF OInv, Reserve
  <1>2. TypeOK /\ Bounded /\ OInv /\ [Next]_vars => OInv'
    <2> SUFFICES ASSUME TypeOK, Bounded, OInv, [Next]_vars PROVE OInv'
      OBVIOUS
    <2>1. CountedFew'
      BY NextCountedFew DEF OInv
    <2>2. mayClear' = mayClear
      BY DEF Next, Purge, DeleteDataAllItems, Log, Count, First, Delete, Purged, vars
    <2> QED
      BY <2>1, <2>2, NextReserve, NextLatest DEF OInv
  <1>3. OInv => OldestGoFirst
    BY DEF OInv, Latest, OldestGoFirst
  <1> QED
    BY <1>1, <1>2, <1>3, TypeCorrect, StaysBounded, PTL DEF Spec
-----------------------------------------------------------------------------
(***************************************************************************)
(* What PurgeEnds rests on: the work a purge has left before it, which its *)
(* own steps reduce and nobody else's touch.                               *)
(***************************************************************************)
Work(l) ==
    CASE pc[l] = "idle"   -> 0
      [] pc[l] = "count"  -> 2 * MaxEntries + 2
      [] pc[l] = "first"  -> IF result[l] > Capacity
                             THEN 2 * (result[l] - Capacity) + 1 ELSE 1
      [] pc[l] = "delete" -> 2 * (result[l] - Capacity)

Nearer(l) ==
    /\ Purge(l) => Work(l)' < Work(l)
    /\ pc[l] # "idle" /\ ~Purge(l) => Work(l)' = Work(l)

LEMMA WorkTyped ==
    ASSUME TypeOK, NEW l \in Loggers
    PROVE  Work(l) \in Nat /\ (pc[l] # "idle" => Work(l) > 0)
  <1>1. /\ pc[l] \in {"idle", "count", "first", "delete"}
        /\ result[l] \in Nat /\ Capacity \in Nat /\ MaxEntries \in Nat
        /\ pc[l] = "delete" => result[l] > Capacity
    BY CapacityAssumption, BoundsAssumption DEF TypeOK
  <1> QED
    BY <1>1 DEF Work

LEMMA OwnWork ==
    ASSUME TypeOK, NEW l \in Loggers, Purge(l)
    PROVE  Work(l)' < Work(l)
  <1>0. /\ result[l] \in 0 .. MaxEntries
        /\ Capacity \in Nat /\ MaxEntries \in Nat
        /\ pc[l] = "delete" => result[l] > Capacity
    BY CapacityAssumption, BoundsAssumption DEF TypeOK
  <1>1. CASE Count(l)
    <2>1. /\ pc[l] = "count" /\ pc'[l] = "first"
          /\ result'[l] = Cardinality(rows)
      BY <1>1 DEF Count, Goto, TypeOK
    <2>2. result'[l] \in 0 .. MaxEntries
      BY <2>1, RowsCount
    <2>3. Work(l) = 2 * MaxEntries + 2
      BY <2>1 DEF Work
    <2>4. Work(l)' = IF result'[l] > Capacity
                     THEN 2 * (result'[l] - Capacity) + 1 ELSE 1
      BY <2>1 DEF Work
    <2> QED
      BY <1>0, <2>2, <2>3, <2>4
  <1>2. CASE First(l)
    <2>1. /\ pc[l] = "first" /\ pc'[l] = "delete"
          /\ result'[l] = result[l] /\ result[l] > Capacity
      BY <1>2 DEF First, Goto, TypeOK
    <2> QED
      BY <1>0, <2>1 DEF Work
  <1>3. CASE Delete(l)
    <2>1. /\ pc[l] = "delete" /\ pc'[l] = "first"
          /\ result'[l] = result[l] - 1
      BY <1>3 DEF Delete, Goto, TypeOK
    <2> QED
      BY <1>0, <2>1 DEF Work
  <1>4. CASE Purged(l)
    <2>1. pc[l] = "first" /\ pc'[l] = "idle" /\ ~(result[l] > Capacity)
      BY <1>0, <1>4 DEF Purged, Goto, TypeOK
    <2> QED
      BY <2>1 DEF Work
  <1> QED
    BY <1>1, <1>2, <1>3, <1>4 DEF Purge

LEMMA OthersWork ==
    ASSUME TypeOK, [Next]_vars, NEW l \in Loggers, pc[l] # "idle", ~Purge(l)
    PROVE  Work(l)' = Work(l)
  <1>1. pc'[l] = pc[l] /\ result'[l] = result[l]
    <2>1. CASE DeleteDataAllItems \/ UNCHANGED vars
      BY <2>1 DEF DeleteDataAllItems, vars
    <2>2. ASSUME NEW k \in Loggers, Log(k) \/ Purge(k)
          PROVE  pc'[l] = pc[l] /\ result'[l] = result[l]
      <3>1. k # l
        BY <2>2 DEF Log
      <3> QED
        BY <2>2, <3>1 DEF Log, Purge, Count, First, Delete, Purged, Goto, TypeOK
    <2> QED
      BY <2>1, <2>2 DEF Next
  <1> QED
    BY <1>1 DEF Work

\* Every step of a purge brings it nearer to its end, and nobody else takes
\* that away: the loop of logger.go goes by its own count, whatever is logged,
\* purged or cleared next to it.
THEOREM PurgeNearsItsEnd ==
    Spec => /\ [](\A l \in Loggers : Work(l) \in Nat /\ (pc[l] # "idle" => Work(l) > 0))
            /\ [][\A l \in Loggers : Nearer(l)]_vars
  <1>1. TypeOK => \A l \in Loggers : Work(l) \in Nat /\ (pc[l] # "idle" => Work(l) > 0)
    BY WorkTyped
  <1>2. TypeOK /\ [Next]_vars => [\A l \in Loggers : Nearer(l)]_vars
    BY OwnWork, OthersWork DEF Nearer
  <1> QED
    BY <1>1, <1>2, TypeCorrect, PTL DEF Spec
-----------------------------------------------------------------------------
(***************************************************************************)
(* The Windows service, for every set of commands: ServiceTypeOK, and      *)
(* AllOrNothing from what each command has open while it is half-way, and  *)
(* that what Execute still sends comes to an end.                          *)
(***************************************************************************)
LEMMA ServiceInitTyped == ServiceInit => ServiceTypeOK
  <1>1. Down \in [pc : {"down", "begin", "loop", "report", "repeat", "end", "exit"},
                 next : States \cup {Nil}]
    BY DEF Down
  <1> QED
    BY <1>1 DEF ServiceInit, ServiceTypeOK

\* A command's step keeps the types.
LEMMA CommandTyped ==
    ASSUME ServiceTypeOK, NEW c \in Commands, Command(c)
    PROVE  ServiceTypeOK'
  <1> USE DEF Proceed, Return, ServiceTypeOK
  <1>1. /\ service' \in {"absent", "installed", "marked"}
        /\ source' \in BOOLEAN
        /\ cmd' \in [Commands -> {"idle", "create", "register", "undo",
                                  "delete", "unregister"}]
        /\ amiss' \in BOOLEAN
    <2>1. CASE OpenToInstall(c) \/ OpenToRemove(c)
      BY <2>1 DEF OpenToInstall, OpenToRemove
    <2>2. CASE \/ CreateService(c) \/ InstallAsEventCreate(c)
               \/ UndoCreate(c)
      BY <2>2 DEF CreateService, InstallAsEventCreate, UndoCreate
    <2>3. CASE DeleteService(c) \/ RemoveEventSource(c) \/ Killed(c)
      BY <2>3 DEF DeleteService, RemoveEventSource, Killed
    <2> QED
      BY <2>1, <2>2, <2>3 DEF Command
  <1>2. UNCHANGED running
    BY DEF Command
  <1> QED
    BY <1>1, <1>2 DEF running

\* Execute or the library send a typed status and go on somewhere.
LEMMA ProcessTyped == ServiceTypeOK /\ Process => ServiceTypeOK'
  <1> SUFFICES ASSUME ServiceTypeOK, Process PROVE ServiceTypeOK'
    OBVIOUS
  <1> USE DEF ServiceTypeOK, At, States, Controls
  <1>0. UNCHANGED <<source, cmd, amiss>>
    BY DEF Process
  <1>1. CASE StartProcess
    <2>1. /\ execute' = [pc |-> "begin", next |-> "StartPending"]
          /\ console' \in BOOLEAN /\ status' = Nil /\ UNCHANGED <<service, request>>
      BY <1>1 DEF StartProcess, Start
    <2> QED
      BY <1>0, <2>1
  <1>2. ASSUME NEW control \in Controls, Request(control)
        PROVE  ServiceTypeOK'
    BY <1>0, <1>2 DEF Request
  <1>3. CASE Begin \/ Report \/ End
    <2>1. /\ status' = execute.next
          /\ UNCHANGED <<service, console, request>>
          /\ \E p \in {"begin", "loop", "report", "exit"}, s \in States \cup {Nil} :
                execute' = [pc |-> p, next |-> s]
      BY <1>3 DEF Begin, Report, End, Sends
    <2> QED
      BY <1>0, <2>1
  <1>4. CASE Receive
    <2>1. request \in Controls
      BY <1>4 DEF Receive
    <2>2. After(request)
            \in [pc : {"down", "begin", "loop", "report", "repeat", "end", "exit"},
                 next : States \cup {Nil}]
      BY <2>1 DEF After
    <2> QED
      BY <1>0, <1>4, <2>1, <2>2 DEF Receive
  <1>5. CASE ProcessEnds
    BY <1>0, <1>5 DEF ProcessEnds, Down
  <1> QED
    BY <1>1, <1>2, <1>3, <1>4, <1>5 DEF Process, Execute, Exit

LEMMA ServiceNextTyped == ServiceTypeOK /\ [ServiceNext]_serviceVars => ServiceTypeOK'
  <1>1. ServiceTypeOK /\ UNCHANGED serviceVars => ServiceTypeOK'
    BY DEF ServiceTypeOK, serviceVars
  <1> QED
    BY <1>1, CommandTyped, ProcessTyped DEF ServiceNext

\* The state has its types at any moment.
THEOREM ServiceTypeCorrect == ServiceSpec => []ServiceTypeOK
  BY ServiceInitTyped, ServiceNextTyped, PTL DEF ServiceSpec
-----------------------------------------------------------------------------
(***************************************************************************)
(* AllOrNothing.  While nothing went amiss,                                *)
(*   - nobody has a service open that is not there;                        *)
(*   - an installed service has its source, or the one command that has    *)
(*     created it is still at it;                                          *)
(*   - the source of a service that is marked is removed by the one        *)
(*     command that has deleted it, which also waits (and then fails) for  *)
(*     a source that is not registered yet.                                *)
(***************************************************************************)
Installs(c) == cmd[c] \in {"register", "undo"}
Removes(c) == cmd[c] = "unregister"

Alone ==
    \A c, d \in Commands :
        c # d => ~(Installs(c) /\ Installs(d)) /\ ~(Removes(c) /\ Removes(d))

Absent ==
    service = "absent" => ~source /\ \A c \in Commands : ~HasOpen(c)

Installed ==
    service = "installed" =>
        /\ \A c \in Commands : ~Removes(c)
        /\ source <=> \A c \in Commands : ~Installs(c)

Marked ==
    service = "marked" =>
        /\ \A c \in Commands : Installs(c) => ~source
        /\ source \/ (\E c \in Commands : cmd[c] = "register")
             => \E c \in Commands : Removes(c)

HalfWay == ~amiss => Alone /\ Absent /\ Installed /\ Marked

LEMMA InitHalfWay == ServiceInit => HalfWay
  BY DEF ServiceInit, HalfWay, Alone, Absent, Installed, Marked, Installs, Removes,
         HasOpen

LEMMA CommandHalfWay ==
    ASSUME ServiceTypeOK, HalfWay, NEW c \in Commands, Command(c)
    PROVE  HalfWay'
  <1> SUFFICES ASSUME ~amiss' PROVE HalfWay'
    BY DEF HalfWay
  <1> USE DEF ServiceTypeOK, Alone, Absent, Installed, Marked, Installs, Removes,
              HasOpen, Proceed
  <1>1. CASE OpenToInstall(c) \/ OpenToRemove(c)
    BY <1>1 DEF HalfWay, OpenToInstall, OpenToRemove
  <1>2. CASE CreateService(c)
    <2>1. CASE service = "absent" /\ service' = "installed"
               /\ cmd' = [cmd EXCEPT ![c] = "register"]
      <3>1. ~source' /\ \A d \in Commands : ~Installs(d) /\ ~Removes(d)
        BY <1>2, <2>1 DEF HalfWay, CreateService
      <3>2. /\ Installs(c)'
            /\ \A d \in Commands : ~Removes(d)' /\ (Installs(d)' => d = c)
        BY <2>1, <3>1
      <3> QED
        BY <2>1, <3>1, <3>2 DEF HalfWay
    <2>2. CASE UNCHANGED service /\ cmd' = [cmd EXCEPT ![c] = "idle"]
      BY <1>2, <2>2 DEF HalfWay, CreateService
    <2> QED
      BY <1>2, <2>1, <2>2 DEF CreateService
  <1>3. CASE InstallAsEventCreate(c)
    BY <1>3 DEF HalfWay, InstallAsEventCreate, Return
  <1>4. CASE UndoCreate(c)
    BY <1>4 DEF HalfWay, UndoCreate, Return
  <1>5. CASE DeleteService(c)
    <2>1. CASE service = "installed" /\ service' = "marked"
               /\ cmd' = [cmd EXCEPT ![c] = "unregister"]
      <3>1. \A d \in Commands : Installs(d)' = Installs(d) /\ (Removes(d)' <=> d = c)
        BY <1>5, <2>1 DEF HalfWay, DeleteService
      <3> QED
        BY <1>5, <2>1, <3>1 DEF HalfWay, DeleteService
    <2>2. CASE Return(c, FALSE)
      BY <1>5, <2>2 DEF HalfWay, DeleteService, Return
    <2> QED
      BY <1>5, <2>1, <2>2 DEF DeleteService
  <1>6. CASE RemoveEventSource(c)
    BY <1>6 DEF HalfWay, RemoveEventSource, Return
  <1>7. CASE Killed(c)
    BY <1>7 DEF HalfWay, Killed, Return
  <1> QED
    BY <1>1, <1>2, <1>3, <1>4, <1>5, <1>6, <1>7 DEF Command

\* The end of the process lets go of a service that nobody else has open, and
\* whose source is then gone.
LEMMA ProcessHalfWay ==
    ServiceTypeOK /\ HalfWay /\ (Process \/ UNCHANGED serviceVars) => HalfWay'
  <1> SUFFICES ASSUME ServiceTypeOK, HalfWay, Process \/ UNCHANGED serviceVars
               PROVE  HalfWay'
    OBVIOUS
  <1> USE DEF HalfWay, Alone, Absent, Installed, Marked, Installs, Removes,
              HasOpen
  <1>1. UNCHANGED <<source, cmd, amiss>>
    BY DEF Process, serviceVars
  <1>2. CASE UNCHANGED service
    BY <1>1, <1>2
  <1>3. CASE ProcessEnds
    BY <1>1, <1>3 DEF ProcessEnds, Serves
  <1>4. UNCHANGED service \/ ProcessEnds
    BY DEF Process, StartProcess, Start, Request,
           Execute, Begin, Receive, Report,
           End, Exit, Sends, serviceVars
  <1> QED
    BY <1>2, <1>3, <1>4

\* Between commands the service and its source are there together or not at
\* all (install.go 44-92), for any number of commands that overlap.
THEOREM Together == ServiceSpec => []AllOrNothing
  <1>1. ServiceTypeOK /\ HalfWay => AllOrNothing
    BY DEF ServiceTypeOK, HalfWay, Alone, Absent, Installed, Marked, Installs,
           Removes, HasOpen, AllOrNothing
  <1>2. ServiceTypeOK /\ HalfWay /\ [ServiceNext]_serviceVars => HalfWay'
    BY CommandHalfWay, ProcessHalfWay DEF ServiceNext
  <1> QED
    BY <1>1, <1>2, ServiceInitTyped, ServiceNextTyped, InitHalfWay, PTL DEF ServiceSpec
-----------------------------------------------------------------------------
(***************************************************************************)
(* What StopEnds rests on: a request is only handed to a process that      *)
(* runs, whose Execute is on its way to the loop or has received a Stop.   *)
(***************************************************************************)
HandedToOneThatRuns ==
    /\ request # Nil => execute.pc # "down"
    /\ execute.pc = "down" => execute = Down /\ status = Nil

\* How many statuses Execute has still to send before it receives or returns.
ToSend ==
    CASE execute.pc = "begin" -> IF execute.next = "StartPending" THEN 2 ELSE 1
      [] execute.pc = "repeat" -> 2
      [] execute.pc \in {"report", "end"} -> 1
      [] OTHER -> 0

ComesRound ==
    /\ request # Nil =>
          \/ UNCHANGED <<execute, request>>
          \/ ~console /\ request' = request /\ ToSend' < ToSend
          \/ execute' = Down /\ request' = Nil
          \/ /\ execute.pc = "loop" /\ request' = Nil
             /\ request = "Stop" => execute'.pc = "end"
    /\ execute.pc = "end" => execute' = execute \/ execute'.pc \in {"exit", "down"}
    /\ execute.pc = "exit" => execute' \in {execute, Down}

LEMMA NextHanded ==
    ASSUME HandedToOneThatRuns, [ServiceNext]_serviceVars
    PROVE  HandedToOneThatRuns'
  <1>1. CASE UNCHANGED <<execute, request, status>>
    BY <1>1 DEF HandedToOneThatRuns
  <1>2. CASE ProcessEnds
    BY <1>2 DEF ProcessEnds, HandedToOneThatRuns, Down
  <1>3. CASE StartProcess \/ Begin \/ Report \/ End
    <2>1. execute'.pc # "down"
      BY <1>3 DEF StartProcess, Start, Begin, Report, End, Sends, At
    <2> QED
      BY <2>1 DEF HandedToOneThatRuns
  <1>4. CASE Receive
    <2>1. execute'.pc # "down" /\ request' = Nil
      BY <1>4 DEF Receive, After, At
    <2> QED
      BY <2>1 DEF HandedToOneThatRuns
  <1>5. CASE \E control \in Controls : Request(control)
    <2>1. /\ status # Nil \/ execute # Down
          /\ UNCHANGED <<execute, status>>
      BY <1>5, NilAssumption DEF Request, States
    <2>2. execute.pc # "down"
      BY <2>1 DEF HandedToOneThatRuns
    <2> QED
      BY <2>1, <2>2 DEF HandedToOneThatRuns
  <1>6. ASSUME NEW c \in Commands, Command(c)
        PROVE  UNCHANGED <<execute, request, status>>
    BY <1>6 DEF Command, running
  <1> QED
    BY <1>1, <1>2, <1>3, <1>4, <1>5, <1>6
    DEF ServiceNext, Process, Execute, Exit, serviceVars

LEMMA StepComesRound ==
    ASSUME HandedToOneThatRuns, [ServiceNext]_serviceVars
    PROVE  ComesRound
  <1>1. CASE UNCHANGED <<execute, request>>
    BY <1>1 DEF ComesRound
  <1> USE NilAssumption DEF Controls
  <1>2. CASE ProcessEnds
    BY <1>2 DEF ProcessEnds, ComesRound, Down
  <1>3. CASE Begin
    <2>1. CASE execute.next = "StartPending"
      <3>1. /\ execute.pc = "begin" /\ execute' = [pc |-> "begin", next |-> "Running"]
            /\ request' = request /\ (console => request = Nil)
        BY <1>3, <2>1 DEF Begin, Sends, At
      <3>2. ToSend = 2 /\ ToSend' = 1
        BY <2>1, <3>1 DEF ToSend
      <3> QED
        BY <3>1, <3>2 DEF ComesRound
    <2>2. CASE execute.next # "StartPending"
      <3>1. /\ execute.pc = "begin" /\ execute' = [pc |-> "loop", next |-> Nil]
            /\ request' = request /\ (console => request = Nil)
        BY <1>3, <2>2 DEF Begin, Sends, At
      <3>2. ToSend = 1 /\ ToSend' = 0
        BY <2>2, <3>1 DEF ToSend
      <3> QED
        BY <3>1, <3>2 DEF ComesRound
    <2> QED
      BY <2>1, <2>2
  <1>4. CASE Report \/ End
    <2>1. /\ request' = request /\ (console => request = Nil)
          /\ \/ execute.pc = "repeat" /\ execute'.pc = "report"
             \/ execute.pc = "report" /\ execute'.pc = "loop"
             \/ execute.pc = "end" /\ execute'.pc = "exit"
      BY <1>4 DEF Report, End, Sends, At
    <2>2. \/ ToSend = 2 /\ ToSend' = 1
          \/ ToSend = 1 /\ ToSend' = 0
      BY <2>1 DEF ToSend
    <2>3. ToSend' < ToSend
      BY <2>2
    <2> QED
      BY <2>1, <2>3 DEF ComesRound
  <1>5. CASE Receive
    <2>1. /\ execute.pc = "loop" /\ request' = Nil
          /\ request = "Stop" => execute'.pc = "end"
      BY <1>5 DEF Receive, After, At
    <2> QED
      BY <2>1 DEF ComesRound
  <1>6. CASE StartProcess
    BY <1>6 DEF StartProcess, Start, Down, ComesRound, HandedToOneThatRuns
  <1>7. CASE \E control \in Controls : Request(control)
    BY <1>7 DEF Request, ComesRound
  <1>8. ASSUME NEW c \in Commands, Command(c)
        PROVE  UNCHANGED <<execute, request>>
    BY <1>8 DEF Command, running
  <1> QED
    BY <1>1, <1>2, <1>3, <1>4, <1>5, <1>6, <1>7, <1>8
    DEF ServiceNext, Process, Execute, Exit, serviceVars

\* A request is only there while the process runs.  Each step of Execute then
\* receives it in the loop, a Stop as its last one, or sends one of the statuses
\* it has still to send; on a console it does not send while there is a request,
\* and then only the end of the process takes it on (service_win.go 62-103).
THEOREM RequestIsReceived ==
    ServiceSpec => []HandedToOneThatRuns /\ [][ComesRound]_serviceVars
  <1>1. ServiceInit => HandedToOneThatRuns
    BY DEF ServiceInit, HandedToOneThatRuns, Down
  <1>2. ServiceTypeOK /\ HandedToOneThatRuns /\ [ServiceNext]_serviceVars
          => HandedToOneThatRuns'
    BY NextHanded
  <1>3. ServiceTypeOK /\ HandedToOneThatRuns /\ [ServiceNext]_serviceVars
          => [ComesRound]_serviceVars
    BY StepComesRound
  <1> QED
    BY <1>1, <1>2, <1>3, ServiceTypeCorrect, PTL DEF ServiceSpec
=============================================================================
