------------------------------ MODULE WebProofs ------------------------------
(***************************************************************************)
(* Proofs about what the web server and the engine share: Subscribers, and *)
(* at the end Browser.                                                     *)
(*                                                                         *)
(* Subscribers, for every set of connections, objects and notifiers:       *)
(* TypeOK, DropIsSafe, SlotsAreOpen and LiveStaySubscribed, from one       *)
(* inductive invariant:                                                    *)
(*   - Paired: how an object and the connection it has been lent to belong *)
(*     together, from the pool and back;                                   *)
(*   - Slotted: which objects are in ws, but for the slot that is about to *)
(*     be taken by the last object;                                        *)
(*   - Dropping: what the drop list says of ws while it is worked off from *)
(*     its end.                                                            *)
(***************************************************************************)
EXTENDS Subscribers, Browser, SequenceTheorems, FiniteSetTheorems, TLAPS

Slots == 1 .. Len(ws)

\* The slot whose object has been closed and is not removed yet.
Gap(k) == (\E n \in Notifiers : pc[n] = "remove") /\ k = Victim

\* The indices that are still to be dropped.
Left == 1 .. Len(dropList) - d

Paired ==
    /\ \A o \in Objects : conn[o] # None =>
          /\ obj[conn[o]] = o
          /\ handler[conn[o]] \in {"register", "wait"}
          /\ peer[conn[o]] \in {"live", "gone", "reset"}
    /\ \A c \in Connections :
          /\ handler[c] = "new" <=> obj[c] = None
          /\ handler[c] = "new" <=> peer[c] = "new"
          /\ handler[c] = "register" => conn[obj[c]] = c
          /\ handler[c] = "wait" => conn[obj[c]] = c \/ peer[c] = "closed"

Slotted ==
    /\ \A k \in Slots : ~Gap(k) => conn[ws[k]] # None /\ handler[conn[ws[k]]] = "wait"
    /\ \A k, l \in Slots : ws[k] = ws[l] => k = l
    /\ \A c \in Connections : handler[c] = "wait" /\ conn[obj[c]] = c =>
          \E k \in Slots : ~Gap(k) /\ ws[k] = obj[c]

Dropping ==
    /\ \A n \in Notifiers :
          /\ pc[n] = "write" => /\ d = 0 /\ i \in 1 .. Len(ws) + 1
                                /\ \A j \in 1 .. Len(dropList) : dropList[j] < i
          /\ pc[n] = "close" => d <= Len(dropList)
          /\ pc[n] = "remove" => d < Len(dropList)
    /\ mutex # None =>
          /\ \A j \in Left : dropList[j] \in Slots
          /\ \A j \in Left : fit /\ ~Gap(dropList[j]) =>
                peer[conn[ws[dropList[j]]]] = "reset"
          /\ \A j, l \in Left : j < l => dropList[j] < dropList[l]

SInv == TypeOK /\ Paired /\ Slotted /\ Dropping

\* In the beginning there is no object in ws and none is lent.
LEMMA InitSubscribed == Init => SInv
  <1> SUFFICES ASSUME Init PROVE SInv
    OBVIOUS
  <1> USE NoneAssumption DEF Init
  <1>1. ws \in Seq(Objects) /\ dropList \in Seq(Nat) /\ Len(ws) = 0
    BY EmptySeq
  <1>2. TypeOK
    BY <1>1 DEF TypeOK
  <1>3. Paired
    BY DEF Paired
  <1>4. Slotted
    BY <1>1 DEF Slotted, Slots, Gap
  <1>5. Dropping
    BY DEF Dropping
  <1> QED
    BY <1>2, <1>3, <1>4, <1>5 DEF SInv

\* At most one notifier is not idle, the one that holds the mutex.
LEMMA Holder ==
    ASSUME TypeOK, NEW n \in Notifiers, pc[n] # "idle"
    PROVE  mutex = n /\ \A m \in Notifiers : m # n => pc[m] = "idle"
  BY DEF TypeOK

\* While a notifier is at "remove" there is a gap at the victim, else none.
LEMMA GapOf ==
    ASSUME TypeOK, NEW n \in Notifiers, pc[n] # "idle", NEW k
    PROVE  Gap(k) <=> pc[n] = "remove" /\ k = Victim
  BY Holder DEF Gap

\* While nobody holds the mutex there is no gap.
LEMMA NoGap ==
    ASSUME TypeOK, mutex = None, NEW k
    PROVE  ~Gap(k)
  BY NoneAssumption DEF TypeOK, Gap

\* The handlers of the connections: an object is only lent while no slot but
\* the gap has it, and registered once.
LEMMA ConnectKeeps ==
    ASSUME SInv, NEW c \in Connections, Connect(c)
    PROVE  SInv'
  <1> USE NoneAssumption DEF SInv
  <1> PICK o \in Objects : /\ InPool(o)
                           /\ conn' = [conn EXCEPT ![o] = c]
                           /\ obj' = [obj EXCEPT ![c] = o]
    BY DEF Connect
  <1>1. /\ handler[c] = "new" /\ obj[c] = None /\ peer[c] = "new"
        /\ peer' = [peer EXCEPT ![c] = "live"]
        /\ handler' = [handler EXCEPT ![c] = "register"]
        /\ UNCHANGED <<ws, dropList, i, d, mutex, fit, pc>>
    BY DEF Connect, slots, Paired
  <1>2. TypeOK'
    BY <1>1 DEF TypeOK
  <1>3. conn[o] = None
    BY DEF Paired, InPool, TypeOK
  <1>4. \A q \in Objects : conn[q] # c
    BY <1>1 DEF Paired, TypeOK
  <1>5. \A b \in Connections : obj[b] = o => handler[b] = "done"
    BY DEF InPool
  <1>6. Paired'
    BY <1>1, <1>3, <1>4, <1>5 DEF Paired, TypeOK
  <1>7. \A k \in Slots : ws[k] \in Objects
    BY ElementOfSeq DEF TypeOK, Slots
  <1>8. \A k : Gap(k)' <=> Gap(k)
    BY <1>1 DEF Gap, Victim
  <1>9. Slots' = Slots /\ Left' = Left
    BY <1>1 DEF Slots, Left
  <1>10. \A k \in Slots : ~Gap(k) => ws[k] # o /\ conn'[ws[k]] = conn[ws[k]] /\ conn[ws[k]] # c
    BY <1>3, <1>4, <1>7 DEF Slotted, TypeOK
  <1>11. Slotted'
    <2>1. \A k \in Slots : ~Gap(k) => conn'[ws[k]] # None /\ handler'[conn'[ws[k]]] = "wait"
      BY <1>1, <1>7, <1>10 DEF Slotted, TypeOK
    <2>2. \A b \in Connections : handler'[b] = "wait" /\ conn'[obj'[b]] = b =>
              handler[b] = "wait" /\ conn[obj[b]] = b /\ obj'[b] = obj[b]
      BY <1>1, <1>5 DEF TypeOK, Paired
    <2> QED
      BY <1>1, <1>8, <1>9, <2>1, <2>2 DEF Slotted
  <1>12. Dropping'
    <2>1. \A j \in Left : mutex # None => dropList[j] \in Slots
      BY DEF Dropping
    <2>2. \A j \in Left : mutex # None /\ fit /\ ~Gap(dropList[j]) =>
              peer'[conn'[ws[dropList[j]]]] = "reset"
      BY <1>1, <1>7, <1>10, <2>1 DEF Dropping, TypeOK
    <2> QED
      BY <1>1, <1>8, <1>9, <2>2 DEF Dropping
  <1> QED
    BY <1>2, <1>6, <1>11, <1>12

LEMMA RegisterKeeps ==
    ASSUME SInv, NEW c \in Connections, RegisterWebsocket(c)
    PROVE  SInv'
  <1> USE NoneAssumption DEF SInv
  <1>1. /\ handler[c] = "register" /\ mutex = None
        /\ ws' = Append(ws, obj[c])
        /\ handler' = [handler EXCEPT ![c] = "wait"]
        /\ UNCHANGED <<dropList, i, d, conn, obj, peer, mutex, fit, pc>>
    BY DEF RegisterWebsocket
  <1>2. obj[c] \in Objects /\ conn[obj[c]] = c
    BY <1>1 DEF Paired, TypeOK
  <1>3. /\ ws' \in Seq(Objects) /\ Len(ws') = Len(ws) + 1 /\ Len(ws) \in Nat
        /\ \A k \in Slots : ws'[k] = ws[k]
        /\ ws'[Len(ws) + 1] = obj[c]
    BY <1>1, <1>2, AppendProperties, LenProperties DEF TypeOK, Slots
  <1>4. TypeOK'
    BY <1>1, <1>3 DEF TypeOK
  <1>5. Paired'
    BY <1>1, <1>2 DEF Paired, TypeOK
  <1>6. \A k : ~Gap(k) /\ ~Gap(k)'
    BY <1>1, <1>4, NoGap, NoGap DEF TypeOK, Gap
  <1>7. Slots' = Slots \cup {Len(ws) + 1} /\ Len(ws) + 1 \notin Slots
    BY <1>3 DEF Slots
  <1>8. \A k \in Slots : ws[k] \in Objects /\ ws[k] # obj[c]
    <2>1. \A k \in Slots : ws[k] \in Objects
      BY ElementOfSeq DEF TypeOK, Slots
    <2>2. \A k \in Slots : handler[conn[ws[k]]] = "wait"
      BY <1>6 DEF Slotted
    <2> QED
      BY <1>1, <1>2, <2>1, <2>2
  <1>9. Slotted'
    <2>1. ASSUME NEW k \in Slots'
          PROVE  conn'[ws'[k]] # None /\ handler'[conn'[ws'[k]]] = "wait"
      <3>1. CASE k \in Slots
        <4>1. conn[ws[k]] # None /\ handler[conn[ws[k]]] = "wait" /\ ws'[k] = ws[k]
          BY <3>1, <1>3, <1>6 DEF Slotted
        <4>2. conn[ws[k]] \in Connections
          BY <3>1, <4>1, <1>8 DEF TypeOK
        <4> QED
          BY <4>1, <4>2, <1>1 DEF TypeOK
      <3>2. CASE k = Len(ws) + 1
        BY <3>2, <1>1, <1>2, <1>3 DEF TypeOK
      <3> QED
        BY <3>1, <3>2, <1>7
    <2>2. \A k, l \in Slots' : ws'[k] = ws'[l] => k = l
      BY <1>3, <1>7, <1>8 DEF Slotted
    <2>3. ASSUME NEW b \in Connections, handler'[b] = "wait", conn'[obj'[b]] = b
          PROVE  \E k \in Slots' : ws'[k] = obj'[b]
      <3>1. CASE b = c
        BY <3>1, <1>1, <1>3, <1>7
      <3>2. CASE b # c
        <4>1. handler[b] = "wait" /\ conn[obj[b]] = b
          BY <2>3, <3>2, <1>1 DEF TypeOK
        <4>2. PICK k \in Slots : ws[k] = obj[b]
          BY <4>1 DEF Slotted
        <4> QED
          BY <4>2, <1>1, <1>3, <1>7
      <3> QED
        BY <3>1, <3>2
    <2> QED
      BY <2>1, <2>2, <2>3, <1>6 DEF Slotted
  <1>10. Dropping'
    BY <1>1 DEF Dropping, TypeOK
  <1> QED
    BY <1>4, <1>5, <1>9, <1>10

LEMMA LeavesKeeps ==
    ASSUME SInv, NEW c \in Connections, BrowserLeaves(c)
    PROVE  SInv'
  <1> USE NoneAssumption DEF SInv
  <1>1. /\ peer[c] = "live" /\ peer' = [peer EXCEPT ![c] = "gone"]
        /\ UNCHANGED <<ws, dropList, i, d, conn, obj, handler, mutex, fit, pc>>
    BY DEF BrowserLeaves, slots
  <1>2. TypeOK'
    BY <1>1 DEF TypeOK
  <1>3. Paired'
    BY <1>1 DEF Paired, TypeOK
  <1>4. \A k : Gap(k)' <=> Gap(k)
    BY <1>1 DEF Gap, Victim
  <1>5. Slots' = Slots /\ Left' = Left
    BY <1>1 DEF Slots, Left
  <1>6. Slotted'
    BY <1>1, <1>4, <1>5 DEF Slotted
  <1>7. \A b \in Connections \cup {None} : peer[b] = "reset" => peer'[b] = "reset"
    BY <1>1 DEF TypeOK
  <1>8. \A k \in Slots : conn[ws[k]] \in Connections \cup {None}
    BY ElementOfSeq DEF TypeOK, Slots
  <1>9. Dropping'
    BY <1>1, <1>4, <1>5, <1>7, <1>8 DEF Dropping
  <1> QED
    BY <1>2, <1>3, <1>6, <1>9

\* A handler only returns when its object has been closed and lent to nobody.
LEMMA ReturnsKeeps ==
    ASSUME SInv, NEW c \in Connections, HandlerReturns(c)
    PROVE  SInv'
  <1> USE NoneAssumption DEF SInv
  <1>1. /\ handler[c] = "wait" /\ conn[obj[c]] = None
        /\ handler' = [handler EXCEPT ![c] = "done"]
        /\ UNCHANGED <<ws, dropList, i, d, conn, obj, peer, mutex, fit, pc>>
    BY DEF HandlerReturns, slots
  <1>2. TypeOK'
    BY <1>1 DEF TypeOK
  <1>3. \A o \in Objects : conn[o] # c
    BY <1>1 DEF Paired, TypeOK
  <1>4. Paired'
    BY <1>1, <1>3 DEF Paired, TypeOK
  <1>5. \A k : Gap(k)' <=> Gap(k)
    BY <1>1 DEF Gap, Victim
  <1>6. Slots' = Slots /\ Left' = Left
    BY <1>1 DEF Slots, Left
  <1>7. \A k \in Slots : ws[k] \in Objects
    BY ElementOfSeq DEF TypeOK, Slots
  <1>8. Slotted'
    <2>1. \A k \in Slots : ~Gap(k) => conn[ws[k]] # None /\ handler'[conn[ws[k]]] = "wait"
      BY <1>1, <1>3, <1>7 DEF Slotted, TypeOK
    <2>2. \A b \in Connections : handler'[b] = "wait" => handler[b] = "wait"
      BY <1>1 DEF TypeOK
    <2> QED
      BY <1>1, <1>5, <1>6, <2>1, <2>2 DEF Slotted
  <1>9. Dropping'
    BY <1>1, <1>5, <1>6 DEF Dropping
  <1> QED
    BY <1>2, <1>4, <1>8, <1>9

\* A round begins with an empty drop list.
LEMMA NotifyKeeps ==
    ASSUME SInv, NEW n \in Notifiers, NotifySubscribers(n)
    PROVE  SInv'
  <1> USE NoneAssumption DEF SInv
  <1>1. /\ pc[n] = "idle" /\ mutex = None /\ mutex' = n
        /\ dropList' = <<>> /\ i' = 1 /\ d' = 0 /\ fit' \in BOOLEAN
        /\ pc' = [pc EXCEPT ![n] = "write"]
        /\ UNCHANGED <<ws, conn, obj, peer, handler>>
    BY DEF NotifySubscribers, Goto
  <1>2. dropList' \in Seq(Nat) /\ Len(dropList') = 0 /\ Len(ws) \in Nat
    BY <1>1, EmptySeq, LenProperties DEF TypeOK
  <1>3. TypeOK'
    BY <1>1, <1>2 DEF TypeOK
  <1>4. Paired'
    BY <1>1 DEF Paired
  <1>5. \A k : ~Gap(k)
    BY <1>1 DEF TypeOK, Gap
  <1>6. \A k : ~Gap(k)'
    BY <1>1 DEF TypeOK, Gap
  <1>7. Slotted'
    BY <1>1, <1>5, <1>6 DEF Slotted, Slots
  <1>8. \A m \in Notifiers : pc'[m] # "idle" => m = n
    BY <1>1 DEF TypeOK
  <1>9. Dropping'
    BY <1>1, <1>2, <1>8 DEF Dropping, Left, TypeOK
  <1> QED
    BY <1>3, <1>4, <1>7, <1>9

\* A write fails for a connection that is reset, or for all, and the index goes
\* to the end.
LEMMA WriteKeeps ==
    ASSUME SInv, NEW n \in Notifiers, WriteJSON(n)
    PROVE  SInv'
  <1> USE NoneAssumption DEF SInv
  <1>1. /\ pc[n] = "write" /\ i <= Len(ws) /\ i' = i + 1
        /\ dropList' = IF Fails(ws[i]) THEN Append(dropList, i) ELSE dropList
        /\ peer' = [c \in Connections |->
                       IF conn[ws[i]] = c /\ peer[c] = "gone" THEN "reset" ELSE peer[c]]
        /\ UNCHANGED <<ws, d, conn, obj, handler, mutex, fit, pc>>
    BY DEF WriteJSON
  <1>2. /\ d = 0 /\ i \in Slots /\ mutex = n /\ Len(ws) \in Nat /\ Len(dropList) \in Nat
        /\ \A j \in 1 .. Len(dropList) : dropList[j] \in Nat /\ dropList[j] < i
        /\ \A m \in Notifiers : m # n => pc[m] = "idle"
    <2>1. Len(ws) \in Nat /\ Len(dropList) \in Nat
             /\ \A j \in 1 .. Len(dropList) : dropList[j] \in Nat
      BY ElementOfSeq, LenProperties DEF TypeOK
    <2>2. mutex = n /\ \A m \in Notifiers : m # n => pc[m] = "idle"
      BY <1>1, Holder
    <2> QED
      BY <1>1, <2>1, <2>2 DEF Dropping, Slots, TypeOK
  <1>3. \A k : ~Gap(k) /\ ~Gap(k)'
    BY <1>1, <1>2 DEF Gap
  <1>4. /\ ws[i] \in Objects /\ conn[ws[i]] \in Connections
        /\ fit /\ Fails(ws[i]) => peer[conn[ws[i]]] = "reset"
    <2>1. ws[i] \in Objects
      BY <1>2, ElementOfSeq DEF TypeOK, Slots
    <2>2. conn[ws[i]] # None
      BY <1>2, <1>3 DEF Slotted
    <2>3. conn[ws[i]] \in Connections
      BY <2>1, <2>2 DEF TypeOK
    <2>4. peer[conn[ws[i]]] \in {"live", "gone", "reset"}
      BY <2>1, <2>2 DEF Paired
    <2> QED
      BY <2>1, <2>2, <2>3, <2>4 DEF Fails
  <1>5. \A c \in Connections :
           /\ peer'[c] = peer[c] \/ (peer[c] = "gone" /\ peer'[c] = "reset")
           /\ peer'[c] \in {"new", "live", "gone", "reset", "closed"}
    <2> SUFFICES ASSUME NEW c \in Connections
                 PROVE  /\ peer'[c] = peer[c] \/ (peer[c] = "gone" /\ peer'[c] = "reset")
                        /\ peer'[c] \in {"new", "live", "gone", "reset", "closed"}
      OBVIOUS
    <2>1. peer'[c] = IF conn[ws[i]] = c /\ peer[c] = "gone" THEN "reset" ELSE peer[c]
      BY <1>1
    <2>2. peer[c] \in {"new", "live", "gone", "reset", "closed"}
      BY DEF TypeOK
    <2> QED
      BY <2>1, <2>2
  <1>6. /\ dropList' \in Seq(Nat)
        /\ \A j \in 1 .. Len(dropList') : \/ j \in 1 .. Len(dropList) /\ dropList'[j] = dropList[j]
                                          \/ j = Len(dropList) + 1 /\ dropList'[j] = i
                                             /\ Fails(ws[i])
    <2>1. CASE Fails(ws[i])
      <3>1. i \in Nat /\ dropList' = Append(dropList, i) /\ dropList \in Seq(Nat)
        BY <1>1, <2>1 DEF TypeOK
      <3> QED
        BY <2>1, <3>1, <1>2, AppendProperties
    <2>2. CASE ~Fails(ws[i])
      BY <2>2, <1>1 DEF TypeOK
    <2> QED
      BY <2>1, <2>2
  <1>7. TypeOK'
    <2>1. i' \in Nat
      BY <1>1 DEF TypeOK
    <2>2. peer' \in [Connections -> {"new", "live", "gone", "reset", "closed"}]
      BY <1>1, <1>5
    <2> QED
      BY <1>1, <1>6, <2>1, <2>2 DEF TypeOK
  <1>8. Paired'
    <2>1. \A o \in Objects : conn[o] # None => peer'[conn[o]] \in {"live", "gone", "reset"}
      BY <1>5 DEF Paired, TypeOK
    <2> QED
      BY <1>1, <1>5, <2>1 DEF Paired, TypeOK
  <1>9. Slotted'
    BY <1>1, <1>3 DEF Slotted, Slots
  <1>10. Dropping'
    <2>1. Left = 1 .. Len(dropList) /\ Left' = 1 .. Len(dropList')
      <3>1. Len(dropList') \in Nat
        BY <1>6, LenProperties
      <3> QED
        BY <1>1, <1>2, <3>1 DEF Left
    <2>2. \A m \in Notifiers : pc'[m] = "write" => /\ d' = 0 /\ i' \in 1 .. Len(ws') + 1
                                    /\ \A j \in 1 .. Len(dropList') : dropList'[j] < i'
      BY <1>1, <1>2, <1>6 DEF Slots, TypeOK
    <2>3. \A m \in Notifiers : pc'[m] \notin {"close", "remove"}
      BY <1>1, <1>2
    <2>4. ASSUME NEW j \in Left'
          PROVE  /\ dropList'[j] \in Slots'
                 /\ fit => peer'[conn'[ws'[dropList'[j]]]] = "reset"
      <3>1. CASE j \in 1 .. Len(dropList) /\ dropList'[j] = dropList[j]
        <4>1. dropList[j] \in Slots /\ (fit => peer[conn[ws[dropList[j]]]] = "reset")
          BY <3>1, <1>2, <1>3, <2>1 DEF Dropping
        <4>2. conn[ws[dropList[j]]] \in Connections
          <5>1. ws[dropList[j]] \in Objects
            BY <4>1, ElementOfSeq DEF TypeOK, Slots
          <5>2. conn[ws[dropList[j]]] # None
            BY <4>1, <1>3 DEF Slotted
          <5> QED
            BY <5>1, <5>2 DEF TypeOK
        <4> QED
          BY <3>1, <4>1, <4>2, <1>1, <1>5 DEF Slots
      <3>2. CASE dropList'[j] = i /\ Fails(ws[i])
        BY <3>2, <1>1, <1>2, <1>4, <1>5 DEF Slots
      <3> QED
        BY <3>1, <3>2, <2>1, <1>6
    <2>5. ASSUME NEW j \in Left', NEW l \in Left', j < l
          PROVE  dropList'[j] < dropList'[l]
      <3>1. j \in 1 .. Len(dropList) /\ dropList'[j] = dropList[j]
        <4>1. Len(dropList') \in Nat /\ j # Len(dropList) + 1
          BY <2>1, <2>5, <1>2, <1>6, LenProperties
        <4> QED
          BY <4>1, <2>1, <1>6
      <3>2. CASE l \in 1 .. Len(dropList) /\ dropList'[l] = dropList[l]
        BY <3>1, <3>2, <2>1, <2>5, <1>2 DEF Dropping
      <3>3. CASE dropList'[l] = i
        BY <3>1, <3>3, <1>2
      <3> QED
        BY <3>2, <3>3, <2>1, <1>6
    <2>6. fit' = fit
      BY <1>1
    <2> QED
      BY <2>2, <2>3, <2>4, <2>5, <2>6 DEF Dropping
  <1> QED
    BY <1>7, <1>8, <1>9, <1>10

LEMMA DropKeeps ==
    ASSUME SInv, NEW n \in Notifiers, DropSubscribers(n)
    PROVE  SInv'
  <1> USE NoneAssumption DEF SInv
  <1>1. /\ pc[n] = "write" /\ pc' = [pc EXCEPT ![n] = "close"]
        /\ UNCHANGED <<ws, dropList, i, d, conn, obj, peer, handler, mutex, fit>>
    BY DEF DropSubscribers, Goto, slots
  <1>2. /\ d = 0 /\ mutex = n /\ Len(dropList) \in Nat
        /\ \A m \in Notifiers : m # n => pc[m] = "idle"
    BY <1>1, Holder, LenProperties DEF Dropping, TypeOK
  <1>3. TypeOK'
    BY <1>1 DEF TypeOK
  <1>4. Paired'
    BY <1>1 DEF Paired
  <1>5. \A k : ~Gap(k) /\ ~Gap(k)'
    BY <1>1, <1>2 DEF Gap, TypeOK
  <1>6. Slotted'
    BY <1>1, <1>5 DEF Slotted, Slots
  <1>7. \A m \in Notifiers : pc'[m] \notin {"write", "remove"}
    BY <1>1, <1>2 DEF TypeOK
  <1>8. Slots' = Slots /\ Left' = Left
    BY <1>1 DEF Slots, Left
  <1>9. Dropping'
    BY <1>1, <1>2, <1>5, <1>7, <1>8 DEF Dropping
  <1> QED
    BY <1>3, <1>4, <1>6, <1>9

\* The victim is a slot with a connection, a reset one unless the message could
\* not be marshalled: Close does not panic.
LEMMA VictimIsReset ==
    ASSUME SInv, NEW n \in Notifiers, pc[n] = "close", More
    PROVE  /\ CanDrop(Victim) /\ Victim \in Slots
           /\ fit => peer[conn[ws[Victim]]] = "reset"
  <1> USE DEF SInv
  <1>1. mutex # None /\ \A k : ~Gap(k)
    BY GapOf, Holder, NoneAssumption
  <1>2. Len(dropList) - d \in Left
    BY LenProperties DEF More, Left, TypeOK
  <1>3. Victim \in Slots /\ (fit => peer[conn[ws[Victim]]] = "reset")
    BY <1>1, <1>2 DEF Dropping, Victim
  <1> QED
    BY <1>1, <1>3 DEF CanDrop, Slotted, Slots

LEMMA CloseKeeps ==
    ASSUME SInv, NEW n \in Notifiers, CloseSubscriber(n)
    PROVE  SInv'
  <1> USE NoneAssumption DEF SInv
  <1> DEFINE o == ws[Victim]
             c == conn[o]
  <1>1. /\ pc[n] = "close" /\ d < Len(dropList)
        /\ peer' = [peer EXCEPT ![c] = "closed"]
        /\ conn' = [conn EXCEPT ![o] = None]
        /\ pc' = [pc EXCEPT ![n] = "remove"]
        /\ UNCHANGED <<ws, dropList, i, d, obj, handler, mutex, fit>>
    BY DEF CloseSubscriber, Goto, slots, More
  <1>2. Victim \in Slots /\ c # None
    BY <1>1, VictimIsReset DEF CanDrop, More
  <1>3. \A k \in Slots : ws[k] \in Objects
    BY ElementOfSeq DEF TypeOK, Slots
  <1>4. o \in Objects /\ c \in Connections
    BY <1>2, <1>3 DEF TypeOK
  <1>5. TypeOK'
    BY <1>1, <1>4 DEF TypeOK
  <1>6. \A q \in Objects : conn[q] = c => q = o
    BY <1>2, <1>4 DEF Paired
  <1>7. obj[c] = o /\ handler[c] = "wait"
    <2>1. ~Gap(Victim)
      BY <1>1, GapOf
    <2> QED
      BY <1>2, <1>4, <2>1 DEF Paired, Slotted
  <1>8. Paired'
    <2>1. \A q \in Objects : conn'[q] # None =>
             /\ obj[conn'[q]] = q
             /\ handler[conn'[q]] \in {"register", "wait"}
             /\ peer'[conn'[q]] \in {"live", "gone", "reset"}
      BY <1>1, <1>4, <1>6 DEF Paired, TypeOK
    <2>2. \A b \in Connections :
             /\ handler[b] = "new" <=> peer'[b] = "new"
             /\ handler[b] = "register" => conn'[obj[b]] = b
             /\ handler[b] = "wait" => conn'[obj[b]] = b \/ peer'[b] = "closed"
      BY <1>1, <1>4, <1>7 DEF Paired, TypeOK
    <2> QED
      BY <1>1, <2>1, <2>2 DEF Paired
  <1>9. \A k : ~Gap(k) /\ (Gap(k)' <=> k = Victim)
    <2>1. \A k : ~Gap(k)
      BY <1>1, GapOf
    <2>2. \E m \in Notifiers : pc'[m] = "remove"
      BY <1>1 DEF TypeOK
    <2> QED
      BY <1>1, <2>1, <2>2 DEF Gap, Victim
  <1>10. \A k \in Slots : k # Victim => ws[k] # o
    BY <1>2 DEF Slotted
  <1>11. Slotted'
    <2>1. \A k \in Slots : k # Victim => conn'[ws[k]] # None /\ handler[conn'[ws[k]]] = "wait"
      BY <1>1, <1>3, <1>9, <1>10 DEF Slotted, TypeOK
    <2>2. ASSUME NEW b \in Connections, handler[b] = "wait", conn'[obj[b]] = b
          PROVE  \E k \in Slots : k # Victim /\ ws[k] = obj[b]
      <3>1. conn[obj[b]] = b /\ obj[b] # o
        BY <2>2, <1>1, <1>4 DEF TypeOK
      <3>2. PICK k \in Slots : ws[k] = obj[b]
        BY <2>2, <3>1 DEF Slotted
      <3> QED
        BY <3>1, <3>2
    <2> QED
      BY <1>1, <1>9, <2>1, <2>2 DEF Slotted, Slots
  <1>12. Dropping'
    <2>1. mutex = n /\ \A m \in Notifiers : m # n => pc[m] = "idle"
      BY <1>1, Holder
    <2>2. \A m \in Notifiers : pc'[m] \notin {"write", "close"}
      BY <1>1, <2>1 DEF TypeOK
    <2>3. Slots' = Slots /\ Left' = Left
      BY <1>1 DEF Slots, Left
    <2>4. ASSUME NEW j \in Left, dropList[j] # Victim
          PROVE  fit => peer'[conn'[ws[dropList[j]]]] = "reset"
      <3>1. dropList[j] \in Slots /\ (fit => peer[conn[ws[dropList[j]]]] = "reset")
        BY <1>9, <2>1 DEF Dropping
      <3>2. ws[dropList[j]] \in Objects /\ ws[dropList[j]] # o
        BY <2>4, <3>1, <1>3, <1>10
      <3>3. conn[ws[dropList[j]]] # c
        BY <3>2, <1>6
      <3> QED
        BY <3>1, <3>2, <3>3, <1>1 DEF TypeOK
    <2> QED
      BY <1>1, <1>9, <2>1, <2>2, <2>3, <2>4 DEF Dropping
  <1> QED
    BY <1>5, <1>8, <1>11, <1>12

\* What is left of a sequence when its end is cut off.
LEMMA Shorter ==
    ASSUME NEW S, NEW s, NEW m \in Nat, \A k \in 1 .. m : s[k] \in S
    PROVE  /\ SubSeq(s, 1, m) \in Seq(S) /\ Len(SubSeq(s, 1, m)) = m
           /\ \A k \in 1 .. m : SubSeq(s, 1, m)[k] = s[k]
  BY SMT

\* The last object takes the victim's slot, which is at or behind every slot
\* that is still to be dropped.
LEMMA RemoveKeeps ==
    ASSUME SInv, NEW n \in Notifiers, RemoveSlot(n)
    PROVE  SInv'
  <1> USE NoneAssumption DEF SInv
  <1>1. /\ pc[n] = "remove" /\ d' = d + 1
        /\ ws' = SubSeq([ws EXCEPT ![Victim] = ws[Len(ws)]], 1, Len(ws) - 1)
        /\ pc' = [pc EXCEPT ![n] = "close"]
        /\ UNCHANGED <<dropList, i, conn, obj, peer, handler, mutex, fit>>
    BY DEF RemoveSlot, Goto
  <1>2. mutex = n /\ \A m \in Notifiers : m # n => pc[m] = "idle"
    BY <1>1, Holder
  <1>3. Len(ws) \in Nat /\ Len(dropList) \in Nat /\ d \in Nat /\ d < Len(dropList)
    BY <1>1, LenProperties DEF TypeOK, Dropping
  <1>4. \A k : (Gap(k) <=> k = Victim) /\ ~Gap(k)'
    BY <1>1, <1>2 DEF Gap, TypeOK
  <1>5. Victim \in Slots
    <2>1. Len(dropList) - d \in Left
      BY <1>3 DEF Left
    <2> QED
      BY <2>1, <1>2 DEF Dropping, Victim
  <1>6. \A k \in Slots : ws[k] \in Objects
    BY ElementOfSeq DEF TypeOK, Slots
  <1>7. /\ ws' \in Seq(Objects) /\ Len(ws') = Len(ws) - 1
        /\ \A k \in 1 .. Len(ws) - 1 : ws'[k] = IF k = Victim THEN ws[Len(ws)] ELSE ws[k]
    <2>1. Len(ws) \in Slots
      BY <1>3, <1>5 DEF Slots
    <2>2. PICK m \in Nat : m = Len(ws) - 1
      BY <1>3, <2>1 DEF Slots
    <2>3. PICK s : s = [ws EXCEPT ![Victim] = ws[Len(ws)]]
      OBVIOUS
    <2>4. /\ s \in Seq(Objects) /\ Len(s) = Len(ws)
          /\ \A k \in Slots : s[k] = IF k = Victim THEN ws[Len(ws)] ELSE ws[k]
      BY <1>5, <1>6, <2>1, <2>3, ExceptSeq DEF TypeOK, Slots
    <2>5. \A k \in 1 .. m : k \in Slots /\ s[k] \in Objects
      BY <1>3, <2>1, <2>2, <2>4, <1>6 DEF Slots
    <2>6. /\ SubSeq(s, 1, m) \in Seq(Objects) /\ Len(SubSeq(s, 1, m)) = m
          /\ \A k \in 1 .. m : SubSeq(s, 1, m)[k] = s[k]
      BY <2>5, Shorter
    <2>7. ws' = SubSeq(s, 1, m)
      BY <1>1, <2>2, <2>3
    <2> QED
      BY <2>2, <2>4, <2>5, <2>6, <2>7
  <1>8. TypeOK'
    BY <1>1, <1>3, <1>7 DEF TypeOK
  <1>9. Paired'
    BY <1>1 DEF Paired
  <1>10. /\ Slots' = 1 .. Len(ws) - 1 /\ Slots' \subseteq Slots
         /\ Len(ws) \in Slots /\ Len(ws) \notin Slots'
         /\ \A k \in Slots : k # Len(ws) => k \in Slots'
    BY <1>3, <1>5, <1>7 DEF Slots
  <1> DEFINE from(k) == IF k = Victim THEN Len(ws) ELSE k
  <1>11. \A k \in Slots' : ws'[k] = ws[from(k)] /\ from(k) \in Slots /\ from(k) # Victim
    BY <1>7, <1>10
  <1>12. Slotted'
    <2>1. \A k \in Slots' : conn[ws'[k]] # None /\ handler[conn[ws'[k]]] = "wait"
      BY <1>4, <1>11 DEF Slotted
    <2>2. \A k, l \in Slots' : ws'[k] = ws'[l] => k = l
      BY <1>10, <1>11 DEF Slotted
    <2>3. ASSUME NEW b \in Connections, handler[b] = "wait", conn[obj[b]] = b
          PROVE  \E k \in Slots' : ws'[k] = obj[b]
      <3>1. PICK k \in Slots : k # Victim /\ ws[k] = obj[b]
        BY <2>3, <1>4 DEF Slotted
      <3>2. CASE k = Len(ws)
        BY <3>1, <3>2, <1>5, <1>10, <1>11
      <3>3. CASE k # Len(ws)
        BY <3>1, <3>3, <1>10, <1>11
      <3> QED
        BY <3>2, <3>3
    <2> QED
      BY <1>1, <1>4, <2>1, <2>2, <2>3 DEF Slotted
  <1>13. Dropping'
    <2>1. \A m \in Notifiers : pc'[m] \notin {"write", "remove"}
      BY <1>1, <1>2 DEF TypeOK
    <2>2. d' <= Len(dropList') /\ Left' \subseteq Left
      BY <1>1, <1>3 DEF Left
    <2>3. ASSUME NEW j \in Left'
          PROVE  dropList[j] < Victim /\ dropList[j] \in Slots'
      <3>1. j \in Left /\ Len(dropList) - d \in Left /\ j < Len(dropList) - d
        BY <1>1, <1>3 DEF Left
      <3>2. dropList[j] < Victim /\ dropList[j] \in Slots
        BY <3>1, <1>2 DEF Dropping, Victim
      <3> QED
        BY <3>2, <1>3, <1>5, <1>10 DEF Slots
    <2>4. \A j \in Left' : fit => peer[conn[ws'[dropList[j]]]] = "reset"
      <3> SUFFICES ASSUME NEW j \in Left' PROVE fit => peer[conn[ws'[dropList[j]]]] = "reset"
        OBVIOUS
      <3>1. dropList[j] # Victim /\ ws'[dropList[j]] = ws[dropList[j]]
        BY <2>3, <1>5, <1>11 DEF Slots
      <3> QED
        BY <3>1, <2>2, <1>2, <1>4 DEF Dropping
    <2>5. \A j, l \in Left' : j < l => dropList[j] < dropList[l]
      BY <2>2, <1>2 DEF Dropping
    <2> QED
      BY <1>1, <1>2, <2>1, <2>2, <2>3, <2>4, <2>5 DEF Dropping
  <1> QED
    BY <1>8, <1>9, <1>12, <1>13

LEMMA NotifiedKeeps ==
    ASSUME SInv, NEW n \in Notifiers, Notified(n)
    PROVE  SInv'
  <1> USE NoneAssumption DEF SInv
  <1>1. /\ pc[n] = "close" /\ mutex' = None /\ fit' = TRUE
        /\ pc' = [pc EXCEPT ![n] = "idle"]
        /\ UNCHANGED <<ws, dropList, i, d, conn, obj, peer, handler>>
    BY DEF Notified, Goto, slots
  <1>2. mutex = n /\ \A m \in Notifiers : m # n => pc[m] = "idle"
    BY <1>1, Holder
  <1>3. \A m \in Notifiers : pc'[m] = "idle"
    BY <1>1, <1>2 DEF TypeOK
  <1>4. TypeOK'
    BY <1>1, <1>3 DEF TypeOK
  <1>5. Paired'
    BY <1>1 DEF Paired
  <1>6. \A k : ~Gap(k) /\ ~Gap(k)'
    BY <1>1, <1>2, <1>3 DEF Gap
  <1>7. Slotted'
    BY <1>1, <1>6 DEF Slotted, Slots
  <1>8. Dropping'
    BY <1>1, <1>3 DEF Dropping
  <1> QED
    BY <1>4, <1>5, <1>7, <1>8

\* Every step keeps the invariant.
LEMMA NextSubscribed == SInv /\ [Next]_vars => SInv'
  <1> SUFFICES ASSUME SInv, [Next]_vars PROVE SInv'
    OBVIOUS
  <1>1. CASE UNCHANGED vars
    <2>1. \A k : Gap(k)' <=> Gap(k)
      BY <1>1 DEF vars, slots, Gap, Victim
    <2>2. Slots' = Slots /\ Left' = Left
      BY <1>1 DEF vars, slots, Slots, Left
    <2>3. TypeOK' /\ Paired'
      BY <1>1 DEF SInv, vars, slots, TypeOK, Paired
    <2>4. Slotted' /\ Dropping'
      BY <1>1, <2>1, <2>2 DEF SInv, vars, slots, Slotted, Dropping
    <2> QED
      BY <2>3, <2>4 DEF SInv
  <1>2. ASSUME NEW n \in Notifiers, NotifySubscribers(n) \/ Round(n)
        PROVE  SInv'
    BY <1>2, NotifyKeeps, WriteKeeps, DropKeeps, CloseKeeps, RemoveKeeps, NotifiedKeeps
    DEF Round
  <1>3. ASSUME NEW c \in Connections, Connection(c)
        PROVE  SInv'
    BY <1>3, ConnectKeeps, RegisterKeeps, LeavesKeeps, ReturnsKeeps DEF Connection
  <1> QED
    BY <1>1, <1>2, <1>3 DEF Next

LEMMA Subscribed == Spec => []SInv
  BY InitSubscribed, NextSubscribed, PTL DEF Spec

\* The slice, the drop list, the objects of the pool and the handlers have
\* their types, and exactly the notifier that holds wsMutex is not idle.
THEOREM TypeCorrect == Spec => []TypeOK
  <1>1. SInv => TypeOK
    BY DEF SInv
  <1> QED
    BY <1>1, Subscribed, PTL

\* dropSubscribers never closes an object without a connection, indexes ws out
\* of its bounds or, for a message that can be marshalled, drops a browser that
\* is there, however many browsers come, go and get objects of others while it
\* removes from the end of the list.
THEOREM Safe == Spec => []DropIsSafe
  <1>1. SInv => DropIsSafe
    BY VictimIsReset DEF SInv, DropIsSafe
  <1> QED
    BY <1>1, Subscribed, PTL

\* When wsMutex is free every object of ws has a connection, and no other slot.
THEOREM Open == Spec => []SlotsAreOpen
  <1>1. SInv => SlotsAreOpen
    BY NoGap DEF SInv, SlotsAreOpen, Slotted, Slots
  <1> QED
    BY <1>1, Subscribed, PTL

\* A browser that is there and registered has exactly one slot of ws, whatever
\* is removed around it.
THEOREM StaySubscribed == Spec => []LiveStaySubscribed
  <1>1. SInv => LiveStaySubscribed
    <2> SUFFICES ASSUME SInv, NEW c \in Connections,
                        peer[c] \in {"live", "gone"}, handler[c] = "wait"
                 PROVE  Cardinality({k \in Slots : ws[k] = obj[c]}) = 1
      BY DEF LiveStaySubscribed, Slots
    <2>1. conn[obj[c]] = c
      BY DEF SInv, Paired
    <2>2. PICK k \in Slots : ws[k] = obj[c]
      BY <2>1 DEF SInv, Slotted
    <2>3. {l \in Slots : ws[l] = obj[c]} = {k}
      BY <2>2 DEF SInv, Slotted
    <2> QED
      BY <2>3, FS_Singleton
  <1> QED
    BY <1>1, Subscribed, PTL
-----------------------------------------------------------------------------
(***************************************************************************)
(* Browser, for every set of servers, branches and requests:               *)
(*   - BrowserTypeOK, with the exclusion of the requests under the mutex;  *)
(*   - LockedAtWork;                                                       *)
(*   - ListsItsBranch, from where the cursor is when it is listed.         *)
(***************************************************************************)
\* A request that moves the cursor has a branch to move it to.
HasBranch == \A r \in Requests : at[r] = "move" => branch[r] # Nil

TInv == BrowserTypeOK /\ HasBranch

\* No request has begun, and there is no cursor.
LEMMA BrowserInitTyped == BrowserInit => TInv
  BY HomeAssumption, BoundsAssumption
  DEF BrowserInit, TInv, BrowserTypeOK, HasBranch, PC, Cursors

\* Making a cursor keeps the types: it is counted before the server has it.
LEMMA CreateTyped ==
    ASSUME BrowserTypeOK, NEW r \in Requests, Create(r)
    PROVE  BrowserTypeOK'
  <1> USE BoundsAssumption, NilAssumption DEF PC, Proceed
  <1>1. at[r] = "made" /\ lock = r /\ server[r] \in Servers
    BY DEF Create, BrowserTypeOK
  <1>2. UNCHANGED <<position, server, branch, browser, answer>> /\ lock' = Nil
    BY DEF Create
  <1>3. PICK l \in {"return", "refused"} : at' = [at EXCEPT ![r] = l]
    BY DEF Create
  <1>4. CASE made < MaxCursors /\ made' = made + 1
             /\ cursor' = [cursor EXCEPT ![server[r]] = made']
    <2>1. made' \in 0 .. MaxCursors /\ made' \in Cursors
      BY <1>4 DEF BrowserTypeOK, Cursors
    <2>2. \A s \in Servers : cursor'[s] # Nil => cursor'[s] <= made'
      BY <1>1, <1>4, <2>1 DEF BrowserTypeOK, Cursors
    <2> QED
      BY <1>1, <1>2, <1>3, <1>4, <2>1, <2>2 DEF BrowserTypeOK
  <1>5. CASE cursor' = [cursor EXCEPT ![server[r]] = Nil] /\ UNCHANGED made
    BY <1>1, <1>2, <1>3, <1>5 DEF BrowserTypeOK, Cursors
  <1> QED
    BY <1>4, <1>5 DEF Create

\* Every step keeps the types, and at most one request works under the mutex.
LEMMA BrowserNextTyped == TInv /\ [BrowserNext]_browserVars => TInv'
  <1> SUFFICES ASSUME TInv, [BrowserNext]_browserVars PROVE TInv'
    OBVIOUS
  <1> USE BoundsAssumption, NilAssumption DEF TInv, BrowserTypeOK, HasBranch, PC, Proceed,
      cursors
  <1>1. CASE UNCHANGED browserVars
    BY <1>1 DEF browserVars
  <1>2. ASSUME NEW r \in Requests, Request(r)
        PROVE  TInv'
    BY <1>2 DEF Request
  <1>3. ASSUME NEW r \in Requests, Step(r)
        PROVE  TInv'
    <2>1. CASE Look(r)
      BY <2>1 DEF Look
    <2>2. CASE LockToCreate(r)
      BY <2>2 DEF LockToCreate
    <2>3. CASE Create(r)
      BY <2>3, CreateTyped DEF Create
    <2>4. CASE CreatePanics(r)
      BY <2>4 DEF CreatePanics
    <2>5. CASE Return(r)
      BY <2>5 DEF Return
    <2>6. CASE Lock(r)
      BY <2>6 DEF Lock
    <2>7. CASE MoveCursor(r)
      <3>1. position' \in [Cursors -> Branches]
        BY <2>7 DEF MoveCursor
      <3> QED
        BY <2>7, <3>1 DEF MoveCursor
    <2>8. CASE CursorList(r)
      BY <2>8 DEF CursorList
    <2>9. CASE handlePanic(r)
      BY <2>9 DEF handlePanic
    <2>10. CASE Unlock(r)
      BY <2>10 DEF Unlock
    <2> QED
      BY <1>3, <2>1, <2>2, <2>3, <2>4, <2>5, <2>6, <2>7, <2>8, <2>9, <2>10
      DEF Step
  <1> QED
    BY <1>1, <1>2, <1>3 DEF BrowserNext

\* The state has its types at any moment, whatever fails or panics.
THEOREM BrowserTypeCorrect == BrowserSpec => []BrowserTypeOK
  <1>1. TInv => BrowserTypeOK
    BY DEF TInv
  <1> QED
    BY <1>1, BrowserInitTyped, BrowserNextTyped, PTL DEF BrowserSpec
-----------------------------------------------------------------------------
(***************************************************************************)
(* LockedAtWork.                                                           *)
(***************************************************************************)
LEMMA NextLocked == TInv /\ LockedAtWork /\ [BrowserNext]_browserVars => LockedAtWork'
  <1> SUFFICES ASSUME TInv, LockedAtWork, [BrowserNext]_browserVars
               PROVE  LockedAtWork'
    OBVIOUS
  <1> USE BoundsAssumption, NilAssumption DEF TInv, BrowserTypeOK, LockedAtWork, Working,
      Lost, Proceed, cursors
  <1>1. CASE UNCHANGED browserVars
    BY <1>1 DEF browserVars
  <1>2. ASSUME NEW r \in Requests, Request(r)
        PROVE  LockedAtWork'
    BY <1>2 DEF Request
  <1>3. ASSUME NEW r \in Requests, Step(r)
        PROVE  LockedAtWork'
    \* A step that leaves the mutex alone, of a request that does not hold it.
    <2>1. CASE Look(r) \/ Return(r)
      BY <2>1 DEF Look, Return
    <2>2. CASE LockToCreate(r) \/ Lock(r)
      BY <2>2 DEF LockToCreate, Lock
    <2>3. CASE Create(r) \/ Unlock(r)
      BY <2>3 DEF Create, Unlock
    \* One of the holder, who goes on or panics.
    <2>4. CASE CreatePanics(r) \/ handlePanic(r)
      BY <2>4 DEF CreatePanics, handlePanic, PC
    <2>5. CASE MoveCursor(r) \/ CursorList(r)
      BY <2>5 DEF MoveCursor, CursorList
    <2> QED
      BY <1>3, <2>1, <2>2, <2>3, <2>4, <2>5 DEF Step
  <1> QED
    BY <1>1, <1>2, <1>3 DEF BrowserNext

\* Nothing but a panic under the mutex leaves it locked (engine/server.go
\* 81-96, routes/opc.go 44-197).
THEOREM Locked == BrowserSpec => []LockedAtWork
  <1>1. BrowserInit => LockedAtWork
    BY DEF BrowserInit, LockedAtWork
  <1> QED
    BY <1>1, BrowserInitTyped, BrowserNextTyped, NextLocked, PTL DEF BrowserSpec
-----------------------------------------------------------------------------
(***************************************************************************)
(* ListsItsBranch.  The cursor a request lists is where it has moved it,   *)
(* since nobody else moves one before the mutex is unlocked.               *)
(***************************************************************************)
CursorMoved == \A r \in Requests :
            at[r] = "list" /\ branch[r] # Nil /\ browser[r] # Nil =>
                position[browser[r]] = branch[r]

LEMMA NextLists == TInv /\ CursorMoved /\ ListsItsBranch /\ [BrowserNext]_browserVars
             => (CursorMoved /\ ListsItsBranch)'
  <1> SUFFICES ASSUME TInv, CursorMoved, ListsItsBranch, [BrowserNext]_browserVars
               PROVE  (CursorMoved /\ ListsItsBranch)'
    OBVIOUS
  <1> USE BoundsAssumption, NilAssumption DEF TInv, BrowserTypeOK, CursorMoved, ListsItsBranch,
      Proceed, cursors
  <1>1. CASE UNCHANGED browserVars
    BY <1>1 DEF browserVars
  <1>2. ASSUME NEW r \in Requests, Request(r)
        PROVE  (CursorMoved /\ ListsItsBranch)'
    BY <1>2 DEF Request
  <1>3. ASSUME NEW r \in Requests, Step(r)
        PROVE  (CursorMoved /\ ListsItsBranch)'
    <2>1. CASE Look(r) \/ LockToCreate(r) \/ CreatePanics(r)
      BY <2>1 DEF Look, LockToCreate, CreatePanics
    <2>2. CASE Create(r) \/ handlePanic(r) \/ Unlock(r)
      BY <2>2 DEF Create, handlePanic, Unlock
    <2>3. CASE Return(r)
      BY <2>3 DEF Return
    <2>4. CASE Lock(r)
      BY <2>4 DEF Lock
    \* Another request that lists would hold the mutex, which r does.
    <2>5. CASE MoveCursor(r)
      <3>1. at[r] = "move" /\ lock = r /\ browser[r] \in Cursors
        BY <2>5 DEF MoveCursor
      <3>2. \A q \in Requests : at[q] = "list" => q = r
        BY <3>1
      <3> QED
        BY <2>5, <3>1, <3>2 DEF MoveCursor
    <2>6. CASE CursorList(r)
      BY <2>6 DEF CursorList
    <2> QED
      BY <1>3, <2>1, <2>2, <2>3, <2>4, <2>5, <2>6 DEF Step
  <1> QED
    BY <1>1, <1>2, <1>3 DEF BrowserNext

\* Requests that share a cursor are each answered with the branch they have
\* asked for (routes/opc.go 44-197).
THEOREM Lists == BrowserSpec => []ListsItsBranch
  <1>1. BrowserInit => CursorMoved /\ ListsItsBranch
    BY DEF BrowserInit, CursorMoved, ListsItsBranch
  <1> QED
    BY <1>1, BrowserInitTyped, BrowserNextTyped, NextLists, PTL DEF BrowserSpec
-----------------------------------------------------------------------------
(***************************************************************************)
(* What EveryRequestIsAnswered rests on: how far a request is from its     *)
(* answer.  A request that waits does so for the holder of the mutex, who  *)
(* by LockedAtWork is at work or has panicked.                             *)
(***************************************************************************)
Distance(r) ==
    CASE at[r] = "new"    -> 9
      [] at[r] = "look"   -> 8
      [] at[r] = "create" -> 7
      [] at[r] = "made"   -> 6
      [] at[r] = "return" -> 5
      [] at[r] = "lock"   -> 4
      [] at[r] = "move"   -> 3
      [] at[r] = "list"   -> 2
      [] at[r] = "unlock" -> 1
      [] OTHER            -> 0

Waits(r) == at[r] \in {"create", "lock"} /\ lock # Nil

Advances(r) ==
    /\ Step(r) => Distance(r)' < Distance(r) /\ ~Waits(r)
    /\ UNCHANGED at[r] => Distance(r)' = Distance(r)
    /\ Waits(r) => UNCHANGED at[r]

LEMMA StepAdvances ==
    ASSUME BrowserTypeOK, NEW r \in Requests, Step(r)
    PROVE  Distance(r)' < Distance(r) /\ ~Waits(r)
  <1>1. ASSUME NEW p \in PC, at' = [at EXCEPT ![r] = p]
        PROVE  at'[r] = p
    BY <1>1 DEF BrowserTypeOK
  <1>2. \/ at[r] = "look" /\ at'[r] \in {"create", "return"}
        \/ at[r] = "create" /\ lock = Nil /\ at'[r] = "made"
        \/ at[r] = "made" /\ at'[r] \in {"return", "refused", "lock"}
        \/ at[r] = "return" /\ at'[r] = "lock"
        \/ at[r] = "lock" /\ lock = Nil /\ at'[r] \in {"move", "list"}
        \/ at[r] = "move" /\ at'[r] \in {"list", "panicked"}
        \/ at[r] = "list" /\ at'[r] \in {"unlock", "panicked"}
        \/ at[r] = "unlock" /\ at'[r] = "answered"
    <2>1. CASE Look(r) \/ LockToCreate(r) \/ Create(r) \/ CreatePanics(r)
      BY <1>1, <2>1 DEF Look, LockToCreate, Create, CreatePanics, Proceed, PC
    <2>2. CASE Return(r) \/ Lock(r) \/ MoveCursor(r)
      BY <1>1, <2>2 DEF Return, Lock, MoveCursor, Proceed, PC
    <2>3. CASE CursorList(r) \/ handlePanic(r) \/ Unlock(r)
      BY <1>1, <2>3 DEF CursorList, handlePanic, Unlock, Proceed, PC
    <2> QED
      BY <2>1, <2>2, <2>3 DEF Step
  <1>3. ~Waits(r)
    BY <1>2 DEF Waits
  <1>4. Distance(r)' < Distance(r)
    BY <1>2 DEF Distance
  <1> QED
    BY <1>3, <1>4

LEMMA NextAdvances ==
    ASSUME BrowserTypeOK, [BrowserNext]_browserVars, NEW r \in Requests
    PROVE  Advances(r)
  <1>1. UNCHANGED at[r] => Distance(r)' = Distance(r)
    BY DEF Distance
  <1>2. ASSUME Waits(r), ~(UNCHANGED at[r])
        PROVE  FALSE
    <2>1. PICK q \in Requests : Request(q) \/ Step(q)
      BY <1>2 DEF BrowserNext, browserVars
    <2>2. q # r
      BY <1>2, <2>1, StepAdvances DEF Waits, Request
    <2>3. \E p : at' = [at EXCEPT ![q] = p]
      BY <2>1 DEF Request, Step, Look, LockToCreate, Create, CreatePanics, Return,
         Lock, MoveCursor, CursorList, handlePanic, Unlock, Proceed
    <2> QED
      BY <1>2, <2>2, <2>3 DEF BrowserTypeOK
  <1> QED
    BY <1>1, <1>2, StepAdvances DEF Advances

\* Each step of a request, the two panics too, brings it nearer to its answer,
\* and while the mutex is locked for it nothing moves it: no request goes back
\* to GetBrowser's beginning, however the cursors of its server come and go.
THEOREM RequestsAdvance ==
    BrowserSpec => [][\A r \in Requests : Advances(r)]_browserVars
  <1>1. BrowserTypeOK /\ [BrowserNext]_browserVars
          => [\A r \in Requests : Advances(r)]_browserVars
    BY NextAdvances
  <1> QED
    BY <1>1, BrowserTypeCorrect, PTL DEF BrowserSpec
=============================================================================
