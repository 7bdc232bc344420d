--------------------------- MODULE DataPathProofs ---------------------------
(***************************************************************************)
(* Proofs about DataPath, for every number of collectors and proxies and   *)
(* every batch size:                                                       *)
(*   - TypeOK;                                                             *)
(*   - BatchesAreContiguous;                                               *)
(*   - CacheKeepsEveryBatch and CacheLagsOneBatch;                         *)
(*   - DataPath implements Datagrams: at most once, numbered without gaps; *)
(*   - no two datagrams that left are the same batch.                      *)
(***************************************************************************)
EXTENDS DataPath, TLAPS

(***************************************************************************)
(* Types.  A collector that hands over bytes has bytes and a proxy, and     *)
(* processMessages marshals what it has received.                          *)
(***************************************************************************)
Handing ==
    /\ \A c \in Collectors : pc[c] = "send" =>
          /\ data[c] \in Message /\ data[c].from = c /\ data[c].seq = seq[c]
          /\ via[c] \in Proxies
    /\ unread # {} => writer # Nothing

TInv == TypeOK /\ Handing

LEMMA InitTyped == Init => TInv
  BY BatchSizeAssumption DEF Init, TInv, TypeOK, Handing, PC, Slots, Points, Blank

\* What every Store does to the types.
LEMMA StoreTyped ==
    ASSUME TInv, NEW c \in Collectors, Store(c)
    PROVE  /\ left' \in [Collectors -> Nat]
           /\ count' \in [Collectors -> Nat]
           /\ stored' \in [Collectors -> SUBSET Words]
  <1>1. left[c] \in Nat /\ left[c] > 0 /\ count[c] \in Nat
    BY DEF Store, TInv, TypeOK
  <1>2. left[c] - 1 \in Nat /\ count[c] + 1 \in Nat
    BY <1>1
  <1> QED
    BY <1>2 DEF Store, TInv, TypeOK

\* What an assignment does to its collector's points.
LEMMA AssignPoints ==
    ASSUME TInv, NEW c \in Collectors, Assign(c)
    PROVE  \E w \in Words \ stored[c] :
             /\ stored' = [stored EXCEPT ![c] = stored[c] \cup {w}]
             /\ points' \in [Collectors -> Points]
             /\ \A d \in Collectors \ {c} : points'[d] = points[d]
             /\ \A i \in Slots, v \in Words :
                   points'[c][i][v] = IF i = b[c] /\ v = w THEN count[c] + 1
                                      ELSE points[c][i][v]
  <1>1. PICK w \in Words \ stored[c] :
             /\ points' = [points EXCEPT ![c][b[c]][w] = count[c] + 1]
             /\ stored' = [stored EXCEPT ![c] = stored[c] \cup {w}]
    BY DEF Assign
  <1>2. /\ b[c] \in Slots /\ count[c] + 1 \in Nat
        /\ points \in [Collectors -> Points] /\ points[c] \in [Slots -> [Words -> Nat]]
        /\ points[c][b[c]] \in [Words -> Nat]
    BY DEF TInv, TypeOK, Points
  <1> DEFINE slot == [points[c][b[c]] EXCEPT ![w] = count[c] + 1]
             mine == [points[c] EXCEPT ![b[c]] = slot]
  <1>3. slot \in [Words -> Nat] /\ \A v \in Words :
           slot[v] = IF v = w THEN count[c] + 1 ELSE points[c][b[c]][v]
    BY <1>2
  <1>4. points' = [points EXCEPT ![c] = mine]
    BY <1>1
  <1> HIDE DEF slot
  <1>5. mine \in Points /\ \A i \in Slots :
           mine[i] = IF i = b[c] THEN slot ELSE points[c][i]
    BY <1>2, <1>3 DEF Points
  <1> HIDE DEF mine
  <1>6. /\ points' \in [Collectors -> Points] /\ points'[c] = mine
        /\ \A d \in Collectors \ {c} : points'[d] = points[d]
    BY <1>2, <1>4, <1>5
  <1>7. \A i \in Slots, v \in Words :
           points'[c][i][v] = IF i = b[c] /\ v = w THEN count[c] + 1
                              ELSE points[c][i][v]
    BY <1>3, <1>5, <1>6
  <1> QED
    BY <1>1, <1>6, <1>7

\* runEngine's steps keep the types.
LEMMA RunEngineTyped ==
    ASSUME TInv, RunEngine
    PROVE  TInv'
  <1>1. UNCHANGED <<procVars, sender, wire, cacheVars>>
    BY DEF RunEngine, InitProxy, InitServers, InitCache
  <1>2. /\ phase' \in {"proxies", "cache", "web"}
        /\ opened' \subseteq Proxies /\ dead' \subseteq opened'
    BY DEF RunEngine, InitProxy, InitServers, InitCache, TInv, TypeOK
  <1> QED
    BY <1>1, <1>2 DEF TInv, TypeOK, Handing, procVars, cacheVars

\* A collector's own steps keep the types.
LEMMA CollectTyped ==
    ASSUME TInv, NEW c \in Collectors, Begin(c) \/ Stop(c) \/ Collect(c)
    PROVE  TInv'
  <1> USE DEF TInv, Goto, cacheVars
  <1>1. CASE Begin(c) \/ Stop(c) \/ Tick(c) \/ Notify(c)
    <2>1. /\ \E place \in {"check", "done", "cache", "stuck"} :
                pc' = [pc EXCEPT ![c] = place]
          /\ UNCHANGED <<phase, opened, dead, left, b, stored, seq, points, count,
                         data, via, sender, wire, cacheVars>>
      BY <1>1 DEF Begin, Stop, Tick, Notify
    <2>2. Handing'
      BY <2>1 DEF TypeOK, Handing
    <2>3. TypeOK'
      BY <2>1 DEF TypeOK, PC
    <2> QED
      BY <2>2, <2>3
  <1>2. CASE Read(c)
    <2>1. PICK k \in 0 .. MaxItems : left' = [left EXCEPT ![c] = k]
      BY <1>2 DEF Read
    <2>2. k \in Nat
      BY BoundsAssumption
    <2>3. /\ pc' = [pc EXCEPT ![c] = "fill"]
          /\ UNCHANGED <<phase, opened, dead, b, stored, seq, points, count, data,
                         via, sender, wire, cacheVars>>
      BY <1>2 DEF Read
    <2>4. TypeOK'
      BY <2>1, <2>2, <2>3 DEF TypeOK, PC
    <2>5. Handing'
      BY <2>3 DEF Handing, TypeOK
    <2> QED
      BY <2>4, <2>5
  <1>3. CASE Fill(c) \/ FillWithoutProxy(c)
    <2>1. Store(c)
      BY <1>3 DEF Fill, FillWithoutProxy
    <2>2. b' \in [Collectors -> Slots]
      <3>1. b[c] \in Slots
        BY DEF TypeOK
      <3>2. b[c] < BatchSize => b[c] + 1 \in Slots
        BY <3>1, BatchSizeAssumption DEF Slots
      <3>3. b' = b \/ (b[c] < BatchSize /\ b' = [b EXCEPT ![c] = b[c] + 1])
        BY <1>3 DEF Fill, FillWithoutProxy
      <3> QED
        BY <3>2, <3>3 DEF TypeOK
    <2>3. UNCHANGED <<phase, opened, dead, pc, seq, points, data, via, sender,
                      wire, cacheVars>>
      BY <1>3 DEF Fill, FillWithoutProxy
    <2>4. TypeOK'
      BY <2>1, <2>2, <2>3, StoreTyped DEF TypeOK
    <2>5. Handing'
      BY <2>3 DEF Handing
    <2> QED
      BY <2>4, <2>5
  <1>4. CASE FillLast(c)
    <2>1. Store(c) /\ pc[c] = "fill"
      BY <1>4 DEF FillLast, Store
    <2> DEFINE bytes == [from |-> c, seq |-> seq[c], points |-> points[c]]
    <2>2. bytes \in Message
      BY <2>1, StoreTyped DEF Message, TypeOK
    <2>3. /\ data' = [data EXCEPT ![c] = bytes]
          /\ pc' = [pc EXCEPT ![c] = "send"]
          /\ \E p \in opened : via' = [via EXCEPT ![c] = p]
          /\ UNCHANGED <<phase, opened, dead, b, seq, points, sender, wire, cacheVars>>
      BY <1>4 DEF FillLast
    <2>4. bytes.from = c /\ bytes.seq = seq[c]
      OBVIOUS
    <2> HIDE DEF bytes
    <2>5. TypeOK'
      BY <2>1, <2>2, <2>3, StoreTyped DEF TypeOK, PC
    <2>6. Handing'
      BY <2>2, <2>3, <2>4 DEF Handing, TypeOK
    <2> QED
      BY <2>5, <2>6
  <1>5. CASE Assign(c)
    <2>1. UNCHANGED <<phase, opened, dead, pc, left, b, seq, count, data, via,
                      sender, wire, cacheVars>>
      BY <1>5 DEF Assign
    <2>2. points' \in [Collectors -> Points] /\ stored' \in [Collectors -> SUBSET Words]
      <3>1. PICK w \in Words \ stored[c] :
                  /\ stored' = [stored EXCEPT ![c] = stored[c] \cup {w}]
                  /\ points' \in [Collectors -> Points]
        BY <1>5, AssignPoints
      <3>2. stored[c] \cup {w} \in SUBSET Words
        BY DEF TypeOK
      <3> QED
        BY <3>1, <3>2 DEF TypeOK
    <2>3. TypeOK'
      BY <2>1, <2>2 DEF TypeOK
    <2>4. Handing'
      BY <2>1 DEF Handing
    <2> QED
      BY <2>3, <2>4
  <1> QED
    BY <1>1, <1>2, <1>3, <1>4, <1>5 DEF Collect

\* What a step of json.Marshal does to the copy.
LEMMA MarshalCopies ==
    ASSUME TInv, Marshal
    PROVE  /\ writer \in Handed /\ writer # Nothing
           /\ copy' \in Points /\ unread' \subseteq Cells
           /\ \E j \in Slots, v \in Words :
                 /\ unread' = unread \ {<<j, v>>}
                 /\ \A i \in Slots, w \in Words :
                       copy'[i][w] = IF i = j /\ w = v THEN points[writer.from][i][w]
                                     ELSE copy[i][w]
  <1>1. PICK cell \in unread :
             /\ copy' = [copy EXCEPT ![cell[1]][cell[2]] =
                            points[writer.from][cell[1]][cell[2]]]
             /\ unread' = unread \ {cell}
    BY DEF Marshal
  <1>2. writer \in Handed /\ writer # Nothing
    BY <1>1 DEF TInv, TypeOK, Handing
  <1>3. PICK j \in Slots, v \in Words : cell = <<j, v>>
    BY <1>1 DEF TInv, TypeOK, Cells
  <1>4. points[writer.from] \in [Slots -> [Words -> Nat]]
    BY <1>2 DEF TInv, TypeOK, Points, Handed
  <1> DEFINE x == points[writer.from][j][v]
             slot == [copy[j] EXCEPT ![v] = x]
  <1>5. x \in Nat /\ copy \in [Slots -> [Words -> Nat]] /\ copy[j] \in [Words -> Nat]
    BY <1>4 DEF TInv, TypeOK, Points
  <1>6. copy' = [copy EXCEPT ![j] = slot]
    BY <1>1, <1>3
  <1> HIDE DEF x
  <1>7. slot \in [Words -> Nat] /\ \A w \in Words : slot[w] = IF w = v THEN x ELSE copy[j][w]
    BY <1>5
  <1> HIDE DEF slot
  <1>8. copy' \in Points /\ \A i \in Slots : copy'[i] = IF i = j THEN slot ELSE copy[i]
    BY <1>5, <1>6, <1>7 DEF Points
  <1>9. \A i \in Slots, w \in Words :
            copy'[i][w] = IF i = j /\ w = v THEN points[writer.from][i][w] ELSE copy[i][w]
    BY <1>7, <1>8 DEF x
  <1> QED
    BY <1>1, <1>2, <1>3, <1>8, <1>9 DEF TInv, TypeOK

\* The hand-overs and the goroutines that receive keep the types.
LEMMA ChannelsTyped ==
    ASSUME TInv,
           \/ \E c \in Collectors : Send(c) \/ CacheMessage(c)
           \/ \E p \in Proxies : SendJob(p)
           \/ Marshal \/ ProcessMessage
    PROVE  TInv'
  <1> USE DEF TInv, Goto, cacheVars
  <1>1. ASSUME NEW c \in Collectors, Send(c)
        PROVE  TInv'
    <2>1. /\ pc[c] = "send" /\ data[c] \in Message /\ via[c] \in Proxies
          /\ sender' = [sender EXCEPT ![via[c]] = data[c]]
          /\ data' = [data EXCEPT ![c] = Nothing]
          /\ via' = [via EXCEPT ![c] = Nothing]
          /\ pc' = [pc EXCEPT ![c] = "notify"]
          /\ b' = [b EXCEPT ![c] = 1]
          /\ seq' = [seq EXCEPT ![c] = @ + 1]
          /\ UNCHANGED <<phase, opened, dead, left, stored, points, count, wire,
                         cacheVars>>
      BY <1>1 DEF Send, HandOver, Handing
    <2>2. TypeOK'
      <3>1. b' \in [Collectors -> Slots]
        BY <2>1, BatchSizeAssumption DEF TypeOK, Slots
      <3>2. seq' \in [Collectors -> Nat]
        BY <2>1 DEF TypeOK
      <3>3. pc' \in [Collectors -> PC]
        BY <2>1 DEF TypeOK, PC
      <3>4. /\ sender' \in [Proxies -> Message \cup {Nothing}]
            /\ data' \in [Collectors -> Message \cup {Nothing}]
            /\ via' \in [Collectors -> Proxies \cup {Nothing}]
        BY <2>1 DEF TypeOK
      <3> QED
        BY <2>1, <3>1, <3>2, <3>3, <3>4 DEF TypeOK
    <2>3. Handing'
      BY <2>1 DEF Handing, TypeOK
    <2> QED
      BY <2>2, <2>3
  <1>2. ASSUME NEW c \in Collectors, CacheMessage(c)
        PROVE  TInv'
    <2> DEFINE handed == [from |-> c, seq |-> seq[c]]
    <2>1. handed \in Handed
      BY DEF TypeOK, Handed
    <2>2. handed # Nothing
      BY <2>1, NothingAssumption
    <2>3. /\ writer' = handed /\ unread' = Cells
          /\ pc' = [pc EXCEPT ![c] = "fill"]
          /\ UNCHANGED <<phase, opened, dead, left, b, stored, seq, points, count,
                         data, via, sender, wire, copy, cached>>
      BY <1>2 DEF CacheMessage
    <2> HIDE DEF handed
    <2>4. TypeOK'
      BY <2>1, <2>3 DEF TypeOK, PC
    <2>5. Handing'
      BY <2>2, <2>3 DEF TypeOK, Handing
    <2> QED
      BY <2>4, <2>5
  <1>3. ASSUME NEW p \in Proxies, SendJob(p)
        PROVE  TInv'
    <2>1. sender[p] \in Message
      BY <1>3 DEF SendJob, Write, WriteFails, TypeOK
    <2>2. Append(wire[p], sender[p]) \in Seq(Message)
      BY <2>1 DEF TypeOK
    <2>3. /\ sender' = [sender EXCEPT ![p] = Nothing]
          /\ wire' \in {wire, [wire EXCEPT ![p] = Append(wire[p], sender[p])]}
          /\ UNCHANGED <<phase, opened, dead, procVars, cacheVars>>
      BY <1>3 DEF SendJob, Write, WriteFails
    <2>4. wire' \in [Proxies -> Seq(Message)]
      BY <2>2, <2>3 DEF TypeOK
    <2>5. sender' \in [Proxies -> Message \cup {Nothing}]
      BY <2>3 DEF TypeOK
    <2> QED
      BY <2>3, <2>4, <2>5 DEF TypeOK, Handing, procVars
  <1>4. CASE ProcessMessage
    <2> DEFINE c == writer.from
               entry == [seq |-> writer.seq, points |-> copy]
    <2>1. c \in Collectors /\ entry \in [seq : Nat, points : Points]
      BY <1>4 DEF ProcessMessage, TypeOK, Handed
    <2>2. cached' = [cached EXCEPT ![c] = Append(cached[c], entry)]
      BY <1>4 DEF ProcessMessage
    <2> HIDE DEF c, entry
    <2>3. Append(cached[c], entry) \in Seq([seq : Nat, points : Points])
      <3> DEFINE E == [seq : Nat, points : Points]
      <3>1. cached[c] \in Seq(E) /\ entry \in E
        BY <2>1 DEF TypeOK
      <3> HIDE DEF E
      <3>2. Append(cached[c], entry) \in Seq(E)
        BY <3>1
      <3> QED
        BY <3>2 DEF E
    <2>4. cached' \in [Collectors -> Seq([seq : Nat, points : Points])]
      BY <2>1, <2>2, <2>3 DEF TypeOK
    <2>5. Blank \in Points
      BY DEF Blank, Points
    <2> QED
      BY <1>4, <2>4, <2>5 DEF ProcessMessage, TypeOK, Handing, procVars
  <1>5. CASE Marshal
    <2>1. copy' \in Points /\ unread' \subseteq Cells
      BY <1>5, MarshalCopies
    <2> QED
      BY <1>5, <2>1 DEF Marshal, TypeOK, Handing, procVars
  <1> QED
    BY <1>1, <1>2, <1>3, <1>4, <1>5

LEMMA NextTyped == TInv /\ [Next]_vars => TInv'
  <1> SUFFICES ASSUME TInv, [Next]_vars PROVE TInv'
    OBVIOUS
  <1>1. CASE UNCHANGED vars
    BY <1>1 DEF vars, procVars, cacheVars, TInv, TypeOK, Handing
  <1>2. CASE Next
    BY <1>2, RunEngineTyped, CollectTyped, ChannelsTyped DEF Next
  <1> QED
    BY <1>1, <1>2

\* Every slot, sequence, channel and file has its type in every state.
THEOREM TypeCorrect == Spec => []TypeOK
  <1>1. TInv => TypeOK
    BY DEF TInv
  <1> QED
    BY InitTyped, NextTyped, <1>1, PTL DEF Spec

-----------------------------------------------------------------------------
(***************************************************************************)
(* What is on its way to the diode or has left.                            *)
(***************************************************************************)
\* A sequence that grows by one has one entry more.
LEMMA EntriesAppend ==
    ASSUME NEW S, NEW s \in Seq(S), NEW x \in S
    PROVE  Entries(Append(s, x)) = Entries(s) \cup {x}
  <1>1. Len(Append(s, x)) = Len(s) + 1 /\ Len(s) \in Nat
    OBVIOUS
  <1>2. \A i \in 1 .. Len(s) : Append(s, x)[i] = s[i]
    OBVIOUS
  <1>3. Append(s, x)[Len(s) + 1] = x
    OBVIOUS
  <1>4. 1 .. (Len(s) + 1) = (1 .. Len(s)) \cup {Len(s) + 1}
    BY <1>1
  <1> QED
    BY <1>1, <1>2, <1>3, <1>4 DEF Entries

LEMMA EmittedSame ==
    ASSUME UNCHANGED <<sender, wire>> PROVE Emitted' = Emitted
  BY DEF Emitted, OnTheWay, Entries

\* A hand-over puts the bytes handed over on their way, nothing else.
LEMMA EmittedSend ==
    ASSUME TInv, NEW c \in Collectors, Send(c)
    PROVE  Emitted' \subseteq Emitted \cup {data[c]}
  <1>1. /\ sender' = [sender EXCEPT ![via[c]] = data[c]]
        /\ wire' = wire
    BY DEF Send, HandOver
  <1>2. \A p \in Proxies : OnTheWay(p)' \subseteq OnTheWay(p) \cup {data[c]}
    BY <1>1 DEF OnTheWay, Entries, TInv, TypeOK
  <1> QED
    BY <1>2 DEF Emitted

\* sendJob moves a message on or loses it.
LEMMA EmittedSendJob ==
    ASSUME TInv, NEW p \in Proxies, SendJob(p)
    PROVE  Emitted' \subseteq Emitted
  <1>1. sender[p] \in Message /\ sender[p] # Nothing
    BY DEF SendJob, Write, WriteFails, TInv, TypeOK
  <1>2. /\ sender' = [sender EXCEPT ![p] = Nothing]
        /\ wire' \in {wire, [wire EXCEPT ![p] = Append(wire[p], sender[p])]}
    BY DEF SendJob, Write, WriteFails
  <1>3. Entries(Append(wire[p], sender[p])) = Entries(wire[p]) \cup {sender[p]}
    BY <1>1, EntriesAppend DEF TInv, TypeOK
  <1>4. wire'[p] = wire[p] \/ wire'[p] = Append(wire[p], sender[p])
    BY <1>2 DEF TInv, TypeOK
  <1>5. Entries(wire[p])' \subseteq Entries(wire[p]) \cup {sender[p]}
    BY <1>3, <1>4 DEF Entries
  <1>6. sender'[p] = Nothing
    BY <1>2 DEF TInv, TypeOK
  <1>7. OnTheWay(p)' \subseteq OnTheWay(p)
    BY <1>1, <1>5, <1>6 DEF OnTheWay
  <1>8. ASSUME NEW q \in Proxies, q # p PROVE OnTheWay(q)' = OnTheWay(q)
    BY <1>2, <1>8 DEF OnTheWay, Entries, TInv, TypeOK
  <1> QED
    BY <1>7, <1>8 DEF Emitted

(***************************************************************************)
(* The batches are contiguous.  The number of values a collector has read  *)
(* is what its full batches hold and what is in the batch it is filling.   *)
(***************************************************************************)
Contiguous(m) == \A i \in Slots, w \in Words : m.points[i][w] = m.seq * BatchSize + i

\* The words that have the value of the batch that is being filled.
Filled(c, i, w) == i < b[c] \/ (i = b[c] /\ w \in stored[c])

Cut(c) ==
    IF pc[c] = "send"
    THEN /\ count[c] = seq[c] * BatchSize + BatchSize
         /\ Contiguous(data[c])
         /\ stored[c] = {}
    ELSE /\ count[c] = seq[c] * BatchSize + (b[c] - 1)
         /\ \A i \in Slots, w \in Words :
                Filled(c, i, w) => points[c][i][w] = seq[c] * BatchSize + i

\* A collector started by hand finds every proxy in the map.
Opened ==
    /\ phase # "proxies" => opened = Proxies
    /\ \A c \in Manual : pc[c] # "new" => phase = "web"

CInv ==
    /\ TInv /\ Opened
    /\ Proxies # {} => \A c \in Manual : Cut(c)
    /\ Proxies # {} => BatchesAreContiguous

LEMMA InitCut == Init => CInv
  <1> SUFFICES ASSUME Init PROVE CInv
    OBVIOUS
  <1>1. Emitted = {}
    BY DEF Init, Emitted, OnTheWay, Entries
  <1>2. \A c \in Collectors : Cut(c)
    BY BatchSizeAssumption DEF Init, Cut, Filled, Slots
  <1> QED
    BY InitTyped, <1>1, <1>2 DEF Init, CInv, Opened, BatchesAreContiguous, Manual

\* Cut only looks at its own collector.
LEMMA CutUnchanged ==
    ASSUME NEW d \in Collectors, Cut(d),
           pc'[d] = pc[d] \/ (pc[d] # "send" /\ pc'[d] # "send"),
           count'[d] = count[d], seq'[d] = seq[d], b'[d] = b[d],
           data'[d] = data[d], points'[d] = points[d], stored'[d] = stored[d]
    PROVE  Cut(d)'
  BY DEF Cut, Contiguous, Filled

\* Whatever one collector does, the others' batches stay as they are.
LEMMA CutOthers ==
    ASSUME TInv, NEW c \in Collectors, NEW d \in Collectors, d # c, Cut(d),
           Begin(c) \/ Stop(c) \/ Collect(c) \/ Send(c) \/ CacheMessage(c)
    PROVE  Cut(d)'
  <1>1. /\ pc'[d] = pc[d] /\ count'[d] = count[d] /\ seq'[d] = seq[d]
        /\ b'[d] = b[d] /\ data'[d] = data[d] /\ stored'[d] = stored[d]
    BY DEF Begin, Stop, Collect, Read, Tick, Assign, Fill, FillWithoutProxy, FillLast,
           Notify, Store, Send, HandOver, CacheMessage, Goto, TInv, TypeOK
  <1>2. points'[d] = points[d]
    <2>1. CASE Assign(c)
      BY <2>1, AssignPoints
    <2>2. CASE ~ Assign(c)
      BY <2>2 DEF Begin, Stop, Collect, Read, Tick, Fill, FillWithoutProxy, FillLast,
             Notify, Send, HandOver, CacheMessage
    <2> QED
      BY <2>1, <2>2
  <1> QED
    BY <1>1, <1>2, CutUnchanged

\* A collector's own step keeps its batch cut where it should be.
LEMMA CutOwn ==
    ASSUME TInv, Opened, Proxies # {}, NEW c \in Manual, Cut(c),
           Begin(c) \/ Stop(c) \/ Collect(c) \/ Send(c) \/ CacheMessage(c)
    PROVE  Cut(c)'
  <1> USE BatchSizeAssumption DEF Goto
  <1>1. /\ c \in Collectors /\ count[c] \in Nat /\ seq[c] \in Nat
        /\ b[c] \in Slots /\ seq[c] * BatchSize \in Nat
    BY DEF Manual, TInv, TypeOK
  <1>2. CASE Begin(c) \/ Stop(c) \/ Read(c) \/ Tick(c) \/ Notify(c) \/ CacheMessage(c)
    <2>1. /\ pc[c] # "send" /\ pc'[c] # "send"
          /\ UNCHANGED <<b, stored, seq, points, count, data>>
      BY <1>1, <1>2 DEF Begin, Stop, Read, Tick, Notify, CacheMessage, TInv, TypeOK
    <2> QED
      BY <1>1, <2>1, CutUnchanged
  <1>3. ASSUME Store(c)
        PROVE  /\ pc[c] # "send"
               /\ count'[c] = count[c] + 1 /\ stored'[c] = {}
               /\ count[c] = seq[c] * BatchSize + (b[c] - 1)
               /\ \A i \in Slots, w \in Words :
                     i <= b[c] => points[c][i][w] = seq[c] * BatchSize + i
    <2>1. pc[c] = "fill" /\ stored[c] = Words
      BY <1>3 DEF Store
    <2>2. count'[c] = count[c] + 1 /\ stored'[c] = {}
      BY <1>1, <1>3 DEF Store, TInv, TypeOK
    <2>3. count[c] = seq[c] * BatchSize + (b[c] - 1)
      BY <2>1 DEF Cut
    <2>4. \A i \in Slots, w \in Words : i <= b[c] => Filled(c, i, w)
      BY <1>1, <2>1 DEF Filled, Slots
    <2>5. \A i \in Slots, w \in Words :
             Filled(c, i, w) => points[c][i][w] = seq[c] * BatchSize + i
      BY <2>1 DEF Cut
    <2> QED
      BY <2>1, <2>2, <2>3, <2>4, <2>5
  <1>8. CASE Assign(c)
    <2>1. PICK w \in Words : /\ stored' = [stored EXCEPT ![c] = stored[c] \cup {w}]
                             /\ \A i \in Slots, v \in Words :
                                   points'[c][i][v] = IF i = b[c] /\ v = w
                                                      THEN count[c] + 1
                                                      ELSE points[c][i][v]
      BY <1>1, <1>8, AssignPoints
    <2>2. pc[c] = "fill" /\ UNCHANGED <<pc, b, seq, count, data>>
      BY <1>8 DEF Assign
    <2>3. stored'[c] = stored[c] \cup {w}
      BY <1>1, <2>1 DEF TInv, TypeOK
    <2>4. /\ count[c] = seq[c] * BatchSize + (b[c] - 1)
          /\ \A i \in Slots, v \in Words :
                 Filled(c, i, v) => points[c][i][v] = seq[c] * BatchSize + i
      BY <2>2 DEF Cut
    <2>5. count[c] + 1 = seq[c] * BatchSize + b[c]
      BY <1>1, <2>4 DEF Slots
    <2>6. ASSUME NEW i \in Slots, NEW v \in Words, Filled(c, i, v)'
          PROVE  points'[c][i][v] = seq[c] * BatchSize + i
      <3>1. CASE i = b[c] /\ v = w
        BY <2>1, <2>5, <3>1
      <3>2. CASE ~ (i = b[c] /\ v = w)
        <4>1. Filled(c, i, v)
          BY <2>2, <2>3, <2>6, <3>2 DEF Filled
        <4>2. points'[c][i][v] = points[c][i][v]
          BY <2>1, <3>2
        <4> QED
          BY <2>4, <4>1, <4>2
      <3> QED
        BY <3>1, <3>2
    <2> QED
      BY <2>2, <2>4, <2>6 DEF Cut
  <1>4. CASE Fill(c)
    <2>1. Store(c) /\ b'[c] = b[c] + 1 /\ UNCHANGED <<seq, pc, points>>
      BY <1>1, <1>4 DEF Fill, TInv, TypeOK
    <2>2. count'[c] = seq'[c] * BatchSize + (b'[c] - 1)
      BY <1>1, <1>3, <2>1 DEF Slots
    <2>3. \A i \in Slots, w \in Words : Filled(c, i, w)' => i <= b[c]
      BY <1>1, <1>3, <2>1 DEF Filled, Slots
    <2> QED
      BY <1>3, <2>1, <2>2, <2>3 DEF Cut
  <1>5. CASE FillWithoutProxy(c)
    <2>1. opened = {} /\ pc[c] # "new"
      BY <1>5 DEF FillWithoutProxy, Store
    <2> QED
      BY <2>1 DEF Opened
  <1>6. CASE FillLast(c)
    <2>1. /\ Store(c) /\ b[c] = BatchSize /\ seq' = seq /\ pc'[c] = "send"
          /\ data'[c] = [from |-> c, seq |-> seq[c], points |-> points[c]]
      BY <1>1, <1>6 DEF FillLast, TInv, TypeOK
    <2>2. count'[c] = seq'[c] * BatchSize + BatchSize
      BY <1>1, <1>3, <2>1
    <2>3. \A i \in Slots : i <= b[c]
      BY <2>1 DEF Slots
    <2>4. Contiguous(data'[c])
      BY <1>3, <2>1, <2>3 DEF Contiguous
    <2> QED
      BY <1>3, <2>1, <2>2, <2>4 DEF Cut, Contiguous
  <1>7. CASE Send(c)
    <2>1. /\ pc[c] = "send" /\ pc'[c] # "send" /\ b'[c] = 1
          /\ seq'[c] = seq[c] + 1 /\ count' = count /\ stored' = stored
      BY <1>1, <1>7 DEF Send, HandOver, TInv, TypeOK
    <2>2. count[c] = seq[c] * BatchSize + BatchSize /\ stored[c] = {}
      BY <2>1 DEF Cut
    <2>3. (seq[c] + 1) * BatchSize = seq[c] * BatchSize + BatchSize
      BY <1>1
    <2>4. count'[c] = seq'[c] * BatchSize + (b'[c] - 1)
      BY <1>1, <2>1, <2>2, <2>3
    <2>5. \A i \in Slots, w \in Words : ~ Filled(c, i, w)'
      BY <2>1, <2>2 DEF Filled, Slots
    <2> QED
      BY <2>1, <2>4, <2>5 DEF Cut
  <1> QED
    BY <1>2, <1>4, <1>5, <1>6, <1>7, <1>8 DEF Collect

\* No step lets the web server, and so a manual start, come before the
\* proxies.
LEMMA NextOpened == TInv /\ Opened /\ [Next]_vars => Opened'
  <1> SUFFICES ASSUME TInv, Opened, [Next]_vars PROVE Opened'
    OBVIOUS
  <1>1. CASE UNCHANGED <<phase, opened, pc>>
    BY <1>1 DEF Opened
  <1>2. CASE RunEngine
    BY <1>2 DEF RunEngine, InitProxy, InitServers, InitCache, Opened, procVars
  <1>3. ASSUME NEW c \in Collectors,
               Begin(c) \/ Stop(c) \/ Collect(c) \/ Send(c) \/ CacheMessage(c)
        PROVE  Opened'
    <2>1. UNCHANGED <<phase, opened>>
      BY <1>3 DEF Begin, Stop, Collect, Read, Tick, Assign, Fill,
                  FillWithoutProxy, FillLast, Notify, Send, HandOver, CacheMessage
    <2>2. pc[c] # "new" \/ c \notin Manual \/ phase = "web"
      BY <1>3 DEF Begin, Stop, Collect, Read, Tick, Assign, Fill,
                  FillWithoutProxy, FillLast, Notify, Store, Send, HandOver, CacheMessage, Manual
    <2>3. \A d \in Collectors : d # c => pc'[d] = pc[d]
      BY <1>3 DEF Begin, Stop, Collect, Read, Tick, Assign, Fill,
                  FillWithoutProxy, FillLast, Notify, Store, Send, HandOver, CacheMessage, Goto, TInv, TypeOK
    <2> QED
      BY <2>1, <2>2, <2>3 DEF Opened, Manual
  <1>4. ASSUME UNCHANGED vars \/ (\E p \in Proxies : SendJob(p)) \/ Marshal \/ ProcessMessage
        PROVE  UNCHANGED <<phase, opened, pc>>
    BY <1>4 DEF vars, procVars, SendJob, Write, WriteFails, Marshal, ProcessMessage
  <1> QED
    BY <1>1, <1>2, <1>3, <1>4 DEF Next

LEMMA NextCut == CInv /\ [Next]_vars => CInv'
  <1> SUFFICES ASSUME CInv, [Next]_vars
               PROVE  Proxies # {} =>
                        (\A d \in Manual : Cut(d)') /\ BatchesAreContiguous'
    BY NextTyped, NextOpened DEF CInv
  <1> SUFFICES ASSUME Proxies # {}
               PROVE  (\A d \in Manual : Cut(d)') /\ BatchesAreContiguous'
    OBVIOUS
  <1> USE DEF CInv
  <1>1. ASSUME UNCHANGED vars \/ RunEngine \/ (\E p \in Proxies : SendJob(p))
                 \/ Marshal \/ ProcessMessage
        PROVE  \A d \in Manual : Cut(d)'
    <2>1. UNCHANGED procVars
      BY <1>1 DEF vars, RunEngine, InitProxy, InitServers, InitCache, SendJob,
                  Write, WriteFails, Marshal, ProcessMessage
    <2> QED
      BY <2>1, CutUnchanged DEF procVars, Manual
  <1>2. ASSUME NEW c \in Collectors,
               Begin(c) \/ Stop(c) \/ Collect(c) \/ Send(c) \/ CacheMessage(c)
        PROVE  \A d \in Manual : Cut(d)'
    BY <1>2, CutOwn, CutOthers DEF Manual
  <1>3. \A d \in Manual : Cut(d)'
    BY <1>1, <1>2 DEF Next
  <1>4. Emitted' \subseteq Emitted
          \/ \E c \in Collectors : Send(c) /\ Emitted' \subseteq Emitted \cup {data[c]}
    <2>1. CASE UNCHANGED <<sender, wire>>
      BY <2>1, EmittedSame
    <2>2. CASE \E c \in Collectors : Send(c)
      BY <2>2, EmittedSend
    <2>3. CASE \E p \in Proxies : SendJob(p)
      BY <2>3, EmittedSendJob
    <2>4. ASSUME \/ UNCHANGED vars \/ RunEngine \/ Marshal \/ ProcessMessage
                 \/ \E c \in Collectors :
                       Begin(c) \/ Stop(c) \/ Collect(c) \/ CacheMessage(c)
          PROVE  UNCHANGED <<sender, wire>>
      BY <2>4 DEF vars, RunEngine, InitProxy, InitServers, InitCache,
           Marshal, ProcessMessage, Begin, Stop, Collect, Read, Tick, Assign, Fill,
           FillWithoutProxy, FillLast, Notify, CacheMessage
    <2> QED
      BY <2>1, <2>2, <2>3, <2>4 DEF Next
  <1>5. ASSUME NEW c \in Collectors, Send(c), c \in Manual
        PROVE  Contiguous(data[c])
    BY <1>5 DEF Send, HandOver, Cut
  <1>6. \A c \in Collectors : Send(c) => data[c].from = c
    BY DEF Send, HandOver, TInv, Handing
  <1>7. BatchesAreContiguous'
    BY <1>4, <1>5, <1>6 DEF BatchesAreContiguous, Contiguous
  <1> QED
    BY <1>3, <1>7

\* Without a proxy nothing is ever handed over.
LEMMA NoProxyNothingEmitted == Proxies = {} => BatchesAreContiguous
  BY DEF BatchesAreContiguous, Emitted

\* The batches of a collector that was started by hand leave no value out
\* and repeat none, for every batch size, sampling and interleaving.
THEOREM Contiguity == Spec => []BatchesAreContiguous
  <1>1. CInv => BatchesAreContiguous
    BY NoProxyNothingEmitted DEF CInv
  <1> QED
    BY InitCut, NextCut, <1>1, PTL DEF Spec

-----------------------------------------------------------------------------
(***************************************************************************)
(* The cache.  Of the batches a collector has counted, those that are not  *)
(* written are with the writer or with the collector itself; the writer    *)
(* has the one that comes next.                                            *)
(***************************************************************************)
Kept(c) ==
    /\ \A k \in 1 .. Len(cached[c]) : cached[c][k].seq = k
    /\ Len(cached[c]) + Pending(c) + Waiting(c) = seq[c]

NextInLine == writer # Nothing => writer.seq = Len(cached[writer.from]) + 1

KInv == TInv /\ NextInLine /\ \A c \in Collectors : Kept(c)

LEMMA InitKept == Init => KInv
  <1> SUFFICES ASSUME Init PROVE KInv
    OBVIOUS
  <1>1. \A c \in Collectors : cached[c] = <<>> /\ seq[c] = 0 /\ pc[c] = "new"
    BY DEF Init
  <1>2. writer = Nothing
    BY DEF Init
  <1>3. \A c \in Collectors : Len(cached[c]) = 0
    BY <1>1
  <1> QED
    <2>1. \A c \in Collectors : Pending(c) = 0 /\ Waiting(c) = 0
      BY <1>1, <1>2 DEF Pending, Waiting
    <2>2. \A c \in Collectors : Kept(c)
      BY <1>1, <1>3, <2>1 DEF Kept
    <2> QED
      BY InitTyped, <1>2, <2>2 DEF KInv, NextInLine

\* Kept looks at the sequence, the writer and the file alone.
LEMMA KeptUnchanged ==
    ASSUME NEW c \in Collectors, Kept(c), UNCHANGED <<writer, cached>>,
           seq'[c] = seq[c], Waiting(c)' = Waiting(c)
    PROVE  Kept(c)'
  BY DEF Kept, Pending

\* A hand-over to the diode: one more batch waits for the cache.
LEMMA SendKeeps ==
    ASSUME KInv, NEW c \in Collectors, Send(c)
    PROVE  NextInLine' /\ \A d \in Collectors : Kept(d)'
  <1>1. /\ UNCHANGED <<writer, cached>>
        /\ pc[c] = "send" /\ pc'[c] = "notify"
        /\ seq'[c] = seq[c] + 1
        /\ \A d \in Collectors \ {c} : pc'[d] = pc[d] /\ seq'[d] = seq[d]
    BY DEF Send, HandOver, Goto, KInv, TInv, TypeOK, cacheVars
  <1>2. NextInLine'
    BY <1>1 DEF KInv, NextInLine
  <1>3. ASSUME NEW d \in Collectors, d # c PROVE Kept(d)'
    BY <1>1, <1>3, KeptUnchanged DEF KInv, Waiting
  <1>4. Kept(c)'
    <2>1. Waiting(c) = 0 /\ Waiting(c)' = 1 /\ Pending(c)' = Pending(c)
      BY <1>1 DEF Waiting, Pending
    <2>2. Len(cached[c]) \in Nat /\ Pending(c) \in Nat /\ seq[c] \in Nat
      BY DEF KInv, TInv, TypeOK, Pending
    <2> QED
      BY <1>1, <2>1, <2>2 DEF KInv, Kept
  <1> QED
    BY <1>2, <1>3, <1>4

\* channel <- *msg: what waited is with the writer, and nothing was there.
LEMMA CacheMessageKeeps ==
    ASSUME KInv, NEW c \in Collectors, CacheMessage(c)
    PROVE  NextInLine' /\ \A d \in Collectors : Kept(d)'
  <1>1. /\ UNCHANGED <<seq, cached>>
        /\ writer = Nothing /\ writer' = [from |-> c, seq |-> seq[c]]
        /\ pc[c] = "cache" /\ pc'[c] = "fill"
        /\ \A d \in Collectors \ {c} : pc'[d] = pc[d]
        /\ seq[c] \in Nat
    BY DEF CacheMessage, Goto, KInv, TInv, TypeOK
  <1>2. writer' # Nothing /\ writer'.from = c /\ writer'.seq = seq[c]
    BY <1>1, NothingAssumption DEF Handed
  <1>3. Kept(c) /\ Pending(c) = 0 /\ Waiting(c) = 1
    BY <1>1 DEF KInv, Pending, Waiting
  <1>4. Len(cached[c]) \in Nat
    BY DEF KInv, TInv, TypeOK
  <1>5. NextInLine'
    BY <1>1, <1>2, <1>3, <1>4 DEF Kept, NextInLine
  <1>6. Kept(c)'
    <2>1. Pending(c)' = 1 /\ Waiting(c)' = 0
      BY <1>1, <1>2 DEF Pending, Waiting
    <2> QED
      BY <1>1, <1>3, <1>4, <2>1 DEF Kept
  <1>7. ASSUME NEW d \in Collectors, d # c PROVE Kept(d)'
    <2>1. Pending(d)' = 0 /\ Pending(d) = 0 /\ Waiting(d)' = Waiting(d)
      BY <1>1, <1>2, <1>7 DEF Pending, Waiting
    <2> QED
      BY <1>1, <2>1 DEF KInv, Kept
  <1> QED
    BY <1>5, <1>6, <1>7

\* processMessages writes what it has at the end of the file.
LEMMA ProcessKeeps ==
    ASSUME KInv, ProcessMessage
    PROVE  NextInLine' /\ \A d \in Collectors : Kept(d)'
  <1>0. PICK c \in Collectors : c = writer.from
    BY DEF ProcessMessage, KInv, TInv, TypeOK, Handed
  <1> DEFINE entry == [seq |-> writer.seq, points |-> copy]
  <1>1. /\ writer # Nothing /\ writer \in Handed /\ writer' = Nothing
        /\ UNCHANGED procVars
        /\ cached' = [cached EXCEPT ![c] = Append(cached[c], entry)]
    BY <1>0 DEF ProcessMessage, KInv, TInv, TypeOK, Handed
  <1>2. entry.seq = writer.seq
    OBVIOUS
  <1>3. entry \in [seq : Nat, points : Points]
    BY <1>1 DEF KInv, TInv, TypeOK, Handed
  <1>4. writer.seq = Len(cached[c]) + 1 /\ Kept(c)
    BY <1>0, <1>1 DEF KInv, NextInLine
  <1>5. Pending(c) = 1 /\ \A d \in Collectors : d # c => Pending(d) = 0
    BY <1>0, <1>1 DEF Pending
  <1>6. \A d \in Collectors : Pending(d)' = 0 /\ Waiting(d)' = Waiting(d)
                                /\ seq'[d] = seq[d]
    BY <1>1 DEF Pending, Waiting, procVars
  <1> HIDE DEF entry
  <1>7. ASSUME NEW d \in Collectors, d # c PROVE Kept(d)'
    <2>1. cached'[d] = cached[d]
      BY <1>1, <1>7 DEF KInv, TInv, TypeOK
    <2>2. Kept(d) /\ Pending(d) = 0
      BY <1>5, <1>7 DEF KInv
    <2> QED
      BY <1>6, <2>1, <2>2 DEF Kept
  <1>8. Kept(c)'
    <2> DEFINE E == [seq : Nat, points : Points]
               s == cached[c]
    <2>1. s \in Seq(E) /\ entry \in E
      BY <1>1, <1>3 DEF KInv, TInv, TypeOK
    <2>2. cached'[c] = Append(s, entry)
      BY <1>1 DEF KInv, TInv, TypeOK
    <2> HIDE DEF E, s
    <2>3. /\ Len(Append(s, entry)) = Len(s) + 1 /\ Len(s) \in Nat
          /\ \A k \in 1 .. Len(s) : Append(s, entry)[k] = s[k]
          /\ Append(s, entry)[Len(s) + 1] = entry
      BY <2>1
    <2>4. \A k \in 1 .. Len(s) : s[k].seq = k
      BY <1>4 DEF Kept, s
    <2>5. entry.seq = Len(s) + 1
      BY <1>2, <1>4 DEF s
    <2>6. \A k \in 1 .. (Len(s) + 1) : Append(s, entry)[k].seq = k
      BY <2>3, <2>4, <2>5
    <2>7. Len(s) + 1 + Waiting(c) = seq[c] /\ Waiting(c) \in Nat
      BY <1>4, <1>5 DEF Kept, s, Waiting
    <2>8. Len(cached'[c]) + Pending(c)' + Waiting(c)' = seq'[c]
      BY <1>6, <2>2, <2>3, <2>7
    <2> QED
      BY <2>2, <2>3, <2>6, <2>8 DEF Kept
  <1>9. NextInLine'
    BY <1>1 DEF NextInLine
  <1> QED
    BY <1>7, <1>8, <1>9

LEMMA NextKept == KInv /\ [Next]_vars => KInv'
  <1> SUFFICES ASSUME KInv, [Next]_vars
               PROVE  NextInLine' /\ \A d \in Collectors : Kept(d)'
    BY NextTyped DEF KInv
  <1>1. ASSUME \/ UNCHANGED vars \/ RunEngine \/ (\E p \in Proxies : SendJob(p)) \/ Marshal
               \/ \E c \in Collectors : Begin(c) \/ Stop(c) \/ Collect(c)
        PROVE  /\ UNCHANGED <<seq, writer, cached>>
               /\ \A d \in Collectors : Waiting(d)' = Waiting(d)
    BY <1>1 DEF vars, procVars, cacheVars, RunEngine, InitProxy, InitServers, InitCache,
         SendJob, Write, WriteFails, Marshal, Begin, Stop, Collect, Read, Tick, Assign,
         Fill, FillWithoutProxy, FillLast, Notify, Store, Goto, Waiting, KInv, TInv, TypeOK
  <1>2. CASE \/ UNCHANGED vars \/ RunEngine \/ (\E p \in Proxies : SendJob(p)) \/ Marshal
             \/ \E c \in Collectors : Begin(c) \/ Stop(c) \/ Collect(c)
    BY <1>1, <1>2, KeptUnchanged DEF KInv, NextInLine
  <1> QED
    BY <1>2, SendKeeps, CacheMessageKeeps, ProcessKeeps DEF Next

\* Every batch a collector has handed to a proxy is in the cache, once and in
\* order, with the writer, or with the collector that waits for the cache.
THEOREM EveryBatch == Spec => []CacheKeepsEveryBatch
  <1>1. KInv => CacheKeepsEveryBatch
    BY DEF KInv, Kept, CacheKeepsEveryBatch
  <1> QED
    BY InitKept, NextKept, <1>1, PTL DEF Spec

(***************************************************************************)
(* What the cache writes of the points.  The words a collector has still   *)
(* to assign in its batch are those of the batch before.                   *)
(***************************************************************************)
Before(c) ==
    /\ pc[c] = "send" =>
         \A i \in Slots, w \in Words : points[c][i][w] = seq[c] * BatchSize + i
    /\ pc[c] # "send" /\ seq[c] > 0 =>
         \A i \in Slots, w \in Words :
             ~ Filled(c, i, w) => points[c][i][w] = (seq[c] - 1) * BatchSize + i
    /\ pc[c] \in {"notify", "cache", "stuck"} => b[c] = 1 /\ stored[c] = {}

\* The value of slot i in the k-th message, or in the next one.
OneOfTwo(k, i) == {(k - 1) * BatchSize + i, k * BatchSize + i}

\* So is what has been marshalled of a message, although later words of it may
\* be of the next batch when an earlier one is not.
Copied ==
    writer # Nothing /\ writer.from \in Manual =>
        \A i \in Slots, w \in Words :
            <<i, w>> \notin unread => copy[i][w] \in OneOfTwo(writer.seq, i)

Lags(c) ==
    \A k \in 1 .. Len(cached[c]) : \A i \in Slots, w \in Words :
        cached[c][k].points[i][w] \in OneOfTwo(k, i)

LInv ==
    /\ CInv /\ KInv
    /\ Proxies # {} => Copied /\ \A c \in Manual : Before(c) /\ Lags(c)
    /\ Proxies = {} => \A c \in Collectors : seq[c] = 0

LEMMA InitLags == Init => LInv
  <1> SUFFICES ASSUME Init PROVE LInv
    OBVIOUS
  <1>1. \A c \in Collectors : seq[c] = 0 /\ pc[c] = "new" /\ cached[c] = <<>>
    BY DEF Init
  <1>2. \A c \in Manual : Before(c) /\ Lags(c)
    BY <1>1 DEF Before, Lags, Manual
  <1>3. Copied
    BY DEF Init, Copied
  <1> QED
    BY <1>1, <1>2, <1>3, InitCut, InitKept DEF LInv

LEMMA BeforeUnchanged ==
    ASSUME NEW c \in Collectors, Before(c),
           \/ pc'[c] = pc[c] \/ pc'[c] \notin {"send", "notify", "cache", "stuck"}
           \/ pc[c] = "notify",
           pc'[c] # "send" => pc[c] # "send", pc'[c] = "send" => pc[c] = "send",
           seq'[c] = seq[c], points'[c] = points[c], b'[c] = b[c],
           stored'[c] = stored[c]
    PROVE  Before(c)'
  BY DEF Before, Filled

\* A collector's own step.
LEMMA BeforeOwn ==
    ASSUME LInv, Proxies # {}, NEW c \in Manual,
           Begin(c) \/ Stop(c) \/ Collect(c) \/ Send(c) \/ CacheMessage(c)
    PROVE  Before(c)'
  <1> USE BatchSizeAssumption DEF Goto
  <1>1. /\ c \in Collectors /\ count[c] \in Nat /\ seq[c] \in Nat
        /\ b[c] \in Slots /\ TInv
        /\ Before(c) /\ Cut(c)
    BY DEF Manual, LInv, CInv, TInv, TypeOK
  <1>2. CASE Begin(c) \/ Stop(c) \/ Read(c) \/ Tick(c) \/ Notify(c) \/ CacheMessage(c)
    <2>1. /\ pc[c] # "send" /\ pc'[c] # "send"
          /\ pc'[c] \notin {"send", "notify", "cache", "stuck"} \/ pc[c] = "notify"
          /\ UNCHANGED <<b, stored, seq, points>>
      BY <1>1, <1>2 DEF Begin, Stop, Read, Tick, Notify, CacheMessage, TInv, TypeOK
    <2> QED
      BY <1>1, <2>1, BeforeUnchanged
  <1>3. CASE Assign(c)
    <2>1. PICK w \in Words : /\ stored' = [stored EXCEPT ![c] = stored[c] \cup {w}]
                             /\ \A i \in Slots, v \in Words :
                                   points'[c][i][v] = IF i = b[c] /\ v = w
                                                      THEN count[c] + 1
                                                      ELSE points[c][i][v]
      BY <1>1, <1>3, AssignPoints
    <2>2. pc[c] = "fill" /\ UNCHANGED <<pc, b, seq>>
      BY <1>3 DEF Assign
    <2>3. stored'[c] = stored[c] \cup {w}
      BY <1>1, <2>1 DEF TInv, TypeOK
    <2>4. ASSUME NEW i \in Slots, NEW v \in Words, ~ Filled(c, i, v)', seq[c] > 0
          PROVE  points'[c][i][v] = (seq[c] - 1) * BatchSize + i
      <3>1. ~ Filled(c, i, v) /\ ~ (i = b[c] /\ v = w)
        BY <2>2, <2>3, <2>4 DEF Filled
      <3>2. points'[c][i][v] = points[c][i][v]
        BY <2>1, <3>1
      <3> QED
        BY <1>1, <2>2, <2>4, <3>1, <3>2 DEF Before
    <2> QED
      BY <2>2, <2>4 DEF Before
  <1>4. CASE Fill(c)
    <2>1. /\ stored'[c] = {} /\ b'[c] = b[c] + 1 /\ pc[c] = "fill"
          /\ UNCHANGED <<seq, pc, points>>
      BY <1>1, <1>4 DEF Fill, Store, TInv, TypeOK
    <2>2. \A i \in Slots, w \in Words : Filled(c, i, w) => Filled(c, i, w)'
      BY <1>1, <2>1 DEF Filled, Slots
    <2> QED
      BY <1>1, <2>1, <2>2 DEF Before
  <1>5. CASE FillWithoutProxy(c)
    <2>1. opened = {} /\ pc[c] # "new"
      BY <1>5 DEF FillWithoutProxy, Store
    <2> QED
      BY <2>1 DEF LInv, CInv, Opened
  <1>6. CASE FillLast(c)
    <2>1. /\ stored[c] = Words /\ b[c] = BatchSize /\ pc[c] = "fill"
          /\ pc'[c] = "send" /\ UNCHANGED <<seq, points>>
      BY <1>1, <1>6 DEF FillLast, Store, TInv, TypeOK
    <2>2. \A i \in Slots, w \in Words : Filled(c, i, w)
      BY <1>1, <2>1 DEF Filled, Slots
    <2> QED
      BY <1>1, <2>1, <2>2 DEF Before, Cut
  <1>7. CASE Send(c)
    <2>1. /\ pc[c] = "send" /\ pc'[c] = "notify" /\ b'[c] = 1 /\ stored[c] = {}
          /\ seq'[c] = seq[c] + 1 /\ UNCHANGED <<points, stored>>
      BY <1>1, <1>7 DEF Send, HandOver, Cut, TInv, TypeOK
    <2>2. \A i \in Slots, w \in Words : points[c][i][w] = seq[c] * BatchSize + i
      BY <1>1, <2>1 DEF Before
    <2>3. seq'[c] - 1 = seq[c]
      BY <1>1, <2>1
    <2> QED
      BY <2>1, <2>2, <2>3 DEF Before
  <1> QED
    BY <1>2, <1>3, <1>4, <1>5, <1>6, <1>7 DEF Collect

\* What processMessages finds in the points of a collector started by hand.
LEMMA WrittenLags ==
    ASSUME LInv, writer # Nothing, writer.from \in Manual, Proxies # {},
           NEW i \in Slots, NEW w \in Words
    PROVE  points[writer.from][i][w] \in OneOfTwo(writer.seq, i)
  <1>0. PICK c \in Manual : c = writer.from
    OBVIOUS
  <1>1. /\ c \in Collectors /\ b[c] \in Slots /\ seq[c] \in Nat
        /\ Before(c) /\ Cut(c) /\ Kept(c)
        /\ writer.seq = Len(cached[c]) + 1
        /\ Len(cached[c]) \in Nat
    BY <1>0 DEF Manual, LInv, CInv, KInv, NextInLine, TInv, TypeOK
  <1>2. Pending(c) = 1 /\ Waiting(c) \in {0, 1}
    BY <1>0, <1>1 DEF Pending, Waiting
  <1>3. writer.seq + Waiting(c) = seq[c] /\ writer.seq \in Nat \ {0}
    BY <1>1, <1>2 DEF Kept
  <1>4. CASE Waiting(c) = 1
    <2>1. writer.seq = seq[c] - 1 /\ seq[c] > 0
      BY <1>1, <1>3, <1>4
    <2>0. pc[c] \in {"notify", "cache", "stuck"}
      BY <1>4 DEF Waiting
    <2>2. ~ Filled(c, i, w)
      <3>1. b[c] = 1 /\ stored[c] = {} /\ pc[c] # "send"
        BY <1>1, <2>0 DEF Before, Cut
      <3>2. ~ (i < b[c])
        BY <3>1 DEF Slots
      <3> QED
        BY <3>1, <3>2 DEF Filled
    <2>3. points[c][i][w] = (seq[c] - 1) * BatchSize + i
      BY <1>1, <2>0, <2>1, <2>2 DEF Before
    <2> QED
      BY <1>0, <2>1, <2>3 DEF OneOfTwo
  <1>5. CASE Waiting(c) = 0
    <2>1. writer.seq = seq[c] /\ seq[c] > 0
      BY <1>1, <1>3, <1>5
    <2>3. \/ points[c][i][w] = seq[c] * BatchSize + i
          \/ points[c][i][w] = (seq[c] - 1) * BatchSize + i
      BY <1>1, <2>1 DEF Before, Cut
    <2> QED
      BY <1>0, <2>1, <2>3 DEF OneOfTwo
  <1> QED
    BY <1>4, <1>5 DEF Waiting

\* So is each word that is marshalled, whenever it is.
LEMMA MarshalLags ==
    ASSUME LInv, Marshal, Proxies # {}
    PROVE  Copied'
  <1>1. PICK j \in Slots, v \in Words :
            /\ unread' = unread \ {<<j, v>>}
            /\ \A i \in Slots, w \in Words :
                  copy'[i][w] = IF i = j /\ w = v THEN points[writer.from][i][w]
                                ELSE copy[i][w]
    BY MarshalCopies DEF LInv, CInv
  <1>2. writer # Nothing /\ writer' = writer
    BY MarshalCopies DEF LInv, CInv, Marshal
  <1> SUFFICES ASSUME writer.from \in Manual, NEW i \in Slots, NEW w \in Words,
                      <<i, w>> \notin unread'
               PROVE  copy'[i][w] \in OneOfTwo(writer.seq, i)
    BY <1>2 DEF Copied, OneOfTwo
  <1>3. CASE i = j /\ w = v
    BY <1>1, <1>2, <1>3, WrittenLags
  <1>4. CASE ~ (i = j /\ w = v)
    <2>1. <<i, w>> \notin unread
      BY <1>1, <1>4
    <2> QED
      BY <1>1, <1>2, <1>4, <2>1 DEF LInv, Copied
  <1> QED
    BY <1>3, <1>4

LEMMA ProcessLags ==
    ASSUME LInv, ProcessMessage, Proxies # {}, NEW d \in Manual
    PROVE  Lags(d)'
  <1>0. PICK c \in Collectors : c = writer.from
    BY DEF ProcessMessage, LInv, KInv, TInv, TypeOK, Handed
  <1> DEFINE entry == [seq |-> writer.seq, points |-> copy]
             E == [seq : Nat, points : Points]
  <1>1. /\ cached' = [cached EXCEPT ![c] = Append(cached[c], entry)]
        /\ entry \in E /\ cached[c] \in Seq(E)
        /\ writer.seq = Len(cached[c]) + 1
        /\ cached \in [Collectors -> Seq(E)]
    BY <1>0 DEF ProcessMessage, LInv, KInv, NextInLine, TInv, TypeOK, Handed
  <1>2. entry.points = copy
    OBVIOUS
  <1>3. d \in Collectors /\ Lags(d)
    BY DEF LInv, Manual
  <1>4. CASE d # c
    <2>1. cached'[d] = cached[d]
      BY <1>1, <1>3, <1>4
    <2> QED
      BY <1>3, <2>1 DEF Lags, OneOfTwo
  <1>5. CASE d = c
    <2>1. \A i \in Slots, w \in Words :
             entry.points[i][w] \in OneOfTwo(Len(cached[c]) + 1, i)
      BY <1>0, <1>1, <1>2, <1>5 DEF LInv, Copied, ProcessMessage
    <2> HIDE DEF entry, E
    <2>2. /\ Len(Append(cached[c], entry)) = Len(cached[c]) + 1
          /\ Len(cached[c]) \in Nat
          /\ \A k \in 1 .. Len(cached[c]) :
                Append(cached[c], entry)[k] = cached[c][k]
          /\ Append(cached[c], entry)[Len(cached[c]) + 1] = entry
      BY <1>1
    <2>3. cached'[c] = Append(cached[c], entry)
      BY <1>1
    <2>4. ASSUME NEW k \in 1 .. Len(cached'[c]), NEW i \in Slots, NEW w \in Words
          PROVE  cached'[c][k].points[i][w] \in OneOfTwo(k, i)
      <3>1. k \in 1 .. Len(cached[c]) \/ k = Len(cached[c]) + 1
        BY <2>2, <2>3, <2>4
      <3>2. CASE k \in 1 .. Len(cached[c])
        BY <1>3, <1>5, <2>2, <2>3, <3>2 DEF Lags
      <3>3. CASE k = Len(cached[c]) + 1
        BY <2>1, <2>2, <2>3, <3>3
      <3> QED
        BY <3>1, <3>2, <3>3
    <2> QED
      BY <1>5, <2>4 DEF Lags, OneOfTwo
  <1> QED
    BY <1>4, <1>5

LEMMA NextLags == LInv /\ [Next]_vars => LInv'
  <1> SUFFICES ASSUME LInv, [Next]_vars
               PROVE  /\ Proxies # {} => Copied' /\ \A d \in Manual : Before(d)' /\ Lags(d)'
                      /\ Proxies = {} => \A d \in Collectors : seq'[d] = 0
    BY NextCut, NextKept DEF LInv
  <1>1. ASSUME UNCHANGED vars \/ RunEngine \/ (\E p \in Proxies : SendJob(p))
                 \/ Marshal \/ ProcessMessage
        PROVE  UNCHANGED procVars
    BY <1>1 DEF vars, RunEngine, InitProxy, InitServers, InitCache, SendJob,
                Write, WriteFails, Marshal, ProcessMessage
  <1>2. ASSUME NEW c \in Collectors, NEW d \in Collectors, d # c,
               Begin(c) \/ Stop(c) \/ Collect(c) \/ Send(c) \/ CacheMessage(c)
        PROVE  /\ pc'[d] = pc[d] /\ seq'[d] = seq[d] /\ b'[d] = b[d]
               /\ points'[d] = points[d] /\ stored'[d] = stored[d]
    <2>1. /\ pc'[d] = pc[d] /\ seq'[d] = seq[d] /\ b'[d] = b[d]
          /\ stored'[d] = stored[d]
      BY <1>2 DEF Begin, Stop, Collect, Read, Tick, Assign, Fill, FillWithoutProxy,
             FillLast, Notify, Store, Send, HandOver, CacheMessage, Goto, LInv, CInv,
             TInv, TypeOK
    <2>2. CASE Assign(c)
      BY <1>2, <2>1, <2>2, AssignPoints DEF LInv, CInv
    <2>3. CASE ~ Assign(c)
      BY <1>2, <2>1, <2>3 DEF Begin, Stop, Collect, Read, Tick, Fill, FillWithoutProxy,
             FillLast, Notify, Send, HandOver, CacheMessage
    <2> QED
      BY <2>2, <2>3
  <1>3. ASSUME Proxies # {}, NEW d \in Manual
        PROVE  Before(d)'
    <2>1. d \in Collectors /\ Before(d)
      BY <1>3 DEF LInv, Manual
    <2>2. CASE UNCHANGED vars \/ RunEngine \/ (\E p \in Proxies : SendJob(p))
                 \/ Marshal \/ ProcessMessage
      BY <1>1, <2>1, <2>2, BeforeUnchanged DEF procVars
    <2>3. ASSUME NEW c \in Collectors,
                 Begin(c) \/ Stop(c) \/ Collect(c) \/ Send(c) \/ CacheMessage(c)
          PROVE  Before(d)'
      BY <1>2, <1>3, <2>1, <2>3, BeforeUnchanged, BeforeOwn
    <2> QED
      BY <2>2, <2>3 DEF Next
  <1>4. ASSUME Proxies # {}, NEW d \in Manual
        PROVE  Lags(d)'
    <2>1. CASE ProcessMessage
      BY <1>4, <2>1, ProcessLags
    <2>2. ASSUME ~ ProcessMessage
          PROVE  UNCHANGED cached
      BY <2>2 DEF Next, vars, RunEngine, InitProxy, InitServers, InitCache,
           SendJob, Write, WriteFails, Marshal, Begin, Stop, Collect, Read, Tick, Assign,
           Fill, FillWithoutProxy, FillLast, Notify, Send, HandOver, CacheMessage, cacheVars
    <2> QED
      BY <1>4, <2>1, <2>2 DEF Lags, OneOfTwo, LInv
  <1>6. ASSUME Proxies # {}
        PROVE  Copied'
    <2>1. CASE Marshal
      BY <1>6, <2>1, MarshalLags
    <2>2. ASSUME NEW c \in Collectors, CacheMessage(c)
          PROVE  Copied'
      BY <2>2 DEF CacheMessage, Copied, Cells
    <2>3. CASE ProcessMessage
      BY <2>3 DEF ProcessMessage, Copied
    <2>4. CASE UNCHANGED cacheVars
      BY <1>6, <2>4 DEF cacheVars, Copied, OneOfTwo, LInv
    <2>5. UNCHANGED cacheVars \/ Marshal \/ ProcessMessage
            \/ \E c \in Collectors : CacheMessage(c)
      BY DEF Next, vars, RunEngine, InitProxy, InitServers, InitCache,
           SendJob, Write, WriteFails, Begin, Stop, Collect, Read, Tick, Assign, Fill,
           FillWithoutProxy, FillLast, Notify, Send, HandOver
    <2> QED
      BY <2>1, <2>2, <2>3, <2>4, <2>5
  <1>5. ASSUME Proxies = {}, NEW d \in Collectors
        PROVE  seq'[d] = 0
    <2>1. ASSUME NEW c \in Collectors PROVE ~ Send(c)
      BY <1>5 DEF Send, HandOver, LInv, CInv, TInv, Handing
    <2>2. UNCHANGED seq
      BY <2>1 DEF Next, vars, procVars, RunEngine, InitProxy, InitServers,
           InitCache, SendJob, Write, WriteFails, Begin, Stop, Collect, Read, Tick,
           Assign, Fill, FillWithoutProxy, FillLast, Notify, CacheMessage, Marshal,
           ProcessMessage
    <2> QED
      BY <1>5, <2>2 DEF LInv
  <1> QED
    BY <1>3, <1>4, <1>5, <1>6

\* A batch in the cache has, word by word, the value it was sent with or the one
\* of the next batch, in whatever order its collector assigns the words and
\* json.Marshal reads them.
THEOREM OneBatchLate == Spec => []CacheLagsOneBatch
  <1>1. LInv => CacheLagsOneBatch
    <2> SUFFICES ASSUME LInv PROVE CacheLagsOneBatch
      OBVIOUS
    <2>1. CASE Proxies # {}
      BY <2>1 DEF LInv, Lags, OneOfTwo, CacheLagsOneBatch
    <2>2. CASE Proxies = {}
      <3>1. ASSUME NEW c \in Collectors PROVE Len(cached[c]) = 0
        <4>1. /\ Len(cached[c]) \in Nat /\ seq[c] = 0
              /\ Pending(c) \in Nat /\ Waiting(c) \in Nat /\ Kept(c)
          BY <2>2 DEF LInv, KInv, TInv, TypeOK, Pending, Waiting
        <4> QED
          BY <4>1 DEF Kept
      <3> QED
        BY <3>1 DEF CacheLagsOneBatch, Manual
    <2> QED
      BY <2>1, <2>2
  <1> QED
    BY InitLags, NextLags, <1>1, PTL DEF Spec

-----------------------------------------------------------------------------
(***************************************************************************)
(* The refinement.  The batches that sendJobs hold are all different, and  *)
(* their numbers have been given out.                                      *)
(***************************************************************************)
Same(m, n) == m.from = n.from /\ m.seq = n.seq

Distinct ==
    /\ \A p \in Proxies : sender[p] # Nothing =>
            sender[p].seq < seq[sender[p].from]
    /\ \A p, q \in Proxies :
            sender[p] # Nothing /\ sender[q] # Nothing
                /\ Same(sender[p], sender[q]) => p = q

RInv == TInv /\ Distinct

LEMMA InitDistinct == Init => RInv
  BY InitTyped DEF Init, RInv, Distinct

\* The steps that neither hand over nor write are stutters of Datagrams.
LEMMA OtherSteps ==
    ASSUME UNCHANGED vars \/ RunEngine \/ Marshal \/ ProcessMessage
             \/ \E c \in Collectors :
                   Begin(c) \/ Stop(c) \/ Collect(c) \/ CacheMessage(c)
    PROVE  UNCHANGED <<seq, sender, wire>>
  BY DEF vars, procVars, RunEngine, InitProxy, InitServers, InitCache,
         Marshal, ProcessMessage, Begin, Stop, Collect, Read, Tick, Assign, Fill,
         FillWithoutProxy, FillLast, Notify, CacheMessage

LEMMA SendFacts ==
    ASSUME RInv, NEW c \in Collectors, Send(c)
    PROVE  /\ via[c] \in Proxies /\ sender[via[c]] = Nothing
           /\ data[c] \in Message /\ data[c].from = c /\ data[c].seq = seq[c]
           /\ data[c] # Nothing /\ seq[c] \in Nat
           /\ seq' = [seq EXCEPT ![c] = seq[c] + 1]
           /\ sender' = [sender EXCEPT ![via[c]] = data[c]]
           /\ wire' = wire
  BY NothingAssumption DEF Send, HandOver, RInv, TInv, Handing, TypeOK

\* The same, function by function.
LEMMA SendPoints ==
    ASSUME RInv, NEW c \in Collectors, Send(c)
    PROVE  /\ \A p \in Proxies :
                 sender'[p] = IF p = via[c] THEN data[c] ELSE sender[p]
           /\ \A d \in Collectors :
                 /\ seq'[d] = IF d = c THEN seq[d] + 1 ELSE seq[d]
                 /\ seq[d] \in Nat
  <1>1. /\ sender \in [Proxies -> Message \cup {Nothing}]
        /\ seq \in [Collectors -> Nat]
    BY DEF RInv, TInv, TypeOK
  <1>2. /\ sender' = [sender EXCEPT ![via[c]] = data[c]]
        /\ seq' = [seq EXCEPT ![c] = seq[c] + 1]
    BY SendFacts
  <1> QED
    BY <1>1, <1>2

LEMMA SendJobFacts ==
    ASSUME RInv, NEW p \in Proxies, SendJob(p)
    PROVE  /\ sender[p] # Nothing /\ sender[p] \in Message
           /\ sender' = [sender EXCEPT ![p] = Nothing]
           /\ seq' = seq
  BY DEF SendJob, Write, WriteFails, procVars, RInv, TInv, TypeOK

LEMMA NextDistinct == RInv /\ [Next]_vars => RInv'
  <1> SUFFICES ASSUME RInv, [Next]_vars PROVE Distinct'
    BY NextTyped DEF RInv
  <1>1. CASE UNCHANGED <<seq, sender, wire>>
    BY <1>1 DEF RInv, Distinct, Same
  <1>2. ASSUME NEW c \in Collectors, Send(c)
        PROVE  Distinct'
    <2>1. \A p \in Proxies : sender[p] # Nothing =>
            sender[p].from \in Collectors /\ sender[p].seq \in Nat
      BY DEF RInv, TInv, TypeOK, Message
    <2>2. \A p \in Proxies :
            sender'[p] = IF p = via[c] THEN data[c] ELSE sender[p]
      BY <1>2, SendPoints
    <2>3. \A d \in Collectors :
            seq'[d] = (IF d = c THEN seq[d] + 1 ELSE seq[d]) /\ seq[d] \in Nat
      BY <1>2, SendPoints
    <2> DEFINE d == data[c]
    <2>0. d.from = c /\ d.seq = seq[c] /\ d # Nothing
      BY <1>2, SendFacts
    <2> HIDE DEF d
    <2>4. ASSUME NEW p \in Proxies, sender'[p] # Nothing
          PROVE  sender'[p].seq < seq'[sender'[p].from]
      <3>1. CASE p = via[c]
        <4>1. sender'[p] = d
          BY <2>2, <3>1 DEF d
        <4>2. seq'[c] = seq[c] + 1 /\ seq[c] \in Nat
          BY <2>3
        <4> QED
          BY <2>0, <4>1, <4>2
      <3>2. CASE p # via[c]
        <4>1. sender'[p] = sender[p] /\ sender[p] # Nothing
          BY <2>2, <2>4, <3>2
        <4>2. sender[p].seq < seq[sender[p].from]
          BY <4>1 DEF RInv, Distinct
        <4> DEFINE f == sender[p].from
        <4>3. f \in Collectors /\ sender[p].seq \in Nat
          BY <2>1, <4>1
        <4>4. seq'[f] = seq[f] \/ seq'[f] = seq[f] + 1
          BY <2>3, <4>3
        <4>5. seq[f] \in Nat
          BY <2>3, <4>3
        <4> QED
          BY <4>1, <4>2, <4>3, <4>4, <4>5
      <3> QED
        BY <3>1, <3>2
    <2>5. \A p \in Proxies : p # via[c] /\ sender[p] # Nothing =>
            ~ Same(sender[p], d)
      <3> SUFFICES ASSUME NEW p \in Proxies, sender[p] # Nothing
                   PROVE  ~ Same(sender[p], d)
        OBVIOUS
      <3>1. sender[p].seq < seq[sender[p].from] /\ sender[p].seq \in Nat
        BY <2>1 DEF RInv, Distinct
      <3>2. sender[p].from = c => sender[p].seq # seq[c]
        BY <3>1, <2>3
      <3> QED
        BY <2>0, <3>2 DEF Same
    <2>6. \A p, q \in Proxies :
            sender'[p] # Nothing /\ sender'[q] # Nothing
                /\ Same(sender'[p], sender'[q]) => p = q
      <3>1. \A p \in Proxies : sender'[p] = IF p = via[c] THEN d ELSE sender[p]
        BY <2>2 DEF d
      <3>2. \A p, q \in Proxies :
              sender[p] # Nothing /\ sender[q] # Nothing
                  /\ Same(sender[p], sender[q]) => p = q
        BY DEF RInv, Distinct
      <3>3. \A m : Same(d, m) <=> Same(m, d)
        BY DEF Same
      <3> QED
        BY <2>5, <3>1, <3>2, <3>3
    <2> QED
      BY <2>4, <2>6 DEF Distinct, Same
  <1>3. ASSUME NEW p \in Proxies, SendJob(p)
        PROVE  Distinct'
    <2>1. \A q \in Proxies :
            sender'[q] = IF q = p THEN Nothing ELSE sender[q]
      BY <1>3, SendJobFacts DEF RInv, TInv, TypeOK
    <2> QED
      BY <1>3, SendJobFacts, <2>1 DEF RInv, Distinct, Same
  <1> QED
    BY <1>1, <1>2, <1>3, OtherSteps DEF Next

\* Initial states map to initial states.
LEMMA InitMaps == Init => Diode!Init
  BY DEF Init, Diode!Init, Flight, Arrived, Entries

\* A hand-over maps to Hand.
LEMMA SendMaps ==
    ASSUME RInv, NEW c \in Collectors, Send(c)
    PROVE  Diode!Hand(c)
  <1>1. \A p \in Proxies : sender'[p] = IF p = via[c] THEN data[c] ELSE sender[p]
    BY SendPoints
  <1>2. Flight' = Flight \cup {<<c, seq[c]>>}
    <2>1. \A p \in Proxies : p # via[c] => sender'[p] = sender[p]
      BY <1>1
    <2>2. sender'[via[c]] # Nothing /\ sender[via[c]] = Nothing
      BY <1>1, SendFacts
    <2>3. <<sender'[via[c]].from, sender'[via[c]].seq>> = <<c, seq[c]>>
      BY <1>1, SendFacts
    <2>4. via[c] \in Proxies
      BY SendFacts
    <2> QED
      BY <2>1, <2>2, <2>3, <2>4 DEF Flight
  <1>3. Arrived' = Arrived
    BY SendFacts DEF Arrived, Entries
  <1> QED
    BY <1>2, <1>3, SendFacts DEF Diode!Hand

\* What one sendJob holds is held by no other.
LEMMA FlightShrinks ==
    ASSUME RInv, NEW p \in Proxies, SendJob(p)
    PROVE  /\ <<sender[p].from, sender[p].seq>> \in Flight
           /\ Flight' = Flight \ {<<sender[p].from, sender[p].seq>>}
  <1>1. \A q \in Proxies : sender'[q] = IF q = p THEN Nothing ELSE sender[q]
    BY SendJobFacts DEF RInv, TInv, TypeOK
  <1>2. <<sender[p].from, sender[p].seq>> \in Flight
    BY SendJobFacts DEF Flight
  <1>3. \A q \in Proxies : q # p /\ sender[q] # Nothing =>
            <<sender[q].from, sender[q].seq>> # <<sender[p].from, sender[p].seq>>
    BY SendJobFacts DEF RInv, Distinct, Same
  <1> QED
    BY <1>1, <1>2, <1>3, SendJobFacts DEF Flight

\* A write maps to Arrive, a failed one to Lose.
LEMMA SendJobMaps ==
    ASSUME RInv, NEW p \in Proxies, SendJob(p)
    PROVE  \E m \in Flight : Diode!Arrive(m) \/ Diode!Lose(m)
  <1> DEFINE m == <<sender[p].from, sender[p].seq>>
  <1>1. CASE Write(p)
    <2>1. sender[p] \in Message /\ wire[p] \in Seq(Message)
      BY SendJobFacts DEF RInv, TInv, TypeOK
    <2>2. Entries(Append(wire[p], sender[p])) = Entries(wire[p]) \cup {sender[p]}
      BY <2>1, EntriesAppend
    <2>3. \A q \in Proxies : Entries(wire'[q]) =
            IF q = p THEN Entries(wire[q]) \cup {sender[p]} ELSE Entries(wire[q])
      BY <1>1, <2>2 DEF Write, RInv, TInv, TypeOK
    <2>4. Arrived' = Arrived \cup {m}
      <3>1. \A q \in Proxies :
              {<<n.from, n.seq>> : n \in Entries(wire'[q])} =
                IF q = p THEN {<<n.from, n.seq>> : n \in Entries(wire[q])} \cup {m}
                ELSE {<<n.from, n.seq>> : n \in Entries(wire[q])}
        BY <2>3
      <3>2. Arrived' = UNION {{<<n.from, n.seq>> : n \in Entries(wire'[q])} :
                                q \in Proxies}
        BY DEF Arrived, Entries
      <3> HIDE DEF m
      <3> QED
        BY <3>1, <3>2 DEF Arrived
    <2> QED
      BY <2>4, FlightShrinks, SendJobFacts DEF Diode!Arrive
  <1>2. CASE WriteFails(p)
    <2>1. Arrived' = Arrived
      BY <1>2 DEF WriteFails, Arrived, Entries
    <2> QED
      BY <2>1, FlightShrinks, SendJobFacts DEF Diode!Lose
  <1> QED
    BY <1>1, <1>2 DEF SendJob

\* Every step maps to a step of Datagrams or to a stutter.
LEMMA NextMaps == RInv /\ [Next]_vars => [Diode!Next]_Diode!vars
  <1> SUFFICES ASSUME RInv, [Next]_vars PROVE [Diode!Next]_Diode!vars
    OBVIOUS
  <1>1. CASE UNCHANGED <<seq, sender, wire>>
    BY <1>1 DEF Diode!vars, Flight, Arrived, Entries
  <1>2. ASSUME NEW c \in Collectors, Send(c)
        PROVE  Diode!Next
    BY <1>2, SendMaps DEF Diode!Next
  <1>3. ASSUME NEW p \in Proxies, SendJob(p)
        PROVE  Diode!Next
    BY <1>3, SendJobMaps DEF Diode!Next
  <1> QED
    BY <1>1, <1>2, <1>3, OtherSteps DEF Next

\* The data path implements an at-most-once stream of numbered batches:
\* whatever is started, stopped, blocked or fails to be written, no batch
\* leaves twice and the numbers have no gaps.
THEOREM Implements == Spec => SendsDatagrams
  BY InitDistinct, NextDistinct, InitMaps, NextMaps, PTL
     DEF Spec, SendsDatagrams, Diode!Spec

-----------------------------------------------------------------------------
(***************************************************************************)
(* What the refinement says of sets of batches, said of the writes: the    *)
(* datagrams that left, by whichever proxy, are all different, since what  *)
(* has left is held by no sendJob and its number is never given again.     *)
(***************************************************************************)
\* No batch is written twice, not by one proxy and not by two.
NoneTwice ==
    \A p, q \in Proxies :
        \A i \in 1 .. Len(wire[p]), j \in 1 .. Len(wire[q]) :
            Same(wire[p][i], wire[q][j]) => p = q /\ i = j

\* What has left was numbered, and is not about to leave.
Left ==
    \A p \in Proxies : \A i \in 1 .. Len(wire[p]) :
        /\ wire[p][i].seq < seq[wire[p][i].from]
        /\ \A q \in Proxies : sender[q] # Nothing =>
               ~ Same(wire[p][i], sender[q])

WInv == RInv /\ Left /\ NoneTwice

LEMMA InitOnce == Init => WInv
  BY InitDistinct DEF Init, WInv, Left, NoneTwice

\* A hand-over gives the next number: no datagram that left has it.
LEMMA SendOnce ==
    ASSUME WInv, NEW c \in Collectors, Send(c)
    PROVE  Left' /\ NoneTwice'
  <1> DEFINE d == data[c]
  <1>1. /\ d.from = c /\ d.seq = seq[c] /\ wire' = wire
    BY SendFacts DEF WInv
  <1>2. \A p \in Proxies : sender'[p] = IF p = via[c] THEN d ELSE sender[p]
    BY SendPoints DEF WInv
  <1>3. \A e \in Collectors :
          seq'[e] = (IF e = c THEN seq[e] + 1 ELSE seq[e]) /\ seq[e] \in Nat
    BY SendPoints DEF WInv
  <1> HIDE DEF d
  <1>4. NoneTwice'
    BY <1>1 DEF WInv, NoneTwice, Same
  <1>5. ASSUME NEW p \in Proxies, NEW i \in 1 .. Len(wire[p])
        PROVE  /\ wire[p][i].seq < seq'[wire[p][i].from]
               /\ \A q \in Proxies : sender'[q] # Nothing =>
                      ~ Same(wire[p][i], sender'[q])
    <2> DEFINE m == wire[p][i]
               f == m.from
    <2>1. m \in Message
      BY DEF WInv, RInv, TInv, TypeOK
    <2>2. f \in Collectors /\ m.seq \in Nat
      BY <2>1 DEF Message
    <2>3. m.seq < seq[f] /\ \A q \in Proxies : sender[q] # Nothing =>
                                ~ Same(m, sender[q])
      BY DEF WInv, Left
    <2> HIDE DEF m
    <2>4. ~ Same(m, d)
      <3>1. f = c => m.seq # seq[c]
        BY <1>3, <2>2, <2>3
      <3> QED
        BY <1>1, <3>1 DEF Same
    <2>5. m.seq < seq'[f]
      <3>1. seq[f] \in Nat /\ (seq'[f] = seq[f] \/ seq'[f] = seq[f] + 1)
        BY <1>3, <2>2
      <3> QED
        BY <2>2, <2>3, <3>1
    <2>6. \A q \in Proxies : sender'[q] # Nothing => ~ Same(m, sender'[q])
      BY <1>2, <2>3, <2>4
    <2> QED
      BY <2>5, <2>6 DEF m
  <1> QED
    BY <1>1, <1>4, <1>5 DEF Left

\* A write is of what the proxy's sendJob held, and nobody else.
LEMMA WriteOnce ==
    ASSUME WInv, NEW p \in Proxies, SendJob(p)
    PROVE  Left' /\ NoneTwice'
  <1> DEFINE m == sender[p]
  <1>1. /\ m # Nothing /\ m \in Message /\ seq' = seq
        /\ wire \in [Proxies -> Seq(Message)]
        /\ \A q \in Proxies : sender'[q] = IF q = p THEN Nothing ELSE sender[q]
    BY SendJobFacts DEF WInv, RInv, TInv, TypeOK
  <1>2. /\ m.seq < seq[m.from]
        /\ \A q \in Proxies : q # p /\ sender[q] # Nothing => ~ Same(m, sender[q])
        /\ \A q \in Proxies : \A j \in 1 .. Len(wire[q]) : ~ Same(wire[q][j], m)
    BY <1>1 DEF WInv, RInv, Distinct, Left
  <1> HIDE DEF m
  <1>3. \A q \in Proxies : Len(wire[q]) \in Nat
    BY <1>1
  <1>4. CASE wire' = wire
    BY <1>1, <1>4 DEF WInv, Left, NoneTwice
  <1>5. CASE wire' = [wire EXCEPT ![p] = Append(@, m)]
    <2>1. \A q \in Proxies : q # p => wire'[q] = wire[q]
      BY <1>1, <1>5
    <2>2. /\ Len(wire'[p]) = Len(wire[p]) + 1
          /\ wire'[p][Len(wire[p]) + 1] = m
          /\ \A j \in 1 .. Len(wire[p]) : wire'[p][j] = wire[p][j]
      BY <1>1, <1>5
    \* An entry of a wire is an old one, or the one that was written.
    <2>3. \A q \in Proxies : \A j \in 1 .. Len(wire'[q]) :
            \/ j \in 1 .. Len(wire[q]) /\ wire'[q][j] = wire[q][j]
            \/ q = p /\ j = Len(wire[p]) + 1 /\ wire'[q][j] = m
      BY <1>3, <2>1, <2>2
    <2>4. Left'
      <3>1. seq' = seq /\ \A r \in Proxies :
              sender'[r] # Nothing => r # p /\ sender'[r] = sender[r]
        BY <1>1
      <3>2. ASSUME NEW q \in Proxies, NEW j \in 1 .. Len(wire'[q])
            PROVE  /\ wire'[q][j].seq < seq'[wire'[q][j].from]
                   /\ \A r \in Proxies : sender'[r] # Nothing =>
                          ~ Same(wire'[q][j], sender'[r])
        <4>1. CASE j \in 1 .. Len(wire[q]) /\ wire'[q][j] = wire[q][j]
          BY <3>1, <4>1 DEF WInv, Left
        <4>2. CASE wire'[q][j] = m
          BY <1>2, <3>1, <4>2
        <4> QED
          BY <2>3, <4>1, <4>2
      <3> QED
        BY <3>2 DEF Left
    <2>5. NoneTwice'
      <3>1. \A n : Same(m, n) <=> Same(n, m)
        BY DEF Same
      <3> QED
        BY <1>2, <2>3, <3>1 DEF WInv, NoneTwice
    <2> QED
      BY <2>4, <2>5
  <1>6. wire' = wire \/ wire' = [wire EXCEPT ![p] = Append(@, m)]
    BY DEF SendJob, Write, WriteFails, m
  <1> QED
    BY <1>4, <1>5, <1>6

LEMMA NextOnce == WInv /\ [Next]_vars => WInv'
  <1> SUFFICES ASSUME WInv, [Next]_vars PROVE Left' /\ NoneTwice'
    BY NextDistinct DEF WInv
  <1>1. CASE UNCHANGED <<seq, sender, wire>>
    BY <1>1 DEF WInv, Left, NoneTwice, Same
  <1> QED
    BY <1>1, SendOnce, WriteOnce, OtherSteps DEF Next

\* Whatever is started, stopped, blocked or fails to be written, no batch
\* leaves towards the diode twice, by no two proxies and not by one
\* (engine/groups.go, engine/diodeproxy.go).
THEOREM SentOnce == Spec => []NoneTwice
  <1>1. WInv => NoneTwice
    BY DEF WInv
  <1> QED
    BY InitOnce, NextOnce, <1>1, PTL DEF Spec

\* So the abstract promise holds of what the code sends: a batch is on its
\* way or has arrived, not both, and its number was given out.
THEOREM Promised == Spec => []Diode!AtMostOnce
  <1>1. ASSUME WInv
        PROVE  Diode!AtMostOnce
    <2>1. ASSUME NEW e \in Arrived
          PROVE  e \notin Flight /\ e[2] < seq[e[1]]
      <3>1. PICK p \in Proxies : e \in {<<m.from, m.seq>> : m \in Entries(wire[p])}
        BY <2>1 DEF Arrived
      <3>2. PICK i \in 1 .. Len(wire[p]) : e = <<wire[p][i].from, wire[p][i].seq>>
        BY <3>1 DEF Entries
      <3>3. /\ wire[p][i].seq < seq[wire[p][i].from]
            /\ \A q \in Proxies : sender[q] # Nothing =>
                   ~ Same(wire[p][i], sender[q])
        BY <1>1 DEF WInv, Left
      <3>4. e \notin Flight
        BY <3>2, <3>3 DEF Flight, Same
      <3> QED
        BY <3>2, <3>3, <3>4
    <2>2. ASSUME NEW e \in Flight
          PROVE  e[2] < seq[e[1]]
      <3>1. PICK p \in Proxies : /\ sender[p] # Nothing
                                 /\ e = <<sender[p].from, sender[p].seq>>
        BY <2>2 DEF Flight
      <3> QED
        BY <1>1, <3>1 DEF WInv, RInv, Distinct
    <2> QED
      BY <2>1, <2>2 DEF Diode!AtMostOnce
  <1> QED
    BY InitOnce, NextOnce, <1>1, PTL DEF Spec
=============================================================================
