------------------------------ MODULE DataPath ------------------------------
(***************************************************************************)
(* The way of a value from a sample to the diode and to the cache          *)
(* (engine/groups.go 106-145, engine/diodeproxy.go, cacheMessage and       *)
(* processMessages of engine/cache.go), and the order in which runEngine   *)
(* (main.go) makes its parts ready.                                        *)
(*                                                                         *)
(* A collector fills the points of its one message.  When the last point   *)
(* is set it marshals the message, hands the bytes to the sendJob of the   *)
(* first proxy over an unbuffered channel, counts the sequence up and only *)
(* then hands the message to processMessages over another one.  What       *)
(* crosses that one is a copy of the struct: the sequence is copied, the   *)
(* slice of points is the collector's own, which it goes on to fill while  *)
(* processMessages marshals it: nothing orders the one and the other.      *)
(*                                                                         *)
(* Abstracted: a word of a point is the ordinal of its value among those   *)
(* its collector has read; values that cannot be marshalled are left out,  *)
(* as is what NotifySubscribers does; a group's row and the connection to  *)
(* the OPC server are in GroupLifecycle, so here a collector may stop at   *)
(* every interval; how the cache names and closes its files is left out.   *)
(***************************************************************************)
EXTENDS Naturals, Sequences, FiniteSets

CONSTANTS
    Collectors,   \* goroutines of groupDataCollector, each lives once
    AutoStart,    \* those that InitGroups starts (RunAtStart)
    Proxies,      \* rows of diode_proxies when the service starts
    BatchSize,    \* msg.Count: 10 in the code
    PointSize,    \* the words of a DataPoint; a string or an interface is two
    MaxItems,     \* values one read returns at most: a bound
    MaxPoints,    \* values each collector reads in its life: a bound
    DialMayFail,  \* whether net.Dial may fail for a proxy
    Nothing       \* no message

ASSUME BatchSizeAssumption == BatchSize \in Nat \ {0}
ASSUME PointSizeAssumption == PointSize \in Nat \ {0}
ASSUME AutoStartAssumption == AutoStart \subseteq Collectors
ASSUME BoundsAssumption == MaxItems \in Nat /\ MaxPoints \in [Collectors -> Nat]
ASSUME DialAssumption == DialMayFail \in BOOLEAN

Slots == 1 .. BatchSize
Words == 1 .. PointSize
Cells == Slots \X Words
Points == [Slots -> [Words -> Nat]]
Blank == [i \in Slots |-> [w \in Words |-> 0]]
Message == [from : Collectors, seq : Nat, points : Points]
Handed == [from : Collectors, seq : Nat]   \* to the cache, without the points

ASSUME NothingAssumption == Nothing \notin Message /\ Nothing \notin Handed

VARIABLES
    phase,    \* runEngine: "proxies", "cache" (InitServers, InitCache), "web"
    opened,   \* the proxies that initProxy has put into the map
    dead,     \* those of them whose data channel is nil
    pc,       \* where each collector is
    left,     \* the values of the present sample it has still to store
    b,        \* the slot it fills next
    stored,   \* the words of that slot which have the next value
    seq,      \* msg.Sequence
    points,   \* msg.Points
    count,    \* how many values it has read: the ordinal of the last one
    data,     \* the bytes it is handing over
    via,      \* the proxy it is handing them to
    sender,   \* the bytes each proxy's sendJob is writing
    wire,     \* what each proxy's socket has accepted
    writer,   \* what processMessages has received and not yet written
    unread,   \* the words of its points that it has still to marshal
    copy,     \* the others, as they were when it came to them
    cached    \* what processMessages has written of each collector

procVars == <<pc, left, b, stored, seq, points, count, data, via>>
cacheVars == <<writer, unread, copy, cached>>
vars == <<phase, opened, dead, procVars, sender, wire, cacheVars>>

PC == {"new", "check", "fill", "send", "notify", "cache", "stuck", "done"}

TypeOK ==
    /\ phase \in {"proxies", "cache", "web"}
    /\ opened \subseteq Proxies /\ dead \subseteq opened
    /\ pc \in [Collectors -> PC]
    /\ left \in [Collectors -> Nat]
    /\ b \in [Collectors -> Slots]
    /\ stored \in [Collectors -> SUBSET Words]
    /\ seq \in [Collectors -> Nat]
    /\ points \in [Collectors -> Points]
    /\ count \in [Collectors -> Nat]
    /\ data \in [Collectors -> Message \cup {Nothing}]
    /\ via \in [Collectors -> Proxies \cup {Nothing}]
    /\ sender \in [Proxies -> Message \cup {Nothing}]
    /\ wire \in [Proxies -> Seq(Message)]
    /\ writer \in Handed \cup {Nothing}
    /\ unread \subseteq Cells /\ copy \in Points
    /\ cached \in [Collectors -> Seq([seq : Nat, points : Points])]

Init ==
    /\ phase = "proxies" /\ opened = {} /\ dead = {}
    /\ pc = [c \in Collectors |-> "new"]
    /\ left = [c \in Collectors |-> 0]
    /\ b = [c \in Collectors |-> 1]
    /\ stored = [c \in Collectors |-> {}]
    /\ seq = [c \in Collectors |-> 0]
    /\ points = [c \in Collectors |-> Blank]
    /\ count = [c \in Collectors |-> 0]
    /\ data = [c \in Collectors |-> Nothing]
    /\ via = [c \in Collectors |-> Nothing]
    /\ sender = [p \in Proxies |-> Nothing]
    /\ wire = [p \in Proxies |-> <<>>]
    /\ writer = Nothing /\ unread = {} /\ copy = Blank
    /\ cached = [c \in Collectors |-> <<>>]

Goto(c, l) == pc' = [pc EXCEPT ![c] = l]

(***************************************************************************)
(* runEngine: InitGroups starts the autostart groups first and then the    *)
(* proxies; InitServers looks for OPC servers; InitCache makes the channel *)
(* of the cache; the web server, and with it every manual start, is last.  *)
(***************************************************************************)
InitProxy(p) ==
    /\ phase = "proxies"
    /\ p \notin opened
    /\ opened' = opened \cup {p}
    /\ dead' \in {dead} \cup (IF DialMayFail THEN {dead \cup {p}} ELSE {})
    /\ UNCHANGED <<phase, procVars, sender, wire, cacheVars>>

InitServers ==
    /\ phase = "proxies"
    /\ opened = Proxies
    /\ phase' = "cache"
    /\ UNCHANGED <<opened, dead, procVars, sender, wire, cacheVars>>

InitCache ==
    /\ phase = "cache"
    /\ phase' = "web"
    /\ UNCHANGED <<opened, dead, procVars, sender, wire, cacheVars>>

(***************************************************************************)
(* groupDataCollector, from the moment its first read is done.             *)
(***************************************************************************)
Begin(c) ==
    /\ pc[c] = "new"
    /\ c \in AutoStart \/ phase = "web"
    /\ Goto(c, "check")
    /\ UNCHANGED <<phase, opened, dead, left, b, stored, seq, points, count, data, via,
                   sender, wire, cacheVars>>

\* Stopped between two samples, whatever the batch holds by then.
Stop(c) ==
    /\ pc[c] = "check"
    /\ Goto(c, "done")
    /\ UNCHANGED <<phase, opened, dead, left, b, stored, seq, points, count, data, via,
                   sender, wire, cacheVars>>

\* A read that panics is recovered and returns no items.
Read(c) ==
    /\ pc[c] = "check"
    /\ \E k \in 0 .. MaxItems :
          /\ count[c] + k <= MaxPoints[c]
          /\ left' = [left EXCEPT ![c] = k]
    /\ Goto(c, "fill")
    /\ UNCHANGED <<phase, opened, dead, b, stored, seq, points, count, data, via,
                   sender, wire, cacheVars>>

\* The ticker: the sample is stored, the next one is due.
Tick(c) ==
    /\ pc[c] = "fill"
    /\ left[c] = 0
    /\ Goto(c, "check")
    /\ UNCHANGED <<phase, opened, dead, left, b, stored, seq, points, count, data, via,
                   sender, wire, cacheVars>>

\* One of the assignments of the next value to slot b.  They follow one another
\* in the source, but the compiler may order them as it likes.
Assign(c) ==
    /\ pc[c] = "fill"
    /\ left[c] > 0
    /\ \E w \in Words \ stored[c] :
          /\ points' = [points EXCEPT ![c][b[c]][w] = count[c] + 1]
          /\ stored' = [stored EXCEPT ![c] = @ \cup {w}]
    /\ UNCHANGED <<phase, opened, dead, pc, left, b, seq, count, data, via,
                   sender, wire, cacheVars>>

\* The whole value is in slot b.
Store(c) ==
    /\ pc[c] = "fill"
    /\ left[c] > 0
    /\ stored[c] = Words
    /\ stored' = [stored EXCEPT ![c] = {}]
    /\ left' = [left EXCEPT ![c] = @ - 1]
    /\ count' = [count EXCEPT ![c] = @ + 1]

Fill(c) ==
    /\ Store(c)
    /\ b[c] < BatchSize
    /\ b' = [b EXCEPT ![c] = @ + 1]
    /\ UNCHANGED <<phase, opened, dead, pc, seq, points, data, via,
                   sender, wire, cacheVars>>

\* The last slot without a proxy: the batch stays full, and the next value
\* goes into the same slot.
FillWithoutProxy(c) ==
    /\ Store(c)
    /\ b[c] = BatchSize
    /\ opened = {}
    /\ UNCHANGED <<phase, opened, dead, pc, b, seq, points, data, via,
                   sender, wire, cacheVars>>

\* The last slot: the message is marshalled, for any proxy of the map.
FillLast(c) ==
    /\ Store(c)
    /\ b[c] = BatchSize
    /\ data' = [data EXCEPT ![c] =
                  [from |-> c, seq |-> seq[c], points |-> points[c]]]
    /\ \E p \in opened : via' = [via EXCEPT ![c] = p]
    /\ Goto(c, "send")
    /\ UNCHANGED <<phase, opened, dead, b, seq, points, sender, wire, cacheVars>>

\* proxy.DataChan <- data, when its sendJob is ready to receive; a nil
\* channel never is.  This is the hand-over without what it does to slot and
\* sequence.
HandOver(c) ==
    /\ pc[c] = "send"
    /\ via[c] \notin dead
    /\ sender[via[c]] = Nothing
    /\ sender' = [sender EXCEPT ![via[c]] = data[c]]
    /\ data' = [data EXCEPT ![c] = Nothing]
    /\ via' = [via EXCEPT ![c] = Nothing]
    /\ Goto(c, "notify")
    /\ UNCHANGED <<phase, opened, dead, left, stored, points, count, wire, cacheVars>>

\* Mutant: the slot is not set back.
SendKeepsSlot(c) ==
    HandOver(c) /\ seq' = [seq EXCEPT ![c] = @ + 1] /\ UNCHANGED b

Send(c) ==
    /\ HandOver(c)
    /\ b' = [b EXCEPT ![c] = 1]
    /\ seq' = [seq EXCEPT ![c] = @ + 1]

\* After NotifySubscribers cacheMessage evaluates its channel: if InitCache has
\* not made it, the send blocks for good.
Notify(c) ==
    /\ pc[c] = "notify"
    /\ Goto(c, IF phase = "web" THEN "cache" ELSE "stuck")
    /\ UNCHANGED <<phase, opened, dead, left, b, stored, seq, points, count, data, via,
                   sender, wire, cacheVars>>

\* Mutant: a message that the cache is not ready for is skipped.
CacheMessageDrops(c) ==
    /\ pc[c] = "cache"
    /\ IF writer = Nothing
       THEN writer' = [from |-> c, seq |-> seq[c]] /\ unread' = Cells
       ELSE UNCHANGED <<writer, unread>>
    /\ Goto(c, "fill")
    /\ UNCHANGED <<phase, opened, dead, left, b, stored, seq, points, count, data, via,
                   sender, wire, copy, cached>>

\* channel <- *msg
CacheMessage(c) ==
    /\ pc[c] = "cache"
    /\ writer = Nothing
    /\ writer' = [from |-> c, seq |-> seq[c]]
    /\ unread' = Cells
    /\ Goto(c, "fill")
    /\ UNCHANGED <<phase, opened, dead, left, b, stored, seq, points, count, data, via,
                   sender, wire, copy, cached>>

(***************************************************************************)
(* sendJob.  A write that fails is logged, and the data is gone.           *)
(***************************************************************************)
\* Mutant: after an error the bytes, which may have left, are sent again.
WriteRetries(p) ==
    /\ sender[p] # Nothing
    /\ wire' = [wire EXCEPT ![p] = Append(@, sender[p])]
    /\ UNCHANGED <<phase, opened, dead, procVars, sender, cacheVars>>

\* Mutant: the goroutine returns on the first error.
WriteFailsForGood(p) ==
    /\ sender[p] # Nothing
    /\ sender' = [sender EXCEPT ![p] = Nothing]
    /\ dead' = dead \cup {p}
    /\ UNCHANGED <<phase, opened, procVars, wire, cacheVars>>

Write(p) ==
    /\ sender[p] # Nothing
    /\ sender' = [sender EXCEPT ![p] = Nothing]
    /\ wire' = [wire EXCEPT ![p] = Append(@, sender[p])]
    /\ UNCHANGED <<phase, opened, dead, procVars, cacheVars>>

WriteFails(p) ==
    /\ sender[p] # Nothing
    /\ sender' = [sender EXCEPT ![p] = Nothing]
    /\ UNCHANGED <<phase, opened, dead, procVars, wire, cacheVars>>

(***************************************************************************)
(* processMessages marshals what its copy of the message points to: the    *)
(* collector's points, one after the other and each word of them as it is  *)
(* when it comes to it.  Then it writes.                                   *)
(***************************************************************************)
Marshal ==
    /\ \E cell \in unread :
          /\ \A other \in unread :
                cell[1] < other[1] \/ (cell[1] = other[1] /\ cell[2] <= other[2])
          /\ copy' = [copy EXCEPT ![cell[1]][cell[2]] =
                         points[writer.from][cell[1]][cell[2]]]
          /\ unread' = unread \ {cell}
    /\ UNCHANGED <<phase, opened, dead, procVars, sender, wire, writer, cached>>

ProcessMessage ==
    /\ writer # Nothing /\ unread = {}
    /\ cached' = [cached EXCEPT ![writer.from] =
                    Append(@, [seq |-> writer.seq, points |-> copy])]
    /\ writer' = Nothing /\ copy' = Blank
    /\ UNCHANGED <<phase, opened, dead, procVars, sender, wire, unread>>

-----------------------------------------------------------------------------
RunEngine == (\E p \in Proxies : InitProxy(p)) \/ InitServers \/ InitCache

\* The steps that wait for nobody but the OPC server.
Collect(c) ==
    Read(c) \/ Tick(c) \/ Assign(c) \/ Fill(c) \/ FillWithoutProxy(c) \/ FillLast(c)
    \/ Notify(c)

SendJob(p) == Write(p) \/ WriteFails(p)

Next ==
    \/ RunEngine
    \/ \E c \in Collectors :
          Begin(c) \/ Stop(c) \/ Collect(c) \/ Send(c) \/ CacheMessage(c)
    \/ \E p \in Proxies : SendJob(p)
    \/ Marshal \/ ProcessMessage

Spec == Init /\ [][Next]_vars

\* Goroutines that can go on do.  The senders that wait on a channel are
\* served in the order of their arrival, so a hand-over that is possible
\* again and again happens.
Fairness ==
    /\ WF_vars(RunEngine)
    /\ \A c \in Collectors :
          WF_vars(Collect(c)) /\ SF_vars(Send(c)) /\ SF_vars(CacheMessage(c))
    /\ \A p \in Proxies : WF_vars(SendJob(p))
    /\ WF_vars(Marshal \/ ProcessMessage)

FairSpec == Spec /\ Fairness

-----------------------------------------------------------------------------
(***************************************************************************)
(* Properties.                                                             *)
(***************************************************************************)
Manual == Collectors \ AutoStart

Entries(s) == {s[i] : i \in 1 .. Len(s)}
OnTheWay(p) == Entries(wire[p]) \cup ({sender[p]} \ {Nothing})
Emitted == UNION {OnTheWay(p) : p \in Proxies}

\* The batches of a collector cut its values into pieces of BatchSize: batch n
\* holds the values n * BatchSize + 1 to (n + 1) * BatchSize, whichever
\* samples they came from; none is skipped or sent twice.  Of a collector
\* that InitGroups starts it is not true: until there is a proxy the last
\* slot of its batch is overwritten.
BatchesAreContiguous ==
    \A m \in Emitted : m.from \in Manual =>
        \A i \in Slots, w \in Words : m.points[i][w] = m.seq * BatchSize + i

\* The cache gets every batch a collector has handed to a proxy, once and in
\* order, also while several collectors wait for it (types.DataMessage counts
\* from 1 there: the sequence is counted up before cacheMessage).
Waiting(c) == IF pc[c] \in {"notify", "cache", "stuck"} THEN 1 ELSE 0
Pending(c) == IF writer # Nothing /\ writer.from = c THEN 1 ELSE 0

CacheKeepsEveryBatch ==
    \A c \in Collectors :
        /\ \A k \in 1 .. Len(cached[c]) : cached[c][k].seq = k
        /\ Len(cached[c]) + Pending(c) + Waiting(c) = seq[c]

\* The k-th message in the cache holds, word by word, the value it was handed
\* over with or the one of the next batch, and no later one, although nothing
\* orders the collector's assignments (groups.go:117) and json.Marshal
\* (cache.go:212): the collector that overwrites the points has to hand its next
\* batch to the cache.  A point may mix two values, a string its old length
\* and its new bytes.
CacheLagsOneBatch ==
    \A c \in Manual : \A k \in 1 .. Len(cached[c]) : \A i \in Slots, w \in Words :
        cached[c][k].points[i][w] \in {(k - 1) * BatchSize + i, k * BatchSize + i}

\* Not run, TLC refutes it: what the cache has in a slot is one point.
NoPointIsTorn ==
    \A c \in Collectors : \A e \in Entries(cached[c]) : \A i \in Slots :
        \A w, v \in Words : e.points[i][w] = e.points[i][v]

\* Not run, TLC refutes it: "This feature stores messages already sent through
\* a diode [...] in the event it has to be resent" (USERINTERFACE.md): a
\* message in the cache is the message that was sent with its sequence.
CachedAsSent ==
    \A c \in Collectors : \A e \in Entries(cached[c]) : \A m \in Emitted :
        m.from = c /\ m.seq = e.seq => m.points = e.points

\* Not run, TLC refutes it: "Start automatically", a collector started with the
\* service collects.
NoneStuck == \A c \in Collectors : pc[c] # "stuck"

\* A collector that hands a batch to a proxy that could be dialled, or to the
\* cache, gets through, however many others wait for the same one and whatever
\* becomes of their collectors' proxies.
HandOverReturns ==
    \A c \in Manual :
        (pc[c] = "send" /\ via[c] \notin dead) \/ pc[c] = "cache" ~> pc[c] = "fill"

\* The batches as datagrams: at most once, numbered without gaps.
Arrived == UNION {{<<m.from, m.seq>> : m \in Entries(wire[p])} : p \in Proxies}
Flight == {<<sender[p].from, sender[p].seq>> :
              p \in {q \in Proxies : sender[q] # Nothing}}

Diode == INSTANCE Datagrams
            WITH Sources <- Collectors, count <- seq,
                 flight <- Flight, arrived <- Arrived

SendsDatagrams == Diode!Spec

=============================================================================
