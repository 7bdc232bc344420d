----------------------------- MODULE Subscribers -----------------------------
(***************************************************************************)
(* The websockets a browser listens on (logger/websockets.go, the /ws      *)
(* route of web/server.go).                                                *)
(*                                                                         *)
(* The handler of a connection appends its Conn object to the slice ws and *)
(* then only waits for the object's connection to become nil.  A           *)
(* notification, which any goroutine may make, writes to every object of   *)
(* ws, collects the indices of those that failed and then removes these,   *)
(* from the last to the first, each by putting the last object of ws in    *)
(* its place.  The objects come from a pool to which the handler returns   *)
(* its own, possibly before the removal is complete.                       *)
(*                                                                         *)
(* Abstracted: what is written, but for whether it can be marshalled.  A   *)
(* connection whose browser has gone takes one more write before writes    *)
(* fail.  A write does not block: what a browser that does not read does   *)
(* to a notification is not modelled.                                      *)
(***************************************************************************)
EXTENDS Naturals, Sequences, FiniteSets

CONSTANTS
    Connections,  \* websocket connections, each is made once
    Objects,      \* objects of the pool
    Notifiers,    \* goroutines that call NotifySubscribers
    None          \* nobody, no connection

ASSUME NoneAssumption == None \notin Connections \cup Objects \cup Notifiers

VARIABLES
    ws,        \* the slice of objects
    dropList,  \* indices of ws at which a write has failed
    conn,      \* the connection in each object, or None
    obj,       \* the object of each connection, or None
    peer,      \* each browser: "new", "live", "gone", "reset", "closed"
    handler,   \* each handler: "new", "register", "wait", "done"
    mutex,     \* the notifier that holds wsMutex; a registration is one step
    fit,       \* whether its message can be marshalled
    pc,        \* each notifier: "idle", "write", "close", "remove"
    i,         \* the index of ws it writes to
    d          \* how many indices of dropList it has dropped

slots == <<ws, dropList, i, d>>
vars == <<slots, conn, obj, peer, handler, mutex, fit, pc>>

TypeOK ==
    /\ ws \in Seq(Objects)
    /\ dropList \in Seq(Nat)
    /\ conn \in [Objects -> Connections \cup {None}]
    /\ obj \in [Connections -> Objects \cup {None}]
    /\ peer \in [Connections -> {"new", "live", "gone", "reset", "closed"}]
    /\ handler \in [Connections -> {"new", "register", "wait", "done"}]
    /\ mutex \in Notifiers \cup {None}
    /\ fit \in BOOLEAN
    /\ pc \in [Notifiers -> {"idle", "write", "close", "remove"}]
    /\ \A n \in Notifiers : pc[n] # "idle" <=> mutex = n
    /\ i \in Nat /\ d \in Nat

Init ==
    /\ ws = <<>> /\ dropList = <<>> /\ i = 1 /\ d = 0
    /\ conn = [o \in Objects |-> None]
    /\ obj = [c \in Connections |-> None]
    /\ peer = [c \in Connections |-> "new"]
    /\ handler = [c \in Connections |-> "new"]
    /\ mutex = None /\ fit = TRUE
    /\ pc = [n \in Notifiers |-> "idle"]

Goto(n, l) == pc' = [pc EXCEPT ![n] = l]

(***************************************************************************)
(* A connection: the library takes an object from its pool, sets its       *)
(* connection and calls the handler; when the handler returns, it clears   *)
(* the object and puts it back.                                            *)
(***************************************************************************)
InPool(o) == \A c \in Connections : obj[c] = o => handler[c] = "done"

Connect(c) ==
    /\ handler[c] = "new"
    /\ \E o \in Objects :
          /\ InPool(o)
          /\ conn' = [conn EXCEPT ![o] = c]
          /\ obj' = [obj EXCEPT ![c] = o]
    /\ peer' = [peer EXCEPT ![c] = "live"]
    /\ handler' = [handler EXCEPT ![c] = "register"]
    /\ UNCHANGED <<slots, mutex, fit, pc>>

\* Under wsMutex; the error of the first write is not looked at.
RegisterWebsocket(c) ==
    /\ handler[c] = "register"
    /\ mutex = None
    /\ ws' = Append(ws, obj[c])
    /\ handler' = [handler EXCEPT ![c] = "wait"]
    /\ UNCHANGED <<dropList, i, d, conn, obj, peer, mutex, fit, pc>>

BrowserLeaves(c) ==
    /\ peer[c] = "live"
    /\ peer' = [peer EXCEPT ![c] = "gone"]
    /\ UNCHANGED <<slots, conn, obj, handler, mutex, fit, pc>>

\* Mutation: the handler returns as soon as its browser has gone.
HandlerReturnsEarly(c) ==
    /\ handler[c] = "wait"
    /\ peer[c] \in {"gone", "reset", "closed"}
    /\ conn' = [conn EXCEPT ![obj[c]] = None]
    /\ handler' = [handler EXCEPT ![c] = "done"]
    /\ UNCHANGED <<slots, obj, peer, mutex, fit, pc>>

HandlerReturns(c) ==
    /\ handler[c] = "wait"
    /\ conn[obj[c]] = None
    /\ handler' = [handler EXCEPT ![c] = "done"]
    /\ UNCHANGED <<slots, conn, obj, peer, mutex, fit, pc>>

(***************************************************************************)
(* NotifySubscribers.                                                      *)
(***************************************************************************)
NotifySubscribers(n) ==
    /\ pc[n] = "idle" /\ mutex = None
    /\ mutex' = n
    /\ fit' \in BOOLEAN
    /\ dropList' = <<>>
    /\ i' = 1 /\ d' = 0
    /\ Goto(n, "write")
    /\ UNCHANGED <<ws, conn, obj, peer, handler>>

\* A write also fails, for everybody, when the message cannot be marshalled: a
\* progress in percent of a file that was empty when it was listed.
Fails(o) == ~fit \/ conn[o] = None \/ peer[conn[o]] \in {"reset", "closed"}

\* Mutation: a failed write ends the round.
WriteJSONStops(n) ==
    /\ pc[n] = "write" /\ i <= Len(ws)
    /\ i' = IF Fails(ws[i]) THEN Len(ws) + 1 ELSE i + 1
    /\ peer' = [c \in Connections |->
                   IF conn[ws[i]] = c /\ peer[c] = "gone" THEN "reset" ELSE peer[c]]
    /\ UNCHANGED <<ws, dropList, d, conn, obj, handler, mutex, fit, pc>>

WriteJSON(n) ==
    /\ pc[n] = "write" /\ i <= Len(ws)
    /\ dropList' = IF Fails(ws[i]) THEN Append(dropList, i) ELSE dropList
    /\ peer' = [c \in Connections |->
                   IF conn[ws[i]] = c /\ peer[c] = "gone" THEN "reset" ELSE peer[c]]
    /\ i' = i + 1
    /\ UNCHANGED <<ws, d, conn, obj, handler, mutex, fit, pc>>

DropSubscribers(n) ==
    /\ pc[n] = "write" /\ i > Len(ws)
    /\ Goto(n, "close")
    /\ UNCHANGED <<slots, conn, obj, peer, handler, mutex, fit>>

\* Mutation: the loop of dropSubscribers goes up.
VictimUpwards == dropList[d + 1]

\* The loop of dropSubscribers goes down.
More == d < Len(dropList)
Victim == dropList[Len(dropList) - d]

\* Where ws[k] has no connection, Close dereferences nil.
CanDrop(k) == k \in 1 .. Len(ws) /\ conn[ws[k]] # None

CloseSubscriber(n) ==
    /\ pc[n] = "close" /\ More
    /\ CanDrop(Victim)
    /\ LET o == ws[Victim]
       IN  /\ peer' = [peer EXCEPT ![conn[o]] = "closed"]
           /\ conn' = [conn EXCEPT ![o] = None]
    /\ Goto(n, "remove")
    /\ UNCHANGED <<slots, obj, handler, mutex, fit>>

\* Mutation: the last object is not moved.
RemoveSlotShort(n) ==
    /\ pc[n] = "remove"
    /\ ws' = SubSeq(ws, 1, Len(ws) - 1)
    /\ d' = d + 1
    /\ Goto(n, "close")
    /\ UNCHANGED <<dropList, i, conn, obj, peer, handler, mutex, fit>>

RemoveSlot(n) ==
    /\ pc[n] = "remove"
    /\ ws' = SubSeq([ws EXCEPT ![Victim] = ws[Len(ws)]], 1, Len(ws) - 1)
    /\ d' = d + 1
    /\ Goto(n, "close")
    /\ UNCHANGED <<dropList, i, conn, obj, peer, handler, mutex, fit>>

\* The deferred unlock.
Notified(n) ==
    /\ pc[n] = "close" /\ ~More
    /\ mutex' = None /\ fit' = TRUE
    /\ Goto(n, "idle")
    /\ UNCHANGED <<slots, conn, obj, peer, handler>>

Round(n) ==
    WriteJSON(n) \/ DropSubscribers(n) \/ CloseSubscriber(n) \/ RemoveSlot(n) \/ Notified(n)

Connection(c) == Connect(c) \/ RegisterWebsocket(c) \/ BrowserLeaves(c) \/ HandlerReturns(c)

Next ==
    \/ \E n \in Notifiers : NotifySubscribers(n) \/ Round(n)
    \/ \E c \in Connections : Connection(c)

Spec == Init /\ [][Next]_vars

\* Collectors go on notifying, a round goes on, a handler polls and Go's mutex
\* starves nobody.
FairSpec ==
    /\ Spec
    /\ WF_vars(\E n \in Notifiers : NotifySubscribers(n))
    /\ \A n \in Notifiers : WF_vars(Round(n))
    /\ \A c \in Connections : SF_vars(RegisterWebsocket(c)) /\ WF_vars(HandlerReturns(c))
-----------------------------------------------------------------------------
(***************************************************************************)
(* Properties.                                                             *)
(***************************************************************************)
\* "Assume dropList is sorted in ascending order" (websockets.go:61), and what
\* the loop needs of it: the indices still to drop are valid, and none of the
\* removals so far has moved another object there.  A browser that is there is
\* dropped by a message that cannot be marshalled only.
DropIsSafe ==
    \A n \in Notifiers : pc[n] = "close" /\ More =>
        /\ CanDrop(Victim)
        /\ fit => peer[conn[ws[Victim]]] = "reset"

\* A browser that is there and has been registered, and that nobody has dropped
\* ("closed": DropIsSafe says when), is in ws exactly once,
\* whatever is removed around it and whoever gets an object that was its
\* neighbour's.
LiveStaySubscribed ==
    \A c \in Connections : peer[c] \in {"live", "gone"} /\ handler[c] = "wait" =>
        Cardinality({k \in 1 .. Len(ws) : ws[k] = obj[c]}) = 1

\* When wsMutex is free, every object of ws has a connection of its own: one
\* that has gone back to the pool is not in ws any more.
SlotsAreOpen ==
    mutex = None =>
        /\ \A k \in 1 .. Len(ws) : conn[ws[k]] # None
        /\ \A k, l \in 1 .. Len(ws) : ws[k] = ws[l] => k = l

\* The handler of a browser that has gone returns in the end.
GoneAreReleased ==
    \A c \in Connections : peer[c] = "gone" ~> handler[c] = "done"
=============================================================================
