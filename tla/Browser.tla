------------------------------- MODULE Browser -------------------------------
(***************************************************************************)
(* Browsing the tags of an OPC server (engine/server.go, routes/opc.go     *)
(* 44-197).  A server has one cursor, made for the first request; every    *)
(* request moves it and lists what is there, under the one mutex of the    *)
(* engine.  The look whether there is a cursor, and the reading of it for  *)
(* the caller, are outside the mutex.                                      *)
(*                                                                         *)
(* A panic in a request is recovered by handlePanic, which does not        *)
(* unlock; one in GetBrowser is recovered there, and GetBrowser then       *)
(* returns no cursor and no error.                                         *)
(*                                                                         *)
(* Abstracted: what is listed is the branch the cursor is at.  A call of   *)
(* the OPC library may fail or panic where a constant allows it, and       *)
(* panics when it is given no cursor.                                      *)
(***************************************************************************)
EXTENDS Naturals

CONSTANTS
    Servers,     \* servers that InitServers has found
    Branches,    \* branches of their tags, home among them
    Home,        \* the branch MoveCursorHome moves to
    Requests,    \* requests, each is made once
    MaxCursors,  \* cursors that can be made: a bound
    MayFail,     \* whether CreateBrowserCursor may fail
    MayPanic,    \* whether a call of the library may panic
    Nil         \* nobody, no cursor, no branch

Cursors == 1 .. MaxCursors

ASSUME HomeAssumption == Home \in Branches
ASSUME BoundsAssumption == MaxCursors \in Nat /\ MayFail \in BOOLEAN /\ MayPanic \in BOOLEAN
ASSUME NilAssumption == Nil \notin Branches \cup Requests \cup Cursors

VARIABLES
    cursor,    \* Server.Cursor
    made,      \* how many cursors there are
    position,  \* the branch each cursor is at
    lock,     \* the request that holds it
    at,        \* where each request is
    server,    \* the server of each request
    branch,    \* the branch it moves to, or Nil for GetServerPosition
    browser,   \* the cursor GetBrowser has returned
    answer     \* what it has listed

cursors == <<cursor, made, position>>
browserVars == <<cursors, lock, at, server, branch, browser, answer>>

PC == {"new", "look", "create", "made", "return", "lock", "move", "list", "unlock",
       "answered", "refused", "panicked"}

BrowserTypeOK ==
    /\ cursor \in [Servers -> Cursors \cup {Nil}]
    /\ made \in 0 .. MaxCursors
    /\ position \in [Cursors -> Branches]
    /\ lock \in Requests \cup {Nil}
    /\ at \in [Requests -> PC]
    /\ server \in [Requests -> Servers]
    /\ branch \in [Requests -> Branches \cup {Nil}]
    /\ browser \in [Requests -> Cursors \cup {Nil}]
    /\ answer \in [Requests -> Branches \cup {Nil}]
    /\ \A s \in Servers : cursor[s] # Nil => cursor[s] <= made
    /\ \A r \in Requests : at[r] \in {"made", "move", "list", "unlock"} => lock = r

BrowserInit ==
    /\ cursor = [s \in Servers |-> Nil] /\ made = 0
    /\ position = [c \in Cursors |-> Home]
    /\ lock = Nil
    /\ at = [r \in Requests |-> "new"]
    /\ server \in [Requests -> Servers]
    /\ branch \in [Requests -> Branches \cup {Nil}]
    /\ browser = [r \in Requests |-> Nil]
    /\ answer = [r \in Requests |-> Nil]

Proceed(r, l) == at' = [at EXCEPT ![r] = l]

Request(r) ==
    /\ at[r] = "new"
    /\ Proceed(r, "look")
    /\ UNCHANGED <<cursors, lock, server, branch, browser, answer>>

(***************************************************************************)
(* GetBrowser.                                                             *)
(***************************************************************************)
Look(r) ==
    /\ at[r] = "look"
    /\ Proceed(r, IF cursor[server[r]] = Nil THEN "create" ELSE "return")
    /\ UNCHANGED <<cursors, lock, server, branch, browser, answer>>

LockToCreate(r) ==
    /\ at[r] = "create" /\ lock = Nil
    /\ lock' = r
    /\ Proceed(r, "made")
    /\ UNCHANGED <<cursors, server, branch, browser, answer>>

\* CreateBrowserCursor and the unlocking: an error leaves no cursor and the
\* request is refused.
Create(r) ==
    /\ at[r] = "made"
    /\ \/ /\ made < MaxCursors
          /\ made' = made + 1
          /\ cursor' = [cursor EXCEPT ![server[r]] = made']
          /\ Proceed(r, "return")
       \/ /\ MayFail
          /\ cursor' = [cursor EXCEPT ![server[r]] = Nil]
          /\ Proceed(r, "refused")
          /\ UNCHANGED made
    /\ lock' = Nil
    /\ UNCHANGED <<position, server, branch, browser, answer>>

\* The recovered panic of CreateBrowserCursor: the mutex stays locked.
CreatePanics(r) ==
    /\ at[r] = "made" /\ MayPanic
    /\ Proceed(r, "lock")
    /\ UNCHANGED <<cursors, lock, server, branch, browser, answer>>

\* Mutation: GetBrowser calls itself when it has made a cursor.
ReturnLooksAgain(r) ==
    /\ at[r] = "return"
    /\ Proceed(r, "look")
    /\ UNCHANGED <<cursors, lock, server, branch, browser, answer>>

Return(r) ==
    /\ at[r] = "return"
    /\ browser' = [browser EXCEPT ![r] = cursor[server[r]]]
    /\ Proceed(r, "lock")
    /\ UNCHANGED <<cursors, lock, server, branch, answer>>

(***************************************************************************)
(* The routes: lock, move, list, unlock.                                   *)
(***************************************************************************)
\* Mutation: the cursor is moved before the mutex is taken.
LockAfterMove(r) ==
    /\ at[r] = "lock"
    /\ \/ /\ branch[r] # Nil /\ browser[r] # Nil
          /\ position[browser[r]] # branch[r]
          /\ position' = [position EXCEPT ![browser[r]] = branch[r]]
          /\ UNCHANGED <<lock, at>>
       \/ /\ lock = Nil
          /\ lock' = r
          /\ Proceed(r, "list")
          /\ UNCHANGED position
    /\ UNCHANGED <<cursor, made, server, branch, browser, answer>>

Lock(r) ==
    /\ at[r] = "lock" /\ lock = Nil
    /\ lock' = r
    /\ Proceed(r, IF branch[r] = Nil THEN "list" ELSE "move")
    /\ UNCHANGED <<cursors, server, branch, browser, answer>>

MoveCursor(r) ==
    /\ at[r] = "move" /\ browser[r] # Nil
    /\ position' = [position EXCEPT ![browser[r]] = branch[r]]
    /\ Proceed(r, "list")
    /\ UNCHANGED <<cursor, made, lock, server, branch, browser, answer>>

CursorList(r) ==
    /\ at[r] = "list" /\ browser[r] # Nil
    /\ answer' = [answer EXCEPT ![r] = position[browser[r]]]
    /\ Proceed(r, "unlock")
    /\ UNCHANGED <<cursors, lock, server, branch, browser>>

\* handlePanic of the routes: the answer is 500, and the mutex stays locked.
handlePanic(r) ==
    /\ at[r] \in {"move", "list"}
    /\ MayPanic \/ browser[r] = Nil
    /\ Proceed(r, "panicked")
    /\ UNCHANGED <<cursors, lock, server, branch, browser, answer>>

\* Mutation: the mutex is not unlocked where there is nothing to move to.
UnlockUnlessPosition(r) ==
    /\ at[r] = "unlock"
    /\ lock' = IF branch[r] = Nil THEN lock ELSE Nil
    /\ Proceed(r, "answered")
    /\ UNCHANGED <<cursors, server, branch, browser, answer>>

Unlock(r) ==
    /\ at[r] = "unlock"
    /\ lock' = Nil
    /\ Proceed(r, "answered")
    /\ UNCHANGED <<cursors, server, branch, browser, answer>>

Step(r) ==
    \/ Look(r) \/ LockToCreate(r) \/ Create(r) \/ CreatePanics(r) \/ Return(r)
    \/ Lock(r) \/ MoveCursor(r) \/ CursorList(r) \/ handlePanic(r) \/ Unlock(r)

BrowserNext == \E r \in Requests : Request(r) \/ Step(r)

BrowserSpec == BrowserInit /\ [][BrowserNext]_browserVars

\* A request that has begun goes on.  Each is made once, so no request can
\* starve another, and weak fairness is enough.
BrowserFairSpec == BrowserSpec /\ \A r \in Requests : WF_browserVars(Step(r))
-----------------------------------------------------------------------------
(***************************************************************************)
(* Properties.                                                             *)
(***************************************************************************)
\* A request is answered with the branch it has asked for, although every
\* request moves the same cursor.
ListsItsBranch ==
    \A r \in Requests : at[r] \in {"unlock", "answered"} /\ branch[r] # Nil =>
        answer[r] = branch[r]

\* The mutex is held by a request that works under it, or by one that has
\* panicked there: no other way through a handler, refused or answered, leaves
\* it locked.  A request whose CreateBrowserCursor has panicked goes on to lock
\* what it holds itself.  The panic may also be the code's own: of two requests
\* that make a cursor the one that fails removes the other's (server.go:91),
\* which then has none to use, and handlePanic does not unlock (opc.go:48).
Working(r) == at[r] \in {"made", "move", "list", "unlock"}
Lost == lock # Nil /\ at[lock] \in {"panicked", "lock"}

LockedAtWork == lock # Nil => Working(lock) \/ Lost

\* A request that has begun is answered or refused, also when several of them
\* make the cursor of a server at once and one fails, unless a panic has left
\* the mutex locked.
EveryRequestIsAnswered ==
    \A r \in Requests :
        at[r] = "look" ~> at[r] \in {"answered", "refused", "panicked"} \/ Lost
=============================================================================
