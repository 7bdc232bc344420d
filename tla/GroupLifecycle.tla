--------------------------- MODULE GroupLifecycle ---------------------------
(***************************************************************************)
(* The life of an OPC group: its row in the opc_groups table, the HTTP     *)
(* handlers that read and write the row (routes/opc.go, routes/data.go),   *)
(* the goroutines that collect the group's tags (engine/groups.go), and    *)
(* the start of the service, which resets every row (InitGroups).          *)
(*                                                                         *)
(* Nothing but the database serialises these actors, so an action is one   *)
(* access to the database together with what its actor computes before the *)
(* next one.  gorm's Save writes the WHOLE row the actor holds in memory,  *)
(* and inserts it when no row has its key; Updates writes single columns.  *)
(*                                                                         *)
(* Abstracted: a group's name, description, proxy, LastRun and Counter, and *)
(* the group's tags (whether it has any is a choice at each Start).        *)
(***************************************************************************)
EXTENDS Naturals, FiniteSets

CONSTANTS
    Groups,      \* the ids the database may give to a group: a bound
    Requests,    \* HTTP requests that may be in progress at once: a bound
    Collectors,  \* groupDataCollector goroutines that may be alive: a bound
    Forms,       \* the group settings an operator may submit
    Operations,  \* which handlers the operators use
    NoRow        \* the value of an id that has no row

AllOperations == {"start", "stop", "delete", "new", "update", "list"}
Control == {"start", "stop", "delete"}

NotRunning == 0
Running == 1
RunningWithWarning == 2
Status == {NotRunning, Running, RunningWithWarning}

Form == [defaultGroup : BOOLEAN, runAtStart : BOOLEAN, interval : Nat]
Row == [status : Status, defaultGroup : BOOLEAN,
        runAtStart : BOOLEAN, interval : Nat]

NoId == 0   \* the id of a group that has not been saved yet

ASSUME GroupsAssumption == Groups \subseteq Nat \ {NoId}
ASSUME FormsAssumption == Forms \subseteq Form
ASSUME OperationsAssumption == Operations \subseteq AllOperations
ASSUME NoRowAssumption == NoRow \notin Row

VARIABLES
    opc_groups,  \* the table: a row, or NoRow, for each id
    phase,       \* the service: "down", "booting" (InitGroups) or "serving"
    boot,        \* the groups InitGroups has still to reset
    req,         \* each request: where it is, and the id and row it holds
    col          \* each collector: where it is, and the id and row it holds

vars == <<opc_groups, phase, boot, req, col>>

Idle == [pc |-> "idle", id |-> NoId, row |-> NoRow]
Free == [pc |-> "free", id |-> NoId, row |-> NoRow]

RequestPC == {"idle", "start", "stop", "reset", "save", "list", "fix"}
CollectorPC == {"free", "connect", "check", "wait", "stuck"}

TypeOK ==
    /\ opc_groups \in [Groups -> Row \cup {NoRow}]
    /\ phase \in {"down", "booting", "serving"}
    /\ boot \in SUBSET Groups
    /\ req \in [Requests -> [pc : RequestPC, id : Groups \cup {NoId},
                             row : Row \cup {NoRow}]]
    /\ col \in [Collectors -> [pc : CollectorPC, id : Groups \cup {NoId},
                               row : Row \cup {NoRow}]]

(***************************************************************************)
(* The table.                                                              *)
(***************************************************************************)
Exists(g) == opc_groups[g] # NoRow
Ids == {g \in Groups : Exists(g)}
Default(g) == Exists(g) /\ opc_groups[g].defaultGroup
Defaults == {g \in Groups : Default(g)}
IsRunning(g) == Exists(g) /\ opc_groups[g].status # NotRunning

\* The rows GetGroups reads are ordered by id.
IsFirst(g, S) == g \in S /\ \A h \in S : g <= h

\* SQLite gives a new row the id that follows the largest in use.
IsNext(g) == g > NoId /\ (\A h \in Ids : h < g) /\ (g = 1 \/ g - 1 \in Ids)

\* The row of a group with status s and the settings of form f.
RowOf(s, f) == [status |-> s, defaultGroup |-> f.defaultGroup,
                runAtStart |-> f.runAtStart, interval |-> f.interval]

\* db.DB.Save: the whole row is written, or inserted.
Save(g, row) == opc_groups' = [opc_groups EXCEPT ![g] = row]

Serving(r, op) == phase = "serving" /\ op \in Operations /\ req[r].pc = "idle"

Goto(r, pc, g, row) ==
    req' = [req EXCEPT ![r] = [pc |-> pc, id |-> g, row |-> row]]

Return(r) == req' = [req EXCEPT ![r] = Idle]

\* go groupDataCollector(group, tags), with the row the caller has read.
Spawn(c, g, row) ==
    /\ col[c].pc = "free"
    /\ col' = [col EXCEPT ![c] = [pc |-> "connect", id |-> g, row |-> row]]

(***************************************************************************)
(* GET /opc/group/start/:gid.  The status that is checked is the one read  *)
(* here; the goroutine is started, or refused for want of tags, later.     *)
(***************************************************************************)
StartRequest(r, g) ==
    /\ Serving(r, "start")
    /\ Exists(g)
    /\ opc_groups[g].status = NotRunning
    /\ Goto(r, "start", g, opc_groups[g])
    /\ UNCHANGED <<opc_groups, phase, boot, col>>

\* Mutant: the group is marked as running before its collector connects.
StartMarksEarly(r) ==
    /\ req[r].pc = "start"
    /\ Return(r)
    /\ \E c \in Collectors : Spawn(c, req[r].id, req[r].row)
    /\ Save(req[r].id, [req[r].row EXCEPT !.status = Running])
    /\ UNCHANGED <<phase, boot>>

Start(r) ==
    /\ req[r].pc = "start"
    /\ Return(r)
    /\ \/ UNCHANGED col   \* the group has no tags
       \/ \E c \in Collectors : Spawn(c, req[r].id, req[r].row)
    /\ UNCHANGED <<opc_groups, phase, boot>>

(***************************************************************************)
(* GET /opc/group/stop/:gid.  The collector is not told: it finds the row  *)
(* changed at its next interval.                                           *)
(***************************************************************************)
StopRequest(r, g) ==
    /\ Serving(r, "stop")
    /\ IsRunning(g)
    /\ Goto(r, "stop", g, [opc_groups[g] EXCEPT !.status = NotRunning])
    /\ UNCHANGED <<opc_groups, phase, boot, col>>

Stop(r) ==
    /\ req[r].pc = "stop"
    /\ Save(req[r].id, req[r].row)
    /\ Return(r)
    /\ UNCHANGED <<phase, boot, col>>

(***************************************************************************)
(* DELETE /data/opc_groups/:id, as the user interface deletes a group.     *)
(***************************************************************************)
DeleteGroup(r, g) ==
    /\ Serving(r, "delete")
    /\ Exists(g)
    /\ opc_groups' = [opc_groups EXCEPT ![g] = NoRow]
    /\ UNCHANGED <<phase, boot, req, col>>

(***************************************************************************)
(* POST and PUT /opc/group.  A form that makes the group the default one   *)
(* first clears every row's flag, in a statement of its own.  Both end by  *)
(* listing the groups.                                                     *)
(***************************************************************************)
\* Mutant: the other groups keep their flag.
AfterFormKeepsDefaults(f) == "save"

AfterForm(f) == IF f.defaultGroup THEN "reset" ELSE "save"

NewGroup(r, f) ==
    /\ Serving(r, "new")
    /\ Goto(r, AfterForm(f), NoId, RowOf(NotRunning, f))
    /\ UNCHANGED <<opc_groups, phase, boot, col>>

UpdateGroup(r, g, f) ==
    /\ Serving(r, "update")
    /\ Exists(g)
    /\ Goto(r, AfterForm(f), g, RowOf(opc_groups[g].status, f))
    /\ UNCHANGED <<opc_groups, phase, boot, col>>

ResetDefaults(r) ==
    /\ req[r].pc = "reset"
    /\ opc_groups' = [g \in Groups |->
            IF Exists(g) THEN [opc_groups[g] EXCEPT !.defaultGroup = FALSE]
            ELSE NoRow]
    /\ Goto(r, "save", req[r].id, req[r].row)
    /\ UNCHANGED <<phase, boot, col>>

SaveGroup(r) ==
    /\ req[r].pc = "save"
    /\ \E g \in Groups :
          /\ IF req[r].id = NoId THEN IsNext(g) ELSE g = req[r].id
          /\ Save(g, req[r].row)
    /\ Goto(r, "list", NoId, NoRow)
    /\ UNCHANGED <<phase, boot, col>>

(***************************************************************************)
(* GET /opc/group: "make sure at least one group is the default group".    *)
(***************************************************************************)
ListRequest(r) ==
    /\ Serving(r, "list")
    /\ Goto(r, "list", NoId, NoRow)
    /\ UNCHANGED <<opc_groups, phase, boot, col>>

\* Mutant: the first group is made the default one without looking for one.
GetGroupsAlwaysFixes(r) ==
    /\ req[r].pc = "list"
    /\ \/ Ids = {} /\ Return(r)
       \/ \E g \in Groups :
             /\ IsFirst(g, Ids)
             /\ Goto(r, "fix", g, [opc_groups[g] EXCEPT !.defaultGroup = TRUE])
    /\ UNCHANGED <<opc_groups, phase, boot, col>>

GetGroups(r) ==
    /\ req[r].pc = "list"
    /\ \/ (Defaults # {} \/ Ids = {}) /\ Return(r)
       \/ /\ Defaults = {}
          /\ \E g \in Groups :
                /\ IsFirst(g, Ids)
                /\ Goto(r, "fix", g,
                        [opc_groups[g] EXCEPT !.defaultGroup = TRUE])
    /\ UNCHANGED <<opc_groups, phase, boot, col>>

FixDefault(r) ==
    /\ req[r].pc = "fix"
    /\ Save(req[r].id, req[r].row)
    /\ Return(r)
    /\ UNCHANGED <<phase, boot, col>>

(***************************************************************************)
(* groupDataCollector.  Connecting, adding the tags and the first read     *)
(* take as long as the OPC server takes; only then is the row saved, as it *)
(* was read before.  An interval of 0 panics in time.NewTicker, which      *)
(* handlePanic recovers: the goroutine just ends.                          *)
(***************************************************************************)
Release(c) == col' = [col EXCEPT ![c] = Free]

\* In its loop a collector only uses the id of its group.
Loop(c, pc) ==
    col' = [col EXCEPT ![c] = [pc |-> pc, id |-> col[c].id, row |-> NoRow]]

CollectorFails(c) ==
    /\ col[c].pc = "connect"
    /\ Release(c)
    /\ UNCHANGED <<opc_groups, phase, boot, req>>

CollectorStarts(c) ==
    /\ col[c].pc = "connect"
    /\ col[c].row.interval > 0
    /\ \E s \in {Running, RunningWithWarning} :
            Save(col[c].id, [col[c].row EXCEPT !.status = s])
    /\ Loop(c, "check")
    /\ UNCHANGED <<phase, boot, req>>

\* Mutant: only the disappearance of the row ends the loop.
StoppedWhenGone(g) == ~ Exists(g)

\* Only an existing row that says NotRunning ends the loop.
Stopped(g) == Exists(g) /\ opc_groups[g].status = NotRunning

CollectorStops(c) ==
    /\ col[c].pc = "check"
    /\ Stopped(col[c].id)
    /\ Release(c)
    /\ UNCHANGED <<opc_groups, phase, boot, req>>

\* A read of the tags; Updates then writes LastRun and Counter only.
CollectorReads(c) ==
    /\ col[c].pc = "check"
    /\ ~ Stopped(col[c].id)
    /\ Loop(c, "wait")
    /\ UNCHANGED <<opc_groups, phase, boot, req>>

\* It has read and filled a batch, and hands it to a channel that is nil: that
\* of a proxy that could not be dialled, or the cache's before InitCache.
CollectorBlocks(c) ==
    /\ col[c].pc = "check"
    /\ ~ Stopped(col[c].id)
    /\ Loop(c, "stuck")
    /\ UNCHANGED <<opc_groups, phase, boot, req>>

CollectorTick(c) ==
    /\ col[c].pc = "wait"
    /\ Loop(c, "check")
    /\ UNCHANGED <<opc_groups, phase, boot, req>>

(***************************************************************************)
(* The process: it may end at any moment, and InitGroups runs, before the  *)
(* web server, when it is started again.  Each group is reset and, if it   *)
(* runs at start and has tags, its collector begins while the next groups  *)
(* are reset.  Nobody else writes a row that is still to be reset, so the  *)
(* row InitGroups read at the beginning is the row in the table.           *)
(***************************************************************************)
Crash ==
    /\ phase # "down"
    /\ phase' = "down"
    /\ boot' = {}
    /\ req' = [r \in Requests |-> Idle]
    /\ col' = [c \in Collectors |-> Free]
    /\ UNCHANGED opc_groups

Boot ==
    /\ phase = "down"
    /\ phase' = "booting"
    /\ boot' = Ids
    /\ UNCHANGED <<opc_groups, req, col>>

\* Mutant: a group that runs at start is started without being reset.
InitGroupKeepsStatus(g) ==
    /\ phase = "booting"
    /\ IsFirst(g, boot)
    /\ boot' = boot \ {g}
    /\ IF opc_groups[g].runAtStart
       THEN UNCHANGED opc_groups
       ELSE Save(g, [opc_groups[g] EXCEPT !.status = NotRunning])
    /\ \/ UNCHANGED col
       \/ opc_groups[g].runAtStart
            /\ \E c \in Collectors : Spawn(c, g, opc_groups[g])
    /\ UNCHANGED <<phase, req>>

InitGroup(g) ==
    /\ phase = "booting"
    /\ IsFirst(g, boot)
    /\ boot' = boot \ {g}
    /\ LET item == [opc_groups[g] EXCEPT !.status = NotRunning]
       IN  /\ Save(g, item)
           /\ \/ UNCHANGED col   \* not started, or without tags
              \/ item.runAtStart /\ \E c \in Collectors : Spawn(c, g, item)
    /\ UNCHANGED <<phase, req>>

RunWeb ==
    /\ phase = "booting"
    /\ boot = {}
    /\ phase' = "serving"
    /\ UNCHANGED <<opc_groups, boot, req, col>>

-----------------------------------------------------------------------------
\* What earlier processes may have left in the table: groups of which none was
\* running and one at most is the default one.
Init ==
    /\ opc_groups \in [Groups -> {RowOf(NotRunning, f) : f \in Forms}
                                 \cup {NoRow}]
    /\ \A g, h \in Groups : Default(g) /\ Default(h) => g = h
    /\ phase = "down"
    /\ boot = {}
    /\ req = [r \in Requests |-> Idle]
    /\ col = [c \in Collectors |-> Free]

Handle(r) ==
    \/ Start(r) \/ Stop(r)
    \/ ResetDefaults(r) \/ SaveGroup(r) \/ GetGroups(r) \/ FixDefault(r)

Receive(r) ==
    \/ ListRequest(r)
    \/ \E f \in Forms : NewGroup(r, f)
    \/ \E g \in Groups :
          \/ StartRequest(r, g) \/ StopRequest(r, g) \/ DeleteGroup(r, g)
          \/ \E f \in Forms : UpdateGroup(r, g, f)

Collect(c) ==
    \/ CollectorFails(c) \/ CollectorStarts(c)
    \/ CollectorStops(c) \/ CollectorReads(c) \/ CollectorBlocks(c)
    \/ CollectorTick(c)

BootStep == (\E g \in Groups : InitGroup(g)) \/ RunWeb

Next ==
    \/ \E r \in Requests : Receive(r) \/ Handle(r)
    \/ \E c \in Collectors : Collect(c)
    \/ Crash \/ Boot \/ BootStep

Spec == Init /\ [][Next]_vars

\* A handler and a collector go on to their next database access, or the
\* collector to the channel it waits at for ever.  The operators, the crashes
\* and the restarts owe nothing.
Fairness ==
    /\ \A r \in Requests : WF_vars(Handle(r))
    /\ \A c \in Collectors : WF_vars(Collect(c))
    /\ WF_vars(BootStep)

FairSpec == Spec /\ Fairness
-----------------------------------------------------------------------------
(***************************************************************************)
(* Properties.                                                             *)
(***************************************************************************)
\* A goroutine is in the loop of its group, if only at a channel that is nil.
Collecting(c, g) == col[c].id = g /\ col[c].pc \in {"check", "wait", "stuck"}

RunningIsCollected(g) ==
    IsRunning(g) => \E c \in Collectors : Collecting(c, g)

\* A group that the table says is running has a goroutine in its loop
\* (types.OPCGroup.Status, "1 = running").  Said of a service that is up: a
\* killed process leaves its rows as they were.  It holds as long as the
\* operators only start, stop and delete groups; UpdateGroup and FixDefault
\* write back a status they read earlier.
NoPhantomRunning ==
    phase = "serving" => \A g \in Groups : RunningIsCollected(g)

\* InitGroups: whatever a killed process left in the table, a group that has
\* been reset is only running again if its own new collector says so, and
\* this whichever handlers the operators used before the crash.
BootResetsStatus ==
    phase = "booting" => \A g \in Groups \ boot : RunningIsCollected(g)

\* Start, "Make sure the group is not already running".
AtMostOneCollector ==
    \A c, d \in Collectors, g \in Groups :
        Collecting(c, g) /\ Collecting(d, g) => c = d

\* "Default group: valid for a single group at a time" (USERINTERFACE.md).
SingleDefault == Cardinality(Defaults) <= 1

\* Whichever handler ends by listing the groups (GetGroups, NewGroup,
\* UpdateGroup) leaves exactly one default group behind, if there is any
\* group.  It takes operators who wait for each other's answers, and rows
\* that no collector writes back.
ListLeavesOneDefault ==
    [][ \A r \in Requests :
          req[r].pc \in {"list", "fix"} /\ req'[r].pc = "idle" /\ phase' # "down"
              => Ids' = {} \/ Cardinality(Defaults') = 1 ]_vars

\* Stop only changes the row: a group whose row stays NotRunning is in the
\* end no longer collected by anybody, also when several collectors run; the
\* only ones it keeps are those that wait at a channel that is nil.
StopEndsCollection ==
    \A g \in Groups :
        <>[](Exists(g) /\ ~ IsRunning(g))
            => <>[](\A c \in Collectors : Collecting(c, g) => col[c].pc = "stuck")

=============================================================================
