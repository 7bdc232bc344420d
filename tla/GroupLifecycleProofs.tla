------------------------ MODULE GroupLifecycleProofs ------------------------
(***************************************************************************)
(* Proofs about GroupLifecycle, for every set of groups, requests,         *)
(* collectors and forms:                                                   *)
(*   - TypeOK and Holding, the supporting invariant;                       *)
(*   - BootResetsStatus, whichever handlers the operators use;             *)
(*   - NoPhantomRunning, when they only start, stop and delete groups;     *)
(*   - SingleDefault and ListLeavesOneDefault, for one operator who waits  *)
(*     for each answer, while no group is collected.                       *)
(***************************************************************************)
EXTENDS GroupLifecycle, FiniteSetTheorems, TLAPS

\* The supporting invariant.
\* What the actors hold: a row and a key when they are about to save; nothing
\* is left of a request or of InitGroups when the process is killed; and no
\* row disappears while InitGroups goes through them (it would insert it).
Holding ==
    /\ \A r \in Requests :
          /\ req[r].pc \in {"start", "stop", "fix"} => req[r].id \in Groups
          /\ req[r].pc \notin {"idle", "list"} => req[r].row \in Row
          /\ phase # "serving" => req[r] = Idle
    /\ \A c \in Collectors :
          /\ col[c].pc # "free" => col[c].id \in Groups
          /\ col[c].pc = "connect" => col[c].row \in Row
          /\ phase = "down" => col[c] = Free
    /\ phase # "booting" => boot = {}
    /\ boot \subseteq Ids

Inv == TypeOK /\ Holding

\* Any service starts with typed rows, nobody holding anything.
LEMMA InitInv == Init => Inv
  <1> SUFFICES ASSUME Init PROVE Inv
    OBVIOUS
  <1>1. \A f \in Forms : RowOf(NotRunning, f) \in Row
    BY FormsAssumption DEF Row, Form, Status, RowOf, NotRunning
  <1>2. TypeOK
    BY <1>1 DEF Init, TypeOK, Idle, Free, RequestPC, CollectorPC
  <1>3. Holding
    BY DEF Init, Holding, Idle, Free
  <1> QED
    BY <1>2, <1>3 DEF Inv

\* A request that arrives (Receive) keeps the supporting invariant.
LEMMA ReceiveInv ==
    ASSUME Inv, NEW r \in Requests, Receive(r)
    PROVE  Inv'
  <1> USE GroupsAssumption, NoRowAssumption DEF Inv, Serving, Goto, Exists
  <1>1. CASE ListRequest(r)
    BY <1>1 DEF ListRequest, TypeOK, Holding, RequestPC, Ids, NoId
  <1>2. ASSUME NEW f \in Forms, NewGroup(r, f)
        PROVE  Inv'
    <2>1. RowOf(NotRunning, f) \in Row
      BY FormsAssumption DEF Row, Form, Status, RowOf, NotRunning
    <2>2. AfterForm(f) \in {"reset", "save"}
      BY DEF AfterForm
    <2> QED
      BY <1>2, <2>1, <2>2 DEF NewGroup, TypeOK, Holding, RequestPC, Ids, NoId
  <1>3. ASSUME NEW g \in Groups, StartRequest(r, g)
        PROVE  Inv'
    BY <1>3 DEF StartRequest, TypeOK, Holding, RequestPC, Ids, NoId
  <1>4. ASSUME NEW g \in Groups, StopRequest(r, g)
        PROVE  Inv'
    <2>1. [opc_groups[g] EXCEPT !.status = NotRunning] \in Row
      BY <1>4 DEF StopRequest, IsRunning, TypeOK, Row, Status, NotRunning
    <2> QED
      BY <1>4, <2>1 DEF StopRequest, TypeOK, Holding, RequestPC, Ids, NoId
  <1>5. ASSUME NEW g \in Groups, DeleteGroup(r, g)
        PROVE  Inv'
    BY <1>5 DEF DeleteGroup, TypeOK, Holding, Ids
  <1>6. ASSUME NEW g \in Groups, NEW f \in Forms, UpdateGroup(r, g, f)
        PROVE  Inv'
    <2>1. RowOf(opc_groups[g].status, f) \in Row
      BY <1>6, FormsAssumption DEF UpdateGroup, TypeOK, Row, Form, RowOf
    <2>2. AfterForm(f) \in {"reset", "save"}
      BY DEF AfterForm
    <2> QED
      BY <1>6, <2>1, <2>2 DEF UpdateGroup, TypeOK, Holding, RequestPC, Ids, NoId
  <1> QED
    BY <1>1, <1>2, <1>3, <1>4, <1>5, <1>6 DEF Receive

\* A collector's step keeps the supporting invariant.
LEMMA CollectInv ==
    ASSUME Inv, NEW c \in Collectors, Collect(c)
    PROVE  Inv'
  <1> USE GroupsAssumption, NoRowAssumption DEF Inv, Exists, Release
  <1>1. CASE CollectorFails(c) \/ CollectorStops(c)
    <2>1. /\ col' = [col EXCEPT ![c] = Free]
          /\ UNCHANGED <<opc_groups, phase, boot, req>>
      BY <1>1 DEF CollectorFails, CollectorStops
    <2>2. TypeOK'
      BY <2>1 DEF TypeOK, CollectorPC, Free
    <2>3. Holding'
      BY <2>1 DEF Holding, TypeOK, Ids, Free
    <2> QED
      BY <2>2, <2>3
  <1>2. CASE CollectorStarts(c)
    <2> PICK s \in {Running, RunningWithWarning} :
            Save(col[c].id, [col[c].row EXCEPT !.status = s])
      BY <1>2 DEF CollectorStarts
    <2> DEFINE new == [col[c].row EXCEPT !.status = s]
    <2>1. new \in Row
      <3>1. col[c].row \in Row
        BY <1>2 DEF CollectorStarts, Holding
      <3>2. s \in Status
        BY DEF Status
      <3> QED
        BY <3>1, <3>2 DEF Row
    <2>2. opc_groups' = [opc_groups EXCEPT ![col[c].id] = new]
      BY DEF Save
    <2> HIDE DEF new
    <2>3. col[c].pc = "connect" /\ col[c].id \in Groups
      BY <1>2 DEF CollectorStarts, Holding
    <2>4. col' = [col EXCEPT ![c] = [pc |-> "check", id |-> col[c].id,
                                     row |-> NoRow]]
      BY <1>2 DEF CollectorStarts, Loop
    <2>5. UNCHANGED <<phase, boot, req>>
      BY <1>2 DEF CollectorStarts
    <2>6. TypeOK'
      BY <2>1, <2>2, <2>3, <2>4, <2>5 DEF TypeOK, CollectorPC
    <2>7. Holding'
      BY <2>1, <2>2, <2>3, <2>4, <2>5 DEF Holding, TypeOK, Ids, Free
    <2> QED
      BY <2>6, <2>7
  <1>3. CASE CollectorReads(c) \/ CollectorBlocks(c) \/ CollectorTick(c)
    <2>1. PICK pc \in {"wait", "check", "stuck"} :
            col' = [col EXCEPT ![c] = [pc |-> pc, id |-> col[c].id,
                                       row |-> NoRow]]
      BY <1>3 DEF CollectorReads, CollectorBlocks, CollectorTick, Loop
    <2>2. UNCHANGED <<opc_groups, phase, boot, req>>
      BY <1>3 DEF CollectorReads, CollectorBlocks, CollectorTick
    <2>3. col[c].id \in Groups /\ phase # "down"
      BY <1>3 DEF CollectorReads, CollectorBlocks, CollectorTick, Holding, Free
    <2>4. TypeOK'
      BY <2>1, <2>2, <2>3 DEF TypeOK, CollectorPC
    <2>5. Holding'
      BY <2>1, <2>2, <2>3 DEF TypeOK, Holding, Ids
    <2> QED
      BY <2>4, <2>5
  <1> QED
    BY <1>1, <1>2, <1>3 DEF Collect

\* A handler's next database access keeps the supporting invariant.
LEMMA HandleInv ==
    ASSUME Inv, NEW r \in Requests, Handle(r)
    PROVE  Inv'
  <1> USE GroupsAssumption, NoRowAssumption DEF Inv, Goto, Return, Exists
  <1>1. CASE Start(r)
    <2>1. /\ req' = [req EXCEPT ![r] = Idle]
          /\ UNCHANGED <<opc_groups, phase, boot>>
      BY <1>1 DEF Start
    <2>2. req[r].id \in Groups /\ req[r].row \in Row /\ phase = "serving"
      BY <1>1 DEF Start, Holding, Idle
    <2>3. \/ UNCHANGED col
          \/ \E c \in Collectors : col' = [col EXCEPT ![c] =
                [pc |-> "connect", id |-> req[r].id, row |-> req[r].row]]
      BY <1>1 DEF Start, Spawn
    <2>4. TypeOK'
      BY <2>1, <2>2, <2>3 DEF TypeOK, CollectorPC, RequestPC, Idle
    <2>5. Holding'
      BY <2>1, <2>2, <2>3 DEF TypeOK, Holding, Idle, Ids
    <2> QED
      BY <2>4, <2>5
  <1>2. CASE Stop(r) \/ FixDefault(r)
    <2>1. /\ req' = [req EXCEPT ![r] = Idle]
          /\ opc_groups' = [opc_groups EXCEPT ![req[r].id] = req[r].row]
          /\ UNCHANGED <<phase, boot, col>>
      BY <1>2 DEF Stop, FixDefault, Save
    <2>2. req[r].id \in Groups /\ req[r].row \in Row
      BY <1>2 DEF Stop, FixDefault, Holding
    <2>3. TypeOK'
      BY <2>1, <2>2 DEF TypeOK, RequestPC, Idle
    <2>4. Holding'
      BY <2>1, <2>2 DEF TypeOK, Holding, Idle, Ids
    <2> QED
      BY <2>3, <2>4
  <1>3. CASE ResetDefaults(r)
    <2>1. \A g \in Groups : opc_groups[g] \in Row =>
            [opc_groups[g] EXCEPT !.defaultGroup = FALSE] \in Row
      BY DEF Row
    <2>2. opc_groups' \in [Groups -> Row \cup {NoRow}]
      BY <1>3, <2>1 DEF ResetDefaults, TypeOK
    <2>3. Ids' = Ids
      BY <1>3, <2>1 DEF ResetDefaults, TypeOK, Ids
    <2> QED
      BY <1>3, <2>2, <2>3 DEF ResetDefaults, TypeOK, Holding, RequestPC, Idle
  <1>4. CASE SaveGroup(r)
    <2>1. req[r].row \in Row
      BY <1>4 DEF SaveGroup, Holding
    <2>2. PICK g \in Groups :
            opc_groups' = [opc_groups EXCEPT ![g] = req[r].row]
      BY <1>4 DEF SaveGroup, Save
    <2> QED
      BY <1>4, <2>1, <2>2 DEF SaveGroup, TypeOK, Holding, RequestPC, Idle, Ids
  <1>5. CASE GetGroups(r)
    <2>1. \A g \in Ids : opc_groups[g] \in Row
      BY DEF Ids, TypeOK
    <2>2. \A row \in Row : [row EXCEPT !.defaultGroup = TRUE] \in Row
      BY DEF Row
    <2>3. \A g \in Ids : [opc_groups[g] EXCEPT !.defaultGroup = TRUE] \in Row
      BY <2>1, <2>2
    <2> QED
      BY <1>5, <2>3 DEF GetGroups, IsFirst, TypeOK, Holding, RequestPC, Idle,
                        Ids
  <1> QED
    BY <1>1, <1>2, <1>3, <1>4, <1>5 DEF Handle

\* The end and the start of the process keep the supporting invariant.
LEMMA ProcessInv ==
    ASSUME Inv, Crash \/ Boot \/ BootStep
    PROVE  Inv'
  <1> USE GroupsAssumption, NoRowAssumption DEF Inv, Exists
  <1>1. CASE Crash
    BY <1>1 DEF Crash, TypeOK, Holding, RequestPC, CollectorPC, Idle, Free, Ids
  <1>2. CASE Boot
    BY <1>2 DEF Boot, TypeOK, Holding, Idle, Ids
  <1>3. ASSUME NEW g \in Groups, InitGroup(g)
        PROVE  Inv'
    <2> DEFINE item == [opc_groups[g] EXCEPT !.status = NotRunning]
    <2>1. item \in Row
      BY <1>3 DEF InitGroup, IsFirst, Holding, Ids, TypeOK, Row, Status
    <2>2. /\ opc_groups' = [opc_groups EXCEPT ![g] = item]
          /\ phase = "booting" /\ boot' = boot \ {g}
          /\ UNCHANGED <<phase, req>>
      BY <1>3 DEF InitGroup, Save
    <2>3. \/ UNCHANGED col
          \/ \E c \in Collectors : col' = [col EXCEPT ![c] =
                [pc |-> "connect", id |-> g, row |-> item]]
      BY <1>3 DEF InitGroup, Spawn
    <2> HIDE DEF item
    <2>4. TypeOK'
      BY <2>1, <2>2, <2>3 DEF TypeOK, CollectorPC
    <2>5. Holding'
      BY <2>1, <2>2, <2>3 DEF TypeOK, Holding, Ids
    <2> QED
      BY <2>4, <2>5
  <1>4. CASE RunWeb
    BY <1>4 DEF RunWeb, TypeOK, Holding, Ids
  <1> QED
    BY <1>1, <1>2, <1>3, <1>4 DEF BootStep

\* Every step keeps the supporting invariant.
LEMMA NextInv == Inv /\ [Next]_vars => Inv'
  <1> SUFFICES ASSUME Inv, [Next]_vars PROVE Inv'
    OBVIOUS
  <1>1. CASE UNCHANGED vars
    BY <1>1 DEF vars, Inv, TypeOK, Holding, Ids, Exists
  <1>2. CASE Next
    BY <1>2, ReceiveInv, HandleInv, CollectInv, ProcessInv DEF Next
  <1> QED
    BY <1>1, <1>2

\* Whatever the operators do and wherever the process is killed, the table
\* and the actors keep their types.
THEOREM TypeCorrect == Spec => []TypeOK
  <1>1. Inv => TypeOK
    BY DEF Inv
  <1> QED
    BY InitInv, NextInv, <1>1, PTL DEF Spec

\* And every actor that is about to save holds a row and a key.
THEOREM HoldingIsInvariant == Spec => []Holding
  <1>1. Inv => Holding
    BY DEF Inv
  <1> QED
    BY InitInv, NextInv, <1>1, PTL DEF Spec

-----------------------------------------------------------------------------
(***************************************************************************)
(* A running row has its collector.  The one step that makes a row running *)
(* is the collector's own, and a collector only leaves its loop when the   *)
(* row it looks at is not running.                                         *)
(***************************************************************************)
LEMMA CollectKeepsCollected ==
    ASSUME Inv, NEW c \in Collectors, Collect(c),
           NEW g \in Groups, RunningIsCollected(g)
    PROVE  RunningIsCollected(g)'
  <1> USE DEF Inv, RunningIsCollected, Collecting, IsRunning, Exists
  <1>1. CASE CollectorFails(c)
    BY <1>1 DEF CollectorFails, Release, TypeOK
  <1>2. CASE CollectorStarts(c)
    <2>1. col[c].pc = "connect" /\ col[c].id \in Groups
      BY <1>2 DEF CollectorStarts, Holding
    <2>2. col' = [col EXCEPT ![c] = [pc |-> "check", id |-> col[c].id,
                                     row |-> NoRow]]
      BY <1>2 DEF CollectorStarts, Loop
    <2>3. CASE g = col[c].id
      <3>1. Collecting(c, g)'
        BY <2>2, <2>3 DEF TypeOK
      <3> QED
        BY <3>1
    <2>4. CASE g # col[c].id
      <3>1. opc_groups'[g] = opc_groups[g]
        BY <1>2, <2>1, <2>4 DEF CollectorStarts, Save, TypeOK
      <3>2. \A d \in Collectors : Collecting(d, g) => Collecting(d, g)'
        BY <2>1, <2>2 DEF TypeOK
      <3> QED
        BY <3>1, <3>2
    <2> QED
      BY <2>3, <2>4
  <1>3. CASE CollectorStops(c)
    <2>1. IsRunning(g) => g # col[c].id
      BY <1>3 DEF CollectorStops, Stopped
    <2> QED
      BY <1>3, <2>1 DEF CollectorStops, Release, TypeOK
  <1>4. CASE CollectorReads(c) \/ CollectorBlocks(c) \/ CollectorTick(c)
    <2>1. /\ UNCHANGED opc_groups
          /\ \A d \in Collectors : Collecting(d, g) => Collecting(d, g)'
      BY <1>4 DEF CollectorReads, CollectorBlocks, CollectorTick, Loop, TypeOK
    <2> QED
      BY <2>1
  <1> QED
    BY <1>1, <1>2, <1>3, <1>4 DEF Collect

BootInv == Inv /\ BootResetsStatus

LEMMA InitBoot == Init => BootInv
  BY InitInv DEF Init, BootInv, BootResetsStatus

\* InitGroups and the collectors it starts keep BootResetsStatus; no handler
\* runs before the web server does.
LEMMA NextBoot == BootInv /\ [Next]_vars => BootInv'
  <1> SUFFICES ASSUME BootInv, [Next]_vars PROVE BootResetsStatus'
    BY NextInv DEF BootInv
  <1> USE DEF BootInv
  <1>1. SUFFICES ASSUME phase' = "booting", NEW g \in Groups, g \notin boot'
                 PROVE  RunningIsCollected(g)'
    BY DEF BootResetsStatus
  <1>2. CASE UNCHANGED vars
    BY <1>1, <1>2 DEF vars, BootResetsStatus, RunningIsCollected, Collecting,
                 IsRunning, Exists
  <1>3. ASSUME NEW r \in Requests, Receive(r) \/ Handle(r)
        PROVE  FALSE
    <2>1. phase = "serving"
      <3>1. CASE Receive(r)
        BY <3>1 DEF Receive, ListRequest, NewGroup, StartRequest, StopRequest,
                    DeleteGroup, UpdateGroup, Serving
      <3>2. CASE Handle(r)
        <4>1. req[r].pc # "idle"
          BY <3>2 DEF Handle, Start, Stop, ResetDefaults, SaveGroup, GetGroups,
                      FixDefault
        <4> QED
          BY <4>1 DEF Inv, Holding, Idle
      <3> QED
        BY <1>3, <3>1, <3>2
    <2>2. phase' = phase
      BY <1>3 DEF Receive, Handle, Start, Stop, ResetDefaults, SaveGroup,
             GetGroups, FixDefault, ListRequest, NewGroup, StartRequest,
             StopRequest, DeleteGroup, UpdateGroup
    <2> QED
      BY <1>1, <2>1, <2>2
  <1>4. ASSUME NEW c \in Collectors, Collect(c)
        PROVE  RunningIsCollected(g)'
    <2>1. UNCHANGED <<phase, boot>>
      BY <1>4 DEF Collect, CollectorFails, CollectorStarts, CollectorStops,
                  CollectorReads, CollectorBlocks, CollectorTick
    <2>2. RunningIsCollected(g)
      BY <1>1, <2>1 DEF BootResetsStatus
    <2> QED
      BY <1>4, <2>2, CollectKeepsCollected
  <1>5. CASE Crash
    BY <1>1, <1>5 DEF Crash
  <1>6. CASE Boot
    BY <1>1, <1>6 DEF Boot, RunningIsCollected, IsRunning, Ids, Exists
  <1>7. ASSUME NEW h \in Groups, InitGroup(h)
        PROVE  RunningIsCollected(g)'
    <2> DEFINE item == [opc_groups[h] EXCEPT !.status = NotRunning]
    <2>1. opc_groups' = [opc_groups EXCEPT ![h] = item]
      BY <1>7 DEF InitGroup, Save
    <2>2. CASE g = h
      <3>1. opc_groups[h] \in Row
        BY <1>7 DEF InitGroup, IsFirst, Inv, Holding, TypeOK, Ids, Exists
      <3>2. item.status = NotRunning
        BY <3>1 DEF Row
      <3>3. opc_groups'[g].status = NotRunning
        BY <2>1, <2>2, <3>2 DEF Inv, TypeOK
      <3> QED
        BY <3>3 DEF RunningIsCollected, IsRunning
    <2>3. CASE g # h
      <3>1. RunningIsCollected(g)
        BY <1>1, <1>7, <2>3 DEF InitGroup, BootResetsStatus
      <3>2. opc_groups'[g] = opc_groups[g]
        BY <2>1, <2>3 DEF Inv, TypeOK
      <3>3. \A d \in Collectors : Collecting(d, g) => Collecting(d, g)'
        BY <1>7 DEF InitGroup, Spawn, Collecting, Inv, TypeOK
      <3> QED
        BY <3>1, <3>2, <3>3 DEF RunningIsCollected, IsRunning, Exists
    <2> QED
      BY <2>2, <2>3
  <1>8. CASE RunWeb
    BY <1>1, <1>8 DEF RunWeb
  <1> QED
    BY <1>2, <1>3, <1>4, <1>5, <1>6, <1>7, <1>8 DEF Next, BootStep

\* InitGroups leaves no status of a previous process behind, whichever
\* handlers were at work when that process was killed.
THEOREM BootResets == Spec => []BootResetsStatus
  <1>1. BootInv => BootResetsStatus
    BY DEF BootInv
  <1> QED
    BY InitBoot, NextBoot, <1>1, PTL DEF Spec

-----------------------------------------------------------------------------
(***************************************************************************)
(* Operators who only start, stop and delete groups.  Stop and DeleteGroup *)
(* can make a row stop running, never start; so once the web server serves *)
(* the row still has the collector that BootResetsStatus promises.         *)
(***************************************************************************)
ControlOnly ==
    \A r \in Requests :
        /\ req[r].pc \in {"idle", "start", "stop"}
        /\ req[r].pc = "stop" => req[r].row.status = NotRunning

ControlInv == BootInv /\ ControlOnly /\ NoPhantomRunning

LEMMA InitControl == Init => ControlInv
  BY InitBoot DEF Init, ControlInv, ControlOnly, NoPhantomRunning, Idle

\* No request ever holds a row that says the group is running, to save it.
LEMMA NextControlOnly ==
    ASSUME Operations \subseteq Control, Inv, ControlOnly, [Next]_vars
    PROVE  ControlOnly'
  <1> USE DEF ControlOnly
  <1>1. CASE UNCHANGED req
    BY <1>1
  <1>2. ASSUME NEW r \in Requests, Receive(r), req' # req
        PROVE  ControlOnly'
    <2>1. ~ ListRequest(r)
      BY DEF ListRequest, Serving, Control
    <2>2. \A f \in Forms : ~ NewGroup(r, f)
      BY DEF NewGroup, Serving, Control
    <2>3. \A g \in Groups, f \in Forms : ~ UpdateGroup(r, g, f)
      BY DEF UpdateGroup, Serving, Control
    <2>4. ASSUME NEW g \in Groups, StartRequest(r, g)
          PROVE  ControlOnly'
      BY <2>4 DEF StartRequest, Goto, Inv, TypeOK
    <2>5. ASSUME NEW g \in Groups, StopRequest(r, g)
          PROVE  ControlOnly'
      <3> DEFINE row == [opc_groups[g] EXCEPT !.status = NotRunning]
      <3>1. opc_groups[g] \in Row
        BY <2>5 DEF StopRequest, IsRunning, Exists, Inv, TypeOK
      <3>2. row.status = NotRunning
        BY <3>1 DEF Row
      <3>3. req' = [req EXCEPT ![r] = [pc |-> "stop", id |-> g, row |-> row]]
        BY <2>5 DEF StopRequest, Goto
      <3> HIDE DEF row
      <3> QED
        BY <3>2, <3>3 DEF Inv, TypeOK
    <2>6. \A g \in Groups : ~ DeleteGroup(r, g)
      BY <1>2 DEF DeleteGroup
    <2> QED
      BY <1>2, <2>1, <2>2, <2>3, <2>4, <2>5, <2>6 DEF Receive
  <1>3. ASSUME NEW r \in Requests, Handle(r)
        PROVE  ControlOnly'
    <2>1. Start(r) \/ Stop(r)
      BY <1>3 DEF Handle, ResetDefaults, SaveGroup, GetGroups, FixDefault
    <2>2. req' = [req EXCEPT ![r] = Idle]
      BY <2>1 DEF Start, Stop, Return
    <2> QED
      BY <2>2 DEF Inv, TypeOK, Idle
  <1>4. CASE Crash
    BY <1>4 DEF Crash, Idle
  <1>5. ASSUME \/ UNCHANGED vars
               \/ \E c \in Collectors : Collect(c)
               \/ Boot \/ BootStep
        PROVE  UNCHANGED req
    BY <1>5 DEF vars, Collect, CollectorFails, CollectorStarts, CollectorStops,
         CollectorReads, CollectorBlocks, CollectorTick, Boot, BootStep, InitGroup, RunWeb
  <1> QED
    BY <1>1, <1>2, <1>3, <1>4, <1>5 DEF Next

\* Every step of such operators keeps NoPhantomRunning.
LEMMA NextControl ==
    ASSUME Operations \subseteq Control
    PROVE  ControlInv /\ [Next]_vars => ControlInv'
  <1> SUFFICES ASSUME ControlInv, [Next]_vars PROVE NoPhantomRunning'
    BY NextBoot, NextControlOnly DEF ControlInv, BootInv
  <1> USE DEF ControlInv, BootInv
  <1>1. SUFFICES ASSUME phase' = "serving", NEW g \in Groups
                 PROVE  RunningIsCollected(g)'
    BY DEF NoPhantomRunning
  <1>2. CASE UNCHANGED vars
    BY <1>1, <1>2 DEF vars, NoPhantomRunning, RunningIsCollected, Collecting,
                 IsRunning, Exists
  <1>3. ASSUME NEW r \in Requests, Receive(r)
        PROVE  RunningIsCollected(g)'
    <2>1. phase = "serving" /\ UNCHANGED col
      BY <1>3 DEF Receive, ListRequest, NewGroup, StartRequest, StopRequest,
                  DeleteGroup, UpdateGroup, Serving
    <2>2. RunningIsCollected(g)
      BY <2>1 DEF NoPhantomRunning
    <2>3. opc_groups'[g] \in {opc_groups[g], NoRow}
      BY <1>3 DEF Receive, ListRequest, NewGroup, StartRequest, StopRequest,
                  DeleteGroup, UpdateGroup, Inv, TypeOK
    <2> QED
      BY <2>1, <2>2, <2>3 DEF RunningIsCollected, Collecting, IsRunning, Exists
  <1>4. ASSUME NEW r \in Requests, Handle(r)
        PROVE  RunningIsCollected(g)'
    <2>1. Start(r) \/ Stop(r)
      BY <1>4 DEF ControlOnly, Handle, ResetDefaults, SaveGroup, GetGroups,
                  FixDefault
    <2>2. req[r] # Idle
      BY <2>1 DEF Start, Stop, Idle
    <2>3. RunningIsCollected(g)
      BY <2>2 DEF NoPhantomRunning, Inv, Holding
    <2>4. CASE Start(r)
      <3>1. UNCHANGED opc_groups
        BY <2>4 DEF Start
      <3>2. \A d \in Collectors : Collecting(d, g) => Collecting(d, g)'
        BY <2>4 DEF Start, Spawn, Collecting, Inv, TypeOK
      <3> QED
        BY <2>3, <3>1, <3>2 DEF RunningIsCollected, IsRunning, Exists
    <2>5. CASE Stop(r)
      <3>1. UNCHANGED col
        BY <2>5 DEF Stop
      <3>2. opc_groups'[g] = opc_groups[g] \/ opc_groups'[g].status = NotRunning
        BY <2>5 DEF Stop, Save, ControlOnly, Inv, TypeOK
      <3> QED
        BY <2>3, <3>1, <3>2 DEF RunningIsCollected, Collecting, IsRunning, Exists
    <2> QED
      BY <2>1, <2>4, <2>5
  <1>5. ASSUME NEW c \in Collectors, Collect(c)
        PROVE  RunningIsCollected(g)'
    <2>1. phase' = phase
      BY <1>5 DEF Collect, CollectorFails, CollectorStarts, CollectorStops,
                  CollectorReads, CollectorBlocks, CollectorTick
    <2>2. RunningIsCollected(g)
      BY <1>1, <2>1 DEF NoPhantomRunning
    <2> QED
      BY <1>5, <2>2, CollectKeepsCollected
  <1>6. CASE Crash \/ Boot
    BY <1>1, <1>6 DEF Crash, Boot
  <1>7. ASSUME NEW h \in Groups, InitGroup(h)
        PROVE  FALSE
    BY <1>1, <1>7 DEF InitGroup
  <1>8. CASE RunWeb
    <2>1. RunningIsCollected(g)
      BY <1>8 DEF RunWeb, BootResetsStatus
    <2> QED
      BY <1>8, <2>1 DEF RunWeb, RunningIsCollected, Collecting, IsRunning, Exists
  <1> QED
    BY <1>2, <1>3, <1>4, <1>5, <1>6, <1>7, <1>8 DEF Next, BootStep

\* As long as the operators only start, stop and delete groups, however
\* their requests, the collectors and restarts interleave, a group the table
\* says is running is being collected.
THEOREM NoPhantom ==
    ASSUME Operations \subseteq Control
    PROVE  Spec => []NoPhantomRunning
  <1>1. ControlInv => NoPhantomRunning
    BY DEF ControlInv
  <1>2. ControlInv /\ [Next]_vars => ControlInv'
    BY NextControl
  <1> QED
    BY InitControl, <1>1, <1>2, PTL DEF Spec

-----------------------------------------------------------------------------
(***************************************************************************)
(* One operator, nothing collecting.  The reset, save and list steps of a  *)
(* form are accesses of their own, so what keeps a second default group    *)
(* away is what the request holds between them: a row that is about to be  *)
(* saved as the default one meets a table without a default.  That is lost *)
(* when another request or a collector writes in between, which is what    *)
(* the hypotheses exclude; a crash between two steps is not excluded.      *)
(***************************************************************************)
\* The operator waits for each answer.
OneAtATime == \A r, s \in Requests : r = s

\* No handler and no restart starts a collector.
NothingStarts == "start" \notin Operations /\ \A f \in Forms : ~ f.runAtStart

\* So no collector lives, and no row asks for one.
Quiet ==
    /\ \A c \in Collectors : col[c].pc = "free"
    /\ \A g \in Ids : ~ opc_groups[g].runAtStart
    /\ \A r \in Requests :
          /\ req[r].pc # "start"
          /\ req[r].pc \notin {"idle", "list"} => ~ req[r].row.runAtStart

AtMostOneDefault == \A g, h \in Defaults : g = h

\* What the request holds, beside the table it will write to.
SavesNoSecond ==
    \A r \in Requests :
        /\ req[r].pc = "save" /\ req[r].row.defaultGroup => Defaults = {}
        /\ req[r].pc = "fix" =>
              Defaults = {} /\ req[r].id \in Ids /\ req[r].row.defaultGroup
        /\ req[r].pc = "stop" /\ req[r].row.defaultGroup =>
              req[r].id \in Defaults

DefaultInv == Inv /\ Quiet /\ AtMostOneDefault /\ SavesNoSecond

\* What a saved row does to the set of default groups.
LEMMA DefaultsAfterSave ==
    ASSUME TypeOK, NEW g \in Groups, NEW row \in Row,
           opc_groups' = [opc_groups EXCEPT ![g] = row]
    PROVE  /\ Ids' = Ids \cup {g}
           /\ Defaults' = IF row.defaultGroup THEN Defaults \cup {g}
                          ELSE Defaults \ {g}
  <1>1. opc_groups'[g] = row /\ row # NoRow
    BY NoRowAssumption DEF TypeOK
  <1>2. \A h \in Groups : h # g => opc_groups'[h] = opc_groups[h]
    BY DEF TypeOK
  <1> QED
    BY <1>1, <1>2 DEF Ids, Defaults, Default, Exists

LEMMA InitQuiet ==
    ASSUME NothingStarts, Init
    PROVE  Quiet
  <1>1. \A f \in Forms : ~ RowOf(NotRunning, f).runAtStart
    BY DEF NothingStarts, RowOf
  <1> QED
    BY <1>1 DEF Init, Quiet, Ids, Exists, Idle, Free

\* Nothing that could start a collector ever enters the table.
LEMMA NextQuiet ==
    ASSUME NothingStarts, Inv, Quiet, [Next]_vars
    PROVE  Quiet'
  <1> USE DEF Quiet, Exists
  <1>1. CASE UNCHANGED vars
    BY <1>1 DEF vars, Ids
  <1>2. ASSUME NEW r \in Requests, Receive(r)
        PROVE  Quiet'
    <2> USE DEF Serving, Goto, Inv, TypeOK, Ids
    <2>1. CASE ListRequest(r)
      BY <2>1 DEF ListRequest
    <2>2. ASSUME NEW f \in Forms, NewGroup(r, f)
          PROVE  Quiet'
      BY <2>2 DEF NewGroup, AfterForm, RowOf, NothingStarts
    <2>3. \A g \in Groups : ~ StartRequest(r, g)
      BY DEF StartRequest, NothingStarts
    <2>4. ASSUME NEW g \in Groups, StopRequest(r, g)
          PROVE  Quiet'
      <3> DEFINE row == [opc_groups[g] EXCEPT !.status = NotRunning]
      <3>1. ~ row.runAtStart
        BY <2>4 DEF StopRequest, IsRunning, Row
      <3>2. /\ req' = [req EXCEPT ![r] = [pc |-> "stop", id |-> g, row |-> row]]
            /\ UNCHANGED <<opc_groups, col>>
        BY <2>4 DEF StopRequest
      <3> HIDE DEF row
      <3> QED
        BY <3>1, <3>2
    <2>5. ASSUME NEW g \in Groups, DeleteGroup(r, g)
          PROVE  Quiet'
      BY <2>5 DEF DeleteGroup
    <2>6. ASSUME NEW g \in Groups, NEW f \in Forms, UpdateGroup(r, g, f)
          PROVE  Quiet'
      BY <2>6 DEF UpdateGroup, AfterForm, RowOf, NothingStarts
    <2> QED
      BY <1>2, <2>1, <2>2, <2>3, <2>4, <2>5, <2>6 DEF Receive
  <1>3. ASSUME NEW r \in Requests, Handle(r)
        PROVE  Quiet'
    <2> USE DEF Goto, Return, Inv, TypeOK
    <2>1. ~ Start(r)
      BY DEF Start
    <2>2. CASE Stop(r) \/ FixDefault(r)
      <3>1. /\ req' = [req EXCEPT ![r] = Idle]
            /\ opc_groups' = [opc_groups EXCEPT ![req[r].id] = req[r].row]
            /\ UNCHANGED col
            /\ req[r].pc \in {"stop", "fix"}
        BY <2>2 DEF Stop, FixDefault, Save
      <3> QED
        BY <3>1 DEF Idle, Ids
    <2>3. CASE ResetDefaults(r)
      <3>1. \A g \in Groups : opc_groups[g] \in Row =>
              [opc_groups[g] EXCEPT !.defaultGroup = FALSE].runAtStart
                = opc_groups[g].runAtStart
        BY DEF Row
      <3>2. \A g \in Ids' : g \in Ids /\ ~ opc_groups'[g].runAtStart
        BY <2>3, <3>1 DEF ResetDefaults, Ids
      <3> QED
        BY <2>3, <3>2 DEF ResetDefaults
    <2>4. CASE SaveGroup(r)
      <3>1. PICK g \in Groups :
              opc_groups' = [opc_groups EXCEPT ![g] = req[r].row]
        BY <2>4 DEF SaveGroup, Save
      <3> QED
        BY <2>4, <3>1 DEF SaveGroup, Ids
    <2>5. CASE GetGroups(r)
      <3>1. UNCHANGED <<opc_groups, col>>
        BY <2>5 DEF GetGroups
      <3>2. CASE req' = [req EXCEPT ![r] = Idle]
        BY <3>1, <3>2 DEF Idle, Ids
      <3>3. ASSUME NEW g \in Ids,
                   req' = [req EXCEPT ![r] =
                       [pc |-> "fix", id |-> g,
                        row |-> [opc_groups[g] EXCEPT !.defaultGroup = TRUE]]]
            PROVE  Quiet'
        <4>1. ~ [opc_groups[g] EXCEPT !.defaultGroup = TRUE].runAtStart
          BY DEF Ids, Row
        <4> QED
          BY <3>1, <3>3, <4>1 DEF Ids
      <3> QED
        BY <2>5, <3>2, <3>3 DEF GetGroups, IsFirst, Ids
    <2> QED
      BY <1>3, <2>1, <2>2, <2>3, <2>4, <2>5 DEF Handle
  <1>4. \A c \in Collectors : ~ Collect(c)
    BY DEF Collect, CollectorFails, CollectorStarts, CollectorStops,
           CollectorReads, CollectorBlocks, CollectorTick
  <1>5. CASE Crash
    BY <1>5 DEF Crash, Idle, Free, Ids
  <1>6. CASE Boot \/ RunWeb
    BY <1>6 DEF Boot, RunWeb, Ids
  <1>7. ASSUME NEW g \in Groups, InitGroup(g)
        PROVE  Quiet'
    <2> DEFINE item == [opc_groups[g] EXCEPT !.status = NotRunning]
    <2>1. ~ item.runAtStart
      BY <1>7 DEF InitGroup, IsFirst, Inv, Holding, TypeOK, Ids, Row
    <2>2. /\ opc_groups' = [opc_groups EXCEPT ![g] = item]
          /\ UNCHANGED req
          /\ \/ UNCHANGED col
             \/ item.runAtStart
      BY <1>7 DEF InitGroup, Save
    <2> HIDE DEF item
    <2> QED
      BY <2>1, <2>2 DEF Inv, TypeOK, Ids
  <1> QED
    BY <1>1, <1>2, <1>3, <1>4, <1>5, <1>6, <1>7 DEF Next, BootStep

LEMMA InitDefault ==
    ASSUME NothingStarts
    PROVE  Init => DefaultInv
  <1> SUFFICES ASSUME Init PROVE DefaultInv
    OBVIOUS
  <1>1. AtMostOneDefault
    BY DEF Init, AtMostOneDefault, Defaults
  <1>2. SavesNoSecond
    BY DEF Init, SavesNoSecond, Idle
  <1> QED
    BY InitInv, InitQuiet, <1>1, <1>2 DEF DefaultInv

\* A request that arrives finds nobody between two steps, and holds a second
\* default group to save only after a reset.
LEMMA ReceiveDefault ==
    ASSUME OneAtATime, DefaultInv, NEW r \in Requests, Receive(r)
    PROVE  AtMostOneDefault' /\ SavesNoSecond'
  <1> USE DEF DefaultInv, Inv, TypeOK, Serving, Goto, AtMostOneDefault,
              SavesNoSecond
  <1>1. \A s \in Requests : s = r
    BY DEF OneAtATime
  <1>2. ASSUME UNCHANGED opc_groups
        PROVE  Ids' = Ids /\ Defaults' = Defaults
    BY <1>2 DEF Ids, Defaults, Default, Exists
  <1>3. CASE ListRequest(r)
    BY <1>1, <1>2, <1>3 DEF ListRequest
  <1>4. ASSUME NEW f \in Forms, NewGroup(r, f)
        PROVE  AtMostOneDefault' /\ SavesNoSecond'
    BY <1>1, <1>2, <1>4 DEF NewGroup, AfterForm, RowOf
  <1>5. ASSUME NEW g \in Groups, StartRequest(r, g)
        PROVE  AtMostOneDefault' /\ SavesNoSecond'
    BY <1>1, <1>2, <1>5 DEF StartRequest
  <1>6. ASSUME NEW g \in Groups, StopRequest(r, g)
        PROVE  AtMostOneDefault' /\ SavesNoSecond'
    <2> DEFINE row == [opc_groups[g] EXCEPT !.status = NotRunning]
    <2>1. row.defaultGroup => g \in Defaults
      BY <1>6 DEF StopRequest, IsRunning, Row, Defaults, Default, Exists
    <2>2. /\ req' = [req EXCEPT ![r] = [pc |-> "stop", id |-> g, row |-> row]]
          /\ UNCHANGED opc_groups
      BY <1>6 DEF StopRequest
    <2> HIDE DEF row
    <2> QED
      BY <1>1, <1>2, <2>1, <2>2
  <1>7. ASSUME NEW g \in Groups, DeleteGroup(r, g)
        PROVE  AtMostOneDefault' /\ SavesNoSecond'
    <2>1. Defaults' \subseteq Defaults
      BY <1>7 DEF DeleteGroup, Defaults, Default, Exists
    <2>2. UNCHANGED req /\ req[r].pc = "idle"
      BY <1>7 DEF DeleteGroup
    <2> QED
      BY <1>1, <2>1, <2>2
  <1>8. ASSUME NEW g \in Groups, NEW f \in Forms, UpdateGroup(r, g, f)
        PROVE  AtMostOneDefault' /\ SavesNoSecond'
    BY <1>1, <1>2, <1>8 DEF UpdateGroup, AfterForm, RowOf
  <1> QED
    BY <1>3, <1>4, <1>5, <1>6, <1>7, <1>8 DEF Receive

\* Each access of the handlers: the reset empties the set, the save of a
\* default row adds one group to an empty set, the list repairs the empty set.
LEMMA HandleDefault ==
    ASSUME OneAtATime, DefaultInv, NEW r \in Requests, Handle(r)
    PROVE  AtMostOneDefault' /\ SavesNoSecond'
  <1> USE DEF DefaultInv, Inv, Goto, Return, AtMostOneDefault, SavesNoSecond
  <1>1. \A s \in Requests : s = r
    BY DEF OneAtATime
  <1>2. ASSUME UNCHANGED opc_groups
        PROVE  Ids' = Ids /\ Defaults' = Defaults
    BY <1>2 DEF Ids, Defaults, Default, Exists
  <1>3. ~ Start(r)
    BY DEF Start, Quiet
  <1>4. CASE Stop(r) \/ FixDefault(r)
    <2>1. /\ req' = [req EXCEPT ![r] = Idle]
          /\ opc_groups' = [opc_groups EXCEPT ![req[r].id] = req[r].row]
          /\ req[r].pc \in {"stop", "fix"}
      BY <1>4 DEF Stop, FixDefault, Save
    <2>2. req[r].id \in Groups /\ req[r].row \in Row /\ TypeOK
      BY <2>1 DEF Holding
    <2> DEFINE g == req[r].id
               row == req[r].row
    <2>3. row.defaultGroup => Defaults \subseteq {g}
      BY <2>1
    <2>4. g \in Groups /\ row \in Row /\ TypeOK
          /\ opc_groups' = [opc_groups EXCEPT ![g] = row]
      BY <2>1, <2>2
    <2> HIDE DEF g, row
    <2>5. Defaults' = IF row.defaultGroup THEN Defaults \cup {g}
                      ELSE Defaults \ {g}
      BY <2>4, DefaultsAfterSave
    <2>6. Defaults' \subseteq Defaults \/ Defaults' \subseteq {g}
      BY <2>3, <2>5
    <2>7. AtMostOneDefault'
      BY <2>6
    <2>8. SavesNoSecond'
      BY <1>1, <2>1 DEF TypeOK, Idle
    <2> QED
      BY <2>7, <2>8
  <1>5. CASE ResetDefaults(r)
    <2>1. \A g \in Groups : Exists(g) =>
            ~ [opc_groups[g] EXCEPT !.defaultGroup = FALSE].defaultGroup
      BY DEF TypeOK, Exists, Row
    <2>2. Defaults' = {}
      BY <1>5, <2>1 DEF ResetDefaults, Defaults, Default, Exists
    <2>3. req' = [req EXCEPT ![r] = [pc |-> "save", id |-> req[r].id,
                                     row |-> req[r].row]]
      BY <1>5 DEF ResetDefaults
    <2> QED
      BY <1>1, <2>2, <2>3 DEF TypeOK
  <1>6. CASE SaveGroup(r)
    <2>1. req[r].row \in Row /\ req[r].pc = "save"
      BY <1>6 DEF SaveGroup, Holding
    <2>2. PICK g \in Groups :
            opc_groups' = [opc_groups EXCEPT ![g] = req[r].row]
      BY <1>6 DEF SaveGroup, Save
    <2>3. Defaults' \subseteq Defaults
            \/ (Defaults = {} /\ Defaults' \subseteq {g})
      BY <2>1, <2>2, DefaultsAfterSave
    <2>4. AtMostOneDefault'
      BY <2>3
    <2>5. req' = [req EXCEPT ![r] = [pc |-> "list", id |-> NoId,
                                     row |-> NoRow]]
      BY <1>6 DEF SaveGroup
    <2>6. SavesNoSecond'
      BY <1>1, <2>5 DEF TypeOK
    <2> QED
      BY <2>4, <2>6
  <1>7. CASE GetGroups(r)
    <2>1. Ids' = Ids /\ Defaults' = Defaults
      BY <1>2, <1>7 DEF GetGroups
    <2>2. CASE Return(r)
      BY <1>1, <2>1, <2>2 DEF TypeOK, Idle
    <2>3. ASSUME Defaults = {}, NEW g \in Ids,
                 Goto(r, "fix", g,
                      [opc_groups[g] EXCEPT !.defaultGroup = TRUE])
          PROVE  AtMostOneDefault' /\ SavesNoSecond'
      <3> DEFINE row == [opc_groups[g] EXCEPT !.defaultGroup = TRUE]
      <3>1. row.defaultGroup
        BY DEF Ids, Exists, TypeOK, Row
      <3>2. req' = [req EXCEPT ![r] = [pc |-> "fix", id |-> g, row |-> row]]
        BY <2>3
      <3> HIDE DEF row
      <3> QED
        BY <1>1, <2>1, <2>3, <3>1, <3>2 DEF TypeOK
    <2> QED
      BY <1>7, <2>2, <2>3 DEF GetGroups, IsFirst
  <1> QED
    BY <1>3, <1>4, <1>5, <1>6, <1>7 DEF Handle

LEMMA NextDefault ==
    ASSUME OneAtATime, NothingStarts
    PROVE  DefaultInv /\ [Next]_vars => DefaultInv'
  <1> SUFFICES ASSUME DefaultInv, [Next]_vars
               PROVE  AtMostOneDefault' /\ SavesNoSecond'
    BY NextInv, NextQuiet DEF DefaultInv
  <1> USE DEF AtMostOneDefault, SavesNoSecond
  <1>1. CASE UNCHANGED vars
    <2>1. Defaults' = Defaults /\ Ids' = Ids
      BY <1>1 DEF vars, Defaults, Default, Ids, Exists
    <2> QED
      BY <1>1, <2>1 DEF vars, DefaultInv
  <1>2. ASSUME NEW r \in Requests, Receive(r) \/ Handle(r)
        PROVE  AtMostOneDefault' /\ SavesNoSecond'
    BY <1>2, ReceiveDefault, HandleDefault
  <1>3. \A c \in Collectors : ~ Collect(c)
    BY DEF DefaultInv, Quiet, Collect, CollectorFails, CollectorStarts,
           CollectorStops, CollectorReads, CollectorBlocks, CollectorTick
  <1>4. CASE Crash
    <2>1. Defaults' = Defaults
      BY <1>4 DEF Crash, Defaults, Default, Exists
    <2>2. \A r \in Requests : req'[r].pc = "idle"
      BY <1>4 DEF Crash, Idle
    <2> QED
      BY <2>1, <2>2 DEF DefaultInv
  <1>5. CASE Boot \/ RunWeb
    <2>1. Defaults' = Defaults /\ Ids' = Ids
      BY <1>5 DEF Boot, RunWeb, Defaults, Default, Ids, Exists
    <2> QED
      BY <1>5, <2>1 DEF Boot, RunWeb, DefaultInv
  <1>6. ASSUME NEW g \in Groups, InitGroup(g)
        PROVE  AtMostOneDefault' /\ SavesNoSecond'
    <2> DEFINE item == [opc_groups[g] EXCEPT !.status = NotRunning]
    <2>1. g \in Ids /\ opc_groups[g] \in Row
      BY <1>6 DEF InitGroup, IsFirst, DefaultInv, Inv, Holding, TypeOK, Ids,
                  Exists
    <2>2. item \in Row /\ item.defaultGroup = opc_groups[g].defaultGroup
      BY <2>1 DEF Row, Status
    <2>3. /\ opc_groups' = [opc_groups EXCEPT ![g] = item]
          /\ UNCHANGED req /\ phase = "booting"
      BY <1>6 DEF InitGroup, Save
    <2> HIDE DEF item
    <2>4. Defaults' = Defaults
      <3>1. g \in Groups /\ (g \in Defaults <=> item.defaultGroup)
        BY <2>1, <2>2 DEF Defaults, Default, Ids, Exists
      <3>2. Defaults' = IF item.defaultGroup THEN Defaults \cup {g}
                        ELSE Defaults \ {g}
        BY <2>2, <2>3, <3>1, DefaultsAfterSave DEF DefaultInv, Inv
      <3> QED
        BY <3>1, <3>2
    <2>5. \A r \in Requests : req'[r].pc = "idle"
      BY <2>3 DEF DefaultInv, Inv, Holding, Idle
    <2> QED
      BY <2>4, <2>5 DEF DefaultInv
  <1> QED
    BY <1>1, <1>2, <1>3, <1>4, <1>5, <1>6 DEF Next, BootStep

LEMMA DefaultIsInvariant ==
    ASSUME OneAtATime, NothingStarts
    PROVE  Spec => []DefaultInv
  <1>1. Init => DefaultInv
    BY InitDefault
  <1>2. DefaultInv /\ [Next]_vars => DefaultInv'
    BY NextDefault
  <1> QED
    BY <1>1, <1>2, PTL DEF Spec

\* One operator who waits for the answers, and nothing collecting: wherever
\* the process is killed between the reset, the save and the list of a form,
\* no two groups are ever the default one.
THEOREM OneDefault ==
    ASSUME OneAtATime, NothingStarts
    PROVE  Spec => []SingleDefault
  <1>1. DefaultInv => SingleDefault
    <2> SUFFICES ASSUME DefaultInv PROVE Cardinality(Defaults) <= 1
      BY DEF SingleDefault
    <2>1. CASE Defaults = {}
      BY <2>1, FS_EmptySet
    <2>2. ASSUME NEW g \in Defaults
          PROVE  Cardinality(Defaults) <= 1
      <3>1. Defaults = {g}
        BY DEF DefaultInv, AtMostOneDefault
      <3> QED
        BY <3>1, FS_Singleton
    <2> QED
      BY <2>1, <2>2
  <1> QED
    BY DefaultIsInvariant, <1>1, PTL

\* Under the same hypotheses, whichever handler ends by listing the groups
\* leaves exactly one default group behind, if there is any group.
THEOREM OneDefaultAfterList ==
    ASSUME OneAtATime, NothingStarts
    PROVE  Spec => ListLeavesOneDefault
  <1> DEFINE Answered(r) ==
        req[r].pc \in {"list", "fix"} /\ req'[r].pc = "idle" /\ phase' # "down"
      Leaves == \A r \in Requests :
        Answered(r) => Ids' = {} \/ Cardinality(Defaults') = 1
  <1>1. DefaultInv /\ DefaultInv' /\ [Next]_vars => [Leaves]_vars
    <2> SUFFICES ASSUME DefaultInv, DefaultInv', Next,
                        NEW r \in Requests, Answered(r), Ids' # {}
                 PROVE  Cardinality(Defaults') = 1
      BY DEF vars
    <2>1. GetGroups(r) \/ FixDefault(r)
      <3>1. ASSUME NEW s \in Requests, Receive(s)
            PROVE  FALSE
        <4>1. s = r /\ req[r].pc = "idle"
          BY <3>1 DEF OneAtATime, Receive, ListRequest, NewGroup,
             StartRequest, StopRequest, DeleteGroup, UpdateGroup, Serving
        <4> QED
          BY <4>1
      <3>2. ASSUME NEW s \in Requests, Handle(s)
            PROVE  GetGroups(r) \/ FixDefault(r)
        BY <3>2 DEF OneAtATime, Handle, Start, Stop, ResetDefaults, SaveGroup
      <3>3. ASSUME NEW c \in Collectors, Collect(c)
            PROVE  FALSE
        BY <3>3 DEF DefaultInv, Quiet, Collect, CollectorFails,
           CollectorStarts, CollectorStops, CollectorReads, CollectorBlocks, CollectorTick
      <3>4. ~ Crash
        BY DEF Crash
      <3>5. UNCHANGED req => FALSE
        OBVIOUS
      <3>6. ~ Boot /\ ~ BootStep
        BY <3>5 DEF Boot, BootStep, InitGroup, RunWeb
      <3> QED
        BY <3>1, <3>2, <3>3, <3>4, <3>6 DEF Next
    <2>2. Defaults' # {}
      <3>1. CASE GetGroups(r)
        <4>1. Ids' = Ids /\ Defaults' = Defaults
          BY <3>1 DEF GetGroups, Ids, Defaults, Default, Exists
        <4>2. req'[r].pc # "fix"
          OBVIOUS
        <4>3. \A g, row : ~ Goto(r, "fix", g, row)
          BY <4>2 DEF Goto, DefaultInv, Inv, TypeOK
        <4> QED
          BY <3>1, <4>1, <4>3 DEF GetGroups
      <3>2. CASE FixDefault(r)
        <4>1. /\ opc_groups' = [opc_groups EXCEPT ![req[r].id] = req[r].row]
              /\ req[r].pc = "fix"
          BY <3>2 DEF FixDefault, Save
        <4> DEFINE g == req[r].id
                   row == req[r].row
        <4>2. /\ g \in Groups /\ row \in Row /\ TypeOK
              /\ opc_groups' = [opc_groups EXCEPT ![g] = row]
              /\ row.defaultGroup
          BY <4>1 DEF DefaultInv, Inv, Holding, SavesNoSecond
        <4> HIDE DEF g, row
        <4>3. Defaults' = IF row.defaultGroup THEN Defaults \cup {g}
                          ELSE Defaults \ {g}
          BY <4>2, DefaultsAfterSave
        <4> QED
          BY <4>2, <4>3
      <3> QED
        BY <2>1, <3>1, <3>2
    <2>3. PICK g : g \in Defaults'
      BY <2>2
    <2>4. Defaults' = {g}
      BY <2>3 DEF DefaultInv, AtMostOneDefault
    <2> QED
      BY <2>4, FS_Singleton
  <1>2. (Spec => []DefaultInv) => (Spec => [][Leaves]_vars)
    BY <1>1, PTL DEF Spec
  <1> QED
    BY <1>2, DefaultIsInvariant DEF ListLeavesOneDefault
=============================================================================
