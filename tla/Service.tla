------------------------------- MODULE Service -------------------------------
(***************************************************************************)
(* The Windows service: the commands that install and remove it            *)
(* (install.go), and the control loop of the process (service_win.go) with *)
(* the library golang.org/x/sys/windows/svc, which is external.  The       *)
(* process is a service or, when it is started by hand, on a console,      *)
(* where the library's debug.Run takes the place of svc.Run.               *)
(*                                                                         *)
(* Installing takes two registrations, of the service and of its source of *)
(* events, and each call can fail, or the command be killed before it.     *)
(* The service manager keeps a deleted service, marked, until its process  *)
(* has ended and every command that has it open has let go.                *)
(*                                                                         *)
(* Abstracted: the path of the executable, what is logged, the tick, which *)
(* only paces a branch that does nothing, and the engine that Execute      *)
(* starts (DataPath, GroupLifecycle).  One process runs at a time.         *)
(***************************************************************************)
EXTENDS Naturals

CONSTANTS
    Commands,  \* runs of "-cmd install" and "-cmd remove" at once: a bound
    Nil       \* no control request, no status

VARIABLES
    service,  \* the service manager's entry: "absent", "installed", "marked"
    source,   \* whether the source of events is registered
    cmd,      \* where each command is
    amiss,    \* history: a command was killed half-way or could not clear up
    console,  \* whether the process was started by hand
    execute,  \* where Execute is, with the status it is about to send
    request,  \* the request the library is handing over
    status    \* the status the library was told last

installing == <<service, source, cmd, amiss>>
running == <<console, execute, request, status>>
serviceVars == <<service, source, cmd, amiss, console, execute, request, status>>

States == {"StartPending", "Running", "Paused", "StopPending"}
Controls == {"Interrogate", "Stop", "Pause", "Continue", "other"}
ASSUME NilAssumption == Nil \notin States \cup Controls

Down == [pc |-> "down", next |-> Nil]
At(pc, next) == [pc |-> pc, next |-> next]

ServiceTypeOK ==
    /\ service \in {"absent", "installed", "marked"}
    /\ source \in BOOLEAN
    /\ cmd \in [Commands -> {"idle", "create", "register", "undo",
                             "delete", "unregister"}]
    /\ amiss \in BOOLEAN
    /\ console \in BOOLEAN
    /\ execute \in [pc : {"down", "begin", "loop", "report", "repeat", "end", "exit"},
                    next : States \cup {Nil}]
    /\ request \in Controls \cup {Nil}
    /\ status \in States \cup {Nil}

ServiceInit ==
    /\ service = "absent"
    /\ source = FALSE
    /\ cmd = [c \in Commands |-> "idle"]
    /\ amiss = FALSE
    /\ console = FALSE
    /\ execute = Down
    /\ request = Nil
    /\ status = Nil

(***************************************************************************)
(* installService and removeService.                                       *)
(***************************************************************************)
HasOpen(c) == cmd[c] \in {"register", "undo", "delete", "unregister"}
Proceed(c, pc) == cmd' = [cmd EXCEPT ![c] = pc]

\* The process is the service's own, which the service manager knows.
Serves == execute # Down /\ ~console

\* The command returns and its handle is closed, the last one of a service
\* that is marked or (gone) that it has just deleted.
Return(c, gone) ==
    /\ Proceed(c, "idle")
    /\ service' =
         IF ~gone /\ service # "marked" THEN service
         ELSE IF ~Serves /\ \A d \in Commands \ {c} : ~HasOpen(d)
              THEN "absent" ELSE "marked"

OpenToInstall(c) ==
    /\ cmd[c] = "idle"
    /\ service = "absent"
    /\ Proceed(c, "create")
    /\ UNCHANGED <<service, source, amiss>>

CreateService(c) ==
    /\ cmd[c] = "create"
    /\ \/ service = "absent" /\ service' = "installed" /\ Proceed(c, "register")
       \/ Proceed(c, "idle") /\ UNCHANGED service
    /\ UNCHANGED <<source, amiss>>

\* It fails for a source that is registered already, or otherwise.
InstallAsEventCreate(c) ==
    /\ cmd[c] = "register"
    /\ \/ ~source /\ source' = TRUE /\ Return(c, FALSE)
       \/ Proceed(c, "undo") /\ UNCHANGED <<service, source>>
    /\ UNCHANGED amiss

\* Mutant: the service is left when its source cannot be registered.
NoUndoCreate(c) ==
    /\ cmd[c] = "undo"
    /\ Return(c, FALSE)
    /\ UNCHANGED <<source, amiss>>

\* s.Delete(), whose error is not looked at.
UndoCreate(c) ==
    /\ cmd[c] = "undo"
    /\ \/ Return(c, TRUE) /\ UNCHANGED amiss
       \/ Return(c, FALSE) /\ amiss' = TRUE
    /\ UNCHANGED source

OpenToRemove(c) ==
    /\ cmd[c] = "idle"
    /\ service # "absent"
    /\ Proceed(c, "delete")
    /\ UNCHANGED <<service, source, amiss>>

DeleteService(c) ==
    /\ cmd[c] = "delete"
    /\ \/ service = "installed" /\ service' = "marked" /\ Proceed(c, "unregister")
       \/ Return(c, FALSE)
    /\ UNCHANGED <<source, amiss>>

\* It fails for a source that is not registered, or otherwise.
RemoveEventSource(c) ==
    /\ cmd[c] = "unregister"
    /\ Return(c, FALSE)
    /\ \/ source /\ source' = FALSE /\ UNCHANGED amiss
       \/ amiss' = TRUE /\ UNCHANGED source

Killed(c) ==
    /\ cmd[c] # "idle"
    /\ Return(c, FALSE)
    /\ amiss' = (amiss \/ cmd[c] \in {"register", "undo", "unregister"})
    /\ UNCHANGED source

Command(c) ==
    /\ \/ OpenToInstall(c) \/ CreateService(c) \/ InstallAsEventCreate(c)
       \/ UndoCreate(c) \/ OpenToRemove(c) \/ DeleteService(c) \/ RemoveEventSource(c)
       \/ Killed(c)
    /\ UNCHANGED running

(***************************************************************************)
(* The library hands over one request at a time.  svc.Run takes a status   *)
(* from Execute at any moment; debug.Run only while it hands over nothing. *)
(***************************************************************************)
Start(byHand) ==
    /\ execute = Down
    /\ console' = byHand
    /\ execute' = At("begin", "StartPending")
    /\ status' = Nil
    /\ UNCHANGED <<service, request>>

StartProcess ==
    \/ service = "installed" /\ Start(FALSE)
    \/ Start(TRUE)

\* The service manager passes nothing on to a service that starts or stops; a
\* console knows nothing but the interrupt, which may come at any moment.
Request(control) ==
    /\ request = Nil
    /\ IF console THEN execute # Down /\ control = "Stop"
                  ELSE status \in {"Running", "Paused"}
    /\ request' = control
    /\ UNCHANGED <<service, console, execute, status>>

\* changes <- s: Execute goes on at pc, with next to be sent there.
Sends(pc, next) ==
    /\ console => request = Nil
    /\ status' = execute.next
    /\ execute' = At(pc, next)
    /\ UNCHANGED <<service, console, request>>

(***************************************************************************)
(* Execute.                                                                *)
(***************************************************************************)
Begin ==
    /\ execute.pc = "begin"
    /\ IF execute.next = "StartPending" THEN Sends("begin", "Running")
       ELSE Sends("loop", Nil)

\* What the loop does next after a request, which comes with CurrentStatus.
After(control) ==
    CASE control = "Interrogate" -> At("repeat", status)
      [] control = "Stop" -> At("end", "StopPending")
      [] control = "Pause" -> At("report", "Paused")
      [] control = "Continue" -> At("report", "Running")
      [] OTHER -> At("loop", Nil)

\* Mutant: after Stop the break leaves the switch and not the loop.
BreakInSwitch ==
    /\ execute.pc = "loop"
    /\ request # Nil
    /\ execute' = IF request = "Stop" THEN At("loop", Nil) ELSE After(request)
    /\ request' = Nil
    /\ UNCHANGED <<service, console, status>>

Receive ==
    /\ execute.pc = "loop"
    /\ request # Nil
    /\ execute' = After(request)
    /\ request' = Nil
    /\ UNCHANGED <<service, console, status>>

\* Interrogate is answered twice, with a pause in between.
Report ==
    \/ execute.pc = "repeat" /\ Sends("report", execute.next)
    \/ execute.pc = "report" /\ Sends("loop", Nil)

\* After the break the event is reported and StopPending sent.
End == execute.pc = "end" /\ Sends("exit", Nil)

\* The process ends, with main or killed.
ProcessEnds ==
    /\ execute' = Down
    /\ request' = Nil
    /\ status' = Nil
    /\ UNCHANGED console
    /\ service' = IF service = "marked" /\ Serves /\ \A c \in Commands : ~HasOpen(c)
                  THEN "absent" ELSE service

\* Execute returns to runService, and that to main.
Exit == execute.pc = "exit" /\ ProcessEnds

Execute == Begin \/ Receive \/ Report \/ End \/ Exit

Process ==
    /\ \/ StartProcess
       \/ \E control \in Controls : Request(control)
       \/ Execute
       \/ execute # Down /\ ProcessEnds
    /\ UNCHANGED <<source, cmd, amiss>>

ServiceNext == Process \/ \E c \in Commands : Command(c)
ServiceSpec == ServiceInit /\ [][ServiceNext]_serviceVars

\* Execute goes on whenever it can: its select has no other branch that waits.
Fairness == WF_serviceVars(Execute /\ UNCHANGED <<source, cmd, amiss>>)
ServiceFairSpec == ServiceSpec /\ Fairness

(***************************************************************************)
(* Properties.                                                             *)
(***************************************************************************)
\* Between commands the service and its source of events are there together or
\* not at all, however the calls of installService and removeService failed
\* and two commands overlapped; but for a command that was killed half-way,
\* an undo that failed, and a source that removeService said it left.
AllOrNothing ==
    (\A c \in Commands : cmd[c] = "idle") /\ ~amiss
        => (service = "installed") = source

\* Execute sends a status to debug.Run, which hands over a second interrupt:
\* neither takes what the other has.
Waits ==
    console /\ request # Nil /\ execute.pc \in {"begin", "repeat", "report", "end"}

\* A Stop ends the process, whatever it is asked before and after: svc.Run and
\* the statuses Execute sends never wait for each other ("Testing deadlock",
\* service_win.go:82), its break leaves the loop, and on a console only an
\* interrupt that falls between two statuses keeps the process for ever.
StopEnds == request = "Stop" ~> execute = Down \/ Waits

\* Not run, TLC refutes it: every interrupt ends the console's process, and
\* main comes to CloseCache.  One during the start, or a second one before
\* StopPending is sent, waits for Execute, which waits to send.
InterruptEnds == request = "Stop" ~> execute = Down
=============================================================================
