---------------------------- MODULE FileTransfer ----------------------------
(***************************************************************************)
(* Files through the diode (engine/filetransfer.go, the settings of        *)
(* engine/settings.go it starts from, the writers of outgoing/new in       *)
(* routes/filetransfer.go and engine/cache.go).                            *)
(*                                                                         *)
(* One goroutine, monitorFilesystem, walks outgoing/new, moves each file   *)
(* it listed to outgoing/processing, writes it to a UDP socket packet by   *)
(* packet and moves it to outgoing/done.  Whoever creates files in         *)
(* outgoing/new (the upload route, SEND AGAIN, SendFullCache, an operator) *)
(* does so in steps: create, write, close.  The process may die anywhere;  *)
(* the directories and the settings stay.                                  *)
(*                                                                         *)
(* Abstracted: the content of a file is the number of its submission and   *)
(* a length in packets; its hash is that number, as two submissions have   *)
(* different contents; what happens to a packet once the socket has it is  *)
(* the network's.  The files of a walk are taken in the order of Rank.     *)
(***************************************************************************)
EXTENDS Naturals, Sequences, FiniteSets

CONSTANTS
    Files,          \* paths of files below outgoing/new
    Dirs,           \* paths of directories below it
    Root,           \* outgoing/new itself
    Parent,         \* the directory each of them is in
    Rank,           \* the order of a walk, a directory before what it holds
    Installations,  \* what the database may hold before the first start
    MaxUploads,     \* submissions: a bound
    MaxPackets,     \* packets of a file: a bound
    MaxFaults,      \* crashes and failed calls: a bound
    None            \* no file, no setting

Paths == Files \cup Dirs

ASSUME PathsAssumption == Files \cap Dirs = {} /\ Root \notin Paths
ASSUME ParentAssumption == Parent \in [Paths -> Dirs \cup {Root}]
ASSUME RankAssumption ==
    /\ Rank \in [Paths -> Nat]
    /\ \A p, q \in Paths : Rank[p] = Rank[q] => p = q
    /\ \A p \in Paths : Parent[p] # Root => Rank[Parent[p]] < Rank[p]
ASSUME BoundsAssumption ==
    MaxUploads \in Nat /\ MaxPackets \in Nat /\ MaxFaults \in Nat

Content == [id : 1 .. MaxUploads, size : 0 .. MaxPackets]
\* What a listing says of a path, and (is) which closed submission it was then:
\* 0 for none, a history that the code does not have.
Entry == [name : Paths, size : 0 .. MaxPackets, is : 0 .. MaxUploads]

\* The setting filetransfer.modulus: only whether it is zero matters, as a
\* pause changes nothing.  A value that is no number counts as zero (Atoi).
Modulus == {0, 20}

ASSUME InstallationsAssumption ==
    Installations \subseteq [modulus : Modulus \cup {None}, proxy : BOOLEAN]
ASSUME NoneAssumption == None \notin Content /\ None \notin Entry /\ None \notin Modulus

VARIABLES
    new, processing, done,  \* the content of each file in each directory
    writing,  \* the files of outgoing/new that somebody has open for writing
    uploads,  \* how many submissions there were
    faults,   \* how many failed calls, crashes and panics there were
    db,       \* the setting and whether there is a row in diode_proxies
    modulus,  \* ctx.modulus of the running process
    pc,       \* where the monitor is; "down" and "panic" without a process
    pending,  \* the entries of its walk that it has still to look at
    cur,      \* the info sendFile was called with
    counter,  \* packets of the present file so far
    sent,     \* what c.Write was called with, oldest first
    failed    \* submissions of which a call of Read or Write failed, a history

disk == <<new, processing, done, writing, uploads>>
monitor == <<pending, cur, counter>>
vars == <<disk, faults, db, modulus, pc, monitor, sent, failed>>

PC == {"down", "panic", "disabled", "idle", "walk", "check", "data", "end", "move"}

Frame == [kind : {"begin"}, id : 1 .. MaxUploads, size : 0 .. MaxPackets]
         \cup [kind : {"data"}, id : 1 .. MaxUploads, n : 0 .. MaxPackets]
         \cup [kind : {"end"}, id : 1 .. MaxUploads]

Directory == [Files -> Content \cup {None}]

TypeOK ==
    /\ new \in Directory /\ processing \in Directory /\ done \in Directory
    /\ writing \subseteq {f \in Files : new[f] # None}
    /\ uploads \in 0 .. MaxUploads
    /\ faults \in Nat
    /\ db \in [modulus : Modulus \cup {None}, proxy : BOOLEAN]
    /\ modulus \in Modulus
    /\ pc \in PC
    /\ pending \subseteq Entry
    /\ cur \in Entry \cup {None}
    /\ pc \in {"check", "data", "end", "move"} =>
          /\ cur # None /\ cur.name \in Files
          /\ processing[cur.name] # None
    /\ counter \in 0 .. MaxPackets + 1
    /\ pc = "data" => counter <= processing[cur.name].size
    /\ sent \in Seq(Frame)
    /\ failed \subseteq 1 .. MaxUploads

Init ==
    /\ new = [f \in Files |-> None]
    /\ processing = [f \in Files |-> None]
    /\ done = [f \in Files |-> None]
    /\ writing = {} /\ uploads = 0 /\ faults = 0
    /\ db \in Installations
    /\ modulus = 0
    /\ pc = "down"
    /\ pending = {} /\ cur = None /\ counter = 0
    /\ sent = <<>> /\ failed = {}

(***************************************************************************)
(* The writers.  os.Create empties a file that is there.  A writer may end *)
(* early (SaveFile and copyFile leave what they have written).  One writer *)
(* of a name at a time: a bound.                                           *)
(***************************************************************************)
CreateFile(f) ==
    /\ uploads < MaxUploads /\ f \notin writing
    /\ uploads' = uploads + 1
    /\ new' = [new EXCEPT ![f] = [id |-> uploads', size |-> 0]]
    /\ writing' = writing \cup {f}
    /\ UNCHANGED <<processing, done, faults, db, modulus, pc, monitor, sent, failed>>

WriteFile(f) ==
    /\ f \in writing /\ new[f].size < MaxPackets
    /\ new' = [new EXCEPT ![f].size = @ + 1]
    /\ UNCHANGED <<processing, done, writing, uploads, faults, db, modulus, pc, monitor, sent, failed>>

CloseFile(f) ==
    /\ f \in writing
    /\ writing' = writing \ {f}
    /\ UNCHANGED <<new, processing, done, uploads, faults, db, modulus, pc, monitor, sent, failed>>

(***************************************************************************)
(* processDirectory.  A directory is listed once, with the sizes of that   *)
(* moment; a directory below it when the walk comes to it.  On Windows a   *)
(* file that is open for writing cannot be renamed.                        *)
(***************************************************************************)
Listing(d) ==
    {[name |-> f, size |-> new[f].size,
      is |-> IF f \in writing THEN 0 ELSE new[f].id] :
        f \in {f \in Files : Parent[f] = d /\ new[f] # None}}
    \cup {[name |-> e, size |-> 0, is |-> 0] : e \in {e \in Dirs : Parent[e] = d}}

IsNext(e) == e \in pending /\ \A o \in pending : Rank[e.name] <= Rank[o.name]

Rename(f) == new[f] # None /\ f \notin writing

Tick ==
    /\ pc = "idle"
    /\ pending' = Listing(Root)
    /\ pc' = "walk"
    /\ UNCHANGED <<disk, faults, db, modulus, cur, counter, sent, failed>>

EnterDirectory ==
    /\ pc = "walk"
    /\ \E e \in pending :
          /\ IsNext(e) /\ e.name \in Dirs
          /\ pending' = (pending \ {e}) \cup Listing(e.name)
    /\ UNCHANGED <<disk, faults, db, modulus, pc, cur, counter, sent, failed>>

\* Mutation: a file that cannot be renamed ends the goroutine.
SkipFileStops ==
    /\ pc = "walk"
    /\ \E e \in pending : IsNext(e) /\ e.name \in Files /\ ~Rename(e.name)
    /\ pc' = "disabled"
    /\ UNCHANGED <<disk, faults, db, modulus, monitor, sent, failed>>

TakeFile ==
    /\ pc = "walk"
    /\ \E e \in pending :
          /\ IsNext(e) /\ e.name \in Files
          /\ Rename(e.name)
          /\ new' = [new EXCEPT ![e.name] = None]
          /\ processing' = [processing EXCEPT ![e.name] = new[e.name]]
          /\ pending' = pending \ {e}
          /\ cur' = e
    /\ pc' = "check"
    /\ UNCHANGED <<done, writing, uploads, faults, db, modulus, counter, sent, failed>>

SkipFile ==
    /\ pc = "walk"
    /\ \E e \in pending :
          /\ IsNext(e) /\ e.name \in Files
          /\ ~Rename(e.name)
          /\ pending' = pending \ {e}
    /\ UNCHANGED <<disk, faults, db, modulus, pc, cur, counter, sent, failed>>

WalkEnds ==
    /\ pc = "walk" /\ pending = {}
    /\ pc' = "idle"
    /\ UNCHANGED <<disk, faults, db, modulus, monitor, sent, failed>>

(***************************************************************************)
(* sendFile.  The early returns leave the file in outgoing/processing.     *)
(***************************************************************************)
File == processing[cur.name]

Fault == faults < MaxFaults /\ faults' = faults + 1

\* A Read or a Write that fails, whose error is not looked at.
CallFails == Fault /\ failed' = failed \cup {File.id}
Call == CallFails \/ UNCHANGED <<faults, failed>>

EmptyFile ==
    /\ pc = "check" /\ File.size = 0
    /\ pc' = "walk"
    /\ UNCHANGED <<disk, faults, db, modulus, monitor, sent, failed>>

DialFails ==
    /\ pc = "check" /\ File.size # 0
    /\ Fault
    /\ pc' = "walk"
    /\ UNCHANGED <<disk, db, modulus, monitor, sent, failed>>

\* Mutation: the size is read where the packets of the last file were counted.
SendHeaderCounts ==
    /\ pc = "check" /\ File.size # 0
    /\ sent' = Append(sent, [kind |-> "begin", id |-> File.id, size |-> counter])
    /\ counter' = 0
    /\ pc' = "data"
    /\ Call
    /\ UNCHANGED <<disk, db, modulus, pending, cur>>

SendHeader ==
    /\ pc = "check" /\ File.size # 0
    /\ sent' = Append(sent, [kind |-> "begin", id |-> File.id, size |-> cur.size])
    /\ counter' = 0
    /\ pc' = "data"
    /\ Call
    /\ UNCHANGED <<disk, db, modulus, pending, cur>>

\* What a process that is gone leaves: its files are closed.
ProcessEnds(l) ==
    /\ pc' = l
    /\ writing' = {} /\ pending' = {} /\ cur' = None

\* Mutations: the counter goes up before it is written; the loop ends with
\* the last full packet.
PacketCountsFirst == Append(sent, [kind |-> "data", id |-> File.id, n |-> counter + 1])
LastPacketEarly == counter + 1 >= File.size

\* The packet after the last one is empty: only that read returns io.EOF.
Packet == Append(sent, [kind |-> "data", id |-> File.id, n |-> counter])
LastPacket == counter >= File.size

\* counter % uint32(ctx.modulus): a division by zero ends the process.
SendPacket ==
    /\ pc = "data"
    /\ sent' = Packet
    /\ counter' = counter + 1
    /\ \/ /\ modulus # 0
          /\ pc' = IF LastPacket THEN "end" ELSE "data"
          /\ Call
          /\ UNCHANGED <<writing, pending, cur>>
       \/ /\ modulus = 0
          /\ ProcessEnds("panic")
          /\ faults' = faults + 1 /\ failed' = failed
    /\ UNCHANGED <<new, processing, done, uploads, db, modulus>>

\* The loop goes on "for err == nil": any error of Read ends it like io.EOF.
ReadFails ==
    /\ pc = "data" /\ modulus # 0
    /\ CallFails
    /\ sent' = Packet
    /\ counter' = counter + 1
    /\ pc' = "end"
    /\ UNCHANGED <<disk, db, modulus, pending, cur>>

SendFooter ==
    /\ pc = "end"
    /\ sent' = Append(sent, [kind |-> "end", id |-> File.id])
    /\ Call
    /\ pc' = "move"
    /\ UNCHANGED <<disk, db, modulus, monitor>>

FinishFile ==
    /\ pc = "move"
    /\ done' = [done EXCEPT ![cur.name] = File]
    /\ processing' = [processing EXCEPT ![cur.name] = None]
    /\ pc' = "walk"
    /\ UNCHANGED <<new, writing, uploads, faults, db, modulus, monitor, sent, failed>>

\* Mutation: a file that cannot be moved to outgoing/done is tried again.
MoveFailsPutsBack ==
    /\ pc = "move"
    /\ Fault
    /\ new' = [new EXCEPT ![cur.name] = File]
    /\ processing' = [processing EXCEPT ![cur.name] = None]
    /\ pc' = "walk"
    /\ UNCHANGED <<done, writing, uploads, db, modulus, monitor, sent, failed>>

MoveFails ==
    /\ pc = "move"
    /\ Fault
    /\ pc' = "walk"
    /\ UNCHANGED <<disk, db, modulus, monitor, sent, failed>>

(***************************************************************************)
(* The process.  InitSetting creates a setting that is not there, but      *)
(* returns the empty one it looked for: the new item is a variable of the  *)
(* if's own block.  Without a proxy the monitor is not started.            *)
(***************************************************************************)
InitSetting == IF db.modulus = None THEN 0 ELSE db.modulus

InitFileTransfer ==
    /\ pc \in {"down", "panic"}
    /\ modulus' = InitSetting
    /\ db' = [db EXCEPT !.modulus = IF @ = None THEN 20 ELSE @]
    /\ pc' = IF db.proxy THEN "idle" ELSE "disabled"
    /\ UNCHANGED <<disk, faults, monitor, sent, failed>>

\* A row comes to diode_proxies (routes/data.go).  None goes: a bound.
AddProxy ==
    /\ ~db.proxy
    /\ db' = [db EXCEPT !.proxy = TRUE]
    /\ UNCHANGED <<disk, faults, modulus, pc, monitor, sent, failed>>

Crash ==
    /\ pc \notin {"down", "panic"}
    /\ Fault
    /\ ProcessEnds("down")
    /\ UNCHANGED <<new, processing, done, uploads, db, modulus, counter, sent, failed>>

Writers == \E f \in Files : CreateFile(f) \/ WriteFile(f) \/ CloseFile(f)

Monitor ==
    \/ Tick \/ EnterDirectory \/ TakeFile \/ SkipFile \/ WalkEnds
    \/ EmptyFile \/ DialFails \/ SendHeader \/ SendPacket \/ ReadFails \/ SendFooter
    \/ FinishFile \/ MoveFails

Next == Writers \/ Monitor \/ InitFileTransfer \/ AddProxy \/ Crash

Spec == Init /\ [][Next]_vars

\* The monitor is driven by a ticker, the service manager starts the process
\* and a writer closes its file in the end; no call has to fail.
FairSpec ==
    /\ Spec
    /\ WF_vars(Tick \/ EnterDirectory \/ TakeFile \/ SkipFile \/ WalkEnds)
    /\ WF_vars(EmptyFile \/ SendHeader \/ SendPacket \/ SendFooter \/ FinishFile)
    /\ WF_vars(InitFileTransfer)
    /\ \A f \in Files : WF_vars(CloseFile(f))
-----------------------------------------------------------------------------
(***************************************************************************)
(* Properties.                                                             *)
(***************************************************************************)
Submissions == 1 .. MaxUploads
Holds(dir, k) == \E f \in Files : dir[f] # None /\ dir[f].id = k

Begins(k) == {i \in 1 .. Len(sent) : sent[i].kind = "begin" /\ sent[i].id = k}

\* A submission is announced at most once, whatever calls fail and wherever
\* the process dies: the file leaves outgoing/new before sendFile starts, and
\* outgoing/processing is not looked at again (filetransfer.go:79).
SentAtMostOnce == \A k \in Submissions : Cardinality(Begins(k)) <= 1

\* A file in outgoing/done was written to the socket in one piece: header,
\* packets from 0, footer, nothing of another file in between.  The packets go
\* to the empty one after the last, unless a Read or a Write of that file
\* failed: the code goes on to the footer and to outgoing/done then as well
\* (filetransfer.go:139, 166).
Run(k, last, i) ==
    /\ i + last + 2 <= Len(sent)
    /\ sent[i].kind = "begin" /\ sent[i].id = k
    /\ \A n \in 0 .. last : sent[i + 1 + n] = [kind |-> "data", id |-> k, n |-> n]
    /\ sent[i + last + 2] = [kind |-> "end", id |-> k]

DoneWasSentWhole ==
    \A f \in Files : done[f] # None =>
        \E i \in 1 .. Len(sent), last \in 0 .. MaxPackets :
            /\ Run(done[f].id, last, i)
            /\ done[f].id \notin failed => last = done[f].size

\* The log says of a file in outgoing/done that it was "transferred as requested"
\* (filetransfer.go:173).  Refuted: by one call that fails.
DoneIsSent == \A f \in Files : done[f] # None => done[f].id \notin failed

\* A receiver that knows a file only by the header before its packets is not
\* misled: each packet follows the one before it or its header, and a footer
\* follows a packet, also when a process dies and another one goes on.
Follows(g, h) ==
    \/ h.kind = "begin"
    \/ h.kind = "data" /\ g.id = h.id /\ (IF h.n = 0 THEN g.kind = "begin" ELSE g.kind = "data" /\ g.n = h.n - 1)
    \/ h.kind = "end" /\ g.kind = "data" /\ g.id = h.id

SentInSequence ==
    /\ Len(sent) > 0 => sent[1].kind = "begin"
    /\ \A i \in 2 .. Len(sent) : Follows(sent[i - 1], sent[i])

\* The header announces the size of the file that follows, if that file was
\* there and closed when its directory was listed (filetransfer.go:122): the
\* listing is read before all earlier files are sent, the file after it.
AnnouncedSize ==
    pc = "move" /\ cur.is = File.id =>
        \E i \in Begins(File.id) : sent[i].size = File.size

\* A file that a writer has closed is in the end sent or replaced by a newer
\* one of its name, also when it could not be renamed at first and when others
\* keep coming; only a failed call or a process that dies leaves it behind.  A
\* process that found no proxy when it started sends nothing.
Served == IF pc \in {"down", "panic"} THEN db.proxy ELSE pc # "disabled"

Delivers ==
    \A k \in Submissions :
        (Served /\ \E f \in Files : f \notin writing /\ new[f] # None /\ new[f].id = k /\ new[f].size > 0)
        ~> (Holds(done, k) \/ ~(Holds(new, k) \/ Holds(processing, k)) \/ faults > 0)

\* The default of filetransfer.modulus is 20 (filetransfer.go:39), so sending
\* a file with the settings as installed ends no process.  Refuted.
NoPanic == pc # "panic"
=============================================================================
