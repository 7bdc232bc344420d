------------------------- MODULE FileTransferProofs -------------------------
(***************************************************************************)
(* Proofs about FileTransfer, for every directory tree and any number of   *)
(* submissions, packets and faults:                                        *)
(*   - TypeOK;                                                             *)
(*   - SentAtMostOnce, from where the numbers of submissions can be;       *)
(*   - SentInSequence and DoneWasSentWhole, from what the end of sent is   *)
(*     while a file is being sent;                                         *)
(*   - AnnouncedSize, from what a listing still tells of outgoing/new.     *)
(***************************************************************************)
EXTENDS FileTransfer, SequenceTheorems, FiniteSetTheorems, TLAPS

LEMMA InitTyped == Init => TypeOK
  BY InstallationsAssumption, BoundsAssumption, EmptySeq
  DEF Init, TypeOK, Directory, PC, Modulus

\* A listing has entries.
LEMMA ListingTyped ==
    ASSUME TypeOK, NEW d
    PROVE  Listing(d) \subseteq Entry
  <1>1. \A f \in Files : new[f] # None => new[f].size \in 0 .. MaxPackets
                                           /\ new[f].id \in 0 .. MaxUploads
    BY BoundsAssumption DEF TypeOK, Directory, Content
  <1>2. 0 \in 0 .. MaxPackets /\ 0 \in 0 .. MaxUploads
    BY BoundsAssumption
  <1> QED
    BY <1>1, <1>2 DEF Listing, Entry, Paths

\* What is handed to the socket comes behind what was there.
LEMMA Appended ==
    ASSUME TypeOK, NEW h \in Frame, sent' = Append(sent, h)
    PROVE  /\ sent' \in Seq(Frame) /\ Len(sent) \in Nat /\ Len(sent') = Len(sent) + 1
           /\ \A k \in 1 .. Len(sent) : sent'[k] = sent[k]
           /\ sent'[Len(sent) + 1] = h
  BY AppendProperties, LenProperties DEF TypeOK

\* The file that is being sent, and its frames.
LEMMA FileTyped ==
    ASSUME TypeOK, pc \in {"check", "data", "end", "move"}
    PROVE  /\ cur \in Entry /\ cur.name \in Files /\ cur.size \in 0 .. MaxPackets
           /\ File \in Content /\ File.id \in 1 .. MaxUploads /\ File.size \in 0 .. MaxPackets
           /\ File = processing[cur.name]
  BY NoneAssumption DEF TypeOK, Directory, Content, Entry, File

LEMMA HeaderTyped ==
    ASSUME TypeOK, SendHeader
    PROVE  [kind |-> "begin", id |-> File.id, size |-> cur.size] \in Frame
  BY FileTyped DEF SendHeader, Frame

LEMMA PacketTyped ==
    ASSUME TypeOK, SendPacket \/ ReadFails
    PROVE  /\ [kind |-> "data", id |-> File.id, n |-> counter] \in Frame
           /\ counter \in 0 .. MaxPackets
  <1>1. counter \in Nat /\ counter <= File.size
    BY FileTyped, BoundsAssumption DEF SendPacket, ReadFails, TypeOK, File
  <1> QED
    BY <1>1, FileTyped, BoundsAssumption DEF SendPacket, ReadFails, Frame

LEMMA FooterTyped ==
    ASSUME TypeOK, SendFooter
    PROVE  [kind |-> "end", id |-> File.id] \in Frame
  BY FileTyped DEF SendFooter, Frame

\* A call of sendFile fails or does not.
LEMMA CallTyped ==
    ASSUME TypeOK, pc \in {"check", "data", "end", "move"}, Call
    PROVE  faults' \in Nat /\ failed' \subseteq 1 .. MaxUploads /\ failed \subseteq failed'
  <1>1. faults \in Nat /\ failed \subseteq 1 .. MaxUploads /\ File.id \in 1 .. MaxUploads
    BY FileTyped DEF TypeOK
  <1>2. CASE CallFails
    <2>1. faults' = faults + 1 /\ failed' = failed \cup {File.id}
      BY <1>2 DEF CallFails, Fault
    <2>2. faults' \in Nat
      BY <1>1, <2>1
    <2>3. failed \subseteq failed' /\ failed' \subseteq 1 .. MaxUploads
      BY <1>1, <2>1
    <2> QED
      BY <2>2, <2>3
  <1>3. CASE UNCHANGED <<faults, failed>>
    BY <1>1, <1>3
  <1> QED
    BY <1>2, <1>3 DEF Call

LEMMA WritersTyped ==
    ASSUME TypeOK, NEW f \in Files, CreateFile(f) \/ WriteFile(f) \/ CloseFile(f)
    PROVE  TypeOK'
  <1> USE NoneAssumption, BoundsAssumption
  <1>1. UNCHANGED <<processing, done, faults, db, modulus, pc, pending, cur, counter, sent,
                  failed>>
    BY DEF CreateFile, WriteFile, CloseFile, monitor
  <1>2. /\ new' \in Directory /\ uploads' \in 0 .. MaxUploads
        /\ writing' \subseteq {g \in Files : new'[g] # None}
    <2>1. CASE CreateFile(f)
      <3>1. [id |-> uploads + 1, size |-> 0] \in Content
        BY <2>1 DEF CreateFile, TypeOK, Content
      <3> QED
        BY <2>1, <3>1 DEF CreateFile, TypeOK, Directory
    <2>2. CASE WriteFile(f)
      <3>1. new[f] \in Content
        BY <2>2 DEF WriteFile, TypeOK, Directory
      <3>2. [new[f] EXCEPT !.size = @ + 1] \in Content
        BY <2>2, <3>1 DEF WriteFile, Content
      <3>3. new' = [new EXCEPT ![f] = [new[f] EXCEPT !.size = @ + 1]]
        BY <2>2 DEF WriteFile
      <3> QED
        BY <2>2, <3>2, <3>3 DEF WriteFile, TypeOK, Directory
    <2>3. CASE CloseFile(f)
      BY <2>3 DEF CloseFile, TypeOK
    <2> QED
      BY <2>1, <2>2, <2>3
  <1> QED
    BY <1>1, <1>2 DEF TypeOK, File

\* The walk: a file that is taken is there.
LEMMA WalkTyped ==
    ASSUME TypeOK, Tick \/ EnterDirectory \/ TakeFile \/ SkipFile \/ WalkEnds
    PROVE  TypeOK'
  <1> USE NoneAssumption, BoundsAssumption
  <1>1. CASE Tick
    BY <1>1, ListingTyped DEF Tick, disk, TypeOK, PC
  <1>2. CASE EnterDirectory
    <2>1. pending' \subseteq Entry
      BY <1>2, ListingTyped DEF EnterDirectory, TypeOK
    <2> QED
      BY <1>2, <2>1 DEF EnterDirectory, disk, TypeOK
  <1>3. CASE TakeFile
    <2>1. PICK e \in pending : /\ e.name \in Files /\ Rename(e.name)
                               /\ new' = [new EXCEPT ![e.name] = None]
                               /\ processing' = [processing EXCEPT ![e.name] = new[e.name]]
                               /\ pending' = pending \ {e}
                               /\ cur' = e
      BY <1>3 DEF TakeFile
    <2>2. /\ pc' = "check"
          /\ UNCHANGED <<done, writing, uploads, faults, db, modulus, counter, sent, failed>>
      BY <1>3 DEF TakeFile
    <2>3. e \in Entry /\ e # None /\ new[e.name] \in Content /\ new[e.name] # None
      BY <2>1 DEF TypeOK, Rename, Directory
    <2>4. new' \in Directory /\ processing' \in Directory
      BY <2>1, <2>3 DEF TypeOK, Directory
    <2>5. writing' \subseteq {g \in Files : new'[g] # None}
      BY <2>1, <2>2 DEF TypeOK, Rename, Directory
    <2>6. processing'[cur'.name] # None
      BY <2>1, <2>3 DEF TypeOK, Directory
    <2> QED
      BY <2>1, <2>2, <2>3, <2>4, <2>5, <2>6 DEF TypeOK, PC
  <1>4. CASE SkipFile
    BY <1>4 DEF SkipFile, disk, TypeOK
  <1>5. CASE WalkEnds
    BY <1>5 DEF WalkEnds, disk, monitor, TypeOK, PC
  <1> QED
    BY <1>1, <1>2, <1>3, <1>4, <1>5

\* sendFile: the counter does not pass the size of the file, as the packet
\* after the last one ends the loop.
LEMMA SendTyped ==
    ASSUME TypeOK,
           EmptyFile \/ DialFails \/ SendHeader \/ SendPacket \/ ReadFails \/ SendFooter
           \/ FinishFile \/ MoveFails
    PROVE  TypeOK'
  <1> USE NoneAssumption, BoundsAssumption
  <1>1. CASE EmptyFile
    BY <1>1 DEF EmptyFile, disk, monitor, TypeOK, PC
  <1>2. CASE DialFails
    BY <1>2 DEF DialFails, Fault, disk, monitor, TypeOK, PC
  <1>3. CASE SendHeader
    <2>1. sent' \in Seq(Frame)
      BY <1>3, HeaderTyped, Appended DEF SendHeader
    <2>2. counter' = 0 /\ pc' = "data" /\ 0 <= File.size
          /\ UNCHANGED <<disk, db, modulus, pending, cur>>
      BY <1>3, FileTyped DEF SendHeader
    <2>3. faults' \in Nat /\ failed' \subseteq 1 .. MaxUploads
      BY <1>3, CallTyped DEF SendHeader
    <2> QED
      BY <2>1, <2>2, <2>3, FileTyped, <1>3 DEF disk, TypeOK, PC, File, SendHeader
  <1>4. CASE SendPacket
    <2>1. sent' \in Seq(Frame) /\ counter' \in 0 .. MaxPackets + 1
      BY <1>4, PacketTyped, Appended DEF SendPacket, Packet
    <2>2. UNCHANGED <<new, processing, done, uploads, db, modulus>>
      BY <1>4 DEF SendPacket
    <2>3. CASE modulus # 0 /\ pc' = (IF LastPacket THEN "end" ELSE "data")
               /\ Call /\ UNCHANGED <<writing, pending, cur>>
      <3>1. pc' = "data" => counter' <= File.size
        BY <1>4, <2>3, FileTyped DEF LastPacket, SendPacket, TypeOK
      <3>2. faults' \in Nat /\ failed' \subseteq 1 .. MaxUploads
        BY <1>4, <2>3, CallTyped DEF SendPacket
      <3> QED
        BY <1>4, <2>1, <2>2, <2>3, <3>1, <3>2 DEF SendPacket, TypeOK, PC, File
    <2>4. CASE ProcessEnds("panic") /\ faults' = faults + 1 /\ failed' = failed
      BY <2>1, <2>2, <2>4 DEF ProcessEnds, TypeOK, PC
    <2> QED
      BY <1>4, <2>3, <2>4 DEF SendPacket
  <1>5. CASE SendFooter
    <2>1. sent' \in Seq(Frame)
      BY <1>5, FooterTyped, Appended DEF SendFooter
    <2>2. faults' \in Nat /\ failed' \subseteq 1 .. MaxUploads
      BY <1>5, CallTyped DEF SendFooter
    <2> QED
      BY <1>5, <2>1, <2>2 DEF SendFooter, disk, monitor, TypeOK, PC
  <1>6. CASE FinishFile
    <2>1. done' \in Directory /\ processing' \in Directory
      BY <1>6, FileTyped DEF FinishFile, TypeOK, Directory
    <2> QED
      BY <1>6, <2>1 DEF FinishFile, monitor, TypeOK, PC
  <1>7. CASE MoveFails
    BY <1>7 DEF MoveFails, Fault, disk, monitor, TypeOK, PC
  <1>8. CASE ReadFails
    <2>1. sent' \in Seq(Frame) /\ counter' \in 0 .. MaxPackets + 1
      BY <1>8, PacketTyped, Appended DEF ReadFails, Packet
    <2>2. faults' \in Nat /\ failed' \subseteq 1 .. MaxUploads
      BY <1>8, CallTyped DEF ReadFails, Call
    <2> QED
      BY <1>8, <2>1, <2>2 DEF ReadFails, disk, TypeOK, PC
  <1> QED
    BY <1>1, <1>2, <1>3, <1>4, <1>5, <1>6, <1>7, <1>8

LEMMA ProcessTyped ==
    ASSUME TypeOK, InitFileTransfer \/ AddProxy \/ Crash
    PROVE  TypeOK'
  <1> USE NoneAssumption, BoundsAssumption
  <1>1. CASE InitFileTransfer
    <2>1. db' \in [modulus : Modulus \cup {None}, proxy : BOOLEAN] /\ modulus' \in Modulus
      BY <1>1 DEF InitFileTransfer, InitSetting, TypeOK, Modulus
    <2>2. pc' \in {"idle", "disabled"} /\ UNCHANGED <<disk, faults, monitor, sent, failed>>
      BY <1>1 DEF InitFileTransfer
    <2> QED
      BY <2>1, <2>2 DEF disk, monitor, TypeOK, PC
  <1>2. CASE Crash
    BY <1>2 DEF Crash, Fault, ProcessEnds, TypeOK, PC
  <1>3. CASE AddProxy
    BY <1>3 DEF AddProxy, disk, monitor, TypeOK, File
  <1> QED
    BY <1>1, <1>2, <1>3

LEMMA NextTyped == TypeOK /\ [Next]_vars => TypeOK'
  <1> SUFFICES ASSUME TypeOK, [Next]_vars PROVE TypeOK'
    OBVIOUS
  <1>1. CASE UNCHANGED vars
    BY <1>1 DEF vars, disk, monitor, TypeOK, File
  <1>2. CASE Next
    BY <1>2, WritersTyped, WalkTyped, SendTyped, ProcessTyped DEF Next, Writers, Monitor
  <1> QED
    BY <1>1, <1>2

\* Directories, settings, the monitor's walk and what was sent have their
\* types; the monitor sends a file that is in outgoing/processing, and its
\* counter of packets stays within the file.
THEOREM TypeCorrect == Spec => []TypeOK
  BY InitTyped, NextTyped, PTL DEF Spec

(***************************************************************************)
(* The numbers of submissions: each is in one file of outgoing/new only,   *)
(* and one that is there, or about to be announced, has not been sent.     *)
(***************************************************************************)
Sending == pc \in {"check", "data", "end", "move"}

Numbered ==
    /\ \A f \in Files : new[f] # None =>
          /\ new[f].id <= uploads
          /\ \A g \in Files : new[g] # None /\ new[g].id = new[f].id => f = g
          /\ \A k \in 1 .. Len(sent) : sent[k].id # new[f].id
          /\ Sending => new[f].id # File.id
    /\ Sending => File.id <= uploads
    /\ \A k \in 1 .. Len(sent) : sent[k].id <= uploads
    /\ pc = "check" => \A k \in 1 .. Len(sent) : sent[k].id # File.id
    /\ \A k, l \in 1 .. Len(sent) :
          sent[k].kind = "begin" /\ sent[l].kind = "begin" /\ sent[k].id = sent[l].id
              => k = l

LEMMA FramesTyped ==
    ASSUME TypeOK
    PROVE  /\ \A k \in 1 .. Len(sent) : sent[k] \in Frame /\ sent[k].id \in 1 .. MaxUploads
           /\ \A f \in Files : new[f] # None =>
                 /\ new[f] \in Content /\ new[f].id \in 1 .. MaxUploads
                 /\ new[f].size \in 0 .. MaxPackets
           /\ uploads \in Nat
  <1>1. \A k \in 1 .. Len(sent) : sent[k] \in Frame
    BY ElementOfSeq DEF TypeOK
  <1>2. \A h \in Frame : h.id \in 1 .. MaxUploads
    BY DEF Frame
  <1> QED
    BY <1>1, <1>2, BoundsAssumption DEF TypeOK, Directory, Content

\* A frame of the file that is being sent; only its header is a first one.
LEMMA AppendNumbered ==
    ASSUME TypeOK, Numbered, Sending, NEW h \in Frame, h.id = File.id,
           h.kind = "begin" => pc = "check",
           sent' = Append(sent, h), pc' # "check",
           UNCHANGED <<new, processing, uploads>>, Sending' => cur' = cur
    PROVE  Numbered'
  <1>1. /\ Len(sent) \in Nat /\ Len(sent') = Len(sent) + 1
        /\ \A k \in 1 .. Len(sent) : sent'[k] = sent[k]
        /\ sent'[Len(sent) + 1] = h
    BY Appended
  <1>2. \A k \in 1 .. Len(sent') : k \in 1 .. Len(sent) \/ k = Len(sent) + 1
    BY <1>1
  <1>3. Sending' => File' = File
    BY DEF File
  <1>4. \A f \in Files : new'[f] # None =>
           /\ new'[f].id <= uploads'
           /\ \A g \in Files : new'[g] # None /\ new'[g].id = new'[f].id => f = g
           /\ \A k \in 1 .. Len(sent') : sent'[k].id # new'[f].id
           /\ Sending' => new'[f].id # File'.id
    BY <1>1, <1>2, <1>3 DEF Numbered
  <1>5. \A k \in 1 .. Len(sent') : sent'[k].id <= uploads'
    BY <1>1, <1>2 DEF Numbered
  <1>6. \A k, l \in 1 .. Len(sent') :
          sent'[k].kind = "begin" /\ sent'[l].kind = "begin" /\ sent'[k].id = sent'[l].id
              => k = l
    BY <1>1, <1>2 DEF Numbered
  <1> QED
    BY <1>3, <1>4, <1>5, <1>6 DEF Numbered

LEMMA CreateNumbered ==
    ASSUME TypeOK, Numbered, NEW f \in Files, CreateFile(f)
    PROVE  Numbered'
  <1>1. /\ uploads' = uploads + 1
        /\ new' = [new EXCEPT ![f] = [id |-> uploads', size |-> 0]]
        /\ UNCHANGED <<processing, pc, cur, sent>>
    BY DEF CreateFile, monitor
  <1>2. File' = File /\ (Sending' <=> Sending)
    BY <1>1 DEF File, Sending
  <1>3. uploads \in Nat /\ \A k \in 1 .. Len(sent) : sent[k].id \in Nat
    BY FramesTyped, BoundsAssumption
  <1>4. Sending => File.id \in Nat
    BY FileTyped DEF Sending
  <1>5. new'[f].id = uploads + 1 /\ \A g \in Files : g # f => new'[g] = new[g]
    BY <1>1 DEF TypeOK, Directory
  <1>6. \A g \in Files : new[g] # None => new[g].id \in Nat
    BY FramesTyped
  <1> QED
    BY <1>1, <1>2, <1>3, <1>4, <1>5, <1>6 DEF Numbered

LEMMA WriteNumbered ==
    ASSUME TypeOK, Numbered, NEW f \in Files, WriteFile(f)
    PROVE  Numbered'
  <1>1. UNCHANGED <<processing, uploads, pc, cur, sent>>
    BY DEF WriteFile, monitor
  <1>2. \A g \in Files : (new'[g] # None => new[g] # None /\ new'[g].id = new[g].id)
    <2>1. new[f] # None /\ new[f] \in Content
      BY DEF WriteFile, TypeOK, Directory
    <2>2. new' = [new EXCEPT ![f] = [new[f] EXCEPT !.size = @ + 1]]
      BY DEF WriteFile
    <2>3. [new[f] EXCEPT !.size = @ + 1].id = new[f].id
      BY <2>1 DEF Content
    <2> QED
      BY <2>1, <2>2, <2>3 DEF TypeOK, Directory
  <1>3. File' = File /\ (Sending' <=> Sending)
    BY <1>1 DEF File, Sending
  <1> QED
    BY <1>1, <1>2, <1>3 DEF Numbered

LEMMA TakeNumbered ==
    ASSUME TypeOK, Numbered, TakeFile
    PROVE  Numbered'
  <1>1. PICK e \in pending : /\ e.name \in Files /\ Rename(e.name)
                             /\ new' = [new EXCEPT ![e.name] = None]
                             /\ processing' = [processing EXCEPT ![e.name] = new[e.name]]
                             /\ cur' = e
    BY DEF TakeFile
  <1>2. UNCHANGED <<uploads, sent>>
    BY DEF TakeFile
  <1>3. new[e.name] # None /\ File' = new[e.name]
    BY <1>1 DEF Rename, File, TypeOK, Directory
  <1>4. new'[e.name] = None /\ \A g \in Files : g # e.name => new'[g] = new[g]
    BY <1>1 DEF TypeOK, Directory
  <1> QED
    BY <1>1, <1>2, <1>3, <1>4 DEF Numbered

\* Every other step leaves the files of outgoing/new and what was sent, and
\* goes on with the same file or with none.
LEMMA OtherNumbered ==
    ASSUME Numbered, UNCHANGED <<new, uploads, sent>>,
           Sending' => UNCHANGED <<pc, cur, processing>>
    PROVE  Numbered'
  BY DEF Numbered, Sending, File

LEMMA NextNumbered == TypeOK /\ Numbered /\ [Next]_vars => Numbered'
  <1> SUFFICES ASSUME TypeOK, Numbered, [Next]_vars PROVE Numbered'
    OBVIOUS
  <1>1. CASE UNCHANGED vars
    BY <1>1, OtherNumbered DEF vars, disk, monitor
  <1>2. CASE Writers
    <2>1. ASSUME NEW f \in Files, CloseFile(f) PROVE Numbered'
      BY <2>1, OtherNumbered DEF CloseFile, monitor
    <2> QED
      BY <1>2, <2>1, CreateNumbered, WriteNumbered DEF Writers
  <1>3. CASE Tick \/ EnterDirectory \/ SkipFile \/ WalkEnds \/ EmptyFile \/ DialFails
             \/ FinishFile \/ MoveFails \/ InitFileTransfer \/ Crash
    <2>1. UNCHANGED <<new, uploads, sent>>
      BY <1>3 DEF Tick, EnterDirectory, SkipFile, WalkEnds, EmptyFile, DialFails,
                  FinishFile, MoveFails, InitFileTransfer, Crash, disk
    <2>2. ~Sending'
      BY <1>3 DEF Tick, EnterDirectory, SkipFile, WalkEnds, EmptyFile, DialFails,
                  FinishFile, MoveFails, InitFileTransfer, Crash, ProcessEnds, Sending
    <2> QED
      BY <2>1, <2>2, OtherNumbered
  <1>4. CASE TakeFile
    BY <1>4, TakeNumbered
  <1>5. CASE SendHeader
    <2> DEFINE h == [kind |-> "begin", id |-> File.id, size |-> cur.size]
    <2>1. h \in Frame /\ h.id = File.id /\ sent' = Append(sent, h)
      BY <1>5, HeaderTyped DEF SendHeader
    <2>2. pc = "check" /\ pc' = "data" /\ UNCHANGED <<new, processing, uploads, cur>>
      BY <1>5 DEF SendHeader, disk
    <2> HIDE DEF h
    <2> QED
      BY <2>1, <2>2, AppendNumbered DEF Sending
  <1>6. CASE SendPacket \/ ReadFails
    <2> DEFINE h == [kind |-> "data", id |-> File.id, n |-> counter]
    <2>1. h \in Frame /\ h.id = File.id /\ h.kind # "begin" /\ sent' = Append(sent, h)
      BY <1>6, PacketTyped DEF SendPacket, ReadFails, Packet
    <2>2. /\ pc = "data" /\ pc' # "check" /\ UNCHANGED <<new, processing, uploads>>
          /\ Sending' => cur' = cur
      BY <1>6 DEF SendPacket, ReadFails, ProcessEnds, Sending, disk
    <2> HIDE DEF h
    <2> QED
      BY <2>1, <2>2, AppendNumbered DEF Sending
  <1>7. CASE SendFooter
    <2> DEFINE h == [kind |-> "end", id |-> File.id]
    <2>1. h \in Frame /\ h.id = File.id /\ h.kind # "begin" /\ sent' = Append(sent, h)
      BY <1>7, FooterTyped DEF SendFooter
    <2>2. pc = "end" /\ pc' = "move" /\ UNCHANGED <<new, processing, uploads, cur>>
      BY <1>7 DEF SendFooter, disk, monitor
    <2> HIDE DEF h
    <2> QED
      BY <2>1, <2>2, AppendNumbered DEF Sending
  <1>8. CASE AddProxy
    BY <1>8, OtherNumbered DEF AddProxy, disk, monitor
  <1> QED
    BY <1>1, <1>2, <1>3, <1>4, <1>5, <1>6, <1>7, <1>8 DEF Next, Monitor

\* No submission is announced twice, for any faults: a file that leaves
\* outgoing/new never comes back, and none in there has been announced.
THEOREM AnnouncedOnce == Spec => []SentAtMostOnce
  <1>1. Init => Numbered
    BY DEF Init, Numbered, Sending
  <1>2. ASSUME TypeOK, Numbered
        PROVE  SentAtMostOnce
    <2> SUFFICES ASSUME NEW k \in Submissions PROVE Cardinality(Begins(k)) <= 1
      BY DEF SentAtMostOnce
    <2>1. CASE Begins(k) = {}
      BY <2>1, FS_EmptySet
    <2>2. CASE Begins(k) # {}
      <3>1. PICK m : m \in Begins(k)
        BY <2>2
      <3>2. Begins(k) = {m}
        BY <1>2, <3>1 DEF Begins, Numbered
      <3> QED
        BY <3>2, FS_Singleton
    <2> QED
      BY <2>1, <2>2
  <1> QED
    BY <1>1, <1>2, InitTyped, NextTyped, NextNumbered, PTL DEF Spec

(***************************************************************************)
(* The end of sent while a file is being sent: its header and n packets.   *)
(***************************************************************************)
Part(n) ==
    /\ n + 1 <= Len(sent)
    /\ sent[Len(sent) - n].kind = "begin" /\ sent[Len(sent) - n].id = File.id
    /\ \A k \in 0 .. n - 1 :
          sent[Len(sent) - n + 1 + k] = [kind |-> "data", id |-> File.id, n |-> k]

Whole ==
    \E k \in 1 .. Len(sent), last \in 0 .. MaxPackets :
        /\ Run(File.id, last, k)
        /\ File.id \notin failed => last = File.size

InOrder ==
    /\ pc = "data" => Part(counter)
    /\ pc = "end" =>
          /\ counter >= 1 /\ Part(counter)
          /\ File.id \notin failed => counter = File.size + 1
    /\ pc = "move" => Whole

OInv == InOrder /\ DoneWasSentWhole /\ SentInSequence

\* What was sent whole stays so.
LEMMA RunStays ==
    ASSUME TypeOK, NEW h \in Frame, sent' = Append(sent, h),
           NEW id, NEW size \in Nat, NEW k \in 1 .. Len(sent), Run(id, size, k)
    PROVE  k \in 1 .. Len(sent') /\ Run(id, size, k)'
  <1>1. /\ Len(sent) \in Nat /\ Len(sent') = Len(sent) + 1
        /\ \A m \in 1 .. Len(sent) : sent'[m] = sent[m]
    BY Appended
  <1>2. k + size + 2 <= Len(sent)
    BY DEF Run
  <1>3. /\ k + size + 2 \in 1 .. Len(sent)
        /\ \A n \in 0 .. size : k + 1 + n \in 1 .. Len(sent)
    BY <1>1, <1>2
  <1>4. /\ sent'[k] = sent[k] /\ sent'[k + size + 2] = sent[k + size + 2]
        /\ \A n \in 0 .. size : sent'[k + 1 + n] = sent[k + 1 + n]
    BY <1>1, <1>3
  <1>5. k + size + 2 <= Len(sent') /\ k \in 1 .. Len(sent')
    BY <1>1, <1>2
  <1> QED
    BY <1>4, <1>5 DEF Run

\* A frame that follows the last one keeps the sequence and what is done.
LEMMA AppendInOrder ==
    ASSUME TypeOK, DoneWasSentWhole, SentInSequence, NEW h \in Frame,
           sent' = Append(sent, h), done' = done, failed \subseteq failed',
           IF Len(sent) = 0 THEN h.kind = "begin" ELSE Follows(sent[Len(sent)], h)
    PROVE  DoneWasSentWhole' /\ SentInSequence'
  <1>1. /\ Len(sent) \in Nat /\ Len(sent') = Len(sent) + 1
        /\ \A m \in 1 .. Len(sent) : sent'[m] = sent[m]
        /\ sent'[Len(sent) + 1] = h
    BY Appended
  <1>2. ASSUME NEW f \in Files, done[f] # None
        PROVE  \E k \in 1 .. Len(sent'), last \in 0 .. MaxPackets :
                  /\ Run(done[f].id, last, k)'
                  /\ done[f].id \notin failed' => last = done[f].size
    <2>1. PICK k \in 1 .. Len(sent), last \in 0 .. MaxPackets :
              /\ Run(done[f].id, last, k)
              /\ done[f].id \notin failed => last = done[f].size
      BY <1>2 DEF DoneWasSentWhole
    <2>2. last \in Nat
      BY <2>1, BoundsAssumption
    <2>3. k \in 1 .. Len(sent') /\ Run(done[f].id, last, k)'
      BY <2>1, <2>2, RunStays
    <2> QED
      BY <2>1, <2>3
  <1>3. DoneWasSentWhole'
    BY <1>2 DEF DoneWasSentWhole, Run
  <1>4. \A m \in 2 .. Len(sent') : m = Len(sent) + 1 \/ (m \in 2 .. Len(sent) /\ m - 1 \in 1 .. Len(sent))
    BY <1>1
  <1>5. ASSUME NEW m \in 2 .. Len(sent')
        PROVE  Follows(sent'[m - 1], sent'[m])
    <2>1. CASE m = Len(sent) + 1
      <3>1. Len(sent) # 0 /\ m - 1 = Len(sent) /\ m - 1 \in 1 .. Len(sent)
        BY <1>1, <1>5, <2>1
      <3> QED
        BY <2>1, <3>1, <1>1
    <2>2. CASE m \in 2 .. Len(sent) /\ m - 1 \in 1 .. Len(sent)
      <3>1. sent'[m] = sent[m] /\ sent'[m - 1] = sent[m - 1]
        BY <2>2, <1>1
      <3> QED
        BY <2>2, <3>1 DEF SentInSequence
    <2> QED
      BY <2>1, <2>2, <1>4
  <1>6. sent'[1].kind = "begin"
    <2>1. CASE Len(sent) = 0
      BY <2>1, <1>1
    <2>2. CASE Len(sent) # 0
      BY <2>2, <1>1 DEF SentInSequence
    <2> QED
      BY <2>1, <2>2
  <1> QED
    BY <1>3, <1>5, <1>6 DEF SentInSequence, Follows

LEMMA HeaderInOrder ==
    ASSUME TypeOK, OInv, SendHeader
    PROVE  OInv'
  <1> DEFINE h == [kind |-> "begin", id |-> File.id, size |-> cur.size]
  <1>1. /\ h \in Frame /\ h.kind = "begin" /\ h.id = File.id /\ sent' = Append(sent, h)
        /\ pc' = "data" /\ counter' = 0
        /\ UNCHANGED <<processing, done, cur>> /\ failed \subseteq failed'
    BY HeaderTyped, CallTyped DEF SendHeader, disk
  <1> HIDE DEF h
  <1>2. Follows(sent[Len(sent)], h)
    BY <1>1 DEF Follows
  <1>3. DoneWasSentWhole' /\ SentInSequence'
    BY <1>1, <1>2, AppendInOrder DEF OInv
  <1>4. Part(counter)'
    <2>1. Len(sent) \in Nat /\ Len(sent') = Len(sent) + 1 /\ sent'[Len(sent) + 1] = h
      BY <1>1, Appended
    <2>2. File' = File
      BY <1>1 DEF File
    <2> QED
      BY <1>1, <2>1, <2>2 DEF Part
  <1> QED
    BY <1>1, <1>3, <1>4 DEF OInv, InOrder

\* The last of the frames of a file: its header or the packet before.
LEMMA LastFrame ==
    ASSUME NEW n \in Nat, Part(n), Len(sent) \in Nat
    PROVE  /\ Len(sent) > 0
           /\ n = 0 => sent[Len(sent)].kind = "begin" /\ sent[Len(sent)].id = File.id
           /\ n > 0 => sent[Len(sent)] = [kind |-> "data", id |-> File.id, n |-> n - 1]
  <1>1. Len(sent) > 0
    BY DEF Part
  <1>2. CASE n = 0
    <2>1. Len(sent) - n = Len(sent)
      BY <1>2
    <2> QED
      BY <1>1, <1>2, <2>1 DEF Part
  <1>3. CASE n > 0
    <2>1. n - 1 \in 0 .. n - 1 /\ Len(sent) - n + 1 + (n - 1) = Len(sent)
      BY <1>3
    <2> QED
      BY <1>1, <1>3, <2>1 DEF Part
  <1> QED
    BY <1>2, <1>3

LEMMA PacketInOrder ==
    ASSUME TypeOK, OInv, SendPacket \/ ReadFails
    PROVE  OInv'
  <1> DEFINE h == [kind |-> "data", id |-> File.id, n |-> counter]
  <1>1. /\ pc = "data" /\ Part(counter) /\ counter \in Nat /\ counter' = counter + 1
        /\ h \in Frame /\ h = [kind |-> "data", id |-> File.id, n |-> counter]
        /\ sent' = Append(sent, h)
        /\ UNCHANGED <<processing, done>> /\ failed \subseteq failed'
    BY PacketTyped, CallTyped DEF SendPacket, ReadFails, Call, Packet, OInv, InOrder, disk
  <1>2. h.kind = "data" /\ h.id = File.id /\ h.n = counter
    OBVIOUS
  <1> HIDE DEF h
  <1>3. /\ Len(sent) \in Nat /\ Len(sent') = Len(sent) + 1
        /\ \A m \in 1 .. Len(sent) : sent'[m] = sent[m]
        /\ sent'[Len(sent) + 1] = h
    BY <1>1, Appended
  <1>4. Len(sent) # 0 /\ Follows(sent[Len(sent)], h)
    <2>1. /\ Len(sent) > 0
          /\ counter = 0 => sent[Len(sent)].kind = "begin" /\ sent[Len(sent)].id = File.id
          /\ counter > 0 => sent[Len(sent)] = [kind |-> "data", id |-> File.id, n |-> counter - 1]
      BY <1>1, <1>3, LastFrame
    <2>2. CASE counter = 0
      BY <1>2, <1>3, <2>1, <2>2 DEF Follows
    <2>3. CASE counter > 0
      <3>1. /\ sent[Len(sent)].kind = "data" /\ sent[Len(sent)].id = File.id
            /\ sent[Len(sent)].n = h.n - 1
        BY <1>2, <2>1, <2>3
      <3> QED
        BY <1>2, <1>3, <2>1, <2>3, <3>1 DEF Follows
    <2> QED
      BY <1>1, <2>2, <2>3
  <1>5. DoneWasSentWhole' /\ SentInSequence'
    BY <1>1, <1>4, AppendInOrder DEF OInv
  <1>6. CASE pc' = "panic"
    BY <1>5, <1>6 DEF OInv, InOrder
  <1>7. CASE /\ cur' = cur
             /\ \/ pc' = (IF LastPacket THEN "end" ELSE "data")
                \/ pc' = "end" /\ File.id \in failed'
    <2>1. File' = File
      BY <1>1, <1>7 DEF File
    <2>2. Part(counter)'
      <3>1. Len(sent') - counter' = Len(sent) - counter /\ counter' + 1 <= Len(sent')
            /\ Len(sent) - counter \in 1 .. Len(sent)
        BY <1>1, <1>3 DEF Part
      <3>2. sent'[Len(sent') - counter'] = sent[Len(sent) - counter]
        BY <1>3, <3>1
      <3>3. ASSUME NEW k \in 0 .. counter' - 1
            PROVE  sent'[Len(sent') - counter' + 1 + k]
                      = [kind |-> "data", id |-> File.id, n |-> k]
        <4>1. CASE k = counter
          <5>1. Len(sent') - counter' + 1 + k = Len(sent) + 1
            BY <1>1, <1>3, <4>1
          <5> QED
            BY <1>1, <1>3, <4>1, <5>1
        <4>2. CASE k \in 0 .. counter - 1
          <5>1. Len(sent') - counter' + 1 + k = Len(sent) - counter + 1 + k
                /\ Len(sent) - counter + 1 + k \in 1 .. Len(sent)
            BY <1>1, <1>3, <3>1, <4>2
          <5> QED
            BY <1>1, <1>3, <4>2, <5>1 DEF Part
        <4>3. counter \in Nat /\ counter' = counter + 1
          BY <1>1
        <4>4. k = counter \/ k \in 0 .. counter - 1
          BY <3>3, <4>3
        <4> QED
          BY <4>1, <4>2, <4>4
      <3> QED
        BY <1>1, <2>1, <3>1, <3>2, <3>3 DEF Part
    <2>3. LastPacket => counter' = File.size + 1
      BY <1>1, FileTyped, BoundsAssumption DEF LastPacket, TypeOK, File
    <2>4. pc' = "data" \/ (pc' = "end" /\ (LastPacket \/ File.id \in failed'))
      BY <1>7 DEF LastPacket
    <2>5. counter' >= 1
      BY <1>1
    <2> QED
      BY <1>5, <2>1, <2>2, <2>3, <2>4, <2>5 DEF OInv, InOrder
  <1> QED
    BY <1>6, <1>7 DEF SendPacket, ReadFails, CallFails, ProcessEnds

LEMMA FooterInOrder ==
    ASSUME TypeOK, OInv, SendFooter
    PROVE  OInv'
  <1>1. PICK id : id = File.id
    OBVIOUS
  <1>2. PICK last \in 0 .. MaxPackets : counter = last + 1
    BY BoundsAssumption DEF SendFooter, OInv, InOrder, TypeOK
  <1>3. PICK h : h = [kind |-> "end", id |-> id]
    OBVIOUS
  <1>4. /\ pc = "end" /\ Part(counter) /\ pc' = "move" /\ last \in Nat
        /\ h \in Frame /\ sent' = Append(sent, h)
        /\ UNCHANGED <<processing, done, cur>>
    BY <1>1, <1>2, <1>3, FooterTyped, BoundsAssumption
    DEF SendFooter, OInv, InOrder, disk, monitor
  <1>5. /\ Len(sent) \in Nat /\ Len(sent') = Len(sent) + 1
        /\ \A m \in 1 .. Len(sent) : sent'[m] = sent[m]
        /\ sent'[Len(sent) + 1] = h
    BY <1>4, Appended
  <1>6. Len(sent) # 0 /\ Follows(sent[Len(sent)], h)
    <2>1. /\ Len(sent) > 0
          /\ sent[Len(sent)] = [kind |-> "data", id |-> id, n |-> counter - 1]
      BY <1>1, <1>2, <1>4, <1>5, LastFrame
    <2> QED
      BY <1>3, <2>1, <1>5 DEF Follows
  <1>7. failed \subseteq failed'
    BY CallTyped DEF SendFooter
  <1>8. DoneWasSentWhole' /\ SentInSequence'
    BY <1>4, <1>6, <1>7, AppendInOrder DEF OInv
  <1>9. File'.id = id /\ File'.size = File.size
    BY <1>1, <1>4 DEF File
  <1>10. PICK k : k = Len(sent) - counter
    OBVIOUS
  <1>11. k \in 1 .. Len(sent) /\ k + last + 2 = Len(sent')
    BY <1>2, <1>4, <1>5, <1>10 DEF Part
  <1>12. sent'[k].kind = "begin" /\ sent'[k].id = id
    BY <1>1, <1>4, <1>5, <1>10, <1>11 DEF Part
  <1>13. ASSUME NEW n \in 0 .. last
         PROVE  sent'[k + 1 + n] = [kind |-> "data", id |-> id, n |-> n]
    <2>1. /\ n \in 0 .. counter - 1 /\ k + 1 + n \in 1 .. Len(sent)
          /\ Len(sent) - counter + 1 + n = k + 1 + n
      BY <1>2, <1>4, <1>5, <1>10, <1>11
    <2> QED
      BY <1>1, <1>4, <1>5, <2>1 DEF Part
  <1>14. sent'[k + last + 2] = [kind |-> "end", id |-> id]
    BY <1>3, <1>5, <1>11
  <1>15. k \in 1 .. Len(sent') /\ Run(id, last, k)'
    BY <1>5, <1>11, <1>12, <1>13, <1>14 DEF Run
  <1>16. id \notin failed' => last = File.size
    <2>1. id \notin failed => counter = File.size + 1
      BY <1>1, <1>4 DEF OInv, InOrder
    <2>2. File.size \in Nat
      BY <1>4, FileTyped, BoundsAssumption
    <2> QED
      BY <1>2, <1>4, <1>7, <2>1, <2>2
  <1>17. Whole'
    BY <1>2, <1>9, <1>15, <1>16 DEF Whole, Run
  <1> QED
    BY <1>4, <1>8, <1>17 DEF OInv, InOrder

\* Every other step leaves what was sent, and what is done but for the file
\* that was sent in one piece.
LEMMA OtherInOrder ==
    ASSUME OInv, UNCHANGED <<sent, done, failed>>,
           pc' \in {"data", "end", "move"} => UNCHANGED <<pc, counter, cur, processing>>
    PROVE  OInv'
  <1>1. DoneWasSentWhole' /\ SentInSequence'
    BY DEF OInv, DoneWasSentWhole, SentInSequence, Run
  <1>2. InOrder'
    BY DEF OInv, InOrder, Part, Whole, Run, File
  <1> QED
    BY <1>1, <1>2 DEF OInv

LEMMA FinishInOrder ==
    ASSUME TypeOK, OInv, FinishFile
    PROVE  OInv'
  <1>1. /\ done' = [done EXCEPT ![cur.name] = File] /\ pc' = "walk"
        /\ UNCHANGED <<sent, failed>>
    BY DEF FinishFile
  <1>0. Whole
    BY DEF FinishFile, OInv, InOrder
  <1>2. \A f \in Files : done'[f] = done[f] \/ done'[f] = File
    BY <1>1 DEF TypeOK, Directory
  <1>3. DoneWasSentWhole'
    <2> SUFFICES ASSUME NEW f \in Files, done'[f] # None
                 PROVE  \E k \in 1 .. Len(sent), last \in 0 .. MaxPackets :
                            /\ Run(done'[f].id, last, k)
                            /\ done'[f].id \notin failed => last = done'[f].size
      BY <1>1 DEF DoneWasSentWhole, Run
    <2>1. CASE done'[f] = File
      BY <1>0, <2>1 DEF Whole
    <2>2. CASE done'[f] = done[f]
      BY <2>2 DEF OInv, DoneWasSentWhole
    <2> QED
      BY <1>2, <2>1, <2>2
  <1>4. SentInSequence'
    BY <1>1 DEF OInv, SentInSequence
  <1> QED
    BY <1>1, <1>3, <1>4 DEF OInv, InOrder

LEMMA NextInOrder == TypeOK /\ OInv /\ [Next]_vars => OInv'
  <1> SUFFICES ASSUME TypeOK, OInv, [Next]_vars PROVE OInv'
    OBVIOUS
  <1>1. CASE UNCHANGED vars
    BY <1>1, OtherInOrder DEF vars, disk, monitor
  <1>2. CASE Writers
    BY <1>2, OtherInOrder DEF Writers, CreateFile, WriteFile, CloseFile, monitor
  <1>3. CASE Tick \/ EnterDirectory \/ TakeFile \/ SkipFile \/ WalkEnds \/ EmptyFile
             \/ DialFails \/ MoveFails \/ InitFileTransfer \/ Crash
    <2>1. UNCHANGED <<done, sent, failed>>
      BY <1>3 DEF Tick, EnterDirectory, TakeFile, SkipFile, WalkEnds, EmptyFile, DialFails,
                  MoveFails, InitFileTransfer, Crash, disk
    <2>2. pc' \notin {"data", "end", "move"}
      BY <1>3 DEF Tick, EnterDirectory, TakeFile, SkipFile, WalkEnds, EmptyFile, DialFails,
                  MoveFails, InitFileTransfer, Crash, ProcessEnds
    <2> QED
      BY <2>1, <2>2, OtherInOrder
  <1>4. CASE AddProxy
    BY <1>4, OtherInOrder DEF AddProxy, disk, monitor
  <1> QED
    BY <1>1, <1>2, <1>3, <1>4, HeaderInOrder, PacketInOrder, FooterInOrder, FinishInOrder
    DEF Next, Monitor

LEMMA InitInOrder == Init => OInv
  <1>1. Init => Len(sent) = 0
    BY EmptySeq DEF Init
  <1> QED
    BY <1>1 DEF Init, OInv, InOrder, DoneWasSentWhole, SentInSequence

\* What the socket is given is whole runs of one file after the other, each cut
\* short at most: a receiver that knows a file by its header is not misled,
\* wherever a process dies and another one goes on.
THEOREM Sequence == Spec => []SentInSequence
  <1>1. OInv => SentInSequence
    BY DEF OInv
  <1> QED
    BY <1>1, InitTyped, NextTyped, InitInOrder, NextInOrder, PTL DEF Spec

\* A file that is in outgoing/done was sent in one piece, and whole if no Read
\* or Write of it failed, whose errors the code passes over.
THEOREM DoneWhole == Spec => []DoneWasSentWhole
  <1>1. OInv => DoneWasSentWhole
    BY DEF OInv
  <1> QED
    BY <1>1, InitTyped, NextTyped, InitInOrder, NextInOrder, PTL DEF Spec

(***************************************************************************)
(* What a listing tells as long as the submission it saw is there: it was  *)
(* closed then, so it has still the size it had.                           *)
(***************************************************************************)
Current(e) ==
    e.name \in Files /\ e.is # 0 =>
        /\ e.is <= uploads
        /\ new[e.name] # None /\ new[e.name].id = e.is =>
              e.name \notin writing /\ new[e.name].size = e.size

Announced ==
    /\ \A e \in pending : Current(e)
    /\ pc = "check" /\ cur.is = File.id => cur.size = File.size
    /\ pc \in {"data", "end", "move"} /\ cur.is = File.id =>
          \E k \in 1 .. Len(sent) : /\ sent[k].kind = "begin" /\ sent[k].id = File.id
                                    /\ sent[k].size = File.size

LEMMA ListingCurrent ==
    ASSUME TypeOK, Numbered, NEW d, NEW e \in Listing(d)
    PROVE  Current(e)
  <1>1. CASE e.is = 0
    BY <1>1 DEF Current
  <1>2. CASE e.is # 0
    <2>1. PICK f \in Files : /\ new[f] # None
                             /\ e = [name |-> f, size |-> new[f].size,
                                     is |-> IF f \in writing THEN 0 ELSE new[f].id]
      BY <1>2 DEF Listing
    <2>2. e.name = f /\ e.size = new[f].size /\ f \notin writing /\ e.is = new[f].id
      BY <1>2, <2>1
    <2> QED
      BY <2>1, <2>2 DEF Current, Numbered
  <1> QED
    BY <1>1, <1>2

\* A new submission has a number no listing has seen, and a file that was
\* closed when it was listed is not written to.
LEMMA WritersCurrent ==
    ASSUME TypeOK, Numbered, Announced, NEW f \in Files,
           CreateFile(f) \/ WriteFile(f) \/ CloseFile(f)
    PROVE  Announced'
  <1>1. UNCHANGED <<processing, pc, pending, cur, sent>>
    BY DEF CreateFile, WriteFile, CloseFile, monitor
  <1>2. ASSUME NEW e \in pending
        PROVE  Current(e)'
    <2> SUFFICES ASSUME e.name \in Files, e.is # 0
                 PROVE  /\ e.is <= uploads'
                        /\ new'[e.name] # None /\ new'[e.name].id = e.is =>
                              e.name \notin writing' /\ new'[e.name].size = e.size
      BY DEF Current
    <2>1. /\ e.is <= uploads
          /\ new[e.name] # None /\ new[e.name].id = e.is =>
                e.name \notin writing /\ new[e.name].size = e.size
      BY <1>2 DEF Announced, Current
    <2>2. e.is \in Nat /\ uploads \in Nat
      BY <1>2, FramesTyped, BoundsAssumption DEF TypeOK, Entry
    <2>3. CASE CreateFile(f)
      <3>1. /\ uploads' = uploads + 1 /\ writing' = writing \cup {f}
            /\ new' = [new EXCEPT ![f] = [id |-> uploads', size |-> 0]]
        BY <2>3 DEF CreateFile
      <3>2. CASE e.name = f
        <4>1. new'[e.name].id = uploads + 1
          BY <3>1, <3>2 DEF TypeOK, Directory
        <4> QED
          BY <3>1, <4>1, <2>1, <2>2
      <3>3. CASE e.name # f
        <4>1. new'[e.name] = new[e.name]
          BY <3>1, <3>3 DEF TypeOK, Directory
        <4> QED
          BY <3>1, <3>3, <4>1, <2>1, <2>2
      <3> QED
        BY <3>2, <3>3
    <2>4. CASE WriteFile(f)
      <3>1. /\ f \in writing /\ UNCHANGED <<writing, uploads>>
            /\ new' = [new EXCEPT ![f] = [new[f] EXCEPT !.size = @ + 1]]
        BY <2>4 DEF WriteFile
      <3>2. CASE e.name = f
        <4>1. new[f] \in Content /\ new[f] # None
          BY <3>1 DEF TypeOK, Directory
        <4>2. new'[f] = [new[f] EXCEPT !.size = @ + 1]
          BY <3>1 DEF TypeOK, Directory
        <4>3. new'[f].id = new[f].id
          BY <4>1, <4>2 DEF Content
        <4> QED
          BY <3>1, <3>2, <4>1, <4>3, <2>1
      <3>3. CASE e.name # f
        <4>1. new'[e.name] = new[e.name]
          BY <3>1, <3>3 DEF TypeOK, Directory
        <4> QED
          BY <3>1, <4>1, <2>1
      <3> QED
        BY <3>2, <3>3
    <2>5. CASE CloseFile(f)
      BY <2>5, <2>1 DEF CloseFile
    <2> QED
      BY <2>3, <2>4, <2>5
  <1> QED
    BY <1>1, <1>2 DEF Announced, File

LEMMA TakeCurrent ==
    ASSUME TypeOK, Numbered, Announced, TakeFile
    PROVE  Announced'
  <1>1. PICK e \in pending : /\ e.name \in Files /\ Rename(e.name)
                             /\ new' = [new EXCEPT ![e.name] = None]
                             /\ processing' = [processing EXCEPT ![e.name] = new[e.name]]
                             /\ pending' = pending \ {e}
                             /\ cur' = e
    BY DEF TakeFile
  <1>2. pc' = "check" /\ UNCHANGED <<writing, uploads>>
    BY DEF TakeFile
  <1>3. File' = new[e.name] /\ new[e.name] # None /\ new[e.name].id # 0
    BY <1>1, FramesTyped DEF File, TypeOK, Directory, Rename
  <1>4. \A g \in Files : new'[g] = None \/ new'[g] = new[g]
    BY <1>1 DEF TypeOK, Directory
  <1>5. \A o \in pending' : Current(o)'
    BY <1>1, <1>2, <1>4 DEF Announced, Current
  <1>6. e.is = File'.id => e.size = File'.size
    BY <1>1, <1>3 DEF Announced, Current
  <1> QED
    BY <1>1, <1>2, <1>5, <1>6 DEF Announced

LEMMA HeaderCurrent ==
    ASSUME TypeOK, Announced, SendHeader
    PROVE  Announced'
  <1>1. PICK h \in Frame : h = [kind |-> "begin", id |-> File.id, size |-> cur.size]
    BY HeaderTyped
  <1>2. /\ pc = "check" /\ pc' = "data" /\ sent' = Append(sent, h)
        /\ UNCHANGED <<new, processing, writing, uploads, pending, cur>>
    BY <1>1 DEF SendHeader, disk
  <1>3. File' = File /\ \A e : Current(e)' <=> Current(e)
    BY <1>2 DEF File, Current
  <1>4. Len(sent) + 1 \in 1 .. Len(sent') /\ sent'[Len(sent) + 1] = h
    BY <1>2, Appended
  <1> QED
    BY <1>1, <1>2, <1>3, <1>4 DEF Announced

\* What was announced stays so.
LEMMA AppendCurrent ==
    ASSUME TypeOK, Announced, NEW h \in Frame, sent' = Append(sent, h),
           UNCHANGED <<new, processing, uploads>>, writing' \subseteq writing,
           pending' \subseteq pending, pc' # "check",
           pc' \in {"data", "end", "move"} => pc \in {"data", "end", "move"} /\ cur' = cur
    PROVE  Announced'
  <1>1. \A e \in pending' : Current(e)'
    BY DEF Announced, Current
  <1>2. \A k \in 1 .. Len(sent) : k \in 1 .. Len(sent') /\ sent'[k] = sent[k]
    BY Appended
  <1> QED
    BY <1>1, <1>2 DEF Announced, File

LEMMA OtherCurrent ==
    ASSUME Announced, UNCHANGED <<new, uploads, sent>>, writing' \subseteq writing,
           \A e \in pending' : e \in pending \/ Current(e),
           Sending' => UNCHANGED <<pc, cur, processing>>
    PROVE  Announced'
  <1>1. \A e \in pending' : Current(e)'
    BY DEF Announced, Current
  <1> QED
    BY <1>1 DEF Announced, File, Sending

LEMMA NextCurrent == TypeOK /\ Numbered /\ Announced /\ [Next]_vars => Announced'
  <1> SUFFICES ASSUME TypeOK, Numbered, Announced, [Next]_vars PROVE Announced'
    OBVIOUS
  <1>1. CASE UNCHANGED vars
    BY <1>1, OtherCurrent DEF vars, disk, monitor
  <1>2. CASE Tick \/ EnterDirectory
    <2>1. /\ UNCHANGED <<new, uploads, sent, writing>> /\ ~Sending'
          /\ \A e \in pending' : e \in pending \/ \E d : e \in Listing(d)
      BY <1>2 DEF Tick, EnterDirectory, disk, Sending
    <2> QED
      BY <2>1, ListingCurrent, OtherCurrent
  <1>3. CASE SkipFile \/ WalkEnds \/ EmptyFile \/ DialFails \/ FinishFile \/ MoveFails
             \/ InitFileTransfer \/ Crash
    <2>1. /\ UNCHANGED <<new, uploads, sent>> /\ ~Sending'
          /\ writing' \subseteq writing /\ pending' \subseteq pending
      BY <1>3 DEF SkipFile, WalkEnds, EmptyFile, DialFails, FinishFile, MoveFails,
                  InitFileTransfer, Crash, ProcessEnds, disk, monitor, Sending
    <2> QED
      BY <2>1, OtherCurrent
  <1>4. CASE SendPacket \/ ReadFails
    <2>1. PICK h \in Frame : sent' = Append(sent, h)
      BY <1>4, PacketTyped DEF SendPacket, ReadFails, Packet
    <2>2. /\ UNCHANGED <<new, processing, uploads>> /\ pc = "data" /\ pc' # "check"
          /\ writing' \subseteq writing /\ pending' \subseteq pending
          /\ pc' \in {"data", "end", "move"} => cur' = cur
      BY <1>4 DEF SendPacket, ReadFails, ProcessEnds, disk
    <2> QED
      BY <2>1, <2>2, AppendCurrent
  <1>5. CASE SendFooter
    <2>1. PICK h \in Frame : sent' = Append(sent, h)
      BY <1>5, FooterTyped DEF SendFooter
    <2>2. /\ UNCHANGED <<new, processing, uploads, writing, pending, cur>>
          /\ pc = "end" /\ pc' = "move"
      BY <1>5 DEF SendFooter, disk, monitor
    <2> QED
      BY <2>1, <2>2, AppendCurrent
  <1>6. CASE AddProxy
    BY <1>6, OtherCurrent DEF AddProxy, disk, monitor
  <1> QED
    BY <1>1, <1>2, <1>3, <1>4, <1>5, <1>6, WritersCurrent, TakeCurrent, HeaderCurrent
    DEF Next, Monitor, Writers

\* The header of a file has its size, if it was there and closed when its
\* directory was listed: nobody writes to a closed submission, and a new one
\* of the same name has another number.
THEOREM AnnouncedRight == Spec => []AnnouncedSize
  <1>1. Init => Numbered /\ Announced
    BY DEF Init, Numbered, Sending, Announced
  <1>2. ASSUME Announced PROVE AnnouncedSize
    BY <1>2 DEF Announced, AnnouncedSize, Begins
  <1> QED
    BY <1>1, <1>2, InitTyped, NextTyped, NextNumbered, NextCurrent, PTL DEF Spec
=============================================================================
