-------------------------- MODULE CacheFilesProofs --------------------------
(***************************************************************************)
(* Proofs about CacheFiles, for every interval, number of minutes, of      *)
(* messages, of starts of the process and of troubles: TypeOK, and         *)
(* KeepsOrder, KeepsEveryMessage, FiledByTime and Framed from what a step  *)
(* does to the content of the files; LosesOnlyTheLast, that CacheFiles     *)
(* implements MessageLog.                                                  *)
(***************************************************************************)
EXTENDS CacheFiles, TLAPS

LEMMA TokensTyped ==
    /\ Open \in Token /\ Comma \in Token /\ Close \in Token /\ Cut \in Token
    /\ Void \in Token
    /\ \A k \in Messages : Msg(k) \in Token
  BY DEF Token

\* Between its receipt and its data a message is at hand.
Typed == TypeOK /\ (AtHand => received > 0)

LEMMA InitTyped == Init => Typed
  BY IntervalAssumption, BoundsAssumption, ConsolesAssumption
  DEF Init, Typed, AtHand, TypeOK, Minutes, Messages

LEMMA CloseCacheEnds ==
    ASSUME TypeOK, file # None
    PROVE  /\ CloseCache = [disk EXCEPT ![file] =
                              disk[file] \o buffer \o <<Close>>]
           /\ CloseCache[file] # None
  <1>1. disk[file] \in Seq(Token) /\ buffer \in Seq(Token)
    BY DEF TypeOK
  <1>2. disk[file] \o buffer \o <<Close>> \in Seq(Token)
    BY <1>1, TokensTyped
  <1>3. CloseCache = [disk EXCEPT ![file] = disk[file] \o buffer \o <<Close>>]
    BY DEF CloseCache
  <1> QED
    BY <1>2, <1>3, NoneAssumption DEF TypeOK

LEMMA CloseCacheTyped ==
    ASSUME TypeOK
    PROVE  CloseCache \in [Minutes -> Seq(Token) \cup {None}]
  <1>1. CASE file = None
    BY <1>1 DEF CloseCache, TypeOK
  <1>2. CASE file # None
    <2>1. disk[file] \in Seq(Token) /\ <<Close>> \in Seq(Token)
      BY <1>2, TokensTyped DEF TypeOK
    <2>2. disk[file] \o buffer \o <<Close>> \in Seq(Token)
      BY <2>1 DEF TypeOK
    <2> QED
      BY <1>2, <2>2 DEF CloseCache, TypeOK
  <1> QED
    BY <1>1, <1>2

LEMMA TroubleTyped ==
    ASSUME TypeOK, Trouble \/ UNCHANGED troubles
    PROVE  troubles' \in 0 .. MaxTroubles /\ troubles' \in {troubles, troubles + 1}
  BY BoundsAssumption DEF TypeOK, Trouble

\* The files, when CreateFile opens the new one.
Continued == [CloseCache EXCEPT ![now] = IF @ = None THEN <<>> ELSE @]

LEMMA CreateOpens ==
    ASSUME CreateFile
    PROVE  /\ buffer' = <<>> /\ flushed' = 0 /\ firstWrite' = TRUE
           /\ \/ disk' = Continued /\ file' = now /\ UNCHANGED troubles
              \/ disk' = CloseCache /\ file' = None /\ Trouble
  BY DEF CreateFile, Opens, Continued

LEMMA CreateFileTyped ==
    ASSUME TypeOK, CreateFile
    PROVE  /\ disk' \in [Minutes -> Seq(Token) \cup {None}]
           /\ file' \in Minutes \cup {None}
           /\ file' # None => disk'[file'] # None
           /\ buffer' = <<>> /\ buffer' \in Seq(Token) /\ flushed' \in 0 .. Len(buffer')
           /\ firstWrite' \in BOOLEAN
           /\ troubles' \in 0 .. MaxTroubles /\ troubles' \in {troubles, troubles + 1}
  <1>0. <<>> \in Seq(Token)
    OBVIOUS
  <1>1. now \in Minutes /\ <<>> \in Seq(Token) /\ <<>> # None
    BY <1>0, NoneAssumption DEF TypeOK
  <1>2. CloseCache \in [Minutes -> Seq(Token) \cup {None}]
    BY CloseCacheTyped
  <1>3. Continued \in [Minutes -> Seq(Token) \cup {None}] /\ Continued[now] # None
    BY <1>1, <1>2 DEF Continued
  <1>4. troubles' \in 0 .. MaxTroubles /\ troubles' \in {troubles, troubles + 1}
    BY CreateOpens, TroubleTyped
  <1>5. /\ disk' \in [Minutes -> Seq(Token) \cup {None}]
        /\ file' \in Minutes \cup {None}
        /\ file' # None => disk'[file'] # None
    BY <1>1, <1>2, <1>3, CreateOpens
  <1>6. buffer' = <<>> /\ flushed' = 0 /\ firstWrite' = TRUE /\ Len(<<>>) = 0
    BY CreateOpens
  <1>7. flushed' \in 0 .. Len(buffer')
    BY <1>6
  <1> QED
    BY <1>1, <1>4, <1>5, <1>6, <1>7

LEMMA PutTyped ==
    ASSUME TypeOK, NEW t \in Token, Put(t)
    PROVE  /\ UNCHANGED <<disk, file, flushed>>
           /\ buffer' \in Seq(Token) /\ flushed' \in 0 .. Len(buffer')
           /\ file' = None => buffer' = <<>>
  <1>1. buffer \in Seq(Token) /\ flushed \in 0 .. Len(buffer) /\ Len(buffer) \in Nat
    BY DEF TypeOK
  <1>2. /\ Append(buffer, t) \in Seq(Token)
        /\ Len(Append(buffer, t)) = Len(buffer) + 1
    BY <1>1
  <1>3. flushed \in 0 .. Len(buffer) + 1
    BY <1>1
  <1> QED
    BY <1>1, <1>2, <1>3 DEF Put, TypeOK

LEMMA LeaveTyped ==
    ASSUME TypeOK, file # None, NEW n \in 0 .. Len(buffer), Leave(n)
    PROVE  /\ disk' \in [Minutes -> Seq(Token) \cup {None}]
           /\ disk'[file] # None
           /\ \A g \in Minutes \ {file} : disk'[g] = disk[g]
           /\ file' = None /\ buffer' = <<>> /\ buffer' \in Seq(Token)
           /\ flushed' \in 0 .. Len(buffer')
  <1>1. disk[file] \in Seq(Token) /\ SubSeq(buffer, 1, n) \in Seq(Token)
    BY DEF TypeOK
  <1>2. disk[file] \o SubSeq(buffer, 1, n) \o <<Cut>> \in Seq(Token)
    BY <1>1, TokensTyped
  <1>3. disk' = [disk EXCEPT ![file] = disk[file] \o SubSeq(buffer, 1, n) \o <<Cut>>]
    BY DEF Leave
  <1>4. file' = None /\ buffer' = <<>> /\ flushed' = 0 /\ Len(<<>>) = 0
    BY DEF Leave
  <1>5. flushed' \in 0 .. Len(buffer') /\ buffer' \in Seq(Token)
    BY <1>4
  <1> QED
    BY <1>2, <1>3, <1>4, <1>5, NoneAssumption DEF TypeOK

\* What a step does to the files: nothing, or it creates one, puts a token into
\* the buffer, or leaves the open one.
Stays == UNCHANGED <<disk, file, buffer>>
Puts == \E t \in Token : Put(t) /\ (t.mark = "msg" => Data /\ t = Msg(received))
Leaves ==
    /\ file # None
    /\ \E n \in 0 .. Len(buffer) :
          Leave(n) /\ (n = Len(buffer) \/ troubles' = troubles + 1)

LEMMA Marks ==
    /\ \A k : Msg(k).mark = "msg" /\ Msg(k).k = k
    /\ Open.mark = "[" /\ Comma.mark = "," /\ Close.mark = "]" /\ Cut.mark = "cut"
    /\ Open.k = 0 /\ Comma.k = 0 /\ Close.k = 0 /\ Cut.k = 0
    /\ Void.mark = "void" /\ Void.k = 0
  BY DEF Msg, Open, Comma, Close, Void, Cut, Mark

LEMMA StepKind ==
    ASSUME Typed, [Next]_vars
    PROVE  Stays \/ CreateFile \/ Puts \/ Leaves
  <1> USE DEF Typed
  <1>1. CASE Minute \/ Receive \/ Returns \/ Flush \/ Exit \/ UNCHANGED vars
    BY <1>1 DEF Minute, Receive, Returns, Flush, Exit, vars, memory, stream, Stays
  <1>2. CASE InitCache \/ Rotate
    BY <1>2 DEF InitCache, Rotate
  <1>3. CASE Separator \/ DataFails \/ WriteEnd
    BY <1>3, TokensTyped, Marks DEF Separator, DataFails, WriteEnd, Puts
  <1>4. CASE Data
    <2>1. Msg(received) \in Token
      BY <1>4, TokensTyped DEF Data, AtHand, TypeOK, Messages
    <2> QED
      BY <1>4, <2>1 DEF Data, Puts
  <1>5. CASE CloseGzip \/ CloseFile \/ Overlap \/ Killed
    <2>1. CASE file = None
      BY <1>5, <2>1 DEF CloseGzip, CloseFile, Overlap, Killed, stream, Stays
    <2>2. CASE file # None
      <3>1. flushed .. Len(buffer) \subseteq 0 .. Len(buffer)
        BY DEF TypeOK
      <3> QED
        BY <1>5, <2>2, <3>1
        DEF CloseGzip, CloseFile, Overlap, Killed, Trouble, Leaves
    <2> QED
      BY <2>1, <2>2
  <1> QED
    BY <1>1, <1>2, <1>3, <1>4, <1>5 DEF Next, CloseConsole

\* What a step does to the rest.
LEMMA StepFrame ==
    ASSUME Typed, [Next]_vars
    PROVE  /\ UNCHANGED console
           /\ Receive \/ UNCHANGED <<received, time>>
           /\ (Minute /\ Stays /\ now' = now + 1) \/ UNCHANGED now
           /\ AtHand' => AtHand \/ Receive
           /\ Trouble \/ UNCHANGED troubles
           /\ Data => UNCHANGED troubles
  <1>1. CASE Minute \/ UNCHANGED vars
    BY <1>1 DEF Minute, Data, vars, memory, stream, Stays, AtHand
  <1>2. CASE InitCache \/ Rotate
    BY <1>2, CreateOpens DEF InitCache, Rotate, Data, AtHand
  <1>3. CASE Receive
    BY <1>3 DEF Receive, Data
  <1>4. CASE Separator \/ Data \/ DataFails
    BY <1>4 DEF Separator, Data, DataFails, AtHand
  <1>5. CASE Returns \/ WriteEnd \/ Flush \/ CloseGzip \/ CloseFile
    <2>1. UNCHANGED <<console, now, writer, received, time>>
      BY <1>5 DEF Returns, WriteEnd, Flush, CloseGzip, CloseFile, Closing
    <2>2. Trouble \/ UNCHANGED troubles
      BY <1>5 DEF Returns, WriteEnd, Flush, CloseGzip, CloseFile, stream
    <2>3. ~Data
      BY <1>5 DEF Returns, WriteEnd, Flush, CloseGzip, CloseFile, Closing, Data
    <2> QED
      BY <2>1, <2>2, <2>3 DEF AtHand
  <1>6. CASE Overlap \/ Exit \/ Killed
    BY <1>6 DEF Overlap, Exit, Killed, Ends, Data, AtHand
  <1> QED
    BY <1>1, <1>2, <1>3, <1>4, <1>5, <1>6 DEF Next, CloseConsole

LEMMA NextTypeOK == Typed /\ [Next]_vars => TypeOK'
  <1> SUFFICES ASSUME Typed, TypeOK, [Next]_vars PROVE TypeOK'
    BY DEF Typed
  <1>1. CASE Minute
    <2>1. now' \in Minutes
      BY <1>1, BoundsAssumption DEF Minute, Minutes, TypeOK
    <2> QED
      BY <1>1, <2>1 DEF Minute, memory, stream, TypeOK
  <1>2. CASE UNCHANGED vars
    BY <1>2 DEF vars, memory, stream, TypeOK
  <1>3. CASE InitCache
    <2>1. starts' \in 0 .. MaxStarts
      BY <1>3, BoundsAssumption DEF InitCache, TypeOK
    <2> QED
      BY <1>3, <2>1, CreateFileTyped, IntervalAssumption DEF InitCache, TypeOK
  <1>4. CASE Receive
    <2>1. now % Interval \in 0 .. Interval
      BY IntervalAssumption, BoundsAssumption DEF TypeOK, Minutes
    <2>2. received' \in 0 .. MaxMessages
      BY <1>4, BoundsAssumption DEF Receive, TypeOK
    <2>3. time' \in [Messages -> Minutes]
      BY <1>4 DEF Receive, TypeOK
    <2>4. troubles' \in 0 .. MaxTroubles
      BY <1>4, TroubleTyped DEF Receive
    <2> QED
      BY <1>4, <2>1, <2>2, <2>3, <2>4 DEF Receive, stream, TypeOK
  <1>5. CASE Rotate
    BY <1>5, CreateFileTyped DEF Rotate, TypeOK
  <1>6. CASE Separator
    <2>1. PICK t \in Token : Put(t)
      BY <1>6, TokensTyped DEF Separator
    <2> QED
      BY <1>6, <2>1, PutTyped DEF Separator, TypeOK
  <1>7. CASE Data \/ DataFails
    <2>1. received \in Messages
      BY <1>7 DEF Data, DataFails, Typed, AtHand, TypeOK, Messages
    <2>2. PICK t \in Token : Put(t)
      BY <1>7, <2>1, TokensTyped DEF Data, DataFails
    <2>3. troubles' \in 0 .. MaxTroubles
      BY <1>7, TroubleTyped DEF Data, DataFails
    <2> QED
      BY <1>7, <2>2, <2>3, PutTyped DEF Data, DataFails, TypeOK
  <1>8. CASE Returns \/ Flush
    <2>1. troubles' \in 0 .. MaxTroubles
      BY <1>8, TroubleTyped DEF Returns, Flush
    <2>2. Len(buffer) \in Nat
      BY DEF TypeOK
    <2>3. flushed' \in 0 .. Len(buffer') /\ UNCHANGED <<disk, file, buffer>>
      BY <1>8, <2>2 DEF Returns, Flush, stream, TypeOK
    <2>4. /\ main' \in {"write", "gzip"} /\ writer # "down" /\ console
          /\ UNCHANGED <<console, now, firstWrite, prevRemainder, writer, received,
                         time, starts>>
      BY <1>8 DEF Returns, Flush, Closing, TypeOK
    <2> QED
      BY <2>1, <2>3, <2>4 DEF TypeOK
  <1>9. CASE WriteEnd
    <2>1. /\ main' = "flush" /\ writer # "down" /\ console /\ Put(Close)
          /\ UNCHANGED <<console, now, firstWrite, prevRemainder, writer, received,
                         time, starts, troubles>>
      BY <1>9 DEF WriteEnd, Closing, TypeOK
    <2> QED
      BY <2>1, PutTyped, TokensTyped DEF TypeOK
  <1>10. CASE CloseGzip \/ CloseFile \/ Overlap \/ Exit \/ Killed
    <2>1. troubles' \in 0 .. MaxTroubles
      BY <1>10, TroubleTyped DEF CloseGzip, CloseFile, Overlap, Exit, Killed
    <2>2. /\ main' \in {"run", "write", "flush", "gzip", "close", "exit"}
          /\ writer' = "down" => main' = "run"
          /\ main' # "run" => console
          /\ writer' \in {writer, "down"}
          /\ UNCHANGED <<console, now, firstWrite, prevRemainder, received, time,
                         starts>>
      BY <1>10 DEF CloseGzip, CloseFile, Overlap, Exit, Killed, Closing, Ends, TypeOK
    <2>3. CASE file = None
      <3>1. UNCHANGED <<disk, file, buffer, flushed>>
        BY <1>10, <2>3 DEF CloseGzip, CloseFile, Overlap, Exit, Killed, stream
      <3> QED
        BY <2>1, <2>2, <2>3, <3>1 DEF TypeOK
    <2>4. CASE file # None
      <3>1. PICK n \in 0 .. Len(buffer) : Leave(n)
        <4>1. flushed .. Len(buffer) \subseteq 0 .. Len(buffer)
          BY DEF TypeOK
        <4> QED
          BY <1>10, <2>4, <4>1 DEF CloseGzip, CloseFile, Overlap, Exit, Killed
      <3> QED
        BY <2>1, <2>2, <2>4, <3>1, LeaveTyped DEF TypeOK
    <2> QED
      BY <2>3, <2>4
  <1> QED
    BY <1>1, <1>2, <1>3, <1>4, <1>5, <1>6, <1>7, <1>8, <1>9, <1>10
    DEF Next, CloseConsole

LEMMA NextTyped == Typed /\ [Next]_vars => Typed'
  <1> SUFFICES ASSUME Typed, [Next]_vars, AtHand' PROVE received' > 0
    BY NextTypeOK DEF Typed
  <1>0. received \in Nat
    BY BoundsAssumption DEF Typed, TypeOK
  <1>1. Receive => received' = received + 1
    BY DEF Receive
  <1> QED
    BY <1>0, <1>1, StepFrame DEF Typed

\* The state has its types at any moment: a file that is open is on the disk.
THEOREM TypeCorrect == Spec => []TypeOK
  <1>1. Typed => TypeOK
    BY DEF Typed
  <1> QED
    BY <1>1, InitTyped, NextTyped, PTL DEF Spec
-----------------------------------------------------------------------------
(***************************************************************************)
(* What a step does to the content of the files, whether it is on the disk *)
(* or in the buffers: it leaves all of it as it is, or it adds one token   *)
(* behind the first n of the open file.                                    *)
(***************************************************************************)
Same(f) == Content(f)' = Content(f)

Adds(f, n, t) ==
    /\ \A g \in Minutes \ {f} : Same(g)
    /\ Len(Content(f)') = n + 1
    /\ \A i \in 1 .. n : Content(f)'[i] = Content(f)[i]
    /\ Content(f)'[n + 1] = t

LEMMA ContentTyped ==
    ASSUME TypeOK, NEW f \in Minutes
    PROVE  Content(f) \in Seq(Token) /\ Len(Content(f)) \in Nat
  <1>1. Content(f) \in Seq(Token)
    <2>1. CASE disk[f] = None
      <3>1. Content(f) = <<>>
        BY <2>1, NoneAssumption DEF Content, TypeOK
      <3> QED
        BY <3>1
    <2>2. CASE disk[f] # None
      <3>1. disk[f] \in Seq(Token) /\ buffer \in Seq(Token)
        BY <2>2 DEF TypeOK
      <3>2. disk[f] \o buffer \in Seq(Token)
        BY <3>1
      <3> QED
        BY <2>2, <3>1, <3>2 DEF Content
    <2> QED
      BY <2>1, <2>2
  <1> QED
    BY <1>1

\* A file that is created or opened again holds what it held.
LEMMA CreateSame ==
    ASSUME TypeOK, CreateFile, NEW g \in Minutes, g # file
    PROVE  Same(g)
  <1>1. /\ file' \in {now, None} /\ buffer' = <<>> /\ g # None
        /\ CloseCache \in [Minutes -> Seq(Token) \cup {None}]
    BY CreateOpens, CloseCacheTyped, NoneAssumption
  <1>2. CloseCache[g] = disk[g]
    BY DEF CloseCache, TypeOK
  <1>3. CASE g = file'
    <2>1. disk' = Continued /\ g = now
      BY <1>1, <1>3, CreateOpens
    <2>2. disk'[g] = (IF disk[g] = None THEN <<>> ELSE disk[g])
      BY <1>1, <1>2, <2>1 DEF Continued
    <2>3. disk'[g] \in Seq(Token) /\ disk'[g] # None
      <3>1. disk[g] \in Seq(Token) \cup {None} /\ <<>> \in Seq(Token)
        BY DEF TypeOK
      <3> QED
        BY <2>2, <3>1, NoneAssumption
    <2>4. disk'[g] \o <<>> = disk'[g]
      BY <2>3
    <2> QED
      BY <1>1, <1>3, <2>2, <2>3, <2>4 DEF Same, Content
  <1>4. CASE g # file'
    <2>1. disk'[g] = disk[g]
      <3>1. CASE disk' = CloseCache
        BY <1>2, <3>1
      <3>2. CASE disk' = Continued /\ g # now
        BY <1>1, <1>2, <3>2 DEF Continued
      <3> QED
        BY <1>4, <3>1, <3>2, CreateOpens
    <2> QED
      BY <1>1, <1>4, <2>1 DEF Same, Content
  <1> QED
    BY <1>3, <1>4

LEMMA StaysSame ==
    ASSUME Stays, NEW f \in Minutes
    PROVE  Same(f)
  BY DEF Stays, Same, Content

\* What appending does to two sequences that are one.
LEMMA AppendsTo ==
    ASSUME NEW S, NEW a \in Seq(S), NEW b \in Seq(S), NEW t \in S
    PROVE  /\ Len(a \o Append(b, t)) = Len(a \o b) + 1
           /\ \A i \in 1 .. Len(a \o b) : (a \o Append(b, t))[i] = (a \o b)[i]
           /\ (a \o Append(b, t))[Len(a \o b) + 1] = t
  <1>1. /\ Len(a \o b) = Len(a) + Len(b)
        /\ Len(Append(b, t)) = Len(b) + 1
        /\ Append(b, t) \in Seq(S)
        /\ Len(a) \in Nat /\ Len(b) \in Nat
    OBVIOUS
  <1>2. Len(a \o Append(b, t)) = Len(a) + Len(b) + 1
    BY <1>1
  <1>3. ASSUME NEW i \in 1 .. Len(a \o b)
        PROVE  (a \o Append(b, t))[i] = (a \o b)[i]
    <2>1. CASE i <= Len(a)
      BY <1>1, <2>1
    <2>2. CASE ~(i <= Len(a))
      <3>1. i - Len(a) \in 1 .. Len(b)
        BY <1>1, <2>2
      <3>2. (a \o b)[i] = b[i - Len(a)]
        BY <1>1, <2>2
      <3>3. (a \o Append(b, t))[i] = Append(b, t)[i - Len(a)]
        BY <1>1, <1>2, <2>2
      <3> QED
        BY <3>1, <3>2, <3>3
    <2> QED
      BY <2>1, <2>2
  <1>4. (a \o Append(b, t))[Len(a) + Len(b) + 1] = t
    <2>1. (a \o Append(b, t))[Len(a) + Len(b) + 1] = Append(b, t)[Len(b) + 1]
      BY <1>1, <1>2
    <2> QED
      BY <2>1
  <1> QED
    BY <1>1, <1>2, <1>3, <1>4

\* A token that goes into the buffer.
LEMMA BufferAdds ==
    ASSUME TypeOK, NEW f \in Minutes, f = file, UNCHANGED <<disk, file>>,
           NEW t \in Token, buffer' = Append(buffer, t)
    PROVE  Adds(f, Len(Content(f)), t)
  <1> DEFINE a == disk[f]
             b == buffer
  <1>1. a \in Seq(Token) /\ a # None /\ b \in Seq(Token)
    BY NoneAssumption DEF TypeOK
  <1>2. Content(f) = a \o b /\ Content(f)' = a \o Append(b, t)
    BY <1>1 DEF Content
  <1>3. \A g \in Minutes \ {f} : Same(g)
    BY DEF Same, Content
  <1> HIDE DEF a, b
  <1>4. /\ Len(a \o Append(b, t)) = Len(a \o b) + 1
        /\ \A i \in 1 .. Len(a \o b) : (a \o Append(b, t))[i] = (a \o b)[i]
        /\ (a \o Append(b, t))[Len(a \o b) + 1] = t
    BY <1>1, AppendsTo
  <1> QED
    BY <1>2, <1>3, <1>4 DEF Adds

\* What emptying the first n of the buffer and closing does.
LEMMA JoinsTo ==
    ASSUME NEW S, NEW e \in Seq(S), NEW t \in S
    PROVE  /\ e \o <<t>> \in Seq(S)
           /\ Len(e \o <<t>>) = Len(e) + 1
           /\ \A i \in 1 .. Len(e) : (e \o <<t>>)[i] = e[i]
           /\ (e \o <<t>>)[Len(e) + 1] = t
  OBVIOUS

LEMMA BeginsTo ==
    ASSUME NEW S, NEW a \in Seq(S), NEW b \in Seq(S), NEW n \in 0 .. Len(b)
    PROVE  /\ a \o SubSeq(b, 1, n) \in Seq(S)
           /\ Len(a \o SubSeq(b, 1, n)) = Len(a) + n
           /\ \A i \in 1 .. Len(a) + n :
                 (a \o SubSeq(b, 1, n))[i] = (a \o b)[i]
  <1> DEFINE d == SubSeq(b, 1, n)
  <1>1. Len(a) \in Nat /\ Len(b) \in Nat /\ Len(a \o b) = Len(a) + Len(b)
    OBVIOUS
  <1>2. d \in Seq(S) /\ Len(d) = n /\ \A i \in 1 .. n : d[i] = b[i]
    BY <1>1
  <1> HIDE DEF d
  <1>3. a \o d \in Seq(S) /\ Len(a \o d) = Len(a) + n
    BY <1>1, <1>2
  <1>4. ASSUME NEW i \in 1 .. Len(a) + n
        PROVE  (a \o d)[i] = (a \o b)[i]
    <2>1. CASE i <= Len(a)
      BY <1>1, <1>2, <2>1
    <2>2. CASE ~(i <= Len(a))
      <3>1. i - Len(a) \in 1 .. n
        BY <1>1, <2>2
      <3>2. (a \o b)[i] = b[i - Len(a)] /\ (a \o d)[i] = d[i - Len(a)]
        BY <1>1, <1>2, <1>3, <2>2
      <3> QED
        BY <1>2, <3>1, <3>2
    <2> QED
      BY <2>1, <2>2
  <1> QED
    BY <1>3, <1>4 DEF d

\* A token that goes to the disk behind what the buffer held.
LEMMA DiskAdds ==
    ASSUME TypeOK, NEW f \in Minutes, f = file, file' # f \/ buffer' = <<>>,
           NEW n \in 0 .. Len(buffer), NEW t \in Token,
           disk'[f] = disk[f] \o SubSeq(buffer, 1, n) \o <<t>>,
           \A g \in Minutes \ {f} : Same(g)
    PROVE  Adds(f, Len(disk[f]) + n, t)
  <1> DEFINE a == disk[f]
             b == buffer
             c == disk'[f]
  <1>1. /\ a \in Seq(Token) /\ a # None /\ b \in Seq(Token)
        /\ n \in 0 .. Len(b)
    BY NoneAssumption DEF TypeOK
  <1>2. Content(f) = a \o b
    BY <1>1 DEF Content
  <1>3. c = a \o SubSeq(b, 1, n) \o <<t>>
    OBVIOUS
  <1>4. c \in Seq(Token) /\ c # None
    <2> HIDE DEF a, b, c
    <2>1. (a \o SubSeq(b, 1, n)) \o <<t>> \in Seq(Token)
      BY <1>1, BeginsTo, JoinsTo
    <2> QED
      BY <1>3, <2>1, NoneAssumption
  <1>5. Content(f)' = c
    <2>1. CASE file' # f
      BY <1>4, <2>1 DEF Content
    <2>2. CASE file' = f /\ buffer' = <<>>
      <3>1. Content(f)' = c \o <<>>
        BY <1>4, <2>2 DEF Content
      <3> HIDE DEF c
      <3> QED
        BY <1>4, <3>1
    <2> QED
      BY <2>1, <2>2
  <1> HIDE DEF a, b, c
  <1>6. /\ Len(c) = Len(a) + n + 1
        /\ \A i \in 1 .. Len(a) + n : c[i] = (a \o b)[i]
        /\ c[Len(a) + n + 1] = t
    <2> DEFINE e == a \o SubSeq(b, 1, n)
    <2>1. /\ e \in Seq(Token) /\ Len(e) = Len(a) + n
          /\ \A i \in 1 .. Len(a) + n : e[i] = (a \o b)[i]
      BY <1>1, BeginsTo
    <2>2. c = e \o <<t>>
      BY <1>3
    <2> HIDE DEF e
    <2>3. /\ Len(e \o <<t>>) = Len(e) + 1
          /\ \A i \in 1 .. Len(e) : (e \o <<t>>)[i] = e[i]
          /\ (e \o <<t>>)[Len(e) + 1] = t
      <3>1. e \in Seq(Token)
        BY <2>1
      <3>2. t \in Token
        OBVIOUS
      <3> QED
        BY <3>1, <3>2, JoinsTo
    <2> QED
      BY <2>1, <2>2, <2>3
  <1> QED
    BY <1>2, <1>5, <1>6 DEF Adds, a

LEMMA WholeBuffer ==
    ASSUME TypeOK, NEW f \in Minutes, f = file, NEW t,
           disk'[f] = disk[f] \o buffer \o <<t>>
    PROVE  /\ disk'[f] = disk[f] \o SubSeq(buffer, 1, Len(buffer)) \o <<t>>
           /\ Len(Content(f)) = Len(disk[f]) + Len(buffer)
           /\ Len(buffer) \in 0 .. Len(buffer)
  <1>1. /\ disk[f] \in Seq(Token) /\ disk[f] # None
        /\ buffer \in Seq(Token)
    BY NoneAssumption DEF TypeOK
  <1>2. SubSeq(buffer, 1, Len(buffer)) = buffer /\ Len(buffer) \in Nat
    BY <1>1
  <1>3. Content(f) = disk[f] \o buffer
    BY <1>1 DEF Content
  <1>4. Len(Content(f)) = Len(disk[f]) + Len(buffer)
    BY <1>1, <1>3
  <1>5. disk'[f] = disk[f] \o SubSeq(buffer, 1, Len(buffer)) \o <<t>>
    BY <1>2, Zenon
  <1>6. Len(buffer) \in 0 .. Len(buffer)
    BY <1>2
  <1> QED
    BY <1>4, <1>5, <1>6, Zenon

\* A token that is put goes behind what the open file has, or nowhere.
LEMMA PutAdds ==
    ASSUME TypeOK, NEW t \in Token, Put(t), NEW f \in Minutes
    PROVE  /\ f = file => Adds(f, Len(Content(f)), t)
           /\ f # file => Same(f)
  <1>1. CASE f = file
    <2>1. buffer' = Append(buffer, t) /\ UNCHANGED <<disk, file>>
      BY <1>1, NoneAssumption DEF Put
    <2> QED
      BY <1>1, <2>1, BufferAdds
  <1>2. CASE f # file
    BY <1>2 DEF Put, Same, Content
  <1> QED
    BY <1>1, <1>2

\* The end of the array goes behind what the old file has.
LEMMA CreateAdds ==
    ASSUME TypeOK, NEW f \in Minutes, f = file, CreateFile
    PROVE  Adds(f, Len(Content(f)), Close)
  <1>1. \A g \in Minutes \ {f} : Same(g)
    BY CreateSame
  <1>2. /\ CloseCache = [disk EXCEPT ![f] = disk[f] \o buffer \o <<Close>>]
        /\ CloseCache[f] # None
    BY CloseCacheEnds, NoneAssumption
  <1>3. disk'[f] = disk[f] \o buffer \o <<Close>> /\ buffer' = <<>>
    <2>1. CloseCache[f] = disk[f] \o buffer \o <<Close>>
      BY <1>2 DEF TypeOK
    <2>2. CloseCache \in [Minutes -> Seq(Token) \cup {None}]
      BY CloseCacheTyped
    <2>3. Continued[f] = CloseCache[f]
      BY <1>2, <2>2 DEF Continued
    <2> QED
      BY <2>1, <2>3, CreateOpens
  <1> QED
    BY <1>1, <1>3, WholeBuffer, DiskAdds, TokensTyped

\* A cut goes behind the first of what the file has that is left.
LEMMA LeaveAdds ==
    ASSUME TypeOK, NEW f \in Minutes, f = file, NEW n \in 0 .. Len(buffer), Leave(n)
    PROVE  /\ Adds(f, Len(disk[f]) + n, Cut)
           /\ Len(disk[f]) + n \in 0 .. Len(Content(f))
           /\ n = Len(buffer) => Len(disk[f]) + n = Len(Content(f))
  <1>1. /\ disk' = [disk EXCEPT ![f] = disk[f] \o SubSeq(buffer, 1, n) \o <<Cut>>]
        /\ file' = None /\ buffer' = <<>>
    BY DEF Leave
  <1>2. disk'[f] = disk[f] \o SubSeq(buffer, 1, n) \o <<Cut>>
    BY <1>1 DEF TypeOK
  <1>3. \A g \in Minutes \ {f} : Same(g)
    BY <1>1, NoneAssumption DEF TypeOK, Same, Content
  <1>4. Adds(f, Len(disk[f]) + n, Cut)
    BY <1>1, <1>2, <1>3, DiskAdds, TokensTyped
  <1>5. /\ disk[f] \in Seq(Token) /\ disk[f] # None
        /\ buffer \in Seq(Token)
    BY NoneAssumption DEF TypeOK
  <1>6. Content(f) = disk[f] \o buffer
    BY <1>5 DEF Content
  <1>7. Len(Content(f)) = Len(disk[f]) + Len(buffer)
    BY <1>5, <1>6
  <1>8. Len(disk[f]) \in Nat /\ Len(buffer) \in Nat
    BY <1>5
  <1> QED
    BY <1>4, <1>7, <1>8
-----------------------------------------------------------------------------
(***************************************************************************)
(* No file is named after a minute that is still to come, and the open     *)
(* file is the last one.                                                   *)
(***************************************************************************)
NotAhead == \A f \in Minutes : disk[f] # None => f <= now
Latest == file # None => \A g \in Minutes : g > file => disk[g] = None
Recorded == \A k \in Messages : time[k] <= now
Named == NotAhead /\ Latest /\ Recorded

LEMMA CreateExists ==
    ASSUME TypeOK, CreateFile, NEW g \in Minutes
    PROVE  disk'[g] = None <=> disk[g] = None /\ g # file'
  <1>1. CloseCache[g] = None <=> disk[g] = None
    <2>1. CASE file = None
      BY <2>1 DEF CloseCache
    <2>2. CASE file # None
      BY <2>2, CloseCacheEnds DEF TypeOK
    <2> QED
      BY <2>1, <2>2
  <1>2. CloseCache \in [Minutes -> Seq(Token) \cup {None}] /\ <<>> # None
    <2>1. <<>> \in Seq(Token)
      OBVIOUS
    <2> QED
      BY <2>1, CloseCacheTyped, NoneAssumption
  <1>3. CASE disk' = Continued /\ file' = now
    <2>1. disk'[g] = IF g = now /\ CloseCache[g] = None THEN <<>> ELSE CloseCache[g]
      BY <1>2, <1>3 DEF Continued
    <2> QED
      BY <1>1, <1>2, <1>3, <2>1
  <1>4. CASE disk' = CloseCache /\ file' = None
    BY <1>1, <1>4, NoneAssumption
  <1> QED
    BY <1>3, <1>4, CreateOpens

\* The files that are there after a step are those from before and the one
\* that is open.
LEMMA StepExists ==
    ASSUME Typed, [Next]_vars, NEW g \in Minutes
    PROVE  disk'[g] = None <=> disk[g] = None /\ g # file'
  <1> USE DEF Typed
  <1>1. CASE Stays \/ Puts
    <2>1. UNCHANGED <<disk, file>>
      BY <1>1 DEF Stays, Puts, Put
    <2> QED
      BY <2>1, NoneAssumption DEF TypeOK
  <1>2. CASE CreateFile
    BY <1>2, CreateExists
  <1>3. CASE Leaves
    <2>1. file # None /\ file \in Minutes /\ disk[file] # None
      BY <1>3 DEF Leaves, TypeOK
    <2>2. /\ disk'[file] # None /\ file' = None
          /\ \A h \in Minutes \ {file} : disk'[h] = disk[h]
      BY <1>3, <2>1, LeaveTyped DEF Leaves
    <2> QED
      BY <2>1, <2>2, NoneAssumption
  <1> QED
    BY <1>1, <1>2, <1>3, StepKind

LEMMA StepFile ==
    ASSUME Typed, [Next]_vars
    PROVE  /\ file' \in {file, None} \/ (file' = now /\ UNCHANGED now)
           /\ now' \in {now, now + 1}
  <1>1. Stays \/ Puts => file' = file
    BY DEF Stays, Puts, Put
  <1>2. CreateFile => file' \in {now, None}
    BY CreateOpens
  <1>3. Leaves => file' = None
    BY DEF Leaves, Leave
  <1> QED
    BY <1>1, <1>2, <1>3, StepKind, StepFrame

LEMMA NextNamed == Typed /\ Named /\ [Next]_vars => Named'
  <1> SUFFICES ASSUME Typed, Named, [Next]_vars PROVE Named'
    OBVIOUS
  <1>1. /\ now \in Nat /\ Minutes \subseteq Nat
        /\ file \in Minutes \cup {None} /\ (file # None => disk[file] # None)
    BY BoundsAssumption DEF Typed, TypeOK, Minutes
  <1>2. NotAhead'
    <2> SUFFICES ASSUME NEW f \in Minutes, disk'[f] # None PROVE f <= now'
      BY DEF NotAhead
    <2>1. disk[f] # None \/ f = file'
      BY StepExists
    <2>2. f <= now
      BY <1>1, <2>1, StepFile, NoneAssumption DEF Named, NotAhead
    <2> QED
      BY <1>1, <2>2, StepFile
  <1>3. Latest'
    <2> SUFFICES ASSUME file' # None, NEW g \in Minutes, g > file',
                        disk'[g] # None
                 PROVE  FALSE
      BY DEF Latest
    <2>1. g # file'
      BY <1>1, StepFile
    <2>2. disk[g] # None
      BY <2>1, StepExists
    <2> QED
      BY <1>1, <2>2, StepFile DEF Named, NotAhead, Latest
  <1>4. Recorded'
    <2>1. UNCHANGED time \/ time' = [time EXCEPT ![received'] = now]
      BY StepFrame DEF Receive
    <2>2. \A k \in Messages : time[k] \in Nat /\ time'[k] \in {time[k], now}
      BY <1>1, <2>1 DEF Typed, TypeOK
    <2> QED
      BY <1>1, <2>2, StepFile DEF Named, Recorded
  <1> QED
    BY <1>2, <1>3, <1>4 DEF Named
-----------------------------------------------------------------------------
(***************************************************************************)
(* KeepsOrder.  The messages in the files were written before, so the one  *)
(* that is added is the greatest, and it comes to the end of the last      *)
(* file.                                                                   *)
(***************************************************************************)
IsWritten ==
    \A f \in Minutes : \A i \in Positions(f) :
        Content(f)[i].mark = "msg" => Content(f)[i].k <= Written

LEMMA TokenKinds ==
    ASSUME NEW t \in Token
    PROVE  /\ t.mark \in {"[", ",", "]", "void", "cut", "msg"} /\ t.k \in Nat
           /\ t.mark = "]" => t = Close
  <1>1. CASE t \in {Open, Comma, Close, Void, Cut}
    <2>1. t.k \in Nat
      <3>1. t.k = 0
        BY <1>1, Marks
      <3> QED
        BY <3>1
    <2>2. /\ t.mark \in {"[", ",", "]", "void", "cut", "msg"}
          /\ t.mark = "]" => t = Close
      BY <1>1, Marks
    <2> QED
      BY <2>1, <2>2
  <1>2. CASE t \in {Msg(k) : k \in Messages}
    <2>1. PICK k \in Nat : t = Msg(k)
      BY <1>2 DEF Messages
    <2> QED
      BY <2>1, Marks
  <1> QED
    BY <1>1, <1>2 DEF Token

LEMMA ContentTokens ==
    ASSUME TypeOK, NEW f \in Minutes, NEW i \in Positions(f)
    PROVE  Content(f)[i] \in Token
  BY ContentTyped DEF Positions

\* The tokens of a file are those from before, but for its last one; only a
\* trouble may lose some.
LEMMA StepAdds ==
    ASSUME Typed, [Next]_vars
    PROVE  \/ \A f \in Minutes : Same(f)
           \/ \E f \in Minutes : \E n \in 0 .. Len(Content(f)), t \in Token :
                 /\ f = file /\ Adds(f, n, t)
                 /\ n = Len(Content(f)) \/ troubles' = troubles + 1
                 /\ t.mark = "msg" => Data /\ t = Msg(received)
  <1> USE DEF Typed
  <1>1. CASE Stays
    BY <1>1, StaysSame
  <1>2. CASE file = None /\ (CreateFile \/ Puts)
    BY <1>2, CreateSame, PutAdds, NoneAssumption DEF Puts
  <1>3. CASE file # None /\ ~Stays
    <2>1. PICK f \in Minutes : f = file
      BY <1>3 DEF TypeOK
    <2>2. Len(Content(f)) \in 0 .. Len(Content(f))
      BY ContentTyped
    <2>3. CASE CreateFile
      BY <2>1, <2>2, <2>3, CreateAdds, Marks, TokensTyped
    <2>4. CASE Puts
      BY <2>1, <2>2, <2>4, PutAdds DEF Puts
    <2>5. CASE Leaves
      <3>1. PICK n \in 0 .. Len(buffer) :
               Leave(n) /\ (n = Len(buffer) \/ troubles' = troubles + 1)
        BY <2>5 DEF Leaves
      <3>2. /\ Adds(f, Len(disk[f]) + n, Cut)
            /\ Len(disk[f]) + n \in 0 .. Len(Content(f))
            /\ n = Len(buffer) => Len(disk[f]) + n = Len(Content(f))
        BY <2>1, <3>1, LeaveAdds
      <3> QED
        BY <2>1, <3>1, <3>2, Marks, TokensTyped
    <2> QED
      BY <1>3, <2>3, <2>4, <2>5, StepKind
  <1> QED
    BY <1>1, <1>2, <1>3, StepKind DEF Leaves

LEMMA StepTokens ==
    ASSUME Typed, [Next]_vars, NEW f \in Minutes, NEW i \in Positions(f)'
    PROVE  \/ i \in Positions(f) /\ Content(f)'[i] = Content(f)[i]
           \/ /\ f = file /\ i = Len(Content(f)')
              /\ Content(f)'[i].mark = "msg"
                   => Data /\ Content(f)'[i] = Msg(received)
  <1>1. i \in 1 .. Len(Content(f)') /\ Len(Content(f)) \in Nat
    BY ContentTyped DEF Positions, Typed
  <1>2. CASE Same(f)
    BY <1>1, <1>2 DEF Same, Positions
  <1>3. CASE ~Same(f)
    <2>1. PICK n \in 0 .. Len(Content(f)), t \in Token :
              /\ f = file /\ Adds(f, n, t)
              /\ t.mark = "msg" => Data /\ t = Msg(received)
      BY <1>3, StepAdds DEF Adds
    <2> QED
      BY <1>1, <2>1 DEF Adds, Positions
  <1> QED
    BY <1>2, <1>3

LEMMA WrittenGrows ==
    ASSUME Typed, [Next]_vars
    PROVE  /\ Written \in Nat /\ Written' \in Nat /\ Written' >= Written
           /\ Data => Written = received - 1 /\ Written' = received
  <1>1. received \in Nat /\ (AtHand => received > 0)
    BY BoundsAssumption DEF Typed, TypeOK
  <1>2. Receive => ~AtHand /\ received' = received + 1
    BY DEF Receive, AtHand
  <1>3. Receive \/ (UNCHANGED received /\ (AtHand' => AtHand))
    BY StepFrame
  <1>4. Data => AtHand /\ ~AtHand' /\ ~Receive
    BY DEF AtHand, Data, Receive
  <1> QED
    BY <1>1, <1>2, <1>3, <1>4 DEF Written

LEMMA NextOrder ==
    Typed /\ Named /\ IsWritten /\ KeepsOrder /\ [Next]_vars
        => IsWritten' /\ KeepsOrder'
  <1> SUFFICES ASSUME Typed, Named, IsWritten, KeepsOrder, [Next]_vars
               PROVE  IsWritten' /\ KeepsOrder'
    OBVIOUS
  <1>1. IsWritten'
    <2> SUFFICES ASSUME NEW f \in Minutes, NEW i \in Positions(f)',
                        Content(f)'[i].mark = "msg"
                 PROVE  Content(f)'[i].k <= Written'
      BY DEF IsWritten
    <2>1. CASE i \in Positions(f) /\ Content(f)'[i] = Content(f)[i]
      <3>1. Content(f)[i].k \in Nat
        BY <2>1, ContentTokens, TokenKinds DEF Typed
      <3> QED
        BY <2>1, <3>1, WrittenGrows DEF IsWritten
    <2>2. CASE Data /\ Content(f)'[i] = Msg(received)
      <3>1. Content(f)'[i].k = received
        BY <2>2, Marks
      <3> QED
        BY <2>2, <3>1, WrittenGrows
    <2> QED
      BY <2>1, <2>2, StepTokens
  <1>2. KeepsOrder'
    <2> SUFFICES ASSUME NEW f \in Minutes, NEW g \in Minutes,
                        NEW i \in Positions(f)', NEW j \in Positions(g)',
                        Content(f)'[i].mark = "msg", Content(g)'[j].mark = "msg",
                        f < g \/ (f = g /\ i < j)
                 PROVE  Content(f)'[i].k < Content(g)'[j].k
      BY DEF KeepsOrder
    <2>0. f \in Nat /\ g \in Nat
      BY BoundsAssumption DEF Minutes
    <2>1. CASE /\ i \in Positions(f) /\ Content(f)'[i] = Content(f)[i]
               /\ j \in Positions(g) /\ Content(g)'[j] = Content(g)[j]
      BY <2>1 DEF KeepsOrder
    <2>2. CASE f = file /\ i = Len(Content(f)')
      <3>1. i \in Nat /\ j \in 1 .. Len(Content(g)')
        BY <2>2 DEF Positions
      <3>2. f < g
        BY <2>0, <2>2, <3>1
      <3>3. disk[g] = None /\ g # file
        BY <2>0, <2>2, <3>2, NoneAssumption DEF Named, Latest
      <3>4. Content(g) = <<>>
        BY <3>3 DEF Content
      <3>5. j \in Positions(g)
        BY <3>3, StepTokens
      <3> QED
        BY <3>4, <3>5 DEF Positions
    <2>3. CASE /\ i \in Positions(f) /\ Content(f)'[i] = Content(f)[i]
               /\ Data /\ Content(g)'[j] = Msg(received)
      <3>1. Content(f)[i].k <= Written
        BY <2>3 DEF IsWritten
      <3>2. Content(f)[i].k \in Nat
        BY <2>3, ContentTokens, TokenKinds DEF Typed
      <3>3. Content(g)'[j].k = received
        BY <2>3, Marks
      <3> QED
        BY <2>3, <3>1, <3>2, <3>3, WrittenGrows
    <2> QED
      BY <2>1, <2>2, <2>3, StepTokens
  <1> QED
    BY <1>1, <1>2
-----------------------------------------------------------------------------
(***************************************************************************)
(* FiledByTime.  A message that is to go to a new file came not before any *)
(* other was named; one that is to go to the open file came not before     *)
(* that was named, unless it is the first one there.                       *)
(***************************************************************************)
InTime ==
    /\ writer = "create" =>
          \A g \in Minutes : disk[g] # None => time[received] >= g
    /\ writer \in {"separator", "data"} =>
          \A f \in Minutes : f = file =>
             time[received] >= f \/ \A j \in Messages : ~HasMessage(f, j)

LEMMA StepMessages ==
    ASSUME Typed, [Next]_vars, NEW f \in Minutes, NEW k \in Messages,
           HasMessage(f, k)'
    PROVE  HasMessage(f, k) \/ (Data /\ f = file /\ k = received)
  <1>1. PICK i \in Positions(f)' : Content(f)'[i] = Msg(k)
    BY DEF HasMessage
  <1>2. CASE i \in Positions(f) /\ Content(f)'[i] = Content(f)[i]
    BY <1>1, <1>2 DEF HasMessage
  <1>3. CASE Data /\ f = file /\ Content(f)'[i] = Msg(received)
    <2>1. Msg(k).k = Msg(received).k
      BY <1>1, <1>3
    <2>2. Msg(k).k = k /\ Msg(received).k = received
      BY Marks
    <2> QED
      BY <1>3, <2>1, <2>2
  <1>4. Content(f)'[i].mark = "msg"
    BY <1>1, Marks
  <1> QED
    BY <1>2, <1>3, <1>4, StepTokens

LEMMA MessageWritten ==
    ASSUME IsWritten, NEW f \in Minutes, NEW k \in Messages, HasMessage(f, k)
    PROVE  k <= Written
  <1>1. PICK i \in Positions(f) : Content(f)[i] = Msg(k)
    BY DEF HasMessage
  <1>2. Msg(k).mark = "msg" /\ Msg(k).k = k
    BY Marks
  <1> QED
    BY <1>1, <1>2 DEF IsWritten

\* The minute of a message that was received stays, and it was not to come.
LEMMA StepTime ==
    ASSUME Typed, Named, [Next]_vars, NEW k \in Messages
    PROVE  /\ k <= Written => time'[k] = time[k]
           /\ time[k] \in Nat /\ time[k] <= now /\ now \in Nat
  <1>1. time[k] \in Nat /\ time[k] <= now /\ now \in Nat
    BY BoundsAssumption DEF Typed, TypeOK, Minutes, Named, Recorded
  <1>2. CASE Receive
    <2>1. received \in Nat /\ Written = received /\ k \in Nat
      BY <1>2, BoundsAssumption DEF Receive, Typed, TypeOK, Written, Messages, AtHand
    <2>2. k # received' => time'[k] = time[k]
      BY <1>2 DEF Receive, Typed, TypeOK
    <2> QED
      BY <1>1, <1>2, <2>1, <2>2 DEF Receive
  <1>3. CASE ~Receive
    <2>1. UNCHANGED time
      BY <1>3, StepFrame
    <2> QED
      BY <1>1, <2>1
  <1> QED
    BY <1>2, <1>3

LEMMA StepWriter ==
    ASSUME Typed, [Next]_vars
    PROVE  /\ InitCache \/ Rotate \/ file' \in {file, None}
           /\ writer' = "create" =>
                Receive \/ (writer = "create" /\ file' \in {file, None})
           /\ writer' \in {"separator", "data"} =>
                \/ Receive \/ (Rotate /\ CreateFile)
                \/ writer \in {"separator", "data"} /\ ~Data /\ file' \in {file, None}
  <1>1. CASE Minute \/ UNCHANGED vars
    BY <1>1 DEF Minute, Data, vars, memory, stream
  <1>2. CASE InitCache \/ Rotate
    BY <1>2 DEF InitCache, Rotate
  <1>3. CASE Separator \/ Data \/ DataFails
    BY <1>3 DEF Separator, Data, DataFails, Put
  <1>4. CASE Returns \/ WriteEnd \/ Flush \/ CloseGzip \/ CloseFile \/ Overlap
    <2>1. UNCHANGED writer /\ ~Data
      BY <1>4 DEF Returns, WriteEnd, Flush, CloseGzip, CloseFile, Closing, Overlap, Data
    <2>2. file' \in {file, None}
      BY <1>4 DEF Returns, WriteEnd, Flush, CloseGzip, CloseFile, Overlap, Put, Leave,
                  stream
    <2> QED
      BY <2>1, <2>2
  <1>5. CASE Exit \/ Killed
    BY <1>5 DEF Exit, Killed, Ends, Leave, stream
  <1>6. CASE Receive
    BY <1>6 DEF Receive, stream
  <1> QED
    BY <1>1, <1>2, <1>3, <1>4, <1>5, <1>6 DEF Next, CloseConsole

LEMMA NextInTime ==
    ASSUME Typed, Named, InTime, [Next]_vars
    PROVE  InTime'
  <1>0. /\ Minutes \subseteq Nat /\ now \in Nat /\ file \in Minutes \cup {None}
        /\ file # None => disk[file] # None
    BY BoundsAssumption DEF Minutes, Typed, TypeOK
  <1>1. Receive => time'[received'] = now /\ UNCHANGED <<disk, file>>
    <2> SUFFICES ASSUME Receive PROVE time'[received'] = now
      BY DEF Receive, stream
    <2>1. received' \in Messages
      BY BoundsAssumption DEF Receive, Typed, TypeOK, Messages
    <2> QED
      BY <2>1 DEF Receive, Typed, TypeOK
  <1>2. ASSUME writer' = "create", NEW g \in Minutes, disk'[g] # None
        PROVE  time'[received'] >= g
    <2>1. CASE Receive
      BY <1>0, <1>1, <1>2, <2>1 DEF Named, NotAhead
    <2>2. CASE ~Receive
      <3>1. writer = "create" /\ UNCHANGED <<time, received>> /\ file' \in {file, None}
        BY <1>2, <2>2, StepWriter, StepFrame
      <3>2. disk[g] # None
        BY <1>0, <1>2, <3>1, StepExists, NoneAssumption
      <3> QED
        BY <3>1, <3>2 DEF InTime
    <2> QED
      BY <2>1, <2>2
  <1>3. ASSUME writer' \in {"separator", "data"}, NEW f \in Minutes, f = file'
        PROVE  \/ time'[received'] >= f
               \/ \A j \in Messages : ~HasMessage(f, j)'
    <2>1. CASE Receive
      BY <1>0, <1>1, <1>3, <2>1, NoneAssumption DEF Named, NotAhead
    <2>2. CASE Rotate /\ CreateFile
      <3>1. f = now /\ writer = "create" /\ UNCHANGED <<time, received>> /\ ~Data
        BY <1>3, <2>2, CreateOpens, NoneAssumption DEF Rotate, Data
      <3>2. CASE disk[f] # None
        BY <3>1, <3>2 DEF InTime
      <3>3. CASE disk[f] = None
        <4>1. f # file
          BY <1>0, <3>3, NoneAssumption
        <4>2. Content(f) = <<>>
          BY <3>3, <4>1 DEF Content
        <4>3. \A j \in Messages : ~HasMessage(f, j)
          BY <4>2 DEF HasMessage, Positions
        <4> QED
          BY <3>1, <4>3, StepMessages
      <3> QED
        BY <3>2, <3>3
    <2>3. CASE ~Receive /\ ~(Rotate /\ CreateFile)
      <3>1. /\ writer \in {"separator", "data"} /\ ~Data
            /\ UNCHANGED <<time, received>> /\ f = file
        BY <1>3, <2>3, StepWriter, StepFrame, NoneAssumption
      <3>2. \A j \in Messages : HasMessage(f, j)' => HasMessage(f, j)
        BY <3>1, StepMessages
      <3> QED
        BY <3>1, <3>2 DEF InTime
    <2> QED
      BY <2>1, <2>2, <2>3
  <1> QED
    BY <1>2, <1>3 DEF InTime

LEMMA NextFiled ==
    ASSUME Typed, Named, IsWritten, InTime, FiledByTime, [Next]_vars
    PROVE  FiledByTime'
  <1> SUFFICES ASSUME NEW f \in Minutes, NEW k \in Messages, HasMessage(f, k)'
               PROVE  /\ \A g \in Minutes : g > f /\ disk'[g] # None => time'[k] <= g
                      /\ \/ time'[k] >= f
                         \/ \A j \in 1 .. k - 1 : ~HasMessage(f, j)'
    BY DEF FiledByTime
  <1>0. /\ f \in Nat /\ k \in Nat /\ Minutes \subseteq Nat
        /\ 1 .. k - 1 \subseteq Messages
    BY BoundsAssumption DEF Minutes, Messages
  <1>1. CASE HasMessage(f, k)
    <2>1. k <= Written /\ time'[k] = time[k] /\ time[k] <= now
      BY <1>1, MessageWritten, StepTime
    <2>2. ASSUME NEW g \in Minutes, g > f, disk'[g] # None
          PROVE  time'[k] <= g
      <3>1. CASE disk[g] # None
        BY <1>1, <2>1, <2>2, <3>1 DEF FiledByTime
      <3>2. CASE disk[g] = None
        <4>1. g = file' /\ g # file /\ g # None
          BY <2>2, <3>2, StepExists, NoneAssumption DEF Typed, TypeOK
        <4> QED
          BY <2>1, <4>1, StepFile
      <3> QED
        BY <3>1, <3>2
    <2>3. ASSUME ~(time[k] >= f), NEW j \in 1 .. k - 1, HasMessage(f, j)'
          PROVE  FALSE
      <3>1. ~HasMessage(f, j)
        BY <1>1, <2>3 DEF FiledByTime
      <3>2. Data /\ j = received
        BY <1>0, <2>3, <3>1, StepMessages
      <3> QED
        BY <1>0, <2>1, <3>2, WrittenGrows
    <2> QED
      BY <2>1, <2>2, <2>3
  <1>2. CASE Data /\ f = file /\ k = received
    <2>1. UNCHANGED <<disk, time>> /\ writer = "data"
      BY <1>2 DEF Data, Put
    <2>2. \A g \in Minutes : g > f => disk'[g] = None
      BY <1>2, <2>1, NoneAssumption DEF Named, Latest
    <2>3. time[k] >= f \/ \A j \in Messages : ~HasMessage(f, j)
      BY <1>2, <2>1 DEF InTime
    <2>4. ASSUME \A j \in Messages : ~HasMessage(f, j),
                 NEW j \in 1 .. k - 1, HasMessage(f, j)'
          PROVE  FALSE
      BY <1>0, <1>2, <2>4, StepMessages
    <2> QED
      BY <2>1, <2>2, <2>3, <2>4
  <1> QED
    BY <1>1, <1>2, StepMessages
-----------------------------------------------------------------------------
(***************************************************************************)
(* KeepsEveryMessage.  Without a trouble a token that is added takes none  *)
(* away, main closes the cache only with no message at hand, and up to     *)
(* then there is a file.                                                   *)
(***************************************************************************)
Clean ==
    troubles = 0 =>
        /\ AtHand => main = "run"
        /\ main = "run" /\ writer # "down" => file # None

Kept ==
    troubles = 0 =>
        \A k \in Messages : k <= Written => \E f \in Minutes : HasMessage(f, k)

\* Nothing has gone wrong before, and this step does not.
LEMMA NoTrouble ==
    ASSUME Typed, [Next]_vars, troubles' = 0
    PROVE  troubles = 0 /\ ~Trouble
  <1>1. troubles \in Nat
    BY BoundsAssumption DEF Typed, TypeOK
  <1> QED
    BY <1>1, StepFrame DEF Trouble

LEMMA NextClean == Typed /\ Clean /\ [Next]_vars => Clean'
  <1> SUFFICES ASSUME Typed, Clean, [Next]_vars, troubles' = 0, troubles = 0, ~Trouble
               PROVE  /\ AtHand' => main' = "run"
                      /\ main' = "run" /\ writer' # "down" => file' # None
    BY NoTrouble DEF Clean
  <1>1. /\ AtHand => main = "run"
        /\ main = "run" /\ writer # "down" => file # None
    BY DEF Clean
  <1>2. CASE Minute \/ UNCHANGED vars
    BY <1>1, <1>2 DEF Minute, vars, memory, stream, AtHand
  <1>3. CASE InitCache \/ Rotate
    <2>1. /\ UNCHANGED main /\ main = "run"
          /\ writer' # "down" /\ CreateFile
      BY <1>1, <1>3 DEF InitCache, Rotate, AtHand, Typed, TypeOK
    <2>2. file' = now /\ now # None
      BY <2>1, CreateOpens, NoneAssumption DEF Typed, TypeOK
    <2> QED
      BY <2>1, <2>2
  <1>4. CASE Receive
    BY <1>1, <1>4 DEF Receive, stream
  <1>5. CASE Separator \/ Data
    BY <1>1, <1>5 DEF Separator, Data, Put, AtHand
  <1>6. CASE Returns \/ WriteEnd \/ Flush \/ CloseGzip \/ CloseFile
    <2>1. /\ main' # "run" /\ UNCHANGED writer
          /\ main # "run" \/ ~AtHand
      BY <1>6 DEF Returns, WriteEnd, Flush, CloseGzip, CloseFile, Closing
    <2> QED
      BY <1>1, <2>1 DEF AtHand
  <1>7. CASE Exit
    BY <1>7 DEF Exit, Ends, AtHand
  <1> QED
    BY <1>2, <1>3, <1>4, <1>5, <1>6, <1>7 DEF Next, CloseConsole, DataFails, Overlap, Killed

LEMMA StepKeeps ==
    ASSUME Typed, [Next]_vars, troubles' = 0, NEW f \in Minutes, NEW k \in Messages,
           HasMessage(f, k)
    PROVE  HasMessage(f, k)'
  <1>1. PICK i \in Positions(f) : Content(f)[i] = Msg(k)
    BY DEF HasMessage
  <1>2. CASE Same(f)
    BY <1>1, <1>2 DEF Same, HasMessage, Positions
  <1>3. CASE ~Same(f)
    <2>1. PICK n \in 0 .. Len(Content(f)), t \in Token :
              n = Len(Content(f)) /\ Adds(f, n, t)
      <3>1. troubles' # troubles + 1
        BY NoTrouble
      <3> QED
        BY <1>3, <3>1, StepAdds DEF Adds
    <2>2. i \in Positions(f)' /\ Content(f)'[i] = Msg(k)
      BY <1>1, <2>1 DEF Adds, Positions
    <2> QED
      BY <2>2 DEF HasMessage
  <1> QED
    BY <1>2, <1>3

LEMMA NextKept == Typed /\ Clean /\ Kept /\ [Next]_vars => Kept'
  <1> SUFFICES ASSUME Typed, Clean, Kept, [Next]_vars, troubles' = 0,
                      NEW k \in Messages, k <= Written'
               PROVE  \E f \in Minutes : HasMessage(f, k)'
    BY DEF Kept
  <1>1. troubles = 0 /\ ~Trouble
    BY NoTrouble
  <1>2. CASE k <= Written
    BY <1>1, <1>2, StepKeeps DEF Kept
  <1>3. CASE ~(k <= Written)
    <2>1. k \in Nat /\ received \in Nat
      BY BoundsAssumption DEF Messages, Typed, TypeOK
    <2>2. Data \/ Written' = Written
      <3>1. CASE Receive
        BY <2>1, <3>1 DEF Receive, Written, AtHand
      <3>2. CASE ~Receive /\ AtHand' = AtHand
        BY <3>2, StepFrame DEF Written
      <3>3. CASE AtHand /\ ~AtHand'
        <4>1. main = "run" /\ writer \in {"create", "separator", "data"}
          BY <1>1, <3>3 DEF Clean, AtHand
        <4>2. Rotate => AtHand'
          BY DEF Rotate, AtHand
        <4>3. ~(DataFails \/ Overlap \/ Killed)
          BY <1>1 DEF DataFails, Overlap, Killed
        <4>4. ~(Minute \/ InitCache \/ Receive \/ Separator \/ UNCHANGED vars)
          BY <3>3, <4>1 DEF Minute, InitCache, Receive, Separator, vars, AtHand
        <4>5. ~(Returns \/ WriteEnd \/ Flush \/ CloseGzip \/ CloseFile \/ Exit)
          BY <3>3, <4>1
          DEF Returns, WriteEnd, Flush, CloseGzip, CloseFile, Exit, Closing, AtHand
        <4> QED
          BY <3>3, <4>2, <4>3, <4>4, <4>5 DEF Next, CloseConsole
      <3> QED
        BY <3>1, <3>2, <3>3, StepFrame DEF AtHand
    <2>3. Data /\ k = received
      BY <1>3, <2>1, <2>2, WrittenGrows
    <2>4. PICK f \in Minutes : f = file
      BY <1>1, <2>3 DEF Clean, Data, AtHand, Typed, TypeOK
    <2>5. Msg(received) \in Token /\ Put(Msg(received))
      BY <2>3, TokensTyped DEF Data
    <2>6. Adds(f, Len(Content(f)), Msg(received))
      BY <2>4, <2>5, PutAdds DEF Typed
    <2>7. Adds(f, Len(Content(f)), Msg(k))
      BY <2>3, <2>6
    <2>8. HasMessage(f, k)'
      BY <2>7, ContentTyped DEF Adds, HasMessage, Positions, Typed
    <2> QED
      BY <2>8
  <1> QED
    BY <1>2, <1>3

LEMMA OrderKeeps ==
    Typed /\ IsWritten /\ KeepsOrder /\ Kept => KeepsEveryMessage
  <1> SUFFICES ASSUME Typed, IsWritten, KeepsOrder, Kept, troubles = 0,
                      NEW k \in Messages
               PROVE  /\ k <= Written <=> \E f \in Minutes : HasMessage(f, k)
                      /\ \A f, g \in Minutes :
                         \A i \in Positions(f), j \in Positions(g) :
                            Content(f)[i] = Msg(k) /\ Content(g)[j] = Msg(k)
                              => f = g /\ i = j
    BY DEF KeepsEveryMessage
  <1>1. k <= Written <=> \E f \in Minutes : HasMessage(f, k)
    BY MessageWritten DEF Kept
  <1>2. ASSUME NEW f \in Minutes, NEW g \in Minutes,
               NEW i \in Positions(f), NEW j \in Positions(g),
               Content(f)[i] = Msg(k), Content(g)[j] = Msg(k)
        PROVE  f = g /\ i = j
    <2>1. /\ f \in Nat /\ g \in Nat /\ i \in Nat /\ j \in Nat
      BY BoundsAssumption DEF Minutes, Positions
    <2>2. Msg(k).mark = "msg" /\ Msg(k).k = k /\ ~(k < k)
      <3>1. k \in Nat
        BY BoundsAssumption DEF Messages
      <3>2. ~(k < k)
        BY <3>1
      <3> QED
        BY <3>2, Marks
    <2>3. ~(f < g \/ (f = g /\ i < j)) /\ ~(g < f \/ (g = f /\ j < i))
      BY <1>2, <2>2 DEF KeepsOrder
    <2> QED
      BY <2>1, <2>3
  <1> QED
    BY <1>1, <1>2
-----------------------------------------------------------------------------
(***************************************************************************)
(* Framed.  The mark at the end of each file says which token may follow:  *)
(* the open file waits for an opening, for a message or for a comma, and   *)
(* the others have been closed or cut; but main may have ended the array   *)
(* of the open file before its time.                                       *)
(***************************************************************************)
LastMark(f) ==
    IF Content(f) = <<>> THEN "]" ELSE Content(f)[Len(Content(f))].mark

Shut(f) == console /\ Content(f) # <<>> /\ LastMark(f) = "]"

Expected(f) ==
    IF f # file THEN {"]", "cut"}
    ELSE IF writer = "data" THEN {"[", ","}
    ELSE IF firstWrite THEN {"]", "cut"} ELSE {"msg", "void"}

Ending == \A f \in Minutes : LastMark(f) \in Expected(f) \/ Shut(f)

FramedFile(f) ==
    /\ Content(f) # <<>> => Content(f)[1].mark \in After("]")
    /\ \A i \in Positions(f) \ {1} :
          \/ Content(f)[i].mark \in After(Content(f)[i - 1].mark)
          \/ console /\ Close \in {Content(f)[i - 1], Content(f)[i]}

LEMMA SameEnding ==
    ASSUME NEW f \in Minutes, Same(f), UNCHANGED console
    PROVE  /\ LastMark(f)' = LastMark(f)
           /\ Shut(f) => Shut(f)'
           /\ FramedFile(f) => FramedFile(f)'
  BY DEF Same, LastMark, Shut, FramedFile, Positions

LEMMA Afters ==
    /\ \A m : "cut" \in After(m)
    /\ \A m \in {"]", "cut"} : "[" \in After(m) /\ "]" \in After(m)
    /\ \A m \in {"[", ","} : "msg" \in After(m) /\ "void" \in After(m)
    /\ \A m \in {"msg", "void"} : "," \in After(m) /\ "]" \in After(m)
  BY DEF After

\* A token is added behind one that it may follow.
LEMMA AddsEnding ==
    ASSUME TypeOK, NEW f \in Minutes, NEW n \in 0 .. Len(Content(f)),
           NEW t \in Token, Adds(f, n, t), UNCHANGED console,
           \/ t = Cut
           \/ /\ n = Len(Content(f))
              /\ t.mark \in After(LastMark(f)) \/ (console /\ t = Close) \/ Shut(f)
    PROVE  /\ LastMark(f)' = t.mark
           /\ Content(f)' # <<>>
           /\ FramedFile(f) => FramedFile(f)'
  <1>1. Content(f) \in Seq(Token) /\ Len(Content(f)) \in Nat /\ n \in Nat
    BY ContentTyped
  <1>2. /\ Len(Content(f)') = n + 1 /\ Content(f)'[n + 1] = t
        /\ \A i \in 1 .. n : Content(f)'[i] = Content(f)[i]
    BY DEF Adds
  <1>3. Content(f)' # <<>>
    <2>1. Len(Content(f)') # Len(<<>>)
      BY <1>1, <1>2
    <2> QED
      BY <2>1
  <1>4. LastMark(f)' = t.mark
    BY <1>2, <1>3 DEF LastMark
  <1>5. Shut(f) => n # 0 \/ t = Cut
    BY <1>1 DEF Shut
  <1>6. ASSUME FramedFile(f)
        PROVE  FramedFile(f)'
    <2>1. Content(f)'[1].mark \in After("]")
      <3>1. CASE n = 0
        <4>1. t = Cut \/ t = Close \/ t.mark \in After("]")
          BY <1>1, <1>5, <3>1 DEF LastMark
        <4>2. t.mark \in After("]")
          BY <4>1, Afters, Marks
        <4>3. Content(f)'[1] = t
          BY <1>2, <3>1
        <4> QED
          BY <4>2, <4>3
      <3>2. CASE n # 0
        <4>1. Content(f)'[1] = Content(f)[1] /\ Len(Content(f)) # 0
          BY <1>1, <1>2, <3>2
        <4>2. Content(f) # <<>>
          BY <4>1
        <4> QED
          BY <1>6, <4>1, <4>2 DEF FramedFile
      <3> QED
        BY <3>1, <3>2
    <2>2. ASSUME NEW i \in Positions(f)' \ {1}
          PROVE  \/ Content(f)'[i].mark \in After(Content(f)'[i - 1].mark)
                 \/ console' /\ Close \in {Content(f)'[i - 1], Content(f)'[i]}
      <3>1. i \in 2 .. n + 1 /\ Content(f)'[i - 1] = Content(f)[i - 1]
        BY <1>1, <1>2, <2>2 DEF Positions
      <3>2. CASE i <= n
        <4>1. i \in 1 .. n /\ i \in Positions(f) \ {1}
          BY <1>1, <3>1, <3>2 DEF Positions
        <4>2. Content(f)'[i] = Content(f)[i]
          BY <1>2, <4>1
        <4> QED
          BY <1>6, <3>1, <4>1, <4>2 DEF FramedFile
      <3>3. CASE i = n + 1
        <4>1. /\ Content(f)'[i] = t /\ i - 1 = n /\ n # 0
          BY <1>1, <1>2, <3>1, <3>3
        <4>2. CASE t = Cut
          <5>1. Content(f)'[i].mark = "cut"
            BY <4>1, <4>2, Marks
          <5> QED
            BY <5>1, Afters
        <4>3. CASE t # Cut
          <5>1. n = Len(Content(f)) /\ LastMark(f) = Content(f)[i - 1].mark
            BY <1>1, <4>1, <4>3 DEF LastMark
          <5>2. Shut(f) => console /\ Content(f)[i - 1] = Close
            <6>1. Content(f)[i - 1] \in Token
              BY <1>1, <4>1, <5>1
            <6> QED
              BY <5>1, <6>1, TokenKinds DEF Shut
          <5> QED
            BY <3>1, <4>1, <4>3, <5>1, <5>2
        <4> QED
          BY <4>2, <4>3
      <3> QED
        BY <1>1, <3>1, <3>2, <3>3
    <2> QED
      BY <2>1, <2>2 DEF FramedFile
  <1> QED
    BY <1>3, <1>4, <1>6

\* A file that is not open does not change, but that it may be opened.
LEMMA ClosedFramed ==
    ASSUME Typed, Ending, [Next]_vars, NEW f \in Minutes, f # file, FramedFile(f)
    PROVE  (LastMark(f) \in Expected(f) \/ Shut(f))' /\ FramedFile(f)'
  <1> USE DEF Typed
  <1>1. f # None /\ UNCHANGED console
    BY StepFrame, NoneAssumption
  <1>2. Same(f)
    <2>1. Puts => Same(f)
      BY PutAdds DEF Puts
    <2>2. CreateFile => Same(f)
      BY CreateSame
    <2>3. Leaves => Same(f)
      <3> SUFFICES ASSUME Leaves PROVE Same(f)
        OBVIOUS
      <3>1. PICK g \in Minutes : g = file
        BY DEF Leaves, TypeOK
      <3>2. PICK n \in 0 .. Len(buffer) : Leave(n)
        BY DEF Leaves
      <3>3. Adds(g, Len(disk[g]) + n, Cut)
        BY <3>1, <3>2, LeaveAdds
      <3> QED
        BY <3>1, <3>3 DEF Adds
    <2> QED
      BY <2>1, <2>2, <2>3, StaysSame, StepKind
  <1>3. Expected(f) = {"]", "cut"}
    BY DEF Expected
  <1>4. Expected(f)' = {"]", "cut"}
    <2>1. CASE f # file'
      BY <2>1 DEF Expected
    <2>2. CASE f = file'
      <3>1. file' \notin {file, None}
        BY <1>1, <2>2
      <3>2. InitCache \/ Rotate
        BY <3>1, StepWriter
      <3>3. firstWrite' = TRUE /\ writer' # "data"
        BY <3>2, CreateOpens DEF InitCache, Rotate
      <3> QED
        BY <2>2, <3>3 DEF Expected
    <2> QED
      BY <2>1, <2>2
  <1> QED
    BY <1>1, <1>2, <1>3, <1>4, SameEnding DEF Ending

\* The marks a step leaves behind in the open file, and what may come next.
LEMMA NextFramed ==
    ASSUME Typed, Ending, \A f \in Minutes : FramedFile(f), [Next]_vars,
           NEW f \in Minutes
    PROVE  (LastMark(f) \in Expected(f) \/ Shut(f))' /\ FramedFile(f)'
  <1> USE DEF Typed
  <1>0. CASE f # file
    BY <1>0, ClosedFramed
  <1> SUFFICES ASSUME f = file
               PROVE  (LastMark(f) \in Expected(f) \/ Shut(f))' /\ FramedFile(f)'
    BY <1>0
  <1>1. /\ LastMark(f) \in Expected(f) \/ Shut(f)
        /\ FramedFile(f) /\ f # None /\ UNCHANGED console
        /\ Len(Content(f)) \in 0 .. Len(Content(f))
    BY StepFrame, ContentTyped, NoneAssumption DEF Ending
  <1>2. CASE Minute \/ Receive \/ Returns \/ Flush \/ UNCHANGED vars
    <2>1. UNCHANGED <<disk, file, buffer, firstWrite>>
          /\ (writer = "data" <=> writer' = "data")
      BY <1>2 DEF Minute, Receive, Returns, Flush, Closing, vars, memory, stream
    <2>2. Expected(f)' = Expected(f) /\ Same(f)
      BY <2>1, StaysSame DEF Expected, Stays
    <2> QED
      BY <1>1, <2>2, SameEnding
  <1>3. CASE Rotate
    <2>1. writer = "create" /\ writer' = "separator" /\ firstWrite' = TRUE /\ CreateFile
      BY <1>3, CreateOpens DEF Rotate
    <2>2. Expected(f)' = {"]", "cut"}
      BY <2>1 DEF Expected
    <2>3. Expected(f) \in {{"]", "cut"}, {"msg", "void"}}
      BY <2>1 DEF Expected
    <2>4. Close.mark \in After(LastMark(f))
      BY <1>1, <2>3, Afters, Marks DEF Shut
    <2>5. Adds(f, Len(Content(f)), Close)
      BY <2>1, CreateAdds
    <2>6. LastMark(f)' = Close.mark /\ FramedFile(f)'
      BY <1>1, <2>4, <2>5, AddsEnding, TokensTyped
    <2> QED
      BY <2>2, <2>6, Marks
  <1>4. CASE Separator
    <2> DEFINE t == IF firstWrite THEN Open ELSE Comma
    <2>1. /\ UNCHANGED firstWrite /\ firstWrite \in BOOLEAN /\ Put(t)
          /\ writer = "separator" /\ writer' = "data" /\ file' = file
      BY <1>4 DEF Separator, Put, TypeOK
    <2>2. /\ Expected(f) = IF firstWrite THEN {"]", "cut"} ELSE {"msg", "void"}
          /\ Expected(f)' = {"[", ","}
      BY <2>1 DEF Expected
    <2>3. t \in Token /\ t.mark \in {"[", ","}
      BY Marks, TokensTyped
    <2>4. t.mark \in After(LastMark(f)) \/ Shut(f)
      BY <1>1, <2>1, <2>2, Afters, Marks
    <2> HIDE DEF t
    <2>5. Adds(f, Len(Content(f)), t)
      BY <2>1, <2>3, PutAdds
    <2>6. LastMark(f)' = t.mark /\ FramedFile(f)'
      BY <1>1, <2>3, <2>4, <2>5, AddsEnding
    <2> QED
      BY <2>2, <2>3, <2>6
  <1>5. CASE Data \/ DataFails
    <2>1. PICK t \in Token : Put(t) /\ t.mark \in {"msg", "void"}
      <3>1. CASE Data
        <4>1. received \in Messages
          BY <3>1 DEF Data, AtHand, TypeOK, Messages
        <4> QED
          BY <3>1, <4>1, TokensTyped, Marks DEF Data
      <3>2. CASE DataFails
        BY <3>2, TokensTyped, Marks DEF DataFails
      <3> QED
        BY <1>5, <3>1, <3>2
    <2>2. /\ writer = "data" /\ writer' = "wait" /\ firstWrite' = FALSE
          /\ file' = file
      BY <1>5, <2>1 DEF Data, DataFails, Put
    <2>3. Expected(f) = {"[", ","} /\ Expected(f)' = {"msg", "void"}
      BY <2>2 DEF Expected
    <2>4. t.mark \in After(LastMark(f)) \/ Shut(f)
      BY <1>1, <2>1, <2>3, Afters
    <2>5. Adds(f, Len(Content(f)), t)
      BY <2>1, PutAdds
    <2>6. LastMark(f)' = t.mark /\ FramedFile(f)'
      BY <1>1, <2>4, <2>5, AddsEnding
    <2> QED
      BY <2>1, <2>3, <2>6
  <1>6. CASE WriteEnd
    <2>1. console /\ Put(Close)
      BY <1>6 DEF WriteEnd, Closing, TypeOK
    <2>2. Adds(f, Len(Content(f)), Close)
      BY <2>1, PutAdds, TokensTyped
    <2>3. LastMark(f)' = Close.mark /\ Content(f)' # <<>> /\ FramedFile(f)'
      BY <1>1, <2>1, <2>2, AddsEnding, TokensTyped
    <2> QED
      BY <1>1, <2>1, <2>3, Marks DEF Shut
  <1>7. CASE Leaves
    <2>1. PICK n \in 0 .. Len(buffer) : Leave(n)
      BY <1>7 DEF Leaves
    <2> DEFINE m == Len(disk[f]) + n
    <2>2. Adds(f, m, Cut) /\ m \in 0 .. Len(Content(f))
      BY <2>1, LeaveAdds
    <2> HIDE DEF m
    <2>3. LastMark(f)' = Cut.mark /\ FramedFile(f)'
      BY <1>1, <2>2, AddsEnding, TokensTyped
    <2>4. Expected(f)' = {"]", "cut"}
      BY <1>1, <2>1 DEF Leave, Expected
    <2> QED
      BY <2>3, <2>4, Marks
  <1>8. ~InitCache /\ ~Exit
    BY <1>1 DEF InitCache, Exit, TypeOK
  <1>9. CloseGzip \/ CloseFile \/ Overlap \/ Killed => Leaves
    <2>1. flushed .. Len(buffer) \subseteq 0 .. Len(buffer)
      BY DEF TypeOK
    <2> QED
      BY <1>1, <2>1 DEF CloseGzip, CloseFile, Overlap, Killed, Trouble, Leaves
  <1> QED
    BY <1>2, <1>3, <1>4, <1>5, <1>6, <1>7, <1>8, <1>9 DEF Next, CloseConsole
-----------------------------------------------------------------------------
(***************************************************************************)
(* How a step moves messages from the buffers to the disk.                 *)
(***************************************************************************)
Holds(s, k) == \E i \in 1 .. Len(s) : s[i] = Msg(k)

LEMMA SafeHolds ==
    /\ \A f \in Minutes, k \in Messages :
          OnDisk(f, k) <=> disk[f] # None /\ Holds(disk[f], k)
    /\ Pending = {k \in Messages : Holds(buffer, k)}
  BY DEF OnDisk, Pending, Holds

LEMMA HoldsNothing == ASSUME NEW k PROVE ~Holds(<<>>, k)
  BY DEF Holds

LEMMA HoldsAppended ==
    ASSUME NEW s \in Seq(Token), NEW t \in Token, NEW k
    PROVE  Holds(Append(s, t), k) <=> Holds(s, k) \/ t = Msg(k)
  <1>1. /\ Len(s) \in Nat /\ Len(Append(s, t)) = Len(s) + 1
        /\ \A i \in 1 .. Len(s) : Append(s, t)[i] = s[i]
        /\ Append(s, t)[Len(s) + 1] = t
    OBVIOUS
  <1> DEFINE e == Append(s, t)
  <1> HIDE DEF e
  <1>2. /\ Len(s) \in Nat /\ Len(e) = Len(s) + 1
        /\ \A i \in 1 .. Len(s) : e[i] = s[i]
        /\ e[Len(s) + 1] = t
    BY <1>1 DEF e
  <1>3. Holds(e, k) <=> Holds(s, k) \/ t = Msg(k)
    BY <1>2 DEF Holds
  <1> QED
    BY <1>3 DEF e

LEMMA HoldsJoined ==
    ASSUME NEW a \in Seq(Token), NEW b \in Seq(Token), NEW k
    PROVE  Holds(a \o b, k) <=> Holds(a, k) \/ Holds(b, k)
  <1> DEFINE c == a \o b
  <1>1. Len(a) \in Nat /\ Len(b) \in Nat /\ Len(c) = Len(a) + Len(b)
    OBVIOUS
  <1>2. /\ \A i \in 1 .. Len(a) : c[i] = a[i]
        /\ \A i \in 1 .. Len(b) : c[Len(a) + i] = b[i]
    OBVIOUS
  <1> HIDE DEF c
  <1>3. ASSUME Holds(c, k)
        PROVE  Holds(a, k) \/ Holds(b, k)
    <2>1. PICK i \in 1 .. Len(c) : c[i] = Msg(k)
      BY <1>3 DEF Holds
    <2>2. CASE i <= Len(a)
      BY <1>1, <1>2, <2>1, <2>2 DEF Holds
    <2>3. CASE ~(i <= Len(a))
      <3>1. i - Len(a) \in 1 .. Len(b) /\ Len(a) + (i - Len(a)) = i
        BY <1>1, <2>1, <2>3
      <3>2. b[i - Len(a)] = c[i]
        BY <1>2, <3>1
      <3> QED
        BY <2>1, <3>1, <3>2 DEF Holds
    <2> QED
      BY <2>2, <2>3
  <1>4. ASSUME Holds(a, k)
        PROVE  Holds(c, k)
    <2>1. PICK i \in 1 .. Len(a) : a[i] = Msg(k)
      BY <1>4 DEF Holds
    <2> QED
      BY <1>1, <1>2, <2>1 DEF Holds
  <1>5. ASSUME Holds(b, k)
        PROVE  Holds(c, k)
    <2>1. PICK i \in 1 .. Len(b) : b[i] = Msg(k)
      BY <1>5 DEF Holds
    <2>2. Len(a) + i \in 1 .. Len(c) /\ c[Len(a) + i] = Msg(k)
      BY <1>1, <1>2, <2>1
    <2> QED
      BY <2>2 DEF Holds
  <1> QED
    BY <1>3, <1>4, <1>5 DEF c

LEMMA HoldsNoMark ==
    ASSUME NEW s \in Seq(Token), NEW t \in {Open, Comma, Close, Void, Cut}, NEW k
    PROVE  /\ Holds(s \o <<t>>, k) <=> Holds(s, k)
           /\ Holds(Append(s, t), k) <=> Holds(s, k)
  <1>1. t # Msg(k) /\ t \in Token
    BY Marks, TokensTyped
  <1>2. Append(s, t) = s \o <<t>>
    OBVIOUS
  <1>3. Holds(Append(s, t), k) <=> Holds(s, k)
    BY <1>1, HoldsAppended
  <1> QED
    BY <1>2, <1>3

\* What is on the disk after a write of the first n of the buffer.
LEMMA DiskGrows ==
    ASSUME TypeOK, NEW f \in Minutes, NEW n \in 0 .. Len(buffer), disk[f] # None,
           NEW t \in {Close, Cut},
           disk'[f] = disk[f] \o SubSeq(buffer, 1, n) \o <<t>>,
           \A g \in Minutes \ {f} : \A k \in Messages :
               OnDisk(g, k)' <=> OnDisk(g, k)
    PROVE  Safe' = Safe \cup {k \in Messages : Holds(SubSeq(buffer, 1, n), k)}
  <1> DEFINE a == disk[f]
             d == SubSeq(buffer, 1, n)
             e == disk'[f]
  <1>1. a \in Seq(Token) /\ a # None /\ buffer \in Seq(Token)
    BY DEF TypeOK
  <1>2. d \in Seq(Token)
    BY <1>1
  <1>3. e = (a \o d) \o <<t>>
    OBVIOUS
  <1> HIDE DEF a, d, e
  <1>4. a \o d \in Seq(Token) /\ t \in Token
    BY <1>1, <1>2, TokensTyped
  <1>5. e \in Seq(Token)
    BY <1>3, <1>4, JoinsTo
  <1>6. e # None
    BY <1>5, NoneAssumption
  <1>7. ASSUME NEW k \in Messages
        PROVE  Holds(e, k) <=> Holds(a, k) \/ Holds(d, k)
    <2>1. Holds(e, k) <=> Holds(a \o d, k)
      BY <1>3, <1>4, HoldsNoMark
    <2> QED
      BY <1>1, <1>2, <2>1, HoldsJoined
  <1>8. ASSUME NEW k \in Messages
        PROVE  OnDisk(f, k)' <=> OnDisk(f, k) \/ Holds(d, k)
    BY <1>1, <1>6, <1>7 DEF OnDisk, Holds, a, e
  <1>9. ASSUME NEW k \in Messages
        PROVE  (\E g \in Minutes : OnDisk(g, k)')
                 <=> (\E g \in Minutes : OnDisk(g, k)) \/ Holds(d, k)
    BY <1>8
  <1>10. Safe' = Safe \cup {k \in Messages : Holds(d, k)}
    BY <1>9 DEF Safe
  <1> QED
    BY <1>10 DEF d

\* A file that is created or continued has the messages it had.
LEMMA CreateOnDisk ==
    ASSUME TypeOK, CreateFile, NEW g \in Minutes, g # file, NEW k \in Messages
    PROVE  OnDisk(g, k)' <=> OnDisk(g, k)
  <1>1. CloseCache \in [Minutes -> Seq(Token) \cup {None}] /\ now \in Minutes
    BY CloseCacheTyped DEF TypeOK
  <1>2. CloseCache[g] = disk[g]
    BY DEF CloseCache, TypeOK
  <1>3. CASE g = now /\ disk[g] = None /\ disk' = Continued
    <2>1. disk'[g] = <<>>
      BY <1>1, <1>2, <1>3 DEF Continued
    <2> QED
      BY <1>3, <2>1 DEF OnDisk
  <1>4. CASE ~(g = now /\ disk[g] = None) /\ disk' = Continued
    <2>1. disk'[g] = disk[g]
      BY <1>1, <1>2, <1>4 DEF Continued
    <2> QED
      BY <2>1 DEF OnDisk
  <1>5. CASE disk' = CloseCache
    <2>1. disk'[g] = disk[g]
      BY <1>2, <1>5
    <2> QED
      BY <2>1 DEF OnDisk
  <1> QED
    BY <1>3, <1>4, <1>5, CreateOpens

\* The buffer is in the order of the messages.
LEMMA BufferInOrder ==
    ASSUME TypeOK, KeepsOrder, file # None,
           NEW i \in 1 .. Len(buffer), NEW l \in 1 .. Len(buffer), i < l,
           NEW j \in Messages, NEW k \in Messages,
           buffer[i] = Msg(j), buffer[l] = Msg(k)
    PROVE  j < k
  <1>1. PICK f \in Minutes : f = file
    BY DEF TypeOK
  <1> DEFINE a == disk[f]
             b == buffer
             c == a \o b
  <1>2. a \in Seq(Token) /\ a # None /\ b \in Seq(Token)
    BY <1>1 DEF TypeOK
  <1>3. Content(f) = c
    BY <1>1, <1>2 DEF Content
  <1>4. b[i] = Msg(j) /\ b[l] = Msg(k) /\ i \in 1 .. Len(b) /\ l \in 1 .. Len(b)
    OBVIOUS
  <1> HIDE DEF a, b
  <1>5. /\ Len(a) \in Nat /\ Len(b) \in Nat /\ Len(c) = Len(a) + Len(b)
        /\ c[Len(a) + i] = b[i] /\ c[Len(a) + l] = b[l]
    BY <1>2, <1>4
  <1> HIDE DEF c
  <1>6. Len(a) + i \in Positions(f) /\ Len(a) + l \in Positions(f)
    BY <1>3, <1>4, <1>5 DEF Positions
  <1>7. Len(a) + i < Len(a) + l
    BY <1>5
  <1>8. /\ Content(f)[Len(a) + i].mark = "msg" /\ Content(f)[Len(a) + i].k = j
        /\ Content(f)[Len(a) + l].mark = "msg" /\ Content(f)[Len(a) + l].k = k
    BY <1>3, <1>4, <1>5, Marks
  <1>9. Content(f)[Len(a) + i].k < Content(f)[Len(a) + l].k
    BY <1>6, <1>7, <1>8 DEF KeepsOrder
  <1> QED
    BY <1>8, <1>9

\* What is safe or pending was written.
LEMMA SafeWritten ==
    ASSUME TypeOK, IsWritten, NEW k \in Safe \cup Pending
    PROVE  k \in Messages /\ k <= Written
  <1>1. k \in Messages
    BY DEF Safe, Pending
  <1>2. CASE k \in Safe
    <2>1. PICK f \in Minutes : OnDisk(f, k)
      BY <1>2 DEF Safe
    <2> DEFINE a == disk[f]
    <2>2. a \in Seq(Token) /\ Holds(a, k) /\ a # None
      BY <2>1 DEF OnDisk, Holds, TypeOK
    <2>3. CASE f = file
      <3>1. Content(f) = a \o buffer /\ buffer \in Seq(Token)
        BY <2>2, <2>3 DEF Content, TypeOK
      <3>2. Holds(Content(f), k)
        <4> HIDE DEF a
        <4> QED
          BY <2>2, <3>1, HoldsJoined
      <3>3. HasMessage(f, k)
        BY <3>2 DEF Holds, HasMessage, Positions
      <3> QED
        BY <1>1, <3>3, MessageWritten
    <2>4. CASE f # file
      <3>1. Content(f) = a
        BY <2>2, <2>4 DEF Content
      <3>2. HasMessage(f, k)
        BY <2>2, <3>1 DEF Holds, HasMessage, Positions
      <3> QED
        BY <1>1, <3>2, MessageWritten
    <2> QED
      BY <2>3, <2>4
  <1>3. CASE k \in Pending
    <2>1. Holds(buffer, k) /\ buffer \in Seq(Token)
      BY <1>3 DEF Pending, Holds, TypeOK
    <2>2. PICK f \in Minutes : f = file /\ disk[f] # None
      BY <2>1, HoldsNothing DEF TypeOK
    <2> DEFINE a == disk[f]
    <2>3. a \in Seq(Token) /\ Content(f) = a \o buffer
      BY <2>2 DEF Content, TypeOK
    <2>4. Holds(Content(f), k)
      <3> HIDE DEF a
      <3> QED
        BY <2>1, <2>3, HoldsJoined
    <2>5. HasMessage(f, k)
      BY <2>4 DEF Holds, HasMessage, Positions
    <2> QED
      BY <1>1, <2>5, MessageWritten
  <1> QED
    BY <1>1, <1>2, <1>3

LEMMA BufferEmptied ==
    ASSUME buffer' = <<>>
    PROVE  Pending' = {}
  BY DEF Pending

\* A step that moves no message is a stutter, or a fault if it is a trouble.
LEMMA StutterMaps ==
    ASSUME Typed, [Next]_vars, UNCHANGED <<Safe, Pending>>
    PROVE  [Log!Next]_Log!vars
  <1>1. Trouble \/ UNCHANGED troubles
    BY StepFrame
  <1>2. CASE Trouble
    <2>1. Log!Fault
      BY <1>2 DEF Trouble, Log!Fault
    <2> QED
      BY <2>1 DEF Log!Next
  <1>3. CASE UNCHANGED troubles
    BY <1>3 DEF Log!vars
  <1> QED
    BY <1>1, <1>2, <1>3

LEMMA StaysMaps ==
    ASSUME Stays
    PROVE  UNCHANGED <<Safe, Pending>>
  BY DEF Stays, Safe, OnDisk, Pending

\* Whatever was pending reaches the disk, with or without a trouble.
LEMMA SyncMaps ==
    ASSUME Typed, [Next]_vars, Safe' = Safe \cup Pending, Pending' = {}
    PROVE  [Log!Next]_Log!vars
  <1>1. Trouble \/ UNCHANGED troubles
    BY StepFrame
  <1>2. CASE Trouble
    <2>1. Log!Crash(Pending) /\ Pending \in SUBSET Pending
      BY <1>2 DEF Trouble, Log!Crash
    <2> QED
      BY <2>1 DEF Log!Next
  <1>3. CASE UNCHANGED troubles
    <2>1. Log!Sync
      BY <1>3 DEF Log!Sync
    <2> QED
      BY <2>1 DEF Log!Next
  <1> QED
    BY <1>1, <1>2, <1>3

LEMMA CreateMaps ==
    ASSUME TypeOK, CreateFile
    PROVE  Safe' = Safe \cup Pending /\ Pending' = {}
  <1>1. buffer' = <<>> /\ Pending' = {}
    BY CreateOpens, BufferEmptied
  <1>2. CASE file = None
    <2>1. Pending = {}
      BY <1>2, BufferEmptied DEF TypeOK, Pending
    <2>2. \A g \in Minutes, k \in Messages : OnDisk(g, k)' <=> OnDisk(g, k)
      BY <1>2, CreateOnDisk, NoneAssumption
    <2> QED
      BY <1>1, <2>1, <2>2 DEF Safe
  <1>3. CASE file # None
    <2>1. PICK f \in Minutes : f = file /\ disk[f] # None
      BY <1>3 DEF TypeOK
    <2>2. disk'[f] = disk[f] \o buffer \o <<Close>>
      <3>1. /\ CloseCache = [disk EXCEPT ![f] = disk[f] \o buffer \o <<Close>>]
            /\ CloseCache[f] # None
        BY <2>1, CloseCacheEnds, NoneAssumption
      <3>2. CloseCache[f] = disk[f] \o buffer \o <<Close>>
        BY <3>1 DEF TypeOK
      <3>3. Continued[f] = CloseCache[f]
        BY <3>1, CloseCacheTyped DEF Continued
      <3> QED
        BY <3>2, <3>3, CreateOpens
    <2>3. /\ disk'[f] = disk[f] \o SubSeq(buffer, 1, Len(buffer)) \o <<Close>>
          /\ Len(buffer) \in 0 .. Len(buffer)
      BY <2>1, <2>2, WholeBuffer
    <2>4. \A g \in Minutes \ {f} : \A k \in Messages : OnDisk(g, k)' <=> OnDisk(g, k)
      BY <2>1, CreateOnDisk
    <2>5. SubSeq(buffer, 1, Len(buffer)) = buffer
      BY DEF TypeOK
    <2>6. Safe' = Safe \cup {k \in Messages : Holds(SubSeq(buffer, 1, Len(buffer)), k)}
      BY <2>1, <2>3, <2>4, DiskGrows
    <2>7. Safe' = Safe \cup Pending
      BY <2>5, <2>6, SafeHolds
    <2> QED
      BY <1>1, <2>7
  <1> QED
    BY <1>2, <1>3

\* A mark is no message, and a message that is put is the last one.
LEMMA MarkMaps ==
    ASSUME TypeOK, NEW t \in {Open, Comma, Close, Void, Cut}, Put(t)
    PROVE  UNCHANGED <<Safe, Pending>>
  <1>1. UNCHANGED Safe
    BY DEF Put, Safe, OnDisk
  <1>2. buffer \in Seq(Token) /\ buffer' \in {buffer, Append(buffer, t)}
    BY DEF TypeOK, Put
  <1>3. ASSUME NEW k \in Messages
        PROVE  Holds(buffer', k) <=> Holds(buffer, k)
    <2>1. Holds(Append(buffer, t), k) <=> Holds(buffer, k)
      BY <1>2, HoldsNoMark
    <2> QED
      BY <1>2, <2>1
  <1>4. Pending' = {k \in Messages : Holds(buffer', k)}
    BY DEF Pending, Holds
  <1>5. Pending' = Pending
    BY <1>3, <1>4, SafeHolds
  <1> QED
    BY <1>1, <1>5

LEMMA WriteMaps ==
    ASSUME Typed, IsWritten, Data, file # None, UNCHANGED troubles
    PROVE  received \in Messages /\ Log!Write(received)
  <1>1. received \in Messages /\ Msg(received) \in Token /\ received \in Nat
    <2>1. received \in Messages
      BY DEF Data, Typed, AtHand, TypeOK, Messages
    <2> QED
      BY <2>1, TokensTyped, BoundsAssumption DEF Messages
  <1>2. /\ UNCHANGED disk /\ writer = "data"
        /\ buffer' = Append(buffer, Msg(received)) /\ buffer \in Seq(Token)
    BY DEF Data, Put, Typed, TypeOK
  <1>3. UNCHANGED <<Safe, troubles>>
    BY <1>2 DEF Safe, OnDisk
  <1>4. ASSUME NEW j \in Safe \cup Pending
        PROVE  j < received
    <2>1. j \in Messages /\ j <= Written
      BY SafeWritten DEF Typed
    <2>2. Written = received - 1 /\ j \in Nat
      BY <1>2, <2>1, BoundsAssumption DEF Written, AtHand, Messages
    <2> QED
      BY <1>1, <2>1, <2>2
  <1>5. Pending' = Pending \cup {received}
    <2>1. ASSUME NEW k \in Messages
          PROVE  Holds(buffer', k) <=> Holds(buffer, k) \/ k = received
      <3>1. Msg(received).k = received /\ Msg(k).k = k
        BY Marks
      <3>2. Msg(received) = Msg(k) <=> k = received
        BY <3>1
      <3> QED
        BY <1>1, <1>2, <3>2, HoldsAppended
    <2>2. Pending' = {k \in Messages : Holds(buffer', k)}
      BY DEF Pending, Holds
    <2> QED
      BY <1>1, <2>1, <2>2, SafeHolds
  <1> QED
    BY <1>1, <1>3, <1>4, <1>5 DEF Log!Write

LEMMA PutsMaps ==
    ASSUME Typed, IsWritten, [Next]_vars, Puts
    PROVE  [Log!Next]_Log!vars
  <1>1. PICK t \in Token : Put(t) /\ (t.mark = "msg" => Data /\ t = Msg(received))
    BY DEF Puts
  <1>2. CASE t.mark # "msg"
    <2>1. t \in {Open, Comma, Close, Void, Cut}
      BY <1>2, Marks DEF Token
    <2> QED
      BY <1>1, <2>1, MarkMaps, StutterMaps DEF Typed
  <1>3. CASE t.mark = "msg" /\ file # None
    <2>1. Data /\ UNCHANGED troubles
      BY <1>1, <1>3, StepFrame
    <2>2. received \in Messages /\ Log!Write(received)
      BY <1>3, <2>1, WriteMaps
    <2> QED
      BY <2>2 DEF Log!Next
  <1>4. CASE file = None
    <2>1. UNCHANGED <<disk, buffer>>
      BY <1>1, <1>4 DEF Put
    <2> QED
      BY <2>1, StutterMaps DEF Safe, OnDisk, Pending
  <1> QED
    BY <1>2, <1>3, <1>4

\* What is left of the buffer is its beginning.
LEMMA LeavesMaps ==
    ASSUME Typed, KeepsOrder, [Next]_vars, Leaves
    PROVE  [Log!Next]_Log!vars
  <1>1. PICK f \in Minutes : f = file /\ disk[f] # None
    BY DEF Leaves, Typed, TypeOK
  <1>2. PICK n \in 0 .. Len(buffer) :
           Leave(n) /\ (n = Len(buffer) \/ troubles' = troubles + 1)
    BY DEF Leaves
  <1> DEFINE d == SubSeq(buffer, 1, n)
             kept == {k \in Messages : Holds(d, k)}
  <1>3. /\ buffer \in Seq(Token) /\ Len(buffer) \in Nat /\ n \in Nat
        /\ Len(d) = n /\ \A i \in 1 .. n : d[i] = buffer[i]
        /\ n = Len(buffer) => d = buffer
    <2>1. buffer \in Seq(Token)
      BY DEF Typed, TypeOK
    <2> QED
      BY <2>1
  <1>4. /\ disk' = [disk EXCEPT ![f] = disk[f] \o d \o <<Cut>>]
        /\ buffer' = <<>>
    BY <1>1, <1>2 DEF Leave
  <1>5. Safe' = Safe \cup kept
    <2>1. disk'[f] = disk[f] \o d \o <<Cut>>
      BY <1>4 DEF Typed, TypeOK
    <2>2. ASSUME NEW g \in Minutes \ {f}, NEW k \in Messages
          PROVE  OnDisk(g, k)' <=> OnDisk(g, k)
      <3>1. disk'[g] = disk[g]
        BY <1>4 DEF Typed, TypeOK
      <3> QED
        BY <3>1 DEF OnDisk
    <2> QED
      BY <1>1, <2>1, <2>2, DiskGrows DEF Typed
  <1>6. Pending' = {}
    BY <1>4, BufferEmptied
  <1> HIDE DEF d
  <1>7. CASE n = Len(buffer)
    <2>1. kept = Pending
      BY <1>3, <1>7, SafeHolds
    <2> QED
      BY <1>5, <1>6, <2>1, SyncMaps
  <1>8. CASE troubles' = troubles + 1
    <2>1. kept \subseteq Pending
      <3> SUFFICES ASSUME NEW k \in kept PROVE k \in Pending
        OBVIOUS
      <3>1. PICK i \in 1 .. n : d[i] = Msg(k)
        BY <1>3 DEF Holds
      <3> QED
        BY <1>3, <3>1 DEF Pending
    <2>2. ASSUME NEW j \in kept, NEW k \in Pending \ kept
          PROVE  j < k
      <3>1. PICK i \in 1 .. n : d[i] = Msg(j)
        BY <1>3 DEF Holds
      <3>2. PICK l \in 1 .. Len(buffer) : buffer[l] = Msg(k)
        BY DEF Pending
      <3>3. i \in 1 .. Len(buffer) /\ buffer[i] = Msg(j)
        BY <1>3, <3>1
      <3>4. k \in Messages /\ ~Holds(d, k)
        BY DEF Pending
      <3>5. ~(l \in 1 .. n)
        BY <1>3, <3>2, <3>4 DEF Holds
      <3>6. i < l
        BY <1>3, <3>1, <3>2, <3>5
      <3> QED
        BY <1>1, <3>2, <3>3, <3>4, <3>6, BufferInOrder, NoneAssumption DEF Typed
    <2>3. Log!Crash(kept)
      BY <1>5, <1>6, <1>8, <2>2 DEF Log!Crash
    <2> QED
      BY <2>1, <2>3 DEF Log!Next
  <1> QED
    BY <1>2, <1>7, <1>8
-----------------------------------------------------------------------------
(***************************************************************************)
(* The theorems.                                                           *)
(***************************************************************************)
IInv ==
    /\ Typed /\ Named /\ IsWritten /\ InTime /\ Clean /\ Kept /\ Ending
    /\ KeepsOrder /\ FiledByTime /\ \A f \in Minutes : FramedFile(f)

LEMMA InitIInv == Init => IInv
  <1> SUFFICES ASSUME Init PROVE IInv
    OBVIOUS
  <1>1. Typed /\ now \in Nat
    BY InitTyped, BoundsAssumption DEF Typed, TypeOK, Minutes
  <1>2. \A f \in Minutes : disk[f] = None /\ f # file /\ f # None
    BY NoneAssumption DEF Init
  <1>3. \A f \in Minutes : Content(f) = <<>>
    BY <1>2 DEF Content
  <1>4. \A f \in Minutes : Positions(f) = {} /\ LastMark(f) = "]"
    BY <1>3 DEF Positions, LastMark
  <1>5. Named
    BY <1>1, <1>2 DEF Named, NotAhead, Latest, Recorded, Init
  <1>6. IsWritten /\ KeepsOrder /\ FiledByTime
    BY <1>4 DEF IsWritten, KeepsOrder, FiledByTime, HasMessage
  <1>7. InTime /\ Ending
    BY <1>2, <1>4 DEF InTime, Ending, Expected
  <1>8. Kept /\ Clean
    BY DEF Init, Kept, Clean, Written, AtHand, Messages
  <1>9. \A f \in Minutes : FramedFile(f)
    BY <1>3, <1>4 DEF FramedFile
  <1> QED
    BY <1>1, <1>5, <1>6, <1>7, <1>8, <1>9 DEF IInv

LEMMA NextIInv == IInv /\ [Next]_vars => IInv'
  <1> SUFFICES ASSUME IInv, [Next]_vars PROVE IInv'
    OBVIOUS
  <1>1. Typed' /\ Named' /\ IsWritten' /\ KeepsOrder' /\ Clean' /\ Kept'
    BY NextTyped, NextNamed, NextOrder, NextClean, NextKept DEF IInv
  <1>2. InTime' /\ FiledByTime'
    BY NextInTime, NextFiled DEF IInv
  <1>3. Ending' /\ \A f \in Minutes : FramedFile(f)'
    BY NextFramed DEF IInv, Ending
  <1> QED
    BY <1>1, <1>2, <1>3 DEF IInv

\* The messages in the files are in the order they came in (cache.go 195-217),
\* also after the process was killed and its file is continued.
THEOREM InOrder == Spec => []KeepsOrder
  <1>1. IInv => KeepsOrder
    BY DEF IInv
  <1> QED
    BY <1>1, InitIInv, NextIInv, PTL DEF Spec

\* As long as no call fails, nobody kills the process, and main closes the cache
\* between two messages, every message is in one file, once, also over consoles
\* that are closed and started again (cache.go 57-64, 220-235).
THEOREM NothingLost == Spec => []KeepsEveryMessage
  <1>1. IInv => KeepsEveryMessage
    BY OrderKeeps DEF IInv
  <1> QED
    BY <1>1, InitIInv, NextIInv, PTL DEF Spec

\* A file holds no message that came after the next file was named, and none
\* but its first from before its own minute (cache.go 198-201, 223).
THEOREM NamedByTime == Spec => []FiledByTime
  <1>1. IInv => FiledByTime
    BY DEF IInv
  <1> QED
    BY <1>1, InitIInv, NextIInv, PTL DEF Spec

\* The separators are where a JSON array has them, whatever was cut off, but for
\* the end that main writes next to processMessages (cache.go 59-60, 205-216).
THEOREM WellFramed == Spec => []Framed
  <1>1. IInv => Framed
    BY DEF IInv, Framed, FramedFile
  <1> QED
    BY <1>1, InitIInv, NextIInv, PTL DEF Spec

\* What has reached the disk stays there, also when the file of the minute is
\* opened again (cache.go 231); a kill, a call that fails, or a CloseCache next
\* to processMessages loses the last messages only (57-64, 205-216, 226-231).
THEOREM Durable == Spec => LosesOnlyTheLast
  <1>1. Init => Log!Init
    <2> SUFFICES ASSUME Init PROVE Log!Init
      OBVIOUS
    <2>1. \A f \in Minutes : disk[f] = None
      BY DEF Init
    <2>2. Safe = {} /\ Pending = {} /\ troubles = 0
      BY <2>1 DEF Init, Safe, OnDisk, Pending
    <2> QED
      BY <2>2 DEF Log!Init
  <1>2. IInv /\ [Next]_vars => [Log!Next]_Log!vars
    <2> SUFFICES ASSUME IInv, [Next]_vars PROVE [Log!Next]_Log!vars
      OBVIOUS
    <2>1. Typed /\ TypeOK /\ IsWritten /\ KeepsOrder
      BY DEF IInv, Typed
    <2>2. CASE Stays
      BY <2>1, <2>2, StaysMaps, StutterMaps
    <2>3. CASE CreateFile
      BY <2>1, <2>3, CreateMaps, SyncMaps
    <2>4. CASE Puts
      BY <2>1, <2>4, PutsMaps
    <2>5. CASE Leaves
      BY <2>1, <2>5, LeavesMaps
    <2> QED
      BY <2>1, <2>2, <2>3, <2>4, <2>5, StepKind
  <1> QED
    BY <1>1, <1>2, InitIInv, NextIInv, PTL DEF Spec, LosesOnlyTheLast, Log!Spec
=============================================================================
