----------------------------- MODULE CacheFiles -----------------------------
(***************************************************************************)
(* What processMessages writes to the files of the cache (engine/cache.go  *)
(* 47-64, 195-235): a JSON array of messages per file, a new file when a   *)
(* message comes in a minute that is a multiple of five.                   *)
(*                                                                         *)
(* A message is written in two calls, the separator and the data, into a   *)
(* buffer in front of a gzip stream; both are emptied when the file is     *)
(* closed, and from time to time in between.  A service ends without       *)
(* closing; on the console, main goes through CloseCache call by call      *)
(* while processMessages runs on, and then the process ends.               *)
(*                                                                         *)
(* Abstracted: a file is named by the minute it was created in; a message  *)
(* is its ordinal; the JSON of a message is one token; of a file that was  *)
(* broken off, what comes after the last whole token is left out, as is    *)
(* a CloseCache of main before InitCache, which finds no file.             *)
(***************************************************************************)
EXTENDS Naturals, Sequences

CONSTANTS
    Interval,     \* minutes of a file: 5 in the code
    Consoles,     \* whether the process may run on the console, as a service
    MaxMinute,    \* the last minute: a bound
    MaxMessages,  \* messages of a behaviour: a bound
    MaxStarts,    \* how often the process starts: a bound
    MaxTroubles,  \* how often something goes wrong: a bound
    None          \* no file

ASSUME IntervalAssumption == Interval \in Nat \ {0}
ASSUME BoundsAssumption == MaxMinute \in Nat /\ MaxMessages \in Nat
                            /\ MaxStarts \in Nat /\ MaxTroubles \in Nat
ASSUME ConsolesAssumption == Consoles \subseteq BOOLEAN

Minutes == 0 .. MaxMinute
Messages == 1 .. MaxMessages

Mark(m) == [mark |-> m, k |-> 0]
Open == Mark("[")
Comma == Mark(",")
Close == Mark("]")
Void == Mark("void") \* a message without its data
Cut == Mark("cut")   \* where a process has left a file, but in createFile
Msg(k) == [mark |-> "msg", k |-> k]
Token == {Open, Comma, Close, Void, Cut} \cup {Msg(k) : k \in Messages}

ASSUME NoneAssumption == None \notin Minutes /\ None \notin Seq(Token)

VARIABLES
    console,     \* whether the process runs on the console
    now,         \* the minute
    disk,        \* the content of each file, or None
    file,        \* the open file; with None what is written is gone
    buffer,      \* what the bufio.Writer and the gzip.Writer hold of it
    flushed,     \* how much of that has gone to the gzip.Writer for sure
    firstWrite,
    prevRemainder,
    writer,      \* where processMessages is
    main,        \* where main is: CloseCache's next call
    received,    \* messages processMessages has received
    time,        \* the minute it has received each of them in
    starts,      \* how often the process has started
    troubles     \* how often something that may lose a message has happened

stream == <<file, buffer, flushed>>
memory == <<stream, firstWrite, prevRemainder>>
vars == <<console, now, disk, memory, writer, main, received, time, starts, troubles>>

AtHand == writer \in {"create", "separator", "data"}

TypeOK ==
    /\ console \in BOOLEAN
    /\ now \in Minutes
    /\ disk \in [Minutes -> Seq(Token) \cup {None}]
    /\ file \in Minutes \cup {None}
    /\ file # None => disk[file] # None
    /\ buffer \in Seq(Token)
    /\ flushed \in 0 .. Len(buffer)
    /\ firstWrite \in BOOLEAN
    /\ prevRemainder \in 0 .. Interval
    /\ writer \in {"down", "wait", "create", "separator", "data"}
    /\ main \in {"run", "write", "flush", "gzip", "close", "exit"}
    /\ writer = "down" => file = None /\ main = "run"
    /\ main # "run" => console
    /\ file = None => buffer = <<>>
    /\ received \in 0 .. MaxMessages
    /\ time \in [Messages -> Minutes]
    /\ starts \in 0 .. MaxStarts
    /\ troubles \in 0 .. MaxTroubles

Init ==
    /\ console \in Consoles
    /\ now \in Minutes /\ now < Interval
    /\ disk = [f \in Minutes |-> None]
    /\ file = None /\ buffer = <<>> /\ flushed = 0
    /\ firstWrite = TRUE /\ prevRemainder = Interval
    /\ writer = "down" /\ main = "run"
    /\ received = 0 /\ time = [k \in Messages |-> 0]
    /\ starts = 0 /\ troubles = 0

Minute ==
    /\ now < MaxMinute
    /\ now' = now + 1
    /\ UNCHANGED <<console, disk, memory, writer, main, received, time, starts, troubles>>

Trouble == troubles < MaxTroubles /\ troubles' = troubles + 1

\* What a call to fw.Write does.
Put(token) ==
    /\ buffer' = IF file = None THEN buffer ELSE Append(buffer, token)
    /\ UNCHANGED <<disk, file, flushed>>

\* Mutants: the file is not opened for appending, so a continued file is
\* written before what it held; it is closed before the buffers are emptied.
CloseCacheAtStart == IF file = None THEN disk ELSE [disk EXCEPT ![file] = buffer \o <<Close>> \o @]
CloseCacheUnflushed == IF file = None THEN disk ELSE [disk EXCEPT ![file] = @ \o <<Close>>]

\* CloseCache, when createFile calls it: it writes the end of the array and
\* empties the buffers.
CloseCache == IF file = None THEN disk ELSE [disk EXCEPT ![file] = @ \o buffer \o <<Close>>]

\* The new file and its buffers; MkdirAll or OpenFile may fail, which
\* createFile does not look at.
Opens(files) ==
    \/ disk' = files /\ file' = now /\ UNCHANGED troubles
    \/ disk' = CloseCache /\ file' = None /\ Trouble

\* Mutant: O_TRUNC, a file of this minute is begun again.
CreateFileTruncates ==
    /\ Opens([CloseCache EXCEPT ![now] = <<>>])
    /\ buffer' = <<>> /\ flushed' = 0
    /\ firstWrite' = TRUE

\* createFile: O_APPEND|O_CREATE, so a file of this minute is continued.
CreateFile ==
    /\ Opens([CloseCache EXCEPT ![now] = IF @ = None THEN <<>> ELSE @])
    /\ buffer' = <<>> /\ flushed' = 0
    /\ firstWrite' = TRUE

\* prevRemainder = -1 in the code: no remainder.
InitCache ==
    /\ writer = "down" /\ starts < MaxStarts
    /\ CreateFile
    /\ starts' = starts + 1
    /\ prevRemainder' = Interval
    /\ writer' = "wait"
    /\ UNCHANGED <<console, now, main, received, time>>

(***************************************************************************)
(* processMessages: the clock is read once to decide about a new file and  *)
(* once more in createFile to name it.                                     *)
(***************************************************************************)
Rotates(remainder) == remainder = 0 /\ remainder # prevRemainder

Receive ==
    /\ writer = "wait" /\ received < MaxMessages
    /\ received' = received + 1
    /\ time' = [time EXCEPT ![received'] = now]
    /\ writer' = IF Rotates(now % Interval) THEN "create" ELSE "separator"
    /\ prevRemainder' = now % Interval
    /\ IF main = "run" THEN UNCHANGED troubles ELSE Trouble
    /\ UNCHANGED <<console, now, disk, stream, firstWrite, main, starts>>

\* Mutant: the new file is assigned to a variable of createFile's own.
RotateShadows ==
    /\ writer = "create"
    /\ disk' = [disk EXCEPT ![now] = IF @ = None THEN <<>> ELSE @]
    /\ writer' = "separator"
    /\ UNCHANGED <<console, now, memory, main, received, time, starts, troubles>>

Rotate ==
    /\ writer = "create"
    /\ CreateFile
    /\ writer' = "separator"
    /\ UNCHANGED <<console, now, prevRemainder, main, received, time, starts>>

Separator ==
    /\ writer = "separator"
    /\ Put(IF firstWrite THEN Open ELSE Comma)
    /\ writer' = "data"
    /\ UNCHANGED <<console, now, firstWrite, prevRemainder, main, received, time, starts, troubles>>

\* Mutant: the flag stays set.
DataKeepsFirst ==
    /\ writer = "data"
    /\ Put(Msg(received))
    /\ writer' = "wait"
    /\ UNCHANGED <<console, now, firstWrite, prevRemainder, main, received, time, starts, troubles>>

Data ==
    /\ writer = "data"
    /\ Put(Msg(received))
    /\ firstWrite' = FALSE
    /\ writer' = "wait"
    /\ UNCHANGED <<console, now, prevRemainder, main, received, time, starts, troubles>>

\* json.Marshal fails and returns no bytes, which are written all the same.
DataFails ==
    /\ writer = "data"
    /\ Put(Void)
    /\ firstWrite' = FALSE
    /\ writer' = "wait"
    /\ Trouble
    /\ UNCHANGED <<console, now, prevRemainder, main, received, time, starts>>

(***************************************************************************)
(* On the console runService returns, and main calls CloseCache and ends.  *)
(* It shares file, gzw and fw with processMessages without a lock.         *)
(***************************************************************************)
Closing(from, to) ==
    /\ main = from /\ main' = to
    /\ UNCHANGED <<console, now, firstWrite, prevRemainder, writer, received, time, starts>>

Returns ==
    /\ console /\ writer # "down"
    /\ Closing("run", "write")
    /\ IF AtHand THEN Trouble ELSE UNCHANGED troubles
    /\ UNCHANGED <<disk, stream>>

WriteEnd ==
    /\ Closing("write", "flush")
    /\ Put(Close)
    /\ UNCHANGED troubles

Flush ==
    /\ Closing("flush", "gzip")
    /\ flushed' = Len(buffer)
    /\ UNCHANGED <<disk, file, buffer, troubles>>

\* The open file is left with the first n of the buffer.
Leave(n) ==
    /\ disk' = [disk EXCEPT ![file] = @ \o SubSeq(buffer, 1, n) \o <<Cut>>]
    /\ file' = None /\ buffer' = <<>> /\ flushed' = 0

\* gzw.Close: what processMessages has written since the Flush may have gone
\* to the gzip.Writer too; what it writes from now on is gone.
CloseGzip ==
    /\ Closing("gzip", "close")
    /\ \/ file = None /\ UNCHANGED <<disk, stream, troubles>>
       \/ /\ file # None
          /\ \E n \in flushed .. Len(buffer) :
                Leave(n) /\ IF n = Len(buffer) THEN UNCHANGED troubles ELSE Trouble

\* file.Close: of the file that createFile has opened since, if it has.
CloseFile ==
    /\ Closing("close", "exit")
    /\ \/ file = None /\ UNCHANGED <<disk, stream, troubles>>
       \/ file # None /\ Trouble /\ \E n \in 0 .. Len(buffer) : Leave(n)

\* Two calls at the same time, a data race: the bytes are mixed, and nothing
\* that is written behind them can be read.
Overlap ==
    /\ main \in {"write", "flush", "gzip"} /\ AtHand /\ file # None
    /\ \E n \in 0 .. Len(buffer) : Leave(n)
    /\ Trouble
    /\ UNCHANGED <<console, now, firstWrite, prevRemainder, writer, main, received, time, starts>>

Ends ==
    /\ writer' = "down" /\ main' = "run"
    /\ UNCHANGED <<console, now, firstWrite, prevRemainder, received, time, starts>>

Exit ==
    /\ main = "exit" /\ file = None
    /\ Ends
    /\ UNCHANGED <<disk, stream, troubles>>

\* The service is stopped, or the process ends with a file open: some of what
\* the buffers hold is lost.
Killed ==
    /\ writer # "down"
    /\ \/ file = None /\ UNCHANGED <<disk, stream>>
       \/ file # None /\ \E n \in 0 .. Len(buffer) : Leave(n)
    /\ Ends
    /\ Trouble

CloseConsole == Returns \/ WriteEnd \/ Flush \/ CloseGzip \/ CloseFile \/ Overlap \/ Exit

Next ==
    \/ Minute \/ InitCache \/ Receive \/ Rotate \/ Separator \/ Data \/ DataFails
    \/ CloseConsole \/ Killed

Spec == Init /\ [][Next]_vars
-----------------------------------------------------------------------------
(***************************************************************************)
(* Properties.                                                             *)
(***************************************************************************)
\* What a file holds, or will hold when the buffers are emptied.
Content(f) ==
    CASE disk[f] = None -> <<>>
      [] f = file       -> disk[f] \o buffer
      [] OTHER          -> disk[f]

Positions(f) == 1 .. Len(Content(f))
HasMessage(f, k) == \E i \in Positions(f) : Content(f)[i] = Msg(k)

Written == IF AtHand THEN received - 1 ELSE received

\* Whatever the rotation does, and however often the console is closed and
\* started again, every message is written exactly once (createFile empties the
\* old buffers first, CloseCache the last), as long as no call fails, nobody
\* kills the process, and main does not close the cache with a message at hand
\* or still to come.
KeepsEveryMessage ==
    troubles = 0 => \A k \in Messages :
        /\ k <= Written <=> \E f \in Minutes : HasMessage(f, k)
        /\ \A f, g \in Minutes : \A i \in Positions(f), j \in Positions(g) :
              Content(f)[i] = Msg(k) /\ Content(g)[j] = Msg(k) => f = g /\ i = j

\* Of a message that has once reached the disk nothing is lost, by no rotation,
\* stop, kill or start (O_APPEND, cache.go 231), and what a kill, a failing call
\* or a CloseCache next to processMessages (57-64) loses are the last messages
\* that were written.
OnDisk(f, k) ==
    disk[f] # None /\ \E i \in 1 .. Len(disk[f]) : disk[f][i] = Msg(k)

Safe == {k \in Messages : \E f \in Minutes : OnDisk(f, k)}
Pending == {k \in Messages : \E i \in 1 .. Len(buffer) : buffer[i] = Msg(k)}

Log == INSTANCE MessageLog WITH safe <- Safe, pending <- Pending, faults <- troubles

LosesOnlyTheLast == Log!Spec

\* The files are in the order of the messages, and the messages of a file too,
\* also after the process has been killed and started again within a minute.
KeepsOrder ==
    \A f, g \in Minutes : \A i \in Positions(f), j \in Positions(g) :
        LET a == Content(f)[i]
            b == Content(g)[j]
        IN  a.mark = "msg" /\ b.mark = "msg" /\ (f < g \/ (f = g /\ i < j)) => a.k < b.k

\* The name of a file tells which messages it can hold (getTimeFromFilename,
\* by which an operator chooses what to send again): none that came after the
\* next file was named, and none that came before its own minute but the one it
\* was made for, when the clock turned between the two readings of it.
FiledByTime ==
    \A f \in Minutes : \A k \in Messages : HasMessage(f, k) =>
        /\ \A g \in Minutes : g > f /\ disk[g] # None => time[k] <= g
        /\ time[k] >= f \/ \A j \in 1 .. k - 1 : ~HasMessage(f, j)

\* Each part of a file between two openings is framed as an array: a message
\* follows an opening bracket or a comma, a comma a message.  On the console the
\* end that main writes may come between any two calls of processMessages.
After(m) ==
    CASE m = "["            -> {"msg", "void", "cut"}
      [] m = ","            -> {"msg", "void", "cut"}
      [] m \in {"msg", "void"} -> {",", "]", "cut"}
      [] OTHER              -> {"[", "]", "cut"}

Framed ==
    \A f \in Minutes :
        /\ Content(f) # <<>> => Content(f)[1].mark \in After("]")
        /\ \A i \in Positions(f) \ {1} :
              \/ Content(f)[i].mark \in After(Content(f)[i - 1].mark)
              \/ console /\ Close \in {Content(f)[i - 1], Content(f)[i]}

\* "Messages are stored in 5 minute intervals" (USERINTERFACE.md:127): what a
\* file holds came within the five minutes after its name.  Refuted: without a
\* message in the right minute the old file goes on.
FiveMinutes ==
    \A f \in Minutes : \A k \in Messages : HasMessage(f, k) => time[k] < f + Interval

\* A file of the cache is named .json.gz (cache.go:223), and one that has been
\* closed holds one array.  Refuted: a file that is opened again in its minute
\* begins with the bracket that has closed it.
ClosedIsAnArray ==
    \A f \in Minutes : disk[f] # None /\ disk[f] # <<>> /\ f # file =>
        /\ disk[f][1] = Open
        /\ \A i \in 2 .. Len(disk[f]) : disk[f][i] # Open
=============================================================================
