# dd-opcda: a TLA+ development

`dd-opcda` reads OPC DA tags on one side of a data diode and sends their values
over UDP to the other side. It is one Go process, run as a Windows service or
on the console, with a SQLite database through gorm, a web server (fiber) and a
Vue user interface. This directory holds TLA+ modules of its core logic,
TLC configurations that check them on small instances, and theorems about them
that TLAPS checks for every value of the constants. Every definition was
written from the source; `PROJECT.json` names the lines each one stands for.

## 1. The system

```
 OPC DA servers         engine/server.go (browse)      web/, routes/ <--> ui/
      |                        |                          |  HTTP, /ws
      v                        v                          v
 engine/groups.go: one goroutine per running group <-> SQLite (db/) <-> logger/
      | batches of 10 points        | each batch sent
      v                             v
 engine/diodeproxy.go         engine/cache.go: files of 5 minutes
      | UDP data / meta / file        ^ resend
      v                               |
   the diode  <-------- engine/filetransfer.go (new/ processing/ done/)
```

| Component | State | Operations | Talks to | What is hard |
|---|---|---|---|---|
| Group lifecycle (`engine/groups.go`, `routes/opc.go` 201-335, `routes/data.go`) | rows of `opc_groups`; one goroutine per running group | start, stop, new, update, list, delete; collector connect / loop / end; `InitGroups` | database, OPC server, logger | nothing serialises handlers and collectors; whole-row saves of rows read earlier; the status is both the request to stop and the report of what runs; crash leaves statuses behind |
| Data path (`engine/groups.go` 107-145, `engine/diodeproxy.go`) | a batch buffer and a sequence number per collector; the unbuffered `DataChan` of a proxy | sample, fill, marshal, hand over, cache; `initProxy`, `sendJob` | UDP socket, cache, websockets | goroutines share the proxy and the cache channel; a batch may straddle samples; start-up order; a send on a nil channel |
| Cache (`engine/cache.go`) | `channel`, the open file, `cacheInfo` | `cacheMessage`, `processMessages`, `createFile`, `refreshCache`, `pruneCache`, `ResendCacheItems` | data path (same message), file system, the proxy | the points are shared with the collector, without a lock; on the console `CloseCache` runs next to the writer; rotation by minute; list read without its mutex |
| File transfer (`engine/filetransfer.go`, `routes/filetransfer.go`, `engine/settings.go`) | the directories `new`, `processing`, `done`; the packet counter | upload, scan, `sendFile` | UDP socket of the first proxy, settings | early returns leave the file in `processing`; nothing recovers `processing`; errors of reads and writes are not looked at; a zero modulus |
| Log (`logger/logger.go`) | rows of `logs` | `Log`, `purge` | database, websockets | concurrent purges count and delete separately |
| Websocket subscribers (`logger/websockets.go`, `web/server.go` 65-70) | the slice `ws` | register, notify, drop | browsers | removal by index while other indexes are pending |
| OPC browser (`engine/server.go`, `routes/opc.go` 18-197) | one cursor per server, `mutex` | lock, move, list, unlock | OPC server | a panic inside the lock |
| Tags (`routes/opc.go` 337-478, `PostGroupAddTag`, `ui/src/views/TagTable.vue`, `TagBrowser.vue`) | rows of `opc_tags`, live and soft-deleted; what a page read or imported some time ago | add, change, move, edit, delete, import and save | database, the page | read, compare, create in separate steps; a page saves whole rows by key; keys are given again |
| Generic data, users, authentication, settings (`routes/data.go`, `users.go`, `auth.go`, `system.go`, `engine/settings.go`) | tables | CRUD, login | database | little state of their own |
| Service control (`service_win.go`, `install.go`, `main.go`) | what is registered; the control loop and the status it has told | install, remove; stop, pause, continue, interrogate; an interrupt on the console | Windows SCM, the library's loops `svc.Run` and `debug.Run` | two registrations that fail apart; status and request over unbuffered channels, which `debug.Run` serves one at a time; a stop does not stop the engine |
| User interface (`ui/src`) | Vuex stores, views | CRUD, start, stop, login | HTTP, `/ws` | display state that lags the server |

Docs: `README.md`, `USERINTERFACE.md`, `EXAMPLE.md`. The repository has no tests.

## 2. The modules

| Module | Stands for | State | Actions |
|---|---|---|---|
| `GroupLifecycle` | `engine/groups.go`, `routes/opc.go` 201-335, `DeleteDataByID` | the rows of `opc_groups`; where the service, each request and each collector is, and the row it holds in memory | one per database access: a handler reads a row (`StartRequest`, `UpdateGroup`...) and saves it in a later action (`Stop`, `SaveGroup`, `FixDefault`...); a collector may stay at a channel that is nil (`CollectorBlocks`) |
| `DataPath` | `groups.go` 106-145, `diodeproxy.go`, the channel of `cache.go`, `runEngine` | a message (slot, sequence, the words of its points) per collector, the proxies' channels and sockets, the cache's channel and the copy `json.Marshal` makes | `Read`, `Assign` (word by word), `Fill`, `FillLast`, `Send`, `Notify`, `CacheMessage`, `Write`, `WriteFails`, `Marshal` (word by word), `ProcessMessage`, `InitProxy`, `InitCache` |
| `Datagrams` | the abstract stream | numbers handed out, batches in flight, batches arrived | `Hand`, `Arrive`, `Lose` |
| `CacheFiles` | `createFile`, `processMessages`, `CloseCache` | the clock, the files token by token, the buffer in front of the open one, where the writer and main are | `InitCache`, `Receive`, `Rotate`, `Separator`, `Data`, `DataFails`, main's `WriteEnd`, `Flush`, `CloseGzip`, `CloseFile`, `Exit`, what two calls at once do (`Overlap`), `Killed` |
| `MessageLog` | the abstract log of messages | the messages that are safe, those that are pending, how often there was a fault | `Write`, `Sync`, `Crash`, `Fault` |
| `CacheIndex` | `refreshCache`, `GetCacheInfo`, `pruneCache`, `ResendCacheItems`, `SendFullCache` | files present, removed and old; `cacheInfo`; `cacheMutex`; whether there is a proxy; each walker's place | `Lock`, `ReadNames`, `Indexer`, `SetCount`, `Unlock`, `ReadFirst`, `ReadLast`, `Resend`, `NoProxy`, `SendFullCache`, `CopyOne`, `Remove`... |
| `FileTransfer` | `engine/filetransfer.go`, `InitSetting` | the three directories, setting and proxy, the monitor's place, what the socket was given, the files of which a call failed | the writers, the walk, every exit of `sendFile`, a `Read` and writes that fail, `InitFileTransfer`, `AddProxy`, `Crash` |
| `LogPurge` | `logger.Log`, `purge` | the IDs in `logs`, each purge's count and row | one per statement |
| `Subscribers` | `logger/websockets.go`, the `/ws` handler, the library's pool of `Conn` | the slice `ws`, the drop list, the connection in each object, whether the message can be marshalled | `Connect`, `RegisterWebsocket`, `NotifySubscribers`, `WriteJSON`, `Fails`, `CloseSubscriber`, `RemoveSlot`, `HandlerReturns` |
| `Browser` | `engine/server.go`, `routes/opc.go` 44-197 | the cursor of each server and its position, the mutex | `Look`, `LockToCreate`, `Create`, `Lock`, `MoveCursor`, `CursorList`, `Unlock`, the two recovered panics |
| `Tags` | `routes/opc.go` 337-478, `PostGroupAddTag`, the generic routes for tags, `TagTable.vue` | the rows of `opc_tags` by key; each page's items and imported records; the names and items a request still has before it | `PostTagNames`, `PostTagChanges`, `PostGroupAddTag` (each with `SaveItem`, one per statement, and `TakeTag`), `DeleteTagNames`, `DeleteDataByField`, the page's `Update`, `Import`, `UpdateData`, `DeleteDataByID` |
| `Service` | `install.go`, `service_win.go`, the library's service loops, `svc.Run` and on a console `debug.Run` | what is registered, where each command is; whether there is a console, where `Execute` is, the request handed over, the status told | one per call of a command, which may fail or be killed before it; `StartProcess`, `Request`, `Begin`, `Receive`, `Report`, `End`, `Exit`, `ProcessEnds` |

An action is what one goroutine does between two points where another can come
in: one database statement, one channel operation, one system call, one mutex
section where the mutex covers everything the section reads. Where the code
reads shared state outside its mutex (`cacheInfo`, `Server.Cursor`) the reading
is an action of its own. The modules are separate because the components share
little: the collectors of `GroupLifecycle` and of `DataPath` meet only in
"stopped or not", which `DataPath` leaves open at every interval; the files of
`CacheFiles` are those of `CacheIndex` by their order alone.

`MC*` modules give the small sets the configurations use. Definitions that are
commented as *mutant* or *mutation* are plausible mistakes: `PROJECT.json` says
which property of which run TLC finds violated when one of them takes the place
of the code's operator.

`*Proofs` modules hold the theorems of section 5: one for each of the larger
modules, `WebProofs` for `Subscribers` and `Browser`, `LogServiceProofs` for
`LogPurge` and `Service`. `Browser` and `Service` prefix their definitions
(`BrowserInit`, `ServiceSpec`) where two modules would share a name there.

## 3. The runs

| Run | What it shows |
|---|---|
| `control` | While operators start, stop and delete two groups by two concurrent requests, with three collectors, crashes and restarts: a group the table says is running is being collected (`NoPhantomRunning`), `InitGroups` leaves no status of a killed process (`BootResetsStatus`), and a group that stays stopped is in the end collected by nobody, also when two collectors run it; it keeps those that wait at a channel that is nil, and no others (`StopEndsCollection`). |
| `default` | Three groups, one operator at a time, new / update / delete / list with crashes between their statements: never two default groups, and exactly one after each list. |
| `batches` | A collector started by hand and one started with the service share a proxy, which may not be dialled, and the cache. Batches cut the values into pieces of the batch size; the cache gets every batch; while the collector assigns and `json.Marshal` reads the same points, each word of the cache is at most one batch late; what leaves implements `Datagrams`; every hand-over to a channel there is ends. |
| `transfers` | Three submissions, one crash or failing call at any place (a read, a write to the socket, a dial, a rename), a panic, a database with and without setting and proxy. Each file is announced at most once and, unless it was written again after the listing, with its size; a file in `done` was sent in one piece, to its end unless a call failed; the frames of two files never mix; and without a fault every file that was closed is sent or replaced. |
| `cache_files` | Three messages in five minutes with an interval of two; the process starts twice, as a service or on a console, where main goes through `CloseCache` call by call while `processMessages` goes on. No message is lost or doubled by the rotation; order survives all of this, framing too but for the mark that main writes; the names tell when a message came. The files implement `MessageLog`: what is on the disk stays there, and a kill, a failing call or an overlap loses the last messages only. |
| `index` | Three requests, one after the other, and the pruner over three files, with a proxy and without. The index is of one walk, in order and with each file once; where there is a proxy, a request that has the index to itself finds the files it selected; the process dies in here only by an overlap of two walkers or of a walk and a removal; an old file is removed in the end. |
| `subscribers` | Three connections, three pooled objects, two notifiers, messages that can be marshalled and one that cannot. Removal by index drops what failed and nothing else; no object of the pool is in two connections or left in a slot; the handler of a browser that has left returns. |
| `browse` | Three requests to two servers with a library that fails and panics. The shared cursor lists the branch that was asked for; only a panic leaves the mutex locked; every other request is answered. |
| `log` | Two goroutines log eight entries into a log of three. Overlapping purges keep the bound, delete the oldest rows, and end; also when the log is cleared under them. |
| `tags` | A page that imports, also onto an import, edits, saves, also twice, and deletes, next to the tag browser and the other routes, with two requests of several statements at work. Operators who take turns, each from a page that was read since it was last changed or saved, get the table they asked for; and when they do not, a tag is lost to a deletion that names it and to nothing else. |
| `service` | Two commands that install and remove at once, with calls that fail and commands that are killed, and a process, of the service or on a console, that is asked anything. Service and event source are there together or not at all; a stop ends the process, but for an interrupt on a console that comes between two statuses: that one hangs. |
| `double_start` | *violation*: two start requests make two collectors (section 6). |

The type invariant of every module is proved (section 5), and the runs spend their time
on what the types do not say.

Bounds. Two of every kind of actor that can race is the least; there is a third
where two may hold each other's place (collectors: an old one, a new one and one
of the other group; files: two that can be removed next to the open one;
requests to the browser: the one that creates, the one that fails, the one that
waits). `BatchSize = 2` has a first and a last slot and samples of up to three
values straddle batches; four values make two full batches, so the
cache can be a batch late; the collector that starts with the service has three. A
point of two words is the least that can be torn. An interval of two minutes instead of five keeps
"multiple", "not multiple" and "skipped multiple"; five minutes are three files, and
two starts and two troubles a kill on top of a torn end.
A log of three is larger than the number of loggers, as 1000 is in practice.
In `tags` two names, three keys and three changes are enough for a key that is given
again, a soft-deleted row in the way and an import on top of what another request has
added; one of the two files names a group that there is not. `service` has every
control, any number of times, two commands, so that one can be half-way with what
the other removes, and one process at a time; nothing in it is counted.
A proxy may be added while the process runs, in `transfers`; none is taken away.
A file of one packet has the full and the empty last packet. The clock, the
entries, the submissions, the faults and the restarts are counted and stop at
their bounds, so the runs with such bounds do not look for deadlocks; `control`
and `default` do.

## 4. Fairness

- `GroupLifecycle`: a handler or a collector that is between two accesses goes
  on, if only to a channel at which it then waits for ever (weak fairness). Nothing is assumed of operators, crashes and restarts.
- `DataPath`: goroutines that can go on do. The senders that wait on an
  unbuffered Go channel are served first come first served, so `Send` and
  `CacheMessage` are strongly fair. Nothing is assumed of a channel that is nil, nor
  that the OPC server has values.
- `FileTransfer`: the ticker drives the monitor, the service manager starts the
  process, and a writer closes its file. No fault is fair.
- `CacheIndex`, `Browser`: weak fairness of each goroutine; the number of
  requests is finite, so no fairness of the mutex is needed.
- `Subscribers`, `LogPurge`: a goroutine that has begun a notification or a
  purge goes on; `GoneAreReleased` also needs that somebody notifies again and
  again, which the collectors and the log do.
- `Service`: `Execute` goes on whenever it can. Its `select` has the requests and a
  tick that does nothing; nobody need send a request, and no command need go on. On a
  console `Execute` cannot send a status while the library hands over a request.
- `Tags` needs none: it has no liveness property.

## 5. What is proved

`GroupLifecycleProofs`, for every set of groups, requests, collectors and
forms:

- `TypeCorrect`, `HoldingIsInvariant`: `Inv == TypeOK /\ Holding` is inductive.
  `Holding` says what the actors hold: a row and a key when they are about to
  save. Without it a `Save` could put anything into the table, so `TypeOK` alone
  is not inductive.
- `BootResets`: `BootInv == Inv /\ BootResetsStatus` is inductive. A row that was
  reset is written during the boot by collectors only (no request is at work, by
  `Holding`), and a collector that saves "running" is one that collects.
- `NoPhantom`: under `Operations \subseteq Control`,
  `ControlInv == BootInv /\ ControlOnly /\ NoPhantomRunning` is inductive.
  `ControlOnly` says that every request in progress is a start or a stop, and
  that the row a stop holds is a stopped one: without it a save could bring back
  a status that no collector stands for. `BootInv` is what the end of the boot
  starts from.
- `OneDefault` (`SingleDefault`) and `OneDefaultAfterList` (`ListLeavesOneDefault`)
  under `OneAtATime`, one operator who waits for each answer, and `NothingStarts`, no
  start request and no form that runs at the start. Without either of them TLC finds a
  second default group (section 6). `DefaultInv` adds to `Inv`: `Quiet`, no
  collector lives and no row or form in a request asks for one; `AtMostOneDefault`; and
  `SavesNoSecond`, when a request is about to save a default row no other row is one. A
  kill between the reset and the save leaves no default, which the next list repairs.

`DataPathProofs`, for every batch size and any number of collectors and proxies:

- `TypeCorrect` with `Handing`: a collector at `send` has bytes with its own
  sequence, and a proxy.
- `Contiguity`: `BatchesAreContiguous`, from `CInv`. `Cut` relates slot, sequence
  and the number of values read (`count = seq * BatchSize + b - 1`) and says what
  the slots below the present one hold; `Opened` says that a collector that is
  started by hand finds every proxy in the map, as the web server comes last.
- `Implements`: `SendsDatagrams`, that is `Spec => Diode!Spec`, from
  `RInv == TInv /\ Distinct`. `Distinct` says that the sequences that have left or
  are on their way are below the collector's own and distinct, so that `Write` maps to `Arrive`, `WriteFails` to
  `Lose`, `Send` to `Hand` and all else to a stutter.
- `SentOnce` and `Promised`: no batch leaves twice, by one proxy or by two, and so
  `Diode!AtMostOnce`, what `Datagrams` promises, holds of the code's state. `WInv` adds
  `Left` to `RInv`: what has left was numbered and is not about to leave again.
- `EveryBatch`: `CacheKeepsEveryBatch`, from `KInv`. Of the batches a collector has
  counted, one at most is with the writer and one with the collector; `NextInLine`
  says that the writer's is the one that the file lacks next.
- `OneBatchLate`: `CacheLagsOneBatch`, from `LInv`. `Before` says that the words which
  the collector has still to assign are those of the batch before; with `Cut` every word
  is then of one of two batches when `json.Marshal` reads it, in whatever order the
  collector assigns and it reads, and `Copied` says so of what it has read so far.

`FileTransferProofs`, for every directory tree and any number of submissions, packets
and faults: `TypeCorrect`; `AnnouncedOnce` (`SentAtMostOnce`) from `Numbered`, where the
numbers of submissions can be (in the directories, in the listing, announced);
`Sequence` and `DoneWhole` (`SentInSequence`, `DoneWasSentWhole`) from `InOrder`,
which says what the end of the frames sent is while a file is being sent: its header and
the first of its packets, all of them at the footer unless a call failed for it
(`failed`); and
`AnnouncedRight` (`AnnouncedSize`) from `Announced`, what a listing still tells of
`outgoing/new`.

`CacheFilesProofs`, for every interval and any number of messages, minutes, restarts and
kills: `TypeCorrect`, `InOrder` (`KeepsOrder`), `NothingLost` (`KeepsEveryMessage`),
`NamedByTime` (`FiledByTime`), `WellFramed` (`Framed`) and `Durable` (`LosesOnlyTheLast`),
from one invariant. A step leaves the files as they are (`Stays`), creates one
(`CreateFile`), puts one token into the buffer (`Puts`) or leaves the open file with the
first part of the buffer (`Leaves`: a kill, the end of the process, main's close, two calls
at once), so that each file stays, gets one token more or is cut and marked at the cut
(`Content` is what the disk and the buffer make together). With that, `Named` says that the
open file is the last one and none is ahead of the clock, `IsWritten` that the next message
is greater than all in the files, `InTime` that it came after the open file was named unless
it is its first, `Kept` that no message is missing before the first trouble (`Clean`: till
then main closes the cache with no message at hand), and `Ending` which token each file ends
with: that of the open file tells whether a comma, a message or an opening bracket comes
next, unless main has just written its end (`Shut`). `Durable` is `Spec => Log!Spec`: the
safe messages are those on the disk and the pending ones those of the buffer. `Data` maps to
`Write`; a file that is left whole, by `Rotate`, by main or at an end, to `Sync`; one that is
cut to `Crash` with what the first of the buffer holds; a call that fails to `Fault` or, when
it is the opening of the next file, `Crash` with all that was pending; and all else to a
stutter. That a crash keeps the first messages and not any is `KeepsOrder`. The buffer is
also emptied from time to time by itself; what that has made safe shows in what a kill keeps.

`CacheIndexProofs`, for every set of requests and any number of files: `TypeCorrect`,
`OneWalk` (`IndexIsOneWalk`), `Deaths` (`DiesByOverlap`) and `NothingMissed`
(`SelectedAreFound`). `Mutex` says that who
rebuilds the index holds `cacheMutex`, `Known` that nobody looks at a file that was
never there. `Walk` is the core: the index is in the order of the names, and a
file that is there is in it, still to come, or newer than the whole walk; so that what a
walk leaves (`Settled`) is complete but for newer files. `Counted` is why reading the
last item does not panic without an overlap. The lemmas at its beginning show that there is
one way to sort a set of files.

`WebProofs`, first `Subscribers`, for every set of connections, objects and notifiers: `Safe`,
`Open` and `StaySubscribed` from one invariant. `Paired` says how an object and the
connection it was lent to belong together, `Slotted` which objects are in `ws`
but for the slot that the last object is about to take, and `Dropping` what the
drop list says of `ws` while it is worked off from its end: that the indexes still to
be dropped are below what has moved is why removal by index is safe.

Then `Browser`, for every set of servers, branches and requests: `BrowserTypeCorrect`;
`Locked` (`LockedAtWork`) with the exclusion of the requests under the mutex; and `Lists`
(`ListsItsBranch`) from `HasBranch` and `CursorMoved`: a request that has moved the cursor
finds it there until it unlocks.

`LogServiceProofs`, first `LogPurge`, for every finite set of loggers and every capacity:
`StaysBounded` (`Bounded`) from `Purging`: for every `m` from the capacity on, the rows are at most `m`
and one for each purge that has still to count, or goes by a count above `m` (less the
deletion of a row that another has deleted already).
`Bounded` alone is not inductive, as it does not say how far a purge at work will go.
`OldestFirst` (`OldestGoFirst`) is for `n` loggers with `n * (n - 1) < Capacity`
(`FewLoggers`: up to 32 goroutines that log at the same moment, for the 1000 of the code).
As `OldestGoFirst` itself, it is about a log that is not cleared. The log may not run
empty, as SQLite would then give the IDs out from 1 again: by
`Bounded` each purge has counted at most `n` rows too many, so that all that
the purges at work may still delete (`Debts`) leaves a row (`Reserve`), and the newest row
is always there (`Latest`).

`TagsProofs`, for all sets of names, files, operators and requests: `NothingElseLoses`
(`NoTagIsLost`) from `Keys`: as long as no key was given again and no tag renamed, every
key a page or a request holds (`Known`) still stands for its name, or for no row.
`Careful` is what each step may do to the table so that this stays so.
`GetWhatWasAsked` (`AsAsked`): as long as operators take turns, one request at most is
busy, every tag that it has not still to write is where it was asked to be (`Agree`), each
item or name that it has left will write the one row of its tag (`ItemsLead`, `MovesLead`),
and a page that was read since the last change holds the table as it is, or with an import
laid over it (`UpToDate`), which what its own request has still to save does not change
(`Settled`). An operator's second import, a save or an edit of items that have no key yet
are all in the model; after each of them the page has to be read again before it counts.

`LogServiceProofs`, then `Service`, for every set of commands: `ServiceTypeCorrect`, and
`Together` (`AllOrNothing`) from `HalfWay`: what is registered while commands are between their two calls, for a service that is
absent, installed or marked, and that of two commands not both install or both remove.

The assumptions are those named in the modules (`BatchSize` is positive, ids are
positive, the set of loggers is finite, an imported file names a tag once, `NoRow`, `Nil` and `Nothing` are no values of the
code), and the hypotheses that four theorems state: `Operations \subseteq Control`
(`NoPhantom`), `OneAtATime` and `NothingStarts` (`OneDefault`, `OneDefaultAfterList`) and
`FewLoggers` (`OldestFirst`). The theorems speak of
the same definitions as the runs, and every instance of a passing run that checks one of
these properties satisfies its hypothesis (`log` with `2 * 1 < 3`).

Only model-checked: the liveness properties (`StopEndsCollection`, `HandOverReturns`,
`Delivers`, `OldAreRemoved`, `GoneAreReleased`, `PurgeEnds`, `EveryRequestIsAnswered`,
`StopEnds`), which with fairness and `ENABLED` are out of the prover's
reach. What some of them rest on is safety, and proved: `PurgeNearsItsEnd`, every step of a purge
reduces the work it has left (`Work`) and no step of another logger or of a page that
clears the log adds to it; `RequestsAdvance`, every step of a request to the browser reduces
its distance from the answer, and a request that waits does so for the holder of the mutex,
who is at work or has panicked (`Locked`); `RequestIsReceived`, a request is handed to a
process that runs, and until it is received each step of `Execute` sends one of the at most
two statuses before it, a `Stop` being the last request; on a console it sends none while
there is a request, which is why the hang that `StopEnds` names is for ever. What is left to TLC is that the
actors go on (fairness) and can (`ENABLED`). Every safety property that a passing run checks has a theorem.

## 6. Where the code departs from what is said of it

A run that TLC refutes: `double_start`. `routes/opc.go` and `Start` check the status they
read, and only a collector that has connected sets it. Two requests in a row both pass.

Formulas that are in the modules, that no run lists, and that TLC refutes too
when they are added to the configuration that is named:

- `CachedAsSent` (`batches`): "messages already sent through a diode" in the cache
  (`USERINTERFACE.md:125`). The sequence is counted up between the marshalling for the
  diode and the copy for the cache (`groups.go:126-131`), and the points are shared.
- `SelectedAreCopied` (`index`): "SEND AGAIN" (`USERINTERFACE.md:131`).
  `ResendCacheItems` looks in `cacheInfo` without `cacheMutex` while the pruner
  rebuilds it, and skips what is not there yet (`cache.go:89`). Without a proxy it sends
  nothing again, and the answer is as if there had been nothing to send (`cache.go:83`).
- `OneGroupPerTag` (`tags`): "not possible to include the same tag in different groups"
  (`USERINTERFACE.md:58`). Two requests compare with the names they have read
  before either has created its tags, and an import saves what an old page lacks. One
  operator is enough: an item without a key is created each time it is saved, so saving
  twice before the page was read, editing an item after it was created, or a second import
  make a second row (`opc.go:450`, `TagTable.vue:312`).
- `InterruptEnds` (`service`): on a console an interrupt during the start, or a second one
  before `StopPending` is sent, leaves `debug.Run` handing over the request and `Execute`
  sending its status, each waiting for the other, and main never closes the cache.
- `DoneIsSent` (`transfers`): a file in `outgoing/done` was "transferred as requested"
  (`filetransfer.go:173`). An error of `Read` ends the loop as the end of the file does,
  and errors of `Write` are not looked at (`filetransfer.go:135-166`).
- `NoPointIsTorn` (`batches`): what the cache holds in a slot is one point. The collector
  assigns its fields (`groups.go:117`) while `json.Marshal` reads them (`cache.go:212`).
- `NoPhantomRunning` (`control` with `Operations <- AllOperations`): `UpdateGroup`
  reads a running row, the collector stops, the form is saved with the old
  status; the group stays "running" and cannot be started.
- `SingleDefault` (`default` with starts): a collector that connects saves the
  row its starter read, with the default flag of that time (`groups.go:104`).
  With two requests at once instead, both reset the flag before either saves its form.
- `NoneStuck` (`batches`): a collector of a `RunAtStart` group hands over a batch
  before `InitCache` has made the channel, or any collector one to a proxy that could not
  be dialled, and waits on a nil channel for ever.
- `FiveMinutes` (`cache_files`): without a message in the right minute the old
  file goes on (`cache.go:199`).
- `ClosedIsAnArray` (`cache_files`): a service that starts in a minute divisible
  by five makes its file twice, which then begins with `]`.
- The size of the header: `AnnouncedSize` is about files that were not written again.
  It is that of the listing, while the hash and the packets are of the file as it is
  later (`filetransfer.go:122`).
- `NoPanic` (`transfers`): `InitSetting` returns an empty item for a setting it
  has just created, and the first packet divides by zero.
- In `Browser`, a request whose cursor cannot be made removes the one another
  request has just made; that one panics between lock and unlock, and no request
  after it is answered. `LockedAtWork` counts this as the panic it ends in.

Met while reading, and no formula: unchecking a tag in the tag browser looks for its
path with slashes, while it was added with the delimiter of the settings
(`TagBrowser.vue:169`); uploads and resends go to `./outgoing/new` whatever `-workdir` says
(`routes/filetransfer.go:40`); a record of an import whose group is unknown gets the
group object of the record before it, which gorm prefers to the group id
(`TagTable.vue:323`; modelled by `GroupFor`); and an event source that `removeService`
could not remove makes every later installation fail and undo itself (`install.go:66`,
modelled).

## 7. What is not modelled

- Users and authentication: one statement per request on a table that nothing else
  uses, and a signed token. The database set-up runs before anything else.
- The user interface except the Tags page: its other views show what they read last,
  and their requests are the inputs of the modelled handlers.
- The generic routes for tables other than tags, the deletion of a group and of the
  log: each is one statement on rows that nobody else writes. The user interface does
  not send `PUT /data/opc_groups` or the deletion of all groups.
- The delimiter of tag names, and `PostGroupDelTag`, which does nothing.
- The OPC library, SQLite, UDP beyond the socket, the browsers, the service library: by
  how the code uses them. A statement of SQLite is atomic; a write to a UDP socket or
  a websocket succeeds or fails and does not block (`websockets.go:39` sets no deadline).
- Data races on the map of proxies and on `cacheInfo` below the level of one
  read or one assignment. Of the points that collector and cache share, a word is
  assigned and read at once; what a string is that has its length from one value and its
  bytes from another is not said. Of two calls of `CacheFiles` at once on the same writer
  (`Overlap`) the model keeps what was in the file before them; what they leave behind
  cannot be read.
- A value that cannot be marshalled. Towards the diode the error is ignored and an empty
  datagram sent (`groups.go:124`), which for the stream is a lost batch; `CacheFiles` has the
  message without its data (`Void`).
- A `DELETE` of the log's purge that fails: it is counted down too, so the row stays until
  the next purge (`logger.go:43`).
- On the console, an interrupt before `InitCache`: `CloseCache` then finds no file.
- The taking away of a proxy while the process runs.
- Two equal items on a page are one in `Tags`, and a file that is imported names a tag
  once: of one that names a new tag twice the code makes two rows at once.
- The meta and file channels of a proxy, on which nothing sends at this commit.
- Wording of messages and logs, the layout of the views, the content of a frame
  beyond its kind, number and size.

## 8. Plan

Done, in this order: `GroupLifecycle`, `DataPath` with `Datagrams`, `FileTransfer`,
`CacheFiles`, `CacheIndex`, `Subscribers`, `Browser`, `LogPurge`, `Tags`, `Service`, and the
proofs of section 5. What is left:

1. A composition of `CacheFiles`, `CacheIndex` and `FileTransfer`: a batch that was
   cached, selected and sent again arrives as it was cached, while the file is
   still being written or is pruned.
2. What the other liveness properties rest on, as far as it is safety (`StopEndsCollection`,
   `HandOverReturns`, `Delivers`, `OldAreRemoved`, `GoneAreReleased`), as section 5 has it
   for three of them.
3. A tag with the delimiter of the settings, and the groups as `Tags` sees them
   changing under a page.
