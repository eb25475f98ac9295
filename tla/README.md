# Formal models of cDCL

cDCL is a C++ library that connects desktop programs to Newton devices: a program creates a
*server*, gives it *communication layers* (BSD sockets, serial ports, ...) and a *link*; when a
Newton calls, the server accepts the connection (a *pipe*) and hands it to the link, which
talks to the Newton on a thread of its own. The library is a set of threads that share objects,
post events to one another and delete what others may still be using. The modules here model
that core, under `src/DCL`, for the POSIX port; the TLC runs check it on small instances, and
TLAPS proves what it rests on for every instance.

## 1. Inventory

Paths are relative to `src/DCL`.

| Component | State | Operations | Talks to |
|---|---|---|---|
| `TSemaphore` (`Interfaces/POSIX/TDCLPThreads.cpp`) | a counter, a mutex, a condition | Acquire, Release | all locks of the library are semaphores |
| `TThread` (same file) | `mState`, `mWakeCount`, a mutex, a condition | Start, Stop, Sleep, WakeUp, Suspend, Resume, GetState | every thread below is one |
| `TDCLThread` (`Interfaces/TDCLThread.cpp`) | a linked list of events, a semaphore | PostEvent, WaitNextEvent | the server and the links are such threads |
| `TDCLSyncCommLayer` (`Communication_Layers/TDCLSyncCommLayer.cpp`) over `TDCLBSDSocket` (`POSIX/TDCLBSDSocket.cpp`) | server, listening socket, pair of sockets, count of pipes | StartListening, StopListening, Accept, Refuse; thread: wait, announce, sleep | events to the server; wake-ups from it |
| `TSyncPipe` over `TBSDSocketPipe` (same files) | link, client socket, pair of sockets | Connected, Read, Write, BytesAvailable, ClearDataPresent, Disconnect, delete; thread: sleep, wait, announce | events to the link; wake-ups from link and server; deleted by the server |
| `TDCLLink` (`Link/TDCLLink.cpp`) | `mState` and its mutex, `mPipe`, `mServer` | Connect, Disconnect, Close, PostAppCommand, IsConnected; thread: greet, serve, say goodbye, report | reads the pipe; an event to the server at the end of a session |
| `TDCLServer`, `TDCLOneLinkServer`, `TDCLSimpleServer` (`Server/`) | `mState` and its mutex, `mPipe`, layers | Start, Stop, Kill, AddCommLayer, RemoveCommLayer; thread: serve events | Accept, Refuse of the layer; Connect, Disconnect of the link; Disconnect and delete of the pipe |
| `TDCLBufferedPipe` (`Communication_Layers/TDCLBufferedPipe.cpp`) over the Read and Write of the BSD socket | a buffer of bytes not sent yet | Read, Write, FlushOutput | a pipe over a pipe |
| `TDCLMNPPipe` (`Communication_Layers/TDCLMNPPipe.cpp`) | two buffers, the numbers of frames, the state of the connection | Connected, Read, Write, FlushOutput, BytesAvailable, SetKeepAlive, Disconnect | frames and acknowledgements over a buffered pipe |
| `TDCLHammerPipe` | buffers of a framing like MNP's | Read, Write | the same |
| `TDCLDockLink`, `TDCLFullDockLink` (`Link/`) | state of the dialogue, attempts at the password, `mCurrentEngine` | HandleDockCommand, ProcessAppCommand, DoConnect, DoDisconnect | specialise `TDCLLink`; call the engines |
| Engines (`Link/Link_Engines/`): desktop browsing, package loading, keyboard, synchronisation | cursors over sources, stores, soups and entries; `mInterrupted` | ProcessCommand, and a start for each | send and await dock commands |
| Inspector and package links (`Link/`) | another dialogue each | | specialise `TDCLLink` |
| Dock commands (`Link/Dock_Commands/`) | one message | SendCommand, ReceiveCommand, GetResultCmd | used by links and engines, over a pipe |
| Newton objects (`NS_Objects/Objects/`) | frames, arrays, binaries, symbols, functions | Set, Get, RemoveSlot, Add, SetClass, ... | kept by commands and applications |
| NSOF (`NS_Objects/Exchange/`) | the list of objects met, on both sides | Encode, Decode | objects from and to streams |
| `TDCLPackage` and its parts (`Package/`) | a name, the parts with their informations, relocations, objects decoded or not | AddPart, RemovePart, SetPackageName, GetObject, WriteToStream, ReadPackage | Pkg encoder and decoder; used by applications |
| Pkg encoder and decoder (`NS_Objects/Exchange/`) | objects encoded, pointers still to write (`mStack`), maps that frames may share | AddObject, GetNextObject | objects from and to the part of a package |
| `UDCLPaperback` (`Package/`) over `UUTF16Conv` (`src/K/Unicode`) | a block of text, changed in place; entries and places of a table of contents | BuildBook | a stream with a text file; makes the object of a package |
| Files, texts, exceptions | data | conversion | used by commands and applications |
| Other ports (Mac OS, Win32), `src/K`, samples, tests | | | |

**What is hard.** Threads meet on five kinds of shared state: lists of events, sleep states with
wake-ups, pairs of sockets that interrupt a `select()`, state variables read in one critical
section and written in another, and objects that one thread uses and another deletes. None of it
is visible in a sequential test: a wake-up that comes before the sleep, an announcement for data
that was already read, an event of the last session served in the next one, a request that is
answered after the layer was stopped, a Newton that calls while the last session is on its way
out, an exception in the middle of a session. On top of the threads, a session is a dialogue in
which both sides may speak first: requests cross, the Newton cancels or leaves between any two
messages, a frame comes twice or damaged, a system call moves half of what it was asked to. And
the objects that cross are numbered as they are met by two programs that must count alike.
`PROJECT.json` lists each of these at its line.

**What makes each component correct.**

- Semaphore: one owner at a time, nobody forgotten in the queue, the counter zero exactly when
  it is unused (its destructor throws otherwise).
- Thread with events: a queue read through masks; no wake-up is lost between the scan of the
  list and the sleep.
- Pipe: each announcement is paid for by a `ClearDataPresent`, no data is left unannounced, and
  `Disconnect` returns, with the thread of the pipe ended.
- Layer: one request announced at a time (the server answers with a blocking `accept()`), the
  limit on pipes, and `StopListening` that returns with the thread ended.
- Link: states walked in order, none overwritten unseen, the end of each session reported once.
- Server: listens while it is up and only then; answers every Newton; honours Stop.
- Buffered pipe: what arrives is a prefix of what was written, whatever `send` and `recv` do.
- MNP pipe: both streams of bytes arrive in order and once, nothing is acknowledged that was not
  received, and the Newton always gets the acknowledgement it waits for.
- Docking link: nobody browses before the password was accepted, the two sides never both wait
  for the other, what is reported to the application is what happened, and a synchronisation
  visits every store, soup and entry, and ends.
- Objects: a slot that was set is found, whatever the order of the slots, and an object that goes
  to the Newton and comes back is the object that was sent.
- Package: what is read is what was written, at whatever address: every offset that is computed before
  the parts are encoded is the one where they end up, the relocation sets stay in the room left for
  them, and writing ends.
- Book: its text is the text of the file in every encoding, with the lines of the table of contents
  taken out if asked for; each of these is listed with the place where it was.
- Together: the link never uses a pipe that the server has deleted or replaced, and the server
  never waits for a thread that nobody has told to end.

## 2. The modules

| Module | Stands for | Built on |
|---|---|---|
| `Semaphore`, spec `AbstractLock` | `TSemaphore`, protection of a resource | |
| `ThreadSleep` | start, end, sleep and wake-up of one thread; a set of steps without a behaviour of its own | |
| `EventThread`, spec `EventQueue` | `PostEvent` and `WaitNextEvent`, interleaved | `ThreadSleep` |
| `EventList` | the pointers of the list | |
| `EventChain`, spec `EventQueue` | the two together, behind their lock | `EventThread`, `EventList`, `Semaphore` |
| `EventChainProofs` | theorems about the semaphore, the thread, its list and all together | `EventChain` |
| `SyncPipe` | a pipe of a session, its thread, the link and the server around it | `ThreadSleep` |
| `CommLayer` | a listening layer, its thread, the server around it | `ThreadSleep` |
| `Link` | `TDCLLink` with callers and a Newton | |
| `Server` | the server with a layer, and a link that answers freely | |
| `Docking` | server and link together, sharing pipes | `Link`, `Server` |
| `SyncEngine` | the synchronisation: what each answer of the Newton leads to; a set of operators | |
| `FullDockLink` | a whole session of `TDCLFullDockLink`, its engines and a Newton | `SyncEngine` |
| `FullDockProofs` | theorems about it | `FullDockLink` |
| `MNPPipe` | `TDCLMNPPipe`, the line and a Newton that speaks MNP | |
| `MNPProofs` | theorems about it | `MNPPipe` |
| `BufferedStream` | `TDCLBufferedPipe` over `send` and `recv` | |
| `NSObjects` | the heap of Newton objects and its operations; operators | |
| `StreamNumbers` | shorts and longs as bytes; operators | |
| `NSOF` | the encoder and the decoder; operators | `NSObjects`, `StreamNumbers` |
| `ObjectExchange` | an application that changes objects, sends them and gets them back; encoder and decoder are parameters | `NSObjects`, `StreamNumbers`, `BufferedStream` |
| `ObjectExchangeProofs` | theorems about frames and their slots, the pipe and the exchange | `ObjectExchange` |
| `Padding` | the zeroes after an object, a part or a directory; an operator | |
| `PkgFormat` | the package form of objects: encoder and decoder; operators | `NSObjects`, `Padding` |
| `Package` | an application that changes a package, writes it and reads it back; encoder and decoder are parameters | `NSObjects`, `Padding` |
| `PackageProofs` | theorems about it | `Package` |
| `UTF16Conv` | `UUTF16Conv`: encodings to and from UTF-16; operators | |
| `Paperback` | a text that is encoded piece by piece, and made into a book | `UTF16Conv` |
| `SyncPipeProofs`, `CommLayerProofs` | theorems about these modules | the module of that name |
| `DockingProofs` | theorems about links, about servers and about the composition | `Docking` |

`MCEventThread`, `MCDocking`, `MCFullDock`, `MCObjectExchange`, `MCPackage` and `MCPaperback` only give names to the sets of an
instance. `MCObjectExchange` also joins `ObjectExchange`
with `NSOF`, and `MCPackage` joins `Package` with `PkgFormat`. `Link` and `Server` are checked through `Docking`, which contains them.

**Grain.** A critical section is one action when nothing else can be observed in it; what a
thread does outside its locks, or in two critical sections, is two actions. So `PostEvent` is
*append* and then *wake up*; `WaitNextEvent` is *scan*, *sleep*, *awake*; the loop of the link is
*read state*, *work*, *write state*; Disconnect of a link is *look at the state* and then *post
the event*; Disconnect of a pipe is *write into the pair of sockets*, *close*, *wake up*, *wait*.
Program counters carry the names of the places of the code. What the threads of one module rely
on from another is named there: `Server` has the thread of the layer in larger steps (it opens its
sockets, tells, announces one request and waits for the answer, ends) than `CommLayer`, `Link` a pipe reduced to "announce data once" (which
`SyncPipe` shows), and `CommLayer` and `Server` a queue of events (which `EventThread` shows to
be one).

### Semaphore

State: `mNbThreads`, the threads in `pthread_cond_wait`, those whose wait has ended and that
re-lock the mutex, and the owners. `AcquireFree` and `AcquireWait` are the two outcomes of the
test in Acquire, `AcquireReturn` the return from the wait, `Release` with `Signal` the other
half. The condition is not tested again after the wait, which is right as long as waits end only
when signalled (`SemSpec`); POSIX does not promise that (`SpuriousSpec`).

### ThreadSleep, EventThread, EventList, EventChain

`mState`, `mWakeCount` and `waitEnd`, the reason why a wait is about to return. A wake-up of a
sleeping thread is not counted, also if the thread was signalled before: two calls may share one
return. In all modules over `ThreadSleep` a wait may also end by itself.

`EventThread` keeps the list as a set of events numbered by arrival; the waiting thread calls with
any mask, with or without a time limit; several threads post. `EventList` keeps the nodes, the
head and the tail of `WaitNextEvent`'s single-linked list, whose middle is unlinked when a mask
skips events. `EventChain` makes the two take their steps together, and puts them behind the queue
semaphore as it is: a poster and the waiting thread `Acquire`, do their part of the list as owners
(`Post`, `Scan`), and `Release` (`Give`) before they wake the other or go to sleep. What the set says is in
the queue is what the chain leads to, the whole implements `EventQueue`, and the semaphore, in this use,
`AbstractLock`: that is why `EventThread` may take each part for one step. `Linked` says what the
pointers look like between two calls, without a walk along them; it is what the proofs work with.

### SyncPipe

The thread of the pipe (`pipePc`), the thread of the link as far as it uses the pipe (`linkPc`),
the server (`serverPc`), and a Newton that sends and closes. `credit` counts the announcements
that are paid for, `free` the waits that ended by themselves. `SelectBreaks` is a signal (EINTR) or an error
in the `select()` of the thread: `WaitForIncomingData` says false or throws, and the thread ends, also in
a session that is open; `signals` counts these. A command is one unit of data; how
many bytes a read returns is left out, and so are errors of the other `select()`, the one of `BytesAvailable`,
which has a time-out of zero. Pipes follow one another, the queue of the link stays: the
events of one session are served in the next.

### CommLayer

The thread of the layer (`layerPc`), the server as far as it uses the layer (`serverPc`), the
backlog of the socket. `sockets` is "none" before the first start, "open", "unpaired" if the listening
socket was opened and the pair of sockets was not, and "closed" after the thread was stopped, where the
code keeps the old descriptors. Three things may fail, and `fails` counts them: a start, because the
port is in use or descriptors are short (`StartFails`: the thread ends with an exception); the `select()` of the
thread, by a signal or an error (`SelectBreaks`: the thread ends and leaves the sockets open); and an answer
on open sockets, in `accept()`, `setsockopt()` or `close()` (`AnswerBreaks`: the exception leaves the thread of
the layer without its wake-up and ends the thread of the server, `serverPc` "failed"). After that only a
stop is still possible, by Kill or RemoveCommLayer. `free` counts the waits that ended by themselves,
`spare` the stops that found no pair to interrupt the thread: the wake-up they give may meet nobody, and
nothing takes it back before the next start. `hasty` records such a stop of a thread that had not
ended. Whether a request is accepted or refused is open.

### Link

`linkState` is `mState`; `seen` and `next` are the two copies of the loop. The thread is at the top, in
one of the transitions, at the bottom, or on its way out after an exception. Each transition can
succeed, meet the end of the pipe, or throw. `mutexLost` says that `Connect` threw while it held
`mStateMutex`. `reports` and `failed` record how sessions ended.

### Server

`serverState` is `mState`; the queue holds "waiting", "request", "disconnected", "stop". The handlers
of `TDCLOneLinkServer` are split where they call the link, the layer or the destructor of a
pipe. The link answers freely. The layer is the one of `CommLayer`, with the steps between which
the server sees no difference joined: `layerPc` ("out", "open", "tell", "on"), `sockets`, `inPair` and
`waiting` are what they are there, `pending` says that the thread sleeps until a request is answered,
`wakes` is its `mWakeCount`. `Listen` starts the thread and nothing more: it opens its sockets
(`LayerOpens`) and tells the server (`LayerTells`) later, or fails. `StopLayer` writes into the pair, if there
is one, and wakes the thread up; `StopReturns` is the end of the wait for it, which never comes if the
thread was not interrupted. `LayerBreaks` is a start that fails, or a signal or an error in `select()`
(`broken`, from then on); `unheard` is true once a stop found no pair.

### Docking

The actions of `Link` and `Server`, joined where one calls the other: the server asks the link
(`AskLink`), connects it (`Connect`), tells it to disconnect (`StopLooks`, `StopAsks`); the link
tells the server that the session is over (`ReportEnd`). New state: the pipes that exist, those
whose thread was started, and whether a Newton has called before the last session was over. Deleting
a pipe joins its thread, so `DeleteOld`, which does not disconnect first, is enabled only for a
pipe whose thread was never started; otherwise the server hangs there, as in the code. The thread of the
layer runs by itself (`LayerRuns`, which is fair) and may fail (`LayerEnds`, which nothing obliges it to).
`ServerSafety` is `Server`'s own specification: with the real link every step of the server is one
that `Server` allows, so the invariants checked there hold here.

### SyncEngine, FullDockLink

One session, from the request of the Newton to the end. `pc` says what the thread of the link waits
for: a message of the dialogue that begins or ends the session, a result that a command of the
application asked for, or an event. `toNewton` and `fromNewton` are the two directions of the pipe, a
message is a command with one argument. `engine` is `mCurrentEngine`, `sync` the record of
`TDCLSyncEngine`: its state and its four cursors. The operators of `SyncEngine` give the record that
follows an answer; `FullDockLink` sends what that record asks for, as the code's `DoSync...` methods
and `CommandProcessed` do between them. `ServeData` is one call of the link's `HandleDockCommand`:
whoever is in charge (the engine, then the dock link, then the full dock link) takes the message,
refuses it with `kDUnknownCommand`, or throws. `lost` is true once an exception was caught that the
Newton does not learn of, or a command that waits for its answer took another message in its place; `stray` once a result was on its way to a link that no longer waited for it.
The Newton is external: it answers what it is asked, asks on its own when it is idle, says hello,
cancels, and leaves at any time. What the Newton's data decide (which entries changed, whether the
source wants one) is a choice.

### MNPPipe

Bytes are numbered in the order in which they are sent, so one that is lost, repeated or moved shows;
a frame of a wrong CRC is a frame of kind "bad". `inBuffer`, `outBuffer` and the numbers are the
pipe's; `left` is what a call of Read still wants. The pipe never compares numbers and never sends
again: `ReceiveData` takes any frame for the next one. `DataOf` joins the data of the frames of some kinds. The Newton (external) sends as many frames
as it has credits for, may repeat what is not acknowledged, and hangs up.

### BufferedStream, NSObjects, StreamNumbers, NSOF, ObjectExchange

`BufferedStream` splits Write into the loop that fills the buffer and the loop of the socket, in which
`send` takes any part of what it is given, is interrupted, comes back late, or fails; Read likewise.
`wire` is what the Newton has not taken yet, `given` (history) what it should get. `NSObjects` keeps
objects in a sequence, so that sharing and cycles are what they are in memory; a reference is an
immediate, a symbol of the library, or an index. A frame is its keys, its values and
`mKeysAreSorted`; `Set`, `RemoveSlot` and `GetKeyIndex` keep and use the order as the code does.
`NSOF` writes and reads real bytes, because whether both sides number the objects alike is decided
by which forms have a number. `ObjectExchange` puts the three under one application: edit, send (the
calls of Write that SendCommand makes, in order), read the header, the body, the object. It takes encoder and
decoder as constant operators (`Encoding`, `Decoding`), which `Exchange.cfg` gives the ones of `NSOF`: what is true of
the way of the bytes does not depend on them and is proved for any.

### PkgFormat, Package

`PkgFormat` is the form that objects have in a package, where they refer to one another by offsets: the
stream is a function from positions to what is there. The encoder cannot know where an object that it
has not met will lie, so it writes a zero, remembers the place (`pending`, the code's `mStack`) and
comes back; a frame points to the array of its keys, its map, which it may share with an earlier frame
or extend. `FrameToPkg` computes where its map will be before its values are written, as the code does
(an assertion there says that this is right; here a wrong place is an object that cannot be read).

`Package` keeps the parts and what was written last. `WriteToStream` is one action of three passes:
for the size, the entries and the parts; in each a part is asked for its size at the place where it will
lie, and encodes itself anew if it lies elsewhere and depends on it (`Placed`). So a pass changes the
parts, also if the call ends with an exception. The relocation sets are written last, over the zeroes left
for them (`RelocationSize`, from `PageCountEstimate` and `SetMaxSize`). `ReadPackage` makes a new package
of the file: which relocations belong to which part is found by their addresses, what follows an
information is taken for more of it. `ChangeObject` is the application that changes an object it was
given. History, which the properties use: `targets`, what a word to relocate points to in its part;
`moves`, how often a part was moved since; `stale`, an object changed without Dirty.

### UTF16Conv, Paperback

`UTF16Conv` has the tables of the code (the tables of the other way are derived from them, with the one
pair that is out of order), what each conversion does with the character it is at, and `Conversion`, the
loop they all have: it stops where the buffer is full, before a character that is not complete or does not
fit, or at one the encoding lacks. Words are the numbers that `UByteSex_FromBigEndian` gives;
`LittleEndian` says what comes of the place where it is not called.

In `Paperback` a program writes `job.lines` with these conversions, as many words as it likes at a time
and what was not read again; then `BuildBook` reads the file by chunks, converts it, and goes through the
text twice. `text` is the block of memory, from 0, with one word of the heap behind it, because
`ConvertEndLines` and `BuildTOC` look there; `index` and `size` are the code's. A turn of each loop is an
action; the loop over the lines goes through the characters of a line at once. The font, the title and the
constant fields of the book are left out. `Expected...` say what the book should be in terms of the
lines.

## 3. The runs

| Run | Instance | Checked |
|---|---|---|
| `event_thread` | 3 posters, 2 kinds, 2 masks, 3 posts, no spurious wake-ups of the semaphore | `ChainIsList`, `ImplementsQueue`, `ImplementsLock`, `CallReturns` |
| `sync_pipe` | 2 sessions, 3 commands, 2 waits that end by themselves and 1 signal per session | `OneAnnouncement`, `DataIsRead`, `DisconnectEnds` |
| `comm_layer` | 2 starts, 4 Newtons, limit 2, 1 wait that ends by itself, 2 failures | `AcceptNeverBlocks`, `RequestsServed`, `StopEnds` |
| `comm_layer_listens` | 2 starts, no failure | violated: `NowListening` |
| `docking` | 2 sessions, 2 Newtons, 1 start and 1 call or 2 starts, 1 stop, exceptions, errors of the layer | `DockingIInv`, `NoDanglingPipe`, `NeverStuck`, `ListensWhileUp`, `ServerSafety`, `PipeClosed`, `CallAnswered`, `StopServed`, `RequestHonoured` |
| `docking_fails` | the same, 1 start, no call, no error of the layer | violated: `OldPipeGoes` |
| `full_dock` | 2 kinds of links, 1 command of the application, 2 turns of the Newton, 1 source, 2 stores, 1 soup, 2 entries | `DockIInv`, `Authenticated`, `NeverBothWait`, `InstallTold`, `NothingMissed`, `NewtonServed`, `SyncEnds` |
| `full_dock_install` | the same | violated: `InstallConfirmed` |
| `mnp` | 3 bytes each way, frames of 2, buffer of 2, numbers modulo 4, 2 credits, 1 fault | `BothStreams` (with `MNPIInv`), `AckMeansReceived`, `NewtonGoesOn`, `FlushedArrives` |
| `exchange` | 2 graphs of objects, 2 changes, 2 commands, buffer of 32 bytes, 1 call that is cut, late or interrupted | `SlotsFound`, `InStep`, `BytesInOrder`, `EchoIsEqual`, `ExchangeEnds` |
| `package` | 3 packages of 2 or 3 parts, 7 parts to add, 2 changes, 2 writes for 2 load addresses, pages of 16 bytes | `PackageIsEqual`, `SetsFit`, `WriteEnds` |
| `paperback` | texts of up to 3 lines with 3 ends of lines, 5 encodings, all words of the tables, a buffer of 4 bytes, 1 word or all words in a call, chunks of 4 bytes, 4 words of the heap | `BookIsTheText`, `BookEnds` |

**Why the bounds are enough.** The races are between two steps of two or three parties; what a
larger instance adds is more of the same. Two sessions are needed for everything that one
leaves behind for the next (events in the queue, a pipe, closed descriptors, the thread on its
way out); three commands for a read that empties the pipe between an announcement and its event;
four Newtons and a limit of two for the limit to be met, and exceeded by one if it were off by
one; two starts for what the first leaves behind. One signal in a session is enough, as it ends the thread
of the pipe (`MaxSignals`); two failures of a layer (`MaxFails`) let a start fail and something else after the
next one. In `docking` a behaviour has a call of the application or a second start of the server, not both
(`MaxActs`), because the product of the two would take too long: the first shows what a call may disturb, the second what a run of the
server leaves to the next one (events, closed sockets, wake-ups in store). Four threads at the semaphore of the list let two wait
while one owns or is handed it and one arrives; three events are enough for one to be taken from the middle.

In `full_dock` two turns of the Newton let a request and a hello slip into the same exchange, one
command of the application crosses both; two stores and two entries make each of the loops of the
synchronisation go round and come to its end once (a source and a soup more change no cursor that
these do not: the next soup and the next store are reset by the same code, checked with one soup over
two stores). In `mnp` a frame of two bytes and a buffer of two make three bytes take two frames,
one full and one not; numbers modulo 4 wrap within the run; two credits make the Newton stop and wait
for an acknowledgement. In `exchange` a command is longer than the buffer of 32 bytes and shorter than
two of them, so that Write fills it, empties it and starts again; `CutSizes` cut a call of `send` or
`recv` in the header and in the body; `SortThreshold` is 4 (20 in the code), so that a frame crosses it
in both directions with two changes. Frames become sorted, unsorted, rectangles and functions.

In `package` the parts between them have shared objects, a cycle, frames with the same keys, with more and
with fewer (a map shared, extended, or made anew), bytes that are no multiple of four or eight, two objects
for one symbol, and a frame without slots; pages of 16 bytes (1024 in the code) let the relocations of one
part lie in three pages and two parts share one. Two changes and two writes are needed for a part that is
read, decoded, changed or moved by a new neighbour, and written again.

In `paperback` a line has the prefix, all of it and nothing else, a part of it, or none, and is empty or not;
three lines let one that goes be the first, the last, and beside another. A buffer of four bytes is full
after each character of four and in the middle of two of three; a chunk of four bytes is full, and the last
one empty, for some of the texts.

Deadlock is not checked in the modules where a finite number of calls may be used up and all
threads wait; the other runs are checked for it.

**Fairness.** A thread inside an operation of the library, or woken up, is scheduled again; a thread
that owns a semaphore releases it; a Newton that is being read from sends or breaks the
connection (the reads of a link have no deadline of their own). The thread of a layer goes on from one place to the next;
that a start, a `select()` or an answer fails, or that a signal comes, is never obliged to happen
(`SelectBreaks`, `StartFails`, `AnswerBreaks`, `LayerBreaks` have no fairness). In `full_dock` the thread of the link
and that of its pipe run and a Newton that stays reads what reaches it (`LinkStep`, `DataPresent`,
`NewtonReads`); in `mnp` the link reads what it is woken for and the Newton takes what arrives; in
`exchange` a command that was begun goes on and a Newton that stays answers; `paperback` is one sequential
program. Nobody is obliged to call, to
post, to send, to start or to stop, and no platform is obliged to end a wait without a signal.

**What the code does against its own comments.** Three runs show it:

1. `comm_layer_listens`: a layer that is started a second time keeps the descriptor of its
   closed socket, does not open another, announces that it is waiting, and its thread ends.
2. `docking_fails`: an exception ends a session without telling the server; the next connection
   deletes the old pipe without disconnecting it, and joins a thread that nobody tells to end.
3. `full_dock_install`: a request to install a package that crosses a request of the Newton leaves the
   engine for packages in charge; the result that comes later is reported as that of a package which
   was never sent.

Others were met while modelling. The modules state them, but no run is spent on them:

- `CommLayer.StopAlwaysEnds` (with `FairSpec`, one start and nothing that fails): a stop that comes before the thread of the layer has made
  its pair of sockets interrupts nothing (`TDCLBSDSocket.cpp:323`), and waits for the thread for ever.
  `TDCLSyncCommLayer.h:98-114` says that DoStopListening interrupts the wait, and that StopListening
  waits for the end. The test `StartAndStopTwice` (`UTestCommLayers.cpp:227`) stops the server only after the layer said that it waits.
- `CommLayer.AnswerReturns` (two starts, one Newton, one failure): the stop of a layer whose start has failed, because the
  port was in use (`TDCLBSDSocket.cpp:291`), leaves a wake-up counted. The next start that succeeds announces one Newton twice, and the second
  `accept()` holds up the server, although Accept and Refuse do nothing "if no connection is present" (`TDCLCommLayer.h:138-149`).
- `CommLayer.RoomLeft` (limit 2, three Newtons): the end of a session does not count its pipe out, because `TSyncPipe::Disconnect` (`TDCLSyncCommLayer.cpp:187-204`)
  does not call `Disconnected`. After as many sessions as the limit, a layer refuses every Newton; `TDCLCommLayer.h:99` speaks
  of simultaneous connections.
- `SyncPipe.ToldWhenAsked` (one session, one signal): a signal ends `select()` in the thread of a pipe, which takes it for Disconnect
  (`TDCLBSDSocket.cpp:856`): in an open session nothing is announced any more, although the link, by `TDCLSyncCommLayer.h:247-248`,
  wishes to be told as soon as data are there.
- `Semaphore.SpuriousSpec`: Acquire does not test again after `pthread_cond_wait`
  (`TDCLPThreads.cpp:193`), so a spurious return makes a second owner.
- `Server.StartingHasThread`: `Start` right after the server has said it is stopped throws and leaves
  `mState` at `kStarting`; later calls of `Start` do nothing (`TDCLServer.cpp:88-89`).
- `BufferedStream.CountsTrue`: `TDCLStream.h:63-66` and `77-80` say that `ioCount` is the number of
  bytes read or written, also with an exception. After EINTR or EAGAIN the socket has reduced it and
  goes on, and reduces it again at the next error; what a late call did move is left out of it
  (`TDCLBSDSocket.cpp:631`, `677`, `738`, `788`). `disturbed` marks it, and `CountsUndisturbed` is proved
  for the calls without it.
- `ObjectExchange.EchoIsEqual` with an integer above 255 among `Immediates` and two bytes in `Junk`: a
  frame with the four slots of a rectangle is sent as four bytes, also when one of the integers does not
  fit in a byte, whose place then keeps what was in memory (`TDCLNSFrame.cpp:843`). `TDCLNSFrame.h:243-244`
  says that the four must be between 0 and 255; nothing looks whether they are.
- `Package.SetsFitInFile` with relocations that are not in order: `compare_relocations` compares the places
  of two values in memory instead of the values (`TDCLPkgRelocatablePart.cpp:90`), so `SetRelocations`
  does not sort. The estimate of pages, which `TDCLPkgRelocatablePart.h:116-117` calls an upper bound, is
  then too low, and the sets are written over the first part.
- `Package.PackageIsEqual` leaves out what this code does not keep. The offset of an information does
  not count the extra bytes before it (`TDCLPackage.cpp:363`), and the zeroes that complete the directory
  are read as extra bytes of the last part, so that a package that is read, gets a part and is written
  has a wrong information. A relocatable part is moved by its distance from `mBaseAddress`, which stays
  (`TDCLPkgRelocatablePart.cpp:163`): a second move is wrong, as is a package read for an address other
  than 0. `kDirRelocationFlag` stays when the last relocation is gone, and a header of 20 bytes is written
  that the size of the package does not count (`TDCLPackage.cpp:405-424`; `TDCLPackage.h` says that it is
  the size of the package). A frame without slots is written without a map and cannot be read.
- `TDCLPkgNOSPart.h:100` asks for `Dirty` after an object was changed; it is declared (line 108) and not
  defined anywhere, so a change of an object that was read is written only if the part is moved (`stale`).
- `Package.WriteEnds`, without its exception, fails: two symbol objects of one name make the encoder go
  on for ever (`TDCLPkgEncoder.cpp:231-235`).
- `MNPPipe.BytesAreThere`: `BytesAvailable` is true when the pipe below has bytes, also if they are an
  acknowledgement: the Read that follows waits for data.
- `Paperback.BookIsTheText` leaves out (`Sound`, and the words it allows behind the text) what these lines do.
  The table for MacRoman, "Sorted (in reverse order) by unicode chars" (`UUTF16Conv.cpp:456`), has its first two
  words in the other order, so that the ligature fl is never found. ToUTF8 does not swap the second
  word of a pair on a little-endian machine (`UUTF16Conv.cpp:871`), and the conversions to one byte count a pair
  as two words but go on after the first (line 123). ExtractString promises a text that ends with an
  end of line (`UDCLPaperback.h:95`), which nothing adds: a last line without one that the text cuts within
  the prefix becomes an entry with the whole text (`UDCLPaperback.cpp:351`). With kUTF16 it returns the number of bytes
  as that of characters, so that half of the text is what the heap held (line 270). ConvertEndLines looks
  behind a CR that ends the text (line 291), and takes it out if there is an LF. BuildTOC takes the end of the line
  out with the line, but leaves it in the size (line 420): a word for each line stays at the end.
- The end of a complete synchronisation does not download the entries that `TDCLSyncEngine.h:63`
  speaks of (`TDCLSyncEngine.cpp:694`); `StopSynchronizing` before the engine has started is lost.
- ReceiveCommand does not look at how many bytes of the body were read (`TDCLDockCommand.cpp:202`).
- `TDCLNSFrame::operator=` copies neither `mCapacity` nor `mKeysAreSorted` (`TDCLNSFrame.cpp:184-220`); the
  library does not use it on frames, and the modules do not either.

Behaviour that the models allow because the code does, and that the properties leave room for. A
stop of a layer that has no pair of sockets does not return (`hasty` in `StopEnds`).
After a wait that ended by itself, or such a stop, a layer announces a request twice and the second answer
waits in `accept()` (`free` and `spare` in `AcceptNeverBlocks`). An error or a signal ends the
thread of a layer (`layerPc` "out" in `RequestsServed` and `CallAnswered`, `broken` in `ListensWhileUp`) or of a
pipe (`pipePc` "out" in `DataIsRead`), and nobody starts it again. An answer that fails ends the
thread of the server (`serverPc` "failed"; `serverState` "unknown"), whose events nobody reads until it is killed,
and a layer that closed its sockets does not open them again (`sockets` "closed" in `ListensWhileUp`;
run `comm_layer_listens`). A server that stops a layer before it opened its pair waits for ever,
or leaves the next run a wake-up in store (`unheard`, which `Calm` excludes, in `StopServed`,
`CallAnswered`, `PipeClosed` and `NeverStuck`). A Newton that calls while the thread of the link is on its way
out makes `Connect` throw with `mStateMutex` held (`mutexLost`), or is served before the end
of the last session is, so that the server hangs on the old pipe (`overlap`). Events of a
session are served in the next one. A second Stop may stop the next run of the server. The count of
pipes of a layer never goes down. A frame that the Newton repeats over MNP is read twice (`repeats`
in `BothStreams`), one that was passed over after an exception is acknowledged (`skipped`).

## 4. The proofs

**Semaphore** (`EventChainProofs`), for every finite set of threads. The invariant `Counted` says that
the counter is the number of threads that wait, were woken or own, and that a thread is one of
these at a time; it is inductive on every platform, and gives `BusyIsTrue` for `SpuriousSpec`
(theorem `BusyAlways`). Mutual exclusion is not inductive: that Release hands the resource to one
waiter is no use if an owner can be there already. `SemIInv` adds that woken threads and owners
together are at most one, and that there is one if anybody waits; the counter then tells
Acquire and Release exactly which of the cases they are in. From it: `Mutex`, `HandOver`, `Fifoness`
(no barging) and `Refinement`, the implementation of `AbstractLock`. The only assumption is that
the set of threads is finite; these four hold for `SemSpec`, where waits end only when signalled.

**Thread with events** (`EventChainProofs`), for any sets of posters, kinds and masks, any bound
on the number of posts, and waits that may end by themselves. That no wake-up is lost is
`WillLookAgain`: if an event the thread waits for is in the list while it is about to sleep,
there is a wake-up in store or a poster about to give one; while it is asleep, the wait is about to
end or a poster is about to end it. It is inductive together with the program counter following the
sleep state and the absence of stored wake-ups while asleep. `Conservation`, `Fifo` and `Refinement`
(the queue read through masks) follow from arrival numbers: what is in the list and what was handed over
are disjoint and make up 1..posted.

**The list of events** (`EventChainProofs`), for any number of posts. `ChainIsList` follows the pointers with a
recursive function, which says nothing by itself about one step. `Linked` says the same pointer by pointer: the head is
the least number in the queue, the tail the greatest, `next` of a number in the queue the least of those that
are later. It is inductive because a number that is taken out has one predecessor, which gets its successor
(`TakeUnlinks`, with the case that the tail was taken), and a new one is later than all (`PostLinks`). That a walk from the
head then meets the numbers of the queue and no others, in order (`LinkedIsList`), is an induction along the walk,
which the provers do as a descent: if a walk failed somewhere, `LeastElement` gives the first place
where it does. The theorem is `ChainIsTheList`. With it the composition `ChainSpec` is shown to be both
an `EventThread` and a `Semaphore` (`ChainHasBoth`), so that it implements a queue read through masks
(`ChainQueue`) and a lock (`ChainLock`).

**Pipe** (`SyncPipeProofs`), for any number of sessions, commands, waits that end by themselves and signals.
That announcements are paid for is a matter of turns: a turn of the pipe's thread is a wake-up in
store, a signal, or the thread itself on its way from `select` to an announcement. `TurnsPaid`
bounds them by the credit; Disconnect adds one turn that nobody paid for, which is why the bound has
two exceptions and why `LastTurn` is needed to see that it is not used to announce anything.
A thread that a signal ended has taken its turn with it, which is the second exception.
`Phases` says who is where: the thread of an open session lives unless a signal has come. `Announcements` and `Deletion` follow.

**Layer** (`CommLayerProofs`), for any limit and any number of starts, calls, waits that end by
themselves, and failures of starts, selects and answers. `OneTurn` counts the same turn through the thread, the queue and the hands of the
server: there is one while the thread lives, and one more for each wait that ended by itself (`free`) and for each
stop without a pair of sockets (`spare`), whose wake-up may stay in store until the next start.
`RequestStillThere` says that with one turn the request is still in the backlog, which
`OneTurn` alone does not; `Phases` that sockets and thread come and go together unless something failed; `TurnKept`
that the thread, while it lives and the server serves, is not forgotten; `Counted` relates
the pipes to the count. `NoBlocking`, `StoppedForGood` and `Limit` follow.

**Link** (`DockingProofs`), for any set of callers, number of sessions and calls, with and without
exceptions. `StateIsSeen` (nobody writes `mState` between the read and the write of the loop) holds
because `Connect` starts a session only when the thread has ended, which the states alone do not
tell; `SessionKept` relates the place of the thread to the pipe and to the sessions that failed, and
`PlaceFitsState` to the state it read. `Reports` and `WalksForward` (an action property) follow.

**Server** (`DockingProofs`), for any number of starts, stops and Newtons, whether or not accept()
throws and the layer fails, and whether or not the application waits before it calls Start. `ServesItsState` ties each place
of the loop to its state, `LayerFollows` the registration of the server with the layer to the state, with the one moment, at the bottom of
the loop, when the layer is ahead. Neither says that anybody listens: that is `LayerKept`, which relates the thread
of the layer to its sockets and its pair. Unless the thread has ended on an error (`broken`), it is off until it is
started, opens its sockets if they are not closed, and closes them when it was interrupted, which only
happens while the server waits for its end. The lemmas take the invariant in two parts (`TurnIInv`, `LayerIInv`): the steps
that leave the layer alone (`LayerStays`), answers (`AnswerKeepsLayer`), and the layer's own (`LayerSteps`).
`Listening` follows: a server that has stopped has no thread that listens, and sockets that are not open unless an error left them;
one that runs has the sockets of its layer open, or a thread about to open them. It does not say
so of a layer that closed its sockets at an earlier stop, which will not listen again (`comm_layer_listens`).

**Server and link together** (`DockingProofs`). Each step is shown to be a step of `Link` (or the request
of DoStop, which is not bounded as the application's calls are) and a step of `Server`, so that their
invariants carry over (`PartsIInv`) and only the relation between the two is proved anew.
`ServerImplemented` is this for the server: it implements `Server`. That it needs an
invariant is due to the report of the link, which in `Server` comes at most once per connection;
`OneReport` shows this of the real one. `PipeThread` and `NewPipe` say why the server, on its way to
a new pipe, cannot delete or replace one that the link has: the link holds a pipe whose thread runs,
and such a pipe stops `DeleteOld`. `NoDangling` and `NoneLost` follow.

`NeverWaitsForPipe` (`NeverStuck`) is about the order of events, and holds while no Newton calls
before the last session is over, none has failed, and no stop found a layer without a pair, which leaves a wake-up
in store (`Calm`). `OneRequest` says that one call at a
time is then waiting, announced or answered, that the thread of the layer sleeps while it is (`pending`) unless it was stopped
(`inPair`, or `sockets` "closed"), and that the link has ended meanwhile; so no session
starts behind a request and no report can come after one. `ReportFirst` says that the report of the last
session, if its pipe still has a thread, is in the queue ahead of the request: when the server gets to
the request the report was served, and the pipe it deletes never had a thread.

**Bytes of a pipe** (`ObjectExchangeProofs`), for any size of the buffer, any width of the counts, and
`send` and `recv` that move any part, fail, are interrupted or late at any call. `BytesInOrder` is an
equation between sequences: what the Newton has not taken and what the buffer still holds are, together,
what was put in. Each step moves a piece from one to the next, and the lemmas `Joined`, `Associative`,
`Cut`, `CutTwice` and `CutOfConcat` say what cutting and joining sequences does. It is not inductive
alone: the buffer is cut at `left`, which must stay within it (`LeftFits`), and the exception of a
socket leaves `ioCount`, by which the buffer is moved (`CountsInStep`). The same invariant gives
`CountsUndisturbed`: the counts that callers get are right as long as no call of the system is
interrupted or late. `BytesAreInOrder` is the property that run `exchange` checks of the pipe of a session.

**Exchange of objects** (`ObjectExchangeProofs`), for any encoder and decoder, any size of the buffer, and calls that are cut,
interrupted, late or fail anywhere. That nothing is left when the application has its answer (`InStep`) is about lengths: both sides
take from a stream without marks what the header says. `ExchangeIInv` says for each stage what the bytes are together. While a command
is sent, what the Newton has not taken, the buffer, the rest of the current call and the pieces still to be written are one command, of
the length its header tells, and nothing is on its way back; a Newton that looks at `wire` in between sees a part of a command, which
is not one (`WholeAtNewton`, an argument from the length). While the answer is read, what was read and what is on the line are one, or the
connection is closed. The bytes cannot be in two places: `Quiet`, of a stage before or after. The pipe's invariant (`StreamIInv`) is
assumed of each step, and what Write, `send`, Read and `recv` do to this sum is proved of them once (`SendingFill`,
`SendingSend`, `HeaderRecv`, ...). The theorems are `ExchangeInvariant` and `ExchangeInStep`.

`CarriedIInv` adds what the bytes are: the command of the objects that the application still holds. Where a sum is one of known
length, its parts are known (`BeginAlike`, `CutCommand`). `BodyIsReturned` is the result: what the decoder gets is, byte for byte,
what the encoder made. So `EchoByCodec`: an object that comes back is the object that was sent, `EchoIsEqual`, if the codec
alone returns it (`CodecReturns`, which says nothing of pipe, calls or Newton). What is left to TLC is this hypothesis: encoder and
decoder are recursive operators. `ExchangeIInv`, `CarriedIInv`, `BodyReturns` and `CodecReturns` hold in all
states of run `exchange`; they are no properties of it, as `InStep` and `EchoIsEqual` are what they are for.

**Slots of frames** (`ObjectExchangeProofs`), for any names and any `kSortThreshold`. A frame is searched in one of two ways, and what is
found depends on a flag that other operations set. `InOrder` says what the flag has to mean: no name is there twice, and
those of a marked frame ascend; it is equivalent to each slot being found (`FoundInOrder`). A slot that the search misses is
nowhere, and where the search stops is its place among the names in order (`AddedInOrder`); removal leaves the order
(`RemovedInOrder`); the insertion sort puts each slot behind those of lesser names, which is a permutation because n
different names have n different places (`SortedPlaces`, by the pigeonhole theorems of the library). A change of one object leaves the names
of the keys of all others, which may be symbols of the same heap (`KeysStay`, `ChangedHeap`). A heap that was read has the slots that were
sent, and as many, so none twice (`SameIsFound`). `SlotsByCodec` puts these together with `BodyIsReturned`: after any changes and
exchanges `SlotsFound` holds, if the codec returns what is sent and marks no frame as sorted (`CodecMarks`, which
TLC found true in all states of run `exchange`).

**Packages** (`PackageProofs`), for any parts, names and load addresses, any page size, and any encoder and decoder of objects. The room for
the relocation sets is taken from the relocations before any part has its place, and the sets are made of addresses after all of them
have theirs. `PackageIInv` relates the two: `TypeOK` says that the parts are well formed (`IsPart`: the words to relocate lie in the part, at
multiples of four), `FileOK` that a file that was written is the one for its parts. The application, which
encodes nothing, cannot break it; `WriteToStream` keeps it because its three loops agree. After the first one every part is settled: asked at the same
place again it is not encoded again and has the same size (`PlacedAgain`). `FirstPass` and `NextPass` carry this along the loops
(`Lies`: so many parts lie at these offsets), for the second loop from another start with another base, for the third with the parts of the second;
`ThreeLoops` concludes that entries and parts have the same sizes and places. A loop is a recursive function; what it has after
each turn is an induction along it (`GoesExists`, `TurnByTurn`, by a least counterexample).

`SetsStayInRoom`: parts that lie one after the other with ascending relocations have ascending addresses (`InOrderThroughout`). A set is begun
where the page changes, so a set has ascending words of one page, at most `MaxSetCount`, and their sum is the number of addresses (`AllFilled`). The
relocations of one part lie in no more pages than the difference between last and first tells (`EstimateIs`), wherever the part lies, and
one more set is never needed between parts (`SetsBetween`, `SetsOfPlaces`): `SetsInRoom`. `RelocationsReturn`: the sets, read, are the addresses again
(`ReadBack`), of which those of a part are one stretch (`WordsOfPlace`, `AllOfJoined`), so each part gets its own.
This one holds in whatever order the relocations of a part come.

Both take as a hypothesis that an encoder does not end before it began (`EncoderGrows`: the size of an object that was placed is a natural number),
of which TLC found no exception in the states of run `package`, as of `PackageIInv`. The names, parts and packages that the application begins with
or adds are well formed (`PartsAssumption`); in a part to relocate this means relocations inside of it, the last not before the first.

**Docking session** (`FullDockProofs`), for any kinds of links with their engines, any numbers of sources, stores, soups and
entries, and any bounds on what the Newton and the application begin. What goes wrong in such a dialogue
is that a message is answered twice, or by the wrong party, or not at all; so `DockIInv` counts what is
owed. `OnePassword`: at most one question for a password or one answer is under way, in the dialogue that begins a
session and nowhere else. `OneCancel`: a Newton that cancels waits for one acknowledgement, and sends no result
behind it. `AnswerToCome`: while the link waits there is a message to read, or a question that the Newton
will hear. `OneResult`: at most one result is still to come, and the party that asked for it still waits.
`InLoops` relates the four cursors of the synchronisation to the places it has visited, and `EngineAtWork` the engine
to the kind of the link. The lemmas first say what each handler does to these sets (`ServeCommandIs`,
`LinkServesIs`, `DialogueStepIs`, `NewtonReadsIs`, `NewtonSaysIs`: which messages are added and which one is taken,
whatever its content), then each conjunct is shown kept by the link and by the Newton
(`PasswordByLink` ... `AnswersByNewton`). `TransitionFollows` is the synchronisation: each answer leads to a
state whose loops are in order. `Authenticated`, `NeverBothWait`, `InstallTold` and `NothingMissed` follow.

Two of these were stated too strongly before, which the run did not show and the attempt to prove them did
(they fail with three turns of the Newton and three commands of the application). A cancellation by the Newton
that `GetResult` or `GetEcho` reads in place of its answer is not acknowledged by anybody, and the Newton waits
for ever: `NeverBothWait` leaves it out (`lost`). A synchronisation that is dropped while the result of `SetCurrentStore` is to come leaves it to
whoever waits for a result next; a later installation takes it for its own (`stray` in `InstallTold`).

**MNP** (`MNPProofs`), for any sizes of frames, buffers and commands, any span of the numbers, any credits and any number of
faults of the line. `StreamIInv` is what makes `BothStreams` hold at each step. `HandshakeIsFirst`: what the
handshake reads without a look at it (`ReadRequest`, `ReadConfirmation`) carries no data, because the Newton says nothing else
before it is answered. `InStream`: towards the link the flow is conserved, where a damaged frame counts until it is
read, as its reader goes no further. `OutStream`: towards the Newton too, and each frame carries the number that the
Newton will expect when it gets there; the numbers are a function along the frames (`Numbered`), so that one step adds
or removes an end of it (`NumberedAppend`, `NumberedWrite`, `NumberedTail`). The lemmas under it are about joins: what
`FlattenSeq` makes of a sequence of sequences when one is added, taken or the whole is cut (`FlatAppend`, `FlatTail`, `FlatConcat`,
again by a least counterexample, as `FlattenSeq` is a recursive function), what this is for the data of frames
(`DataAppend`, `DataTail`, `DataConcat`), that the loop of FlushOutput cuts the buffer into frames without a loss
(`FirstFramesHold`), and remainders (`ModPlus`). The theorem is `Streams`.

`AckIInv` is what makes `AckMeansReceived` hold: the Newton forgets a frame when it reads an acknowledgement that names it
or one after it, by numbers that come again every `IndexSpan` frames, and the pipe answers whatever frame
it read last. `Window`: each number still in use, on either line or in `mInputPacketIndex`, is one of the last
`Len(pending) + Credits` that were given, and there are never more of these than numbers (`2 * Credits <= IndexSpan`), so that its
age (`Age`: 1 for the last frame) tells which frame is meant. This is not inductive alone, because the window
gets smaller when an acknowledgement arrives: `InSequence` says that whatever follows another is at most `Credits - 1` frames
older, through acknowledgements, pipe and data in that order, since only what is pending is repeated. `Confirmed`: what an acknowledgement or the
number in the pipe confirms has been received, and what a frame on its way would confirm has been received or
is carried by it or ahead of it. `BeforeTheAnswer` says that no second handshake meets data. All steps of the pipe and the line but three
keep what the Newton keeps, and are one lemma (`Moves`, for frames that are read, acknowledgements that are taken or sent); the others are
`Sends`, `Repeated` and `Acknowledges`. The theorem is `Acknowledging`.

TLC found `StreamIInv` and `AckIInv` to hold on the instance of run `mnp` (the second also with frames of one byte, two faults and three credits),
before they were proved; they are no properties of a run: `BothStreams` and `AckMeansReceived` are what they are for.

The assumptions are those of the modules: finite sets where they are counted, natural numbers for the
bounds, and in `Docking` that the server's thread is one of the callers of the link.

**Proved and no longer run.** `BusyIsTrue`, `NoBarging`, `MutualExclusion`, the `IInv` of `Semaphore`,
`CommLayer`, `EventThread` and `SyncPipe`, `WillLookAgain`, `NothingLost`, `InOrder`, `Stopped`, `PipeLimit`, `LinkIInv`, `Forward`, `ReportedOnce`,
`ServerIInv`, `SafeToDelete`, `NoPipeLost`, the `StreamIInv` of `BufferedStream`, `CountsUndisturbed`: TLC agreed with each before it was
proved; the theorem says more than the run did.

**Only model-checked.** Liveness (beyond the prover). What is left of `EchoIsEqual` and `SlotsFound` (`CodecReturns` and `CodecMarks`), and
`PackageIsEqual` (but for the relocations) and `WriteEnds` of `Package`: the encoders and decoders of objects are recursive operators, which the prover does not take. `BookIsTheText`: the conversions are recursive functions over the text, and what they compute is an
induction over it. The induction theorems of the library take a predicate as a parameter, which no
installed prover can instantiate; where a proof needed an induction over numbers (`EventChainProofs`,
`MNPProofs`) it takes the least counterexample out of a set instead, which has to be set up anew for each statement.

## 5. Not modelled

- **Kill** and DoKill (`TDCLServer.cpp:131`): it disconnects the link, closes it and deletes the pipe from the
  thread of its caller, under `mStateMutex`, and then cancels the thread of the server, which may
  be in any of its handlers. What cancellation leaves behind (semaphores held, objects half made)
  depends on where the C library has cancellation points, which the source does not say.
- **AddCommLayer** and **RemoveCommLayer** with `mListMutex`: AddCommLayer starts the layer inside the mutex,
  and DoStartListening starts it again on a server that is started later.
- **Suspend, Resume and Stop of a thread** (signals, cancellation): nothing in DCL calls them except
  Kill. Suspend sets `mState` and sends a signal, and a thread that enters Sleep in between overwrites
  it (`TDCLPThreads.cpp:458`).
- The arithmetic of the wake-up time of Sleep, which adds a remainder without carrying into the
  seconds (`TDCLPThreads.cpp:556`); waits end at any time in the modules.
- Errors of calls of the system. Modelled are those of socket, bind, listen and the pair of sockets (`StartFails`), of select
  (`SelectBreaks` of `CommLayer` and of `SyncPipe`), of accept, setsockopt and close (`AnswerBreaks`), and of the same in `Server` (`LayerBreaks`,
  `AnswerThrows`). Left out are: mutexes and conditions that fail although they were initialised;
  `pthread_create` in `TThread::Start`; a `socket()` that fails with an error the code does not list (ENOMEM), after which
  DoStartListening goes on with the descriptor -1 (`TDCLBSDSocket.cpp:249-292`); a `fcntl()` that fails on the pair that
  was just made; the errors of the `select()` of BytesAvailable.
- Numbers of descriptors that were not set or are in use again. The members of the pair are not set before there is
  one, so that a thread with a socket and no pair may take anything for its byte (`SelectBreaks` has this outcome); a closed
  descriptor keeps its number, which may by then be that of something else. A closed descriptor is one here on which
  every call fails.
- A close() that wakes up a thread in `select()` or `accept()`: on Linux it does not, and in the modules only a call that
  comes after it fails.
- In `Server` and `Docking`: waits that end by themselves, and more than one layer.
- In objects: reference counting, large binaries (`kLargeBinary`), the XML and text forms. In
  commands: the functions that report progress and `kDBackupIDs`.
- In packages: the copyright string, the checks of ReadPackage that only a file of another program can
  fail, relocations that lie outside of their part, sizes that do not fit in 32 bits. A
  file whose sets were written over its parts is not read further.
- Files, texts, the hammer pipe, inspector and package links, the remaining dock commands (one
  class per message that formats its fields), serial and other POSIX layers.
- The ports to Mac OS, Mac OS X and Win32: one port is enough to check the design, the others repeat it
  over other calls. `src/K` but for `UUTF16Conv`, a library of its own of which DCL uses little else than
  definitions; there, ASCII, UCS-4 and the strings built on the conversions. Samples.

## 6. Plan

Done: semaphores, threads with events, pipes, layers, links, servers, server and link together, the
docking dialogue with the engines, MNP, the buffered pipe, objects with NSOF, packages, books. What is left, in order:

1. Kill in `Server` and `Docking`, once it is settled where a thread can be cancelled; several layers
   with `mListMutex`.
2. `ThreadLifecycle`: Suspend, Resume and Stop; the arithmetic of the wake-up time.
3. The hammer pipe.
4. Proofs: that a package that is read has the name, informations and words that were written (`PackageIsEqual` without its objects).
