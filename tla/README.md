# A verification of ollie-9p

ollie-9p (`olliesrv`) serves agent sessions as a 9P file system: a session is a
directory under `/s`, a prompt is a write, the conversation is a file one reads.
These are TLA+ models of the parts of the server where goroutines meet, TLC
configurations that check them on small instances, and TLAPS proofs, for any value of the
constants, of the safety properties of all of them: the session table, the writes to
a session's configuration, the daemon's files, the connection, fids under renames, the
conversation, the prompt queue, the waiting for a change, and the directories with their
listings.

Paths and line numbers are those of the repository; `server.go` and the like are
under `src/`, `session.go`, `sessionfile.go` and `runfilestore.go` under
`src/store/`.

- [The system](#the-system)
- [Modules and the code they model](#modules-and-the-code-they-model)
- [Runs](#runs)
- [Fairness](#fairness)
- [Proofs](#proofs)
- [Where the code and its documents part](#where-the-code-and-its-documents-part)
- [What is left out](#what-is-left-out)
- [Plan](#plan)

## The system

A client connects over a Unix or TCP socket. `Server.Serve` reads its 9P messages
in a loop and starts a goroutine for each; `Server.handle` dispatches on the
message. Everything below `/s` goes to the `SessionStore`, which owns the sessions
and hands out a `RunFileStore` per session with one entry per file; the other
top-level directories go to thin stores over the real file system. A session
wraps an `agent.Core`, which lives in another repository: it holds the message
history, the queue of prompts, and runs turns against a backend.

| Component | State | Operations | Hard because |
|---|---|---|---|
| Session table (`session.go`) | `sessions` map under `s.mu`, `Session.id`, context and core of each session | create (`new`), lookup, `KillSession`, `renameSession`, `InterruptAll`, `Shutdown` | check and insertion are separate critical sections; a kill cleans up outside the lock; names are resolved twice; Shutdown works on a list of names |
| Session log (`session.go`, `sessionfile.go`) | `log`, `logVers`, `ChatOffset`, `prevPrompt`, per-closure `assistantStarted` | `AppendLog`, `EnsureTrailingNewline`, the publish closure, `FormatEvent`; reads of `chat`, `offset`, stat of `chat` | an event is up to three critical sections, several closures write to one log, readers come in pieces |
| Session files (`runfilestore.go`, `sessionfile.go`) | the table of `fileSpec`s, the closures' captured `sess` and `id` | read, write and size of each file, `handleCtl` | the closures keep a session that may be renamed or killed meanwhile; a file without a size is read to find it |
| `cfg` (`handleCfg`, `cfgContent`) | the core's parameters, backend, model, agent, directory | a write of several lines, a read | copy at the start and put back at the end without a lock; the first error ends a write half-way; turns start in between |
| Connection service (`server.go` 362-475) | `pending`, the channel `responses`, the wait group, `connCtx` | the read loop, a goroutine per request, the writer, Tflush, teardown | answers and cleanups overtake each other, tags are reused, the channel is bounded and closed |
| Fid tables (`server.go` 264-277, 637-705, 1106-1145) | `connState.fids`, `Server.conns` | walk, open, clunk, the rename callback `OnRename` | a rename has to reach every fid of every connection while connections come and go; two lock orders |
| Write buffers and prompt queue (`server.go` 339-359, 997-1015, 1111-1132) | `fid.writeBuf`, the core's queue | Twrite into the buffer, the flush at clunk, `storeReadCtx`, reads and stats of `fifo.out` | Twrites of one message run concurrently, the flush after the Rclunk, an abandoned read goes on |
| State waiting (`statewait`, `waitBase`) | baseline value per fid | blocking read until the state differs or 5 s pass | the baseline is read, used and stored in three steps; the fid may be closed and its number taken again between them |
| Directories and stat (`readDir`, `makeStat`, `pathType`) | none | listing in chunks, mode, size and version | a listing is rebuilt for every chunk; a stat is several lookups |
| Flat, tool, util, exec, transcript and tmp directories (`store.go`) | the file system, a buffer per fid | walk, open, create, write, clunk, remove, wstat | what is written is stored at the clunk under the name the fid has, in two system calls, with no lock between fids |
| Skills (`skill.go`) | several directories, searched in order | the same | a request searches, then acts on what it found; a copy in an earlier directory shadows the others |
| `MemoryStore` (`memory.go`) | a map under a lock | get, put, list | nothing in the server uses it |
| Daemon (`main.go`) | socket and pid file, the listeners | start, stop, status, signal | processes agree through two files they check, remove and write one after the other |
| `agent.Core`, backends, 9P clients | external | Submit, Interrupt, Queue, PopQueue, SetSessionID, Close | outside the repository |

**How they interact.** Handler goroutines call the store under its lock. The
store calls back into the server once, `OnRename`, *with its lock held*, and the
server takes each connection's lock there; a walk holds its connection's lock and
calls the store. The core calls back through the publish closure, which appends to
the log under the session's own lock. `main` interrupts and shuts down the store
while handlers go on. A clunked write and a read of a store file each continue in a
goroutine of their own that the request does not wait for (a read gives up on it
at its deadline or at a flush).

**What makes each component correct.**

- *Table*: an object is found under exactly the name it carries; what is found is
  alive; nobody kills twice; a live session is never out of everyone's reach; a
  rename commits to what it checked; Shutdown leaves nothing behind but what was
  renamed under its hands; a killed session's turn ends.
- *Log*: a reader that follows `chat` sees a prefix; a poller misses no change; the
  offset points to the latest segment of an answer; answers are labelled and closed by
  newlines.
- *Connection*: each request is answered once, the channel is never sent to after it
  is closed, a flush cancels only what the client aimed at, a lost connection is
  torn down if its handlers end.
- *Fids*: the slice lists the open connections; between renames a fid leads to the
  session it was walked to, and so does a write that left, until its session is renamed.
- *Directories*: a listing consists of whole entries; undisturbed, it is exact;
  disturbed, it errs on one side only.
- *cfg*: a rejected write leaves the parameters alone; a value is lost only to a write
  that overlapped.
- *Queue*: no prompt is torn or doubled, none is lost but to a stat, a walk or an abandoned
  read, and an open of `fifo.out` yields one prompt.
- *State waiting*: a client that reads one read after the other misses no change and
  is told none twice; whatever went wrong, it ends up with the present state.
- *Files*: what an answer promised, the next reader finds; walks, listings and
  reads agree about which names there are.
- *Daemon*: commands given one after the other find one server that answers; racing
  starts end with one that answers, though servers nobody reaches and a wrong pid in
  the file may remain; a stop ends the server whose pid it read, if that gets through its
  shutdown; in the end no file is left.

## Modules and the code they model

Every module has one action per step between two points where another goroutine can
act. A critical section is one step. `PROJECT.json` maps each definition to the lines
it stands for. Definitions marked *Mutant* in a comment are plausible bugs,
not part of any next-state relation: each property is shown to notice one of them.

### `SessionRegistry` - what `/s` promises

The abstract table: `Bind` a fresh object to a name, `Move` an object to a free name,
`Release` a name for good. A bound object has one name, and one that lost its name
never gets one again.

### `SessionStore` - how the handlers keep it

| Model | Code |
|---|---|
| `sessions`, `id`, `mu` | `SessionStore.sessions`, `Session.id`, `SessionStore.mu` |
| `life` | "live" until `sess.cancel()`, "closed" after `core.Close()` |
| `turn` | what `IsRunning` reports; "stopping" after an interrupt or under a dead context |
| `pc`, `name`, `newName`, `sess` | a goroutine's place in its handler and its local variables |
| `CreateCheck`, `CreateBuild`, `CreateFail`, `CreateInsert` | `createSession` 308-402: the check under `RLock`, the core built without a lock, the insertion under `Lock` |
| `Lookup`, `Finish`, `SubmitTurn`, `StopTurn`, `TurnEnd` | `OpenStore` and the closures it returns, `prompt`, `ctl stop` |
| `KillUnlink`, `KillCancel`, `KillClose` | `KillSession` 267-277, from `del`, `ctl kill` and `Shutdown` |
| `RenameLock`, `RenameCommit`, `RenameAbort` | `renameSession` 404-434: lock, checks, `SetSessionID`, the map and the id |
| `InterruptAll`, `ShutdownList`, `ShutdownNext`, `ShutdownDone` | `main.go` 215-217 and `session.go` 243-266 |

`snap`, `moved` and `displaced` are history variables, read by properties only.
`ImplementsRegistry` is the refinement: `bound` is the map, and an object is fresh
while it is unborn or waits for its insertion, gone when it is neither bound nor fresh.

### `ServeLoop` - one connection

Requests are ordinary ("op"), blocking reads ("wait") or flushes, on tags that the
client reuses as flush(5) permits: once the request, or the flush of it, was answered.
`ReadRequest` registers the cancel and spawns; `HandleOp`, `HandleWait` and
`HandleFlush` compute an answer; `SendResponse` blocks while the channel is full;
`Cleanup` is the deferred function that runs *after* the answer is handed over;
`WriteResponse` is the writer; `ReadError`, `CloseResponses` and `Teardown` end the
connection. A cancelled handler still sends its answer, as in the code. `dropped` is
history: the requests whose entry in `pending` the cleanup of an earlier request with the
tag removed, entered at that cleanup.

### `FidTable` - renames and open fids

`arr` and `len` are the backing array and length of the slice `Server.conns`, since the
range loop of `OnRename` is exposed to both: removal shifts the array in place
(`Without`), an append overwrites a vacated slot or moves to a larger array (`Grown`,
after which the loop goes on over `view`). `WalkStart` takes the connection's lock,
`WalkLookup` may repeat (the code looks up once per path element) and needs the
store's lock, `WalkEnter` enters the fid. `Clunk` copies the path and lets the write
go on by itself (`HandleWrite`). `RenameStart`, `RenameVisit`, `RenameEnd` are
the rename with the store's lock held. `means`, `due`, `missed` and two fields of a write
are history: `unreached` says that at the clunk the fid had a name from before a rename that
has left out its connection or has yet to visit it (`Unreached`), `moved` that its
session was renamed after the clunk.

### `SessionLog` - the conversation

A log is a sequence of pieces, each with the publisher that appended it and its kind:
a user line, the label of an answer, a text, a line of another event (`FormatEvent`
of call, tool, error, retry, stalled), a bare text without newline (reasoning, some
info), or the newline that closes an answer. `Publish` is the closure of
`makePublish`: an event that continues what was there is one append; the first piece
of an answer is label, offset, text in three critical sections (`PublishLabel`,
`MarkOffset`, `PublishEvent`); any other event after an answer is newline, event.
`EnsureTrailingNewline` runs after Submit returned, when the next turn may have begun.
A rename checks `IsRunning` in one place and writes its line in another. The client
reads `chat` from the offset it reached with copies of the log and stats it, the
latter in two steps when the log was empty (`server.go` 1507).

External assumptions, stated where they are used: the core runs one turn at a time
and opens it with a user event; commands publish at any time, lines and bare
texts only.

### `PromptQueue` - `fifo.in` and `fifo.out`

Prompts are written by one client, one after the other, each in up to `MaxParts`
Twrites handled in any order (`Write`); `Clunk` is answered before the goroutine
flushes (`Flush`). Readers walk to `fifo.out`, read with a fetching goroutine
(`ReadStart`, `Fetch`, `ReadReply`), give up (`ReadAbandon`, then `OrphanPop` for a
goroutine that had not popped yet), or stat. A walk pops once and a stat twice,
because `fifo.out` has no size of its own and `RunFileStore.stat` reads the file to
learn it. `wasted` and `dropped` record who lost a prompt. The core takes prompts
with `CoreTake`.

### `StateWait` - waiting for a change

A read of `statewait` passes five points between which others act: `Read` copies the
path, `TakeBase` the fid's baseline, `Wait` takes the present state where there is none
(`sessionfile.go` 184), `WaitChange` or `GiveUp` ends the wait, `Store` leaves the
result as the baseline of *whatever fid has the number now*, and `Answer` is what the
client hears. `GiveUp` is the timer of five seconds, a flush or the end of the
session, which the code treats alike: the present state is returned. `Open`, `Clunk` and
`Flush` are the client's, `Change` and `Kill` the session's.

`seen` is what the client was told last. `NoChangeMissed` is about a read that no
other read of the fid overlapped (`sole`), that was not flushed, on a fid whose
baseline no flushed, overlapping or earlier read may have moved (`unsure`): exactly
the ways in which the baseline and what the client knows part.

### `FileTree` - directories kept in files

One model for all directories that are kept in files; `dir` says which one a behaviour is
about, and `Creates`, `Renames`, `Removes` and `Writes` which requests the server
carries out there (`create`, `wstat`, `remove` and `clunk` in `server.go`). A file
is an inode, since a name may be removed, replaced or renamed while a request has the
file open: `os.WriteFile` is `Truncate` and `WriteOut`, and the second writes into the
file the first opened, whatever its name by then. A fid buffers (`Write`, `Put`), opened for
that or not, and one that was opened for writing stores
the buffer at the clunk, even when nothing was written. In `/sk` the request first
searches the directories (`Find`), then acts; the directory of a skill may vanish between its
making and the opening of the file in it (`Vanished`). `ListSkills` is the loop of `List` with its
`seen` set, written as the recursive function `Seen`; a walk, a read and a listing are
taken in one step, as nothing they do has an effect.

`ledger` is what the answers received so far promise about a name: a text, that it is
absent, or nothing. A request withdraws what is promised about the names it
touches when it begins, and enters its own promise when it ends, unless another request
for one of these names, or for the file that has one of them, overlapped it (`alone`).
Everything outside such overlaps is thus held to the last answer.
Three answers promise nothing, as the code is: in `/sk`, a create makes an empty
file that is no skill until text with a valid front matter is stored; in `/sk`, a removal or rename
may uncover a copy in a later directory; a rename in `/tmp` is answered and not done.

### `Daemon` - start and stop

A server is a process with a number; `pc` follows `runServer` call by call: the test
of the socket (`Start`), its removal (`ClearSocket`), the pid file opened and truncated
(`OpenPid`), then written (`WritePid`), the listeners, and the moment from which
signals are caught (`Notify`). A pid written over that of another server may leave digits of
both (`Mixed`). `WindDown`, `Close`, `RemoveSocket` and `RemovePid` are the end
after a signal: `InterruptAll`, `Shutdown`, `fusermount` and the wait for `9pfuse` are
`WindDown`, which nothing makes end; closing a Unix listener unlinks its path, *whatever is there by
then*, and so does the `os.Remove` after it. `opened` tells whether a server that opened the
pid file still has the file that is at the path. The stop command reads, kills and
removes both files (`ReadPid`, `Kill`, `SweepSocket`, `SweepPid`), and returns before the
server has ended. `Signalled` is what SIGTERM does: it ends a server that does not
catch it yet, is taken by one that serves, and stays unread in one that is ending.
`calm` and `overlapped` are history.

### `DirListing` - reading a directory

The server keeps nothing between two reads of an open directory: `readDir` lists it
anew, serializes all entries and serves from the client's offset. A serialized
directory is a sequence of cells, `Size` of them per entry, so that offsets inside an
entry exist; `Serialized` is lines 1396-1404, `Fitting` the loop that takes whole
entries up to the count (`server.go` 1410-1425). Where the offset lies inside an entry
the two bytes taken for a length are part of something else, and any prefix may be
the reply. `Orders` is what a listing may be: the fixed entries (`sessionStoreOrder`,
`idx`), then the others sorted by name (`os.ReadDir`; `Ascending`) or, for `/s`, in any
order, as that of a Go map. Names `Come` and `Go` between the reads.

### `SessionConfig` - writes to `cfg`

`Begin` takes the copy of the parameters, one action per kind of line follows
(`ParamLine`, `UnparsedLine`, `SwitchLine` and `SubmitSwitch`, `CwdLine`, `Fail`), and
`EndParams`, `SetParams` or `EndPlain` end the write. `Check` is `IsRunning`: it and what
it permits are two steps, and turns start and end between them. `named`, `since`,
`last`, `accepted` and `overtaken` are history. A `CwdLine` asks nothing: it changes the
directory during a turn, too.

`SessionConfig` and `DirListing` call some things otherwise than the other modules do
(`ConfigInit`, `ListSpec`, `stage`, `Members`), so that one module of proofs can extend two
components.

## Runs

Each run is a `.cfg` of the module's `MC` module. Deadlock checking is off in all
of them: a client may stop sending, sessions and requests are used up, and main's
shutdown comes to an end; a stuck handler is looked for with liveness properties.

| Run | Instance | States | What it shows |
|---|---|---|---|
| `sessions` | 2 names, 3 sessions, 2 handlers and main | 898 911 | the safety of the table and that it implements `SessionRegistry` |
| `sessions_live` | 2 names, 2 sessions, 1 handler and main | 21 226 | an unlinked session gets closed, and Shutdown returns unless a rename never does |
| `serve` | 3 requests, 2 tags, channel of 1 | 266 824 | answers, flushes, closing and teardown, safety and liveness |
| `fids` | 3 connections, 1 fid each, 3 names, 2 sessions, 1 write | 599 958 | the slice, fids and clunked writes under renames |
| `log` | 2 turns, 1 command, 1 rename, 5 events, reads and stats, chunk of 2 | 3 761 992 | what a client of `chat` and `offset` may rely on |
| `queue` | 3 prompts of up to 3 parts, 2 readers, 1 stat, 2 abandoned reads | 2 462 230 | prompts stay whole and in one place |
| `wait` | 1 fid number opened twice, 2 sessions, 2 reads, 2 states, 2 changes, 1 flush | 762 688 | no change is missed, and a client that keeps reading keeps up |
| `files` | 5 kinds of directory, 2 fids, 1 or 2 names, 2 skill directories, texts of up to 2 chunks | 1 711 787 | answers are true, lookups agree |
| `listing` | 4 names, 3 changes, replies of 5 cells, entries of 1 or 2 | 331 832 | what a listing in pieces guarantees while names come and go |
| `config` | 3 writes, 2 parameters, 1 value, 1 turn | 505 500 | what overlapping and rejected writes leave behind |
| `daemon` | 3 servers, 2 stop commands one after the other, 1 crash, with and without tcp | 595 239 | who serves and what is left when commands overlap |
| `rename_deadlock` | the smallest that shows it | | a rename and a walk that wait for each other, see below |

The properties, with what it would take to break them:

- `TableAgrees` (`MapMatchesId` and `RegisteredIsLive`), `KillsAreClean` (`SoleKiller`
  and `LiveIsHeld`): a rename between a lookup and a kill, a kill by a stale handle, an
  insertion while a rename holds the lock. `LiveIsHeld` says precisely how a live
  session can become unreachable: only by an insertion over it (`displaced`).
- `ShutdownMissesOnlyMoved`: of the sessions Shutdown listed, only one that a handler
  renamed since can survive it. A session *created* after the listing is not
  promised anything, and one that is renamed between the listing and its kill does
  survive: main ends the process right after, so its core is not closed.
- `DeadTurnsStop`: no turn runs on in a killed session, not even one submitted through
  a handle looked up before the kill.
- `ShutdownTerminates`: if every rename under the table's lock ends (`RenamesReturn`), main
  gets through its list. The condition is not a formality: `OnRename` is called with the lock
  held, and `rename_deadlock` shows a rename that never returns; Shutdown then waits for
  the lock for ever.
- `ChannelOK` (types, `NoSendAfterClose`), `PendingMatches` (`PendingIsLive`, `CancelIsFound`),
  `OneAnswer`, `CancelledOnRequest`, `ReadIsAnswered`, `LostIsTornDown`: see the comments in
  `ServeLoop`. `PendingMatches` says when a flush finds the cancel it looks for; its one
  exemption is a request whose entry a late cleanup has dropped (`dropped`). An entry of a
  reused tag that is lost in any other way is found. The last holds
  although `connCtx` is cancelled only after all handlers ended, *because* a blocking
  read has a deadline of its own. The last two are claims about handlers that end: a walk or a
  rename in the deadlock of `rename_deadlock` is outside them, its request is not answered,
  and its connection is never torn down.
- `ConnsOK` (types and `ConnsListed`), `FidsFollow`, `WriteArrives`: outside a rename. `FidsFollow` exempts a
  connection a rename left out (`missed`), and `WriteArrives` a write whose session
  was renamed after the clunk (`moved`) and one whose fid a rename had not reached when it was
  clunked (`unreached`: the connection left out, or still to come in a rename under way). Each
  is entered when it happens, by the step that does it, so anything
  else that goes astray is found.
- `GotIsPrefix`, `StatTellsChange`, `AnswerAfterOffset`, `AnswersAreWhole` (labelled at
  the start, closed by a newline), `PromptsIntact`, `PromptsInOnePlace`, `OpenGetsOne`: see
  the comments in `SessionLog` and `PromptQueue`. `AnswerAfterOffset` is not what README 58
  says of `offset`, and `PromptsInOnePlace` counts a prompt that a stat, a walk or an
  abandoned read popped as accounted for, though nobody gets it; see
  [below](#where-the-code-and-its-documents-part).
- `NoChangeMissed`: a baseline that is not the answer of the read before. `KeepsUp` says
  that the exempted fids recover: a read that waits on a wrong baseline gives up after five
  seconds and returns the state, and that becomes the baseline.
- `LedgerHolds`: a buffer stored under a name the fid no longer has, a write into a
  file that was replaced, a truncation that is not followed by its text. `LookupsAgree`
  compares the search order of `/sk` as the listing builds it (root by root, with the set of
  names seen) with its definition: the first directory that has the name. Its one exception
  is a file `idx` in `/t`, hidden by the generated one and listed beside it.
- `AloneIsReachable`: whatever a crash left, a server that starts alone is the one
  `status` reaches and `stop` ends, if the commands do not overlap. The claim ends where `stop`
  returns early: `stop; start` may start the new server before the old one removes both
  files, and the new one then serves where nobody looks.
- `StartsConverge`: racing starts remove each other's sockets and fail on them, and yet
  one answers in the end; with tcp the wrong one may, the one whose second
  listener fails. It does not say that there is one server: the losers that did listen live on
  unreached, and the pid file may name one of them, nobody, or a mixture.
  `QuietLeavesNothing`: whoever removes a file under somebody else's
  hands never leaves one that nobody will remove. `StopStops`: a stop that read the pid of a
  server ends it at whatever stage, before signals are caught or after, overlapped or not,
  unless the server stays in `WindDown`. It says nothing of a stop that read an empty or mixed
  pid file, which ends nobody.
- `RepliesFit` (types and `WholeEntries`), `QuietListingExact`, `ShiftsOneWay`: what is left of a listing when
  entries move under the reader. With creations only, a listing by name repeats and
  never misses; with removals only, it misses and never repeats. For `/s` in more
  than one read neither holds, not even undisturbed: hence `FitsOneRead`. It is not enough
  that one read returned something: the next lists in another order, may begin inside an
  entry, return nothing and so end the listing. Once the offset is inside an entry
  nothing is promised: hence `torn`.
- `ParamsFromAccepted`, `LostOnlyToOverlap`: the parameters
  of `cfg`, whatever overlaps. The exemption `overtaken` is exact: what another
  write set between the copy and the putting back. `accepted` only grows, so that
  a rejected write of a value that was once accepted is noticed by the second, not by the first.
  Nothing is claimed about turns: `IsRunning` is asked before, and a turn may start in
  between.

**Why the bounds are enough.** Two names let a rename meet a creation, a kill or
another rename of either name, and three sessions let one be displaced or killed
while its name already belongs to the next. Two handlers and main are three parties,
enough for a check, an interfering step and a use. Two tags and three requests let
one tag be used by two requests with a flush on the other in between; a channel
of capacity one makes senders block. Three connections are the fewest for
which a removal shifts an entry below the loop's index while the slice keeps another
one, and the backing array goes through the sizes 1, 2 and 4. Two turns let the second begin
before the first one's trailing newline, and a budget of five covers label,
interruption, text, the next label and a read between them. Three parts are the
fewest whose arrival order can leave a hole in the middle of the buffer. Four names in
replies of five cells make a listing take one to four reads, with offsets that fall on
and inside entries, and a listing of `/s` fit one read or not; three changes are a removal
and a return, and one more. Three
`cfg` writes on two parameters let one put back what the second set while the third
still holds the older copy; one value beside the default is enough for a difference. A fid
number opened twice with two reads and two sessions lets a read of the first meaning store
into the second; two changes are away and back. Two fids meet on one name or on two,
two skill directories shadow one another, and a text of two chunks shows a shorter one
written over it. Three servers are two that race and one that starts after, or
one that crashed before; the second stop command finds what the first left. With two
stop commands at a time `Daemon` has 4 778 463 states, and its invariants hold, as they are
proved to for any number; its liveness property takes too long there, so the run has one.

Symmetry is used in safety runs only (`sessions`, `fids`, `queue`, `files`, `config`).
The one temporal property checked with it is `ImplementsRegistry`, which is of the
form `Init /\ [][Next]_v` and treats names and objects alike.

## Fairness

- `SessionStore!FairSpec`: a handler that has passed its lookup goes on (weak fairness
  on the clean-up of a kill). Nothing is assumed of the end of a rename, which calls
  `OnRename` and may wait there for ever (`rename_deadlock`); `ShutdownTerminates` has the end
  of renames as its hypothesis (`RenamesReturn`). `UnlinkedGetsClosed` needs no lock. Where it waits for `s.mu`,
  which others take and release, strong fairness: Go's `RWMutex` lets waiting readers
  in after a writer and a waiting writer in after the readers present. A core whose turn was
  interrupted, or whose context is dead, ends the turn; a turn left alone need not
  end. No client is obliged to do anything.
- `ServeLoop!FairSpec`: the loop and the writer run; every request's goroutine gets on,
  strongly fair, since a channel queues its blocked senders in order, and a blocking
  read ends by its deadline of five seconds. The client need not send or hang up. That every
  handler computes its answer in the end is an assumption, and false of a walk and a
  rename that wait for each other: `ReadIsAnswered` and `LostIsTornDown` hold outside
  that deadlock.
- `StateWait!FairSpec`: handlers run on, the timer of five seconds included, and the client
  keeps reading what it has open; nothing obliges the session to change.
- `Daemon!FairSpec`: a process that was started, a server or a stop command, runs on, except
  that `WindDown` has no fairness: Shutdown may wait for a rename that never returns, and
  `fusermount` and `9pfuse` for a mount that is busy. Nobody has to start or stop anything.
- `FidTable!FairSpec`: steps of a rename and of walks under strong fairness. It is used
  for the deadlock only, where even that does not help.

## Proofs

`SessionStoreProofs` proves about `SessionStore`, for any sets of names, sessions and
handlers, finite or not, from the one assumption `ConstantsDistinct` (the "no session",
"no id" and "free" values and main's goroutine are not members of the sets they stand
beside):

| Theorem | States |
|---|---|
| `TypeCorrect` | `Spec => []TypeOK` |
| `TableConsistent` | `Spec => []TableAgrees` |
| `KillOnce` | `Spec => []KillsAreClean` |
| `RenameAtomic` | `Spec => []RenameIsAtomic` |
| `ShutdownComplete` | `Spec => []ShutdownMissesOnlyMoved` |
| `NoDeadTurn` | `Spec => []DeadTurnsStop` |
| `Implements` | `Spec => ImplementsRegistry` |

They follow from `Invariance`, `Spec => []IInv`. None of the invariants is inductive
alone; `IInv` adds what the code relies on without saying it:

- `LocalsOK`: which labels handlers and main can be at, and that a local variable is
  set where it is used.
- `LockOK`: the lock is held across steps exactly by the goroutine that renames.
- `CreatorOK`: an object waiting for its insertion is live, bears the name it will be
  inserted under, is not in the table and is known to nobody else. Without it the
  insertion could break `MapMatchesId`.
- `KillerOK`: an object being killed is out of the table and as far gone as its
  killer's label says. With it, a second kill cannot find the same object: the core
  of `SoleKiller`.
- `HandleOK`: a looked-up session was born, and stays so: with it the stale
  handles of `SubmitTurn` cannot reach an object a creator is about to bring to life.
- `HistoryOK`: the histories start with Shutdown's listing.

There is one lemma per group of actions for the inductive step. For the refinement,
`InitView` maps the initial state; `CreateView`, `KillView` and `RenameView` show that
the insertion is `Bind`, the unlinking `Release` and the commit `Move`, and
`QuietView` that everything else stutters, by way of `SameView` and `PhaseStutter`
(a step that changes neither the table nor who is fresh changes nothing the registry
sees).

`SessionFilesProofs` proves about `SessionConfig`, for any writers, parameters and
values, finite or not, and any bound on the turns, from `NotSetIsNoValue` and
`MaxTurnsNat`:

| Theorem | States |
|---|---|
| `ConfigTypeCorrect` | `ConfigSpec => []ConfigTypeOK` |
| `RejectedLeavesNoTrace` | `ConfigSpec => []ParamsFromAccepted` |
| `PartialWrites` | `ConfigSpec => []LostOnlyToOverlap` |

Its `ConfigIInv` adds what is true of the copies on their way: what a write will put back
under a name it did not set was accepted once (`CopyAccepted`), and is what the last
accepted write wanted unless another write came in between (`CopyCurrent`). `ReturnIInv`
serves every way a write can end without setting anything.

`DaemonProofs` proves about `Daemon`, for any number of servers, stop commands and
crashes, from `NoneApart` and `BoundsNat`:

| Theorem | States |
|---|---|
| `TypeCorrect` | `Spec => []TypeOK` |
| `NothingLeftBehind` | `Spec => []QuietLeavesNothing` |
| `RacingStarts` | `Spec => []StartsConverge` |
| `OneServer` | `Spec => []AloneIsReachable` |

Its `IInv` says who is responsible. `SockOwned` and `PidOwned`: where a file is, a server
that will remove it is on its way, or a stop command is that has sent its signal. The
hard case is a server that exits because it cannot listen: what kept it from listening
is a socket or a port, which by `SockOwned` or `PortHeld` has somebody responsible who is not
the one that exits. `CalmSock`: while there are starts only, the socket is a live server's, or
a server is about to make one; a stale socket is there only as long as nobody came past
its removal. `InTurn` follows a lone server through its files and says that a stop command
under way aims at it.

`ServeLoopProofs` proves about `ServeLoop`, for any requests, finite or not, any tags and any
capacity of the channel, from `NoReqIsNone` and `CapPositive`:

| Theorem | States |
|---|---|
| `ChannelSafe` | `Spec => []ChannelOK` |
| `CancelsAreFound` | `Spec => []PendingMatches` |
| `AnswersOnce` | `Spec => []OneAnswer` |
| `CancelsAreMeant` | `Spec => []CancelledOnRequest` |

The channel is the short part: it is open exactly while the loop serves (`OpenWhileServing`), and
the loop leaves only when no request is in flight. The map of cancels is the long one,
since a tag is used again while its former owner's cleanup is still to come and
while a flush may still look for it. `Awaited` says which request of a tag matters: one whose client
waits for it or for a flush of it. The client's discipline makes it unique
(`TagsUnique`), a request on the wire is the only one of its tag that matters (`WireAlone`), a
flush is read after what it flushes (`FlushBehind`), and so the entry of a tag is the
awaited request's or nobody's (`Claimed`). From `Claimed` follows that a flush, however late it
looks, cancels what it aims at or nothing.

`FidTableProofs` proves about `FidTable`, for any connections, fids, names and sessions and any
bound on the writes, from `NonesAreNone`:

| Theorem | States |
|---|---|
| `ConnsConsistent` | `Spec => []ConnsOK` |
| `RangeMeetsConns` | the range loop of a rename meets connections only |
| `FidsAreMoved` | `Spec => []FidsFollow` |
| `WritesArrive` | `Spec => []WriteArrives` |

`Listed` is what `Server.conns` promises of the slots one by one, `InReach` what the unlocked
loop relies on: no slot it can still reach, of the array it began with, holds a nil, although
the array is shifted and replaced meanwhile (`RangeMeetsConns`, which no run checks, because a
nil there would stop TLC with an error). `Followed` is `FidsFollow` inside `OnRename`, where a
fid, or a walk that holds its connection's lock, may bear the old name as long as its
connection is `due`. `GrownKeeps` and `WithoutMoves` say what `append` and the removal do to the
array, `NotedMove` what a rename notes of a write. For `WriteArrives`, `Followed` says that a fid
that is astray at its clunk is `Unreached`; nothing in the history of a write is set from
where the write happens to lead.

`SessionLogProofs` proves about `SessionLog`, for any turns, commands, budget of appends and slice
of the reads, from `BoundsNat`:

| Theorem | States |
|---|---|
| `ReadsAreBeginnings` | `Spec => []GotIsPrefix` |
| `VersionTellsLength` | `Spec => []StatTellsChange` |
| `OffsetFindsAnswer` | `Spec => []AnswerAfterOffset` |
| `AnswersWhole` | `Spec => []AnswersAreWhole` |

`Counted` (the version is the number of appends) and `Copied` (copies and what was read are
beginnings of the log) give the first two. The others need what
`assistantStarted` stands for: while it is set, the last piece of its publisher is of an answer that
has its label (`Answering`), and while it is not, the last piece is no answer's (`AtRest`);
`Marking` keeps the label of an answer the last one until its offset is set, though
commands and turns that have returned append in between: it holds because the core runs one turn
at a time (`InTurn`), and because what those append are neither labels nor texts (`OfTurns`).
`AppendOwn` and `AppendOthers` say what one more piece does to each.

`PromptQueueProofs` proves about `PromptQueue`, for any prompts, pieces, readers, stats, abandoned
reads and count, from `BoundsNat` and `ReadsAsk`:

| Theorem | States |
|---|---|
| `PromptsStayWhole` | `Spec => []PromptsIntact` |
| `PromptsGoOnce` | `Spec => []PromptsInOnePlace` |
| `OneForAnOpen` | `Spec => []OpenGetsOne` |

`Buffered` describes the buffer of a fid while the Twrites come in any order: it ends
with the last piece that was written and has a hole where one is missing; with
the client's clunk the hole is gone, and the buffer is the prompt (`FlushedIs`). `AllWhole` says of
the queue, the goroutines and the readers that what they have is such a prompt. `Once` says that
a prompt that was flushed is in the queue once or outside at one place, and one that was not is
nowhere; `PopOnce` and `MoveOnce` serve all the ways in which one leaves the
queue or changes hands.

`SessionFilesProofs` also proves about `StateWait`, for any fids, sessions, states and reads, from
`NonesApart`:

| Theorem | States |
|---|---|
| `TypeCorrect` | `Spec => []TypeOK` |
| `NothingMissed` | `Spec => []NoChangeMissed` |

Its `IInv` follows the baseline: on a fid that is not `unsure` it is what the client was told, or
what the one read under way is about to tell (`Synced`); a read that was not overlapped is the
only one of an open fid (`SoleAlone`), a fid with any other read is `unsure` (`Shaken`), and
a closed one has forgotten everything (`Closed`). `Basis` is `NoChangeMissed` from the moment at
which the read takes the baseline.

`DirectoryProofs` proves about `FileTree`, for any finite sets of fids and names, any number
of skill directories, any texts and any bound on the walks, from the assumptions of the
module (texts are not the markers, and there is an inode for each file that may be open):

| Theorem | States |
|---|---|
| `TypeCorrect` | `Spec => []TypeOK` |
| `LookupsAgreeAlways` | `Spec => []LookupsAgree` |
| `LedgerIsTrue` | `Spec => []LedgerHolds` |

`LookupsAgree` is true of every typed state, and shown so (`Lookups`): `SeenIs` says that
the first copies are what the search has seen (`Firsts`). `LedgerHolds` is not inductive.
`IInv` says of the disk that no file has two names (`Placed`), so that a write through an open
file meets the name the request has or one it is then said to touch; of the ledger that it is
true of every name (`Honest`) and silent about what a request under way touches (`Silent`);
and of requests that of two that touch the same name neither is `alone` (`Apart`). A
request that is alone may rely on what it learned: the file it opened is still under its
name, and empty until it writes (`Stored`); the copy it found is still the first
(`Foremost`); its old name still has what the ledger had when it began (`Moves`). `GoingTrusts`
and `UntouchedTold` carry all this over a step of another request, since the step happens on
names the first does not touch (`Same`); `EndIInv` serves the four ways in which a
request ends, and `QuietIInv` the steps that leave the disk alone.

`DirectoryProofs` proves about `DirListing`, for any names, sizes of entries, count and bound
on the changes, from the assumptions of the module (lists without repetition, and entries that
fit a reply):

| Theorem | States |
|---|---|
| `RepliesAlwaysFit` | `ListSpec => []RepliesFit` |
| `QuietListingsExact` | `ListSpec => []QuietListingExact` |
| `ShiftsAreOneWay` | `ListSpec => []ShiftsOneWay` |

`SerializedLaid` and `DataLies` say what the concatenation of the entries is: every entry is
at an offset of its own, whole, and in front of an entry are those of the names listed before it.
`Lengths` turns offsets into numbers of cells: that of a name is the number of cells in front
of it (`Before`), the same in whichever way they came to be there, and the length of a
listing does not depend on its order. With that `MovesBack` is a fact about cardinalities: more
names, higher offsets. `ReadIs` says what a read does, cell by cell. `LInv` then follows the
client: while names only come, a lasting name it has not seen is not behind its offset
(`KeptAhead`); while they only go, one it has seen is, and was seen once
(`ShownBehind`); a listing that ends on an entry's end has reached the end (`EndsComplete`); and
undisturbed, what it has is the beginning of one order's data, all or nothing of it in `/s`
(`FollowsOrder`; a listing by name has one order only, `OneOrder`).

Both need induction over numbers. The library's induction theorems take a predicate, which
the provers cannot instantiate; but that a set of numbers that is not empty has a least
element (`LeastElement`) is a first-order consequence of `NatLessThanWellFounded` and
`WFMin`, and a least counterexample serves as well. So what the recursive functions of
these modules compute, `Seen` and the fold in `FlattenSeq`, is proved, for every input.

Each of these inductive invariants was checked by TLC on a small instance before it
was proved, and each has one lemma per action, or per group of actions that touch
the same state. Where a theorem states a property of a run, the run shows it on a
small instance and the theorem for every value of the constants.

Only model-checked:

- Liveness (`SessionStore`, `ServeLoop`, `StateWait`, `Daemon`) and the deadlock of
  `rename_deadlock`: fairness and `ENABLED` are beyond the prover. Every other property of a
  run is the property of a theorem.

## Where the code and its documents part

| Shown by | Document | Code |
|---|---|---|
| run `rename_deadlock` | "All open file handles into the session are updated automatically" (README 190) | a walk holds its connection's lock and wants the store's, a rename the reverse |
| `displaced` in `LiveIsHeld` | "session already exists" (`session.go` 345, and a test of it) | the check and the insertion are two critical sections; a second creation, or a rename, in between takes the name, and the insertion replaces a live session whose core is never closed |
| `missed` in `FidsFollow` | as for `rename_deadlock` | `OnRename` ranges over `s.conns` without `s.mu`; a connection that leaves meanwhile shifts another below the loop's index |
| `wasted` in `PromptsInOnePlace` | "pop the next queued prompt" on read (README 56) | the walk to `fifo.out` and every stat of it pop as well, and the prompt is lost; so is one that an abandoned read pops (`dropped`), and what of a prompt lies behind the count of the read |
| `AnswerAfterOffset` | `offset` is the "byte offset in chat immediately after the last user prompt" (README 58) | it is the offset behind the label of the latest segment of an answer: `assistant: ` lies between it and the prompt, it moves on with the first text after every tool call, and it is still that of an earlier turn until the first text of this one, for good if the turn fails before |
| `TurnStart` enabled at `submit` and `set` in `SessionConfig` | "Writes to `backend`, `model`, and `agent` are rejected when the agent is not idle" (README 181) | `IsRunning` is asked before (`sessionfile.go` 291, 334); a turn that starts in between does not stop the change, and a `cwd` line (295-301) asks nothing |
| `Wait` in `StateWait` | "value snapshotted at open time" (`server.go` 200) | the baseline is the state at the first read; a change between open and first read is not told |
| `tmp` not in `Renames` of `FileTree` | the Rwstat that reports success | a rename in `/tmp` is answered and nothing is renamed |

Only the first is a run that ends in a violation. The others are exemptions that passing
properties record, so that anything beyond them would be found, or behaviours of a model
that no property is about: passing runs say nothing against these rows. In particular
`AnswerAfterOffset` passes because it states what the code does, not what README 58
says.

Where a document is silent or general, the code's limits appear as exemptions of
passing properties: a late cleanup drops the cancel of a reused tag (`PendingMatches`),
a clunked write misses a session that is renamed before it runs (`WriteArrives`), a `stop`
followed at once by a `start` leaves the new server unseen (`AloneIsReachable`), racing starts
may leave servers nobody reaches (`StartsConverge`), a removal by name kills whatever session has
the name when `KillSession` looks again (no property tells), overlapping `cfg` writes lose updates (`LostOnlyToOverlap`), a listing of `/s` in several
reads may miss, repeat or tear entries (`QuietListingExact`, `WholeEntries`), and files
are held to the last answer only between requests that do not overlap (`LedgerHolds`).

## What is left out

- Text. Prompts, log entries and options are kinds or model values; the parsing of
  creation options is one step that fails or does not. Formatting is modelled by what
  it does to newlines, where a property depends on it.
- The data race in `OnRename`, which reads the slice header once without `s.mu`: the
  header is read in one step. A torn header is possible in principle (Go gives no
  guarantee); the array's contents, which the loop reads element by element, do change
  under it in the model.
- The end of the process: goroutines still running when `runServer` returns are cut
  off there.
- `SetSessionID` and the other calls into the core: they succeed or fail; whether a
  turn that starts between `IsRunning` and `SetSessionID` is refused is the core's affair.
- Fids that are cloned, created or removed under `/s`: `FidTable` has fids that are
  walked to and clunked. A clone is the walk with no name, made from the fid's path under
  the same lock, a removal the clunk with a kill.
- `plan`, `save` and the read-only files of a session: one read or write of the core or of a
  file each. `ctl` commands other than `stop`, `kill`, `rn` and those that submit a line.
- Directories below a directory of `/t`, the generated `idx` and `help` files, and the
  trimming of white space at a clunk: `FileTree` has flat directories and trimmed texts.
  What makes a front matter valid is external, and so is a skill that is named by its directory
  with another name in its front matter.
- In `FileTree`, more than one Twrite per fid: `PromptQueue` has writes in pieces.
- In `FileTree`, what lies between the making of a skill's directory and that of its file: a
  Tcreate takes both in one step, and a write that finds no file may fail there whether
  or not somebody removed the directory (`Vanished`), which promises nothing either way.
- The daemon's `mount` command and its FUSE mount, which are programs of others; a tcp
  address that a stranger holds; a pid that the system gave to another process. `start`
  asks twice whether a server runs, once in each process; the model asks once, at the
  second, since nothing happens in between.
- `FormatParams` and `ParseParams`, the text form of the parameters, which only the
  tests call; the read of `cfg`, which is one snapshot.
- A read whose count is too small for one entry: `CountFits` assumes it fits, as it does
  for the counts clients negotiate.
- A read of `fifo.out` that asks for no byte: it would pop a prompt and answer none of it.
  `ReadsAsk` assumes that readers ask for something.
- `MemoryStore`: unused by the server. Modes, qids, owners and the layout of generated
  files are presentation.

## Plan

The modules were written in the order of what matters most: the session table, then
the connection that carries everything, then the two places where they meet (fids
under renames, the log), then the queue, directories and `cfg`, then state waiting, the
directories of files and the daemon. What is left:

1. `FidTable` with clones and removals, and composed with `SessionStore` so that a kill
   races the rename's callback.
2. `PromptQueue` composed with `SessionLog`, so that the order of the queue is that of the
   conversation.
