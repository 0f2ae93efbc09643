# Verification of Holophyly

Holophyly is a Go server that finds the docker compose projects of a host, shows
their state, starts, stops and restarts them, protects some of them, and streams
their statistics and logs to browsers. This directory holds TLA+ modules of its
concurrent core, the TLC configurations that check them, and TLAPS proofs about
them. Paths like `manager.go` are under `src/internal/<package>/`.

| file | what it is |
|---|---|
| `Hub.tla`, `Feed.tla`, `MCHub.tla` | the WebSocket fan-out, what it promises, its model checking |
| `HubProofs.tla` | its safety invariants, and that it implements `Feed`, proved for any instance |
| `Manager.tla`, `MCManager.tla` | the project manager with the scanner's cache, the store, compose and the daemon |
| `Catalogue.tla` | what the manager's map is to those who use it, without pointers or goroutines |
| `ManagerProofs.tla` | types, absence of sharing, protection, that the list follows the files, and that `Manager` implements `Catalogue`, proved |
| `Stats.tla`, `MCStats.tla` | CPU percentages from the daemon's counters, and who samples them |
| `StatsProofs.tla` | types, and that a percentage from readings in order is exact |
| `LogStream.tla`, `MCLogStream.tla` | the goroutines and channels of `StreamLogs` |
| `LogStreamProofs.tla` | types, and that what arrives is in order and, for stderr and terminals, complete |
| `Config.tla`, `ConfigProofs.tla` | the value of a configuration key from environment, file and defaults |
| `Scanner.tla`, `MCScanner.tla` | concurrent scans: the walk, the parse, the swapping of `os.Stderr` |
| `ScannerProofs.tla` | what a scan finds, and which files stay open or closed, proved |
| `Storage.tla`, `StorageProofs.tla` | the sums over the daemon's disk and the calls of a prune |
| `Server.tla`, `MCServer.tla` | the life of the process and of the requests in its handlers |
| `ServerProofs.tla` | what exit code 0 means, what a prune removes and reports, and what the storage panel promises of it, proved |
| `MC*_<run>.cfg` | one TLC configuration per run |
| `PROJECT.json` | components, runs, mutants, map to the source, findings, hazards, theorems |

To check a run: `tlc -config MCHub_safety.cfg MCHub`. To check proofs:
`tlapm HubProofs.tla`, and so on.

# 1. Inventory

## Components, state, operations

**WebSocket hub** (`websocket/hub.go`, `client.go`, `protocol.go`). State: the map
of clients, a buffered broadcast channel, the rendezvous channels register and
unregister; for every client a buffered send channel and a set of
subscriptions. One goroutine (`Run`) owns the map; `StartStatsStreamer` produces a
snapshot on every tick while there are clients; each connection has a handler
goroutine that registers it, a `ReadPump` and a `WritePump`. `Broadcast` drops a
message when its channel is full; `Run` cuts off a client whose queue is full.
*Correct when* no channel is closed twice or sent to after it was closed, a client
gets the messages that follow its registration without a gap until it is cut
off, and a connection that is gone is forgotten and its goroutines end.

**Project manager** (`project/manager.go`). State: `m.projects`, the map from
project IDs to `*model.Project`, under a lock. `Refresh` (at start, on a ticker,
*and for every* `GET /api/projects`) scans, lists containers and reads preferences
without the lock, then replaces the map under it. `StartProject`, `StopProject` and
`RestartProject` look a project up under the read lock, check its protection and
run docker compose without a lock, then `refreshProject`. The three setters are
one critical section each. *Correct when* protection is only taken away by a
user, a protected project is not stopped, the list follows the files on disk and
in the end agrees with disk, daemon and store.

**Protection configuration** (`project/protected.go`): paths that are protected by
configuration. **Patterns** (`scanner/patterns.go`): which container names and images
stand for infrastructure, and the environment and display name of a project; pure.

**Scanner** (`scanner/finder.go`). State: a cache from file path to checksum and
`*model.Project`, under a lock; process-wide, `os.Stderr`, which every parse swaps for
`/dev/null` twice, once for each of two calls of the compose library, and puts
back. `Scan` walks the configured paths, skipping excluded and most hidden
directories, and then parses the YAML files it has listed, unless a cached project
still has the file's checksum. *Correct when* it finds what is there all the time,
returns only what was a compose file meanwhile, and leaves the process's files as
it found them.

**Preference store** (`store/store.go`): one SQLite table; upserts of one column.

**Compose commands** (`docker/compose.go`): up, down, restart as child processes, and
the resolution of a project's name with a fallback on failure. **Containers**
(`docker/containers.go`): listing and grouping by label.

**Statistics** (`docker/stats.go`). State: `prevStats`, the last reading of every
container, under a lock. `GetStats` asks the daemon, then swaps the reading and
computes a percentage from the two. Callers: the streamer (through
`createStatsGetter` in `cmd/server/main.go`), on those of its ticks on which the hub has
a client, and `GET /api/projects/{id}/stats`.
*Correct when* a percentage is the share of the CPU time between two moments.

**Logs** (`docker/logs.go`). `StreamLogs` starts one goroutine, which for a container
without a terminal starts three more connected by pipes and channels. An error of
opening the log goes to `errCh`; one of reading it is dropped (lines 167 and 184).
*Correct when* what is read of each stream arrives in order and in full, the channels
are closed, and no goroutine stays behind.

**Disk usage, pruning and ports** (`docker/system.go`). No state of its own.
`GetStorageInfo` sums sizes of one answer of the daemon in `uint64`, where the size of
a volume may be -1, unknown; `Prune` makes up to five calls, stops at the first error
and adds up what was reclaimed. The size of an image includes layers that it shares with
others. *Correct when* the numbers are those the daemon's sizes stand for, a
prune touches only what it was asked for, and it reports what it removed.

**Configuration** (`config/config.go`). `Load` merges defaults, at most one file and the
environment, once. *Correct when* the stated priority holds for every key.

**HTTP API** (`api/`). Handlers decode a request, run the operations above one after
another and answer with the first error, or with 200. The middleware wraps the
writer they answer to. State: none but the requests in progress.

**Server lifecycle** (`cmd/server/main.go`). `run` loads the configuration, asks the daemon
whether it is there, opens the store, scans once, serves, and after a signal shuts
the HTTP server down with a limit of 30 s; the store and the docker client are closed by
deferred calls. *Correct when* the exit code tells the truth, nothing is closed under a
request that the exit code calls served, and a signal ends the process.

**Docker connection** (`docker/client.go`). State: a read-write lock. A call of the
daemon holds it for reading until it returns, except those of `GetStats` and
`StreamLogs`, which hold it only while they copy the client; `Close` asks for it for
writing, and from then on nobody gets it any more.

**Data types** (`model/`) and **web UI**: no behaviour of their own.

## How they interact

```
 browser --HTTP--> api handlers --calls--> project.Manager --calls--> scanner (cache)
                                   |             |  |                  store   (rows)
 ticker (main.go) --Refresh--------+             |  +--child process--> docker compose
                                                 +--calls-------------> docker daemon
 browser --WS--> HandleWebSocket --register--> Hub.Run --queue--> WritePump --> browser
                 ReadPump --unregister-->        ^
                                                 +--broadcast-- StartStatsStreamer
                                  StatsCollector <--GetProjectStats-----+
 api handler (stats) --GetProjectStats--> StatsCollector (prevStats)
```

Shared state: project objects are shared *by pointer* between the scanner's cache,
the manager's map, scan results and handlers; `prevStats` between the streamer and
handlers; the send channels between the hub and the pumps; the server's context
between all goroutines.

## What is hard

`PROJECT.json` lists every hazard at its line with the properties that cover it.
The main ones: three ways to close a client's queue; a WritePump that receives a
counted number of messages without a `select`; overlapping scans that install stale
snapshots and write through shared pointers; check-then-act on protection around
a child process; unlocked reads before a lock; failures, disconnects and restarts
between those steps; unsigned counters that go back; readings stored out of
order; a `done` channel that only one of two pumps closes; a process-wide variable
that concurrent parses swap and restore; a tree that changes under a walk; calls of
the daemon that hold a lock the shutdown needs; a prune that fails half way.

# 2. Plan

The order is that of importance. `Hub` with its abstract specification `Feed`; `Manager`;
`Stats`; `LogStream`; `Scanner`, with `Config` for the paths it is given; `Server`, with
`Storage` for what the daemon has on its disk; each with its proofs. What composes
what: `Hub` refines `Feed`, and `Manager` refines `Catalogue`; `Scanner` extends `Config`, so that a scan starts from any way
of configuring the process; `Server` extends `Storage`, so that reports and prunes of
several requests meet on one disk.

What is left:

1. `Patterns`: the matching in `protected.go` and `patterns.go` over small words. It is a
   table of substrings; a model is worth its lines when the rules interact.
2. `BroadcastToSubscribers` and `StreamStats`, for the day they get callers.

# 3. The modules

## Hub and Feed

`Feed` says what the fan-out promises without channels: a log, readers that join
at its current end and are then given what follows, without a gap, a repetition or
a change of order, until they are cut off.

`Hub` has one action per iteration of a `select` or per step another goroutine can
observe. `HubRegister`, `HubUnregister`, `HubTake` and `HubStop` are the cases of `Run`'s
select; the fan-out loop (`HubQueue`, `HubEvict`, `HubDelivered`) visits clients one at a
time because pumps run in between. Register and unregister are unbuffered: the hub's
action moves both sides. `StreamerTick` and `StreamerBroadcast` are the two halves of a
tick, with the collection of statistics in between; `StreamerStop` its end.
`ReaderMessage`, `ReaderFails`, `ReaderClose` are `ReadPump` and its two deferred calls;
`WriterReceive`, `WriterCount`, `WriterDrain`, `WriterFlush`, `WriterFails`, `WriterClosed` are
`WritePump`. A closed Go channel still delivers what is in it: `closed` is separate from
`send`. Sending to or closing a closed channel sets `panicked`. A connection is used
once; one that comes back is another element of `Conns`. `log`, `joined` and `wire` are
history variables, for `Feed`.

## Manager

One state for `manager.go`, `finder.go`'s cache, the store's rows, docker compose and the
daemon. Pointers are explicit: `projects`, `cache` and frames hold addresses of `heap`,
and a write through one is seen through all. `frame[p]` is the local state of the
request goroutine `p` is serving; `pc` names the points where others get in between.

| code | actions |
|---|---|
| `Refresh`, `Scan`, `parseComposeFile` | `ListRequest`, `Tick` or `Boot` (walk); `Lookup` (stat, checksum, cache); `Load`, `LoadFails`; `Keep` (cache); `ScanCancelled`; `ListContainers`, `ListFails`; `ReadPrefs`; `Commit` (everything under the lock) |
| `StartProject`, `StopProject`, `RestartProject` | `Request` (lookup), `Check`, `Exec` or `ExecFails`, `Relist`, `Install` (`refreshProject`) |
| the setters | `SetProtection`, `SetHidden`, `SetDisplayName` |
| environment | `FileChanges`, `ContainerChanges`, `Disconnect`, `Shutdown`, `Exit` |

A file has one container and is identified by its path. Which names compose
resolves, which names directories have, and what the protection patterns match are
constants. Failures are allowed by `Events` and always when the request was
cancelled. The map and the cache die with the process; files, containers and rows
do not. `seen`, `lapsed` and `readable` are history variables.

Addresses are reused only when nothing refers to them, as the garbage collector
does it. A file's project is referred to by the map, the cache and at most once per
goroutine, so the instances have enough addresses for `Load` never to wait.

`Catalogue` is what remains when pointers, the cache and goroutines are left out: one
entry per listed project. `Shown` maps the state to it: of a project in the map, what its
address holds. `Commit` is `Refresh`, which may replace every entry, but keeps what was
protected protected and protects what the configuration names and what has containers of
the infrastructure; the setters are `Set` and `Install` is `Relist`, one field of one entry;
`Exit` is `Lose`. All other steps must not show, whichever objects they write to.

## Stats

Containers with a CPU clock, a host clock, and callers that ask about one container
after another. `Ask` is the daemon's answer, `Swap` the critical section that exchanges
readings; between the two other callers run. `Minus` is subtraction on words of
size `Word`. That the daemon answers with zeros for a container that is not running,
and that a container started again counts from zero, is Docker's behaviour; these
parts are marked external. A reading carries, for the properties only, the life of
the container it was taken in and when. `watched` says whether the hub has a client:
browsers come and go (`Audience`), and the streamer skips a tick without any
(`Round`). `RunningIsSampled` is therefore about containers that run on while a client
stays; until upgrades succeed (`server_upgrade`) no client ever is there, and the
statistics come from requests alone.

## LogStream

The goroutine that `StreamLogs` starts, the copier (`stdcopy.StdCopy`, external), one
pump per stream, and the caller. `pipe[x]` is the chunk a `Write` to an `io.Pipe` waits
with. `CloseChannel` and `CopyEnds` happen once per stream, in the order of the deferred
calls. A send on a closed channel ends the process.

The log may break off anywhere (`ReaderBreaks`): the connection to the daemon is lost,
or a header makes no sense. Reading then fails as it does at the end, and `TTYEnds` and
`CopyEnds` drop the error as the code does: `failed`, which stands for `errCh`, is set by
`OpenFails` only. So `StderrIsComplete` and `TTYIsComplete` say that all that was read has
been sent, and that this is the whole log unless it broke off; a caller cannot tell a log
that did from one that ended. `GetLogs` does report such an error (lines 73 to 79).

## Scanner and Config

`Config` is pure: `ConfigFile` is `findConfigFile`, `Load` the merge of the sources, `Loads` when
it fails. `Reached` says which variables reach a key: the callback given to the
environment's provider turns every underscore into a dot, so that none reaches
`data_dir`, `server.allowed_origins` or `scanner.scan_interval`. A list in a source
replaces the default list, so a list is one value.

`Scanner` has one local state per scan. `Begin`, `EnterRoot`, `Visit` (the callback of
`WalkDir`, with `Enter` for what it descends into), `VisitCancelled` and `WalkDone` are the walk;
`ParseSkips` is `parseComposeFile` as far as the cache, a missing file or a failed read;
`ParseBegins`, `Silence`, `Options`, `SilenceAgain` and `LoadProject` are the rest of it, split
where another scan can get at `os.Stderr`. Files of the process are identified by who
opened them; `Closed` stands for every file that was closed, and `After` turns a
reference to a file into `Closed` for all who hold one. In between directories vanish,
files are written, emptied, broken and removed, and requests are cancelled. The tree is
given by `Parent` and `Name`; which names are hidden or exempt, and which files have a
YAML extension, are constants. A directory that cannot be read is one whose files are
not there.

Two things the model makes plain and no property is about: a configured path whose own
base name is excluded or hidden is skipped as a whole; and while `LoadProject` runs
`os.Stderr` is the file that was just closed, or nil, even without concurrency, since the
second `os.OpenFile` is assigned to `devNull` only.

## Server and Storage

`Storage` is pure: `StorageInfo` is what `GetStorageInfo` makes of the daemon's disk, in words
of size `Word`; `Asked` and `PruneCalls` are which of its calls `Prune` makes for a body,
including one that could not be decoded. What the daemon removes (`Removed`) and
reports (`Reclaimed`) is external, and so are the sizes it gives. Layers are items of
their own: an image takes no space beside them, its `Size` is that of all its layers,
shared or not, and a prune of images frees the layers that no image has any more.

`Server` has the steps of `run` (`Load` to `CloseClient`), `Signal`, `Listen`, the three steps of
`runPeriodicScanner`, and requests. A request is a list of the steps that can wait or
fail: `Programs` has one per kind of route and `PruneCalls` one per prune; `Lock`, `Answer`,
`Prune`, `Peek`, `Sample`, `Compose`, `Save`, `Upgrade` take them off, and `Reply` answers, at the
end or before the first step (`Refusals`: a body or a port that cannot be read is a 400,
a project that is not there a 404). `readers` and `writer` are the docker client's lock,
with Go's rule that a waiting writer keeps new readers out. The stats of a project are
two steps: `Peek` needs the lock to be free of a writer but does not keep it, and `Sample`
calls the daemon without it, even when the client has been closed. One running container
stands for those of a project, as more would repeat the two steps.
500 stands for the 503 of `Ready` as well. `Shutdown` is modelled as `net/http` documents it: it
returns when no handler is running, or with an error after its limit, which is a step
that may come at any time. A second signal is ignored, since `stop` is deferred.

`CanHijack` follows the chain of writers around a WebSocket request: the compression's
passes `Hijack` on, the logging middleware's does not. So every upgrade is answered with
500, and `Hub` shows what the fan-out does once a connection gets through.

# 4. The runs

Runs that pass:

| run | instance | what it shows |
|---|---|---|
| `hub_safety` | 2 connections, queues of 2, broadcast queue of 1, 4 messages, symmetric | `NoPanic`, `ClosedIffRemoved`, `DrainNeverBlocks`, and that `Hub` implements `Feed` |
| `hub_liveness` | 1 connection, 1 project, queues of 1, 3 messages | `LostPeerIsReleased`, `ClosedQueueEndsWriter`, `QueuedIsWritten` |
| `manager_files` | 2 files of one directory and one compose name, 1 handler and the ticker, 2 events of any kind | `NoSharing`, `UnforcedWasUnprotected`, `OnlyUserUnprotects`, `ListFollowsFiles`, that `Manager` implements `Catalogue`, and `EventuallyInSync` although each start removes the other's container |
| `stats_sampling` | 1 container, streamer and handler, clients that come and go, 3 events | `InOrderIsExact`, `RunningIsSampled` |
| `logs_stream` | channels of 2, 4 chunks, a log that ends or breaks off anywhere | `SentInOrder`, `StderrIsComplete`, `TTYIsComplete`, `ChannelsAreClosed`, `NobodyStaysBehind` |
| `scanner_scan` | 4 directories, 2 compose files, 5 configurations, 2 scans, 1 event, symmetric | `FindsWhatStays`, `FindsOnlyWhatWas`, `NullIsClosed`, `StderrStaysOpen`, `AloneRestores`, `PriorityHolds` |
| `server_life` | 2 requests of 7 kinds, 3 bodies, 11 items on the disk of which 2 are shared layers, words of 64 | `GracefulIsComplete`, `ReportedIsFreed`, `NothingUnasked`, `PromiseKept`, `SizesAddUp`, `SignalEndsProcess` |

*Bounds.* A queue of two that gets four messages is full, is drained in frames of
more than one message, and evicts with messages in it; a third message matters only
after an eviction. Two connections are enough for one to be visited before and one
after any step of the fan-out. Each of the bad cases found in `Manager` needs at most two
events, among which is that a compose name cannot be resolved and the directory's is
taken; an unforced stop that overtakes a scan needs one handler and the ticker.
The clock of `Stats` runs to 3 and words have 16 values, so that a wrapped difference
cannot be mistaken for a small one. Four chunks in channels of two fill a channel, a
pipe and a pump. The tree of `scanner_scan` has a directory that is exempt, one that
is excluded and an empty one that may vanish, and its configurations narrow and widen the paths, overlap, come from two
places or fail to load; one event is enough for a walk to be overtaken, and two scans for
every interleaving of the swaps, which need no event at all. The three bodies of
`server_life` are one that asks for volumes only and two that cannot be decoded, before and
after a flag was; the kinds `map` and `system` are left out because each of their steps is
one of another kind's; the disk has an unused and a used item of every kind that matters,
one volume of unknown size, a layer that two images lose together and one that goes with
an image and must stay for another. What the bounds leave out the theorems cover: every
invariant, every action property and both refinements that a passing run checks are
proved without them.

*Deadlock* is checked only in the runs of `Stats`, where something can always happen; the
hub, the process and a log stream may stop, and without a configuration there is no
scanner.

*Fairness.* Go schedules every runnable goroutine, so each goroutine's steps are
weakly fair. In `Hub.Run`'s select a connection that offers itself on `register` or
`unregister`, or a cancelled context, competes with broadcasts; `select` picks at random
among the cases that are ready, hence strong fairness for those three. In `Manager`
every goroutine proceeds, the ticker ticks and the supervisor restarts the
process; nothing makes users, files or the daemon act. In `Server` the goroutines of the
process go on, and whoever waits for the daemon or for compose gets an answer or an error
some time (calls have contexts, and the daemon's connection can fail); no request and no
signal has to come. In `Stats` both tickers fire and
the daemon answers or fails; no client has to come or to stay. In `LogStream` the caller
keeps receiving, and the log, which is followed (`Follow`, line 112), ends or breaks off
some time, as that of a container that stops does. No fairness is
assumed of peers, signals or failures. Liveness of connections is stated for a server
that is not being stopped: after `HubStop` nobody serves `unregister`.

Runs that find a disagreement between the code and what it says of itself, each
with one property (`PROJECT.json` quotes the lines):

| run | property | what happens |
|---|---|---|
| `manager_stop` | `ProtectedIsNotStopped` | protection set between `StopProject`'s check and its compose down |
| `stats_restart` | `WithinCapacity` | the container was started again between two readings, the difference wraps |
| `logs_complete` | `StreamIsComplete` | the end of stderr closes the channel stdout's pump is still sending to |
| `scanner_stderr` | `StderrComesBack` | two parses overlap; the last to restore `os.Stderr` puts back the other's `/dev/null`, which is closed |
| `server_upgrade` | `WebSocketsAreUpgraded` | the logging middleware's writer has no `Hijack` |

Smaller things the models show and no run is spent on:

- Every snapshot goes to every client: `BroadcastToSubscribers`, the function that looks at
  subscriptions, has no caller.
- `docker compose up --remove-orphans` removes the container of another file with the same
  compose name. The next scan shows it (`EventuallyInSync`).
- A scan writes preferences it read before a setter ran, so that the list is wrong until
  the next scan; `EventuallyInSync` says it does not stay so.
- `StopProject` answers 403 after a failed compose down if the project is protected *by
  then*; whether it was when the request came makes no difference.
- Of two callers of `GetStats` the one with the older reading may store it last, and its
  report is then wrong; `InOrderIsExact` says that later ones are not. Nothing calls
  `ClearPreviousStats`, so that the reading of a removed container stays.
- A volume of unknown size makes the volumes' sum wrap; the total is off by one byte for
  each (`SizesAddUp`). What is called reclaimable includes build cache that is in use and
  leaves out what stopped containers hold (`PromiseKept` states the exact difference).
- Layers that images share are counted once for each of them, in the total and in what is
  called reclaimable. A prune frees such a layer once, or not at all while another image
  has it, and so reclaims less than was shown (`shared` in `PromiseKept`).
- A log that breaks off in the middle looks to the caller of `StreamLogs` like one that has
  ended: both errors of reading are dropped.
- `GetStats` may call the daemon after `Close` has closed the client: its lock covers only
  the copy of the pointer. `net/http` opens a new connection then, or the call fails and the
  container is left out.
- A prune that fails half way has removed things, and its answer does not say which.
- When the listener fails and a signal comes, `select` takes either branch: the exit code
  may be 0 for a server that could not listen.
- The list of projects is sorted by name and file only, which does not order two projects
  that share both; the status `(starting)` that the health check of a container is compared
  with never occurs in what Docker reports, `(health: starting)`.

Every property of a passing run has a mutant in `PROJECT.json`: a plausible bug in a
mapped definition under which TLC finds the property violated. Mutants stand in the
modules before the definition they change and are used by nothing.

# 5. The proofs

**Assumptions.** Those named in the modules: channel capacities are positive; nil is
not an address; the ticker is not a handler; there is a file; a counter does not wrap
by itself within the clock's bound; every set of nodes of a tree has one whose parent is
not in it; the configured paths are nodes of the tree; `Word` is positive and the disk
finite. `DaemonAssumption` is about the Docker daemon: only the size of a volume can be
unknown, as the Docker API says of a volume whose size it did not compute (-1); a network
takes no space, and its prune reports none; an image takes no space beside its layers,
which any images may share, and a prune of images frees and reports exactly the layers
that no image has any more (`Freeable`); images, volumes and networks are used by
containers only, containers and the build cache by none. Containers, volumes and entries
of the build cache share nothing with each other. Nothing is assumed of the number of connections, handlers, files, objects,
scans, requests, items, of names, sizes, or of which events occur.

**HubProofs.** `NoPanic` is not inductive: why the hub never sends on a closed queue
depends on where the goroutines are. `IInv` adds `Phases`: the fan-out loop visits only
clients of the map, and a connection that is not registered has an open queue and no
pumps. With that `ClosedIffRemoved` gives `NoPanic`, since the hub closes and sends only
to clients of the map. `DrainNeverBlocks` is inductive with the types: only
the client's own WritePump receives from its queue.

`HubImplementsFeed` is the refinement. `FInv` says of every connection that what was
written, the frame under construction and the queue are, end to end, a `Piece` of the log
that begins where the client was registered, and that a client of the map is behind the
log by the message being fanned out, if it is still to be visited, and by nothing else.
Every step is then one of `Feed` or none: taking a message publishes it, a registration
joins, a flush gives as many messages as the frame has, and a WritePump that returns cuts
its reader off. The lemmas `PieceOfMore`, `PieceTaken`, `PieceWritten` and `PieceQueued` are the four
ways in which the parts change.

**ManagerProofs.** The argument is about pointers. Every pointer a step stores is one
that somebody held for the same project before (`Inherits`, `StepFrame`), except that
`Load` takes an address nobody holds (`LoadStep`). Hence `NoSharing` is preserved
(`StructureStep`), and it is what makes types and protection provable: a write
through a pointer reaches one project. `LosesOnlyAsListed`: an object that somebody holds
for f loses its protection only while f is listed unprotected. From that,
`ManagerOnlyUserUnprotects`: a scan's `Commit` replaces a project by one that is at least as
protected (`CommitKeeps`). For `ManagerUnforcedWasUnprotected` the invariant `SeenInv` says
that a request past its check has seen the project unprotected, and that one before
its check has seen it, or holds an object that is protected while the map does not
show the project unprotected.

`ManagerListFollowsFiles` needs to know what a scan has in its hands from the walk to the
commit. `FilesInv` says of the cache that its version of a file is never ahead of the file,
and of the current version only if that could be read; of a scan that what it has found
was readable since it began (`readable`), through the cache too, and that every file is
still to be looked up, or being loaded, or found, or was unreadable meanwhile (`Accounted`),
unless the scan is cancelled while it parses, after which it commits nothing. The lemmas
`ScanOwnStep` and `ScanKeptStep` are the scan's own steps and those of everybody else, under
which a file may change between any two of them.

`ManagerImplementsCatalogue` is the refinement. With `NoSharing` a write through a pointer shows
in one project only (`ShownWrite`); `Load` writes where nobody looks; `CommitRefreshes` follows
an object of the scan into the map, where `Merged` has put on it every protection that is due.

**StatsProofs.** `ReadingsFit`: the readings of a container that somebody may still put into
a report, in `prevStats` or in a caller's hand, lie on one line with the daemon's counters
and with each other. A container's clock does not run faster than the host's, so the
difference of two of them in order is below the word size, and subtraction modulo the
word is subtraction (`InOrderIsExact`).

**LogStreamProofs.** `Hands` says who can hold a chunk in which state, `Ends` that nobody ends
before the one that feeds it has, and `Flow` that what was sent, what a pump holds and what
waits in a pipe are, end to end, the chunks of the stream that were read. `SentInOrder`
is a prefix of that; completeness is `Flow` with empty hands, and `Ends` adds that a log
which nobody cancelled and which is not `broken` was read to its end. Which
chunks belong to a stream is a recursive function over the log; that it exists for every
log is proved from the well-foundedness of the numbers.

**ScannerProofs.** Files: `Opened` says that no file is open but the original stderr and what
a scan in the middle of a parse refers to by its own `null`; `Alone` that before two scans
were in a parse at a time the one that is holds the original. Walk: `Covers` says of a scan
that is not cancelled that what stays is still to be visited, or was visited and is still
to be parsed, or was found; at the end nothing is left to do, and the set of visited nodes
is one of those over which `Lasting` quantifies. `Reports` says that all a scan has in its lists
is below a path through directories that are not excluded, and was a compose file since
the scan began. `NoCycle` is where the assumption about `Parent` is used. `ConfigProofs` shows
`LoadIsPrior`: of the places where there is a file there is exactly one first.

**ServerProofs.** `DInv` says of every request that what it has left to do is of its kind,
that it removed only what it asked for and has added it up, that what it would report of
the disk is one disk's, and that what it freed is not on the disk any more, so that no
two requests free the same item. `GInv` orders the shutdown: the store is closed only
after the exit code was decided, and a write can be refused only after that.

`ServerPromiseKept` compares two requests that never meet: one that shows what is
reclaimable, and a prune that began on the disk the other one saw. `PInv` is about the prune.
`Going` says what it has freed after each of its calls: of the kinds it has called for
(`Called`) exactly what should go of the disk it began with (`ShouldGo`), namely what is not
busy and is used by stopped containers at most, for those go in its first call. That holds as
long as what is missing from the disk is what it freed itself, which every step of somebody
else keeps or makes false for good; and it needs that the lock is held from the first call to
the last. `HandleShape` reduces the nine kinds of handler steps to the four that such a
request can make. At the end `OfferIsKept` takes the two sets apart: what should go and what
is offered in vain is what is offered, what only stopped containers hold, and networks.
The layers are compared with the images they go with: what a prune frees of images is
what their layers are (`FreedOfImages`), and that is at most what the images are shown to
be worth, each with all of its layers (`SharedLayers`); the difference is `shared`.
The equation is stated modulo `Word`, since the sum that is shown was reduced.

The sums
are those of the community modules, which fold over a set in an order of their own;
`StorageProofs` shows that the order does not matter by taking a smallest set for which it
would, since induction theorems that take an operator are out of the prover's reach.

**Only model-checked.** The liveness properties: `LostPeerIsReleased`, `ClosedQueueEndsWriter`,
`QueuedIsWritten`, `EventuallyInSync`, `RunningIsSampled`, `ChannelsAreClosed`, `NobodyStaysBehind` and
`SignalEndsProcess`. Fairness and ENABLED are beyond the prover.

# 6. What is not modelled

- `BroadcastToSubscribers`, `StreamStats`, `ClearPreviousStats`, `GetPreference`,
  `DeletePreference`, `SetPaths`, `ClearCache`, the functions that change the protection
  configuration, single-container commands, compose pull, ps, logs and config: nothing
  calls them.
- The race between `Run`'s deletion from the map of clients under a read lock and
  `ClientCount`, which reads the map's length.
- The matching of strings: which paths are protected by configuration, which container
  names stand for infrastructure, environments and display names, `expandPaths`. They are
  constants of `Manager` and `Scanner`.
- Which tunnel or path is the reason of a protection; services beyond the version of
  the file they were read from; network and block I/O counters, which are plain sums.
- `CheckPort` and the search in `/proc` for the process that has a port: they read the
  system once and keep nothing.
- After cancellation the copier of `StreamLogs` may wait in a pipe for ever;
  `NobodyStaysBehind` is therefore stated for streams nobody cancels.
- `StreamLogs` has no caller in the server yet; its caller is modelled as one that
  receives from both channels.
- The server's write timeout, which cuts off a response and not its handler; CORS; what
  answers contain beyond their status, the sizes and what a prune reports.
- The two locks together: `Server` has the docker client's, `Manager` the project
  manager's. No goroutine holds both.
- The web UI, generated and static files.
