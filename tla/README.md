# Node-Media-Server: models and proofs

TLA+ modules of the parts of Node-Media-Server whose correctness depends on the
order of events: TLC checks them on small instances, TLAPS proves what matters
most for every instance. Paths are relative to the repository.

## 1. The system

One Node process. JavaScript runs one callback at a time, so a callback with
everything it calls synchronously (event listeners included) is atomic; what
interleaves is the order of socket data and closes, timers, and what follows an
`await`. File operations of the store run on the thread pool, next to the
callbacks.

| Component | Source | State it keeps | Operations |
| --- | --- | --- | --- |
| Broadcast | `src/server/broadcast_server.js`, `src/core/context.js` | one object per stream path: publisher slot, grace timer, subscribers, GOP cache, header packets, timeline; `Context.broadcasts` maps paths to objects | `postPublish`, `donePublish`, `postPlay`, `donePlay`, `_resumePublish`, `_finishPublish`, `broadcastMessage` |
| RTMP / FLV sessions | `src/session/rtmp_session.js`, `flv_session.js`, `base_session.js`, `src/server/rtmp_server.js`, `http_server.js` | socket, role, the broadcast object it is bound to, counters | connect, publish, play, data, close |
| Publish history | `src/server/history_server.js` | rows of `stream_history` | `donePublish` listener, run, stop |
| Document store | `src/store/*.js` | documents in memory, dirty set, flush timer, retry timer, flush chain, files | CRUD, open, flush, close, exit and signal hooks |
| Records | `src/server/record_server.js`, `src/session/record_session.js` | active recordings, rows of `records`, a file stream per recording | start, stop, auto-record on publish, recovery of stale rows |
| Relay | `src/server/relay_server.js`, `src/session/rtmp_client_session.js`, `rtsp_client_session.js` | tasks, their persisted configuration, one client connection and one reconnect timer per task | add, remove, restore, connect, reconnect with backoff |
| RTSP client | `src/protocol/rtsp_client.js` | pending requests by CSeq, authentication state, transport | request, response, 401 retry, keep-alive, teardown |
| RTP depayloaders | `src/protocol/rtp_depayloader.js`, `rtp.js`, `sdp.js` | per track: last sequence number, fragments, parameter sets, clock | session description in, RTP packet in, media packets out |
| RTMP protocol | `src/protocol/rtmp.js`, `rtmp_client.js`, `amf.js` | handshake state, chunk streams, chunk sizes; the client's pending commands, time of the last data | bytes in, messages out; connect, createStream, play, publish, heartbeat, disconnect |
| Byte formats | `src/protocol/flv.js`, `rtcp.js`, `sps_info.js`, `src/core/av*.js` | none that lasts | parse, format |
| Rate sampler | `src/core/rate_sampler.js` | a window of samples for the network and for each stream | sample on a timer and on a read |
| Management API | `src/routers`, `src/api` | login failures per address; otherwise reads the others | handlers |
| Notify | `src/server/notify_server.js` | none | POST per event; a refusal closes the session |

How they meet: a session is bound, by its publish or play command, to the
`BroadcastServer` object that `Context.broadcasts` has for its path, and keeps
that reference; `BroadcastServer` emits `postPublish`, `donePublish`, `postPlay`
and `donePlay` on `Context.eventEmitter`, where the record, history and notify
servers listen; the record, history and relay servers write to the store; a
relay pull session is a publisher, a relay push session and a record session are
players, with an empty `ip` that makes them internal.

What is hard in this code, by component (each hazard at its line is in
`PROJECT.json`, "hazards"):

- *Broadcast and sessions.* A publisher whose connection is lost keeps its slot
  for a grace window. In that time its client may resume, another client may take
  over, viewers come and go, the timer fires, and closes of sessions that were
  refused arrive late. The registry may drop an object that a session still
  uses.
- *Store.* Mutations go on while a snapshot is being written; writes fail;
  flushes, retries, `close()` and signals meet on one chain of promises; the
  signal hook writes the same temporary file a flush may be writing; the process
  dies between any two file operations.
- *Records and relay.* `await`s in the middle of start, connect and reconnect;
  callbacks of a connection that has been replaced; rows that a crash left in
  state `recording`.
- *Protocols.* Boundaries and wrap-around of sequence numbers and timestamps;
  messages interleaved on chunk streams; responses matched to requests, while
  the connection may end at each point; units that arrive in fragments of which
  some are missing.
- *Collections and history.* Calls that throw half-way, eviction, marks and
  flushes that cross; pages that are cut anew while rows come and go.
- *Rates.* Counters belong to sessions, which come, go, resume and return.

## 2. Modules

| Module | What it is | Checked by | Proofs |
| --- | --- | --- | --- |
| `Publication` | abstract specification: the life of one publish over several connections | `KeepsPublication` in run `broadcast` | `Broadcast_proofs`: `Broadcast` implements it |
| `Broadcast` | publish slot, grace timer, subscribers, registry, sessions, history rows of one stream path | `broadcast` | `Broadcast_proofs` |
| `Media` | what one broadcast object passes on: header and GOP caches, timeline, viewers | `media` | `Media_proofs` |
| `Store` | memory, dirty set, timers, flush chain, writes on the thread pool, exit hook, crash and restart | `store` | `Store_proofs` |
| `Query` | filters and sort orders, as operators | `history`, `collection` | `Collection_proofs` |
| `Collection` | one collection: every call that changes it, eviction, partitions, marks, flushes, reloading | `collection` | `Collection_proofs` |
| `History` | the publish history on top of a `Collection`, with the publishes, the process and a client of the API | `history` | `Collection_proofs` |
| `Recording` | record server and record sessions with the slots, the API, rows in memory and on disk, start and stop of the process | `recording` | `Recording_proofs` |
| `Relay` | one relay task over RTMP: its session, clients, reconnections, its hold on the local path, its row | `relay` | `Rtmp_proofs` |
| `Rtsp` | an RTSP pull: session, client of its current connection, server, slot of the path | `rtsp` | `Rtsp_proofs` |
| `Sdp` | session descriptions, line by line, as operators | `depayloader` | `Rtsp_proofs` |
| `Depayloader` | one media of an RTSP pull: from the session description over RTP packets to broadcast packets | `depayloader` | `Rtsp_proofs` |
| `Amf` | AMF0 values and commands, written and read | `rtmp`, `rtmp_push` | `Chunks_proofs` |
| `Chunks` | the RTMP chunk stream, written and read | `rtmp`, `rtmp_push` | `Chunks_proofs` |
| `Rtmp` | both ends of a relay's RTMP connection, and a viewer behind it; extends `Chunks` and `Amf` | `rtmp`, `rtmp_push` | `Rtmp_proofs`, `Chunks_proofs` |
| `Sampler` | byte rates of streams and of the network | `sampler` | `Media_proofs` |

`MCBroadcast`, `MCMedia`, `MCCollection`, `MCHistory`, `MCRecording`, `MCRelay`,
`MCRtsp`, `MCDepayloader`, `MCRtmp` and `MCSampler` instantiate a module for TLC;
`Store` needs none. Which lines of the code each definition stands for is in
`PROJECT.json`, "map".

Modules compose where components meet. `Broadcast` has the slot together with the
sessions, the registry and the history's listener; `Recording` the slot with the
record server and the process; `Relay` and `Rtsp` the part of the slot that a relay
session sees; `Media` the packets of one object; `History` extends `Collection`, which
extends `Query`; `Rtmp` extends `Chunks` and `Amf`; `Depayloader` extends `Sdp`.
`Publication` is the abstract specification that `Broadcast` implements.

Every module has a type invariant. Those of the modules with proofs are theorems;
the runs check other things.

### Broadcast

State. `registry` is `Context.broadcasts.get(streamPath)`. `BroadcastServer`
objects have identities (`Servers`), because what goes wrong is that two of them
exist for a path: `publisher`, `graceTimer` and `subscribers` are their fields.
For each session: `conn` (its socket), `broadcast` (the object it is bound to;
`None` stands for the placeholder `new BroadcastServer()` made by the constructor
of `RtmpSession`), `isPublisher`, `endTime`, `createTime` (named by the session
whose start time it is), `playCount`. `history` holds the rows of
`stream_history`. `lineage`, `plays`, `tookOver` and `doneEvents` only record what
happened, for the properties; no guard reads them.

Actions. `Connect` is a socket accepted by the RTMP server. `Command` is the part
common to all publish and play commands: the session looks the object of its
path up, or makes one (`Resolves`), and puts it into the registry. An FLV session
is constructed, bound and run in one callback, so it goes from `"unopened"` to
bound in one step. `postPublish` has five outcomes: `PublishUnauthorized`,
`PublishStart`, `PublishBusy`, `PublishResume` (`_resumePublish`) and
`PublishTakeOver` (`_finishPublish` of the pending publish, then the newcomer
enters the slot). `postPlay` has two. `RegisterPush` is a relay push session that
joins a stream that exists. `onClose` is `CloseUnbound`, `ClosePublisher`
(`donePublish`: arms the timer, unless the session does not hold the slot) or
`ClosePlayer` (`donePlay`, `_destroyIfEmpty`). `GraceExpires` is the timer:
`_finishPublish` with its listeners.

A session that the server refuses closes in a later callback, so its close is an
action that may come late or not at all. A refusal by a webhook or by the API
closes a session in the same way; `Close` is enabled whenever the socket is open.

Data left out: packets, caches and the timeline (see `Media`), the stream
path (there is one), names, byte counters, the clock. `addressOf` is the constant
`address`. A push session registers once; its reconnections are for module
`Relay`. The placeholder object is not modelled as a broadcast: no command
reaches it unless the stream name was refused, which is not modelled.

A few operators are *slips*: each stands above the operator it is a wrong
version of (`HistoryByClient` above `HistoryWith`), and is used by no action. They
are the mutations of `PROJECT.json`: replaced by its slip, the operator makes the
model violate the property named there.

Some properties state what the documents say and the code does not do: they stand
at the end of a module, with the reason, and no run checks them (they are listed in
section 4). One is checked, by the run `rtmp_push`.

Properties.

| Property | Says |
| --- | --- |
| `FollowsConnections` | `SlotFollowsConnection`: a slot is held by an open connection, or the grace timer runs for a closed one, and by one session in one object; and `SubscribersAreConnected`: no closed connection and no publisher is left in a subscriber list |
| `EndedExactlyOnce` | a publish, over all reconnections, is in one slot or was ended once and has its row |
| `StatsSpanReconnects` | start time and play counter belong to the whole publish, viewers of the grace window included |
| `RegistryInOrder` | `OrphanedOnlyByTakeOver`: only a takeover leaves a publisher in an object the registry does not name; and `EmptyOnlyAfterRefusal`: an empty object stays registered only for a refused client |
| `KeepsPublication` | the whole implements `Publication`: among others, a publish goes on exactly when a session of the same address comes in its grace window, and one of another address ends it |
| `EverythingEnds` | once all clients are gone, the timers empty every slot |

Runs.

- `broadcast` (440,341 states): two RTMP and two FLV sessions of two clients, a
  relay push session, two objects, authorisation configured (so that each
  outcome of the check is possible). This is enough for a publish that is resumed
  twice (r1, r2, f1 have one address), taken over (f2), watched before, in and
  after its grace window, and refused. A path that needs a third object would
  need a second takeover of an unwatched path. No symmetry, because
  `EverythingEnds` is a leads-to.

Fairness. `WF_vars(GraceExpires(b))` only: `setTimeout` fires while the process
runs. Clients need not do anything, so sockets may stay open for ever;
`EverythingEnds` starts from their being closed. `CHECK_DEADLOCK FALSE`: every
session has finitely many commands, and the system stops when all are closed.

Bounds. `MaxCommands = 1`, the number of commands of one RTMP connection, is the
only one. It is also the assumption `OneCommand` of the proofs. With two commands
a connection can change its role and leave the first one behind (hazard at
`src/session/rtmp_session.js:90`), and `SlotFollowsConnection` is then false.

A publisher in an object nobody can look up. `postPublish` by another client in the
grace window calls `_finishPublish` (`src/server/broadcast_server.js:206`). If nobody
watches, that removes the object from `Context.broadcasts` (`_destroyIfEmpty`), and the
newcomer then takes the slot of the removed object. `src/core/context.js:126-127` says
that each publisher is registered there. `OneBroadcast` states it, and TLC finds five
states against it: f2 publishes, disconnects, r1 publishes within the window; the
stream of r1 is not listed, players that come later get a fresh, empty object, and a
second publisher is accepted beside it. `RegistryInOrder` shows, and
`OrphansInvariant` proves, that this is the only way.

### Store

State. `mem` and `file` are the content of each collection in memory and on disk,
`tmp` its temporary file. The content of a collection is the number of the last
mutation in it: the properties ask which of two states is newer and whether a file
is complete, not what the documents are. The server gives every collection one
partition, so a collection is a file. `dirty` is `_dirty`. A timer and the handle
that names it are two things in this code: `_autoFlush` nulls `_timer`, and
`_runFlushOnce` nulls `_retryTimer`, without `clearTimeout`; so `timer` and
`retryTimer` tell whether the handle is set, `timers` and `retryTimers` how many
timers will fire. `chain` is `_flushChain`; its head is the task that runs, `rounds`
and `failed` belong to it. `job[f]` is the operation of `f` that the thread pool was
given last, `snap[f]` the snapshot it writes. `sync`, `syncAt` and `moved` are the
position of `flushSync` in its loop.

Actions. `Start` and `Opened` are the two ends of `open()`; collections accept
mutations in between. `Mutate` stands for every operation of a collection that
changes it, with `_onCollectionDirty` and `_scheduleFlush`. `TimerFires`, `RetryFires`,
`FlushCall` and `CloseCall` put a task on the chain. `BeginRound` is the synchronous
part of `_runFlushOnce` (snapshots are taken, `_dirty` is emptied). `OpenTmp`,
`WriteTmp` and `RenameTmp` are the operations of `writeAtomic`, one after another for
a file and in any order between files; `JobFails` is a failure of any of them.
`Resolve` and `Reject` are the ends of `_drainDirty`, after one round of an automatic
flush and up to three of an explicit one. `ExitHook` is `_onSignal` or `_onExit`;
`SyncWrite`, `SyncRename`, `SyncAborts` and `HookEnds` are `flushSync`, step by step,
because operations that were submitted before go on in the pool. What they
complete submits nothing any more: the main thread is in the hook (`"halt"`).
`Crash` may come at any time.

Properties.

| Property | Says |
| --- | --- |
| `ChangesInSight` | `NothingForgotten`: memory that differs from disk is marked, or being written from a current snapshot; and `DirtyIsScheduled`: whatever is dirty has a timer, a retry or a task coming for it |
| `WholeFiles` | a crash leaves old or new content, unless an exit hook met a flush of the same file |
| `SavedIsKept` | `AckedSurvive`: what a successful `flush()` or `close()` was called for is on disk, after crashes too; and `HookSaves`: an exit through the hook saves what was not being written |
| `NothingGoesBack` | no file, and no collection of a living process, goes back to an older state |
| `Saved` | while the process lives, every mutation reaches its file |

`DirtyIsScheduled` and `Saved` except a process in which an explicit `flush()`
failed: it has cleared the timer and arms no retry, so that the data waits for the
next mutation (hazard at `src/store/lightweight_store.js:229`). `WholeFiles`,
`AckedSurvive` and `HookSaves` except the files of `overlap`, those that were being
written when a hook ran; what happens to them is told below.

Runs.

- `store` (585,057 states): two collections, two mutations, one failure, two
  processes, two calls, under `FairSpec`. Two collections are needed for a round of
  which one write fails; two mutations for one that comes while the other is
  written; two calls for a `flush()` behind a flush, or a `close()` behind a flush;
  two processes for a file that is reloaded. No symmetry, because `Saved` is a
  leads-to.

Fairness. Weak fairness of the timers, of the settling of promises and of the pool,
while the process runs. No caller is obliged to call, no disk to fail, no process
to end. `CHECK_DEADLOCK FALSE`: a process that is down may stay so.

Bounds. `MaxVersion`, `MaxFailures`, `MaxStarts` and `MaxCalls` bound mutations, failed
operations, processes and calls in a process. The proofs hold for all their values.

Data left out: what `fsync` is for (a loss of power: here what the file system was
told survives), the lock file and corrupt files; eviction, batches and queries are in
`Collection`. `Resolve` and `BeginRound` may come later than the
microtasks that they are, so the model has more interleavings than the program.

The exit hook and a flush under way. `flushSync` (`src/store/lightweight_store.js:268`)
looks at `_dirty` only, which a flush under way has emptied when it took its snapshots.

- `ExitFlushes` fails: a mutation, its timer, the flush begins, SIGTERM. The hook
  finds nothing dirty, raises the signal again, and the mutation is in no file.
  `src/store/lightweight_store.js:16` says that process exit is covered by the hook.
- `FilesAreComplete` fails: the collection changes again while it is written, so the
  hook writes it too, to the same temporary file. The pool opens, and so truncates,
  that file between the hook's write and its rename; the hook then moves an empty file
  over the old one. `src/store/persister.js:130` says that at any crash point the
  target is complete.

`HookSaves` and `WholeFiles`, which are proved, say that this overlap is the only way.

### Recording

State. The slots are those of `Broadcast`, without authorisation and history:
`registry`, `publisher`, `graceTimer`, `subscribers`, and for each session `conn` and
`broadcast`. `active` is `_activeRecords.get(streamPath)`. For each record session:
`recorder` (its life; `_stopped`), `attached` (the object it is a subscriber of),
`rows` and `disk` (the status of its row in memory and in the file). `status` is the
process and `serving` the listeners of the record server; `auto` is
`config.record.auto`. `unrecorded`, `orphaned` and `exitBy` only record what happened.

Actions. Events are emitted inside the callback that causes them, so the listeners
are part of the publish actions: `PostPublishEvent` is `_onPostPublish`, and
`StopRecords` is `onDonePublish` of the record sessions with `doneRecord` behind it. A
record session subscribes to `donePublish` of the path and not of an object, so
`Listeners(b)` are all that run. A takeover does both in one callback:
`_finishPublish` stops the recording, then the event of the newcomer starts one, in the
object that the registry names by then. `PublishBusy` emits the event as well, as the
code does before it looks at the slot. `startRecord`, `stopRecord`, `deleteRecord` and
`ToggleAuto` are the API. `Boot` and `StoreOpened` are the two sides of the `await` in
`index.js` `run()`, with `_recoverStaleRecords`; `Shutdown` and `Exit` those of `stop()`.
`Crash` may come at any time, and a signal without a call of `stop()` is one.

| Property | Says |
| --- | --- |
| `RowsInOrder` | `RowsMatchRecordings`: a path has one recording at most, and its row alone says `recording`; and `CleanShutdown`: after `stop()` no row on disk says so |
| `RecorderFollowsStream` | a recording is a subscriber of the registered object exactly while it runs, and does not outlive the last publish |
| `AutoRecordsAll` | with automatic recording, a publish the server has heard of is recorded over its reconnections |

`unrecorded` holds the publishers that are excepted: those that began when
automatic recording was off or before the store had opened, and those whose
recording was stopped by hand. The exception `orphaned` is the orphaned object of `Broadcast` seen
from here: after a takeover of a path nobody watches, the new record session looks
the path up, makes a fresh object and records that one, which is empty.
README.md:97 of the repository promises to record every published stream.

Run `recording` (1,047,241 states, about a minute): two objects, two publishers of
one client and one of another, a viewer, two record sessions, two processes, one
change of the configuration. Two record sessions are the one that a takeover
stops and the one it starts, or one before and one after a crash; three publishers
are a publish, its resumption and a takeover. `MaxToggles` and `MaxStarts` are
bounds, which the proofs do not need. `CHECK_DEADLOCK FALSE`: a process that is down
may stay so, and sessions are used once.

Data left out: file contents, `publisherId` and names, errors of the file stream,
the listing of rows. `Flush` writes all rows at once; how they get there is `Store`.
A `stop()` while the store opens is not modelled (hazard at `src/index.js:81`).

### Relay

State. `task` and `persisted` are the task of one key in `NodeRelayServer.tasks` and
its row; a process (`up`) forgets the first and reads the second. For each session:
`isRunning`, `isClosing`, `isRegistered`, `timer` (`reconnectTimer` with
`reconnectScheduled`), `watchdog` (`timeoutTimer`), `attempts`, `rtmpClient`. A client
is an object of its own, because the session replaces it and leaves the old one:
`session` is whose callbacks it has, `socket` its connection. Each client was
made for one call of `connectAndStart`, which is named by it: `awaits` says whether
that call waits for the handshake or for the answer to a command, and `awaitsOn`
at which client, which need not be its own, because the code reads
`this.rtmpClient` anew after every `await`. The local path is its slot
(`publisher`, `graceTimer`) and the push sessions among its subscribers.

Actions. `addTask`, `removeTask`, `Boot` (`_restoreTasks`) and `Stop` (`stop()`, or a
crash) are the server. `NextCommand` resumes a call and sends its next command with the
client the session has; `Started` is the last answer with `registerPull` or
`registerPush`; `Refused` an error. `SocketCloses` rejects what waits for the client and
calls `onConnectionClose`; `RemoteClose` is a `close` or `deleteStream` command, which
calls it with the connection open. `Silent` is the timeout check, `ReconnectFires` the
timer. `OtherPublishes`, `OtherLeaves` and `GraceExpires` are the rest of the path.

| Property | Says |
| --- | --- |
| `HoldsWhileConnected` | a session registered for a path holds it, through a connection of its own, and the path knows no other of its sessions |
| `NeverIdle` | a running task is registered, is connecting, or has its timer |
| `TaskLifetime` | `ClosedStaysClosed`: a closed session has no timer and its connection is gone; and `RowOfTask`: the row exists exactly as long as the task, over restarts, and nothing runs outside the list |

Runs. `relay` (479,350 states, about a minute): two sessions, of which one may replace
the other after a removal or a restart, and four clients, enough for a session
with a stale connection, a current one and a next one. Two attempts reach the
point where the session gives up. Clients and sessions are symmetric.
`CHECK_DEADLOCK FALSE`: the clients run out, and a session that gave up stays so.

Data left out: intervals and their backoff, the heartbeat and the bytes (`Rtmp`), packets, the other
viewers of the path and its orphaned objects (`Broadcast`). Rows are
taken to be flushed. A call waiting for a server that never answers counts as
connecting: there is no timeout before the first success. A push task whose source is
gone when it would reconnect gives up and stays in the list (`RowOfTask` says that its
row stays too); after a restart that happens to each push task whose
source is not there yet. A pull refused because the path is busy keeps its
connection, and its packets go to the viewers of the other publisher (hazard at
`src/session/rtmp_session.js:106`, see `Media`). `Silent` may come for a
connection that is registered no more, a little oftener than in the code.

A connection that outlives its session. The reconnect timer makes a new client and does
not disconnect the old one. If the reconnection was caused by a refused command or a
`close` command, the old socket is open, with the callbacks of the session. `close()`
disconnects the current client only, though `src/session/rtmp_client_session.js:273` says
that it releases all resources. `ReleasesAll` states that, and fails: the server refuses a
command, the timer fires, the task is removed, and the first connection is still there.
`RtspClientSession` disconnects the old client and says why
(`src/session/rtsp_client_session.js:446-455`).

### Media

State. One object of one path. `slot` abstracts `publisher` and the grace timer
(`free`, `held`, `grace`); who may take it is the matter of `Broadcast`. `orphan`
says that a take-over put the publish into an object the registry has dropped: no
viewer and no reconnection finds it any more. `lastDts`, `dtsOffset`, `header`
and `gop` are the fields of the object; the FLV and the RTMP copy of each
are filled and emptied by the same lines, so there is one. A GOP cache is a
JavaScript `Set` of buffers, here a set of packets with serial numbers; `None` is a
cache not yet made, which is not the same as a cleared one. `config` and `clock` are
the encoder's: what it announced, and its time on each track. `got` and
`seen` are what a viewer was sent.

Actions. `Broadcast(p)` is `broadcastMessage`: shift, `_lastDts`, caches, the
limit, every subscriber. The holder calls it with `SendFrame` (flags 1, 3, 4),
`SendHeader` (0, 2, 5) and `SendHdr` (6). A refused RTMP publisher (`Refuse`) may go on
sending until its socket is closed, because `onPacket` does not ask for the slot
(`Intrude`, `IntruderLeaves`); so may a relay pull that found its path busy. `Start`,
`Lose`, `Resume`, `TakeOver` and `Finish` are the slot; `Join` is `postPlay`, `Leave`
is `donePlay`. `Destroyed` is `_destroyIfEmpty`: from there the model follows the
object that the next session of the path makes.

| Property | States |
| --- | --- |
| `ViewersInStep` | each viewer holds the cached headers and has been sent the cached frames, without gaps, whenever it joined and whoever sends |
| `JoinersCanPlay` | `StartsAtKey`: a cache starts at a key frame, unless it was emptied by its limit or handed on by an ended publish; and `JoinDecodes`: cached frames belong to the cached headers, unless the encoder changed its configuration since the cache started |
| `Timeline` | the time of a frame is the encoder's plus where the viewers were when the slot was resumed, unless the track stopped on a header |

The exceptions are what the code does. A cache beyond 4096 packets is emptied
(`src/server/broadcast_server.js:365-370`) and goes on with whatever frame comes
next, and `_finishPublish` clears a cache without setting it to `null`, so
that the next publish on a watched path caches frames before its first key frame.
Viewers that join then start in the middle of a group of pictures. `JoinDecodes` and
`Timeline` are about publishes no refused publisher has sent into.

Assumptions about encoders: a track's configuration is announced, on each connection,
before its frames; time does not run backwards on a track; a header carries the
time of its track or 0.

Runs. `media` (1,513,200 states): two configurations and a foreign one, one viewer,
three connections, a cache of two packets, times 0 and 1, five packets, one of them
from a refused publisher. One viewer is enough, since `ViewersInStep` relates
it to the caches and it may join in every state. Five packets are a header, a key
frame, two frames that overflow the cache, and one more; or a header and
a frame on both sides of a reconnection. The two configurations are symmetric.
`CHECK_DEADLOCK FALSE`: the bounds on packets and connections end every behaviour.

A header moves the timeline back. `src/server/broadcast_server.js:307`: "resumed publishes
keep the timeline continuous: shift timestamps past the previous publish's last dts".
Headers are not shifted, but line 314 stores their time in `_lastDts`, and
`_resumePublish` takes the offset from there. `TimelineContinuous` fails: a frame with
time 1, a header with time 0, the connection is lost and resumed; the offset is 0 and the
next frame is behind the one before. The same happens to a client that resumes, sends
its headers and is cut off again. `Timeline` says exactly when.

### Rtsp

State. `call` says what the asynchronous function `connectAndPlay` awaits, and
`settled` how that promise was settled, if it was. `track`, `sdp` and `fed` are its
place in the loop over the tracks, `this.sdp` and the tracks the depayloader knows.
`timers` counts the reconnect timers that will fire (`reconnectTimer` is set when it
is not 0). The client is one record of variables, `socket`, `cSeq`, `pending`
(`pendingRequests`), `authParams` and `heartbeat`, because the session disconnects a
client and replaces its callbacks before it makes the next. `asked`, `streaming` and `wire`
are the server and what it has sent; `slot` is the slot of the path, which the
session holds (`live`), may resume (`grace`) or finds taken (`other`).

A promise settles in the handler of an answer, and the code behind its `await` runs
when that handler returns, before the next event. The model keeps both: `HandleData`
takes one message and may go on with the next one of the same chunk while a promise is
settled; every other event requires `Quiet`, that no continuation waits.

Actions. `Run`, `TimerFires` and `Close` are the session's life; `Describe`, `Setup`,
`NextTrack`, `Play` and `Publish` are the continuations of `connectAndPlay`, `Fails` and
`Refused` its exceptions, with the `handleReconnect` that follows. `Connects`,
`SocketError`, `SocketClose` are the socket's events, `Heartbeat` the keep-alive.
`UnknownAnswer`, `Challenged`, `BadScheme` and `Answered` are the outcomes of
`dispatchResponse`, `OnRtpData` an interleaved packet. The server answers in any order
(`Answers`), with errors or with another challenge (`Declines`), twice (`Repeats`), and
streams. `GraceEnds`, `OtherPublishes` and `OtherLeaves` are the rest of the path.

| Property | States |
| --- | --- |
| `OneCallThenNone` | `OneCall`: one reconnect timer at most, and none while a call could still go on; and `EndsClean`: a session that was closed or gave up has no connection, timer, request, slot or entry in `Context.sessions` |
| `AnswerOwed` | a call that waits has a request which the server has, has answered, or whose connection is about to be closed |
| `GetsThere` | a running session whose server answers plays at last, unless it ends, the path is taken, or the process dies |

The last exception of `GetsThere` is the code's: a packet that completes a frame before
`registerBroadcast` has run finds `this.broadcast` null, and nothing catches the
exception (`src/session/rtsp_client_session.js:374`). A server may send media in the
same segment as its answer to PLAY; `died` is that event. It can happen on the first
connection only, because the field is never cleared. On later ones the same packet
goes to the broadcast of the path, whether the session holds its slot or not, as does
whatever the connection of a refused session brings until its timer fires (compare
`Intrude` in `Media`).

Run. `rtsp` (191,604 states): two tracks, policies that reconnect for ever, once or
never, two messages on the wire, three errors of the server or the network, with a server
that wants credentials and one that does not, and a path that is free or taken.
Two tracks are needed for a SETUP that is refused beside one that is not; three errors
for a connection that fails, a reconnection that fails and a refused request. `MaxCSeq`
bounds keep-alives only; `MaxAttempts` is where the counter of an unlimited policy
stops counting. No symmetry: nothing is interchangeable. `CHECK_DEADLOCK FALSE`: an ended
session stays ended. The URL is taken to have credentials, so that a challenge is
answered.

Fairness. Weak fairness of what the event loop has to run: the start, the timer,
continuations, data that arrived, the outcome of `connect`, the close event that follows
an error. `FairSpec` adds that the server answers each request while the connection is
there, under which `GetsThere` holds. `SilentSpec` does not. Errors are not fair and
bounded in number.

Data left out: contents of requests and media, digests, the stream's metadata and its
fallback timer, intervals and their doubling, the TEARDOWN of `close()` (its promise is
rejected by the disconnect in the same callback).

A silent server holds the session. `src/protocol/rtsp_client.js:137`: "this.timeoutMs =
60000; // 60 seconds RTP timeout". `isTimedOut()` compares it with the time of the last
activity, but nothing calls it, and `sendRequest` arms no timer. `SilenceEnds` fails under
`SilentSpec`: the server leaves a request unanswered with its connection open, and
`connectAndPlay` waits for ever. The session is neither playing nor reconnecting; only
`close()` ends it. RTMP pulls have such a watchdog (`Silent` in `Relay`), though it starts
after the first success.

### Depayloader

State. `sdp` holds the lines of the session description that were read and the session
made of them (`Sdp`), until `SetupTrack` gives the codec and clock rate of one media to
the depayloader. From then on the variables are the fields of one track: `lastSeq`,
`clock` (`firstRtpTimestamp`, `lastRtpTimestamp`, `elapsedTicks`), `header` (parameter
sets, the configuration record made of them, `headerEmitted`), `fu` (`fuStarted`,
`fuTimestamp`, `fuNalType`, `fuBuffers`). `out` is what the last `feed` returned. `camera`
is the other end: an encoder that changes its configuration, and a packetizer. A NAL unit
carries its type and the configuration it was encoded under; fragments carry which unit
they belong to. `told`, `viewer`, `steady`, `base` and `top` only record what happened.

Actions. `ReadLine` is the loop of `parse` in `sdp.js`. Each `Send...` is one RTP packet of
the camera with the whole of `feed`: the gap, the class of the codec, the aggregate or the
fragment, the parameter sets, the header that is emitted before the first frame, the
clock. `Miss` is a packet that the camera skips; `SendEmpty` one with nothing but padding,
for which `feed` returns before `lastSeq` moves. `NextPicture` moves the camera's clock,
forth or, for pictures in decoding order, back; `Reconfigure` changes the encoder.

| Property | Says |
| --- | --- |
| `SectionsApart` | a media has what its own section says of its own payload type, and nothing of another section or of one that was refused |
| `WholeIfInStep` | a unit whose first fragment arrived in step is broadcast whole or not at all |
| `FragmentsComeBack` | after a loss, units in fragments are lost as long as the distance to `lastSeq` is below the limit, and no longer |
| `UnderItsHeader` | a frame is broadcast under the configuration it was encoded with, if its parameter sets arrived, in whatever order |
| `ExactClock` | the time of a packet is what the camera's clock has done, across its wrap and across losses |

`FragmentsComeBack` says what the code does, which is much less than one would expect: a
forward gap returns without moving `lastSeq`, so one lost packet makes every later packet a
gap, and every unit in fragments is dropped, until the distance reaches 30000. `WholeIfInStep`
excepts units that began while the track was out of step: at the boundary itself a unit can
be torn.

Run `depayloader` (about a million states): sequence numbers modulo 8 from 6, a limit of 3,
timestamps modulo 16 from 14, so that both wrap at once; six packets of which two are
skipped or empty; units of up to three fragments; two configurations; descriptions of up to
four lines. Three fragments after a loss pass the limit. `MaxBurst`, the packets of one
picture, is at most the limit: an assumption, true of the 30000 of the code.
`CHECK_DEADLOCK FALSE`: a camera may stop.

Data left out: bytes of units and of codec headers; AudioSpecificConfig, which is parsed and
never emitted; the access units of one AAC packet, which share a time. Two media with one
payload type, and two tracks that are rebased each on its own first packet
(`src/protocol/rtp_depayloader.js:175`), are outside the model. Codecs that are
not known go through as packets without type, for which `createMessage` writes chunk
stream 0.

### Rtmp

State. `client` is the `RtmpClient` with its socket, its handshake, its parser, its pending
commands (`pending`, by transaction id), and how long the server has been quiet; `call` is
where `connectAndStart` stands and how the promise it awaits was settled. `server` is the
other end: class `Rtmp` of another Node-Media-Server (`remote = "nms"`), or a server of
another make, which answers in any way the protocol has. `toClient` and `toServer` are the
chunks under way; `encoder` is the media such a server sends; `viewer` is the parser
of a player of the local stream.

Chunks are sequences of cells, one for each field that the code reads in one go
(`Chunks`), and AMF values likewise (`Amf`; a bound: values are in one another at most three
deep). A reader takes as many cells as the code takes
bytes; if that leads it to a cell of another kind it is out of step with its peer for good,
and the properties see it. This is how an error of one byte shows without bytes.

Actions. `Connected`, `ClientRead`, `Continue`, `SocketError`, `SocketClosed`, `SessionCloses`,
`Heartbeat` and `TimedOut` are the client's callbacks and the continuations of the call.
`ServerRead` is `parserData` of the server with everything it answers. `OtherAnswers`,
`OtherVersion`, `OtherPings`, `BeginMessage`, `ContinueMessage` and `Resize` are a server of
another make: answers, errors and statuses to what was asked and to what was not, media of
several chunk streams interleaved, every form of chunk header, extended times, empty
messages, and new chunk sizes, even within a message. `ServerEnds` ends the connection.

| Property | Says |
| --- | --- |
| `MessagesArrive` | what is written is read once, whole, in order, with type, stream, time and content; of a command, every value under its name |
| `ViewersInStep` | what was handed on is read by a viewer of the local stream as the same message |
| `NoPromiseLost` | a call awaits a promise that somebody will settle, and no promise is left that nobody awaits |
| `BothAgree` | a relay that has started is what the server takes it for, with one chunk size each way |
| `CallEnds` | between two Node-Media-Servers a call comes to its end, whatever happens to the connection |

`MessagesArrive` excepts a chunk size announced within a message (chunk ends are found with
`bytes % inChunkSize`, `src/protocol/rtmp.js:560`), `ViewersInStep` a message without payload,
which `chunksCreate` writes one byte short (`src/protocol/rtmp.js:435-441`). `CallEnds` is not
for other servers: an answer that the client does not know, such as
`NetStream.Play.StreamNotFound` (`src/protocol/rtmp_client.js:399`), leaves the call waiting.

Runs. `rtmp` (286 thousand states): pulls and pushes, servers of both kinds, a chunk size of 4
and later of 6, times that need the extension from 3 on, two media messages of 0, 6 and 7 cells on
chunk streams whose basic header has one, two and three bytes, two intervals of silence. Lengths
6 and 7 are a multiple of the chunk size and one more. No heartbeat goes out between the media
of another server, nothing more is sent to a client that is out of step, and a read takes all
that has arrived or all but the last chunk. `CHECK_DEADLOCK FALSE`: a call that has ended stays so.
`rtmp_push`: the finding below.

Fairness. `Progress` is weakly fair: both event loops run what is due, and the network delivers
what was written. It is written out (`[]<>~ToDo \/ []<><<Progress>>_vars`), where `ToDo` says
when there is something to run.

Data left out: acknowledgements, the digests of the handshake, `deleteStream`, objects that are
ECMA arrays within others, letters outside ASCII (a string is written with the number of its
characters for a length, `src/protocol/amf.js:287`; `Wide` names them, and is empty in the run),
clocks beyond 32 bits, whose messages are dropped (`src/protocol/rtmp.js:556`), chunk streams
whose three-byte form takes the id of another (`src/protocol/rtmp.js:575`), what `Flv.parserTag`
reads of a message (it throws for a video message without payload, `src/protocol/flv.js:288`, which the
model hands on), and event 7, an nginx server's pong, which the client takes for a ping
(`src/protocol/rtmp_client.js:452`).

### Finding: a push that is cut off every minute

The client pings (`src/protocol/rtmp_client.js:469-484`), and the server does not answer:
`eventHandler` of `src/protocol/rtmp.js:658` is empty. A server that receives a stream has
nothing else to send, and only data from the server moves `lastActivityTime`, so after 60 s
`isTimedOut` is true and the session disconnects a push that works
(`src/session/rtmp_client_session.js:182-187`). `docs/api.md:394` promises to push a local
stream out to an RTMP destination. Run `rtmp_push`: handshake, connect, createStream, publish,
two intervals without data from the server, and the push is given up as timed out, while every
message it wrote was read.

### Collection

State. `docs` is the `Map` of a collection: a set of entries, whose stamps are the order in
which their ids were inserted. `dirtyPartitions`, `marked` (the entry of the collection in
`_dirty`), `writing`, `snapshot` and `file` are the marks of the collection and of the store, what
a flush is writing and what the disk has. `unmarked` and `untrimmed` record what an
`insertMany` that threw has left behind.

Actions. `Insert`, `Replace` (`set`), `InsertMany`, `InsertManyThrows`, `Update`, `Delete`, `DeleteMany`
and `Clear` are the calls, each with its marks and with `_trim`; `BeginFlush`, `Written` and
`WriteFails` are a flush, as far as it takes over marks and gives them back; `Close` and `Open` are
the end and the start of a process. When files of several partitions are read, the order of ids
across partitions is lost: `Open` allows each order that keeps the partitions'.

| Property | Says |
| --- | --- |
| `UnmarkedIsSaved` | a partition without a mark is on disk, or being written, as it is in memory: no call forgets to mark what it changed or evicted, no flush forgets a change made meanwhile |
| `CapHolds` | a collection with a cap stays within it |
| `OldestGoFirst` | room is made by dropping the oldest, no more than needed, and never what the call brings while older ones stay |

The exceptions are an `insertMany` that throws on a duplicate id behind others: those it has
inserted are neither marked nor trimmed (`src/store/collection.js:101`); nothing in the server
calls it. A `set` of a known id keeps its place in the order.

Run `collection` (128,968 states): three ids in two partitions, two versions of a document,
room for two, batches of two, three calls. A third id is needed for an eviction; a partition of two
for an eviction in the partition of the call and in another one. `CHECK_DEADLOCK FALSE`: the calls are
bounded.

Data left out: a batch without documents, a close whose flush fails, ids made by the store.

### History

State. That of a `Collection`, whose documents are rows, and: `running` and `listening` (the process
and the listener), `slot` (publisher of each path, disconnected or not), `createTime` of the sessions,
and `walk`, a client that reads one page after another. A path is the set of terms it contains,
which is what a search asks.

Actions. `Start` and `Ready` are the two sides of the `await` in `run()`; `Publish`, `Disconnect`, `Resume`
and `Finish` a publish, where `Finish` has the listener with its `insert`, whose exception is
caught; `DeletePath` and `DeleteAll` are `deleteHistory`, `BeginWalk` and `ReadPage` `listHistory`.
`Flushes` are the store's; `Ends` is a stop or a crash.

| Property | Says |
| --- | --- |
| `PagesMissNothing` | `PagesCover`: whatever the query and the page size, each place of a page has a row with no more newer ones than there are places before it, and no more earlier ones than places behind it, the pages hold every row that is asked for, and the count is right; and `WalkSeesAll`: a client that turns the pages while publishes end sees each row that was there all the time, unless a row went meanwhile |
| `ClientsRecorded` | each publish of a client that ends while the server listens has a row |

Run `history` (537,913 states, under two minutes): two sessions of a client on one path, which differ
in nothing (symmetry), and a relay pull on another, two processes, room for two rows, pages of two and
a walk with pages of one, which may begin at any time, after deletions as well, five queries.
`CHECK_DEADLOCK FALSE`: sessions and processes run out.

Two things that the documents say are not so. `docs/api.md:485` caps the history at
`store.maxHistory`; `open()` makes the collections it finds on disk without options
(`src/store/lightweight_store.js:176`), and the options that `src/server/history_server.js:40` gives
are then ignored, so that after a restart there is no cap (`HistoryIsCapped`; `CapHolds` excepts it).
`src/server/history_server.js:16` says that relay pulls are recorded; a pull keeps its session over its
connections, a row has the id of the session, and the second publish throws in `insert`
(`AllRecorded`; `ClientsRecorded` excepts it).

Data left out: publishes that end before the store is open or are live at a stop, for which there is no
listener; the text of the query's parameters, and queries that are refused; dotted paths, `$regex`, and
comparisons of mixed types in `Query`, where a field that is `null` in one document and missing in another
makes an inconsistent order.

### Sampler

State. `samples` and `networkSamples` are the windows, `lastSample` and `due` the time of the last
sample and of the next tick of the timer. `publisher` and `subscribers` are the sessions of a path,
`inBytes` and `outBytes` their counters. `carried` records what went over a path, and what the sessions that
came to it had counted by then.

Actions. `TimerSample`, on time or late, and `ReadSample`, the sample that a reader takes when the last one is
old; `Sample` has `_pushSample` with its rebase. `Publish`, `ResumePublish` (`_resumePublish` hands the counters on),
`FinishPublish`, `PostPlay` and `DonePlay` are the sessions, `Receive` and `SendBuffer` their traffic, `Tick` the clock.
`Receive` counts for every session that has a socket: `onData` (`src/session/rtmp_session.js:114-117`) adds to
the counters before the parser sees the data, so that an RTMP client publishes with the bytes of its
handshake and its commands counted; a player, or a client whose publish is refused, counts as well.

| Property | Says |
| --- | --- |
| `RatesAreCarried` | no rate is negative or more than what its sessions carried in the ticks of the window and brought along when they came in these ticks |
| `SamplesAreSpread` | of three samples in a row the last is an interval after the first, whoever took them |

A session brings to a path all it has counted, and the next sample shows that as the rate of a moment:
of an RTMP client the handshake and commands, some 3 KB, on a path that is listed because a viewer
waits on it; of a relay session, which lives over its reconnections, all it ever carried.
`RatesAreCarried` has no exception for this: it says that such bytes show up once, in the window
in which the session came, and that there is no other source of traffic that was not there. A replaced publisher
begins a new window only if its successor has counted less (`src/core/rate_sampler.js:151`; the comment in
lines 19-23 speaks of every replacement).
A viewer that leaves makes the sum of the viewers'
counters smaller, which rebases the counter of the publisher as well: its rate is 0 for one interval
although it sends (`src/core/rate_sampler.js:151`; the comment in lines 19-23 names only a replaced
publisher).

Run `sampler` (1.6 million states, a minute): one path, two clients and a relay session, a window of
three samples, two ticks between samples, two bytes on the network, two bytes each way counted for the
path, four ticks, after which a window has moved. Two bytes are enough for one that comes before the publish
and one after it, for one that was sampled and one that takes its place, and for one that a relay session
brings back. `CHECK_DEADLOCK FALSE`: time is bounded.

Data left out: a clock that is set back; that a record session counts its stream and not the network
(`src/session/record_session.js:88`).

## 3. Proofs

`Broadcast_proofs` proves, for every set of sessions, objects and addresses:

| Theorem | States |
| --- | --- |
| `TypeCorrect` | `Spec => []TypeOK` |
| `SlotInvariant` | `FollowsConnections`, under `OneCommand` |
| `RegistryInvariant` | `RegistryInOrder`, under `OneCommand` |
| `OrphansInvariant` | `OrphanedOnlyByTakeOver` |
| `OneClientOneBroadcast` | `OneBroadcast`, if all clients have one address |
| `StatsInvariant` | `StatsSpanReconnects`, under `OneCommand` |
| `EndedOnceInvariant` | `EndedExactlyOnce`, under `OneCommand` |
| `ImplementsPublication` | `Spec => KeepsPublication`, under `OneCommand`: `Broadcast` implements `Publication` |

Assumptions on the constants: the three kinds of sessions are disjoint and `None`
is neither a session nor an object; the configuration flags are Boolean.
`OneCommand == MaxCommands = 1` is a hypothesis of the theorems that need it.

Argument. `SlotInv` strengthens `SlotFollowsConnection` with the types, with
`Bound` (who has sent a command is bound and open or closed; who has not is bound
to nothing) and with the fact that a timer runs only for an occupied slot. It is
needed because a newcomer must be known to no object: `CommandFromNewcomer`.
`LedgerInv` adds what the counters need: each publish has a first session
(`Rooted`), is in one slot at most (`InOneSlot`), and does not change while it is
held (`FrozenInGrace`); rows belong to publishes that have left their slot
(`RowsOfEnded`), and each publish has a slot or a row (`SlotOrRow`). One lemma per
outcome of `postPublish`, one for the timer and one for a viewer then show that
the ledger is kept. `RegistryInv`, that only takeovers orphan an object, needs the
types only. That an object is left empty in the registry only by a refusal
(`EmptyInv`) needs in addition what `LedgerInv` says of who is bound to what:
`OnlyFlvRefusedStep`.

The refinement mapping (`PhaseOf`) reads the phase of each session's publish from the slots, the
timers and the history. `PhaseTable` says that `LedgerInv` leaves it no choice: who is in a slot is
live or held as the timer tells, who has left it is ended or resumed as the history tells. Each action then
has one lemma that names the step of `Publication` it is, or says that it is none:
`PublishStarts`, `PublishIsResumed`, `PublishIsReplaced` (a takeover ends the publish of the previous
session and starts one, in one step), `PublishIsLost`, `PublishIsWatched`, `PublishEnds`,
`PublishIsLeftAlone`.

`Store_proofs` proves, for every set of collections and all bounds:

| Theorem | States |
| --- | --- |
| `StoreTypeCorrect` | `Spec => []TypeOK` |
| `AlwaysScheduled` | `DirtyIsScheduled` |
| `ForgetsNothing` | `NothingForgotten` |
| `FilesStayWhole` | `WholeFiles` |
| `ExitSaves` | `HookSaves` |
| `ContentsMoveForward` | `NothingGoesBack` |
| `AcknowledgedStays` | `AckedSurvive` |
| `AllInSight` | `ChangesInSight`: `DirtyIsScheduled` and `NothingForgotten` |
| `KeptOverRestarts` | `SavedIsKept`: `AckedSurvive` and `HookSaves` |

Assumptions: `None` is no collection, the bounds are natural numbers.

Argument. Four layers, each an invariant that needs the one before. `TypeInv` adds to
the types that a set handle names a timer that will fire (`HandlesArmed`), without
which `clearTimeout` could not be counted. `ControlInv` says when there is a task, a
job or a hook at all; `ScheduledInv` is `DirtyIsScheduled` on top of it, because a job
that fails must find the task that will retry. `DataInv` is about contents: memory is
not older than a file or a snapshot, a temporary file about to be renamed holds its
snapshot, and `NothingForgotten`. `EndInv` adds what the exit hook has and has not
written. `NothingGoesBack` follows from one step of `EndInv`. `AckedInv` adds that what
a waiting caller was promised is in memory (`FloorsInMemory`); when its task
resolves nothing is dirty or being written, so `NothingForgotten` puts it on disk,
and `NothingGoesBack` keeps it there.

`Recording_proofs` proves, for every set of sessions, objects and record sessions,
every assignment of addresses and all bounds:

| Theorem | States |
| --- | --- |
| `RecordingTypeCorrect` | `Spec => []TypeOK` |
| `OneRecording` | `RowsMatchRecordings` |
| `StopClosesRows` | `CleanShutdown` |
| `RecorderFollows` | `RecorderFollowsStream` |
| `NothingUnrecorded` | `AutoRecordsAll` |
| `RowsTellTruth` | `RowsInOrder`: `RowsMatchRecordings` and `CleanShutdown` |

Assumptions: publishers, viewers and record sessions are disjoint and `None` is none
of them and no object.

Argument. `RowsInv` adds to the types that only a process whose record server is at
work has a recording, so that an exit leaves nothing to be closed. `FollowInv` adds
that a running recording is subscribed to the registered object, that a slot which
is held is the one of the registered object until a takeover splits the two
(`PublisherRegistered`: otherwise an event could start a recording of another
object than the one published to), and that whoever publishes before the record
server is at work is in `unrecorded`. The lemmas `StopFacts` and `StartFacts` say what
record sessions that stop and start do; `EventRows`, `EventJoins` and `EventReplaces`
say what a `postPublish` event does, for the outcomes of `postPublish` to cite.

`Rtmp_proofs` proves of `Relay`, for every set of sessions and clients, both modes and every
configuration of reconnections:

| Theorem | States |
| --- | --- |
| `RelayTypeCorrect` | `Spec => []TypeOK` |
| `HoldIsConnected` | `HoldsWhileConnected` |
| `TaskNeverIdle` | `NeverIdle` |
| `ClosedIsClosed` | `ClosedStaysClosed` |
| `RowFollowsTask` | `RowOfTask` |
| `LivesWithTask` | `TaskLifetime`: the two before |

Assumptions: `None` and `Other` are no sessions, the number of attempts is natural.

Argument. `BoundInv` adds to the types that a client keeps its session and that a call
waits for a client of its own session (`ClientsBound`); this is what makes the close of
a stale client harmless to other tasks. `HoldsInv` adds that a task only pulls
or only pushes (`Roles`). `ControlInv` joins `NeverIdle`, `ClosedStaysClosed` and
`RowOfTask`, because a reconnection is refused only to a closed session
(`ReconnectAsked`), a session in the list was started, and none runs in a process
that is down. `OneSession` says once that a step of one session leaves the others
their reasons to run.

`Chunks_proofs` proves what chunks and commands do, for every chunk size, message, chunk stream,
time and value:

| Theorem | States |
| --- | --- |
| `ReadParts` | where TCP cuts the stream makes no difference to the parser |
| `AfterRead` | what a parser reads does not depend on what it has handled |
| `ChunkReads` | a chunk of any of the four forms completes its message, which is handled once, or is kept |
| `MessageReads` | a message in chunks is handled once, as it was, and nothing of it is left behind |
| `EncodeCells` | AMF0 writes payload, never anything that a reader takes for a header |
| `CommandReads` | a command is read under its name, and its first values under theirs |
| `FineRead` | a parser without media without payload in it, on a stream without, hands on none and keeps none |

`Rtmp_proofs` proves of `Rtmp`, for all servers, values, chunk streams and sizes:

| Theorem | States |
| --- | --- |
| `AlwaysWhole` | the inductive invariant, `RtmpInv` |
| `PromisesSettled` | `NoPromiseLost` |
| `ViewerSees` | a viewer that rests where a message ends reads each message it is sent once, as it was, and rests again |
| `ViewersKeepStep` | `ViewersInStep` |

Assumptions: chunk sizes are positive, the chunk streams of media are those that the three forms of
the basic header can name, `Infos` are AMF values, the commands of both ends are ASCII.

Argument. `NoPromiseLost` is about the client, but it is not inductive without the rest of the
connection: a promise is settled by what a server answers, which depends on what it read of the
client. `Whole` says it of all parts together. `ClientOk` relates the promises to where
`connectAndStart` stands. `Shakes` says how far the handshake is when the signatures under
way are read: this is what makes the handshake's promise settle, and only once. `WiresOk` says that
what is under way to the server, read by its parser as it is now, gives only questions of the client
(`Hearing`), in the chunk size that the server goes by at that point. `ServerOk` follows: a server
was asked nothing but such a question. `Before` and `Asked` tie the state of the server to the handshake.
`EncoderOk` keeps the types of the media. `Hearing` is carried along by the lemmas on chunks: one more
message is written (`HearOne`), and read like the ones before it.

A read handles any number of messages, so that the claims about `HandleData` and `ServerRead` are
inductions over a fold (`SignaturesTaken`, `MessagesHandled`); what a step of a fold
does is said field by field (`SettledFields` and its like).

`ViewersInStep` is about the far end of the server, after two parsers. `ViewerSees` is its half of the matter:
what `chunksCreate` writes of a message that has payload is read by a player as that message, at
any chunk size, and the player is then where the next message begins. The other half is that the client hands on
no media without payload unless the server has sent some, and this is not inductive by itself:
`FullMedia` says it of the client's parser, of all that is on the way to it, of the chunks that a
server of another make has begun, and of the viewer. `FineRead` carries it through a read, whatever
the parser does with the chunks, those of a header that is not there and of a size announced within a message included.

`Media_proofs`:

| Theorem | States |
| --- | --- |
| `MediaTypeCorrect` | `Spec => []TypeOK`, with the limit of the cache |
| `LateViewersCatchUp` | `ViewersInStep` |
| `CacheStartsAtKey` | `StartsAtKey` |
| `JoinersDecode` | `JoinDecodes` |
| `JoinersPlay` | `JoinersCanPlay`: the two before |
| `TimelineGoesOn` | `Timeline` |
| `SamplerTypes` | `SamplerSpec => []SamplerTypeOK` |
| `RatesCarried` | `RatesAreCarried` |
| `SamplesSpread` | `SamplesAreSpread` |

Assumptions: the limit and the bounds are natural, `None`, `Foreign` and the
configurations differ. Of `Sampler`: the sessions are finitely many, a window has two
samples or more, an interval and a second are some ticks.

Argument. `CacheInv` adds to the first two that serial numbers are below the next one
(`Numbered`): a new packet is behind all others, so it can neither precede the key
frame nor leave a gap. `NextShape` says once that a step is a packet, a
drop of the caches, a viewer, or leaves them alone. `DecodeInv` adds that what the holder
announced is what the server caches, and that an encoder is forgotten with its
connection. `TimeInv` adds that `_lastDts` is where the viewers are, or the track
stopped on a header; that the offset is where they were; and that an object
whose slot is free has no timeline.

For `Sampler`, `SpreadInv` adds to `SamplesAreSpread` who took the last sample: the timer, which is
then not due for an interval (`last + Interval <= next`), or a reader, and that an interval after the sample
before. Neither half alone is inductive. `FairInv` relates the samples of a window to each
other (`Follows`: neither time nor counters go back, and counters gain no more than was carried) and to
the counters of now (`Reaches`, which lets them decrease: the rebase of `_pushSample` then begins a
new window, `Slides`). What a step adds to the counters of a stream is no more than what it carries
(`Earns`): this needs that a session publishes one path or plays one (`Roles`), and that the sum over the
viewers does not depend on the order in which they are added up (`SumWithout`, `SumAtMost`). A session
that comes to a path earns it what it had counted (`PublishEarns`, `PlayEarns`); one that resumes gives up its
own counters for those of its predecessor (`ResumeFewer`).
`FairShows` turns it into rates, with the rounding (`Quotient`).

`Rtsp_proofs`, for every number of tracks, all policies and all bounds:

| Theorem | States |
| --- | --- |
| `RtspTypeCorrect` | `Spec => []TypeOK`, with the limit of the attempts |
| `OneCallAtATime` | `OneCall` |
| `NeverStranded` | `AnswerOwed` |
| `CleanEnd` | `EndsClean` |
| `AttemptsInOrder` | `OneCallThenNone`: `OneCall` and `EndsClean` |

Assumptions: there is a track, a policy's limit is within `MaxAttempts`, the wire has room
for two messages.

Argument. One invariant, `RtspInv`, because the parts need each other: `Phases` relates the
state of the socket to what is awaited and to what the session may still do, `PendingOfCall`
says that the request of the call is the only awaited one that is pending, and `Answerable`
that this request, while the connection is open, is with the server or its answer is on the wire. The
first makes a timer exclude a live call (`OneCall`); the last two give `AnswerOwed`, because
what a challenge takes out of `pending` it puts back under a number that was never used.

`Rtsp_proofs` proves of `Depayloader`, for every range of sequence numbers and of timestamps, every limit
and every set of configurations:

| Theorem | States |
| --- | --- |
| `ClockIsExact` | `ExactClock` |
| `UnitsAreWhole` | `WholeIfInStep` |
| `FragmentsReturn` | `FragmentsComeBack` |
| `FramesUnderHeader` | `UnderItsHeader` |
| `SectionsStayApart` | `SectionsApart`, for descriptions of any length |

Assumptions: the limit is within the range of sequence numbers, a picture has no more packets
than the limit, and the camera runs for less than half the range of timestamps
(`2 * MaxTime < TsRange`; with the 2^32 of the code and 90 kHz that is six and a half hours,
the bound within which a difference of two timestamps tells forth from back).

Argument. Lemmas on remainders (`ModDef`, `Remainder`, `Distance`, `DistanceBack`) say what the
code's subtraction modulo the range gives: a distance shorter than half the range comes back, with
its sign. `ClockCounts` is the invariant of the clock: `elapsedTicks` is the distance from the first
packet that was returned to the latest one, and `lastRtpTimestamp` the time of the latter;
`LatestTime` is what follows for the packets broadcast. `CameraInv` keeps the types and the order of
a camera's packets. `FuInv` says of the fragments held of a unit that began in step (`FuHeld`) that
they are the first ones of that unit, without a hole, and how far the camera can be by now: because a
picture has no more packets than the limit, a fragment that is missing is always seen as a gap, and
the unit is dropped. A track that is not set up has been sent nothing (`NotSetUp`).

`FragmentsComeBack` needs to know how far behind a track can be. `Recovers` bounds the distance from
`lastSeq` to the camera (`Lag`): either the track is in step, or it is behind by more than the packets
received since the last one that was missed, and by less than the limit. `UnitArrives` then says that of a
unit whose fragments were all received in step again, all are held. `CameraUnit` is what the camera
sends in fragments.

`UnderItsHeader` is about three places that hold a configuration: the sets the track has been told, the
record made of them, and the frame. `HeaderInv` says that what was told is of the camera's
configuration, and that a viewer has the record if it was emitted; `OutInv` that no frame goes out before a
record that is there. The hard case is a unit whose fragments began under the configuration before, and end
after its successor has been told: `FuSource` follows the time of the fragments held to show that
the camera's clock has moved since, so that they are dropped (`Fresh`). `Right` says of each handler what
it may return, and the folds over the units of an aggregate get an invariant each, by induction on
the number of units.

`SectionInv` says of the lines read so far what the session is: there is a line each media began with
(`Places`: in order, none left out), the media agrees with what follows that line up to the next `m=`
(`Agrees`), and the media that lines are added to is the one whose section has not ended (`Located`). One lemma for each
kind of line shows that one more line keeps it. `SectionsApart` numbers the sections by counting, which
`Places` turns into the position in the list, by a bijection.

The induction theorems of the library take an operator and cannot be instantiated. The inductions here
write out the set of numbers a claim holds for, and show that none is the smallest that is missing.

`Collection_proofs`, for every finite set of ids, all partitions, every cap and every set of
documents:

| Theorem | States |
| --- | --- |
| `CollectionTypeCorrect` | `Spec => []TypeOK` |
| `NothingForgotten` | `UnmarkedIsSaved` |
| `WithinCap` | `CapHolds` |
| `OldestMakeRoom` | `OldestGoFirst` |
| `HistoryTypes` | `HistorySpec => [](TypeOK /\ HistoryTypeOK)` |
| `ClientsAreRecorded` | `ClientsRecorded` |
| `NothingIsMissed` | `PagesMissNothing`, for every query and page size |

Assumptions: the ids are finite, each has a partition, the cap is positive; changes keep a
document a document (`ChangesAssumption`). Of `History`: documents are rows, a page has a place, what a
request asks for is a time or nothing (`HistoryAssumption`).

Argument. The layers are `TypeInv` (stamps tell entries apart, and a closed store has no marks and no
flush), `SavedInv` (what is not marked is on disk or in the snapshot being written) and `CapInv`.
Counting is the hard part, because `_trim` drops as many of the oldest as there are too many.
`AsManyAsIds` bounds the entries by the ids; `OldestCount` says that the entries with
fewer than n older ones are n, by counting the injection from an entry to its rank; `Trimmed` then says
that what `_trim` leaves is the newest `Cap`. `WithBrought` and `WithReplaced` say what a call has
brought before it trims, `BeforeClash` what an `insertMany` has inserted before it throws, `Loaded`
what `Open` makes of the files.

`History` uses these layers: each of its steps is a step of the store, with what `TypesInv` keeps of
slots and sessions. `RecordsInv` adds `NewcomersAreNew`, that a client which publishes, or has not yet,
has no row, so that `insert` does not throw for it. `PagesCover` is again counting: `Sorted` gives
each row a rank, and a page takes the ranks between two numbers. `WalkSeesAll` is not inductive;
`WalkInOrder` adds that, as long as no row went, the rows of the walk are still asked for and those
that rank before the next page have been seen, because a row that is inserted pushes others back
and never forward.

Only model-checked:

- `MessagesArrive` and `BothAgree` of `Rtmp`;
- liveness (`EverythingEnds`, `Saved`, `GetsThere`, `CallEnds`), which is out of reach of the prover.

## 4. Not modelled

Properties that a document or a comment states, that the code does not keep, and that no run
checks; each is in its module with the line that states it, next to the property that holds instead:

| Module | Property | Instead |
| --- | --- | --- |
| `Broadcast` | `OneBroadcast`: all of a path goes on in one object | `RegistryInOrder` |
| `Store` | `FilesAreComplete`: a file is complete at any point | `WholeFiles` |
| `Store` | `ExitFlushes`: the exit hook saves everything | `HookSaves` in `SavedIsKept` |
| `Relay` | `ReleasesAll`: a closed session has no open connection | `HoldsWhileConnected` |
| `Media` | `TimelineContinuous`: time does not run back in a publish | `Timeline` |
| `Rtsp` | `SilenceEnds`: a silent server does not hold the session | `AnswerOwed` |
| `History` | `AllRecorded`: publishes of relay pulls have rows | `ClientsRecorded` |
| `History` | `HistoryIsCapped`: the history is capped | `CapHolds` of `Collection` |

Parts that are left out, and why:

- *Byte formats.* `flv.js`, `rtcp.js`, the codec headers of `src/core/av*.js` and `sps_info.js`, and the text of
  SDP lines map bytes to fields, without state that lasts; they are a matter of unit tests. The sender
  reports of `rtcp.js` change nothing but a log line.
- *Notify.* A POST per event; its only effect is that a refusal closes the session, and the sessions of
  the models close at any time.
- *Management API.* Login, tokens, passwords and server-sent events. Where it changes another
  component it is in that component's module.
- *Configuration.* One thing was met while reading. `updateConfig` (`src/api/handlers/config.js:211`) and
  the password handlers (`src/api/handlers/auth.js:206`, `:277`) write the whole of `Context.config` back to the file. That object
  holds the overrides of the command line and the paths made absolute, whereas `bin/app.js:38-39` says that
  values of the command line are never written back. It is a sequential flow of two calls, for a
  unit test rather than for a model.
- *Process start and stop.* A `stop()` while `run()` awaits the store (`src/index.js:81`): the record,
  relay and history servers would start after they were stopped.
- *Sessions.* More than one command on a connection is in the actions of `Broadcast`, but not in the runs (`MaxCommands` is 1);
  a stream name that `onConnect` refuses and the parser still publishes
  (`src/session/rtmp_session.js:56`) is not.
- The web admin, a client of the API; the logger; the command line; vendored code.

## 5. Plan

What would come next, in this order:

1. `Broadcast` with two commands a connection and with refused stream names: the slot then follows no
   longer one connection, and the properties have to say what is left behind.
2. The life of the process over its servers, with a `stop()` at every `await` of `run()`.
3. Proofs of `BothAgree` and `MessagesArrive`. What they need: that both ends go by the
   same chunk size at every message, and that there is one question at a time.
