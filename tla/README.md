# Fast-Sub: a TLA+ model of the daemon and the desktop

Fast-Sub makes subtitles. An Electron desktop (`desktop/`) starts a Go daemon
(`cmd/fast-sub-go`, `internal/`) and gives it jobs over REST; the daemon runs
them one after the other with media tools and speech and translation models,
tells their progress over server-sent events, and keeps what it has to remember
in one directory per job. This directory models the parts of that system whose
behaviour depends on the order of things: goroutines, promises, crashes, clients
that come and go, answers that arrive late.

## 1. The system

### Inventory

| Component | State | Operations | Hard behaviour | What makes it correct |
|---|---|---|---|---|
| Job manager, `internal/jobs` | maps of jobs, requests, event logs, running slots; queue; `job.json`, `request.json` | `Create`, `enqueue`, `schedule`, `run`, `Cancel`, `Delete`, `Events`, `Shutdown`, `recoverJobs`, `saveJob` | one mutex, but files are written outside of it; goroutine per job; crash between any two steps; shutdown under load | statuses follow the state machine, queue and slots agree with them, limit, FIFO, cancel prevails, nothing runs twice or comes back |
| Job events, `internal/events`, `internal/daemon/sse.go` | `nextID`, `events.jsonl`, subscribers and their channels | `Append`, `Replay`, `Subscribe`, unsubscribe, replay and stream of a connection | fanout outside the lock, slow and leaving clients, restart | ids in order, what was shown can be replayed, an append never waits or fails for a client |
| Daemon server, `internal/daemon` | token, mux, config view | handlers, start and stop of the HTTP server | handlers still run while the manager shuts down | covered by the job manager's handlers |
| Transient secrets, `secrets.go` | references with expiry and a consumed flag | `create`, `consume`, prune | consumed before the job exists; gone after a repair | a job that needs a key never runs without it |
| Configuration, `config_handlers.go`, `internal/config` | the view in memory, the file | load, GET, PATCH | persisted after the unlock | daemon, file and screen agree once everything is answered |
| Desktop process manager, `daemonProcess.ts` | child, session | `ensureStarted`, `repair`, `stop` | concurrent starts, timeout against ready line | no daemon lost by a crash, a timeout or a repair, and none left at quitting |
| Desktop client, `daemonClient.ts` | session in use, attempts, `nativeDependenciesSynced` | requests, event stream, job creation with key and repair, mapping of records | retries after a repair, answers lost on the way | a call makes one job, and is answered |
| Native dependencies, `nativeDependencies.ts` | task, install state, directories | look, install with fallbacks, package manager, watchdog | two windows, hung children, failed downloads | one installation at a time; the working pair goes only for one that was checked |
| Shell, IPC, secret store, `index.ts`, `ipc.ts` | channels, streams of a window | quit, saved keys, walk over folders | quit during a start | with the process manager and the files |
| Web translation, `runner_translate.go`, `web_translation.py`, `web-translate-helper/` | one request, one helper process | attempts, validation, hosts, deadline | three deadlines one in the other; the second host | what the job takes for text is text of a host; Python always goes on |
| Renderer: jobs, `AppShell.tsx` | card, screen, subscription, batch, dialogs | start, batch, retry, cancel, delete, open, events | handlers that wait while others run | no event of a lost subscription, no upload unasked, a batch ends |
| Renderer: settings, `AppShell.tsx`, `settings.tsx`, `setup.tsx` | config, providers, models, drafts | patch, keys, checks, installs, reload | overlapping reloads, optimistic patch, refused patch | screen, daemon and file agree; one live check |
| Renderer: paths and media, `main.tsx`, `AppShell.tsx`, `index.ts` | paths of a job; list of files | output path, repair, open; import, walk, drop | damaged names, two imports at once | the file opened is the one asked for; the last choice wins |
| Renderer: queue, `queue.tsx` | filter, selection, log panel | select, bulk actions, load logs | lists older than the daemon | nothing is deleted that was not seen over; lines of the job shown |
| Renderer: pages, `AppShell.tsx` | page, two stacks | links, menu, back, forward | pages replaced by timers and answers | back and forward lead where the user was |
| Model installer, `internal/models`, downloads, `internal/downloads` | lock file, staging and final directory, partial files | `Install`, `Remove`, `Verify`, `Download` | two processes, stale locks, crash between remove and rename, resume of another version | an installed model stays, and what a crash leaves is no obstacle |
| Runners, `internal/jobs/runner*.go` | files of a run | extract, transcribe, translate, burn in | cancel during a step, output conflicts | one terminal outcome, no partial output |
| Subtitle refinement, `internal/subtitle` | none | pure functions on cues | boundaries | ordered, disjoint cues |
| Python command line, `src/fast_sub` | files of a run | sequential pipeline | the predecessor of the daemon | not modelled |

The desktop calls the daemon over HTTP. Each handler of the daemon calls the job
manager in its own goroutine; the manager calls a runner in a goroutine per job,
and the runner calls back to append events. The event store of a job is shared by
the goroutines that append and by the connections that stream it. Components meet
again on disk: the manager reads at its start what it wrote in an earlier life,
and so does the event store.

In the desktop everything runs on one thread per process, and is interleaved at
every `await`: the renderer calls the main process through a bridge, the main
process asks the process manager for a session, starting a daemon when there is
none, and sends its request there. Events come back the same way. App keeps
copies of what it was answered, and each function of App that waits goes on later
with what it knew before.

### Which module is about what

| Part | Modules | Section |
|---|---|---|
| job manager | `JobManager`, `JobLifecycle`, `MCJobManager`, `JobManager_proofs`, `JobHistory_proofs` | 2 |
| job events | `EventStream`, `MCEventStream`, `EventStream_proofs` | 3 |
| main process | `DaemonProcess`, `DesktopMain` (extends it), `NativeDependencies`, `Environment`, `MCDesktop`; `Desktop_proofs`, `Installs_proofs` | 4 |
| web translation | `WebTranslation`, `MCDesktop`, `Desktop_proofs` (its second part) | 5 |
| model installer, downloads | `ModelInstall`, `MCDesktop`, `Installs_proofs` (with the native dependencies) | 6 |
| renderer | `AppState`, `FastSubClient`, `Configuration`; `AppJobs`, `AppEvents`, `AppSettings` on them; `OutputPaths`, `MediaFiles`, `QueueScreens`, `PageHistory`; `MCRenderer`; `AppJobs_proofs`, `Screens_proofs`, `Files_proofs` | 7 |

Each layer meets the one below it by what it can answer: `DesktopMain` knows of a
daemon only that it serves, dies, refuses; `FastSubClient` knows of main process
and daemon only the statuses, snapshots and events that `JobManager`,
`EventStream` and the retries of `DesktopMain` let through. Composing the layers
step by step is beyond TLC.

### Plan

1. `JobManager`, `JobLifecycle`, their runs and proofs (done).
2. `EventStream`, its runs and first theorems (done).
3. The desktop: `DaemonProcess` with `DesktopMain`, `NativeDependencies`,
   `Environment`, `WebTranslation`, the renderer in its parts (done).
4. `ModelInstall`: the installer with its lock file, staging, downloads and removal,
   for two processes and crashes, and its theorems (done).
5. Theorems about the desktop: the process manager and its callers, the installer,
   web translation, pages and queue, App's jobs (done); about App's settings (left).
6. The order of the events of a job: `JobManager` and `EventStream` composed (left).

## 2. The job manager

### Modules

* `JobManager.tla`: the manager. A step is one critical section of `m.mu`, or one
  file operation made outside of it. Threads are the HTTP handlers (`Callers`),
  the goroutine that runs `NewManager` (`Main`), and `go m.run(..)` of each job,
  named as its job. `pc`, `arg`, `op` say where a thread is, the job it works on,
  and the transition whose event and file it writes; `AfterAppend` and
  `AfterSave` continue the function the code would return to.
* `JobLifecycle.tla`: what the manager promises of each job, as its status moves;
  `JobManager!Implements` instantiates it with the statuses of the jobs in the map.
* `MCJobManager.tla`: symmetry and state constraints for the runs.
* `JobManager_proofs.tla`, `JobHistory_proofs.tla`: theorems.

| Variable | Code |
|---|---|
| `jobs`, `queue`, `running`, `requests`, `eventLogs` | the fields of `Manager` of these names (keys of the maps) |
| `status` | `Status` of each `Job` object, shared by pointer |
| `signaled`, `daemon` | the context of a job, and of the manager |
| `files`, `disk` | the directory of a job, and its `job.json` |
| `snap` | the status in the JSON a thread is about to write |
| `todo` | directory entries that `recoverJobs` has still to visit |
| `told`, `executed` | history: the answers given to clients, the jobs given to `RunJob` |
| `spoiled` | history: jobs whose `job.json` is not known to be the whole text of one write |

| Action | Code |
|---|---|
| `Create`, `EnsureJobFiles(Fails)`, `Enqueue`, `Reply` | `Create`, `ensureJobFiles`, `enqueue`, `Get` |
| `AppendEvent`, `AppendEventFails` | `appendEvent` with `eventStore` |
| `Events`, `OpenEvents` | `Events`: the `Get`, then `eventStore` |
| `SaveLookup`, `SaveMarshal`, `SaveOpen`, `SavePut`, `SaveFails` | `saveJob`, `writeJSON`, `os.WriteFile` |
| `SchedulePop`, `ScheduleStop`, `Spawn` | one turn of the loop of `schedule` |
| `RunJob`, `Finish` | `run`, `terminalState` |
| `CancelWaiting`, `CancelRunning`, `Signal` | `Cancel` |
| `Delete`, `RemoveEntries`, `RemoveDir`, `RemoveFails` | `Delete`, `os.RemoveAll` |
| `ShutdownCancel`, `ShutdownReturn`, `Exit`, `Restart` | `Shutdown`, the end of the process, `NewManager` |
| `RecoverSkip`, `RecoverInterrupted`, `RecoverWaiting`, `RecoverSettled`, `RecoverDone` | `recoverJobs` |

Definitions named "Faulty" in the modules are variants of an operator with one
plausible mistake; each property is broken by one of them. No action uses them.

### Abstractions

* Progress, stage, result and log files are left out, no decision reads them.
  Two statuses only tell outcomes apart: `succeeded` and `failed`.
* A `Job` is marshalled without the lock while another thread may write it. The
  status it sees is the present one, or `garbled` (a string torn between two
  values) when the job has changed since the lookup.
* Two `os.WriteFile` on one file can interleave: the later one leaves its text or,
  over another text put there since, a mixture (`torn`). A file unlinked while a
  thread writes it is lost with what the thread puts there. A file is truncated before
  it is written, so that a write that fails (`WriteFails`) leaves the old text when the
  file could not be opened, an empty one or a piece when the disk was full after that;
  both read as `torn`. `spoiled` has the job from such a write, from one the process did
  not survive, or from two at a time, until a write that is alone has ended.
* `AppendEvent` is one step, and one that fails leaves nothing that the manager would
  read: the events of a job, half lines among them, are the subject of `EventStream`.
  The steps of `ensureJobFiles` before its `saveJob` are one step, nothing reads
  the directory before `job.json` is there. `RecoverWaiting` puts a job on the
  queue and saves it in the other order than the code, with no other thread alive.
* The 15 seconds after which `Shutdown` gives up, and `serve` that does not wait
  for `Shutdown` at all, are an `Exit` at any moment after `ShutdownCancel`.
* A job id is never given twice (128 random bits).

### Runs

| Run | Instance | Properties |
|---|---|---|
| `jobs_faults` | 1 job, 2 handlers, crash + full disk + shutdown | `IInv`, `StoppedIsQuiet`, `AcceptedIsKept`, `TerminalIsFinal`, `Implements` (with it `CancelPrevails`) |
| `jobs_concurrent` | 2 jobs, 2 handlers | `NoLostWakeup`, `FifoOrder` |
| `jobs_one_client` | 2 jobs, 1 handler, crash, fair | `DeletedStaysGone`, `CanceledNeverStarts`, `CancelSettles`, `QueueDrains` |
| `job_canceled_while_created` | 1 job, 2 handlers | `CanceledNeverStarts` violated |
| `job_runs_again` | 2 jobs, 1 handler, crash | `RunsAtMostOnce` violated |

Bounds. One slot (`MaxRunning = 1`, the value the desktop passes to the daemon) and
two jobs are the least at which a job waits for another; two handlers the least at
which a request meets another one. With two handlers both jobs can be in the queue
before either is popped, so that order is tested. `jobs_concurrent` bounds the
interleaving by `OneWriterNoDelete`: at most one thread in the unlocked part of
`saveJob`, no deletes; `jobs_faults` interleaves savers and deletes freely for one
job. `jobs_one_client` has the first half of that bound (`OneWriter`): its two safety
properties are theorems without it, its two liveness properties are looked at for the
behaviours within it. Runs do not check for deadlock:
clients may stop asking, and a stopped daemon need not be started again.

Fairness (`FairSpec`). Each thread goes on by itself (`Advance`): goroutines are
scheduled and the mutex is held for a few assignments only. `RunJob` returns once
its context is done, because every runner passes it to `exec.CommandContext` or to
an HTTP request: weak fairness of `Finish` then, and of no other `Finish`. Clients,
faults and restarts owe nothing. `QueueDrains` needs the premise `RunnersEnd`, that
runs end by themselves, which a hung worker without a timeout can break.

### What the runs show

A cancel of a running job prevails over a result that arrives before the cancel
function is called; slots are given back on every path; `Shutdown` and the queue
never leave a goroutine behind; a client that waits for its answers sees them hold
over crashes, except for a job whose `job.json` is not the text of one write: the next
start cannot read it and does not list the job. Three things make such a file, and
`AcceptedIsKept` says that nothing else does: a crash inside of the write, a disk that is
full inside of it (the daemon goes on, only `Create` looks at the error), and two savers
at a time, since `saveJob` writes after the unlock.

Two runs show where the code and its documents part:

* A job can be canceled as soon as it is in the map. `enqueue` then sets it to
  queued, and it runs, although the cancel was answered with `canceled`.
* `saveJob` of `enqueue` can write its older `queued` after another thread wrote
  `running`. If the daemon dies then, recovery takes the job for a waiting one and
  runs it again, it is not marked `interrupted`.

With two handlers and a crash `DeletedStaysGone` fails too: an `appendEvent` or
`saveJob` in flight makes the directory or the file of the deleted job again.

### Theorems

Those of `JobManager_proofs` are about `Spec`, for any sets of jobs and handlers, any positive limit and
any of the faults, from the assumptions that names are distinct
(`NamesAssumption`), `MaxRunning` is a positive number (`LimitAssumption`) and
faults are those modelled (`FaultsAssumption`).

| Theorem | Statement |
|---|---|
| `Invariance` | `[]IInv` |
| `TypeCorrect`, `QueueCorrect`, `SlotsCorrect`, `RunnerFindsJob`, `LimitRespected` | `TypeOK`, `QueueSound`, `SlotsOwned`, `RunnerHasJob`, `RunnersWithinLimit`: parts or consequences of `IInv`, which `jobs_faults` checks for them |
| `ShutdownIsFinal` | `[]StoppedIsQuiet` |
| `WakeupsSuffice` | `[]NoLostWakeup` |
| `CancelWins`, `TerminalStays`, `FirstInFirstOut` | the action properties `CancelPrevails`, `TerminalIsFinal`, `FifoOrder` |
| `Refinement` | `Implements` |

`QueueSound` and `SlotsOwned` are not inductive by themselves. That an id is queued
once rests on its creator being the only thread to enqueue it, once, which
`LifeOK` says together with where the goroutine of a job can be; `ControlOK` ties
the program point of a thread to its transition; `RecoverOK` says that `Main` is
alone while it recovers and that a dead process keeps nothing in memory;
`SlotsWithinLimit` counts. Their conjunction with the types is `IInv`: one lemma
per action shows that the action keeps it (`MoveFrame`, `LeaveFrame` and
`SlotsFrame` carry the actions that only move a thread), `NextIInv` puts them
together. `EveryStepIsLifeStep` reduces a step, under `IInv`, to what it does to
`jobs` and `status`; the action properties and the refinement follow from it.
`EveryStepIsQueueStep` does the same for the queue: a newcomer at its end, a removal,
a start of its head, or nothing; `OrderIsKept` follows for each.
`NoLostWakeup` and `StoppedIsQuiet` are inductive relative to `IInv`.

`JobHistory_proofs` is about what clients were told, over any number of crashes and
restarts and for any set of jobs:

| Theorem | Statement | Hypotheses |
|---|---|---|
| `DeletedStaysGoneHolds` | `[]DeletedStaysGone` | `OneCaller` |
| `AcceptedIsKeptHolds` | `[]AcceptedIsKept` | none |
| `CanceledNeverStartsHolds` | `CanceledNeverStarts` | `OneCaller`, no `"disk"` fault |

`OneCaller` says that requests come one after the other, which is how one client
that waits for its answers uses the daemon. It is needed: with two handlers an
`appendEvent` or a `saveJob` in flight makes the directory or the file of a deleted
job again, and `job_canceled_while_created` is the counterexample for the third. A
disk that fails breaks the third with one client, too: `Cancel` does not look at the
error of `saveJob`, so it answers `canceled` with `queued` still on disk, and
the next life of the daemon starts the job. The goroutines of the jobs are not
restricted: they write while the client asks for something else.

The three rest on `IInv` and on `Holds`, what each kind of thread holds at each
point (a thread at rest no job, a goroutine its own or one it popped, a handler the
one of its request, `Main` one it has recovered), which needs no hypothesis. On it
stand three inductive invariants:

* `Marked` and `Accepted`: the client of a job that waits to be accepted finds it in
  the map, and nobody deletes it; it has a file in a directory once `Create` has
  saved it; an accepted one is in the map, or to be visited by the recovery, or
  torn with no thread left to write it. `Explained` adds that a torn file has a writer
  or was `spoiled`, and that one with two writers was.
* `Deletes`, for one client: a request finds its job in the map, except that of a delete, which is
  alone with the job but for its goroutine; a deleted job has no file, and its
  goroutine, should it still save, has no directory to save into.
* `Started`, `Cancels`, `Never`: `RunJob` comes first of what a goroutine does; a
  cancel of a job that never ran keeps it canceled, no other thread writes its file,
  and once it is saved nothing on disk makes the recovery queue the job; the same
  then holds for good. `BesideLeaves` and `WritesLeave` say that what other threads
  do leaves such a job untouched.

Model-checked only: liveness (`CancelSettles`, `QueueDrains`), which is out of the
prover's reach.

## 3. The events of a job

`EventStream.tla` models one event store, the connections that stream it and the
client that reconnects. An event is the number of its `Append`; `idOf` is the id
it was given, which a restart can give again.

| Action | Code |
|---|---|
| `AppendBegin`, `AppendWrite`, `AppendFails`, `Send`, `SendOnClosed` | `Append`: id and subscribers under the lock, then the file, then one send per subscriber |
| `ReplayEvents`, `WriteReplayed` | `Replay`, `replayEvents` |
| `Subscribe`, `WriteLive`, `Unsubscribe` | `streamEvents` with `Subscribe` and its deferred unsubscribe |
| `Connect`, `Disconnect`, `Deliver` | `streamJobEvents`, `streamSSE` of the desktop client |
| `Crash`, `Restart` | the end of the process, `NewStore` |

A line is written by one system call, which the end of the process does not cut, but a
disk that is full does: `AppendFails` leaves nothing (`PutNothing`), a part of the line,
or all of it but its newline (`PutPart`). `cut` is the event of a last line without a
newline. Who writes next writes behind it, one line with it, and no replay can parse that
line: `glued` has the event that was lost so, `cuts` those that were cut. `during` has,
for each event, the appends that were under way when its own began, and `since` how much
the client had read when it last connected.
`Replay` is the id after which events are given; the handler filters what it read
as it writes, where the code filters before it does.
A connection has a channel of its own and is not reused. What a handler writes to a
connection that its client has left is lost. The replay buffer in memory is not
modelled because nothing reads it, `DropReplayBefore` because only tests call it.
`Resumes` allows the client to send `Last-Event-ID` when it reconnects, as
`daemon-api.md:328` describes, or not to. The desktop client never does: it keeps the id
only of a stream that ended without an error, and does not reconnect after one. No
property that is checked or proved needs a client that resumes.

| Run | Instance | Properties |
|---|---|---|
| `events_stream` | 2 appending goroutines, 2 connections, 3 events, crash + write errors | `StreamInv`, `ReplayedOrLive`, `ReadInOrder`, `AppendsEnd`, `NoSubscriberLeaks` |
| `events_client_leaves` | 1 goroutine, 2 connections, 2 events | `NeverPanics` violated |
| `events_gap` | 1 goroutine, 1 connection, 2 events | `NoSilentGap` violated |
| `events_reconnect` | 1 goroutine, 2 connections, 2 events | `SeenInOrder` violated |

Bounds: `MaxEvents` caps the appends, `Attempts` the connections (4 in the client),
`Capacity` the channel (32 in the code). A capacity of one with three events makes
channels overflow; two connections give one reconnect, with the old handler still
subscribed while the new one replays; two goroutines are the least whose appends meet.
`OneCut` bounds the instance further: one write is cut, and the third event, which is the
one to be glued or to come after, is appended only then; the theorems have neither bound.
Fairness: goroutines that append go on; a
handler goes on once its client has left; nothing is assumed of the pace of a
client that stays, so `AppendsEnd` holds for the slowest.

The violated runs: an `Append` that has copied its subscribers sends to a channel
that `unsubscribe` has closed since, which panics and, in a goroutine of the
manager, ends the daemon; and an event written after the replay but begun before
the subscription is never given to the connection, while later ones are. A client that
reconnects is given again what it had: `lastEventId` is assigned when `streamSSE` returns
(daemonClient.ts:692), which a broken connection does not do, although
`round12-electron-daemon-integration.md:152` promises to resume. With two
appending goroutines `SeenInOrder` fails even for a client that resumes: lines can be
written in the other order than their ids, and `NewStore` numbers on from the last line.
What does hold is `ReadInOrder`: on one connection no event comes behind one that was
appended later, where appends that overlap have no order.

### Theorems

All are proved for any number of writers, connections and events, any capacity of the
channels and any faults, from the ranges of the constants.

| Theorem | Statement |
|---|---|
| `StreamInvariance`, `StreamTypeCorrect` | `[]StreamInv`, `[]TypeOK` |
| `ShownIsKept` | `[]SeenIsReplayable`: what a client was shown a later replay has, but for what cut writes took, each its own event and at most one other |
| `OnceInvariance`, `ReplayedOrLiveHolds` | `[]OnceInv`, `[]ReplayedOrLive`: no event comes by the replay and again live |
| `ReadInOrderHolds` | `[]ReadInOrder`, whoever appends and whether or not the client resumes |

`StreamInv` says that whatever is on its way to a client (a send of `Append`, a channel,
what a handler read) has been put into the file (`WrittenFirst`), and that an event is
written by one goroutine, once, and glued to a line to which nothing was glued before
(`CutOnce`). `OnceInv` adds where an
event can be: begun and not beyond the last (`Begun`), in the channel of a handler that
streams (`Channels`), there or still to be sent but not both (`SentOnce`), and, on the
connection the client reads, not seen before (`Unseen`), which rests on subscribers being
taken at the start of an `Append` and events being replayed from the file. `OrderInv` says
that the file, the replay of a handler and its channel are each in the order of appends,
and what was read on this connection, what is replayed, what is in the channel and what is
still to be sent follow each other in it (`Paths`, `Ahead`); it rests on an `Append` that has ended
having no line to write and no send to make (`Unended`). Model-checked only:
`AppendsEnd` and `NoSubscriberLeaks`, which are liveness.

## 4. The main process of the desktop

### Modules

`DaemonProcess.tla` is the process manager: the children it spawns, their ready
line, the session, `stop` and `repair`. `DesktopMain.tla` extends it with what a
caller does with a session. A step is what runs between two awaits of one caller;
a caller is one IPC call or one stream, with `pc` (where it is in the process
manager), `op` (what it does) and `step` (which await of it).

| Variable | Code |
|---|---|
| `child`, `session` | the fields of `DaemonProcessManager`; a pid stands for the session |
| `proc`, `line` | the processes of the system, and the first line each has printed |
| `synced` | `nativeDependenciesSynced` |
| `conn`, `tries`, `aborted` | `streamJobEvents`: the response, the attempts, the abort signal |
| `want`, `ref` | of a `createJob`: whether a key is stored for it (`"unread"`: and the configuration that names it was not read), its transient reference |
| `made`, `keyed` | history: the jobs that the daemon made of a call, answered or not, and whether they got the key |
| `menu` | bound: what each caller may still do |
| `crossed`, `strays` | history: the callers whose start or stop met another's start, and the living daemons of which such a caller lost sight |

| Action | Code |
|---|---|
| `Ask`, `Spawn`, `ReadyLine`, `GarbageLine`, `ChildExits`, `ReadyTimeout` | `ensureStarted`, `startOwnedDaemon` and the handlers it sets |
| `Stop`, `Forget`, `Restart` | `stop`, `repair` |
| `SingleRequest`, `Check`, `RepairDaemon`, `InstallFFmpeg`, `ClearFFmpeg`, `SaveKey`, `CreateJob`, `Subscribe`, `Unsubscribe`, `Quit` | the channels of `ipc.ts`, `before-quit` of `index.ts` |
| `CheckLooks`, `InstallLooks`, `JobLooks` | the answer about ffmpeg |
| `Repaired`, `RepairThrows` | what follows a repair, and which repairs throw |
| `ConfigAnswered`, `SecretAnswered`, `PostHandled`, `PostAnswered`, `PostRefused`, `PostLacksFFmpeg`, `PostFails` | `createProviderSecretRef`, `createJob` with its one repetition; `create` and `consume` of `secrets.go`. A POST is two steps: the daemon makes the job, and the answer arrives, or is lost with the daemon |
| `Connect`, `EventsLost`, `Resynced`, `StreamEnds`, `Retry` | `streamJobEvents` |
| `PrintReady`, `Crash`, `LoseLine` | the daemon |

`NativeDependencies.tla` is about ffmpeg, or about whisper.cpp (`dep`): where they
are looked for (`LookAtConfig`, `LookAtPrivate`, `LookAtPath`), what a call decides
by that (`Answer`), and the task of an installation as a row of stages
(`Prepare` to `Record`), with the fallback of each (`Fallback`), failures
(`StageThrows`), children that hang and the watchdogs that end them (`Hang`,
`Watchdog`). What is downloaded is the published bytes, others that can be run with
`-version`, or some that cannot (`Bytes`): the checksum of Windows tells the first from
the rest, the trial run of macOS the last. The stall of aria2 is judged by the size of
its file, so that one that hangs before it has made the file is never ended
(`"unwatched"`). Package managers are `InstallWithManager`, `ManagerEnds`. It shares no
state with `DesktopMain`, to which an answer about ffmpeg is free.

`Environment.tla` is the way of such an answer to the pages of the renderer. The state is
what the main process knows (`tasked`, `found`), the environment that App shows
(`shown`, a set of at most one) and the functions of App that wait for an answer
(`reads`). `ViewPair` and `LookAndAnswer` are the two looks of
`checkNativeDependencies`, `Serve` what the other calls do before it, `TaskEnds` the
end of `installTask`; `Shown`, `PollAgain`, `GiveUp` are `pollFFmpegInstall`, `Tick` the
timer of the check page, `CallThrows` the fallback of `loadBaseData` and the end of
the others; `ClickInstall`, `ClickAsk`, `GoTo` what the pages offer (`SetupOffers`,
`MainOffers`, `DiagnosticsOffers`).

### Runs `desktop_main` and `desktop_quit`

`MCDesktop` has five scenes, one for `DaemonProcess` with `DesktopMain` and one for each
of `NativeDependencies`, `WebTranslation`, `Environment` and `ModelInstall`; a behaviour
is of one of them.

| Property | Says |
|---|---|
| `OneDaemon` | every daemon that lives is the child that `stop` will kill, or a stray: it was lost where a start met another start or a stop, and by nothing else |
| `QuitLeavesNone` | after the stop of `before-quit` no daemon is left but strays |
| `OneJobPerCall` | whatever is lost or sent again, the answer of a POST whose job was made included, a call makes one job at most |
| `NeverKeyless` | a job that was to have an API key never runs without it, unless the configuration could not be read |
| `CallsSettle` | every call ends, every unsubscribed stream ends |
| `OneInstall` | at most one installation runs, the one of `installTask` |
| `SoundBeforeReplaced` | an ffmpeg that runs is taken away only for one that was checked: by its checksum on Windows, by a trial run on macOS |
| `InstallEnds` | an installation ends, although children hang, but for an aria2 that hangs before its file exists |
| `InstallIsLeft` | the check page does not say for ever that ffmpeg is being installed |
| `AnswerIsTrue` | section 5 |
| `InstalledIsKept`, `InstallRecovers` | section 6 |
| `TypesOK` | types |

The other run, `desktop_quit`, checks `NoneAfterQuit`, `QuitLeavesNone` without strays, which is
what the documents promise, of the two requests of the first screen and a quit after them
(`FirstScreen`, `QuitsAtRest`), without any fault. It is violated.

Liveness is said as `[]<>`: again and again nothing pends.

Bounds. Two callers (`Callers`), two processes (`Pids`: a new one beside a dying
one; a pid is given again once nothing refers to the process; when both are in use a start
fails as it does without an executable), each
caller with the operations of one row of `Menus`, once each. The rows put every kind of
operation against a repair, a quit or an installation, so that each await is
interleaved with a restart. `MaxTries` is 2 where the code has 4. Two requests in
`NativeDependencies` are the least at which one decides on what another changes.
`Windows` is TRUE: `stop` waits for `taskkill` there and only there, which is the
longer interleaving. `Reads` is 2: the timer's load and one other function, whose answers
may come in either order; a timer that finds both waiting skips a turn, where the code
would send one more. `MaxTouches` is 1: an act of the user beside what the pages do by
themselves, such as to leave the page while an installation goes on. The 900 attempts of the poll may be over at any of them
(`GiveUp`). Fairness: promises settle and timers fire, a spawned
child prints, exits or hangs (and then the 15 s end the wait), a server that was
asked answers or drops the connection; an installation ends, which is `InstallEnds`; the
interval of the check page fires as long as the page is there. Clicks, operations, crashes and events of a stream
owe nothing.

What they show. Nothing records that a start is under way, so two callers of
`ensureStarted` spawn two daemons, `this.child` is the later one, and the other is left
when the app quits: `desktop_quit`. `checkNativeDependencies` makes its requests in
`Promise.all`, also at the start of the app (AppShell.tsx:160), so that every start of the
app is such a case. (`round13-electron-productization-release.md:301` and
`round12-electron-daemon-integration.md:100` ask for one daemon and none after quitting.)
That meeting is the only way: `OneDaemon` and `QuitLeavesNone` count the daemons lost
there, `strays`, and hold of every other daemon, also after such a meeting, through
crashes, garbage, timeouts, repairs and quits. A ready line that is in the pipe when its start times out or is
stopped still sets the session, to a dead daemon; a crashed daemon's session stays
until a repair.

Other things met in the code: `getConfig` answers the defaults when the daemon does not
answer, and the key of a job is then looked for under the default name: a job that is
posted to the daemon of the next request runs without its key, or with another one
(daemonClient.ts:427, :642); the answer of a POST that is lost leaves a job that no page
knows of until the next list; `lastEventId` is never sent by a reconnect; a stream
gives up without a word after its attempts; `save-provider-secret` keeps the key
when the patch after it fails; the second body of `createJob` has the reference of
the daemon before the repair, and is refused; a repair in `createJob` or after a key
interrupts the jobs that run; a call that comes after `before-quit` starts a daemon.
In the installer: `installFFmpegWithPackageManager` looks with the flag it has set
itself and so never reports success; `installedNow` never reaches
`checkNativeDependencies`, so that its repair is dead code; macOS and whisper.cpp have
no checksum and macOS tries the binaries instead, by which other bytes that run pass; an
aria2 that hangs before it has made its file is waited for, for ever; a call that looked
before an installation ended can start a second one after it; `downloadFile` has no
timeout.

On the pages: two looks in one answer may disagree, and the check page goes by the
second, the warning above the first page by the first. `pollFFmpegInstall` ends when one
lookup throws, and then only the check page asks on: elsewhere "installing", which
`installFFmpeg` shows before it asks, stays until the user acts. An older answer that comes
last is shown, and on those pages stays. The fallback of a load that fails says that
nothing is being installed and so stops the timer, while the installation goes on.

### Theorems

`Desktop_proofs.tla`, its first part: for any callers, menus, processes and (positive) number of tries
(`MenusAssumption`, `TriesAssumption`), of `DesktopMain`'s `Spec`.

| Theorem | Statement |
|---|---|
| `RefinesManager` | every behaviour is one of the process manager under arbitrary callers (`ManagerSpec`): the steps of calls do to its state only what `ManagerNext` allows |
| `ManagerInvariant` | `ManagerSpec => []ManagerInv`, whoever calls |
| `OneDaemonHolds`, `QuitLeavesNoneHolds` | `[]OneDaemon`; `[]QuitLeavesNone`, and no daemon even while calls are under way after it |
| `OneJobPerCallHolds`, `NeverKeylessHolds` | `[]OneJobPerCall`, `[]NeverKeyless` |
| `TypeCorrect` | `[]TypeOK`; with it, no stream counts more than `MaxTries` failures |

`OneDaemon` says that no daemon is lost but by a caller of `crossed`. It is inductive only with
what the others rely on: the child of a manager without a session is waited for
(`ChildIsAwaited`), whoever is about to spawn and has met nobody is alone with a dead
child or none (`StartsAlone`), whoever stops and has met no start leaves no child alive and
finds none later (`StopsAlone`), and after quitting only strays live (`QuitLeaves`). For
the calls, `JobsOK` says that a `createJob` has made a job exactly while it waits for the
answer of the POST or fetches the job, and that the job has its key if one was wanted and
the configuration was read; `StreamsOK` counts the attempts of a stream.

`Installs_proofs.tla`, its second part: for any requests, platform and dependency,
`OneInstallHolds`, `NativeTypeCorrect`, the action property `SoundBeforeReplacedHolds` and
`PublishedIsCheckedHolds`: whatever bytes arrive, the app's own directory never has an ffmpeg
that does not run, and on Windows never one other than the published. On macOS it may be
another one that runs. The invariant (`OnCourse`) ties a stage to the row of its platform and says
that from the checksum or the trial on an ffmpeg is checked (`Checked`). The copy itself is where a half pair can be;
that it is made good is `InstallEnds`, which is liveness.

Its third part proves `EnvTypeCorrect` of `Environment`, for any number of functions and acts.

`SceneIsOfParts`, at the end of `Desktop_proofs.tla`, says of the instance itself that each
behaviour of `MCDesktop` is one of each of its five parts: scenes restrict how a part begins
and add no step to it. So what is proved of the parts holds of every behaviour that TLC looks
at, and the theorem fails if a scene ever lets one part disturb another. `SceneTypesOK`
(`TypesOK`) follows from the types of the parts (`TypeCorrect`, `NativeTypeCorrect`,
`WebTypeCorrect`, `EnvTypeCorrect`) and, for the model installer, from `PartsInv` of section 6.

Model-checked only: `CallsSettle`, `InstallEnds`, `InstallIsLeft`, `InstallRecovers`
(liveness).

## 5. Web translation

`WebTranslation.tla`: one translation by a web provider, from the daemon's job over the
Python process and its attempts down to one Node helper for each attempt and its
requests. The helper's timer answers (`HelperTimesOut`) and the request goes on
(`HostAnswers`, `HostFails` with the answer already out); Python waits for the
helper to exit, or kills it (`HelperExited`, `HelperKilled`); the daemon stops Python
(`StopJob`). The import of the provider's module can fail before any host is asked
(`ImportFails`). `MapProviderError` is the classification of errors by the signs in their
messages, in its order; `ValidatePayload` and `NormalizeLanguage` are the helper's.

`AnswerIsTrue` says that a text is the text of the host asked last, that once a host was
asked a failure of the provider means that each of its hosts was asked and failed, in its
own names of languages, and that the cues given up are those without a translation.
A failure with no host asked is one of the import, which the helper tells with the same
codes (helper.mjs:37).
Instance: Bing and Google, cues of 1, 1000 and 1001 characters
(the limit of Bing), two retries as in the code, errors with and without the sign of a
status 429 and of a network failure.

Met in the code: the timed-out helper goes on and asks the second host of Google; the
end of the job kills Python, and not its helper; Python repeats every failure, a
refused input and a missing helper included; a text longer than the limit is never
split; three attempts of 60 s are as long as the three minutes of the whole job.

### Theorems

`Desktop_proofs.tla`, its second part, proves `WebTypeCorrect` and `AnswerIsTrueHolds` for any
number of retries (`RetriesAssumption`) and any jobs that are `IsWebOrder`: those for Bing or
Google, from and to any languages, with at least one cue (the code translates nothing for a
file without cues), of any number and length. The inductive
invariant follows an answer on its way up: what the hosts said to the helper
(`HostsAsked`, `InItsNames`), what the helper printed (`HelperAnswered`), what Python made of its
output (`Helpers`), and what was made of the cues before (`Cues`). The pure part is
lemmas: `MapProviderError` answers one of the codes for any signs in a message
(`ErrorsAreCodes`, by `LeastOf`, a least number of a set), and a language that is let
through has a name of the host asked (`LanguagesOnly`, `RequestInItsNames`).

## 6. The model store

`ModelInstall.tla`: the installation of one model, by processes that share the files of
the store and nothing else: jobs of daemons, and runs of `models install`. An installer is
at one of the file operations or requests of `Install` and `Download` (`work`). The lock
file (`lockFile`) is a set of at most one, with who made it, whether its process id has
been written, whether that process is dead, and whether it is old. A content is two
halves, each of a version, so that a part (`staged[f].part`) may be one half, or whole of
one version or mixed; only whole and right has the hash of the manifest. `tagged` are the
sources that send an `ETag` or `Last-Modified`.

| Action | Code |
|---|---|
| `BeginInstall`, `LookAgain` | `Install`: the look before the lock and the one after it |
| `CreateLock`, `WritePid`, `JudgeLock`, `TakeLock`, `Release`, `LockGrowsOld` | `acquireLock` |
| `NextFile`, `Hash`, `SourceFailed` | the loop over the files, and over the sources of each |
| `Inspect`, `AskHead`, `AnswerGet`, `Write`, `WriteMeta` | `Download`: what is there, `shouldRestartForMetadata`, the GET, `copyWithProgress`, the metadata |
| `CheckStaged`, `ClearModel`, `Publish` | the publication: `RemoveAll` file by file, then the rename |
| `Fails`, `Dies`, `SourceChanges`, `RemoveModel` | a failed operation or a cancel; the end of a process; another version on a source; `Remove` |

| Property | Says |
|---|---|
| `InstalledIsKept` | a model that is there whole is taken away by the user only |
| `InstallRecovers` | nothing that a crash or a failure leaves (a lock, half a model, a part or metadata of any kind) keeps a model that is asked for from being installed in the end; but for a complete part of a model with one source (`OnlyRefuses`) |

Both are said until
two processes judge one stale lock at once or one takes the lock of a live installer
(`clashed`), where a behaviour of the scene ends. Bounds: two
installers, the least for a lock; one file in two halves, since files follow one
another with nothing between them but `target`; one source or two (`offered`): an address
has its mirror or none, as three of the built-in models (manifest.go:130); two mishaps, so that a crash meets a failure of the one
who recovers, or two changes a source and back. `SourceChanges` leaves one source right,
or nothing could be installed, and the first of the two sends tags. Fairness: file
operations and requests end, a lock whose process is dead grows old, and who wants the
model asks again; mishaps owe nothing.

Met in the code:

* A lock is never refreshed and counts for 90 s when jobs make it (runner.go:154): the
  lock of any longer download is taken from its live installer by the next job, and both
  write the same part. `go-migration-plan.md:372` asks for a lock for each model.
* Two processes that find a dead lock both remove "it": the second one removes the lock
  the first has just made (install.go:331).
* A process that dies before it has written its process id leaves a lock that nobody can
  judge, until it is old.
* A complete part with its metadata (a crash or a failed rename after the download) is
  asked for from its end on, which a server answers with 416. That source fails for as long
  as the part is there; only the next one, whose address differs from the metadata's,
  starts afresh. A model with one source, of which the manifest has three, is not
  installed as long as the part is there: `OnlyRefuses`, the case that `InstallRecovers`
  leaves out.
* Metadata is written after the body, so that the part of an interrupted body has none and
  is not resumed; it stays in the staging directory after the part got its name, and goes
  with it into the model.
* `Remove` takes no lock.

### Theorems

`Installs_proofs.tla`, its first part, proves for any processes, files and number of mishaps
(`FilesAssumption`, `MishapsAssumption`: they are numbers), `InstalledStays` (`InstalledIsKept`) and `LockExcludes`: until a
clash at most one installer is between the creation of the lock file and its release. The
inductive invariant is `ModelInv`: who is inside made the lock that is there and
lives (`HoldersOwn`), who is about to remove a lock removes that of a dead process and is
the only one about to (`TakersAlone`), and who works on the model does not work on one that
is whole (`NothingToLose`). The last rests on the others: only somebody inside publishes.
One lemma for each action of the lock, one for the loading of files (`WorkFrame` carries
all that leaves the lock alone), one for the publication.

`PartsFit` is about the files themselves: what is asked of a source continues the part that is
there, whatever an earlier process, another source or a change on the source has left
(`AllContinue`), and a part is never longer than its file, on which the types rest
(`ModelTypeOK`). The invariant `PartsInv` follows an installer from the look at the part to the
last half it writes, one lemma for each action of `Download`. It needs `ModelInv`: between the
look and the write nobody else may touch the part, which is what the lock is for. It holds
until two installers clash, when both append to one part; the first attempt to prove the types
without that condition failed there, and `MCDesktop` ends such behaviours. `InstallRecovers` is liveness and
model-checked only, for one file and one or two sources.

## 7. The renderer

### Modules

`AppState.tla` has the choices that App makes by configuration, providers and models
(which provider can run, which model fits, what a patch is normalised to).
`FastSubClient.tla` is what App meets behind the interface `FastSubClient`: jobs,
subscriptions with their snapshot, events and end, lost streams, and the mock backend
with its scenarios. A function of App runs to its first await on a click; the rest of
it runs later, from a slot (`ops`, `calls`), in any order with other clicks, events,
timers and effects.

| Module | Actions | Code |
|---|---|---|
| `AppJobs` | `StartFiles`, `StartTool`, `RetryJob`, `ResolveConflict`, `ConfirmRemote`, `InstallFFmpeg`, `CloseDialog`; `LabelsSaved`, `LookedAtFFmpeg`, `JobMade`, .. | `startJob`, `startToolJob`, the dialogs of uploads, ffmpeg, conflicts |
| `AppEvents` | `Snapshot`, `Progress`, `Heard`, `BurnMade`, `JobsListed`, `DetailsLoaded`, `NextFollowed`; `OpenJob`, `CancelActiveJob`, `CancelJobs`, `DeleteJobs`, `DeleteActiveJob`, `CancelAll`, `Navigate` | `updateFromEvent`, `followNextBatchJob` and the functions of the queue in App |
| `AppSettings` | `BaseLoaded`, `ProvidersListed`, `AutoCheck`, `ConfigUpdated`, `UpdateRefused`, `SecretStored`, `ModelInstalls`, `InstallSnapshot`, `InstallProgress`, `InstallEnded`, ..; `ChangeRow`, `SelectProvider`, `ChangeDraft`, `SelectAsDefault`, `SaveSecret`, `InstallModel`, `RemoveModel`, `CheckProvider`, .. | `loadBaseData`, `updateConfig`, the keys, checks, installations and cards of settings and setup |
| `AppSettings` with `Configuration` | `Merge`, `Persist`, `NotPersisted`, `KeyWritten`, `Restart`; `Loaded`, `ValidConfigPatch`, `MergeConfigView`, `ConfigFile`, `ConfigPatch`, `MapConfig` | `config_handlers.go`, the key handlers of `ipc.ts`, the mapping of `daemonClient.ts` |
| `OutputPaths` | `Create`, `Ends`, `Reload`, `BurnIn`, `Conflict`, `SaveAs`, `Open` | the path of an output through renderer, main process and daemon, and its three repairs |
| `MediaFiles` | `AddFiles`, `AddFolder`, `RemoveFile`, `Leave`, `Walk`, `WalkEnds`, `TimerFires`, `InputAnswers` | the list of files, the walk of `index.ts`, the timer of a large import |
| `QueueScreens` | `RefreshJobs`, `ToggleJob`, `SelectJob`, `CancelSelected`, `DeleteSelected`, `BulkStep`, `ShowJob`, `LogsLoaded`, .. | `queue.tsx` |
| `PageHistory` | `FollowLink`, `OpenFromMenu`, `GoBack`, `GoForward`, `BackFromJob`, `SetScreen` | `navigateScreen` and the menu |

### Run `renderer`

`MCRenderer` has scenes that share nothing but `AppState` and `FastSubClient`: the jobs
with fixed settings, four groups of what the user does with the settings, the path of
one output, the files, the list of the queue, its log panel, the pages.

| Property | Says |
|---|---|
| `OneStream` | App listens to one job at most, holds its subscription, and it is the job of the card |
| `DoneIsDone` | the result is shown only of jobs that succeeded, of a batch when all did |
| `JobsAllowed` | a job is made only of a provider, a model and a translator that can run; its audio leaves only for a provider the user was shown and agreed to in this very call; its text too, unless its audio leaves as well |
| `GenerationEnds` | the screen of a running job is left |
| `AutoCheckOnce` | the live check that App makes by itself is made once for an API's settings |
| `SettingsAgree` | once all is answered, screen and daemon agree, and the next daemon will too |
| `OpenedIsAsked` | the file that is opened is the one the daemon was asked for |
| `FilesAreLastPicked` | the list is what the last import brought |
| `NoJobMistaken` | the buttons delete only jobs that were shown to be over (`SeenBeforeDeleted`); once lines came, the lines are of the job that is shown (`LogsOfShownJob`) |
| `HistoryKept` | back and forward lose no page: navigation clears what is ahead, so that both stacks together stay within the limit of one |
| `TypesOK` | types |

Conditions. `OneStream`, `DoneIsDone` and `GenerationEnds` hold while no two functions
wait at a time (`overlap`), `SettingsAgree` likewise (`mixed`), `FilesAreLastPicked`
while no import begins in another (`tangled`): nothing in App keeps a second click, a
timer or a late answer from a function that waits, and what comes of it is below. The
other properties hold of all interleavings. `DoneIsDone` and `GenerationEnds` also
exclude a failed request, a lost stream and a deleted job of the batch (`astray`),
`DoneIsDone` the mock and an output file from before.

Bounds. Three jobs (a batch of two and one more), three subscriptions, two slots and
three clicks in a setup that says which kinds of clicks meet; two functions and two
acts in the settings; three imports, trees with every kind of entry, a list limit of
one and a folder limit of three (20 and 500 in the code), which the trees exceed; two
jobs and a history of one (40); two loads of the log panel; stacks of two (20) and five
moves, so that a stack is full and cut. Each bound is one above the least at which two
things meet. The jobs scene keeps its providers and models, so it says nothing of the
settings. Fairness (`JobsProgress`): functions of App that wait are answered and what a
job does arrives, without which no screen would ever be left.

### What the run shows, and what the code does beyond the conditions

* Jobs: handlers in flight survive `unsubscribe`, and apply what they know to the job
  that is on the card by then (AppShell.tsx:370, :384). Two clicks on start make the
  jobs twice (:690), two on a job leave a subscription nobody holds (:875). The 860 ms
  timer of a cancel overwrites the job shown meanwhile (:917). A batch whose second
  `createJob` throws leaves the first job without a screen (:760); an empty or failed
  `listJobs` in a batch, or deleting a failed job of it, leaves the generating screen
  for good (:331, :429, :467). A job whose output is there from before is reported as
  succeeded while it runs (daemonClient.ts:185).
* Settings: an older `loadBaseData` overwrites a newer configuration (AppShell.tsx:208);
  answers of two patches may come in the other order (:1161), and their files may be
  written in the other order than merged (config_handlers.go:58). A patch that cannot be
  written stays in memory. `getConfig` answers the defaults when the daemon is away
  (daemonClient.ts:427). Any patch writes the default aliases of the keys, so that the
  next start shows each key as configured. A key's own answer has the status from before
  the restart (ipc.ts:46). Refreshing the providers drops what the live check had told
  (settings.tsx:424). A canceled model installation stays "installing" (:565).
* Paths: with the formats txt and json, and for translated .txt, the opened path is
  `stem.srt`, which was not asked for. A damaged directory is never repaired after an
  event; the damaged result of an event goes into the burn-in. A save-as name that
  comes back damaged is rebuilt as another one. An input in the root of the file
  system sends the output to the mock directory (AppShell.tsx:1324).
* Files: two imports that overlap leave the earlier one's list, and take its waiting
  sign away (AppShell.tsx:281). A walk that ends takes the user to the files.
* Queue: select-all and a range take jobs along that the list does not show
  (queue.tsx:64); canceled and interrupted jobs are in no filter (:30); every render
  starts the log panel's load again (AppShell.tsx:898), and until one has come the lines
  of the job before stay.
* Pages: the late answer of `repairDaemon` shows the setup wherever the user is
  (AppShell.tsx:1109); Back may show a generating or result page without a job.

### Theorems

`Screens_proofs.tla` proves, for any pages, limit and number of moves
(`MovesAssumption`), `PagesTypeCorrect` and the action property `HistoryKeptHolds`; and for any
jobs, limits, clicks and loads of the queue `NoJobMistakenHolds`, with both its parts. The
invariant of the pages is that both stacks together stay within the limit; without it
the cut of one stack could lose a page that goes back still needs. That of the queue
relates selection and pending bulk action to what was shown to be over (`Kept`, `Listed`,
`Clicked`), and each load still waited for to the job shown (`PanelInv`).

`Screens_proofs.tla` goes on with the settings, `SettingsSpec`, for any bounds,
configuration file and providers, with the daemon and with the mock.

* `AutoCheckOnceHolds`, in every interleaving. The keys in flight are a sequence; what is
  asked for is in neither it nor `checked`, and a check that ends takes its own place out
  of the one and goes into the other. A load asks for one key at most (`OneKey`), since
  one provider is chosen.
* `SettingsAgreeHolds`, for any list of models with ids and states. `SettingsAgree` speaks
  of the moments when nothing waits, and says nothing of how App comes there. `CalmInv`,
  while no two functions waited at a time and no request was lost, says what each function
  that waits still owes: App shows what is stored, unless the one that waits will show it
  (`Stale`, `ConfigKept`); the file has the daemon's view, unless the one that waits will
  write it (`FileKept`), and the view it will write is the daemon's (`CallOK`), which is
  why a restart after a key brings the same view back; what an answer carries is not
  outdated when it is applied, as only an installation can change something meanwhile, and
  it only adds models; a success of an installation that is followed means that the model
  is there (`Follows`), and no card shows a model as ready that is not, but for one whose
  installation or removal is under way (`ReadyKept`). Every action is `Onward` (it shows or
  asks, and changes nothing behind the client), has an effect there (`EffectKeeps`), or is
  about an installation (`InstallShown`, `EventKeeps`).
* The first attempt failed for a good reason: the model let an installation that failed or
  was canceled make a model "missing" that is on the disk, and a restart fail an
  installation that was queued. The daemon does neither (`runModelInstall`, `recoverJobs`);
  the model now follows it.

Its last part is the path of an output, `PathsSpec`.

* `OpenedIsAskedHolds`, for any set of requests and settings (`OrderOK`, `PlaceOK`: an
  input has a name and a directory, the format of the subtitles is neither none nor that
  of a video). A name that looks damaged must be so where a report damages names, in the
  part before its first dot; one damaged elsewhere can come back with more damage, and an
  input that looks damaged repairs nothing. The property speaks of what is shown; the
  invariant (`RequestOK`, `CardOK`) says what the card holds on the way there: its input
  is the request's, its result the path that was asked for unless the directory came back
  damaged, after an event that path as the event brought it, and after a reload a damaged
  one only if the input of that report looks damaged too. The lemmas follow the path
  through the repairs (`MappedJob`: the main process, `CreatedJob`: the renderer,
  `ShownPath`: the card) and rest on what damage and suffix do to a name (`DamagedName`,
  `OutputName`).

`AppJobs_proofs.tla` is about `JobsSpec`, for any numbers of jobs, streams, slots and
clicks, any configuration, providers and models.

* `OneStreamHolds`. `OneStream` is not inductive: an event is applied by a function that
  may still wait, and opens the next subscription when it goes on. `StreamInv` adds that
  while nothing overlapped at most one function waits (`Alone`), that nothing is heard
  while one waits that follows an end, opens or cancels (`Quiet`), and that the card is
  still the one of a cancel that goes on (`CardKept`). Each step leaves card and
  subscription alone, falls silent, hears the job of the card out of silence, or empties
  the card; each action is shown to be one of these.
* `DoneIsDoneHolds`. `DoneInv`, with `StreamInv`: what App has counted as completed is over
  in the daemon, as is the job an event was of, and all jobs of a batch once its details
  are fetched; a function that counts has the batch App has (`OpDone`). A job that is over
  stays so (`Grows`).
* `JobsAllowedHolds`, in every interleaving. The dialog of an upload names one provider,
  that of the audio first (`named`), and its answer is good for both confirmations
  (AppShell.tsx:733, :739): a bilingual job with a remote provider and a remote translator
  sends its text to a translator that nobody was shown. The property says so, and that it
  is the only such case. `AllowedInv`: a function that waits to make a
  job has a selection that could run when it was chosen and still can (`PairOK`), and what
  leaves was agreed to (`AskedOK`); who has confirmed a run was shown what it names, and
  that is what this run has to show (`RunOK`, `DialogsOK`). The lemmas about `AppState` are that what is chosen from the
  lists is in them and can run. The hypothesis is `ListsOK`: providers and models are
  lists, and every provider whose input leaves the computer asks for confirmation, as
  `mapProvider` makes it (daemonClient.ts:924). The run checks it in every scene, with
  `TypesOK`. JobsSpec changes neither list: what the settings change while a function
  waits is not covered.

`Files_proofs.tla` is about the picked files, `FilesSpec`, for any folders, any limits of list and
walk, and any number of imports: `FilesOfAnyFolder` (`FilesAreLastPicked`) and `FilesHaveTheirType`.

* The one hypothesis is `TreeOK`: a folder has finitely many entries, the names in it have an
  order, and what is on the way to an entry is a directory of it. The run checks it of its
  trees, with `FilesTypeOK`.
* What an import is to find is defined without recursion: the files that can be reached, in the
  order of their paths, cut at the limit (`FoundBy`); the code walks with a stack. The order of
  paths is total, so that the elements of a finite set have ranks (`Ranks`), which are what
  `Sorted` goes by. While a walk is under way (`OnTheWay`), what it found and what it still has
  to look at are one list in that order, and each file to be found is in the list or below an
  entry of it. `OneByOne` says what list, waiting sign and imports have to do with each other
  while no import begins in another.
* The proof found an error of the model. The history variable `wanted` was wrong when a file is
  removed while a walk is under way, which takes a third import to matter: the run had a bound
  of two. The variable is corrected and the run now has three imports; five were checked once.

The others of the run are model-checked only: `GenerationEnds` is liveness, and of `TypesOK`
the pages (`PagesTypeOK`) and the files (`FilesTypeOK`) are proved. The rest of it as a whole
is out of reach: `QueueTypeOK` says that the job selected is on the list shown, which is
filtered with `SelectSeq`, a recursive operator of the library that the provers know nothing of.

### Left out of the desktop models

* Environment: the dialog about ffmpeg (its answers are in `AppJobs`), models and providers
  of a load, package managers, which no page offers; the state `degraded`.
* Main process: sessions attached by `FAST_SUB_DAEMON_BASE_URL` and the
  `FAST_SUB_DISABLE_*` switches; the "error" event of a spawn; what an
  environment check reports besides ffmpeg; the expiry of a secret reference; `cleanup-local-data` of jobs but for its
  repair; progress and mirrors of downloads.
* Renderer: the list that `refreshJobs` keeps; several jobs in one cancel or delete of
  App (one at a time); the jobs the mock begins with and its `modelInstalling` scenario;
  `events_lost`; log lines as such; one API provider's settings stand for all; the copies
  of views and checks that the provider page keeps, and leaving it; maps shared between
  views of the daemon (they are values); `loadBaseData` gets its requests served at
  one moment; `UpdateRefused` is a refusal and a lost
  request alike; about twenty screens are seven in `PageHistory`; a local storage that
  cannot be written; the debug panel; the double calls of React's strict mode in
  development.

## 8. Not modelled

| Part | Why |
|---|---|
| manifests, removal of a path outside of the store, disk space | checks of one value; a full disk is a failure in `ModelInstall` |
| the pipeline of a run, worker and runtime adapters | sequential calls of tools; web translation apart, a run is a result or an error that comes at any time |
| the order of the events of one job | `JobManager` does not keep the order of events and `EventStream` not the transition each tells; a composition is too large for TLC |
| events over 64 KiB | events have no size |
| subtitle refinement, provider descriptions, argument parsing, the Python command line | no state whose order matters |
| windows, links, encryption of secrets, layout, texts | platform calls and rendering |
