# Verification of the Knowe group chat

Knowe is a desktop application in which a user talks to a team of language-model
agents. A Python backend (`src/backend/`) owns the projects, runs the agents and
writes an event log per project; an Electron/React client (`src/src/`) follows
those logs over one WebSocket. This directory holds TLA+ models of the parts of
the program that are hard to test, the TLC configurations that check them, and
proofs about them.

Paths below are those of the repository; `hub.py` means `backend/hub.py`,
`socket.ts` means `src/transport/socket.ts`, `store.ts` means
`src/store/store.ts`.

## 1. The system

| component | state | operations | talks to |
|---|---|---|---|
| **Hub** `hub.py`, `ring.py`, `contract.py` | per project: seq, ring of the newest events, read mark, `pending_card`; cache of `event_id`s; set of clients | `emit`, `snapshot`, `replay`, `mark_read`, `restore` | everybody emits through it; queues jobs for the store; broadcasts to clients |
| **Store** `persist.py` | per project: event file, day archives, `.seq` and `.read` marks, roster; one writer thread with a FIFO queue | `append_event`, `save_*_watermark`, `load_all_events`, `compact`, rotation, deletion | hub (jobs), server (load at start) |
| **Server** `server.py` | engines, announced members, restart tasks, deletion records | handshake and replay, one handler per client frame, wake-up of projects, restart of engines, project deletion, maintenance loop | hub, engines, store |
| **Approval gate** `gate.py` | `_pending` cards with their futures, recovery tasks | `propose`, `resolve`, `update_card`, `cancel_all`, `cancel_all_settled`, `restore_pending` | engine turns wait in it; server answers; hub |
| **Project engine** `engine.py` | inbox, `_worker_turns`, `_direct_turns`, `_task_envelopes`, `_dm_pending`, `_worker_runtime_runs`, roster, feedback flights | `submit`, `submit_dm`, dispatch of work, `stop_worker`, `fail_task`, `adjust_instruction`, `stop`, `recover` | gate, hub, completion, task runtime |
| **Completion harness** `knowe_harness/`, `knowe_storage/` | SQLite: results, an outbox row per projection, receipts; reports, worklogs, notices | `commit_run`, `claim_outbox`, `acknowledge_outbox`, `drain`, recovery | engine, hub, files |
| **Task runtime** `runtime.py`, `agent_runtime.py` | one attempt of a worker: the operation it awaits, its processes, its verdict | `run`, `_await`, `_cleanup`, `create`, `_terminate` | provider client, tools, engine |
| **Provider client** `knowe_core/` | message list, stream under assembly | one request, its retries, its change of format | task runtime, provider |
| **Project deletion** `server.py`, `delete_ops.py` | journal of deletions, tombstones, staged directories, `_closing_projects` | delete, roll back, clean up, recover at start | engines, hub, store |
| **Transport** `socket.ts` | status, handshake buffer, watermark per project, dedup set, debounce clocks | `connect`, `routeEvent`, `drainHandshake`, `doRequestSnapshot` | server; store through callbacks |
| **Client store** `store.ts`, `state.ts`, `App.tsx` | conversations, roster, unread, the bookkeeping of snapshots (`_synced`, `_bulkScheduled`) | `applyEvent`, `switchProject`, `syncAllProjects` | transport, user interface |
| Tools, memory, knowledge, settings, UI, Electron | files, documents, windows | | |

What makes them hard:

* **Threads and coroutines.** The hub runs on the event loop, the files are
  written by a thread that is behind it, and reads look at both.
* **Crashes.** The queue of the writer dies with the process; the next process
  must continue from the files, and open cards must come back.
* **Order of delivery.** A client is put into the broadcast set before its replay
  starts, sends suspend, and every event may arrive by replay, by broadcast or
  inside a snapshot.
* **Connections.** Timers, debounce clocks and sets of the client outlive the
  connection they were made for.
* **Races for one card.** Answer, timeout, new message, feedback, stop,
  replacement and recovery meet in `gate.py`.
* **Ownership spread over tables.** Who occupies a worker is in four tables of
  `engine.py`; every path that ends a turn, a stop and an exception among them,
  has to settle all of them and leave one result.
* **Cancellation.** `cancel()` is delivered at whatever suspension a coroutine
  happens to be in, an exception handler, a clean-up or a `suppress` included;
  threads and shielded tasks go on without it.
* **Effects outside the transaction.** A result is one SQLite commit, its
  reports, messages and notices are files and events written after it, twice
  over if a crash comes in between.

What would make each component correct: the log is durable up to a suffix, in
order and complete for every reader; the client shows everything once and ends
up with what the server has; a card is resolved once, as the user decided on
what the user saw; a worker has one turn and every job one result, and no message
is forgotten; a committed result is projected completely and its effects are
single; an attempt leaves no process and no stream behind; deletion is all or
nothing.

`PROJECT.json` lists the hazards one by one with their lines.

## 2. The modules

| module | models | abstract specification | checked by | proved in |
|---|---|---|---|---|
| `EventLog` | hub, ring, writer queue, files, crash and restart | `Journal` | `log_tight` | `EventLogProofs` |
| `Delivery` | server handshake and replay, `socket.ts`, snapshot bookkeeping of `store.ts` | | `delivery_*` | `DeliveryProofs` |
| `Gate` | approval gate with its callers | | `gate` | `GateProofs` |
| `DayArchive` | the event file over the days: rotation, compression, maintenance, rewrite at start | | `archive_*` | `ArchiveProofs` |
| `Workforce` | a worker's jobs: cards, direct messages, turns, stops, the stop of the engine | | `workforce` | `WorkforceProofs` |
| `TaskRun` | one attempt: its operation, the retries of its request, its processes, the stops it gets | | `task*` | `TaskRunProofs` |
| `Completion` | a result from its commit to its projections and its notice; crash and recovery | `Outbox` | `completion` | `CompletionProofs` |
| `ProjectDeletion` | deletion of a project with its journal, its threads and its recovery | | `deletion` | `DeletionProofs` |

How they fit together: `Workforce` decides that a turn begins, is stopped and
ends, and takes the attempt inside it as one step; `TaskRun` is that attempt;
`Completion` is what happens to the result it returns. The events each of them
emits are the events of `EventLog`, where their durability is decided, and of
`Delivery`, where a client sees them. `Gate` and `Workforce` share the card: the
first is about when it is settled, the second about what an approval does.
`ProjectDeletion` removes the engine the others run in. The modules are not
composed into one state machine: each keeps of its neighbours what can happen at
its border, as nondeterministic steps (a result the store refuses, a `cancel()`
at any suspension, a restart that kept any prefix of the log).

The operators whose comment begins with *Fault:* are not used by the models; each
changes one definition the way a plausible bug would, and shows that a property
can tell.

### EventLog

State: `seq`, `ring`, `capacity`, `known`, `lastRead` are the fields of `Project`
and the cache `_idempotent_events`; `queue` is the single-threaded executor of
`Store`; `disk`, `seqFile`, `readFile` are the files. `stamped`, `refused` and
`published` are history variables. An event keeps its seq, its kind, its
`event_id` and, for a snapshot, the seqs of its conversation.

An action is a block without an `await` (the event loop) or one job (the writer).
`emit()` and `snapshot()` hold `_seq_lock`, but nothing in the locked block
suspends, so each is one action up to its broadcast; the broadcast changes nothing
of this state. `AppendRefused` is the `OSError` that `append_event` swallows.
`Crash` clears memory and queue; `Restart` is `load_from_disk` with `restore` and
`compact` for every project.

The kinds stand for the sets of `contract.py`: *structural* events are shown in
the timeline, *status* events are written but not shown, *transient* ones are
neither, a *snapshot* is stamped and kept in the ring only.

Left out: day rotation (see `DayArchive`), paging, the text filter and the
validation of payloads, removal of a project. The writer loses no part of a line:
a torn last line is skipped by `load_events` and equals a lost job.

### Journal

The promise behind the log: a chat record per project that grows at its end,
survives a crash up to a suffix, and is continued above everything that survived.
`log_tight` checks that `EventLog` implements it: entries are the persistable
events whose append the disk did not refuse.

### Delivery

Server side: `log` and `seq` of each project as a client can see them (when a
replay finds everything is the business of `EventLog`), one send task per event
(`tasks`), the connection's handler (`sess`, `todo`, `target`). `wire` and
`inbox` are the two directions of the socket, both FIFO. Client side: the fields
of `createSocket` (`status`, `hs`, `hsProject`, `buf`), the module-level dedup
set and the watermarks (`feed`), and of the store `_synced`, `_bulkScheduled`,
the pending timers of `setConnStatus` and the active project. `feed.view` is what
a conversation shows; `feed.twice` records that something was shown again.

`ReplayAtOnce` is a replay whose sends do not suspend; `ReplayStart`, `ReplaySend`
and `ReplayDone` are one that does. `OtherSnapshot` is a snapshot another window
asked for: the hub broadcasts it to all. A backend restart keeps a prefix of the
chat record and, with `ReuseSeq`, may lose the high-water mark (both are what
`EventLog` shows to be possible). The history variable `lost` says that it did:
`SyncedHonest` and `Converges` make no claim after that, because the dedup key of
`socket.ts` (project, seq, type) then drops the new event that got an old seq.
`missed` says which projects asked for a snapshot within the debounce time before
the last reconnect and not since: the store marks such a project synced when it
hands the request to the socket, and the socket skips it (`socket.ts:364`); the
first wait of `scheduleReconnect` is 500 ms, the debounce 800 ms. `SyncedHonest`,
`Converges` and `ResyncEnds` exempt these projects.
`HandshakeLosesNothing` speaks of the messages whose key the dedup set does not
know when the handshake ends, and exempts those that share their seq with an event
of another project in the buffer: `drainHandshake` puts the buffer into one map by
the seq alone (`socket.ts:322`).

Left out: heartbeat and echo sentinel; the concurrency bound of the snapshot pump
(4, never reached with two projects); the first-screen limit of 100 events; the
`ring` answer of a replay that has a gap without a store; the clearing of the
dedup set at 4000 keys; the render queue of `App.tsx`, which keeps the order. The
250 ms timer and the 800 ms debounce are a pending call and a set without clocks,
and a connection may open while either is pending.

### Gate

State: `pending`, `future` and the waiting coroutine of each card (`waiter`), the
slot `pending_card` (`shown`), the feedback flights and generations of
`engine.py`, the life of the engine, and `log`, the two event types of the gate in
seq order. A body is abstracted to the number of the feedback it follows.

`Settle` is `_settle`, whose pop makes it happen once. `StopBegins`, `StopSettles`,
`StopCancels` and `StopEnds` are the stages of `_stop_once`, which other
coroutines interleave with. A waiter that is *cut* is a turn the stop cancelled
inside the broadcast of its card: that `emit` is outside the `try` of `propose()`
whose handler settles the card, so it stays without an `approval_resolved`, and
`StopSettlesAll` exempts exactly these. `Crash` keeps any prefix of the log; `Boot` is
`wake_projects` with `_pending_approval_snapshots`; `Reopen` is `_restart_engine`
with the cards it read before the stop. Some of these the stop has settled by then:
they come back as open cards, are shown again and get a second resolution. The
history variable `revived` names them, and `ResolvedOnce`, `NoGhostCard` and
`ApprovedAsShown` make no claim about a card once it was brought back.

`Clients` says whether a client is connected, in which case the broadcast of a
card suspends. Left out: a failing `emit`, the card of `__platform__` (that gate
is not woken up), the effects of a decision (creating a project; for dispatching
see `Workforce`).

### DayArchive

State: the lines of the day file, of the renamed (`raw`) and of the compressed
(`gz`) archive of each day; the modification time of the day file; the cached date
of the last check; where the writer thread and the maintenance round are; how far
a restart has come. Both threads run the same `_rotate_if_needed` and
`_compress_day_file`, one file system call per action: `Check`, `Move`, `Zip`,
`Drop`; the writer goes on to `Write`, the round to `Sweep`. `Load`, `Rewrite`,
`Remove` are `load_all_events` and `compact` at start. The clock counts ticks of
UTC; `Offset` is the zone.

`LinesKept` says which lines may be lost, line by line (`excused`): those of a file
that is moved to a day which has an archive already, and those of a file a restart
could not read, since the rewrite then removes it. The first happens in every
zone but UTC (`archive_zone`), and in any zone when a round and the writer rotate
at once. `CopiedOnce` does the same for lines that are read twice (`torn`).

`Zip` reads the raw file, writes the archive under a temporary name and renames it
into place (`persist.py:618-633`) in one step: the rename is what another thread or
a crash can see.

Left out: reads beside a running rotation, two compressions writing one temporary
file at the same instant, the order inside a file, a torn last line.

### Workforce

State: the four tables that say who owns a worker (`envelope` for
`_task_envelopes`, `open` for `_workers_with_open_activity`, `turn` for
`_worker_turns` and `_direct_turns`, `run` for `_worker_runtime_runs`), the queue
`_dm_pending` and the messages taken out of it whose `submit_dm` has not begun
(`flushing`), the open `propose_next` card, how far each call of `stop_worker` is,
and the number of results the completion store has for each job.

An action is a stretch of a coroutine between two awaits. `Propose`, `Approve` are
the two checks of `propose_next` (before the card and after it); `Submit`, `Say`,
`Flushed` are the ways a message comes in; `Begin`, `Start`, `Finish`,
`FinishRefused`, `Break`, `Settle`, `Finished` are the steps of the two turns up to
their done callback; `Cut` is what a `cancel()` does to a turn at each of its
suspensions, the shielded clean-up included; `StopEngine` is the stop of the
engine. `unheard` records the jobs a turn left without a result. The three ways
this happens are named at `EveryJobEnds`; one of them is that `fail_task` settles
the run that was registered *last* for the worker (`engine.py:3784`): a turn that
fails before it has registered its own run finds that of the job before, which has
its result, and its own job gets none. `EveryJobEnds` and `MessageTaken` make no
claim about a run that goes on for ever, which no configuration the program is
shipped with excludes.

Left out: archiving and deleting the worker, the reason of a stop (it selects the
wording and CANCELLED for FAILED), attachments, mentions, delegation between
workers.

### TaskRun

State: where `WorkerRuntime.run` is suspended (`at`), the operation it awaits with
the sending of its request (`op`, `attempt`, `reformatted`, `heard`), the registry
of background processes with the `_terminate` of each (`procs`, `items`,
`closer`), `cancellation_event` and the wall clock (`late`, with the constant
`WallClock` for whether one is configured). The actions of the loop are
`Started` to `Return`; `FirstEvent` to `StreamFails` are one request of
`provider_client.py` with its retries and its change of format; `Create` to
`ForceEnds` the processes; the `Stop…` actions are `cancel()` at each suspension.
Events that `run()` emits are suspensions, because the engine relays and
broadcasts them before `emit()` returns.

`Await` reads the wall clock twice, as `_await` does: before it creates the
operation (`runtime.py:885`) and after it (890), outside the `try` whose `finally`
would cancel it. A clock that runs out in between leaves the operation at work, which
`task_orphan` shows; the history variable `astray` records it. `StreamStops` is the
full claim, that an operation is at work only while the run waits for it; it is
proved for the program without a wall clock, and `OnlyAwaited` says of one with a
wall clock that this is the only way and that the attempt is at its end then.

`StopSuppressed` is the disagreement `task_stop_lost` shows: the `finally` of
`_await` waits for its cancelled watcher inside `suppress(CancelledError)`, and a
stop that arrives there is swallowed. A stop during `_cleanup` cuts it short: the
SIGKILL escalation and the closing of the browser session are skipped, although
`runtime.py:1478` says that the clean-up always runs. The history variable `cut`
records this, and `NoProcessLeft` makes no claim then. A stop during the clean-up
or the last event of an attempt that succeeded throws its result away (`Settled`
and `StopReporting` to `StopClosing` show it; no property forbids it, since the
job was stopped).

Left out: the facts and artifacts a run collects, its WAITING and BLOCKED
outcomes (no stream produces them by itself), schema checks, `on_run_started`, a
tool in a thread whose write may land after the run, and the Windows branch of
`_terminate` (`taskkill`); the POSIX branch is modelled.

### Completion and Outbox

`Outbox` is the promise: committing a result owes all its projections at once,
each is settled by one receipt, and neither a crash nor a second consumer takes a
debt or a receipt back. `Completion` is the code: `result`, `row`, `receipts` are
the SQLite tables; `reports`, `audit`, `worklog`, `seen`, `notice` the files;
`chat`, `queue`, `saved` the events between hub, writer and disk; `at`, `todo`,
`current`, `left` the drain of each worker's turn and that of the recovery
(`Boot`). SQLite and the files survive a crash at any point; the hub's events
survive when the writer has saved them.

All coroutines share one event loop. A step that makes several durable writes is
split between them and `running` keeps the loop, so that only a crash comes
between; that is where a report is written without its audit copy (`torn`).
`Claim`, `Project`, `Acknowledge`, `Fail` are one row of a drain; a projection can
fail where it emits and where the disk can refuse it (`Raises`), in the middle of a
report as well. Two drains may
have the same row, since `claim_outbox` also hands out one that is in processing.
`Tell`, `Hear`, `Answer` are the notice of a failed result up to the coordinator's
turn; `RecoverNotices` is its recovery. `Repeat` is `fail_task` on a task that has
its result.

What a reader may miss: a crash between the commit of a failed result and its
notice leaves the coordinator untold, although the comment at `engine.py:2712`
says the notice is recovered. The recovery reads notification files, and there is
none yet. `ToldOnce` says that it is told at most once; that it is told at all
cannot be stated.

Left out: superseded and inactive completions, waiting runs and their tokens, the
journal of decisions, the texts.

### ProjectDeletion

State: the project's directory (`orig`), what each request renamed (`staged`), the
journal's row and plan (`row`), the tombstone (`tomb`), the index files, the
process (`life`: down, in recovery, up), `_closing_projects`, the engine and its
restart, the place of each request, the staging threads, and the background
cleanups. A step is a stretch between two awaits or one call of a thread on the
file system. A thread cannot be cancelled: `Rename` may happen after its request
has rolled back.

`loose` and `stray` are history variables that name two windows the properties are
stated around. *Loose*: the journal row was dropped although the directory is not
back (`server.py:5166` drops it whether or not the restore of 5177–5180
succeeded; the staging thread of 5104–5110 may rename after the rollback) or was
overwritten by a new plan after a failed restore at start (4754,
`delete_ops.py:337`). *Stray*: a request without the fence has rolled back. A second
request that finds the project closing is refused inside the block whose handler
lifts the fence and drops the row of the first (4976, 5026, 5166), and a request
whose wait for the lock times out rolls back in the same way (4974). Also visible
in the model: a request that is cancelled while it tells the clients, before it has
told the engine to stop (5034), puts a running engine back behind a fence that
stays (`StopUntold`); an engine that cannot recover what was pending puts the fence
back (5196, `ReopenUnrecovered`); a journal row that cannot be dropped at start stays
although the directory is back (4755, `RecoverRowStays`); a journal write that
fails leaves the project fenced although its
engine was never stopped (4990, 5181; exempted in `FenceEnds`); a message during
the `await` of `_restart_engine` creates a second engine that is overwritten
(2276–2281); a restart cancelled by a deletion leaves the stop of the old engine
to nobody (4984, `orphans`).

Left out: `_load_deleted_projects`, which takes an unreadable tombstone file for an
empty one (`memory_manager.py:163`); deletion of a single agent; the content of
the index files.

## 3. The runs

Passing runs:

| run | bounds | states | shows |
|---|---|---|---|
| `log_tight` | one project, ring 2, seq up to 4, snapshots of the two newest events, one crash, one refused append, one read mark | 957 000 | durability up to a suffix, completeness of replay, idempotence, refinement of `Journal` |
| `delivery_one` | one project, seq up to 2, two connections, buffer of 2, suspended replays, snapshots of other windows, one restart that may lose the mark, fairness | 707 000 | nothing shown twice, nothing lost in a handshake, a synced project has no hole, convergence, end of resync |
| `delivery_two` | two projects, seq up to 1, two connections, switches, fairness | 426 000 | convergence of the project that is not replayed |
| `gate` | two cards, two feedbacks per card, a stop with or without a new engine, a crash, three of these and of the cards brought back together with a crash counted twice, timeouts, fairness | 868 000 | one resolution, no ghost card, an accepted answer is honoured, order of feedback, the turn acts on what was shown, a stopped engine leaves no open card, every card ends |
| `archive_days` | two days of two ticks and one more, three lines, two rounds, two crashes, one failed call, one unreadable file | 2 240 000 | no line lost or doubled outside the named windows |
| `workforce` | one handoff, two messages, two stops, one exception, one refused result, fairness | 125 000 | one turn, one result, no task overwritten, no message forgotten, every job ends unless its run goes on for ever, a queued message is taken |
| `task` | two processes of which one may run, two retries, two answers with two calls, two stops, a wall clock, fairness | 209 000 | no process outlives the attempt, no operation does but the one of `task_orphan`, no answer is heard from two sendings, what unwinds ends |
| `completion` | one task, five of the seven projections, success and failure, one repeat, two faults, two crashes, three of these together, fairness | 270 000 | no projection forgotten, effects and notices single, every row settles, refinement of `Outbox` |
| `deletion` | two requests, two refused calls, one timeout, two crashes, fairness | 219 000 | rollback stays possible until the commit, cleanup is remembered after it, the fence holds and ends, all or nothing |

Why the bounds are enough: the ring of `log_tight` turns over twice and its
restart happens with every mixture of queued and finished jobs; two connections
let a client miss events, replay them, and lose the snapshot request to the debounce
clock of the first; two events overtake each other, and with a snapshot they overflow
a buffer of two; two feedbacks have flights that overlap
and land in both orders; a second card makes settling one card while another is
open visible. In `workforce` a card, a running message and a waiting one are all
the roles a job can have, and the second stop meets a turn the first has already
cut; in `task` the second process waits for the place of the first, the second
retry is the last one, and two stops reach every pair of suspensions; in
`completion` the two lanes left out have no effect that could be doubled
(`coordinator` writes a pointer file of a fixed name, `knowledge` nothing), and a second crash meets the recovery of the first; in `deletion` a
second request meets every place of the first, and a second crash the recovery.
Snapshots are not bounded by `MaxSeq` in `Delivery`: they are bounded by the
connections that ask for them.

Type invariants, and those other invariants only the proofs need, are not in the
runs: they are proved for every value of the constants (section 4). That of `DayArchive`
is stated and not proved; the part the argument needs is (`Shape` in
`ArchiveProofs`).

Runs that show a disagreement (each is a finding of `PROJECT.json`):

| run | what happens |
|---|---|
| `archive_zone` | after local midnight and before midnight in UTC a second rotation deletes what was written since the first |
| `task_orphan` | a wall clock that runs out between the creation of an operation and the `try` that would cancel it ends the run and leaves the stream at work |
| `task_stop_lost` | a stop that arrives while `_await` waits for its cancelled watcher is swallowed, and the run asks the model again |

Disagreements the models contain without a run of their own, because the passing
properties are stated around them:

* a crash with the high-water mark still queued: seqs a client has seen are
  stamped again, and the dedup set of `socket.ts` drops the new events (`lost`);
* two projects with one seq in the handshake buffer: `drainHandshake` dedups by the
  seq alone (`socket.ts:322`) and drops one of the events; the snapshot pump repairs
  it (`delivery_two` checks `Converges`);
* a project is marked synced, and the badge says so or waits, though its request
  was debounced away (`missed`);
* a replaced engine brings back a card that its own stop is about to settle, so
  that it is resolved twice (`revived`, `server.py:2265`);
* an event whose append is still queued when the ring drops it is in no replay
  (`ReplayCompleteUnlessStranded`: the ring holds 1000 events or more, so the
  writer must be that far behind);
* a turn cancelled inside the broadcast of its card (*cut* in `Gate`);
* the `excused` and `torn` lines of `DayArchive`; `unheard` in `Workforce`; `cut` in
  `TaskRun`; `torn`, `lost`, `gaveUp` in `Completion`; `loose`, `stray` in
  `ProjectDeletion`.

Deadlock is not checked: the bounded models stop when their counters are used up,
and a system in which nobody types is at rest.

### Fairness

Fairness is weak throughout, and given to what the event loop, the threads and the
timers do by themselves, never to a user, a model or a fault.

* `Delivery`: the event loop runs its tasks and the handler (`RunTask`, `Serve`),
  TCP delivers (`Receive`), timers fire (`SyncAll`), time passes (`Cooldown`) and
  `scheduleReconnect` tries again (`Connect`); nobody has to emit, switch or break
  anything.
* `Gate`: coroutines that can go on do, timers fire, a stop that began ends, a
  dead process is started again; nobody has to answer a card, which is why
  `EveryCardEnds` is about configurations with a timeout.
* `Workforce`: a turn goes on at every suspension but its run, a message taken from
  the queue is submitted, a stop whose turn has ended goes on, a shielded `fail_task`
  ends. The end of a run is not fair: the wall clock is off by default
  (`config.py:343`) and there is no turn ceiling (`runtime.py:614`), so that
  `EveryJobEnds` and `MessageTaken` are about runs that end. Nobody has to send,
  approve or stop.
* `TaskRun`: the run's own steps; an operation that was cancelled ends; the waits of
  `_terminate` end, they have a timeout; a process that got SIGKILL dies. Not
  fair: an answer of the provider, the end of a tool, the effect of SIGTERM, the
  wall clock.
* `Completion`: coroutines run, the writer thread works, the process is started
  again, the coordinator's turn ends.
* `ProjectDeletion`: coroutines, threads and stops of engines end, the process is
  started again; nobody has to delete or wake a project.

## 4. The proofs

Every theorem is about the module's `Spec` and holds for every value of the
constants that the module's one `ASSUME` allows. One theorem assumes more:
`NoOrphanByDefault` is about the program without a wall clock, which is how it is
shipped; `task_orphan` refutes the same claim for one with a wall clock, and
`NoOrphan` says what is left of it. Each argument is an inductive invariant
`IInv`, one lemma per action or group of actions that it is kept, and the
properties as its consequences. None of the properties is inductive alone; what
was missing is, module by module:

* **`EventLogProofs`** (`CrashLosesASuffix`, `EmitStaysIdempotent`,
  `ReplayIsComplete`, `DiskStaysInOrder`, `RingStaysSuffix`, `LogImplementsJournal`). The seqs of `stamped`
  are at most `seq` and unique; the jobs of the queue name stamped events, in the
  order of their seqs and above everything on disk; every persistable event is on
  disk, refused, or named by a job; ring, cache and files hold only stamped
  events. Durability then follows from the fact that what is not on disk is still
  queued and therefore newer, idempotence from the cache, which never forgets an
  id of its process and otherwise finds it where the events are.
  `LogImplementsJournal` maps every step to a step of `Journal` or a stutter: a stamp
  enters or passes, a refused append forfeits its entry, a crash dies with the
  prefix that `CrashLosesASuffix` speaks of. For that, only stamped events are
  refused, and while the process is down no seq is handed out (`JournalInv`).
* **`DeliveryProofs`** (`MessagesShownOnce`, `SnapshotsHonest`, `HandshakeKeeps`,
  `TypeCorrect`).
  `MessagesShownOnce` rests on `Viewed`: what is shown is below the watermark or its
  key is in the dedup set, so that neither a second delivery nor a replay can show
  it again; a `replay_complete` may only raise the watermark because no event before
  it is newer (`Marked`). `drainHandshake` is a fold over the buffer, which is a
  CHOOSE of a recursive function: `DrainExists` shows that there is one, `DrainKeeps`
  that it keeps what each of its steps keeps.
  `SnapshotsHonest` follows a connection through its handshake. `Linked` says what
  holds of one: it is in the handshake until its one `replay_complete` has arrived
  (`Shaking`), its first frame is the `replay_request` (`First`), what it carries is in
  the log (`Known`), a snapshot has every older message (`Whole`), and the client
  knows no seq that was not stamped (`Bounded`). `Honest` says of every project the
  store has asked for how far the answer has come (`Served`): the request is on its
  way, or a snapshot newer than all the client knows is (`Coming`), or the
  conversation is complete up to its watermark and everything still in flight rises
  from there (`Settled`). `ServedTakes` moves that forward by one frame, the drain
  included.
  `HandshakeKeeps` adds `Ahead`: what comes in during a handshake is newer
  than the watermark the client had at its start. That the drain shows it all (`DrainShows`) is that each of its rounds keeps what was shown and
  shows its own event (`RoundKeeps`), a snapshot among them included, since it has
  every older message (`Whole`). Both hold with any projects and windows.
* **`GateProofs`** (`CardResolvedOnce`, `NoCardReturns`, `FeedbackStaysInOrder`,
  `TurnActsOnWhatWasShown`, `AnswerDecides`, `StopLeavesNoCard`). `OpenCards`: an
  open card has no resolution, was last shown as it is, and has somebody waiting for it;
  `Unended`, the converse: a card without a resolution is open, unless its turn was
  cut; `Bodies` and `Flying`: a flight that may still land carries the newest
  feedback; `Acted` and `Voided`: a turn that got its decision has the instruction
  last shown, and only the stop takes a card from a waiting turn; `Phases` says what
  is over when the engine is not running, `Undisturbed` that before the first stop
  or crash an answer goes its way. The log part holds of every prefix of a log, so
  that a crash keeps it.
* **`ArchiveProofs`** (`LinesStay` and `NothingReadTwice`, for every zone, also negative
  ones). `Shape` says
  what a file is; `Rest` and `Ready` relate the place of each thread to the files of
  its day: a thread about to compress finds a file or an archive, one about to
  remove a raw file finds the archive; `Copied`: an archive that is there holds every
  line of the raw file of its day, or the line is excused; `Carried`: a restart has
  every line in memory, then in the rewritten day file, before it removes one.
  `NothingReadTwice` needs `Single`: a line that is not torn is once in each file that
  has it (`Once`), and in two files only while one of them is about to be removed, by
  a thread or by the restart (`Apart`). What a read returns is a sum over the files,
  a fold whose value for one file that has the line and none other is a lemma.
* **`WorkforceProofs`** (`OneTurn`, `OneResult`, `MessagesKept`, `TasksNotOverwritten`).
  `EnvelopeOwned`: the turn that exists owns the envelope, if there is one;
  `MessagesHeardOf`: a message whose turn is over, or whose envelope lies
  unclaimed, has its result or is recorded as unheard. `StopEngine`, which cuts
  both turns and empties the queue in one step, is where both are needed.
* **`TaskRunProofs`** (`ProcessesEnd`, `NoOrphan`, `OneSendingHeard`, and
  `LoopSuffices`: the loop of `chat_stream` never runs out of rounds; `NoOrphanByDefault`). `Sendings`
  bounds the attempts by the phase of the request, so that the round a change of
  format takes is always there; `Executing` ties the operation to the place of
  `run()`; `Listed`, `Killed` and `Through` follow a process from the registry
  through its `_terminate`.
* **`CompletionProofs`** (`NoProjectionForgotten`, `ReceiptsAreHonest`,
  `ToldAtMostOnce`, `EffectsHappenOnce`, `HarnessImplementsOutbox`). `Working` ties the row a drain
  projects to its step; `Fresh` and `Committed` say that there are rows, and drains
  of them, of committed results only. That every step of `Completion` is a step of
  `Outbox` or a stutter is `StepImplementsOutbox`. Two further invariants build on
  `IInv`: `NoticeInv` for the notices, and `OnceInv` for `EffectsHappenOnce`: a report
  without its audit copy is torn, or the coroutine that wrote it still has the event
  loop, so that no other drain can write a second one.
* **`DeletionProofs`** (`RollbackStaysPossible`, `CleanupStaysKnown`, `FenceStays`,
  `CommitStaysFinal`). `Shape` holds of any requests: a directory is staged once, by
  a thread that was started for it, and nothing is removed before the commit.
  `Orderly` holds until a request without the fence rolls back (`stray`): one
  request at a time has work to do, it holds the row, and what is still owed is
  what the journal names.

`TypeCorrect` (of all but `ArchiveProofs`) is the type invariant; `InvariantHolds` is
the inductive one. Only model-checked:

* every liveness property (`Converges`, `ResyncEnds`, `EveryCardEnds`, `EveryJobEnds`,
  `MessageTaken`, `UnwindingEnds`, `RowsSettle`, `AllOrNothing`, `FenceEnds`): the
  proof system does not handle `ENABLED`, and with it fairness.

## 5. What is not modelled

* Text: prompts, memory, knowledge, filters, summaries. No protocol; it reads the
  log and writes files. Of the memory manager the tombstone of a deleted project
  is in `ProjectDeletion`.
* Tools, settings, identity, prices, statistics, naming: input and output, tables.
* The user interface and the Electron shell: rendering, windows, start of the
  backend. Their input is the client store.
* The loop of the main agents and the parsing of a stream: only the sending of a
  worker's request is in `TaskRun`.
* What an event does to messages, roster and unread counts of the client store:
  reduced to shown or not shown.
* Archive and deletion of an agent, uploads, previews, the registry and roster
  files.

`server.py`, `engine.py` and the tools are large because of these parts; what is
mapped of them is their concurrent core.

## 6. Plan

Done: the modules above and their proofs. What would come next, most valuable
first:

1. The loop of the main agents (`knowe_core`): tool rounds, interrupts, compaction
   of the message list.
2. Read marks and unread counts across a restart, paging, incremental history over
   HTTP.
3. The roster: archive and deletion of an agent beside its running turn.
4. `Workforce` and `Completion` composed, so that a crash inside a turn reaches the
   results.
