----------------------------- MODULE Completion -----------------------------
(***************************************************************************)
(* How the result of a worker's task reaches the project.  One SQLite      *)
(* transaction (knowe_harness/completion.py) commits the result with an    *)
(* outbox row per projection; drain() (knowe_harness/projections.py) turns *)
(* the rows into reports, chat messages and worklog entries and writes a   *)
(* receipt for each; engine.py shows the result, tells the coordinator of  *)
(* a failure through a notification file, and drains again after a crash.  *)
(*                                                                         *)
(* Coroutines of one event loop: a step runs to the next await, and where  *)
(* it makes several durable writes it is split, `running` then names the   *)
(* coroutine that keeps the loop, so that only a crash can come between.   *)
(***************************************************************************)
EXTENDS Integers, SequencesExt

CONSTANTS
    Tasks,          \* the tasks of one worker, an attempt each
    NoTask,
    Boot,           \* the name of the recovery coroutine start() creates
    Lanes,          \* the kinds of projection of a result
    Outcomes,       \* the statuses tasks end with
    MaxRepeats,     \* bound: results reconciled again by fail_task()
    MaxFaults,      \* bound: projections, emits and notices that raise
    MaxCrashes,     \* bound: crashes of the process
    MaxEvents       \* bound: repeats, faults and crashes together

\* _PRIORITY: the order in which a drain takes the lanes.
Order == <<"task_state", "report", "coordinator", "memory", "knowledge",
           "delivery", "ui">>

\* The statuses the coordinator is told of.
Alarming == {"FAILED", "SYSTEM_ERROR", "TIMED_OUT", "CANCELLED"}

ASSUME CompletionAssumption ==
    /\ IsFiniteSet(Tasks)
    /\ Boot \notin Tasks /\ NoTask \notin Tasks \cup {Boot}
    /\ Lanes \subseteq ToSet(Order)
    /\ Outcomes \subseteq Alarming \cup {"SUCCEEDED", "BLOCKED", "WAITING"}
    /\ MaxRepeats \in Nat /\ MaxFaults \in Nat /\ MaxCrashes \in Nat
    /\ MaxEvents \in Nat

VARIABLES
    up,         \* the process runs
    running,    \* the coroutine that keeps the event loop, or NoTask
    result,     \* completion_events_v2: the active result of each task
    row,        \* completion_outbox_v2: the state of each row
    receipts,   \* completion_projection_receipts_v2
    reports,    \* the report files of each task
    audit,      \* the tasks whose audit copy is on disk
    worklog,    \* the entries of each task in its worker's log
    chat,       \* the events the hub knows, by their stable id
    queue,      \* chat events the writer thread has still to save
    saved,      \* chat events on disk
    seen,       \* the seen-speech ledger
    notice,     \* the notification file of each task
    queued,     \* _completion_notifications_queued
    inbox,      \* Engine.inbox: the notices waiting for the coordinator
    speaking,   \* the notice of the coordinator's current turn
    turn,       \* the worker's turn on each task
    run,        \* _worker_runtime_runs: the run registered last
    at,         \* the step of each coroutine
    todo,       \* the rows a drain has still to visit
    current,    \* the row a drain is projecting
    left,       \* the events the current projection has still to emit
    told,       \* history: the coordinator's turns that ended, per notice
    torn,       \* history: reports left without their audit copy
    lost,       \* history: chat events a crash took from the writer
    gaveUp,     \* history: the recovery of this process ended with an error
    spent       \* repeats, faults and crashes so far

store    == <<result, row, receipts>>
files    == <<reports, audit, worklog, seen>>
log      == <<chat, queue, saved>>
notices  == <<notice, queued, inbox, speaking, told>>
drains   == <<at, todo, current, left>>
workers  == <<turn, run>>
history  == <<torn, lost, gaveUp>>
vars == <<up, running, store, files, log, notices, drains, workers,
          history, spent>>

Rows    == Tasks \X Lanes
Procs   == Tasks \cup {Boot}
NoRow   == <<NoTask, "none">>
Emitted == Tasks \X {"view", "message", "report", "status", "idle"}

Init ==
    /\ up = TRUE /\ running = NoTask
    /\ result = [t \in Tasks |-> "none"]
    /\ row = [r \in Rows |-> "none"] /\ receipts = {}
    /\ reports = [t \in Tasks |-> 0] /\ audit = {}
    /\ worklog = [t \in Tasks |-> 0] /\ seen = {}
    /\ chat = {} /\ queue = <<>> /\ saved = {}
    /\ notice = [t \in Tasks |-> "none"] /\ queued = {} /\ inbox = <<>>
    /\ speaking = NoTask /\ told = [t \in Tasks |-> 0]
    /\ turn = [t \in Tasks |-> "new"] /\ run = NoTask
    /\ at = [p \in Procs |-> "off"] /\ todo = [p \in Procs |-> {}]
    /\ current = [p \in Procs |-> NoRow] /\ left = [p \in Procs |-> <<>>]
    /\ torn = {} /\ lost = {} /\ gaveUp = FALSE
    /\ spent = [repeat |-> 0, fault |-> 0, crash |-> 0]

\* Coroutine p may take its next step.
Runs(p) == up /\ running \in {p, NoTask}

Free == up /\ running = NoTask

Goto(p, step) == at' = [at EXCEPT ![p] = step]

\* The bounds on what goes wrong.
Limit == [repeat |-> MaxRepeats, fault |-> MaxFaults, crash |-> MaxCrashes]

Spend(what) ==
    /\ spent[what] < Limit[what]
    /\ spent.repeat + spent.fault + spent.crash < MaxEvents
    /\ spent' = [spent EXCEPT ![what] = @ + 1]

\* p goes on without an await; p lets the others run.
Keep(p) == running' = p
Yield   == running' = NoTask

-----------------------------------------------------------------------------
(* The commit                                                              *)

\* WorkerRuntime.run() registers the run.
Begin(t) ==
    /\ Free /\ turn[t] = "new"
    /\ \A u \in Tasks : turn[u] \in {"new", "closed"} /\ at[u] = "off"
    /\ turn' = [turn EXCEPT ![t] = "running"]
    /\ run' = t
    /\ UNCHANGED <<up, running, store, files, log, notices, drains,
                   history, spent>>

\* Fault: the outbox rows follow the result in a transaction of their own.
CommitWithoutRows(t, s) ==
    /\ Free /\ turn[t] = "running"
    /\ turn' = [turn EXCEPT ![t] = "ending"]
    /\ result' = [result EXCEPT ![t] = s]
    /\ Goto(t, "show")
    /\ UNCHANGED <<up, running, row, receipts, files, log, notices, run,
                   todo, current, left, history, spent>>

\* commit_success() or commit_run(): the run, the result and its rows.
Commit(t, s) ==
    /\ Free /\ turn[t] = "running"
    /\ turn' = [turn EXCEPT ![t] = "ending"]
    /\ result' = [result EXCEPT ![t] = s]
    /\ row' = [r \in Rows |-> IF r[1] = t THEN "pending" ELSE row[r]]
    /\ Goto(t, "show")
    /\ UNCHANGED <<up, running, receipts, files, log, notices, run, todo,
                   current, left, history, spent>>

\* fail_task() finds the result of the registered run: it reconciles again.
Repeat(t) ==
    /\ Free /\ t = run /\ result[t] # "none"
    /\ at[t] = "off" /\ Spend("repeat")
    /\ Goto(t, "show")
    /\ UNCHANGED <<up, running, store, files, log, notices, workers, todo,
                   current, left, history>>

-----------------------------------------------------------------------------
(* The visible result and the coordinator's notice                         *)

\* Hub.emit with an event_id: run ids are not stamped again.
Emit(e) ==
    IF e \in chat THEN UNCHANGED log
    ELSE /\ chat' = chat \cup {e}
         /\ queue' = Append(queue, e)
         /\ UNCHANGED saved

\* _emit_completion_visible: the view is stamped, then broadcast.
Show(t) ==
    /\ Runs(t) /\ at[t] = "show"
    /\ Emit(<<t, "view">>)
    /\ Goto(t, "shown") /\ Yield
    /\ UNCHANGED <<up, store, files, notices, workers, todo, current, left,
                   history, spent>>

\* SeenSpeechLedger.record.
Record(t) ==
    /\ Runs(t) /\ at[t] = "shown"
    /\ seen' = seen \cup {t}
    /\ Goto(t, "tell") /\ Keep(t)
    /\ UNCHANGED <<up, store, reports, audit, worklog, log, notices, workers,
                   todo, current, left, history, spent>>

\* Fault: the rows a drain was working on when the process died are not taken
\* up again.
OpenPending == {r \in Rows : row[r] \in {"pending", "failed"}}

\* pending_outbox().
Open == {r \in Rows : row[r] # "none"}

\* The reconciliation goes on with the drain.
StartDrain(t) ==
    /\ todo' = [todo EXCEPT ![t] = {r \in Open : r[1] = t}]
    /\ Goto(t, "scan") /\ Keep(t)
    /\ UNCHANGED <<current, left>>

\* Fault: _submit_internal() looks at the file and the memory no more.
TellAlways(t) ==
    /\ Runs(t) /\ at[t] = "tell"
    /\ IF result[t] \in Alarming
       THEN /\ queued' = queued \cup {t}
            /\ notice' = [notice EXCEPT ![t] = "queued"]
            /\ inbox' = Append(inbox, t)
       ELSE UNCHANGED <<notice, queued, inbox>>
    /\ StartDrain(t)
    /\ UNCHANGED <<up, store, files, log, speaking, told, workers,
                   history, spent>>

\* notify_coordinator(): once per notification id.
Tell(t) ==
    /\ Runs(t) /\ at[t] = "tell"
    /\ IF result[t] \in Alarming /\ notice[t] # "processed" /\ t \notin queued
       THEN /\ queued' = queued \cup {t}
            /\ notice' = [notice EXCEPT ![t] = "queued"]
            /\ inbox' = Append(inbox, t)
       ELSE UNCHANGED <<notice, queued, inbox>>
    /\ StartDrain(t)
    /\ UNCHANGED <<up, store, files, log, speaking, told, workers,
                   history, spent>>

\* The file cannot be written: the id stays queued, the drain goes on.
TellFails(t) ==
    /\ Runs(t) /\ at[t] = "tell" /\ Spend("fault")
    /\ result[t] \in Alarming /\ notice[t] # "processed" /\ t \notin queued
    /\ queued' = queued \cup {t}
    /\ StartDrain(t)
    /\ UNCHANGED <<up, store, files, log, notice, inbox, speaking, told,
                   workers, history>>

\* The broadcast raises: the error is logged and the drain begins.
ShowFails(t) ==
    /\ Free /\ at[t] = "shown" /\ Spend("fault")
    /\ StartDrain(t)
    /\ UNCHANGED <<up, store, files, log, notices, workers, history>>

\* A stop cancels the broadcast of the view: fail_task() reconciles anew.
ShowCancelled(t) ==
    /\ Free /\ at[t] = "shown" /\ Spend("fault")
    /\ Goto(t, "show")
    /\ UNCHANGED <<up, running, store, files, log, notices, workers, todo,
                   current, left, history>>

-----------------------------------------------------------------------------
(* drain()                                                                 *)

Priority(r) == CHOOSE i \in DOMAIN Order : Order[i] = r[2]

\* The rows that are next in todo[p]; those of one lane in any order.
Nearest(p) == {r \in todo[p] : \A q \in todo[p] : Priority(r) <= Priority(q)}

\* The events a projection emits.
Events(r) ==
    CASE r[2] = "delivery" -> <<<<r[1], "message">>>>
      [] r[2] = "ui" ->
            (IF r[1] \in audit THEN <<<<r[1], "report">>>> ELSE <<>>)
            \o <<<<r[1], "status">>, <<r[1], "idle">>>>
      [] OTHER -> <<>>

\* claim_outbox(), then _project() up to its first durable write.
Claim(p) ==
    /\ Runs(p) /\ at[p] = "scan"
    /\ \E r \in Nearest(p) :
          /\ r \notin receipts
          /\ todo' = [todo EXCEPT ![p] = @ \ {r}]
          /\ row' = [row EXCEPT ![r] = "processing"]
          /\ current' = [current EXCEPT ![p] = r]
          /\ left' = [left EXCEPT ![p] = Events(r)]
          /\ run' = IF r[2] = "task_state" THEN r[1] ELSE run
          /\ Goto(p, IF r[2] \in {"report", "memory"} THEN r[2] ELSE "effect")
    /\ Keep(p)
    /\ UNCHANGED <<up, result, receipts, files, log, notices, turn, history,
                   spent>>

\* Fault: _existing_report() is not asked.
WriteReportAgain(p) ==
    LET t == current[p][1] IN
    /\ Runs(p) /\ at[p] = "report"
    /\ reports' = [reports EXCEPT ![t] = @ + 1]
    /\ Goto(p, "audit") /\ Keep(p)
    /\ UNCHANGED <<up, store, audit, worklog, seen, log, notices, workers,
                   todo, current, left, history, spent>>

\* _report(): the audit copy is what tells that the report exists.  Without
\* it a report of the same name is kept and one with a suffix is written.
WriteReport(p) ==
    LET t == current[p][1] IN
    /\ Runs(p) /\ at[p] = "report"
    /\ IF t \in audit
       THEN Goto(p, "effect") /\ UNCHANGED reports
       ELSE Goto(p, "audit") /\ reports' = [reports EXCEPT ![t] = @ + 1]
    /\ Keep(p)
    /\ UNCHANGED <<up, store, audit, worklog, seen, log, notices, workers,
                   todo, current, left, history, spent>>

\* HandoffBook.write_report writes the audit copy second, and goes on when
\* the disk refuses it.
WriteAudit(p) ==
    /\ Runs(p) /\ at[p] = "audit"
    /\ \/ audit' = audit \cup {current[p][1]} /\ UNCHANGED <<torn, spent>>
       \/ /\ torn' = torn \cup {current[p][1]}
          /\ Spend("fault") /\ UNCHANGED audit
    /\ Goto(p, "effect") /\ Keep(p)
    /\ UNCHANGED <<up, store, reports, worklog, seen, log, notices, workers,
                   todo, current, left, lost, gaveUp>>

\* _memory(): an entry the log has already is not written again, and one the
\* disk refuses is acknowledged all the same.
WriteWorklog(p) ==
    LET t == current[p][1] IN
    /\ Runs(p) /\ at[p] = "memory"
    /\ \/ worklog' = [worklog EXCEPT ![t] = IF @ = 0 THEN 1 ELSE @]
          /\ UNCHANGED spent
       \/ worklog[t] = 0 /\ Spend("fault") /\ UNCHANGED worklog
    /\ Goto(p, "effect") /\ Keep(p)
    /\ UNCHANGED <<up, store, reports, audit, seen, log, notices, workers,
                   todo, current, left, history>>

\* _ui() and _delivery() emit one event and wait for its broadcast.
Project(p) ==
    /\ Runs(p) /\ at[p] = "effect" /\ left[p] # <<>>
    /\ Emit(Head(left[p]))
    /\ left' = [left EXCEPT ![p] = Tail(@)]
    /\ Yield
    /\ UNCHANGED <<up, store, files, notices, workers, at, todo, current,
                   history, spent>>

\* Fault: the receipt is written in a transaction of its own, later.
DeleteThenReceipt(p) ==
    /\ Runs(p) /\ at[p] = "effect" /\ left[p] = <<>>
    /\ row' = [row EXCEPT ![current[p]] = "none"]
    /\ current' = [current EXCEPT ![p] = NoRow]
    /\ Goto(p, "scan") /\ Keep(p)
    /\ UNCHANGED <<up, result, receipts, files, log, notices, workers, todo,
                   left, history, spent>>

\* acknowledge_outbox(): the receipt and the end of the row.  When the other
\* drain was faster the KeyError is caught and the receipt found.
Acknowledge(p) ==
    /\ Runs(p) /\ at[p] = "effect" /\ left[p] = <<>>
    /\ receipts' = receipts \cup {current[p]}
    /\ row' = [row EXCEPT ![current[p]] = "none"]
    /\ current' = [current EXCEPT ![p] = NoRow]
    /\ Goto(p, "scan") /\ Keep(p)
    /\ UNCHANGED <<up, result, files, log, notices, workers, todo, left,
                   history, spent>>

\* What can raise in a projection: an emit, which a stop may cancel, too; or
\* the disk, before _task_state, _report or _memory have written or in the
\* middle of a report.
Raises(p) ==
    LET t == current[p][1] IN
    \/ Free /\ at[p] = "effect"
    \/ Runs(p) /\ \/ at[p] = "effect" /\ current[p][2] = "task_state"
                  \/ at[p] = "report" /\ t \notin audit
                  \/ at[p] \in {"audit", "memory"}

\* The drain takes a cancellation for a failed projection as well, marks the
\* row and goes on with the next one.
Fail(p) ==
    /\ Raises(p) /\ Spend("fault")
    /\ torn' = IF at[p] = "audit" THEN torn \cup {current[p][1]} ELSE torn
    /\ row' = IF current[p] \in receipts THEN row
              ELSE [row EXCEPT ![current[p]] = "failed"]
    /\ current' = [current EXCEPT ![p] = NoRow]
    /\ left' = [left EXCEPT ![p] = <<>>]
    /\ Goto(p, "scan") /\ Keep(p)
    /\ UNCHANGED <<up, result, receipts, files, log, notices, workers, todo,
                   lost, gaveUp>>

\* The end of a drain that serves a worker's turn.
EndTurn(t) ==
    /\ Runs(t) /\ at[t] = "scan" /\ todo[t] = {}
    /\ turn' = [turn EXCEPT ![t] = "closed"]
    /\ Goto(t, "off") /\ Yield
    /\ UNCHANGED <<up, store, files, log, notices, run, todo, current,
                   left, history, spent>>

\* A row that another drain has settled: its acknowledgement raises KeyError
\* outside the try and the drain is over.  fail_task() comes back to it, the
\* recovery gives up and the notices with it.
Abort(p) ==
    /\ Runs(p) /\ at[p] = "scan"
    /\ \E r \in Nearest(p) : r \in receipts
    /\ todo' = [todo EXCEPT ![p] = {}]
    /\ IF p = Boot THEN Goto(p, "off") /\ Yield ELSE Goto(p, "show") /\ Keep(p)
    /\ gaveUp' = (gaveUp \/ p = Boot)
    /\ UNCHANGED <<up, store, files, log, notices, workers, current, left,
                   torn, lost, spent>>

-----------------------------------------------------------------------------
(* The coordinator                                                         *)

\* _loop waits for the recovery, then takes a notice.
Hear ==
    /\ Free /\ at[Boot] = "off" /\ speaking = NoTask /\ inbox # <<>>
    /\ speaking' = Head(inbox)
    /\ inbox' = Tail(inbox)
    /\ notice' = [notice EXCEPT ![Head(inbox)] = "processing"]
    /\ UNCHANGED <<up, running, store, files, log, queued, told, drains,
                   workers, history, spent>>

\* The coordinator's turn is over.
Answer ==
    /\ Free /\ speaking # NoTask
    /\ notice' = [notice EXCEPT ![speaking] = "processed"]
    /\ told' = [told EXCEPT ![speaking] = @ + 1]
    /\ queued' = queued \ {speaking}
    /\ speaking' = NoTask
    /\ UNCHANGED <<up, running, store, files, log, inbox, drains, workers,
                   history, spent>>

\* The turn raised: the file waits for the next start.
AnswerFails ==
    /\ Free /\ speaking # NoTask /\ Spend("fault")
    /\ notice' = [notice EXCEPT ![speaking] = "queued"]
    /\ queued' = queued \ {speaking}
    /\ speaking' = NoTask
    /\ UNCHANGED <<up, running, store, files, log, inbox, told, drains,
                   workers, history>>

-----------------------------------------------------------------------------
(* The writer thread, crash and restart                                    *)

\* The writer thread appends one event to the chat record.
Save ==
    /\ up /\ queue # <<>>
    /\ saved' = saved \cup {Head(queue)}
    /\ queue' = Tail(queue)
    /\ UNCHANGED <<up, running, store, files, chat, notices, drains, workers,
                   history, spent>>

\* The process dies: the tables, the files and the chat record are left.
Crash ==
    /\ up /\ Spend("crash")
    /\ up' = FALSE /\ running' = NoTask
    /\ chat' = saved /\ queue' = <<>> /\ lost' = lost \cup ToSet(queue)
    /\ torn' = torn \cup
           {current[p][1] : p \in {q \in Procs : at[q] = "audit"}}
    /\ queued' = {} /\ inbox' = <<>> /\ speaking' = NoTask
    /\ turn' = [t \in Tasks |-> IF turn[t] = "new" THEN "new" ELSE "closed"]
    /\ run' = NoTask
    /\ at' = [p \in Procs |-> "off"] /\ todo' = [p \in Procs |-> {}]
    /\ current' = [p \in Procs |-> NoRow] /\ left' = [p \in Procs |-> <<>>]
    /\ gaveUp' = FALSE
    /\ UNCHANGED <<store, files, saved, notice, told>>

\* start(): the recovery drains every row, without showing a result again.
Restart ==
    /\ ~up
    /\ up' = TRUE
    /\ Goto(Boot, "scan") /\ todo' = [todo EXCEPT ![Boot] = Open]
    /\ UNCHANGED <<running, store, files, log, notices, workers, current,
                   left, history, spent>>

\* _recover_completion_notifications(): the files that are not processed.
RecoverNotices ==
    LET again == {t \in Tasks : notice[t] \in {"queued", "processing"}
                                /\ t \notin queued} IN
    /\ Runs(Boot) /\ at[Boot] = "scan" /\ todo[Boot] = {}
    /\ queued' = queued \cup again
    /\ \E order \in SetToSeqs(again) : inbox' = inbox \o order
    /\ notice' = [t \in Tasks |-> IF t \in again THEN "queued" ELSE notice[t]]
    /\ Goto(Boot, "off") /\ Yield
    /\ UNCHANGED <<up, store, files, log, speaking, told, workers, todo,
                   current, left, history, spent>>

-----------------------------------------------------------------------------
Drain(p) ==
    \/ Claim(p) \/ WriteReport(p) \/ WriteAudit(p) \/ WriteWorklog(p)
    \/ Project(p) \/ Acknowledge(p) \/ Abort(p)

Turn(t) == Show(t) \/ Record(t) \/ Tell(t) \/ EndTurn(t) \/ Drain(t)

Recovery == Drain(Boot) \/ RecoverNotices

Next ==
    \/ \E t \in Tasks :
          \/ Begin(t) \/ Repeat(t) \/ Turn(t)
          \/ TellFails(t) \/ ShowFails(t) \/ ShowCancelled(t)
          \/ \E s \in Outcomes : Commit(t, s)
    \/ Recovery \/ \E p \in Procs : Fail(p)
    \/ Hear \/ Answer \/ AnswerFails
    \/ Save \/ Crash \/ Restart

\* Coroutines that can run do run, the writer thread works, the user starts
\* the backend again, and the coordinator's turn ends.
Fairness ==
    /\ \A t \in Tasks : WF_vars(Turn(t))
    /\ WF_vars(Recovery) /\ WF_vars(Hear) /\ WF_vars(Answer)
    /\ WF_vars(Save) /\ WF_vars(Restart)

Spec == Init /\ [][Next]_vars
FairSpec == Spec /\ Fairness

-----------------------------------------------------------------------------
(* Correctness                                                             *)

TypeOK ==
    /\ up \in BOOLEAN /\ running \in Procs \cup {NoTask}
    /\ result \in [Tasks -> Outcomes \cup {"none"}]
    /\ row \in [Rows -> {"none", "pending", "processing", "failed"}]
    /\ receipts \subseteq Rows
    /\ reports \in [Tasks -> Nat] /\ audit \subseteq Tasks
    /\ worklog \in [Tasks -> Nat] /\ seen \subseteq Tasks
    /\ chat \subseteq Emitted /\ saved \subseteq Emitted
    /\ queue \in Seq(Emitted)
    /\ notice \in [Tasks -> {"none", "queued", "processing", "processed"}]
    /\ queued \subseteq Tasks /\ inbox \in Seq(Tasks)
    /\ speaking \in Tasks \cup {NoTask} /\ told \in [Tasks -> Nat]
    /\ turn \in [Tasks -> {"new", "running", "ending", "closed"}]
    /\ run \in Tasks \cup {NoTask}
    /\ at \in [Procs -> {"off", "show", "shown", "tell", "scan", "report",
                         "audit", "memory", "effect"}]
    /\ todo \in [Procs -> SUBSET Rows]
    /\ current \in [Procs -> Rows \cup {NoRow}]
    /\ left \in [Procs -> Seq(Emitted)]
    /\ torn \subseteq Tasks /\ lost \subseteq Emitted /\ gaveUp \in BOOLEAN
    /\ spent \in [DOMAIN Limit -> Nat]

\* A committed result owes every projection until its receipt is written,
\* whatever crashes, raises or drains twice (the one transaction of
\* commit_run, _insert_outbox and acknowledge_outbox).
NothingForgotten ==
    \A r \in Rows : result[r[1]] # "none" =>
        (row[r] = "none" <=> r \in receipts)

\* A result has one report and one worklog entry however often it is projected
\* (_existing_report, the marker in the log), except for a report that lost
\* its audit copy.
EffectOnce ==
    \A t \in Tasks : worklog[t] <= 1 /\ (reports[t] > 1 => t \in torn)

\* A receipt stands for an effect that is on disk, on its way there or was
\* lost on that way: no row is acknowledged before its effect.
ReceiptHonest ==
    \A r \in receipts :
        /\ r[2] = "delivery" => <<r[1], "message">> \in chat \cup lost
        /\ r[2] = "ui" =>
              {<<r[1], "status">>, <<r[1], "idle">>} \subseteq chat \cup lost
        /\ r[2] = "report" => reports[r[1]] > 0

\* A notice the coordinator has answered is never put to it again by another
\* reconciliation of the same result (notify_coordinator: exactly once).
ToldOnce ==
    \A t \in Tasks :
        /\ notice[t] = "processed" => speaking # t /\ t \notin ToSet(inbox)
        /\ told[t] <= 1

\* Every row is settled or marked as failed, crash or not: no drain leaves a
\* row behind that nobody visits, unless the recovery has ended with an error.
RowsSettle ==
    \A r \in Rows :
        row[r] \in {"pending", "processing"}
            ~> (row[r] \in {"none", "failed"} \/ gaveUp)

\* The abstract outbox.
Promise == INSTANCE Outbox WITH
    owed <- {r \in Rows : row[r] # "none"}, settled <- receipts

ImplementsOutbox == Promise!Spec
=============================================================================
