------------------------------ MODULE TaskRun ------------------------------
(***************************************************************************)
(* One attempt of a worker at its task: WorkerRuntime.run (runtime.py) with *)
(* the operation it awaits (a request to the provider, knowe_core/          *)
(* provider_client.py, or a tool), the background processes the attempt     *)
(* owns (agent_runtime.py, AttemptProcessRegistry) and the stops the engine *)
(* sends it: stop_worker and stop call cancel() on the asyncio task.        *)
(*                                                                         *)
(* An action is what runs between two suspensions of a coroutine.  Events   *)
(* that run() emits are suspensions, for the engine relays and broadcasts   *)
(* them before emit() returns.                                              *)
(***************************************************************************)
EXTENDS Integers, FiniteSets

CONSTANTS
    Procs,          \* background processes the worker may start
    ProcessMax,     \* max_processes
    MaxRetries,     \* max_retries of the provider client
    MaxTurns,       \* bound: answers with tool calls
    MaxCalls,       \* bound: tool calls of one answer
    WallClock,      \* runtime_wall_clock_seconds is set; it is not by default
    MaxStops        \* bound: calls of cancel()

ASSUME TaskRunAssumption ==
    /\ IsFiniteSet(Procs) /\ ProcessMax \in Nat \ {0} /\ WallClock \in BOOLEAN
    /\ MaxRetries \in Nat /\ MaxTurns \in Nat /\ MaxCalls \in Nat \ {0}
    /\ MaxStops \in Nat

VARIABLES
    at,             \* where run() is suspended
    why,            \* the error _await is about to raise
    status,         \* the status of its result
    kind,           \* what the operation is: a step of the model, or a tool
    calls,          \* tool calls of the last answer still to be executed
    op,             \* the task of the operation
    attempt,        \* sendings of this request before the present one
    reformatted,    \* format_retried
    heard,          \* the sendings of this request that produced an event
    procs,          \* the background processes
    items,          \* _items of the registry
    closer,         \* _terminate of each process
    event,          \* cancellation_event
    late,           \* the task's wall clock has run out
    cut,            \* history: a stop cut the clean-up short
    astray,         \* history: the second look at the clock left an operation
    turns,          \* answers with tool calls so far
    stops           \* calls of cancel() so far

request  == <<attempt, reformatted, heard>>
registry == <<procs, items, closer>>
bounds   == <<turns, stops>>
history  == <<cut, astray>>
vars == <<at, why, status, kind, calls, op, request, registry, event, late,
          history, bounds>>

Unawaited == {"none", "answered", "failed", "gone"}

Init ==
    /\ at = "started" /\ why = "none" /\ status = "none"
    /\ kind = "step" /\ calls = 0 /\ op = "none"
    /\ attempt = 0 /\ reformatted = FALSE /\ heard = {}
    /\ procs = [p \in Procs |-> "none"] /\ items = {}
    /\ closer = [p \in Procs |-> "open"]
    /\ event = FALSE /\ late = FALSE /\ cut = FALSE
    /\ astray = FALSE
    /\ turns = 0 /\ stops = 0

-----------------------------------------------------------------------------
(* run(): the loop                                                         *)

Verdict(w) == CASE w = "cancelled" -> "CANCELLED"
                [] w = "timeout"   -> "TIMED_OUT"
                [] OTHER           -> "SYSTEM_ERROR"

\* An except clause of run(): the result, then the event about it.
Handle(w) ==
    /\ at' = "report" /\ why' = "none" /\ status' = Verdict(w)
    /\ event' = (event \/ w = "cancelled")

Goes(place) ==
    /\ at' = place
    /\ UNCHANGED <<why, status, event>>

\* _check_cancel: the wall clock is read before the event goes out.
Enter(place) == IF late THEN Handle("timeout") ELSE Goes(place)

\* finally: _cleanup() closes the registry first, then the browser session.
Close ==
    /\ at' = IF items = {} THEN "browser" ELSE "closing"
    /\ closer' = [p \in Procs |-> IF p \in items THEN "queued" ELSE "done"]

\* The loop begins: MODEL_CALLED goes out.
Started ==
    /\ at = "started" /\ Enter("ask")
    /\ UNCHANGED <<kind, calls, op, request, registry, late, history, bounds>>

\* _await reads the clock before it creates the operation and again when it is
\* created, before the try that would cancel it: a clock that runs out in between
\* ends the run and leaves the operation to itself.
Await(ops) ==
    \/ /\ Enter("wait")
       /\ IF late THEN UNCHANGED op ELSE op' \in ops
       /\ UNCHANGED <<late, astray>>
    \/ /\ WallClock /\ ~late
       /\ Handle("timeout") /\ op' \in ops
       /\ late' = TRUE /\ astray' = TRUE

\* The next request.
Ask ==
    /\ at = "ask"
    /\ Await({"sending"})
    /\ IF late
       THEN UNCHANGED <<kind, request>>
       ELSE /\ kind' = "step"
            /\ attempt' = 0 /\ reformatted' = FALSE /\ heard' = {}
    /\ UNCHANGED <<calls, registry, cut, bounds>>

\* MODEL_COMPLETED is out: a final answer ends the run, an answer with tool
\* calls has them executed one after the other.
Heard ==
    /\ at = "heard"
    /\ IF calls = 0
       THEN Close /\ status' = "SUCCEEDED" /\ UNCHANGED <<why, event, turns>>
       ELSE Enter("tools") /\ turns' = turns + 1 /\ UNCHANGED closer
    /\ UNCHANGED <<kind, calls, op, request, procs, items, late, history,
                   stops>>

\* TOOL_STARTED is out: the tool is called, unless nobody knows its name.
Call ==
    /\ at = "tools"
    /\ kind' = "tool"
    /\ \/ Await({"working", "creating"})
       \/ Goes("tooled") /\ UNCHANGED <<op, late, astray>>
    /\ UNCHANGED <<calls, request, registry, cut, bounds>>

\* TOOL_COMPLETED or TOOL_REJECTED is out, the answer joins the messages.
Tooled ==
    /\ at = "tooled"
    /\ calls' = calls - 1
    /\ Enter(IF calls = 1 THEN "ask" ELSE "tools")
    /\ UNCHANGED <<kind, op, request, registry, late, history, bounds>>

\* The event about the failed attempt is out.
Reported ==
    /\ at = "report" /\ Close
    /\ UNCHANGED <<why, status, kind, calls, op, request, procs, items, event,
                   late, history, bounds>>

-----------------------------------------------------------------------------
(* _await(): an operation, the cancellation event and the timer            *)

\* The operation is done; the watcher of the event is cancelled and awaited.
Return ==
    /\ at = "wait" /\ op \in Unawaited
    /\ Goes("settle")
    /\ UNCHANGED <<kind, calls, op, request, registry, late, history, bounds>>

\* The operation is cancelled and awaited, whatever it answered is dropped.
Drop(w) ==
    /\ why' = w
    /\ IF op \in Unawaited THEN at' = "settle" /\ UNCHANGED op
                           ELSE at' = "unwind" /\ op' = "dying"

TimeOut ==
    /\ at = "wait" /\ late
    /\ Drop("timeout")
    /\ UNCHANGED <<status, kind, calls, request, registry, event, late,
                   history, bounds>>

Unwound ==
    /\ at = "unwind" /\ op \in Unawaited
    /\ Goes("settle")
    /\ UNCHANGED <<kind, calls, op, request, registry, late, history, bounds>>

\* The watcher is gone.  An exception of a tool is an answer to the model unless
\* it is asyncio.TimeoutError; one of the provider client ends the run.
Settled ==
    /\ at = "settle" /\ op' = "none"
    /\ \/ why # "none" /\ Handle(why)
       \/ /\ why = "none" /\ op = "failed"
          /\ Handle(IF kind = "step" THEN "error" ELSE "timeout")
       \/ /\ why = "none" /\ (op = "failed" => kind = "tool")
          /\ Goes(IF kind = "step" THEN "heard" ELSE "tooled")
    /\ UNCHANGED <<kind, calls, request, registry, late, history, bounds>>

-----------------------------------------------------------------------------
(* chat_stream(): one request, sent again while nothing of it was heard    *)

\* continue: the next round of the loop, if it has one.
Again(place) ==
    /\ attempt' = attempt + 1
    /\ op' = IF attempt + 1 < MaxRetries + 2 THEN place ELSE "unexpected"

CanRetry == attempt < MaxRetries

\* The first event, which the worker's bubble shows at once.
FirstEvent ==
    /\ op = "sending" /\ op' = "streaming"
    /\ heard' = heard \cup {attempt}
    /\ UNCHANGED <<at, why, status, kind, calls, attempt, reformatted, registry,
                   event, late, history, bounds>>

\* The stream ends, finish frame or not; without a tool call it is final.
StreamEnds ==
    /\ op \in {"sending", "streaming"} /\ op' = "answered"
    /\ \/ calls' = 0
       \/ op = "streaming" /\ turns < MaxTurns /\ calls' \in 1 .. MaxCalls
    /\ UNCHANGED <<at, why, status, kind, request, registry, event, late,
                   history, bounds>>

\* The gateway refuses a file block: the request is sent with text instead.
FormatRefused ==
    /\ op = "sending" /\ ~reformatted
    /\ reformatted' = TRUE /\ Again("sending")
    /\ UNCHANGED <<at, why, status, kind, calls, heard, registry, event, late,
                   history, bounds>>

\* It fails before the first event: for good, or to be sent again.
SendFails ==
    /\ op = "sending"
    /\ \/ op' = "failed"
       \/ CanRetry /\ op' = "backoff"
    /\ UNCHANGED <<at, why, status, kind, calls, request, registry, event, late,
                   history, bounds>>

Retry ==
    /\ op = "backoff" /\ Again("sending")
    /\ UNCHANGED <<at, why, status, kind, calls, reformatted, heard, registry,
                   event, late, history, bounds>>

\* Fault: a stream that breaks off is retried like a refused request.
StreamFailsAgain ==
    /\ op = "streaming"
    /\ \/ op' = "failed"
       \/ CanRetry /\ op' = "backoff"
    /\ UNCHANGED <<at, why, status, kind, calls, request, registry, event, late,
                   history, bounds>>

StreamFails ==
    /\ op = "streaming" /\ op' = "failed"
    /\ UNCHANGED <<at, why, status, kind, calls, request, registry, event, late,
                   history, bounds>>

-----------------------------------------------------------------------------
(* Tools and the background processes of the attempt                       *)

\* A tool ends with an answer or with an exception.
Work ==
    /\ op = "working" /\ op' \in {"answered", "failed"}
    /\ UNCHANGED <<at, why, status, kind, calls, request, registry, event, late,
                   history, bounds>>

Closed == \E p \in Procs : closer[p] # "open"
Alive  == {p \in items : procs[p] # "dead"}

\* start(): the process is listed with no suspension after its creation.
Create(p) ==
    /\ op = "creating" /\ procs[p] = "none"
    /\ ~Closed /\ Cardinality(Alive) < ProcessMax
    /\ procs' = [procs EXCEPT ![p] = "running"]
    /\ items' = items \cup {p}
    /\ op' = "booting"
    /\ UNCHANGED <<at, why, status, kind, calls, request, closer, event, late,
                   history, bounds>>

\* The registry is closed or full, or the shell cannot be started.
CreateFails ==
    /\ op = "creating" /\ op' = "failed"
    /\ UNCHANGED <<at, why, status, kind, calls, request, registry, event, late,
                   history, bounds>>

\* The quarter of a second in which a failure to start shows.
Booted ==
    /\ op = "booting" /\ op' = "answered"
    /\ UNCHANGED <<at, why, status, kind, calls, request, registry, event, late,
                   history, bounds>>

\* A cancelled operation ends: asyncio closes the response or the transport.
Dies ==
    /\ op = "dying" /\ op' = "gone"
    /\ UNCHANGED <<at, why, status, kind, calls, request, registry, event, late,
                   history, bounds>>

\* A process ends: by itself, on a signal it heeds, or killed.
Exit(p) ==
    /\ procs[p] \in {"running", "termed", "killed"}
    /\ procs' = [procs EXCEPT ![p] = "dead"]
    /\ UNCHANGED <<at, why, status, kind, calls, op, request, items, closer,
                   event, late, history, bounds>>

-----------------------------------------------------------------------------
(* aclose(): one _terminate per process, run together                      *)

\* SIGKILL if the attempt was cancelled, SIGTERM otherwise.
Signal(p) ==
    /\ at = "closing" /\ closer[p] = "queued"
    /\ IF procs[p] = "dead"
       THEN closer' = [closer EXCEPT ![p] = "done"] /\ UNCHANGED procs
       ELSE /\ closer' = [closer EXCEPT ![p] = "grace"]
            /\ procs' = [procs EXCEPT ![p] = IF event THEN "killed" ELSE "termed"]
    /\ UNCHANGED <<at, why, status, kind, calls, op, request, items, event, late,
                   history, bounds>>

Reaped(p) ==
    /\ at = "closing" /\ closer[p] \in {"grace", "force"} /\ procs[p] = "dead"
    /\ closer' = [closer EXCEPT ![p] = "done"]
    /\ UNCHANGED <<at, why, status, kind, calls, op, request, procs, items,
                   event, late, history, bounds>>

\* Fault: no second signal.
GraceEndsQuietly(p) ==
    /\ at = "closing" /\ closer[p] = "grace" /\ procs[p] # "dead"
    /\ closer' = [closer EXCEPT ![p] = "force"]
    /\ UNCHANGED <<at, why, status, kind, calls, op, request, procs, items,
                   event, late, history, bounds>>

\* Fault: process.wait() without a timeout.
GraceNeverEnds(p) == FALSE

\* A process that has not heeded the signal in time is killed.
GraceEnds(p) ==
    /\ at = "closing" /\ closer[p] = "grace" /\ procs[p] # "dead"
    /\ closer' = [closer EXCEPT ![p] = "force"]
    /\ procs' = [procs EXCEPT ![p] = "killed"]
    /\ UNCHANGED <<at, why, status, kind, calls, op, request, items, event, late,
                   history, bounds>>

\* The wait for a killed process is given up.
ForceEnds(p) ==
    /\ at = "closing" /\ closer[p] = "force" /\ procs[p] # "dead"
    /\ closer' = [closer EXCEPT ![p] = "done"]
    /\ UNCHANGED <<at, why, status, kind, calls, op, request, procs, items,
                   event, late, history, bounds>>

ClosedAll ==
    /\ at = "closing" /\ \A p \in Procs : closer[p] = "done"
    /\ Goes("browser")
    /\ UNCHANGED <<kind, calls, op, request, registry, late, history, bounds>>

\* An attempt that succeeded announces its delivery before run() returns.
BrowserClosed ==
    /\ at = "browser"
    /\ Goes(IF status = "SUCCEEDED" THEN "deliver" ELSE "over")
    /\ UNCHANGED <<kind, calls, op, request, registry, late, history, bounds>>

Delivered ==
    /\ at = "deliver" /\ Goes("over")
    /\ UNCHANGED <<kind, calls, op, request, registry, late, history, bounds>>

-----------------------------------------------------------------------------
(* cancel(), and the wall clock                                            *)

Cancel == stops < MaxStops /\ stops' = stops + 1

\* Before try: and after finally: nothing catches the error.
StopOutside ==
    /\ Cancel /\ at \in {"started", "deliver"}
    /\ Goes("over") /\ status' = "none"
    /\ UNCHANGED <<kind, calls, op, request, registry, late, history, turns>>

\* run() is emitting an event.
StopEmitting ==
    /\ Cancel /\ at \in {"ask", "heard", "tools", "tooled"}
    /\ Handle("cancelled")
    /\ UNCHANGED <<kind, calls, op, request, registry, late, history, turns>>

\* Fault: the operation is left to itself.
StopWaitingAlone ==
    /\ Cancel /\ at = "wait"
    /\ why' = "cancelled" /\ at' = "settle"
    /\ UNCHANGED <<status, kind, calls, op, request, registry, event, late,
                   history, turns>>

StopWaiting ==
    /\ Cancel /\ at = "wait"
    /\ Drop("cancelled")
    /\ UNCHANGED <<status, kind, calls, request, registry, event, late,
                   history, turns>>

\* contextlib.suppress(CancelledError) around the wait for the operation, the
\* watcher or the timer takes the stop for the end of what it waits for.
StopSuppressed ==
    /\ Cancel /\ at \in {"unwind", "settle"}
    /\ UNCHANGED <<at, why, status, kind, calls, op, request, registry, event,
                   late, history, turns>>

\* The error leaves the except clause; finally: still runs.
StopReporting ==
    /\ Cancel /\ at = "report" /\ Close /\ status' = "none"
    /\ UNCHANGED <<why, kind, calls, op, request, procs, items, event, late,
                   history, turns>>

\* CancelledError is no Exception: it leaves _cleanup(), and every _terminate.
StopClosing ==
    /\ Cancel /\ at \in {"closing", "browser"}
    /\ at' = "over" /\ status' = "none" /\ cut' = TRUE /\ UNCHANGED astray
    /\ UNCHANGED <<why, kind, calls, op, request, registry, event, late, turns>>

Late ==
    /\ WallClock /\ ~late /\ at # "over" /\ late' = TRUE
    /\ UNCHANGED <<at, why, status, kind, calls, op, request, registry, event,
                   history, bounds>>

-----------------------------------------------------------------------------
Run == Started \/ Ask \/ Heard \/ Call \/ Tooled \/ Reported \/ Return
       \/ TimeOut \/ Unwound \/ Settled \/ ClosedAll \/ BrowserClosed
       \/ Delivered

Operate == FirstEvent \/ StreamEnds \/ FormatRefused \/ SendFails \/ Retry
           \/ StreamFails \/ Work \/ CreateFails \/ Booted \/ Dies

Terminate(p) == Signal(p) \/ Reaped(p) \/ GraceEnds(p) \/ ForceEnds(p)

Stop == StopOutside \/ StopEmitting \/ StopWaiting \/ StopSuppressed
        \/ StopReporting \/ StopClosing

Next == Run \/ Operate \/ Stop \/ Late
        \/ \E p \in Procs : Create(p) \/ Exit(p) \/ Terminate(p)

\* The event loop runs what is ready, events go out, the timeouts of _terminate
\* fire, a cancelled operation ends and so does a killed process.  Nothing
\* makes the provider answer, a tool end or a process heed SIGTERM.
Fairness ==
    /\ WF_vars(Run) /\ WF_vars(Dies)
    /\ \A p \in Procs :
          /\ WF_vars(Terminate(p))
          /\ WF_vars(procs[p] = "killed" /\ Exit(p))

Spec == Init /\ [][Next]_vars
FairSpec == Spec /\ Fairness

-----------------------------------------------------------------------------
(* What is checked                                                         *)

Places == {"started", "ask", "wait", "unwind", "settle", "heard", "tools",
           "tooled", "report", "closing", "browser", "deliver", "over"}

TypeOK ==
    /\ at \in Places /\ why \in {"none", "cancelled", "timeout"}
    /\ status \in {"none", "SUCCEEDED", "CANCELLED", "TIMED_OUT", "SYSTEM_ERROR"}
    /\ kind \in {"step", "tool"} /\ calls \in Nat
    /\ op \in Unawaited \cup {"sending", "streaming", "backoff", "working",
                              "creating", "booting", "dying", "unexpected"}
    /\ attempt \in Nat /\ reformatted \in BOOLEAN /\ heard \subseteq Nat
    /\ procs \in [Procs -> {"none", "running", "termed", "killed", "dead"}]
    /\ items \subseteq Procs
    /\ closer \in [Procs -> {"open", "queued", "grace", "force", "done"}]
    /\ event \in BOOLEAN /\ late \in BOOLEAN /\ cut \in BOOLEAN
    /\ astray \in BOOLEAN
    /\ turns \in Nat /\ stops \in Nat

\* No background process outlives its attempt, whatever it does with SIGTERM
\* and wherever the stop came in, unless a stop cut the clean-up itself short
\* (tools_knowe.py, "attempt-owned and will be terminated during Runtime
\* cleanup").
NoProcessLeft ==
    at = "over" /\ ~cut =>
        \A p \in Procs : procs[p] \in {"none", "killed", "dead"}

\* An operation is at work only while run() waits for it: no stream goes on
\* telling the worker's bubble what the model thinks once the attempt has
\* ended or has gone on (runtime.py _await, v1.0.35.2, the orphan task).
StreamStops == op \notin Unawaited => at \in {"wait", "unwind"}

\* So it is unless a wall clock is set and ran out between the two readings of
\* _await, which can only be the last thing of an attempt that does not succeed.
OnlyAwaited ==
    /\ StreamStops \/ astray
    /\ astray => /\ WallClock /\ status # "SUCCEEDED"
                 /\ at \in {"report", "closing", "browser", "over"}

\* What the user saw of an answer comes from one sending of the request: it is
\* sent again only while nothing was heard (chat_stream, "safe pre-output
\* retries").
HeardOnce ==
    /\ \A n \in heard : n = attempt
    /\ heard # {} => op \notin {"sending", "backoff"}

\* The slot a change of format takes is always there: the loop never runs out
\* of rounds (chat_stream, "Provider retry loop ended unexpectedly").
LoopLongEnough == op # "unexpected"

\* A run that has begun to unwind ends, even with a process that ignores
\* SIGTERM and a provider that never answers.
Unwinding ==
    \/ at \in {"unwind", "report", "closing", "browser", "deliver"}
    \/ at = "settle" /\ why # "none"

UnwindingEnds == Unwinding ~> at = "over"

\* Once it was stopped, a run asks the model nothing more (engine.py
\* stop_worker, "Cancel one authoritative Runtime task").
StopIsFinal == [][at = "ask" /\ at' = "wait" => stops = 0]_vars
=============================================================================
