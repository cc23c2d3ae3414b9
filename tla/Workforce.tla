----------------------------- MODULE Workforce -----------------------------
(***************************************************************************)
(* How one worker of a project gets its work (backend/engine.py): handoffs *)
(* the coordinator proposes and the user approves, direct messages that    *)
(* wait while the worker is busy, the two kinds of turns that run them,    *)
(* the user's stop, and the stop of the engine.  Who owns the worker is    *)
(* spread over four tables, and every path that ends a turn must settle    *)
(* all of them and leave one result (a CompletionEvent) per job.           *)
(*                                                                         *)
(* One action is one stretch of a coroutine between two awaits.  The awaits *)
(* for the projections of a result end by themselves; the run of the worker *)
(* need not, it has no wall clock unless one is configured.                *)
(* The reason of a stop only selects the wording and CANCELLED for FAILED  *)
(* in a result, and is left out; so are archiving and deleting the worker. *)
(***************************************************************************)
EXTENDS Integers, FiniteSets, SequencesExt

CONSTANTS
    Handoffs,       \* tasks the coordinator proposes
    Messages,       \* messages the user sends to the worker
    NoJob,
    MaxStops,       \* bound: clicks on "stop"
    MaxErrors,      \* bound: exceptions while a run is prepared
    MaxFaults       \* bound: results the store refuses

Jobs == Handoffs \cup Messages

ASSUME WorkforceAssumption ==
    /\ Handoffs \cap Messages = {} /\ NoJob \notin Jobs
    /\ MaxStops \in Nat /\ MaxErrors \in Nat /\ MaxFaults \in Nat

VARIABLES
    up,         \* not _stopping
    card,       \* the handoff on the open propose_next card
    envelope,   \* _task_envelopes
    open,       \* _workers_with_open_activity
    turn,       \* _worker_turns and _direct_turns: the job and how far it is
    run,        \* _worker_runtime_runs: the job of the last run registered
    pending,    \* _dm_pending
    flushing,   \* messages taken from it whose submit_dm has not begun
    stops,      \* how far each stop_worker call is
    detached,   \* fail_task calls whose shielded turn was cancelled again
    results,    \* the completion store: results of each job
    offered,    \* jobs that were proposed or sent
    unheard,    \* history: jobs a turn left without a result
    errors, faults

tables == <<envelope, open, run>>
queue  == <<pending, flushing>>
bounds == <<errors, faults>>
vars == <<up, card, tables, turn, queue, stops, detached, results, offered,
          unheard, bounds>>

Kinds == {"worker", "direct"}
Calls == 1 .. MaxStops
NoTurn == [job |-> NoJob, at |-> "off"]

Busy == turn["worker"] # NoTurn \/ turn["direct"] # NoTurn \/ open
            \/ envelope # NoJob

Fresh(j) == up /\ j \notin offered /\ offered' = offered \cup {j}

Go(k, j, at) == turn' = [turn EXCEPT ![k] = [job |-> j, at |-> at]]

Own(j) == envelope' = j /\ open' = TRUE

\* _close_task_envelope
Closed == envelope' = NoJob /\ open' = FALSE

\* The same, when the envelope may be that of a job nobody runs any more.
Abandoned ==
    /\ Closed
    /\ unheard' = unheard \cup
           {j \in Jobs : j = envelope /\ results[j] = 0
                          /\ \A k \in Kinds : turn[k].job # j
                                              \/ turn[k].at = "done"}

Init ==
    /\ up = TRUE /\ card = NoJob
    /\ envelope = NoJob /\ open = FALSE /\ run = NoJob
    /\ turn = [k \in Kinds |-> NoTurn]
    /\ pending = <<>> /\ flushing = {}
    /\ stops = [c \in Calls |-> "idle"] /\ detached = 0
    /\ results = [j \in Jobs |-> 0]
    /\ offered = {} /\ unheard = {}
    /\ errors = 0 /\ faults = 0

-----------------------------------------------------------------------------
(* Work arrives                                                            *)

\* A stop whose turn has ended goes on before anything that suspends first.
Quiet == \A c \in Calls : stops[c] # "waking"

\* A card is shown only for a worker that is free, one card at a time.
Propose(h) ==
    /\ Fresh(h) /\ card = NoJob /\ ~Busy /\ Quiet
    /\ card' = h
    /\ UNCHANGED <<up, tables, turn, queue, stops, detached, results, unheard,
                   bounds>>

ApproveUnchecked ==
    /\ card # NoJob
    /\ card' = NoJob
    /\ Own(card)
    /\ IF turn["worker"] = NoTurn THEN Go("worker", card, "new")
                                  ELSE UNCHANGED turn
    /\ UNCHANGED <<up, run, queue, stops, detached, results, offered,
                   unheard, bounds>>

\* The answer comes minutes later: the worker is checked again, and from there
\* to the start of the turn nothing suspends.
Approve ==
    /\ card # NoJob /\ ~Busy
    /\ card' = NoJob
    /\ Own(card) /\ Go("worker", card, "new")
    /\ UNCHANGED <<up, run, queue, stops, detached, results, offered,
                   unheard, bounds>>

\* The card is rejected, or its approval is obsolete.
Dismiss ==
    /\ card # NoJob /\ card' = NoJob
    /\ UNCHANGED <<up, tables, turn, queue, stops, detached, results, offered,
                   unheard, bounds>>

SubmitUnchecked(m) ==
    open' = TRUE /\ Go("direct", m, "new") /\ UNCHANGED pending

\* submit_dm: queued when the worker is busy, otherwise started; the worker is
\* marked busy before the turn has run a step.
Submit(m) ==
    IF Busy
    THEN pending' = Append(pending, m) /\ UNCHANGED <<open, turn>>
    ELSE open' = TRUE /\ Go("direct", m, "new") /\ UNCHANGED pending

Say(m) ==
    /\ Fresh(m) /\ Submit(m)
    /\ UNCHANGED <<up, card, envelope, run, flushing, stops, detached, results,
                   unheard, bounds>>

SubmitIfFree(m) ==
    IF Busy THEN UNCHANGED <<open, turn, pending>>
    ELSE open' = TRUE /\ Go("direct", m, "new") /\ UNCHANGED pending

FlushedIfFree(m) ==
    /\ m \in flushing /\ flushing' = flushing \ {m}
    /\ IF up THEN SubmitIfFree(m) ELSE UNCHANGED <<open, turn, pending>>
    /\ UNCHANGED <<up, card, envelope, run, stops, detached, results, offered,
                   unheard, bounds>>

\* The submit_dm a flush has scheduled.
Flushed(m) ==
    /\ m \in flushing /\ flushing' = flushing \ {m}
    /\ IF up THEN Submit(m) ELSE UNCHANGED <<open, turn, pending>>
    /\ UNCHANGED <<up, card, envelope, run, stops, detached, results, offered,
                   unheard, bounds>>

\* The end of a coordinator turn starts an envelope that nobody runs.
Spawn ==
    /\ up /\ envelope # NoJob /\ \A k \in Kinds : turn[k] = NoTurn
    /\ Go("worker", envelope, "new")
    /\ UNCHANGED <<up, card, tables, queue, stops, detached, results, offered,
                   unheard, bounds>>

-----------------------------------------------------------------------------
(* A result is committed                                                   *)

Plus(j) == results' = [results EXCEPT ![j] = @ + 1]

CommitAgain(j) == results[j] < 2 /\ Plus(j)

\* task_runs belongs to the first run that has committed: a second run of the
\* same task is refused (_upsert_task_run).
Commit(j) == results[j] = 0 /\ Plus(j)

\* The task fail_task settles: that of the last run registered, and only
\* without one that of the envelope.
Failing == IF run # NoJob THEN run ELSE envelope

\* fail_task up to its first await: a task that has a result keeps it.
Fail(t) ==
    IF results[t] = 0 THEN Commit(t) /\ run' = t
                      ELSE UNCHANGED <<results, run>>

Heard(j) == unheard' = IF results'[j] = 0 THEN unheard \cup {j} ELSE unheard

\* The turn of k calls fail_task; with nothing to fail the call returns False.
TurnFails(k, at) ==
    LET j == turn[k].job IN
    /\ IF Failing = NoJob
       THEN Go(k, j, "done") /\ UNCHANGED <<results, run>>
       ELSE Fail(Failing) /\ Go(k, j, at)
    /\ Heard(j)

\* The store refuses that result too.  A worker turn closes the envelope all
\* the same, a direct turn only logs the exception.
TurnFailsUnheard(k) ==
    LET j == turn[k].job IN
    /\ faults < MaxFaults /\ faults' = faults + 1
    /\ Failing # NoJob /\ results[Failing] = 0
    /\ Go(k, j, "done")
    /\ unheard' = unheard \cup {j}
    /\ IF k = "worker" THEN Closed ELSE UNCHANGED <<envelope, open>>
    /\ UNCHANGED <<run, results>>

-----------------------------------------------------------------------------
(* A turn                                                                  *)

\* The first step takes the envelope, and makes one from the text of the
\* message (or of the handoff, when its envelope was closed) if there is none.
\* A turn the end of another has created begins before the stop that waited
\* for that end goes on; any other turn begins after it.
Begin(k) ==
    /\ \/ turn[k].at = "respawned"
       \/ turn[k].at = "new" /\ Quiet
    /\ LET j == IF envelope # NoJob THEN envelope ELSE turn[k].job IN
       Own(j) /\ Go(k, j, "preparing")
    /\ UNCHANGED <<up, card, run, queue, stops, detached, results, offered,
                   unheard, bounds>>

\* The runtime is created and registers its run.
Start(k) ==
    /\ turn[k].at = "preparing"
    /\ Own(turn[k].job) /\ run' = turn[k].job
    /\ Go(k, turn[k].job, "running")
    /\ UNCHANGED <<up, card, queue, stops, detached, results, offered,
                   unheard, bounds>>

BlockUncommitted(k) ==
    LET j == turn[k].job IN
    /\ turn[k].at = "preparing"
    /\ run' = j /\ envelope' = j /\ Go(k, j, "ending")
    /\ UNCHANGED <<up, card, open, queue, stops, detached, results, offered,
                   unheard, bounds>>

\* A required file is missing: BLOCKED, without a run.
Block(k) ==
    LET j == turn[k].job IN
    /\ turn[k].at = "preparing"
    /\ IF results[j] = 0 THEN Commit(j) ELSE UNCHANGED results
    /\ run' = j /\ envelope' = j /\ Go(k, j, "ending")
    /\ UNCHANGED <<up, card, open, queue, stops, detached, offered, unheard,
                   bounds>>

\* Anything else goes wrong before there is a run.
Break(k) ==
    /\ turn[k].at = "preparing" /\ errors < MaxErrors /\ errors' = errors + 1
    /\ TurnFails(k, "failing")
    /\ UNCHANGED <<up, card, envelope, open, queue, stops, detached, offered,
                   faults>>

BreakTwice(k) ==
    /\ turn[k].at = "preparing" /\ errors < MaxErrors /\ errors' = errors + 1
    /\ TurnFailsUnheard(k)
    /\ UNCHANGED <<up, card, queue, stops, detached, offered>>

\* The run ends with a result of any kind, a cancelled one included: the
\* runtime swallows the first CancelledError.
Finish(k) ==
    LET j == turn[k].job IN
    /\ turn[k].at = "running"
    /\ Commit(j) /\ run' = j /\ envelope' = j /\ Go(k, j, "ending")
    /\ UNCHANGED <<up, card, open, queue, stops, detached, offered, unheard,
                   bounds>>

\* The result of the run, or that it was blocked, cannot be committed; this run
\* is registered by now, so fail_task commits for it.
FinishRefused(k) ==
    LET j == turn[k].job IN
    /\ \/ /\ turn[k].at = "running" /\ results[j] > 0
          /\ UNCHANGED <<results, faults>>
       \/ /\ turn[k].at \in {"preparing", "running"} /\ Commit(j)
          /\ faults < MaxFaults /\ faults' = faults + 1
    /\ run' = j /\ envelope' = j
    /\ Go(k, j, "failing")
    /\ UNCHANGED <<up, card, open, queue, stops, detached, offered, unheard,
                   errors>>

\* The projections of the result are done and the envelope is closed.
Settle(k) ==
    /\ turn[k].at \in {"ending", "failing", "shielded"}
    /\ Closed /\ Go(k, turn[k].job, "done")
    /\ UNCHANGED <<up, card, run, queue, stops, detached, results, offered,
                   unheard, bounds>>

\* A fail_task that outlived its turn closes whatever envelope there is.
SettleDetached ==
    /\ detached > 0 /\ detached' = detached - 1
    /\ Abandoned
    /\ UNCHANGED <<up, card, run, turn, queue, stops, results, offered,
                   bounds>>

FinishedQuietly(k) ==
    /\ turn[k].at = "done"
    /\ turn' = [turn EXCEPT ![k] = NoTurn]
    /\ stops' = [c \in Calls |->
                     IF stops[c] = "waiting" THEN "waking" ELSE stops[c]]
    /\ UNCHANGED <<up, card, tables, queue, detached, results, offered,
                   unheard, bounds>>

\* The callback of the finished task: the next message is taken if the worker
\* is free, and after a worker turn an envelope that is still there is run.
Finished(k) ==
    LET quiet == \A o \in Kinds \ {k} : turn[o] = NoTurn
        free  == quiet /\ ~open /\ envelope = NoJob
    IN
    /\ turn[k].at = "done"
    /\ IF up /\ free /\ pending # <<>>
       THEN /\ pending' = Tail(pending)
            /\ flushing' = flushing \cup {Head(pending)}
       ELSE UNCHANGED queue
    /\ IF up /\ k = "worker" /\ quiet /\ envelope # NoJob
       THEN Go(k, envelope, "respawned")
       ELSE turn' = [turn EXCEPT ![k] = NoTurn]
    /\ stops' = [c \in Calls |->
                     IF stops[c] = "waiting" THEN "waking" ELSE stops[c]]
    /\ UNCHANGED <<up, card, tables, detached, results, offered,
                   unheard, bounds>>

-----------------------------------------------------------------------------
(* The user stops the worker, the engine stops                             *)

Current == IF turn["direct"] # NoTurn THEN "direct" ELSE "worker"

\* task.cancel().  A turn without a step never runs; the second CancelledError
\* leaves the runtime; a turn that is failing is cut off in its fail_task.
Cut(k) ==
    LET j == turn[k].job
        swallowed == turn[k].at = "running"
                     /\ \A c \in Calls : stops[c] # "waiting"
    IN
    CASE turn[k].at \in {"new", "respawned"} ->
             /\ Go(k, j, "done")
             /\ unheard' = IF envelope # j THEN unheard \cup {j} ELSE unheard
             /\ UNCHANGED <<run, results, detached>>
      [] swallowed ->
             UNCHANGED <<turn, run, results, unheard, detached>>
      [] turn[k].at \in {"preparing", "running", "ending"} /\ ~swallowed ->
             TurnFails(k, "shielded") /\ UNCHANGED detached
      [] turn[k].at = "failing" ->
             /\ Go(k, j, "done")
             /\ UNCHANGED <<run, results, unheard, detached>>
      [] turn[k].at = "shielded" ->
             /\ Go(k, j, "done") /\ detached' = detached + 1
             /\ UNCHANGED <<run, results, unheard>>

Cancellable == turn[Current].at \notin {"off", "done"}

Stop(c) ==
    /\ up /\ stops[c] = "idle" /\ Cancellable
    /\ Cut(Current)
    /\ stops' = [stops EXCEPT ![c] = "waiting"]
    /\ UNCHANGED <<up, card, envelope, open, queue, offered, bounds>>

\* The result of the stop itself is refused.
StopRefused(c) ==
    /\ up /\ stops[c] = "idle"
    /\ \/ turn[Current].at = "preparing"
       \/ turn[Current].at = "running" /\ \E d \in Calls : stops[d] = "waiting"
    /\ TurnFailsUnheard(Current)
    /\ stops' = [stops EXCEPT ![c] = "waiting"]
    /\ UNCHANGED <<up, card, queue, detached, offered, errors>>

\* Nothing to cancel, but busy: stop_worker calls fail_task itself.
StopIdle(c) ==
    /\ up /\ stops[c] = "idle" /\ Busy /\ ~Cancellable
    /\ IF Failing = NoJob
       THEN UNCHANGED <<results, run>> /\ stops' = [stops EXCEPT ![c] = "done"]
       ELSE Fail(Failing) /\ stops' = [stops EXCEPT ![c] = "failing"]
    /\ UNCHANGED <<up, card, envelope, open, turn, queue, detached, offered,
                   unheard, bounds>>

\* stop_worker goes on: after the turn has ended, or after its own fail_task.
StopEnds(c) ==
    /\ \/ stops[c] = "waking" /\ flushing = {}
          /\ \A k \in Kinds : turn[k].at # "respawned"
       \/ stops[c] = "failing"
    /\ stops' = [stops EXCEPT ![c] = "done"]
    /\ Abandoned
    /\ UNCHANGED <<up, card, run, turn, queue, detached, results, offered,
                   bounds>>

\* stop(): cards are settled, queued messages dropped, turns cancelled without
\* a result, except for what the runtime makes of its cancellation.
StopEngine ==
    /\ up /\ up' = FALSE
    /\ card' = NoJob /\ pending' = <<>>
    /\ turn' = [k \in Kinds |->
                   IF turn[k].at \in {"off", "running"} THEN turn[k]
                   ELSE [turn[k] EXCEPT !.at = "done"]]
    /\ detached' = detached
                   + Cardinality({k \in Kinds : turn[k].at = "shielded"})
    /\ UNCHANGED <<tables, flushing, stops, results, offered, unheard, bounds>>

-----------------------------------------------------------------------------
(* The specification                                                       *)

Turns(k) ==
    \/ Begin(k) \/ Start(k) \/ Block(k) \/ Break(k) \/ BreakTwice(k)
    \/ Finish(k) \/ FinishRefused(k) \/ Settle(k) \/ Finished(k)

Stopping(c) == Stop(c) \/ StopRefused(c) \/ StopIdle(c) \/ StopEnds(c)

Next ==
    \/ \E h \in Handoffs : Propose(h)
    \/ Approve \/ Dismiss \/ Spawn \/ SettleDetached \/ StopEngine
    \/ \E m \in Messages : Say(m) \/ Flushed(m)
    \/ \E k \in Kinds : Turns(k)
    \/ \E c \in Calls : Stopping(c)

Spec == Init /\ [][Next]_vars

\* The event loop runs whatever is ready and the projections of a result end.
\* Nothing makes a run end, for a provider or a tool may take for ever; nobody
\* has to send, approve or stop anything.
FairSpec ==
    /\ Spec
    /\ \A k \in Kinds : WF_vars(turn[k].at # "running" /\ Turns(k))
    /\ \A m \in Messages : WF_vars(Flushed(m))
    /\ \A c \in Calls : WF_vars(StopEnds(c))
    /\ WF_vars(SettleDetached)

-----------------------------------------------------------------------------
(* Correctness                                                             *)

TypeOK ==
    /\ up \in BOOLEAN /\ open \in BOOLEAN
    /\ card \in Handoffs \cup {NoJob}
    /\ {envelope, run} \subseteq Jobs \cup {NoJob}
    /\ turn \in [Kinds -> [job : Jobs \cup {NoJob},
                           at : {"off", "new", "respawned", "preparing",
                                 "running", "ending", "failing", "shielded",
                                 "done"}]]
    /\ \A k \in Kinds : turn[k].job = NoJob <=> turn[k].at = "off"
    /\ pending \in Seq(Messages) /\ flushing \subseteq Messages
    /\ stops \in [Calls -> {"idle", "waiting", "waking", "failing", "done"}]
    /\ detached \in Nat /\ errors \in Nat /\ faults \in Nat
    /\ results \in [Jobs -> Nat]
    /\ offered \subseteq Jobs /\ unheard \subseteq Jobs

\* A worker never has two turns at once, whoever starts them: an approved
\* card, a message, the end of another turn, a coordinator turn.
OneTurnAtATime == \E k \in Kinds : turn[k] = NoTurn

\* An accepted task is never overwritten by another one (tools_knowe.py: the
\* approval is checked again, "never overwrites the old task").
NeverOverwritten ==
    [][envelope # NoJob /\ envelope' # envelope => envelope' = NoJob]_vars

\* A job gets at most one result, also when a stop makes its turn run again.
ResultOnce == \A j \in Jobs : results[j] <= 1

\* A message is somewhere until it has its result: in the queue, on its way
\* out of it, or in a turn.  The exceptions: its turn ended without a result,
\* or the engine stopped.
NoMessageLost ==
    up => \A m \in Messages \cap offered :
        \/ m \in ToSet(pending) \cup flushing \cup unheard
        \/ \E k \in Kinds : turn[k].job = m
        \/ results[m] > 0

\* A job that was taken gets its result, whatever stops and exceptions hit its
\* turn, unless its run goes on for ever.  The exceptions, recorded in unheard: a
\* message stopped before the first step of its turn; a turn that failed before
\* it had registered a run, so that fail_task settled the task before it; a
\* result the store refused.
EveryJobEnds ==
    \A j \in Jobs :
        (\E k \in Kinds : turn[k].job = j)
            ~> \/ results[j] > 0 \/ j \in unheard \/ ~up
               \/ [](\E k \in Kinds : turn[k].job = j /\ turn[k].at = "running")

\* A turn has ended and left the worker taken: only a stop, which closes the
\* envelope after the callback that takes the next message has run, and a direct
\* turn whose result the store refused, which keeps its envelope, do that.
Unowned ==
    /\ envelope # NoJob \/ open
    /\ \A k \in Kinds : turn[k] = NoTurn
    /\ faults > 0 \/ \E c \in Calls : stops[c] # "idle"

\* The message that was told to wait is taken when the worker is free again,
\* unless the run it waits for goes on for ever, or a turn left the worker taken
\* while it waited: then the message waits for the end of another turn.
MessageTaken ==
    \A m \in Messages :
        [](m \in ToSet(pending) => ~Unowned)
            => (m \in ToSet(pending)
                    ~> \/ m \notin ToSet(pending) \/ ~up
                       \/ [](\E k \in Kinds : turn[k].at = "running"))
=============================================================================
