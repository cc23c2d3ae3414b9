--------------------------- MODULE TaskRunProofs ---------------------------
(***************************************************************************)
(* Safety of TaskRun for any number of processes, retries, turns, tool     *)
(* calls and stops.  The inductive invariant adds to the checked           *)
(* properties how many sendings a request can have had, that every process *)
(* is listed, and what a _terminate that is past its first signal has done *)
(* to its process.                                                         *)
(***************************************************************************)
EXTENDS TaskRun, TLAPS

\* A retry uses a slot of its own, the change of format one more.
Sendings ==
    /\ attempt <= MaxRetries + (IF reformatted THEN 1 ELSE 0)
    /\ op = "backoff" => attempt < MaxRetries
    /\ op # "unexpected"

\* While tool calls are executed there is one left.
Executing ==
    /\ op \in {"sending", "streaming", "backoff"} => kind = "step"
    /\ at \in {"tools", "tooled"}
           \/ (kind = "tool" /\ at \in {"wait", "unwind", "settle"})
           => calls > 0

Listed ==
    \A p \in Procs :
        procs[p] # "none" \/ closer[p] \in {"queued", "grace", "force"}
            => p \in items

\* Beyond its first wait a _terminate has killed, or seen the process dead.
Killed ==
    \A p \in items :
        closer[p] \in {"force", "done"} => procs[p] \in {"killed", "dead"}

\* An attempt leaves its clean-up when every _terminate is through.
Through ==
    /\ at = "started" => items = {}
    /\ at \in {"browser", "deliver"} \/ (at = "over" /\ ~cut)
           => \A p \in items : closer[p] = "done"

\* An operation left to itself finds the registry closed once the attempt has
\* reported.
Shut ==
    astray /\ at # "report" => \A p \in Procs : closer[p] # "open"

IInv ==
    /\ TypeOK
    /\ OnlyAwaited
    /\ Shut
    /\ HeardOnce
    /\ Sendings
    /\ Executing
    /\ Listed
    /\ Killed
    /\ Through

\* The initial state satisfies the invariant.
LEMMA InitInvariant == Init => IInv
<1> SUFFICES ASSUME Init PROVE IInv
  OBVIOUS
<1> USE TaskRunAssumption DEF Init
<1>1. TypeOK
  BY DEF TypeOK, Places, Unawaited
<1>2. OnlyAwaited /\ HeardOnce /\ Sendings /\ Executing
  BY DEF OnlyAwaited, StreamStops, HeardOnce, Sendings, Executing, Unawaited
<1>3. Shut /\ Listed /\ Killed /\ Through
  BY DEF Shut, Listed, Killed, Through
<1> QED
  BY <1>1, <1>2, <1>3 DEF IInv

\* A step of run() keeps the types.
LEMMA RunType ==
    ASSUME TypeOK, Executing, Run
    PROVE  TypeOK'
<1> USE TaskRunAssumption DEF TypeOK, Places, Unawaited, request, registry,
        bounds, history
<1>1. CASE Started
  BY <1>1 DEF Started, Enter, Goes, Handle, Verdict
<1>2. CASE Ask
  <2>1. CASE late
    BY <1>2, <2>1 DEF Ask, Await, Enter, Handle, Verdict
  <2>2. CASE ~late
    <3>1. /\ kind' = "step" /\ op' = "sending"
          /\ attempt' = 0 /\ reformatted' = FALSE /\ heard' = {}
          /\ UNCHANGED <<calls, procs, items, closer, cut, turns, stops>>
      BY <1>2, <2>2 DEF Ask, Await
    <3>2. heard' \subseteq Nat /\ attempt' \in Nat
      BY <3>1
    <3>3. /\ at' \in Places /\ why' \in {"none", "cancelled", "timeout"}
          /\ status' \in {"none", "SUCCEEDED", "CANCELLED", "TIMED_OUT",
                          "SYSTEM_ERROR"}
          /\ event' \in BOOLEAN /\ late' \in BOOLEAN /\ astray' \in BOOLEAN
      BY <1>2, <2>2 DEF Ask, Await, Enter, Goes, Handle, Verdict
    <3> QED
      BY ONLY TypeOK, <3>1, <3>2, <3>3 DEF TypeOK, Places, Unawaited
  <2> QED
    BY <2>1, <2>2
<1>3. CASE Heard
  BY <1>3 DEF Heard, Close, Enter, Goes, Handle, Verdict
<1>4. CASE Call
  <2>1. /\ kind' = "tool" /\ UNCHANGED <<calls, attempt, reformatted, heard>>
        /\ UNCHANGED <<procs, items, closer, cut, turns, stops>>
    BY <1>4 DEF Call
  <2>2. /\ late' \in BOOLEAN /\ astray' \in BOOLEAN
        /\ op' = op \/ op' \in {"working", "creating"}
    BY <1>4 DEF Call, Await
  <2>3. /\ at' \in Places /\ why' \in {"none", "cancelled", "timeout"}
        /\ status' \in {"none", "SUCCEEDED", "CANCELLED", "TIMED_OUT",
                        "SYSTEM_ERROR"}
        /\ event' \in BOOLEAN
    BY <1>4 DEF Call, Await, Enter, Goes, Handle, Verdict
  <2> QED
    BY <2>1, <2>2, <2>3
<1>5. CASE Tooled
  <2>1. calls - 1 \in Nat
    BY <1>5 DEF Tooled, Executing
  <2>2. /\ at' \in Places /\ why' \in {"none", "cancelled", "timeout"}
        /\ event' \in BOOLEAN
        /\ status' \in {"none", "SUCCEEDED", "CANCELLED", "TIMED_OUT",
                        "SYSTEM_ERROR"}
    BY <1>5 DEF Tooled, Enter, Goes, Handle, Verdict
  <2> QED
    BY <1>5, <2>1, <2>2 DEF Tooled
<1>6. CASE Reported
  BY <1>6 DEF Reported, Close
<1>7. CASE Return
  BY <1>7 DEF Return, Goes
<1>8. CASE Unwound
  BY <1>8 DEF Unwound, Goes
<1>9. CASE TimeOut
  BY <1>9 DEF TimeOut, Drop
<1>10. CASE Settled
  BY <1>10 DEF Settled, Goes, Handle, Verdict
<1>11. CASE ClosedAll
  BY <1>11 DEF ClosedAll, Goes
<1>12. CASE BrowserClosed
  BY <1>12 DEF BrowserClosed, Goes
<1>13. CASE Delivered
  BY <1>13 DEF Delivered, Goes
<1> QED
  BY <1>1, <1>2, <1>3, <1>4, <1>5, <1>6, <1>7, <1>8, <1>9, <1>10, <1>11,
    <1>12, <1>13 DEF Run

\* A step of the operation keeps the types.
LEMMA OperateType ==
    ASSUME TypeOK, Operate
    PROVE  TypeOK'
<1> USE TaskRunAssumption DEF TypeOK, Places, Unawaited, request, registry,
        bounds, history
<1>1. CASE FirstEvent
  BY <1>1 DEF FirstEvent
<1>2. CASE StreamEnds
  BY <1>2 DEF StreamEnds
<1>3. CASE FormatRefused
  BY <1>3 DEF FormatRefused, Again
<1>4. CASE SendFails
  BY <1>4 DEF SendFails
<1>5. CASE Retry
  BY <1>5 DEF Retry, Again
<1>6. CASE StreamFails
  BY <1>6 DEF StreamFails
<1>7. CASE Work
  BY <1>7 DEF Work
<1>8. CASE CreateFails
  BY <1>8 DEF CreateFails
<1>9. CASE Booted
  BY <1>9 DEF Booted
<1>10. CASE Dies
  BY <1>10 DEF Dies
<1> QED
  BY <1>1, <1>2, <1>3, <1>4, <1>5, <1>6, <1>7, <1>8, <1>9, <1>10 DEF Operate

\* A step of a process keeps the types.
LEMMA ProcessType ==
    ASSUME TypeOK, NEW p \in Procs, Create(p) \/ Exit(p) \/ Terminate(p)
    PROVE  TypeOK'
<1> USE TaskRunAssumption DEF TypeOK, Places, Unawaited, request, bounds,
        history
<1>1. CASE Create(p)
  BY <1>1 DEF Create
<1>2. CASE Exit(p)
  BY <1>2 DEF Exit
<1>3. CASE Signal(p)
  BY <1>3 DEF Signal
<1>4. CASE Reaped(p)
  BY <1>4 DEF Reaped
<1>5. CASE GraceEnds(p)
  BY <1>5 DEF GraceEnds
<1>6. CASE ForceEnds(p)
  BY <1>6 DEF ForceEnds
<1> QED
  BY <1>1, <1>2, <1>3, <1>4, <1>5, <1>6 DEF Terminate

\* A stop, or the wall clock, keeps the types.
LEMMA StopType ==
    ASSUME TypeOK, Stop \/ Late
    PROVE  TypeOK'
<1> USE TaskRunAssumption DEF TypeOK, Places, Unawaited, request, registry,
        bounds, history
<1>1. CASE StopOutside
  BY <1>1 DEF StopOutside, Cancel, Goes
<1>2. CASE StopEmitting
  BY <1>2 DEF StopEmitting, Cancel, Handle, Verdict
<1>3. CASE StopWaiting
  BY <1>3 DEF StopWaiting, Cancel, Drop
<1>4. CASE StopSuppressed
  BY <1>4 DEF StopSuppressed, Cancel
<1>5. CASE StopReporting
  BY <1>5 DEF StopReporting, Cancel, Close
<1>6. CASE StopClosing
  BY <1>6 DEF StopClosing, Cancel
<1>7. CASE Late
  BY <1>7 DEF Late
<1> QED
  BY <1>1, <1>2, <1>3, <1>4, <1>5, <1>6, <1>7 DEF Stop

\* Every step keeps the types.
LEMMA TypeStep == ASSUME TypeOK, Executing, [Next]_vars PROVE TypeOK'
<1>1. CASE UNCHANGED vars
  BY <1>1 DEF TypeOK, vars, request, registry, bounds, history
<1> QED
  BY <1>1, RunType, OperateType, ProcessType, StopType DEF Next

\* A step of run() or of _await keeps what is said of the operation.
LEMMA RunOperation ==
    ASSUME IInv, Run
    PROVE  OnlyAwaited' /\ HeardOnce' /\ Sendings' /\ Executing'
<1> USE TaskRunAssumption DEF IInv, TypeOK, Unawaited, OnlyAwaited,
        StreamStops, history, HeardOnce, Sendings, Executing, Places, request
<1>1. CASE Started
  BY <1>1 DEF Started, Enter, Goes, Handle
<1>2. CASE Ask
  <2>1. CASE late
    <3>1. UNCHANGED <<kind, op, attempt, reformatted, heard, astray>>
      BY <1>2, <2>1 DEF Ask, Await
    <3>2. at' = "report"
      BY <1>2, <2>1 DEF Ask, Await, Enter, Handle
    <3> QED
      BY <1>2, <3>1, <3>2 DEF Ask
  <2>2. CASE ~late
    <3>1. /\ kind' = "step" /\ op' = "sending"
          /\ attempt' = 0 /\ reformatted' = FALSE /\ heard' = {}
      BY <1>2, <2>2 DEF Ask, Await
    <3>2. \/ at' = "wait" /\ astray' = astray
          \/ /\ at' = "report" /\ astray' = TRUE /\ WallClock
             /\ status' = "TIMED_OUT"
      BY <1>2, <2>2 DEF Ask, Await, Enter, Goes, Handle, Verdict
    <3>3. ~astray
      BY <1>2 DEF Ask
    <3> QED
      BY ONLY <3>1, <3>2, <3>3, TaskRunAssumption DEF OnlyAwaited, StreamStops,
              HeardOnce, Sendings, Executing, TaskRunAssumption
  <2> QED
    BY <2>1, <2>2
<1>3. CASE Heard
  BY <1>3 DEF Heard, Close, Enter, Goes, Handle
<1>4. CASE Call
  <2>1. /\ kind' = "tool" /\ UNCHANGED <<calls, attempt, reformatted, heard>>
        /\ at = "tools"
    BY <1>4 DEF Call
  <2>2. ~astray /\ op \in Unawaited /\ calls > 0
    BY <2>1
  <2>3. \/ op' = op /\ at' \in {"report", "tooled"} /\ astray' = astray
        \/ /\ op' \in {"working", "creating"}
           /\ \/ at' = "wait" /\ astray' = astray
              \/ /\ at' = "report" /\ astray' = TRUE /\ WallClock
                 /\ status' = "TIMED_OUT"
    BY <1>4 DEF Call, Await, Enter, Goes, Handle, Verdict
  <2> QED
    BY <2>1, <2>2, <2>3
<1>5. CASE Tooled
  BY <1>5 DEF Tooled, Enter, Goes, Handle
<1>6. CASE Reported
  BY <1>6 DEF Reported, Close
<1>7. CASE Return
  BY <1>7 DEF Return, Goes
<1>8. CASE Unwound
  BY <1>8 DEF Unwound, Goes
<1>9. CASE TimeOut
  BY <1>9 DEF TimeOut, Drop
<1>10. CASE Settled
  BY <1>10 DEF Settled, Goes, Handle
<1>11. CASE ClosedAll
  BY <1>11 DEF ClosedAll, Goes
<1>12. CASE BrowserClosed
  BY <1>12 DEF BrowserClosed, Goes
<1>13. CASE Delivered
  BY <1>13 DEF Delivered, Goes
<1> QED
  BY <1>1, <1>2, <1>3, <1>4, <1>5, <1>6, <1>7, <1>8, <1>9, <1>10, <1>11,
    <1>12, <1>13 DEF Run

\* So does a step of the operation.
LEMMA OperateOperation ==
    ASSUME IInv, Operate
    PROVE  OnlyAwaited' /\ HeardOnce' /\ Sendings' /\ Executing'
<1> USE TaskRunAssumption DEF IInv, TypeOK, Unawaited, OnlyAwaited,
        StreamStops, history, HeardOnce, Sendings, Executing, Places, request
<1>1. CASE FirstEvent
  BY <1>1 DEF FirstEvent
<1>2. CASE StreamEnds
  BY <1>2 DEF StreamEnds
<1>3. CASE FormatRefused
  BY <1>3 DEF FormatRefused, Again
<1>4. CASE SendFails
  BY <1>4 DEF SendFails, CanRetry
<1>5. CASE Retry
  BY <1>5 DEF Retry, Again
<1>6. CASE StreamFails
  BY <1>6 DEF StreamFails
<1>7. CASE Work
  BY <1>7 DEF Work
<1>8. CASE CreateFails
  BY <1>8 DEF CreateFails
<1>9. CASE Booted
  BY <1>9 DEF Booted
<1>10. CASE Dies
  BY <1>10 DEF Dies
<1> QED
  BY <1>1, <1>2, <1>3, <1>4, <1>5, <1>6, <1>7, <1>8, <1>9, <1>10 DEF Operate

\* So does a step of a process or of its _terminate.
LEMMA ProcessOperation ==
    ASSUME IInv, NEW p \in Procs, Create(p) \/ Exit(p) \/ Terminate(p)
    PROVE  OnlyAwaited' /\ HeardOnce' /\ Sendings' /\ Executing'
<1> USE DEF IInv, Unawaited, OnlyAwaited,
        StreamStops, history, HeardOnce, Sendings, Executing,
        request
<1>1. CASE Create(p)
  BY <1>1 DEF Create
<1>2. CASE Exit(p)
  BY <1>2 DEF Exit
<1>3. CASE Signal(p)
  BY <1>3 DEF Signal
<1>4. CASE Reaped(p)
  BY <1>4 DEF Reaped
<1>5. CASE GraceEnds(p)
  BY <1>5 DEF GraceEnds
<1>6. CASE ForceEnds(p)
  BY <1>6 DEF ForceEnds
<1> QED
  BY <1>1, <1>2, <1>3, <1>4, <1>5, <1>6 DEF Terminate

\* So does a stop, or the wall clock.
LEMMA StopOperation ==
    ASSUME IInv, Stop \/ Late
    PROVE  OnlyAwaited' /\ HeardOnce' /\ Sendings' /\ Executing'
<1> USE DEF IInv, TypeOK, Unawaited, OnlyAwaited,
        StreamStops, history, HeardOnce, Sendings,
        Executing, Places, request
<1>1. CASE StopOutside
  BY <1>1 DEF StopOutside, Goes
<1>2. CASE StopEmitting
  BY <1>2 DEF StopEmitting, Handle
<1>3. CASE StopWaiting
  BY <1>3 DEF StopWaiting, Drop
<1>4. CASE StopSuppressed
  BY <1>4 DEF StopSuppressed
<1>5. CASE StopReporting
  BY <1>5 DEF StopReporting, Close
<1>6. CASE StopClosing
  BY <1>6 DEF StopClosing
<1>7. CASE Late
  BY <1>7 DEF Late
<1> QED
  BY <1>1, <1>2, <1>3, <1>4, <1>5, <1>6, <1>7 DEF Stop

\* A step of run() keeps what is said of the registry.
LEMMA RunRegistry ==
    ASSUME IInv, Run
    PROVE  Shut' /\ Listed' /\ Killed' /\ Through'
<1> USE DEF IInv, TypeOK, Shut, Listed, Killed, Through, OnlyAwaited,
        registry, history
<1>1. CASE Started
  BY <1>1 DEF Started, Enter, Goes, Handle
<1>2. CASE Ask
  BY <1>2 DEF Ask, Await, Enter, Goes, Handle
<1>3. CASE Heard
  BY <1>3 DEF Heard, Close, Enter, Goes, Handle
<1>4. CASE Call
  BY <1>4 DEF Call, Await, Enter, Goes, Handle
<1>5. CASE Tooled
  BY <1>5 DEF Tooled, Enter, Goes, Handle
<1>6. CASE Reported
  BY <1>6 DEF Reported, Close
<1>7. CASE Return
  BY <1>7 DEF Return, Goes
<1>8. CASE Unwound
  BY <1>8 DEF Unwound, Goes
<1>9. CASE TimeOut
  BY <1>9 DEF TimeOut, Drop
<1>10. CASE Settled
  BY <1>10 DEF Settled, Goes, Handle
<1>11. CASE ClosedAll
  BY <1>11 DEF ClosedAll, Goes
<1>12. CASE BrowserClosed
  BY <1>12 DEF BrowserClosed, Goes
<1>13. CASE Delivered
  BY <1>13 DEF Delivered, Goes
<1> QED
  BY <1>1, <1>2, <1>3, <1>4, <1>5, <1>6, <1>7, <1>8, <1>9, <1>10, <1>11,
    <1>12, <1>13 DEF Run

\* So does a step of the operation: a request has no process.
LEMMA OperateRegistry ==
    ASSUME IInv, Operate
    PROVE  Shut' /\ Listed' /\ Killed' /\ Through'
<1> USE DEF IInv, Shut, Listed, Killed, Through, OnlyAwaited,
        registry, history
<1>1. CASE FirstEvent
  BY <1>1 DEF FirstEvent
<1>2. CASE StreamEnds
  BY <1>2 DEF StreamEnds
<1>3. CASE FormatRefused
  BY <1>3 DEF FormatRefused
<1>4. CASE SendFails
  BY <1>4 DEF SendFails
<1>5. CASE Retry
  BY <1>5 DEF Retry
<1>6. CASE StreamFails
  BY <1>6 DEF StreamFails
<1>7. CASE Work
  BY <1>7 DEF Work
<1>8. CASE CreateFails
  BY <1>8 DEF CreateFails
<1>9. CASE Booted
  BY <1>9 DEF Booted
<1>10. CASE Dies
  BY <1>10 DEF Dies
<1> QED
  BY <1>1, <1>2, <1>3, <1>4, <1>5, <1>6, <1>7, <1>8, <1>9, <1>10 DEF Operate

\* So does a step of a process or of its _terminate.
LEMMA ProcessRegistry ==
    ASSUME IInv, NEW p \in Procs, Create(p) \/ Exit(p) \/ Terminate(p)
    PROVE  Shut' /\ Listed' /\ Killed' /\ Through'
<1> USE DEF IInv, TypeOK, Shut, Listed, Killed, Through, OnlyAwaited,
        StreamStops, Unawaited, history
<1>1. CASE Create(p)
  BY <1>1 DEF Create, Closed
<1>2. CASE Exit(p)
  BY <1>2 DEF Exit
<1>3. CASE Signal(p)
  <2>1. \A q \in Procs : q # p => closer'[q] = closer[q] /\ procs'[q] = procs[q]
    BY <1>3 DEF Signal
  <2>2. /\ p \in items /\ UNCHANGED <<items, at, cut, astray>> /\ at = "closing"
        /\ closer'[p] = "grace" \/ (closer'[p] = "done" /\ procs'[p] = "dead")
    BY <1>3 DEF Signal
  <2> QED
    BY <2>1, <2>2
<1>4. CASE Reaped(p)
  BY <1>4 DEF Reaped
<1>5. CASE GraceEnds(p)
  <2>1. \A q \in Procs : q # p => closer'[q] = closer[q] /\ procs'[q] = procs[q]
    BY <1>5 DEF GraceEnds
  <2>2. /\ p \in items /\ UNCHANGED <<items, at, cut, astray>> /\ at = "closing"
        /\ closer'[p] = "force" /\ procs'[p] = "killed"
    BY <1>5 DEF GraceEnds
  <2> QED
    BY <2>1, <2>2
<1>6. CASE ForceEnds(p)
  BY <1>6 DEF ForceEnds
<1> QED
  BY <1>1, <1>2, <1>3, <1>4, <1>5, <1>6 DEF Terminate

\* So does a stop, or the wall clock.
LEMMA StopRegistry ==
    ASSUME IInv, Stop \/ Late
    PROVE  Shut' /\ Listed' /\ Killed' /\ Through'
<1> USE DEF IInv, TypeOK, Shut, Listed, Killed, Through, OnlyAwaited,
        registry, history
<1>1. CASE StopOutside
  BY <1>1 DEF StopOutside, Goes
<1>2. CASE StopEmitting
  BY <1>2 DEF StopEmitting, Handle
<1>3. CASE StopWaiting
  BY <1>3 DEF StopWaiting, Drop
<1>4. CASE StopSuppressed
  BY <1>4 DEF StopSuppressed
<1>5. CASE StopReporting
  BY <1>5 DEF StopReporting, Close
<1>6. CASE StopClosing
  BY <1>6 DEF StopClosing
<1>7. CASE Late
  BY <1>7 DEF Late
<1> QED
  BY <1>1, <1>2, <1>3, <1>4, <1>5, <1>6, <1>7 DEF Stop

\* The invariant is inductive.
LEMMA NextInvariant == IInv /\ [Next]_vars => IInv'
<1> SUFFICES ASSUME IInv, [Next]_vars PROVE IInv'
  OBVIOUS
<1>1. TypeOK'
  BY TypeStep DEF IInv
<1>2. CASE UNCHANGED vars
  <2>1. OnlyAwaited' /\ HeardOnce' /\ Sendings' /\ Executing'
    BY <1>2 DEF IInv, vars, request, history, OnlyAwaited, StreamStops,
                HeardOnce, Sendings, Executing, Unawaited
  <2>2. Shut' /\ Listed' /\ Killed' /\ Through'
    BY <1>2 DEF IInv, vars, registry, history, Shut, Listed, Killed, Through
  <2> QED
    BY <1>1, <2>1, <2>2 DEF IInv
<1>3. CASE Run
  BY <1>1, <1>3, RunOperation, RunRegistry DEF IInv
<1>4. CASE Operate
  BY <1>1, <1>4, OperateOperation, OperateRegistry DEF IInv
<1>5. CASE Stop \/ Late
  BY <1>1, <1>5, StopOperation, StopRegistry DEF IInv
<1>6. CASE \E p \in Procs : Create(p) \/ Exit(p) \/ Terminate(p)
  BY <1>1, <1>6, ProcessOperation, ProcessRegistry DEF IInv
<1> QED
  BY <1>2, <1>3, <1>4, <1>5, <1>6 DEF Next

\* The inductive invariant of an attempt holds in every reachable state, for
\* any processes, retries, turns, tool calls and stops.
THEOREM InvariantHolds == Spec => []IInv
  BY InitInvariant, NextInvariant, PTL DEF Spec

\* Type correctness of an attempt (WorkerRuntime.run).
THEOREM TypeCorrect == Spec => []TypeOK
<1>1. IInv => TypeOK
  BY DEF IInv
<1> QED
  BY <1>1, InvariantHolds, PTL

\* No background process outlives its attempt, unless a stop cut the clean-up
\* short (AttemptProcessRegistry.aclose).
THEOREM ProcessesEnd == Spec => []NoProcessLeft
<1>1. IInv => NoProcessLeft
  BY DEF IInv, TypeOK, NoProcessLeft, Listed, Killed, Through
<1> QED
  BY <1>1, InvariantHolds, PTL

\* An operation is at work only while run() waits for it, and one that the second
\* reading of the clock left behind is the last of its attempt (_await).
THEOREM NoOrphan == Spec => []OnlyAwaited
<1>1. IInv => OnlyAwaited
  BY DEF IInv
<1> QED
  BY <1>1, InvariantHolds, PTL

\* Without a wall clock, as the program is shipped (config.py), an operation is at
\* work only while run() waits for it, whatever stops come in (_await).
THEOREM NoOrphanByDefault == ASSUME ~WallClock PROVE Spec => []StreamStops
<1>1. IInv => StreamStops
  BY DEF IInv, OnlyAwaited
<1> QED
  BY <1>1, InvariantHolds, PTL

\* What was heard of a request comes from one sending of it (chat_stream).
THEOREM OneSendingHeard == Spec => []HeardOnce
<1>1. IInv => HeardOnce
  BY DEF IInv
<1> QED
  BY <1>1, InvariantHolds, PTL

\* The retry loop of a request never runs out of rounds (chat_stream).
THEOREM LoopSuffices == Spec => []LoopLongEnough
<1>1. IInv => LoopLongEnough
  BY DEF IInv, Sendings, LoopLongEnough
<1> QED
  BY <1>1, InvariantHolds, PTL
=============================================================================
