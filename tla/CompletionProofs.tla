-------------------------- MODULE CompletionProofs --------------------------
(***************************************************************************)
(* Theorems about Completion, for every set of tasks, lanes and outcomes   *)
(* and every bound.                                                        *)
(***************************************************************************)
EXTENDS Completion, FiniteSetTheorems, TLAPS

-----------------------------------------------------------------------------
(* Sequences                                                               *)

\* The elements of a sequence that grows at its end.
LEMMA AppendSet ==
    ASSUME NEW S, NEW s \in Seq(S), NEW e \in S
    PROVE  Append(s, e) \in Seq(S) /\ ToSet(Append(s, e)) = ToSet(s) \cup {e}
<1>1. /\ Append(s, e) \in Seq(S)
      /\ Len(Append(s, e)) = Len(s) + 1
      /\ \A i \in 1 .. Len(s) : Append(s, e)[i] = s[i]
      /\ Append(s, e)[Len(s) + 1] = e
  OBVIOUS
<1>2. DOMAIN Append(s, e) = 1 .. Len(s) + 1 /\ DOMAIN s = 1 .. Len(s)
  BY <1>1
<1> QED BY <1>1, <1>2 DEF ToSet

\* The elements of a sequence and of its tail.
LEMMA TailSet ==
    ASSUME NEW S, NEW s \in Seq(S), s # <<>>
    PROVE  /\ Tail(s) \in Seq(S) /\ Head(s) \in S
           /\ ToSet(s) = {Head(s)} \cup ToSet(Tail(s))
<1>1. /\ Tail(s) \in Seq(S)
      /\ Len(Tail(s)) = Len(s) - 1
      /\ \A i \in 1 .. Len(s) - 1 : Tail(s)[i] = s[i + 1]
      /\ Head(s) = s[1] /\ Head(s) \in S
      /\ Len(s) \in Nat \ {0}
  OBVIOUS
<1>2. DOMAIN Tail(s) = 1 .. Len(s) - 1 /\ DOMAIN s = 1 .. Len(s)
  BY <1>1
<1>3. ASSUME NEW x \in ToSet(s), x # Head(s) PROVE x \in ToSet(Tail(s))
  <2>1. PICK i \in 1 .. Len(s) : x = s[i]
    BY <1>2 DEF ToSet
  <2>2. i - 1 \in 1 .. Len(s) - 1 /\ (i - 1) + 1 = i
    BY <1>1, <1>3, <2>1
  <2> QED BY <1>1, <1>2, <2>1, <2>2 DEF ToSet
<1>4. ToSet(Tail(s)) \subseteq ToSet(s) /\ Head(s) \in ToSet(s)
  BY <1>1, <1>2 DEF ToSet
<1> QED BY <1>1, <1>3, <1>4

\* The elements of a concatenation.
LEMMA ConcatSet ==
    ASSUME NEW S, NEW s \in Seq(S), NEW u \in Seq(S)
    PROVE  ToSet(s \o u) = ToSet(s) \cup ToSet(u)
<1>1. /\ s \o u \in Seq(S) /\ Len(s \o u) = Len(s) + Len(u)
      /\ Len(s) \in Nat /\ Len(u) \in Nat
      /\ \A i \in 1 .. Len(s) : (s \o u)[i] = s[i]
      /\ \A i \in 1 .. Len(u) : (s \o u)[Len(s) + i] = u[i]
  OBVIOUS
<1>2. /\ DOMAIN s = 1 .. Len(s) /\ DOMAIN u = 1 .. Len(u)
      /\ DOMAIN (s \o u) = 1 .. Len(s) + Len(u)
  BY <1>1
<1>3. ASSUME NEW x \in ToSet(s \o u) PROVE x \in ToSet(s) \cup ToSet(u)
  <2>1. PICK i \in 1 .. Len(s) + Len(u) : x = (s \o u)[i]
    BY <1>2 DEF ToSet
  <2>2. CASE i \in 1 .. Len(s)
    BY <1>1, <1>2, <2>1, <2>2 DEF ToSet
  <2>3. CASE i \notin 1 .. Len(s)
    <3>1. i - Len(s) \in 1 .. Len(u) /\ i = Len(s) + (i - Len(s))
      BY <1>1, <2>3
    <3>2. x = u[i - Len(s)]
      BY <1>1, <2>1, <3>1
    <3> QED BY <1>2, <3>1, <3>2 DEF ToSet
  <2> QED BY <2>2, <2>3
<1>4. ToSet(s) \subseteq ToSet(s \o u)
  <2>1. \A i \in 1 .. Len(s) : i \in 1 .. Len(s) + Len(u)
    BY <1>1
  <2> QED BY <1>1, <1>2, <2>1 DEF ToSet
<1>5. ToSet(u) \subseteq ToSet(s \o u)
  <2>1. \A i \in 1 .. Len(u) : Len(s) + i \in 1 .. Len(s) + Len(u)
    BY <1>1
  <2> QED BY <1>1, <1>2, <2>1 DEF ToSet
<1> QED BY <1>3, <1>4, <1>5

-----------------------------------------------------------------------------

\* What an ordering of a finite set is.
LEMMA OrderOf ==
    ASSUME NEW S, IsFiniteSet(S), NEW s \in SetToSeqs(S)
    PROVE  /\ s \in Seq(S) /\ ToSet(s) \subseteq S
           /\ \A i, j \in 1 .. Len(s) : s[i] = s[j] => i = j
<1>1. Cardinality(S) \in Nat
  BY FS_CardinalityType
<1>2. /\ s \in [1 .. Cardinality(S) -> S]
      /\ \A i, j \in 1 .. Cardinality(S) : i # j => s[i] # s[j]
  BY DEF SetToSeqs
<1>3. s \in Seq(S) /\ Len(s) = Cardinality(S)
  BY <1>1, <1>2
<1> QED BY <1>2, <1>3 DEF ToSet

-----------------------------------------------------------------------------
(* The inductive invariant                                                 *)

Busy == {"report", "audit", "memory", "effect"}

\* A drain that projects has a row; each of its steps belongs to one lane.
Working ==
    \A p \in Procs :
        /\ at[p] \in Busy => current[p] \in Rows
        /\ at[p] \in {"report", "audit"} => current[p][2] = "report"
        /\ at[p] = "memory" => current[p][2] = "memory"

\* Before its commit a task has neither rows nor receipts.
Fresh ==
    /\ \A t \in Tasks : turn[t] \in {"new", "running"} => result[t] = "none"
    /\ \A r \in Rows : result[r[1]] = "none" => row[r] = "none" /\ r \notin receipts

\* A drain visits rows of committed results only.
Committed ==
    \A p \in Procs :
        /\ \A r \in todo[p] : result[r[1]] # "none"
        /\ at[p] \in Busy => result[current[p][1]] # "none"

IInv == TypeOK /\ Working /\ Fresh /\ Committed /\ NothingForgotten

-----------------------------------------------------------------------------
(* The definitions that leave most of the state alone                      *)

\* The events of a projection are events.
LEMMA EventsType ==
    ASSUME NEW r \in Rows PROVE Events(r) \in Seq(Emitted)
<1>1. \A k \in {"view", "message", "report", "status", "idle"} :
          <<r[1], k>> \in Emitted
  BY DEF Rows, Emitted
<1>2. CASE r[2] = "delivery"
  BY <1>1, <1>2 DEF Events
<1>3. CASE r[2] = "ui"
  <2>1. /\ <<<<r[1], "report">>>> \in Seq(Emitted) /\ <<>> \in Seq(Emitted)
        /\ <<<<r[1], "status">>, <<r[1], "idle">>>> \in Seq(Emitted)
    BY <1>1
  <2> QED BY <1>3, <2>1 DEF Events
<1>4. CASE r[2] # "delivery" /\ r[2] # "ui"
  BY <1>4 DEF Events
<1> QED BY <1>2, <1>3, <1>4

\* Emitting an event of a task keeps the log well typed.
LEMMA EmitType ==
    ASSUME TypeOK, NEW e \in Emitted, Emit(e)
    PROVE  chat' \subseteq Emitted /\ saved' \subseteq Emitted
           /\ queue' \in Seq(Emitted)
<1>1. queue \in Seq(Emitted) /\ chat \subseteq Emitted /\ saved \subseteq Emitted
  BY DEF TypeOK
<1>2. Append(queue, e) \in Seq(Emitted)
  BY <1>1, AppendSet
<1> QED BY <1>1, <1>2 DEF Emit, log

\* What the bounds keep of the counters.
LEMMA SpendType ==
    ASSUME TypeOK, NEW what \in {"repeat", "fault", "crash"}, Spend(what)
    PROVE  spent' \in [DOMAIN Limit -> Nat]
BY SMTT(30) DEF TypeOK, Spend, Limit

-----------------------------------------------------------------------------
(* Types                                                                   *)

\* The steps of a turn outside the drain keep the types.
LEMMA TurnType ==
    ASSUME CompletionAssumption, TypeOK, NEW t \in Tasks,
           \/ Begin(t) \/ Repeat(t) \/ Show(t) \/ Record(t) \/ Tell(t)
           \/ EndTurn(t) \/ TellFails(t) \/ ShowFails(t) \/ ShowCancelled(t)
           \/ \E s \in Outcomes : Commit(t, s)
    PROVE  TypeOK'
<1> USE DEF vars, store, files, log, notices, drains, workers, history,
            Procs, Goto, Keep, Yield
<1>1. CASE Begin(t)
  BY <1>1 DEF Begin, TypeOK, Free
<1>2. CASE Repeat(t)
  BY <1>2, SpendType DEF Repeat, TypeOK, Free
<1>3. CASE Show(t)
  <2>1. <<t, "view">> \in Emitted
    BY DEF Emitted
  <2> QED BY <1>3, <2>1, EmitType DEF Show, TypeOK
<1>4. CASE Record(t)
  BY <1>4 DEF Record, TypeOK
<1>5. CASE Tell(t)
  <2>1. Append(inbox, t) \in Seq(Tasks)
    BY AppendSet DEF TypeOK
  <2>2. /\ queued' \subseteq Tasks /\ inbox' \in Seq(Tasks)
        /\ notice' \in [Tasks -> {"none", "queued", "processing", "processed"}]
    <3>1. CASE /\ queued' = queued \cup {t}
               /\ notice' = [notice EXCEPT ![t] = "queued"]
               /\ inbox' = Append(inbox, t)
      BY <2>1, <3>1 DEF TypeOK
    <3>2. CASE UNCHANGED <<notice, queued, inbox>>
      BY <3>2 DEF TypeOK
    <3> QED BY <1>5, <3>1, <3>2 DEF Tell
  <2>3. /\ todo' \in [Procs -> SUBSET Rows]
        /\ at' = [at EXCEPT ![t] = "scan"] /\ UNCHANGED <<current, left>>
    BY <1>5 DEF Tell, StartDrain, Open, TypeOK
  <2>4. UNCHANGED <<up, store, files, log, speaking, told, workers, history,
                    spent>> /\ running' = t
    BY <1>5 DEF Tell, StartDrain
  <2> QED BY <2>2, <2>3, <2>4 DEF TypeOK
<1>6. CASE EndTurn(t)
  BY <1>6 DEF EndTurn, TypeOK
<1>7. CASE TellFails(t)
  BY <1>7, SpendType DEF TellFails, StartDrain, Open, TypeOK
<1>8. CASE ShowFails(t)
  BY <1>8, SpendType DEF ShowFails, StartDrain, Open, TypeOK
<1>9. CASE ShowCancelled(t)
  BY <1>9, SpendType DEF ShowCancelled, TypeOK, Free
<1>10. CASE \E s \in Outcomes : Commit(t, s)
  <2>1. row' \in [Rows -> {"none", "pending", "processing", "failed"}]
    BY <1>10 DEF Commit, TypeOK
  <2>2. result' \in [Tasks -> Outcomes \cup {"none"}]
    BY <1>10 DEF Commit, TypeOK
  <2>3. /\ run' \in Tasks \cup {NoTask} /\ spent' \in [DOMAIN Limit -> Nat]
        /\ at' = [at EXCEPT ![t] = "show"]
    BY <1>10 DEF Commit, TypeOK
  <2>4. at' \in [Procs -> {"off", "show", "shown", "tell", "scan", "report",
                          "audit", "memory", "effect"}]
    BY <2>3 DEF TypeOK
  <2>5. turn' \in [Tasks -> {"new", "running", "ending", "closed"}]
    BY <1>10 DEF Commit, TypeOK
  <2>6. UNCHANGED <<up, running, receipts, reports, audit, worklog, seen, chat,
                    saved, queue, notice, queued, inbox, speaking, told, todo,
                    current, left, torn, lost, gaveUp>>
    BY <1>10 DEF Commit
  <2> QED BY <2>1, <2>2, <2>3, <2>4, <2>5, <2>6 DEF TypeOK
<1> QED BY <1>1, <1>2, <1>3, <1>4, <1>5, <1>6, <1>7, <1>8, <1>9, <1>10

\* The steps of a drain keep the types.
LEMMA DrainType ==
    ASSUME CompletionAssumption, TypeOK, Working, NEW p \in Procs,
           Drain(p) \/ Fail(p)
    PROVE  TypeOK'
<1> USE DEF store, files, log, notices, drains, workers, history, Procs,
            Goto, Keep, Yield
<1>1. CASE Claim(p)
  <2>1. PICK r \in Nearest(p) :
          /\ todo' = [todo EXCEPT ![p] = @ \ {r}]
          /\ row' = [row EXCEPT ![r] = "processing"]
          /\ current' = [current EXCEPT ![p] = r]
          /\ left' = [left EXCEPT ![p] = Events(r)]
          /\ run' = IF r[2] = "task_state" THEN r[1] ELSE run
          /\ at' = [at EXCEPT ![p] = IF r[2] \in {"report", "memory"}
                                     THEN r[2] ELSE "effect"]
    BY <1>1 DEF Claim
  <2>2. r \in Rows /\ r[1] \in Tasks
    BY SMTT(30) DEF Nearest, TypeOK, Rows
  <2>3. Events(r) \in Seq(Emitted)
    BY <2>2, EventsType
  <2> QED BY <1>1, <2>1, <2>2, <2>3 DEF Claim, TypeOK
<1>2. CASE WriteReport(p)
  <2>1. current[p][1] \in Tasks
    BY <1>2 DEF WriteReport, Working, Busy, Rows
  <2>2. CASE at' = [at EXCEPT ![p] = "effect"] /\ reports' = reports
    BY <1>2, <2>2 DEF WriteReport, TypeOK
  <2>3. CASE /\ at' = [at EXCEPT ![p] = "audit"]
             /\ reports' = [reports EXCEPT ![current[p][1]] = @ + 1]
    <3>1. reports' \in [Tasks -> Nat]
      <4>1. reports \in [Tasks -> Nat]
        BY DEF TypeOK
      <4>2. PICK t \in Tasks : t = current[p][1]
        BY <2>1
      <4>3. reports' = [reports EXCEPT ![t] = reports[t] + 1]
        BY <2>3, <4>2
      <4> QED BY <4>1, <4>3
    <3> QED BY <1>2, <2>3, <3>1 DEF WriteReport, TypeOK
  <2> QED BY <1>2, <2>2, <2>3 DEF WriteReport
<1>3. CASE WriteAudit(p)
  <2>1. current[p][1] \in Tasks
    BY <1>3 DEF WriteAudit, Working, Busy, Rows
  <2>2. spent' \in [DOMAIN Limit -> Nat]
    BY <1>3, SpendType DEF WriteAudit, TypeOK
  <2> QED BY <1>3, <2>1, <2>2 DEF WriteAudit, TypeOK
<1>4. CASE WriteWorklog(p)
  <2>1. spent' \in [DOMAIN Limit -> Nat]
    BY <1>4, SpendType DEF WriteWorklog, TypeOK
  <2>2. worklog' \in [Tasks -> Nat]
    <3>1. current[p][1] \in Tasks
      BY <1>4 DEF WriteWorklog, Working, Busy, Rows
    <3>2. CASE worklog' = worklog
      BY <3>2 DEF TypeOK
    <3>3. CASE worklog' = [worklog EXCEPT ![current[p][1]] =
                             IF @ = 0 THEN 1 ELSE @]
      BY <3>1, <3>3 DEF TypeOK
    <3> QED BY <1>4, <3>2, <3>3 DEF WriteWorklog
  <2> QED BY <1>4, <2>1, <2>2 DEF WriteWorklog, TypeOK
<1>5. CASE Project(p)
  <2>1. /\ Head(left[p]) \in Emitted
        /\ Tail(left[p]) \in Seq(Emitted)
    BY <1>5, TailSet DEF Project, TypeOK
  <2>2. chat' \subseteq Emitted /\ saved' \subseteq Emitted
        /\ queue' \in Seq(Emitted)
    BY <1>5, <2>1, EmitType DEF Project
  <2> QED BY <1>5, <2>1, <2>2 DEF Project, TypeOK
<1>6. CASE Acknowledge(p)
  <2>1. current[p] \in Rows
    BY <1>6 DEF Acknowledge, Working, Busy
  <2> QED BY <1>6, <2>1 DEF Acknowledge, TypeOK
<1>7. CASE Abort(p)
  BY <1>7, ZenonT(30) DEF Abort, TypeOK
<1>8. CASE Fail(p)
  <2>1. row' \in [Rows -> {"none", "pending", "processing", "failed"}]
    BY <1>8 DEF Fail, TypeOK
  <2>2. current' \in [Procs -> Rows \cup {NoRow}]
    BY <1>8 DEF Fail, TypeOK
  <2>3. left' \in [Procs -> Seq(Emitted)]
    <3>1. <<>> \in Seq(Emitted) /\ left \in [Procs -> Seq(Emitted)]
      BY DEF TypeOK
    <3> QED BY <1>8, <3>1 DEF Fail
  <2>4. spent' \in [DOMAIN Limit -> Nat]
    BY <1>8, SpendType DEF Fail
  <2>5. torn' \subseteq Tasks
    <3>1. at[p] = "audit" => current[p][1] \in Tasks
      BY DEF Working, Busy, Rows
    <3> QED BY <1>8, <3>1 DEF Fail, TypeOK
  <2>6. running' \in Procs \cup {NoTask} /\ at' = [at EXCEPT ![p] = "scan"]
    BY <1>8 DEF Fail
  <2>7. UNCHANGED <<up, result, receipts, reports, audit, worklog, seen, chat, saved, queue,
                    notice, queued, inbox, speaking, told, turn, run, todo, lost, gaveUp>>
    BY <1>8 DEF Fail
  <2> QED BY <2>1, <2>2, <2>3, <2>4, <2>5, <2>6, <2>7 DEF TypeOK
<1> QED BY <1>1, <1>2, <1>3, <1>4, <1>5, <1>6, <1>7, <1>8 DEF Drain

\* The coordinator, the writer thread, crash and recovery keep the types.
LEMMA OtherType ==
    ASSUME CompletionAssumption, TypeOK,
           \/ Working /\ (Hear \/ Answer \/ AnswerFails \/ Save \/ Crash)
           \/ Restart \/ RecoverNotices
    PROVE  TypeOK'
<1> USE DEF store, files, log, notices, drains, workers, history, Procs,
            Goto, Yield
<1>1. CASE Hear
  <2>1. Head(inbox) \in Tasks /\ Tail(inbox) \in Seq(Tasks)
    BY <1>1, TailSet DEF Hear, TypeOK
  <2> QED BY <1>1, <2>1 DEF Hear, TypeOK, Free
<1>2. CASE Answer
  <2>1. told' \in [Tasks -> Nat]
    BY <1>2, SMTT(30) DEF Answer, TypeOK
  <2>2. notice' \in [Tasks -> {"none", "queued", "processing", "processed"}]
    BY <1>2 DEF Answer, TypeOK
  <2> QED BY <1>2, <2>1, <2>2 DEF Answer, TypeOK, Free
<1>3. CASE AnswerFails
  BY <1>3, SpendType DEF AnswerFails, TypeOK, Free
<1>4. CASE Save
  <2>1. Head(queue) \in Emitted /\ Tail(queue) \in Seq(Emitted)
    BY <1>4, TailSet DEF Save, TypeOK
  <2> QED BY <1>4, <2>1 DEF Save, TypeOK
<1>5. CASE Working /\ Crash
  <2>1. {current[p][1] : p \in {q \in Procs : at[q] = "audit"}} \subseteq Tasks
    BY <1>5 DEF Working, Busy, Rows
  <2>2. ToSet(queue) \subseteq Emitted
    BY DEF ToSet, TypeOK
  <2>3. spent' \in [DOMAIN Limit -> Nat]
    BY <1>5, SpendType DEF Crash
  <2>4. /\ at' \in [Procs -> {"off"}] /\ todo' \in [Procs -> SUBSET Rows]
        /\ current' \in [Procs -> {NoRow}]
    BY <1>5 DEF Crash
  <2>5. left' \in [Procs -> Seq(Emitted)]
    <3>1. <<>> \in Seq(Emitted)
      OBVIOUS
    <3> QED BY <1>5, <3>1 DEF Crash
  <2>6. /\ turn' \in [Tasks -> {"new", "running", "ending", "closed"}]
        /\ run' \in Tasks \cup {NoTask}
    BY <1>5 DEF Crash, TypeOK
  <2>7. chat' \subseteq Emitted /\ saved' \subseteq Emitted
        /\ queue' \in Seq(Emitted) /\ inbox' \in Seq(Tasks)
    BY <1>5, SMTT(30) DEF Crash, TypeOK
  <2>8. torn' \subseteq Tasks /\ lost' \subseteq Emitted /\ gaveUp' \in BOOLEAN
    BY <1>5, <2>1, <2>2 DEF Crash, TypeOK
  <2>9. /\ up' \in BOOLEAN /\ running' \in Procs \cup {NoTask}
        /\ queued' \subseteq Tasks /\ speaking' \in Tasks \cup {NoTask}
    BY <1>5 DEF Crash
  <2> QED BY <1>5, <2>3, <2>4, <2>5, <2>6, <2>7, <2>8, <2>9 DEF Crash, TypeOK
<1>6. CASE Restart
  BY <1>6 DEF Restart, Open, TypeOK
<1>7. CASE RecoverNotices
  <2> DEFINE again == {t \in Tasks : notice[t] \in {"queued", "processing"}
                                     /\ t \notin queued}
  <2>1. IsFiniteSet(again)
    BY FS_Subset DEF CompletionAssumption
  <2>2. PICK order \in SetToSeqs(again) : inbox' = inbox \o order
    BY <1>7 DEF RecoverNotices
  <2>3. order \in Seq(again)
    BY <2>1, OrderOf
  <2>4. inbox' \in Seq(Tasks)
    BY <2>2, <2>3 DEF TypeOK
  <2> QED BY <1>7, <2>4 DEF RecoverNotices, TypeOK
<1> QED BY <1>1, <1>2, <1>3, <1>4, <1>5, <1>6, <1>7

-----------------------------------------------------------------------------
(* The outbox                                                              *)

\* A step that leaves the store, the rows of the drains and their place in a
\* projection alone keeps what is known of the rows.
Quiet ==
    /\ UNCHANGED <<store, current>>
    /\ \A p \in Procs : \A r \in todo'[p] :
          r \in todo[p] \/ (r \in Rows /\ row[r] # "none")
    /\ \A p \in Procs : at'[p] \in Busy => at'[p] = at[p]
    /\ \A t \in Tasks : turn'[t] \in {"new", "running"} =>
          turn[t] \in {"new", "running"}

Core == Working /\ Fresh /\ Committed /\ NothingForgotten

LEMMA QuietStep == ASSUME Core, Quiet PROVE Core'
<1> USE DEF store
<1>1. result' = result /\ row' = row /\ receipts' = receipts /\ current' = current
  BY DEF Quiet
<1>2. Working'
  BY <1>1 DEF Core, Quiet, Working, Busy
<1>3. Fresh'
  BY <1>1 DEF Core, Quiet, Fresh
<1>4. Committed'
  <2>1. ASSUME NEW p \in Procs, NEW r \in todo'[p] PROVE result[r[1]] # "none"
    BY <2>1 DEF Core, Quiet, Committed, Fresh
  <2>2. ASSUME NEW p \in Procs, at'[p] \in Busy
        PROVE  result[current[p][1]] # "none"
    BY <2>2 DEF Core, Quiet, Committed
  <2> QED BY <1>1, <2>1, <2>2 DEF Committed
<1>5. NothingForgotten'
  BY <1>1 DEF Core, NothingForgotten
<1> QED BY <1>2, <1>3, <1>4, <1>5 DEF Core

\* The steps that are quiet.
LEMMA QuietActions ==
    ASSUME CompletionAssumption, TypeOK,
           \/ \E t \in Tasks :
                 \/ Begin(t) \/ Repeat(t) \/ Show(t) \/ Record(t) \/ Tell(t)
                 \/ EndTurn(t) \/ TellFails(t) \/ ShowFails(t)
                 \/ ShowCancelled(t)
           \/ \E p \in Procs : Abort(p) \/ Project(p)
           \/ Hear \/ Answer \/ AnswerFails \/ Save \/ Restart
           \/ RecoverNotices
    PROVE  Quiet
<1> USE DEF store, files, log, notices, drains, workers, history, Procs,
            Goto, Quiet, Busy, TypeOK
<1>1. ASSUME NEW t \in Tasks, Begin(t) PROVE Quiet
  BY <1>1 DEF Begin
<1>2. ASSUME NEW t \in Tasks, Repeat(t) \/ ShowCancelled(t) PROVE Quiet
  BY <1>2 DEF Repeat, ShowCancelled
<1>3. ASSUME NEW t \in Tasks, Show(t) PROVE Quiet
  BY <1>3 DEF Show
<1>4. ASSUME NEW t \in Tasks, Record(t) PROVE Quiet
  BY <1>4 DEF Record
<1>5. ASSUME NEW t \in Tasks, StartDrain(t), UNCHANGED <<store, turn>>
      PROVE  Quiet
  <2>1. \A r \in Open : r \in Rows /\ row[r] # "none"
    BY DEF Open
  <2> QED BY <1>5, <2>1 DEF StartDrain
<1>6. ASSUME NEW t \in Tasks, EndTurn(t) PROVE Quiet
  BY <1>6 DEF EndTurn
<1>7. ASSUME NEW t \in Tasks, Tell(t) \/ TellFails(t) \/ ShowFails(t)
      PROVE  Quiet
  <2>1. StartDrain(t) /\ UNCHANGED <<store, turn>>
    BY <1>7 DEF Tell, TellFails, ShowFails
  <2> QED BY <1>5, <2>1
<1>8. ASSUME NEW p \in Procs, Abort(p) PROVE Quiet
  <2>1. /\ UNCHANGED <<store, current, turn>> /\ todo' = [todo EXCEPT ![p] = {}]
        /\ \/ at' = [at EXCEPT ![p] = "off"]
           \/ at' = [at EXCEPT ![p] = "show"]
    BY <1>8 DEF Abort
  <2> QED BY <2>1
<1>9. ASSUME NEW p \in Procs, Project(p) PROVE Quiet
  BY <1>9 DEF Project
<1>10. ASSUME Hear \/ Answer \/ AnswerFails \/ Save PROVE Quiet
  BY <1>10 DEF Hear, Answer, AnswerFails, Save
<1>11. ASSUME Restart PROVE Quiet
  BY <1>11 DEF Restart, Open
<1>12. ASSUME RecoverNotices PROVE Quiet
  BY <1>12 DEF RecoverNotices
<1> QED BY <1>1, <1>2, <1>3, <1>4, <1>6, <1>7, <1>8, <1>9, <1>10, <1>11, <1>12

\* A projection that goes on inside its lane keeps what is known of the rows.
LEMMA LaneStep ==
    ASSUME TypeOK, Core, NEW p \in Procs,
           WriteReport(p) \/ WriteAudit(p) \/ WriteWorklog(p)
    PROVE  Core'
<1> USE DEF store, files, log, notices, drains, workers, history, Goto
<1>1. UNCHANGED <<result, row, receipts, turn, todo, current>>
  BY DEF WriteReport, WriteAudit, WriteWorklog
<1>2. /\ \A q \in Procs : q # p => at'[q] = at[q]
      /\ at[p] \in Busy
      /\ at'[p] = "effect" \/ (at[p] = "report" /\ at'[p] = "audit")
  BY DEF WriteReport, WriteAudit, WriteWorklog, TypeOK, Busy
<1>3. Working' /\ Committed'
  BY <1>1, <1>2 DEF Core, Working, Committed, Busy
<1>4. Fresh' /\ NothingForgotten'
  BY <1>1 DEF Core, Fresh, NothingForgotten
<1> QED BY <1>3, <1>4 DEF Core

\* The steps that write the store.
LEMMA StoreStep ==
    ASSUME CompletionAssumption, TypeOK, Core,
           \/ \E t \in Tasks : \E s \in Outcomes : Commit(t, s)
           \/ \E p \in Procs : Claim(p) \/ Acknowledge(p) \/ Fail(p)
           \/ Crash
    PROVE  Core'
<1> USE DEF store, files, log, notices, drains, workers, history, Goto
<1>1. ASSUME NEW t \in Tasks, NEW s \in Outcomes, Commit(t, s)
      PROVE  Core'
  <2>1. s # "none" /\ result[t] = "none" /\ t \in Procs
    BY <1>1 DEF CompletionAssumption, Alarming, Commit, Core, Fresh, Procs
  <2>2. /\ result' = [result EXCEPT ![t] = s] /\ receipts' = receipts
        /\ \A r \in Rows : row'[r] = IF r[1] = t THEN "pending" ELSE row[r]
        /\ turn' = [turn EXCEPT ![t] = "ending"]
        /\ todo' = todo /\ current' = current
        /\ at' = [at EXCEPT ![t] = "show"]
    BY <1>1 DEF Commit
  <2>3. \A r \in Rows : r[1] \in Tasks
    BY DEF Rows
  <2>4. Working'
    BY <2>1, <2>2 DEF Core, Working, Busy, TypeOK
  <2>5. Fresh'
    BY <2>1, <2>2, <2>3, SMTT(30) DEF Core, Fresh, TypeOK
  <2>6. Committed'
    <3>1. \A u \in Tasks : result[u] # "none" => result'[u] # "none"
      BY <2>1, <2>2 DEF TypeOK
    <3>2. ASSUME NEW p \in Procs, NEW r \in todo'[p]
          PROVE  result'[r[1]] # "none"
      BY <2>2, <2>3, <3>1, <3>2 DEF Core, Committed, TypeOK
    <3>3. ASSUME NEW p \in Procs, at'[p] \in Busy
          PROVE  result'[current'[p][1]] # "none"
      <4>1. at[p] \in Busy
        BY <2>1, <2>2, <3>3 DEF TypeOK, Busy
      <4>2. current[p] \in Rows
        BY <4>1 DEF Core, Working
      <4> QED BY <2>2, <2>3, <3>1, <4>1, <4>2 DEF Core, Committed
    <3> QED BY <3>2, <3>3 DEF Committed
  <2>7. NothingForgotten'
    <3>1. ASSUME NEW r \in Rows, r[1] = t
          PROVE  row'[r] # "none" /\ r \notin receipts'
      BY <2>1, <2>2, <3>1 DEF Core, Fresh
    <3>2. ASSUME NEW r \in Rows, r[1] # t
          PROVE  row'[r] = row[r] /\ result'[r[1]] = result[r[1]]
      BY <2>2, <2>3, <3>2 DEF TypeOK
    <3> QED BY <2>2, <3>1, <3>2 DEF Core, NothingForgotten
  <2> QED BY <2>4, <2>5, <2>6, <2>7 DEF Core
<1>2. ASSUME NEW p \in Procs, Claim(p) PROVE Core'
  <2>1. PICK r \in todo[p] :
          /\ r \notin receipts
          /\ todo' = [todo EXCEPT ![p] = @ \ {r}]
          /\ row' = [row EXCEPT ![r] = "processing"]
          /\ current' = [current EXCEPT ![p] = r]
          /\ at' = [at EXCEPT ![p] = IF r[2] \in {"report", "memory"}
                                     THEN r[2] ELSE "effect"]
    BY <1>2 DEF Claim, Nearest
  <2>2. r \in Rows /\ result[r[1]] # "none"
    BY DEF TypeOK, Core, Committed
  <2>3. result' = result /\ receipts' = receipts /\ turn' = turn
    BY <1>2 DEF Claim
  <2>4. Working'
    BY <2>1, <2>2 DEF Core, Working, Busy, TypeOK
  <2>5. Fresh' /\ NothingForgotten'
    BY <2>1, <2>2, <2>3 DEF Core, Fresh, NothingForgotten, TypeOK
  <2>6. Committed'
    BY <2>1, <2>2, <2>3, SMTT(30) DEF Core, Committed, Busy, TypeOK
  <2> QED BY <2>4, <2>5, <2>6 DEF Core
<1>3. ASSUME NEW p \in Procs, Acknowledge(p) PROVE Core'
  <2>1. /\ receipts' = receipts \cup {current[p]}
        /\ row' = [row EXCEPT ![current[p]] = "none"]
        /\ current' = [current EXCEPT ![p] = NoRow]
        /\ at' = [at EXCEPT ![p] = "scan"]
        /\ UNCHANGED <<result, turn, todo>>
    BY <1>3 DEF Acknowledge
  <2>2. current[p] \in Rows /\ result[current[p][1]] # "none"
    BY <1>3 DEF Acknowledge, Core, Working, Committed, Busy
  <2>3. Working'
    BY <2>1 DEF Core, Working, Busy, TypeOK
  <2>4. Fresh' /\ NothingForgotten'
    BY <2>1, <2>2, SMTT(30) DEF Core, Fresh, NothingForgotten, TypeOK
  <2>5. Committed'
    BY <2>1 DEF Core, Committed, Busy, TypeOK
  <2> QED BY <2>3, <2>4, <2>5 DEF Core
<1>4. ASSUME NEW p \in Procs, Fail(p) PROVE Core'
  <2>1. /\ row' = IF current[p] \in receipts THEN row
                  ELSE [row EXCEPT ![current[p]] = "failed"]
        /\ current' = [current EXCEPT ![p] = NoRow]
        /\ at' = [at EXCEPT ![p] = "scan"]
        /\ UNCHANGED <<result, receipts, turn, todo>>
    BY <1>4 DEF Fail
  <2>2. current[p] \in Rows /\ result[current[p][1]] # "none"
    BY <1>4 DEF Fail, Raises, Core, Working, Committed, Busy
  <2>3. Working'
    BY <2>1 DEF Core, Working, Busy, TypeOK
  <2>4. Fresh' /\ NothingForgotten'
    BY <2>1, <2>2 DEF Core, Fresh, NothingForgotten, TypeOK
  <2>5. Committed'
    BY <2>1 DEF Core, Committed, Busy, TypeOK
  <2> QED BY <2>3, <2>4, <2>5 DEF Core
<1>5. ASSUME Crash PROVE Core'
  <2>1. /\ \A p \in Procs : at'[p] = "off" /\ todo'[p] = {}
        /\ \A t \in Tasks : turn'[t] \in {"new", "running"} => turn[t] = "new"
        /\ UNCHANGED <<result, row, receipts>>
    BY <1>5 DEF Crash
  <2> QED BY <2>1 DEF Core, Working, Fresh, Committed, NothingForgotten, Busy
<1> QED BY <1>1, <1>2, <1>3, <1>4, <1>5

\* Every step keeps the invariant.
LEMMA StepKeepsInvariant ==
    ASSUME CompletionAssumption, IInv, [Next]_vars PROVE IInv'
<1> USE DEF IInv, Core
<1>1. CASE UNCHANGED vars
  BY <1>1 DEF vars, store, files, log, notices, drains, workers, history,
              TypeOK, Working, Fresh, Committed, NothingForgotten
<1>2. CASE Next
  <2>1. ASSUME NEW t \in Tasks,
               \/ Begin(t) \/ Repeat(t) \/ Show(t) \/ Record(t) \/ Tell(t)
               \/ EndTurn(t) \/ TellFails(t) \/ ShowFails(t)
               \/ ShowCancelled(t)
        PROVE  IInv'
    BY <2>1, TurnType, QuietActions, QuietStep
  <2>2. ASSUME NEW t \in Tasks, NEW s \in Outcomes, Commit(t, s) PROVE IInv'
    BY <2>2, TurnType, StoreStep
  <2>3. ASSUME NEW p \in Procs, Drain(p) PROVE IInv'
    BY <2>3, DrainType, LaneStep, StoreStep, QuietActions, QuietStep DEF Drain
  <2>4. ASSUME NEW p \in Procs, Fail(p) PROVE IInv'
    BY <2>4, DrainType, StoreStep
  <2>5. CASE Hear \/ Answer \/ AnswerFails \/ Save \/ Restart
             \/ RecoverNotices
    BY <2>5, OtherType, QuietActions, QuietStep
  <2>6. CASE Crash
    BY <2>6, OtherType, StoreStep
  <2> QED BY <1>2, <2>1, <2>2, <2>3, <2>4, <2>5, <2>6
          DEF Next, Turn, Recovery, Procs
<1> QED BY <1>1, <1>2

LEMMA InitInvariant == ASSUME CompletionAssumption, Init PROVE IInv
<1> USE DEF IInv, Init, Procs
<1>1. TypeOK
  <2>1. <<>> \in Seq(Emitted) /\ <<>> \in Seq(Tasks)
    OBVIOUS
  <2>2. /\ inbox \in Seq(Tasks) /\ queue \in Seq(Emitted)
        /\ left \in [Procs -> Seq(Emitted)]
    BY <2>1
  <2>3. spent \in [DOMAIN Limit -> Nat]
    BY DEF Limit
  <2> HIDE DEF Limit
  <2> QED BY <2>2, <2>3 DEF TypeOK
<1>2. Fresh
  BY DEF Fresh, Rows
<1>3. NothingForgotten
  BY DEF NothingForgotten, Rows
<1>4. Working /\ Committed
  BY DEF Working, Committed, Busy
<1> QED BY <1>1, <1>2, <1>3, <1>4

-----------------------------------------------------------------------------
(* Theorems                                                                *)

\* The inductive invariant.
THEOREM InvariantHolds == Spec => []IInv
<1>1. Init => IInv
  BY CompletionAssumption, InitInvariant
<1>2. IInv /\ [Next]_vars => IInv'
  BY CompletionAssumption, StepKeepsInvariant
<1> QED BY <1>1, <1>2, PTL DEF Spec

\* Type correctness of the completion outbox.
THEOREM TypeCorrect == Spec => []TypeOK
<1>1. IInv => TypeOK
  BY DEF IInv
<1> QED BY <1>1, InvariantHolds, PTL

\* Whatever crashes, raises or drains twice, a committed result owes each of
\* its projections until the receipt is written (completion.py, commit_run,
\* _insert_outbox and acknowledge_outbox).
THEOREM NoProjectionForgotten == Spec => []NothingForgotten
<1>1. IInv => NothingForgotten
  BY DEF IInv
<1> QED BY <1>1, InvariantHolds, PTL

\* Every step of the harness owes all the rows of a task, settles one, or
\* leaves the abstract outbox alone.
LEMMA StepImplementsOutbox ==
    ASSUME CompletionAssumption, IInv, [Next]_vars
    PROVE  [Promise!Next]_<<{r \in Rows : row[r] # "none"}, receipts>>
<1> DEFINE owed == {r \in Rows : row[r] # "none"}
<1> USE DEF store, files, log, notices, drains, workers, history, IInv
<1>1. Promise!Rows = Rows
  BY DEF Promise!Rows, Rows
<1>2. CASE UNCHANGED vars
  BY <1>2 DEF vars
<1>3. ASSUME NEW t \in Tasks, NEW s \in Outcomes, Commit(t, s)
      PROVE  Promise!Owe(t)
  <2>1. result[t] = "none"
    BY <1>3 DEF Commit, Fresh
  <2>2. ({t} \X Lanes) \cap (owed \cup receipts) = {}
    BY <2>1 DEF Fresh, Rows
  <2>3. /\ receipts' = receipts
        /\ \A r \in Rows : row'[r] = IF r[1] = t THEN "pending" ELSE row[r]
    BY <1>3 DEF Commit
  <2>4. owed' = owed \cup ({t} \X Lanes)
    <3>1. \A r \in Rows : r[1] = t <=> r \in {t} \X Lanes
      BY DEF Rows
    <3>2. {t} \X Lanes \subseteq Rows
      BY DEF Rows
    <3> QED BY <2>3, <3>1, <3>2
  <2> QED BY <2>2, <2>3, <2>4 DEF Promise!Owe
<1>4. ASSUME NEW p \in Procs, Claim(p) PROVE UNCHANGED <<owed, receipts>>
  <2>1. PICK r \in todo[p] : r \notin receipts
                             /\ row' = [row EXCEPT ![r] = "processing"]
    BY <1>4 DEF Claim, Nearest
  <2>2. r \in Rows /\ row[r] # "none"
    BY <2>1 DEF TypeOK, Committed, NothingForgotten
  <2>3. receipts' = receipts
    BY <1>4 DEF Claim
  <2> QED BY <2>1, <2>2, <2>3 DEF TypeOK
<1>5. ASSUME NEW p \in Procs, Acknowledge(p)
      PROVE  Promise!Next \/ UNCHANGED <<owed, receipts>>
  <2>1. /\ receipts' = receipts \cup {current[p]}
        /\ row' = [row EXCEPT ![current[p]] = "none"]
    BY <1>5 DEF Acknowledge
  <2>2. current[p] \in Rows /\ result[current[p][1]] # "none"
    BY <1>5 DEF Acknowledge, Working, Committed, Busy
  <2>3. PICK r \in Rows : r = current[p]
    BY <2>2
  <2>4. owed' = owed \ {r} /\ receipts' = receipts \cup {r}
    BY <2>1, <2>3 DEF TypeOK
  <2>5. CASE r \in owed
    <3>1. Promise!Settle(r)
      BY <2>4, <2>5 DEF Promise!Settle
    <3> QED BY <1>1, <3>1 DEF Promise!Next
  <2>6. CASE r \notin owed
    <3>1. r \in receipts
      BY <2>2, <2>3, <2>6 DEF NothingForgotten
    <3> QED BY <2>4, <2>6, <3>1
  <2> QED BY <2>5, <2>6
<1>6. ASSUME NEW p \in Procs, Fail(p) PROVE UNCHANGED <<owed, receipts>>
  <2>1. /\ row' = IF current[p] \in receipts THEN row
                  ELSE [row EXCEPT ![current[p]] = "failed"]
        /\ receipts' = receipts
    BY <1>6 DEF Fail
  <2>2. current[p] \in Rows /\ result[current[p][1]] # "none"
    BY <1>6 DEF Fail, Raises, Working, Committed, Busy
  <2> QED BY <2>1, <2>2 DEF TypeOK, NothingForgotten
<1>7. ASSUME NEW p \in Procs, WriteReport(p) \/ WriteAudit(p) \/ WriteWorklog(p)
      PROVE  UNCHANGED <<owed, receipts>>
  BY <1>7 DEF WriteReport, WriteAudit, WriteWorklog
<1>8. Quiet => UNCHANGED <<owed, receipts>>
  BY DEF Quiet
<1>9. Crash => UNCHANGED <<owed, receipts>>
  BY DEF Crash
<1>10. CASE Next
  <2>1. ASSUME NEW p \in Procs, Drain(p)
        PROVE  Promise!Next \/ UNCHANGED <<owed, receipts>>
    <3>1. Abort(p) \/ Project(p) => UNCHANGED <<owed, receipts>>
      BY <1>8, QuietActions
    <3>2. CASE Acknowledge(p)
      BY <3>2, <1>5
    <3>3. CASE Claim(p)
      BY <3>3, <1>4
    <3>4. CASE WriteReport(p) \/ WriteAudit(p) \/ WriteWorklog(p)
      BY <3>4, <1>7
    <3> QED BY <2>1, <3>1, <3>2, <3>3, <3>4 DEF Drain
  <2>2. ASSUME NEW t \in Tasks,
               \/ Begin(t) \/ Repeat(t) \/ Show(t) \/ Record(t) \/ Tell(t)
               \/ EndTurn(t) \/ TellFails(t) \/ ShowFails(t)
               \/ ShowCancelled(t)
        PROVE  UNCHANGED <<owed, receipts>>
    BY <2>2, <1>8, QuietActions
  <2>3. ASSUME NEW t \in Tasks, NEW s \in Outcomes, Commit(t, s)
        PROVE  Promise!Next
    BY <2>3, <1>3 DEF Promise!Next
  <2>4. CASE Hear \/ Answer \/ AnswerFails \/ Save \/ Restart
             \/ RecoverNotices
    BY <2>4, <1>8, QuietActions
  <2> QED BY <1>10, <1>6, <1>9, <2>1, <2>2, <2>3, <2>4
          DEF Next, Turn, Recovery, Procs
<1> QED BY <1>2, <1>10

\* The harness implements the abstract outbox: a commit owes every projection
\* at once, each is settled one at a time, nothing is taken back.
THEOREM HarnessImplementsOutbox == Spec => ImplementsOutbox
<1>1. Init => Promise!Init
  BY DEF Init, Promise!Init, Rows
<1>2. IInv /\ [Next]_vars
      => [Promise!Next]_<<{r \in Rows : row[r] # "none"}, receipts>>
  BY CompletionAssumption, StepImplementsOutbox
<1> QED BY <1>1, <1>2, InvariantHolds, PTL DEF Spec, ImplementsOutbox, Promise!Spec

-----------------------------------------------------------------------------
(* Receipts                                                                *)

\* What a receipt of row r says the chat has shown.
Shown(r) ==
    IF r[2] = "delivery" THEN {<<r[1], "message">>}
    ELSE IF r[2] = "ui" THEN {<<r[1], "status">>, <<r[1], "idle">>}
    ELSE {}

\* What a projection has still to emit covers what its receipt will say, and
\* what the chat shows is saved or queued.
EffectInv ==
    /\ chat \subseteq saved \cup ToSet(queue)
    /\ \A t \in audit : reports[t] > 0
    /\ \A p \in Procs : at[p] = "effect" =>
          Shown(current[p]) \subseteq ToSet(left[p]) \cup chat \cup lost
    /\ \A p \in Procs :
          (at[p] = "audit" \/ (at[p] = "effect" /\ current[p][2] = "report"))
              => reports[current[p][1]] > 0
    /\ ReceiptHonest

\* A step that writes no receipt and brings no drain further.
Still ==
    /\ UNCHANGED <<receipts, reports, audit>>
    /\ chat \cup lost \subseteq chat' \cup lost'
    /\ chat' \subseteq saved' \cup ToSet(queue')
    /\ \A p \in Procs : at'[p] \in {"audit", "effect"} =>
          /\ at'[p] = at[p] /\ current'[p] = current[p] /\ left'[p] = left[p]

LEMMA StillStep == ASSUME EffectInv, Still PROVE EffectInv'
<1>1. ReceiptHonest'
  BY ZenonT(30) DEF EffectInv, Still, ReceiptHonest
<1>2. \A p \in Procs : at'[p] = "effect" =>
        Shown(current'[p]) \subseteq ToSet(left'[p]) \cup chat' \cup lost'
  BY DEF EffectInv, Still
<1>3. \A p \in Procs :
        (at'[p] = "audit" \/ (at'[p] = "effect" /\ current'[p][2] = "report"))
            => reports'[current'[p][1]] > 0
  BY DEF EffectInv, Still
<1> QED BY <1>1, <1>2, <1>3 DEF EffectInv, Still

\* Emitting queues the event and takes nothing back.
LEMMA EmitKeeps ==
    ASSUME TypeOK, EffectInv, NEW e \in Emitted, Emit(e)
    PROVE  /\ chat' = chat \cup {e} /\ saved' = saved
           /\ chat' \subseteq saved' \cup ToSet(queue')
<1>1. queue \in Seq(Emitted)
  BY DEF TypeOK
<1>2. ToSet(Append(queue, e)) = ToSet(queue) \cup {e}
  BY <1>1, AppendSet
<1> QED BY <1>2 DEF Emit, log, EffectInv

LEMMA StillActions ==
    ASSUME CompletionAssumption, TypeOK, EffectInv,
           \/ \E t \in Tasks :
                 \/ Begin(t) \/ Repeat(t) \/ Show(t) \/ Record(t) \/ Tell(t)
                 \/ EndTurn(t) \/ TellFails(t) \/ ShowFails(t)
                 \/ ShowCancelled(t) \/ \E s \in Outcomes : Commit(t, s)
           \/ \E p \in Procs : Abort(p) \/ Fail(p)
           \/ Hear \/ Answer \/ AnswerFails \/ Save \/ Crash \/ Restart
           \/ RecoverNotices
    PROVE  Still
<1> USE DEF store, files, log, notices, drains, workers, history, Procs,
            Goto, Still
<1>1. chat \subseteq saved \cup ToSet(queue)
  BY DEF EffectInv
<1>2. ASSUME NEW p \in Procs, NEW step \in {"off", "show", "shown", "tell", "scan"},
             at' = [at EXCEPT ![p] = step],
             \A q \in Procs : q # p =>
                current'[q] = current[q] /\ left'[q] = left[q]
      PROVE  \A q \in Procs : at'[q] \in {"audit", "effect"} =>
                at'[q] = at[q] /\ current'[q] = current[q] /\ left'[q] = left[q]
  BY <1>2 DEF TypeOK
<1>3. ASSUME NEW t \in Tasks,
             \/ Begin(t) \/ Repeat(t) \/ Record(t) \/ EndTurn(t)
             \/ ShowCancelled(t) \/ \E s \in Outcomes : Commit(t, s)
      PROVE  Still
  <2>1. UNCHANGED <<receipts, reports, audit, log, lost, current, left>>
    BY <1>3 DEF Begin, Repeat, Record, EndTurn, ShowCancelled, Commit
  <2>2. at' = at \/ \E step \in {"off", "show", "shown", "tell", "scan"} :
                       at' = [at EXCEPT ![t] = step]
    BY <1>3 DEF Begin, Repeat, Record, EndTurn, ShowCancelled, Commit
  <2> QED BY <2>1, <2>2, <1>1, <1>2
<1>4. ASSUME NEW t \in Tasks, Show(t) PROVE Still
  <2>1. <<t, "view">> \in Emitted
    BY DEF Emitted
  <2>2. /\ chat \subseteq chat' /\ chat' \subseteq saved' \cup ToSet(queue')
    BY <1>4, <2>1, EmitKeeps DEF Show
  <2>3. UNCHANGED <<receipts, reports, audit, lost, current, left>>
        /\ at' = [at EXCEPT ![t] = "shown"]
    BY <1>4 DEF Show
  <2> QED BY <2>2, <2>3, <1>2
<1>5. ASSUME NEW t \in Tasks, Tell(t) \/ TellFails(t) \/ ShowFails(t)
      PROVE  Still
  <2>1. UNCHANGED <<receipts, reports, audit, log, lost, current, left>>
        /\ at' = [at EXCEPT ![t] = "scan"]
    BY <1>5 DEF Tell, TellFails, ShowFails, StartDrain
  <2> QED BY <2>1, <1>1, <1>2
<1>6. ASSUME NEW p \in Procs, Abort(p) PROVE Still
  <2>1. UNCHANGED <<receipts, reports, audit, log, lost, current, left>>
        /\ (at' = [at EXCEPT ![p] = "off"] \/ at' = [at EXCEPT ![p] = "show"])
    BY <1>6 DEF Abort
  <2> QED BY <2>1, <1>1, <1>2
<1>7. ASSUME NEW p \in Procs, Fail(p) PROVE Still
  <2>1. /\ UNCHANGED <<receipts, reports, audit, log, lost>>
        /\ at' = [at EXCEPT ![p] = "scan"]
        /\ current' = [current EXCEPT ![p] = NoRow]
        /\ left' = [left EXCEPT ![p] = <<>>]
    BY <1>7 DEF Fail
  <2> QED BY <2>1, <1>1, <1>2 DEF TypeOK
<1>8. ASSUME Hear \/ Answer \/ AnswerFails PROVE Still
  BY <1>1, <1>8 DEF Hear, Answer, AnswerFails
<1>9. ASSUME Save PROVE Still
  <2>1. ToSet(queue) = {Head(queue)} \cup ToSet(Tail(queue))
    BY <1>9, TailSet DEF Save, TypeOK
  <2> QED BY <1>1, <1>9, <2>1 DEF Save
<1>10. ASSUME Crash PROVE Still
  <2>1. \A p \in Procs : at'[p] = "off"
    BY <1>10 DEF Crash
  <2>2. /\ UNCHANGED <<receipts, reports, audit, saved>>
        /\ chat' = saved /\ lost' = lost \cup ToSet(queue)
    BY <1>10 DEF Crash
  <2> QED BY <1>1, <2>1, <2>2
<1>11. ASSUME Restart \/ RecoverNotices PROVE Still
  <2>1. UNCHANGED <<receipts, reports, audit, log, lost, current, left>>
        /\ (at' = [at EXCEPT ![Boot] = "scan"] \/ at' = [at EXCEPT ![Boot] = "off"])
    BY <1>11 DEF Restart, RecoverNotices
  <2> QED BY <2>1, <1>1, <1>2
<1> QED BY <1>3, <1>4, <1>5, <1>6, <1>7, <1>8, <1>9, <1>10, <1>11

\* A projection that begins has everything to emit.
LEMMA EventsCover ==
    ASSUME NEW r \in Rows PROVE Shown(r) \subseteq ToSet(Events(r))
<1>1. CASE r[2] = "delivery"
  BY <1>1 DEF Events, Shown, ToSet
<1>2. CASE r[2] = "ui"
  <2> DEFINE first == IF r[1] \in audit THEN <<<<r[1], "report">>>> ELSE <<>>
             rest == <<<<r[1], "status">>, <<r[1], "idle">>>>
  <2>1. first \in Seq(Emitted) /\ rest \in Seq(Emitted)
    <3>1. \A k \in {"report", "status", "idle"} : <<r[1], k>> \in Emitted
      BY DEF Rows, Emitted
    <3> QED BY <3>1
  <2>2. ToSet(rest) = Shown(r)
    BY <1>2 DEF Shown, ToSet
  <2>3. Events(r) = first \o rest
    BY <1>2 DEF Events
  <2> HIDE DEF first, rest
  <2> QED BY <2>1, <2>2, <2>3, ConcatSet
<1>3. CASE r[2] # "delivery" /\ r[2] # "ui"
  BY <1>3 DEF Shown
<1> QED BY <1>1, <1>2, <1>3

\* Every step keeps the invariant of the effects.
LEMMA EffectStep ==
    ASSUME CompletionAssumption, IInv, EffectInv, [Next]_vars
    PROVE  EffectInv'
<1> USE DEF store, files, log, notices, drains, workers, history, Goto
<1>1. TypeOK /\ Working
  BY DEF IInv
<1>2. \A q \in Procs : at[q] \in Busy => current[q] \in Rows /\ current[q][1] \in Tasks
  BY <1>1 DEF Working, Rows
<1>3. CASE UNCHANGED vars
  BY <1>3, StillStep DEF vars, Still, EffectInv
<1>4. ASSUME NEW p \in Procs, Claim(p) PROVE EffectInv'
  <2>1. PICK r \in todo[p] :
          /\ current' = [current EXCEPT ![p] = r]
          /\ left' = [left EXCEPT ![p] = Events(r)]
          /\ at' = [at EXCEPT ![p] = IF r[2] \in {"report", "memory"}
                                     THEN r[2] ELSE "effect"]
    BY <1>4 DEF Claim, Nearest
  <2>2. r \in Rows /\ Shown(r) \subseteq ToSet(Events(r))
    BY <1>1, EventsCover DEF TypeOK
  <2>3. UNCHANGED <<receipts, chat, queue, saved, lost, reports, audit>>
    BY <1>4 DEF Claim
  <2>4. ASSUME NEW q \in Procs, at'[q] = "effect"
        PROVE  /\ Shown(current'[q]) \subseteq ToSet(left'[q]) \cup chat \cup lost
               /\ current'[q][2] = "report" => reports[current'[q][1]] > 0
    <3>1. CASE q = p
      <4>1. current'[q] = r /\ left'[q] = Events(r) /\ r[2] # "report"
        BY <1>1, <2>1, <2>4, <3>1 DEF TypeOK
      <4> QED BY <2>2, <4>1
    <3>2. CASE q # p
      <4>1. current'[q] = current[q] /\ left'[q] = left[q] /\ at[q] = "effect"
        BY <1>1, <2>1, <2>4, <3>2 DEF TypeOK
      <4> QED BY <4>1 DEF EffectInv
    <3> QED BY <3>1, <3>2
  <2>5. ASSUME NEW q \in Procs, at'[q] = "audit"
        PROVE  reports[current'[q][1]] > 0
    BY <1>1, <2>1, <2>5 DEF EffectInv, TypeOK
  <2>6. ReceiptHonest'
    BY <2>3 DEF EffectInv, ReceiptHonest
  <2> QED BY <2>3, <2>4, <2>5, <2>6 DEF EffectInv
<1>5. ASSUME NEW p \in Procs,
             WriteReport(p) \/ WriteAudit(p) \/ WriteWorklog(p)
      PROVE  EffectInv'
  <2>1. UNCHANGED <<receipts, chat, queue, saved, left, current>>
        /\ lost' = lost
    BY <1>5 DEF WriteReport, WriteAudit, WriteWorklog
  <2>2. /\ \A t \in Tasks : reports'[t] >= reports[t]
        /\ reports \in [Tasks -> Nat] /\ reports' \in [Tasks -> Nat]
    <3>1. reports \in [Tasks -> Nat]
      BY <1>1 DEF TypeOK
    <3>2. CASE reports' = reports
      BY <3>1, <3>2
    <3>3. CASE reports' = [reports EXCEPT ![current[p][1]] = @ + 1]
      <4>1. PICK t \in Tasks : t = current[p][1]
        BY <1>2, <1>5 DEF WriteReport, WriteAudit, WriteWorklog, Busy
      <4>2. reports' = [reports EXCEPT ![t] = reports[t] + 1]
        BY <3>3, <4>1
      <4> QED BY <3>1, <4>2
    <3> QED BY <1>5, <3>2, <3>3 DEF WriteReport, WriteAudit, WriteWorklog
  <2>3. current[p] \in Rows /\ current[p][1] \in Tasks
    BY <1>2, <1>5 DEF WriteReport, WriteAudit, WriteWorklog, Busy
  <2>4. \A t \in audit' : t \in Tasks /\ reports'[t] > 0
    <3>1. \A t \in audit : t \in Tasks /\ reports[t] > 0
      BY <1>1 DEF EffectInv, TypeOK
    <3>2. audit' = audit \/ (audit' = audit \cup {current[p][1]} /\ at[p] = "audit")
      BY <1>5 DEF WriteReport, WriteAudit, WriteWorklog
    <3>3. at[p] = "audit" => reports[current[p][1]] > 0
      BY DEF EffectInv
    <3> QED BY <2>2, <2>3, <3>1, <3>2, <3>3
  <2>5. \A q \in Procs : q # p => at'[q] = at[q]
    BY <1>1, <1>5 DEF WriteReport, WriteAudit, WriteWorklog, TypeOK
  <2>6. /\ at'[p] \in {"audit", "effect"}
        /\ current[p][2] \in {"report", "memory"}
        /\ (at'[p] = "audit" \/ current[p][2] = "report")
              => reports'[current[p][1]] > 0
    <3>1. CASE WriteReport(p)
      <4>1. current[p][2] = "report"
        BY <1>1, <3>1 DEF WriteReport, Working
      <4>2. CASE current[p][1] \in audit
        BY <1>1, <2>4, <3>1, <4>1, <4>2 DEF WriteReport, TypeOK
      <4>3. CASE current[p][1] \notin audit
        <5>1. /\ at' = [at EXCEPT ![p] = "audit"]
              /\ reports' = [reports EXCEPT ![current[p][1]] = @ + 1]
          BY <3>1, <4>3 DEF WriteReport
        <5>2. reports'[current[p][1]] = reports[current[p][1]] + 1
          BY <2>2, <2>3, <5>1
        <5> QED BY <1>1, <2>2, <2>3, <4>1, <5>1, <5>2 DEF TypeOK
      <4> QED BY <4>2, <4>3
    <3>2. CASE WriteAudit(p)
      <4>1. current[p][2] = "report" /\ reports[current[p][1]] > 0
        BY <1>1, <3>2 DEF WriteAudit, Working, EffectInv
      <4> QED BY <1>1, <2>2, <2>3, <3>2, <4>1 DEF WriteAudit, TypeOK
    <3>3. CASE WriteWorklog(p)
      BY <1>1, <3>3 DEF WriteWorklog, Working, TypeOK
    <3> QED BY <1>5, <3>1, <3>2, <3>3
  <2>7. Shown(current[p]) = {}
    BY <2>6 DEF Shown
  <2>8. ASSUME NEW q \in Procs,
               at'[q] = "audit"
                  \/ (at'[q] = "effect" /\ current'[q][2] = "report")
        PROVE  reports'[current'[q][1]] > 0
    <3>1. CASE q = p
      BY <2>1, <2>6, <2>8, <3>1
    <3>2. CASE q # p
      <4>1. reports[current[q][1]] > 0 /\ current[q][1] \in Tasks
        BY <1>2, <2>1, <2>5, <2>8, <3>2 DEF EffectInv, Busy
      <4> QED BY <2>1, <2>2, <4>1
    <3> QED BY <3>1, <3>2
  <2>9. \A q \in Procs : at'[q] = "effect" =>
           Shown(current'[q]) \subseteq ToSet(left'[q]) \cup chat' \cup lost'
    BY <2>1, <2>5, <2>7 DEF EffectInv
  <2>10. ReceiptHonest'
    <3>1. \A r \in receipts : r[1] \in Tasks
      BY <1>1 DEF TypeOK, Rows
    <3>2. \A r \in receipts : r[2] = "report" => reports[r[1]] > 0
      BY DEF EffectInv, ReceiptHonest
    <3>3. \A r \in receipts : r[2] = "report" => reports'[r[1]] > 0
      BY <2>2, <3>1, <3>2
    <3> QED BY <2>1, <3>3 DEF EffectInv, ReceiptHonest
  <2> QED BY <2>1, <2>4, <2>8, <2>9, <2>10 DEF EffectInv
<1>6. ASSUME NEW p \in Procs, Project(p) PROVE EffectInv'
  <2>1. /\ Head(left[p]) \in Emitted
        /\ ToSet(left[p]) = {Head(left[p])} \cup ToSet(Tail(left[p]))
    BY <1>1, <1>6, TailSet DEF Project, TypeOK
  <2>2. PICK e \in Emitted : e = Head(left[p])
    BY <2>1
  <2>3. Emit(e)
    BY <1>6, <2>2 DEF Project
  <2>4. chat' = chat \cup {e} /\ chat' \subseteq saved' \cup ToSet(queue')
    BY <1>1, <2>3, EmitKeeps
  <2>5. /\ left' = [left EXCEPT ![p] = Tail(@)]
        /\ UNCHANGED <<receipts, lost, reports, audit, at, current>>
    BY <1>6 DEF Project
  <2>6. \A q \in Procs : ToSet(left[q]) \cup chat \subseteq ToSet(left'[q]) \cup chat'
    BY <1>1, <2>1, <2>2, <2>4, <2>5 DEF TypeOK
  <2>7. \A q \in Procs : at'[q] = "effect" =>
           Shown(current'[q]) \subseteq ToSet(left'[q]) \cup chat' \cup lost'
    BY <2>5, <2>6 DEF EffectInv
  <2>8. ReceiptHonest'
    BY <2>4, <2>5 DEF EffectInv, ReceiptHonest
  <2> QED BY <2>4, <2>5, <2>7, <2>8 DEF EffectInv
<1>7. ASSUME NEW p \in Procs, Acknowledge(p) PROVE EffectInv'
  <2>1. /\ receipts' = receipts \cup {current[p]}
        /\ current' = [current EXCEPT ![p] = NoRow]
        /\ at' = [at EXCEPT ![p] = "scan"]
        /\ UNCHANGED <<chat, queue, saved, lost, reports, audit, left>>
        /\ at[p] = "effect" /\ left[p] = <<>>
    BY <1>7 DEF Acknowledge
  <2>2. Shown(current[p]) \subseteq chat \cup lost
    <3>1. ToSet(left[p]) = {}
      BY <2>1 DEF ToSet
    <3> QED BY <2>1, <3>1 DEF EffectInv
  <2>3. current[p][2] = "report" => reports[current[p][1]] > 0
    BY <2>1 DEF EffectInv
  <2>4. ReceiptHonest'
    BY <2>1, <2>2, <2>3 DEF EffectInv, ReceiptHonest, Shown
  <2>5. \A q \in Procs : at'[q] \in {"audit", "effect"} =>
           at'[q] = at[q] /\ current'[q] = current[q]
    BY <1>1, <2>1 DEF TypeOK
  <2> QED BY <2>1, <2>4, <2>5 DEF EffectInv
<1>8. CASE Next
  <2>1. ASSUME NEW t \in Tasks, Turn(t) \/ TellFails(t) \/ ShowFails(t)
               \/ ShowCancelled(t) \/ Begin(t) \/ Repeat(t)
               \/ \E s \in Outcomes : Commit(t, s)
        PROVE  EffectInv' \/ Drain(t)
    BY <1>1, <2>1, StillActions, StillStep DEF Turn
  <2>2. ASSUME NEW p \in Procs, Drain(p) PROVE EffectInv'
    <3>1. Abort(p) => EffectInv'
      BY <1>1, StillActions, StillStep
    <3> QED BY <2>2, <3>1, <1>4, <1>5, <1>6, <1>7 DEF Drain
  <2>3. ASSUME NEW p \in Procs, Fail(p) PROVE EffectInv'
    BY <1>1, <2>3, StillActions, StillStep
  <2>4. CASE Hear \/ Answer \/ AnswerFails \/ Save \/ Crash \/ Restart
             \/ RecoverNotices
    BY <1>1, <2>4, StillActions, StillStep
  <2> QED BY <1>8, <2>1, <2>2, <2>3, <2>4 DEF Next, Recovery, Procs
<1> QED BY <1>3, <1>8

\* A receipt stands for an effect that is on disk, on its way there or was
\* lost on that way: no row is acknowledged before its effect (projections.py
\* drain, _ui, _delivery and _report).
THEOREM ReceiptsAreHonest == Spec => []ReceiptHonest
<1>1. Init => EffectInv
  BY DEF Init, EffectInv, ReceiptHonest, Procs
<1>2. IInv /\ EffectInv /\ [Next]_vars => EffectInv'
  BY CompletionAssumption, EffectStep
<1>3. EffectInv => ReceiptHonest
  BY DEF EffectInv
<1> QED BY <1>1, <1>2, <1>3, InvariantHolds, PTL DEF Spec

-----------------------------------------------------------------------------
(* The notices of the coordinator                                          *)

\* A notice waits in one place only, as long as its file is not processed.
NoticeInv ==
    /\ \A t \in Tasks : told[t] = IF notice[t] = "processed" THEN 1 ELSE 0
    /\ \A t \in Tasks : t \in ToSet(inbox) \/ speaking = t =>
          t \in queued /\ notice[t] \in {"queued", "processing"}
    /\ \A i, j \in 1 .. Len(inbox) : inbox[i] = inbox[j] => i = j
    /\ speaking \notin ToSet(inbox)

\* A task that waits nowhere enters the inbox.
LEMMA NewNotice ==
    ASSUME TypeOK, NoticeInv, NEW t \in Tasks, t \notin queued,
           notice[t] # "processed",
           queued' = queued \cup {t},
           notice' = [notice EXCEPT ![t] = "queued"],
           inbox' = Append(inbox, t), UNCHANGED <<speaking, told>>
    PROVE  NoticeInv'
<1>1. inbox \in Seq(Tasks) /\ notice \in [Tasks -> {"none", "queued", "processing", "processed"}]
  BY DEF TypeOK
<1>2. t \notin ToSet(inbox) /\ speaking # t
  BY DEF NoticeInv
<1>3. ToSet(inbox') = ToSet(inbox) \cup {t}
  BY <1>1, AppendSet
<1>4. ASSUME NEW i \in 1 .. Len(inbox'), NEW j \in 1 .. Len(inbox'),
             inbox'[i] = inbox'[j]
      PROVE  i = j
  <2>1. /\ Len(inbox') = Len(inbox) + 1 /\ Len(inbox) \in Nat
        /\ \A k \in 1 .. Len(inbox) : inbox'[k] = inbox[k]
        /\ inbox'[Len(inbox) + 1] = t
    BY <1>1
  <2>2. \A k \in 1 .. Len(inbox) : inbox[k] # t
    BY <1>1, <1>2 DEF ToSet
  <2> QED BY <1>4, <2>1, <2>2 DEF NoticeInv
<1>5. \A u \in Tasks : told'[u] = IF notice'[u] = "processed" THEN 1 ELSE 0
  BY <1>1 DEF NoticeInv
<1>6. \A u \in Tasks : u \in ToSet(inbox') \/ speaking' = u =>
         u \in queued' /\ notice'[u] \in {"queued", "processing"}
  BY <1>1, <1>3 DEF NoticeInv
<1> QED BY <1>2, <1>3, <1>4, <1>5, <1>6 DEF NoticeInv

LEMMA NoticeStep ==
    ASSUME CompletionAssumption, TypeOK, NoticeInv, [Next]_vars
    PROVE  NoticeInv'
<1> USE DEF notices, workers, history, drains, files, store, log
<1>1. /\ inbox \in Seq(Tasks) /\ queued \subseteq Tasks
      /\ notice \in [Tasks -> {"none", "queued", "processing", "processed"}]
      /\ told \in [Tasks -> Nat] /\ speaking \in Tasks \cup {NoTask}
      /\ NoTask \notin Tasks
  BY DEF TypeOK, CompletionAssumption
<1>2. CASE UNCHANGED notices
  BY <1>2 DEF NoticeInv
<1>3. ASSUME NEW t \in Tasks, Tell(t) PROVE NoticeInv'
  <2>1. CASE UNCHANGED <<notice, queued, inbox>>
    BY <1>2, <1>3, <2>1 DEF Tell
  <2>2. CASE ~UNCHANGED <<notice, queued, inbox>>
    BY <1>3, <2>2, NewNotice DEF Tell
  <2> QED BY <2>1, <2>2
<1>4. ASSUME NEW t \in Tasks, TellFails(t) PROVE NoticeInv'
  BY <1>4 DEF TellFails, NoticeInv
<1>5. CASE Hear
  <2>1. /\ speaking' = Head(inbox) /\ inbox' = Tail(inbox)
        /\ notice' = [notice EXCEPT ![Head(inbox)] = "processing"]
        /\ UNCHANGED <<queued, told>> /\ inbox # <<>>
    BY <1>5 DEF Hear
  <2>2. /\ Head(inbox) = inbox[1] /\ Head(inbox) \in Tasks
        /\ ToSet(inbox) = {Head(inbox)} \cup ToSet(inbox')
        /\ Len(inbox) \in Nat \ {0} /\ Len(inbox') = Len(inbox) - 1
        /\ \A k \in 1 .. Len(inbox') : inbox'[k] = inbox[k + 1]
    BY <1>1, <2>1, TailSet
  <2>3. \A i, j \in 1 .. Len(inbox') : inbox'[i] = inbox'[j] => i = j
    BY <2>2, SMTT(30) DEF NoticeInv
  <2>4. Head(inbox) \notin ToSet(inbox')
    <3>1. inbox' \in Seq(Tasks) /\ DOMAIN inbox' = 1 .. Len(inbox')
      BY <1>1, <2>1
    <3>2. \A k \in 1 .. Len(inbox') : k + 1 \in 1 .. Len(inbox) /\ k + 1 # 1
      BY <2>2
    <3> QED BY <2>2, <3>1, <3>2 DEF NoticeInv, ToSet
  <2>5. \A u \in Tasks : told'[u] = IF notice'[u] = "processed" THEN 1 ELSE 0
    BY <1>1, <2>1, <2>2 DEF NoticeInv
  <2>6. \A u \in Tasks : u \in ToSet(inbox') \/ speaking' = u =>
           u \in queued' /\ notice'[u] \in {"queued", "processing"}
    BY <1>1, <2>1, <2>2 DEF NoticeInv
  <2> QED BY <2>1, <2>3, <2>4, <2>5, <2>6 DEF NoticeInv
<1>6. CASE Answer \/ AnswerFails
  <2>1. /\ inbox' = inbox /\ speaking' = NoTask /\ speaking \in Tasks
        /\ queued' = queued \ {speaking}
        /\ \/ /\ notice' = [notice EXCEPT ![speaking] = "processed"]
              /\ told' = [told EXCEPT ![speaking] = @ + 1]
           \/ /\ notice' = [notice EXCEPT ![speaking] = "queued"]
              /\ told' = told
    BY <1>1, <1>6 DEF Answer, AnswerFails
  <2>2. speaking \notin ToSet(inbox) /\ notice[speaking] # "processed"
        /\ told[speaking] = 0
    BY <2>1 DEF NoticeInv
  <2>3. \A u \in Tasks : told'[u] = IF notice'[u] = "processed" THEN 1 ELSE 0
    BY <1>1, <2>1, <2>2 DEF NoticeInv
  <2>4. \A u \in Tasks : u \in ToSet(inbox') \/ speaking' = u =>
           u \in queued' /\ notice'[u] \in {"queued", "processing"}
    BY <1>1, <2>1, <2>2 DEF NoticeInv
  <2>5. NoTask \notin ToSet(inbox)
    BY <1>1 DEF ToSet
  <2> QED BY <2>1, <2>3, <2>4, <2>5 DEF NoticeInv
<1>7. CASE Crash
  <2>1. /\ inbox' = <<>> /\ speaking' = NoTask
        /\ UNCHANGED <<notice, told>>
    BY <1>7 DEF Crash
  <2>2. ToSet(inbox') = {} /\ Len(inbox') = 0
    BY <2>1 DEF ToSet
  <2> QED BY <1>1, <2>1, <2>2 DEF NoticeInv
<1>8. CASE RecoverNotices
  <2> DEFINE again == {t \in Tasks : notice[t] \in {"queued", "processing"}
                                     /\ t \notin queued}
  <2>1. PICK order \in SetToSeqs(again) : inbox' = inbox \o order
    BY <1>8 DEF RecoverNotices
  <2>2. IsFiniteSet(again)
    BY FS_Subset DEF CompletionAssumption
  <2>3. /\ order \in Seq(again) /\ ToSet(order) \subseteq again
        /\ \A i, j \in 1 .. Len(order) : order[i] = order[j] => i = j
    BY <2>2, OrderOf
  <2>4. /\ queued' = queued \cup again
        /\ notice' = [t \in Tasks |-> IF t \in again THEN "queued" ELSE notice[t]]
        /\ UNCHANGED <<speaking, told>>
    BY <1>8 DEF RecoverNotices
  <2>5. again \cap ToSet(inbox) = {} /\ speaking \notin again
    BY DEF NoticeInv
  <2>6. /\ Len(inbox') = Len(inbox) + Len(order)
        /\ Len(inbox) \in Nat /\ Len(order) \in Nat
        /\ \A k \in 1 .. Len(inbox) : inbox'[k] = inbox[k]
        /\ \A k \in 1 .. Len(order) : inbox'[Len(inbox) + k] = order[k]
        /\ DOMAIN inbox' = 1 .. Len(inbox')
    BY <1>1, <2>1, <2>3
  <2>7. \A k \in 1 .. Len(inbox') :
           k \in 1 .. Len(inbox) \/ \E m \in 1 .. Len(order) : k = Len(inbox) + m
    <3>1. ASSUME NEW k \in 1 .. Len(inbox'), k \notin 1 .. Len(inbox)
          PROVE  k - Len(inbox) \in 1 .. Len(order)
                 /\ k = Len(inbox) + (k - Len(inbox))
      BY <2>6, <3>1
    <3> QED BY <3>1
  <2>8. ToSet(inbox') \subseteq ToSet(inbox) \cup again
    <3>1. order \in Seq(Tasks)
      BY <2>3
    <3> QED BY <1>1, <2>1, <2>3, <3>1, ConcatSet
  <2>9. ASSUME NEW i \in 1 .. Len(inbox'), NEW j \in 1 .. Len(inbox'),
               inbox'[i] = inbox'[j]
        PROVE  i = j
    <3>1. \A k \in 1 .. Len(inbox) : inbox[k] \in ToSet(inbox)
      BY <1>1 DEF ToSet
    <3>2. \A k \in 1 .. Len(order) : order[k] \in again
      BY <2>3
    <3>3. \A k \in 1 .. Len(inbox), m \in 1 .. Len(order) : inbox[k] # order[m]
      BY <2>5, <3>1, <3>2
    <3>4. CASE i \in 1 .. Len(inbox) /\ j \in 1 .. Len(inbox)
      BY <2>6, <2>9, <3>4 DEF NoticeInv
    <3>5. ASSUME NEW k \in 1 .. Len(inbox), NEW m \in 1 .. Len(order)
          PROVE  inbox'[k] # inbox'[Len(inbox) + m]
      BY <2>6, <3>3
    <3>6. ASSUME NEW k \in 1 .. Len(order), NEW m \in 1 .. Len(order),
                 inbox'[Len(inbox) + k] = inbox'[Len(inbox) + m]
          PROVE  k = m
      BY <2>3, <2>6, <3>6
    <3>7. CASE i \notin 1 .. Len(inbox) /\ j \notin 1 .. Len(inbox)
      <4>1. PICK k \in 1 .. Len(order) : i = Len(inbox) + k
        BY <2>7, <3>7
      <4>2. PICK m \in 1 .. Len(order) : j = Len(inbox) + m
        BY <2>7, <3>7
      <4>3. inbox'[Len(inbox) + k] = inbox'[Len(inbox) + m]
        BY <2>9, <4>1, <4>2
      <4> QED BY <3>6, <4>1, <4>2, <4>3
    <3> QED BY <2>7, <2>9, <3>4, <3>5, <3>7
  <2>10. \A u \in Tasks : told'[u] = IF notice'[u] = "processed" THEN 1 ELSE 0
    BY <1>1, <2>4 DEF NoticeInv
  <2>11. \A u \in Tasks : u \in ToSet(inbox') \/ speaking' = u =>
            u \in queued' /\ notice'[u] \in {"queued", "processing"}
    BY <1>1, <2>4, <2>8 DEF NoticeInv
  <2> QED BY <2>4, <2>5, <2>8, <2>9, <2>10, <2>11 DEF NoticeInv
<1>9. CASE Next
  <2>1. ASSUME NEW t \in Tasks,
               \/ Begin(t) \/ Repeat(t) \/ Show(t) \/ Record(t) \/ EndTurn(t)
               \/ ShowFails(t) \/ ShowCancelled(t)
               \/ \E s \in Outcomes : Commit(t, s)
        PROVE  UNCHANGED notices
    BY <2>1 DEF Begin, Repeat, Show, Record, EndTurn, ShowFails,
                ShowCancelled, Commit
  <2>2. ASSUME NEW p \in Procs, Drain(p) \/ Fail(p) PROVE UNCHANGED notices
    BY <2>2 DEF Drain, Fail, Claim, WriteReport, WriteAudit, WriteWorklog,
                Project, Acknowledge, Abort
  <2>3. CASE Save \/ Restart
    BY <1>2, <2>3 DEF Save, Restart
  <2> QED BY <1>2, <1>3, <1>4, <1>5, <1>6, <1>7, <1>8, <1>9, <2>1, <2>2, <2>3
          DEF Next, Turn, Recovery, Procs
<1>10. CASE UNCHANGED vars
  BY <1>2, <1>10 DEF vars
<1> QED BY <1>9, <1>10

\* A notice that was answered is never put to the coordinator again, however
\* often its result is reconciled and the process restarted (engine.py
\* notify_coordinator, _loop, _recover_completion_notifications).
THEOREM ToldAtMostOnce == Spec => []ToldOnce
<1>1. Init => NoticeInv
  <2>1. ASSUME Init PROVE ToSet(inbox) = {} /\ Len(inbox) = 0
    BY <2>1 DEF Init, ToSet
  <2>2. NoTask \notin Tasks
    BY CompletionAssumption DEF CompletionAssumption
  <2>3. ASSUME Init
        PROVE  /\ told = [t \in Tasks |-> 0] /\ notice = [t \in Tasks |-> "none"]
               /\ speaking = NoTask
    BY <2>3 DEF Init
  <2> QED BY <2>1, <2>2, <2>3 DEF NoticeInv
<1>2. IInv /\ NoticeInv /\ [Next]_vars => NoticeInv'
  BY CompletionAssumption, NoticeStep DEF IInv
<1>3. NoticeInv => ToldOnce
  BY DEF NoticeInv, ToldOnce
<1> QED BY <1>1, <1>2, <1>3, InvariantHolds, PTL DEF Spec
-----------------------------------------------------------------------------
(* Reports and worklog entries                                             *)

\* A report without its audit copy is torn, or the coroutine that wrote it
\* keeps the event loop until it has written the copy as well.
OnceInv ==
    /\ \A t \in Tasks : worklog[t] <= 1
    /\ \A t \in Tasks : reports[t] <= 1 \/ t \in torn
    /\ \A t \in Tasks : reports[t] > 0 =>
          \/ t \in audit \cup torn
          \/ \E p \in Procs : at[p] = "audit" /\ current[p][1] = t
    /\ \A p \in Procs : at[p] = "audit" => up /\ running = p

\* A step with nobody between a report and its audit copy.
Apart ==
    /\ \A p \in Procs : at[p] # "audit" /\ at'[p] # "audit"
    /\ UNCHANGED <<reports, audit, torn>>
    /\ \A t \in Tasks : worklog'[t] <= 1

LEMMA ApartStep == ASSUME OnceInv, Apart PROVE OnceInv'
BY DEF OnceInv, Apart

\* While one coroutine keeps the loop, another one does not step.
LEMMA AloneAtAudit ==
    ASSUME CompletionAssumption, OnceInv, NEW p \in Procs, Runs(p), at[p] # "audit"
    PROVE  \A q \in Procs : at[q] # "audit"
BY DEF CompletionAssumption, OnceInv, Runs, Procs

\* The steps that are nowhere near a report.
LEMMA ApartActions ==
    ASSUME CompletionAssumption, TypeOK, OnceInv,
           \/ \E t \in Tasks :
                 \/ Begin(t) \/ Repeat(t) \/ Show(t) \/ Record(t) \/ Tell(t)
                 \/ EndTurn(t) \/ TellFails(t) \/ ShowFails(t)
                 \/ ShowCancelled(t) \/ \E s \in Outcomes : Commit(t, s)
           \/ \E p \in Procs : Claim(p) \/ Project(p) \/ Acknowledge(p)
                               \/ Abort(p) \/ WriteWorklog(p)
                               \/ (Fail(p) /\ at[p] # "audit")
           \/ Hear \/ Answer \/ AnswerFails \/ Restart \/ RecoverNotices
    PROVE  Apart
<1> USE DEF store, files, log, notices, drains, workers, history, Goto
<1>1. at \in [Procs -> {"off", "show", "shown", "tell", "scan", "report",
                        "audit", "memory", "effect"}]
  BY DEF TypeOK
<1>2. ASSUME NEW p \in Procs, NEW step \in {"off", "show", "shown", "tell",
                                           "scan", "report", "memory", "effect"},
             Runs(p), at[p] # "audit", at' = at \/ at' = [at EXCEPT ![p] = step],
             UNCHANGED <<reports, audit, torn>>,
             \A t \in Tasks : worklog'[t] <= 1
      PROVE  Apart
  BY <1>1, <1>2, AloneAtAudit DEF Apart
<1>3. \A t \in Tasks : worklog[t] <= 1
  BY DEF OnceInv
<1>4. Free => \A p \in Procs : Runs(p) /\ at[p] # "audit"
  BY DEF Free, Runs, OnceInv, CompletionAssumption, Procs
<1>5. Boot \in Procs /\ Tasks \subseteq Procs
  BY DEF Procs
<1>6. ASSUME NEW t \in Tasks,
             \/ Begin(t) \/ Repeat(t) \/ Show(t) \/ Record(t) \/ Tell(t)
             \/ EndTurn(t) \/ TellFails(t) \/ ShowFails(t)
             \/ ShowCancelled(t) \/ \E s \in Outcomes : Commit(t, s)
      PROVE  Apart
  <2>1. /\ Runs(t) /\ at[t] # "audit"
        /\ UNCHANGED <<reports, audit, torn, worklog>>
    BY <1>4, <1>5, <1>6
       DEF Begin, Repeat, Show, Record, Tell, EndTurn, TellFails, ShowFails,
           ShowCancelled, Commit, StartDrain
  <2>2. \E step \in {"off", "show", "shown", "tell", "scan"} :
           at' = at \/ at' = [at EXCEPT ![t] = step]
    BY <1>6
       DEF Begin, Repeat, Show, Record, Tell, EndTurn, TellFails, ShowFails,
           ShowCancelled, Commit, StartDrain
  <2> QED BY <1>2, <1>3, <1>5, <2>1, <2>2
<1>7. ASSUME NEW p \in Procs,
             \/ Claim(p) \/ Project(p) \/ Acknowledge(p) \/ Abort(p)
             \/ WriteWorklog(p) \/ (Fail(p) /\ at[p] # "audit")
      PROVE  Apart
  <2>1. /\ Runs(p) /\ at[p] # "audit" /\ UNCHANGED <<reports, audit, torn>>
    BY <1>4, <1>7
       DEF Claim, Project, Acknowledge, Abort, Fail, Raises, WriteWorklog
  <2>2. \E step \in {"off", "show", "scan", "report", "memory", "effect"} :
           at' = at \/ at' = [at EXCEPT ![p] = step]
    BY <1>7 DEF Claim, Project, Acknowledge, Abort, Fail, WriteWorklog
  <2>3. \A t \in Tasks : worklog'[t] <= 1
    <3>1. CASE worklog' = worklog
      BY <1>3, <3>1
    <3>2. CASE worklog' = [worklog EXCEPT ![current[p][1]] =
                             IF @ = 0 THEN 1 ELSE @]
      BY <1>3, <3>2 DEF TypeOK
    <3> QED BY <1>7, <3>1, <3>2
            DEF Claim, Project, Acknowledge, Abort, Fail, WriteWorklog
  <2> QED BY <1>2, <2>1, <2>2, <2>3
<1>8. CASE Hear \/ Answer \/ AnswerFails
  BY <1>2, <1>3, <1>4, <1>5, <1>8 DEF Hear, Answer, AnswerFails
<1>9. CASE Restart
  <2>1. \A p \in Procs : at[p] # "audit"
    BY <1>9 DEF Restart, OnceInv
  <2> QED BY <1>1, <1>3, <1>9, <2>1 DEF Restart, Apart
<1>10. CASE RecoverNotices
  <2>1. /\ Runs(Boot) /\ at[Boot] # "audit" /\ at' = [at EXCEPT ![Boot] = "off"]
        /\ UNCHANGED <<reports, audit, torn, worklog>>
    BY <1>10 DEF RecoverNotices
  <2> QED BY <1>2, <1>3, <1>5, <2>1
<1> QED BY <1>6, <1>7, <1>8, <1>9, <1>10

LEMMA OnceStep ==
    ASSUME CompletionAssumption, IInv, OnceInv, [Next]_vars
    PROVE  OnceInv'
<1> USE DEF store, files, log, notices, drains, workers, history, Goto, Keep
<1>1. TypeOK /\ Working
  BY DEF IInv
<1>2. ASSUME NEW p \in Procs, WriteReport(p) PROVE OnceInv'
  <2>1. PICK t \in Tasks : t = current[p][1]
    BY <1>1, <1>2 DEF WriteReport, Working, Busy, Rows
  <2>2. /\ \A q \in Procs : at[q] # "audit"
        /\ running' = p /\ UNCHANGED <<up, audit, torn, worklog, current>> /\ up
    BY <1>2, AloneAtAudit DEF WriteReport, Runs
  <2>3. CASE t \in audit
    <3>1. at' = [at EXCEPT ![p] = "effect"] /\ reports' = reports
      BY <1>2, <2>1, <2>3 DEF WriteReport
    <3>2. Apart
      BY <1>1, <2>2, <3>1 DEF TypeOK, Apart, OnceInv
    <3> QED BY <3>2, ApartStep
  <2>4. CASE t \notin audit
    <3>1. /\ at' = [at EXCEPT ![p] = "audit"]
          /\ reports' = [reports EXCEPT ![t] = @ + 1]
      BY <1>2, <2>1, <2>4 DEF WriteReport
    <3>2. reports[t] = 0 \/ t \in torn
      <4>1. reports[t] \in Nat
        BY <1>1 DEF TypeOK
      <4>2. reports[t] > 0 => t \in torn
        BY <2>2, <2>4 DEF OnceInv
      <4> QED BY <4>1, <4>2
    <3>3. /\ reports'[t] = reports[t] + 1
          /\ \A u \in Tasks : u # t => reports'[u] = reports[u]
          /\ \A u \in Tasks : reports[u] \in Nat
          /\ at'[p] = "audit" /\ \A q \in Procs : q # p => at'[q] = at[q]
      BY <1>1, <3>1 DEF TypeOK
    <3>4. \A u \in Tasks : reports'[u] <= 1 \/ u \in torn
      BY <3>2, <3>3 DEF OnceInv
    <3>5. \A u \in Tasks : reports'[u] > 0 =>
             \/ u \in audit \cup torn
             \/ \E q \in Procs : at'[q] = "audit" /\ current[q][1] = u
      BY <2>1, <2>2, <3>3 DEF OnceInv
    <3>6. \A q \in Procs : at'[q] = "audit" => up /\ running' = q
      BY <2>2, <3>3
    <3> QED BY <2>2, <3>4, <3>5, <3>6 DEF OnceInv
  <2> QED BY <2>3, <2>4
<1>3. ASSUME NEW p \in Procs, WriteAudit(p) PROVE OnceInv'
  <2>1. /\ at[p] = "audit" /\ at' = [at EXCEPT ![p] = "effect"]
        /\ UNCHANGED <<reports, worklog, current, up>> /\ running' = p
        /\ audit \cup torn \cup {current[p][1]} = audit' \cup torn'
        /\ torn \subseteq torn'
    BY <1>3 DEF WriteAudit
  <2>2. \A q \in Procs : at[q] = "audit" => q = p
    BY <2>1 DEF OnceInv
  <2>3. \A q \in Procs : at'[q] # "audit"
    BY <1>1, <2>1, <2>2 DEF TypeOK
  <2> QED BY <2>1, <2>2, <2>3 DEF OnceInv
<1>4. CASE Crash
  <2>1. /\ \A p \in Procs : at'[p] = "off"
        /\ UNCHANGED <<reports, worklog, audit>>
        /\ torn' = torn \cup
               {current[p][1] : p \in {q \in Procs : at[q] = "audit"}}
    BY <1>4 DEF Crash
  <2> QED BY <2>1 DEF OnceInv
<1>5. CASE Save
  BY <1>5 DEF Save, OnceInv
<1>6. CASE UNCHANGED vars
  BY <1>6 DEF vars, OnceInv
<1>7. CASE Next
  <2>1. ASSUME NEW p \in Procs, Drain(p) PROVE OnceInv'
    <3>1. CASE WriteReport(p) \/ WriteAudit(p)
      BY <1>2, <1>3, <2>1, <3>1
    <3>2. CASE \/ Claim(p) \/ Project(p) \/ Acknowledge(p)
               \/ Abort(p) \/ WriteWorklog(p)
      BY <1>1, <2>1, <3>2, ApartActions, ApartStep
    <3> QED
      BY <2>1, <3>1, <3>2 DEF Drain
  <2>2. ASSUME NEW t \in Tasks,
               \/ Begin(t) \/ Repeat(t) \/ Show(t) \/ Record(t) \/ Tell(t)
               \/ EndTurn(t) \/ TellFails(t) \/ ShowFails(t)
               \/ ShowCancelled(t) \/ \E s \in Outcomes : Commit(t, s)
        PROVE  OnceInv'
    BY <1>1, <2>2, ApartActions, ApartStep
  <2>3. ASSUME NEW p \in Procs, Fail(p) PROVE OnceInv'
    <3>1. CASE at[p] # "audit"
      BY <1>1, <2>3, <3>1, ApartActions, ApartStep
    <3>2. CASE at[p] = "audit"
      <4>1. /\ at' = [at EXCEPT ![p] = "scan"] /\ torn' = torn \cup {current[p][1]}
            /\ UNCHANGED <<reports, worklog, audit>>
        BY <2>3, <3>2 DEF Fail
      <4>2. \A q \in Procs : at[q] = "audit" => q = p
        BY <3>2 DEF OnceInv
      <4>3. \A q \in Procs : at'[q] # "audit"
        BY <1>1, <4>1, <4>2 DEF TypeOK
      <4> QED BY <4>1, <4>2, <4>3 DEF OnceInv
    <3> QED BY <3>1, <3>2
  <2>4. CASE Hear \/ Answer \/ AnswerFails \/ Restart \/ RecoverNotices
    BY <1>1, <2>4, ApartActions, ApartStep
  <2> QED BY <1>4, <1>5, <1>7, <2>1, <2>2, <2>3, <2>4
          DEF Next, Turn, Recovery, Procs
<1> QED BY <1>6, <1>7

\* However often a result is projected, it has one worklog entry and one
\* report, but for a report whose audit copy was lost (projections.py _report,
\* HandoffBook.write_report): the report and its copy are written without an
\* await in between, so two drains never write the same report.
THEOREM EffectsHappenOnce == Spec => []EffectOnce
<1>1. Init => OnceInv
  BY DEF Init, OnceInv, Procs
<1>2. IInv /\ OnceInv /\ [Next]_vars => OnceInv'
  BY CompletionAssumption, OnceStep
<1>3. IInv /\ OnceInv => EffectOnce
  BY DEF IInv, TypeOK, OnceInv, EffectOnce
<1> QED BY <1>1, <1>2, <1>3, InvariantHolds, PTL DEF Spec
=============================================================================
