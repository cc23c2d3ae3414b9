-------------------------------- MODULE Gate --------------------------------
(***************************************************************************)
(* The approval gate of one project (backend/gate.py) with its callers: a  *)
(* turn proposes a card and waits on a future, the user answers, sends     *)
(* feedback that rewrites the card in place (engine.py adjust_instruction) *)
(* or a new message that voids every card; timeouts fire; the engine is    *)
(* stopped, replaced after a crash of its loop, or dies with the process,  *)
(* and cards come back from the event log (server.py wake_projects).       *)
(*                                                                         *)
(* One action is one stretch of a coroutine between two awaits.  emit()    *)
(* stamps its event before it first suspends (hub.py: no await under the   *)
(* lock), so an event enters log in the action that emits it.              *)
(***************************************************************************)
EXTENDS Integers, FiniteSets, SequencesExt

CONSTANTS
    Cards,          \* card ids; each is proposed at most once
    NoCard,
    Clients,        \* a client is connected, so a broadcast suspends
    TimesOut,       \* the user configured a finite approval timeout
    MaxFeedback,    \* bound: feedback, per card
    MaxStops,       \* bound: engine stops
    MaxCrashes,     \* bound: crashes of the process
    MaxEvents       \* bound: feedback, stops, crashes (twice), cards brought back

ASSUME GateAssumption ==
    /\ NoCard \notin Cards /\ IsFiniteSet(Cards)
    /\ {Clients, TimesOut} \subseteq BOOLEAN
    /\ MaxFeedback \in Nat /\ MaxStops \in Nat /\ MaxCrashes \in Nat
    /\ MaxEvents \in Nat

VARIABLES
    engine,     \* up | stopping | stopped | dead
    log,        \* approval_card and approval_resolved, in seq order
    pending,    \* Gate._pending
    future,     \* the future of each card
    body,       \* the instruction on the card: 0, or the feedback it follows
    waiter,     \* the coroutine that waits: propose() or _await_recovered()
    shown,      \* Project.pending_card
    said,       \* feedback the user gave on each card
    gen,        \* _feedback_gen
    flights,    \* _feedback_flights, with those cancelled too late
    closing,    \* the cards cancel_all_settled still has to settle
    saved,      \* snapshot_pending() taken before the engine is replaced
    accepted,   \* history: the answer for which resolve() returned True
    taken,      \* history: the decision and instruction the turn got
    revived,    \* history: the settled cards a replacement brought back
    stops, crashes

feedback == <<said, gen, flights>>
lives    == <<engine, closing, saved, stops, crashes>>
history  == <<accepted, taken, revived>>
vars == <<lives, log, pending, future, body, waiter, shown, feedback, history>>

Answers     == {"approved", "rejected"}
Resolutions == Answers \cup {"timeout", "cancelled"}

Card(c, b)     == [what |-> "card", card |-> c, body |-> b, res |-> "none"]
Resolved(c, r) == [what |-> "resolved", card |-> c, body |-> 0, res |-> r]

ResolvedIn(l, c) == \E i \in DOMAIN l : l[i].what = "resolved" /\ l[i].card = c

Events == FoldFunction(+, stops + 2 * crashes + Cardinality(saved \cup revived), said)

Done(c) == future[c] \notin {"none", "open"}

Init ==
    /\ engine = "up" /\ closing = <<>> /\ saved = {} /\ stops = 0 /\ crashes = 0
    /\ log = <<>>
    /\ pending = {} /\ shown = NoCard
    /\ future = [c \in Cards |-> "none"]
    /\ body = [c \in Cards |-> 0]
    /\ waiter = [c \in Cards |-> "none"]
    /\ said = [c \in Cards |-> 0] /\ gen = [c \in Cards |-> 0] /\ flights = {}
    /\ accepted = [c \in Cards |-> "none"]
    /\ taken = [c \in Cards |-> [res |-> "none", body |-> 0]]
    /\ revived = {}

-----------------------------------------------------------------------------
(* Settling: the one way out of the gate                                   *)

\* The flights after _cancel_feedback_flight: one past its last await is not
\* stopped by the cancel, only by the generation it carries.
Survivors(c) == {flights, {f \in flights : f.card # c}}

\* _settle: the pop lets it happen once.
Settle(c, r) ==
    IF c \in pending
    THEN /\ pending' = pending \ {c}
         /\ shown' = IF shown = c THEN NoCard ELSE shown
         /\ log' = Append(log, Resolved(c, r))
         /\ gen' = [gen EXCEPT ![c] = @ + 1]
         /\ flights' \in Survivors(c)
    ELSE UNCHANGED <<pending, shown, log, flights, gen>>

-----------------------------------------------------------------------------
(* The turn that proposes                                                  *)

\* propose(): the card is registered, then broadcast.
Propose(c) ==
    /\ engine \in {"up", "stopping"} /\ future[c] = "none"
    /\ pending' = pending \cup {c}
    /\ future' = [future EXCEPT ![c] = "open"]
    /\ shown' = c
    /\ log' = Append(log, Card(c, 0))
    /\ waiter' = [waiter EXCEPT ![c] = IF Clients THEN "emitting" ELSE "waiting"]
    /\ UNCHANGED <<lives, body, feedback, history>>

\* The broadcast is over; propose() starts to wait.
BroadcastDone(c) ==
    /\ waiter[c] = "emitting"
    /\ waiter' = [waiter EXCEPT ![c] = "waiting"]
    /\ UNCHANGED <<lives, log, pending, future, body, shown, feedback,
                   history>>

\* Fault: a restored card waits without a timer.
ExpireProposedOnly(c) ==
    /\ TimesOut /\ ~Done(c) /\ waiter[c] = "waiting"
    /\ future' = [future EXCEPT ![c] = "timeout"]
    /\ UNCHANGED <<lives, log, pending, body, waiter, shown, feedback,
                   history>>

\* wait_for: the timer cancels the future of propose(), but not the shielded
\* one of _await_recovered().
Expire(c) ==
    /\ TimesOut /\ ~Done(c)
    /\ \/ /\ waiter[c] = "waiting"
          /\ future' = [future EXCEPT ![c] = "timeout"]
          /\ UNCHANGED waiter
       \/ /\ waiter[c] = "restored"
          /\ waiter' = [waiter EXCEPT ![c] = "late"]
          /\ UNCHANGED future
    /\ UNCHANGED <<lives, log, pending, body, shown, feedback, history>>

\* Fault: the turn keeps the instruction it proposed.
ResumeWithOwnCopy(c) ==
    /\ waiter[c] = "waiting" /\ Done(c)
    /\ waiter' = [waiter EXCEPT ![c] = "gone"]
    /\ taken' = [taken EXCEPT ![c] = [res |-> future[c], body |-> 0]]
    /\ Settle(c, future[c])
    /\ UNCHANGED <<lives, future, body, said, accepted, revived>>

\* propose() resumes: card_out, settle, return.
Resume(c) ==
    /\ waiter[c] = "waiting" /\ Done(c)
    /\ waiter' = [waiter EXCEPT ![c] = "gone"]
    /\ taken' = [taken EXCEPT ![c] =
                    [res |-> future[c], body |-> IF c \in pending THEN body[c] ELSE 0]]
    /\ Settle(c, future[c])
    /\ UNCHANGED <<lives, future, body, said, accepted, revived>>

\* _await_recovered() resumes; no turn is there to act on the answer.
ResumeRestored(c) ==
    /\ waiter[c] = "late" \/ (waiter[c] = "restored" /\ Done(c))
    /\ waiter' = [waiter EXCEPT ![c] = "gone"]
    /\ Settle(c, IF waiter[c] = "late" THEN "timeout" ELSE future[c])
    /\ UNCHANGED <<lives, future, body, said, history>>

-----------------------------------------------------------------------------
(* The user                                                                *)

\* Gate.resolve, when it returns True; otherwise nothing changes.
Answer(c, r) ==
    /\ engine \in {"up", "stopping"} /\ c \in pending /\ ~Done(c)
    /\ future' = [future EXCEPT ![c] = r]
    /\ accepted' = [accepted EXCEPT ![c] = r]
    /\ UNCHANGED <<lives, log, pending, body, waiter, shown, feedback,
                   taken, revived>>

\* Fault: a new message voids answered cards too.
NewMessageOverAnswers ==
    /\ engine = "up" /\ pending # {}
    /\ future' = [c \in Cards |-> IF c \in pending THEN "cancelled" ELSE future[c]]
    /\ UNCHANGED <<lives, log, pending, body, waiter, shown, feedback,
                   history>>

\* ProjectEngine.submit: cancel_all
NewMessage ==
    /\ engine = "up" /\ \E c \in pending : ~Done(c)
    /\ future' = [c \in Cards |->
                     IF c \in pending /\ ~Done(c) THEN "cancelled" ELSE future[c]]
    /\ UNCHANGED <<lives, log, pending, body, waiter, shown, feedback,
                   history>>

\* adjust_instruction: the flight of an earlier feedback is cancelled.
Feedback(c) ==
    /\ engine = "up" /\ c \in pending
    /\ said[c] < MaxFeedback /\ Events < MaxEvents
    /\ said' = [said EXCEPT ![c] = @ + 1]
    /\ gen' = [gen EXCEPT ![c] = @ + 1]
    /\ \E kept \in Survivors(c) :
          flights' = kept \cup {[card |-> c, gen |-> gen'[c], n |-> said'[c]]}
    /\ UNCHANGED <<lives, log, pending, future, body, waiter, shown,
                   history>>

\* update_card: the card is rewritten and shown again while it is open.
UpdateCard(c, b) ==
    IF c \in pending /\ ~Done(c)
    THEN /\ body' = [body EXCEPT ![c] = b]
         /\ log' = Append(log, Card(c, b))
    ELSE UNCHANGED <<body, log>>

\* Fault: the generation is not compared.
FlightLandsStale(f, ok) ==
    /\ engine \in {"up", "stopping"} /\ f \in flights
    /\ flights' = flights \ {f}
    /\ UpdateCard(f.card, IF ok THEN f.n ELSE body[f.card])
    /\ UNCHANGED <<lives, pending, future, waiter, shown, said, gen,
                   history>>

\* Fault: the card is rewritten even after its answer.
FlightLandsAnyway(f, ok) ==
    /\ engine \in {"up", "stopping"} /\ f \in flights
    /\ flights' = flights \ {f}
    /\ body' = [body EXCEPT ![f.card] = IF ok THEN f.n ELSE @]
    /\ log' = Append(log, Card(f.card, body'[f.card]))
    /\ UNCHANGED <<lives, pending, future, waiter, shown, said, gen,
                   history>>

\* _run_feedback_flight after the model has answered (or failed).
FlightLands(f, ok) ==
    /\ engine \in {"up", "stopping"} /\ f \in flights
    /\ flights' = flights \ {f}
    /\ IF gen[f.card] = f.gen
       THEN UpdateCard(f.card, IF ok THEN f.n ELSE body[f.card])
       ELSE UNCHANGED <<body, log>>
    /\ UNCHANGED <<lives, pending, future, waiter, shown, said, gen,
                   history>>

-----------------------------------------------------------------------------
(* Stopping and replacing the engine                                       *)

\* ProjectEngine.stop: cancel_all_settled first resolves every open future.
\* The server that replaces a dead engine has read the pending cards before.
StopBegins(replace) ==
    /\ engine = "up" /\ stops < MaxStops
    /\ Events + (IF replace THEN Cardinality(pending) ELSE 0) < MaxEvents
    /\ engine' = "stopping"
    /\ stops' = stops + 1
    /\ saved' = IF replace THEN pending ELSE {}
    /\ closing' = SetToSeq({c \in pending : ~Done(c)})
    /\ future' = [c \in Cards |->
                     IF c \in pending /\ ~Done(c) THEN "cancelled" ELSE future[c]]
    /\ UNCHANGED <<log, pending, body, waiter, shown, feedback, history,
                   crashes>>

\* The loop of cancel_all_settled, which suspends in every settle.
StopSettles ==
    /\ engine = "stopping" /\ closing # <<>>
    /\ closing' = Tail(closing)
    /\ Settle(Head(closing), "cancelled")
    /\ UNCHANGED <<engine, saved, stops, crashes, future, body, waiter,
                   said, history>>

\* Fault: the cancelled turn leaves the gate without settling its card.
StopCancelsBare(c) ==
    /\ engine = "stopping" /\ closing = <<>>
    /\ waiter[c] \in {"waiting", "emitting"}
    /\ waiter' = [waiter EXCEPT ![c] = "gone"]
    /\ UNCHANGED <<lives, log, pending, future, body, shown, feedback,
                   history>>

\* Then the turns are cancelled: propose() settles its card if it waits for
\* the future; inside its emit it has no handler.
StopCancels(c) ==
    /\ engine = "stopping" /\ closing = <<>>
    /\ \/ /\ waiter[c] = "waiting"
          /\ waiter' = [waiter EXCEPT ![c] = "gone"]
          /\ Settle(c, "cancelled")
       \/ /\ waiter[c] = "emitting"
          /\ waiter' = [waiter EXCEPT ![c] = "cut"]
          /\ UNCHANGED <<pending, shown, log, flights, gen>>
    /\ UNCHANGED <<lives, future, body, said, history>>

\* The engine and its gate are gone.
StopEnds ==
    /\ engine = "stopping" /\ closing = <<>>
    /\ \A c \in Cards : waiter[c] \in {"none", "gone", "cut"}
    /\ engine' = "stopped"
    /\ pending' = {}
    /\ flights' = {}
    /\ UNCHANGED <<closing, saved, stops, crashes, log, future, body,
                   waiter, shown, said, gen, history>>

\* restore_pending for every card of S: same ids, new futures.
Restore(S) ==
    /\ pending' = S
    /\ future' = [c \in Cards |-> IF c \in S THEN "open" ELSE future[c]]
    /\ waiter' = [c \in Cards |-> IF c \in S THEN "restored" ELSE waiter[c]]

\* A new engine: engine_for(), or _restart_engine with the saved cards.
Reopen ==
    /\ engine = "stopped"
    /\ engine' = "up"
    /\ saved' = {}
    /\ Restore(saved)
    /\ shown' \in IF saved = {} THEN {shown} ELSE saved
    /\ accepted' = [c \in Cards |-> IF c \in saved THEN "none" ELSE accepted[c]]
    /\ revived' = revived \cup {c \in saved : ResolvedIn(log, c)}
    /\ UNCHANGED <<closing, stops, crashes, log, body, feedback, taken>>

-----------------------------------------------------------------------------
(* The process                                                             *)

\* The process dies, and with it the events the writer had not yet written:
\* the newest ones (EventLog, PrefixDurable).
Crash ==
    /\ engine # "dead" /\ crashes < MaxCrashes /\ Events + 1 < MaxEvents
    /\ engine' = "dead"
    /\ crashes' = crashes + 1
    /\ \E n \in 0 .. Len(log) : log' = SubSeq(log, 1, n)
    /\ pending' = {} /\ shown' = NoCard /\ closing' = <<>> /\ saved' = {}
    /\ waiter' = [c \in Cards |-> IF waiter[c] = "none" THEN "none" ELSE "gone"]
    /\ future' = [c \in Cards |-> IF future[c] = "none" THEN "none" ELSE "cancelled"]
    /\ flights' = {}
    /\ accepted' = [c \in Cards |-> "none"]
    /\ taken' = [c \in Cards |-> [res |-> "none", body |-> 0]]
    /\ UNCHANGED <<stops, body, said, gen, revived>>

\* Fault: cards are restored whatever happened to them later.
EverShown == {log[i].card : i \in DOMAIN log}

\* _pending_approval_snapshots: cards without a resolution in the log.
Unresolved == {c \in {log[i].card : i \in DOMAIN log} : ~ResolvedIn(log, c)}

\* The body a card had when it was last shown.
LastBody(c) ==
    LET at == {i \in DOMAIN log : log[i].what = "card" /\ log[i].card = c}
    IN log[CHOOSE i \in at : \A j \in at : j <= i].body

\* wake_projects
Boot ==
    /\ engine = "dead"
    /\ engine' = "up"
    /\ Restore(Unresolved)
    /\ shown' \in IF Unresolved = {} THEN {NoCard} ELSE Unresolved
    /\ body' = [c \in Cards |-> IF c \in Unresolved THEN LastBody(c) ELSE body[c]]
    /\ UNCHANGED <<closing, saved, stops, crashes, log, feedback,
                   history>>

-----------------------------------------------------------------------------
Turns ==
    \E c \in Cards : \/ Propose(c) \/ BroadcastDone(c) \/ Expire(c) \/ Resume(c)
                     \/ ResumeRestored(c)

User ==
    \/ \E c \in Cards : Feedback(c) \/ \E r \in Answers : Answer(c, r)
    \/ NewMessage

Flights == \E f \in flights, ok \in BOOLEAN : FlightLands(f, ok)

Stopping ==
    \/ \E replace \in BOOLEAN : StopBegins(replace)
    \/ StopSettles \/ StopEnds \/ Reopen
    \/ \E c \in Cards : StopCancels(c)

Next == Turns \/ User \/ Flights \/ Stopping \/ Crash \/ Boot

\* Coroutines that can go on do; timers fire; a stop ends; a dead process is
\* started again.  Nobody has to answer.
Fairness ==
    /\ \A c \in Cards :
          /\ WF_vars(BroadcastDone(c)) /\ WF_vars(Resume(c))
          /\ WF_vars(ResumeRestored(c)) /\ WF_vars(StopCancels(c))
          /\ WF_vars(Expire(c))
    /\ WF_vars(StopSettles) /\ WF_vars(StopEnds) /\ WF_vars(Boot)

Spec == Init /\ [][Next]_vars
FairSpec == Spec /\ Fairness

-----------------------------------------------------------------------------
(* Correctness                                                             *)

Entry == [what : {"card", "resolved"}, card : Cards, body : Nat,
          res : Resolutions \cup {"none"}]

TypeOK ==
    /\ engine \in {"up", "stopping", "stopped", "dead"}
    /\ log \in Seq(Entry)
    /\ pending \subseteq Cards
    /\ future \in [Cards -> Resolutions \cup {"none", "open"}]
    /\ body \in [Cards -> Nat]
    /\ waiter \in [Cards -> {"none", "emitting", "waiting", "restored", "late",
                           "gone", "cut"}]
    /\ shown \in Cards \cup {NoCard}
    /\ said \in [Cards -> Nat] /\ gen \in [Cards -> Nat]
    /\ flights \subseteq [card : Cards, gen : Nat, n : Nat]
    /\ closing \in Seq(Cards) /\ saved \subseteq Cards
    /\ accepted \in [Cards -> Answers \cup {"none"}]
    /\ taken \in [Cards -> [res : Resolutions \cup {"none"}, body : Nat]]
    /\ revived \subseteq Cards
    /\ stops \in Nat /\ crashes \in Nat

\* A card leaves at most one approval_resolved, whichever of answer, timeout,
\* new message, stop and cancelled turn race for it (gate.py:17, "exactly
\* once"), and across a crash.  The exception: _restart_engine reads the open
\* cards before the stop that settles them, and brings them back.
ResolvedOnce ==
    \A i, j \in DOMAIN log :
        /\ log[i].what = "resolved" /\ log[j].what = "resolved"
        /\ log[i].card = log[j].card /\ log[i].card \notin revived
        => i = j

\* Nothing is shown of a card after its resolution: no late feedback brings
\* it back (engine.py, "ghost card"; server.py, "terminal forever"), only the
\* replacement of the engine does.
NoGhostCard ==
    \A i, j \in DOMAIN log :
        /\ log[i].what = "resolved" /\ log[j].what = "card"
        /\ log[i].card = log[j].card /\ log[i].card \notin revived
        => j < i

\* Of two feedbacks on a card the later one stays, whatever order the model
\* calls finish in (engine.py adjust_instruction, rules 1 and 2).
FeedbackInOrder ==
    \A i, j \in DOMAIN log :
        log[i].what = "card" /\ log[j].what = "card"
            /\ log[i].card = log[j].card /\ i < j => log[i].body <= log[j].body

\* The turn acts on the instruction that was on the card when the user said
\* yes (gate.py propose card_out, "edited for nothing"), unless the card came
\* back after that.
ApprovedAsShown ==
    \A c \in Cards \ revived :
        taken[c].res = "approved" /\ (\E i \in DOMAIN log : log[i].card = c) =>
            taken[c].body = LastBody(c)

\* An answer for which resolve() returned True is the resolution of the card,
\* whatever timer, new message or feedback races with it, as long as nobody
\* stops the engine (gate.py resolve).  A restored card is the exception: its
\* timer does not take the future with it, and a late answer is lost.
AnswerHonoured ==
    stops = 0 /\ crashes = 0 => \A c \in Cards : accepted[c] # "none" =>
        \A i \in DOMAIN log :
            log[i].what = "resolved" /\ log[i].card = c => log[i].res = accepted[c]

\* A stopped engine leaves no card without a resolution (gate.py propose, "the
\* engine stops: this card needs an ending too"), except one whose turn was
\* cut off inside the emit that shows it: that emit is outside the try.
StopSettlesAll ==
    engine = "stopped" => \A c \in Unresolved : waiter[c] = "cut"

\* With a timeout configured every open card comes to its end.
EveryCardEnds == \A c \in Cards : c \in pending ~> c \notin pending
=============================================================================
