-------------------------- MODULE WorkforceProofs --------------------------
(***************************************************************************)
(* Safety of Workforce for any number of handoffs, messages, stops, errors *)
(* and faults.  The inductive invariant adds to the properties who owns    *)
(* the envelope while there is a turn, and that a message whose turn is    *)
(* over, or whose envelope lies unclaimed, has been heard of.              *)
(***************************************************************************)
EXTENDS Workforce, FiniteSetTheorems, TLAPS

-----------------------------------------------------------------------------
(* Sequences                                                               *)

\* The elements of a sequence that grows at its end.
LEMMA AppendSet ==
    ASSUME NEW S, NEW s \in Seq(S), NEW e \in S
    PROVE  Append(s, e) \in Seq(S) /\ ToSet(Append(s, e)) = ToSet(s) \cup {e}
<1>1. /\ Append(s, e) \in Seq(S)
      /\ Len(Append(s, e)) = Len(s) + 1
      /\ \A i \in 1 .. Len(s) : Append(s, e)[i] = s[i]
      /\ Append(s, e)[Len(s) + 1] = e
  OBVIOUS
<1>2. DOMAIN Append(s, e) = 1 .. Len(s) + 1 /\ DOMAIN s = 1 .. Len(s)
  BY <1>1
<1> QED BY <1>1, <1>2 DEF ToSet

\* The elements of a sequence and of its tail.
LEMMA TailSet ==
    ASSUME NEW S, NEW s \in Seq(S), s # <<>>
    PROVE  /\ Tail(s) \in Seq(S) /\ Head(s) \in S
           /\ ToSet(s) = {Head(s)} \cup ToSet(Tail(s))
<1>1. /\ Tail(s) \in Seq(S)
      /\ Len(Tail(s)) = Len(s) - 1
      /\ \A i \in 1 .. Len(s) - 1 : Tail(s)[i] = s[i + 1]
      /\ Head(s) = s[1] /\ Head(s) \in S
      /\ Len(s) \in Nat \ {0}
  OBVIOUS
<1>2. DOMAIN Tail(s) = 1 .. Len(s) - 1 /\ DOMAIN s = 1 .. Len(s)
  BY <1>1
<1>3. ASSUME NEW x \in ToSet(s), x # Head(s) PROVE x \in ToSet(Tail(s))
  <2>1. PICK i \in 1 .. Len(s) : x = s[i]
    BY <1>2 DEF ToSet
  <2>2. i - 1 \in 1 .. Len(s) - 1 /\ (i - 1) + 1 = i
    BY <1>1, <1>3, <2>1
  <2> QED BY <1>1, <1>2, <2>1, <2>2 DEF ToSet
<1>4. ToSet(Tail(s)) \subseteq ToSet(s) /\ Head(s) \in ToSet(s)
  BY <1>1, <1>2 DEF ToSet
<1> QED BY <1>1, <1>3, <1>4

-----------------------------------------------------------------------------

Places == {"off", "new", "respawned", "preparing", "running", "ending",
           "failing", "shielded", "done"}

\* The turn that exists owns the envelope, if there is one; a direct turn has
\* none before its first step.
EnvelopeOwned ==
    /\ \A k \in Kinds :
           turn[k] # NoTurn => envelope = NoJob \/ envelope = turn[k].job
    /\ turn["direct"].at \in {"new", "respawned"} => envelope = NoJob

HeardOf(m) == results[m] > 0 \/ m \in unheard

\* Nothing forgets a message by forgetting its turn or its envelope.
Over == {"ending", "failing", "shielded", "done"}

MessagesHeardOf ==
    up => /\ \A k \in Kinds :
                 turn[k].at \in Over /\ turn[k].job \in Messages
                     => HeardOf(turn[k].job)
          /\ turn["worker"].job \in Messages => HeardOf(turn["worker"].job)
          /\ envelope \in Messages =>
                 HeardOf(envelope) \/ \E k \in Kinds : turn[k].job = envelope

IInv ==
    /\ TypeOK
    /\ OneTurnAtATime
    /\ ResultOnce
    /\ EnvelopeOwned
    /\ MessagesHeardOf
    /\ NoMessageLost

\* The initial state satisfies the invariant.
LEMMA InitInvariant == Init => IInv
<1> SUFFICES ASSUME Init PROVE IInv
  OBVIOUS
<1> USE DEF Init
<1>a. NoJob \notin Messages
  BY WorkforceAssumption DEF Jobs
<1>1. TypeOK
  <2>1. up \in BOOLEAN /\ open \in BOOLEAN
    OBVIOUS
  <2>2. turn = [k \in Kinds |-> [job |-> NoJob, at |-> "off"]]
    BY DEF NoTurn
  <2>3. /\ turn \in [Kinds -> [job : Jobs \cup {NoJob}, at : Places]]
        /\ \A k \in Kinds : turn[k].job = NoJob <=> turn[k].at = "off"
    BY <2>2 DEF Places
  <2>4. /\ card \in Handoffs \cup {NoJob}
        /\ {envelope, run} \subseteq Jobs \cup {NoJob}
        /\ pending \in Seq(Messages) /\ flushing \subseteq Messages
        /\ results \in [Jobs -> Nat]
        /\ offered \subseteq Jobs /\ unheard \subseteq Jobs
    OBVIOUS
  <2>5. /\ stops \in [Calls -> {"idle", "waiting", "waking", "failing", "done"}]
        /\ detached \in Nat /\ errors \in Nat /\ faults \in Nat
    OBVIOUS
  <2> QED
    BY ONLY <2>1, <2>3, <2>4, <2>5 DEF TypeOK, Places
<1>2. OneTurnAtATime
  BY DEF OneTurnAtATime, Kinds
<1>3. ResultOnce
  BY DEF ResultOnce
<1>4. EnvelopeOwned
  BY DEF EnvelopeOwned, Kinds, NoTurn
<1>5. MessagesHeardOf
  <2>1. turn = [k \in Kinds |-> [job |-> NoJob, at |-> "off"]]
    BY DEF NoTurn
  <2>2. \A k \in Kinds : turn[k].job \notin Messages
    BY <2>1, <1>a
  <2>3. envelope \notin Messages
    BY <1>a
  <2>4. "worker" \in Kinds
    BY DEF Kinds
  <2> QED
    BY ONLY <2>2, <2>3, <2>4, Zenon DEF MessagesHeardOf
<1>6. NoMessageLost
  BY DEF NoMessageLost
<1> QED
  BY <1>1, <1>2, <1>3, <1>4, <1>5, <1>6 DEF IInv

\* Moving a turn on keeps the type of turn.
LEMMA GoType ==
    ASSUME TypeOK, NEW k \in Kinds, NEW j \in Jobs, NEW at \in Places \ {"off"},
           Go(k, j, at)
    PROVE  /\ turn' \in [Kinds -> [job : Jobs \cup {NoJob}, at : Places]]
           /\ \A o \in Kinds : turn'[o].job = NoJob <=> turn'[o].at = "off"
           /\ turn'[k] = [job |-> j, at |-> at]
           /\ \A o \in Kinds : o # k => turn'[o] = turn[o]
  BY WorkforceAssumption DEF TypeOK, Go, Places

\* A message that has been heard of stays so.
Remembers == \A m \in Messages : HeardOf(m) => HeardOf(m)'

\* What the invariant says of turns, envelope and messages.
Story == OneTurnAtATime /\ EnvelopeOwned /\ MessagesHeardOf /\ NoMessageLost

\* Basic facts about names.
LEMMA Names ==
    /\ NoJob \notin Jobs /\ NoJob \notin Messages
    /\ Messages \subseteq Jobs /\ Handoffs \subseteq Jobs
    /\ "worker" \in Kinds /\ "direct" \in Kinds
    /\ NoTurn.job = NoJob /\ NoTurn.at = "off"
  BY WorkforceAssumption DEF Jobs, Kinds, NoTurn

\* Where a turn is.
LEMMA TurnFacts ==
    ASSUME TypeOK, NEW k \in Kinds
    PROVE  /\ turn[k] = [job |-> turn[k].job, at |-> turn[k].at]
           /\ turn[k] = NoTurn <=> turn[k].at = "off"
           /\ turn[k] # NoTurn => turn[k].job \in Jobs
           /\ turn[k].at \in Places
  BY Names DEF TypeOK, NoTurn, Places

\* The turns stand still, and the envelope stays or is closed.
LEMMA TurnsStand ==
    ASSUME IInv, UNCHANGED <<turn, queue>>, Remembers,
           envelope' = envelope \/ envelope' = NoJob,
           up' = up, Messages \cap offered' = Messages \cap offered
    PROVE  Story'
<1>1. OneTurnAtATime' /\ EnvelopeOwned'
  BY DEF IInv, OneTurnAtATime, EnvelopeOwned
<1>2. MessagesHeardOf'
  <2> SUFFICES ASSUME up PROVE MessagesHeardOf'
    BY DEF MessagesHeardOf
  <2>1. MessagesHeardOf
    BY DEF IInv
  <2>2. \A k \in Kinds : turn'[k].at \in Over /\ turn'[k].job \in Messages
                             => HeardOf(turn[k].job)'
    BY <2>1 DEF MessagesHeardOf, Remembers
  <2>3. turn'["worker"].job \in Messages => HeardOf(turn["worker"].job)'
    BY <2>1 DEF MessagesHeardOf, Remembers
  <2>4. envelope' \in Messages =>
            HeardOf(envelope)' \/ \E k \in Kinds : turn'[k].job = envelope'
    BY <2>1, Names DEF MessagesHeardOf, HeardOf, Remembers
  <2> QED
    BY <2>2, <2>3, <2>4 DEF MessagesHeardOf, Remembers
<1>3. NoMessageLost'
  BY DEF IInv, NoMessageLost, Remembers, HeardOf, queue
<1> QED
  BY <1>1, <1>2, <1>3 DEF Story

\* The turn of k moves on, or its job gets a result; it stays the same turn of
\* the same job, and is over only when its message has been heard of.
Moves(k) ==
    /\ turn[k] # NoTurn
    /\ turn' \in [Kinds -> [job : Jobs \cup {NoJob}, at : Places]]
    /\ turn'[k].job = turn[k].job
    /\ turn'[k].at \notin {"off", "new", "respawned"}
    /\ \A o \in Kinds : o # k => turn'[o] = turn[o]
    /\ turn'[k].at \in Over /\ turn[k].job \in Messages /\ up =>
           turn[k].at \in Over \/ HeardOf(turn[k].job)'

\* A turn that moves on changes nothing of the story.
LEMMA TurnMoves ==
    ASSUME IInv, NEW k \in Kinds, Moves(k), UNCHANGED <<queue, up, offered>>,
           Remembers, envelope' \in {envelope, NoJob, turn[k].job}
    PROVE  Story'
<1> USE Names
<1>1. \A o \in Kinds : o # k => turn[o] = NoTurn /\ turn'[o] = NoTurn
  BY DEF IInv, OneTurnAtATime, Moves, Kinds
<1>2. OneTurnAtATime'
  <2>1. PICK o \in Kinds : o # k
    BY DEF Kinds
  <2> QED
    BY <1>1, <2>1 DEF OneTurnAtATime
<1>3. \A o \in Kinds : turn'[o] = NoTurn \/ o = k
  BY <1>1
<1>4. envelope' = NoJob \/ envelope' = turn[k].job
  BY DEF IInv, EnvelopeOwned, Moves
<1>5. EnvelopeOwned'
  <2>1. \A o \in Kinds : turn'[o] # NoTurn =>
            envelope' = NoJob \/ envelope' = turn'[o].job
    BY <1>3, <1>4 DEF Moves
  <2>2. turn'["direct"].at \notin {"new", "respawned"}
    BY <1>3 DEF Moves
  <2> QED
    BY <2>1, <2>2 DEF EnvelopeOwned
<1>6. MessagesHeardOf'
  <2> SUFFICES ASSUME up PROVE MessagesHeardOf'
    BY DEF MessagesHeardOf
  <2>1. MessagesHeardOf
    BY DEF IInv
  <2>2. ASSUME NEW o \in Kinds, turn'[o].at \in Over, turn'[o].job \in Messages
        PROVE  HeardOf(turn[o].job)'
    <3>1. o = k
      BY <1>3, <2>2
    <3>2. CASE turn[k].at \in Over
      BY <2>1, <2>2, <3>1, <3>2 DEF MessagesHeardOf, Remembers, HeardOf, Moves
    <3>3. CASE turn[k].at \notin Over
      BY <2>2, <3>1, <3>3 DEF Moves, HeardOf
    <3> QED
      BY <3>2, <3>3
  <2>3. turn'["worker"].job \in Messages => HeardOf(turn["worker"].job)'
    <3>1. CASE k = "worker"
      BY <2>1, <3>1 DEF MessagesHeardOf, Remembers, HeardOf, Moves
    <3>2. CASE k # "worker"
      BY <1>1, <3>2
    <3> QED
      BY <3>1, <3>2
  <2>4. envelope' \in Messages => \E o \in Kinds : turn'[o].job = envelope'
    BY <1>4 DEF Moves
  <2> QED
    BY <2>2, <2>3, <2>4 DEF MessagesHeardOf
<1>7. NoMessageLost'
  <2> SUFFICES ASSUME up, NEW m \in Messages \cap offered
               PROVE  \/ m \in ToSet(pending') \cup flushing' \cup unheard'
                      \/ \E o \in Kinds : turn'[o].job = m
                      \/ results'[m] > 0
    BY DEF NoMessageLost
  <2>1. \/ m \in ToSet(pending) \cup flushing \cup unheard
        \/ \E o \in Kinds : turn[o].job = m
        \/ results[m] > 0
    BY DEF IInv, NoMessageLost
  <2>2. CASE \E o \in Kinds : turn[o].job = m
    BY <1>1, <2>2 DEF Moves
  <2>3. CASE m \in ToSet(pending) \cup flushing
    BY <2>3 DEF queue
  <2>4. CASE m \in unheard \/ results[m] > 0
    BY <2>4 DEF Remembers, HeardOf
  <2> QED
    BY <2>1, <2>2, <2>3, <2>4
<1> QED
  BY <1>2, <1>5, <1>6, <1>7 DEF Story

-----------------------------------------------------------------------------
(* Results                                                                 *)

\* A commit adds a result to a job that has none.
LEMMA CommitEffect ==
    ASSUME TypeOK, ResultOnce, NEW j \in Jobs, Commit(j)
    PROVE  /\ results' \in [Jobs -> Nat] /\ ResultOnce'
           /\ results'[j] = 1
           /\ \A i \in Jobs : results[i] > 0 => results'[i] > 0
  BY DEF TypeOK, ResultOnce, Commit, Plus

\* The results after a step are typed, single and not fewer.
Kept == /\ results' \in [Jobs -> Nat] /\ ResultOnce'
        /\ \A i \in Jobs : results[i] > 0 => results'[i] > 0
        /\ unheard \subseteq unheard' /\ unheard' \subseteq Jobs
        /\ run' \in Jobs \cup {NoJob}

\* What fail_task settles, it settles once.
LEMMA FailEffect ==
    ASSUME TypeOK, ResultOnce, NEW t \in Jobs, Fail(t)
    PROVE  /\ results' \in [Jobs -> Nat] /\ ResultOnce'
           /\ \A i \in Jobs : results[i] > 0 => results'[i] > 0
           /\ run' \in Jobs \cup {NoJob}
<1>1. CASE results[t] = 0
  BY <1>1, CommitEffect DEF Fail
<1>2. CASE results[t] # 0
  BY <1>2 DEF Fail, TypeOK, ResultOnce
<1> QED
  BY <1>1, <1>2

\* A turn that calls fail_task has been heard of.
LEMMA TurnFailsEffect ==
    ASSUME TypeOK, ResultOnce, NEW k \in Kinds, turn[k] # NoTurn,
           NEW at \in {"failing", "shielded"}, TurnFails(k, at)
    PROVE  /\ Kept
           /\ turn' \in [Kinds -> [job : Jobs \cup {NoJob}, at : Places]]
           /\ \A o \in Kinds : turn'[o].job = NoJob <=> turn'[o].at = "off"
           /\ turn'[k].job = turn[k].job /\ turn'[k].at \in {"done", at}
           /\ \A o \in Kinds : o # k => turn'[o] = turn[o]
           /\ HeardOf(turn[k].job)'
<1> DEFINE j == turn[k].job
<1>1. j \in Jobs
  BY TurnFacts
<1>2. Failing \in Jobs \cup {NoJob}
  BY DEF Failing, TypeOK
<1>3. /\ results' \in [Jobs -> Nat] /\ ResultOnce'
      /\ \A i \in Jobs : results[i] > 0 => results'[i] > 0
      /\ run' \in Jobs \cup {NoJob}
  <2>1. CASE Failing = NoJob
    BY <2>1 DEF TurnFails, TypeOK, ResultOnce
  <2>2. CASE Failing # NoJob
    BY <1>2, <2>2, FailEffect DEF TurnFails
  <2> QED
    BY <2>1, <2>2
<1>4. PICK a \in {"done", at} : Go(k, j, a)
  BY DEF TurnFails
<1>5. a \in Places \ {"off"}
  BY <1>4 DEF Places
<1>6. /\ turn' \in [Kinds -> [job : Jobs \cup {NoJob}, at : Places]]
      /\ \A o \in Kinds : turn'[o].job = NoJob <=> turn'[o].at = "off"
      /\ turn'[k] = [job |-> j, at |-> a]
      /\ \A o \in Kinds : o # k => turn'[o] = turn[o]
  BY <1>1, <1>4, <1>5, GoType
<1>7. /\ unheard \subseteq unheard' /\ unheard' \subseteq Jobs
      /\ results'[j] > 0 \/ j \in unheard'
  BY <1>1, <1>3 DEF TurnFails, Heard, TypeOK
<1>8. turn'[k].job = j /\ turn'[k].at \in {"done", at}
  BY <1>4, <1>6
<1>9. HeardOf(turn[k].job)'
  BY <1>7, <1>8 DEF HeardOf
<1> QED
  BY <1>3, <1>6, <1>7, <1>8, <1>9 DEF Kept

\* What is kept is remembered.
LEMMA KeptRemembers == Kept => Remembers
  BY Names DEF Kept, Remembers, HeardOf

\* The three parts of the invariant.
LEMMA Together ==
    ASSUME TypeOK', ResultOnce', Story'
    PROVE  IInv'
  BY DEF IInv, Story

-----------------------------------------------------------------------------
(* Steps in which no turn moves                                            *)

\* A card is shown.
LEMMA ProposeStep ==
    ASSUME IInv, NEW h \in Handoffs, Propose(h)
    PROVE  IInv'
<1> USE DEF Propose, Fresh, tables, queue, bounds
<1>1. TypeOK'
  BY Names DEF IInv, TypeOK
<1>2. ResultOnce'
  BY DEF IInv, ResultOnce
<1>3. Messages \cap offered' = Messages \cap offered
  BY WorkforceAssumption
<1>4. Story'
  BY <1>3, TurnsStand DEF Remembers, HeardOf
<1> QED
  BY <1>1, <1>2, <1>4, Together

\* A card is dismissed.
LEMMA DismissStep ==
    ASSUME IInv, Dismiss
    PROVE  IInv'
<1> USE DEF Dismiss, tables, queue, bounds
<1>1. TypeOK'
  BY DEF IInv, TypeOK
<1>2. ResultOnce'
  BY DEF IInv, ResultOnce
<1>3. Story'
  BY TurnsStand DEF Remembers, HeardOf
<1> QED
  BY <1>1, <1>2, <1>3, Together

\* A fail_task without its turn, and a stop that goes on, close the envelope.
LEMMA AbandonStep ==
    ASSUME IInv, SettleDetached \/ \E c \in Calls : StopEnds(c)
    PROVE  IInv'
<1> USE DEF SettleDetached, StopEnds, Abandoned, Closed, queue, bounds
<1>1. TypeOK'
  <2>1. unheard' \subseteq Jobs
    BY DEF IInv, TypeOK
  <2>2. /\ stops' \in
               [Calls -> {"idle", "waiting", "waking", "failing", "done"}]
        /\ detached' \in Nat
    <3>1. CASE SettleDetached
      BY <3>1 DEF IInv, TypeOK
    <3>2. CASE \E c \in Calls : StopEnds(c)
      BY <3>2 DEF IInv, TypeOK
    <3> QED
      BY <3>1, <3>2
  <2>3. UNCHANGED <<up, card, run, turn, queue, results, offered, bounds>>
    OBVIOUS
  <2>4. envelope' = NoJob /\ open' = FALSE
    OBVIOUS
  <2> QED
    BY ONLY IInv, <2>1, <2>2, <2>3, <2>4 DEF IInv, TypeOK, queue, bounds
<1>2. ResultOnce'
  BY DEF IInv, ResultOnce
<1>3. Story'
  BY TurnsStand DEF Remembers, HeardOf
<1> QED
  BY <1>1, <1>2, <1>3, Together

\* A stop that finds no turn calls fail_task itself.
LEMMA StopIdleStep ==
    ASSUME IInv, NEW c \in Calls, StopIdle(c)
    PROVE  IInv'
<1> USE DEF StopIdle, queue, bounds
<1>1. Failing \in Jobs \cup {NoJob}
  BY DEF Failing, IInv, TypeOK
<1>2. Kept
  <2>1. CASE Failing = NoJob
    BY <2>1 DEF IInv, TypeOK, ResultOnce, Kept
  <2>2. CASE Failing # NoJob
    BY <1>1, <2>2, FailEffect DEF IInv, TypeOK, Kept
  <2> QED
    BY <2>1, <2>2
<1>3. stops' \in [Calls -> {"idle", "waiting", "waking", "failing", "done"}]
  BY DEF IInv, TypeOK
<1>4. TypeOK'
  BY <1>2, <1>3 DEF IInv, TypeOK, Kept
<1>5. Story'
  BY <1>2, KeptRemembers, TurnsStand
<1> QED
  BY <1>2, <1>4, <1>5, Together DEF Kept

\* Nothing happens.
LEMMA StillStep ==
    ASSUME IInv, UNCHANGED vars
    PROVE  IInv'
<1> USE DEF vars, tables, queue, bounds
<1>1. TypeOK'
  BY DEF IInv, TypeOK
<1>2. ResultOnce'
  BY DEF IInv, ResultOnce
<1>3. Story'
  BY TurnsStand DEF Remembers, HeardOf
<1> QED
  BY <1>1, <1>2, <1>3, Together

-----------------------------------------------------------------------------
(* Steps in which a turn moves on                                          *)

\* The first step of a turn.
LEMMA BeginStep ==
    ASSUME IInv, NEW k \in Kinds, Begin(k)
    PROVE  IInv'
<1> DEFINE j == turn[k].job
<1>1. turn[k] # NoTurn /\ j \in Jobs
  BY TurnFacts, Names DEF IInv, Begin
<1>2. /\ Own(j) /\ Go(k, j, "preparing")
  BY <1>1, Names DEF Begin, IInv, EnvelopeOwned
<1>3. /\ turn' \in [Kinds -> [job : Jobs \cup {NoJob}, at : Places]]
      /\ \A o \in Kinds : turn'[o].job = NoJob <=> turn'[o].at = "off"
      /\ turn'[k] = [job |-> j, at |-> "preparing"]
      /\ \A o \in Kinds : o # k => turn'[o] = turn[o]
  BY <1>1, <1>2, GoType DEF IInv, Places
<1>4. Moves(k)
  BY <1>1, <1>3 DEF Moves, Over
<1>5. TypeOK'
  BY <1>1, <1>2, <1>3 DEF IInv, TypeOK, Begin, queue, bounds, Own, Places
<1>6. ResultOnce'
  BY DEF IInv, ResultOnce, Begin
<1>7. Story'
  BY <1>2, <1>4, TurnMoves DEF Begin, queue, Own, Remembers, HeardOf
<1> QED
  BY <1>5, <1>6, <1>7, Together

\* The runtime starts.
LEMMA StartStep ==
    ASSUME IInv, NEW k \in Kinds, Start(k)
    PROVE  IInv'
<1> DEFINE j == turn[k].job
<1>1. turn[k] # NoTurn /\ j \in Jobs
  BY TurnFacts, Names DEF IInv, Start
<1>2. /\ Own(j) /\ Go(k, j, "running") /\ run' = j
  BY DEF Start
<1>3. /\ turn' \in [Kinds -> [job : Jobs \cup {NoJob}, at : Places]]
      /\ \A o \in Kinds : turn'[o].job = NoJob <=> turn'[o].at = "off"
      /\ turn'[k] = [job |-> j, at |-> "running"]
      /\ \A o \in Kinds : o # k => turn'[o] = turn[o]
  BY <1>1, <1>2, GoType DEF IInv, Places
<1>4. Moves(k)
  BY <1>1, <1>3 DEF Moves, Over
<1>5. TypeOK'
  BY <1>1, <1>2, <1>3 DEF IInv, TypeOK, Start, queue, bounds, Own, Places
<1>6. ResultOnce'
  BY DEF IInv, ResultOnce, Start
<1>7. Story'
  BY <1>2, <1>4, TurnMoves DEF Start, queue, Own, Remembers, HeardOf
<1> QED
  BY <1>5, <1>6, <1>7, Together

\* A turn gets its result.
LEMMA ResultStep ==
    ASSUME IInv, NEW k \in Kinds, NEW at \in {"ending", "failing"},
           turn[k] # NoTurn, Go(k, turn[k].job, at),
           \/ Commit(turn[k].job)
           \/ results[turn[k].job] > 0 /\ UNCHANGED results,
           run' = turn[k].job, envelope' = turn[k].job,
           errors' \in Nat, faults' \in Nat,
           UNCHANGED <<up, card, open, queue, stops, detached, offered, unheard>>
    PROVE  IInv'
<1> DEFINE j == turn[k].job
<1>1. j \in Jobs
  BY TurnFacts DEF IInv
<1>2. at \in Places \ {"off"}
  BY DEF Places
<1>3. /\ turn' \in [Kinds -> [job : Jobs \cup {NoJob}, at : Places]]
      /\ \A o \in Kinds : turn'[o].job = NoJob <=> turn'[o].at = "off"
      /\ turn'[k] = [job |-> j, at |-> at]
      /\ \A o \in Kinds : o # k => turn'[o] = turn[o]
  BY <1>1, <1>2, GoType DEF IInv
<1>4. /\ results' \in [Jobs -> Nat] /\ ResultOnce' /\ results'[j] > 0
      /\ \A i \in Jobs : results[i] > 0 => results'[i] > 0
  <2>1. CASE Commit(j)
    BY <1>1, <2>1, CommitEffect DEF IInv
  <2>2. CASE results[j] > 0 /\ UNCHANGED results
    BY <2>2 DEF IInv, TypeOK, ResultOnce
  <2> QED
    BY <2>1, <2>2
<1>5. Kept
  BY <1>1, <1>4 DEF Kept, IInv, TypeOK
<1>6. HeardOf(turn[k].job)'
  BY <1>3, <1>4 DEF HeardOf
<1>7. Moves(k)
  BY <1>1, <1>3, <1>6 DEF Moves
<1>8. TypeOK'
  BY <1>1, <1>3, <1>4 DEF IInv, TypeOK, queue, Places
<1>9. Story'
  BY <1>5, <1>7, KeptRemembers, TurnMoves
<1> QED
  BY <1>4, <1>8, <1>9, Together

\* The worker is blocked, or its run ends.
LEMMA EndStep ==
    ASSUME IInv, NEW k \in Kinds, Block(k) \/ Finish(k) \/ FinishRefused(k)
    PROVE  IInv'
<1> DEFINE j == turn[k].job
<1>1. turn[k] # NoTurn /\ j \in Jobs
  BY TurnFacts, Names DEF IInv, Block, Finish, FinishRefused
<1>2. errors \in Nat /\ faults \in Nat /\ results[j] \in Nat
  BY <1>1 DEF IInv, TypeOK
<1>3. CASE Block(k)
  <2>1. \/ Commit(j)
        \/ results[j] > 0 /\ UNCHANGED results
    BY <1>2, <1>3 DEF Block
  <2>2. /\ Go(k, j, "ending") /\ run' = j /\ envelope' = j
        /\ errors' \in Nat /\ faults' \in Nat
        /\ UNCHANGED <<up, card, open, queue, stops, detached, offered,
                       unheard>>
    BY <1>2, <1>3 DEF Block, bounds
  <2> QED
    BY ONLY IInv, k \in Kinds, <1>1, <2>1, <2>2, ResultStep
<1>4. CASE Finish(k)
  BY <1>1, <1>2, <1>4, ResultStep DEF Finish, bounds
<1>5. CASE FinishRefused(k)
  BY <1>1, <1>2, <1>5, ResultStep DEF FinishRefused
<1> QED
  BY <1>3, <1>4, <1>5

\* A turn whose fail_task runs, inline or shielded, on its way or at its end.
LEMMA FailingStep ==
    ASSUME IInv, NEW k \in Kinds, turn[k] # NoTurn, Kept,
           turn[k].job \in Messages /\ up =>
               turn[k].at \in Over \/ HeardOf(turn[k].job)',
           NEW at \in {"failing", "shielded", "done"},
           turn' \in [Kinds -> [job : Jobs \cup {NoJob}, at : Places]],
           \A o \in Kinds : turn'[o].job = NoJob <=> turn'[o].at = "off",
           turn'[k].job = turn[k].job, turn'[k].at = at,
           \A o \in Kinds : o # k => turn'[o] = turn[o],
           stops' \in [Calls -> {"idle", "waiting", "waking", "failing", "done"}],
           detached' \in Nat, errors' \in Nat, faults' \in Nat,
           envelope' \in {envelope, NoJob}, open' \in BOOLEAN,
           UNCHANGED <<up, card, queue, offered>>
    PROVE  IInv'
<1>1. Moves(k)
  BY DEF Moves
<1>2. Story'
  BY <1>1, KeptRemembers, TurnMoves
<1>3. TypeOK'
  BY DEF IInv, TypeOK, Kept, queue, Places
<1> QED
  BY <1>2, <1>3, Together DEF Kept

\* Something goes wrong while the run is prepared.
LEMMA BreakStep ==
    ASSUME IInv, NEW k \in Kinds, Break(k)
    PROVE  IInv'
<1>1. turn[k] # NoTurn
  BY TurnFacts, Names DEF IInv, Break
<1>2. /\ Kept
      /\ turn' \in [Kinds -> [job : Jobs \cup {NoJob}, at : Places]]
      /\ \A o \in Kinds : turn'[o].job = NoJob <=> turn'[o].at = "off"
      /\ turn'[k].job = turn[k].job /\ turn'[k].at \in {"done", "failing"}
      /\ \A o \in Kinds : o # k => turn'[o] = turn[o]
      /\ HeardOf(turn[k].job)'
  BY <1>1, TurnFailsEffect DEF Break, IInv
<1>3. /\ stops' \in [Calls -> {"idle", "waiting", "waking", "failing", "done"}]
      /\ detached' \in Nat /\ errors' \in Nat /\ faults' \in Nat
      /\ envelope' \in {envelope, NoJob} /\ open' \in BOOLEAN
      /\ UNCHANGED <<up, card, queue, offered>>
  BY DEF Break, IInv, TypeOK
<1> QED
  BY <1>1, <1>2, <1>3, FailingStep

\* The store refuses what fail_task commits.
LEMMA UnheardStep ==
    ASSUME IInv, NEW k \in Kinds, TurnFailsUnheard(k), turn[k] # NoTurn,
           stops' \in [Calls -> {"idle", "waiting", "waking", "failing", "done"}],
           detached' \in Nat, errors' \in Nat, faults' \in Nat,
           UNCHANGED <<up, card, queue, offered>>
    PROVE  IInv'
<1> DEFINE j == turn[k].job
<1>1. j \in Jobs
  BY TurnFacts DEF IInv
<1>2. /\ turn' \in [Kinds -> [job : Jobs \cup {NoJob}, at : Places]]
      /\ \A o \in Kinds : turn'[o].job = NoJob <=> turn'[o].at = "off"
      /\ turn'[k] = [job |-> j, at |-> "done"]
      /\ \A o \in Kinds : o # k => turn'[o] = turn[o]
  BY <1>1, GoType DEF IInv, Places, TurnFailsUnheard
<1>3. Kept
  BY <1>1 DEF Kept, IInv, TypeOK, ResultOnce, TurnFailsUnheard
<1>4. HeardOf(turn[k].job)'
  BY <1>2 DEF HeardOf, TurnFailsUnheard
<1>5. envelope' \in {envelope, NoJob} /\ open' \in BOOLEAN
  BY DEF TurnFailsUnheard, Closed, IInv, TypeOK
<1>6. turn'[k].job = turn[k].job /\ turn'[k].at = "done"
  BY <1>2
<1> QED
  BY <1>2, <1>3, <1>4, <1>5, <1>6, FailingStep

\* The same while the run is prepared, and in a stop.
LEMMA RefusedStep ==
    ASSUME IInv, \/ \E k \in Kinds : BreakTwice(k)
                 \/ \E c \in Calls : StopRefused(c)
    PROVE  IInv'
<1>1. ASSUME NEW k \in Kinds, BreakTwice(k) PROVE IInv'
  <2>1. turn[k] # NoTurn
    BY <1>1, TurnFacts, Names DEF IInv, BreakTwice
  <2>2. /\ stops' \in
               [Calls -> {"idle", "waiting", "waking", "failing", "done"}]
        /\ detached' \in Nat /\ errors' \in Nat /\ faults' \in Nat
        /\ UNCHANGED <<up, card, queue, offered>>
        /\ TurnFailsUnheard(k)
    BY <1>1 DEF BreakTwice, IInv, TypeOK, TurnFailsUnheard
  <2> QED
    BY <2>1, <2>2, UnheardStep
<1>2. ASSUME NEW c \in Calls, StopRefused(c) PROVE IInv'
  <2>1. Current \in Kinds /\ turn[Current] # NoTurn
    BY <1>2, TurnFacts, Names DEF IInv, StopRefused, Current
  <2>2. /\ stops' \in
               [Calls -> {"idle", "waiting", "waking", "failing", "done"}]
        /\ detached' \in Nat /\ errors' \in Nat /\ faults' \in Nat
        /\ UNCHANGED <<up, card, queue, offered>>
        /\ TurnFailsUnheard(Current)
    BY <1>2 DEF StopRefused, IInv, TypeOK, TurnFailsUnheard
  <2> QED
    BY <2>1, <2>2, UnheardStep
<1> QED
  BY <1>1, <1>2

\* A result is projected and the envelope closed.
LEMMA SettleStep ==
    ASSUME IInv, NEW k \in Kinds, Settle(k)
    PROVE  IInv'
<1> DEFINE j == turn[k].job
<1>1. turn[k] # NoTurn /\ j \in Jobs
  BY TurnFacts, Names DEF IInv, Settle
<1>2. /\ turn' \in [Kinds -> [job : Jobs \cup {NoJob}, at : Places]]
      /\ \A o \in Kinds : turn'[o].job = NoJob <=> turn'[o].at = "off"
      /\ turn'[k] = [job |-> j, at |-> "done"]
      /\ \A o \in Kinds : o # k => turn'[o] = turn[o]
  BY <1>1, GoType DEF IInv, Places, Settle
<1>3. Moves(k)
  BY <1>1, <1>2 DEF Moves, Over, Settle
<1>4. TypeOK'
  BY <1>2 DEF IInv, TypeOK, Settle, Closed, queue, bounds, Places
<1>5. ResultOnce'
  BY DEF IInv, ResultOnce, Settle
<1>6. Story'
  BY <1>3, TurnMoves DEF Settle, Closed, queue, Remembers, HeardOf
<1> QED
  BY <1>4, <1>5, <1>6, Together

-----------------------------------------------------------------------------
(* Steps in which a turn is cut off, begins or is over                     *)

\* The user stops the worker.
LEMMA StopStep ==
    ASSUME IInv, NEW c \in Calls, Stop(c)
    PROVE  IInv'
<1>1. PICK k \in Kinds : k = Current /\ turn[k] # NoTurn
  BY TurnFacts, Names DEF IInv, Stop, Cancellable, Current
<1>j. PICK j \in Jobs : j = turn[k].job
  BY <1>1, TurnFacts DEF IInv
<1>2. /\ stops' \in [Calls -> {"idle", "waiting", "waking", "failing", "done"}]
      /\ errors' \in Nat /\ faults' \in Nat
      /\ envelope' \in {envelope, NoJob} /\ open' \in BOOLEAN
      /\ UNCHANGED <<up, card, queue, offered>>
      /\ up /\ Cut(k)
  BY <1>1 DEF Stop, IInv, TypeOK, bounds
<1>3. ASSUME Go(k, j, "done"), Kept, detached' \in Nat,
             j \in Messages => turn[k].at \in Over \/ HeardOf(j)'
      PROVE  IInv'
  <2>1. /\ turn' \in [Kinds -> [job : Jobs \cup {NoJob}, at : Places]]
        /\ \A o \in Kinds : turn'[o].job = NoJob <=> turn'[o].at = "off"
        /\ turn'[k] = [job |-> j, at |-> "done"]
        /\ \A o \in Kinds : o # k => turn'[o] = turn[o]
    BY <1>1, <1>j, <1>3, GoType DEF IInv, Places
  <2>2. turn'[k].job = j /\ turn'[k].at = "done"
    BY <2>1
  <2>3. j \in Messages /\ up => turn[k].at \in Over \/ HeardOf(turn[k].job)'
    BY <1>3, <2>2 DEF HeardOf
  <2> QED
    BY <1>1, <1>j, <1>2, <1>3, <2>1, <2>2, <2>3, FailingStep
<1>4. CASE turn[k].at \in {"new", "respawned"}
  <2>1. /\ Go(k, j, "done")
        /\ unheard' = IF envelope # j THEN unheard \cup {j} ELSE unheard
        /\ UNCHANGED <<run, results, detached>>
    BY <1>1, <1>j, <1>2, <1>4 DEF Cut
  <2>2. Kept /\ detached' \in Nat
    BY <1>1, <1>j, <2>1 DEF Kept, IInv, TypeOK, ResultOnce
  <2>3. ASSUME j \in Messages PROVE HeardOf(j)'
    <3>1. CASE k = "direct"
      <4>1. envelope # j
        BY <1>1, <1>j, <1>4, <3>1, Names DEF IInv, EnvelopeOwned
      <4>2. j \in unheard'
        BY <2>1, <4>1
      <4>3. turn'[k].job = j
        BY <1>1, <1>j, <2>1 DEF Go, IInv, TypeOK
      <4> QED
        BY <4>2, <4>3 DEF HeardOf
    <3>2. CASE k = "worker"
      <4>1. HeardOf(j)
        BY <1>j, <1>2, <2>3, <3>2 DEF IInv, MessagesHeardOf
      <4>2. turn'[k].job = j
        BY <1>1, <1>j, <2>1 DEF Go, IInv, TypeOK
      <4> QED
        BY <2>1, <4>1, <4>2 DEF HeardOf
    <3> QED
      BY <1>1, <3>1, <3>2 DEF Kinds
  <2> QED
    BY <1>3, <2>1, <2>2, <2>3
<1>5. CASE turn[k].at = "running" /\ \A d \in Calls : stops[d] # "waiting"
  <2>1. UNCHANGED <<turn, run, results, unheard, detached>>
    BY <1>1, <1>j, <1>2, <1>5 DEF Cut
  <2>2. TypeOK' /\ ResultOnce'
    BY <1>2, <2>1 DEF IInv, TypeOK, ResultOnce, queue
  <2>3. UNCHANGED <<turn, queue, up, envelope, offered>>
    BY <1>2, <2>1 DEF Stop
  <2>4. Remembers
    BY <2>1 DEF Remembers, HeardOf
  <2>5. Story'
    BY <2>3, <2>4, TurnsStand
  <2> QED
    BY <2>2, <2>5, Together
<1>6. CASE /\ turn[k].at \in {"preparing", "running", "ending"}
           /\ ~(turn[k].at = "running" /\ \A d \in Calls : stops[d] # "waiting")
  <2>1. TurnFails(k, "shielded") /\ detached' \in Nat
    BY <1>1, <1>j, <1>2, <1>6 DEF Cut, IInv, TypeOK
  <2>2. /\ Kept
        /\ turn' \in [Kinds -> [job : Jobs \cup {NoJob}, at : Places]]
        /\ \A o \in Kinds : turn'[o].job = NoJob <=> turn'[o].at = "off"
        /\ turn'[k].job = turn[k].job /\ turn'[k].at \in {"done", "shielded"}
        /\ \A o \in Kinds : o # k => turn'[o] = turn[o]
        /\ HeardOf(turn[k].job)'
    BY <1>1, <1>j, <2>1, TurnFailsEffect DEF IInv
  <2> QED
    BY <1>1, <1>j, <1>2, <2>1, <2>2, FailingStep
<1>7. CASE turn[k].at \in {"failing", "shielded"}
  <2>1. Go(k, j, "done") /\ detached' \in {detached, detached + 1}
        /\ UNCHANGED <<run, results, unheard>>
    BY <1>1, <1>j, <1>2, <1>7 DEF Cut
  <2>2. Kept /\ detached' \in Nat
    BY <2>1 DEF Kept, IInv, TypeOK, ResultOnce
  <2> QED
    BY <1>3, <1>7, <2>1, <2>2 DEF Over
<1> QED
  BY <1>1, <1>j, <1>2, <1>4, <1>5, <1>6, <1>7, TurnFacts
     DEF IInv, Places, Stop, Cancellable

\* A turn that begins while there is no other one is the only one.
LEMMA NobodyWorks ==
    ASSUME TypeOK, NEW k \in Kinds, NEW j \in Jobs,
           NEW at \in {"new", "respawned"},
           \A o \in Kinds : o # k => turn[o] = NoTurn, Go(k, j, at)
    PROVE  /\ turn' \in [Kinds -> [job : Jobs \cup {NoJob}, at : Places]]
           /\ \A o \in Kinds : turn'[o].job = NoJob <=> turn'[o].at = "off"
           /\ turn'[k] = [job |-> j, at |-> at]
           /\ \A o \in Kinds : o # k => turn'[o] = NoTurn
           /\ OneTurnAtATime'
<1>1. at \in Places \ {"off"}
  BY DEF Places
<1>2. /\ turn' \in [Kinds -> [job : Jobs \cup {NoJob}, at : Places]]
      /\ \A o \in Kinds : turn'[o].job = NoJob <=> turn'[o].at = "off"
      /\ turn'[k] = [job |-> j, at |-> at]
      /\ \A o \in Kinds : o # k => turn'[o] = turn[o]
  BY <1>1, GoType
<1>3. OneTurnAtATime'
  <2>1. PICK o \in Kinds : o # k
    BY DEF Kinds
  <2>2. turn'[o] = NoTurn
    BY <1>2, <2>1
  <2> QED
    BY <2>2 DEF OneTurnAtATime
<1> QED
  BY <1>2, <1>3

\* A worker that is not busy has no turn and no envelope.
LEMMA FreeWorker ==
    ASSUME ~Busy
    PROVE  \A k \in Kinds : turn[k] = NoTurn /\ envelope = NoJob
  BY DEF Busy, Kinds

\* A card is approved.
LEMMA ApproveStep ==
    ASSUME IInv, Approve
    PROVE  IInv'
<1>1. card \in Handoffs /\ card \in Jobs /\ card \notin Messages
  BY Names, WorkforceAssumption DEF IInv, TypeOK, Approve
<1>2. \A k \in Kinds : turn[k] = NoTurn /\ envelope = NoJob
  BY FreeWorker DEF Approve
<1>3. /\ turn' \in [Kinds -> [job : Jobs \cup {NoJob}, at : Places]]
      /\ \A o \in Kinds : turn'[o].job = NoJob <=> turn'[o].at = "off"
      /\ turn'["worker"] = [job |-> card, at |-> "new"]
      /\ \A o \in Kinds : o # "worker" => turn'[o] = NoTurn
      /\ OneTurnAtATime'
  <2>1. Go("worker", card, "new")
    BY DEF Approve
  <2> QED
    BY <1>1, <1>2, <2>1, Names, NobodyWorks DEF IInv
<1>4. TypeOK'
  BY <1>1, <1>3 DEF Approve, Own, IInv, TypeOK, Places, queue, bounds
<1>5. ResultOnce'
  BY DEF Approve, IInv, ResultOnce
<1>6. envelope' = card
  BY DEF Approve, Own
<1>7. turn'["direct"] = NoTurn /\ turn'["direct"].at = "off"
  BY <1>3, Names
<1>8. EnvelopeOwned'
  BY <1>3, <1>6, <1>7, Names DEF EnvelopeOwned, Kinds
<1>9. MessagesHeardOf'
  BY <1>1, <1>3, <1>6, <1>7, Names DEF MessagesHeardOf, Kinds, Over
<1>10. NoMessageLost'
  <2>1. \A m \in Messages, k \in Kinds : turn[k].job # m
    BY <1>2, Names
  <2> QED
    BY <2>1 DEF IInv, NoMessageLost, Approve, queue
<1> QED
  BY <1>3, <1>4, <1>5, <1>8, <1>9, <1>10 DEF IInv

\* The envelope nobody runs is run.
LEMMA SpawnStep ==
    ASSUME IInv, Spawn
    PROVE  IInv'
<1>1. envelope \in Jobs /\ up
  BY DEF IInv, TypeOK, Spawn
<1>2. \A k \in Kinds : turn[k] = NoTurn
  BY DEF Spawn
<1>3. /\ turn' \in [Kinds -> [job : Jobs \cup {NoJob}, at : Places]]
      /\ \A o \in Kinds : turn'[o].job = NoJob <=> turn'[o].at = "off"
      /\ turn'["worker"] = [job |-> envelope, at |-> "new"]
      /\ \A o \in Kinds : o # "worker" => turn'[o] = NoTurn
      /\ OneTurnAtATime'
  <2>1. Go("worker", envelope, "new")
    BY DEF Spawn
  <2> QED
    BY <1>1, <1>2, <2>1, Names, NobodyWorks DEF IInv
<1>4. TypeOK'
  BY <1>3 DEF Spawn, IInv, TypeOK, Places, tables, queue, bounds
<1>5. ResultOnce'
  BY DEF Spawn, IInv, ResultOnce
<1>6. turn'["direct"] = NoTurn /\ turn'["direct"].at = "off"
  BY <1>3, Names
<1>7. UNCHANGED <<up, envelope, results, unheard, offered, queue>>
  BY DEF Spawn, tables
<1>8. EnvelopeOwned'
  BY <1>3, <1>6, <1>7, Names DEF EnvelopeOwned, Kinds
<1>9. MessagesHeardOf'
  <2>1. \A m \in Messages, k \in Kinds : turn[k].job # m
    BY <1>2, Names
  <2>2. envelope \in Messages => results[envelope] > 0 \/ envelope \in unheard
    BY <1>1, <2>1 DEF IInv, MessagesHeardOf, HeardOf
  <2>3. turn'["worker"].job = envelope /\ turn'["worker"].at = "new"
    BY <1>3
  <2>4. turn'["direct"].job \notin Messages
    BY <1>6, Names
  <2>5. envelope \in Messages => results'[envelope] > 0 \/ envelope \in unheard'
    BY <1>7, <2>2
  <2> QED
    BY <1>7, <2>3, <2>4, <2>5, Names DEF MessagesHeardOf, HeardOf, Kinds, Over
<1>10. NoMessageLost'
  <2>1. \A m \in Messages, k \in Kinds : turn[k].job # m
    BY <1>2, Names
  <2> QED
    BY <1>7, <2>1 DEF IInv, NoMessageLost, queue
<1> QED
  BY <1>3, <1>4, <1>5, <1>8, <1>9, <1>10 DEF IInv

\* A message is queued or starts a turn.
LEMMA SubmitStep ==
    ASSUME IInv, NEW m \in Messages, Submit(m),
           offered \subseteq offered', offered' \subseteq offered \cup {m},
           flushing \subseteq flushing' \cup {m}, flushing' \subseteq Messages,
           UNCHANGED <<up, card, envelope, run, stops, detached, results,
                       unheard, bounds>>
    PROVE  IInv'
<1>1. ResultOnce'
  BY DEF IInv, ResultOnce
<1>2. offered' \subseteq Jobs
  BY Names DEF IInv, TypeOK
<1>3. CASE Busy
  <2>1. /\ pending' = Append(pending, m) /\ UNCHANGED <<open, turn>>
    BY <1>3 DEF Submit
  <2>2. pending' \in Seq(Messages)
        /\ ToSet(pending') = ToSet(pending) \cup {m}
    BY <2>1, AppendSet DEF IInv, TypeOK
  <2>3. TypeOK'
    BY <1>2, <2>1, <2>2 DEF IInv, TypeOK, bounds
  <2>4. OneTurnAtATime' /\ EnvelopeOwned'
    BY <2>1 DEF IInv, OneTurnAtATime, EnvelopeOwned
  <2>5. MessagesHeardOf'
    BY <2>1 DEF IInv, MessagesHeardOf, HeardOf
  <2>6. NoMessageLost'
    BY <2>1, <2>2 DEF IInv, NoMessageLost
  <2> QED
    BY <1>1, <2>3, <2>4, <2>5, <2>6 DEF IInv
<1>4. CASE ~Busy
  <2>1. open' = TRUE /\ Go("direct", m, "new") /\ pending' = pending
    BY <1>4 DEF Submit
  <2>2. \A k \in Kinds : turn[k] = NoTurn /\ envelope = NoJob
    BY <1>4, FreeWorker
  <2>3. /\ turn' \in [Kinds -> [job : Jobs \cup {NoJob}, at : Places]]
        /\ \A o \in Kinds : turn'[o].job = NoJob <=> turn'[o].at = "off"
        /\ turn'["direct"] = [job |-> m, at |-> "new"]
        /\ \A o \in Kinds : o # "direct" => turn'[o] = NoTurn
        /\ OneTurnAtATime'
    BY <2>1, <2>2, Names, NobodyWorks DEF IInv
  <2>4. TypeOK'
    BY <1>2, <2>1, <2>3 DEF IInv, TypeOK, Places, bounds
  <2>5. envelope' = NoJob
    BY <2>2, Names
  <2>6. turn'["worker"] = NoTurn /\ turn'["worker"].job = NoJob
    BY <2>3, Names
  <2>7. EnvelopeOwned'
    BY <2>5 DEF EnvelopeOwned
  <2>8. MessagesHeardOf'
    BY <2>3, <2>5, <2>6, Names DEF MessagesHeardOf, Kinds, Over
  <2>9. NoMessageLost'
    <3>1. \A n \in Messages, k \in Kinds : turn[k].job # n
      BY <2>2, Names
    <3>2. turn'["direct"].job = m /\ "direct" \in Kinds
      BY <2>3, Names
    <3> QED
      BY <2>1, <3>1, <3>2 DEF IInv, NoMessageLost
  <2> QED
    BY <1>1, <2>3, <2>4, <2>7, <2>8, <2>9 DEF IInv
<1> QED
  BY <1>3, <1>4

\* The user sends a message.
LEMMA SayStep ==
    ASSUME IInv, NEW m \in Messages, Say(m)
    PROVE  IInv'
  BY SubmitStep DEF Say, Fresh, IInv, TypeOK, bounds

\* A message taken from the queue is submitted again.
LEMMA FlushedStep ==
    ASSUME IInv, NEW m \in Messages, Flushed(m)
    PROVE  IInv'
<1>1. CASE up
  BY <1>1, SubmitStep DEF Flushed, IInv, TypeOK, bounds
<1>2. CASE ~up
  <2>1. UNCHANGED <<up, card, envelope, run, stops, detached, results, offered,
                    unheard, bounds, open, turn, pending>>
        /\ flushing' \subseteq flushing
    BY <1>2 DEF Flushed
  <2>2. TypeOK'
    BY <2>1 DEF IInv, TypeOK, bounds
  <2>3. ResultOnce' /\ OneTurnAtATime' /\ EnvelopeOwned'
    BY <2>1 DEF IInv, ResultOnce, OneTurnAtATime, EnvelopeOwned
  <2>4. MessagesHeardOf' /\ NoMessageLost'
    BY <1>2, <2>1 DEF MessagesHeardOf, NoMessageLost
  <2> QED
    BY <2>2, <2>3, <2>4 DEF IInv
<1> QED
  BY <1>1, <1>2

\* A turn is over: the next message leaves the queue, or the envelope is run.
LEMMA FinishedStep ==
    ASSUME IInv, NEW k \in Kinds, Finished(k)
    PROVE  IInv'
<1>1. turn[k] # NoTurn /\ turn[k].at = "done" /\ turn[k].job \in Jobs
  BY TurnFacts, Names DEF IInv, Finished
<1>2. \A o \in Kinds : o # k => turn[o] = NoTurn
  BY <1>1 DEF IInv, OneTurnAtATime, Kinds
<1>3. \/ /\ up /\ envelope # NoJob
         /\ Go(k, envelope, "respawned") /\ k = "worker"
      \/ turn' = [turn EXCEPT ![k] = NoTurn]
  BY <1>1 DEF Finished
<1>4. /\ turn' \in [Kinds -> [job : Jobs \cup {NoJob}, at : Places]]
      /\ \A o \in Kinds : turn'[o].job = NoJob <=> turn'[o].at = "off"
      /\ \A o \in Kinds : o # k => turn'[o] = NoTurn
      /\ OneTurnAtATime'
      /\ \/ /\ up /\ k = "worker"
            /\ envelope # NoJob /\ turn'[k] = [job |-> envelope, at |-> "respawned"]
         \/ turn'[k] = NoTurn
  <2>1. CASE up /\ envelope # NoJob /\ Go(k, envelope, "respawned")
             /\ k = "worker"
    <3>1. envelope \in Jobs
      BY <2>1 DEF IInv, TypeOK
    <3> QED
      BY <1>2, <2>1, <3>1, NobodyWorks DEF IInv
  <2>2. CASE turn' = [turn EXCEPT ![k] = NoTurn]
    <3>1. /\ turn \in [Kinds -> [job : Jobs \cup {NoJob}, at : Places]]
          /\ \A o \in Kinds : turn[o].job = NoJob <=> turn[o].at = "off"
      BY DEF IInv, TypeOK, Places
    <3>2. NoTurn \in [job : Jobs \cup {NoJob}, at : Places]
      BY DEF NoTurn, Places
    <3>3. /\ turn' \in [Kinds -> [job : Jobs \cup {NoJob}, at : Places]]
          /\ turn'[k] = NoTurn
          /\ \A o \in Kinds : o # k => turn'[o] = turn[o]
      BY <2>2, <3>1, <3>2
    <3>4. \A o \in Kinds : turn'[o].job = NoJob <=> turn'[o].at = "off"
      BY <3>1, <3>3, Names
    <3> QED
      BY <1>2, <3>3, <3>4 DEF OneTurnAtATime
  <2> QED
    BY <1>3, <2>1, <2>2
<1>5. /\ pending' \in Seq(Messages) /\ flushing' \subseteq Messages
      /\ ToSet(pending') \cup flushing' = ToSet(pending) \cup flushing
  <2>1. CASE /\ pending # <<>> /\ pending' = Tail(pending)
             /\ flushing' = flushing \cup {Head(pending)}
    BY <2>1, TailSet DEF IInv, TypeOK
  <2>2. CASE UNCHANGED queue
    BY <2>2 DEF IInv, TypeOK, queue
  <2> QED
    BY <2>1, <2>2 DEF Finished
<1>6. UNCHANGED <<up, card, tables, detached, results, offered, unheard,
                  bounds>>
  BY DEF Finished
<1>7. TypeOK'
  <2>1. stops' \in [Calls -> {"idle", "waiting", "waking", "failing", "done"}]
    BY DEF IInv, TypeOK, Finished
  <2> QED
    BY <1>4, <1>5, <1>6, <2>1 DEF IInv, TypeOK, Places, tables, bounds
<1>8. ResultOnce'
  BY <1>6 DEF IInv, ResultOnce
<1>9. UNCHANGED <<up, envelope, results, unheard, offered>>
  BY <1>6 DEF tables
<1>10. EnvelopeOwned'
  BY <1>4, <1>9, Names DEF EnvelopeOwned, Kinds
<1>11. up /\ turn[k].job \in Messages =>
           results[turn[k].job] > 0 \/ turn[k].job \in unheard
  BY <1>1 DEF IInv, MessagesHeardOf, HeardOf, Over
<1>12. \A o \in Kinds : turn'[o].at \notin Over
  BY <1>4, Names DEF Over
<1>13. up /\ envelope \in Messages =>
           results'[envelope'] > 0 \/ envelope' \in unheard'
  <2>1. \A o \in Kinds : o # k => turn[o].job # envelope \/ envelope = NoJob
    BY <1>2, Names
  <2> QED
    BY <1>9, <1>11, <2>1, Names DEF IInv, MessagesHeardOf, HeardOf
<1>14. MessagesHeardOf'
  <2> SUFFICES ASSUME up PROVE MessagesHeardOf'
    BY <1>9 DEF MessagesHeardOf
  <2>1. turn'["worker"].job \in Messages =>
            turn'["worker"].job = envelope' /\ envelope \in Messages
    BY <1>4, <1>9, Names
  <2>2. turn'["worker"].job \in Messages => HeardOf(turn["worker"].job)'
    BY <1>13, <2>1 DEF HeardOf
  <2>3. envelope' \in Messages => HeardOf(envelope)'
    BY <1>9, <1>13 DEF HeardOf
  <2> QED
    BY <1>12, <2>2, <2>3 DEF MessagesHeardOf
<1>15. NoMessageLost'
  <2> SUFFICES ASSUME up, NEW m \in Messages \cap offered
               PROVE  \/ m \in ToSet(pending') \cup flushing' \cup unheard'
                      \/ \E o \in Kinds : turn'[o].job = m
                      \/ results'[m] > 0
    BY <1>9 DEF NoMessageLost
  <2>1. \/ m \in ToSet(pending) \cup flushing \cup unheard
        \/ \E o \in Kinds : turn[o].job = m
        \/ results[m] > 0
    BY DEF IInv, NoMessageLost
  <2>2. CASE \E o \in Kinds : turn[o].job = m
    BY <1>2, <1>9, <1>11, <2>2, Names
  <2>3. CASE m \in ToSet(pending) \cup flushing
    BY <1>5, <2>3
  <2>4. CASE m \in unheard \/ results[m] > 0
    BY <1>9, <2>4
  <2> QED
    BY <2>1, <2>2, <2>3, <2>4
<1> QED
  BY <1>4, <1>7, <1>8, <1>10, <1>14, <1>15 DEF IInv

\* The engine stops.
LEMMA StopEngineStep ==
    ASSUME IInv, StopEngine
    PROVE  IInv'
<1>1. /\ UNCHANGED <<tables, flushing, stops, results, offered, unheard,
                     bounds>>
      /\ up' = FALSE /\ card' = NoJob /\ pending' = <<>>
  BY DEF StopEngine
<1>2. Cardinality({k \in Kinds : turn[k].at = "shielded"}) \in Nat
  <2>1. Kinds = {"worker"} \cup {"direct"}
    BY DEF Kinds
  <2>2. IsFiniteSet({"worker"})
    BY FS_Singleton
  <2>3. IsFiniteSet(Kinds)
    BY <2>1, <2>2, FS_AddElement
  <2>4. {k \in Kinds : turn[k].at = "shielded"} \in SUBSET Kinds
    OBVIOUS
  <2> QED
    BY <2>3, <2>4, FS_Subset, FS_CardinalityType
<1>3. detached' \in Nat
  <2>1. detached \in Nat
    BY DEF IInv, TypeOK
  <2>2. detached' =
            detached + Cardinality({k \in Kinds : turn[k].at = "shielded"})
    BY DEF StopEngine
  <2> QED
    BY <1>2, <2>1, <2>2
<1>t. turn' = [k \in Kinds |-> IF turn[k].at \in {"off", "running"}
                                THEN turn[k]
                                ELSE [turn[k] EXCEPT !.at = "done"]]
  BY DEF StopEngine
<1>4. ASSUME NEW k \in Kinds
      PROVE  /\ turn'[k] \in [job : Jobs \cup {NoJob}, at : Places]
             /\ turn'[k].job = turn[k].job
             /\ turn[k] = NoTurn => turn'[k] = turn[k]
             /\ turn'[k].job = NoJob <=> turn'[k].at = "off"
             /\ turn'[k].at \notin {"new", "respawned"}
  <2>1. /\ turn[k] \in [job : Jobs \cup {NoJob}, at : Places]
        /\ turn[k].job = NoJob <=> turn[k].at = "off"
    BY DEF IInv, TypeOK, Places
  <2>2. CASE turn[k].at \in {"off", "running"}
    <3>1. turn'[k] = turn[k]
      BY ONLY k \in Kinds, <1>t, <2>2
    <3> QED
      BY <2>1, <2>2, <3>1
  <2>3. CASE turn[k].at \notin {"off", "running"}
    <3>1. turn'[k] = [job |-> turn[k].job, at |-> "done"]
      BY ONLY k \in Kinds, <1>t, <2>1, <2>3
    <3>2. turn[k] # NoTurn
      BY <2>3 DEF NoTurn
    <3> QED
      BY <2>1, <2>3, <3>1, <3>2 DEF Places
  <2> QED
    BY <2>2, <2>3
<1>5. turn' \in [Kinds -> [job : Jobs \cup {NoJob}, at : Places]]
  <2>2. \A k \in Kinds : turn'[k] = IF turn[k].at \in {"off", "running"}
                                     THEN turn[k]
                                     ELSE [turn[k] EXCEPT !.at = "done"]
    BY ONLY <1>t
  <2>3. turn' = [k \in Kinds |-> turn'[k]]
    BY ONLY <1>t, <2>2, Zenon
  <2> QED
    BY <1>4, <2>3
<1>u. UNCHANGED <<envelope, open, run, flushing, stops, results, offered,
                  unheard, errors, faults>>
  BY <1>1 DEF tables, bounds
<1>6. TypeOK'
  <2>1. /\ up' \in BOOLEAN /\ card' \in Handoffs \cup {NoJob}
    BY ONLY <1>1
  <2>p. pending' \in Seq(Messages)
    BY ONLY <1>1
  <2>2. \A k \in Kinds : turn'[k].job = NoJob <=> turn'[k].at = "off"
    BY <1>4
  <2>3. TypeOK
    BY DEF IInv
  <2>5. /\ open' \in BOOLEAN /\ {envelope', run'} \subseteq Jobs \cup {NoJob}
        /\ flushing' \subseteq Messages
        /\ stops' \in
               [Calls -> {"idle", "waiting", "waking", "failing", "done"}]
        /\ errors' \in Nat /\ faults' \in Nat /\ results' \in [Jobs -> Nat]
        /\ offered' \subseteq Jobs /\ unheard' \subseteq Jobs
    BY ONLY <1>u, <2>3 DEF TypeOK
  <2> QED
    BY ONLY <1>3, <1>5, <2>1, <2>p, <2>2, <2>5 DEF TypeOK, Places
<1>7. ResultOnce'
  BY <1>1 DEF IInv, ResultOnce
<1>8. \A k \in Kinds : turn[k] = NoTurn => turn'[k] = NoTurn
  BY <1>4
<1>9. OneTurnAtATime'
  BY <1>8 DEF IInv, OneTurnAtATime
<1>10. EnvelopeOwned'
  <2>1. \A k \in Kinds :
            turn'[k] # NoTurn => envelope = NoJob \/ envelope = turn[k].job
    BY <1>8 DEF IInv, EnvelopeOwned
  <2> QED
    BY <1>1, <1>4, <2>1, Names DEF EnvelopeOwned, tables
<1>11. MessagesHeardOf' /\ NoMessageLost'
  BY <1>1 DEF MessagesHeardOf, NoMessageLost
<1> QED
  BY <1>6, <1>7, <1>9, <1>10, <1>11 DEF IInv

-----------------------------------------------------------------------------
(* Theorems                                                                *)

\* Every step keeps the invariant.
LEMMA StepKeepsInvariant ==
    ASSUME IInv, [Next]_vars
    PROVE  IInv'
<1>1. CASE Next
  <2>1. CASE \E h \in Handoffs : Propose(h)
    BY <2>1, ProposeStep
  <2>2. CASE Approve \/ Dismiss \/ Spawn \/ StopEngine
    BY <2>2, ApproveStep, DismissStep, SpawnStep, StopEngineStep
  <2>3. CASE SettleDetached
    BY <2>3, AbandonStep
  <2>4. CASE \E m \in Messages : Say(m) \/ Flushed(m)
    BY <2>4, SayStep, FlushedStep
  <2>5. ASSUME NEW k \in Kinds, Turns(k) PROVE IInv'
    BY <2>5, BeginStep, StartStep, EndStep, BreakStep, RefusedStep, SettleStep,
       FinishedStep DEF Turns
  <2>6. ASSUME NEW c \in Calls, Stopping(c) PROVE IInv'
    BY <2>6, StopStep, RefusedStep, StopIdleStep, AbandonStep DEF Stopping
  <2> QED
    BY <1>1, <2>1, <2>2, <2>3, <2>4, <2>5, <2>6 DEF Next
<1>2. CASE UNCHANGED vars
  BY <1>2, StillStep
<1> QED
  BY <1>1, <1>2

\* The invariant holds in every reachable state of any worker.
THEOREM InvariantHolds == Spec => []IInv
  BY InitInvariant, StepKeepsInvariant, PTL DEF Spec

\* The tables of the engine keep their types.
THEOREM TypeCorrect == Spec => []TypeOK
<1>1. IInv => TypeOK
  BY DEF IInv
<1> QED
  BY <1>1, InvariantHolds, PTL

\* A worker never has two turns, whoever starts them.
THEOREM OneTurn == Spec => []OneTurnAtATime
<1>1. IInv => OneTurnAtATime
  BY DEF IInv
<1> QED
  BY <1>1, InvariantHolds, PTL

\* A job gets at most one result, however often its turn is stopped.
THEOREM OneResult == Spec => []ResultOnce
<1>1. IInv => ResultOnce
  BY DEF IInv
<1> QED
  BY <1>1, InvariantHolds, PTL

\* A message sent to a worker is never forgotten while the engine runs.
THEOREM MessagesKept == Spec => []NoMessageLost
<1>1. IInv => NoMessageLost
  BY DEF IInv
<1> QED
  BY <1>1, InvariantHolds, PTL

\* A step gives the envelope to another job only when nobody has it.
LEMMA StepOverwritesNothing ==
    ASSUME IInv, [Next]_vars
    PROVE  envelope # NoJob /\ envelope' # envelope => envelope' = NoJob
<1> SUFFICES ASSUME envelope # NoJob, envelope' # envelope
             PROVE  envelope' = NoJob
  OBVIOUS
<1>1. ASSUME NEW k \in Kinds, turn[k] # NoTurn, envelope' = turn[k].job
      PROVE  FALSE
    BY <1>1 DEF IInv, EnvelopeOwned
<1>2. CASE Approve
  BY <1>2, FreeWorker, Names DEF Approve
<1>3. CASE SettleDetached \/ \E c \in Calls : StopEnds(c)
  BY <1>3 DEF SettleDetached, StopEnds, Abandoned, Closed
<1>4. ASSUME NEW k \in Kinds, Turns(k) PROVE envelope' = NoJob
  <2>1. CASE turn[k] = NoTurn
    BY <1>4, <2>1, Names DEF Turns, Begin, Start, Block, Break, BreakTwice,
       Finish, FinishRefused, Settle, Finished, tables
  <2>2. CASE turn[k] # NoTurn /\ (Begin(k) \/ Start(k))
    BY <1>1, <2>2 DEF Begin, Start, Own
  <2>3. CASE turn[k] # NoTurn /\ (Block(k) \/ Finish(k) \/ FinishRefused(k))
    BY <1>1, <2>3 DEF Block, Finish, FinishRefused
  <2>4. CASE Break(k) \/ BreakTwice(k) \/ Settle(k) \/ Finished(k)
    BY <2>4 DEF Break, BreakTwice, TurnFailsUnheard, Settle, Finished, Closed,
       tables
  <2> QED
    BY <1>4, <2>1, <2>2, <2>3, <2>4 DEF Turns
<1>5. ASSUME NEW c \in Calls, Stopping(c) PROVE envelope' = NoJob
  BY <1>3, <1>5 DEF Stopping, Stop, StopRefused, StopIdle, TurnFailsUnheard,
     Closed
<1>6. CASE \E h \in Handoffs : Propose(h)
  BY <1>6 DEF Propose, tables
<1>7. CASE \E m \in Messages : Say(m) \/ Flushed(m)
  BY <1>7 DEF Say, Flushed
<1>8. CASE Dismiss \/ Spawn \/ StopEngine \/ UNCHANGED vars
  BY <1>8 DEF Dismiss, Spawn, StopEngine, vars, tables
<1> QED
  BY <1>2, <1>3, <1>4, <1>5, <1>6, <1>7, <1>8 DEF Next

\* An accepted task is never overwritten by another one.
THEOREM TasksNotOverwritten == Spec => NeverOverwritten
<1>1. IInv /\ [Next]_vars =>
          [envelope # NoJob /\ envelope' # envelope => envelope' = NoJob]_vars
  BY StepOverwritesNothing
<1> QED
  BY <1>1, InvariantHolds, PTL DEF Spec, NeverOverwritten
=============================================================================
