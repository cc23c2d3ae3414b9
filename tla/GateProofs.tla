----------------------------- MODULE GateProofs -----------------------------
(***************************************************************************)
(* Safety of the approval gate for any number of cards, feedbacks, stops,  *)
(* crashes and replaced engines.  The invariant ties the log to the cards: *)
(* an open card has no resolution, unless a replacement brought it back,   *)
(* and was last shown as it is; a card without a resolution is open; and a *)
(* flight that may still land carries the newest feedback.                 *)
(***************************************************************************)
EXTENDS Gate, FiniteSetTheorems, TLAPS

-----------------------------------------------------------------------------
(* Sequences                                                               *)

\* The elements of a sequence and of its tail.
LEMMA TailSet ==
    ASSUME NEW S, NEW s \in Seq(S), s # <<>>
    PROVE  /\ Tail(s) \in Seq(S) /\ Head(s) \in S
           /\ ToSet(s) = {Head(s)} \cup ToSet(Tail(s))
<1>1. /\ Tail(s) \in Seq(S)
      /\ Len(Tail(s)) = Len(s) - 1
      /\ \A i \in 1 .. Len(s) - 1 : Tail(s)[i] = s[i + 1]
      /\ Head(s) = s[1] /\ Head(s) \in S
      /\ Len(s) \in Nat \ {0}
  OBVIOUS
<1>2. DOMAIN Tail(s) = 1 .. Len(s) - 1 /\ DOMAIN s = 1 .. Len(s)
  BY <1>1
<1>3. ASSUME NEW x \in ToSet(s), x # Head(s) PROVE x \in ToSet(Tail(s))
  <2>1. PICK i \in 1 .. Len(s) : x = s[i]
    BY <1>2 DEF ToSet
  <2>2. i - 1 \in 1 .. Len(s) - 1 /\ (i - 1) + 1 = i
    BY <1>1, <1>3, <2>1
  <2> QED BY <1>1, <1>2, <2>1, <2>2 DEF ToSet
<1>4. ToSet(Tail(s)) \subseteq ToSet(s) /\ Head(s) \in ToSet(s)
  BY <1>1, <1>2 DEF ToSet
<1> QED BY <1>1, <1>3, <1>4

-----------------------------------------------------------------------------

CardAt(l, i, c) == l[i].what = "card" /\ l[i].card = c
ShownIn(l, c) == \E i \in DOMAIN l : l[i].card = c

\* Entry i is the last one that shows card c.
Newest(l, c, i) ==
    /\ i \in DOMAIN l /\ CardAt(l, i, c)
    /\ \A j \in DOMAIN l : CardAt(l, j, c) => j <= i

\* Every prefix of the log in which c was shown has a newest entry of c.
HasNewest ==
    \A n \in DOMAIN log : \A c \in Cards :
        (\E i \in 1 .. n : CardAt(log, i, c)) =>
            \E i \in 1 .. n : /\ CardAt(log, i, c)
                              /\ \A j \in 1 .. n : CardAt(log, j, c) => j <= i

LogInv == ResolvedOnce /\ NoGhostCard /\ FeedbackInOrder /\ HasNewest

\* A card that was not proposed has left no trace.
Fresh ==
    \A c \in Cards :
        /\ future[c] = "none" => /\ c \notin pending /\ ~ShownIn(log, c)
                                 /\ waiter[c] = "none" /\ body[c] = 0
                                 /\ taken[c].res = "none"
        /\ waiter[c] = "none" => future[c] = "none"

\* An open card has no resolution, was last shown as it is, and has somebody
\* waiting for its answer, or had until the stop cut it off.
OpenCards ==
    \A c \in pending :
        /\ c \in revived \/ ~ResolvedIn(log, c)
        /\ \E i \in DOMAIN log : Newest(log, c, i) /\ log[i].body = body[c]
        /\ waiter[c] \in {"emitting", "waiting", "restored", "late", "cut"}

\* The cards a replacement will bring back are as they were last shown.
Saved ==
    /\ engine \in {"up", "dead"} => saved = {}
    /\ \A c \in saved :
          \E i \in DOMAIN log : Newest(log, c, i) /\ log[i].body = body[c]

\* The card carries the newest instruction it was shown with, the user's last
\* feedback is as new, and a flight that may land carries that feedback.
Bodies ==
    /\ \A i \in DOMAIN log :
           log[i].what = "card" => log[i].body <= body[log[i].card]
    /\ \A c \in Cards : body[c] <= said[c]

Flying ==
    \A f \in flights :
        /\ f.gen <= gen[f.card]
        /\ f.gen = gen[f.card] => f.n = said[f.card]

\* What is over when the engine is not running; what a stop has to settle.
Phases ==
    /\ engine # "stopping" => closing = <<>>
    /\ \A c \in ToSet(closing) : future[c] = "cancelled"
    /\ engine \in {"dead", "stopped"} =>
          /\ pending = {} /\ flights = {}
          /\ \A c \in Cards : waiter[c] \in {"none", "gone", "cut"}
    /\ engine = "dead" =>
          \A c \in Cards : /\ taken[c].res = "none"
                           /\ waiter[c] # "cut"

\* A turn that got its decision is gone, with the instruction last shown.
Acted ==
    \A c \in Cards :
        /\ taken[c].res # "none" =>
               ResolvedIn(log, c) /\ (c \in pending => c \in revived)
        /\ c \notin revived /\ taken[c].res = "approved" /\ ShownIn(log, c) =>
               \E i \in DOMAIN log :
                   Newest(log, c, i) /\ log[i].body = taken[c].body

\* A card that is taken from a waiting turn was cancelled by the stop.
Voided ==
    \A c \in Cards :
        waiter[c] \in {"waiting", "emitting"} /\ c \notin pending =>
            future[c] = "cancelled" /\ ResolvedIn(log, c)

\* A card without a resolution is open, unless its turn was cut off.
Unended ==
    engine # "dead" =>
        \A c \in Cards : ShownIn(log, c) /\ ~ResolvedIn(log, c) =>
            c \in pending \/ waiter[c] = "cut"

\* Before the first stop or crash an answer goes its way undisturbed.
Undisturbed ==
    stops = 0 /\ crashes = 0 =>
        /\ engine = "up"
        /\ \A c \in Cards :
              /\ waiter[c] \notin {"restored", "late", "cut"}
              /\ accepted[c] # "none" => future[c] = accepted[c]
              /\ \A i \in DOMAIN log :
                    log[i].what = "resolved" /\ log[i].card = c =>
                        log[i].res = future[c] /\ Done(c)

IInv ==
    /\ TypeOK
    /\ LogInv
    /\ Fresh /\ OpenCards /\ Saved
    /\ Bodies /\ Flying
    /\ Phases /\ Acted /\ Voided /\ Unended
    /\ Undisturbed

-----------------------------------------------------------------------------
(* The log                                                                 *)

\* The entries of a log that grows at its end.
LEMMA LogGrows ==
    ASSUME NEW l \in Seq(Entry), NEW e \in Entry, NEW k, k = Append(l, e)
    PROVE  /\ k \in Seq(Entry)
           /\ Len(l) \in Nat /\ Len(k) = Len(l) + 1
           /\ DOMAIN l = 1 .. Len(l) /\ DOMAIN k = 1 .. Len(l) + 1
           /\ \A i \in DOMAIN l : k[i] = l[i] /\ i \in DOMAIN k /\ i <= Len(l)
           /\ k[Len(l) + 1] = e
           /\ \A i \in DOMAIN k : i \in DOMAIN l \/ i = Len(l) + 1
<1>1. /\ k \in Seq(Entry)
      /\ Len(k) = Len(l) + 1 /\ Len(l) \in Nat
      /\ \A i \in 1 .. Len(l) : k[i] = l[i]
      /\ k[Len(l) + 1] = e
  OBVIOUS
<1>2. DOMAIN l = 1 .. Len(l) /\ DOMAIN k = 1 .. Len(l) + 1
  BY <1>1
<1> QED BY <1>1, <1>2

\* The fields of an entry.
LEMMA EntryFields ==
    ASSUME TypeOK, NEW i \in DOMAIN log
    PROVE  /\ log[i] \in Entry
           /\ log[i].what \in {"card", "resolved"}
           /\ log[i].card \in Cards /\ log[i].body \in Nat
           /\ i \in Nat /\ i >= 1
<1>1. log[i] \in Entry /\ i \in Nat /\ i >= 1
  BY DEF TypeOK
<1> QED BY <1>1 DEF Entry

\* An entry for another card says nothing of card d.
LEMMA OtherCard ==
    ASSUME NEW l \in Seq(Entry), NEW e \in Entry, NEW k, k = Append(l, e),
           NEW d, e.card # d
    PROVE  /\ ShownIn(k, d) <=> ShownIn(l, d)
           /\ ResolvedIn(k, d) <=> ResolvedIn(l, d)
           /\ \A i \in DOMAIN l : Newest(l, d, i) => Newest(k, d, i)
<1>1. /\ \A i \in DOMAIN l : k[i] = l[i] /\ i \in DOMAIN k
      /\ k[Len(l) + 1] = e
      /\ \A i \in DOMAIN k : i \in DOMAIN l \/ i = Len(l) + 1
  BY LogGrows
<1>2. \A i \in DOMAIN k : k[i].card = d => i \in DOMAIN l /\ k[i] = l[i]
  BY <1>1
<1>3. ShownIn(k, d) <=> ShownIn(l, d)
  BY <1>1, <1>2 DEF ShownIn
<1>4. ResolvedIn(k, d) <=> ResolvedIn(l, d)
  BY <1>1, <1>2 DEF ResolvedIn
<1>5. \A i \in DOMAIN l : Newest(l, d, i) => Newest(k, d, i)
  BY <1>1, <1>2 DEF Newest, CardAt
<1> QED BY <1>3, <1>4, <1>5

\* A resolution of card c.
LEMMA ResolutionGrows ==
    ASSUME NEW l \in Seq(Entry), NEW c \in Cards, NEW r \in Resolutions,
           NEW k, k = Append(l, Resolved(c, r))
    PROVE  /\ Resolved(c, r) \in Entry /\ k \in Seq(Entry)
           /\ ShownIn(k, c) /\ ResolvedIn(k, c)
           /\ \A i \in DOMAIN l : Newest(l, c, i) => Newest(k, c, i)
<1>1. Resolved(c, r) \in Entry /\ Resolved(c, r).what = "resolved"
      /\ Resolved(c, r).card = c
  BY DEF Resolved, Entry
<1>2. /\ k \in Seq(Entry) /\ Len(l) \in Nat
      /\ DOMAIN k = 1 .. Len(l) + 1
      /\ \A i \in DOMAIN l : k[i] = l[i] /\ i \in DOMAIN k
      /\ k[Len(l) + 1] = Resolved(c, r)
      /\ \A i \in DOMAIN k : i \in DOMAIN l \/ i = Len(l) + 1
  BY <1>1, LogGrows
<1>3. Len(l) + 1 \in DOMAIN k
  BY <1>2
<1>4. ShownIn(k, c) /\ ResolvedIn(k, c)
  BY <1>1, <1>2, <1>3 DEF ShownIn, ResolvedIn
<1>5. \A i \in DOMAIN k : CardAt(k, i, c) => i \in DOMAIN l /\ CardAt(l, i, c)
  BY <1>1, <1>2 DEF CardAt
<1>6. \A i \in DOMAIN l : Newest(l, c, i) => Newest(k, c, i)
  BY <1>2, <1>5 DEF Newest, CardAt
<1> QED BY <1>1, <1>2, <1>4, <1>6

\* Card c is shown once more.
LEMMA CardGrows ==
    ASSUME NEW l \in Seq(Entry), NEW c \in Cards, NEW b \in Nat,
           NEW k, k = Append(l, Card(c, b))
    PROVE  /\ Card(c, b) \in Entry /\ k \in Seq(Entry)
           /\ ResolvedIn(k, c) <=> ResolvedIn(l, c)
           /\ Len(l) + 1 \in DOMAIN k /\ Newest(k, c, Len(l) + 1)
           /\ k[Len(l) + 1].body = b
<1>1. Card(c, b) \in Entry /\ Card(c, b).what = "card"
      /\ Card(c, b).card = c /\ Card(c, b).body = b
  BY DEF Card, Entry
<1>2. /\ k \in Seq(Entry) /\ Len(l) \in Nat
      /\ DOMAIN k = 1 .. Len(l) + 1
      /\ \A i \in DOMAIN l : k[i] = l[i] /\ i \in DOMAIN k
      /\ k[Len(l) + 1] = Card(c, b)
      /\ \A i \in DOMAIN k : i \in DOMAIN l \/ i = Len(l) + 1
  BY <1>1, LogGrows
<1>3. Len(l) + 1 \in DOMAIN k /\ \A j \in DOMAIN k : j <= Len(l) + 1
  BY <1>2
<1>4. Newest(k, c, Len(l) + 1)
  BY <1>1, <1>2, <1>3 DEF Newest, CardAt
<1>5. ResolvedIn(k, c) <=> ResolvedIn(l, c)
  BY <1>1, <1>2 DEF ResolvedIn
<1> QED BY <1>1, <1>2, <1>3, <1>4, <1>5

\* The log grows by an entry for a card that has no resolution, which shows
\* nothing older than what was shown.
LEMMA GrownLog ==
    ASSUME TypeOK, LogInv, NEW e \in Entry, log' = Append(log, e),
           UNCHANGED revived, e.card \in revived \/ ~ResolvedIn(log, e.card),
           e.what = "card" => \A i \in DOMAIN log :
               CardAt(log, i, e.card) => log[i].body <= e.body
    PROVE  LogInv'
<1> DEFINE N == Len(log) + 1
<1>0. log \in Seq(Entry)
  BY DEF TypeOK
<1>1. /\ Len(log) \in Nat /\ Len(log') = N
      /\ DOMAIN log = 1 .. Len(log) /\ DOMAIN log' = 1 .. N
      /\ \A i \in DOMAIN log : log'[i] = log[i] /\ i \in DOMAIN log' /\ i <= Len(log)
      /\ log'[N] = e
      /\ \A i \in DOMAIN log' : i \in DOMAIN log \/ i = N
  BY <1>0, LogGrows
<1>2. N \in Nat /\ \A i \in DOMAIN log : i \in Nat /\ i < N /\ ~(N < i)
  BY <1>1
<1>3. e.card \in revived \/
         \A i \in DOMAIN log : ~(log[i].what = "resolved" /\ log[i].card = e.card)
  BY DEF ResolvedIn
<1> HIDE DEF N
<1>4. ResolvedOnce'
  <2>1. ASSUME NEW i \in DOMAIN log', NEW j \in DOMAIN log',
               log'[i].what = "resolved", log'[j].what = "resolved",
               log'[i].card = log'[j].card, log'[i].card \notin revived
        PROVE  i = j
    <3>1. CASE i \in DOMAIN log /\ j \in DOMAIN log
      BY <1>1, <2>1, <3>1 DEF LogInv, ResolvedOnce
    <3>2. CASE i = N /\ j \in DOMAIN log
      BY <1>1, <1>3, <2>1, <3>2
    <3>3. CASE i \in DOMAIN log /\ j = N
      BY <1>1, <1>3, <2>1, <3>3
    <3>4. CASE i = N /\ j = N
      BY <3>4
    <3> QED BY <1>1, <3>1, <3>2, <3>3, <3>4
  <2> QED BY <2>1 DEF ResolvedOnce
<1>5. NoGhostCard'
  <2>1. ASSUME NEW i \in DOMAIN log', NEW j \in DOMAIN log',
               log'[i].what = "resolved", log'[j].what = "card",
               log'[i].card = log'[j].card, log'[i].card \notin revived
        PROVE  j < i
    <3>1. CASE i \in DOMAIN log /\ j \in DOMAIN log
      BY <1>1, <2>1, <3>1 DEF LogInv, NoGhostCard
    <3>2. CASE i = N /\ j \in DOMAIN log
      BY <1>2, <3>2
    <3>3. CASE i \in DOMAIN log /\ j = N
      BY <1>1, <1>3, <2>1, <3>3
    <3>4. CASE i = N /\ j = N
      BY <2>1, <3>4
    <3> QED BY <1>1, <3>1, <3>2, <3>3, <3>4
  <2> QED BY <2>1 DEF NoGhostCard
<1>6. FeedbackInOrder'
  <2>1. ASSUME NEW i \in DOMAIN log', NEW j \in DOMAIN log',
               log'[i].what = "card", log'[j].what = "card",
               log'[i].card = log'[j].card, i < j
        PROVE  log'[i].body <= log'[j].body
    <3>1. CASE i \in DOMAIN log /\ j \in DOMAIN log
      BY <1>1, <2>1, <3>1 DEF LogInv, FeedbackInOrder
    <3>2. CASE i = N /\ j \in DOMAIN log
      BY <1>2, <2>1, <3>2
    <3>3. CASE i \in DOMAIN log /\ j = N
      BY <1>1, <2>1, <3>3 DEF CardAt
    <3>4. CASE i = N /\ j = N
      BY <1>2, <2>1, <3>4
    <3> QED BY <1>1, <3>1, <3>2, <3>3, <3>4
  <2> QED BY <2>1 DEF FeedbackInOrder
<1>7. HasNewest'
  <2>1. ASSUME NEW n \in DOMAIN log', NEW c \in Cards,
               \E i \in 1 .. n : CardAt(log', i, c)
        PROVE  \E i \in 1 .. n :
                   /\ CardAt(log', i, c)
                   /\ \A j \in 1 .. n : CardAt(log', j, c) => j <= i
    <3>1. CASE n \in DOMAIN log
      <4>1. \A i \in 1 .. n : i \in DOMAIN log /\ log'[i] = log[i]
        BY <1>1, <3>1
      <4>2. \E i \in 1 .. n : CardAt(log, i, c)
        BY <2>1, <4>1 DEF CardAt
      <4>3. PICK i \in 1 .. n :
                /\ CardAt(log, i, c)
                /\ \A j \in 1 .. n : CardAt(log, j, c) => j <= i
        BY <3>1, <4>2 DEF LogInv, HasNewest
      <4> QED BY <4>1, <4>3 DEF CardAt
    <3>2. CASE n = N /\ CardAt(log', N, c)
      <4>1. N \in 1 .. n /\ \A j \in 1 .. n : j <= N
        BY <1>1, <2>1, <3>2 DEF N
      <4> QED BY <3>2, <4>1
    <3>3. CASE n = N /\ ~CardAt(log', N, c)
      <4>1. \A i \in 1 .. n : CardAt(log', i, c) =>
                i \in 1 .. Len(log) /\ CardAt(log, i, c)
        BY <1>1, <3>3 DEF CardAt
      <4>2. Len(log) \in DOMAIN log
        BY <1>1, <2>1, <4>1
      <4>3. PICK i \in 1 .. Len(log) :
                /\ CardAt(log, i, c)
                /\ \A j \in 1 .. Len(log) : CardAt(log, j, c) => j <= i
        BY <2>1, <4>1, <4>2 DEF LogInv, HasNewest
      <4>4. i \in 1 .. n /\ CardAt(log', i, c)
        BY <1>1, <3>3, <4>3 DEF N, CardAt
      <4> QED BY <4>1, <4>3, <4>4
    <3> QED BY <1>1, <3>1, <3>2, <3>3
  <2> QED BY <2>1 DEF HasNewest
<1> QED BY <1>4, <1>5, <1>6, <1>7 DEF LogInv

\* A prefix of the log is in order too.
LEMMA CutLog ==
    ASSUME TypeOK, LogInv, NEW n \in 0 .. Len(log), log' = SubSeq(log, 1, n),
           UNCHANGED revived
    PROVE  /\ LogInv' /\ log' \in Seq(Entry)
           /\ \A i \in DOMAIN log' : i \in DOMAIN log /\ log'[i] = log[i]
<1>1. /\ log \in Seq(Entry) /\ Len(log) \in Nat /\ DOMAIN log = 1 .. Len(log)
  BY DEF TypeOK
<1>2. /\ log' \in Seq(Entry) /\ DOMAIN log' = 1 .. n
      /\ \A i \in 1 .. n : log'[i] = log[i] /\ i \in 1 .. Len(log)
  BY <1>1
<1>3. \A i \in DOMAIN log' : i \in DOMAIN log /\ log'[i] = log[i]
  BY <1>1, <1>2
<1>4. ResolvedOnce'
  BY <1>3 DEF LogInv, ResolvedOnce
<1>5. NoGhostCard'
  BY <1>3 DEF LogInv, NoGhostCard
<1>6. FeedbackInOrder'
  <2>1. ASSUME NEW i \in DOMAIN log', NEW j \in DOMAIN log',
               log'[i].what = "card", log'[j].what = "card",
               log'[i].card = log'[j].card, i < j
        PROVE  log'[i].body <= log'[j].body
    BY <1>3, <2>1 DEF LogInv, FeedbackInOrder
  <2> QED BY <2>1 DEF FeedbackInOrder
<1>7. HasNewest'
  <2>1. ASSUME NEW m \in DOMAIN log', NEW c \in Cards,
               \E i \in 1 .. m : CardAt(log', i, c)
        PROVE  \E i \in 1 .. m :
                   /\ CardAt(log', i, c)
                   /\ \A j \in 1 .. m : CardAt(log', j, c) => j <= i
    <3>1. m \in DOMAIN log /\ \A i \in 1 .. m : log'[i] = log[i]
      BY <1>1, <1>2
    <3>2. \E i \in 1 .. m : CardAt(log, i, c)
      BY <2>1, <3>1 DEF CardAt
    <3>3. PICK i \in 1 .. m :
              /\ CardAt(log, i, c)
              /\ \A j \in 1 .. m : CardAt(log, j, c) => j <= i
      BY <3>1, <3>2 DEF LogInv, HasNewest
    <3> QED BY <3>1, <3>3 DEF CardAt
  <2> QED BY <2>1 DEF HasNewest
<1> QED BY <1>2, <1>3, <1>4, <1>5, <1>6, <1>7 DEF LogInv

\* A card that was shown has a newest entry, which is the one LastBody means.
LEMMA LastBodyIs ==
    ASSUME TypeOK, NEW c, NEW i, Newest(log, c, i)
    PROVE  LastBody(c) = log[i].body
<1> DEFINE at == {k \in DOMAIN log : log[k].what = "card" /\ log[k].card = c}
           last == CHOOSE k \in at : \A j \in at : j <= k
<1>1. i \in at /\ \A j \in at : j <= i
  BY DEF Newest, CardAt
<1>2. last \in at /\ \A j \in at : j <= last
  BY <1>1
<1>3. last = i
  <2>1. \A j \in at : j \in Nat
    BY EntryFields
  <2> QED BY <1>1, <1>2, <2>1
<1>4. LastBody(c) = log[last].body
  BY DEF LastBody
<1> QED BY <1>3, <1>4

LEMMA ShownHasNewest ==
    ASSUME TypeOK, LogInv, NEW c \in Cards, NEW k \in DOMAIN log, CardAt(log, k, c)
    PROVE  \E i \in DOMAIN log : Newest(log, c, i)
<1>1. Len(log) \in Nat /\ DOMAIN log = 1 .. Len(log) /\ Len(log) \in DOMAIN log
  BY DEF TypeOK
<1>2. PICK i \in 1 .. Len(log) :
          /\ CardAt(log, i, c)
          /\ \A j \in 1 .. Len(log) : CardAt(log, j, c) => j <= i
  BY <1>1 DEF LogInv, HasNewest
<1> QED BY <1>1, <1>2 DEF Newest

\* A log that stands still.
LEMMA LogStands ==
    ASSUME LogInv, UNCHANGED log, revived \subseteq revived'
    PROVE  LogInv'
BY DEF LogInv, ResolvedOnce, NoGhostCard, FeedbackInOrder, HasNewest

-----------------------------------------------------------------------------
(* Settling a card                                                         *)

\* What Settle does to log, open cards and flights.
LEMMA SettleKeeps ==
    ASSUME IInv, NEW c \in Cards, NEW r \in Resolutions, Settle(c, r),
           UNCHANGED revived
    PROVE  /\ pending' = pending \ {c}
           /\ shown' \in Cards \cup {NoCard}
           /\ log' \in Seq(Entry) /\ LogInv'
           /\ gen' \in [Cards -> Nat] /\ flights' \subseteq flights
           /\ said' = said => Flying'
           /\ \A d \in Cards :
                 /\ ShownIn(log', d) <=> ShownIn(log, d)
                 /\ ResolvedIn(log', d) <=>
                        ResolvedIn(log, d) \/ (d = c /\ c \in pending)
                 /\ \A i \in DOMAIN log : Newest(log, d, i) => Newest(log', d, i)
           /\ \A i \in DOMAIN log : i \in DOMAIN log' /\ log'[i] = log[i]
           /\ \A i \in DOMAIN log' :
                 \/ i \in DOMAIN log /\ log'[i] = log[i]
                 \/ c \in pending /\ log'[i] = Resolved(c, r)
<1>0. TypeOK /\ LogInv /\ OpenCards /\ Flying /\ log \in Seq(Entry)
  BY DEF IInv, TypeOK
<1>1. CASE c \notin pending
  <2>1. UNCHANGED <<pending, shown, log, flights, gen>>
    BY <1>1 DEF Settle
  <2>2. pending' = pending \ {c}
    BY <1>1, <2>1
  <2>3. LogInv'
    BY <1>0, <2>1, LogStands
  <2>4. said' = said => Flying'
    BY <1>0, <2>1 DEF Flying
  <2> QED BY <1>0, <1>1, <2>1, <2>2, <2>3, <2>4 DEF TypeOK
<1>2. CASE c \in pending
  <2> DEFINE e == Resolved(c, r)
  <2>1. /\ pending' = pending \ {c}
        /\ shown' = IF shown = c THEN NoCard ELSE shown
        /\ log' = Append(log, e)
        /\ gen' = [gen EXCEPT ![c] = @ + 1]
        /\ flights' \in Survivors(c)
    BY <1>2 DEF Settle
  <2>2. /\ e \in Entry /\ log' \in Seq(Entry)
        /\ ShownIn(log', c) /\ ResolvedIn(log', c)
        /\ \A i \in DOMAIN log : Newest(log, c, i) => Newest(log', c, i)
    BY <1>0, <2>1, ResolutionGrows
  <2>3. /\ \A i \in DOMAIN log : i \in DOMAIN log' /\ log'[i] = log[i]
        /\ \A i \in DOMAIN log' :
              (i \in DOMAIN log /\ log'[i] = log[i]) \/ log'[i] = e
    BY <1>0, <2>1, <2>2, LogGrows
  <2>4. e.card = c /\ e.what = "resolved"
    BY DEF Resolved
  <2>5. (c \in revived \/ ~ResolvedIn(log, c)) /\ ShownIn(log, c)
    BY <1>0, <1>2 DEF OpenCards, Newest, CardAt, ShownIn
  <2>6. LogInv'
    BY <1>0, <2>1, <2>2, <2>4, <2>5, GrownLog
  <2>7. ASSUME NEW d \in Cards, d # c
        PROVE  /\ ShownIn(log', d) <=> ShownIn(log, d)
               /\ ResolvedIn(log', d) <=> ResolvedIn(log, d)
               /\ \A i \in DOMAIN log : Newest(log, d, i) => Newest(log', d, i)
    BY <1>0, <2>1, <2>2, <2>4, <2>7, OtherCard
  <2>8. gen' \in [Cards -> Nat] /\ shown' \in Cards \cup {NoCard}
    BY <1>0, <2>1 DEF TypeOK
  <2>9. flights' \subseteq flights
    BY <2>1 DEF Survivors
  <2>10. ASSUME said' = said PROVE Flying'
    <3>1. ASSUME NEW f \in flights'
          PROVE  f.gen <= gen'[f.card] /\ (f.gen = gen'[f.card] => f.n = said[f.card])
      <4>1. f \in flights /\ f.card \in Cards /\ f.gen \in Nat
        BY <1>0, <2>9 DEF TypeOK
      <4>2. gen[f.card] \in Nat /\ gen'[f.card] \in {gen[f.card], gen[f.card] + 1}
        BY <1>0, <2>1, <4>1 DEF TypeOK
      <4>3. f.gen <= gen[f.card] /\ (f.gen = gen[f.card] => f.n = said[f.card])
        BY <1>0, <4>1 DEF Flying
      <4> QED BY <4>1, <4>2, <4>3
    <3> QED BY <2>10, <3>1 DEF Flying
  <2> HIDE DEF e
  <2> QED BY <1>2, <2>1, <2>2, <2>3, <2>5, <2>6, <2>7, <2>8, <2>9, <2>10 DEF e
<1> QED BY <1>1, <1>2

\* What the invariant needs of a step that settles card c: its waiter is gone,
\* cut off before, or its future was cancelled by the stop.
LEMMA SettleStory ==
    ASSUME IInv, NEW c \in Cards, NEW r \in Resolutions, Settle(c, r),
           UNCHANGED <<engine, saved, stops, crashes, future, body, said,
                       accepted, revived>>,
           engine \in {"up", "stopping"},
           ToSet(closing') \subseteq ToSet(closing),
           engine # "stopping" => closing' = closing,
           NEW w, w \in {waiter[c], "gone"}, waiter' = [waiter EXCEPT ![c] = w],
           waiter[c] # "none", waiter[c] # "cut" \/ w = "cut",
           w \in {"waiting", "emitting"} => future[c] = "cancelled",
           \A d \in Cards : d # c => taken'[d] = taken[d],
           taken'[c].res # "none" => c \in pending \/ ResolvedIn(log, c),
           c \notin revived /\ taken'[c].res = "approved" /\ ShownIn(log, c) =>
               \E i \in DOMAIN log : Newest(log, c, i) /\ log[i].body = taken'[c].body,
           stops = 0 /\ crashes = 0 => r = future[c] /\ Done(c)
    PROVE  /\ Fresh' /\ OpenCards' /\ Saved' /\ Bodies' /\ Flying'
           /\ Phases' /\ Acted' /\ Voided' /\ Unended' /\ Undisturbed'
<1>0. /\ TypeOK /\ LogInv /\ Fresh /\ OpenCards /\ Saved /\ Bodies /\ Flying
      /\ Phases /\ Acted /\ Voided /\ Unended /\ Undisturbed
  BY DEF IInv
<1>1. /\ pending' = pending \ {c}
      /\ Flying'
      /\ \A d \in Cards :
            /\ ShownIn(log', d) <=> ShownIn(log, d)
            /\ ResolvedIn(log', d) <=>
                   ResolvedIn(log, d) \/ (d = c /\ c \in pending)
            /\ \A i \in DOMAIN log : Newest(log, d, i) => Newest(log', d, i)
      /\ \A i \in DOMAIN log : i \in DOMAIN log' /\ log'[i] = log[i]
      /\ \A i \in DOMAIN log' :
            \/ i \in DOMAIN log /\ log'[i] = log[i]
            \/ c \in pending /\ log'[i] = Resolved(c, r)
  BY SettleKeeps
<1>2. /\ waiter'[c] = w /\ \A d \in Cards : d # c => waiter'[d] = waiter[d]
      /\ pending \subseteq Cards
      /\ future[c] # "none"
  BY <1>0 DEF TypeOK, Fresh
<1>3. Resolved(c, r).what = "resolved" /\ Resolved(c, r).card = c
      /\ Resolved(c, r).res = r
  BY DEF Resolved
<1>4. Fresh'
  BY <1>0, <1>1, <1>2 DEF Fresh
<1>5. OpenCards'
  <2>1. ASSUME NEW d \in pending'
        PROVE  /\ d \in revived \/ ~ResolvedIn(log', d)
               /\ \E i \in DOMAIN log' : Newest(log', d, i) /\ log'[i].body = body[d]
               /\ waiter'[d] \in {"emitting", "waiting", "restored", "late", "cut"}
    <3>1. d \in pending /\ d \in Cards /\ d # c
      BY <1>1, <1>2
    <3>2. PICK i \in DOMAIN log : Newest(log, d, i) /\ log[i].body = body[d]
      BY <1>0, <3>1 DEF OpenCards
    <3>3. i \in DOMAIN log' /\ Newest(log', d, i) /\ log'[i].body = body[d]
      BY <1>1, <3>1, <3>2
    <3> QED BY <1>0, <1>1, <1>2, <3>1, <3>3 DEF OpenCards
  <2> QED BY <2>1 DEF OpenCards
<1>12. Saved'
  <2>1. ASSUME NEW d \in saved
        PROVE  \E i \in DOMAIN log' : Newest(log', d, i) /\ log'[i].body = body[d]
    <3>1. PICK i \in DOMAIN log : Newest(log, d, i) /\ log[i].body = body[d]
      BY <1>0 DEF Saved
    <3>2. d \in Cards
      BY <1>0 DEF TypeOK
    <3> QED BY <1>1, <3>1, <3>2
  <2> QED BY <1>0, <2>1 DEF Saved
<1>6. Bodies'
  BY <1>0, <1>1, <1>3 DEF Bodies
<1>7. Phases'
  BY <1>0 DEF Phases
<1>8. Acted'
  <2>1. ASSUME NEW d \in Cards
        PROVE  /\ taken'[d].res # "none" =>
                      ResolvedIn(log', d) /\ (d \in pending' => d \in revived)
               /\ d \notin revived /\ taken'[d].res = "approved" /\ ShownIn(log', d) =>
                      \E i \in DOMAIN log :
                          Newest(log, d, i) /\ log[i].body = taken'[d].body
    BY <1>0, <1>1 DEF Acted
  <2> QED BY <1>1, <2>1 DEF Acted
<1>9. Voided'
  BY <1>0, <1>1, <1>2 DEF Voided
<1>10. Unended'
  BY <1>0, <1>1, <1>2 DEF Unended
<1>11. Undisturbed'
  <2> SUFFICES ASSUME stops = 0, crashes = 0
               PROVE  /\ engine = "up"
                      /\ \A d \in Cards :
                            /\ waiter'[d] \notin {"restored", "late", "cut"}
                            /\ accepted[d] # "none" => future[d] = accepted[d]
                            /\ \A i \in DOMAIN log' :
                                  log'[i].what = "resolved" /\ log'[i].card = d =>
                                      log'[i].res = future[d] /\ Done(d)
    BY DEF Undisturbed, Done
  <2>1. /\ engine = "up" /\ r = future[c] /\ Done(c)
        /\ \A d \in Cards :
              /\ waiter[d] \notin {"restored", "late", "cut"}
              /\ accepted[d] # "none" => future[d] = accepted[d]
              /\ \A i \in DOMAIN log :
                    log[i].what = "resolved" /\ log[i].card = d =>
                        log[i].res = future[d] /\ Done(d)
    BY <1>0 DEF Undisturbed
  <2> QED BY <1>1, <1>2, <1>3, <2>1
<1> QED BY <1>1, <1>4, <1>5, <1>6, <1>7, <1>8, <1>9, <1>10, <1>11, <1>12

-----------------------------------------------------------------------------
(* Steps that settle                                                       *)

LEMMA ResumeStep ==
    ASSUME IInv, NEW c \in Cards, Resume(c)
    PROVE  IInv'
<1>0. TypeOK /\ OpenCards /\ Phases /\ Voided /\ Undisturbed /\ Fresh
  BY DEF IInv
<1> DEFINE r == future[c]
<1>1. /\ waiter[c] = "waiting" /\ r \in Resolutions /\ Done(c) /\ Settle(c, r)
      /\ UNCHANGED <<engine, closing, saved, stops, crashes, future, body, said,
                     accepted, revived>>
      /\ waiter' = [waiter EXCEPT ![c] = "gone"]
      /\ taken' = [taken EXCEPT ![c] =
                    [res |-> r, body |-> IF c \in pending THEN body[c] ELSE 0]]
  BY <1>0 DEF Resume, lives, TypeOK, Done
<1>2. engine \in {"up", "stopping"}
  BY <1>0, <1>1 DEF Phases, TypeOK
<1>3. /\ taken'[c].res = r
      /\ taken'[c].body = IF c \in pending THEN body[c] ELSE 0
      /\ \A d \in Cards : d # c => taken'[d] = taken[d]
  BY <1>0, <1>1 DEF TypeOK
<1>7. taken'[c].res # "none" => c \in pending \/ ResolvedIn(log, c)
  BY <1>0, <1>1 DEF Voided
<1>4. ASSUME taken'[c].res = "approved", ShownIn(log, c)
      PROVE  \E i \in DOMAIN log : Newest(log, c, i) /\ log[i].body = taken'[c].body
  <2>1. c \in pending
    BY <1>0, <1>1, <1>3, <1>4 DEF Voided
  <2> QED BY <1>0, <1>3, <2>1 DEF OpenCards
<1>5. /\ Fresh' /\ OpenCards' /\ Saved' /\ Bodies' /\ Flying'
      /\ Phases' /\ Acted' /\ Voided' /\ Unended' /\ Undisturbed'
  <2> DEFINE w == "gone"
  <2>1. w \in {waiter[c], "gone"} /\ w \notin {"waiting", "emitting"}
    OBVIOUS
  <2>2. waiter' = [waiter EXCEPT ![c] = w] /\ waiter[c] \notin {"none", "cut"}
    BY <1>1
  <2> HIDE DEF w, r
  <2>3. r = future[c]
    BY DEF r
  <2> QED BY <1>1, <1>2, <1>3, <1>4, <1>7, <2>1, <2>2, <2>3, SettleStory
<1>6. LogInv' /\ TypeOK'
  <2>1. /\ pending' = pending \ {c} /\ shown' \in Cards \cup {NoCard}
        /\ log' \in Seq(Entry) /\ LogInv'
        /\ gen' \in [Cards -> Nat] /\ flights' \subseteq flights
    BY <1>1, SettleKeeps
  <2>2. taken' \in [Cards -> [res : Resolutions \cup {"none"}, body : Nat]]
    BY <1>0, <1>1 DEF TypeOK
  <2> QED BY <1>0, <1>1, <2>1, <2>2 DEF TypeOK
<1> QED BY <1>5, <1>6 DEF IInv

LEMMA ResumeRestoredStep ==
    ASSUME IInv, NEW c \in Cards, ResumeRestored(c)
    PROVE  IInv'
<1>0. TypeOK /\ OpenCards /\ Phases /\ Acted /\ Undisturbed
  BY DEF IInv
<1>1. PICK r \in Resolutions :
      /\ waiter[c] \in {"late", "restored"} /\ Settle(c, r)
      /\ UNCHANGED <<engine, closing, saved, stops, crashes, future, body, said,
                     accepted, taken, revived>>
      /\ waiter' = [waiter EXCEPT ![c] = "gone"]
  <2> DEFINE q == IF waiter[c] = "late" THEN "timeout" ELSE future[c]
  <2>1. q \in Resolutions
    BY <1>0 DEF ResumeRestored, Resolutions, Done, TypeOK
  <2> QED BY <2>1 DEF ResumeRestored, lives, history
<1>2. engine \in {"up", "stopping"}
  BY <1>0, <1>1 DEF Phases, TypeOK
<1>3. ~(stops = 0 /\ crashes = 0)
  BY <1>0, <1>1 DEF Undisturbed
<1>4. /\ taken[c].res # "none" => c \in pending \/ ResolvedIn(log, c)
      /\ c \notin revived /\ taken[c].res = "approved" /\ ShownIn(log, c) =>
            \E i \in DOMAIN log : Newest(log, c, i) /\ log[i].body = taken[c].body
  BY <1>0 DEF Acted
<1>5. /\ Fresh' /\ OpenCards' /\ Saved' /\ Bodies' /\ Flying'
      /\ Phases' /\ Acted' /\ Voided' /\ Unended' /\ Undisturbed'
  <2> DEFINE w == "gone"
  <2>1. w \in {waiter[c], "gone"} /\ w \notin {"waiting", "emitting"}
    OBVIOUS
  <2>2. waiter' = [waiter EXCEPT ![c] = w] /\ waiter[c] \notin {"none", "cut"}
    BY <1>1
  <2> HIDE DEF w
  <2> QED BY <1>1, <1>2, <1>3, <1>4, <2>1, <2>2, SettleStory
<1>6. LogInv' /\ TypeOK'
  <2>1. /\ pending' = pending \ {c} /\ shown' \in Cards \cup {NoCard}
        /\ log' \in Seq(Entry) /\ LogInv'
        /\ gen' \in [Cards -> Nat] /\ flights' \subseteq flights
    BY <1>1, SettleKeeps
  <2> QED BY <1>0, <1>1, <2>1 DEF TypeOK
<1> QED BY <1>5, <1>6 DEF IInv

LEMMA StopSettlesStep ==
    ASSUME IInv, StopSettles
    PROVE  IInv'
<1>0. TypeOK /\ Phases /\ Acted /\ Undisturbed /\ Fresh
  BY DEF IInv
<1> DEFINE c == Head(closing)
           r == "cancelled"
<1>1. /\ engine = "stopping" /\ closing # <<>> /\ closing' = Tail(closing)
      /\ Settle(c, r)
      /\ UNCHANGED <<engine, saved, stops, crashes, future, body, waiter, said,
                     accepted, taken, revived>>
  BY DEF StopSettles, history
<1>2. /\ c \in Cards /\ Tail(closing) \in Seq(Cards)
      /\ ToSet(closing) = {c} \cup ToSet(Tail(closing))
  BY <1>0, <1>1, TailSet DEF TypeOK
<1>3. future[c] = "cancelled" /\ waiter[c] # "none"
  BY <1>0, <1>2 DEF Phases, Fresh
<1>4. ~(stops = 0 /\ crashes = 0)
  BY <1>0, <1>1 DEF Undisturbed
<1>5. /\ taken[c].res # "none" => c \in pending \/ ResolvedIn(log, c)
      /\ c \notin revived /\ taken[c].res = "approved" /\ ShownIn(log, c) =>
            \E i \in DOMAIN log : Newest(log, c, i) /\ log[i].body = taken[c].body
  BY <1>0, <1>2 DEF Acted
<1>6. r \in Resolutions
  BY DEF Resolutions
<1> HIDE DEF c, r
<1>7. /\ Fresh' /\ OpenCards' /\ Saved' /\ Bodies' /\ Flying'
      /\ Phases' /\ Acted' /\ Voided' /\ Unended' /\ Undisturbed'
  <2>1. PICK w : w = waiter[c]
    OBVIOUS
  <2>2. waiter' = [waiter EXCEPT ![c] = w]
    BY <1>0, <1>1, <2>1 DEF TypeOK
  <2>3. waiter[c] # "cut" \/ w = "cut"
    BY <2>1
  <2>4. ToSet(closing') \subseteq ToSet(closing)
    BY <1>1, <1>2
  <2> QED BY <1>1, <1>2, <1>3, <1>4, <1>5, <1>6, <2>1, <2>2, <2>3, <2>4, SettleStory
<1>8. LogInv' /\ TypeOK'
  <2>1. /\ pending' = pending \ {c} /\ shown' \in Cards \cup {NoCard}
        /\ log' \in Seq(Entry) /\ LogInv'
        /\ gen' \in [Cards -> Nat] /\ flights' \subseteq flights
    BY <1>1, <1>2, <1>6, SettleKeeps
  <2> QED BY <1>0, <1>1, <1>2, <2>1 DEF TypeOK
<1> QED BY <1>7, <1>8 DEF IInv

\* The stop cancels a turn that waits.
LEMMA StopCancelsWaiting ==
    ASSUME IInv, NEW c \in Cards, StopCancels(c), waiter[c] = "waiting"
    PROVE  IInv'
<1>0. TypeOK /\ Acted /\ Undisturbed
  BY DEF IInv
<1> DEFINE r == "cancelled"
<1>1. /\ engine = "stopping" /\ Settle(c, r)
      /\ UNCHANGED <<engine, closing, saved, stops, crashes, future, body, said,
                     accepted, taken, revived>>
      /\ waiter' = [waiter EXCEPT ![c] = "gone"]
  BY DEF StopCancels, lives, history
<1>2. r \in Resolutions
  BY DEF Resolutions
<1>3. ~(stops = 0 /\ crashes = 0)
  BY <1>0, <1>1 DEF Undisturbed
<1>4. /\ taken[c].res # "none" => c \in pending \/ ResolvedIn(log, c)
      /\ c \notin revived /\ taken[c].res = "approved" /\ ShownIn(log, c) =>
            \E i \in DOMAIN log : Newest(log, c, i) /\ log[i].body = taken[c].body
  BY <1>0 DEF Acted
<1> HIDE DEF r
<1>5. /\ Fresh' /\ OpenCards' /\ Saved' /\ Bodies' /\ Flying'
      /\ Phases' /\ Acted' /\ Voided' /\ Unended' /\ Undisturbed'
  <2> DEFINE w == "gone"
  <2>1. w \in {waiter[c], "gone"} /\ w \notin {"waiting", "emitting"}
    OBVIOUS
  <2>2. waiter' = [waiter EXCEPT ![c] = w] /\ waiter[c] \notin {"none", "cut"}
    BY <1>1
  <2> HIDE DEF w
  <2> QED BY <1>1, <1>2, <1>3, <1>4, <2>1, <2>2, SettleStory
<1>6. LogInv' /\ TypeOK'
  <2>1. /\ pending' = pending \ {c} /\ shown' \in Cards \cup {NoCard}
        /\ log' \in Seq(Entry) /\ LogInv'
        /\ gen' \in [Cards -> Nat] /\ flights' \subseteq flights
    BY <1>1, <1>2, SettleKeeps
  <2> QED BY <1>0, <1>1, <2>1 DEF TypeOK
<1> QED BY <1>5, <1>6 DEF IInv

-----------------------------------------------------------------------------
(* Steps that leave the log alone                                          *)

\* Futures are resolved and waiters move on, but no card is opened or settled.
LEMMA CardsStand ==
    ASSUME IInv,
           UNCHANGED <<log, pending, body, said, gen, flights, taken, saved, revived>>,
           closing' = closing, engine' = engine,
           \A c \in Cards :
              /\ waiter'[c] = waiter[c] \/
                    (waiter[c] # "none" /\ waiter'[c] \in {"waiting", "late", "cut"}
                        /\ waiter[c] # "gone" /\ waiter[c] # "cut"
                        /\ engine # "dead" /\ engine # "stopped")
              /\ future'[c] = future[c] \/
                    (~Done(c) /\ future[c] # "none" /\ future'[c] # "none")
    PROVE  /\ LogInv' /\ Fresh' /\ OpenCards' /\ Saved' /\ Bodies' /\ Flying'
           /\ Phases' /\ Acted' /\ Unended'
<1>0. /\ TypeOK /\ LogInv /\ Fresh /\ OpenCards /\ Saved /\ Bodies /\ Flying
      /\ Phases /\ Acted /\ Unended
  BY DEF IInv
<1>1. LogInv'
  BY <1>0, LogStands
<1>2. Fresh'
  BY <1>0 DEF Fresh
<1>3. pending \subseteq Cards
  BY <1>0 DEF TypeOK
<1>4. OpenCards' /\ Saved'
  BY <1>0, <1>3 DEF OpenCards, Saved
<1>5. Bodies' /\ Flying' /\ Acted'
  BY <1>0 DEF Bodies, Flying, Acted
<1>6. Phases'
  <2>1. \A c \in ToSet(closing) : c \in Cards
    BY <1>0 DEF TypeOK, ToSet
  <2>2. \A c \in ToSet(closing) : future'[c] = "cancelled"
    BY <1>0, <2>1 DEF Phases, Done
  <2> QED BY <1>0, <2>2 DEF Phases
<1>7. Unended'
  BY <1>0 DEF Unended
<1> QED BY <1>1, <1>2, <1>4, <1>5, <1>6, <1>7

LEMMA BroadcastDoneStep ==
    ASSUME IInv, NEW c \in Cards, BroadcastDone(c)
    PROVE  IInv'
<1>0. TypeOK /\ Voided /\ Undisturbed /\ Phases
  BY DEF IInv
<1>1. /\ waiter[c] = "emitting" /\ waiter' = [waiter EXCEPT ![c] = "waiting"]
      /\ UNCHANGED <<engine, closing, saved, stops, crashes, log, pending, future,
                     body, shown, said, gen, flights, accepted, taken, revived>>
  BY DEF BroadcastDone, lives, feedback, history
<1>2. /\ waiter'[c] = "waiting" /\ \A d \in Cards : d # c => waiter'[d] = waiter[d]
      /\ waiter \in [Cards -> {"none", "emitting", "waiting", "restored", "late",
                               "gone", "cut"}]
  BY <1>0, <1>1 DEF TypeOK
<1>3. engine # "dead" /\ engine # "stopped"
  BY <1>0, <1>1 DEF Phases
<1>4. /\ LogInv' /\ Fresh' /\ OpenCards' /\ Saved' /\ Bodies' /\ Flying'
      /\ Phases' /\ Acted' /\ Unended'
  <2>1. \A d \in Cards : waiter'[d] = waiter[d] \/
                    (waiter[d] # "none" /\ waiter'[d] \in {"waiting", "late", "cut"}
                        /\ waiter[d] # "gone" /\ waiter[d] # "cut"
                        /\ engine # "dead" /\ engine # "stopped")
    BY <1>1, <1>2, <1>3
  <2> QED BY <1>1, <2>1, CardsStand
<1>5. TypeOK'
  BY <1>0, <1>1 DEF TypeOK
<1>6. Voided'
  BY <1>0, <1>1, <1>2 DEF Voided
<1>7. Undisturbed'
  BY <1>0, <1>1, <1>2 DEF Undisturbed, Done
<1> QED BY <1>4, <1>5, <1>6, <1>7 DEF IInv

LEMMA ExpireStep ==
    ASSUME IInv, NEW c \in Cards, Expire(c)
    PROVE  IInv'
<1>0. TypeOK /\ Voided /\ Undisturbed /\ Phases /\ Fresh
  BY DEF IInv
<1>1. /\ ~Done(c)
      /\ \/ /\ waiter[c] = "waiting" /\ waiter' = waiter
            /\ future' = [future EXCEPT ![c] = "timeout"]
         \/ /\ waiter[c] = "restored" /\ future' = future
            /\ waiter' = [waiter EXCEPT ![c] = "late"]
      /\ UNCHANGED <<engine, closing, saved, stops, crashes, log, pending,
                     body, shown, said, gen, flights, accepted, taken, revived>>
  BY DEF Expire, lives, feedback, history
<1>2. /\ \A d \in Cards : d # c => waiter'[d] = waiter[d] /\ future'[d] = future[d]
      /\ future[c] = "open"
      /\ waiter'[c] \in {"waiting", "late"} /\ future'[c] \in {"open", "timeout"}
  BY <1>0, <1>1 DEF TypeOK, Done, Fresh
<1>3. engine # "dead" /\ engine # "stopped"
  BY <1>0, <1>1 DEF Phases
<1>4. /\ LogInv' /\ Fresh' /\ OpenCards' /\ Saved' /\ Bodies' /\ Flying'
      /\ Phases' /\ Acted' /\ Unended'
  <2>1. \A d \in Cards :
           /\ waiter'[d] = waiter[d] \/
                    (waiter[d] # "none" /\ waiter'[d] \in {"waiting", "late", "cut"}
                        /\ waiter[d] # "gone" /\ waiter[d] # "cut"
                        /\ engine # "dead" /\ engine # "stopped")
           /\ future'[d] = future[d] \/
                    (~Done(d) /\ future[d] # "none" /\ future'[d] # "none")
    BY <1>1, <1>2, <1>3
  <2> QED BY <1>1, <2>1, CardsStand
<1>5. TypeOK'
  <2>1. /\ waiter' \in [Cards -> {"none", "emitting", "waiting", "restored", "late",
                                 "gone", "cut"}]
        /\ future' \in [Cards -> Resolutions \cup {"none", "open"}]
    <3>1. CASE waiter' = waiter /\ future' = [future EXCEPT ![c] = "timeout"]
      BY <1>0, <3>1 DEF TypeOK, Resolutions
    <3>2. CASE future' = future /\ waiter' = [waiter EXCEPT ![c] = "late"]
      BY <1>0, <3>2 DEF TypeOK
    <3> QED BY <1>1, <3>1, <3>2
  <2> QED BY <1>0, <1>1, <2>1 DEF TypeOK
<1>6. Voided'
  <2>1. waiter[c] = "waiting" => c \in pending
    BY <1>0, <1>2 DEF Voided
  <2>2. waiter'[c] # "emitting" /\ (waiter'[c] = "waiting" => waiter[c] = "waiting")
    BY <1>0, <1>1, <1>2 DEF TypeOK
  <2>3. \A d \in Cards : d # c =>
            (waiter'[d] \in {"waiting", "emitting"} /\ d \notin pending =>
                future'[d] = "cancelled" /\ ResolvedIn(log, d))
    BY <1>0, <1>2 DEF Voided
  <2> QED BY <1>1, <2>1, <2>2, <2>3 DEF Voided
<1>7. Undisturbed'
  <2> SUFFICES ASSUME stops = 0, crashes = 0 PROVE Undisturbed'
    BY <1>1 DEF Undisturbed
  <2>1. /\ engine = "up"
        /\ \A d \in Cards :
              /\ waiter[d] \notin {"restored", "late", "cut"}
              /\ accepted[d] # "none" => future[d] = accepted[d]
              /\ \A i \in DOMAIN log :
                    log[i].what = "resolved" /\ log[i].card = d =>
                        log[i].res = future[d] /\ Done(d)
    BY <1>0 DEF Undisturbed
  <2>2. waiter' = waiter /\ future' = [future EXCEPT ![c] = "timeout"]
    BY <1>1, <2>1
  <2>3. accepted[c] = "none"
    BY <1>0, <1>2, <2>1 DEF TypeOK, Answers
  <2>4. \A i \in DOMAIN log : ~(log[i].what = "resolved" /\ log[i].card = c)
    BY <1>1, <2>1
  <2>5. \A d \in Cards : d # c => (Done(d) => Done(d)')
    BY <1>2 DEF Done
  <2> QED BY <1>1, <1>2, <2>1, <2>2, <2>3, <2>4, <2>5 DEF Undisturbed
<1> QED BY <1>4, <1>5, <1>6, <1>7 DEF IInv

LEMMA AnswerStep ==
    ASSUME IInv, NEW c \in Cards, NEW r \in Answers, Answer(c, r)
    PROVE  IInv'
<1>0. TypeOK /\ Voided /\ Undisturbed /\ Phases /\ Fresh
  BY DEF IInv
<1>1. /\ ~Done(c) /\ c \in pending
      /\ future' = [future EXCEPT ![c] = r]
      /\ accepted' = [accepted EXCEPT ![c] = r]
      /\ UNCHANGED <<engine, closing, saved, stops, crashes, log, pending, waiter,
                     body, shown, said, gen, flights, taken, revived>>
  BY DEF Answer, lives, feedback, history
<1>2. /\ \A d \in Cards : d # c => future'[d] = future[d] /\ accepted'[d] = accepted[d]
      /\ future[c] = "open" /\ future'[c] = r /\ accepted'[c] = r
      /\ r \notin {"none", "open"}
  BY <1>0, <1>1 DEF TypeOK, Done, Fresh, Answers
<1>3. /\ LogInv' /\ Fresh' /\ OpenCards' /\ Saved' /\ Bodies' /\ Flying'
      /\ Phases' /\ Acted' /\ Unended'
  <2>1. \A d \in Cards : future'[d] = future[d] \/
                    (~Done(d) /\ future[d] # "none" /\ future'[d] # "none")
    BY <1>1, <1>2
  <2> QED BY <1>1, <2>1, CardsStand
<1>4. TypeOK'
  BY <1>0, <1>1 DEF TypeOK, Resolutions
<1>5. Voided'
  BY <1>0, <1>1, <1>2 DEF Voided
<1>6. Undisturbed'
  BY <1>0, <1>1, <1>2 DEF Undisturbed, Done
<1> QED BY <1>3, <1>4, <1>5, <1>6 DEF IInv

LEMMA NewMessageStep ==
    ASSUME IInv, NewMessage
    PROVE  IInv'
<1>0. TypeOK /\ Voided /\ Undisturbed /\ Phases /\ Fresh
  BY DEF IInv
<1>1. /\ future' = [c \in Cards |->
                       IF c \in pending /\ ~Done(c) THEN "cancelled" ELSE future[c]]
      /\ UNCHANGED <<engine, closing, saved, stops, crashes, log, pending, waiter,
                     body, shown, said, gen, flights, accepted, taken, revived>>
  BY DEF NewMessage, lives, feedback, history
<1>2. \A d \in Cards : future'[d] = future[d] \/
          (d \in pending /\ ~Done(d) /\ future[d] = "open" /\ future'[d] = "cancelled")
  BY <1>0, <1>1 DEF TypeOK, Done, Fresh
<1>3. /\ LogInv' /\ Fresh' /\ OpenCards' /\ Saved' /\ Bodies' /\ Flying'
      /\ Phases' /\ Acted' /\ Unended'
  BY <1>1, <1>2, CardsStand
<1>4. TypeOK'
  BY <1>0, <1>1 DEF TypeOK, Resolutions
<1>5. Voided'
  BY <1>0, <1>1, <1>2 DEF Voided
<1>6. Undisturbed'
  BY <1>0, <1>1, <1>2 DEF Undisturbed, Done, TypeOK, Answers
<1> QED BY <1>3, <1>4, <1>5, <1>6 DEF IInv

\* The stop cancels a turn inside the emit of its card.
LEMMA StopCancelsEmitting ==
    ASSUME IInv, NEW c \in Cards, StopCancels(c), waiter[c] = "emitting"
    PROVE  IInv'
<1>0. TypeOK /\ Voided /\ Undisturbed /\ Phases
  BY DEF IInv
<1>1. /\ engine = "stopping" /\ waiter' = [waiter EXCEPT ![c] = "cut"]
      /\ UNCHANGED <<engine, closing, saved, stops, crashes, log, pending, future,
                     body, shown, said, gen, flights, accepted, taken, revived>>
  BY DEF StopCancels, lives, history
<1>2. waiter'[c] = "cut" /\ \A d \in Cards : d # c => waiter'[d] = waiter[d]
  BY <1>0, <1>1 DEF TypeOK
<1>3. /\ LogInv' /\ Fresh' /\ OpenCards' /\ Saved' /\ Bodies' /\ Flying'
      /\ Phases' /\ Acted' /\ Unended'
  <2>1. \A d \in Cards : waiter'[d] = waiter[d] \/
                    (waiter[d] # "none" /\ waiter'[d] \in {"waiting", "late", "cut"}
                        /\ waiter[d] # "gone" /\ waiter[d] # "cut"
                        /\ engine # "dead" /\ engine # "stopped")
    BY <1>1, <1>2
  <2> QED BY <1>1, <2>1, CardsStand
<1>4. TypeOK'
  BY <1>0, <1>1 DEF TypeOK
<1>5. Voided'
  BY <1>0, <1>1, <1>2 DEF Voided
<1>6. Undisturbed'
  BY <1>0, <1>1 DEF Undisturbed
<1> QED BY <1>3, <1>4, <1>5, <1>6 DEF IInv

-----------------------------------------------------------------------------
(* Steps that show a card                                                  *)

LEMMA CardKeeps ==
    ASSUME IInv, NEW c \in Cards, NEW b \in Nat, log' = Append(log, Card(c, b)),
           UNCHANGED revived, c \in revived \/ ~ResolvedIn(log, c),
           \A i \in DOMAIN log : CardAt(log, i, c) => log[i].body <= b
    PROVE  /\ log' \in Seq(Entry) /\ LogInv'
           /\ ResolvedIn(log', c) <=> ResolvedIn(log, c)
           /\ \E i \in DOMAIN log' : Newest(log', c, i) /\ log'[i].body = b
           /\ \A d \in Cards : d # c =>
                 /\ ShownIn(log', d) <=> ShownIn(log, d)
                 /\ ResolvedIn(log', d) <=> ResolvedIn(log, d)
                 /\ \A i \in DOMAIN log : Newest(log, d, i) => Newest(log', d, i)
           /\ \A i \in DOMAIN log : i \in DOMAIN log' /\ log'[i] = log[i]
           /\ \A i \in DOMAIN log' :
                 (i \in DOMAIN log /\ log'[i] = log[i]) \/ log'[i] = Card(c, b)
<1>0. TypeOK /\ LogInv /\ log \in Seq(Entry)
  BY DEF IInv, TypeOK
<1> DEFINE e == Card(c, b)
<1>1. /\ e \in Entry /\ log' \in Seq(Entry)
      /\ ResolvedIn(log', c) <=> ResolvedIn(log, c)
      /\ \E i \in DOMAIN log' : Newest(log', c, i) /\ log'[i].body = b
  <2>1. /\ Card(c, b) \in Entry /\ log' \in Seq(Entry)
        /\ ResolvedIn(log', c) <=> ResolvedIn(log, c)
        /\ Len(log) + 1 \in DOMAIN log' /\ Newest(log', c, Len(log) + 1)
        /\ log'[Len(log) + 1].body = b
    BY ZenonT(30), <1>0, CardGrows
  <2> QED BY <2>1
<1>2. e.card = c /\ e.what = "card" /\ e.body = b
  BY DEF Card
<1>3. /\ \A i \in DOMAIN log : i \in DOMAIN log' /\ log'[i] = log[i]
      /\ \A i \in DOMAIN log' :
            (i \in DOMAIN log /\ log'[i] = log[i]) \/ log'[i] = e
  BY <1>0, <1>1, LogGrows
<1>4. ASSUME NEW d \in Cards, d # c
      PROVE  /\ ShownIn(log', d) <=> ShownIn(log, d)
             /\ ResolvedIn(log', d) <=> ResolvedIn(log, d)
             /\ \A i \in DOMAIN log : Newest(log, d, i) => Newest(log', d, i)
  BY <1>0, <1>1, <1>2, <1>4, OtherCard
<1>5. LogInv'
  BY <1>0, <1>1, <1>2, GrownLog
<1> QED BY <1>1, <1>3, <1>4, <1>5

LEMMA ProposeStep ==
    ASSUME IInv, NEW c \in Cards, Propose(c)
    PROVE  IInv'
<1>0. /\ TypeOK /\ LogInv /\ Fresh /\ OpenCards /\ Saved /\ Bodies /\ Flying
      /\ Phases /\ Acted /\ Voided /\ Unended /\ Undisturbed
  BY DEF IInv
<1>1. /\ engine \in {"up", "stopping"} /\ future[c] = "none"
      /\ pending' = pending \cup {c}
      /\ future' = [future EXCEPT ![c] = "open"]
      /\ shown' = c
      /\ log' = Append(log, Card(c, 0))
      /\ waiter' = [waiter EXCEPT ![c] = IF Clients THEN "emitting" ELSE "waiting"]
      /\ UNCHANGED <<engine, closing, saved, stops, crashes, body, said, gen,
                     flights, accepted, taken, revived>>
  BY DEF Propose, lives, feedback, history
<1>2. /\ future'[c] = "open" /\ waiter'[c] \in {"emitting", "waiting"}
      /\ \A d \in Cards : d # c => future'[d] = future[d] /\ waiter'[d] = waiter[d]
      /\ pending \subseteq Cards
  BY <1>0, <1>1 DEF TypeOK
<1>3. /\ c \notin pending /\ ~ShownIn(log, c) /\ body[c] = 0
      /\ taken[c].res = "none"
  BY <1>0, <1>1 DEF Fresh
<1>4. /\ log' \in Seq(Entry) /\ LogInv'
      /\ ~ResolvedIn(log', c)
      /\ \E i \in DOMAIN log' : Newest(log', c, i) /\ log'[i].body = 0
      /\ \A d \in Cards : d # c =>
            /\ ShownIn(log', d) <=> ShownIn(log, d)
            /\ ResolvedIn(log', d) <=> ResolvedIn(log, d)
            /\ \A i \in DOMAIN log : Newest(log, d, i) => Newest(log', d, i)
      /\ \A i \in DOMAIN log : i \in DOMAIN log' /\ log'[i] = log[i]
      /\ \A i \in DOMAIN log' :
            (i \in DOMAIN log /\ log'[i] = log[i]) \/ log'[i] = Card(c, 0)
  <2>1. ~ResolvedIn(log, c) /\ \A i \in DOMAIN log : ~CardAt(log, i, c)
    BY <1>3 DEF ShownIn, ResolvedIn, CardAt
  <2> QED BY SMTT(30), <1>1, <2>1, CardKeeps
<1>5. Card(c, 0).what = "card" /\ Card(c, 0).card = c /\ Card(c, 0).body = 0
  BY DEF Card
<1>6. TypeOK'
  BY <1>0, <1>1, <1>4 DEF TypeOK
<1>7. Fresh'
  BY <1>0, <1>1, <1>2, <1>4 DEF Fresh
<1>8. OpenCards'
  <2>1. ASSUME NEW d \in pending, d # c
        PROVE  /\ d \in revived \/ ~ResolvedIn(log', d)
               /\ \E i \in DOMAIN log' : Newest(log', d, i) /\ log'[i].body = body[d]
               /\ waiter'[d] \in {"emitting", "waiting", "restored", "late", "cut"}
    BY <1>0, <1>2, <1>4, <2>1 DEF OpenCards
  <2> QED BY <1>1, <1>2, <1>3, <1>4, <2>1 DEF OpenCards
<1>16. Saved'
  <2>1. ASSUME NEW d \in saved
        PROVE  \E i \in DOMAIN log' : Newest(log', d, i) /\ log'[i].body = body[d]
    <3>1. d \in Cards
      BY <1>0 DEF TypeOK
    <3>2. PICK i \in DOMAIN log : Newest(log, d, i) /\ log[i].body = body[d]
      BY <1>0 DEF Saved
    <3>3. d # c
      BY <1>3, <3>2 DEF Newest, CardAt, ShownIn
    <3> QED BY <1>4, <3>1, <3>2, <3>3
  <2> QED BY <1>0, <1>1, <2>1 DEF Saved
<1>9. Bodies'
  <2>1. \A i \in DOMAIN log' : log'[i].what = "card" =>
                                   log'[i].body <= body[log'[i].card]
    BY <1>0, <1>3, <1>4, <1>5 DEF Bodies
  <2> QED BY <1>0, <1>1, <2>1 DEF Bodies
<1>10. Flying'
  BY <1>0, <1>1 DEF Flying
<1>11. Phases'
  <2>1. ASSUME NEW d \in ToSet(closing)
        PROVE  d \in Cards /\ future'[d] = "cancelled"
    <3>1. closing \in Seq(Cards)
      BY <1>0 DEF TypeOK
    <3>2. d \in Cards
      BY <3>1 DEF ToSet
    <3>3. future[d] = "cancelled"
      BY <1>0 DEF Phases
    <3>4. d # c
      BY <1>1, <3>3
    <3> QED BY <1>1, <3>2, <3>3, <3>4
  <2> QED BY <1>0, <1>1, <2>1 DEF Phases
<1>12. Acted'
  <2>1. ASSUME NEW d \in Cards, d # c
        PROVE  /\ taken[d].res # "none" =>
                      ResolvedIn(log', d) /\ (d \in pending' => d \in revived)
               /\ d \notin revived /\ taken[d].res = "approved" /\ ShownIn(log', d) =>
                      \E i \in DOMAIN log' :
                          Newest(log', d, i) /\ log'[i].body = taken[d].body
    BY <1>0, <1>1, <1>4, <2>1 DEF Acted
  <2> QED BY <1>1, <1>3, <2>1 DEF Acted
<1>13. Voided'
  BY <1>0, <1>1, <1>2, <1>4 DEF Voided
<1>14. Unended'
  BY <1>0, <1>1, <1>2, <1>4 DEF Unended
<1>15. Undisturbed'
  <2> SUFFICES ASSUME stops = 0, crashes = 0
               PROVE  /\ engine = "up"
                      /\ \A d \in Cards :
                            /\ waiter'[d] \notin {"restored", "late", "cut"}
                            /\ accepted[d] # "none" => future'[d] = accepted[d]
                            /\ \A i \in DOMAIN log' :
                                  log'[i].what = "resolved" /\ log'[i].card = d =>
                                      log'[i].res = future'[d] /\ Done(d)'
    BY <1>1 DEF Undisturbed
  <2>1. /\ engine = "up"
        /\ \A d \in Cards :
              /\ waiter[d] \notin {"restored", "late", "cut"}
              /\ accepted[d] # "none" => future[d] = accepted[d]
              /\ \A i \in DOMAIN log :
                    log[i].what = "resolved" /\ log[i].card = d =>
                        log[i].res = future[d] /\ Done(d)
    BY <1>0 DEF Undisturbed
  <2>2. accepted[c] = "none"
    BY <1>0, <1>1, <2>1 DEF TypeOK, Answers
  <2>3. \A i \in DOMAIN log' : log'[i].what = "resolved" =>
            i \in DOMAIN log /\ log'[i] = log[i] /\ log'[i].card # c
    BY <1>3, <1>4, <1>5 DEF ShownIn
  <2>4. \A d \in Cards : d # c => (Done(d) => Done(d)')
    BY <1>2 DEF Done
  <2> QED BY <1>2, <2>1, <2>2, <2>3, <2>4
<1> QED BY <1>4, <1>6, <1>7, <1>8, <1>9, <1>10, <1>11, <1>12, <1>13, <1>14,
           <1>15, <1>16 DEF IInv

LEMMA FeedbackStep ==
    ASSUME IInv, NEW c \in Cards, Feedback(c)
    PROVE  IInv'
<1>0. /\ TypeOK /\ LogInv /\ Fresh /\ OpenCards /\ Saved /\ Bodies /\ Flying
      /\ Phases /\ Acted /\ Voided /\ Unended /\ Undisturbed
  BY DEF IInv
<1>1. /\ engine = "up"
      /\ said' = [said EXCEPT ![c] = @ + 1] /\ gen' = [gen EXCEPT ![c] = @ + 1]
      /\ flights' \subseteq flights \cup {[card |-> c, gen |-> gen'[c], n |-> said'[c]]}
      /\ UNCHANGED <<engine, closing, saved, stops, crashes, log, pending, future,
                     body, waiter, shown, accepted, taken, revived>>
  BY DEF Feedback, lives, history, Survivors
<1>2. /\ said' \in [Cards -> Nat] /\ gen' \in [Cards -> Nat]
      /\ gen'[c] = gen[c] + 1 /\ said'[c] = said[c] + 1
      /\ \A d \in Cards : d # c => gen'[d] = gen[d] /\ said'[d] = said[d]
      /\ \A d \in Cards : gen[d] \in Nat /\ said[d] \in Nat /\ body[d] \in Nat
  BY <1>0, <1>1 DEF TypeOK
<1>3. TypeOK'
  BY <1>0, <1>1, <1>2, SMTT(30) DEF TypeOK
<1>4. Flying'
  <2>1. ASSUME NEW f \in flights'
        PROVE  f.gen <= gen'[f.card] /\ (f.gen = gen'[f.card] => f.n = said'[f.card])
    <3>1. CASE f \in flights
      <4>1. f.card \in Cards /\ f.gen \in Nat
        BY <1>0, <3>1 DEF TypeOK
      <4>2. f.gen <= gen[f.card] /\ (f.gen = gen[f.card] => f.n = said[f.card])
        BY <1>0, <3>1 DEF Flying
      <4>3. CASE f.card = c
        BY <1>2, <4>1, <4>2, <4>3
      <4>4. CASE f.card # c
        BY <1>2, <4>1, <4>2, <4>4
      <4> QED BY <4>3, <4>4
    <3>2. CASE f = [card |-> c, gen |-> gen'[c], n |-> said'[c]]
      BY <1>2, <3>2
    <3> QED BY <1>1, <3>1, <3>2
  <2> QED BY <2>1 DEF Flying
<1>5. Bodies'
  <2>1. \A d \in Cards : body[d] <= said'[d]
    BY <1>0, <1>2 DEF Bodies
  <2> QED BY <1>0, <1>1, <2>1 DEF Bodies
<1>6. LogInv'
  BY <1>0, <1>1, LogStands
<1>7. Fresh' /\ OpenCards' /\ Saved' /\ Acted' /\ Voided' /\ Unended'
  BY <1>0, <1>1 DEF Fresh, OpenCards, Saved, Acted, Voided, Unended
<1>8. Phases'
  BY <1>0, <1>1 DEF Phases
<1>9. Undisturbed'
  BY <1>0, <1>1 DEF Undisturbed, Done
<1> QED BY <1>3, <1>4, <1>5, <1>6, <1>7, <1>8, <1>9 DEF IInv

LEMMA FlightLandsStep ==
    ASSUME IInv, NEW f \in flights, NEW ok \in BOOLEAN, FlightLands(f, ok)
    PROVE  IInv'
<1>0. /\ TypeOK /\ LogInv /\ Fresh /\ OpenCards /\ Saved /\ Bodies /\ Flying
      /\ Phases /\ Acted /\ Voided /\ Unended /\ Undisturbed
  BY DEF IInv
<1> DEFINE c == f.card
<1>1. /\ engine \in {"up", "stopping"} /\ flights' \subseteq flights
      /\ c \in Cards /\ f.n \in Nat
      /\ UNCHANGED <<engine, closing, saved, stops, crashes, pending, future,
                     waiter, shown, said, gen, accepted, taken, revived>>
  BY <1>0 DEF FlightLands, lives, history, TypeOK
<1>2. Flying'
  BY <1>0, <1>1 DEF Flying
<1>3. Phases'
  BY <1>0, <1>1 DEF Phases
<1>4. CASE UNCHANGED <<body, log>>
  <2>1. LogInv'
    BY <1>0, <1>1, <1>4, LogStands
  <2>2. TypeOK'
    BY <1>0, <1>1, <1>4 DEF TypeOK
  <2>3. Fresh' /\ OpenCards' /\ Bodies' /\ Acted'
    BY <1>0, <1>1, <1>4 DEF Fresh, OpenCards, Bodies, Acted
  <2>6. Saved'
    BY <1>0, <1>1, <1>4 DEF Saved
  <2>5. Voided' /\ Unended'
    BY <1>0, <1>1, <1>4 DEF Voided, Unended
  <2>4. Undisturbed'
    BY <1>0, <1>1, <1>4 DEF Undisturbed, Done
  <2> QED BY <1>2, <1>3, <2>1, <2>2, <2>3, <2>4, <2>5, <2>6
          DEF IInv
<1>5. CASE ~UNCHANGED <<body, log>>
  <2>1. PICK b : /\ gen[c] = f.gen /\ c \in pending /\ ~Done(c)
                 /\ b \in {f.n, body[c]}
                 /\ body' = [body EXCEPT ![c] = b]
                 /\ log' = Append(log, Card(c, b))
    BY <1>5 DEF FlightLands, UpdateCard
  <2> HIDE DEF c
  <2>2. b \in Nat /\ body[c] <= b /\ b <= said[c]
    <3>1. body[c] \in Nat /\ said[c] \in Nat /\ body[c] <= said[c]
      BY <1>0, <1>1 DEF TypeOK, Bodies
    <3>2. f.n = said[c]
      BY <1>0, <2>1 DEF Flying, c
    <3> QED BY <2>1, <3>1, <3>2
  <2>3. /\ c \in revived \/ ~ResolvedIn(log, c)
        /\ ShownIn(log, c)
        /\ waiter[c] \in {"emitting", "waiting", "restored", "late", "cut"}
    BY <1>0, <2>1 DEF OpenCards, Newest, CardAt, ShownIn
  <2>4. \A i \in DOMAIN log : CardAt(log, i, c) => log[i].body <= b
    <3>1. \A i \in DOMAIN log : CardAt(log, i, c) => log[i].body <= body[c]
      BY <1>0 DEF Bodies, CardAt
    <3>2. \A i \in DOMAIN log : log[i].body \in Nat
      BY <1>0, EntryFields
    <3>3. body[c] \in Nat
      BY <1>0, <1>1 DEF TypeOK
    <3> QED BY ONLY <2>2, <3>1, <3>2, <3>3
  <2>5. /\ log' \in Seq(Entry) /\ LogInv'
        /\ ResolvedIn(log', c) <=> ResolvedIn(log, c)
        /\ \E i \in DOMAIN log' : Newest(log', c, i) /\ log'[i].body = b
        /\ \A d \in Cards : d # c =>
              /\ ShownIn(log', d) <=> ShownIn(log, d)
              /\ ResolvedIn(log', d) <=> ResolvedIn(log, d)
              /\ \A i \in DOMAIN log : Newest(log, d, i) => Newest(log', d, i)
        /\ \A i \in DOMAIN log : i \in DOMAIN log' /\ log'[i] = log[i]
        /\ \A i \in DOMAIN log' :
              (i \in DOMAIN log /\ log'[i] = log[i]) \/ log'[i] = Card(c, b)
    BY <1>1, <2>1, <2>2, <2>3, <2>4, CardKeeps
  <2>6. Card(c, b).what = "card" /\ Card(c, b).card = c /\ Card(c, b).body = b
    BY DEF Card
  <2>7. /\ body'[c] = b /\ body' \in [Cards -> Nat]
        /\ \A d \in Cards : d # c => body'[d] = body[d]
        /\ pending \subseteq Cards
    BY <1>0, <1>1, <2>1, <2>2 DEF TypeOK
  <2>8. TypeOK'
    BY <1>0, <1>1, <2>5, <2>7 DEF TypeOK
  <2>9. Fresh'
    BY <1>0, <1>1, <2>1, <2>3, <2>5, <2>7 DEF Fresh
  <2>10. OpenCards'
    <3>1. ASSUME NEW d \in pending, d # c
          PROVE  /\ d \in revived \/ ~ResolvedIn(log', d)
                 /\ \E i \in DOMAIN log' : Newest(log', d, i) /\ log'[i].body = body'[d]
                 /\ waiter[d] \in {"emitting", "waiting", "restored", "late", "cut"}
      BY <1>0, <2>5, <2>7, <3>1 DEF OpenCards
    <3> QED BY <1>1, <2>3, <2>5, <2>7, <3>1 DEF OpenCards
  <2>15. Saved'
    <3>1. ASSUME NEW d \in saved
          PROVE  \E i \in DOMAIN log' : Newest(log', d, i) /\ log'[i].body = body'[d]
      <4>1. d \in Cards
        BY <1>0 DEF TypeOK
      <4>2. CASE d = c
        BY <2>5, <2>7, <4>2
      <4>3. CASE d # c
        <5>1. PICK i \in DOMAIN log : Newest(log, d, i) /\ log[i].body = body[d]
          BY <1>0 DEF Saved
        <5> QED BY <2>5, <2>7, <4>1, <4>3, <5>1
      <4> QED BY <4>2, <4>3
    <3> QED BY <1>0, <1>1, <3>1 DEF Saved
  <2>16. Voided'
    BY <1>0, <1>1, <2>5 DEF Voided
  <2>11. Bodies'
    <3>1. ASSUME NEW i \in DOMAIN log', log'[i].what = "card"
          PROVE  log'[i].body <= body'[log'[i].card]
      <4>1. CASE log'[i] = Card(c, b)
        BY <2>2, <2>6, <2>7, <4>1
      <4>2. CASE i \in DOMAIN log /\ log'[i] = log[i] /\ log[i].card = c
        BY <2>4, <2>7, <3>1, <4>2 DEF CardAt
      <4>3. CASE i \in DOMAIN log /\ log'[i] = log[i] /\ log[i].card # c
        <5>1. log[i].card \in Cards
          BY <1>0, <4>3, EntryFields
        <5> QED BY <1>0, <2>7, <3>1, <4>3, <5>1 DEF Bodies
      <4> QED BY <2>5, <4>1, <4>2, <4>3
    <3>2. \A d \in Cards : body'[d] <= said[d]
      BY <1>0, <2>2, <2>7 DEF Bodies
    <3> QED BY <1>1, <3>1, <3>2 DEF Bodies
  <2>12. Acted'
    <3>1. taken[c].res # "none" => ResolvedIn(log', c) /\ c \in revived
      BY <1>0, <1>1, <2>1, <2>5 DEF Acted
    <3>2. ASSUME NEW d \in Cards, d # c
          PROVE  /\ taken[d].res # "none" =>
                        ResolvedIn(log', d) /\ (d \in pending => d \in revived)
                 /\ d \notin revived /\ taken[d].res = "approved" /\ ShownIn(log', d) =>
                        \E i \in DOMAIN log' :
                            Newest(log', d, i) /\ log'[i].body = taken[d].body
      BY <1>0, <2>5, <3>2 DEF Acted
    <3> QED BY <1>1, <3>1, <3>2 DEF Acted
  <2>13. Unended'
    BY <1>0, <1>1, <2>1, <2>5 DEF Unended
  <2>14. Undisturbed'
    <3>1. \A i \in DOMAIN log' : log'[i].what = "resolved" =>
              i \in DOMAIN log /\ log'[i] = log[i]
      BY <2>5, <2>6
    <3> QED BY <1>0, <1>1, <3>1 DEF Undisturbed, Done
  <2> QED BY <1>2, <1>3, <2>5, <2>8, <2>9, <2>10, <2>11, <2>12, <2>13, <2>14,
             <2>15, <2>16 DEF IInv
<1> QED BY <1>4, <1>5

-----------------------------------------------------------------------------
(* Stop, crash and start                                                   *)

\* The sequence a set is turned into.
LEMMA SetToSeqSet ==
    ASSUME NEW S, IsFiniteSet(S)
    PROVE  SetToSeq(S) \in Seq(S) /\ ToSet(SetToSeq(S)) \subseteq S
<1> DEFINE N == Cardinality(S)
<1>1. N \in Nat /\ ExistsBijection(1 .. N, S)
  BY FS_CardinalityType
<1> HIDE DEF N
<1>2. PICK f \in [1 .. N -> S] : IsInjective(f)
  BY <1>1 DEF ExistsBijection, Bijection, Injection
<1>3. SetToSeq(S) \in [1 .. N -> S]
  BY <1>2 DEF SetToSeq, N
<1> QED BY <1>1, <1>3 DEF ToSet

LEMMA StopBeginsStep ==
    ASSUME IInv, NEW replace \in BOOLEAN, StopBegins(replace)
    PROVE  IInv'
<1>0. /\ TypeOK /\ LogInv /\ Fresh /\ OpenCards /\ Saved /\ Bodies /\ Flying
      /\ Phases /\ Acted /\ Voided /\ Unended
  BY DEF IInv
<1> DEFINE S == {c \in pending : ~Done(c)}
<1>1. /\ engine = "up" /\ engine' = "stopping" /\ stops' = stops + 1
      /\ saved' \subseteq pending /\ closing' = SetToSeq(S)
      /\ future' = [c \in Cards |->
                       IF c \in pending /\ ~Done(c) THEN "cancelled" ELSE future[c]]
      /\ UNCHANGED <<log, pending, body, waiter, shown, said, gen, flights, accepted,
                     taken, revived, crashes>>
  BY DEF StopBegins, feedback, history
<1>2. S \subseteq Cards /\ closing' \in Seq(Cards) /\ ToSet(closing') \subseteq S
  <2>1. S \subseteq Cards
    BY <1>0 DEF TypeOK
  <2> HIDE DEF S
  <2>2. IsFiniteSet(S)
    BY <2>1, GateAssumption, FS_Subset
  <2>3. SetToSeq(S) \in Seq(S) /\ ToSet(SetToSeq(S)) \subseteq S
    BY <2>2, SetToSeqSet
  <2> QED BY <1>1, <2>1, <2>3
<1>3. \A c \in Cards : future'[c] = future[c] \/
          (c \in pending /\ future[c] = "open" /\ future'[c] = "cancelled")
  BY <1>0, <1>1 DEF TypeOK, Done, Fresh
<1>4. TypeOK'
  <2>1. future' \in [Cards -> Resolutions \cup {"none", "open"}]
    BY <1>0, <1>1 DEF TypeOK, Resolutions
  <2> QED BY <1>0, <1>1, <1>2, <2>1, SMTT(30) DEF TypeOK
<1>5. LogInv'
  BY <1>0, <1>1, LogStands
<1>6. Fresh' /\ OpenCards' /\ Saved' /\ Bodies' /\ Flying' /\ Acted'
  <2>1. Fresh'
    BY <1>0, <1>1, <1>3 DEF Fresh
  <2>2. Saved'
    BY <1>0, <1>1 DEF OpenCards, Saved
  <2> QED BY <1>0, <1>1, <2>1, <2>2 DEF OpenCards, Bodies, Flying, Acted
<1>7. Phases'
  <2>1. \A c \in ToSet(closing') : future'[c] = "cancelled"
    BY <1>1, <1>2
  <2> QED BY <1>1, <2>1 DEF Phases
<1>8. Voided'
  BY <1>0, <1>1, <1>3 DEF Voided
<1>9. Unended'
  BY <1>0, <1>1 DEF Unended
<1>10. Undisturbed'
  <2>1. stops' # 0
    BY <1>0, <1>1 DEF TypeOK
  <2> QED BY <2>1 DEF Undisturbed
<1> QED BY <1>4, <1>5, <1>6, <1>7, <1>8, <1>9, <1>10 DEF IInv

LEMMA StopEndsStep ==
    ASSUME IInv, StopEnds
    PROVE  IInv'
<1>0. /\ TypeOK /\ LogInv /\ Fresh /\ OpenCards /\ Saved /\ Bodies /\ Flying
      /\ Phases /\ Acted /\ Voided /\ Unended /\ Undisturbed
  BY DEF IInv
<1>1. /\ engine = "stopping" /\ engine' = "stopped" /\ closing = <<>>
      /\ \A c \in Cards : waiter[c] \in {"none", "gone", "cut"}
      /\ pending' = {} /\ flights' = {}
      /\ UNCHANGED <<closing, saved, stops, crashes, log, future, body, waiter,
                     shown, said, gen, accepted, taken, revived>>
  BY DEF StopEnds, history
<1>2. TypeOK'
  BY <1>0, <1>1 DEF TypeOK
<1>3. LogInv'
  BY <1>0, <1>1, LogStands
<1>4. Fresh' /\ OpenCards' /\ Saved' /\ Bodies' /\ Flying' /\ Acted'
  BY <1>0, <1>1 DEF Fresh, OpenCards, Saved, Bodies, Flying, Acted
<1>5. Phases'
  BY <1>0, <1>1 DEF Phases
<1>6. Voided'
  BY <1>0, <1>1 DEF Voided
<1>7. Unended'
  <2>1. \A c \in pending : waiter[c] = "cut"
    BY <1>0, <1>1 DEF OpenCards, TypeOK
  <2> QED BY <1>0, <1>1, <2>1 DEF Unended
<1>8. Undisturbed'
  BY <1>0, <1>1 DEF Undisturbed
<1> QED BY <1>2, <1>3, <1>4, <1>5, <1>6, <1>7, <1>8 DEF IInv

LEMMA ReopenStep ==
    ASSUME IInv, Reopen
    PROVE  IInv'
<1>0. /\ TypeOK /\ LogInv /\ Fresh /\ OpenCards /\ Saved /\ Bodies /\ Flying
      /\ Phases /\ Acted /\ Voided /\ Unended /\ Undisturbed
  BY DEF IInv
<1>1. /\ engine = "stopped" /\ engine' = "up" /\ saved' = {}
      /\ pending' = saved
      /\ future' = [c \in Cards |-> IF c \in saved THEN "open" ELSE future[c]]
      /\ waiter' = [c \in Cards |-> IF c \in saved THEN "restored" ELSE waiter[c]]
      /\ shown' \in IF saved = {} THEN {shown} ELSE saved
      /\ accepted' = [c \in Cards |-> IF c \in saved THEN "none" ELSE accepted[c]]
      /\ revived' = revived \cup {c \in saved : ResolvedIn(log, c)}
      /\ UNCHANGED <<closing, stops, crashes, log, body, said, gen, flights, taken>>
  BY DEF Reopen, Restore, feedback
<1>2. /\ saved \subseteq Cards /\ shown' \in Cards \cup {NoCard}
      /\ revived' \subseteq Cards /\ revived \subseteq revived'
  BY <1>0, <1>1 DEF TypeOK
<1>3. TypeOK'
  <2>1. /\ waiter' \in [Cards -> {"none", "emitting", "waiting", "restored", "late",
                                 "gone", "cut"}]
        /\ future' \in [Cards -> Resolutions \cup {"none", "open"}]
        /\ accepted' \in [Cards -> Answers \cup {"none"}]
    BY <1>0, <1>1 DEF TypeOK
  <2> QED BY <1>0, <1>1, <1>2, <2>1 DEF TypeOK
<1>4. LogInv'
  BY <1>0, <1>1, <1>2, LogStands
<1>5. Fresh' /\ Bodies' /\ Flying'
  <2>1. \A c \in saved : ShownIn(log, c)
    BY <1>0 DEF Saved, Newest, CardAt, ShownIn
  <2> QED BY <1>0, <1>1, <2>1 DEF Fresh, Bodies, Flying
<1>6. OpenCards' /\ Saved'
  BY <1>0, <1>1, <1>2 DEF OpenCards, Saved
<1>7. Acted'
  BY <1>0, <1>1, <1>2 DEF Acted
<1>8. Phases' /\ Voided'
  BY <1>0, <1>1, <1>2 DEF Phases, Voided, ToSet
<1>9. Unended'
  BY <1>0, <1>1, <1>2 DEF Phases, Unended
<1>10. Undisturbed'
  BY <1>0, <1>1 DEF Undisturbed
<1> QED BY <1>3, <1>4, <1>5, <1>6, <1>7, <1>8, <1>9, <1>10 DEF IInv

LEMMA CrashStep ==
    ASSUME IInv, Crash
    PROVE  IInv'
<1>0. /\ TypeOK /\ LogInv /\ Fresh /\ Bodies
  BY DEF IInv
<1>1. /\ engine' = "dead" /\ crashes' = crashes + 1
      /\ pending' = {} /\ shown' = NoCard /\ closing' = <<>> /\ saved' = {}
      /\ waiter' = [c \in Cards |-> IF waiter[c] = "none" THEN "none" ELSE "gone"]
      /\ future' = [c \in Cards |-> IF future[c] = "none" THEN "none" ELSE "cancelled"]
      /\ flights' = {}
      /\ accepted' = [c \in Cards |-> "none"]
      /\ taken' = [c \in Cards |-> [res |-> "none", body |-> 0]]
      /\ UNCHANGED <<stops, body, said, gen, revived>>
  BY DEF Crash
<1>2. PICK n \in 0 .. Len(log) : log' = SubSeq(log, 1, n)
  BY DEF Crash
<1>3. /\ LogInv' /\ log' \in Seq(Entry)
      /\ \A i \in DOMAIN log' : i \in DOMAIN log /\ log'[i] = log[i]
  BY <1>0, <1>1, <1>2, CutLog
<1>4. TypeOK'
  <2>1. /\ waiter' \in [Cards -> {"none", "emitting", "waiting", "restored", "late",
                                 "gone", "cut"}]
        /\ future' \in [Cards -> Resolutions \cup {"none", "open"}]
        /\ closing' \in Seq(Cards)
        /\ taken' \in [Cards -> [res : Resolutions \cup {"none"}, body : Nat]]
        /\ accepted' \in [Cards -> Answers \cup {"none"}]
    BY <1>1 DEF Resolutions
  <2> QED BY <1>0, <1>1, <1>3, <2>1 DEF TypeOK
<1>5. Fresh'
  <2>1. \A c \in Cards : ShownIn(log', c) => ShownIn(log, c)
    BY <1>3 DEF ShownIn
  <2> QED BY <1>0, <1>1, <2>1 DEF Fresh
<1>6. OpenCards' /\ Saved' /\ Flying' /\ Acted' /\ Voided' /\ Unended'
  BY <1>1 DEF OpenCards, Saved, Flying, Acted, Voided, Unended
<1>7. Bodies'
  BY <1>0, <1>1, <1>3 DEF Bodies
<1>8. Phases'
  BY <1>1 DEF Phases, ToSet
<1>9. Undisturbed'
  <2>1. crashes' # 0
    BY <1>0, <1>1 DEF TypeOK
  <2> QED BY <2>1 DEF Undisturbed
<1> QED BY <1>3, <1>4, <1>5, <1>6, <1>7, <1>8, <1>9 DEF IInv

LEMMA BootStep ==
    ASSUME IInv, Boot
    PROVE  IInv'
<1>0. /\ TypeOK /\ LogInv /\ Fresh /\ OpenCards /\ Saved /\ Bodies /\ Flying
      /\ Phases /\ Acted /\ Voided /\ Unended /\ Undisturbed
  BY DEF IInv
<1>1. /\ engine = "dead" /\ engine' = "up" /\ pending' = Unresolved
      /\ future' = [c \in Cards |-> IF c \in Unresolved THEN "open" ELSE future[c]]
      /\ waiter' = [c \in Cards |-> IF c \in Unresolved THEN "restored" ELSE waiter[c]]
      /\ shown' \in IF Unresolved = {} THEN {NoCard} ELSE Unresolved
      /\ body' = [c \in Cards |-> IF c \in Unresolved THEN LastBody(c) ELSE body[c]]
      /\ UNCHANGED <<closing, saved, stops, crashes, log, said, gen, flights,
                     accepted, taken, revived>>
  BY DEF Boot, Restore, feedback, history
<1>2. Unresolved \subseteq Cards
  BY <1>0, EntryFields DEF Unresolved
<1>3. \A c \in Cards : c \in Unresolved <=> ShownIn(log, c) /\ ~ResolvedIn(log, c)
  BY DEF Unresolved, ShownIn
<1>4. ASSUME NEW c \in Unresolved
      PROVE  \E i \in DOMAIN log : Newest(log, c, i) /\ log[i].body = LastBody(c)
  <2>1. c \in Cards
    BY <1>2
  <2>2. PICK k \in DOMAIN log : log[k].card = c
    BY <1>3, <2>1 DEF ShownIn
  <2>3. CardAt(log, k, c)
    BY <1>0, <1>3, <2>1, <2>2, EntryFields DEF CardAt, ResolvedIn
  <2>4. PICK i \in DOMAIN log : Newest(log, c, i)
    BY <1>0, <2>1, <2>3, ShownHasNewest
  <2> QED BY <1>0, <2>4, LastBodyIs
<1>5. ASSUME NEW c \in Unresolved
      PROVE  /\ LastBody(c) \in Nat /\ LastBody(c) <= said[c]
             /\ \A i \in DOMAIN log : CardAt(log, i, c) => log[i].body <= LastBody(c)
  <2>1. PICK n \in DOMAIN log : Newest(log, c, n) /\ log[n].body = LastBody(c)
    BY <1>4
  <2>2. /\ c \in Cards /\ log[n].what = "card" /\ log[n].card = c
        /\ log[n].body \in Nat
    BY <1>0, <1>2, <2>1, EntryFields DEF Newest, CardAt
  <2>3. LastBody(c) <= said[c]
    <3>1. log[n].body <= body[c] /\ body[c] <= said[c]
      BY <1>0, <2>2 DEF Bodies
    <3>2. body[c] \in Nat /\ said[c] \in Nat
      BY <1>0, <2>2 DEF TypeOK
    <3> QED BY <2>1, <2>2, <3>1, <3>2
  <2>4. ASSUME NEW i \in DOMAIN log, CardAt(log, i, c)
        PROVE  log[i].body <= LastBody(c)
    <3>1. i <= n /\ i \in Nat /\ n \in Nat
      BY <1>0, <2>1, <2>4, EntryFields DEF Newest
    <3>2. CASE i = n
      BY <2>1, <2>2, <3>2
    <3>3. CASE i < n
      BY <1>0, <2>1, <2>2, <2>4, <3>3 DEF LogInv, FeedbackInOrder, CardAt
    <3> QED BY <3>1, <3>2, <3>3
  <2> QED BY <2>1, <2>2, <2>3, <2>4
<1>6. /\ body' \in [Cards -> Nat]
      /\ \A c \in Cards : body'[c] <= said[c]
      /\ \A c \in Unresolved : body'[c] = LastBody(c)
      /\ \A c \in Cards \ Unresolved : body'[c] = body[c]
  BY <1>0, <1>1, <1>2, <1>5 DEF TypeOK, Bodies
<1>7. TypeOK'
  <2>1. /\ waiter' \in [Cards -> {"none", "emitting", "waiting", "restored", "late",
                                 "gone", "cut"}]
        /\ future' \in [Cards -> Resolutions \cup {"none", "open"}]
    BY <1>0, <1>1 DEF TypeOK
  <2>2. shown' \in Cards \cup {NoCard}
    BY <1>1, <1>2
  <2> QED BY <1>0, <1>1, <1>2, <1>6, <2>1, <2>2 DEF TypeOK
<1>8. LogInv'
  BY <1>0, <1>1, LogStands
<1>9. Fresh'
  BY <1>0, <1>1, <1>2, <1>3, <1>6 DEF Fresh
<1>10. OpenCards' /\ Saved'
  BY <1>0, <1>1, <1>2, <1>3, <1>4, <1>6 DEF OpenCards, Saved
<1>11. Bodies'
  <2>1. ASSUME NEW i \in DOMAIN log, log[i].what = "card"
        PROVE  log[i].body <= body'[log[i].card]
    <3>1. log[i].card \in Cards
      BY <1>0, EntryFields
    <3>2. CASE log[i].card \in Unresolved
      BY <1>5, <1>6, <2>1, <3>2 DEF CardAt
    <3>3. CASE log[i].card \notin Unresolved
      BY <1>0, <1>6, <2>1, <3>1, <3>3 DEF Bodies
    <3> QED BY <3>2, <3>3
  <2> QED BY <1>1, <1>6, <2>1 DEF Bodies
<1>12. Flying'
  BY <1>0, <1>1 DEF Flying
<1>13. Phases'
  <2>1. closing = <<>>
    BY <1>0, <1>1 DEF Phases
  <2> QED BY <1>0, <1>1, <2>1 DEF Phases, ToSet
<1>14. Acted'
  BY <1>0, <1>1 DEF Phases, Acted
<1>15. Voided'
  BY <1>0, <1>1 DEF Phases, Voided
<1>16. Unended'
  BY <1>1, <1>3 DEF Unended
<1>17. Undisturbed'
  BY <1>0, <1>1 DEF Undisturbed
<1> QED BY <1>7, <1>8, <1>9, <1>10, <1>11, <1>12, <1>13, <1>14, <1>15, <1>16,
           <1>17 DEF IInv

-----------------------------------------------------------------------------
(* The theorems                                                            *)

LEMMA InitInvariant == Init => IInv
<1> SUFFICES ASSUME Init PROVE IInv
  OBVIOUS
<1> USE DEF Init
<1>1. TypeOK
  BY DEF TypeOK
<1>2. LogInv
  BY DEF LogInv, ResolvedOnce, NoGhostCard, FeedbackInOrder, HasNewest
<1>3. Fresh /\ OpenCards /\ Saved /\ Bodies /\ Flying
  BY DEF Fresh, OpenCards, Saved, Bodies, Flying, ShownIn
<1>4. Phases /\ Acted /\ Voided /\ Unended
  BY DEF Phases, Acted, Voided, Unended, ShownIn, ToSet
<1>5. Undisturbed
  BY DEF Undisturbed
<1> QED BY <1>1, <1>2, <1>3, <1>4, <1>5 DEF IInv

LEMMA StutterStep ==
    ASSUME IInv, UNCHANGED vars
    PROVE  IInv'
<1>1. UNCHANGED <<engine, closing, saved, stops, crashes, log, pending, future, body,
                  waiter, shown, said, gen, flights, accepted, taken, revived>>
  BY DEF vars, lives, feedback, history
<1>2. /\ TypeOK /\ LogInv /\ Fresh /\ OpenCards /\ Saved /\ Bodies /\ Flying
      /\ Phases /\ Acted /\ Voided /\ Unended /\ Undisturbed
  BY DEF IInv
<1>3. TypeOK'
  BY <1>1, <1>2 DEF TypeOK
<1>4. LogInv'
  BY <1>1, <1>2, LogStands
<1>5. Fresh' /\ OpenCards' /\ Saved' /\ Bodies' /\ Flying' /\ Acted' /\ Voided' /\ Unended'
  BY <1>1, <1>2 DEF Fresh, OpenCards, Saved, Bodies, Flying, Acted, Voided, Unended
<1>6. Phases' /\ Undisturbed'
  BY <1>1, <1>2 DEF Phases, Undisturbed, Done
<1> QED BY <1>3, <1>4, <1>5, <1>6 DEF IInv

LEMMA StepInvariant ==
    ASSUME IInv, [Next]_vars
    PROVE  IInv'
<1>1. CASE Turns
  BY <1>1, ProposeStep, BroadcastDoneStep, ExpireStep, ResumeStep,
     ResumeRestoredStep DEF Turns
<1>2. CASE User
  BY <1>2, FeedbackStep, AnswerStep, NewMessageStep DEF User
<1>3. CASE Flights
  BY <1>3, FlightLandsStep DEF Flights
<1>4. CASE Stopping
  <2>1. CASE \E replace \in BOOLEAN : StopBegins(replace)
    BY <2>1, StopBeginsStep
  <2>2. CASE StopSettles \/ StopEnds \/ Reopen
    BY <2>2, StopSettlesStep, StopEndsStep, ReopenStep
  <2>3. CASE \E c \in Cards : StopCancels(c)
    <3>1. PICK c \in Cards : StopCancels(c)
      BY <2>3
    <3>2. waiter[c] = "waiting" \/ waiter[c] = "emitting"
      BY <3>1 DEF StopCancels
    <3> QED BY <3>1, <3>2, StopCancelsWaiting, StopCancelsEmitting
  <2> QED BY <1>4, <2>1, <2>2, <2>3 DEF Stopping
<1>5. CASE Crash
  BY <1>5, CrashStep
<1>6. CASE Boot
  BY <1>6, BootStep
<1>7. CASE UNCHANGED vars
  BY <1>7, StutterStep
<1> QED BY <1>1, <1>2, <1>3, <1>4, <1>5, <1>6, <1>7 DEF Next

\* The inductive invariant holds in every reachable state of a gate
\* (gate.py with its callers).
THEOREM InvariantHolds == Spec => []IInv
<1>1. IInv /\ [Next]_vars => IInv'
  BY StepInvariant
<1> QED BY <1>1, InitInvariant, PTL DEF Spec

\* Type correctness of the gate.
THEOREM TypeCorrect == Spec => []TypeOK
<1>1. IInv => TypeOK
  BY DEF IInv
<1> QED BY <1>1, InvariantHolds, PTL

\* A card gets at most one resolution (gate.py _settle, "exactly once").
THEOREM CardResolvedOnce == Spec => []ResolvedOnce
<1>1. IInv => ResolvedOnce
  BY DEF IInv, LogInv
<1> QED BY <1>1, InvariantHolds, PTL

\* No feedback flight shows a card again after its resolution
\* (engine.py _run_feedback_flight, gate.py update_card).
THEOREM NoCardReturns == Spec => []NoGhostCard
<1>1. IInv => NoGhostCard
  BY DEF IInv, LogInv
<1> QED BY <1>1, InvariantHolds, PTL

\* Flights that end out of order do not undo later feedback
\* (engine.py adjust_instruction, the generations).
THEOREM FeedbackStaysInOrder == Spec => []FeedbackInOrder
<1>1. IInv => FeedbackInOrder
  BY DEF IInv, LogInv
<1> QED BY <1>1, InvariantHolds, PTL

\* The turn acts on the card as it was last shown (gate.py propose).
THEOREM TurnActsOnWhatWasShown == Spec => []ApprovedAsShown
<1>1. IInv => ApprovedAsShown
  <2> SUFFICES ASSUME IInv, NEW c \in Cards \ revived, taken[c].res = "approved",
                      \E i \in DOMAIN log : log[i].card = c
               PROVE  taken[c].body = LastBody(c)
    BY DEF ApprovedAsShown
  <2>1. TypeOK /\ Acted /\ ShownIn(log, c)
    BY DEF IInv, ShownIn
  <2>2. PICK i \in DOMAIN log : Newest(log, c, i) /\ log[i].body = taken[c].body
    BY <2>1 DEF Acted
  <2> QED BY <2>1, <2>2, LastBodyIs
<1> QED BY <1>1, InvariantHolds, PTL

\* An answer that was accepted decides the card (gate.py resolve).
THEOREM AnswerDecides == Spec => []AnswerHonoured
<1>1. IInv => AnswerHonoured
  BY DEF IInv, Undisturbed, AnswerHonoured
<1> QED BY <1>1, InvariantHolds, PTL

\* A stopped engine leaves no card open, but for a turn that was cut off
\* inside the emit of its card (gate.py cancel_all_settled, propose).
THEOREM StopLeavesNoCard == Spec => []StopSettlesAll
<1>1. IInv => StopSettlesAll
  <2> SUFFICES ASSUME IInv, engine = "stopped", NEW c \in Unresolved
               PROVE  waiter[c] = "cut"
    BY DEF StopSettlesAll
  <2>1. TypeOK /\ Phases /\ Unended
    BY DEF IInv
  <2>2. c \in Cards /\ ShownIn(log, c) /\ ~ResolvedIn(log, c)
    BY <2>1, EntryFields DEF Unresolved, ShownIn
  <2> QED BY <2>1, <2>2 DEF Phases, Unended
<1> QED BY <1>1, InvariantHolds, PTL
=============================================================================
