--------------------------- MODULE DeliveryProofs ---------------------------
(***************************************************************************)
(* Theorems about Delivery, for every set of projects, every size of the   *)
(* handshake buffer and every bound, with restarts that lose the high-     *)
(* water mark as well.                                                     *)
(*                                                                         *)
(* A message is shown twice when it is appended to a conversation that has *)
(* it.  The invariant says why it is not: what a conversation shows is at  *)
(* or below the watermark of its project, or the dedup set knows it; and   *)
(* the watermark is never set below what is still in the handshake buffer. *)
(*                                                                         *)
(* A project whose snapshot was asked for has no hole because the request  *)
(* is on its way, or the newest snapshot is, or everything up to the       *)
(* watermark is shown and only newer events are on their way (Served).     *)
(*                                                                         *)
(* The end of a handshake loses nothing because what comes in during it is *)
(* newer than the watermark the client had at its start (Ahead), and the   *)
(* drain takes it in the order of the seqs.                                *)
(***************************************************************************)
EXTENDS Delivery, WellFoundedInduction, FunctionTheorems, FiniteSetTheorems, TLAPS

-----------------------------------------------------------------------------
(* Sequences                                                               *)

\* What a sequence is made of when it grows at its end.
LEMMA AppendSet ==
    ASSUME NEW S, NEW s \in Seq(S), NEW e \in S
    PROVE  /\ Append(s, e) \in Seq(S) /\ DOMAIN Append(s, e) = 1 .. Len(s) + 1
           /\ \A i \in 1 .. Len(s) : Append(s, e)[i] = s[i]
           /\ Append(s, e)[Len(s) + 1] = e /\ Append(s, e) # <<>>
           /\ ToSet(Append(s, e)) = ToSet(s) \cup {e}
<1>1. /\ Append(s, e) \in Seq(S)
      /\ Len(Append(s, e)) = Len(s) + 1
      /\ \A i \in 1 .. Len(s) : Append(s, e)[i] = s[i]
      /\ Append(s, e)[Len(s) + 1] = e
  OBVIOUS
<1>2. DOMAIN Append(s, e) = 1 .. Len(s) + 1 /\ DOMAIN s = 1 .. Len(s)
  BY <1>1
<1>3. ToSet(Append(s, e)) = ToSet(s) \cup {e}
  BY <1>1, <1>2 DEF ToSet
<1> QED BY <1>1, <1>2, <1>3

\* And when its first element is taken.
LEMMA TailSet ==
    ASSUME NEW S, NEW s \in Seq(S), s # <<>>
    PROVE  /\ Tail(s) \in Seq(S) /\ DOMAIN Tail(s) = 1 .. Len(s) - 1
           /\ Head(s) = s[1] /\ Head(s) \in S /\ Head(s) \in ToSet(s)
           /\ \A i \in 1 .. Len(s) - 1 : Tail(s)[i] = s[i + 1]
           /\ ToSet(Tail(s)) \subseteq ToSet(s)
           /\ Len(s) \in Nat \ {0} /\ DOMAIN s = 1 .. Len(s)
<1>1. /\ Tail(s) \in Seq(S)
      /\ Len(Tail(s)) = Len(s) - 1
      /\ \A i \in 1 .. Len(s) - 1 : Tail(s)[i] = s[i + 1]
      /\ Head(s) = s[1] /\ Head(s) \in S
      /\ Len(s) \in Nat \ {0}
  OBVIOUS
<1>2. DOMAIN Tail(s) = 1 .. Len(s) - 1 /\ DOMAIN s = 1 .. Len(s)
  BY <1>1
<1>3. ToSet(Tail(s)) \subseteq ToSet(s) /\ Head(s) \in ToSet(s)
  BY <1>1, <1>2 DEF ToSet
<1> QED BY <1>1, <1>2, <1>3

\* What a concatenation is made of.
LEMMA ConcatSet ==
    ASSUME NEW S, NEW s \in Seq(S), NEW u \in Seq(S)
    PROVE  /\ s \o u \in Seq(S) /\ Len(s) \in Nat /\ Len(u) \in Nat
           /\ DOMAIN (s \o u) = 1 .. Len(s) + Len(u)
           /\ \A i \in 1 .. Len(s) : (s \o u)[i] = s[i]
           /\ \A i \in 1 .. Len(s) + Len(u) :
                 (s \o u)[i] \in ToSet(s) \cup ToSet(u)
           /\ ToSet(s \o u) \subseteq ToSet(s) \cup ToSet(u)
<1>1. /\ s \o u \in Seq(S) /\ Len(s \o u) = Len(s) + Len(u)
      /\ Len(s) \in Nat /\ Len(u) \in Nat
      /\ \A i \in 1 .. Len(s) : (s \o u)[i] = s[i]
      /\ \A i \in 1 .. Len(u) : (s \o u)[Len(s) + i] = u[i]
  OBVIOUS
<1>2. /\ DOMAIN s = 1 .. Len(s) /\ DOMAIN u = 1 .. Len(u)
      /\ DOMAIN (s \o u) = 1 .. Len(s) + Len(u)
  BY <1>1
<1>3. ASSUME NEW i \in 1 .. Len(s) + Len(u)
      PROVE  (s \o u)[i] \in ToSet(s) \cup ToSet(u)
  <2>1. CASE i \in 1 .. Len(s)
    BY <1>1, <1>2, <2>1 DEF ToSet
  <2>2. CASE i \notin 1 .. Len(s)
    <3>1. i - Len(s) \in 1 .. Len(u) /\ i = Len(s) + (i - Len(s))
      BY <1>1, <2>2
    <3>2. (s \o u)[i] = u[i - Len(s)]
      BY <1>1, <3>1
    <3> QED BY <1>2, <3>1, <3>2 DEF ToSet
  <2> QED BY <2>1, <2>2
<1>4. ToSet(s \o u) \subseteq ToSet(s) \cup ToSet(u)
  BY <1>2, <1>3 DEF ToSet
<1> QED BY <1>1, <1>2, <1>3, <1>4

\* Concatenation is associative.
LEMMA Regroup ==
    ASSUME NEW S, NEW s \in Seq(S), NEW u \in Seq(S), NEW v \in Seq(S)
    PROVE  (s \o u) \o v = s \o (u \o v)
<1> DEFINE a == (s \o u) \o v
           b == s \o (u \o v)
<1>1. /\ s \o u \in Seq(S) /\ u \o v \in Seq(S) /\ Len(s) \in Nat /\ Len(u) \in Nat
      /\ Len(v) \in Nat /\ Len(s \o u) = Len(s) + Len(u)
      /\ Len(u \o v) = Len(u) + Len(v)
  OBVIOUS
<1>2. /\ a \in Seq(S) /\ b \in Seq(S) /\ Len(a) = (Len(s) + Len(u)) + Len(v)
      /\ Len(b) = Len(s) + (Len(u) + Len(v))
  BY <1>1
<1>3. ASSUME NEW i \in 1 .. Len(s) + Len(u) + Len(v) PROVE a[i] = b[i]
  <2>1. CASE i <= Len(s)
    <3>1. a[i] = (s \o u)[i]
      BY <1>1, <2>1
    <3>2. (s \o u)[i] = s[i]
      BY <1>1, <2>1
    <3>3. b[i] = s[i]
      BY <1>1, <2>1
    <3> QED BY <3>1, <3>2, <3>3
  <2>2. CASE Len(s) < i /\ i <= Len(s) + Len(u)
    <3>1. a[i] = (s \o u)[i]
      BY <1>1, <2>2
    <3>2. (s \o u)[i] = u[i - Len(s)]
      BY <1>1, <2>2
    <3>3. b[i] = (u \o v)[i - Len(s)]
      BY <1>1, <2>2
    <3>4. (u \o v)[i - Len(s)] = u[i - Len(s)]
      BY <1>1, <2>2
    <3> QED BY <3>1, <3>2, <3>3, <3>4
  <2>3. CASE Len(s) + Len(u) < i
    <3>1. a[i] = v[i - (Len(s) + Len(u))]
      BY <1>1, <2>3
    <3>2. b[i] = (u \o v)[i - Len(s)]
      BY <1>1, <2>3
    <3>3. (u \o v)[i - Len(s)] = v[(i - Len(s)) - Len(u)]
      BY <1>1, <2>3
    <3>4. (i - Len(s)) - Len(u) = i - (Len(s) + Len(u))
      BY <1>1
    <3> QED BY <3>1, <3>2, <3>3, <3>4
  <2> QED BY <1>1, <2>1, <2>2, <2>3
<1> HIDE DEF a, b
<1>4. Len(a) = Len(b) /\ Len(a) = Len(s) + Len(u) + Len(v)
  BY <1>1, <1>2
<1> DEFINE n == Len(s) + Len(u) + Len(v)
<1>5. Len(a) = n /\ Len(b) = n
  BY <1>4
<1>6. \A i \in 1 .. n : a[i] = b[i]
  BY <1>3
<1> HIDE DEF n
<1>7. a \in [1 .. n -> S]
  <2>1. a \in Seq(S)
    BY <1>2
  <2> QED BY <1>5, <2>1
<1>8. b \in [1 .. n -> S]
  <2>1. b \in Seq(S)
    BY <1>2
  <2> QED BY <1>5, <2>1
<1>9. a = b
  <2>1. a = [i \in 1 .. n |-> a[i]]
    BY <1>7
  <2>2. b = [i \in 1 .. n |-> b[i]]
    BY <1>8
  <2>3. [i \in 1 .. n |-> a[i]] = [i \in 1 .. n |-> b[i]]
    BY <1>6
  <2> QED BY <2>1, <2>2, <2>3
<1> QED BY <1>9 DEF a, b

\* A finite set can be listed.
LEMMA Listing ==
    ASSUME NEW S, IsFiniteSet(S)
    PROVE  SetToSeq(S) \in Seq(S)
<1>1. Cardinality(S) \in Nat /\ ExistsBijection(1 .. Cardinality(S), S)
  BY FS_CardinalityType
<1>2. PICK f \in [1 .. Cardinality(S) -> S] : IsInjective(f)
  BY <1>1 DEF ExistsBijection, Bijection, Injection, IsInjective
<1>3. SetToSeq(S) \in [1 .. Cardinality(S) -> S]
  BY <1>2 DEF SetToSeq
<1> QED BY <1>1, <1>3

\* A set of seqs in ascending order: each once, and nothing else.
LEMMA Ordering ==
    ASSUME NEW N \in SUBSET Nat, IsFiniteSet(N)
    PROVE  /\ Cardinality(N) \in Nat
           /\ InOrder(N) \in [1 .. Cardinality(N) -> N]
           /\ \A n \in N : \E i \in 1 .. Cardinality(N) : InOrder(N)[i] = n
           /\ \A i, j \in 1 .. Cardinality(N) :
                 i < j => InOrder(N)[i] < InOrder(N)[j]
<1> DEFINE card == Cardinality(N)
           below(n) == {m \in N : m <= n}
           rank == [n \in N |-> Cardinality(below(n))]
<1>1. card \in Nat /\ Cardinality(1 .. card) = card /\ IsFiniteSet(1 .. card)
  BY FS_CardinalityType, FS_Interval
<1>2. \A n \in N : IsFiniteSet(below(n)) /\ Cardinality(below(n)) \in 1 .. card
  <2> TAKE n \in N
  <2>1. below(n) \in SUBSET N /\ n \in below(n)
    OBVIOUS
  <2>2. IsFiniteSet(below(n)) /\ Cardinality(below(n)) <= card
    BY <2>1, FS_Subset
  <2>3. Cardinality(below(n)) \in Nat /\ Cardinality(below(n)) # 0
    BY <2>1, <2>2, FS_CardinalityType, FS_EmptySet
  <2> QED BY <1>1, <2>2, <2>3
<1>3. \A a, b \in N : a < b => rank[a] < rank[b]
  <2> SUFFICES ASSUME NEW a \in N, NEW b \in N, a < b
               PROVE  Cardinality(below(a)) < Cardinality(below(b))
    OBVIOUS
  <2>0. a \in Nat /\ b \in Nat /\ \A m \in N : m \in Nat /\ (m <= a => m <= b)
    OBVIOUS
  <2>1. below(a) \in SUBSET below(b)
    BY <2>0, Zenon
  <2>2. b \in below(b) /\ b \notin below(a)
    BY <2>0
  <2>3. /\ Cardinality(below(a)) <= Cardinality(below(b))
        /\ Cardinality(below(a)) # Cardinality(below(b))
    BY <1>2, <2>1, <2>2, FS_Subset
  <2> QED BY <1>2, <2>3
<1>4. rank \in [N -> 1 .. card]
  BY <1>2
<1>5. \A a, b \in N : rank[a] = rank[b] => a = b
  <2> SUFFICES ASSUME NEW a \in N, NEW b \in N, rank[a] = rank[b] PROVE a = b
    OBVIOUS
  <2>1. ~ (a < b) /\ ~ (b < a)
    BY <1>3, <1>4
  <2> QED BY <2>1
<1> HIDE DEF rank
<1>6. rank \in Surjection(N, 1 .. card)
  BY <1>1, <1>4, <1>5, Fun_IsInj, FS_Injection
<1>7. \A i \in 1 .. card : \E n \in N : rank[n] = i
  BY <1>6, Fun_SurjectionProperties
<1>8. \A i \in 1 .. card : \E n \in N : Cardinality(below(n)) = i
  BY <1>7 DEF rank
<1>9. \A i \in 1 .. card : InOrder(N)[i] \in N /\ rank[InOrder(N)[i]] = i
  <2> TAKE i \in 1 .. card
  <2> DEFINE n == CHOOSE m \in N : Cardinality(below(m)) = i
  <2>1. n \in N /\ Cardinality(below(n)) = i
    BY <1>8
  <2>2. InOrder(N)[i] = n
    BY DEF InOrder
  <2> QED BY <2>1, <2>2 DEF rank
<1>10. InOrder(N) \in [1 .. card -> N]
  BY <1>9 DEF InOrder
<1>11. \A n \in N : InOrder(N)[rank[n]] = n
  BY <1>4, <1>5, <1>9
<1>12. \A i, j \in 1 .. card : i < j => InOrder(N)[i] < InOrder(N)[j]
  <2> SUFFICES ASSUME NEW i \in 1 .. card, NEW j \in 1 .. card, i < j
               PROVE  InOrder(N)[i] < InOrder(N)[j]
    OBVIOUS
  <2> DEFINE a == InOrder(N)[i]
             b == InOrder(N)[j]
  <2>1. a \in N /\ b \in N /\ rank[a] = i /\ rank[b] = j
    BY <1>9
  <2> HIDE DEF a, b
  <2>2. i \in Int /\ j \in Int /\ a \in Int /\ b \in Int
    BY <1>1, <2>1
  <2>3. a # b /\ ~ (b < a)
    BY <1>3, <2>1, <2>2
  <2>4. a < b
    BY <2>2, <2>3
  <2> QED BY <2>4 DEF a, b
<1> QED BY <1>1, <1>4, <1>10, <1>11, <1>12

-----------------------------------------------------------------------------
(* The drain of the handshake buffer is a fold: a CHOOSE of the function   *)
(* that solves its equation.  There is one, and what every step of the     *)
(* fold keeps, the fold keeps.                                             *)

\* The order a set of numbers is searched along.
Below == {ss \in Nat \X Nat : ss[1] < ss[2]}

\* There is no endless descent of numbers.
LEMMA NoDescent == IsWellFoundedOn(Below, Nat)
BY NatLessThanWellFounded, Zenon DEF OpToRel, Below

\* A non-empty set of numbers has a smallest one.
LEMMA Smallest ==
    ASSUME NEW S \in SUBSET Nat, S # {}
    PROVE  \E x \in S : \A y \in S : x <= y
<1>1. PICK x \in S : \A y \in S : ~ (<<y, x>> \in Below)
  BY NoDescent, WFMin, Zenon
<1>2. \A a \in S, b \in S : <<a, b>> \in Below <=> a < b
  BY DEF Below
<1>3. ASSUME NEW y \in S PROVE x <= y
  <2>1. ~ (y < x)
    BY <1>1, <1>2, Zenon
  <2> QED BY <2>1, x \in Nat, y \in Nat
<1> QED BY <1>3

\* The last of some places in a sequence.
LEMMA Largest ==
    ASSUME NEW k \in Nat, NEW S \in SUBSET (1 .. k), S # {}
    PROVE  Max(S) \in S /\ \A y \in S : y <= Max(S)
<1> DEFINE D == {k - y : y \in S}
<1>0. \A y \in S : y \in Int /\ k - y \in Nat
  OBVIOUS
<1>1. D \in SUBSET Nat /\ D # {}
  BY <1>0
<1>2. PICK d \in D : \A e \in D : d <= e
  BY <1>1, Smallest
<1>3. PICK x \in S : d = k - x
  OBVIOUS
<1>4. \A y \in S : x >= y
  <2> TAKE y \in S
  <2>1. d <= k - y
    BY <1>2
  <2> QED BY <1>0, <1>3, <2>1
<1>5. Max(S) \in S /\ \A y \in S : Max(S) >= y
  BY <1>3, <1>4 DEF Max
<1> QED BY <1>5

\* The event of the buffer that is taken in round i.
Item(b, i) ==
    LET n == InOrder({b[j].seq : j \in DOMAIN b})[i]
    IN b[CHOOSE j \in DOMAIN b :
            b[j].seq = n /\ \A l \in DOMAIN b : b[l].seq = n => l <= j]

\* The equation of the drain, over the first k rounds.
IsDrain(h, f, b, k) ==
    h = [s \in SUBSET (1 .. k) |->
            IF s = {} THEN f
            ELSE Absorb(h[s \ {Max(s)}], Item(b, Max(s)))]

\* drainHandshake is the last value of that function.
LEMMA DrainIsFold ==
    ASSUME NEW f, NEW b
    PROVE  LET k == Cardinality({b[j].seq : j \in DOMAIN b})
           IN Drained(f, b) = (CHOOSE h : IsDrain(h, f, b, k))[1 .. k]
<1>1. DOMAIN InOrder({b[j].seq : j \in DOMAIN b})
        = 1 .. Cardinality({b[j].seq : j \in DOMAIN b})
  BY DEF InOrder
<1> QED BY <1>1 DEF Drained, FoldLeft, MapThenFoldSet, IsDrain, Item

\* The equation has a solution, whatever the buffer holds.
LEMMA DrainExists ==
    ASSUME NEW f, NEW b, NEW k \in Nat
    PROVE  \E h : IsDrain(h, f, b, k)
<1> DEFINE Bad == {n \in Nat : ~ \E h : IsDrain(h, f, b, n)}
<1> SUFFICES ASSUME Bad # {} PROVE FALSE
  OBVIOUS
<1>1. PICK n \in Bad : \A m \in Bad : n <= m
  BY Smallest
<1>2. n # 0
  <2>1. IsDrain([s \in SUBSET (1 .. 0) |-> f], f, b, 0)
    BY DEF IsDrain
  <2> QED BY <2>1
<1>3. n - 1 \in Nat /\ n - 1 \notin Bad
  BY <1>1, <1>2
<1>4. PICK h : IsDrain(h, f, b, n - 1)
  BY <1>3
<1> DEFINE g == [s \in SUBSET (1 .. n) |->
                    IF n \in s THEN Absorb(h[s \ {n}], Item(b, n)) ELSE h[s]]
<1>5. IsDrain(g, f, b, n)
  <2>1. g[{}] = f
    BY <1>3, <1>4 DEF IsDrain
  <2>2. ASSUME NEW s \in SUBSET (1 .. n), s # {}
        PROVE  g[s] = Absorb(g[s \ {Max(s)}], Item(b, Max(s)))
    <3>1. Max(s) \in s /\ \A y \in s : y <= Max(s)
      BY <2>2, Largest
    <3>2. s \ {Max(s)} \in SUBSET (1 .. n)
      OBVIOUS
    <3>3. CASE n \in s
      <4>0. Max(s) \in 1 .. n /\ n <= Max(s) /\ n \in Nat
        BY <1>1, <3>1, <3>3
      <4>1. Max(s) = n
        BY <4>0
      <4>2. n \notin s \ {n}
        OBVIOUS
      <4>3. g[s \ {n}] = h[s \ {n}]
        BY <4>2
      <4> QED BY <3>3, <4>1, <4>3
    <3>4. CASE n \notin s
      <4>1. s \in SUBSET (1 .. n - 1)
        BY <3>4
      <4>2. h[s] = Absorb(h[s \ {Max(s)}], Item(b, Max(s)))
        BY <1>4, <2>2, <4>1 DEF IsDrain
      <4>3. g[s] = h[s] /\ g[s \ {Max(s)}] = h[s \ {Max(s)}]
        BY <3>2, <3>4
      <4> QED BY <4>2, <4>3
    <3> QED BY <3>3, <3>4
  <2> HIDE DEF g
  <2>3. g = [s \in SUBSET (1 .. n) |-> g[s]]
    BY DEF g
  <2> QED BY <2>1, <2>2, <2>3 DEF IsDrain
<1> QED BY <1>5

\* A set that every round of the drain keeps, the whole drain keeps.
LEMMA DrainStays ==
    ASSUME NEW f, NEW b, NEW k \in Nat, NEW h, IsDrain(h, f, b, k),
           NEW P, f \in P,
           \A g \in P : \A i \in 1 .. k : Absorb(g, Item(b, i)) \in P
    PROVE  h[1 .. k] \in P
<1> DEFINE Bad == {n \in Nat : n <= k /\ \E s \in SUBSET (1 .. n) : h[s] \notin P}
<1>1. SUFFICES ASSUME Bad # {} PROVE FALSE
  <2>1. k \in Nat /\ k <= k /\ 1 .. k \in SUBSET (1 .. k)
    OBVIOUS
  <2>2. k \notin Bad => h[1 .. k] \in P
    BY <2>1
  <2> QED BY <2>2
<1>2. PICK n \in Bad : \A m \in Bad : n <= m
  <2>1. Bad \in SUBSET Nat
    OBVIOUS
  <2> QED BY <1>1, <2>1, Smallest
<1>3. n \in Nat /\ n <= k
  OBVIOUS
<1>4. PICK s \in SUBSET (1 .. n) : h[s] \notin P
  OBVIOUS
<1>5. s \in SUBSET (1 .. k)
  BY <1>3
<1>6. s # {}
  BY <1>4, <1>5 DEF IsDrain
<1> DEFINE x == Max(s)
           r == s \ {x}
<1>7. x \in s /\ \A y \in s : y <= x
  BY <1>5, <1>6, Largest
<1>8. h[s] = Absorb(h[r], Item(b, x))
  BY <1>5, <1>6 DEF IsDrain
<1>9. \A y \in r : y \in s /\ y # x
  OBVIOUS
<1> HIDE DEF x, r
<1>10. x \in 1 .. k /\ x \in Nat /\ x - 1 \in Nat /\ x - 1 < n /\ x - 1 <= k
  BY <1>3, <1>7
<1>11. \A y \in r : y \in 1 .. x - 1
  <2> TAKE y \in r
  <2>1. y \in 1 .. n /\ y <= x /\ y # x
    BY <1>7, <1>9
  <2> QED BY <1>10, <2>1
<1>12. h[r] \in P
  <2> SUFFICES ASSUME h[r] \notin P PROVE FALSE
    OBVIOUS
  <2>1. r \in SUBSET (1 .. x - 1)
    BY <1>11
  <2>2. x - 1 \in Bad
    BY <1>10, <2>1
  <2>3. n <= x - 1
    BY <1>2, <2>2
  <2> QED BY <1>3, <1>10, <2>3
<1> QED BY <1>4, <1>8, <1>10, <1>12

\* The drain takes events of the buffer only, one of each seq, the older first.
LEMMA Buffered ==
    ASSUME NEW b \in Seq(Event)
    PROVE  LET k == Cardinality({b[j].seq : j \in DOMAIN b})
           IN /\ k \in Nat
              /\ \A i \in 1 .. k : Item(b, i) \in ToSet(b)
              /\ \A i, j \in 1 .. k : i < j => Item(b, i).seq < Item(b, j).seq
              /\ \A j \in DOMAIN b : \E i \in 1 .. k : Item(b, i).seq = b[j].seq
<1> DEFINE N == {b[j].seq : j \in DOMAIN b}
           k == Cardinality(N)
<1>1. DOMAIN b = 1 .. Len(b) /\ Len(b) \in Nat /\ \A j \in DOMAIN b : b[j] \in Event
  OBVIOUS
<1>2. N \in SUBSET Nat
  BY <1>1 DEF Event
<1>3. IsFiniteSet(N)
  <2> DEFINE q == [j \in 1 .. Len(b) |-> b[j].seq]
  <2>1. q \in [1 .. Len(b) -> N] /\ \A n \in N : \E j \in 1 .. Len(b) : q[j] = n
    BY <1>1
  <2> HIDE DEF q
  <2>2. q \in Surjection(1 .. Len(b), N)
    BY <2>1, Fun_IsSurj
  <2> QED BY <1>1, <2>2, FS_Interval, FS_Surjection
<1>4. /\ k \in Nat /\ InOrder(N) \in [1 .. k -> N]
      /\ \A n \in N : \E i \in 1 .. k : InOrder(N)[i] = n
      /\ \A i, j \in 1 .. k : i < j => InOrder(N)[i] < InOrder(N)[j]
  BY <1>2, <1>3, Ordering
<1>5. ASSUME NEW i \in 1 .. k
      PROVE  Item(b, i) \in ToSet(b) /\ Item(b, i).seq = InOrder(N)[i]
  <2> DEFINE n == InOrder(N)[i]
             J == {j \in DOMAIN b : b[j].seq = n}
             Newest(j) == b[j].seq = n /\ \A l \in DOMAIN b : b[l].seq = n => l <= j
  <2>1. n \in N
    BY <1>4
  <2>2. J \in SUBSET (1 .. Len(b)) /\ J # {}
    BY <1>1, <2>1
  <2> HIDE DEF n
  <2>3. Max(J) \in J /\ \A l \in J : l <= Max(J)
    BY <1>1, <2>2, Largest
  <2>4. \E j \in DOMAIN b : Newest(j)
    BY <2>3
  <2> DEFINE c == CHOOSE j \in DOMAIN b : Newest(j)
  <2>5. c \in DOMAIN b /\ b[c].seq = n
    BY <2>4
  <2>6. Item(b, i) = b[c]
    BY DEF Item, n
  <2> QED BY <2>5, <2>6 DEF ToSet, n
<1>6. \A j \in DOMAIN b : b[j].seq \in N
  OBVIOUS
<1> QED BY <1>4, <1>5, <1>6

\* What every event of the buffer keeps, the drain keeps.
LEMMA DrainKeeps ==
    ASSUME NEW b \in Seq(Event), NEW P, NEW f \in P,
           \A g \in P : \A e \in ToSet(b) : Absorb(g, e) \in P
    PROVE  Drained(f, b) \in P
<1> DEFINE k == Cardinality({b[j].seq : j \in DOMAIN b})
           h == CHOOSE h : IsDrain(h, f, b, k)
<1>1. k \in Nat /\ \A i \in 1 .. k : Item(b, i) \in ToSet(b)
  BY Buffered
<1>2. Drained(f, b) = h[1 .. k]
  BY DrainIsFold
<1> HIDE DEF k
<1>3. IsDrain(h, f, b, k)
  BY <1>1, DrainExists
<1> HIDE DEF h
<1>4. h[1 .. k] \in P
  BY <1>1, <1>3, DrainStays
<1> QED BY <1>2, <1>4

-----------------------------------------------------------------------------
(* The invariant                                                           *)

Requests == [op : {"replay", "snapshot"}, proj : Projects, since : Nat]

EventFrames == {EventFrame(e) : e \in Event}
Frames == EventFrames
          \cup {CompleteFrame(p, n) : p \in Projects \cup {NoProject}, n \in Nat}
          \cup {ResyncFrame}

Feeds == [wm : [Projects -> Nat],
          seen : SUBSET (Projects \X Nat \X {"msg", "tick", "snap"}),
          view : [Projects -> SUBSET (Nat \X Nat)], twice : BOOLEAN]

\* The part of TypeOK the proof needs, and the frames.
Types ==
    /\ log \in [Projects -> SUBSET Event] /\ seq \in [Projects -> Nat]
    /\ restarts \in 0 .. MaxRestarts
    /\ inbox \in Seq(Requests) /\ active \in Projects
    /\ todo \in Seq(Event) /\ buf \in Seq(Event)
    /\ tasks \in Seq(EventFrames) /\ wire \in Seq(Frames)
    /\ hs \in BOOLEAN /\ hsProject \in Projects \cup {NoProject}
    /\ sess \in {"none", "first", "replaying", "ready"}
    /\ feed \in Feeds

\* An event's seq was given out, and what it carries is older.
Sound(e) == e.seq <= seq[e.proj] /\ \A id \in e.conv : id[1] <= e.seq

\* The log of a project has its own events, one of each seq.
Logged ==
    \A p \in Projects :
        /\ IsFiniteSet(log[p])
        /\ \A e \in log[p] : e.proj = p /\ Sound(e)
        /\ \A e, f \in log[p] : e.seq = f.seq => e = f

\* Nothing is on its way without a connection.
Closed == ~Open => wire = <<>> /\ tasks = <<>> /\ todo = <<>>

Targeted == sess = "replaying" => target \in Projects

\* Every event on its way, or in the buffer of this connection, is sound.
Stamped ==
    /\ \A f \in ToSet(tasks) \cup ToSet(wire) : f.tag = "event" => Sound(f.ev)
    /\ \A e \in ToSet(todo) : Sound(e)
    /\ Open => \A e \in ToSet(buf) : Sound(e)

\* A replay_complete names a seq no event before it exceeds.
Marked ==
    \A j \in DOMAIN wire : wire[j].tag = "complete" /\ wire[j].proj # NoProject =>
        /\ \A i \in 1 .. j - 1 :
              wire[i].tag = "event" /\ wire[i].ev.proj = wire[j].proj =>
                  wire[i].ev.seq <= wire[j].last
        /\ \A e \in ToSet(buf) : e.proj = wire[j].proj => e.seq <= wire[j].last

\* What is shown is below the watermark, or the dedup set knows it.
Viewed(f) ==
    \A p \in Projects : \A id \in f.view[p] :
        id[1] <= f.wm[p] \/ <<p, id[1], "msg">> \in f.seen

\* The feeds that are right, the watermark of p at n at most.
Right(p, n) ==
    {f \in Feeds : Viewed(f) /\ ~f.twice /\ (p \in Projects => f.wm[p] <= n)}

IInv ==
    /\ Types /\ Logged /\ Closed /\ Targeted /\ Stamped /\ Marked
    /\ Viewed(feed) /\ ShownOnce

-----------------------------------------------------------------------------
(* The feed                                                                *)

\* What a replay_complete is.
LEMMA CompleteIs ==
    ASSUME NEW p \in Projects \cup {NoProject}, NEW n \in Nat
    PROVE  /\ CompleteFrame(p, n) \in Frames /\ CompleteFrame(p, n).tag = "complete"
           /\ CompleteFrame(p, n).proj = p /\ CompleteFrame(p, n).last = n
BY DEF EventFrames, Frames, EventFrame, CompleteFrame, ResyncFrame

\* What the frames are.
LEMMA FrameIs ==
    /\ \A e \in Event : EventFrame(e) \in EventFrames
    /\ \A f \in EventFrames : f \in Frames /\ f.tag = "event" /\ f.ev \in Event
    /\ \A p \in Projects \cup {NoProject}, n \in Nat :
          /\ CompleteFrame(p, n) \in Frames /\ CompleteFrame(p, n).tag = "complete"
          /\ CompleteFrame(p, n).proj = p /\ CompleteFrame(p, n).last = n
    /\ ResyncFrame \in Frames /\ ResyncFrame.tag = "resync"
    /\ \A f \in Frames : f.tag = "event" => f.ev \in Event
    /\ \A f \in Frames :
          f.tag = "complete" => f.proj \in Projects \cup {NoProject} /\ f.last \in Nat
<1> USE DEF EventFrames, Frames, EventFrame, CompleteFrame, ResyncFrame
<1>1. \A e \in Event : EventFrame(e) \in EventFrames
  OBVIOUS
<1>2. \A f \in EventFrames : f \in Frames /\ f.tag = "event" /\ f.ev \in Event
  OBVIOUS
<1>3. ASSUME NEW p \in Projects \cup {NoProject}, NEW n \in Nat
      PROVE  /\ CompleteFrame(p, n) \in Frames /\ CompleteFrame(p, n).tag = "complete"
             /\ CompleteFrame(p, n).proj = p /\ CompleteFrame(p, n).last = n
  BY CompleteIs
<1>4. ResyncFrame \in Frames /\ ResyncFrame.tag = "resync"
  OBVIOUS
<1>5. ASSUME NEW f \in Frames
      PROVE  /\ f.tag = "event" => f.ev \in Event
             /\ f.tag = "complete" =>
                    f.proj \in Projects \cup {NoProject} /\ f.last \in Nat
  <2>1. CASE f \in EventFrames
    BY <1>2, <2>1
  <2>2. ASSUME NEW p \in Projects \cup {NoProject}, NEW n \in Nat,
               f = CompleteFrame(p, n)
        PROVE  f.tag = "complete" /\ f.proj \in Projects \cup {NoProject} /\ f.last \in Nat
    BY <2>2
  <2>3. CASE f = ResyncFrame
    BY <1>4, <2>3
  <2> QED BY <2>1, <2>2, <2>3
<1> HIDE DEF EventFrames, Frames, EventFrame, CompleteFrame, ResyncFrame
<1> QED BY <1>1, <1>2, <1>3, <1>4, <1>5

\* A new event of a project: the watermark rises, and it is not shown twice.
LEMMA DeliverRight ==
    ASSUME NEW f \in Feeds, Viewed(f), ~f.twice,
           NEW e \in Event, f.wm[e.proj] < e.seq, \A id \in e.conv : id[1] <= e.seq
    PROVE  /\ Deliver(f, e) \in Feeds /\ Viewed(Deliver(f, e)) /\ ~Deliver(f, e).twice
           /\ Deliver(f, e).wm = [f.wm EXCEPT ![e.proj] = e.seq]
<1> DEFINE q == e.proj
           wm == [f.wm EXCEPT ![q] = e.seq]
           seen == f.seen \cup {Key(e)}
           raised == [f EXCEPT !.wm[e.proj] = e.seq, !.seen = @ \cup {Key(e)}]
<1>1. /\ q \in Projects /\ e.seq \in Nat /\ e.kind \in {"msg", "tick", "snap"}
      /\ e.born \in Nat /\ e.conv \in SUBSET (Nat \X Nat)
  BY DeliveryAssumption DEF Event
<1>2. /\ f.wm \in [Projects -> Nat] /\ f.view \in [Projects -> SUBSET (Nat \X Nat)]
      /\ f.seen \in SUBSET (Projects \X Nat \X {"msg", "tick", "snap"})
  BY DEF Feeds
<1>3. /\ wm \in [Projects -> Nat] /\ wm[q] = e.seq
      /\ \A p \in Projects : p # q => wm[p] = f.wm[p]
      /\ \A p \in Projects : f.wm[p] <= wm[p]
  BY <1>1, <1>2
<1>4. Key(e) = <<q, e.seq, e.kind>>
      /\ seen \in SUBSET (Projects \X Nat \X {"msg", "tick", "snap"})
  BY <1>1, <1>2 DEF Key
<1>5. /\ raised.wm = wm /\ raised.seen = seen
      /\ raised.view = f.view /\ raised.twice = f.twice
  BY DEF Feeds
<1>6. raised \in Feeds /\ ~raised.twice
  BY <1>1, <1>2, <1>3, <1>4 DEF Feeds
<1> HIDE DEF raised
<1>7. Viewed(raised)
  <2> SUFFICES ASSUME NEW p \in Projects, NEW id \in raised.view[p]
               PROVE  id[1] <= wm[p] \/ <<p, id[1], "msg">> \in seen
    BY <1>5 DEF Viewed
  <2>1. id \in f.view[p] /\ id[1] \in Nat
    BY <1>2, <1>5
  <2>2. id[1] <= f.wm[p] \/ <<p, id[1], "msg">> \in f.seen
    BY <2>1 DEF Viewed
  <2>3. f.wm[p] \in Nat /\ wm[p] \in Nat /\ f.wm[p] <= wm[p]
    BY <1>2, <1>3
  <2> QED BY <2>1, <2>2, <2>3
<1> HIDE DEF wm, seen
<1> DEFINE g == Deliver(f, e)
<1>8. CASE Key(e) \in f.seen \/ e.kind = "tick"
  <2>1. Deliver(f, e) = raised
    BY <1>8 DEF Deliver, Show, raised
  <2> QED BY <1>5, <1>6, <1>7, <2>1 DEF wm
<1>9. CASE Key(e) \notin f.seen /\ e.kind = "snap"
  <2>1. g = [raised EXCEPT !.view[q] = e.conv]
    BY <1>9 DEF Deliver, Show, raised
  <2>2. /\ g \in Feeds /\ ~g.twice /\ g.wm = wm /\ g.seen = seen
        /\ g.view[q] = e.conv
        /\ \A p \in Projects : p # q => g.view[p] = raised.view[p]
    BY <1>1, <1>5, <1>6, <2>1 DEF Feeds
  <2> HIDE DEF g
  <2>3. Viewed(g)
    <3> SUFFICES ASSUME NEW p \in Projects, NEW id \in g.view[p]
                 PROVE  id[1] <= wm[p] \/ <<p, id[1], "msg">> \in seen
      BY <2>2 DEF Viewed
    <3>1. CASE p = q
      BY <1>3, <2>2, <3>1
    <3>2. CASE p # q
      BY <1>5, <1>7, <2>2, <3>2 DEF Viewed
    <3> QED BY <3>1, <3>2
  <2> QED BY <2>2, <2>3 DEF wm, g
<1>10. CASE Key(e) \notin f.seen /\ e.kind = "msg"
  <2>1. Id(e) \notin f.view[q]
    <3> SUFFICES ASSUME Id(e) \in f.view[q] PROVE FALSE
      OBVIOUS
    <3>1. Id(e)[1] = e.seq
      BY DEF Id
    <3>2. e.seq <= f.wm[q] \/ <<q, e.seq, "msg">> \in f.seen
      BY <1>1, <3>1 DEF Viewed
    <3>3. ~ (e.seq <= f.wm[q])
      BY <1>1, <1>2
    <3> QED BY <1>4, <1>10, <3>2, <3>3
  <2>2. Id(e) \in Nat \X Nat
    BY <1>1 DEF Id
  <2> DEFINE again == raised.twice \/ Id(e) \in raised.view[q]
  <2>a. g = [raised EXCEPT !.view[q] = @ \cup {Id(e)}, !.twice = again]
    BY <1>10 DEF Deliver, Show, raised
  <2>b. again = FALSE
    BY <1>5, <1>6, <2>1
  <2>3. g = [raised EXCEPT !.view[q] = @ \cup {Id(e)}, !.twice = FALSE]
    BY <2>a, <2>b
  <2> DEFINE more == raised.view[q] \cup {Id(e)}
  <2>c. more \in SUBSET (Nat \X Nat)
    BY <1>1, <1>2, <1>5, <2>2
  <2>d. g = [raised EXCEPT !.view[q] = more, !.twice = FALSE]
    BY <2>3
  <2> HIDE DEF g, more
  <2>4. /\ g \in Feeds /\ ~g.twice /\ g.wm = wm /\ g.seen = seen
        /\ g.view[q] = raised.view[q] \cup {Id(e)}
        /\ \A p \in Projects : p # q => g.view[p] = raised.view[p]
    <3>1. g \in Feeds
      BY <1>1, <1>6, <2>c, <2>d DEF Feeds
    <3>2. g.twice = FALSE /\ g.wm = raised.wm /\ g.seen = raised.seen
      BY <1>6, <2>d DEF Feeds
    <3>3. /\ g.view[q] = more
          /\ \A p \in Projects : p # q => g.view[p] = raised.view[p]
      BY <1>1, <1>6, <2>d DEF Feeds
    <3> QED BY <1>5, <3>1, <3>2, <3>3 DEF more
  <2>5. Viewed(g)
    <3> SUFFICES ASSUME NEW p \in Projects, NEW id \in g.view[p]
                 PROVE  id[1] <= wm[p] \/ <<p, id[1], "msg">> \in seen
      BY <2>4 DEF Viewed
    <3>1. CASE id \in raised.view[p]
      BY <1>5, <1>7, <3>1 DEF Viewed
    <3>2. CASE id \notin raised.view[p]
      <4>1. p = q /\ id = Id(e)
        BY <2>4, <3>2
      <4>2. id[1] = e.seq /\ wm[p] = e.seq /\ e.seq <= e.seq
        BY <1>1, <1>3, <4>1 DEF Id
      <4> QED BY <4>2
    <3> QED BY <3>1, <3>2
  <2> QED BY <2>4, <2>5 DEF wm, g
<1> QED BY <1>1, <1>8, <1>9, <1>10

\* One round of the drain.
LEMMA AbsorbRight ==
    ASSUME NEW p, NEW n \in Nat, NEW f \in Right(p, n), NEW e \in Event,
           e.proj = p => e.seq <= n, \A id \in e.conv : id[1] <= e.seq
    PROVE  Absorb(f, e) \in Right(p, n)
<1>1. f \in Feeds /\ Viewed(f) /\ ~f.twice /\ (p \in Projects => f.wm[p] <= n)
  BY DEF Right
<1>2. e.proj \in Projects /\ e.seq \in Nat /\ f.wm \in [Projects -> Nat]
  BY <1>1 DEF Event, Feeds
<1>3. CASE e.seq <= f.wm[e.proj]
  BY <1>3 DEF Absorb
<1>4. CASE ~ (e.seq <= f.wm[e.proj])
  <2>1. f.wm[e.proj] < e.seq
    BY <1>2, <1>4
  <2>2. /\ Deliver(f, e) \in Feeds /\ Viewed(Deliver(f, e)) /\ ~Deliver(f, e).twice
        /\ Deliver(f, e).wm = [f.wm EXCEPT ![e.proj] = e.seq]
    BY <1>1, <2>1, DeliverRight
  <2>3. p \in Projects => Deliver(f, e).wm[p] <= n
    BY <1>1, <1>2, <2>2
  <2> QED BY <1>4, <2>2, <2>3 DEF Absorb, Right
<1> QED BY <1>3, <1>4

-----------------------------------------------------------------------------
(* The initial state, and the steps of the server                          *)

\* A client that has just started shows nothing.
LEMMA InitInvariant == Init => IInv
<1> SUFFICES ASSUME Init PROVE IInv
  OBVIOUS
<1> USE DEF Init
<1>1. 0 \in 0 .. MaxRestarts
  BY DeliveryAssumption
<1>2. feed \in Feeds
  BY DEF Feeds
<1>3. Types
  <2>1. log \in [Projects -> SUBSET Event] /\ seq \in [Projects -> Nat]
    OBVIOUS
  <2>2. \A S : <<>> \in Seq(S)
    OBVIOUS
  <2> QED BY <1>1, <1>2, <2>1, <2>2 DEF Types
<1>4. Logged
  BY FS_EmptySet DEF Logged
<1>5. Closed /\ Targeted /\ Stamped /\ Marked
  BY DEF Closed, Targeted, Stamped, Marked, Open, ToSet
<1>6. Viewed(feed) /\ ShownOnce
  BY DEF Viewed, ShownOnce
<1> QED BY <1>3, <1>4, <1>5, <1>6 DEF IInv

\* What a client asks for goes into the inbox.
LEMMA Asks ==
    ASSUME inbox \in Seq(Requests), NEW S \in SUBSET Projects, Request(S)
    PROVE  inbox' \in Seq(Requests)
<1> DEFINE R == {[op |-> "snapshot", proj |-> p, since |-> 0] : p \in S \ recent}
<1>1. IsFiniteSet(R)
  <2> DEFINE q == [p \in S \ recent |-> [op |-> "snapshot", proj |-> p, since |-> 0]]
  <2>1. IsFiniteSet(S \ recent)
    BY DeliveryAssumption, FS_Subset
  <2>2. q \in [S \ recent -> R] /\ \A r \in R : \E p \in S \ recent : q[p] = r
    OBVIOUS
  <2> HIDE DEF q, R
  <2>3. q \in Surjection(S \ recent, R)
    BY <2>2, Fun_IsSurj
  <2> QED BY <2>1, <2>3, FS_Surjection
<1>2. R \in SUBSET Requests
  BY DEF Requests
<1>3. inbox' = inbox \/ inbox' = inbox \o SetToSeq(R)
  BY DEF Request
<1> HIDE DEF R
<1>4. SetToSeq(R) \in Seq(Requests)
  BY <1>1, <1>2, Listing
<1> QED BY <1>3, <1>4, ConcatSet

\* A step that touches neither the server nor the link nor the feed.
LEMMA Quiet ==
    ASSUME IInv, UNCHANGED <<server, link, shake, feed>>,
           inbox' \in Seq(Requests), active' \in Projects
    PROVE  IInv'
<1> USE DEF server, link, shake
<1>1. Types'
  BY DEF IInv, Types
<1>2. Logged' /\ Closed' /\ Targeted' /\ Stamped' /\ Marked'
  BY DEF IInv, Logged, Closed, Targeted, Stamped, Marked, Sound, Open
<1>3. Viewed(feed)' /\ ShownOnce'
  BY DEF IInv, Viewed, ShownOnce
<1> QED BY <1>1, <1>2, <1>3 DEF IInv

\* A message or a snapshot of project p is stamped.
LEMMA StampStep ==
    ASSUME IInv, NEW p \in Projects, NEW kind \in {"msg", "tick", "snap"},
           NEW conv \in SUBSET (Nat \X Nat), \A id \in conv : id[1] <= seq[p],
           Stamp(p, kind, conv), inbox' \in Seq(Requests),
           UNCHANGED <<sess, todo, target, wire, shake, feed, active, restarts>>
    PROVE  IInv'
<1> PICK e : e = [proj |-> p, seq |-> seq[p] + 1, kind |-> kind,
                  born |-> restarts, conv |-> conv]
  OBVIOUS
<1>0. /\ Types /\ Logged /\ Closed /\ Targeted /\ Stamped /\ Marked
      /\ Viewed(feed) /\ ShownOnce
  BY DEF IInv
<1>1. /\ seq' = [seq EXCEPT ![p] = @ + 1]
      /\ log' = [log EXCEPT ![p] = @ \cup {e}]
      /\ tasks' = IF Open THEN Append(tasks, EventFrame(e)) ELSE tasks
  BY DEF Stamp
<1>2. /\ seq' \in [Projects -> Nat] /\ seq'[p] = seq[p] + 1 /\ seq[p] \in Nat
      /\ \A q \in Projects : q # p => seq'[q] = seq[q]
      /\ \A q \in Projects : seq[q] <= seq'[q] /\ seq[q] \in Nat /\ seq'[q] \in Nat
  BY <1>0, <1>1 DEF Types
<1>3. e \in Event /\ e.seq = seq'[p] /\ e.proj = p /\ e.conv = conv
  BY <1>0, <1>2 DEF Types, Event
<1>4. Sound(e)'
  <2>1. \A id \in conv : id[1] \in Nat /\ id[1] <= seq[p] + 1
    BY <1>2
  <2>2. e.seq <= seq'[p] /\ \A id \in e.conv : id[1] <= e.seq
    BY <1>2, <1>3, <2>1
  <2> QED BY <1>3, <2>2 DEF Sound
<1>5. \A x \in Event : Sound(x) => Sound(x)'
  <2> TAKE x \in Event
  <2>1. x.proj \in Projects /\ x.seq \in Nat
    BY DEF Event
  <2> QED BY <1>2, <2>1 DEF Sound
<1>6. log' \in [Projects -> SUBSET Event]
  BY <1>0, <1>1, <1>3 DEF Types
<1>7. /\ tasks' \in Seq(EventFrames)
      /\ ToSet(tasks') \subseteq ToSet(tasks) \cup {EventFrame(e)}
      /\ ~Open => tasks' = tasks
  <2>1. EventFrame(e) \in EventFrames
    BY <1>3, FrameIs
  <2> QED BY <1>0, <1>1, <2>1, AppendSet DEF Types
<1>8. Types'
  BY <1>0, <1>2, <1>6, <1>7 DEF Types, shake
<1>9. Logged'
  <2> SUFFICES ASSUME NEW q \in Projects
               PROVE  /\ IsFiniteSet(log'[q])
                      /\ \A x \in log'[q] : x.proj = q /\ Sound(x)'
                      /\ \A x, y \in log'[q] : x.seq = y.seq => x = y
    BY DEF Logged
  <2>1. /\ IsFiniteSet(log[q]) /\ log[q] \in SUBSET Event
        /\ \A x \in log[q] : x.proj = q /\ Sound(x)
        /\ \A x, y \in log[q] : x.seq = y.seq => x = y
    BY <1>0 DEF Logged, Types
  <2>2. CASE q # p
    <3>1. log'[q] = log[q]
      BY <1>0, <1>1, <2>2 DEF Types
    <3> QED BY <1>5, <2>1, <3>1
  <2>3. CASE q = p
    <3>1. log'[p] = log[p] \cup {e}
      BY <1>0, <1>1 DEF Types
    <3>2. \A x \in log[p] : x.seq \in Nat /\ x.seq < e.seq
      <4> TAKE x \in log[p]
      <4>1. x.seq \in Nat /\ x.seq <= seq[p]
        BY <2>1, <2>3 DEF Event, Sound
      <4> QED BY <1>2, <1>3, <4>1
    <3>3. \A x \in log[p] : x.seq # e.seq
      BY <1>2, <1>3, <3>2
    <3>4. IsFiniteSet(log'[p])
      BY <2>1, <2>3, <3>1, FS_AddElement
    <3>5. \A x \in log'[p] : x.proj = p /\ Sound(x)'
      BY <1>3, <1>4, <1>5, <2>1, <2>3, <3>1
    <3>6. \A x, y \in log'[p] : x.seq = y.seq => x = y
      BY <2>1, <2>3, <3>1, <3>3
    <3> QED BY <2>3, <3>4, <3>5, <3>6
  <2> QED BY <2>2, <2>3
<1>10. Closed' /\ Targeted'
  BY <1>0, <1>7 DEF Closed, Targeted, Open
<1>11. Stamped'
  <2>1. \A f \in ToSet(tasks) \cup ToSet(wire) : f.tag = "event" => f.ev \in Event
    BY <1>0, FrameIs DEF Types, ToSet
  <2>2. \A x \in ToSet(todo) \cup ToSet(buf) : x \in Event
    BY <1>0 DEF Types, ToSet
  <2>3. EventFrame(e).ev = e
    BY DEF EventFrame
  <2>4. \A f \in ToSet(tasks') \cup ToSet(wire') : f.tag = "event" => Sound(f.ev)'
    BY <1>0, <1>4, <1>5, <1>7, <2>1, <2>3 DEF Stamped
  <2>5. \A x \in ToSet(todo') : Sound(x)'
    BY <1>0, <1>5, <2>2 DEF Stamped
  <2>6. Open' => \A x \in ToSet(buf') : Sound(x)'
    BY <1>0, <1>5, <2>2 DEF Stamped, Open, shake
  <2> QED BY <2>4, <2>5, <2>6 DEF Stamped
<1>12. Marked'
  BY <1>0 DEF Marked, shake
<1>13. Viewed(feed)' /\ ShownOnce'
  BY <1>0 DEF Viewed, ShownOnce
<1> QED BY <1>8, <1>9, <1>10, <1>11, <1>12, <1>13 DEF IInv

\* What the conversation of a project holds was stamped.
LEMMA ConversationIs ==
    ASSUME IInv, NEW p \in Projects
    PROVE  /\ Conversation(p) \in SUBSET (Nat \X Nat)
           /\ \A id \in Conversation(p) : id[1] <= seq[p]
<1>1. \A e \in log[p] : e \in Event /\ e.proj = p /\ e.seq <= seq[e.proj]
  BY DEF IInv, Types, Logged, Sound
<1>2. \A e \in log[p] : Id(e) \in Nat \X Nat /\ Id(e)[1] <= seq[p]
  BY <1>1, DeliveryAssumption DEF Event, Id
<1> QED BY <1>2 DEF Conversation

\* emit() stamps an event without a conversation.
LEMMA EmitStep ==
    ASSUME IInv, NEW p \in Projects, NEW kind \in Kinds, Emit(p, kind)
    PROVE  IInv'
<1>1. kind \in {"msg", "tick", "snap"}
  BY DeliveryAssumption
<1>2. /\ Stamp(p, kind, {}) /\ inbox' = inbox
      /\ UNCHANGED <<sess, todo, target, wire, shake, feed, active, restarts>>
  BY DEF Emit
<1>3. inbox' \in Seq(Requests)
  BY <1>2 DEF IInv, Types
<1> QED BY <1>1, <1>2, <1>3, StampStep

\* The snapshot of another window is one of this log.
LEMMA OtherSnapshotStep ==
    ASSUME IInv, NEW p \in Projects, OtherSnapshot(p) PROVE IInv'
<1>1. /\ Stamp(p, "snap", Conversation(p)) /\ inbox' = inbox
      /\ UNCHANGED <<sess, todo, target, wire, shake, feed, active, restarts>>
  BY DEF OtherSnapshot
<1>2. inbox' \in Seq(Requests)
  BY <1>1 DEF IInv, Types
<1> QED BY <1>1, <1>2, ConversationIs, StampStep

\* So is the one the client asked for.
LEMMA ServeSnapshotStep == ASSUME IInv, ServeSnapshot PROVE IInv'
<1> DEFINE p == Head(inbox).proj
<1>1. /\ inbox # <<>> /\ inbox' = Tail(inbox)
      /\ Stamp(p, "snap", Conversation(p))
      /\ UNCHANGED <<sess, todo, target, wire, shake, feed, active, restarts>>
  BY DEF ServeSnapshot
<1>2. inbox' \in Seq(Requests) /\ Head(inbox) \in Requests
  BY <1>1, TailSet DEF IInv, Types
<1>3. p \in Projects
  BY <1>2 DEF Requests
<1> HIDE DEF p
<1> QED BY <1>1, <1>2, <1>3, ConversationIs, StampStep

\* Hub.replay lists events of the log.
LEMMA ReplayIs ==
    ASSUME IInv, NEW p \in Projects, NEW since
    PROVE  /\ Replay(p, since) \in Seq(Event)
           /\ \A i \in DOMAIN Replay(p, since) :
                 Replay(p, since)[i] \in log[p] /\ Replay(p, since)[i].seq > since
<1> DEFINE later == {e \in log[p] : e.seq > since /\ (since = 0 => e.kind = "msg")}
           N == {e.seq : e \in later}
           order == InOrder(N)
<1>1. log[p] \in SUBSET Event /\ IsFiniteSet(log[p])
  BY DEF IInv, Types, Logged
<1>2. IsFiniteSet(later) /\ later \in SUBSET Event
  BY <1>1, FS_Subset
<1>3. N \in SUBSET Nat
  BY <1>2 DEF Event
<1>4. IsFiniteSet(N)
  <2> DEFINE q == [e \in later |-> e.seq]
  <2>1. q \in [later -> N] /\ \A n \in N : \E e \in later : q[e] = n
    OBVIOUS
  <2> HIDE DEF q
  <2>2. q \in Surjection(later, N)
    BY <2>1, Fun_IsSurj
  <2> QED BY <1>2, <2>2, FS_Surjection
<1>5. /\ Cardinality(N) \in Nat /\ order \in [1 .. Cardinality(N) -> N]
  BY <1>3, <1>4, Ordering
<1>6. Replay(p, since) = [i \in DOMAIN order |-> CHOOSE e \in later : e.seq = order[i]]
  BY DEF Replay
<1>7. \A i \in DOMAIN order : \E e \in later : e.seq = order[i]
  BY <1>5
<1>a. DOMAIN order = 1 .. Cardinality(N)
  BY <1>5
<1> HIDE DEF order, N
<1>8. \A i \in DOMAIN order : Replay(p, since)[i] \in later
  BY <1>6, <1>7
<1> HIDE DEF later
<1>b. DOMAIN Replay(p, since) = 1 .. Cardinality(N)
  BY <1>6, <1>a
<1>9. Replay(p, since) \in Seq(later)
  <2>1. Replay(p, since) \in [1 .. Cardinality(N) -> later]
    BY <1>6, <1>8, <1>a
  <2>2. Cardinality(N) \in Nat
    BY <1>5
  <2> QED BY <2>1, <2>2
<1>10. later \subseteq log[p] /\ \A e \in later : e.seq > since
  BY DEF later
<1>11. Seq(later) \subseteq Seq(Event)
  BY <1>2
<1>12. \A i \in DOMAIN Replay(p, since) :
          Replay(p, since)[i] \in log[p] /\ Replay(p, since)[i].seq > since
  BY <1>a, <1>b, <1>8, <1>10
<1> QED BY <1>9, <1>11, <1>12

\* Frames put on the wire, of stamped events, or of a complete that names no
\* seq below the last one stamped.
LEMMA WireGrows ==
    ASSUME IInv, Open, NEW more \in Seq(Frames), wire' = wire \o more,
           UNCHANGED <<seq, buf>>,
           \A f \in ToSet(more) :
               /\ f.tag = "event" => Sound(f.ev)
               /\ f.tag = "complete" /\ f.proj # NoProject => seq[f.proj] <= f.last
    PROVE  /\ wire' \in Seq(Frames) /\ Marked'
           /\ \A f \in ToSet(wire') : f.tag = "event" => Sound(f.ev)
<1>0. Types /\ Stamped /\ Marked
  BY DEF IInv
<1>1. /\ wire \o more \in Seq(Frames) /\ Len(wire) \in Nat /\ Len(more) \in Nat
      /\ DOMAIN (wire \o more) = 1 .. Len(wire) + Len(more)
      /\ \A i \in 1 .. Len(wire) : (wire \o more)[i] = wire[i]
      /\ \A i \in 1 .. Len(wire) + Len(more) :
            (wire \o more)[i] \in ToSet(wire) \cup ToSet(more)
      /\ ToSet(wire \o more) \subseteq ToSet(wire) \cup ToSet(more)
  BY <1>0, ConcatSet DEF Types
<1>2. \A f \in ToSet(wire') : f.tag = "event" => Sound(f.ev)
  BY <1>0, <1>1 DEF Stamped
<1>3. Marked'
  <2> SUFFICES ASSUME NEW j \in DOMAIN wire', wire'[j].tag = "complete",
                      wire'[j].proj # NoProject
               PROVE  /\ \A i \in 1 .. j - 1 :
                            wire'[i].tag = "event" /\ wire'[i].ev.proj = wire'[j].proj =>
                                wire'[i].ev.seq <= wire'[j].last
                      /\ \A e \in ToSet(buf) : e.proj = wire'[j].proj => e.seq <= wire'[j].last
    BY DEF Marked
  <2>0. j \in 1 .. Len(wire) + Len(more) /\ DOMAIN wire = 1 .. Len(wire)
    BY <1>0, <1>1 DEF Types
  <2>1. CASE j \in 1 .. Len(wire)
    <3>1. \A i \in 1 .. j - 1 : i \in 1 .. Len(wire) /\ wire'[i] = wire[i]
      BY <1>1, <2>1
    <3>2. wire'[j] = wire[j] /\ j \in DOMAIN wire
      BY <1>1, <2>0, <2>1
    <3> QED BY <1>0, <3>1, <3>2 DEF Marked
  <2>2. CASE j \notin 1 .. Len(wire)
    <3> DEFINE c == wire'[j]
    <3>1. c \in Frames /\ c.proj \in Projects /\ c.last \in Nat
      BY <1>1, <2>0, FrameIs
    <3>2. c \in ToSet(more)
      <4>1. j - Len(wire) \in 1 .. Len(more)
        BY <1>1, <2>0, <2>2
      <4>2. (wire \o more)[j] = more[j - Len(wire)]
        BY <1>0, <1>1, <2>0, <2>2 DEF Types
      <4>3. DOMAIN more = 1 .. Len(more)
        OBVIOUS
      <4> QED BY <4>1, <4>2, <4>3 DEF ToSet
    <3>3. seq[c.proj] <= c.last
      BY <3>2
    <3>4. \A e \in Event : Sound(e) /\ e.proj = c.proj => e.seq <= c.last
      <4> TAKE e \in Event
      <4>1. e.seq \in Nat /\ seq[c.proj] \in Nat
        BY <1>0, <3>1 DEF Event, Types
      <4> HAVE Sound(e) /\ e.proj = c.proj
      <4>2. e.seq <= seq[c.proj]
        BY DEF Sound
      <4>3. \A x, y, z \in Nat : x <= y /\ y <= z => x <= z
        OBVIOUS
      <4> HIDE DEF c
      <4> QED BY <3>1, <3>3, <4>1, <4>2, <4>3
    <3>5. ASSUME NEW i \in 1 .. j - 1, wire'[i].tag = "event"
          PROVE  wire'[i].ev \in Event /\ Sound(wire'[i].ev)
      <4>1. i \in 1 .. Len(wire) + Len(more)
        BY <1>1, <2>0
      <4>a. i \in DOMAIN wire'
        BY <1>1, <4>1
      <4>b. wire' \in Seq(Frames)
        BY <1>1
      <4>c. wire'[i] \in Frames
        BY <4>a, <4>b
      <4>2. wire'[i] \in Frames /\ wire'[i] \in ToSet(wire')
        BY <4>a, <4>c DEF ToSet
      <4> QED BY <1>2, <3>5, <4>2, FrameIs
    <3>6. \A e \in ToSet(buf) : e \in Event /\ Sound(e)
      BY <1>0 DEF Stamped, Types, ToSet
    <3> HIDE DEF c
    <3>7. \A i \in 1 .. j - 1 :
             wire'[i].tag = "event" /\ wire'[i].ev.proj = c.proj =>
                 wire'[i].ev.seq <= c.last
      BY <3>4, <3>5
    <3>8. \A e \in ToSet(buf) : e.proj = c.proj => e.seq <= c.last
      BY <3>4, <3>6
    <3> QED BY <3>7, <3>8 DEF c
  <2> QED BY <2>1, <2>2
<1> QED BY <1>1, <1>2, <1>3

\* A step of the server that puts frames on the wire.
LEMMA SendStep ==
    ASSUME IInv, Open, NEW more \in Seq(Frames), wire' = wire \o more,
           \A f \in ToSet(more) :
               /\ f.tag = "event" => Sound(f.ev)
               /\ f.tag = "complete" /\ f.proj # NoProject => seq[f.proj] <= f.last,
           UNCHANGED <<server, shake, feed, active>>,
           tasks' \in Seq(EventFrames), ToSet(tasks') \subseteq ToSet(tasks),
           todo' \in Seq(Event), \A e \in ToSet(todo') : Sound(e),
           inbox' \in Seq(Requests), sess' \in {"replaying", "first", "ready"},
           sess' = "replaying" => target' \in Projects
    PROVE  IInv'
<1>0. /\ Types /\ Logged /\ Closed /\ Targeted /\ Stamped /\ Marked
      /\ Viewed(feed) /\ ShownOnce
  BY DEF IInv
<1> USE DEF server, shake
<1>1. /\ wire' \in Seq(Frames) /\ Marked'
      /\ \A f \in ToSet(wire') : f.tag = "event" => Sound(f.ev)
  BY WireGrows
<1>2. Types'
  BY <1>0, <1>1 DEF Types
<1>3. Logged' /\ Closed' /\ Targeted'
  BY <1>0 DEF Logged, Closed, Targeted, Sound, Open
<1>4. Stamped'
  <2>1. \A x : Sound(x)' <=> Sound(x)
    BY DEF Sound
  <2> QED BY <1>0, <1>1, <2>1 DEF Stamped
<1>5. Viewed(feed)' /\ ShownOnce'
  BY <1>0 DEF Viewed, ShownOnce
<1> QED BY <1>1, <1>2, <1>3, <1>4, <1>5 DEF IInv

\* Append is a concatenation.
LEMMA OneMore ==
    ASSUME NEW S, NEW s \in Seq(S), NEW x \in S
    PROVE  Append(s, x) = s \o <<x>> /\ <<x>> \in Seq(S) /\ ToSet(<<x>>) = {x}
<1>1. ToSet(<<x>>) = {x}
  BY DEF ToSet
<1> QED BY <1>1

\* A broadcast puts an event on the wire that was stamped.
LEMMA RunTaskStep == ASSUME IInv, RunTask PROVE IInv'
<1> DEFINE f == Head(tasks)
<1>0. Types /\ Closed /\ Stamped /\ Targeted
  BY DEF IInv
<1>1. /\ tasks # <<>> /\ tasks' = Tail(tasks) /\ wire' = Append(wire, f)
      /\ UNCHANGED <<server, sess, todo, target, inbox, shake, feed, active>>
  BY DEF RunTask
<1>2. /\ Tail(tasks) \in Seq(EventFrames) /\ f \in EventFrames /\ f \in ToSet(tasks)
      /\ ToSet(Tail(tasks)) \subseteq ToSet(tasks)
  BY <1>0, <1>1, TailSet DEF Types
<1>3. Open
  BY <1>0, <1>1 DEF Closed
<1>4. f \in Frames /\ f.tag = "event" /\ Sound(f.ev)
  BY <1>0, <1>2, FrameIs DEF Stamped
<1> HIDE DEF f
<1>5. wire' = wire \o <<f>> /\ <<f>> \in Seq(Frames) /\ ToSet(<<f>>) = {f}
  BY <1>0, <1>1, <1>4, OneMore DEF Types
<1>6. /\ todo' \in Seq(Event) /\ inbox' \in Seq(Requests)
      /\ \A e \in ToSet(todo') : Sound(e)
      /\ sess' \in {"replaying", "first", "ready"}
      /\ sess' = "replaying" => target' \in Projects
  BY <1>0, <1>1, <1>3 DEF Types, Stamped, Targeted, Open
<1> QED BY <1>1, <1>2, <1>3, <1>4, <1>5, <1>6, SendStep

\* So does a replay that suspends.
LEMMA ReplaySendStep == ASSUME IInv, ReplaySend PROVE IInv'
<1> DEFINE e == Head(todo)
           f == EventFrame(e)
<1>0. Types /\ Closed /\ Stamped /\ Targeted
  BY DEF IInv
<1>1. /\ todo # <<>> /\ todo' = Tail(todo) /\ wire' = Append(wire, f)
      /\ sess = "replaying"
      /\ UNCHANGED <<server, sess, target, tasks, inbox, shake, feed, active>>
  BY DEF ReplaySend
<1>2. /\ Tail(todo) \in Seq(Event) /\ e \in Event /\ e \in ToSet(todo)
      /\ ToSet(Tail(todo)) \subseteq ToSet(todo)
  BY <1>0, <1>1, TailSet DEF Types
<1>3. Open
  BY <1>1 DEF Open
<1>4. f \in Frames /\ f.tag = "event" /\ f.ev = e /\ Sound(e)
  BY <1>0, <1>2, FrameIs DEF Stamped, EventFrame
<1> HIDE DEF f, e
<1>5. wire' = wire \o <<f>> /\ <<f>> \in Seq(Frames) /\ ToSet(<<f>>) = {f}
  BY <1>0, <1>1, <1>4, OneMore DEF Types
<1>6. /\ todo' \in Seq(Event) /\ inbox' \in Seq(Requests) /\ tasks' \in Seq(EventFrames)
      /\ \A x \in ToSet(todo') : Sound(x)
      /\ sess' \in {"replaying", "first", "ready"}
      /\ sess' = "replaying" => target' \in Projects
  BY <1>0, <1>1, <1>2 DEF Types, Stamped, Targeted
<1> QED BY <1>1, <1>3, <1>4, <1>5, <1>6, SendStep

\* A replay_complete for p, with the last seq of p.
LEMMA CompleteStep ==
    ASSUME IInv, NEW p \in Projects \cup {NoProject}, NEW n \in Nat,
           p # NoProject => n = seq[p],
           Open, wire' = Append(wire, CompleteFrame(p, n)),
           UNCHANGED <<server, tasks, todo, shake, feed, active>>,
           inbox' \in Seq(Requests), sess' = "ready"
    PROVE  IInv'
<1> DEFINE f == CompleteFrame(p, n)
<1>0. Types /\ Stamped
  BY DEF IInv
<1>1. f \in Frames /\ f.tag = "complete" /\ f.proj = p /\ f.last = n
  <2>2. f \in Frames
    BY CompleteIs, Zenon
  <2>3. f.tag = "complete" /\ f.proj = p /\ f.last = n
    BY DEF CompleteFrame
  <2> QED BY <2>2, <2>3
<1> HIDE DEF f
<1>2. wire' = wire \o <<f>> /\ <<f>> \in Seq(Frames) /\ ToSet(<<f>>) = {f}
  BY <1>0, <1>1, OneMore DEF Types, f
<1>3. f.proj # NoProject => seq[f.proj] <= f.last
  BY <1>1
<1>4. tasks' \in Seq(EventFrames) /\ todo' \in Seq(Event) /\ \A e \in ToSet(todo') : Sound(e)
  BY <1>0 DEF Types, Stamped
<1> QED BY <1>1, <1>2, <1>3, <1>4, SendStep

\* last_seq is read when the replay is over.
LEMMA ReplayDoneStep == ASSUME IInv, ReplayDone PROVE IInv'
<1>1. /\ sess = "replaying" /\ sess' = "ready"
      /\ wire' = Append(wire, CompleteFrame(target, seq[target]))
      /\ UNCHANGED <<server, tasks, todo, inbox, shake, feed, active>>
  BY DEF ReplayDone
<1>2. /\ target \in Projects /\ seq[target] \in Nat /\ Open /\ inbox' \in Seq(Requests)
  BY <1>1 DEF IInv, Types, Targeted, Open
<1>3. PICK p \in Projects : p = target
  BY <1>2
<1>4. PICK n \in Nat : n = seq[target]
  BY <1>2
<1> QED BY <1>1, <1>2, <1>3, <1>4, CompleteStep

\* The replay_complete of a handshake in which nothing was asked.
LEMMA HandshakeTimeoutStep == ASSUME IInv, HandshakeTimeout PROVE IInv'
<1>1. /\ sess = "first" /\ sess' = "ready"
      /\ wire' = Append(wire, CompleteFrame(NoProject, 0))
      /\ UNCHANGED <<server, tasks, todo, inbox, shake, feed, active>>
  BY DEF HandshakeTimeout
<1>2. Open /\ inbox' \in Seq(Requests)
  BY <1>1 DEF IInv, Types, Open
<1> QED BY <1>1, <1>2, CompleteStep

\* A replay that suspends has listed its events.
LEMMA ReplayStartStep == ASSUME IInv, ReplayStart PROVE IInv'
<1> DEFINE p == Head(inbox).proj
           since == Head(inbox).since
<1>0. /\ Types /\ Logged /\ Stamped
  BY DEF IInv
<1>1. /\ sess = "first" /\ inbox # <<>> /\ sess' = "replaying" /\ target' = p
      /\ todo' = Replay(p, since) /\ inbox' = Tail(inbox)
      /\ UNCHANGED <<server, tasks, wire, shake, feed, active>>
  BY DEF ReplayStart
<1>a. inbox' \in Seq(Requests) /\ Head(inbox) \in Requests
  BY <1>0, <1>1, TailSet DEF Types
<1>2. inbox' \in Seq(Requests) /\ p \in Projects
  BY <1>a DEF Requests
<1> HIDE DEF p, since
<1>3. todo' \in Seq(Event) /\ \A e \in ToSet(todo') : Sound(e)
  <2>1. /\ Replay(p, since) \in Seq(Event)
        /\ \A i \in DOMAIN Replay(p, since) : Replay(p, since)[i] \in log[p]
    BY <1>2, ReplayIs
  <2> QED BY <1>0, <1>1, <1>2, <2>1 DEF Logged, ToSet
<1>4. /\ wire' = wire \o <<>> /\ <<>> \in Seq(Frames) /\ ToSet(<<>>) = {}
  BY <1>0, <1>1 DEF Types, ToSet
<1>5. Open /\ tasks' \in Seq(EventFrames)
  BY <1>0, <1>1 DEF Open, Types
<1> QED BY <1>1, <1>2, <1>3, <1>4, <1>5, SendStep

\* A replay in one go: its events, then the complete.
LEMMA ReplayAtOnceStep == ASSUME IInv, ReplayAtOnce PROVE IInv'
<1> DEFINE p == Head(inbox).proj
           since == Head(inbox).since
           list == Replay(p, since)
           frames == IF since > seq[p] THEN <<ResyncFrame>>
                     ELSE [i \in DOMAIN list |-> EventFrame(list[i])]
           c == CompleteFrame(p, seq[p])
<1>0. /\ Types /\ Logged /\ Stamped
  BY DEF IInv
<1>1. /\ sess = "first" /\ inbox # <<>> /\ sess' = "ready"
      /\ wire' = Append(wire \o frames, c) /\ inbox' = Tail(inbox)
      /\ UNCHANGED <<server, todo, target, tasks, shake, feed, active>>
  BY DEF ReplayAtOnce
<1>a. inbox' \in Seq(Requests) /\ Head(inbox) \in Requests
  BY <1>0, <1>1, TailSet DEF Types
<1>2. inbox' \in Seq(Requests) /\ p \in Projects
  BY <1>a DEF Requests
<1>3. seq[p] \in Nat
  BY <1>0, <1>2 DEF Types
<1>4. c \in Frames /\ c.tag = "complete" /\ c.proj = p /\ c.last = seq[p]
  BY <1>2, <1>3, FrameIs
<1> HIDE DEF p, since, c
<1>5. /\ list \in Seq(Event) /\ \A i \in DOMAIN list : list[i] \in log[p]
  BY <1>2, ReplayIs
<1> HIDE DEF list
<1>6. /\ frames \in Seq(Frames)
      /\ \A f \in ToSet(frames) : f.tag = "event" => Sound(f.ev)
      /\ \A f \in ToSet(frames) : f.tag # "complete"
  <2>1. CASE since > seq[p]
    <3>0. ResyncFrame \in Frames /\ ResyncFrame.tag = "resync"
      BY FrameIs
    <3>1. <<ResyncFrame>> \in Seq(Frames) /\ ToSet(<<ResyncFrame>>) = {ResyncFrame}
      BY <3>0, <<>> \in Seq(Frames), OneMore, Zenon
    <3>2. frames = <<ResyncFrame>>
      BY <2>1
    <3> QED BY <3>0, <3>1, <3>2
  <2>2. CASE ~ (since > seq[p])
    <3>1. frames = [i \in DOMAIN list |-> EventFrame(list[i])]
      BY <2>2
    <3> HIDE DEF frames
    <3>2. /\ DOMAIN list = 1 .. Len(list) /\ Len(list) \in Nat
          /\ \A i \in DOMAIN list : list[i] \in Event
      BY <1>5
    <3>3. \A i \in DOMAIN list :
             /\ frames[i] \in Frames /\ frames[i].tag = "event" /\ frames[i].ev = list[i]
             /\ Sound(list[i])
      BY <1>0, <1>2, <1>5, <3>1, <3>2, FrameIs DEF Logged, EventFrame
    <3>4. frames \in Seq(Frames) /\ DOMAIN frames = DOMAIN list
      BY <3>1, <3>2, <3>3
    <3> QED BY <3>3, <3>4 DEF ToSet
  <2> QED BY <2>1, <2>2
<1> HIDE DEF frames
<1> DEFINE more == frames \o <<c>>
<1>7. more \in Seq(Frames) /\ wire' = wire \o more
  <2>1. wire \o frames \in Seq(Frames)
    BY <1>0, <1>6, ConcatSet DEF Types
  <2>2. wire' = (wire \o frames) \o <<c>> /\ <<c>> \in Seq(Frames)
    BY <1>1, <1>4, <2>1, OneMore
  <2>3. (wire \o frames) \o <<c>> = wire \o (frames \o <<c>>)
    <3>1. wire \in Seq(Frames) /\ frames \in Seq(Frames) /\ <<c>> \in Seq(Frames)
      BY <1>0, <1>6, <2>2 DEF Types
    <3>2. PICK v \in Seq(Frames) : v = <<c>>
      BY <3>1
    <3>3. (wire \o frames) \o v = wire \o (frames \o v)
      BY <3>1, Regroup
    <3> QED BY <3>2, <3>3
  <2> QED BY <1>6, <2>2, <2>3, ConcatSet
<1>8. ToSet(more) \subseteq ToSet(frames) \cup {c}
  <2>1. PICK v \in Seq(Frames) : v = <<c>> /\ ToSet(v) = {c}
    BY <1>4, <1>6, OneMore
  <2>2. ToSet(frames \o v) \subseteq ToSet(frames) \cup ToSet(v)
    BY <1>6, <2>1, ConcatSet
  <2> QED BY <2>1, <2>2
<1> HIDE DEF more
<1>9. \A f \in ToSet(more) :
         /\ f.tag = "event" => Sound(f.ev)
         /\ f.tag = "complete" /\ f.proj # NoProject => seq[f.proj] <= f.last
  BY <1>3, <1>4, <1>6, <1>8
<1>10. /\ Open /\ tasks' \in Seq(EventFrames) /\ todo' \in Seq(Event)
       /\ \A e \in ToSet(todo') : Sound(e)
  BY <1>0, <1>1 DEF Open, Types, Stamped
<1> QED BY <1>1, <1>2, <1>7, <1>9, <1>10, SendStep

-----------------------------------------------------------------------------
(* The connection                                                          *)

\* A late replay_request changes nothing.
LEMMA RefuseReplayStep == ASSUME IInv, RefuseReplay PROVE IInv'
<1>1. /\ inbox # <<>> /\ inbox' = Tail(inbox)
      /\ UNCHANGED <<server, link, shake, feed, active>>
  BY DEF RefuseReplay
<1>2. inbox' \in Seq(Requests) /\ active' \in Projects
  BY <1>1, TailSet DEF IInv, Types
<1> QED BY <1>1, <1>2, Quiet

\* The connection breaks, with the log and the seqs as they may be then.
LEMMA DropStep ==
    ASSUME IInv, Drop, UNCHANGED <<shake, feed, active>>, Logged',
           log' \in [Projects -> SUBSET Event], seq' \in [Projects -> Nat],
           restarts' \in 0 .. MaxRestarts
    PROVE  IInv'
<1>1. /\ sess' = "none" /\ todo' = <<>> /\ tasks' = <<>> /\ wire' = <<>> /\ inbox' = <<>>
      /\ buf' = buf /\ hs' = hs /\ hsProject' = hsProject
  BY DEF Drop, shake
<1>2. \A S : <<>> \in Seq(S)
  OBVIOUS
<1>3. Types'
  BY <1>1, <1>2 DEF IInv, Types
<1>4. Closed' /\ Targeted' /\ Stamped' /\ Marked'
  BY <1>1 DEF Closed, Targeted, Stamped, Marked, Open, ToSet
<1>5. Viewed(feed)' /\ ShownOnce'
  BY DEF IInv, Viewed, ShownOnce
<1> QED BY <1>3, <1>4, <1>5 DEF IInv

\* A connection that breaks takes its frames with it.
LEMMA DisconnectStep == ASSUME IInv, Disconnect PROVE IInv'
<1>1. Drop /\ UNCHANGED <<server, shake, feed, active>>
  BY DEF Disconnect
<1>2. /\ log' \in [Projects -> SUBSET Event] /\ seq' \in [Projects -> Nat]
      /\ restarts' \in 0 .. MaxRestarts
  BY <1>1 DEF IInv, Types, server
<1>3. Logged'
  BY <1>1 DEF IInv, Logged, Sound, server
<1> QED BY <1>1, <1>2, <1>3, DropStep

\* What the restarted backend has is a part of the log, below its own mark.
LEMMA ServerRestartStep == ASSUME IInv, ServerRestart PROVE IInv'
<1>0. Types /\ Logged
  BY DEF IInv
<1>1. /\ restarts < MaxRestarts /\ restarts' = restarts + 1
      /\ Drop /\ UNCHANGED <<shake, feed, active>>
  BY DEF ServerRestart
<1>2. PICK cut \in [Projects -> 0 .. MaxSeq] :
         /\ log' = [p \in Projects |->
                       {e \in log[p] : e.kind = "msg" /\ e.seq <= cut[p]}]
         /\ seq' \in IF ReuseSeq THEN [Projects -> 0 .. MaxSeq] \cup {seq} ELSE {seq}
         /\ \A p \in Projects : cut[p] <= seq'[p] /\ seq'[p] <= seq[p]
  BY DEF ServerRestart
<1>3. restarts' \in 0 .. MaxRestarts
  BY <1>0, <1>1, DeliveryAssumption DEF Types
<1>4. seq' \in [Projects -> Nat]
  BY <1>0, <1>2, DeliveryAssumption DEF Types
<1>5. log' \in [Projects -> SUBSET Event]
  BY <1>0, <1>2 DEF Types
<1>6. Logged'
  <2> SUFFICES ASSUME NEW p \in Projects
               PROVE  /\ IsFiniteSet(log'[p])
                      /\ \A e \in log'[p] : e.proj = p /\ Sound(e)'
                      /\ \A e, f \in log'[p] : e.seq = f.seq => e = f
    BY DEF Logged
  <2>1. /\ IsFiniteSet(log[p]) /\ log[p] \in SUBSET Event
        /\ \A e \in log[p] : e.proj = p /\ Sound(e)
        /\ \A e, f \in log[p] : e.seq = f.seq => e = f
    BY <1>0 DEF Logged, Types
  <2>2. log'[p] \in SUBSET log[p] /\ \A e \in log'[p] : e.seq <= cut[p]
    BY <1>2
  <2>3. IsFiniteSet(log'[p])
    BY <2>1, <2>2, FS_Subset
  <2>4. ASSUME NEW e \in log'[p] PROVE e.proj = p /\ Sound(e)'
    <3>1. e.seq \in Nat /\ cut[p] \in Nat /\ seq'[p] \in Nat /\ e.proj = p
      BY <1>2, <1>4, <2>1, <2>2, DeliveryAssumption DEF Event
    <3>2. e.seq <= cut[p] /\ cut[p] <= seq'[p]
      BY <1>2, <2>2
    <3>3. \A id \in e.conv : id[1] <= e.seq
      BY <2>1, <2>2 DEF Sound
    <3> QED BY <3>1, <3>2, <3>3 DEF Sound
  <2> QED BY <2>1, <2>2, <2>3, <2>4
<1> QED BY <1>1, <1>3, <1>4, <1>5, <1>6, DropStep

\* A new connection begins with an empty buffer.
LEMMA ConnectStep == ASSUME IInv, Connect PROVE IInv'
<1>0. /\ Types /\ Logged /\ Closed /\ Stamped /\ Viewed(feed) /\ ShownOnce
  BY DEF IInv
<1> DEFINE request == [op |-> "replay", proj |-> active, since |-> feed.wm[active]]
<1>1. /\ ~Open /\ sess' = "first" /\ inbox' = <<request>>
      /\ hs' = TRUE /\ hsProject' = active /\ buf' = <<>>
      /\ UNCHANGED <<server, todo, target, tasks, wire, feed, active>>
  BY DEF Connect
<1>2. tasks = <<>> /\ wire = <<>> /\ todo = <<>>
  BY <1>0, <1>1 DEF Closed
<1>3. request \in Requests
  BY <1>0 DEF Types, Feeds, Requests
<1> HIDE DEF request
<1>4. inbox' \in Seq(Requests)
  BY <1>1, <1>3
<1>5. \A S : <<>> \in Seq(S)
  OBVIOUS
<1>6. Types'
  BY <1>0, <1>1, <1>4, <1>5 DEF Types, server
<1>7. Logged'
  BY <1>0, <1>1 DEF Logged, Sound, server
<1>8. Closed' /\ Targeted' /\ Stamped' /\ Marked'
  BY <1>1, <1>2 DEF Closed, Targeted, Stamped, Marked, Open, ToSet
<1>9. Viewed(feed)' /\ ShownOnce'
  BY <1>0, <1>1 DEF Viewed, ShownOnce
<1> QED BY <1>6, <1>7, <1>8, <1>9 DEF IInv

-----------------------------------------------------------------------------
(* The steps of the client                                                 *)

\* A frame is taken off the wire; an event may go into the buffer.
LEMMA Taken ==
    ASSUME IInv, wire # <<>>, wire' = Tail(wire),
           UNCHANGED <<server, sess, todo, target, tasks, active>>,
           inbox' \in Seq(Requests), hs' \in BOOLEAN,
           hsProject' \in Projects \cup {NoProject}, buf' \in Seq(Event),
           \A e \in ToSet(buf') :
              e \in ToSet(buf) \/ (Head(wire).tag = "event" /\ e = Head(wire).ev),
           feed' \in Feeds, Viewed(feed'), ~feed'.twice
    PROVE  IInv'
<1>0. /\ Types /\ Logged /\ Closed /\ Targeted /\ Stamped /\ Marked
  BY DEF IInv
<1> USE DEF server
<1>1. /\ wire' \in Seq(Frames) /\ DOMAIN wire' = 1 .. Len(wire) - 1
      /\ Head(wire) = wire[1] /\ Head(wire) \in ToSet(wire)
      /\ \A i \in 1 .. Len(wire) - 1 : wire'[i] = wire[i + 1]
      /\ ToSet(wire') \subseteq ToSet(wire)
      /\ Len(wire) \in Nat \ {0} /\ DOMAIN wire = 1 .. Len(wire)
  BY <1>0, TailSet DEF Types
<1>2. Types'
  BY <1>0, <1>1 DEF Types
<1>3. Logged' /\ Closed' /\ Targeted'
  <2>1. Open
    BY <1>0 DEF Closed
  <2> QED BY <1>0, <2>1 DEF Logged, Closed, Targeted, Sound, Open
<1>4. Stamped'
  <2>1. Open
    BY <1>0 DEF Closed
  <2>2. \A x : Sound(x)' <=> Sound(x)
    BY DEF Sound
  <2>3. \A e \in ToSet(buf') : Sound(e)
    BY <1>0, <1>1, <2>1 DEF Stamped
  <2> QED BY <1>0, <1>1, <2>2, <2>3 DEF Stamped
<1>5. Marked'
  <2> SUFFICES ASSUME NEW j \in DOMAIN wire', wire'[j].tag = "complete",
                      wire'[j].proj # NoProject
               PROVE  /\ \A i \in 1 .. j - 1 :
                            wire'[i].tag = "event" /\ wire'[i].ev.proj = wire'[j].proj =>
                                wire'[i].ev.seq <= wire'[j].last
                      /\ \A e \in ToSet(buf') :
                            e.proj = wire'[j].proj => e.seq <= wire'[j].last
    BY DEF Marked
  <2>1. /\ j \in Nat /\ j + 1 \in DOMAIN wire /\ wire'[j] = wire[j + 1]
        /\ 1 \in 1 .. (j + 1) - 1
    BY <1>1
  <2> DEFINE c == wire[j + 1]
  <2>2. /\ \A i \in 1 .. (j + 1) - 1 :
              wire[i].tag = "event" /\ wire[i].ev.proj = c.proj => wire[i].ev.seq <= c.last
        /\ \A e \in ToSet(buf) : e.proj = c.proj => e.seq <= c.last
    BY <1>0, <2>1 DEF Marked
  <2>3. wire'[j] = c
    BY <2>1
  <2> HIDE DEF c
  <2>4. \A i \in 1 .. j - 1 : i + 1 \in 1 .. (j + 1) - 1 /\ wire'[i] = wire[i + 1]
    BY <1>1, <2>1
  <2>5. \A e \in ToSet(buf') : e.proj = c.proj => e.seq <= c.last
    BY <1>1, <2>1, <2>2
  <2> QED BY <2>2, <2>3, <2>4, <2>5
<1>6. Viewed(feed)' /\ ShownOnce'
  BY DEF ShownOnce
<1> QED BY <1>2, <1>3, <1>4, <1>5, <1>6 DEF IInv

\* The frame at the head of the wire.
LEMMA FirstFrame ==
    ASSUME IInv, wire # <<>>
    PROVE  /\ Head(wire).tag = "event" => Head(wire).ev \in Event /\ Sound(Head(wire).ev)
           /\ Head(wire).tag = "complete" =>
                 Head(wire).proj \in Projects \cup {NoProject} /\ Head(wire).last \in Nat
<1>1. Head(wire) \in Frames /\ Head(wire) \in ToSet(wire)
  BY TailSet DEF IInv, Types
<1> QED BY <1>1, FrameIs DEF IInv, Stamped

\* routeEvent in the handshake: the event goes from the wire to the buffer.
LEMMA OnBufferedStep == ASSUME IInv, OnBuffered PROVE IInv'
<1> DEFINE e == Head(wire).ev
<1>0. Types /\ Viewed(feed) /\ ShownOnce
  BY DEF IInv
<1>1. /\ wire # <<>> /\ Head(wire).tag = "event" /\ wire' = Tail(wire)
      /\ UNCHANGED <<server, sess, todo, target, tasks, active, hs, hsProject, feed>>
      /\ \/ buf' = <<>> /\ Request({e.proj})
         \/ buf' = Append(buf, e) /\ inbox' = inbox
  BY DEF OnBuffered, Receiving, asked
<1>2. e \in Event /\ e.proj \in Projects
  BY <1>1, FirstFrame DEF Event
<1>3. e = Head(wire).ev
  OBVIOUS
<1> HIDE DEF e
<1>4. /\ feed' \in Feeds /\ Viewed(feed') /\ ~feed'.twice
      /\ hs' \in BOOLEAN /\ hsProject' \in Projects \cup {NoProject}
  BY <1>0, <1>1 DEF Types, ShownOnce
<1>5. CASE buf' = <<>> /\ Request({e.proj})
  <2>1. inbox' \in Seq(Requests)
    BY <1>0, <1>2, <1>5, Asks DEF Types
  <2>2. buf' \in Seq(Event) /\ ToSet(buf') = {}
    BY <1>5 DEF ToSet
  <2> QED BY <1>1, <1>4, <2>1, <2>2, Taken
<1>6. CASE buf' = Append(buf, e) /\ inbox' = inbox
  <2>1. inbox' \in Seq(Requests) /\ buf \in Seq(Event)
    BY <1>0, <1>6 DEF Types
  <2>2. buf' \in Seq(Event) /\ ToSet(buf') = ToSet(buf) \cup {e}
    BY <1>2, <1>6, <2>1, AppendSet
  <2> QED BY <1>1, <1>3, <1>4, <2>1, <2>2, Taken
<1> QED BY <1>1, <1>5, <1>6 DEF e

\* A snapshot replaces the conversation, and what it shows is older than it.
LEMMA OnSnapshotStep == ASSUME IInv, OnSnapshot PROVE IInv'
<1> DEFINE e == Head(wire).ev
           q == e.proj
           f == Show([feed EXCEPT !.wm[e.proj] = e.seq], e)
<1>0. Types /\ Viewed(feed) /\ ShownOnce
  BY DEF IInv
<1>1. /\ wire # <<>> /\ Head(wire).tag = "event" /\ wire' = Tail(wire)
      /\ UNCHANGED <<server, sess, todo, target, tasks, active, shake, inbox>>
      /\ e.kind = "snap" /\ feed' = f
  BY DEF OnSnapshot, Receiving
<1>2. e \in Event /\ Sound(e)
  BY <1>1, FirstFrame
<1>3. e.proj \in Projects /\ e.seq \in Nat /\ e.conv \in SUBSET (Nat \X Nat)
  BY <1>2 DEF Event
<1> HIDE DEF e
<1>4. f = [feed EXCEPT !.wm[q] = e.seq, !.view[q] = e.conv]
  BY <1>1 DEF Show
<1> HIDE DEF f
<1>5. /\ feed.wm \in [Projects -> Nat] /\ feed.view \in [Projects -> SUBSET (Nat \X Nat)]
      /\ feed \in Feeds /\ feed.twice = FALSE
  BY <1>0 DEF Types, Feeds, ShownOnce
<1>6. /\ f \in Feeds /\ f.twice = FALSE /\ f.seen = feed.seen
      /\ f.wm[q] = e.seq /\ f.view[q] = e.conv
      /\ \A p \in Projects : p # q => f.wm[p] = feed.wm[p] /\ f.view[p] = feed.view[p]
  BY <1>3, <1>4, <1>5 DEF Feeds
<1>7. Viewed(f)
  <2> SUFFICES ASSUME NEW p \in Projects, NEW id \in f.view[p]
               PROVE  id[1] <= f.wm[p] \/ <<p, id[1], "msg">> \in f.seen
    BY DEF Viewed
  <2>1. CASE p = q
    BY <1>2, <1>6, <2>1 DEF Sound
  <2>2. CASE p # q
    BY <1>0, <1>6, <2>2 DEF Viewed
  <2> QED BY <2>1, <2>2
<1>8. /\ inbox' \in Seq(Requests) /\ hs' \in BOOLEAN /\ buf' \in Seq(Event) /\ buf' = buf
      /\ hsProject' \in Projects \cup {NoProject}
  BY <1>0, <1>1 DEF Types, shake
<1> QED BY <1>1, <1>6, <1>7, <1>8, Taken

\* Any other event is above the watermark when it is delivered.
LEMMA OnEventStep == ASSUME IInv, OnEvent PROVE IInv'
<1> DEFINE e == Head(wire).ev
           mark == feed.wm[e.proj]
<1>0. Types /\ Viewed(feed) /\ ShownOnce
  BY DEF IInv
<1>1. /\ wire # <<>> /\ Head(wire).tag = "event" /\ wire' = Tail(wire)
      /\ UNCHANGED <<server, sess, todo, target, tasks, active, shake>>
      /\ CASE e.seq <= mark -> UNCHANGED <<feed, asked>>
           [] mark > 0 /\ e.seq > mark + 1 -> Request({e.proj}) /\ UNCHANGED feed
           [] OTHER -> feed' = Deliver(feed, e) /\ UNCHANGED asked
  BY DEF OnEvent, Receiving
<1>2. e \in Event /\ Sound(e)
  BY <1>1, FirstFrame
<1>3. e.proj \in Projects /\ e.seq \in Nat /\ mark \in Nat
  BY <1>0, <1>2 DEF Event, Types, Feeds
<1>4. \/ UNCHANGED <<feed, asked>>
      \/ Request({e.proj}) /\ UNCHANGED feed
      \/ ~(e.seq <= mark) /\ feed' = Deliver(feed, e) /\ UNCHANGED asked
  BY <1>1
<1> HIDE DEF e
<1>5. /\ hs' \in BOOLEAN /\ buf' \in Seq(Event) /\ buf' = buf
      /\ hsProject' \in Projects \cup {NoProject}
  BY <1>0, <1>1 DEF Types, shake
<1>6. inbox' \in Seq(Requests)
  <2>1. CASE UNCHANGED asked
    BY <1>0, <2>1 DEF Types, asked
  <2>2. CASE Request({e.proj})
    BY <1>0, <1>3, <2>2, Asks DEF Types
  <2> QED BY <1>4, <2>1, <2>2
<1>7. feed' \in Feeds /\ Viewed(feed') /\ ~feed'.twice
  <2>1. CASE UNCHANGED feed
    BY <1>0, <2>1 DEF Types, ShownOnce
  <2>2. CASE ~(e.seq <= mark) /\ feed' = Deliver(feed, e)
    <3>1. feed.wm[e.proj] < e.seq
      BY <1>3, <2>2
    <3>2. feed \in Feeds /\ ~feed.twice /\ \A id \in e.conv : id[1] <= e.seq
      BY <1>0, <1>2 DEF Types, ShownOnce, Sound
    <3> QED BY <1>0, <1>2, <2>2, <3>1, <3>2, DeliverRight
  <2> QED BY <1>4, <2>1, <2>2
<1> QED BY <1>1, <1>5, <1>6, <1>7, Taken

\* The watermark goes back, and nothing is shown any more.
LEMMA OnEpochResetStep == ASSUME IInv, OnEpochReset PROVE IInv'
<1> DEFINE p == Head(wire).proj
           n == Head(wire).last
           f == [feed EXCEPT !.view[p] = {}, !.wm[p] = n]
<1>0. Types /\ Viewed(feed) /\ ShownOnce
  BY DEF IInv
<1>1. /\ wire # <<>> /\ Head(wire).tag = "complete" /\ wire' = Tail(wire) /\ p # NoProject
      /\ UNCHANGED <<server, sess, todo, target, tasks, active>>
      /\ feed' = f /\ Request({p}) /\ hs' = FALSE /\ buf' = <<>> /\ hsProject' = NoProject
  BY DEF OnEpochReset, Receiving, NewEpoch
<1>2. p \in Projects /\ n \in Nat
  BY <1>1, FirstFrame
<1> HIDE DEF p, n
<1>3. /\ feed.wm \in [Projects -> Nat] /\ feed.view \in [Projects -> SUBSET (Nat \X Nat)]
      /\ feed \in Feeds /\ feed.twice = FALSE
  BY <1>0 DEF Types, Feeds, ShownOnce
<1>4. /\ f \in Feeds /\ f.twice = FALSE /\ f.seen = feed.seen /\ f.view[p] = {}
      /\ \A r \in Projects : r # p => f.wm[r] = feed.wm[r] /\ f.view[r] = feed.view[r]
  BY <1>2, <1>3 DEF Feeds
<1> HIDE DEF f
<1>5. Viewed(f)
  <2> SUFFICES ASSUME NEW r \in Projects, NEW id \in f.view[r]
               PROVE  id[1] <= f.wm[r] \/ <<r, id[1], "msg">> \in f.seen
    BY DEF Viewed
  <2>1. r # p
    BY <1>4
  <2> QED BY <1>0, <1>4, <2>1 DEF Viewed
<1>6. inbox' \in Seq(Requests)
  BY <1>0, <1>1, <1>2, Asks DEF Types
<1>7. buf' \in Seq(Event) /\ ToSet(buf') = {}
  BY <1>1 DEF ToSet
<1> QED BY <1>1, <1>4, <1>5, <1>6, <1>7, Taken

\* Nothing of the project that is waiting is above the last seq the frame
\* names, so the watermark it sets is none too low.
LEMMA DrainedRight ==
    ASSUME IInv, wire # <<>>, Head(wire).tag = "complete", ~NewEpoch(Head(wire)), hs
    PROVE  Drained(feed, buf) \in Right(Head(wire).proj, Head(wire).last)
<1> DEFINE p == Head(wire).proj
           n == Head(wire).last
<1>0. Types /\ Viewed(feed) /\ ShownOnce /\ Closed /\ Stamped /\ Marked
  BY DEF IInv
<1>1. p \in Projects \cup {NoProject} /\ n \in Nat
  BY FirstFrame
<1>2. p \in Projects => feed.wm[p] <= n
  <2> SUFFICES ASSUME p \in Projects PROVE feed.wm[p] <= n
    OBVIOUS
  <2>1. p # NoProject /\ ~(n < feed.wm[p])
    BY DeliveryAssumption DEF NewEpoch
  <2>2. feed.wm[p] \in Nat
    BY <1>0 DEF Types, Feeds
  <2> QED BY <1>1, <2>1, <2>2
<1>3. ASSUME NEW e \in ToSet(buf)
      PROVE  /\ e \in Event /\ \A id \in e.conv : id[1] <= e.seq
             /\ e.proj = p => e.seq <= n
  <2>1. e \in Event /\ Sound(e)
    BY <1>0 DEF Types, Stamped, Closed, ToSet
  <2>2. ASSUME e.proj = p PROVE e.seq <= n
    <3>1. p # NoProject
      BY <2>1, <2>2, DeliveryAssumption DEF Event
    <3>2. 1 \in DOMAIN wire /\ Head(wire) = wire[1]
      BY <1>0, TailSet DEF Types
    <3> QED BY <1>0, <2>2, <3>1, <3>2 DEF Marked
  <2> QED BY <2>1, <2>2 DEF Sound
<1> HIDE DEF p, n
<1> DEFINE P == Right(p, n)
<1>4. feed \in P
  BY <1>0, <1>2 DEF Right, Types, ShownOnce
<1>5. \A g \in P : \A e \in ToSet(buf) : Absorb(g, e) \in P
  BY <1>1, <1>3, AbsorbRight
<1>6. buf \in Seq(Event)
  BY <1>0 DEF Types
<1> HIDE DEF P
<1>7. Drained(feed, buf) \in P
  BY <1>4, <1>5, <1>6, DrainKeeps
<1> QED BY <1>7 DEF P, p, n

\* replay_complete: after the drain the watermark only rises.
LEMMA OnCompleteStep == ASSUME IInv, OnComplete PROVE IInv'
<1> DEFINE p == Head(wire).proj
           n == Head(wire).last
           drained == IF hs THEN Drained(feed, buf) ELSE feed
<1>0. Types /\ Viewed(feed) /\ ShownOnce
  BY DEF IInv
<1>1. /\ wire # <<>> /\ Head(wire).tag = "complete" /\ wire' = Tail(wire)
      /\ UNCHANGED <<server, sess, todo, target, tasks, active>> /\ ~NewEpoch(Head(wire))
      /\ \/ p = NoProject /\ feed' = drained /\ inbox' = inbox
         \/ p # NoProject /\ feed' = [drained EXCEPT !.wm[p] = n] /\ Request({p} \ synced)
      /\ hs' = FALSE /\ buf' = <<>> /\ hsProject' = NoProject
  BY DEF OnComplete, Receiving
<1>2. p \in Projects \cup {NoProject} /\ n \in Nat
  BY <1>1, FirstFrame
<1>3. drained \in Right(p, n)
  <2>1. CASE hs
    BY <1>1, <2>1, DrainedRight
  <2>2. CASE ~hs
    <3>1. ASSUME p \in Projects PROVE feed.wm[p] <= n
      <4>1. p # NoProject /\ feed.wm[p] \in Nat
        BY <1>0, <3>1, DeliveryAssumption DEF Types, Feeds
      <4> QED BY <1>1, <1>2, <4>1 DEF NewEpoch
    <3> QED BY <1>0, <2>2, <3>1 DEF Right, Types, ShownOnce
  <2> QED BY <2>1, <2>2
<1> HIDE DEF p, n, drained
<1>4. /\ drained \in Feeds /\ Viewed(drained) /\ ~drained.twice
      /\ (p \in Projects => drained.wm[p] <= n)
  BY <1>3 DEF Right
<1>5. buf' \in Seq(Event) /\ ToSet(buf') = {}
  BY <1>1 DEF ToSet
<1>6. CASE p = NoProject /\ feed' = drained /\ inbox' = inbox
  <2>1. inbox' \in Seq(Requests)
    BY <1>0, <1>6 DEF Types
  <2> QED BY <1>1, <1>4, <1>5, <1>6, <2>1, Taken
<1>7. CASE p # NoProject /\ feed' = [drained EXCEPT !.wm[p] = n] /\ Request({p} \ synced)
  <2>1. p \in Projects
    BY <1>2, <1>7
  <2>2. inbox' \in Seq(Requests)
    BY <1>0, <1>7, <2>1, Asks DEF Types
  <2>3. /\ drained.wm \in [Projects -> Nat]
        /\ drained.view \in [Projects -> SUBSET (Nat \X Nat)]
    BY <1>4 DEF Feeds
  <2>4. /\ feed' \in Feeds /\ feed'.twice = drained.twice /\ feed'.seen = drained.seen
        /\ feed'.view = drained.view /\ feed'.wm = [drained.wm EXCEPT ![p] = n]
    BY <1>2, <1>4, <1>7, <2>1, <2>3 DEF Feeds
  <2>5. Viewed(feed')
    <3> SUFFICES ASSUME NEW r \in Projects, NEW id \in drained.view[r]
                 PROVE  id[1] <= feed'.wm[r] \/ <<r, id[1], "msg">> \in drained.seen
      BY <2>4 DEF Viewed
    <3>1. id[1] <= drained.wm[r] \/ <<r, id[1], "msg">> \in drained.seen
      BY <1>4 DEF Viewed
    <3>2. /\ id[1] \in Nat /\ drained.wm[r] \in Nat /\ feed'.wm[r] \in Nat
          /\ drained.wm[r] <= feed'.wm[r]
      BY <1>2, <1>4, <2>1, <2>3, <2>4
    <3> QED BY <3>1, <3>2
  <2> QED BY <1>1, <1>4, <1>5, <2>2, <2>4, <2>5, Taken
<1> QED BY <1>1, <1>6, <1>7

\* A resync frame only asks for a snapshot.
LEMMA OnResyncStep == ASSUME IInv, OnResync PROVE IInv'
<1>0. Types /\ Viewed(feed) /\ ShownOnce
  BY DEF IInv
<1> DEFINE p == IF hsProject # NoProject THEN hsProject ELSE active
<1>1. /\ wire # <<>> /\ wire' = Tail(wire) /\ Request({p})
      /\ UNCHANGED <<server, sess, todo, target, tasks, shake, feed, active>>
  BY DEF OnResync, Receiving
<1>2. p \in Projects
  BY <1>0 DEF Types
<1> HIDE DEF p
<1>3. inbox' \in Seq(Requests)
  BY <1>0, <1>1, <1>2, Asks DEF Types
<1>4. /\ hs' \in BOOLEAN /\ buf' \in Seq(Event) /\ buf' = buf
      /\ hsProject' \in Projects \cup {NoProject}
      /\ feed' \in Feeds /\ Viewed(feed') /\ ~feed'.twice
  BY <1>0, <1>1 DEF Types, shake, ShownOnce
<1> QED BY <1>1, <1>3, <1>4, Taken

-----------------------------------------------------------------------------
(* Every step                                                              *)

\* A step that at most asks for snapshots.
LEMMA AskingStep ==
    ASSUME IInv, UNCHANGED <<server, link, shake, feed>>, active' \in Projects,
           \/ \E S \in SUBSET Projects : Request(S)
           \/ inbox' = inbox
    PROVE  IInv'
<1>1. inbox \in Seq(Requests)
  BY DEF IInv, Types
<1>2. inbox' \in Seq(Requests)
  BY <1>1, Asks
<1> QED BY <1>2, Quiet

\* Every step keeps the invariant.
LEMMA StepInvariant == IInv /\ [Next]_vars => IInv'
<1> SUFFICES ASSUME IInv, [Next]_vars PROVE IInv'
  OBVIOUS
<1>0. active \in Projects
  BY DEF IInv, Types
<1>1. CASE UNCHANGED vars
  BY <1>0, <1>1, AskingStep DEF vars
<1>2. CASE \E p \in Projects : \E kind \in Kinds : Emit(p, kind)
  BY <1>2, EmitStep
<1>3. CASE \E p \in Projects : OtherSnapshot(p)
  BY <1>3, OtherSnapshotStep
<1>4. ASSUME NEW p \in Projects, Switch(p) PROVE IInv'
  <2>1. /\ active' = p /\ Request({p} \ synced)
        /\ UNCHANGED <<server, link, shake, feed>>
    BY <1>4 DEF Switch
  <2> QED BY <2>1, AskingStep
<1>5. CASE HandshakeTimeout \/ Disconnect \/ ServerRestart \/ Connect
  BY <1>5, HandshakeTimeoutStep, DisconnectStep, ServerRestartStep, ConnectStep
<1>6. CASE RunTask
  BY <1>6, RunTaskStep
<1>7. CASE Serve
  BY <1>7, ReplayAtOnceStep, ReplayStartStep, ReplaySendStep, ReplayDoneStep,
     RefuseReplayStep, ServeSnapshotStep DEF Serve
<1>8. CASE Receive
  BY <1>8, OnBufferedStep, OnSnapshotStep, OnEventStep, OnEpochResetStep,
     OnCompleteStep, OnResyncStep DEF Receive
<1>9. CASE SyncAll
  <2>1. /\ Request(Projects \ synced) /\ active' = active
        /\ UNCHANGED <<server, link, shake, feed>>
    BY <1>9 DEF SyncAll
  <2> QED BY <1>0, <2>1, AskingStep
<1>10. CASE Cooldown
  <2>1. inbox' = inbox /\ active' = active /\ UNCHANGED <<server, link, shake, feed>>
    BY <1>10 DEF Cooldown
  <2> QED BY <1>0, <2>1, AskingStep
<1> QED BY <1>1, <1>2, <1>3, <1>4, <1>5, <1>6, <1>7, <1>8, <1>9, <1>10
        DEF Next, Environment

\* The invariant holds in every reachable state: the watermarks and the dedup
\* set of socket.ts cover everything its conversations show.
THEOREM InvariantHolds == Spec => []IInv
BY InitInvariant, StepInvariant, PTL DEF Spec

\* No message is ever shown twice, across replays, snapshots, duplicated
\* broadcasts, reconnects and restarts of the backend (socket.ts, "five copies
\* of the same reply").
THEOREM MessagesShownOnce == Spec => []ShownOnce
<1>1. IInv => ShownOnce
  BY DEF IInv
<1> QED BY <1>1, InvariantHolds, PTL

-----------------------------------------------------------------------------
(* The types                                                               *)

\* What TypeOK says beyond Types: the bookkeeping of the client.
Books ==
    /\ status \in {"connecting", "handshaking", "live", "resync", "reconnecting"}
    /\ Len(buf) <= HandshakeMax
    /\ synced \in SUBSET Projects /\ recent \in SUBSET Projects
    /\ bulk \in BOOLEAN /\ timers \in Nat

\* It holds at first,
LEMMA BooksInit == Init => Books
<1> SUFFICES ASSUME Init PROVE Books
  OBVIOUS
<1>1. buf = <<>> /\ Len(<<>>) = 0 /\ 0 <= HandshakeMax
  BY DeliveryAssumption DEF Init
<1> QED BY <1>1 DEF Init, Books

\* when a snapshot is asked for (doRequestSnapshot),
LEMMA BooksAsk ==
    ASSUME Books, NEW S \in SUBSET Projects, Request(S)
    PROVE  recent' \in SUBSET Projects
BY DEF Books, Request

\* when the client goes live (setConnStatus),
LEMMA BooksLive ==
    ASSUME Books, GoLive
    PROVE  bulk' \in BOOLEAN /\ timers' \in Nat
BY DEF Books, GoLive

\* and after every step.
LEMMA BooksStep == IInv /\ Books /\ [Next]_vars => Books'
<1> SUFFICES ASSUME IInv, Books, [Next]_vars PROVE Books'
  OBVIOUS
<1>0. Types
  BY DEF IInv
<1> DEFINE Statuses == {"connecting", "handshaking", "live", "resync", "reconnecting"}
           Same == UNCHANGED <<status, synced, recent, bulk, timers>>
<1>a. \A S, o : o \in Statuses => Asking(S, o) \in Statuses
  BY DEF Asking
<1>b. status \in Statuses
  BY DEF Books
<1>c. ASSUME NEW p \in Projects PROVE {p} \in SUBSET Projects /\ {p} \ synced \in SUBSET Projects
  OBVIOUS
<1>d. ASSUME wire # <<>>, Head(wire).tag = "event" PROVE Head(wire).ev.proj \in Projects
  BY <1>d, FirstFrame DEF Event
<1>e. ASSUME wire # <<>>, Head(wire).tag = "complete", Head(wire).proj # NoProject
      PROVE  Head(wire).proj \in Projects
  BY <1>e, FirstFrame
<1>f. ASSUME buf' = <<>> \/ buf' = buf PROVE Len(buf') <= HandshakeMax
  BY <1>f, DeliveryAssumption DEF Books
<1>1. ASSUME Same, UNCHANGED buf PROVE Books'
  BY <1>1, <1>f DEF Books
<1>2. ASSUME NEW p \in Projects, NEW kind \in Kinds, Emit(p, kind) PROVE Books'
  BY <1>1, <1>2 DEF Emit, shake, sync
<1>3. ASSUME NEW p \in Projects, OtherSnapshot(p) PROVE Books'
  BY <1>1, <1>3 DEF OtherSnapshot, shake, sync
<1>4. ASSUME NEW p \in Projects, Switch(p) PROVE Books'
  <2>1. /\ synced' = synced \cup {p} /\ Request({p} \ synced) /\ buf' = buf
        /\ status' = Asking({p} \ synced, status) /\ UNCHANGED <<bulk, timers>>
    BY <1>4 DEF Switch, shake, sync
  <2>2. recent' \in SUBSET Projects
    BY <1>c, <2>1, BooksAsk
  <2> QED BY <1>a, <1>b, <1>f, <2>1, <2>2 DEF Books
<1>5. CASE HandshakeTimeout
  BY <1>1, <1>5 DEF HandshakeTimeout, shake, sync
<1>6. CASE Disconnect
  <2>1. status' = "reconnecting" /\ UNCHANGED <<buf, synced, recent, bulk, timers>>
    BY <1>6 DEF Disconnect, Drop, shake, sync
  <2> QED BY <1>f, <2>1 DEF Books
<1>7. CASE ServerRestart
  <2>1. status' = "reconnecting" /\ UNCHANGED <<buf, synced, recent, bulk, timers>>
    BY <1>7 DEF ServerRestart, Drop, shake, sync
  <2> QED BY <1>f, <2>1 DEF Books
<1>8. CASE RunTask
  BY <1>1, <1>8 DEF RunTask, shake, sync
<1>9. CASE Serve
  BY <1>1, <1>9 DEF Serve, ReplayAtOnce, ReplayStart, ReplaySend, ReplayDone,
     RefuseReplay, ServeSnapshot, shake, sync
<1>10. CASE OnBuffered
  <2> DEFINE e == Head(wire).ev
  <2>1. /\ wire # <<>> /\ Head(wire).tag = "event" /\ UNCHANGED <<synced, bulk, timers>>
        /\ \/ buf' = <<>> /\ Request({e.proj}) /\ status' = Asking({e.proj}, status)
           \/ Len(buf) < HandshakeMax /\ buf' = Append(buf, e) /\ UNCHANGED <<status, recent>>
    <3>1. Len(buf) \in Nat /\ HandshakeMax \in Nat
      BY <1>0, DeliveryAssumption DEF Types
    <3> QED BY <1>10, <3>1 DEF OnBuffered, Receiving, asked, sync
  <2>2. e.proj \in Projects
    BY <1>d, <2>1
  <2> HIDE DEF e
  <2>3. CASE buf' = <<>> /\ Request({e.proj}) /\ status' = Asking({e.proj}, status)
    <3>1. recent' \in SUBSET Projects
      BY <1>c, <2>2, <2>3, BooksAsk
    <3> QED BY <1>a, <1>b, <1>f, <2>1, <2>3, <3>1 DEF Books
  <2>4. CASE Len(buf) < HandshakeMax /\ buf' = Append(buf, e) /\ UNCHANGED <<status, recent>>
    <3>1. Len(buf') = Len(buf) + 1 /\ Len(buf) \in Nat /\ HandshakeMax \in Nat
      BY <1>0, <2>4, DeliveryAssumption DEF Types
    <3>2. Len(buf') <= HandshakeMax
      BY <2>4, <3>1
    <3> QED BY <2>1, <2>4, <3>2 DEF Books
  <2> QED BY <2>1, <2>3, <2>4
<1>11. CASE OnSnapshot
  <2>1. /\ UNCHANGED <<buf, synced, recent>>
        /\ \/ status' = "live" /\ GoLive
           \/ UNCHANGED <<status, bulk, timers>>
    BY <1>11 DEF OnSnapshot, shake, sync
  <2>2. bulk' \in BOOLEAN /\ timers' \in Nat
    BY <2>1, BooksLive DEF Books
  <2> QED BY <1>f, <2>1, <2>2 DEF Books
<1>12. CASE OnEvent
  <2> DEFINE e == Head(wire).ev
  <2>1. /\ wire # <<>> /\ Head(wire).tag = "event" /\ UNCHANGED <<buf, synced, bulk, timers>>
        /\ \/ Request({e.proj}) /\ status' = Asking({e.proj}, status)
           \/ UNCHANGED <<status, recent>>
    BY <1>12 DEF OnEvent, Receiving, asked, shake, sync
  <2>2. e.proj \in Projects
    BY <1>d, <2>1
  <2>3. recent' \in SUBSET Projects
    BY <1>c, <2>1, <2>2, BooksAsk DEF Books
  <2> QED BY <1>a, <1>b, <1>f, <2>1, <2>3 DEF Books
<1>13. CASE OnEpochReset
  <2> DEFINE p == Head(wire).proj
  <2>1. /\ wire # <<>> /\ Head(wire).tag = "complete" /\ p # NoProject
        /\ synced' = synced \ {p} /\ Request({p}) /\ buf' = <<>> /\ status' = "live" /\ GoLive
    BY <1>13 DEF OnEpochReset, NewEpoch, Receiving
  <2>2. p \in Projects
    BY <1>e, <2>1
  <2>3. recent' \in SUBSET Projects
    BY <1>c, <2>1, <2>2, BooksAsk
  <2> QED BY <1>f, <2>1, <2>3, BooksLive DEF Books
<1>14. CASE OnComplete
  <2> DEFINE p == Head(wire).proj
  <2>1. /\ wire # <<>> /\ Head(wire).tag = "complete" /\ buf' = <<>> /\ GoLive
        /\ \/ status' \in {"live", "resync"} /\ UNCHANGED <<synced, recent>>
           \/ /\ p # NoProject /\ synced' = synced \cup {p} /\ Request({p} \ synced)
              /\ status' = Asking({p} \ synced, "live")
    BY <1>14 DEF OnComplete, Receiving
  <2>2. p # NoProject => p \in Projects
    BY <1>e, <2>1
  <2> HIDE DEF p
  <2>3. CASE status' \in {"live", "resync"} /\ UNCHANGED <<synced, recent>>
    BY <1>f, <2>1, <2>3, BooksLive DEF Books
  <2>4. CASE /\ p # NoProject /\ synced' = synced \cup {p} /\ Request({p} \ synced)
             /\ status' = Asking({p} \ synced, "live")
    <3>1. recent' \in SUBSET Projects
      BY <1>c, <2>2, <2>4, BooksAsk
    <3> QED BY <1>a, <1>f, <2>1, <2>2, <2>4, <3>1, BooksLive DEF Books
  <2> QED BY <2>1, <2>3, <2>4
<1>15. CASE OnResync
  <2> DEFINE p == IF hsProject # NoProject THEN hsProject ELSE active
  <2>1. /\ Request({p}) /\ status' = Asking({p}, status)
        /\ UNCHANGED <<buf, synced, bulk, timers>>
    BY <1>15 DEF OnResync, shake, sync
  <2>2. p \in Projects
    BY <1>0 DEF Types
  <2> HIDE DEF p
  <2>3. recent' \in SUBSET Projects
    BY <1>c, <2>1, <2>2, BooksAsk
  <2> QED BY <1>a, <1>b, <1>f, <2>1, <2>3 DEF Books
<1>16. CASE SyncAll
  <2>1. /\ timers > 0 /\ timers' = timers - 1 /\ synced' = Projects /\ Request(Projects \ synced)
        /\ status' = Asking(Projects \ synced, status) /\ UNCHANGED <<buf, bulk>>
    BY <1>16 DEF SyncAll, shake
  <2>2. recent' \in SUBSET Projects
    BY <2>1, BooksAsk
  <2> QED BY <1>a, <1>b, <1>f, <2>1, <2>2 DEF Books
<1>17. CASE Cooldown
  <2>1. recent' \in SUBSET Projects /\ UNCHANGED <<status, synced, bulk, timers, buf>>
    BY <1>17 DEF Cooldown, shake, sync, Books
  <2> QED BY <1>f, <2>1 DEF Books
<1>18. CASE Connect
  <2>1. /\ status' = "handshaking" /\ synced' = {} /\ bulk' = FALSE /\ buf' = <<>>
        /\ UNCHANGED <<recent, timers>>
    BY <1>18 DEF Connect
  <2> QED BY <1>f, <2>1 DEF Books
<1>19. CASE UNCHANGED vars
  BY <1>1, <1>19 DEF vars, shake, sync
<1> QED BY <1>2, <1>3, <1>4, <1>5, <1>6, <1>7, <1>8, <1>9, <1>10, <1>11, <1>12,
           <1>13, <1>14, <1>15, <1>16, <1>17, <1>18, <1>19
        DEF Next, Environment, Receive

\* What is missed was asked for before: a request only takes from it.
LEMMA MissedStep ==
    ASSUME Books, missed \in SUBSET Projects, [Next]_vars PROVE missed' \in SUBSET Projects
<1>1. ASSUME NEW S, Request(S) PROVE missed' \in SUBSET Projects
  BY <1>1 DEF Request
<1>2. CASE Connect
  BY <1>2 DEF Connect, Books
<1>3. CASE Receive
  BY <1>1, <1>3 DEF Receive, OnBuffered, OnSnapshot, OnEvent, OnEpochReset, OnComplete,
     OnResync, asked
<1>4. CASE SyncAll \/ Cooldown \/ (\E p \in Projects : Switch(p))
  BY <1>1, <1>4 DEF SyncAll, Cooldown, Switch
<1>5. ASSUME NEW p \in Projects, NEW kind \in Kinds, Emit(p, kind) PROVE missed' = missed
  BY <1>5 DEF Emit
<1>a. ASSUME NEW p \in Projects, OtherSnapshot(p) PROVE missed' = missed
  BY <1>a DEF OtherSnapshot
<1>6. CASE HandshakeTimeout \/ Disconnect \/ ServerRestart \/ RunTask \/ UNCHANGED vars
  BY <1>6 DEF HandshakeTimeout, Disconnect, ServerRestart, RunTask, vars
<1>7. CASE Serve
  BY <1>7 DEF Serve, ReplayAtOnce, ReplayStart, ReplaySend, ReplayDone, RefuseReplay,
     ServeSnapshot
<1> QED BY <1>2, <1>3, <1>4, <1>5, <1>a, <1>6, <1>7 DEF Next, Environment

\* Type correctness of the delivery: the buffer of the handshake never holds
\* more than HANDSHAKE_BUFFER_MAX events (pushHandshake), and the bookkeeping of
\* the client is about projects there are.
THEOREM TypeCorrect == Spec => []TypeOK
<1>1. IInv /\ Books /\ missed \in SUBSET Projects => TypeOK
  <2> SUFFICES ASSUME IInv, Books, missed \in SUBSET Projects PROVE TypeOK
    OBVIOUS
  <2>1. \A p \in Projects : log[p] \subseteq Event
    BY DEF IInv, Types
  <2>2. ToSet(buf) \subseteq Event /\ feed.wm \in [Projects -> Nat]
    BY DEF IInv, Types, ToSet, Feeds
  <2> QED BY <2>1, <2>2 DEF IInv, Types, Books, TypeOK
<1>2. Init => missed \in SUBSET Projects
  BY DEF Init
<1>3. Books /\ missed \in SUBSET Projects /\ [Next]_vars => (missed \in SUBSET Projects)'
  BY MissedStep
<1> QED BY <1>1, <1>2, <1>3, InitInvariant, StepInvariant, BooksInit, BooksStep, PTL DEF Spec

-----------------------------------------------------------------------------
(* The steps, by what they touch                                           *)

\* Snapshots are asked for, or forgotten to have been.
AskPart ==
    \/ \E S \in SUBSET Projects : Request(S) /\ synced' \subseteq synced \cup S
    \/ /\ inbox' = inbox /\ missed' = missed
       /\ synced' \subseteq synced /\ recent' \subseteq recent

\* Nothing but that, or a late replay_request is refused.
Idles ==
    /\ UNCHANGED <<log, seq, lost, sess, todo, tasks, wire, shake, feed>>
    /\ \/ AskPart
       \/ /\ sess = "ready" /\ inbox # <<>> /\ Head(inbox).op = "replay"
          /\ inbox' = Tail(inbox) /\ UNCHANGED <<synced, recent, missed>>

\* An event of p is stamped, for a snapshot request of p perhaps.
Stamps(p, kind, conv) ==
    /\ Stamp(p, kind, conv) /\ (kind = "snap" => conv = Conversation(p))
    /\ UNCHANGED <<lost, sess, todo, wire, shake, feed, synced, recent, missed>>
    /\ \/ inbox' = inbox
       \/ /\ sess = "ready" /\ kind = "snap" /\ inbox # <<>> /\ Head(inbox).proj = p
          /\ inbox' = Tail(inbox)

\* An event the replay sends: listed before, or new for the one who asks now.
Listed(e) ==
    \/ e \in ToSet(todo)
    \/ /\ sess = "first" /\ inbox # <<>> /\ e \in log[e.proj]
       /\ e.proj = Head(inbox).proj /\ e.seq > Head(inbox).since

\* The handler answers the replay_request: such events, and in the end the
\* replay_complete.
Replays ==
    /\ sess \in {"first", "replaying"} /\ sess' \in {"first", "replaying", "ready"}
    /\ UNCHANGED <<log, seq, lost, tasks, shake, feed, synced, recent, missed>>
    /\ \/ inbox' = inbox /\ sess' # "first"
       \/ sess = "first" /\ sess' # "first" /\ inbox # <<>> /\ inbox' = Tail(inbox)
    /\ \A e \in ToSet(todo') : Listed(e)
    /\ \E more \in Seq(Frames) :
          /\ wire' = wire \o more
          /\ \A i \in DOMAIN more : more[i].tag = "event" => Listed(more[i].ev)
          /\ \A i \in DOMAIN more :
                more[i].tag = "complete" <=> sess' = "ready" /\ i = Len(more)
          /\ sess' = "ready" =>
                /\ more # <<>>
                /\ more[Len(more)].proj # NoProject =>
                      more[Len(more)].last = seq[more[Len(more)].proj]

\* The frame at the head of the wire is taken.
Takes ==
    /\ wire # <<>> /\ wire' = Tail(wire)
    /\ UNCHANGED <<log, seq, lost, sess, todo, tasks>>
    /\ AskPart

Quits ==
    /\ sess' = "none" /\ wire' = <<>> /\ tasks' = <<>> /\ todo' = <<>>
    /\ inbox' = <<>> /\ feed' = feed /\ hs' = hs /\ buf' = buf
    /\ ~lost' => ~lost /\ seq' = seq
    /\ \/ log' = log
       \/ \A p \in Projects : log'[p] \subseteq {e \in log[p] : e.kind = "msg"}

\* emit() and the two snapshots stamp an event.
LEMMA StampsStep ==
    ASSUME IInv,
           \/ \E p \in Projects : (\E kind \in Kinds : Emit(p, kind)) \/ OtherSnapshot(p)
           \/ ServeSnapshot
    PROVE  \E p \in Projects, kind \in {"msg", "tick", "snap"}, conv \in SUBSET (Nat \X Nat) :
              Stamps(p, kind, conv)
<1>1. ASSUME NEW p \in Projects, NEW kind \in Kinds, Emit(p, kind)
      PROVE  kind \in {"msg", "tick", "snap"} /\ Stamps(p, kind, {})
  BY <1>1, DeliveryAssumption DEF Emit, Stamps, server
<1>2. ASSUME NEW p \in Projects, OtherSnapshot(p) PROVE Stamps(p, "snap", Conversation(p))
  BY <1>2 DEF OtherSnapshot, Stamps
<1>3. ASSUME ServeSnapshot
      PROVE  \E p \in Projects : Stamps(p, "snap", Conversation(p))
  <2> DEFINE p == Head(inbox).proj
  <2>1. inbox # <<>> /\ Head(inbox) \in Requests
    BY <1>3, TailSet DEF ServeSnapshot, IInv, Types
  <2>2. p \in Projects
    BY <2>1 DEF Requests
  <2>3. Stamps(p, "snap", Conversation(p))
    BY <1>3 DEF ServeSnapshot, Stamps
  <2> QED BY <2>2, <2>3
<1>4. \A p \in Projects : Conversation(p) \in SUBSET (Nat \X Nat)
  BY ConversationIs
<1>5. {} \in SUBSET (Nat \X Nat)
  OBVIOUS
<1> QED BY <1>1, <1>2, <1>3, <1>4, <1>5

\* The handler of the connection replays, at once or not.
LEMMA ReplaysStep ==
    ASSUME IInv, ReplayAtOnce \/ ReplayStart \/ ReplaySend \/ ReplayDone \/ HandshakeTimeout
    PROVE  Replays
<1>0. Types /\ Logged /\ Targeted /\ Stamped
  BY DEF IInv
<1> USE DEF server
<1>1. CASE ReplayAtOnce
  <2> DEFINE p == Head(inbox).proj
             since == Head(inbox).since
             list == Replay(p, since)
             frames == IF since > seq[p] THEN <<ResyncFrame>>
                       ELSE [i \in DOMAIN list |-> EventFrame(list[i])]
             c == CompleteFrame(p, seq[p])
             more == frames \o <<c>>
  <2>1. /\ sess = "first" /\ inbox # <<>> /\ sess' = "ready" /\ todo' = todo
        /\ wire' = Append(wire \o frames, c) /\ inbox' = Tail(inbox)
        /\ UNCHANGED <<log, seq, lost, tasks, shake, feed, synced, recent, missed>>
    BY <1>1 DEF ReplayAtOnce
  <2>2. Head(inbox) \in Requests
    BY <1>0, <2>1, TailSet DEF Types
  <2>3. p \in Projects
    BY <2>2 DEF Requests
  <2>4. seq[p] \in Nat
    BY <1>0, <2>3 DEF Types
  <2>5. c \in Frames /\ c.tag = "complete" /\ c.proj = p /\ c.last = seq[p]
    BY <2>3, <2>4, CompleteIs
  <2> HIDE DEF p, since, c
  <2>6. /\ list \in Seq(Event)
        /\ \A i \in DOMAIN list : list[i] \in log[p] /\ list[i].seq > since
    BY <2>3, ReplayIs
  <2> HIDE DEF list
  <2>7. /\ frames \in Seq(Frames)
        /\ \A i \in DOMAIN frames :
              /\ frames[i].tag # "complete"
              /\ frames[i].tag = "event" =>
                    /\ frames[i].ev \in log[p] /\ frames[i].ev.proj = p
                    /\ frames[i].ev.seq > since
    <3>1. CASE since > seq[p]
      <4>0. ResyncFrame \in Frames /\ ResyncFrame.tag = "resync"
        BY FrameIs
      <4>1. frames = <<ResyncFrame>>
        BY <3>1
      <4> HIDE DEF frames
      <4>2. DOMAIN frames = {1} /\ frames[1] = ResyncFrame /\ frames \in Seq(Frames)
        BY <4>0, <4>1
      <4> QED BY <4>0, <4>2
    <3>2. CASE ~ (since > seq[p])
      <4>1. frames = [i \in DOMAIN list |-> EventFrame(list[i])]
        BY <3>2
      <4> HIDE DEF frames
      <4>2. /\ DOMAIN list = 1 .. Len(list) /\ Len(list) \in Nat
            /\ \A i \in DOMAIN list : list[i] \in Event /\ list[i].proj = p
        BY <1>0, <2>3, <2>6 DEF Logged
      <4>3. \A i \in DOMAIN list :
               /\ frames[i] \in Frames /\ frames[i].tag = "event" /\ frames[i].ev = list[i]
        BY <4>1, <4>2, FrameIs DEF EventFrame
      <4>4. frames \in Seq(Frames) /\ DOMAIN frames = DOMAIN list
        BY <4>1, <4>2, <4>3
      <4> QED BY <2>6, <4>2, <4>3, <4>4
    <3> QED BY <3>1, <3>2
  <2> HIDE DEF frames
  <2>8. /\ more \in Seq(Frames) /\ Len(more) = Len(frames) + 1 /\ Len(frames) \in Nat
        /\ DOMAIN more = 1 .. Len(more)
        /\ \A i \in 1 .. Len(frames) : i \in DOMAIN frames /\ more[i] = frames[i]
        /\ more[Len(more)] = c
    BY <2>5, <2>7
  <2>9. wire' = wire \o more
    <3>1. wire \in Seq(Frames) /\ frames \in Seq(Frames) /\ <<c>> \in Seq(Frames)
      BY <1>0, <2>5, <2>7 DEF Types
    <3>2. wire' = (wire \o frames) \o <<c>>
      BY <2>1, <3>1
    <3>3. PICK v \in Seq(Frames) : v = <<c>>
      BY <3>1
    <3>4. (wire \o frames) \o v = wire \o (frames \o v)
      BY <3>1, Regroup
    <3> QED BY <3>2, <3>3, <3>4
  <2> HIDE DEF more
  <2>10. \A i \in DOMAIN more : i \in 1 .. Len(frames) \/ i = Len(more)
    BY <2>8
  <2>11. /\ \A i \in DOMAIN more : more[i].tag = "event" =>
              /\ more[i].ev \in log[p] /\ more[i].ev.proj = p
              /\ more[i].ev.seq > since
         /\ \A i \in DOMAIN more : more[i].tag = "complete" <=> i = Len(more)
         /\ more # <<>>
    BY <2>5, <2>7, <2>8, <2>10
  <2>12. \A i \in DOMAIN more : more[i].tag = "event" => Listed(more[i].ev)
    BY <2>1, <2>11 DEF Listed, p, since
  <2>13. \A e \in ToSet(todo') : Listed(e)
    BY <2>1 DEF Listed
  <2> QED BY <2>1, <2>5, <2>8, <2>9, <2>11, <2>12, <2>13 DEF Replays
<1>2. CASE ReplayStart
  <2> DEFINE p == Head(inbox).proj
             since == Head(inbox).since
  <2>1. /\ sess = "first" /\ inbox # <<>> /\ sess' = "replaying" /\ wire' = wire
        /\ inbox' = Tail(inbox) /\ todo' = Replay(p, since)
        /\ UNCHANGED <<log, seq, lost, tasks, shake, feed, synced, recent, missed>>
    BY <1>2 DEF ReplayStart
  <2>2. Head(inbox) \in Requests
    BY <1>0, <2>1, TailSet DEF Types
  <2>3. p \in Projects
    BY <2>2 DEF Requests
  <2> HIDE DEF p, since
  <2>4. \A i \in DOMAIN Replay(p, since) :
           Replay(p, since)[i] \in log[p] /\ Replay(p, since)[i].seq > since
    BY <2>3, ReplayIs
  <2>a. \A e \in ToSet(todo') : e \in log[p] /\ e.proj = p /\ e.seq > since
    BY <1>0, <2>1, <2>3, <2>4 DEF Logged, ToSet, p, since
  <2>5. \A e \in ToSet(todo') : Listed(e)
    BY <2>1, <2>a DEF Listed, p, since
  <2>6. <<>> \in Seq(Frames) /\ wire' = wire \o <<>> /\ DOMAIN <<>> = {}
    BY <1>0, <2>1 DEF Types
  <2> QED BY <2>1, <2>5, <2>6 DEF Replays
<1>3. ASSUME ReplaySend \/ ReplayDone \/ HandshakeTimeout
      PROVE  \E f \in Frames :
                /\ wire' = Append(wire, f)
                /\ sess \in {"first", "replaying"} /\ sess' \in {"replaying", "ready"}
                /\ UNCHANGED <<log, seq, lost, tasks, inbox, shake, feed, synced, recent, missed>>
                /\ \A e \in ToSet(todo') : e \in ToSet(todo)
                /\ f.tag = "event" => f.ev \in ToSet(todo)
                /\ f.tag = "complete" <=> sess' = "ready"
                /\ f.tag = "complete" /\ f.proj # NoProject => f.last = seq[f.proj]
  <2>1. CASE ReplaySend
    <3>1. /\ todo # <<>> /\ todo' = Tail(todo) /\ wire' = Append(wire, EventFrame(Head(todo)))
          /\ sess = "replaying" /\ sess' = sess
          /\ UNCHANGED <<log, seq, lost, tasks, inbox, shake, feed, synced, recent, missed>>
      BY <2>1 DEF ReplaySend
    <3>2. /\ Head(todo) \in Event /\ Head(todo) \in ToSet(todo)
          /\ ToSet(Tail(todo)) \subseteq ToSet(todo)
      BY <1>0, <3>1, TailSet DEF Types
    <3>3. PICK f : f = EventFrame(Head(todo))
      OBVIOUS
    <3>4. f \in Frames /\ f.tag = "event" /\ f.ev = Head(todo)
      BY <3>2, <3>3, FrameIs DEF EventFrame
    <3> QED BY <3>1, <3>2, <3>3, <3>4
  <2>2. CASE ReplayDone
    <3>1. /\ wire' = Append(wire, CompleteFrame(target, seq[target])) /\ todo' = todo
          /\ sess = "replaying" /\ sess' = "ready"
          /\ UNCHANGED <<log, seq, lost, tasks, inbox, shake, feed, synced, recent, missed>>
      BY <2>2 DEF ReplayDone
    <3>2. target \in Projects /\ seq[target] \in Nat
      BY <1>0, <3>1 DEF Targeted, Types
    <3>3. PICK f : f = CompleteFrame(target, seq[target])
      OBVIOUS
    <3>4. f \in Frames /\ f.tag = "complete" /\ f.proj = target /\ f.last = seq[target]
      BY <3>2, <3>3, CompleteIs
    <3> QED BY <3>1, <3>3, <3>4
  <2>3. CASE HandshakeTimeout
    <3>1. /\ wire' = Append(wire, CompleteFrame(NoProject, 0)) /\ todo' = todo
          /\ sess = "first" /\ sess' = "ready"
          /\ UNCHANGED <<log, seq, lost, tasks, inbox, shake, feed, synced, recent, missed>>
      BY <2>3 DEF HandshakeTimeout
    <3>2. PICK f : f = CompleteFrame(NoProject, 0)
      OBVIOUS
    <3>3. f \in Frames /\ f.tag = "complete" /\ f.proj = NoProject
      BY <3>2, CompleteIs
    <3> QED BY <3>1, <3>2, <3>3
  <2> QED BY <1>3, <2>1, <2>2, <2>3
<1>4. CASE ReplaySend \/ ReplayDone \/ HandshakeTimeout
  <2>1. PICK f \in Frames :
                /\ wire' = Append(wire, f)
                /\ sess \in {"first", "replaying"} /\ sess' \in {"replaying", "ready"}
                /\ UNCHANGED <<log, seq, lost, tasks, inbox, shake, feed, synced, recent, missed>>
                /\ \A e \in ToSet(todo') : e \in ToSet(todo)
                /\ f.tag = "event" => f.ev \in ToSet(todo)
                /\ f.tag = "complete" <=> sess' = "ready"
                /\ f.tag = "complete" /\ f.proj # NoProject => f.last = seq[f.proj]
    BY <1>3, <1>4
  <2> DEFINE more == <<f>>
  <2>2. /\ more \in Seq(Frames) /\ wire' = wire \o more /\ DOMAIN more = {1}
        /\ more[1] = f /\ Len(more) = 1 /\ more # <<>>
    BY <1>0, <2>1 DEF Types
  <2> HIDE DEF more
  <2> QED BY <2>1, <2>2 DEF Replays, Listed
<1> QED BY <1>1, <1>2, <1>4

\* The connection breaks, or the backend does.
LEMMA QuitsStep == ASSUME IInv, Disconnect \/ ServerRestart PROVE Quits
<1>1. CASE Disconnect
  BY <1>1 DEF Disconnect, Drop, server, shake, Quits
<1>2. CASE ServerRestart
  <2>1. Drop /\ UNCHANGED <<shake, feed>> /\ lost' = (lost \/ seq' # seq)
    BY <1>2 DEF ServerRestart
  <2>2. PICK cut : log' = [p \in Projects |->
                       {e \in log[p] : e.kind = "msg" /\ e.seq <= cut[p]}]
    BY <1>2 DEF ServerRestart
  <2>3. \A p \in Projects : log'[p] \subseteq {e \in log[p] : e.kind = "msg"}
    BY <2>2
  <2> QED BY <2>1, <2>3 DEF Drop, shake, Quits
<1> QED BY <1>1, <1>2

\* Timers and switches only ask.
LEMMA IdlesStep ==
    ASSUME IInv, RefuseReplay \/ SyncAll \/ (\E p \in Projects : Switch(p)) \/ Cooldown
                 \/ UNCHANGED vars
    PROVE  Idles
<1> USE DEF server, link, shake
<1>1. CASE RefuseReplay
  BY <1>1 DEF RefuseReplay, Idles
<1>2. CASE SyncAll
  <2>1. Request(Projects \ synced) /\ synced' \subseteq synced \cup (Projects \ synced)
    BY <1>2 DEF SyncAll
  <2>2. AskPart
    BY <2>1 DEF AskPart
  <2> QED BY <1>2, <2>2 DEF SyncAll, Idles
<1>3. ASSUME NEW p \in Projects, Switch(p) PROVE Idles
  <2>1. Request({p} \ synced) /\ synced' \subseteq synced \cup ({p} \ synced)
    BY <1>3 DEF Switch
  <2>2. AskPart
    BY <2>1 DEF AskPart
  <2> QED BY <1>3, <2>2 DEF Switch, Idles
<1>4. CASE Cooldown
  <2>1. AskPart
    BY <1>4 DEF Cooldown, AskPart
  <2> QED BY <1>4, <2>1 DEF Cooldown, Idles
<1>5. CASE UNCHANGED vars
  BY <1>5 DEF vars, Idles, AskPart
<1> QED BY <1>1, <1>2, <1>3, <1>4, <1>5

\* Every handler of the client takes one frame.
LEMMA TakesStep == ASSUME IInv, Receive PROVE Takes /\ Open
<1> USE DEF server
<1>0. Types /\ Closed
  BY DEF IInv
<1>1. ASSUME wire # <<>>, wire' = Tail(wire), UNCHANGED <<log, seq, lost, sess, todo, tasks>>,
             AskPart
      PROVE  Takes /\ Open
  BY <1>0, <1>1 DEF Takes, Closed
<1>2. ASSUME NEW p \in Projects, Request({p}), synced' \subseteq synced \cup {p} PROVE AskPart
  BY <1>2 DEF AskPart
<1>3. ASSUME wire # <<>>, Head(wire).tag = "event" PROVE Head(wire).ev.proj \in Projects
  BY <1>3, FirstFrame DEF Event
<1>4. ASSUME wire # <<>>, Head(wire).tag = "complete", Head(wire).proj # NoProject
      PROVE  Head(wire).proj \in Projects
  BY <1>4, FirstFrame
<1>5. ASSUME UNCHANGED <<inbox, synced, recent, missed>> PROVE AskPart
  BY <1>5 DEF AskPart
<1>6. CASE OnBuffered
  <2>1. /\ wire # <<>> /\ Head(wire).tag = "event" /\ wire' = Tail(wire) /\ synced' = synced
        /\ UNCHANGED <<log, seq, lost, sess, todo, tasks>>
        /\ Request({Head(wire).ev.proj}) \/ UNCHANGED <<inbox, recent, missed>>
    BY <1>6 DEF OnBuffered, Receiving, asked
  <2> QED BY <1>1, <1>2, <1>3, <1>5, <2>1
<1>7. CASE OnSnapshot
  BY <1>1, <1>5, <1>7 DEF OnSnapshot, Receiving
<1>8. CASE OnEvent
  <2>1. /\ wire # <<>> /\ Head(wire).tag = "event" /\ wire' = Tail(wire) /\ synced' = synced
        /\ UNCHANGED <<log, seq, lost, sess, todo, tasks>>
        /\ Request({Head(wire).ev.proj}) \/ UNCHANGED <<inbox, recent, missed>>
    BY <1>8 DEF OnEvent, Receiving, asked
  <2> QED BY <1>1, <1>2, <1>3, <1>5, <2>1
<1>9. CASE OnEpochReset
  <2>1. /\ wire # <<>> /\ Head(wire).tag = "complete" /\ wire' = Tail(wire)
        /\ Head(wire).proj # NoProject /\ synced' \subseteq synced /\ Request({Head(wire).proj})
        /\ UNCHANGED <<log, seq, lost, sess, todo, tasks>>
    BY <1>9 DEF OnEpochReset, Receiving, NewEpoch
  <2> QED BY <1>1, <1>2, <1>4, <2>1
<1>10. CASE OnComplete
  <2> DEFINE p == Head(wire).proj
  <2>1. /\ wire # <<>> /\ Head(wire).tag = "complete" /\ wire' = Tail(wire)
        /\ UNCHANGED <<log, seq, lost, sess, todo, tasks>>
        /\ \/ UNCHANGED <<inbox, synced, recent, missed>>
           \/ p # NoProject /\ synced' = synced \cup {p} /\ Request({p} \ synced)
    BY <1>10 DEF OnComplete, Receiving
  <2>2. ASSUME p # NoProject, synced' = synced \cup {p}, Request({p} \ synced)
        PROVE  AskPart
    <3>1. {p} \ synced \in SUBSET Projects /\ synced' \subseteq synced \cup ({p} \ synced)
      BY <1>4, <2>1, <2>2
    <3> QED BY <2>2, <3>1 DEF AskPart
  <2> QED BY <1>1, <1>5, <2>1, <2>2
<1>11. CASE OnResync
  <2> DEFINE p == IF hsProject # NoProject THEN hsProject ELSE active
  <2>1. p \in Projects
    BY <1>0 DEF Types
  <2>2. /\ wire # <<>> /\ wire' = Tail(wire) /\ synced' = synced /\ Request({p})
        /\ UNCHANGED <<log, seq, lost, sess, todo, tasks>>
    BY <1>11 DEF OnResync, Receiving
  <2> HIDE DEF p
  <2> QED BY <1>1, <1>2, <2>1, <2>2
<1> QED BY <1>6, <1>7, <1>8, <1>9, <1>10, <1>11 DEF Receive

\* Every step is one of these.
LEMMA Footprints ==
    ASSUME IInv, [Next]_vars
    PROVE  \/ \E p \in Projects, kind \in {"msg", "tick", "snap"},
                 conv \in SUBSET (Nat \X Nat) : Stamps(p, kind, conv)
           \/ RunTask \/ Replays \/ Quits \/ Connect \/ Idles
           \/ (Takes /\ Open /\ Receive)
<1>1. CASE \/ \E p \in Projects : (\E kind \in Kinds : Emit(p, kind)) \/ OtherSnapshot(p)
           \/ ServeSnapshot
  BY <1>1, StampsStep
<1>2. CASE ReplayAtOnce \/ ReplayStart \/ ReplaySend \/ ReplayDone \/ HandshakeTimeout
  BY <1>2, ReplaysStep
<1>3. CASE Disconnect \/ ServerRestart
  BY <1>3, QuitsStep
<1>4. CASE RefuseReplay \/ SyncAll \/ (\E p \in Projects : Switch(p)) \/ Cooldown
           \/ UNCHANGED vars
  BY <1>4, IdlesStep
<1>5. CASE Receive
  BY <1>5, TakesStep
<1>6. CASE RunTask \/ Connect
  BY <1>6
<1> QED BY <1>1, <1>2, <1>3, <1>4, <1>5, <1>6 DEF Next, Environment, Serve

-----------------------------------------------------------------------------
(* What a connection is made of                                            *)

IsComplete(f) == f.tag = "complete"

\* The handshake lasts until the one replay_complete of the connection.
Shaking ==
    Open =>
        /\ \A i, j \in DOMAIN wire : IsComplete(wire[i]) /\ IsComplete(wire[j]) => i = j
        /\ hs <=> sess # "ready" \/ \E i \in DOMAIN wire : IsComplete(wire[i])
        /\ sess # "ready" => \A i \in DOMAIN wire : ~IsComplete(wire[i])
        /\ ~hs => buf = <<>>

\* The first frame to the server is the replay_request.
First == sess = "first" => inbox # <<>> /\ Head(inbox).op = "replay"

\* What comes over a connection is in the log.
Known ==
    Open =>
        /\ \A f \in ToSet(tasks) \cup ToSet(wire) : f.tag = "event" => f.ev \in log[f.ev.proj]
        /\ \A e \in ToSet(todo) \cup ToSet(buf) : e \in log[e.proj]

\* A snapshot has every message that is older.
Whole ==
    \A p \in Projects : \A s, e \in log[p] :
        s.kind = "snap" /\ e.kind = "msg" /\ e.seq < s.seq => Id(e) \in s.conv

\* The places of a concatenation.
LEMMA ConcatPlaces ==
    ASSUME NEW S, NEW s \in Seq(S), NEW u \in Seq(S)
    PROVE  /\ s \o u \in Seq(S) /\ Len(s) \in Nat /\ Len(u) \in Nat
           /\ Len(s \o u) = Len(s) + Len(u)
           /\ DOMAIN s = 1 .. Len(s) /\ DOMAIN u = 1 .. Len(u)
           /\ DOMAIN (s \o u) = 1 .. Len(s) + Len(u)
           /\ \A i \in 1 .. Len(s) : (s \o u)[i] = s[i]
           /\ \A i \in 1 .. Len(s) + Len(u) : i > Len(s) =>
                 i - Len(s) \in 1 .. Len(u) /\ (s \o u)[i] = u[i - Len(s)]
<1>1. /\ s \o u \in Seq(S) /\ Len(s \o u) = Len(s) + Len(u)
      /\ Len(s) \in Nat /\ Len(u) \in Nat
      /\ \A i \in 1 .. Len(s) : (s \o u)[i] = s[i]
  OBVIOUS
<1>2. DOMAIN s = 1 .. Len(s) /\ DOMAIN u = 1 .. Len(u) /\ DOMAIN (s \o u) = 1 .. Len(s) + Len(u)
  BY <1>1
<1>3. ASSUME NEW i \in 1 .. Len(s) + Len(u), i > Len(s)
      PROVE  i - Len(s) \in 1 .. Len(u) /\ (s \o u)[i] = u[i - Len(s)]
  BY <1>1, <1>3
<1> QED BY <1>1, <1>2, <1>3

\* What is listed is the whole set.
LEMMA ListingAll ==
    ASSUME NEW S, IsFiniteSet(S)
    PROVE  SetToSeq(S) \in Seq(S) /\ \A x \in S : \E i \in DOMAIN SetToSeq(S) : SetToSeq(S)[i] = x
<1> DEFINE n == Cardinality(S)
<1>1. n \in Nat /\ ExistsBijection(1 .. n, S)
  BY FS_CardinalityType
<1>2. PICK f \in [1 .. n -> S] : IsInjective(f)
  BY <1>1 DEF ExistsBijection, Bijection, Injection, IsInjective
<1>3. SetToSeq(S) \in [1 .. n -> S] /\ IsInjective(SetToSeq(S))
  BY <1>2 DEF SetToSeq
<1> DEFINE q == SetToSeq(S)
<1> HIDE DEF q
<1>4. \A a, b \in 1 .. n : q[a] = q[b] => a = b
  BY <1>3 DEF IsInjective, q
<1>5. q \in [1 .. n -> S]
  BY <1>3 DEF q
<1>6. IsFiniteSet(1 .. n) /\ Cardinality(1 .. n) = n
  BY <1>1, FS_Interval
<1>7. q \in Surjection(1 .. n, S)
  BY <1>4, <1>5, <1>6, Fun_IsInj, FS_Injection
<1>8. \A x \in S : \E i \in 1 .. n : q[i] = x
  BY <1>7 DEF Surjection
<1> QED BY <1>1, <1>5, <1>8 DEF q

\* A request for a snapshot of p is on its way to the server.
Requested(p) == \E i \in DOMAIN inbox : inbox[i].op = "snapshot" /\ inbox[i].proj = p

\* What is asked for is on its way, and nothing that was is forgotten.
LEMMA RequestIs ==
    ASSUME inbox \in Seq(Requests), NEW S \in SUBSET Projects, Request(S)
    PROVE  /\ recent' = recent \cup S /\ missed' = missed \ (S \ recent)
           /\ \A i \in DOMAIN inbox : i \in DOMAIN inbox' /\ inbox'[i] = inbox[i]
           /\ Open => \A p \in S : p \in recent \/ Requested(p)'
<1> DEFINE R == {[op |-> "snapshot", proj |-> p, since |-> 0] : p \in S \ recent}
<1>1. IsFiniteSet(R)
  <2> DEFINE q == [p \in S \ recent |-> [op |-> "snapshot", proj |-> p, since |-> 0]]
  <2>1. IsFiniteSet(S \ recent)
    BY DeliveryAssumption, FS_Subset
  <2>2. q \in [S \ recent -> R] /\ \A r \in R : \E p \in S \ recent : q[p] = r
    OBVIOUS
  <2> HIDE DEF q, R
  <2>3. q \in Surjection(S \ recent, R)
    BY <2>2, Fun_IsSurj
  <2> QED BY <2>1, <2>3, FS_Surjection
<1>2. R \in SUBSET Requests
  BY DEF Requests
<1>3. /\ recent' = recent \cup S /\ missed' = missed \ (S \ recent)
      /\ inbox' = IF Open THEN inbox \o SetToSeq(R) ELSE inbox
  BY DEF Request
<1>4. ASSUME NEW p \in S, p \notin recent
      PROVE  \E r \in R : r.op = "snapshot" /\ r.proj = p
  <2> DEFINE r == [op |-> "snapshot", proj |-> p, since |-> 0]
  <2>1. r \in R /\ r.op = "snapshot" /\ r.proj = p
    BY <1>4
  <2> QED BY <2>1
<1> HIDE DEF R
<1> DEFINE u == SetToSeq(R)
<1>5. u \in Seq(Requests) /\ \A r \in R : \E i \in DOMAIN u : u[i] = r
  BY <1>1, <1>2, ListingAll
<1> HIDE DEF u
<1>6. /\ Len(inbox) \in Nat /\ Len(u) \in Nat
      /\ DOMAIN inbox = 1 .. Len(inbox) /\ DOMAIN u = 1 .. Len(u)
      /\ DOMAIN (inbox \o u) = 1 .. Len(inbox) + Len(u)
      /\ \A i \in 1 .. Len(inbox) : (inbox \o u)[i] = inbox[i]
      /\ \A i \in 1 .. Len(inbox) + Len(u) : i > Len(inbox) =>
            (inbox \o u)[i] = u[i - Len(inbox)]
  BY <1>5, ConcatPlaces
<1>7. \A i \in DOMAIN inbox : i \in DOMAIN inbox' /\ inbox'[i] = inbox[i]
  BY <1>3, <1>6 DEF u
<1>8. ASSUME Open, NEW p \in S, p \notin recent PROVE Requested(p)'
  <2>1. PICK r \in R : r.op = "snapshot" /\ r.proj = p
    BY <1>4, <1>8
  <2>2. PICK i \in DOMAIN u : u[i] = r
    BY <1>5
  <2>3. /\ Len(inbox) + i \in 1 .. Len(inbox) + Len(u) /\ Len(inbox) + i > Len(inbox)
        /\ (Len(inbox) + i) - Len(inbox) = i
    BY <1>6
  <2>4. (inbox \o u)[Len(inbox) + i] = r
    BY <1>6, <2>2, <2>3
  <2>5. inbox' = inbox \o u
    BY <1>3, <1>8 DEF u
  <2> QED BY <1>6, <2>1, <2>3, <2>4, <2>5 DEF Requested
<1> QED BY <1>3, <1>7, <1>8

\* Whoever is new among the asked has its request on the way.
LEMMA AskKeeps ==
    ASSUME IInv, AskPart
    PROVE  /\ \A i \in DOMAIN inbox : i \in DOMAIN inbox' /\ inbox'[i] = inbox[i]
           /\ \A p : Requested(p) => Requested(p)'
           /\ \A p \in (synced' \cup recent') \ missed' :
                 p \in (synced \cup recent) \ missed \/ (Open => Requested(p)')
<1>0. inbox \in Seq(Requests)
  BY DEF IInv, Types
<1>1. CASE /\ inbox' = inbox /\ missed' = missed
           /\ synced' \subseteq synced /\ recent' \subseteq recent
  BY <1>1 DEF Requested
<1>2. ASSUME NEW S \in SUBSET Projects, Request(S), synced' \subseteq synced \cup S
      PROVE  /\ \A i \in DOMAIN inbox : i \in DOMAIN inbox' /\ inbox'[i] = inbox[i]
             /\ \A p : Requested(p) => Requested(p)'
             /\ \A p \in (synced' \cup recent') \ missed' :
                   p \in (synced \cup recent) \ missed \/ (Open => Requested(p)')
  <2>1. /\ recent' = recent \cup S /\ missed' = missed \ (S \ recent)
        /\ \A i \in DOMAIN inbox : i \in DOMAIN inbox' /\ inbox'[i] = inbox[i]
        /\ Open => \A p \in S : p \in recent \/ Requested(p)'
    BY <1>0, <1>2, RequestIs
  <2>2. \A p : Requested(p) => Requested(p)'
    BY <2>1 DEF Requested
  <2> QED BY <1>2, <2>1, <2>2
<1> QED BY <1>1, <1>2 DEF AskPart

-----------------------------------------------------------------------------
(* What the client makes of one event                                      *)

\* Deliver raises the watermark, remembers the key and touches no other
\* project; a message with a new key is shown.
LEMMA DeliverIs ==
    ASSUME NEW f \in Feeds, NEW e \in Event
    PROVE  /\ Deliver(f, e) \in Feeds
           /\ Deliver(f, e).wm = [f.wm EXCEPT ![e.proj] = e.seq]
           /\ Deliver(f, e).seen = f.seen \cup {Key(e)}
           /\ \A p \in Projects : p # e.proj => Deliver(f, e).view[p] = f.view[p]
           /\ e.kind # "snap" => f.view[e.proj] \subseteq Deliver(f, e).view[e.proj]
           /\ e.kind = "msg" /\ Key(e) \notin f.seen => Id(e) \in Deliver(f, e).view[e.proj]
           /\ e.kind = "snap" /\ Key(e) \notin f.seen => Deliver(f, e).view[e.proj] = e.conv
<1> DEFINE q == e.proj
           wm == [f.wm EXCEPT ![q] = e.seq]
           seen == f.seen \cup {Key(e)}
           raised == [f EXCEPT !.wm[e.proj] = e.seq, !.seen = @ \cup {Key(e)}]
           g == Deliver(f, e)
<1>1. /\ q \in Projects /\ e.seq \in Nat /\ e.kind \in {"msg", "tick", "snap"}
      /\ e.born \in Nat /\ e.conv \in SUBSET (Nat \X Nat)
  BY DeliveryAssumption DEF Event
<1>2. /\ f.wm \in [Projects -> Nat] /\ f.view \in [Projects -> SUBSET (Nat \X Nat)]
      /\ f.seen \in SUBSET (Projects \X Nat \X {"msg", "tick", "snap"})
      /\ f.twice \in BOOLEAN
  BY DEF Feeds
<1>3. wm \in [Projects -> Nat]
  BY <1>1, <1>2
<1>4. seen \in SUBSET (Projects \X Nat \X {"msg", "tick", "snap"})
  BY <1>1, <1>2 DEF Key
<1>5. /\ raised.wm = wm /\ raised.seen = seen
      /\ raised.view = f.view /\ raised.twice = f.twice
  BY DEF Feeds
<1>6. raised \in Feeds
  BY <1>1, <1>2, <1>3, <1>4 DEF Feeds
<1> HIDE DEF wm, seen, raised
<1>7. CASE Key(e) \in f.seen \/ e.kind = "tick"
  <2>1. Deliver(f, e) = raised
    BY <1>7 DEF Deliver, Show, raised
  <2> QED BY <1>5, <1>6, <1>7, <2>1 DEF wm, seen
<1>8. CASE Key(e) \notin f.seen /\ e.kind = "snap"
  <2>1. g = [raised EXCEPT !.view[q] = e.conv]
    BY <1>8 DEF Deliver, Show, raised
  <2>2. /\ g \in Feeds /\ g.wm = wm /\ g.seen = seen
        /\ \A p \in Projects : p # q => g.view[p] = f.view[p]
        /\ g.view[q] = e.conv
    BY <1>1, <1>5, <1>6, <2>1 DEF Feeds
  <2> QED BY <1>8, <2>2 DEF wm, seen
<1>9. CASE Key(e) \notin f.seen /\ e.kind = "msg"
  <2>1. g = [raised EXCEPT !.view[q] = @ \cup {Id(e)},
                           !.twice = @ \/ Id(e) \in raised.view[q]]
    BY <1>9 DEF Deliver, Show, raised
  <2>2. Id(e) \in Nat \X Nat /\ (raised.twice \/ Id(e) \in raised.view[q]) \in BOOLEAN
    BY <1>1 DEF Id
  <2> DEFINE t == raised.twice \/ Id(e) \in raised.view[q]
  <2>3. t \in BOOLEAN /\ g = [raised EXCEPT !.view[q] = @ \cup {Id(e)}, !.twice = t]
    BY <2>1, <2>2
  <2> HIDE DEF t, g
  <2> DEFINE view == [f.view EXCEPT ![q] = @ \cup {Id(e)}]
  <2>4. /\ view \in [Projects -> SUBSET (Nat \X Nat)]
        /\ view[q] = f.view[q] \cup {Id(e)}
        /\ \A p \in Projects : p # q => view[p] = f.view[p]
    BY <1>1, <1>2, <2>2
  <2>5. g = [raised EXCEPT !.view = view, !.twice = t]
    BY <1>5, <1>6, <2>3 DEF Feeds
  <2> HIDE DEF view
  <2>6. g \in Feeds /\ g.wm = wm /\ g.seen = seen /\ g.view = view
    BY <1>5, <1>6, <2>3, <2>4, <2>5 DEF Feeds
  <2> QED BY <1>9, <2>4, <2>6 DEF wm, seen, g
<1> QED BY <1>1, <1>7, <1>8, <1>9

\* OnSnapshot makes a snapshot the conversation.
Rebuilt(f, e) == Show([f EXCEPT !.wm[e.proj] = e.seq], e)

\* The conversation is then that of the snapshot.
LEMMA RebuiltIs ==
    ASSUME NEW f \in Feeds, NEW e \in Event, e.kind = "snap"
    PROVE  /\ Rebuilt(f, e) \in Feeds
           /\ Rebuilt(f, e).wm = [f.wm EXCEPT ![e.proj] = e.seq] /\ Rebuilt(f, e).seen = f.seen
           /\ Rebuilt(f, e).view = [f.view EXCEPT ![e.proj] = e.conv]
<1> DEFINE g == Rebuilt(f, e)
<1>1. e.proj \in Projects /\ e.seq \in Nat /\ e.conv \in SUBSET (Nat \X Nat)
  BY DEF Event
<1>2. g = [f EXCEPT !.wm[e.proj] = e.seq, !.view[e.proj] = e.conv]
  BY DEF Rebuilt, Show
<1> HIDE DEF g
<1>3. /\ f.wm \in [Projects -> Nat] /\ f.view \in [Projects -> SUBSET (Nat \X Nat)]
      /\ f.seen \in SUBSET (Projects \X Nat \X {"msg", "tick", "snap"})
      /\ f.twice \in BOOLEAN
  BY DEF Feeds
<1> DEFINE wm == [f.wm EXCEPT ![e.proj] = e.seq]
           view == [f.view EXCEPT ![e.proj] = e.conv]
<1>4. wm \in [Projects -> Nat] /\ view \in [Projects -> SUBSET (Nat \X Nat)]
  BY <1>1, <1>3
<1>5. g = [f EXCEPT !.wm = wm, !.view = view]
  BY <1>2
<1> HIDE DEF wm, view
<1>6. g \in Feeds /\ g.wm = wm /\ g.seen = f.seen /\ g.view = view
  BY <1>3, <1>4, <1>5 DEF Feeds
<1> QED BY <1>6 DEF wm, view, g

\* The feeds that know of p nothing from n on.
Under(p, n) ==
    {f \in Feeds : f.wm[p] < n /\ \A k \in f.seen : k[1] = p => k[2] < n}

\* An event below n raises nothing to n.
LEMMA AbsorbUnder ==
    ASSUME NEW p \in Projects, NEW n \in Nat, NEW f \in Under(p, n), NEW e \in Event,
           e.proj = p => e.seq < n
    PROVE  Deliver(f, e) \in Under(p, n) /\ Absorb(f, e) \in Under(p, n)
<1>1. /\ f \in Feeds /\ f.wm[p] < n /\ f.wm \in [Projects -> Nat]
      /\ \A k \in f.seen : k[1] = p => k[2] < n
  BY DEF Under, Feeds
<1>2. e.proj \in Projects /\ e.seq \in Nat
  BY DEF Event
<1> DEFINE g == Deliver(f, e)
<1>3. /\ g \in Feeds /\ g.wm = [f.wm EXCEPT ![e.proj] = e.seq]
      /\ g.seen = f.seen \cup {Key(e)}
  BY <1>1, DeliverIs
<1> HIDE DEF g
<1>4. g.wm[p] < n
  BY <1>1, <1>2, <1>3
<1>5. Key(e)[1] = e.proj /\ Key(e)[2] = e.seq
  BY DEF Key
<1>6. \A k \in g.seen : k[1] = p => k[2] < n
  BY <1>1, <1>3, <1>5
<1>7. g \in Under(p, n)
  BY <1>3, <1>4, <1>6 DEF Under
<1> QED BY <1>7 DEF Absorb, g

\* The handling of a frame, by its kind.
LEMMA ReceiveIs ==
    ASSUME IInv, Receive
    PROVE  LET f == Head(wire) IN
           \/ /\ f.tag = "event" /\ hs /\ hs' = hs /\ feed' = feed
              /\ buf' \in {<<>>, Append(buf, f.ev)}
           \/ /\ f.tag = "event" /\ ~hs /\ f.ev.kind = "snap" /\ hs' = hs /\ buf' = buf
              /\ feed' = Rebuilt(feed, f.ev)
           \/ /\ f.tag = "event" /\ ~hs /\ f.ev.kind # "snap" /\ hs' = hs /\ buf' = buf
              /\ \/ feed' = feed
                 \/ /\ feed' = Deliver(feed, f.ev)
                    /\ ~(feed.wm[f.ev.proj] > 0 /\ f.ev.seq > feed.wm[f.ev.proj] + 1)
                    /\ ~(f.ev.seq <= feed.wm[f.ev.proj])
           \/ /\ f.tag = "complete" /\ hs' = FALSE /\ buf' = <<>>
              /\ \/ /\ f.proj # NoProject
                    /\ feed' = [feed EXCEPT !.view[f.proj] = {}, !.wm[f.proj] = f.last]
                 \/ \E d \in {feed, Drained(feed, buf)} :
                       \/ feed' = d
                       \/ f.proj # NoProject /\ feed' = [d EXCEPT !.wm[f.proj] = f.last]
           \/ f.tag = "resync" /\ hs' = hs /\ buf' = buf /\ feed' = feed
<1> USE DEF Receiving, shake
<1>1. CASE OnBuffered
  BY <1>1 DEF OnBuffered
<1>2. CASE OnSnapshot
  BY <1>2 DEF OnSnapshot, Rebuilt
<1>3. CASE OnEvent
  BY <1>3 DEF OnEvent, asked
<1>4. CASE OnEpochReset
  BY <1>4 DEF OnEpochReset, NewEpoch
<1>5. CASE OnComplete
  <2> DEFINE d == IF hs THEN Drained(feed, buf) ELSE feed
  <2>1. /\ Head(wire).tag = "complete" /\ hs' = FALSE /\ buf' = <<>>
        /\ \/ feed' = d
           \/ Head(wire).proj # NoProject /\ feed' = [d EXCEPT !.wm[Head(wire).proj] = Head(wire).last]
    BY <1>5 DEF OnComplete
  <2>2. d \in {feed, Drained(feed, buf)}
    OBVIOUS
  <2> HIDE DEF d
  <2> QED BY <2>1, <2>2
<1>6. CASE OnResync
  BY <1>6 DEF OnResync
<1> QED BY <1>1, <1>2, <1>3, <1>4, <1>5, <1>6 DEF Receive

-----------------------------------------------------------------------------
(* What a frame can raise                                                  *)

\* Nothing of p from n on is known, buffered, or in the first frame.
Fresh(p, n) ==
    /\ feed \in Under(p, n)
    /\ \A e \in ToSet(buf) : e.proj = p => e.seq < n

\* A frame that is below n raises nothing to n.
LEMMA ReceiveUnder ==
    ASSUME IInv, Receive, wire # <<>>, NEW p \in Projects, NEW n \in Nat, Fresh(p, n),
           Head(wire).tag = "event" /\ Head(wire).ev.proj = p => Head(wire).ev.seq < n,
           Head(wire).tag = "complete" /\ Head(wire).proj = p => Head(wire).last < n
    PROVE  Fresh(p, n)'
<1> DEFINE f == Head(wire)
<1>0. Types
  BY DEF IInv
<1>1. /\ feed \in Under(p, n) /\ \A e \in ToSet(buf) : e.proj = p => e.seq < n
      /\ buf \in Seq(Event) /\ \A e \in ToSet(buf) : e \in Event
  <2>1. buf \in Seq(Event)
    BY <1>0 DEF Types
  <2>2. \A e \in ToSet(buf) : e \in Event
    BY <2>1 DEF ToSet
  <2> QED BY <2>1, <2>2 DEF Fresh
<1>2. f.tag = "event" => f.ev \in Event
  BY FirstFrame
<1>3. f.tag = "complete" => f.proj \in Projects \cup {NoProject} /\ f.last \in Nat
  BY FirstFrame
<1>4. ToSet(<<>>) = {}
  BY DEF ToSet
<1>5. ASSUME NEW g \in Under(p, n), NEW q \in Projects, NEW m \in Nat, q = p => m < n,
             NEW h, h = [g EXCEPT !.wm[q] = m] \/ h = [g EXCEPT !.view[q] = {}, !.wm[q] = m]
      PROVE  h \in Under(p, n)
  <2>1. /\ g \in Feeds /\ g.wm[p] < n /\ \A k \in g.seen : k[1] = p => k[2] < n
        /\ g.wm \in [Projects -> Nat] /\ g.view \in [Projects -> SUBSET (Nat \X Nat)]
    BY <1>5 DEF Under, Feeds
  <2> DEFINE wm == [g.wm EXCEPT ![q] = m]
             view == [g.view EXCEPT ![q] = {}]
  <2>2. wm \in [Projects -> Nat] /\ view \in [Projects -> SUBSET (Nat \X Nat)] /\ wm[p] < n
    BY <1>5, <2>1
  <2>3. h = [g EXCEPT !.wm = wm] \/ h = [g EXCEPT !.view = view, !.wm = wm]
    BY <1>5
  <2> HIDE DEF wm, view
  <2>4. h \in Feeds /\ h.wm = wm /\ h.seen = g.seen
    BY <2>1, <2>2, <2>3 DEF Feeds
  <2> QED BY <2>1, <2>2, <2>4 DEF Under
<1>6. Drained(feed, buf) \in Under(p, n)
  <2>1. \A g \in Under(p, n) : \A e \in ToSet(buf) : Absorb(g, e) \in Under(p, n)
    BY <1>1, AbsorbUnder
  <2> QED BY <1>1, <2>1, DrainKeeps
<1> HIDE DEF f
<1>7. CASE f.tag = "event" /\ feed' = feed /\ buf' \in {<<>>, Append(buf, f.ev)}
  <2>1. \A e \in ToSet(buf') : e \in ToSet(buf) \/ e = f.ev
    <3>1. CASE buf' = <<>>
      BY <1>4, <3>1
    <3>2. CASE buf' = Append(buf, f.ev)
      <4>1. ToSet(Append(buf, f.ev)) = ToSet(buf) \cup {f.ev}
        BY <1>1, <1>2, <1>7, AppendSet
      <4> QED BY <3>2, <4>1
    <3> QED BY <1>7, <3>1, <3>2
  <2> QED BY <1>1, <1>7, <2>1 DEF Fresh, f
<1>8. CASE /\ f.tag = "event" /\ f.ev.kind = "snap" /\ buf' = buf
           /\ feed' = Rebuilt(feed, f.ev)
  <2>0. feed \in Feeds /\ feed.wm[p] < n /\ feed.wm \in [Projects -> Nat]
        /\ \A k \in feed.seen : k[1] = p => k[2] < n
    BY <1>1 DEF Under, Feeds
  <2>1. /\ feed' \in Feeds /\ feed'.wm = [feed.wm EXCEPT ![f.ev.proj] = f.ev.seq]
        /\ feed'.seen = feed.seen
    BY <1>2, <1>8, <2>0, RebuiltIs
  <2>2. f.ev.proj \in Projects /\ (f.ev.proj = p => f.ev.seq < n)
    BY <1>2, <1>8 DEF Event, f
  <2>3. feed'.wm[p] < n
    BY <2>0, <2>1, <2>2
  <2> QED BY <1>1, <1>8, <2>0, <2>1, <2>3 DEF Fresh, Under
<1>9. CASE f.tag = "event" /\ buf' = buf /\ feed' \in {feed, Deliver(feed, f.ev)}
  <2>1. feed' \in Under(p, n)
    BY <1>1, <1>2, <1>9, AbsorbUnder DEF f
  <2> QED BY <1>1, <1>9, <2>1 DEF Fresh
<1>10. CASE /\ f.tag = "complete" /\ buf' = <<>>
            /\ \/ /\ f.proj # NoProject
                  /\ feed' = [feed EXCEPT !.view[f.proj] = {}, !.wm[f.proj] = f.last]
               \/ \E d \in {feed, Drained(feed, buf)} :
                     \/ feed' = d
                     \/ f.proj # NoProject /\ feed' = [d EXCEPT !.wm[f.proj] = f.last]
  <2>1. f.proj # NoProject => f.proj \in Projects
    BY <1>3, <1>10
  <2>2. f.proj = p => f.last < n
    BY <1>10 DEF f
  <2>3. feed' \in Under(p, n)
    <3>1. CASE f.proj # NoProject /\ feed' = [feed EXCEPT !.view[f.proj] = {}, !.wm[f.proj] = f.last]
      BY <1>1, <1>3, <1>5, <1>10, <2>1, <2>2, <3>1
    <3>2. ASSUME NEW d \in {feed, Drained(feed, buf)},
                 \/ feed' = d
                 \/ f.proj # NoProject /\ feed' = [d EXCEPT !.wm[f.proj] = f.last]
          PROVE  feed' \in Under(p, n)
      <4>1. d \in Under(p, n)
        BY <1>1, <1>6, <3>2
      <4> QED BY <1>3, <1>5, <1>10, <2>1, <2>2, <3>2, <4>1
    <3> QED BY <1>10, <3>1, <3>2
  <2> QED BY <1>4, <1>10, <2>3 DEF Fresh
<1>11. CASE buf' = buf /\ feed' = feed
  BY <1>1, <1>11 DEF Fresh
<1> QED BY <1>7, <1>8, <1>9, <1>10, <1>11, ReceiveIs DEF f

-----------------------------------------------------------------------------
(* The handshake of a connection, step by step                             *)

\* What the client has cannot be newer than what the server stamped, unless a
\* crash has lost a high-water mark.
Bounded ==
    ~lost =>
        /\ \A p \in Projects : feed.wm[p] <= seq[p]
        /\ \A k \in feed.seen : k[2] <= seq[k[1]]
        /\ \A i \in DOMAIN wire : IsComplete(wire[i]) /\ wire[i].proj # NoProject =>
              wire[i].last <= seq[wire[i].proj]

Linked == Shaking /\ First /\ Known /\ Whole /\ Bounded

\* At first there is no connection.
LEMMA LinkedInit == Init => Linked
  BY DEF Init, Linked, Shaking, First, Known, Whole, Bounded, Open, ToSet

\* What emit() and snapshot() stamp.
Stamping(p, kind, conv) ==
    [proj |-> p, seq |-> seq[p] + 1, kind |-> kind, born |-> restarts, conv |-> conv]

\* The event is the newest of its project, and goes to the tasks.
LEMMA StampIs ==
    ASSUME IInv, NEW p \in Projects, NEW kind \in {"msg", "tick", "snap"},
           NEW conv \in SUBSET (Nat \X Nat), Stamps(p, kind, conv),
           NEW e, e = Stamping(p, kind, conv)
    PROVE  /\ e \in Event
           /\ e.proj = p /\ e.seq = seq[p] + 1 /\ e.kind = kind /\ e.conv = conv
           /\ seq[p] \in Nat /\ seq' = [seq EXCEPT ![p] = seq[p] + 1]
           /\ seq \in [Projects -> Nat] /\ log \in [Projects -> SUBSET Event]
           /\ log' = [log EXCEPT ![p] = log[p] \cup {e}]
           /\ tasks' = IF Open THEN Append(tasks, EventFrame(e)) ELSE tasks
<1>1. /\ seq \in [Projects -> Nat] /\ log \in [Projects -> SUBSET Event]
      /\ restarts \in 0 .. MaxRestarts
  BY DEF IInv, Types
<1>2. seq[p] \in Nat /\ seq[p] + 1 \in Nat
  BY <1>1
<1>3. e \in Event /\ e.proj = p /\ e.seq = seq[p] + 1 /\ e.kind = kind /\ e.conv = conv
  BY <1>1, <1>2 DEF Event, Stamping
<1>4. /\ seq' = [seq EXCEPT ![p] = seq[p] + 1] /\ log' = [log EXCEPT ![p] = log[p] \cup {e}]
      /\ tasks' = IF Open THEN Append(tasks, EventFrame(e)) ELSE tasks
  BY DEF Stamps, Stamp, Stamping
<1> QED BY <1>1, <1>2, <1>3, <1>4

\* A stamped event is in the log, newer than all, and not yet on the wire.
LEMMA LinkedStamps ==
    ASSUME IInv, Linked, NEW p \in Projects, NEW kind \in {"msg", "tick", "snap"},
           NEW conv \in SUBSET (Nat \X Nat), Stamps(p, kind, conv)
    PROVE  Linked'
<1>0. PICK e : e = Stamping(p, kind, conv)
  OBVIOUS
<1>1. /\ e \in Event
      /\ e.proj = p /\ e.seq = seq[p] + 1 /\ e.kind = kind /\ e.conv = conv
      /\ seq[p] \in Nat /\ seq' = [seq EXCEPT ![p] = seq[p] + 1]
      /\ seq \in [Projects -> Nat] /\ log \in [Projects -> SUBSET Event]
      /\ log' = [log EXCEPT ![p] = log[p] \cup {e}]
      /\ tasks' = IF Open THEN Append(tasks, EventFrame(e)) ELSE tasks
  BY <1>0, StampIs
<1>2. /\ kind = "snap" => conv = Conversation(p)
      /\ UNCHANGED <<lost, sess, todo, wire, shake, feed, synced, recent, missed>>
      /\ sess = "first" => inbox' = inbox
  BY DEF Stamps
<1>3. /\ Types /\ Logged /\ Stamped /\ Shaking /\ First /\ Known /\ Whole /\ Bounded
  BY DEF IInv, Linked
<1>4. \A q \in Projects : log[q] \subseteq log'[q] /\ seq[q] <= seq'[q]
  BY <1>1
<1>5. Shaking' /\ First'
  BY <1>2, <1>3 DEF Shaking, First, Open, shake
<1>6. Known'
  <2> SUFFICES ASSUME Open' PROVE Known'
    BY DEF Known
  <2>0. Open /\ wire' = wire /\ todo' = todo /\ buf' = buf
    BY <1>2 DEF Open, shake
  <2>1. EventFrame(e) \in EventFrames /\ EventFrame(e).ev = e
    BY <1>1, FrameIs DEF EventFrame
  <2>2. ToSet(tasks') = ToSet(tasks) \cup {EventFrame(e)}
    BY <1>1, <1>3, <2>0, <2>1, AppendSet DEF Types
  <2>3. e \in log'[e.proj]
    BY <1>1
  <2>4. \A x \in Event : x.proj \in Projects
    BY DEF Event
  <2>5. \A f \in ToSet(tasks) \cup ToSet(wire) : f.tag = "event" => f.ev \in log'[f.ev.proj]
    <3> TAKE f \in ToSet(tasks) \cup ToSet(wire)
    <3> HAVE f.tag = "event"
    <3>1. f \in Frames
      BY <1>3, FrameIs DEF Types, ToSet
    <3>2. f.ev \in Event /\ f.ev \in log[f.ev.proj]
      BY <1>3, <2>0, <3>1, FrameIs DEF Known
    <3> QED BY <1>4, <2>4, <3>2
  <2>6. \A x \in ToSet(todo) \cup ToSet(buf) : x \in log'[x.proj]
    <3> TAKE x \in ToSet(todo) \cup ToSet(buf)
    <3>1. x \in log[x.proj]
      BY <1>3, <2>0 DEF Known
    <3>2. x \in Event
      <4>1. todo \in Seq(Event) /\ buf \in Seq(Event)
        BY <1>3 DEF Types
      <4> QED BY <4>1 DEF ToSet
    <3> QED BY <1>4, <2>4, <3>1, <3>2
  <2> QED BY <2>0, <2>1, <2>2, <2>3, <2>5, <2>6 DEF Known
<1>7. Whole'
  <2> SUFFICES ASSUME NEW q \in Projects, NEW s \in log'[q], NEW x \in log'[q],
                      s.kind = "snap", x.kind = "msg", x.seq < s.seq
               PROVE  Id(x) \in s.conv
    BY DEF Whole
  <2>1. CASE s \in log[q] /\ x \in log[q]
    BY <1>3, <2>1 DEF Whole
  <2>2. \A y \in log[q] : y.seq \in Nat /\ y.seq <= seq[q]
    BY <1>1, <1>3 DEF Logged, Sound, Event
  <2>3. CASE s = e /\ x # e /\ q = p
    <3>1. x \in log[p]
      BY <1>1, <2>3
    <3> QED BY <1>1, <1>2, <2>3, <3>1 DEF Conversation
  <2>4. CASE x = e /\ s # e /\ q = p
    <3>1. s \in log[p]
      BY <1>1, <2>4
    <3> QED BY <1>1, <2>2, <2>4, <3>1
  <2> QED BY <1>1, <2>1, <2>3, <2>4
<1>8. Bounded'
  <2> SUFFICES ASSUME ~lost PROVE Bounded'
    BY <1>2 DEF Bounded
  <2>1. feed \in Feeds /\ feed' = feed /\ wire' = wire /\ wire \in Seq(Frames)
    BY <1>2, <1>3 DEF Types
  <2>2. \A q \in Projects : feed.wm[q] \in Nat /\ seq[q] \in Nat /\ seq'[q] \in Nat
    BY <1>1, <2>1 DEF Feeds
  <2>3. \A q \in Projects : feed'.wm[q] <= seq'[q]
    BY <1>3, <1>4, <2>1, <2>2 DEF Bounded
  <2>4. \A k \in feed'.seen : k[2] <= seq'[k[1]]
    <3> TAKE k \in feed'.seen
    <3>1. k[1] \in Projects /\ k[2] \in Nat /\ k[2] <= seq[k[1]]
      BY <1>3, <2>1 DEF Bounded, Feeds
    <3> QED BY <1>4, <2>2, <3>1
  <2>5. \A i \in DOMAIN wire : IsComplete(wire[i]) /\ wire[i].proj # NoProject =>
              wire[i].last <= seq'[wire[i].proj]
    <3> TAKE i \in DOMAIN wire
    <3> HAVE IsComplete(wire[i]) /\ wire[i].proj # NoProject
    <3>1. wire[i] \in Frames
      BY <2>1
    <3>2. wire[i].proj \in Projects /\ wire[i].last \in Nat
      BY <3>1, FrameIs DEF IsComplete
    <3>3. wire[i].last <= seq[wire[i].proj]
      BY <1>3 DEF Bounded
    <3> QED BY <1>4, <2>2, <3>2, <3>3
  <2> QED BY <2>1, <2>3, <2>4, <2>5 DEF Bounded
<1> QED BY <1>5, <1>6, <1>7, <1>8 DEF Linked

\* The replay_complete is the last frame of a replay, and the only one.
LEMMA LinkedReplays == ASSUME IInv, Linked, Replays PROVE Linked'
<1>0. /\ Types /\ Shaking /\ First /\ Known /\ Whole /\ Bounded
  BY DEF IInv, Linked
<1>1. /\ sess \in {"first", "replaying"} /\ sess' \in {"first", "replaying", "ready"}
      /\ UNCHANGED <<log, seq, lost, tasks, shake, feed, synced, recent, missed>>
      /\ sess' # "first"
      /\ \A e \in ToSet(todo') : e \in ToSet(todo) \/ e \in log[e.proj]
  BY DEF Replays, Listed
<1>2. PICK more \in Seq(Frames) :
          /\ wire' = wire \o more
          /\ \A i \in DOMAIN more : more[i].tag = "event" =>
                more[i].ev \in ToSet(todo) \/ more[i].ev \in log[more[i].ev.proj]
          /\ \A i \in DOMAIN more :
                more[i].tag = "complete" <=> sess' = "ready" /\ i = Len(more)
          /\ sess' = "ready" =>
                /\ more # <<>>
                /\ more[Len(more)].proj # NoProject =>
                      more[Len(more)].last = seq[more[Len(more)].proj]
  BY DEF Replays, Listed
<1>3. /\ Len(wire) \in Nat /\ Len(more) \in Nat
      /\ DOMAIN wire = 1 .. Len(wire) /\ DOMAIN more = 1 .. Len(more)
      /\ DOMAIN wire' = 1 .. Len(wire) + Len(more)
      /\ \A i \in 1 .. Len(wire) : wire'[i] = wire[i]
      /\ \A i \in 1 .. Len(wire) + Len(more) : i > Len(wire) =>
            i - Len(wire) \in 1 .. Len(more) /\ wire'[i] = more[i - Len(wire)]
  <2>1. wire \in Seq(Frames)
    BY <1>0 DEF Types
  <2> QED BY <1>2, <2>1, ConcatPlaces
<1>4. Open /\ hs /\ hs' = hs /\ \A i \in DOMAIN wire : ~IsComplete(wire[i])
  BY <1>0, <1>1 DEF Open, Shaking, shake
<1>5. \A i \in DOMAIN wire' : IsComplete(wire'[i]) <=> sess' = "ready" /\ i = Len(wire) + Len(more)
  <2> TAKE i \in DOMAIN wire'
  <2>1. CASE i \in 1 .. Len(wire)
    <3>1. ~IsComplete(wire'[i])
      BY <1>3, <1>4, <2>1
    <3>2. sess' = "ready" => Len(more) # 0
      <4>1. Len(more) = 0 => more = <<>>
        BY <1>2
      <4> QED BY <1>2, <4>1
    <3> QED BY <1>3, <2>1, <3>1, <3>2
  <2>2. CASE i > Len(wire)
    <3>1. i - Len(wire) \in 1 .. Len(more) /\ wire'[i] = more[i - Len(wire)]
      BY <1>3, <2>2
    <3>2. i - Len(wire) = Len(more) <=> i = Len(wire) + Len(more)
      BY <1>3
    <3> QED BY <1>2, <1>3, <3>1, <3>2 DEF IsComplete
  <2> QED BY <1>3, <2>1, <2>2
<1>6. sess' = "ready" => Len(wire) + Len(more) \in DOMAIN wire'
  <2>1. sess' = "ready" => Len(more) # 0
    <3>1. Len(more) = 0 => more = <<>>
      BY <1>2
    <3> QED BY <1>2, <3>1
  <2> QED BY <1>3, <2>1
<1>7. Shaking'
  BY <1>1, <1>4, <1>5, <1>6 DEF Shaking
<1>8. First'
  BY <1>1 DEF First
<1>9. Known'
  <2>1. \A f \in ToSet(wire') : f.tag = "event" => f.ev \in log[f.ev.proj]
    <3> SUFFICES ASSUME NEW i \in DOMAIN wire', wire'[i].tag = "event"
                 PROVE  wire'[i].ev \in log[wire'[i].ev.proj]
      BY DEF ToSet
    <3>1. CASE i \in 1 .. Len(wire)
      <4>1. wire[i] \in ToSet(wire) /\ wire'[i] = wire[i]
        BY <1>3, <3>1 DEF ToSet
      <4> QED BY <1>0, <1>4, <4>1 DEF Known
    <3>2. CASE i > Len(wire)
      <4>1. i - Len(wire) \in 1 .. Len(more) /\ wire'[i] = more[i - Len(wire)]
        BY <1>3, <3>2
      <4> QED BY <1>0, <1>2, <1>3, <1>4, <4>1 DEF Known
    <3> QED BY <1>3, <3>1, <3>2
  <2>2. \A e \in ToSet(todo') \cup ToSet(buf') : e \in log[e.proj]
    BY <1>0, <1>1, <1>4 DEF Known, shake
  <2>3. \A f \in ToSet(tasks') : f.tag = "event" => f.ev \in log[f.ev.proj]
    BY <1>0, <1>1, <1>4 DEF Known
  <2> QED BY <1>1, <2>1, <2>2, <2>3 DEF Known
<1>10. Whole'
  BY <1>0, <1>1 DEF Whole
<1>11. Bounded'
  <2>1. ASSUME NEW i \in DOMAIN wire', IsComplete(wire'[i]), wire'[i].proj # NoProject
        PROVE  wire'[i].last <= seq[wire'[i].proj]
    <3>1. sess' = "ready" /\ i = Len(wire) + Len(more) /\ i > Len(wire) /\ i - Len(wire) = Len(more)
      BY <1>3, <1>4, <1>5, <2>1
    <3>2. wire'[i] = more[Len(more)] /\ Len(more) \in DOMAIN more
      BY <1>3, <2>1, <3>1
    <3>3. wire'[i].last = seq[wire'[i].proj] /\ wire'[i] \in Frames
      BY <1>2, <2>1, <3>1, <3>2
    <3>4. wire'[i].last \in Nat
      BY <2>1, <3>3, FrameIs DEF IsComplete
    <3> QED BY <3>3, <3>4
  <2> QED BY <1>0, <1>1, <2>1 DEF Bounded
<1> QED BY <1>7, <1>8, <1>9, <1>10, <1>11 DEF Linked

\* A broadcast is no replay_complete.
LEMMA LinkedRunTask == ASSUME IInv, Linked, RunTask PROVE Linked'
<1> DEFINE c == Head(tasks)
<1>0. /\ Types /\ Closed /\ Shaking /\ First /\ Known /\ Whole /\ Bounded
  BY DEF IInv, Linked
<1>1. /\ tasks # <<>> /\ tasks' = Tail(tasks) /\ wire' = Append(wire, c)
      /\ UNCHANGED <<log, seq, lost, sess, todo, inbox, feed, hs, buf>>
  BY DEF RunTask, server, shake
<1>2. /\ c \in EventFrames /\ c \in ToSet(tasks) /\ ToSet(tasks') \subseteq ToSet(tasks)
  BY <1>0, <1>1, TailSet DEF Types
<1>3. c \in Frames /\ c.tag = "event"
  BY <1>2, FrameIs
<1> HIDE DEF c
<1>4. /\ DOMAIN wire' = 1 .. Len(wire) + 1 /\ DOMAIN wire = 1 .. Len(wire) /\ Len(wire) \in Nat
      /\ \A i \in 1 .. Len(wire) : wire'[i] = wire[i]
      /\ wire'[Len(wire) + 1] = c
      /\ ToSet(wire') = ToSet(wire) \cup {c}
  <2>1. wire \in Seq(Frames)
    BY <1>0 DEF Types
  <2> QED BY <1>1, <1>3, <2>1, AppendSet
<1>5. \A i \in DOMAIN wire' : IsComplete(wire'[i]) <=> i \in DOMAIN wire /\ IsComplete(wire[i])
  BY <1>3, <1>4 DEF IsComplete
<1>6. \A i \in DOMAIN wire : i \in DOMAIN wire' /\ wire'[i] = wire[i]
  BY <1>4
<1>7. Shaking' /\ First' /\ Whole'
  BY <1>0, <1>1, <1>5, <1>6 DEF Shaking, First, Whole, Open
<1>8. Known'
  BY <1>0, <1>1, <1>2, <1>4 DEF Known, Open
<1>9. Bounded'
  BY <1>0, <1>1, <1>5, <1>6 DEF Bounded
<1> QED BY <1>7, <1>8, <1>9 DEF Linked

\* Without a connection there is nothing to say of it; snapshots are not kept.
LEMMA LinkedQuits == ASSUME IInv, Linked, Quits PROVE Linked'
<1>0. /\ Logged /\ Whole /\ Bounded
  BY DEF IInv, Linked
<1>1. /\ sess' = "none" /\ wire' = <<>> /\ feed' = feed
      /\ ~lost' => ~lost /\ seq' = seq
      /\ log' = log \/ \A p \in Projects : log'[p] \subseteq {e \in log[p] : e.kind = "msg"}
  BY DEF Quits
<1>2. Shaking' /\ First' /\ Known'
  BY <1>1 DEF Shaking, First, Known, Open
<1>3. Whole'
  BY <1>0, <1>1 DEF Whole
<1>4. Bounded'
  BY <1>0, <1>1 DEF Bounded
<1> QED BY <1>2, <1>3, <1>4 DEF Linked

\* A new connection begins with its handshake.
LEMMA LinkedConnect == ASSUME IInv, Linked, Connect PROVE Linked'
<1>0. /\ Closed /\ Whole /\ Bounded
  BY DEF IInv, Linked
<1>1. /\ ~Open /\ sess' = "first" /\ hs' = TRUE /\ buf' = <<>>
      /\ inbox' = <<[op |-> "replay", proj |-> active, since |-> feed.wm[active]]>>
      /\ UNCHANGED <<log, seq, lost, todo, tasks, wire, feed>>
  BY DEF Connect, server
<1>2. wire' = <<>> /\ tasks' = <<>> /\ todo' = <<>>
  BY <1>0, <1>1 DEF Closed
<1>3. inbox' # <<>> /\ Head(inbox').op = "replay"
  BY <1>1
<1>4. Shaking' /\ First' /\ Known'
  BY <1>1, <1>2, <1>3 DEF Shaking, First, Known, ToSet
<1>5. Whole' /\ Bounded'
  BY <1>0, <1>1 DEF Whole, Bounded
<1> QED BY <1>4, <1>5 DEF Linked

\* Requests are added at the end.
LEMMA HeadStays ==
    ASSUME IInv, AskPart, inbox # <<>>
    PROVE  inbox' # <<>> /\ Head(inbox') = Head(inbox)
<1>1. inbox \in Seq(Requests)
  BY DEF IInv, Types
<1>2. \A i \in DOMAIN inbox : i \in DOMAIN inbox' /\ inbox'[i] = inbox[i]
  BY AskKeeps
<1>3. inbox' # <<>> /\ inbox'[1] = inbox[1] /\ Head(inbox) = inbox[1]
  <2>1. 1 \in DOMAIN inbox
    BY <1>1
  <2>2. DOMAIN <<>> = {}
    OBVIOUS
  <2> QED BY <1>1, <1>2, <2>1, <2>2
<1>4. Head(inbox') = inbox'[1]
  OBVIOUS
<1> QED BY <1>3, <1>4

\* The replay_request stays the first frame while others are added.
LEMMA FirstStays ==
    ASSUME IInv, First, AskPart, sess' = sess PROVE First'
BY HeadStays DEF First

\* Requests change nothing of the connection.
LEMMA LinkedIdles == ASSUME IInv, Linked, Idles PROVE Linked'
<1>0. /\ Shaking /\ First /\ Known /\ Whole /\ Bounded
  BY DEF Linked
<1>1. UNCHANGED <<log, seq, lost, sess, todo, tasks, wire, hs, buf, feed>>
  BY DEF Idles, shake
<1>2. First'
  <2>1. CASE AskPart
    BY <1>0, <1>1, <2>1, FirstStays
  <2>2. CASE sess = "ready"
    BY <1>1, <2>2 DEF First
  <2> QED BY <2>1, <2>2 DEF Idles
<1>3. Shaking' /\ Known' /\ Whole' /\ Bounded'
  BY <1>0, <1>1 DEF Shaking, Known, Whole, Bounded, Open
<1> QED BY <1>2, <1>3 DEF Linked

\* The handshake ends when the replay_complete is taken.
LEMMA LinkedTakes == ASSUME IInv, Linked, Takes, Open, Receive PROVE Linked'
<1> DEFINE f == Head(wire)
<1>0. /\ Types /\ Stamped /\ Logged /\ Shaking /\ First /\ Known /\ Whole /\ Bounded
  BY DEF IInv, Linked
<1>1. /\ wire # <<>> /\ wire' = Tail(wire) /\ AskPart
      /\ UNCHANGED <<log, seq, lost, sess, todo, tasks>>
  BY DEF Takes
<1>2. /\ Len(wire) \in Nat \ {0} /\ DOMAIN wire = 1 .. Len(wire)
      /\ DOMAIN wire' = 1 .. Len(wire) - 1
      /\ f = wire[1] /\ f \in ToSet(wire) /\ ToSet(wire') \subseteq ToSet(wire)
      /\ \A i \in 1 .. Len(wire) - 1 : wire'[i] = wire[i + 1]
      /\ f \in Frames
  <2>1. wire \in Seq(Frames)
    BY <1>0 DEF Types
  <2> QED BY <1>1, <2>1, TailSet
<1>3. \A i \in DOMAIN wire' : i + 1 \in DOMAIN wire /\ i + 1 # 1 /\ wire'[i] = wire[i + 1]
  BY <1>2
<1>4. \A i \in DOMAIN wire : i # 1 => i - 1 \in DOMAIN wire' /\ wire'[i - 1] = wire[i]
  <2> TAKE i \in DOMAIN wire
  <2> HAVE i # 1
  <2>1. i - 1 \in 1 .. Len(wire) - 1 /\ (i - 1) + 1 = i
    BY <1>2
  <2> QED BY <1>2, <2>1
<1>5. 1 \in DOMAIN wire
  BY <1>2
<1>6. \/ f.tag = "event" /\ hs /\ hs' = hs /\ buf' \in {<<>>, Append(buf, f.ev)}
      \/ f.tag \in {"event", "resync"} /\ hs' = hs /\ buf' = buf
      \/ f.tag = "complete" /\ hs' = FALSE /\ buf' = <<>>
  BY ReceiveIs
<1> HIDE DEF f
<1>7. /\ \A i, j \in DOMAIN wire : IsComplete(wire[i]) /\ IsComplete(wire[j]) => i = j
      /\ hs <=> sess # "ready" \/ \E i \in DOMAIN wire : IsComplete(wire[i])
      /\ sess # "ready" => \A i \in DOMAIN wire : ~IsComplete(wire[i])
      /\ ~hs => buf = <<>>
  BY <1>0 DEF Shaking
<1>8. \A i, j \in DOMAIN wire' : IsComplete(wire'[i]) /\ IsComplete(wire'[j]) => i = j
  <2> TAKE i, j \in DOMAIN wire'
  <2> HAVE IsComplete(wire'[i]) /\ IsComplete(wire'[j])
  <2>1. i + 1 = j + 1
    BY <1>3, <1>7
  <2> QED BY <1>2, <2>1
<1>9. Shaking'
  <2>1. CASE f.tag = "complete" /\ hs' = FALSE /\ buf' = <<>>
    <3>1. IsComplete(wire[1])
      BY <1>2, <2>1 DEF IsComplete
    <3>2. sess = "ready"
      BY <1>5, <1>7, <3>1
    <3>3. \A i \in DOMAIN wire' : ~IsComplete(wire'[i])
      BY <1>3, <1>5, <1>7, <3>1
    <3> QED BY <1>1, <1>8, <2>1, <3>2, <3>3 DEF Shaking
  <2>2. CASE f.tag # "complete" /\ hs' = hs /\ (hs \/ buf' = buf)
    <3>1. ~IsComplete(wire[1])
      BY <1>2, <2>2 DEF IsComplete
    <3>2. (\E i \in DOMAIN wire' : IsComplete(wire'[i]))
             <=> \E i \in DOMAIN wire : IsComplete(wire[i])
      BY <1>3, <1>4, <3>1
    <3> QED BY <1>1, <1>7, <1>8, <2>2, <3>2 DEF Shaking
  <2> QED BY <1>6, <2>1, <2>2
<1>10. First'
  BY <1>0, <1>1, FirstStays
<1>11. ToSet(<<>>) = {}
  BY DEF ToSet
<1>12. \A e \in ToSet(buf') : e \in ToSet(buf) \/ (f.tag = "event" /\ e = f.ev)
  <2>1. CASE f.tag = "event" /\ buf' = Append(buf, f.ev)
    <3>1. f.ev \in Event /\ buf \in Seq(Event)
      BY <1>0, <1>2, <2>1, FrameIs DEF Types
    <3>2. ToSet(Append(buf, f.ev)) = ToSet(buf) \cup {f.ev}
      BY <3>1, AppendSet
    <3> QED BY <2>1, <3>2
  <2> QED BY <1>6, <1>11, <2>1
<1>13. Known'
  BY <1>0, <1>1, <1>2, <1>12 DEF Known, Open
<1>14. Whole'
  BY <1>0, <1>1 DEF Whole
<1>15. Bounded'
  <2> SUFFICES ASSUME ~lost PROVE Bounded'
    BY <1>1 DEF Bounded
  <2>1. feed \in Feeds /\ buf \in Seq(Event) /\ seq \in [Projects -> Nat]
    BY <1>0 DEF Types
  <2>2. ASSUME NEW p \in Projects, NEW n \in Nat, n = seq[p] + 1 PROVE Fresh(p, n)'
    <3>0. seq[p] \in Nat /\ feed.wm[p] \in Nat
      BY <2>1 DEF Feeds
    <3>1. feed.wm[p] < n
      BY <1>0, <2>2, <3>0 DEF Bounded
    <3>2. \A k \in feed.seen : k[1] = p => k[2] < n
      <4> TAKE k \in feed.seen
      <4> HAVE k[1] = p
      <4>1. k[2] \in Nat /\ k[2] <= seq[k[1]]
        BY <1>0, <2>1 DEF Bounded, Feeds
      <4> QED BY <2>2, <3>0, <4>1
    <3>3. \A e \in ToSet(buf) : e.proj = p => e.seq < n
      <4> TAKE e \in ToSet(buf)
      <4> HAVE e.proj = p
      <4>1. e.seq \in Nat
        <5>1. e \in Event
          BY <2>1 DEF ToSet
        <5> QED BY <5>1 DEF Event
      <4>2. e.seq <= seq[p]
        BY <1>0 DEF Stamped, Sound
      <4> QED BY <2>2, <3>0, <4>1, <4>2
    <3>4. Fresh(p, n)
      BY <2>1, <3>1, <3>2, <3>3 DEF Fresh, Under
    <3>5. Head(wire).tag = "event" /\ Head(wire).ev.proj = p => Head(wire).ev.seq < n
      <4>1. Head(wire).tag = "event" => Head(wire).ev.seq \in Nat /\ Sound(Head(wire).ev)
        BY <1>1, FirstFrame DEF Event
      <4> QED BY <2>2, <3>0, <4>1 DEF Sound
    <3>6. Head(wire).tag = "complete" /\ Head(wire).proj = p => Head(wire).last < n
      <4> HAVE Head(wire).tag = "complete" /\ Head(wire).proj = p
      <4>1. Head(wire).last \in Nat
        BY <1>1, FirstFrame
      <4>2. p # NoProject
        BY DeliveryAssumption
      <4>3. Head(wire).last <= seq[p]
        BY <1>0, <1>2, <1>5, <4>2 DEF Bounded, IsComplete, f
      <4> QED BY <2>2, <3>0, <4>1, <4>3
    <3> QED BY <1>1, <3>4, <3>5, <3>6, ReceiveUnder
  <2>3. \A p \in Projects : \E n \in Nat : n = seq[p] + 1 /\ seq[p] \in Nat
    BY <2>1
  <2>4. \A p \in Projects : Fresh(p, seq[p] + 1)' /\ seq[p] \in Nat
    BY <1>1, <2>2, <2>3
  <2>5. feed' \in Feeds
    <3>1. IInv'
      BY StepInvariant DEF Next
    <3> QED BY <3>1 DEF IInv, Types
  <2>6. \A p \in Projects : feed'.wm[p] <= seq[p]
    <3> TAKE p \in Projects
    <3>1. feed'.wm[p] < seq[p] + 1
      BY <1>1, <2>4 DEF Fresh, Under
    <3>2. feed'.wm[p] \in Nat /\ seq[p] \in Nat
      BY <2>4, <2>5 DEF Feeds
    <3> QED BY <3>1, <3>2
  <2>7. \A k \in feed'.seen : k[2] <= seq[k[1]]
    <3> TAKE k \in feed'.seen
    <3>1. k[1] \in Projects /\ k[2] \in Nat
      BY <2>5 DEF Feeds
    <3>2. k[2] < seq[k[1]] + 1 /\ seq[k[1]] \in Nat
      BY <1>1, <2>4, <3>1 DEF Fresh, Under
    <3> QED BY <3>1, <3>2
  <2>8. \A i \in DOMAIN wire' : IsComplete(wire'[i]) /\ wire'[i].proj # NoProject =>
              wire'[i].last <= seq[wire'[i].proj]
    BY <1>0, <1>3 DEF Bounded
  <2> QED BY <1>1, <2>6, <2>7, <2>8 DEF Bounded
<1> QED BY <1>9, <1>10, <1>13, <1>14, <1>15 DEF Linked

\* Every step keeps it.
LEMMA LinkedStep == IInv /\ Linked /\ [Next]_vars => Linked'
<1> SUFFICES ASSUME IInv, Linked, [Next]_vars PROVE Linked'
  OBVIOUS
<1>1. ASSUME NEW p \in Projects, NEW kind \in {"msg", "tick", "snap"},
             NEW conv \in SUBSET (Nat \X Nat), Stamps(p, kind, conv)
      PROVE  Linked'
  BY <1>1, LinkedStamps
<1> QED BY <1>1, Footprints, LinkedRunTask, LinkedReplays, LinkedQuits, LinkedConnect,
           LinkedIdles, LinkedTakes

-----------------------------------------------------------------------------
(* What is in flight, in the order in which it will arrive                 *)

flight == wire \o tasks

EventOf(f, p) == f.tag = "event" /\ f.ev.proj = p

\* The events of p after place j of s are newer than n, and rise.
Onward(s, p, j, n) ==
    /\ \A i \in DOMAIN s : i > j /\ EventOf(s[i], p) => s[i].ev.seq > n
    /\ \A i, k \in DOMAIN s :
          j < i /\ i < k /\ EventOf(s[i], p) /\ EventOf(s[k], p) => s[i].ev.seq < s[k].ev.seq

\* At place j of s is a snapshot of p newer than what precedes it, and no
\* replay_complete follows.
Newest(s, p, j) ==
    /\ EventOf(s[j], p) /\ s[j].ev.kind = "snap"
    /\ \A i \in DOMAIN s : i < j =>
          /\ EventOf(s[i], p) => s[i].ev.seq < s[j].ev.seq
          /\ IsComplete(s[i]) /\ s[i].proj = p => s[i].last < s[j].ev.seq
    /\ \A i \in DOMAIN s : i > j => ~IsComplete(s[i])
    /\ Onward(s, p, j, s[j].ev.seq)

\* What an event frame holds.
LEMMA EventSeq ==
    ASSUME NEW s \in Seq(Frames), NEW p, NEW i \in DOMAIN s, EventOf(s[i], p)
    PROVE  s[i] \in Frames /\ s[i].ev \in Event /\ s[i].ev.seq \in Nat
<1>1. s[i] \in Frames
  OBVIOUS
<1> QED BY <1>1, FrameIs DEF EventOf, Event

\* The places of a tail.
LEMMA TailPlaces ==
    ASSUME NEW S, NEW s \in Seq(S), s # <<>>
    PROVE  /\ Tail(s) \in Seq(S) /\ 1 \in DOMAIN s /\ Head(s) = s[1]
           /\ \A i \in DOMAIN Tail(s) :
                 i \in Nat \ {0} /\ i + 1 \in DOMAIN s /\ Tail(s)[i] = s[i + 1]
           /\ \A i \in DOMAIN s : i \in Nat \ {0}
           /\ \A i \in DOMAIN s : i # 1 => i - 1 \in DOMAIN Tail(s) /\ Tail(s)[i - 1] = s[i]
<1>1. /\ Len(s) \in Nat \ {0} /\ DOMAIN s = 1 .. Len(s)
      /\ DOMAIN Tail(s) = 1 .. Len(s) - 1 /\ Tail(s) \in Seq(S)
      /\ Head(s) = s[1]
      /\ \A i \in 1 .. Len(s) - 1 : Tail(s)[i] = s[i + 1]
  BY TailSet
<1> DEFINE t == Tail(s)
<1> HIDE DEF t
<1>2. /\ Len(s) \in Nat \ {0} /\ DOMAIN s = 1 .. Len(s) /\ DOMAIN t = 1 .. Len(s) - 1
      /\ \A i \in 1 .. Len(s) - 1 : t[i] = s[i + 1]
  BY <1>1 DEF t
<1>3. ASSUME NEW i \in DOMAIN s, i # 1 PROVE i - 1 \in DOMAIN t /\ t[i - 1] = s[i]
  <2>1. i - 1 \in 1 .. Len(s) - 1 /\ (i - 1) + 1 = i
    BY <1>2, <1>3
  <2> QED BY <1>2, <2>1
<1>4. \A i \in DOMAIN t : i \in Nat \ {0} /\ i + 1 \in DOMAIN s /\ t[i] = s[i + 1]
  BY <1>2
<1>5. 1 \in DOMAIN s /\ \A i \in DOMAIN s : i \in Nat \ {0}
  BY <1>2
<1> QED BY <1>1, <1>3, <1>4, <1>5 DEF t

\* The first frame is taken: what was after it still is onward.
LEMMA OnwardTail ==
    ASSUME NEW s \in Seq(Frames), s # <<>>, NEW p, NEW j \in Nat, NEW n, Onward(s, p, j, n)
    PROVE  Onward(Tail(s), p, IF j = 0 THEN 0 ELSE j - 1, n)
<1> DEFINE t == Tail(s)
           l == IF j = 0 THEN 0 ELSE j - 1
<1>1. /\ \A i \in DOMAIN t : i \in Nat \ {0} /\ i + 1 \in DOMAIN s /\ t[i] = s[i + 1]
  BY TailPlaces
<1>2. l \in Nat /\ j <= l + 1
  OBVIOUS
<1> HIDE DEF t, l
<1>3. ASSUME NEW i \in DOMAIN t, i > l, EventOf(t[i], p) PROVE t[i].ev.seq > n
  <2>1. i + 1 \in DOMAIN s /\ t[i] = s[i + 1] /\ i + 1 > j
    BY <1>1, <1>2, <1>3
  <2> QED BY <1>3, <2>1 DEF Onward
<1>4. ASSUME NEW i \in DOMAIN t, NEW k \in DOMAIN t, l < i, i < k,
             EventOf(t[i], p), EventOf(t[k], p)
      PROVE  t[i].ev.seq < t[k].ev.seq
  <2>1. /\ i + 1 \in DOMAIN s /\ t[i] = s[i + 1] /\ i + 1 > j
        /\ k + 1 \in DOMAIN s /\ t[k] = s[k + 1] /\ i + 1 < k + 1
    BY <1>1, <1>2, <1>4
  <2> QED BY <1>4, <2>1 DEF Onward
<1>5. Onward(t, p, l, n)
  BY <1>3, <1>4 DEF Onward
<1> QED BY <1>5 DEF t, l

\* If it is an event of p, the rest is newer than that one.
LEMMA OnwardFirst ==
    ASSUME NEW s \in Seq(Frames), s # <<>>, NEW p, NEW n, Onward(s, p, 0, n),
           EventOf(Head(s), p)
    PROVE  Head(s).ev.seq > n /\ Onward(Tail(s), p, 0, Head(s).ev.seq)
<1>1. 1 \in DOMAIN s /\ Head(s) = s[1] /\ \A i \in DOMAIN s : i \in Nat \ {0}
  BY TailPlaces
<1>2. \A i \in DOMAIN s : i > 1 /\ EventOf(s[i], p) => s[i].ev.seq > s[1].ev.seq
  <2> SUFFICES ASSUME NEW i \in DOMAIN s, i > 1, EventOf(s[i], p)
               PROVE  s[i].ev.seq > s[1].ev.seq
    OBVIOUS
  <2>1. s[1].ev.seq < s[i].ev.seq
    BY <1>1 DEF Onward
  <2>2. s[1].ev.seq \in Nat /\ s[i].ev.seq \in Nat
    BY <1>1, EventSeq
  <2> QED BY <2>1, <2>2
<1>3. Onward(s, p, 1, s[1].ev.seq)
  BY <1>1, <1>2 DEF Onward
<1>4. Onward(Tail(s), p, 0, s[1].ev.seq)
  <2>1. Onward(Tail(s), p, IF 1 = 0 THEN 0 ELSE 1 - 1, s[1].ev.seq)
    BY <1>3, OnwardTail
  <2> QED BY <2>1
<1>5. s[1].ev.seq > n
  BY <1>1 DEF Onward
<1> QED BY <1>1, <1>4, <1>5

\* An event newer than all is added at the end.
LEMMA OnwardAppend ==
    ASSUME NEW s \in Seq(Frames), NEW f \in Frames, NEW p, NEW j \in 0 .. Len(s), NEW n,
           Onward(s, p, j, n),
           EventOf(f, p) => f.ev.seq > n
                            /\ \A i \in DOMAIN s : EventOf(s[i], p) => s[i].ev.seq < f.ev.seq
    PROVE  Onward(Append(s, f), p, j, n)
<1> DEFINE t == Append(s, f)
<1>1. /\ Len(s) \in Nat /\ DOMAIN t = 1 .. Len(s) + 1 /\ DOMAIN s = 1 .. Len(s)
      /\ \A i \in 1 .. Len(s) : t[i] = s[i]
      /\ t[Len(s) + 1] = f
  BY AppendSet
<1> HIDE DEF t
<1>2. \A i \in DOMAIN t : (i \in DOMAIN s /\ t[i] = s[i]) \/ (i = Len(s) + 1 /\ t[i] = f)
  BY <1>1
<1>3. \A i \in DOMAIN t : i > j /\ EventOf(t[i], p) => t[i].ev.seq > n
  BY <1>2 DEF Onward
<1>4. \A i, k \in DOMAIN t :
          j < i /\ i < k /\ EventOf(t[i], p) /\ EventOf(t[k], p) => t[i].ev.seq < t[k].ev.seq
  <2> SUFFICES ASSUME NEW i \in DOMAIN t, NEW k \in DOMAIN t, j < i, i < k,
                      EventOf(t[i], p), EventOf(t[k], p)
               PROVE  t[i].ev.seq < t[k].ev.seq
    OBVIOUS
  <2>1. i \in DOMAIN s /\ t[i] = s[i]
    BY <1>1, <1>2
  <2> QED BY <1>2, <2>1 DEF Onward
<1>5. Onward(t, p, j, n)
  BY <1>3, <1>4 DEF Onward
<1> QED BY <1>5 DEF t

\* The newest snapshot stays that when an event follows it,
LEMMA NewestAppend ==
    ASSUME NEW s \in Seq(Frames), NEW f \in Frames, NEW p, NEW j \in DOMAIN s,
           Newest(s, p, j), ~IsComplete(f),
           EventOf(f, p) => \A i \in DOMAIN s : EventOf(s[i], p) => s[i].ev.seq < f.ev.seq
    PROVE  /\ j \in DOMAIN Append(s, f) /\ Append(s, f)[j] = s[j]
           /\ Newest(Append(s, f), p, j)
<1> DEFINE t == Append(s, f)
<1>1. /\ Len(s) \in Nat /\ DOMAIN t = 1 .. Len(s) + 1 /\ DOMAIN s = 1 .. Len(s)
      /\ \A i \in 1 .. Len(s) : t[i] = s[i]
      /\ t[Len(s) + 1] = f
  BY AppendSet
<1>2. EventOf(f, p) => f.ev.seq > s[j].ev.seq
  <2> HAVE EventOf(f, p)
  <2>1. s[j].ev.seq < f.ev.seq
    BY DEF Newest
  <2>2. s[j].ev.seq \in Nat
    BY EventSeq DEF Newest
  <2>3. f.ev.seq \in Nat
    BY FrameIs DEF EventOf, Event
  <2> QED BY <2>1, <2>2, <2>3
<1>3. Onward(t, p, j, s[j].ev.seq)
  <2>1. j \in 0 .. Len(s)
    BY <1>1
  <2>2. Onward(s, p, j, s[j].ev.seq)
    BY DEF Newest
  <2> QED BY <1>2, <2>1, <2>2, OnwardAppend
<1> HIDE DEF t
<1>4. \A i \in DOMAIN t : (i \in DOMAIN s /\ t[i] = s[i]) \/ (i = Len(s) + 1 /\ t[i] = f)
  BY <1>1
<1>5. j \in DOMAIN t /\ t[j] = s[j] /\ j < Len(s) + 1
  BY <1>1
<1>6. Newest(t, p, j)
  <2>1. \A i \in DOMAIN t : i < j =>
          /\ EventOf(t[i], p) => t[i].ev.seq < s[j].ev.seq
          /\ IsComplete(t[i]) /\ t[i].proj = p => t[i].last < s[j].ev.seq
    <3> TAKE i \in DOMAIN t
    <3> HAVE i < j
    <3>1. i \in DOMAIN s /\ t[i] = s[i]
      BY <1>1, <1>4
    <3> QED BY <3>1 DEF Newest
  <2>2. \A i \in DOMAIN t : i > j => ~IsComplete(t[i])
    BY <1>4 DEF Newest
  <2>3. EventOf(t[j], p) /\ t[j].ev.kind = "snap"
    BY <1>5 DEF Newest
  <2> QED BY <1>3, <1>5, <2>1, <2>2, <2>3 DEF Newest
<1> QED BY <1>5, <1>6 DEF t

\* becomes it when it is newer than all that is before it,
LEMMA NewestLast ==
    ASSUME NEW s \in Seq(Frames), NEW f \in Frames, NEW p, EventOf(f, p), f.ev.kind = "snap",
           \A i \in DOMAIN s :
              /\ EventOf(s[i], p) => s[i].ev.seq < f.ev.seq
              /\ IsComplete(s[i]) /\ s[i].proj = p => s[i].last < f.ev.seq
    PROVE  /\ Len(s) + 1 \in DOMAIN Append(s, f) /\ Append(s, f)[Len(s) + 1] = f
           /\ Newest(Append(s, f), p, Len(s) + 1)
<1> DEFINE t == Append(s, f)
           l == Len(s) + 1
<1>1. /\ l \in Nat /\ DOMAIN t = 1 .. l /\ l \in DOMAIN t
      /\ t[l] = f
      /\ \A i \in DOMAIN t : i < l => i \in DOMAIN s /\ t[i] = s[i]
  BY AppendSet
<1> HIDE DEF t, l
<1>2. \A i \in DOMAIN t : ~(i > l)
  BY <1>1
<1>3. Onward(t, p, l, f.ev.seq)
  BY <1>1, <1>2 DEF Onward
<1>4. Newest(t, p, l)
  BY <1>1, <1>2, <1>3 DEF Newest
<1> QED BY <1>1, <1>4 DEF t, l

\* and stays it until it is at the head.
LEMMA NewestTail ==
    ASSUME NEW s \in Seq(Frames), s # <<>>, NEW p, NEW j \in DOMAIN s, j # 1, Newest(s, p, j)
    PROVE  /\ j - 1 \in DOMAIN Tail(s) /\ Tail(s)[j - 1] = s[j]
           /\ Newest(Tail(s), p, j - 1)
<1> DEFINE t == Tail(s)
<1>1. /\ \A i \in DOMAIN t : i \in Nat \ {0} /\ i + 1 \in DOMAIN s /\ t[i] = s[i + 1]
      /\ j \in Nat \ {0} /\ j - 1 \in DOMAIN t /\ t[j - 1] = s[j]
  BY TailPlaces
<1>2. Onward(t, p, j - 1, s[j].ev.seq)
  <2>1. Onward(s, p, j, s[j].ev.seq) /\ j \in Nat /\ j # 0
    BY <1>1 DEF Newest
  <2>2. Onward(t, p, IF j = 0 THEN 0 ELSE j - 1, s[j].ev.seq)
    BY <2>1, OnwardTail
  <2> QED BY <2>1, <2>2
<1> HIDE DEF t
<1>3. \A i \in DOMAIN t : /\ i < j - 1 => i + 1 < j
                          /\ i > j - 1 => i + 1 > j
  BY <1>1
<1>4. Newest(t, p, j - 1)
  <2>1. EventOf(t[j - 1], p) /\ t[j - 1].ev.kind = "snap"
    BY <1>1 DEF Newest
  <2>2. \A i \in DOMAIN t : i < j - 1 =>
          /\ EventOf(t[i], p) => t[i].ev.seq < s[j].ev.seq
          /\ IsComplete(t[i]) /\ t[i].proj = p => t[i].last < s[j].ev.seq
    BY <1>1, <1>3 DEF Newest
  <2>3. \A i \in DOMAIN t : i > j - 1 => ~IsComplete(t[i])
    BY <1>1, <1>3 DEF Newest
  <2> QED BY <1>1, <1>2, <2>1, <2>2, <2>3 DEF Newest
<1> QED BY <1>1, <1>4 DEF t

-----------------------------------------------------------------------------
(* Why a project that was asked for is shown without a hole                *)

\* Its newest snapshot is on the way, newer than anything the client has.
Coming(p) ==
    \E j \in DOMAIN flight : Newest(flight, p, j) /\ Fresh(p, flight[j].ev.seq)

\* Everything up to the watermark is shown, and what is on the way is newer.
Settled(p) ==
    /\ feed.wm[p] > 0
    /\ \A e \in log[p] : e.kind = "msg" /\ e.seq <= feed.wm[p] => Id(e) \in feed.view[p]
    /\ \A k \in feed.seen : k[1] = p => k[2] <= feed.wm[p]
    /\ Onward(flight, p, 0, feed.wm[p])

Served(p) == Requested(p) \/ (sess = "ready" /\ Coming(p)) \/ (~hs /\ Settled(p))

Honest == ~lost /\ Open => \A p \in (synced \cup recent) \ missed : Served(p)

\* The frames in flight, the wire's first.
LEMMA FlightIs ==
    ASSUME IInv
    PROVE  /\ wire \in Seq(Frames) /\ tasks \in Seq(Frames) /\ flight \in Seq(Frames)
           /\ \A i \in DOMAIN flight : flight[i] \in ToSet(wire) \cup ToSet(tasks)
           /\ wire # <<>> => flight # <<>> /\ Head(flight) = Head(wire)
<1>1. /\ wire \in Seq(Frames) /\ tasks \in Seq(EventFrames)
  BY DEF IInv, Types
<1>2. tasks \in Seq(Frames)
  <2>1. EventFrames \subseteq Frames
    BY FrameIs
  <2> QED BY <1>1, <2>1
<1>3. /\ Len(wire) \in Nat /\ Len(tasks) \in Nat
      /\ wire \o tasks \in Seq(Frames)
      /\ DOMAIN (wire \o tasks) = 1 .. Len(wire) + Len(tasks)
      /\ \A i \in 1 .. Len(wire) : (wire \o tasks)[i] = wire[i]
      /\ \A i \in 1 .. Len(wire) + Len(tasks) : (wire \o tasks)[i] \in ToSet(wire) \cup ToSet(tasks)
  BY <1>1, <1>2, ConcatSet
<1>4. ASSUME wire # <<>> PROVE flight # <<>> /\ Head(flight) = Head(wire)
  <2>1. Len(wire) \in Nat \ {0} /\ Head(wire) = wire[1]
    BY <1>1, <1>4, TailSet
  <2>2. 1 \in 1 .. Len(wire)
    BY <2>1
  <2>3. 1 \in DOMAIN flight /\ flight[1] = wire[1]
    BY <1>3, <2>2 DEF flight
  <2>4. flight # <<>>
    BY <2>3
  <2>5. flight \in Seq(Frames)
    BY <1>3 DEF flight
  <2>6. Head(flight) = flight[1]
    BY <2>4, <2>5
  <2> QED BY <2>1, <2>3, <2>4, <2>6
<1> QED BY <1>1, <1>2, <1>3, <1>4 DEF flight

\* The client takes the first of them.
LEMMA FlightTail ==
    ASSUME NEW S, NEW s \in Seq(S), NEW u \in Seq(S), s # <<>>
    PROVE  Tail(s) \o u = Tail(s \o u)
<1> DEFINE a == Tail(s) \o u
           c == s \o u
           n == (Len(s) + Len(u)) - 1
<1>1. /\ Tail(s) \in Seq(S) /\ Len(s) \in Nat \ {0} /\ Len(u) \in Nat
      /\ DOMAIN Tail(s) = 1 .. Len(s) - 1
      /\ \A i \in 1 .. Len(s) - 1 : Tail(s)[i] = s[i + 1]
  BY TailSet
<1>2. Len(Tail(s)) = Len(s) - 1
  BY <1>1
<1>3. /\ c \in Seq(S) /\ Len(c) = Len(s) + Len(u)
      /\ \A i \in 1 .. Len(s) : c[i] = s[i]
      /\ \A i \in 1 .. Len(s) + Len(u) : i > Len(s) => c[i] = u[i - Len(s)]
  BY ConcatPlaces
<1>4. c # <<>>
  BY <1>1, <1>3
<1>5. /\ Tail(c) \in Seq(S) /\ DOMAIN Tail(c) = 1 .. n
      /\ \A i \in 1 .. n : Tail(c)[i] = c[i + 1]
  BY <1>3, <1>4, TailSet
<1>t. PICK t \in Seq(S) : t = Tail(s)
  BY <1>1
<1>6. /\ t \o u \in Seq(S) /\ DOMAIN (t \o u) = 1 .. n
      /\ \A i \in 1 .. Len(s) - 1 : (t \o u)[i] = s[i + 1]
      /\ \A i \in 1 .. n : i > Len(s) - 1 => (t \o u)[i] = u[i - (Len(s) - 1)]
  <2>1. t \in Seq(S) /\ Len(t) = Len(s) - 1 /\ Len(t) \in Nat /\ Len(u) \in Nat
    BY <1>1, <1>2, <1>t
  <2>2. Len(t) + Len(u) = n
    BY <1>1, <2>1
  <2>3. \A i \in 1 .. Len(s) - 1 : t[i] = s[i + 1]
    BY <1>1, <1>t
  <2>4. /\ t \o u \in Seq(S) /\ DOMAIN (t \o u) = 1 .. Len(t) + Len(u)
        /\ \A i \in 1 .. Len(t) : (t \o u)[i] = t[i]
    BY ConcatPlaces
  <2>5. \A i \in 1 .. Len(t) + Len(u) : i > Len(t) => (t \o u)[i] = u[i - Len(t)]
    BY ConcatPlaces
  <2> QED BY <2>1, <2>2, <2>3, <2>4, <2>5
<1> DEFINE d == Tail(c)
           b == t \o u
<1> HIDE DEF c, d, b
<1>7. /\ d \in Seq(S) /\ DOMAIN d = 1 .. n /\ \A i \in 1 .. n : d[i] = c[i + 1]
      /\ b \in Seq(S) /\ DOMAIN b = 1 .. n
  BY <1>5, <1>6 DEF d, b
<1>8. \A i \in 1 .. n : b[i] = d[i]
  <2> TAKE i \in 1 .. n
  <2>1. CASE i \in 1 .. Len(s) - 1
    <3>1. b[i] = s[i + 1] /\ d[i] = c[i + 1] /\ i + 1 \in 1 .. Len(s)
      BY <1>1, <1>6, <1>7, <2>1 DEF b
    <3> QED BY <1>3, <3>1
  <2>2. CASE i > Len(s) - 1
    <3>1. b[i] = u[i - (Len(s) - 1)] /\ d[i] = c[i + 1]
      BY <1>6, <1>7, <2>2 DEF b
    <3>2. i + 1 \in 1 .. Len(s) + Len(u) /\ i + 1 > Len(s) /\ (i + 1) - Len(s) = i - (Len(s) - 1)
      BY <1>1, <2>2
    <3> QED BY <1>3, <3>1, <3>2
  <2> QED BY <1>1, <2>1, <2>2
<1>9. b = d
  <2>1. b = [i \in 1 .. n |-> b[i]] /\ d = [i \in 1 .. n |-> d[i]]
    BY <1>7
  <2> HIDE DEF n
  <2>2. [i \in 1 .. n |-> b[i]] = [i \in 1 .. n |-> d[i]]
    BY <1>8
  <2> QED BY <2>1, <2>2
<1> QED BY <1>9, <1>t DEF b, c, d

\* A send task only moves its frame.
LEMMA FlightMoved ==
    ASSUME NEW S, NEW s \in Seq(S), NEW u \in Seq(S), u # <<>>
    PROVE  Append(s, Head(u)) \o Tail(u) = s \o u
<1> DEFINE h == Head(u)
           t == Tail(u)
<1>1. h \in S /\ t \in Seq(S)
  BY TailSet
<1>2. u = <<h>> \o t
  OBVIOUS
<1>a. <<h>> \in Seq(S)
  BY <1>1, OneMore
<1>3. PICK v \in Seq(S) : v = <<h>>
  BY <1>a
<1> HIDE DEF h, t
<1>4. Append(s, h) = s \o v
  BY <1>1, <1>3
<1>5. (s \o v) \o t = s \o (v \o t)
  BY <1>1, <1>3, Regroup
<1> QED BY <1>2, <1>3, <1>4, <1>5 DEF h, t

\* A new task is the last of them.
LEMMA FlightGrown ==
    ASSUME NEW S, NEW s \in Seq(S), NEW u \in Seq(S), NEW x \in S
    PROVE  s \o Append(u, x) = Append(s \o u, x)
<1>a. <<x>> \in Seq(S)
  BY OneMore
<1>1. PICK v \in Seq(S) : v = <<x>>
  BY <1>a
<1>2. Append(u, x) = u \o v
  BY <1>1
<1>3. s \o u \in Seq(S)
  OBVIOUS
<1>4. (s \o u) \o v = Append(s \o u, x)
  BY <1>1, <1>3
<1>5. (s \o u) \o v = s \o (u \o v)
  BY Regroup
<1> QED BY <1>2, <1>4, <1>5

\* Where nothing moves, p is served as it was.
LEMMA StillServed ==
    ASSUME NEW p, Served(p), Requested(p) => Requested(p)',
           UNCHANGED <<log, sess, hs, buf, feed, flight>>
    PROVE  Served(p)'
<1>1. Coming(p) => Coming(p)'
  BY DEF Coming, Fresh
<1>2. Settled(p) => Settled(p)'
  BY DEF Settled
<1> QED BY <1>1, <1>2 DEF Served

\* What is stamped is the newest in flight, and newer than all the client has.
LEMMA StampedLast ==
    ASSUME IInv, Linked, Open, ~lost, NEW p \in Projects,
           NEW kind \in {"msg", "tick", "snap"}, NEW conv \in SUBSET (Nat \X Nat),
           Stamps(p, kind, conv), NEW e, e = Stamping(p, kind, conv),
           NEW x, x = EventFrame(e)
    PROVE  /\ x \in Frames /\ x.tag = "event" /\ x.ev = e
           /\ flight \in Seq(Frames) /\ flight' = Append(flight, x)
           /\ \A i \in DOMAIN flight :
                 /\ EventOf(flight[i], p) => flight[i].ev.seq < e.seq
                 /\ IsComplete(flight[i]) /\ flight[i].proj = p => flight[i].last < e.seq
           /\ Fresh(p, e.seq)
<1>1. /\ e \in Event
      /\ e.proj = p /\ e.seq = seq[p] + 1 /\ e.kind = kind /\ e.conv = conv
      /\ seq[p] \in Nat /\ tasks' = IF Open THEN Append(tasks, EventFrame(e)) ELSE tasks
  BY StampIs
<1>2. UNCHANGED <<wire, hs, buf, feed>>
  BY DEF Stamps, shake
<1>3. Types /\ Stamped /\ Logged /\ Bounded
  BY DEF IInv, Linked
<1>4. x \in EventFrames
  BY <1>1, FrameIs
<1>5. x \in Frames /\ x.tag = "event" /\ x.ev = e
  BY <1>4, FrameIs DEF EventFrame
<1>6. /\ flight \in Seq(Frames) /\ flight' = Append(flight, x)
      /\ \A i \in DOMAIN flight : flight[i] \in ToSet(wire) \cup ToSet(tasks)
  <2>1. wire \in Seq(Frames) /\ tasks \in Seq(Frames) /\ tasks' = Append(tasks, x)
    BY <1>1, FlightIs
  <2>2. wire \o Append(tasks, x) = Append(wire \o tasks, x)
    BY <1>5, <2>1, FlightGrown
  <2> QED BY <1>2, <2>1, <2>2, FlightIs DEF flight
<1>7. \A i \in DOMAIN flight : EventOf(flight[i], p) => flight[i].ev.seq < e.seq
  <2> TAKE i \in DOMAIN flight
  <2> HAVE EventOf(flight[i], p)
  <2>1. flight[i].ev.seq \in Nat
    BY <1>6, EventSeq
  <2>2. flight[i].ev.seq <= seq[p]
    BY <1>3, <1>6 DEF Stamped, Sound, EventOf
  <2> QED BY <1>1, <2>1, <2>2
<1>8. feed \in Feeds /\ feed.wm \in [Projects -> Nat]
  BY <1>3 DEF Types, Feeds
<1>9. \A i \in DOMAIN flight : IsComplete(flight[i]) /\ flight[i].proj = p => flight[i].last < e.seq
  <2> TAKE i \in DOMAIN flight
  <2> HAVE IsComplete(flight[i]) /\ flight[i].proj = p
  <2>1. flight[i] \in ToSet(wire)
    <3>1. ASSUME flight[i] \in ToSet(tasks) PROVE FALSE
      <4>1. flight[i] \in EventFrames
        BY <1>3, <3>1 DEF Types, ToSet
      <4> QED BY <4>1, FrameIs DEF IsComplete
    <3> QED BY <1>6, <3>1
  <2>2. PICK k \in DOMAIN wire : wire[k] = flight[i]
    BY <2>1 DEF ToSet
  <2>3. p # NoProject
    BY DeliveryAssumption
  <2>4. flight[i].last <= seq[p]
    BY <1>3, <2>2, <2>3 DEF Bounded
  <2>5. flight[i] \in Frames /\ flight[i].last \in Nat
    BY <1>6, FrameIs DEF IsComplete
  <2> QED BY <1>1, <2>4, <2>5
<1>10. Fresh(p, e.seq)
  <2>1. feed.wm[p] < e.seq
    <3>1. feed.wm[p] <= seq[p] /\ feed.wm[p] \in Nat
      BY <1>3, <1>8 DEF Bounded
    <3> QED BY <1>1, <3>1
  <2>2. \A k \in feed.seen : k[1] = p => k[2] < e.seq
    <3> TAKE k \in feed.seen
    <3> HAVE k[1] = p
    <3>1. k[2] \in Nat /\ k[2] <= seq[p]
      BY <1>3, <1>8 DEF Bounded, Feeds
    <3> QED BY <1>1, <3>1
  <2>3. \A b \in ToSet(buf) : b.proj = p => b.seq < e.seq
    <3> TAKE b \in ToSet(buf)
    <3> HAVE b.proj = p
    <3>1. b \in Event
      BY <1>3 DEF Types, ToSet
    <3>2. b.seq \in Nat /\ b.seq <= seq[p]
      BY <1>3, <3>1 DEF Stamped, Sound, Event
    <3> QED BY <1>1, <3>2
  <2> QED BY <1>8, <2>1, <2>2, <2>3 DEF Fresh, Under
<1> QED BY <1>5, <1>6, <1>7, <1>9, <1>10

\* A request is answered by the newest snapshot; other events come after it.
LEMMA HonestStamps ==
    ASSUME IInv, Linked, Honest, NEW p \in Projects, NEW kind \in {"msg", "tick", "snap"},
           NEW conv \in SUBSET (Nat \X Nat), Stamps(p, kind, conv)
    PROVE  Honest'
<1>0. PICK e : e = Stamping(p, kind, conv)
  OBVIOUS
<1>1. /\ e \in Event
      /\ e.proj = p /\ e.seq = seq[p] + 1 /\ e.kind = kind /\ e.conv = conv
      /\ seq[p] \in Nat /\ seq' = [seq EXCEPT ![p] = seq[p] + 1]
      /\ seq \in [Projects -> Nat] /\ log \in [Projects -> SUBSET Event]
      /\ log' = [log EXCEPT ![p] = log[p] \cup {e}]
      /\ tasks' = IF Open THEN Append(tasks, EventFrame(e)) ELSE tasks
  BY <1>0, StampIs
<1>2. /\ UNCHANGED <<lost, sess, todo, wire, hs, buf, feed, synced, recent, missed>>
      /\ \/ inbox' = inbox
         \/ /\ sess = "ready" /\ kind = "snap" /\ inbox # <<>> /\ Head(inbox).proj = p
            /\ inbox' = Tail(inbox)
  BY DEF Stamps, shake
<1>3. Types /\ Stamped /\ Logged /\ Bounded
  BY DEF IInv, Linked
<1> SUFFICES ASSUME ~lost, Open, NEW q \in (synced \cup recent) \ missed, Served(q)
             PROVE  Served(q)'
  BY <1>2 DEF Honest, Open
<1>4. PICK x : x = EventFrame(e)
  OBVIOUS
<1>5. x \in Frames /\ x.tag = "event" /\ x.ev = e
  BY <1>0, <1>4, StampedLast
<1>6. flight \in Seq(Frames) /\ flight' = Append(flight, x)
  BY <1>0, <1>4, StampedLast
<1>7. \A i \in DOMAIN flight :
          /\ EventOf(flight[i], p) => flight[i].ev.seq < e.seq
          /\ IsComplete(flight[i]) /\ flight[i].proj = p => flight[i].last < e.seq
  BY <1>0, <1>4, StampedLast
<1>a. Fresh(p, e.seq)
  BY <1>0, <1>4, StampedLast
<1>8. feed \in Feeds /\ feed.wm \in [Projects -> Nat]
  BY <1>3 DEF Types, Feeds
<1>9. p \in Projects /\ (q = p \/ q # p)
  OBVIOUS
<1>10. ASSUME kind = "snap" PROVE Coming(p)'
  <2>1. EventOf(x, p) /\ x.ev.kind = "snap"
    BY <1>1, <1>5, <1>10 DEF EventOf
  <2>2. /\ Len(flight) + 1 \in DOMAIN flight' /\ flight'[Len(flight) + 1] = x
        /\ Newest(flight', p, Len(flight) + 1)
    BY <1>5, <1>6, <1>7, <2>1, NewestLast
  <2>3. Fresh(p, e.seq)'
    BY <1>2, <1>a DEF Fresh
  <2> QED BY <1>5, <2>2, <2>3 DEF Coming
<1>11. CASE Requested(q)
  <2>1. CASE inbox' = inbox
    BY <1>11, <2>1 DEF Requested, Served
  <2>2. CASE q = p /\ sess = "ready" /\ kind = "snap"
    BY <1>2, <1>10, <2>2 DEF Served
  <2>3. CASE q # p /\ inbox # <<>> /\ Head(inbox).proj = p /\ inbox' = Tail(inbox)
    <3>1. inbox \in Seq(Requests)
      BY <1>3 DEF Types
    <3>2. PICK i \in DOMAIN inbox : inbox[i].op = "snapshot" /\ inbox[i].proj = q
      BY <1>11 DEF Requested
    <3>3. i # 1
      BY <2>3, <3>1, <3>2, TailPlaces
    <3>4. i - 1 \in DOMAIN inbox' /\ inbox'[i - 1] = inbox[i]
      BY <2>3, <3>1, <3>3, TailPlaces
    <3> QED BY <3>2, <3>4 DEF Requested, Served
  <2> QED BY <1>2, <2>1, <2>2, <2>3
<1>12. EventOf(x, q) => q = p
  BY <1>1, <1>5 DEF EventOf
<1>13. EventOf(x, q) => \A i \in DOMAIN flight : EventOf(flight[i], q) => flight[i].ev.seq < x.ev.seq
  BY <1>5, <1>7, <1>12
<1>14. CASE sess = "ready" /\ Coming(q)
  <2>1. PICK j \in DOMAIN flight : Newest(flight, q, j) /\ Fresh(q, flight[j].ev.seq)
    BY <1>14 DEF Coming
  <2>2. ~IsComplete(x)
    BY <1>5 DEF IsComplete
  <2>3. j \in DOMAIN flight' /\ flight'[j] = flight[j] /\ Newest(flight', q, j)
    BY <1>5, <1>6, <1>13, <2>1, <2>2, NewestAppend
  <2>4. Fresh(q, flight[j].ev.seq)'
    BY <1>2, <2>1, <2>3 DEF Fresh
  <2> QED BY <1>2, <1>14, <2>3, <2>4 DEF Coming, Served
<1>15. CASE ~hs /\ Settled(q)
  <2>1. EventOf(x, q) => x.ev.seq > feed.wm[q]
    <3> HAVE EventOf(x, q)
    <3>1. feed.wm[p] <= seq[p] /\ feed.wm[p] \in Nat
      BY <1>3, <1>8 DEF Bounded
    <3> QED BY <1>1, <1>5, <1>12, <3>1
  <2>2. Onward(flight', q, 0, feed.wm[q])
    <3>1. Onward(flight, q, 0, feed.wm[q])
      BY <1>15 DEF Settled
    <3>2. 0 \in 0 .. Len(flight)
      BY <1>6
    <3>3. EventOf(x, q) => x.ev.seq > feed.wm[q]
             /\ \A i \in DOMAIN flight : EventOf(flight[i], q) => flight[i].ev.seq < x.ev.seq
      BY <1>13, <2>1
    <3> QED BY <1>5, <1>6, <3>1, <3>2, <3>3, OnwardAppend
  <2>3. \A m \in log'[q] : m.kind = "msg" /\ m.seq <= feed.wm[q] => Id(m) \in feed.view[q]
    <3> TAKE m \in log'[q]
    <3> HAVE m.kind = "msg" /\ m.seq <= feed.wm[q]
    <3>1. CASE m \in log[q]
      BY <1>15, <3>1 DEF Settled
    <3>2. CASE q = p /\ m = e
      <4>1. feed.wm[p] <= seq[p] /\ feed.wm[p] \in Nat
        BY <1>3, <1>8 DEF Bounded
      <4> QED BY <1>1, <3>2, <4>1
    <3> QED BY <1>1, <3>1, <3>2
  <2> QED BY <1>2, <1>15, <2>2, <2>3 DEF Settled, Served
<1> QED BY <1>11, <1>14, <1>15 DEF Served

\* A send task changes nothing of the order.
LEMMA HonestRunTask == ASSUME IInv, Honest, RunTask PROVE Honest'
<1>1. /\ tasks # <<>> /\ tasks' = Tail(tasks) /\ wire' = Append(wire, Head(tasks))
      /\ UNCHANGED <<log, lost, sess, inbox, feed, hs, buf, synced, recent, missed>>
  BY DEF RunTask, server, shake
<1>2. wire \in Seq(Frames) /\ tasks \in Seq(Frames)
  BY FlightIs
<1>3. flight' = flight
  BY <1>1, <1>2, FlightMoved DEF flight
<1>4. \A p : Requested(p) => Requested(p)'
  BY <1>1 DEF Requested
<1>5. \A p : Served(p) => Served(p)'
  BY <1>1, <1>3, <1>4, StillServed
<1> QED BY <1>1, <1>5 DEF Honest, Open

\* Until the handshake is over only requests count, and none is consumed.
LEMMA HonestReplays == ASSUME IInv, Linked, Honest, Replays PROVE Honest'
<1>0. inbox \in Seq(Requests) /\ Shaking /\ First
  BY DEF IInv, Types, Linked
<1>1. /\ sess \in {"first", "replaying"}
      /\ UNCHANGED <<lost, synced, recent, missed>>
      /\ \/ inbox' = inbox
         \/ sess = "first" /\ inbox # <<>> /\ inbox' = Tail(inbox)
  BY DEF Replays
<1>2. Open /\ hs
  BY <1>0, <1>1 DEF Open, Shaking
<1>3. \A p : Requested(p) => Requested(p)'
  <2>1. CASE inbox' = inbox
    BY <2>1 DEF Requested
  <2>2. CASE sess = "first" /\ inbox # <<>> /\ inbox' = Tail(inbox)
    <3>1. Head(inbox).op = "replay"
      BY <1>0, <2>2 DEF First
    <3> SUFFICES ASSUME NEW p, NEW i \in DOMAIN inbox, inbox[i].op = "snapshot", inbox[i].proj = p
                 PROVE  Requested(p)'
      BY DEF Requested
    <3>2. i # 1
      BY <1>0, <2>2, <3>1, TailPlaces
    <3>3. i - 1 \in DOMAIN inbox' /\ inbox'[i - 1] = inbox[i]
      BY <1>0, <2>2, <3>2, TailPlaces
    <3> QED BY <3>3 DEF Requested
  <2> QED BY <1>1, <2>1, <2>2
<1>4. \A p : Served(p) => Requested(p)
  BY <1>1, <1>2 DEF Served
<1> QED BY <1>1, <1>2, <1>3, <1>4 DEF Honest, Served

\* Asking serves who is asked for.
LEMMA HonestIdles == ASSUME IInv, Honest, Idles PROVE Honest'
<1>0. inbox \in Seq(Requests)
  BY DEF IInv, Types
<1>1. UNCHANGED <<log, lost, sess, tasks, wire, hs, buf, feed, flight>>
  BY DEF Idles, shake, flight
<1>2. CASE AskPart
  <2>1. \A p : Requested(p) => Requested(p)'
    BY <1>2, AskKeeps
  <2>2. \A p : Served(p) => Served(p)'
    BY <1>1, <2>1, StillServed
  <2>3. \A p \in (synced' \cup recent') \ missed' :
           p \in (synced \cup recent) \ missed \/ (Open => Requested(p)')
    BY <1>2, AskKeeps
  <2> QED BY <1>1, <2>2, <2>3 DEF Honest, Served, Open
<1>3. CASE /\ sess = "ready" /\ inbox # <<>> /\ Head(inbox).op = "replay"
           /\ inbox' = Tail(inbox) /\ UNCHANGED <<synced, recent, missed>>
  <2>1. \A p : Requested(p) => Requested(p)'
    <3> SUFFICES ASSUME NEW p, NEW i \in DOMAIN inbox, inbox[i].op = "snapshot", inbox[i].proj = p
                 PROVE  Requested(p)'
      BY DEF Requested
    <3>2. i # 1
      BY <1>0, <1>3, TailPlaces
    <3>3. i - 1 \in DOMAIN inbox' /\ inbox'[i - 1] = inbox[i]
      BY <1>0, <1>3, <3>2, TailPlaces
    <3> QED BY <3>3 DEF Requested
  <2>2. \A p : Served(p) => Served(p)'
    BY <1>1, <2>1, StillServed
  <2> QED BY <1>1, <1>3, <2>2 DEF Honest, Open
<1> QED BY <1>2, <1>3 DEF Idles

\* The snapshot arrives, and is the conversation.
LEMMA SnapshotSettles ==
    ASSUME IInv, Linked, wire # <<>>, Open, NEW p \in Projects,
           EventOf(Head(wire), p), Head(wire).ev.kind = "snap",
           feed' = Rebuilt(feed, Head(wire).ev),
           feed.wm[p] < Head(wire).ev.seq,
           \A k \in feed.seen : k[1] = p => k[2] <= Head(wire).ev.seq,
           Onward(Tail(flight), p, 0, Head(wire).ev.seq),
           flight' = Tail(flight), log' = log
    PROVE  Settled(p)'
<1>0. Types /\ Logged /\ Known /\ Whole
  BY DEF IInv, Linked
<1>s. PICK s \in Event : s = Head(wire).ev
  BY FirstFrame DEF EventOf
<1>1. s.proj = p /\ s.seq \in Nat /\ s.kind = "snap"
  BY <1>s DEF EventOf, Event
<1>2. feed \in Feeds /\ feed.wm \in [Projects -> Nat] /\ feed.view \in [Projects -> SUBSET (Nat \X Nat)]
  BY <1>0 DEF Types, Feeds
<1>3. s \in log[p]
  <2>1. wire \in Seq(Frames)
    BY <1>0 DEF Types
  <2>2. Head(wire) \in ToSet(wire)
    BY <2>1, TailSet
  <2> QED BY <1>0, <1>1, <1>s, <2>2 DEF Known, EventOf
<1>a. /\ feed' = Rebuilt(feed, s)
      /\ feed.wm[p] < s.seq /\ Onward(flight', p, 0, s.seq)
      /\ \A k \in feed.seen : k[1] = p => k[2] <= s.seq
  BY <1>s
<1> DEFINE g == Rebuilt(feed, s)
<1>b. g.wm = [feed.wm EXCEPT ![s.proj] = s.seq] /\ g.seen = feed.seen
      /\ g.view = [feed.view EXCEPT ![s.proj] = s.conv]
  BY <1>1, <1>2, RebuiltIs
<1> HIDE DEF g
<1>c. feed' = g
  BY <1>a DEF g
<1>4. /\ feed'.wm = [feed.wm EXCEPT ![s.proj] = s.seq] /\ feed'.seen = feed.seen
      /\ feed'.view = [feed.view EXCEPT ![s.proj] = s.conv]
  BY <1>b, <1>c
<1>5. /\ feed'.wm[p] = s.seq /\ feed'.view[p] = s.conv
      /\ \A k \in feed.seen : k[1] = p => k[2] <= s.seq
      /\ Onward(flight', p, 0, s.seq) /\ feed.wm[p] < s.seq
  BY <1>1, <1>2, <1>4, <1>a
<1>6. s.seq > 0
  BY <1>1, <1>2, <1>5
<1>7. ASSUME NEW e \in log[p], e.kind = "msg", e.seq <= s.seq PROVE Id(e) \in s.conv
  <2>1. e.seq \in Nat
    BY <1>0 DEF Types, Event
  <2>2. e.seq # s.seq
    BY <1>0, <1>1, <1>3, <1>7 DEF Logged
  <2>3. e.seq < s.seq
    BY <1>1, <1>7, <2>1, <2>2
  <2> QED BY <1>0, <1>1, <1>3, <1>7, <2>3 DEF Whole
<1> QED BY <1>4, <1>5, <1>6, <1>7 DEF Settled

\* A frame of another project changes nothing for p.
LEMMA OtherFrame ==
    ASSUME IInv, NEW p \in Projects, Settled(p), wire # <<>>,
           feed'.wm[p] = feed.wm[p], feed'.view[p] = feed.view[p],
           \A k \in feed'.seen : k[1] = p => k \in feed.seen,
           flight' = Tail(flight), log' = log
    PROVE  Settled(p)'
<1>1. flight \in Seq(Frames) /\ flight # <<>>
  BY FlightIs
<1>2. Onward(flight, p, 0, feed.wm[p])
  BY DEF Settled
<1>3. Onward(Tail(flight), p, IF 0 = 0 THEN 0 ELSE 0 - 1, feed.wm[p])
  BY <1>1, <1>2, OnwardTail
<1> QED BY <1>3 DEF Settled

\* A message or tick of p that is next keeps p without a hole.
LEMMA NextSettles ==
    ASSUME IInv, Linked, NEW p \in Projects, Settled(p), wire # <<>>, Open,
           EventOf(Head(wire), p), Head(wire).ev.kind # "snap",
           \/ feed' = feed
           \/ /\ feed' = Deliver(feed, Head(wire).ev)
              /\ ~(feed.wm[p] > 0 /\ Head(wire).ev.seq > feed.wm[p] + 1),
           flight' = Tail(flight), log' = log
    PROVE  Settled(p)'
<1>0. Types /\ Logged /\ Known
  BY DEF IInv, Linked
<1>1. PICK e \in Event : e = Head(wire).ev
  BY FirstFrame DEF EventOf
<1>2. e.proj = p /\ e.seq \in Nat /\ e.kind \in {"msg", "tick"}
  BY <1>1 DEF EventOf, Event
<1>3. /\ feed \in Feeds /\ feed.wm \in [Projects -> Nat] /\ feed.wm[p] \in Nat
      /\ feed.seen \in SUBSET (Projects \X Nat \X {"msg", "tick", "snap"})
  BY <1>0 DEF Types, Feeds
<1>4. CASE feed' = feed
  <2>1. \A k \in feed'.seen : k[1] = p => k \in feed.seen
    BY <1>4
  <2> QED BY <1>4, <2>1, OtherFrame
<1>5. CASE /\ feed' = Deliver(feed, e)
           /\ ~(feed.wm[p] > 0 /\ e.seq > feed.wm[p] + 1)
  <2>1. /\ feed.wm[p] > 0
        /\ \A m \in log[p] : m.kind = "msg" /\ m.seq <= feed.wm[p] => Id(m) \in feed.view[p]
        /\ \A k \in feed.seen : k[1] = p => k[2] <= feed.wm[p]
        /\ Onward(flight, p, 0, feed.wm[p])
    BY DEF Settled
  <2>2. flight \in Seq(Frames) /\ flight # <<>> /\ Head(flight) = Head(wire)
    BY FlightIs
  <2>3. e.seq > feed.wm[p] /\ Onward(flight', p, 0, e.seq)
    <3>1. EventOf(Head(flight), p) /\ Head(flight).ev = e
      BY <1>1, <2>2
    <3>2. Head(flight).ev.seq > feed.wm[p] /\ Onward(Tail(flight), p, 0, Head(flight).ev.seq)
      BY <2>1, <2>2, <3>1, OnwardFirst
    <3> QED BY <3>1, <3>2
  <2>4. e.seq = feed.wm[p] + 1
    BY <1>2, <1>3, <1>5, <2>1, <2>3
  <2>5. Key(e)[1] = p /\ Key(e)[2] = e.seq
    BY <1>2 DEF Key
  <2>6. Key(e) \notin feed.seen
    <3> SUFFICES ASSUME Key(e) \in feed.seen PROVE FALSE
      OBVIOUS
    <3>1. e.seq <= feed.wm[p]
      BY <2>1, <2>5
    <3> QED BY <1>2, <1>3, <2>3, <3>1
  <2> DEFINE g == Deliver(feed, e)
  <2>7. /\ g.wm = [feed.wm EXCEPT ![e.proj] = e.seq] /\ g.seen = feed.seen \cup {Key(e)}
        /\ feed.view[e.proj] \subseteq g.view[e.proj]
        /\ e.kind = "msg" => Id(e) \in g.view[e.proj]
    BY <1>2, <1>3, <2>6, DeliverIs
  <2>8. feed' = g
    BY <1>5
  <2> HIDE DEF g
  <2>9. g.wm[p] = e.seq
    BY <1>2, <1>3, <2>7
  <2>10. e \in log[p]
    <3>1. wire \in Seq(Frames)
      BY <1>0 DEF Types
    <3>2. Head(wire) \in ToSet(wire)
      BY <3>1, TailSet
    <3> QED BY <1>0, <1>1, <1>2, <3>2 DEF Known, EventOf
  <2>11. \A m \in log[p] : m.kind = "msg" /\ m.seq <= e.seq => Id(m) \in g.view[p]
    <3> TAKE m \in log[p]
    <3> HAVE m.kind = "msg" /\ m.seq <= e.seq
    <3>1. m.seq \in Nat
      BY <1>0 DEF Types, Event
    <3>2. CASE m.seq = e.seq
      <4>1. m = e
        BY <1>0, <2>10, <3>2 DEF Logged
      <4> QED BY <1>2, <2>7, <4>1
    <3>3. CASE m.seq # e.seq
      <4>1. m.seq <= feed.wm[p]
        BY <1>2, <1>3, <2>4, <3>1, <3>3
      <4> QED BY <1>2, <2>1, <2>7, <4>1
    <3> QED BY <3>2, <3>3
  <2>12. \A k \in g.seen : k[1] = p => k[2] <= e.seq
    <3> TAKE k \in g.seen
    <3> HAVE k[1] = p
    <3>1. CASE k = Key(e)
      BY <1>2, <2>5, <3>1
    <3>2. CASE k \in feed.seen
      <4>1. k[2] \in Nat /\ k[2] <= feed.wm[p]
        BY <1>3, <2>1, <3>2
      <4> QED BY <1>2, <1>3, <2>4, <4>1
    <3> QED BY <2>7, <3>1, <3>2
  <2> QED BY <1>2, <1>3, <2>3, <2>4, <2>8, <2>9, <2>11, <2>12 DEF Settled
<1> QED BY <1>1, <1>4, <1>5

\* When a frame is taken, the snapshot comes nearer or settles its project.
LEMMA ServedTakes ==
    ASSUME IInv, Linked, Takes, Open, Receive, NEW p \in Projects, Served(p)
    PROVE  Served(p)'
<1> DEFINE f == Head(wire)
<1>0. Types /\ Shaking /\ wire \in Seq(Frames) /\ tasks \in Seq(Frames) /\ flight \in Seq(Frames)
  BY FlightIs DEF IInv, Linked
<1>1. /\ wire # <<>> /\ wire' = Tail(wire) /\ AskPart
      /\ UNCHANGED <<log, seq, lost, sess, todo, tasks>>
  BY DEF Takes
<1>2. flight # <<>> /\ Head(flight) = f /\ flight' = Tail(flight)
  <2>1. Tail(wire) \o tasks = Tail(wire \o tasks)
    BY <1>0, <1>1, FlightTail
  <2> QED BY <1>1, <2>1, FlightIs DEF flight
<1>3. Requested(p) => Requested(p)'
  BY <1>1, AskKeeps
<1>4. f \in Frames /\ f = wire[1] /\ 1 \in DOMAIN wire
  BY <1>0, <1>1, TailPlaces
<1>5. f.tag = "event" => f.ev \in Event /\ f.ev.seq \in Nat
  BY <1>4, FrameIs DEF Event
<1>6. f.tag = "complete" => f.last \in Nat
  BY <1>4, FrameIs
<1>7. 1 \in DOMAIN flight /\ flight[1] = f /\ \A i \in DOMAIN flight : i \in Nat \ {0}
  BY <1>0, <1>2, TailPlaces
<1>8. ~hs => sess = "ready" /\ f.tag # "complete"
  BY <1>0, <1>4 DEF Shaking, IsComplete
<1>9. feed \in Feeds /\ feed.wm \in [Projects -> Nat] /\ feed.view \in [Projects -> SUBSET (Nat \X Nat)]
  BY <1>0 DEF Types, Feeds
<1>10. CASE Requested(p)
  BY <1>3, <1>10 DEF Served
<1>11. ASSUME NEW j \in DOMAIN flight, Newest(flight, p, j), Fresh(p, flight[j].ev.seq),
              sess = "ready"
       PROVE  Served(p)'
  <2>1. PICK n \in Nat : n = flight[j].ev.seq
    BY <1>0, <1>11, EventSeq DEF Newest
  <2>2. CASE j # 1
    <3>1. j - 1 \in DOMAIN flight' /\ flight'[j - 1] = flight[j] /\ Newest(flight', p, j - 1)
      BY <1>0, <1>2, <1>11, <2>2, NewestTail
    <3>2. 1 < j
      BY <1>7, <2>2
    <3>3. /\ EventOf(f, p) => f.ev.seq < n
          /\ IsComplete(f) /\ f.proj = p => f.last < n
      BY <1>7, <1>11, <2>1, <3>2 DEF Newest
    <3>4. Fresh(p, n)
      BY <1>11, <2>1
    <3>5. Fresh(p, n)'
      BY <1>1, <3>3, <3>4, ReceiveUnder DEF EventOf, IsComplete
    <3>6. flight'[j - 1].ev.seq = n
      BY <2>1, <3>1
    <3>8. Coming(p)'
      BY <3>1, <3>5, <3>6 DEF Coming
    <3> QED BY <1>1, <1>11, <3>8 DEF Served
  <2>3. CASE j = 1
    <3>1. EventOf(f, p) /\ f.ev.kind = "snap" /\ f.ev.seq = n /\ f.tag = "event"
      BY <1>7, <1>11, <2>1, <2>3 DEF Newest, EventOf
    <3>2. ~hs
      <4> SUFFICES ASSUME hs PROVE FALSE
        OBVIOUS
      <4>1. PICK i \in DOMAIN wire : IsComplete(wire[i])
        BY <1>0, <1>11 DEF Shaking
      <4>2. i # 1
        BY <1>4, <3>1, <4>1 DEF IsComplete
      <4>3. i \in DOMAIN flight /\ flight[i] = wire[i] /\ i > 1
        <5>1. /\ DOMAIN wire = 1 .. Len(wire) /\ Len(wire) \in Nat /\ Len(tasks) \in Nat
              /\ DOMAIN flight = 1 .. Len(wire) + Len(tasks)
              /\ \A k \in 1 .. Len(wire) : flight[k] = wire[k]
          BY <1>0, ConcatPlaces DEF flight
        <5> QED BY <4>2, <5>1
      <4> QED BY <1>11, <2>3, <4>1, <4>3 DEF Newest
    <3>3. feed' = Rebuilt(feed, f.ev) /\ hs' = hs
      BY <3>1, <3>2, ReceiveIs
    <3>4. feed.wm[p] < n /\ \A k \in feed.seen : k[1] = p => k[2] < n
      BY <1>11, <2>1 DEF Fresh, Under
    <3>5. \A k \in feed.seen : k[1] = p => k[2] <= n
      <4> TAKE k \in feed.seen
      <4> HAVE k[1] = p
      <4>1. k[2] \in Nat /\ k[2] < n
        BY <1>9, <3>4 DEF Feeds
      <4> QED BY <4>1
    <3>6. Onward(Tail(flight), p, 0, n)
      <4>1. Onward(flight, p, 1, n)
        BY <1>11, <2>1, <2>3 DEF Newest
      <4>2. Onward(Tail(flight), p, IF 1 = 0 THEN 0 ELSE 1 - 1, n)
        BY <1>0, <1>2, <4>1, OnwardTail
      <4> QED BY <4>2
    <3>7. Settled(p)'
      BY <1>1, <1>2, <3>1, <3>3, <3>4, <3>5, <3>6, SnapshotSettles
    <3> QED BY <3>2, <3>3, <3>7 DEF Served
  <2> QED BY <2>2, <2>3
<1>12. CASE ~hs /\ Settled(p)
  <2>1. /\ feed.wm[p] > 0 /\ Onward(flight, p, 0, feed.wm[p])
        /\ \A k \in feed.seen : k[1] = p => k[2] <= feed.wm[p]
    BY <1>12 DEF Settled
  <2>2. hs' = hs
    BY <1>8, <1>12, ReceiveIs
  <2>3. CASE feed' = feed
    <3>1. Settled(p)'
      BY <1>1, <1>2, <1>12, <2>3, OtherFrame
    <3> QED BY <1>12, <2>2, <3>1 DEF Served
  <2>4. CASE /\ f.tag = "event" /\ f.ev.kind = "snap"
             /\ feed' = Rebuilt(feed, f.ev)
    <3>1. CASE f.ev.proj = p
      <4>1. EventOf(f, p)
        BY <2>4, <3>1 DEF EventOf
      <4>2. f.ev.seq > feed.wm[p] /\ Onward(Tail(flight), p, 0, f.ev.seq)
        BY <1>0, <1>2, <2>1, <4>1, OnwardFirst
      <4>3. feed.wm[p] \in Nat /\ f.ev.seq \in Nat /\ feed.wm[p] < f.ev.seq
        BY <1>5, <1>9, <2>4, <4>2
      <4>4. \A k \in feed.seen : k[1] = p => k[2] <= f.ev.seq
        <5> TAKE k \in feed.seen
        <5> HAVE k[1] = p
        <5>1. k[2] \in Nat /\ k[2] <= feed.wm[p]
          BY <1>9, <2>1 DEF Feeds
        <5> QED BY <4>3, <5>1
      <4>5. Settled(p)'
        BY <1>1, <1>2, <2>4, <4>1, <4>2, <4>3, <4>4, SnapshotSettles
      <4> QED BY <1>12, <2>2, <4>5 DEF Served
    <3>2. CASE f.ev.proj # p
      <4>1. /\ feed'.wm = [feed.wm EXCEPT ![f.ev.proj] = f.ev.seq] /\ feed'.seen = feed.seen
            /\ feed'.view = [feed.view EXCEPT ![f.ev.proj] = f.ev.conv]
        BY <1>5, <1>9, <2>4, RebuiltIs
      <4>2. feed'.wm[p] = feed.wm[p] /\ feed'.view[p] = feed.view[p]
        BY <1>9, <3>2, <4>1
      <4>3. Settled(p)'
        BY <1>1, <1>2, <1>12, <4>1, <4>2, OtherFrame
      <4> QED BY <1>12, <2>2, <4>3 DEF Served
    <3> QED BY <3>1, <3>2
  <2>5. CASE /\ f.tag = "event" /\ f.ev.kind # "snap"
             /\ feed' = Deliver(feed, f.ev)
             /\ ~(feed.wm[f.ev.proj] > 0 /\ f.ev.seq > feed.wm[f.ev.proj] + 1)
    <3>1. CASE f.ev.proj = p
      <4>1. EventOf(f, p)
        BY <2>5, <3>1 DEF EventOf
      <4>2. Settled(p)'
        BY <1>1, <1>2, <1>12, <2>5, <3>1, <4>1, NextSettles
      <4> QED BY <1>12, <2>2, <4>2 DEF Served
    <3>2. CASE f.ev.proj # p
      <4> DEFINE g == Deliver(feed, f.ev)
      <4>1. /\ g.wm = [feed.wm EXCEPT ![f.ev.proj] = f.ev.seq]
            /\ g.seen = feed.seen \cup {Key(f.ev)} /\ g.view[p] = feed.view[p]
        <5>1. f.ev \in Event /\ p # f.ev.proj
          BY <1>5, <2>5, <3>2
        <5> QED BY <1>9, <5>1, DeliverIs
      <4>2. feed' = g
        BY <2>5
      <4> HIDE DEF g
      <4>3. g.wm[p] = feed.wm[p] /\ Key(f.ev)[1] # p
        BY <1>9, <3>2, <4>1 DEF Key
      <4>4. \A k \in feed'.seen : k[1] = p => k \in feed.seen
        BY <4>1, <4>2, <4>3
      <4>5. Settled(p)'
        BY <1>1, <1>2, <1>12, <4>1, <4>2, <4>3, <4>4, OtherFrame
      <4> QED BY <1>12, <2>2, <4>5 DEF Served
    <3> QED BY <3>1, <3>2
  <2> QED BY <1>8, <1>12, <2>3, <2>4, <2>5, ReceiveIs
<1> QED BY <1>10, <1>11, <1>12 DEF Served, Coming

\* And who is new among the asked has its request on the way.
LEMMA HonestTakes ==
    ASSUME IInv, Books, Linked, Honest, Takes, Open, Receive PROVE Honest'
<1>1. AskPart /\ UNCHANGED <<lost, sess>>
  BY DEF Takes
<1>2. \A p \in (synced' \cup recent') \ missed' :
         p \in (synced \cup recent) \ missed \/ Requested(p)'
  BY <1>1, AskKeeps
<1>3. synced \cup recent \subseteq Projects
  BY DEF Books
<1>4. \A p \in Projects : Served(p) => Served(p)'
  BY ServedTakes
<1>5. \A p : Requested(p)' => Served(p)'
  BY DEF Served
<1> QED BY <1>1, <1>2, <1>3, <1>4, <1>5 DEF Honest

\* Every step keeps it: what was asked for when a connection begins is missed until
\* it is asked for again.
LEMMA HonestStep ==
    ASSUME IInv, Books, Linked, Honest, [Next]_vars PROVE Honest'
<1>1. ASSUME NEW p \in Projects, NEW kind \in {"msg", "tick", "snap"},
             NEW conv \in SUBSET (Nat \X Nat), Stamps(p, kind, conv)
      PROVE  Honest'
  BY <1>1, HonestStamps
<1>2. CASE Quits
  BY <1>2 DEF Quits, Honest, Open
<1>3. CASE Connect
  <2>1. synced' = {} /\ recent' = recent /\ missed' = recent
    BY <1>3 DEF Connect
  <2> QED BY <2>1 DEF Honest
<1> QED BY <1>1, <1>2, <1>3, Footprints, HonestRunTask, HonestReplays, HonestIdles, HonestTakes

\* A project that counts as synced, with no snapshot of it requested or on its
\* way, shows every message up to its watermark (switchProject in store.ts: synced
\* once is enough), for any number of projects, windows, reconnects and restarts
\* that keep the high-water mark; a project whose request the debounce clock of the
\* connection before has swallowed counts again once it is asked for.
THEOREM SnapshotsHonest == Spec => []SyncedHonest
<1>1. Init => IInv /\ Books /\ Linked /\ Honest
  <2>1. Init => Honest
    BY DEF Init, Honest, Open
  <2> QED BY <2>1, InitInvariant, BooksInit, LinkedInit
<1>2. IInv /\ Books /\ Linked /\ Honest /\ [Next]_vars => (IInv /\ Books /\ Linked /\ Honest)'
  BY StepInvariant, BooksStep, LinkedStep, HonestStep
<1>3. IInv /\ Linked /\ Honest => SyncedHonest
  <2> SUFFICES ASSUME IInv, Linked, Honest, ~lost, NEW p \in synced \ missed, Open, ~hs,
                      ~SnapshotOnItsWay(p), NEW e \in log[p], e.kind = "msg",
                      e.seq <= feed.wm[p]
               PROVE  Id(e) \in feed.view[p]
    BY DEF SyncedHonest
  <2>1. Served(p)
    BY DEF Honest
  <2>2. ~Requested(p)
    BY DEF SnapshotOnItsWay, Requested
  <2>3. ~Coming(p)
    <3> SUFFICES ASSUME NEW j \in DOMAIN flight, Newest(flight, p, j) PROVE FALSE
      BY DEF Coming
    <3>1. flight[j] \in ToSet(tasks) \cup ToSet(wire)
      BY FlightIs
    <3> QED BY <3>1 DEF SnapshotOnItsWay, Newest, EventOf
  <2> QED BY <2>1, <2>2, <2>3 DEF Served, Settled
<1> QED BY <1>1, <1>2, <1>3, PTL DEF Spec

-----------------------------------------------------------------------------
(* What a handshake loses                                                  *)

\* What comes in a handshake is newer than what the client had at its start.
Ahead ==
    ~lost /\ Open /\ hs =>
        /\ sess = "first" => Head(inbox).since = feed.wm[Head(inbox).proj]
        /\ \A f \in ToSet(wire) \cup ToSet(tasks) :
              f.tag = "event" => feed.wm[f.ev.proj] < f.ev.seq
        /\ \A e \in ToSet(todo) \cup ToSet(buf) : feed.wm[e.proj] < e.seq

\* What is stamped is newer than the client's watermark.
LEMMA AheadStamps ==
    ASSUME IInv, Linked, Ahead, NEW p \in Projects,
           NEW kind \in {"msg", "tick", "snap"}, NEW conv \in SUBSET (Nat \X Nat),
           Stamps(p, kind, conv)
    PROVE  Ahead'
<1>0. PICK e : e = Stamping(p, kind, conv)
  OBVIOUS
<1>1. PICK x : x = EventFrame(e)
  OBVIOUS
<1>2. /\ UNCHANGED <<lost, sess, todo, wire, hs, buf, feed>>
      /\ sess = "first" => inbox' = inbox
  BY DEF Stamps, shake
<1>3. Types
  BY DEF IInv
<1>4. /\ e \in Event /\ e.proj = p
      /\ tasks' = IF Open THEN Append(tasks, EventFrame(e)) ELSE tasks
  BY <1>0, StampIs
<1> SUFFICES ASSUME ~lost, Open, hs PROVE Ahead'
  BY <1>2 DEF Ahead, Open
<1>5. x.ev = e /\ Fresh(p, e.seq)
  BY <1>0, <1>1, StampedLast
<1>6. tasks' = Append(tasks, x) /\ x \in EventFrames
  BY <1>1, <1>4, FrameIs
<1>7. ToSet(tasks') = ToSet(tasks) \cup {x}
  BY <1>3, <1>6, AppendSet DEF Types
<1>8. feed.wm[p] < e.seq
  BY <1>5 DEF Fresh, Under
<1> QED BY <1>2, <1>4, <1>5, <1>7, <1>8 DEF Ahead

\* A send task only moves its frame.
LEMMA AheadRunTask == ASSUME IInv, Ahead, RunTask PROVE Ahead'
<1> DEFINE c == Head(tasks)
<1>0. Types
  BY DEF IInv
<1>1. /\ tasks # <<>> /\ tasks' = Tail(tasks) /\ wire' = Append(wire, c)
      /\ UNCHANGED <<lost, sess, todo, inbox, feed, hs, buf>>
  BY DEF RunTask, server, shake
<1>2. c \in EventFrames /\ c \in ToSet(tasks) /\ ToSet(tasks') \subseteq ToSet(tasks)
  BY <1>0, <1>1, TailSet DEF Types
<1>3. c \in Frames
  BY <1>2, FrameIs
<1> HIDE DEF c
<1>4. ToSet(wire') = ToSet(wire) \cup {c}
  BY <1>1, <1>3, FlightIs, AppendSet
<1> QED BY <1>1, <1>2, <1>4 DEF Ahead, Open

\* A replay sends what is newer than the watermark it was asked with.
LEMMA AheadReplays == ASSUME IInv, Linked, Ahead, Replays PROVE Ahead'
<1>0. Types /\ Shaking
  BY DEF IInv, Linked
<1>1. /\ sess \in {"first", "replaying"} /\ sess' # "first"
      /\ UNCHANGED <<lost, tasks, hs, buf, feed>>
      /\ \A e \in ToSet(todo') : Listed(e)
  BY DEF Replays, shake
<1>2. PICK more \in Seq(Frames) :
          /\ wire' = wire \o more
          /\ \A i \in DOMAIN more : more[i].tag = "event" => Listed(more[i].ev)
  BY DEF Replays
<1>3. Open /\ hs
  BY <1>0, <1>1 DEF Open, Shaking
<1> SUFFICES ASSUME ~lost PROVE Ahead'
  BY <1>1 DEF Ahead
<1>4. ASSUME NEW e, Listed(e) PROVE feed.wm[e.proj] < e.seq
  BY <1>3, <1>4 DEF Listed, Ahead
<1>5. ToSet(wire') \subseteq ToSet(wire) \cup ToSet(more)
  BY <1>0, <1>2, ConcatSet DEF Types
<1>6. \A f \in ToSet(more) : f.tag = "event" => feed.wm[f.ev.proj] < f.ev.seq
  BY <1>2, <1>4 DEF ToSet
<1>7. \A e \in ToSet(todo') : feed.wm[e.proj] < e.seq
  BY <1>1, <1>4
<1> QED BY <1>1, <1>3, <1>5, <1>6, <1>7 DEF Ahead

\* The replay_request names the client's watermark.
LEMMA AheadConnect == ASSUME IInv, Connect PROVE Ahead'
<1>1. /\ ~Open /\ sess' = "first" /\ buf' = <<>> /\ active \in Projects
      /\ inbox' = <<[op |-> "replay", proj |-> active, since |-> feed.wm[active]]>>
      /\ UNCHANGED <<todo, tasks, wire, feed>>
  BY DEF Connect, server, IInv, Types
<1>2. wire' = <<>> /\ tasks' = <<>> /\ todo' = <<>>
  BY <1>1 DEF IInv, Closed
<1>3. Head(inbox') = [op |-> "replay", proj |-> active, since |-> feed.wm[active]]
  BY <1>1
<1>4. ToSet(<<>>) = {}
  BY DEF ToSet
<1> QED BY <1>1, <1>2, <1>3, <1>4 DEF Ahead

\* Requests change nothing of the connection.
LEMMA AheadIdles == ASSUME IInv, Linked, Ahead, Idles PROVE Ahead'
<1>1. UNCHANGED <<lost, sess, todo, tasks, wire, hs, buf, feed>>
  BY DEF Idles, shake
<1>2. sess = "first" => Head(inbox') = Head(inbox)
  <2>1. CASE AskPart
    BY <2>1, HeadStays DEF Linked, First
  <2> QED BY <2>1 DEF Idles
<1> QED BY <1>1, <1>2 DEF Ahead, Open

\* In the handshake a frame only moves to the buffer.
LEMMA AheadTakes ==
    ASSUME IInv, Linked, Ahead, Takes, Open, Receive PROVE Ahead'
<1> DEFINE f == Head(wire)
<1>0. Types /\ First /\ wire \in Seq(Frames) /\ buf \in Seq(Event)
  BY DEF IInv, Types, Linked
<1>1. /\ wire # <<>> /\ wire' = Tail(wire) /\ AskPart
      /\ UNCHANGED <<lost, sess, todo, tasks>>
  BY DEF Takes
<1> SUFFICES ASSUME ~lost, Open, hs' PROVE Ahead'
  BY <1>1 DEF Ahead
<1>2. f \in ToSet(wire) /\ ToSet(wire') \subseteq ToSet(wire)
  BY <1>0, <1>1, TailSet
<1>3. f.tag = "event" => f.ev \in Event
  BY <1>1, FirstFrame
<1>4. hs => feed' = feed /\ hs' = hs /\ \/ buf' = buf
                                        \/ f.tag = "event" /\ buf' \in {<<>>, Append(buf, f.ev)}
  BY ReceiveIs
<1>5. hs
  BY ReceiveIs
<1>6. ToSet(<<>>) = {}
  BY DEF ToSet
<1>7. \A e \in ToSet(buf') : e \in ToSet(buf) \/ (f.tag = "event" /\ e = f.ev)
  <2>1. CASE f.tag = "event" /\ buf' = Append(buf, f.ev)
    <3>1. ToSet(Append(buf, f.ev)) = ToSet(buf) \cup {f.ev}
      BY <1>0, <1>3, <2>1, AppendSet
    <3> QED BY <2>1, <3>1
  <2> QED BY <1>4, <1>5, <1>6, <2>1
<1>8. sess = "first" => Head(inbox') = Head(inbox)
  BY <1>0, <1>1, HeadStays DEF First
<1> HIDE DEF f
<1>9. \A e \in ToSet(todo') \cup ToSet(buf') : feed'.wm[e.proj] < e.seq
  BY <1>1, <1>2, <1>4, <1>5, <1>7 DEF Ahead
<1>10. \A g \in ToSet(wire') \cup ToSet(tasks') :
              g.tag = "event" => feed'.wm[g.ev.proj] < g.ev.seq
  BY <1>1, <1>2, <1>4, <1>5 DEF Ahead
<1>11. sess' = "first" => Head(inbox').since = feed'.wm[Head(inbox').proj]
  BY <1>1, <1>4, <1>5, <1>8 DEF Ahead
<1> QED BY <1>9, <1>10, <1>11 DEF Ahead

\* Every step keeps it; without a connection there is nothing to say.
LEMMA AheadStep == ASSUME IInv, Linked, Ahead, [Next]_vars PROVE Ahead'
<1>1. ASSUME NEW p \in Projects, NEW kind \in {"msg", "tick", "snap"},
             NEW conv \in SUBSET (Nat \X Nat), Stamps(p, kind, conv)
      PROVE  Ahead'
  BY <1>1, AheadStamps
<1>2. CASE Quits
  BY <1>2 DEF Quits, Ahead, Open
<1> QED BY <1>1, <1>2, Footprints, AheadRunTask, AheadReplays, AheadConnect, AheadIdles,
           AheadTakes

\* What round m of the drain makes of a feed of the m-th kind, the whole drain
\* has made at its end.
LEMMA DrainThrough ==
    ASSUME NEW f, NEW b, NEW k \in Nat, NEW h, IsDrain(h, f, b, k),
           NEW P, f \in P[0],
           \A m \in 1 .. k : \A g \in P[m - 1] : Absorb(g, Item(b, m)) \in P[m]
    PROVE  h[1 .. k] \in P[k]
<1> DEFINE Bad == {n \in Nat : n <= k /\ h[1 .. n] \notin P[n]}
<1> SUFFICES ASSUME Bad # {} PROVE FALSE
  OBVIOUS
<1>1. PICK n \in Bad : \A m \in Bad : n <= m
  <2>1. Bad \in SUBSET Nat
    OBVIOUS
  <2> QED BY <2>1, Smallest
<1>2. n \in Nat /\ n <= k /\ h[1 .. n] \notin P[n] /\ 1 .. n \in SUBSET (1 .. k)
  OBVIOUS
<1>3. n # 0
  <2> SUFFICES ASSUME n = 0 PROVE FALSE
    OBVIOUS
  <2>1. 1 .. n = {}
    OBVIOUS
  <2>2. h[{}] = f
    BY DEF IsDrain
  <2> QED BY <1>2, <2>1, <2>2
<1>4. n - 1 \in Nat /\ n - 1 <= k /\ ~(n <= n - 1) /\ n \in 1 .. k
  BY <1>2, <1>3
<1>5. h[1 .. n - 1] \in P[n - 1]
  BY <1>1, <1>4
<1>6. 1 .. n # {} /\ n \in 1 .. n
  BY <1>2, <1>3
<1>7. Max(1 .. n) = n
  <2>1. Max(1 .. n) \in 1 .. n /\ \A y \in 1 .. n : y <= Max(1 .. n)
    BY <1>2, <1>6, Largest
  <2>2. n <= Max(1 .. n)
    BY <1>6, <2>1
  <2> QED BY <1>2, <2>1, <2>2
<1>8. (1 .. n) \ {n} = 1 .. n - 1
  BY <1>2
<1>9. h[1 .. n] = Absorb(h[(1 .. n) \ {Max(1 .. n)}], Item(b, Max(1 .. n)))
  BY <1>2, <1>6 DEF IsDrain
<1> QED BY <1>2, <1>4, <1>5, <1>7, <1>8, <1>9

\* A round with an event below e leaves room for e, the round of e shows it,
\* and a round with an event above it does not hide it.
LEMMA RoundKeeps ==
    ASSUME IInv, Linked, NEW p \in Projects, NEW e \in Event, e.proj = p, e \in log[p],
           e.kind = "msg", NEW g \in Feeds, NEW x \in Event, x \in log[x.proj]
    PROVE  /\ Absorb(g, x) \in Feeds
           /\ x.seq < e.seq /\ g.wm[p] < e.seq /\ Key(e) \notin g.seen =>
                 Absorb(g, x).wm[p] < e.seq /\ Key(e) \notin Absorb(g, x).seen
           /\ x = e /\ g.wm[p] < e.seq /\ Key(e) \notin g.seen =>
                 Id(e) \in Absorb(g, x).view[p]
           /\ x.seq > e.seq /\ Id(e) \in g.view[p] => Id(e) \in Absorb(g, x).view[p]
<1> DEFINE d == Deliver(g, x)
<1>1. /\ g.wm \in [Projects -> Nat] /\ x.proj \in Projects
      /\ x.seq \in Nat /\ e.seq \in Nat /\ x.kind \in {"msg", "tick", "snap"}
  BY DEF Feeds, Event
<1>2. CASE x.seq <= g.wm[x.proj]
  <2>1. Absorb(g, x) = g
    BY <1>2 DEF Absorb
  <2>2. x = e => ~(g.wm[p] < e.seq)
    BY <1>1, <1>2
  <2> QED BY <2>1, <2>2
<1>3. CASE ~(x.seq <= g.wm[x.proj])
  <2>1. Absorb(g, x) = d
    BY <1>3 DEF Absorb
  <2>2. /\ d \in Feeds
        /\ d.wm = [g.wm EXCEPT ![x.proj] = x.seq]
        /\ d.seen = g.seen \cup {Key(x)}
        /\ p # x.proj => d.view[p] = g.view[p]
        /\ x.kind # "snap" => g.view[x.proj] \subseteq d.view[x.proj]
        /\ x.kind = "msg" /\ Key(x) \notin g.seen => Id(x) \in d.view[x.proj]
        /\ x.kind = "snap" /\ Key(x) \notin g.seen => d.view[x.proj] = x.conv
    BY DeliverIs
  <2>3. Key(x) \in g.seen => d.view = g.view
    BY DEF Deliver, Feeds
  <2> HIDE DEF d
  <2>4. x.seq < e.seq => Key(x) # Key(e)
    BY <1>1 DEF Key
  <2>5. ASSUME x.seq < e.seq, g.wm[p] < e.seq, Key(e) \notin g.seen
        PROVE  d.wm[p] < e.seq /\ Key(e) \notin d.seen
    BY <1>1, <2>2, <2>4, <2>5
  <2>6. ASSUME x.seq > e.seq, Id(e) \in g.view[p] PROVE Id(e) \in d.view[p]
    <3>1. CASE x.proj # p \/ Key(x) \in g.seen \/ x.kind # "snap"
      BY <2>2, <2>3, <2>6, <3>1
    <3>2. CASE x.proj = p /\ Key(x) \notin g.seen /\ x.kind = "snap"
      <4>1. Id(e) \in x.conv
        BY <1>1, <2>6, <3>2 DEF Linked, Whole
      <4> QED BY <2>2, <3>2, <4>1
    <3> QED BY <3>1, <3>2
  <2> QED BY <2>1, <2>2, <2>5, <2>6
<1> QED BY <1>2, <1>3

\* The drain shows a message that is new to the client, unless an event of another
\* project has its seq.
LEMMA DrainShows ==
    ASSUME IInv, Linked, NEW f \in Feeds, NEW b \in Seq(Event),
           \A x \in ToSet(b) : x \in log[x.proj],
           NEW e \in ToSet(b), e.kind = "msg", f.wm[e.proj] < e.seq, Key(e) \notin f.seen,
           \A x \in ToSet(b) : x.seq = e.seq => x.proj = e.proj
    PROVE  Id(e) \in Drained(f, b).view[e.proj]
<1> DEFINE k == Cardinality({b[j].seq : j \in DOMAIN b})
           h == CHOOSE h : IsDrain(h, f, b, k)
<1>0. Logged
  BY DEF IInv
<1>1. /\ k \in Nat
      /\ \A i \in 1 .. k : Item(b, i) \in ToSet(b)
      /\ \A i, j \in 1 .. k : i < j => Item(b, i).seq < Item(b, j).seq
      /\ \A j \in DOMAIN b : \E i \in 1 .. k : Item(b, i).seq = b[j].seq
  BY Buffered
<1>2. \A x \in ToSet(b) : x \in Event
  BY DEF ToSet
<1>3. Drained(f, b) = h[1 .. k]
  BY DrainIsFold
<1> HIDE DEF k
<1>4. IsDrain(h, f, b, k)
  BY <1>1, DrainExists
<1> HIDE DEF h
<1>5. PICK p \in Projects : p = e.proj
  BY <1>2 DEF Event
<1>6. PICK j \in DOMAIN b : e = b[j]
  BY DEF ToSet
<1>7. PICK l \in 1 .. k : Item(b, l).seq = e.seq
  BY <1>1, <1>6
<1>8. Item(b, l) = e
  <2>1. Item(b, l) \in ToSet(b) /\ Item(b, l).proj = p
    BY <1>1, <1>5, <1>7
  <2>2. Item(b, l) \in log[p] /\ e \in log[p]
    BY <1>5, <2>1
  <2> QED BY <1>0, <1>7, <2>2 DEF Logged
<1> DEFINE Room(g) == g.wm[p] < e.seq /\ Key(e) \notin g.seen
           P == [m \in Nat |-> {g \in Feeds : /\ m < l => Room(g)
                                              /\ l <= m => Id(e) \in g.view[p]}]
<1>9. l \in Nat /\ 0 < l /\ ~(l <= 0) /\ l <= k
  BY <1>1
<1>10. f \in P[0]
  BY <1>5, <1>9
<1>11. ASSUME NEW m \in 1 .. k, NEW g \in P[m - 1] PROVE Absorb(g, Item(b, m)) \in P[m]
  <2>0. m \in Nat /\ m - 1 \in Nat
    BY <1>1
  <2>1. g \in Feeds /\ (m - 1 < l => Room(g)) /\ (l <= m - 1 => Id(e) \in g.view[p])
    BY <2>0
  <2>2. PICK x \in Event : x = Item(b, m)
    BY <1>1, <1>2
  <2>3. x \in log[x.proj] /\ e \in Event /\ e \in log[p]
    BY <1>1, <1>2, <1>5, <2>2
  <2> DEFINE d == Absorb(g, x)
  <2>4. /\ d \in Feeds
        /\ x.seq < e.seq /\ Room(g) => Room(d)
        /\ x = e /\ Room(g) => Id(e) \in d.view[p]
        /\ x.seq > e.seq /\ Id(e) \in g.view[p] => Id(e) \in d.view[p]
    BY <1>5, <2>1, <2>3, RoundKeeps
  <2> HIDE DEF d, Room
  <2>5. CASE m < l
    <3>1. x.seq < e.seq
      BY <1>1, <1>8, <2>2, <2>5
    <3>2. m - 1 < l /\ ~(l <= m)
      BY <1>9, <2>0, <2>5
    <3> QED BY <2>0, <2>1, <2>2, <2>4, <3>1, <3>2 DEF d
  <2>6. CASE m = l
    <3>1. m - 1 < l /\ ~(m < l)
      BY <1>9, <2>0, <2>6
    <3> QED BY <1>8, <2>0, <2>1, <2>2, <2>4, <2>6, <3>1 DEF d
  <2>7. CASE l < m
    <3>1. x.seq > e.seq
      <4>1. e.seq < x.seq
        BY <1>1, <1>8, <2>2, <2>7
      <4> QED BY <1>2, <2>2, <4>1 DEF Event
    <3>2. l <= m - 1 /\ ~(m < l)
      BY <1>9, <2>0, <2>7
    <3> QED BY <2>0, <2>1, <2>2, <2>4, <3>1, <3>2 DEF d
  <2> QED BY <1>9, <2>0, <2>5, <2>6, <2>7
<1>12. h[1 .. k] \in P[k]
  <2> HIDE DEF P
  <2> QED BY <1>1, <1>4, <1>10, <1>11, DrainThrough
<1> QED BY <1>1, <1>3, <1>5, <1>9, <1>12

\* A handshake ends by taking the replay_complete; the buffer is drained then.
LEMMA HandshakeEnds ==
    ASSUME IInv, Linked, hs, ~hs', [Next]_vars, ~NewEpoch(Head(wire))
    PROVE  Open /\ feed'.view = Drained(feed, buf).view
<1>0. hs \in BOOLEAN /\ Closed
  BY DEF IInv, Types
<1>1. ASSUME NEW p \in Projects, NEW kind \in {"msg", "tick", "snap"},
             NEW conv \in SUBSET (Nat \X Nat), Stamps(p, kind, conv)
      PROVE  FALSE
  BY <1>1 DEF Stamps, shake
<1>2. CASE RunTask \/ Replays \/ Quits \/ Connect \/ Idles
  BY <1>2 DEF RunTask, Replays, Quits, Connect, Idles, shake
<1>3. CASE Receive
  <2>1. OnComplete
    BY <1>3 DEF Receive, OnBuffered, OnSnapshot, OnEvent, OnEpochReset, OnResync, shake
  <2> DEFINE d == Drained(feed, buf)
  <2>2. wire # <<>> /\ Head(wire).tag = "complete"
    BY <2>1 DEF OnComplete, Receiving
  <2>3. Open
    BY <1>0, <2>2 DEF Closed
  <2>4. \/ feed' = d
        \/ feed' = [d EXCEPT !.wm[Head(wire).proj] = Head(wire).last]
    BY <2>1 DEF OnComplete
  <2>5. d \in Feeds
    <3>1. d \in Right(Head(wire).proj, Head(wire).last)
      BY <2>2, DrainedRight
    <3> QED BY <3>1 DEF Right
  <2> HIDE DEF d
  <2>6. feed'.view = d.view
    BY <2>4, <2>5 DEF Feeds
  <2> QED BY <2>3, <2>6 DEF d
<1> QED BY <1>1, <1>2, <1>3, Footprints

\* What came in during the handshake and was not shown before is shown when it ends,
\* in whatever order it came (socket.wars.test.ts W8), for any number of projects and
\* windows, any size of the buffer and any number of events, reconnects and restarts;
\* but for an event whose seq one of another project in the buffer has too.
THEOREM HandshakeKeeps == Spec => HandshakeLosesNothing
<1> DEFINE All == IInv /\ Linked /\ Ahead
           Loses == ~lost /\ hs /\ ~hs' /\ ~NewEpoch(Head(wire)) =>
                       \A i \in DOMAIN buf :
                          /\ buf[i].kind = "msg" /\ Key(buf[i]) \notin feed.seen
                          /\ \A j \in DOMAIN buf :
                                buf[j].seq = buf[i].seq => buf[j].proj = buf[i].proj
                          => Id(buf[i]) \in feed'.view[buf[i].proj]
<1>1. Init => All
  <2>1. Init => Ahead
    BY DEF Init, Ahead, Open
  <2> QED BY <2>1, InitInvariant, LinkedInit
<1>2. All /\ [Next]_vars => All'
  BY StepInvariant, LinkedStep, AheadStep
<1>3. All /\ [Next]_vars => [Loses]_vars
  <2> SUFFICES ASSUME All, [Next]_vars, ~lost, hs, ~hs', ~NewEpoch(Head(wire)),
                      NEW i \in DOMAIN buf, buf[i].kind = "msg", Key(buf[i]) \notin feed.seen,
                      \A j \in DOMAIN buf : buf[j].seq = buf[i].seq => buf[j].proj = buf[i].proj
               PROVE  Id(buf[i]) \in feed'.view[buf[i].proj]
    OBVIOUS
  <2>0. feed \in Feeds /\ buf \in Seq(Event)
    BY DEF IInv, Types
  <2>1. Open /\ feed'.view = Drained(feed, buf).view
    BY HandshakeEnds
  <2>2. \A x \in ToSet(buf) : x \in log[x.proj] /\ feed.wm[x.proj] < x.seq
    BY <2>1 DEF Linked, Known, Ahead
  <2>3. PICK e \in ToSet(buf) : e = buf[i]
    BY DEF ToSet
  <2>4. \A x \in ToSet(buf) : x.seq = e.seq => x.proj = e.proj
    BY <2>3 DEF ToSet
  <2>5. Id(e) \in Drained(feed, buf).view[e.proj]
    BY <2>0, <2>2, <2>3, <2>4, DrainShows
  <2> QED BY <2>1, <2>3, <2>5
<1>4. HandshakeLosesNothing <=> [][Loses]_vars
  BY DEF HandshakeLosesNothing
<1> HIDE DEF All, Loses
<1> QED BY <1>1, <1>2, <1>3, <1>4, PTL DEF Spec

=============================================================================
