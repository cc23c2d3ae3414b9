--------------------------- MODULE EventLogProofs ---------------------------
(***************************************************************************)
(* Theorems about EventLog, for every set of projects, every ring capacity *)
(* and every bound.                                                        *)
(***************************************************************************)
EXTENDS EventLog, TLAPS

-----------------------------------------------------------------------------
(* Sequences                                                               *)

\* What Append does to the length, the elements and their set.
LEMMA AppendProps ==
    ASSUME NEW S, NEW s \in Seq(S), NEW e \in S
    PROVE  /\ Append(s, e) \in Seq(S)
           /\ Len(Append(s, e)) = Len(s) + 1
           /\ DOMAIN Append(s, e) = 1 .. Len(s) + 1
           /\ \A i \in 1 .. Len(s) : Append(s, e)[i] = s[i]
           /\ Append(s, e)[Len(s) + 1] = e
           /\ ToSet(Append(s, e)) = ToSet(s) \cup {e}
<1>1. /\ Append(s, e) \in Seq(S)
      /\ Len(Append(s, e)) = Len(s) + 1
      /\ \A i \in 1 .. Len(s) : Append(s, e)[i] = s[i]
      /\ Append(s, e)[Len(s) + 1] = e
  OBVIOUS
<1>2. DOMAIN Append(s, e) = 1 .. Len(s) + 1 /\ DOMAIN s = 1 .. Len(s)
  BY <1>1
<1>3. ToSet(Append(s, e)) = ToSet(s) \cup {e}
  BY <1>1, <1>2 DEF ToSet
<1> QED BY <1>1, <1>2, <1>3

\* The same for Tail.
LEMMA TailProps ==
    ASSUME NEW S, NEW s \in Seq(S), s # <<>>
    PROVE  /\ Tail(s) \in Seq(S)
           /\ Len(Tail(s)) = Len(s) - 1
           /\ DOMAIN Tail(s) = 1 .. Len(s) - 1
           /\ \A i \in 1 .. Len(s) - 1 : Tail(s)[i] = s[i + 1]
           /\ Head(s) = s[1] /\ Head(s) \in S
           /\ ToSet(s) = {Head(s)} \cup ToSet(Tail(s))
<1>1. /\ Tail(s) \in Seq(S)
      /\ Len(Tail(s)) = Len(s) - 1
      /\ \A i \in 1 .. Len(s) - 1 : Tail(s)[i] = s[i + 1]
      /\ Head(s) = s[1] /\ Head(s) \in S
      /\ Len(s) \in Nat \ {0}
  OBVIOUS
<1>2. DOMAIN Tail(s) = 1 .. Len(s) - 1 /\ DOMAIN s = 1 .. Len(s)
  BY <1>1
<1>3. ASSUME NEW x \in ToSet(s), x # Head(s) PROVE x \in ToSet(Tail(s))
  <2>1. PICK i \in 1 .. Len(s) : x = s[i]
    BY <1>2 DEF ToSet
  <2>2. i # 1
    BY <1>1, <1>3, <2>1
  <2>3. i - 1 \in 1 .. Len(s) - 1 /\ (i - 1) + 1 = i
    BY <1>1, <2>2
  <2>4. Tail(s)[i - 1] = s[i]
    BY <1>1, <2>3
  <2> QED BY <1>2, <2>1, <2>3, <2>4 DEF ToSet
<1>4. ToSet(Tail(s)) \subseteq ToSet(s) /\ Head(s) \in ToSet(s)
  BY <1>1, <1>2 DEF ToSet
<1> QED BY <1>1, <1>2, <1>3, <1>4

\* What submitting two jobs does to a queue.
LEMMA TwoJobs ==
    ASSUME NEW S, NEW q \in Seq(S), NEW a \in S, NEW b \in S
    PROVE  /\ q \o <<a, b>> \in Seq(S)
           /\ DOMAIN (q \o <<a, b>>) = 1 .. Len(q) + 2
           /\ DOMAIN q = 1 .. Len(q)
           /\ \A i \in 1 .. Len(q) : (q \o <<a, b>>)[i] = q[i]
           /\ (q \o <<a, b>>)[Len(q) + 1] = a
           /\ (q \o <<a, b>>)[Len(q) + 2] = b
<1>1. <<a, b>> \in Seq(S) /\ Len(<<a, b>>) = 2
  OBVIOUS
<1>2. Len(q) \in Nat
  OBVIOUS
<1>3. q \o <<a, b>> \in Seq(S) /\ Len(q \o <<a, b>>) = Len(q) + 2
  BY <1>1, <1>2
<1>4. \A i \in 1 .. Len(q) : (q \o <<a, b>>)[i] = q[i]
  BY <1>1
<1>5. /\ (q \o <<a, b>>)[Len(q) + 1] = a
      /\ (q \o <<a, b>>)[Len(q) + 2] = b
  BY <1>1, <1>2
<1> QED BY <1>2, <1>3, <1>4, <1>5

\* Appending an event above all others keeps a sequence in seq order.
LEMMA AppendInOrder ==
    ASSUME NEW s \in Seq(Event), NEW e \in Event, InSeqOrder(s),
           \A x \in ToSet(s) : x.seq < e.seq
    PROVE  InSeqOrder(Append(s, e))
<1>1. \A i \in 1 .. Len(s) : s[i] \in ToSet(s)
  BY DEF ToSet
<1>2. ASSUME NEW i \in 1 .. Len(s) + 1, NEW j \in 1 .. Len(s) + 1, i < j
      PROVE  Append(s, e)[i].seq < Append(s, e)[j].seq
  <2>1. i \in 1 .. Len(s) /\ Append(s, e)[i] = s[i]
    BY <1>2, AppendProps
  <2>2. CASE j = Len(s) + 1
    BY <1>1, <2>1, <2>2, AppendProps
  <2>3. CASE j \in 1 .. Len(s)
    BY <1>2, <2>1, <2>3, AppendProps DEF InSeqOrder
  <2> QED BY <2>2, <2>3
<1> QED BY <1>2, AppendProps DEF InSeqOrder

\* The tail of a sequence in seq order is in seq order, above its head.
LEMMA TailInOrder ==
    ASSUME NEW s \in Seq(Event), s # <<>>, InSeqOrder(s)
    PROVE  /\ InSeqOrder(Tail(s))
           /\ \A x \in ToSet(Tail(s)) : Head(s).seq < x.seq
<1>1. DOMAIN s = 1 .. Len(s) /\ Len(s) \in Nat \ {0}
  OBVIOUS
<1>2. ASSUME NEW i \in 1 .. Len(s) - 1, NEW j \in 1 .. Len(s) - 1, i < j
      PROVE  Tail(s)[i].seq < Tail(s)[j].seq
  <2>1. Tail(s)[i] = s[i + 1] /\ Tail(s)[j] = s[j + 1]
    BY TailProps
  <2>2. i + 1 \in DOMAIN s /\ j + 1 \in DOMAIN s /\ i + 1 < j + 1
    BY <1>1, <1>2
  <2> QED BY <2>1, <2>2 DEF InSeqOrder
<1>3. ASSUME NEW i \in 1 .. Len(s) - 1 PROVE Head(s).seq < Tail(s)[i].seq
  <2>1. Tail(s)[i] = s[i + 1] /\ Head(s) = s[1]
    BY TailProps
  <2>2. 1 \in DOMAIN s /\ i + 1 \in DOMAIN s /\ 1 < i + 1
    BY <1>1
  <2> QED BY <2>1, <2>2 DEF InSeqOrder
<1> QED BY <1>2, <1>3, TailProps DEF InSeqOrder, ToSet

-----------------------------------------------------------------------------
(* The inductive invariant                                                 *)

\* Stamps are distinct and none is above Project.seq.
SeqInv ==
    \A p \in Projects :
        /\ up => \A e \in stamped[p] : e.seq <= seq[p]
        /\ \A e, f \in stamped[p] : e.seq = f.seq => e = f

\* A queued append is for an event in memory; appends of one project are
\* queued in the order of their stamps.
QueueInv ==
    /\ \A j \in DOMAIN queue :
          queue[j].op = "append" =>
              \E e \in stamped[queue[j].proj] : e.seq = queue[j].n
    /\ \A j, k \in DOMAIN queue :
          /\ j < k /\ queue[j].proj = queue[k].proj
          /\ queue[j].op = "append" /\ queue[k].op = "append"
          => queue[j].n < queue[k].n

\* The file is in seq order, and every append still queued goes behind it.
DiskInv ==
    \A p \in Projects :
        /\ ToSet(disk[p]) \subseteq stamped[p]
        /\ InSeqOrder(disk[p])
        /\ \A d \in ToSet(disk[p]), j \in DOMAIN queue :
              queue[j].op = "append" /\ queue[j].proj = p => d.seq < queue[j].n

\* A persistable event is on disk, refused, or waiting for the writer.
Accounted ==
    \A p \in Projects : \A e \in stamped[p] :
        IsPersistable(e) =>
            \/ e \in ToSet(disk[p]) \cup refused[p]
            \/ \E j \in DOMAIN queue : /\ queue[j].op = "append"
                                      /\ queue[j].proj = p
                                      /\ queue[j].n = e.seq

\* The ring of a running process is a suffix of its events.
RingInv ==
    \A p \in Projects :
        /\ ToSet(ring[p]) \subseteq stamped[p]
        /\ InSeqOrder(ring[p])
        /\ up => \A e \in stamped[p] :
              ring[p] = <<>> \/ e.seq >= Head(ring[p]).seq
                => e \in ToSet(ring[p])

\* Every event_id in use is in the cache or in the file.
IdInv ==
    \A p \in Projects : \A e \in stamped[p] :
        e.id # NoId =>
            /\ up => e.id \in known[p] \/ e \in ToSet(disk[p])
            /\ \A f \in stamped[p] : e.id = f.id => e = f

\* Between a crash and the restart there is nothing but the files.
DownInv ==
    ~up => /\ queue = <<>>
           /\ \A p \in Projects : /\ stamped[p] = ToSet(disk[p])
                                 /\ refused[p] = {}
                                 /\ known[p] = {}

IInv == /\ TypeOK /\ SeqInv /\ QueueInv /\ DiskInv /\ Accounted
        /\ RingInv /\ IdInv /\ DownInv

\* The first process starts with empty files.
LEMMA InitIInv == Init => IInv
<1> SUFFICES ASSUME Init PROVE IInv
  OBVIOUS
<1> USE LogAssumption
<1>1. TypeOK
  BY DEF Init, TypeOK
<1>2. SeqInv /\ QueueInv /\ Accounted /\ IdInv /\ DownInv
  BY DEF Init, SeqInv, QueueInv, Accounted, IdInv, DownInv, ToSet
<1>3. DiskInv /\ RingInv
  BY DEF Init, DiskInv, RingInv, InSeqOrder, ToSet
<1> QED BY <1>1, <1>2, <1>3 DEF IInv

-----------------------------------------------------------------------------
(* Stamping an event: emit() and snapshot()                                *)

\* Stamping the next seq keeps the invariant.
LEMMA StampKeepsIInv ==
    ASSUME IInv, up, NEW p \in Projects, NEW e \in Event,
           e.seq = seq[p] + 1, Stamp(p, e),
           e.id # NoId => e.id \in known'[p] /\ \A f \in stamped[p] : f.id # e.id,
           known' \in [Projects -> SUBSET Ids],
           \A q \in Projects : known[q] \subseteq known'[q],
           UNCHANGED <<up, capacity, lastRead, files, refused, restarts>>
    PROVE  IInv'
<1> USE DEF files
<1>i. TypeOK /\ SeqInv /\ QueueInv /\ DiskInv /\ Accounted /\ RingInv
  BY DEF IInv
<1>t. /\ e.seq \in Nat /\ \A q \in Projects : seq[q] \in Nat
      /\ \A q \in Projects : \A x \in stamped[q] : x.seq \in Nat
  BY <1>i, SMTT(30) DEF TypeOK, Event
<1>a. [op |-> "append", proj |-> p, n |-> e.seq] \in Job
  BY DEF IInv, TypeOK, Job
<1>b. [op |-> "seq", proj |-> p, n |-> e.seq] \in Job
  BY DEF IInv, TypeOK, Job
<1>q. /\ queue' \in Seq(Job)
      /\ DOMAIN queue' = 1 .. Len(queue) + 2
      /\ DOMAIN queue = 1 .. Len(queue) /\ Len(queue) \in Nat
      /\ \A j \in 1 .. Len(queue) : queue'[j] = queue[j]
      /\ queue'[Len(queue) + 1] = [op |-> "append", proj |-> p, n |-> e.seq]
      /\ queue'[Len(queue) + 2] = [op |-> "seq", proj |-> p, n |-> e.seq]
  <2>1. queue \in Seq(Job)
    BY DEF IInv, TypeOK
  <2> QED BY <1>a, <1>b, <2>1, TwoJobs DEF Stamp
<1>r. /\ ring[p] \in Seq(Event)
      /\ RingAppend(ring[p], capacity[p], e) \in Seq(Event)
      /\ capacity[p] \in Nat \ {0}
  <2>1. ring[p] \in Seq(Event) /\ capacity[p] \in Nat \ {0}
    BY DEF IInv, TypeOK
  <2>2. CASE Len(ring[p]) < capacity[p]
    BY <2>1, <2>2, AppendProps DEF RingAppend
  <2>3. CASE ~(Len(ring[p]) < capacity[p])
    <3>1. ring[p] # <<>>
      BY <2>1, <2>3
    <3> QED BY <2>1, <2>3, <3>1, TailProps, AppendProps DEF RingAppend
  <2> QED BY <2>1, <2>2, <2>3
<1>s. /\ stamped' = [stamped EXCEPT ![p] = @ \cup {e}]
      /\ stamped'[p] = stamped[p] \cup {e}
      /\ \A q \in Projects \ {p} : stamped'[q] = stamped[q]
      /\ \A q \in Projects : stamped[q] \subseteq stamped'[q]
  BY DEF Stamp, IInv, TypeOK
<1>n. /\ seq'[p] = e.seq /\ \A q \in Projects \ {p} : seq'[q] = seq[q]
      /\ \A f \in stamped[p] : f.seq < e.seq
      /\ \A q \in Projects : stamped[q] \subseteq Event
  BY SMTT(30) DEF Stamp, IInv, TypeOK, SeqInv, Event
<1>1. TypeOK'
  <2>1. e.seq \in Nat
    BY DEF Event
  <2> QED BY <2>1, <1>q, <1>r DEF IInv, TypeOK, Stamp
<1>2. SeqInv'
  <2>1. ASSUME NEW q \in Projects, NEW x \in stamped'[q]
        PROVE  x.seq <= seq'[q]
    <3>1. CASE q = p
      <4>1. x.seq < e.seq \/ x = e
        BY <2>1, <3>1, <1>s, <1>n
      <4> QED BY <3>1, <4>1, <1>n, <1>s, <1>t, <2>1
    <3>2. CASE q # p
      <4>1. x \in stamped[q] /\ seq'[q] = seq[q]
        BY <2>1, <3>2, <1>s, <1>n
      <4> QED BY <4>1, <1>i DEF SeqInv
    <3> QED BY <3>1, <3>2
  <2>2. ASSUME NEW q \in Projects, NEW x \in stamped'[q], NEW y \in stamped'[q],
               x.seq = y.seq
        PROVE  x = y
    <3>1. CASE x \in stamped[q] /\ y \in stamped[q]
      BY <2>2, <3>1, <1>i DEF SeqInv
    <3>2. CASE ~(x \in stamped[q] /\ y \in stamped[q])
      <4>1. q = p /\ (x = e \/ y = e)
        BY <2>2, <3>2, <1>s
      <4>2. \A f \in stamped[p] : f.seq # e.seq
        BY <1>n, <1>t
      <4> QED BY <2>2, <4>1, <4>2, <1>s
    <3> QED BY <3>1, <3>2
  <2> QED BY <2>1, <2>2 DEF SeqInv
<1>3. QueueInv'
  <2>1. ASSUME NEW j \in DOMAIN queue', queue'[j].op = "append"
        PROVE  \E x \in stamped'[queue'[j].proj] : x.seq = queue'[j].n
    <3>1. CASE j \in 1 .. Len(queue)
      <4>1. queue'[j] = queue[j] /\ queue[j].proj \in Projects
        <5>1. queue'[j] = queue[j] /\ queue[j] \in Job
          BY <3>1, <1>q, <1>i DEF TypeOK
        <5> QED BY <5>1 DEF Job
      <4> QED BY <2>1, <3>1, <4>1, <1>q, <1>s DEF IInv, QueueInv
    <3>2. CASE j = Len(queue) + 1
      BY <3>2, <1>q, <1>s
    <3>3. CASE j = Len(queue) + 2
      BY <2>1, <3>3, <1>q
    <3> QED BY <3>1, <3>2, <3>3, <1>q
  <2>2. ASSUME NEW j \in DOMAIN queue', NEW k \in DOMAIN queue', j < k,
               queue'[j].proj = queue'[k].proj,
               queue'[j].op = "append", queue'[k].op = "append"
        PROVE  queue'[j].n < queue'[k].n
    <3>1. CASE k \in 1 .. Len(queue)
      <4>1. j \in 1 .. Len(queue)
        BY <2>2, <3>1, <1>q
      <4> QED BY <2>2, <3>1, <4>1, <1>q DEF IInv, QueueInv
    <3>2. CASE k = Len(queue) + 1
      <4>1. j \in 1 .. Len(queue) /\ queue[j] = queue'[j]
        BY <2>2, <3>2, <1>q
      <4>2. queue[j].proj = p
        BY <2>2, <3>2, <4>1, <1>q
      <4>3. PICK x \in stamped[p] : x.seq = queue[j].n
        BY <2>2, <4>1, <4>2, <1>q DEF IInv, QueueInv
      <4> QED BY <3>2, <4>1, <4>3, <1>q, <1>n
    <3>3. CASE k = Len(queue) + 2
      BY <2>2, <3>3, <1>q
    <3> QED BY <3>1, <3>2, <3>3, <1>q
  <2> QED BY <2>1, <2>2 DEF QueueInv
<1>4. DiskInv'
  <2>1. ASSUME NEW q \in Projects, NEW d \in ToSet(disk[q]),
               NEW j \in DOMAIN queue',
               queue'[j].op = "append", queue'[j].proj = q
        PROVE  d.seq < queue'[j].n
    <3>1. CASE j \in 1 .. Len(queue)
      BY <2>1, <3>1, <1>q DEF IInv, DiskInv
    <3>2. CASE j = Len(queue) + 1
      BY <2>1, <3>2, <1>q, <1>n DEF IInv, DiskInv
    <3>3. CASE j = Len(queue) + 2
      BY <2>1, <3>3, <1>q
    <3> QED BY <3>1, <3>2, <3>3, <1>q
  <2>2. \A q \in Projects : /\ ToSet(disk[q]) \subseteq stamped'[q]
                            /\ InSeqOrder(disk[q])
    BY <1>s DEF IInv, DiskInv
  <2> QED BY <2>1, <2>2 DEF DiskInv
<1>5. Accounted'
  <2>1. ASSUME NEW q \in Projects, NEW x \in stamped'[q], IsPersistable(x),
               x \notin ToSet(disk[q]) \cup refused[q]
        PROVE  \E j \in DOMAIN queue' : /\ queue'[j].op = "append"
                                        /\ queue'[j].proj = q
                                        /\ queue'[j].n = x.seq
    <3>1. CASE x \in stamped[q]
      <4>1. PICK j \in DOMAIN queue : /\ queue[j].op = "append"
                                      /\ queue[j].proj = q
                                      /\ queue[j].n = x.seq
        BY <2>1, <3>1 DEF IInv, Accounted
      <4>2. j \in DOMAIN queue' /\ queue'[j] = queue[j]
        BY <4>1, <1>q
      <4> QED BY <4>1, <4>2
    <3>2. CASE x \notin stamped[q]
      <4>1. q = p /\ x = e
        BY <2>1, <3>2, <1>s
      <4>2. Len(queue) + 1 \in DOMAIN queue'
        BY <1>q
      <4> QED BY <4>1, <4>2, <1>q
    <3> QED BY <3>1, <3>2
  <2> QED BY <2>1 DEF Accounted
<1>6. RingInv'
  <2>1. ASSUME NEW q \in Projects, q # p
        PROVE  ring'[q] = ring[q] /\ stamped'[q] = stamped[q]
    BY <2>1, <1>s DEF Stamp, IInv, TypeOK
  <2>2. ring'[p] = RingAppend(ring[p], capacity[p], e)
    BY DEF Stamp, IInv, TypeOK
  <2>3. /\ ToSet(ring[p]) \subseteq stamped[p] /\ InSeqOrder(ring[p])
        /\ \A x \in stamped[p] :
              ring[p] = <<>> \/ x.seq >= Head(ring[p]).seq => x \in ToSet(ring[p])
    BY DEF IInv, RingInv
  <2>4. CASE Len(ring[p]) < capacity[p]
    <3>1. ring'[p] = Append(ring[p], e)
      BY <2>2, <2>4 DEF RingAppend
    <3>2. ToSet(ring'[p]) = ToSet(ring[p]) \cup {e}
      BY <3>1, <1>r, AppendProps
    <3>3. InSeqOrder(ring'[p])
      BY <3>1, <1>r, <1>n, <2>3, AppendInOrder
    <3>4. ASSUME NEW x \in stamped'[p], x.seq >= Head(ring'[p]).seq,
                 x \notin ToSet(ring'[p])
          PROVE  FALSE
      <4>1. x \in stamped[p] /\ ring[p] # <<>>
        BY <3>2, <3>4, <2>3, <1>s
      <4>2. Head(ring'[p]) = Head(ring[p])
        BY <3>1, <4>1, <1>r
      <4> QED BY <3>2, <3>4, <4>1, <4>2, <2>3
    <3>5. ring'[p] # <<>>
      BY <3>1, <1>r
    <3> QED BY <2>1, <2>3, <3>2, <3>3, <3>4, <3>5, <1>s DEF RingInv, IInv
  <2>5. CASE ~(Len(ring[p]) < capacity[p])
    <3> DEFINE rest == Tail(ring[p])
    <3>1. ring[p] # <<>>
      BY <2>5, <1>r
    <3>2. ring'[p] = Append(rest, e) /\ rest \in Seq(Event)
      BY <2>2, <2>5, <3>1, <1>r DEF RingAppend
    <3>3. ToSet(ring[p]) = {Head(ring[p])} \cup ToSet(rest)
      BY <3>1, <1>r, TailProps
    <3>4. /\ InSeqOrder(rest)
          /\ \A x \in ToSet(rest) : Head(ring[p]).seq < x.seq
      BY <3>1, <2>3, <1>r, TailInOrder
    <3>t. rest # <<>> => Head(rest) \in ToSet(rest)
      BY <3>2, TailProps
    <3> HIDE DEF rest
    <3>x. ToSet(ring'[p]) = ToSet(rest) \cup {e}
      BY <3>2, AppendProps
    <3>5. InSeqOrder(ring'[p])
      BY <3>2, <3>3, <3>4, <2>3, <1>n, AppendInOrder
    <3>6. ring'[p] # <<>>
      BY <3>2
    <3>7. Head(ring'[p]) \in ToSet(rest) \cup {e}
      <4>1. CASE rest = <<>>
        BY <3>2, <4>1
      <4>2. CASE rest # <<>>
        <5>1. Head(ring'[p]) = Head(rest)
          BY <3>2, <4>2
        <5> QED BY <5>1, <3>t, <4>2
      <4> QED BY <4>1, <4>2
    <3>8. Head(ring[p]) \in stamped[p]
      BY <3>3, <2>3
    <3>9. Head(ring[p]).seq < Head(ring'[p]).seq
      BY <3>7, <3>8, <3>4, <1>n
    <3>10. ASSUME NEW x \in stamped'[p], x.seq >= Head(ring'[p]).seq,
                  x \notin ToSet(ring'[p])
           PROVE  FALSE
      <4>1. x \in stamped[p] /\ x \notin ToSet(rest)
        BY <3>x, <3>10, <1>s
      <4>2. x.seq >= Head(ring[p]).seq
        BY <3>7, <3>8, <3>9, <3>10, <3>3, <3>x, <2>3, <4>1, <1>n DEF Event
      <4>3. x = Head(ring[p])
        BY <4>1, <4>2, <2>3, <3>3
      <4> QED BY <4>3, <3>7, <3>8, <3>9, <3>10, <3>3, <3>x, <2>3, <1>n DEF Event
    <3> QED BY <2>1, <2>3, <3>3, <3>x, <3>5, <3>6, <3>10, <1>s DEF RingInv, IInv
  <2> QED BY <2>4, <2>5
<1>7. IdInv'
  <2>1. ASSUME NEW q \in Projects, NEW x \in stamped'[q], x.id # NoId
        PROVE  /\ x.id \in known'[q] \/ x \in ToSet(disk[q])
               /\ \A f \in stamped'[q] : x.id = f.id => x = f
    BY <2>1, <1>s DEF IInv, IdInv
  <2> QED BY <2>1 DEF IdInv
<1>8. DownInv'
  BY DEF DownInv
<1> QED BY <1>1, <1>2, <1>3, <1>4, <1>5, <1>6, <1>7, <1>8 DEF IInv

\* emit() of a new event: an event_id that is unknown is in no event.
LEMMA EmitNewKeepsIInv ==
    ASSUME IInv, NEW p \in Projects, NEW kind \in Kinds,
           NEW i \in Ids \cup {NoId}, EmitNew(p, kind, i)
    PROVE  IInv'
<1> DEFINE e == [seq |-> seq[p] + 1, kind |-> kind, id |-> i,
                 conv |-> {}, more |-> FALSE]
<1>1. seq[p] \in Nat /\ known \in [Projects -> SUBSET Ids]
  BY DEF IInv, TypeOK
<1>2. e \in Event /\ e.seq = seq[p] + 1 /\ e.id = i
  BY <1>1 DEF Event
<1>3. up /\ Stamp(p, e) /\ known' = [known EXCEPT ![p] = IF i = NoId THEN @ ELSE @ \cup {i}]
  BY DEF EmitNew
<1>4. /\ known' \in [Projects -> SUBSET Ids]
      /\ \A q \in Projects : known[q] \subseteq known'[q]
      /\ i # NoId => i \in known'[p]
  BY <1>1, <1>3
<1>5. ASSUME i # NoId, NEW f \in stamped[p], f.id = i PROVE FALSE
  <2>1. f.id \in known[p] \/ f \in ToSet(disk[p])
    BY <1>3, <1>5 DEF IInv, IdInv
  <2>2. ~IsKnown(p, i)
    BY <1>5 DEF EmitNew
  <2> QED BY <2>1, <2>2, <1>5 DEF IsKnown
<1>6. UNCHANGED <<up, capacity, lastRead, files, refused, restarts>>
  BY DEF EmitNew
<1>7. e.id # NoId => e.id \in known'[p] /\ \A f \in stamped[p] : f.id # e.id
  BY <1>2, <1>4, <1>5
<1> HIDE DEF e
<1> QED BY <1>2, <1>3, <1>4, <1>6, <1>7, StampKeepsIInv

\* snapshot(): its conversation is a set of seqs.
LEMMA SnapshotKeepsIInv ==
    ASSUME IInv, NEW p \in Projects, NEW limit \in Limits, Snapshot(p, limit)
    PROVE  IInv'
<1> DEFINE all == SeqsOf(Conversation(p))
           e == [seq |-> seq[p] + 1, kind |-> "snapshot", id |-> NoId,
                 conv |-> Newest(all, limit), more |-> Newest(all, limit) # all]
<1>1. seq[p] \in Nat /\ known \in [Projects -> SUBSET Ids]
  BY DEF IInv, TypeOK
<1>2. Newest(all, limit) \subseteq Nat
  <2>1. stamped[p] \subseteq Event
    BY DEF IInv, TypeOK
  <2>2. ToSet(disk[p]) \subseteq stamped[p] /\ ToSet(ring[p]) \subseteq stamped[p]
    BY DEF IInv, DiskInv, RingInv
  <2>3. Conversation(p) \subseteq Event
    BY <2>1, <2>2 DEF Conversation, RingStructural
  <2>4. all \subseteq Nat
    BY <2>3 DEF SeqsOf, Event
  <2> QED BY <2>4 DEF Newest
<1>3. e \in Event /\ e.seq = seq[p] + 1 /\ e.id = NoId
  BY <1>1, <1>2 DEF Event, Kinds
<1>4. up /\ Stamp(p, e) /\ known' = known
  BY DEF Snapshot
<1>5. UNCHANGED <<up, capacity, lastRead, files, refused, restarts>>
  BY DEF Snapshot
<1>6. known' \in [Projects -> SUBSET Ids] /\ \A q \in Projects : known[q] \subseteq known'[q]
  BY <1>1, <1>4
<1>7. e.id # NoId => e.id \in known'[p] /\ \A f \in stamped[p] : f.id # e.id
  BY <1>3
<1> HIDE DEF e
<1> QED BY <1>3, <1>4, <1>5, <1>6, <1>7, StampKeepsIInv

\* emit() of an event_id already used only adds to the cache.
LEMMA EmitKnownKeepsIInv ==
    ASSUME IInv, NEW p \in Projects, NEW i \in Ids, EmitKnown(p, i)
    PROVE  IInv'
<1> USE DEF EmitKnown, files
<1>1. /\ known' = [known EXCEPT ![p] = @ \cup {i}]
      /\ known' \in [Projects -> SUBSET Ids]
      /\ \A q \in Projects : known[q] \subseteq known'[q]
  BY DEF IInv, TypeOK
<1>2. TypeOK'
  BY <1>1 DEF IInv, TypeOK
<1>3. SeqInv' /\ QueueInv' /\ DiskInv' /\ Accounted' /\ RingInv'
  BY DEF IInv, SeqInv, QueueInv, DiskInv, Accounted, RingInv
<1>4. IdInv'
  BY <1>1 DEF IInv, IdInv
<1>5. DownInv'
  BY DEF DownInv
<1> QED BY <1>2, <1>3, <1>4, <1>5 DEF IInv

\* mark_read() queues a job that is no append.
LEMMA MarkReadKeepsIInv ==
    ASSUME IInv, NEW p \in Projects, NEW n \in Nat, MarkRead(p, n)
    PROVE  IInv'
<1> USE DEF MarkRead, files
<1> DEFINE m == IF n > lastRead[p] THEN n ELSE lastRead[p]
           a == [op |-> "read", proj |-> p, n |-> m]
<1>1. /\ lastRead' = [lastRead EXCEPT ![p] = m] /\ lastRead'[p] = m
      /\ m \in Nat /\ lastRead' \in [Projects -> Nat]
      /\ queue \in Seq(Job)
  BY DEF IInv, TypeOK
<1>2. queue' = Append(queue, a) /\ a \in Job
  BY <1>1 DEF Job
<1>3. /\ queue' \in Seq(Job)
      /\ DOMAIN queue' = 1 .. Len(queue) + 1
      /\ DOMAIN queue = 1 .. Len(queue) /\ Len(queue) \in Nat
      /\ \A j \in 1 .. Len(queue) : queue'[j] = queue[j]
      /\ queue'[Len(queue) + 1].op # "append"
  <2>1. a.op # "append"
    OBVIOUS
  <2> HIDE DEF a
  <2> QED BY <1>1, <1>2, <2>1, AppendProps
<1>4. \A j \in DOMAIN queue' :
          queue'[j].op = "append" => j \in DOMAIN queue /\ queue'[j] = queue[j]
  <2> HIDE DEF MarkRead
  <2> QED BY <1>3
<1>5. \A j \in DOMAIN queue : j \in DOMAIN queue' /\ queue'[j] = queue[j]
  <2> HIDE DEF MarkRead
  <2> QED BY <1>3
<1>6. TypeOK'
  BY <1>1, <1>3 DEF IInv, TypeOK
<1>7. SeqInv' /\ RingInv' /\ IdInv' /\ DownInv'
  BY DEF IInv, SeqInv, RingInv, IdInv, DownInv
<1>8. QueueInv' /\ DiskInv' /\ Accounted'
  <2>1. UNCHANGED <<disk, stamped, refused>>
    OBVIOUS
  <2> HIDE DEF MarkRead
  <2>2. QueueInv'
    BY <1>4, <2>1 DEF IInv, QueueInv
  <2>3. DiskInv'
    BY <1>4, <2>1 DEF IInv, DiskInv
  <2>4. Accounted'
    BY <1>5, <2>1 DEF IInv, Accounted
  <2> QED BY <2>2, <2>3, <2>4
<1> QED BY <1>6, <1>7, <1>8 DEF IInv

-----------------------------------------------------------------------------
(* The writer thread                                                       *)

\* What taking the first job does to the queue.
LEMMA TakeJob ==
    ASSUME IInv, queue # <<>>, queue' = Tail(queue)
    PROVE  /\ queue' \in Seq(Job) /\ Head(queue) \in Job
           /\ DOMAIN queue = 1 .. Len(queue) /\ Len(queue) \in Nat \ {0}
           /\ DOMAIN queue' = 1 .. Len(queue) - 1
           /\ Head(queue) = queue[1]
           /\ \A j \in 1 .. Len(queue) - 1 : queue'[j] = queue[j + 1]
<1>1. queue \in Seq(Job)
  BY DEF IInv, TypeOK
<1>2. DOMAIN queue = 1 .. Len(queue) /\ Len(queue) \in Nat \ {0}
  BY <1>1
<1> QED BY <1>1, <1>2, TailProps

\* The jobs behind the first one keep their order.
LEMMA TakeJobKeepsQueueInv ==
    ASSUME IInv, queue # <<>>, queue' = Tail(queue), stamped' = stamped
    PROVE  QueueInv'
<1>1. \A j \in DOMAIN queue' : j + 1 \in DOMAIN queue /\ queue'[j] = queue[j + 1]
  BY TakeJob
<1>2. ASSUME NEW j \in DOMAIN queue', queue'[j].op = "append"
      PROVE  \E e \in stamped'[queue'[j].proj] : e.seq = queue'[j].n
  BY <1>1, <1>2 DEF IInv, QueueInv
<1>3. ASSUME NEW j \in DOMAIN queue', NEW k \in DOMAIN queue', j < k,
             queue'[j].proj = queue'[k].proj,
             queue'[j].op = "append", queue'[k].op = "append"
      PROVE  queue'[j].n < queue'[k].n
  <2>1. j + 1 < k + 1
    BY <1>3, TakeJob
  <2> QED BY <1>1, <1>3, <2>1 DEF IInv, QueueInv
<1> QED BY <1>2, <1>3 DEF QueueInv

\* A job that is no append: save_seq_watermark, save_read_watermark.
LEMMA SaveKeepsIInv ==
    ASSUME IInv, SaveSeq \/ SaveRead
    PROVE  IInv'
<1> USE DEF memory
<1>1. /\ up /\ queue # <<>> /\ queue' = Tail(queue) /\ Head(queue).op # "append"
      /\ UNCHANGED <<up, seq, ring, capacity, known, lastRead, disk, stamped,
                     refused, published, restarts>>
  BY DEF SaveSeq, SaveRead, Writing
<1>2. Head(queue).n \in Nat /\ Head(queue).proj \in Projects
  BY <1>1, TakeJob DEF Job
<1>3. seqFile' \in [Projects -> Nat] /\ readFile' \in [Projects -> Nat]
  BY <1>2 DEF SaveSeq, SaveRead, IInv, TypeOK
<1>4. TypeOK'
  BY <1>1, <1>3, TakeJob DEF IInv, TypeOK
<1>5. SeqInv' /\ RingInv' /\ IdInv' /\ DownInv'
  BY <1>1 DEF IInv, SeqInv, RingInv, IdInv, DownInv
<1>6. QueueInv'
  BY <1>1, TakeJobKeepsQueueInv
<1>7. DiskInv'
  <2>1. \A j \in DOMAIN queue' : j + 1 \in DOMAIN queue /\ queue'[j] = queue[j + 1]
    BY <1>1, TakeJob
  <2> QED BY <1>1, <2>1 DEF IInv, DiskInv
<1>8. Accounted'
  <2>1. ASSUME NEW j \in DOMAIN queue, queue[j].op = "append"
        PROVE  j - 1 \in DOMAIN queue' /\ queue'[j - 1] = queue[j]
    <3>1. j # 1
      BY <1>1, <2>1, TakeJob
    <3>2. j - 1 \in 1 .. Len(queue) - 1 /\ (j - 1) + 1 = j
      BY <1>1, <3>1, TakeJob
    <3>3. queue'[j - 1] = queue[(j - 1) + 1]
      BY <1>1, <3>2, TakeJob
    <3> QED BY <1>1, <3>2, <3>3, TakeJob
  <2>2. ASSUME NEW q \in Projects, NEW x \in stamped'[q], IsPersistable(x),
               x \notin ToSet(disk'[q]) \cup refused'[q]
        PROVE  \E j \in DOMAIN queue' : /\ queue'[j].op = "append"
                                        /\ queue'[j].proj = q
                                        /\ queue'[j].n = x.seq
    <3>1. PICK j \in DOMAIN queue : /\ queue[j].op = "append"
                                    /\ queue[j].proj = q
                                    /\ queue[j].n = x.seq
      BY <1>1, <2>2 DEF IInv, Accounted
    <3> QED BY <2>1, <3>1
  <2> QED BY <2>2 DEF Accounted
<1> QED BY <1>4, <1>5, <1>6, <1>7, <1>8 DEF IInv

\* An append_event job: the event behind it is written, or refused, or of a
\* kind that does not reach the file.
LEMMA AppendKeepsIInv ==
    ASSUME IInv, AppendEvent \/ AppendRefused
    PROVE  IInv'
<1> USE DEF memory, files
<1> DEFINE p == Head(queue).proj
           e == EventWith(p, Head(queue).n)
<1>1. /\ up /\ queue # <<>> /\ queue' = Tail(queue) /\ Head(queue).op = "append"
      /\ UNCHANGED <<up, seq, ring, capacity, known, lastRead, seqFile, readFile,
                     stamped, published, restarts>>
  BY DEF AppendEvent, AppendRefused, Writing
<1>2. Head(queue).n \in Nat /\ p \in Projects
  BY <1>1, TakeJob DEF Job
<1>3. /\ 1 \in DOMAIN queue /\ queue[1] = Head(queue)
      /\ \A j \in DOMAIN queue' : /\ j + 1 \in DOMAIN queue /\ 1 < j + 1
                                  /\ queue'[j] = queue[j + 1]
      /\ \A j \in DOMAIN queue : j # 1 =>
            j - 1 \in DOMAIN queue' /\ queue'[j - 1] = queue[j]
  <2>1. ASSUME NEW j \in DOMAIN queue, j # 1
        PROVE  j - 1 \in DOMAIN queue' /\ queue'[j - 1] = queue[j]
    <3>1. j - 1 \in 1 .. Len(queue) - 1 /\ (j - 1) + 1 = j
      BY <1>1, <2>1, TakeJob
    <3>2. queue'[j - 1] = queue[(j - 1) + 1]
      BY <1>1, <3>1, TakeJob
    <3> QED BY <1>1, <3>1, <3>2, TakeJob
  <2> QED BY <1>1, <2>1, TakeJob
<1>4. e \in stamped[p] /\ e.seq = Head(queue).n /\ e \in Event
  <2>1. \E x \in stamped[p] : x.seq = Head(queue).n
    BY <1>1, <1>3 DEF IInv, QueueInv
  <2>2. stamped[p] \subseteq Event
    BY <1>2 DEF IInv, TypeOK
  <2> QED BY <2>1, <2>2 DEF EventWith
<1>5. \A x \in stamped[p] : x.seq = Head(queue).n => x = e
  BY <1>2, <1>4 DEF IInv, SeqInv
<1>6. /\ \A q \in Projects \ {p} : disk'[q] = disk[q] /\ refused'[q] = refused[q]
      /\ \/ disk'[p] = Append(disk[p], e) /\ refused'[p] = refused[p]
         \/ disk'[p] = disk[p] /\ refused'[p] = refused[p] \cup {e}
         \/ disk'[p] = disk[p] /\ refused'[p] = refused[p] /\ ~IsPersistable(e)
  BY <1>2 DEF AppendEvent, AppendRefused, IInv, TypeOK
<1>7. /\ DOMAIN disk' = Projects /\ disk' = [q \in Projects |-> disk'[q]]
      /\ DOMAIN refused' = Projects /\ refused' = [q \in Projects |-> refused'[q]]
  BY DEF AppendEvent, AppendRefused, IInv, TypeOK
<1>8. /\ \A q \in Projects : disk[q] \in Seq(Event) /\ refused[q] \subseteq Event
      /\ \A q \in Projects : ToSet(disk[q]) \subseteq stamped[q]
      /\ \A q \in Projects : InSeqOrder(disk[q])
  BY DEF IInv, TypeOK, DiskInv
<1> HIDE DEF p, e
<1>9. ToSet(Append(disk[p], e)) = ToSet(disk[p]) \cup {e} /\ Append(disk[p], e) \in Seq(Event)
  BY <1>2, <1>4, <1>8, AppendProps
<1>10. /\ \A q \in Projects : disk'[q] \in Seq(Event) /\ refused'[q] \subseteq Event
       /\ \A q \in Projects : ToSet(disk[q]) \subseteq ToSet(disk'[q])
       /\ \A q \in Projects : refused[q] \subseteq refused'[q]
       /\ \A q \in Projects : ToSet(disk'[q]) \subseteq stamped[q]
  BY <1>2, <1>4, <1>6, <1>8, <1>9
<1>11. TypeOK'
  <2>1. disk' \in [Projects -> Seq(Event)] /\ refused' \in [Projects -> SUBSET Event]
    BY <1>7, <1>10
  <2> QED BY <1>1, <2>1, TakeJob DEF IInv, TypeOK
<1>12. SeqInv' /\ RingInv' /\ DownInv'
  BY <1>1 DEF IInv, SeqInv, RingInv, DownInv
<1>13. QueueInv'
  BY <1>1, TakeJobKeepsQueueInv
<1>14. DiskInv'
  <2>1. \A d \in ToSet(disk[p]) : d.seq < e.seq
    BY <1>1, <1>2, <1>3, <1>4 DEF IInv, DiskInv, p
  <2>2. InSeqOrder(disk'[p])
    BY <1>2, <1>4, <1>6, <1>8, <2>1, AppendInOrder
  <2>3. ASSUME NEW q \in Projects, NEW d \in ToSet(disk'[q]),
               NEW j \in DOMAIN queue',
               queue'[j].op = "append", queue'[j].proj = q
        PROVE  d.seq < queue'[j].n
    <3>1. CASE d \in ToSet(disk[q])
      BY <1>3, <2>3, <3>1 DEF IInv, DiskInv
    <3>2. CASE d \notin ToSet(disk[q])
      <4>1. q = p /\ d = e
        <5>1. CASE q # p
          BY <1>6, <2>3, <3>2, <5>1
        <5>2. CASE q = p
          <6>1. disk'[p] = Append(disk[p], e) \/ disk'[p] = disk[p]
            BY <1>6
          <6>2. d \in ToSet(disk[p]) \cup {e}
            BY <1>9, <2>3, <5>2, <6>1
          <6> QED BY <3>2, <5>2, <6>2
        <5> QED BY <5>1, <5>2
      <4>2. /\ queue[1].op = "append" /\ queue[j + 1].op = "append"
            /\ queue[1].proj = queue[j + 1].proj
            /\ 1 \in DOMAIN queue /\ j + 1 \in DOMAIN queue /\ 1 < j + 1
        BY <1>1, <1>3, <2>3, <4>1 DEF p
      <4>3. queue[1].n < queue[j + 1].n
        BY <4>2 DEF IInv, QueueInv
      <4> QED BY <1>3, <1>4, <4>1, <4>3
    <3> QED BY <3>1, <3>2
  <2>4. \A q \in Projects : InSeqOrder(disk'[q])
    BY <1>6, <1>8, <2>2
  <2> QED BY <1>1, <1>10, <2>3, <2>4 DEF DiskInv
<1>15. Accounted'
  <2>1. ASSUME NEW q \in Projects, NEW x \in stamped'[q], IsPersistable(x),
               x \notin ToSet(disk'[q]) \cup refused'[q]
        PROVE  \E j \in DOMAIN queue' : /\ queue'[j].op = "append"
                                        /\ queue'[j].proj = q
                                        /\ queue'[j].n = x.seq
    <3>1. x \in stamped[q] /\ x \notin ToSet(disk[q]) \cup refused[q]
      BY <1>1, <1>10, <2>1
    <3>2. PICK j \in DOMAIN queue : /\ queue[j].op = "append"
                                    /\ queue[j].proj = q
                                    /\ queue[j].n = x.seq
      BY <2>1, <3>1 DEF IInv, Accounted
    <3>3. j # 1
      <4> SUFFICES ASSUME j = 1 PROVE FALSE
        OBVIOUS
      <4>1. q = p /\ x = e
        BY <1>3, <1>5, <3>1, <3>2 DEF p
      <4> QED BY <1>6, <1>9, <2>1, <4>1
    <3> QED BY <1>3, <3>2, <3>3
  <2> QED BY <2>1 DEF Accounted
<1>16. IdInv'
  BY <1>1, <1>10 DEF IInv, IdInv
<1> QED BY <1>11, <1>12, <1>13, <1>14, <1>15, <1>16 DEF IInv

-----------------------------------------------------------------------------
(* Crash and restart                                                       *)

\* A crash leaves the file, whose events were stamped in order.
LEMMA CrashKeepsIInv ==
    ASSUME IInv, Crash
    PROVE  IInv'
<1> USE DEF Crash, files
<1>1. \A q \in Projects : /\ disk[q] \in Seq(Event)
                          /\ ToSet(disk[q]) \subseteq stamped[q]
                          /\ stamped[q] \subseteq Event
                          /\ stamped'[q] = ToSet(disk[q])
                          /\ refused'[q] = {} /\ known'[q] = {}
                          /\ ring'[q] = <<>>
  BY DEF IInv, TypeOK, DiskInv
<1>2. TypeOK'
  <2>1. /\ stamped' \in [Projects -> SUBSET Event]
        /\ refused' \in [Projects -> SUBSET Event]
        /\ ring' \in [Projects -> Seq(Event)]
        /\ known' \in [Projects -> SUBSET Ids]
        /\ queue' \in Seq(Job)
    <3>1. \A q \in Projects : ToSet(disk[q]) \subseteq Event
      BY <1>1
    <3>2. <<>> \in Seq(Event) /\ <<>> \in Seq(Job)
      OBVIOUS
    <3>3. stamped' \in [Projects -> SUBSET Event]
      BY <3>1
    <3>4. ring' \in [Projects -> Seq(Event)] /\ queue' \in Seq(Job)
      BY <3>2
    <3> QED BY <3>3, <3>4
  <2>2. /\ up' \in BOOLEAN /\ restarts' \in Nat
        /\ seq' \in [Projects -> Nat] /\ lastRead' \in [Projects -> Nat]
    <3>1. restarts \in Nat
      BY DEF IInv, TypeOK
    <3>2. up' = FALSE /\ restarts' = restarts + 1
      OBVIOUS
    <3>3. seq' = [q \in Projects |-> 0] /\ lastRead' = [q \in Projects |-> 0]
      OBVIOUS
    <3> HIDE DEF Crash
    <3>4. seq' \in [Projects -> Nat] /\ lastRead' \in [Projects -> Nat]
      BY <3>3
    <3>5. restarts' \in Nat
      BY <3>1, <3>2
    <3>6. up' \in BOOLEAN
      BY <3>2, Zenon
    <3> QED BY <3>4, <3>5, <3>6
  <2>3. UNCHANGED <<capacity, disk, seqFile, readFile, published>>
    OBVIOUS
  <2> HIDE DEF Crash
  <2> QED BY <2>1, <2>2, <2>3 DEF IInv, TypeOK
<1>3. SeqInv' /\ IdInv'
  BY <1>1 DEF IInv, SeqInv, IdInv
<1>4. QueueInv' /\ Accounted' /\ DownInv'
  BY <1>1 DEF QueueInv, Accounted, DownInv
<1>5. DiskInv'
  BY <1>1 DEF IInv, DiskInv
<1>6. RingInv'
  BY <1>1 DEF RingInv, InSeqOrder, ToSet
<1> QED BY <1>2, <1>3, <1>4, <1>5, <1>6 DEF IInv

\* The last line of a file in seq order has its highest seq.
LEMMA LastSeqIsHighest ==
    ASSUME NEW s \in Seq(Event), InSeqOrder(s)
    PROVE  LastSeq(s) \in Nat /\ \A x \in ToSet(s) : x.seq <= LastSeq(s)
<1>1. DOMAIN s = 1 .. Len(s) /\ Len(s) \in Nat
  OBVIOUS
<1>2. \A j \in 1 .. Len(s) : s[j].seq \in Nat
  <2>1. \A j \in 1 .. Len(s) : s[j] \in Event
    OBVIOUS
  <2> QED BY <2>1 DEF Event
<1>3. CASE s = <<>>
  BY <1>3 DEF LastSeq, ToSet
<1>4. CASE s # <<>>
  <2>1. Len(s) \in 1 .. Len(s) /\ LastSeq(s) = s[Len(s)].seq
    BY <1>1, <1>4 DEF LastSeq
  <2>2. ASSUME NEW j \in 1 .. Len(s) PROVE s[j].seq <= LastSeq(s)
    <3>1. CASE j = Len(s)
      BY <1>2, <2>1, <3>1
    <3>2. CASE j < Len(s)
      <4>1. s[j].seq < s[Len(s)].seq
        BY <1>1, <2>1, <3>2 DEF InSeqOrder
      <4>2. s[j].seq \in Nat /\ s[Len(s)].seq \in Nat
        BY <1>2, <2>1
      <4>3. s[j].seq <= s[Len(s)].seq
        BY <4>1, <4>2
      <4> QED BY <2>1, <4>3
    <3>3. \A n \in Nat : \A k \in 1 .. n : k = n \/ k < n
      OBVIOUS
    <3> QED BY <1>1, <3>1, <3>2, <3>3, Zenon
  <2> QED BY <1>1, <1>2, <2>1, <2>2 DEF ToSet
<1> QED BY <1>3, <1>4

\* restore() puts seq at or above everything in the file.
LEMMA RestartKeepsIInv ==
    ASSUME IInv, Restart
    PROVE  IInv'
<1> USE DEF Restart
<1>1. /\ ~up /\ up' /\ queue = <<>> /\ queue' = queue /\ disk' = disk
      /\ ring' = disk /\ stamped' = stamped /\ refused' = refused /\ known' = known
      /\ published' = published /\ restarts' = restarts
  BY DEF IInv, DownInv
<1>2. \A q \in Projects : /\ disk[q] \in Seq(Event) /\ InSeqOrder(disk[q])
                          /\ stamped[q] = ToSet(disk[q])
                          /\ seqFile[q] \in Nat /\ readFile[q] \in Nat
  BY DEF IInv, TypeOK, DiskInv, DownInv
<1>3. ASSUME NEW q \in Projects
      PROVE  /\ LoadedMark(q) \in Nat /\ RestoredSeq(q) \in Nat
             /\ RestoredSeq(q) >= LastSeq(disk[q])
             /\ RestoredRead(q) \in Nat
  <2>1. LastSeq(disk[q]) \in Nat
    BY <1>2, LastSeqIsHighest
  <2>2. LoadedMark(q) \in Nat
    BY <1>2, <2>1 DEF LoadedMark
  <2>3. RestoredSeq(q) \in Nat /\ RestoredSeq(q) >= LastSeq(disk[q])
    BY <2>1, <2>2 DEF RestoredSeq
  <2>4. RestoredRead(q) \in Nat
    BY <1>2, <2>3 DEF RestoredRead
  <2> QED BY <2>2, <2>3, <2>4
<1>4. TypeOK'
  <2>1. /\ seq' \in [Projects -> Nat] /\ seqFile' \in [Projects -> Nat]
        /\ lastRead' \in [Projects -> Nat] /\ readFile' \in [Projects -> Nat]
    BY <1>3
  <2>2. capacity' \in [Projects -> Nat \ {0}]
    <3>1. \A q \in Projects : Len(disk[q]) \in Nat
      BY <1>2
    <3> QED BY <3>1, LogAssumption
  <2> QED BY <1>1, <2>1, <2>2 DEF IInv, TypeOK
<1>5. SeqInv'
  <2>1. ASSUME NEW q \in Projects, NEW x \in stamped'[q] PROVE x.seq <= seq'[q]
    <3>1. x \in ToSet(disk[q]) /\ seq'[q] = RestoredSeq(q)
      BY <1>1, <1>2, <2>1
    <3>2. x.seq <= LastSeq(disk[q]) /\ LastSeq(disk[q]) \in Nat
      BY <1>2, <3>1, LastSeqIsHighest
    <3>3. x.seq \in Nat
      BY <1>2, <3>1 DEF IInv, TypeOK, Event
    <3> QED BY <1>3, <3>1, <3>2, <3>3
  <2> QED BY <1>1, <2>1 DEF IInv, SeqInv
<1>6. QueueInv' /\ DownInv'
  BY <1>1 DEF QueueInv, DownInv
<1>7. DiskInv'
  BY <1>1 DEF IInv, DiskInv
<1>8. Accounted'
  BY <1>1, <1>2 DEF Accounted
<1>9. RingInv'
  BY <1>1, <1>2 DEF RingInv
<1>10. IdInv'
  BY <1>1, <1>2 DEF IInv, IdInv
<1> QED BY <1>4, <1>5, <1>6, <1>7, <1>8, <1>9, <1>10 DEF IInv

-----------------------------------------------------------------------------
(* The theorems                                                            *)

\* Every step keeps the invariant.
LEMMA NextIInv == IInv /\ [Next]_vars => IInv'
<1> SUFFICES ASSUME IInv, [Next]_vars PROVE IInv'
  OBVIOUS
<1>1. CASE Emit
  <2>1. PICK p \in Projects :
            \/ \E kind \in Kinds \ {"snapshot"} : EmitNew(p, kind, NoId)
            \/ \E i \in Ids : EmitNew(p, "structural", i) \/ EmitKnown(p, i)
    BY <1>1 DEF Emit
  <2>2. "structural" \in Kinds
    BY DEF Kinds
  <2> QED BY <2>1, <2>2, EmitNewKeepsIInv, EmitKnownKeepsIInv
<1>2. CASE TakeSnapshot
  BY <1>2, SnapshotKeepsIInv DEF TakeSnapshot
<1>3. CASE Read
  <2>0. PICK p \in Projects : \E n \in 1 .. published[p] : MarkRead(p, n)
    BY <1>3 DEF Read
  <2>1. PICK n \in 1 .. published[p] : MarkRead(p, n)
    BY <2>0
  <2>2. published[p] \in Nat
    BY DEF IInv, TypeOK
  <2>3. n \in Nat
    BY <2>2
  <2> QED BY <2>1, <2>3, MarkReadKeepsIInv
<1>4. CASE AppendEvent \/ AppendRefused
  BY <1>4, AppendKeepsIInv
<1>5. CASE SaveSeq \/ SaveRead
  BY <1>5, SaveKeepsIInv
<1>6. CASE Crash
  BY <1>6, CrashKeepsIInv
<1>7. CASE Restart
  BY <1>7, RestartKeepsIInv
<1>8. CASE UNCHANGED vars
  <2> USE <1>8 DEF vars, memory, files
  <2>1. TypeOK'
    BY DEF IInv, TypeOK
  <2>2. SeqInv' /\ QueueInv' /\ DiskInv' /\ Accounted'
    BY DEF IInv, SeqInv, QueueInv, DiskInv, Accounted
  <2>3. RingInv' /\ IdInv' /\ DownInv'
    BY DEF IInv, RingInv, IdInv, DownInv
  <2> QED BY <2>1, <2>2, <2>3 DEF IInv
<1> QED BY <1>1, <1>2, <1>3, <1>4, <1>5, <1>6, <1>7, <1>8 DEF Next

\* The invariant holds in every reachable state of hub.py, ring.py and
\* persist.py as modelled.
THEOREM InvariantHolds == Spec => []IInv
<1> QED BY InitIInv, NextIInv, PTL DEF Spec

\* The state of the hub and of the files keeps its types.
THEOREM TypeCorrect == Spec => []TypeOK
<1>1. IInv => TypeOK
  BY DEF IInv
<1> QED BY <1>1, InvariantHolds, PTL

\* A project's file is in seq order (persist.py defer, hub.py restore).
THEOREM DiskStaysInOrder == Spec => []DiskInSeqOrder
<1>1. IInv => DiskInSeqOrder
  BY DEF IInv, DiskInv, DiskInSeqOrder
<1> QED BY <1>1, InvariantHolds, PTL

\* The ring is a suffix of the log, for every capacity (ring.py append).
THEOREM RingStaysSuffix == Spec => []RingIsSuffix
<1>1. IInv => RingIsSuffix
  BY DEF IInv, RingInv, RingIsSuffix
<1> QED BY <1>1, InvariantHolds, PTL

\* Were an earlier event still waiting for the writer, so would the later one
\* be (persist.py defer).
LEMMA Durable ==
    ASSUME IInv, NEW p \in Projects,
           NEW d \in ToSet(disk[p]), NEW e \in stamped[p],
           IsPersistable(e), e.seq < d.seq
    PROVE  e \in ToSet(disk[p]) \cup refused[p]
<1> SUFFICES ASSUME e \notin ToSet(disk[p]) \cup refused[p] PROVE FALSE
  OBVIOUS
<1>1. PICK j \in DOMAIN queue : /\ queue[j].op = "append"
                                /\ queue[j].proj = p
                                /\ queue[j].n = e.seq
  BY DEF IInv, Accounted
<1>2. d.seq < e.seq
  BY <1>1 DEF IInv, DiskInv
<1>3. d \in stamped[p] /\ stamped[p] \subseteq Event
  BY DEF IInv, DiskInv, TypeOK
<1>4. d.seq \in Nat /\ e.seq \in Nat
  BY <1>3 DEF Event
<1> QED BY <1>2, <1>4

\* A crash loses a suffix of the chat record (persist.py defer).
THEOREM CrashLosesASuffix == Spec => []PrefixDurable
<1>1. IInv => PrefixDurable
  BY Durable DEF PrefixDurable
<1> QED BY <1>1, InvariantHolds, PTL

\* An event_id never names two events (hub.py _find_idempotent_event).
THEOREM EmitStaysIdempotent == Spec => []EmitIdempotent
<1>1. IInv => EmitIdempotent
  BY DEF IInv, IdInv, EmitIdempotent
<1> QED BY <1>1, InvariantHolds, PTL

\* A replay has no hole unless the event is stranded: a partial replay reads
\* a ring that starts at or below since + 1, a full one reads file and ring
\* (hub.py replay, ring.py replay_since).
THEOREM ReplayIsComplete == Spec => []ReplayCompleteUnlessStranded
<1>1. ASSUME IInv, up, NEW p \in Projects, NEW since \in 0 .. seq[p],
             FromDisk(p, since) => Stranded(p) = {},
             NEW e \in stamped[p], IsStructural(e), e.seq > since
      PROVE  e \in Replay(p, since)
  <2>1. CASE FromDisk(p, since)
    <3>1. e \in ToSet(ring[p]) \cup ToSet(disk[p])
      BY <1>1, <2>1 DEF Stranded
    <3> QED BY <1>1, <2>1, <3>1 DEF Replay, RingStructural
  <2>2. CASE ~FromDisk(p, since)
    <3>1. ring[p] = <<>> \/ ~(Head(ring[p]).seq > since + 1)
      BY <2>2 DEF FromDisk, RingGap
    <3>2. /\ ring[p] # <<>> => Head(ring[p]).seq \in Nat
          /\ e.seq \in Nat /\ since \in Nat
      <4>1. ring[p] \in Seq(Event) /\ e \in Event /\ seq[p] \in Nat
        BY <1>1 DEF IInv, TypeOK
      <4>2. ring[p] # <<>> => Head(ring[p]) \in Event
        BY <4>1
      <4> QED BY <4>1, <4>2 DEF Event
    <3>3. ring[p] = <<>> \/ e.seq >= Head(ring[p]).seq
      BY <1>1, <3>1, <3>2
    <3>4. e \in ToSet(ring[p])
      BY <1>1, <3>3 DEF IInv, RingInv
    <3> QED BY <1>1, <2>2, <3>4 DEF Replay, RingSince
  <2> QED BY <2>1, <2>2
<1>2. IInv => ReplayCompleteUnlessStranded
  BY <1>1 DEF ReplayCompleteUnlessStranded, ReplayHasNoHole
<1> QED BY <1>2, InvariantHolds, PTL
-----------------------------------------------------------------------------
(* The log implements the journal                                          *)

\* An event the disk refused is not in the file, nor will a queued job write
\* it there.
RefusedInv ==
    \A p \in Projects :
        /\ refused[p] \subseteq stamped[p]
        /\ refused[p] \cap ToSet(disk[p]) = {}
        /\ \A r \in refused[p], j \in DOMAIN queue :
              queue[j].op = "append" /\ queue[j].proj = p => r.seq < queue[j].n

\* A process that is down has handed out nothing.
DownSeq == ~up => \A p \in Projects : seq[p] = 0

JournalInv == IInv /\ RefusedInv /\ DownSeq

\* What JournalInv says of the numbers in the log.
LEMMA LogTypes ==
    ASSUME TypeOK
    PROVE  \A p \in Projects :
              /\ seq[p] \in Nat /\ stamped[p] \subseteq Event
              /\ disk[p] \in Seq(Event) /\ refused[p] \subseteq Event
              /\ \A e \in stamped[p] : e.seq \in Nat
<1>1. \A p \in Projects : /\ seq[p] \in Nat /\ stamped[p] \subseteq Event
                          /\ disk[p] \in Seq(Event) /\ refused[p] \subseteq Event
  BY DEF TypeOK
<1>2. \A e \in Event : e.seq \in Nat
  BY DEF Event
<1> QED BY <1>1, <1>2

\* A stamp is above every event the disk refused.
LEMMA StampKeepsRefusedInv ==
    ASSUME JournalInv, up, NEW p \in Projects, NEW e \in Event,
           e.seq = seq[p] + 1, Stamp(p, e), UNCHANGED <<up, disk, refused>>
    PROVE  RefusedInv'
<1>1. [op |-> "append", proj |-> p, n |-> e.seq] \in Job
  BY DEF Job, Event
<1>2. [op |-> "seq", proj |-> p, n |-> e.seq] \in Job
  BY DEF Job, Event
<1>3. queue \in Seq(Job) /\ queue' = queue \o << [op |-> "append", proj |-> p, n |-> e.seq],
                                            [op |-> "seq", proj |-> p, n |-> e.seq] >>
  BY DEF JournalInv, IInv, TypeOK, Stamp
<1>4. /\ DOMAIN queue' = 1 .. Len(queue) + 2
      /\ DOMAIN queue = 1 .. Len(queue) /\ Len(queue) \in Nat
      /\ \A j \in 1 .. Len(queue) : queue'[j] = queue[j]
      /\ queue'[Len(queue) + 1] = [op |-> "append", proj |-> p, n |-> e.seq]
      /\ queue'[Len(queue) + 2] = [op |-> "seq", proj |-> p, n |-> e.seq]
  BY <1>1, <1>2, <1>3, TwoJobs
<1>5. \A q \in Projects : stamped[q] \subseteq stamped'[q]
  BY DEF Stamp, JournalInv, IInv, TypeOK
<1>6. ASSUME NEW q \in Projects, NEW r \in refused[q], NEW j \in DOMAIN queue',
             queue'[j].op = "append", queue'[j].proj = q
      PROVE  r.seq < queue'[j].n
  <2>1. CASE j \in 1 .. Len(queue)
    BY <1>4, <1>6, <2>1 DEF JournalInv, RefusedInv
  <2>2. CASE j = Len(queue) + 1
    <3>1. q = p /\ queue'[j].n = e.seq
      BY <1>4, <1>6, <2>2
    <3>2. r \in stamped[p] /\ r.seq <= seq[p] /\ r.seq \in Nat /\ seq[p] \in Nat
      BY <1>6, <3>1, LogTypes DEF JournalInv, RefusedInv, IInv, SeqInv
    <3> QED BY <3>1, <3>2
  <2>3. CASE j = Len(queue) + 2
    BY <1>4, <1>6, <2>3
  <2> QED BY <1>4, <2>1, <2>2, <2>3
<1> QED BY <1>5, <1>6 DEF JournalInv, RefusedInv

\* What an append_event job works on: the event of the first job, which is
\* neither in the file nor refused.
LEMMA AppendJob ==
    ASSUME JournalInv, AppendEvent \/ AppendRefused,
           NEW p, p = Head(queue).proj, NEW e, e = EventWith(p, Head(queue).n)
    PROVE  /\ p \in Projects /\ e \in stamped[p]
           /\ \A d \in ToSet(disk[p]) \cup refused[p] : d.seq < e.seq
           /\ e \notin ToSet(disk[p]) \cup refused[p]
           /\ \A j \in DOMAIN queue' :
                 /\ j + 1 \in DOMAIN queue /\ queue'[j] = queue[j + 1]
                 /\ queue'[j].op = "append" /\ queue'[j].proj = p
                       => e.seq < queue'[j].n
           /\ UNCHANGED <<up, seq, stamped>>
<1>1. /\ queue # <<>> /\ queue' = Tail(queue) /\ Head(queue).op = "append"
      /\ UNCHANGED <<up, seq, stamped>>
  BY DEF AppendEvent, AppendRefused, Writing, memory
<1>2. /\ p \in Projects /\ Head(queue) = queue[1] /\ 1 \in DOMAIN queue
      /\ \A j \in DOMAIN queue' : /\ j + 1 \in DOMAIN queue /\ 1 < j + 1
                                  /\ queue'[j] = queue[j + 1]
  BY <1>1, TakeJob DEF JournalInv, Job
<1>3. e \in stamped[p] /\ e.seq = Head(queue).n
  <2>1. \E x \in stamped[p] : x.seq = Head(queue).n
    BY <1>1, <1>2 DEF JournalInv, IInv, QueueInv
  <2> QED BY <2>1 DEF EventWith
<1>4. \A d \in ToSet(disk[p]) \cup refused[p] : d.seq < e.seq
  BY <1>1, <1>2, <1>3 DEF JournalInv, IInv, DiskInv, RefusedInv
<1>5. e \notin ToSet(disk[p]) \cup refused[p]
  <2>1. e.seq \in Nat
    BY <1>2, <1>3, LogTypes DEF JournalInv, IInv
  <2> QED BY <1>4, <2>1
<1>6. ASSUME NEW j \in DOMAIN queue', queue'[j].op = "append", queue'[j].proj = p
      PROVE  e.seq < queue'[j].n
  BY <1>1, <1>2, <1>3, <1>6 DEF JournalInv, IInv, QueueInv
<1> QED BY <1>1, <1>2, <1>3, <1>4, <1>5, <1>6

\* A step that leaves the file and the refused events alone, and queues no
\* append that was not queued before.
LEMMA CalmKeepsRefusedInv ==
    ASSUME RefusedInv, UNCHANGED <<disk, refused, stamped>>,
           \A j \in DOMAIN queue' : queue'[j].op = "append" =>
              \E k \in DOMAIN queue : queue[k] = queue'[j]
    PROVE  RefusedInv'
<1>1. ASSUME NEW p \in Projects, NEW r \in refused[p], NEW j \in DOMAIN queue',
             queue'[j].op = "append", queue'[j].proj = p
      PROVE  r.seq < queue'[j].n
  <2>1. PICK k \in DOMAIN queue : queue[k] = queue'[j]
    BY <1>1
  <2>2. queue[k].op = "append" /\ queue[k].proj = p
    BY <1>1, <2>1
  <2> QED BY <2>1, <2>2 DEF RefusedInv
<1> QED BY <1>1 DEF RefusedInv

\* What the journal sees of an event log.
Entries(p) == {e \in stamped[p] \ refused[p] : IsPersistable(e)}
Record == [p \in Projects |-> SeqsOf(Entries(p))]

\* emit() of a new event is an entry of the journal or passes it by.
LEMMA EmitNewImplements ==
    ASSUME JournalInv, NEW p \in Projects, NEW kind \in Kinds,
           NEW i \in Ids \cup {NoId}, EmitNew(p, kind, i)
    PROVE  RefusedInv' /\ DownSeq' /\ (J!Enter(p) \/ J!Pass(p))
<1> DEFINE e == [seq |-> seq[p] + 1, kind |-> kind, id |-> i,
                 conv |-> {}, more |-> FALSE]
<1>1. seq[p] \in Nat /\ e \in Event /\ e.seq = seq[p] + 1 /\ e.kind = kind
  <2>1. seq[p] \in Nat
    BY DEF JournalInv, IInv, TypeOK
  <2> QED BY <2>1 DEF Event
<1>2. /\ up /\ Stamp(p, e) /\ UNCHANGED <<up, disk, refused>>
      /\ stamped' = [stamped EXCEPT ![p] = @ \cup {e}]
      /\ seq' = [seq EXCEPT ![p] = e.seq]
  BY DEF EmitNew, Stamp, files
<1> HIDE DEF e
<1>3. RefusedInv' /\ DownSeq'
  BY <1>1, <1>2, StampKeepsRefusedInv DEF DownSeq
<1>4. /\ seq' = [seq EXCEPT ![p] = @ + 1]
      /\ stamped'[p] = stamped[p] \cup {e}
      /\ \A q \in Projects \ {p} : stamped'[q] = stamped[q]
  BY <1>1, <1>2 DEF JournalInv, IInv, TypeOK
<1>5. e \notin refused[p]
  BY <1>1, <1>2, LogTypes DEF JournalInv, RefusedInv, IInv, SeqInv
<1>6. \A q \in Projects \ {p} : Entries(q)' = Entries(q)
  BY <1>2, <1>4 DEF Entries
<1>7. CASE IsPersistable(e)
  <2>1. Entries(p)' = Entries(p) \cup {e}
    BY <1>2, <1>4, <1>5, <1>7 DEF Entries
  <2>2. SeqsOf(Entries(p)') = SeqsOf(Entries(p)) \cup {seq[p] + 1}
    BY <1>1, <2>1 DEF SeqsOf
  <2>3. Record' = [Record EXCEPT ![p] = @ \cup {seq[p] + 1}]
    BY <1>6, <2>2 DEF Record, SeqsOf
  <2> QED BY <1>3, <1>4, <2>3 DEF J!Enter, Record, Entries
<1>8. CASE ~IsPersistable(e)
  <2>1. Entries(p)' = Entries(p)
    BY <1>2, <1>4, <1>8 DEF Entries
  <2>2. Record' = Record
    BY <1>6, <2>1 DEF Record, SeqsOf
  <2> QED BY <1>3, <1>4, <2>2 DEF J!Pass, Record, Entries
<1> QED BY <1>7, <1>8

\* snapshot() passes the journal by.
LEMMA SnapshotImplements ==
    ASSUME JournalInv, NEW p \in Projects, NEW limit \in Limits, Snapshot(p, limit)
    PROVE  RefusedInv' /\ DownSeq' /\ J!Pass(p)
<1> DEFINE all == SeqsOf(Conversation(p))
           e == [seq |-> seq[p] + 1, kind |-> "snapshot", id |-> NoId,
                 conv |-> Newest(all, limit), more |-> Newest(all, limit) # all]
<1>1. seq[p] \in Nat /\ e.seq = seq[p] + 1 /\ e.kind = "snapshot"
  BY DEF JournalInv, IInv, TypeOK
<1>2. /\ up /\ Stamp(p, e) /\ UNCHANGED <<up, disk, refused>>
      /\ stamped' = [stamped EXCEPT ![p] = @ \cup {e}]
      /\ seq' = [seq EXCEPT ![p] = e.seq]
  BY DEF Snapshot, Stamp, files
<1>3. e \in Event
  <2>1. IInv' /\ e \in stamped'[p]
    BY <1>2, SnapshotKeepsIInv DEF JournalInv, IInv, TypeOK
  <2> QED BY <2>1 DEF IInv, TypeOK
<1> HIDE DEF e
<1>4. RefusedInv' /\ DownSeq'
  BY <1>1, <1>2, <1>3, StampKeepsRefusedInv DEF DownSeq
<1>5. /\ seq' = [seq EXCEPT ![p] = @ + 1]
      /\ stamped'[p] = stamped[p] \cup {e}
      /\ \A q \in Projects \ {p} : stamped'[q] = stamped[q]
  BY <1>1, <1>2 DEF JournalInv, IInv, TypeOK
<1>6. ~IsPersistable(e)
  BY <1>1 DEF IsPersistable
<1>7. \A q \in Projects : Entries(q)' = Entries(q)
  BY <1>2, <1>5, <1>6 DEF Entries
<1>8. Record' = Record
  BY <1>7 DEF Record, SeqsOf
<1> QED BY <1>4, <1>5, <1>8 DEF J!Pass, Record, Entries

\* A write to the file changes nothing the journal sees.
LEMMA AppendEventImplements ==
    ASSUME JournalInv, AppendEvent
    PROVE  RefusedInv' /\ DownSeq' /\ UNCHANGED <<Record, seq>>
<1>1. PICK p, e : p = Head(queue).proj /\ e = EventWith(p, Head(queue).n)
  OBVIOUS
<1>2. /\ disk' = [disk EXCEPT ![p] = IF IsPersistable(e) THEN Append(@, e) ELSE @]
      /\ UNCHANGED refused
  BY <1>1 DEF AppendEvent
<1>3. /\ p \in Projects /\ e \in stamped[p] /\ e \in Event
      /\ \A d \in ToSet(disk[p]) \cup refused[p] : d.seq < e.seq
      /\ e \notin ToSet(disk[p]) \cup refused[p]
      /\ \A j \in DOMAIN queue' : /\ j + 1 \in DOMAIN queue
                                  /\ queue'[j] = queue[j + 1]
      /\ UNCHANGED <<up, seq, stamped>>
  BY <1>1, AppendJob, LogTypes DEF JournalInv, IInv
<1>4. /\ ToSet(disk'[p]) \subseteq ToSet(disk[p]) \cup {e}
      /\ \A q \in Projects \ {p} : disk'[q] = disk[q]
  <2>1. disk[p] \in Seq(Event) /\ disk \in [Projects -> Seq(Event)]
    BY <1>3 DEF JournalInv, IInv, TypeOK
  <2>2. ToSet(Append(disk[p], e)) = ToSet(disk[p]) \cup {e}
    BY <1>3, <2>1, AppendProps
  <2>3. disk'[p] = Append(disk[p], e) \/ disk'[p] = disk[p]
    BY <1>2, <1>3, <2>1
  <2> QED BY <1>2, <1>3, <2>1, <2>2, <2>3
<1>5. \A q \in Projects : refused[q] \cap ToSet(disk'[q]) = {}
  BY <1>3, <1>4 DEF JournalInv, RefusedInv
<1>6. RefusedInv'
  BY <1>2, <1>3, <1>5 DEF JournalInv, RefusedInv
<1>7. DownSeq'
  BY <1>3 DEF JournalInv, DownSeq
<1>8. Record' = Record
  BY <1>2, <1>3 DEF Record, Entries
<1> QED BY <1>3, <1>6, <1>7, <1>8

\* The disk refuses a line: the journal forfeits that entry.
LEMMA AppendRefusedImplements ==
    ASSUME JournalInv, AppendRefused
    PROVE  RefusedInv' /\ DownSeq' /\ \E p \in Projects : J!Forfeit(p)
<1>1. PICK p, e : p = Head(queue).proj /\ e = EventWith(p, Head(queue).n)
  OBVIOUS
<1>2. /\ IsPersistable(e) /\ refused' = [refused EXCEPT ![p] = @ \cup {e}]
      /\ UNCHANGED disk
  BY <1>1 DEF AppendRefused, files
<1>3. /\ p \in Projects /\ e \in stamped[p] /\ e \in Event
      /\ e \notin ToSet(disk[p]) \cup refused[p]
      /\ \A j \in DOMAIN queue' :
            /\ j + 1 \in DOMAIN queue /\ queue'[j] = queue[j + 1]
            /\ queue'[j].op = "append" /\ queue'[j].proj = p => e.seq < queue'[j].n
      /\ UNCHANGED <<up, seq, stamped>>
  BY <1>1, AppendJob, LogTypes DEF JournalInv, IInv
<1>4. /\ refused'[p] = refused[p] \cup {e}
      /\ \A q \in Projects \ {p} : refused'[q] = refused[q]
  BY <1>2, <1>3 DEF JournalInv, IInv, TypeOK
<1>5. RefusedInv'
  <2>1. ASSUME NEW q \in Projects, NEW r \in refused'[q], NEW j \in DOMAIN queue',
               queue'[j].op = "append", queue'[j].proj = q
        PROVE  r.seq < queue'[j].n
    <3>1. CASE r \in refused[q]
      BY <1>3, <2>1, <3>1 DEF JournalInv, RefusedInv
    <3>2. CASE r \notin refused[q]
      <4>1. q = p /\ r = e
        BY <1>4, <2>1, <3>2
      <4> QED BY <1>3, <2>1, <4>1
    <3> QED BY <3>1, <3>2
  <2>2. \A q \in Projects : /\ refused'[q] \subseteq stamped[q]
                            /\ refused'[q] \cap ToSet(disk[q]) = {}
    BY <1>3, <1>4 DEF JournalInv, RefusedInv
  <2> QED BY <1>2, <1>3, <2>1, <2>2 DEF RefusedInv
<1>6. DownSeq'
  BY <1>3 DEF JournalInv, DownSeq
<1>7. Entries(p)' = Entries(p) \ {e} /\ e \in Entries(p)
  BY <1>2, <1>3, <1>4 DEF Entries
<1>8. \A q \in Projects \ {p} : Entries(q)' = Entries(q)
  BY <1>3, <1>4 DEF Entries
<1>9. SeqsOf(Entries(p)') = SeqsOf(Entries(p)) \ {e.seq} /\ e.seq \in SeqsOf(Entries(p))
  <2>1. \A x \in Entries(p) : x.seq = e.seq => x = e
    BY <1>3 DEF JournalInv, IInv, SeqInv, Entries
  <2> QED BY <1>7, <2>1 DEF SeqsOf
<1>10. Record' = [Record EXCEPT ![p] = @ \ {e.seq}] /\ e.seq \in Record[p]
  <2>1. Record' = [q \in Projects |-> SeqsOf(Entries(q)')]
    BY DEF Record, SeqsOf
  <2>2. Record = [q \in Projects |-> SeqsOf(Entries(q))]
    BY DEF Record
  <2> QED BY <1>3, <1>8, <1>9, <2>1, <2>2
<1>11. J!Forfeit(p)
  BY <1>3, <1>10 DEF J!Forfeit, Record, Entries
<1> QED BY <1>3, <1>5, <1>6, <1>11

\* A crash of the process is the death of the journal: of each record the
\* file holds a prefix.
LEMMA CrashImplements ==
    ASSUME JournalInv, Crash
    PROVE  RefusedInv' /\ DownSeq' /\ J!Die
<1>1. /\ queue' = <<>> /\ UNCHANGED disk
      /\ \A p \in Projects : /\ stamped'[p] = ToSet(disk[p])
                             /\ refused'[p] = {} /\ seq'[p] = 0
      /\ seq' = [p \in Projects |-> 0]
  BY DEF Crash, files
<1>2. RefusedInv' /\ DownSeq'
  BY <1>1 DEF RefusedInv, DownSeq
<1>3. ASSUME NEW p \in Projects
      PROVE  /\ Entries(p)' = {d \in ToSet(disk[p]) : IsPersistable(d)}
             /\ Entries(p)' \subseteq Entries(p)
             /\ \A e \in Entries(p) : e.seq \in Nat
             /\ \A d \in Entries(p)', e \in Entries(p) :
                   e.seq < d.seq => e \in Entries(p)'
  <2>1. Entries(p)' = {d \in ToSet(disk[p]) : IsPersistable(d)}
    BY <1>1 DEF Entries
  <2>2. Entries(p)' \subseteq Entries(p)
    BY <2>1 DEF JournalInv, IInv, DiskInv, RefusedInv, Entries
  <2>3. ASSUME NEW d \in Entries(p)', NEW e \in Entries(p), e.seq < d.seq
        PROVE  e \in Entries(p)'
    <3>1. e \in ToSet(disk[p])
      BY <2>1, <2>3, Durable DEF Entries, JournalInv
    <3> QED BY <2>1, <3>1 DEF Entries
  <2>4. \A e \in Entries(p) : e.seq \in Nat
    BY LogTypes DEF JournalInv, IInv, Entries
  <2> QED BY <2>1, <2>2, <2>3, <2>4
<1>4. ASSUME NEW p \in Projects
      PROVE  /\ SeqsOf(Entries(p)') \subseteq SeqsOf(Entries(p))
             /\ SeqsOf(Entries(p)') \subseteq Nat
             /\ \A n \in SeqsOf(Entries(p)'), m \in SeqsOf(Entries(p)) :
                   m < n => m \in SeqsOf(Entries(p)')
  BY <1>3 DEF SeqsOf
<1>5. Record' = [p \in Projects |-> SeqsOf(Entries(p)')]
  BY DEF Record, SeqsOf
<1>6. /\ Record' \in [Projects -> SUBSET Nat]
      /\ \A p \in Projects : J!IsPrefix(Record'[p], Record[p])
  BY <1>4, <1>5 DEF Record, J!IsPrefix
<1> QED BY <1>1, <1>2, <1>6 DEF J!Die, Record, Entries

\* restore() stamps above everything that survived.
LEMMA RestartImplements ==
    ASSUME JournalInv, Restart
    PROVE  RefusedInv' /\ DownSeq' /\ J!Resume
<1>1. /\ ~up /\ up' /\ UNCHANGED <<queue, disk, stamped, refused>>
      /\ \A p \in Projects : seq[p] = 0
  BY DEF Restart, JournalInv, DownSeq
<1>2. RefusedInv' /\ DownSeq'
  BY <1>1 DEF JournalInv, RefusedInv, DownSeq
<1>3. Record' = Record
  BY <1>1 DEF Record, Entries
<1>4. IInv'
  BY RestartKeepsIInv DEF JournalInv
<1>5. seq' \in [Projects -> Nat]
  BY <1>4 DEF IInv, TypeOK
<1>6. \A p \in Projects : \A n \in Record[p] : n <= seq'[p]
  BY <1>1, <1>4 DEF IInv, SeqInv, Record, SeqsOf, Entries
<1> QED BY <1>1, <1>2, <1>3, <1>5, <1>6 DEF J!Resume, Record, Entries

\* Every step is a step of the journal or leaves it alone.
LEMMA StepImplementsJournal ==
    ASSUME JournalInv, [Next]_vars
    PROVE  JournalInv' /\ [J!JNext]_<<Record, seq>>
<1>0. IInv'
  BY NextIInv DEF JournalInv
<1> SUFFICES RefusedInv' /\ DownSeq' /\ [J!JNext]_<<Record, seq>>
  BY <1>0 DEF JournalInv
<1>1. CASE Emit
  <2>1. PICK p \in Projects :
            \/ \E kind \in Kinds \ {"snapshot"} : EmitNew(p, kind, NoId)
            \/ \E i \in Ids : EmitNew(p, "structural", i) \/ EmitKnown(p, i)
    BY <1>1 DEF Emit
  <2>2. ASSUME NEW i \in Ids, EmitKnown(p, i)
        PROVE  RefusedInv' /\ DownSeq' /\ UNCHANGED <<Record, seq>>
    BY <2>2, CalmKeepsRefusedInv
       DEF EmitKnown, files, JournalInv, DownSeq, Record, Entries
  <2>3. "structural" \in Kinds
    BY DEF Kinds
  <2> QED BY <2>1, <2>2, <2>3, EmitNewImplements DEF J!JNext
<1>2. CASE TakeSnapshot
  BY <1>2, SnapshotImplements DEF TakeSnapshot, J!JNext
<1>3. CASE Read
  <2>1. PICK p \in Projects : \E n \in 1 .. published[p] : MarkRead(p, n)
    BY <1>3 DEF Read
  <2>2. PICK n \in 1 .. published[p] : MarkRead(p, n)
    BY <2>1
  <2>3. /\ UNCHANGED <<up, seq, disk, stamped, refused>>
        /\ queue' = Append(queue, [op |-> "read", proj |-> p, n |-> lastRead'[p]])
    BY <2>2 DEF MarkRead, files
  <2>4. \A j \in DOMAIN queue' : queue'[j].op = "append" =>
           \E k \in DOMAIN queue : queue[k] = queue'[j]
    <3>1. queue \in Seq(Job)
      BY DEF JournalInv, IInv, TypeOK
    <3>2. [op |-> "read", proj |-> p, n |-> lastRead'[p]] \in Job
      <4>1. lastRead'[p] \in Nat
        BY <1>0 DEF IInv, TypeOK
      <4> QED BY <4>1 DEF Job
    <3>3. DOMAIN queue = 1 .. Len(queue) /\ Len(queue) \in Nat
      BY <3>1
    <3> QED BY <2>3, <3>1, <3>2, <3>3, AppendProps
  <2>5. RefusedInv' /\ DownSeq'
    BY <2>3, <2>4, CalmKeepsRefusedInv DEF JournalInv, DownSeq
  <2> QED BY <2>3, <2>5 DEF Record, Entries
<1>4. CASE AppendEvent
  BY <1>4, AppendEventImplements
<1>5. CASE AppendRefused
  BY <1>5, AppendRefusedImplements DEF J!JNext
<1>6. CASE SaveSeq \/ SaveRead
  <2>1. /\ UNCHANGED <<up, seq, disk, stamped, refused>>
        /\ queue # <<>> /\ queue' = Tail(queue)
    BY <1>6 DEF SaveSeq, SaveRead, Writing, memory
  <2>2. \A j \in DOMAIN queue' : \E k \in DOMAIN queue : queue[k] = queue'[j]
    <3>1. \A j \in DOMAIN queue' : j + 1 \in DOMAIN queue /\ queue'[j] = queue[j + 1]
      BY <2>1, TakeJob DEF JournalInv
    <3> QED BY <3>1
  <2>3. RefusedInv' /\ DownSeq'
    BY <2>1, <2>2, CalmKeepsRefusedInv DEF JournalInv, DownSeq
  <2> QED BY <2>1, <2>3 DEF Record, Entries
<1>7. CASE Crash
  BY <1>7, CrashImplements DEF J!JNext
<1>8. CASE Restart
  BY <1>8, RestartImplements DEF J!JNext
<1>9. CASE UNCHANGED vars
  BY <1>9, CalmKeepsRefusedInv
     DEF vars, memory, files, JournalInv, DownSeq, Record, Entries
<1> QED BY <1>1, <1>2, <1>3, <1>4, <1>5, <1>6, <1>7, <1>8, <1>9 DEF Next

\* The log of hub.py and persist.py implements the journal: whatever ring,
\* queue and files do, the chat record grows by stamped entries, loses only
\* what the disk refuses, and of it a crash keeps a prefix.
THEOREM LogImplementsJournal == Spec => ImplementsJournal
<1>1. Init => JournalInv /\ J!JInit
  <2> SUFFICES ASSUME Init PROVE JournalInv /\ J!JInit
    OBVIOUS
  <2>1. RefusedInv /\ DownSeq
    BY DEF Init, RefusedInv, DownSeq
  <2>2. J!JInit
    BY DEF Init, J!JInit, SeqsOf
  <2> QED BY <2>1, <2>2, InitIInv DEF JournalInv
<1>2. JournalInv /\ [Next]_vars => JournalInv'
  BY StepImplementsJournal
<1>3. JournalInv /\ [Next]_vars
      => [J!JNext]_<<[p \in Projects |->
              SeqsOf({e \in stamped[p] \ refused[p] : IsPersistable(e)})], seq>>
  BY StepImplementsJournal DEF Record, Entries
<1> QED BY <1>1, <1>2, <1>3, PTL DEF Spec, ImplementsJournal, J!JSpec, J!jvars
=============================================================================
