------------------------------ MODULE EventLog ------------------------------
(***************************************************************************)
(* The event log of one backend process: backend/hub.py stamps every event *)
(* of a project with the next seq, keeps the newest ones in a ring         *)
(* (backend/ring.py) and hands the rest of the work to the single writer   *)
(* thread of backend/persist.py, which appends the persistable ones to the *)
(* project's file and keeps two small files, the seq high-water mark and   *)
(* the read mark.  A crash loses the memory and every job still queued; a  *)
(* restart rebuilds the projects from the files.                           *)
(*                                                                         *)
(* One action is one block of code that runs without an await (the event   *)
(* loop) or one job of the writer thread.  The broadcast that ends emit()  *)
(* and snapshot() touches nothing that is modelled here: see Delivery.     *)
(***************************************************************************)
EXTENDS Integers, FiniteSets, SequencesExt

CONSTANTS
    Projects,       \* the projects of the process
    Ids,            \* the event_ids callers use to make an emit idempotent
    NoId,           \* an event without event_id
    RingCapacity,   \* CONFIG.ring_capacity
    RestoreSlack,   \* room restore() leaves above the loaded history (256)
    Limits,         \* the limits a client asks snapshots with; 0 is no limit
    MaxSeq,         \* bound: events stamped per project
    MaxRestarts,    \* bound: crashes
    MaxFailures,    \* bound: appends the disk refuses
    MaxReads        \* bound: read marks waiting for the writer

ASSUME LogAssumption ==
    /\ NoId \notin Ids
    /\ RingCapacity \in Nat \ {0}
    /\ RestoreSlack \in Nat \ {0}
    /\ Limits \subseteq Nat
    /\ MaxSeq \in Nat /\ MaxRestarts \in Nat
    /\ MaxFailures \in Nat /\ MaxReads \in Nat

VARIABLES
    up,         \* the process runs
    seq,        \* Project.seq: the last seq stamped
    ring,       \* Project.ring: the newest events, oldest first
    capacity,   \* the ring's capacity, chosen by restore()
    known,      \* Hub._idempotent_events: the event_ids in the cache
    lastRead,   \* Project.last_read_seq
    queue,      \* Store._writer: jobs submitted and not yet done, FIFO
    disk,       \* the lines of the project's event file, in file order
    seqFile,    \* the .seq file (0: there is none)
    readFile,   \* the .read file (0: there is none)
    stamped,    \* history: the events of this process, loaded or stamped
    refused,    \* history: the stamped events whose append failed
    published,  \* history: the highest seq any process ever broadcast
    restarts    \* crashes so far

memory == <<seq, ring, capacity, known, lastRead>>
files  == <<disk, seqFile, readFile>>
vars == <<up, memory, queue, files, stamped, refused, published, restarts>>

-----------------------------------------------------------------------------
(* Events and jobs                                                         *)

Kinds == {"structural", "status", "transient", "snapshot"}

Event == [seq  : Nat \ {0},             \* the stamp
          kind : Kinds,
          id   : Ids \cup {NoId},
          conv : SUBSET Nat,            \* a snapshot's conversation
          more : BOOLEAN]               \* a snapshot's has_more

\* STRUCTURAL_EVENT_TYPES: what the timeline shows.
IsStructural(e) == e.kind = "structural"

\* PERSISTABLE_EVENT_TYPES: what append_event lets through to the file.
IsPersistable(e) == e.kind \in {"structural", "status"}

\* A job of the writer.  The closures of emit() and snapshot() hold the
\* event itself; a job names it by its seq, which only it has.
Job == [op : {"append", "seq", "read"}, proj : Projects, n : Nat]

SeqsOf(S) == {e.seq : e \in S}
EventWith(p, n) == CHOOSE e \in stamped[p] : e.seq = n

-----------------------------------------------------------------------------
(* The ring                                                                *)

\* RingBuffer.append: a full deque drops its oldest event.
RingAppend(buf, cap, e) ==
    IF Len(buf) < cap THEN Append(buf, e) ELSE Append(Tail(buf), e)

\* Fault: the hole just before the oldest event goes unnoticed.
RingGapOffByOne(buf, since) == buf # <<>> /\ Head(buf).seq > since + 2

\* RingBuffer.replay_since: the first event wanted is since + 1.
RingGap(buf, since) == buf # <<>> /\ Head(buf).seq > since + 1

RingSince(buf, since) == {e \in ToSet(buf) : e.seq > since}

\* RingBuffer.structural
RingStructural(buf) == {e \in ToSet(buf) : IsStructural(e)}

-----------------------------------------------------------------------------
(* Reading the log                                                         *)

\* Hub.replay, for a client that has everything up to since, takes the ring
\* alone when the ring goes back far enough.
FromDisk(p, since) == since = 0 \/ RingGap(ring[p], since)

Replay(p, since) ==
    IF FromDisk(p, since)
    THEN {e \in ToSet(disk[p]) \cup RingStructural(ring[p]) : e.seq > since}
    ELSE RingSince(ring[p], since)

\* Hub.durable_conversation, the body of a snapshot.
Conversation(p) ==
    {e \in ToSet(disk[p]) : IsStructural(e)} \cup RingStructural(ring[p])

\* conversation[-limit:]
Newest(S, limit) ==
    IF limit = 0 THEN S
    ELSE {n \in S : Cardinality({m \in S : m > n}) < limit}

\* Fault: no cache, only the ring and the file.
IsKnownUncached(p, i) ==
    \E e \in ToSet(ring[p]) \cup ToSet(disk[p]) : e.id = i

\* Hub._find_idempotent_event: the cache, then the ring, then the file.
IsKnown(p, i) ==
    \/ i \in known[p]
    \/ \E e \in ToSet(ring[p]) \cup ToSet(disk[p]) : e.id = i

-----------------------------------------------------------------------------
Init ==
    /\ up = TRUE
    /\ seq = [p \in Projects |-> 0]
    /\ ring = [p \in Projects |-> <<>>]
    /\ capacity = [p \in Projects |-> RingCapacity]
    /\ known = [p \in Projects |-> {}]
    /\ lastRead = [p \in Projects |-> 0]
    /\ queue = <<>>
    /\ disk = [p \in Projects |-> <<>>]
    /\ seqFile = [p \in Projects |-> 0]
    /\ readFile = [p \in Projects |-> 0]
    /\ stamped = [p \in Projects |-> {}]
    /\ refused = [p \in Projects |-> {}]
    /\ published = [p \in Projects |-> 0]
    /\ restarts = 0

\* What emit() and snapshot() do to the log while they hold _seq_lock.
Stamp(p, e) ==
    /\ seq' = [seq EXCEPT ![p] = e.seq]
    /\ ring' = [ring EXCEPT ![p] = RingAppend(@, capacity[p], e)]
    /\ queue' = queue \o << [op |-> "append", proj |-> p, n |-> e.seq],
                            [op |-> "seq",    proj |-> p, n |-> e.seq] >>
    /\ stamped' = [stamped EXCEPT ![p] = @ \cup {e}]
    /\ published' = [published EXCEPT
                        ![p] = IF e.seq > @ THEN e.seq ELSE @]

\* emit() of an event that is new.
EmitNew(p, kind, i) ==
    /\ up /\ seq[p] < MaxSeq
    /\ i = NoId \/ ~IsKnown(p, i)
    /\ Stamp(p, [seq |-> seq[p] + 1, kind |-> kind, id |-> i,
                 conv |-> {}, more |-> FALSE])
    /\ known' = [known EXCEPT ![p] = IF i = NoId THEN @ ELSE @ \cup {i}]
    /\ UNCHANGED <<up, capacity, lastRead, files, refused, restarts>>

\* emit() of an event_id that was emitted before: the committed event is
\* returned (or, for another payload, refused), and only the cache learns.
EmitKnown(p, i) ==
    /\ up /\ IsKnown(p, i)
    /\ known' = [known EXCEPT ![p] = @ \cup {i}]
    /\ UNCHANGED <<up, seq, ring, capacity, lastRead, queue, files, stamped,
                   refused, published, restarts>>

\* snapshot(): the conversation and the seq are read under one lock, and
\* the snapshot is itself an event of the ring.
Snapshot(p, limit) ==
    /\ up /\ seq[p] < MaxSeq
    /\ LET all == SeqsOf(Conversation(p))
           trimmed == Newest(all, limit)
       IN Stamp(p, [seq |-> seq[p] + 1, kind |-> "snapshot", id |-> NoId,
                    conv |-> trimmed, more |-> trimmed # all])
    /\ UNCHANGED <<up, capacity, known, lastRead, files, refused, restarts>>

\* mark_read(): the mark never goes back in memory; the file follows.
MarkRead(p, n) ==
    /\ up
    /\ Cardinality({j \in DOMAIN queue : queue[j].op = "read"}) < MaxReads
    /\ lastRead' = [lastRead EXCEPT ![p] = IF n > @ THEN n ELSE @]
    /\ queue' = Append(queue, [op |-> "read", proj |-> p, n |-> lastRead'[p]])
    /\ UNCHANGED <<up, seq, ring, capacity, known, files, stamped, refused,
                   published, restarts>>

-----------------------------------------------------------------------------
(* The writer thread                                                       *)

Writing(op) == up /\ queue # <<>> /\ Head(queue).op = op

\* Fault: the file takes what the timeline shows and drops the status events.
AppendTimelineOnly ==
    /\ Writing("append")
    /\ LET p == Head(queue).proj
           e == EventWith(p, Head(queue).n)
       IN disk' = [disk EXCEPT ![p] = IF IsStructural(e) THEN Append(@, e) ELSE @]
    /\ queue' = Tail(queue)
    /\ UNCHANGED <<up, memory, seqFile, readFile, stamped, refused, published,
                   restarts>>

\* append_event: only the chat record reaches the file.
AppendEvent ==
    /\ Writing("append")
    /\ LET p == Head(queue).proj
           e == EventWith(p, Head(queue).n)
       IN disk' = [disk EXCEPT ![p] = IF IsPersistable(e) THEN Append(@, e)
                                                          ELSE @]
    /\ queue' = Tail(queue)
    /\ UNCHANGED <<up, memory, seqFile, readFile, stamped, refused, published,
                   restarts>>

\* append_event swallows the OSError of a disk that refuses the line.
AppendRefused ==
    /\ Writing("append")
    /\ Cardinality(UNION {refused[p] : p \in Projects}) < MaxFailures
    /\ LET p == Head(queue).proj
           e == EventWith(p, Head(queue).n)
       IN /\ IsPersistable(e)
          /\ refused' = [refused EXCEPT ![p] = @ \cup {e}]
    /\ queue' = Tail(queue)
    /\ UNCHANGED <<up, memory, files, stamped, published, restarts>>

\* save_seq_watermark never lowers the mark.
SaveSeq ==
    /\ Writing("seq")
    /\ LET p == Head(queue).proj
       IN seqFile' = [seqFile EXCEPT ![p] = IF Head(queue).n > @
                                            THEN Head(queue).n ELSE @]
    /\ queue' = Tail(queue)
    /\ UNCHANGED <<up, memory, disk, readFile, stamped, refused, published,
                   restarts>>

\* save_read_watermark
SaveRead ==
    /\ Writing("read")
    /\ LET p == Head(queue).proj
       IN readFile' = [readFile EXCEPT ![p] = IF Head(queue).n > @
                                              THEN Head(queue).n ELSE @]
    /\ queue' = Tail(queue)
    /\ UNCHANGED <<up, memory, disk, seqFile, stamped, refused, published,
                   restarts>>

-----------------------------------------------------------------------------
(* Crash and restart                                                       *)

\* The process dies: memory and queued jobs are gone, the files stay.
Crash ==
    /\ up /\ restarts < MaxRestarts
    /\ up' = FALSE
    /\ restarts' = restarts + 1
    /\ queue' = <<>>
    /\ seq' = [p \in Projects |-> 0]
    /\ ring' = [p \in Projects |-> <<>>]
    /\ known' = [p \in Projects |-> {}]
    /\ lastRead' = [p \in Projects |-> 0]
    /\ stamped' = [p \in Projects |-> ToSet(disk[p])]
    /\ refused' = [p \in Projects |-> {}]
    /\ UNCHANGED <<capacity, files, published>>

\* The seq of the last line of a file (0 for an empty one).
LastSeq(s) == IF s = <<>> THEN 0 ELSE s[Len(s)].seq

\* load_seq_watermark: without a .seq file the log itself is measured.
LoadedMark(p) == IF seqFile[p] = 0 THEN LastSeq(disk[p]) ELSE seqFile[p]

\* Fault: the mark alone, without the events of the file.
MarkAlone(p) == seqFile[p]

RestoredSeq(p) ==
    IF LastSeq(disk[p]) > LoadedMark(p) THEN LastSeq(disk[p]) ELSE LoadedMark(p)

\* A project without a .read file counts its history as read, and says so
\* on disk.
RestoredRead(p) == IF readFile[p] > 0 THEN readFile[p] ELSE RestoredSeq(p)

\* load_from_disk, restore() and compact() for every project.  load_events
\* sorts by seq: the lines of the file are in that order already
\* (DiskInSeqOrder), and the ring takes all of them.
Restart ==
    /\ ~up
    /\ up' = TRUE
    /\ seq' = [p \in Projects |-> RestoredSeq(p)]
    /\ capacity' = [p \in Projects |->
                       IF Len(disk[p]) + RestoreSlack > RingCapacity
                       THEN Len(disk[p]) + RestoreSlack ELSE RingCapacity]
    /\ ring' = disk
    /\ seqFile' = [p \in Projects |-> LoadedMark(p)]
    /\ lastRead' = [p \in Projects |-> RestoredRead(p)]
    /\ readFile' = lastRead'
    /\ UNCHANGED <<known, queue, disk, stamped, refused, published, restarts>>

-----------------------------------------------------------------------------
Emit ==
    \E p \in Projects :
        \/ \E kind \in Kinds \ {"snapshot"} : EmitNew(p, kind, NoId)
        \/ \E i \in Ids : EmitNew(p, "structural", i) \/ EmitKnown(p, i)

TakeSnapshot == \E p \in Projects, limit \in Limits : Snapshot(p, limit)

\* A client reports its watermark: a seq that was broadcast, perhaps by the
\* process before this one.
Read == \E p \in Projects : \E n \in 1 .. published[p] : MarkRead(p, n)

Next ==
    \/ Emit \/ TakeSnapshot \/ Read
    \/ AppendEvent \/ AppendRefused \/ SaveSeq \/ SaveRead
    \/ Crash \/ Restart

Spec == Init /\ [][Next]_vars

-----------------------------------------------------------------------------
(* Correctness                                                             *)

TypeOK ==
    /\ up \in BOOLEAN
    /\ seq \in [Projects -> Nat]
    /\ ring \in [Projects -> Seq(Event)]
    /\ capacity \in [Projects -> Nat \ {0}]
    /\ known \in [Projects -> SUBSET Ids]
    /\ lastRead \in [Projects -> Nat]
    /\ queue \in Seq(Job)
    /\ disk \in [Projects -> Seq(Event)]
    /\ seqFile \in [Projects -> Nat]
    /\ readFile \in [Projects -> Nat]
    /\ stamped \in [Projects -> SUBSET Event]
    /\ refused \in [Projects -> SUBSET Event]
    /\ published \in [Projects -> Nat]
    /\ restarts \in Nat

InSeqOrder(s) == \A i, j \in DOMAIN s : i < j => s[i].seq < s[j].seq

\* The lines of an event file are in seq order, whatever was emitted, lost or
\* refused: one writer thread does the jobs in the order of the stamps, and a
\* restart stamps above everything on disk (persist.py defer, hub.py restore).
DiskInSeqOrder == \A p \in Projects : InSeqOrder(disk[p])

\* The ring holds everything from its oldest event on: an event newer than
\* the oldest one in the ring was never dropped (ring.py append).
RingIsSuffix ==
    up => \A p \in Projects :
        /\ InSeqOrder(ring[p])
        /\ \A e \in stamped[p] :
              ring[p] = <<>> \/ e.seq >= Head(ring[p]).seq
                => e \in ToSet(ring[p])

\* A crash loses a suffix of the chat record: when an event is on disk, so is
\* every persistable event stamped before it, unless the disk refused it.
PrefixDurable ==
    \A p \in Projects : \A d \in ToSet(disk[p]), e \in stamped[p] :
        IsPersistable(e) /\ e.seq < d.seq =>
            e \in ToSet(disk[p]) \cup refused[p]

\* A structural event that neither a snapshot nor a full replay can find: the
\* ring has dropped it and the disk does not have it.
Stranded(p) ==
    {e \in stamped[p] : IsStructural(e)} \ (ToSet(ring[p]) \cup ToSet(disk[p]))

\* What replay promises a client that has everything up to since: no hole in
\* the chat record (ring.py replay_since, "never hand out a torn history").
ReplayHasNoHole(p, since) ==
    \A e \in stamped[p] :
        IsStructural(e) /\ e.seq > since => e \in Replay(p, since)

ReplayCompleteUnlessStranded ==
    up => \A p \in Projects : \A since \in 0 .. seq[p] :
        (FromDisk(p, since) => Stranded(p) = {}) => ReplayHasNoHole(p, since)

\* An event_id names one event, across ring eviction, a lagging writer and a
\* restart (hub.py emit, "cannot create a second user/UI message").
EmitIdempotent ==
    \A p \in Projects : \A e, f \in stamped[p] :
        e.id = f.id /\ e.id # NoId => e = f

\* The log implements the journal: entries are the persistable events that
\* the disk did not refuse.
J == INSTANCE Journal WITH
        record <- [p \in Projects |->
                      SeqsOf({e \in stamped[p] \ refused[p] : IsPersistable(e)})],
        last <- seq

ImplementsJournal == J!JSpec
=============================================================================
