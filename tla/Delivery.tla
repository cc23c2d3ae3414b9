------------------------------ MODULE Delivery ------------------------------
(***************************************************************************)
(* How the events of the hub reach one client, over connections that break *)
(* and a backend that may restart.                                         *)
(*                                                                         *)
(* Server side (backend/server.py, backend/hub.py): emit() and snapshot()  *)
(* start one send task per connected client; the handler of the            *)
(* connection replays one project, then serves snapshot requests.          *)
(* Client side (src/transport/socket.ts): a handshake buffer, a seq        *)
(* watermark per project, a dedup set, debounced snapshot requests; and    *)
(* the bookkeeping of src/store/store.ts, one snapshot per project and     *)
(* connection.                                                             *)
(*                                                                         *)
(* The hub is reduced to what a client can see of it: log, the events a    *)
(* replay or a snapshot would find (EventLog says when it finds them all). *)
(* The 16 ms render queue of App.tsx keeps the order and is left out.      *)
(***************************************************************************)
EXTENDS Integers, FiniteSets, SequencesExt

CONSTANTS
    Projects,
    NoProject,      \* the project of a replay_complete that names none
    Kinds,          \* what is emitted: "msg" is shown, "tick" only counts
    HandshakeMax,   \* HANDSHAKE_BUFFER_MAX
    Suspends,       \* a send of the replay may suspend (back-pressure)
    TimesOut,       \* the first frame may come after handshake_timeout_s
    OtherWindows,   \* other clients ask for snapshots, which all clients get
    ReuseSeq,       \* a crash may lose the high-water mark
    MaxSeq,         \* bound: events emitted per project
    MaxConnects,    \* bound: connections of the client
    MaxRestarts     \* bound: crashes of the backend

ASSUME DeliveryAssumption ==
    /\ IsFiniteSet(Projects) /\ NoProject \notin Projects
    /\ Kinds \subseteq {"msg", "tick"}
    /\ HandshakeMax \in Nat \ {0}
    /\ {Suspends, TimesOut, OtherWindows, ReuseSeq} \subseteq BOOLEAN
    /\ MaxSeq \in Nat /\ MaxConnects \in Nat /\ MaxRestarts \in Nat

VARIABLES
    log,        \* the events of each project that a replay can find
    seq,        \* Project.seq
    sess,       \* the server's side of the connection
    todo,       \* the replayed events not yet sent
    target,     \* the project being replayed
    tasks,      \* broadcast sends created and not yet run, FIFO
    wire,       \* frames on their way to the client, FIFO
    inbox,      \* frames on their way to the server, FIFO
    status,     \* _status
    hs,         \* handshakeActive
    hsProject,  \* handshakeProjectId
    buf,        \* handshakeBuffer
    feed,       \* watermarks, dedup set and conversations of the client
    synced,     \* _synced: projects whose snapshot was asked for
    recent,     \* _resyncDebounce: asked for less than 800 ms ago
    bulk,       \* _bulkScheduled
    timers,     \* pending calls of syncAllProjects
    active,     \* activeProjectId
    missed,     \* history: asked for just before the last reconnect, not since
    lost,       \* history: a crash has lost a high-water mark
    connects,   \* connections so far
    restarts    \* crashes so far

server == <<log, seq, restarts, lost>>
link   == <<sess, todo, target, tasks, wire>>
shake  == <<hs, hsProject, buf>>
asked  == <<status, recent, missed, inbox>>
sync   == <<bulk, timers>>
vars == <<server, link, inbox, status, recent, missed, shake, feed, synced,
          sync, active, connects>>

-----------------------------------------------------------------------------
(* Events and frames                                                       *)

\* born tells apart the events of two processes that share a seq.
Id(e)  == <<e.seq, e.born>>
Key(e) == <<e.proj, e.seq, e.kind>>     \* _markGlobalSeen

\* durable_conversation
Conversation(p) == {Id(e) : e \in {x \in log[p] : x.kind = "msg"}}

EventFrame(e)     == [tag |-> "event", ev |-> e]
CompleteFrame(p, n) == [tag |-> "complete", proj |-> p, last |-> n]
ResyncFrame       == [tag |-> "resync"]

\* sorted(merged), handshakeBuffer.sort: some seqs, in ascending order.
InOrder(N) ==
    [i \in 1 .. Cardinality(N) |->
        CHOOSE n \in N : Cardinality({m \in N : m <= n}) = i]

\* Hub.replay: everything from the first event on is what the timeline
\* shows; a client that has something gets every event after it.
Replay(p, since) ==
    LET later == {e \in log[p] : e.seq > since /\ (since = 0 => e.kind = "msg")}
        order == InOrder({e.seq : e \in later})
    IN [i \in DOMAIN order |-> CHOOSE e \in later : e.seq = order[i]]

-----------------------------------------------------------------------------
(* The client's feed                                                       *)

\* Fault: a snapshot is added to the conversation instead of replacing it.
ShowAdding(f, e) ==
    CASE e.kind = "snap" ->
            [f EXCEPT !.view[e.proj] = @ \cup e.conv,
                      !.twice = @ \/ f.view[e.proj] \cap e.conv # {}]
      [] e.kind = "msg" ->
            [f EXCEPT !.view[e.proj] = @ \cup {Id(e)},
                      !.twice = @ \/ Id(e) \in f.view[e.proj]]
      [] OTHER -> f

\* onEvent: a snapshot rebuilds the conversation, a message is appended.
Show(f, e) ==
    CASE e.kind = "snap" -> [f EXCEPT !.view[e.proj] = e.conv]
      [] e.kind = "msg"  ->
            [f EXCEPT !.view[e.proj] = @ \cup {Id(e)},
                      !.twice = @ \/ Id(e) \in f.view[e.proj]]
      [] OTHER -> f

\* Raise the watermark, then show the event unless its key was seen.
Deliver(f, e) ==
    LET raised == [f EXCEPT !.wm[e.proj] = e.seq, !.seen = @ \cup {Key(e)}]
    IN IF Key(e) \in f.seen THEN raised ELSE Show(raised, e)

\* One round of the loop of drainHandshake: no gap detection here.
Absorb(f, e) == IF e.seq <= f.wm[e.proj] THEN f ELSE Deliver(f, e)

\* Fault: the buffer is drained in the order of arrival.
DrainedUnsorted(f, b) == FoldLeft(Absorb, f, b)

\* drainHandshake: sorted by seq; of two events with one seq the last wins.
Drained(f, b) ==
    LET LastWith(n) == b[CHOOSE i \in DOMAIN b :
                            /\ b[i].seq = n
                            /\ \A j \in DOMAIN b : b[j].seq = n => j <= i]
    IN FoldLeft(LAMBDA g, n : Absorb(g, LastWith(n)), f,
                InOrder({b[i].seq : i \in DOMAIN b}))

-----------------------------------------------------------------------------
(* Asking for snapshots                                                    *)

Open == sess # "none"

\* doRequestSnapshot for every project of S, in some order: debounced ones
\* are skipped; without an open socket sendRaw drops the frame.
Request(S) ==
    LET fresh == S \ recent
    IN /\ recent' = recent \cup fresh
       /\ missed' = missed \ fresh
       /\ inbox' = IF Open
                   THEN inbox \o SetToSeq({[op |-> "snapshot", proj |-> p,
                                            since |-> 0] : p \in fresh})
                   ELSE inbox

\* The status after Request(S).
Asking(S, otherwise) == IF S \subseteq recent THEN otherwise ELSE "resync"

\* setConnStatus("live"): one syncAllProjects per connection, 250 ms later.
GoLive ==
    /\ bulk' = TRUE
    /\ timers' = IF bulk THEN timers ELSE timers + 1

-----------------------------------------------------------------------------
Init ==
    /\ log = [p \in Projects |-> {}]
    /\ seq = [p \in Projects |-> 0]
    /\ sess = "none" /\ todo = <<>> /\ target = NoProject
    /\ tasks = <<>> /\ wire = <<>> /\ inbox = <<>>
    /\ status = "connecting"
    /\ hs = FALSE /\ hsProject = NoProject /\ buf = <<>>
    /\ feed = [wm    |-> [p \in Projects |-> 0],
               seen  |-> {},
               view  |-> [p \in Projects |-> {}],
               twice |-> FALSE]
    /\ synced = {} /\ recent = {} /\ missed = {} /\ bulk = FALSE /\ timers = 0
    /\ active \in Projects
    /\ lost = FALSE /\ connects = 0 /\ restarts = 0

-----------------------------------------------------------------------------
(* The server                                                              *)

\* emit() and snapshot(): stamp, then one send task for the client.
Stamp(p, kind, conv) ==
    LET e == [proj |-> p, seq |-> seq[p] + 1, kind |-> kind,
              born |-> restarts, conv |-> conv]
    IN /\ seq' = [seq EXCEPT ![p] = @ + 1]
       /\ log' = [log EXCEPT ![p] = @ \cup {e}]
       /\ tasks' = IF Open THEN Append(tasks, EventFrame(e)) ELSE tasks

Emit(p, kind) ==
    /\ seq[p] < MaxSeq
    /\ Stamp(p, kind, {})
    /\ UNCHANGED <<sess, todo, target, wire, inbox, status, recent, missed,
                   shake, feed, synced, sync, active, connects, restarts,
                   lost>>

\* A snapshot another window asked for is broadcast to this client too.
OtherSnapshot(p) ==
    /\ OtherWindows /\ seq[p] < MaxSeq
    /\ Stamp(p, "snap", Conversation(p))
    /\ UNCHANGED <<sess, todo, target, wire, inbox, status, recent, missed,
                   shake, feed, synced, sync, active, connects, restarts,
                   lost>>

\* A send task runs.
RunTask ==
    /\ tasks # <<>>
    /\ tasks' = Tail(tasks)
    /\ wire' = Append(wire, Head(tasks))
    /\ UNCHANGED <<server, sess, todo, target, inbox, status, recent, missed,
                   shake, feed, synced, sync, active, connects>>

\* _do_replay: the events are listed once; last_seq is read at the end.
ReplayAtOnce ==
    /\ sess = "first" /\ inbox # <<>>
    /\ LET p == Head(inbox).proj
           since == Head(inbox).since
           frames == IF since > seq[p] THEN <<ResyncFrame>>
                     ELSE [i \in DOMAIN Replay(p, since) |->
                              EventFrame(Replay(p, since)[i])]
       IN wire' = Append(wire \o frames, CompleteFrame(p, seq[p]))
    /\ sess' = "ready"
    /\ inbox' = Tail(inbox)
    /\ UNCHANGED <<server, todo, target, tasks, status, recent, missed, shake,
                   feed, synced, sync, active, connects>>

\* The same when the sends suspend: other tasks run between them.
ReplayStart ==
    /\ Suspends /\ sess = "first" /\ inbox # <<>>
    /\ Head(inbox).since <= seq[Head(inbox).proj]
    /\ sess' = "replaying"
    /\ target' = Head(inbox).proj
    /\ todo' = Replay(Head(inbox).proj, Head(inbox).since)
    /\ inbox' = Tail(inbox)
    /\ UNCHANGED <<server, tasks, wire, status, recent, missed, shake, feed,
                   synced, sync, active, connects>>

ReplaySend ==
    /\ sess = "replaying" /\ todo # <<>>
    /\ wire' = Append(wire, EventFrame(Head(todo)))
    /\ todo' = Tail(todo)
    /\ UNCHANGED <<server, sess, target, tasks, inbox, status, recent, missed,
                   shake, feed, synced, sync, active, connects>>

ReplayDone ==
    /\ sess = "replaying" /\ todo = <<>>
    /\ wire' = Append(wire, CompleteFrame(target, seq[target]))
    /\ sess' = "ready"
    /\ target' = NoProject
    /\ UNCHANGED <<server, todo, tasks, inbox, status, recent, missed, shake,
                   feed, synced, sync, active, connects>>

\* _handshake: no first frame in time; the replay_request that comes later
\* is refused.
HandshakeTimeout ==
    /\ TimesOut /\ sess = "first"
    /\ wire' = Append(wire, CompleteFrame(NoProject, 0))
    /\ sess' = "ready"
    /\ UNCHANGED <<server, todo, target, tasks, inbox, status, recent, missed,
                   shake, feed, synced, sync, active, connects>>

RefuseReplay ==
    /\ sess = "ready" /\ inbox # <<>> /\ Head(inbox).op = "replay"
    /\ inbox' = Tail(inbox)
    /\ UNCHANGED <<server, link, status, recent, missed, shake, feed, synced,
                   sync, active, connects>>

\* _cmd_request_snapshot
ServeSnapshot ==
    /\ sess = "ready" /\ inbox # <<>> /\ Head(inbox).op = "snapshot"
    /\ LET p == Head(inbox).proj IN Stamp(p, "snap", Conversation(p))
    /\ inbox' = Tail(inbox)
    /\ UNCHANGED <<sess, todo, target, wire, status, recent, missed, shake,
                   feed, synced, sync, active, connects, restarts, lost>>

-----------------------------------------------------------------------------
(* The connection                                                          *)

Drop ==
    /\ sess' = "none" /\ todo' = <<>> /\ target' = NoProject
    /\ tasks' = <<>> /\ wire' = <<>> /\ inbox' = <<>>
    /\ status' = "reconnecting"

\* The connection breaks; what was on its way, either way, is lost.
Disconnect ==
    /\ Open /\ connects < MaxConnects
    /\ Drop
    /\ UNCHANGED <<server, recent, missed, shake, feed, synced, sync, active,
                   connects>>

\* Fault: the bookkeeping of the old connection is kept.
ConnectStillSynced ==
    /\ ~Open /\ connects < MaxConnects
    /\ connects' = connects + 1
    /\ sess' = "first"
    /\ inbox' = <<[op |-> "replay", proj |-> active, since |-> feed.wm[active]]>>
    /\ status' = "handshaking"
    /\ missed' = recent
    /\ hs' = TRUE /\ hsProject' = active /\ buf' = <<>>
    /\ UNCHANGED <<server, todo, target, tasks, wire, recent, feed, synced,
                   sync, active>>

\* connect() and onopen: the bookkeeping of the old connection is void, the
\* debounce clock and a pending timer are not.
Connect ==
    /\ ~Open /\ connects < MaxConnects
    /\ connects' = connects + 1
    /\ sess' = "first"
    /\ inbox' = <<[op |-> "replay", proj |-> active, since |-> feed.wm[active]]>>
    /\ status' = "handshaking"
    /\ missed' = recent
    /\ synced' = {} /\ bulk' = FALSE
    /\ hs' = TRUE /\ hsProject' = active /\ buf' = <<>>
    /\ UNCHANGED <<server, todo, target, tasks, wire, recent, feed, timers,
                   active>>

\* The backend dies and comes back with a prefix of each conversation; its
\* seq is the high-water mark, or less if the mark was lost (EventLog).
ServerRestart ==
    /\ restarts < MaxRestarts /\ connects < MaxConnects
    /\ restarts' = restarts + 1
    /\ \E cut \in [Projects -> 0 .. MaxSeq] :
          /\ log' = [p \in Projects |->
                        {e \in log[p] : e.kind = "msg" /\ e.seq <= cut[p]}]
          /\ seq' \in IF ReuseSeq THEN [Projects -> 0 .. MaxSeq] \cup {seq} ELSE {seq}
          /\ \A p \in Projects : cut[p] <= seq'[p] /\ seq'[p] <= seq[p]
    /\ lost' = (lost \/ seq' # seq)
    /\ Drop
    /\ UNCHANGED <<recent, missed, shake, feed, synced, sync, active,
                   connects>>

-----------------------------------------------------------------------------
(* The client                                                              *)

Receiving(tag) == wire # <<>> /\ Head(wire).tag = tag /\ wire' = Tail(wire)

\* routeEvent during the handshake
OnBuffered ==
    /\ Receiving("event") /\ hs
    /\ LET e == Head(wire).ev
       IN IF Len(buf) >= HandshakeMax
          THEN /\ buf' = <<>>
               /\ Request({e.proj}) /\ status' = Asking({e.proj}, status)
          ELSE /\ buf' = Append(buf, e)
               /\ UNCHANGED asked
    /\ UNCHANGED <<server, sess, todo, target, tasks, hs, hsProject, feed,
                   synced, sync, active, connects>>

\* Fault: a snapshot is checked against the watermark like any event.
OnSnapshotGapChecked ==
    /\ Receiving("event") /\ ~hs /\ Head(wire).ev.kind = "snap"
    /\ LET e == Head(wire).ev
       IN IF feed.wm[e.proj] > 0 /\ e.seq > feed.wm[e.proj] + 1
          THEN /\ Request({e.proj}) /\ status' = Asking({e.proj}, status)
               /\ UNCHANGED <<feed, sync>>
          ELSE /\ feed' = Show([feed EXCEPT !.wm[e.proj] = e.seq], e)
               /\ status' = IF status = "resync" THEN "live" ELSE status
               /\ IF status = "resync" THEN GoLive ELSE UNCHANGED sync
               /\ UNCHANGED <<recent, missed, inbox>>
    /\ UNCHANGED <<server, sess, todo, target, tasks, shake, synced, active,
                   connects>>

\* Fault: a snapshot does not end the resync.
OnSnapshotStaysResync ==
    /\ Receiving("event") /\ ~hs /\ Head(wire).ev.kind = "snap"
    /\ LET e == Head(wire).ev
       IN feed' = Show([feed EXCEPT !.wm[e.proj] = e.seq], e)
    /\ UNCHANGED <<server, sess, todo, target, tasks, inbox, status, recent,
                   missed, shake, synced, sync, active, connects>>

\* A snapshot is the new base: no dedup, no gap check.
OnSnapshot ==
    /\ Receiving("event") /\ ~hs /\ Head(wire).ev.kind = "snap"
    /\ LET e == Head(wire).ev
       IN feed' = Show([feed EXCEPT !.wm[e.proj] = e.seq], e)
    /\ IF status = "resync" THEN status' = "live" /\ GoLive
                            ELSE UNCHANGED <<status, sync>>
    /\ UNCHANGED <<server, sess, todo, target, tasks, inbox, recent, missed,
                   shake, synced, active, connects>>

\* Any other event: a duplicate is dropped, a gap asks for a snapshot.
OnEvent ==
    /\ Receiving("event") /\ ~hs /\ Head(wire).ev.kind # "snap"
    /\ LET e == Head(wire).ev
           mark == feed.wm[e.proj]
       IN CASE e.seq <= mark -> UNCHANGED <<feed, asked>>
            [] mark > 0 /\ e.seq > mark + 1 ->
                  /\ Request({e.proj}) /\ status' = Asking({e.proj}, status)
                  /\ UNCHANGED feed
            [] OTHER -> feed' = Deliver(feed, e) /\ UNCHANGED asked
    /\ UNCHANGED <<server, sess, todo, target, tasks, shake, synced, sync,
                   active, connects>>

\* replay_complete below the watermark: the server is another one.
NewEpoch(frame) == frame.proj # NoProject /\ frame.last < feed.wm[frame.proj]

OnEpochReset ==
    /\ Receiving("complete") /\ NewEpoch(Head(wire))
    /\ LET p == Head(wire).proj
           n == Head(wire).last
       IN /\ feed' = [feed EXCEPT !.view[p] = {}, !.wm[p] = n]
          /\ synced' = synced \ {p}
          /\ Request({p})
    /\ hs' = FALSE /\ buf' = <<>> /\ hsProject' = NoProject
    /\ status' = "live" /\ GoLive
    /\ UNCHANGED <<server, sess, todo, target, tasks, active, connects>>

\* replay_complete: the buffer is drained, the watermark set, and ensureProject
\* asks for the snapshot of the replayed project.
OnComplete ==
    /\ Receiving("complete") /\ ~NewEpoch(Head(wire))
    /\ LET p == Head(wire).proj
           n == Head(wire).last
           drained == IF hs THEN Drained(feed, buf) ELSE feed
       IN IF p = NoProject
          THEN \* DEFAULT_PROJECT, for which nobody answers a request
               /\ feed' = drained
               /\ status' \in {"live", "resync"}
               /\ UNCHANGED <<synced, recent, missed, inbox>>
          ELSE /\ feed' = [drained EXCEPT !.wm[p] = n]
               /\ synced' = synced \cup {p}
               /\ Request({p} \ synced) /\ status' = Asking({p} \ synced, "live")
    /\ hs' = FALSE /\ buf' = <<>> /\ hsProject' = NoProject
    /\ GoLive
    /\ UNCHANGED <<server, sess, todo, target, tasks, active, connects>>

OnResync ==
    /\ Receiving("resync")
    /\ LET p == IF hsProject # NoProject THEN hsProject ELSE active
       IN Request({p}) /\ status' = Asking({p}, status)
    /\ UNCHANGED <<server, sess, todo, target, tasks, shake, feed, synced,
                   sync, active, connects>>

\* syncAllProjects, 250 ms after going live, whatever the connection is now.
SyncAll ==
    /\ timers > 0 /\ timers' = timers - 1
    /\ synced' = Projects
    /\ Request(Projects \ synced) /\ status' = Asking(Projects \ synced, status)
    /\ UNCHANGED <<server, link, shake, feed, bulk, active, connects>>

\* switchProject
Switch(p) ==
    /\ p # active /\ active' = p
    /\ synced' = synced \cup {p}
    /\ Request({p} \ synced) /\ status' = Asking({p} \ synced, status)
    /\ UNCHANGED <<server, link, shake, feed, sync, connects>>

\* 800 ms have passed since the project was asked for.
Cooldown ==
    /\ \E p \in recent : recent' = recent \ {p}
    /\ UNCHANGED <<server, link, inbox, status, missed, shake, feed, synced,
                   sync, active, connects>>

-----------------------------------------------------------------------------
Serve == ReplayAtOnce \/ ReplayStart \/ ReplaySend \/ ReplayDone
         \/ RefuseReplay \/ ServeSnapshot

Receive == OnBuffered \/ OnSnapshot \/ OnEvent \/ OnEpochReset \/ OnComplete
           \/ OnResync

Environment ==
    \/ \E p \in Projects : \/ \E kind \in Kinds : Emit(p, kind)
                           \/ OtherSnapshot(p)
                           \/ Switch(p)
    \/ HandshakeTimeout \/ Disconnect \/ ServerRestart

Next == Environment \/ RunTask \/ Serve \/ Receive \/ SyncAll \/ Cooldown
        \/ Connect

\* The event loop runs its tasks and the handler, TCP delivers, timers fire,
\* time passes and scheduleReconnect tries again.
Fairness ==
    /\ WF_vars(RunTask) /\ WF_vars(Serve) /\ WF_vars(Receive)
    /\ WF_vars(SyncAll) /\ WF_vars(Cooldown) /\ WF_vars(Connect)

Spec == Init /\ [][Next]_vars
FairSpec == Spec /\ Fairness

-----------------------------------------------------------------------------
(* Correctness                                                             *)

Event == [proj : Projects, seq : Nat, kind : {"msg", "tick", "snap"},
          born : 0 .. MaxRestarts, conv : SUBSET (Nat \X Nat)]

TypeOK ==
    /\ \A p \in Projects : log[p] \subseteq Event
    /\ seq \in [Projects -> Nat]
    /\ sess \in {"none", "first", "replaying", "ready"}
    /\ status \in {"connecting", "handshaking", "live", "resync", "reconnecting"}
    /\ hs \in BOOLEAN /\ hsProject \in Projects \cup {NoProject}
    /\ ToSet(buf) \subseteq Event /\ Len(buf) <= HandshakeMax
    /\ feed.wm \in [Projects -> Nat]
    /\ synced \cup recent \cup missed \subseteq Projects
    /\ bulk \in BOOLEAN /\ timers \in Nat
    /\ active \in Projects

\* No message is shown twice, across replays, snapshots, duplicated broadcasts
\* and reconnects (socket.ts, "five copies of the same reply").
ShownOnce == ~feed.twice

\* A project whose snapshot was asked for, with none on its way, is followed
\* without a hole: everything up to its watermark is shown (store.ts
\* switchProject, "synced once is enough, after that events follow"), unless
\* seqs were stamped twice, or the debounce clock of the connection before
\* has swallowed the request.
SnapshotOnItsWay(p) ==
    \/ \E i \in DOMAIN inbox : inbox[i].op = "snapshot" /\ inbox[i].proj = p
    \/ \E f \in ToSet(tasks) \cup ToSet(wire) :
          f.tag = "event" /\ f.ev.proj = p /\ f.ev.kind = "snap"

SyncedHonest ==
    ~lost => \A p \in synced \ missed :
        Open /\ ~hs /\ ~SnapshotOnItsWay(p) =>
            \A e \in log[p] : e.kind = "msg" /\ e.seq <= feed.wm[p] =>
                Id(e) \in feed.view[p]

\* What came in during the handshake and was not shown before is shown when it
\* ends, in whatever order it came (socket.wars.test.ts W8, "history zero loss"),
\* unless the buffer holds an event of another project with the same seq: it is
\* sorted into one map by seq alone (socket.ts drainHandshake).
HandshakeLosesNothing ==
    [][~lost /\ hs /\ ~hs' /\ ~NewEpoch(Head(wire)) =>
         \A i \in DOMAIN buf :
            /\ buf[i].kind = "msg" /\ Key(buf[i]) \notin feed.seen
            /\ \A j \in DOMAIN buf :
                  buf[j].seq = buf[i].seq => buf[j].proj = buf[i].proj
            => Id(buf[i]) \in feed'.view[buf[i].proj]]_vars

\* Once the environment has come to rest, the client shows exactly what the
\* server has, in every project, with the same two exceptions.
Converges ==
    <>[](lost \/ \A p \in Projects \ missed : feed.view[p] = Conversation(p))

\* The badge "resync" does not stay (socket.ts, "forever synchronising"), unless
\* a request it waits for was swallowed.
ResyncEnds == status = "resync" ~> status # "resync" \/ missed # {}
=============================================================================
