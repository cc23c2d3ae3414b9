-------------------------- MODULE ProjectDeletion --------------------------
(***************************************************************************)
(* Deleting one project for good (backend/server.py, delete_ops.py): the   *)
(* project is fenced off, its engine stopped, its directory renamed aside  *)
(* according to a plan that was written to a journal first, a tombstone is *)
(* written (the commit point), and what was set aside is removed in the    *)
(* background.  Before the commit everything is put back; a restart reads  *)
(* the journal and the tombstone and does whichever is due.                *)
(*                                                                         *)
(* One action is one stretch of a coroutine between two awaits, or one     *)
(* call of a thread on the file system.  A thread cannot be cancelled: a   *)
(* request that gives up leaves its thread running.  The engine's directory*)
(* is "data" when it holds what the project has written, and "fresh" when  *)
(* an engine has created it again.                                         *)
(***************************************************************************)
EXTENDS Integers

CONSTANTS
    Requests,       \* calls of /projects/permanent-delete
    NoRow,          \* no row in the journal
    NoPlan,         \* a row without paths
    MaxFaults,      \* bound: calls the system refuses
    MaxTimeouts,    \* bound: waits that time out or are cancelled
    MaxCrashes      \* bound: ends of the process

ASSUME DeletionAssumption ==
    /\ {NoRow, NoPlan} \cap Requests = {} /\ NoRow # NoPlan
    /\ MaxFaults \in Nat /\ MaxTimeouts \in Nat /\ MaxCrashes \in Nat

VARIABLES
    orig,       \* the project's directory
    staged,     \* the directory each request renames it to
    row,        \* the journal: the request whose plan it holds
    tomb,       \* the tombstone is written
    index,      \* projects.json and the files of the conversations
    life,       \* the process: down, in its recovery, up
    shown,      \* hub.projects
    closing,    \* _closing_projects
    engine,     \* the entry in engines
    restarting, \* _restart_engine waits for the old engine's stop
    orphans,    \* stops of engines nobody waits for
    pc,         \* how far each request is
    had,        \* requests that took an engine out of engines
    safe,       \* requests whose engine_stop_safe is true
    untold,     \* requests that gave up before they told the engine to stop
    thread,     \* requests whose staging thread runs
    purge,      \* the background cleanup each request has scheduled
    loose,      \* history: requests whose row was dropped too early
    stray,      \* history: a request without the fence has rolled back
    faults, timeouts, crashes

disk    == <<orig, staged, row, tomb, index>>
engines == <<engine, restarting, orphans>>
local   == <<pc, had, safe, untold>>
history == <<loose, stray>>
bounds  == <<faults, timeouts, crashes>>
vars == <<disk, life, shown, closing, engines, local, thread, purge, history,
          bounds>>

Off == [at |-> "off", plan |-> NoPlan, warned |-> FALSE]

Init ==
    /\ orig = "data" /\ staged = [r \in Requests |-> "none"]
    /\ row = NoRow /\ tomb = FALSE /\ index = TRUE
    /\ life = "up" /\ shown = TRUE /\ closing = FALSE
    /\ engine = "live" /\ restarting = FALSE /\ orphans = 0
    /\ pc = [r \in Requests |-> "idle"] /\ had = {}
    /\ safe = {} /\ untold = {}
    /\ thread = {} /\ purge = [r \in Requests |-> Off]
    /\ loose = {} /\ stray = FALSE
    /\ faults = 0 /\ timeouts = 0 /\ crashes = 0

Goes(r, at) == pc' = [pc EXCEPT ![r] = at]

Fault == faults < MaxFaults /\ faults' = faults + 1 /\ UNCHANGED <<timeouts, crashes>>

TimesOut ==
    /\ timeouts < MaxTimeouts /\ timeouts' = timeouts + 1
    /\ UNCHANGED <<faults, crashes>>

\* An engine that is created creates its directory.
Layout == orig' = IF orig = "none" THEN "fresh" ELSE orig

-----------------------------------------------------------------------------
(* The engine of the project                                               *)

ActivatableUnfenced == life = "up" /\ ~tomb

Activatable == life = "up" /\ ~closing /\ ~tomb

\* engine_for, by a message, a replay or the wake-up at start.
Wake ==
    /\ Activatable /\ shown /\ engine = "none"
    /\ engine' = "live" /\ Layout
    /\ UNCHANGED <<staged, row, tomb, index, life, shown, closing,
                   restarting, orphans, local, thread, purge, history,
                   bounds>>

\* The main loop has died: the old engine is stopped first.  (An engine that
\* Wake creates meanwhile is overwritten; it runs on, and is forgotten here.)
Restart ==
    /\ Activatable /\ engine = "live" /\ ~restarting
    /\ engine' = "none" /\ restarting' = TRUE
    /\ UNCHANGED <<disk, life, shown, closing, orphans, local, thread, purge,
                   history, bounds>>

Restarted ==
    /\ restarting /\ restarting' = FALSE
    /\ Layout
    /\ engine' = IF Activatable THEN "live" ELSE engine
    /\ UNCHANGED <<staged, row, tomb, index, life, shown, closing, orphans,
                   local, thread, purge, history, bounds>>

\* The old engine cannot be closed and is kept.
RestartFails ==
    /\ restarting /\ restarting' = FALSE
    /\ Fault
    /\ engine' = "stopped"
    /\ UNCHANGED <<disk, life, shown, closing, orphans, local, thread, purge,
                   history>>

OrphanEnds ==
    /\ orphans > 0 /\ orphans' = orphans - 1
    /\ UNCHANGED <<disk, life, shown, closing, engine, restarting, local,
                   thread, purge, history, bounds>>

-----------------------------------------------------------------------------
(* A request up to the commit                                              *)

AbortBlindly(r) == Goes(r, "restoring")

\* An exception before the commit leads to the rollback, unless the tombstone
\* is there.
Abort(r) == Goes(r, IF tomb THEN "salvaged" ELSE "restoring")

\* The stop that a cancelled restart waited for goes on, and so may the stop of
\* the engine in engines.
Orphaned(owned) ==
    orphans' = orphans + (IF restarting THEN 1 ELSE 0) + (IF owned THEN 1 ELSE 0)

Aside == {q \in Requests : staged[q] # "none"}

\* A rollback of another request is still under way: that one will drop the
\* journal row and lift the fence of this one.
Fences(r) ==
    /\ life = "up" /\ pc[r] = "idle" /\ shown /\ ~tomb /\ ~closing
    /\ restarting' = FALSE
    /\ Orphaned(FALSE)
    /\ stray' = (stray \/ \E q \in Requests :
                               pc[q] \in {"restoring", "restored", "stuck"})
    /\ had' = IF engine = "none" THEN had ELSE had \cup {r}
    /\ safe' = IF engine = "none" THEN safe \cup {r} ELSE safe
    /\ UNCHANGED <<orig, staged, tomb, index, life, shown, untold, thread,
                   purge>>

BeginUnplanned(r) ==
    /\ Fences(r)
    /\ closing' = TRUE /\ engine' = "none"
    /\ Goes(r, IF engine = "none" THEN "draining" ELSE "closing")
    /\ UNCHANGED <<row, loose, bounds>>

\* The fence is set and the plan is in the journal before anything is moved; it
\* replaces a plan that a failed recovery has left.
\* A restart that is under way is cancelled, its engine's stop is not.
Begin(r) ==
    /\ Fences(r)
    /\ closing' = TRUE /\ row' = r /\ engine' = "none"
    /\ loose' = loose \cup Aside
    /\ Goes(r, IF engine = "none" THEN "draining" ELSE "closing")
    /\ UNCHANGED bounds

\* The journal cannot be written: the engine goes back into engines, but was
\* not stopped, so the rollback will not count as safe.
BeginFails(r) ==
    /\ Fences(r)
    /\ Fault
    /\ Goes(r, "restoring")
    /\ UNCHANGED <<row, closing, engine, loose>>

\* A request while another one holds the fence is refused: its handler removes
\* that fence, and it rolls back like any other.
Reject(r) ==
    /\ life = "up" /\ pc[r] = "idle" /\ shown /\ ~tomb /\ closing
    /\ closing' = FALSE /\ stray' = TRUE
    /\ Goes(r, "restoring")
    /\ UNCHANGED <<disk, life, shown, engines, had, safe, untold, thread,
                   purge, loose, bounds>>

\* So does one that waits too long for the lock under which the fence is set.
LockTimesOut(r) ==
    /\ life = "up" /\ pc[r] = "idle" /\ ~tomb
    /\ TimesOut
    /\ stray' = TRUE /\ Goes(r, "restoring")
    /\ UNCHANGED <<disk, life, shown, closing, engines, had, safe, untold,
                   thread, purge, loose>>

Stopped(r) ==
    /\ pc[r] = "closing"
    /\ safe' = safe \cup {r} /\ Goes(r, "draining")
    /\ UNCHANGED <<disk, life, shown, closing, engines, had, untold, thread,
                   purge, history, bounds>>

StopFails(r) ==
    /\ pc[r] = "closing"
    /\ Fault
    /\ Abort(r)
    /\ UNCHANGED <<disk, life, shown, closing, engines, had, safe, untold,
                   thread, purge, history>>

\* The stop goes on without its waiter.
StopTimesOut(r) ==
    /\ pc[r] = "closing"
    /\ TimesOut
    /\ orphans' = orphans + 1 /\ Abort(r)
    /\ UNCHANGED <<disk, life, shown, closing, engine, restarting, had, safe,
                   untold, thread, purge, history>>

\* It is cancelled while it tells the clients, before it tells the engine.
StopUntold(r) ==
    /\ pc[r] = "closing"
    /\ TimesOut
    /\ untold' = untold \cup {r} /\ Abort(r)
    /\ UNCHANGED <<disk, life, shown, closing, engines, had, safe, thread,
                   purge, history>>

\* The readers of the directory have left, its databases are closed.
Drained(r) ==
    /\ pc[r] = "draining"
    /\ thread' = thread \cup {r} /\ Goes(r, "staging")
    /\ UNCHANGED <<disk, life, shown, closing, engines, had, safe, untold,
                   purge, history, bounds>>

\* The staging thread: one rename; a directory that is not there is left out.
Rename(r) ==
    /\ r \in thread /\ thread' = thread \ {r}
    /\ staged' = IF orig = "none" THEN staged ELSE [staged EXCEPT ![r] = orig]
    /\ orig' = "none"
    /\ UNCHANGED <<row, tomb, index, life, shown, closing, engines, local,
                   purge, history, bounds>>

\* It is refused, after the last retry.
RenameFails(r) ==
    /\ r \in thread /\ thread' = thread \ {r}
    /\ Fault
    /\ IF pc[r] = "staging" THEN Abort(r) ELSE UNCHANGED pc
    /\ UNCHANGED <<disk, life, shown, closing, engines, had, safe, untold,
                   purge, history>>

Staged(r) ==
    /\ pc[r] = "staging" /\ r \notin thread
    /\ row' = r /\ Goes(r, "committing")
    /\ UNCHANGED <<orig, staged, tomb, index, life, shown, closing, engines,
                   had, safe, untold, thread, purge, history, bounds>>

Commit(r) ==
    /\ pc[r] = "committing"
    /\ tomb' = TRUE /\ Goes(r, "committed")
    /\ UNCHANGED <<orig, staged, row, index, life, shown, closing, engines,
                   had, safe, untold, thread, purge, history, bounds>>

\* A database, the journal or the tombstone refuses.
StepFails(r) ==
    /\ \/ pc[r] \in {"draining", "committing"}
       \/ pc[r] = "staging" /\ r \notin thread
    /\ Fault
    /\ Abort(r)
    /\ UNCHANGED <<disk, life, shown, closing, engines, had, safe, untold,
                   thread, purge, history>>

\* A wait takes too long or the request is cancelled; a thread that has begun
\* goes on.
GiveUp(r) ==
    /\ pc[r] \in {"draining", "staging", "committing", "committed"}
    /\ TimesOut
    /\ Abort(r)
    /\ thread' \in {thread, thread \ {r}}
    /\ UNCHANGED <<disk, life, shown, closing, engines, had, safe, untold,
                   purge, history>>

-----------------------------------------------------------------------------
(* The rollback                                                            *)

\* restore_staged_path: never merge two trees.
PutBack(p) ==
    /\ staged[p] # "none" /\ orig = "none"
    /\ orig' = staged[p] /\ staged' = [staged EXCEPT ![p] = "none"]

Restore(r) ==
    /\ pc[r] = "restoring"
    /\ \/ staged[r] = "none" /\ Goes(r, "restored") /\ UNCHANGED <<orig, staged>>
       \/ staged[r] # "none" /\ orig # "none" /\ Goes(r, "stuck")
              /\ UNCHANGED <<orig, staged>>
       \/ PutBack(r) /\ Goes(r, "restored")
    /\ UNCHANGED <<row, tomb, index, life, shown, closing, engines, had,
                   safe, untold, thread, purge, history, bounds>>

RestoreFails(r) ==
    /\ pc[r] = "restoring" /\ staged[r] # "none" /\ orig = "none"
    /\ Fault
    /\ Goes(r, "stuck")
    /\ UNCHANGED <<disk, life, shown, closing, engines, had, safe, untold,
                   thread, purge, history>>

\* The journal row of the project is dropped, whoever wrote it and whether or
\* not the directory is back.
DropRow(r) ==
    /\ row' = NoRow
    /\ loose' = loose \cup Aside \cup ({r} \cap thread)

KeepRow(r) == UNCHANGED <<row, loose>>

\* Only a rollback in which nothing went wrong, of an engine that was closed,
\* lifts the fence and creates the engine again; where that engine cannot take
\* up what its predecessor had pending, the fence is back.
Reopened(r, dropped, recovered) ==
    LET ok    == pc[r] = "restored" /\ r \in safe /\ dropped
        again == ok /\ r \in had /\ shown
        fails == ~ok \/ (again /\ (tomb \/ ~recovered))
    IN
    /\ pc[r] \in {"restored", "stuck"}
    /\ recovered \/ (again /\ ~tomb)
    /\ Goes(r, IF fails THEN "failed" ELSE "ended")
    /\ closing' = fails
    /\ IF engine = "none" /\ again /\ ~tomb
       THEN engine' = "live" /\ Layout
       ELSE /\ engine' = IF engine = "none" /\ ~ok /\ r \in had
                         THEN IF r \in untold THEN "live" ELSE "stopped"
                         ELSE engine
            /\ UNCHANGED orig
    /\ UNCHANGED <<staged, tomb, index, life, shown, restarting, orphans,
                   had, safe, untold, thread, purge, stray>>

Reopen(r) == Reopened(r, TRUE, TRUE) /\ DropRow(r) /\ UNCHANGED bounds

ReopenUnrecovered(r) == Reopened(r, TRUE, FALSE) /\ DropRow(r) /\ Fault

ReopenFails(r) == Reopened(r, FALSE, TRUE) /\ KeepRow(r) /\ Fault

-----------------------------------------------------------------------------
(* After the commit                                                        *)

CleanedUnderFence(warned) ==
    /\ shown' = FALSE /\ engine' = "none" /\ UNCHANGED closing
    /\ index' \in {FALSE, index /\ warned}
    /\ IF warned THEN Fault ELSE UNCHANGED bounds

\* _cleanup_deleted_project_metadata; a part of it may be refused.
Cleaned(warned) ==
    /\ shown' = FALSE /\ closing' = FALSE /\ engine' = "none"
    /\ index' \in {FALSE, index /\ warned}
    /\ IF warned THEN Fault ELSE UNCHANGED bounds

Schedule(r, plan, warned) ==
    purge' = [purge EXCEPT ![r] = [at |-> "files", plan |-> plan,
                                   warned |-> warned]]

\* From the commit to the scheduled cleanup nothing suspends.  A request that
\* found the tombstone while aborting comes here too.
Cleanup(r) ==
    /\ pc[r] \in {"committed", "salvaged"}
    /\ row' = IF pc[r] = "committed" THEN r ELSE row
    /\ Goes(r, "ended")
    /\ \E w \in BOOLEAN :
           Cleaned(w) /\ Schedule(r, r, w \/ pc[r] = "salvaged")
    /\ UNCHANGED <<orig, staged, tomb, life, restarting, orphans, had, safe,
                   untold, thread, history>>

\* The client asks again after the commit: the same answer, and the cleanup
\* starts over from the row that is left.
Resume(r) ==
    /\ life = "up" /\ pc[r] = "idle" /\ tomb
    /\ restarting' = FALSE
    /\ Orphaned(engine # "none")
    /\ Goes(r, "ended")
    /\ \E w \in BOOLEAN :
           Cleaned(w) /\ Schedule(r, IF row = NoRow THEN NoPlan ELSE row, w)
    /\ UNCHANGED <<orig, staged, row, tomb, life, had, safe, untold, thread,
                   history>>

\* purge_staged_path: not while there is a directory at the old place.
Purged(plan) ==
    \/ plan = NoPlan /\ UNCHANGED staged
    \/ plan # NoPlan /\ orig = "none" /\ staged' = [staged EXCEPT ![plan] = "none"]

Files(r, at) == purge[r].at = "files" /\ purge' = [purge EXCEPT ![r].at = at]

PurgeFiles(r) ==
    /\ Files(r, "clean") /\ Purged(purge[r].plan)
    /\ UNCHANGED <<orig, row, tomb, index, life, shown, closing, engines,
                   local, thread, history, bounds>>

\* The directory is back at its old place, or the removal is refused.
PurgeFails(r) ==
    /\ Files(r, "dirty") /\ purge[r].plan # NoPlan
    /\ \/ orig # "none" /\ UNCHANGED bounds
       \/ orig = "none" /\ staged[purge[r].plan] # "none" /\ Fault
    /\ UNCHANGED <<disk, life, shown, closing, engines, local, thread,
                   history>>

PurgeRowAlways(r) ==
    /\ purge[r].at \in {"clean", "dirty"}
    /\ purge' = [purge EXCEPT ![r] = Off]
    /\ row' = NoRow
    /\ UNCHANGED <<orig, staged, tomb, index, life, shown, closing, engines,
                   local, thread, history, bounds>>

\* What is left to do stays in the journal.
PurgeRow(r) ==
    /\ purge[r].at \in {"clean", "dirty"}
    /\ purge' = [purge EXCEPT ![r] = Off]
    /\ row' = IF purge[r].at = "dirty" \/ purge[r].warned
              THEN purge[r].plan ELSE NoRow
    /\ UNCHANGED <<orig, staged, tomb, index, life, shown, closing, engines,
                   local, thread, history, bounds>>

\* The journal refuses.
PurgeRowFails(r) ==
    /\ purge[r].at \in {"clean", "dirty"}
    /\ Fault
    /\ purge' = [purge EXCEPT ![r] = Off]
    /\ UNCHANGED <<disk, life, shown, closing, engines, local, thread,
                   history>>

-----------------------------------------------------------------------------
(* The process ends and starts again                                       *)

Crash ==
    /\ life # "down" /\ crashes < MaxCrashes /\ crashes' = crashes + 1
    /\ life' = "down" /\ shown' = FALSE /\ closing' = FALSE
    /\ engine' = "none" /\ restarting' = FALSE /\ orphans' = 0
    /\ pc' = [r \in Requests |-> IF pc[r] = "idle" THEN "idle" ELSE "ended"]
    /\ thread' = {} /\ purge' = [r \in Requests |-> Off]
    /\ UNCHANGED <<disk, had, safe, untold, history, faults, timeouts>>

\* _recover_project_delete_transactions, first the paths of the row: with a
\* tombstone they are removed, without one they are put back.
Recovered(at) == life = "down" /\ life' = at

RecoverNothing == Recovered("clean") /\ UNCHANGED <<orig, staged>>

RecoverPaths ==
    LET p == row IN
    \/ /\ p \in {NoRow, NoPlan} /\ Recovered("clean") /\ UNCHANGED <<orig, staged>>
    \/ /\ p \in Requests /\ tomb
       /\ Recovered("clean") /\ Purged(p) /\ UNCHANGED orig
    \/ /\ p \in Requests /\ ~tomb
       /\ Recovered("clean")
       /\ \/ PutBack(p)
          \/ staged[p] = "none" /\ UNCHANGED <<orig, staged>>

PathsConflict ==
    /\ row \in Requests /\ orig # "none" /\ (tomb \/ staged[row] # "none")
    /\ Recovered("dirty") /\ UNCHANGED <<orig, staged>>

RecoverFirst ==
    /\ RecoverPaths \/ PathsConflict
    /\ UNCHANGED <<row, tomb, index, shown, closing, engines, local, thread,
                   purge, history, bounds>>

RecoverFails ==
    /\ row \in Requests /\ staged[row] # "none" /\ orig = "none"
    /\ Recovered("dirty")
    /\ Fault
    /\ UNCHANGED <<disk, shown, closing, engines, local, thread, purge,
                   history>>

\* Then the row; then the tombstone keeps what is left of the project out.
RecoverRow(warned) ==
    /\ life \in {"clean", "dirty"} /\ life' = "up"
    /\ warned => tomb
    /\ \/ life = "clean" /\ ~warned /\ row' = NoRow
       \/ life = "clean" /\ warned /\ row' \in {row, NoPlan} \ {NoRow}
       \/ life = "dirty" /\ row' = row
    /\ index' \in IF tomb THEN {FALSE, index /\ warned} ELSE {index}
    /\ shown' = (index /\ ~tomb)
    /\ IF warned THEN Fault ELSE UNCHANGED bounds
    /\ UNCHANGED <<orig, staged, tomb, closing, engines, local, thread,
                   purge, history>>

\* What was put back is in place, but the journal refuses to drop its row.
RecoverRowStays ==
    /\ life = "clean" /\ life' = "up"
    /\ ~tomb /\ row # NoRow
    /\ shown' = index
    /\ Fault
    /\ UNCHANGED <<disk, closing, engines, local, thread, purge, history>>

-----------------------------------------------------------------------------
(* The specification                                                       *)

Request(r) ==
    \/ Begin(r) \/ BeginFails(r) \/ Reject(r) \/ LockTimesOut(r) \/ Resume(r)
    \/ Stopped(r) \/ StopFails(r) \/ StopTimesOut(r) \/ StopUntold(r)
    \/ Drained(r)
    \/ Staged(r) \/ Commit(r) \/ StepFails(r) \/ GiveUp(r)
    \/ Restore(r) \/ RestoreFails(r)
    \/ Reopen(r) \/ ReopenFails(r) \/ ReopenUnrecovered(r)
    \/ Cleanup(r)

Staging(r) == Rename(r) \/ RenameFails(r)

Purging(r) ==
    PurgeFiles(r) \/ PurgeFails(r) \/ PurgeRow(r) \/ PurgeRowFails(r)

Recovery ==
    \/ RecoverFirst \/ RecoverFails
    \/ RecoverRowStays \/ \E w \in BOOLEAN : RecoverRow(w)

Next ==
    \/ Wake \/ Restart \/ Restarted \/ RestartFails \/ OrphanEnds
    \/ Crash \/ Recovery
    \/ \E r \in Requests : Request(r) \/ Staging(r) \/ Purging(r)

Spec == Init /\ [][Next]_vars

Proceeds(r) ==
    \/ Stopped(r) \/ Drained(r) \/ Staged(r) \/ Commit(r) \/ Restore(r)
    \/ Reopen(r) \/ Cleanup(r)

\* The event loop and the threads run, every stop ends, and a program that was
\* ended is started again.  Nobody has to delete or wake anything.
FairSpec ==
    /\ Spec
    /\ \A r \in Requests :
           WF_vars(Proceeds(r)) /\ WF_vars(Staging(r)) /\ WF_vars(Purging(r))
    /\ WF_vars(Recovery) /\ WF_vars(Restarted) /\ WF_vars(OrphanEnds)

-----------------------------------------------------------------------------
(* Correctness                                                             *)

Counts ==
    orphans \in Nat /\ faults \in Nat /\ timeouts \in Nat /\ crashes \in Nat

TypeOK ==
    /\ orig \in {"none", "data", "fresh"}
    /\ staged \in [Requests -> {"none", "data", "fresh"}]
    /\ row \in Requests \cup {NoRow, NoPlan}
    /\ tomb \in BOOLEAN /\ index \in BOOLEAN /\ shown \in BOOLEAN
    /\ closing \in BOOLEAN /\ restarting \in BOOLEAN /\ stray \in BOOLEAN
    /\ life \in {"down", "clean", "dirty", "up"}
    /\ engine \in {"none", "live", "stopped"}
    /\ pc \in [Requests -> {"idle", "closing", "draining", "staging",
                            "committing", "committed", "salvaged",
                            "restoring", "restored", "stuck", "failed",
                            "ended"}]
    /\ had \subseteq Requests /\ safe \subseteq Requests
    /\ untold \subseteq Requests
    /\ thread \subseteq Requests /\ loose \subseteq Requests
    /\ purge \in [Requests -> [at : {"off", "files", "clean", "dirty"},
                               plan : Requests \cup {NoPlan},
                               warned : BOOLEAN]]
    /\ Counts

\* Until the tombstone is written the project's data is in its place, or where
\* the journal says (server.py: "a missing tombstone means rollback").  Where
\* the journal has lost it, it is at least set aside; that takes a request that
\* rolls back without the fence (stray), or a rollback that drops its row
\* although the directory is not back or its staging thread still runs, or a
\* plan that is written over one that could not be recovered (loose).
RollbackPossible ==
    ~tomb => \/ orig = "data"
             \/ \E r \in Requests :
                    staged[r] = "data" /\ (row = r \/ r \in loose \/ stray)

\* After it, the journal names what was set aside until it is gone, and keeps a
\* row as long as projects.json has the project.
CleanupRemembered ==
    tomb /\ ~stray =>
        /\ \A r \in Requests : staged[r] # "none" => row = r \/ r \in loose
        /\ index => row # NoRow

\* A deletion that was committed is never rolled back, and nothing is removed
\* before it is.
CommitIsFinal ==
    [][/\ tomb => tomb'
       /\ tomb /\ orig # "data" /\ ~stray => orig' # "data"
       /\ \A r \in Requests :
              staged[r] # "none" /\ staged'[r] = "none" => tomb \/ orig' = staged[r]]_vars

\* Nobody creates an engine while a request has the directory, nor ever after
\* the commit.
FenceHolds ==
    ~stray /\ (tomb \/ \E r \in Requests :
                    pc[r] \in {"draining", "staging", "committing"})
        => engine # "live"

\* All or nothing: a directory that was set aside is put back or its project is
\* deleted.
AllOrNothing ==
    \A r \in Requests :
        staged[r] = "data"
            ~> \/ tomb \/ orig = "data" \/ stray \/ loose # {}
               \/ row = r /\ pc[r] \in {"ended", "failed"} /\ faults > 0

\* The fence does not outlive the request, unless its rollback has failed: its
\* engine was not closed, or its directory or its row is not back.
FenceEnds ==
    closing ~> ~closing \/ stray \/ \E r \in Requests : pc[r] = "failed"
=============================================================================
