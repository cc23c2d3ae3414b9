--------------------------- MODULE DeletionProofs ---------------------------
(***************************************************************************)
(* Safety of ProjectDeletion for any number of requests, faults, timeouts  *)
(* and crashes.  The inductive invariant has two parts: what holds of every*)
(* request (where its directory can be, that nothing is removed before the *)
(* commit), and what holds as long as no request rolls back without the    *)
(* fence: one request at a time has work to do, and what it still owes is  *)
(* what the journal names.                                                 *)
(***************************************************************************)
EXTENDS ProjectDeletion, TLAPS

Held == {"closing", "draining", "staging", "committing"}

Busy(q) == pc[q] \notin {"idle", "ended"}

\* The directory of q is set aside, or will be, and the journal has to say so.
Owed(q) == (staged[q] # "none" \/ q \in thread) /\ q \notin loose

\* A directory is staged once, by a thread that was started for it.
StagedOnce ==
    /\ \A q \in Requests :
           pc[q] \in {"idle", "closing", "draining"} => staged[q] = "none"
    /\ \A q \in thread :
           staged[q] = "none" /\ pc[q] \notin {"idle", "closing", "draining"}

AfterCommit ==
    \A q \in Requests :
        pc[q] \in {"committed", "salvaged"} \/ purge[q].at # "off" => tomb

NobodyWhenDown ==
    life # "up" =>
        /\ thread = {}
        /\ \A q \in Requests : ~Busy(q) /\ purge[q].at = "off"

DataKept == ~tomb => orig = "data" \/ \E q \in Requests : staged[q] = "data"

\* What holds whether or not the fence is kept.
Shape == StagedOnce /\ AfterCommit /\ NobodyWhenDown /\ DataKept

Alone == \A q, r \in Requests : Busy(q) /\ Busy(r) => q = r

Fenced ==
    ~tomb => \A q \in Requests : pc[q] \in Held \cup {"failed"} => closing

Decided ==
    tomb => \A q \in Requests :
                pc[q] \in {"idle", "committed", "salvaged", "ended"}

Owner ==
    \A q \in Requests :
        /\ pc[q] \in Held => row = q
        /\ pc[q] \in Held \cup {"committed", "salvaged"}
               => \A p \in Requests : Owed(p) => p = q

ThreadsWaitedFor ==
    \A q \in thread \ loose :
        pc[q] \in {"staging", "restoring", "restored", "stuck", "failed"}

Named == \A q \in Requests : Owed(q) => row = q

PurgesKnow ==
    \A p \in Requests :
        purge[p].at # "off" =>
            /\ \A q \in Requests :
                   Owed(q) => q = purge[p].plan /\ purge[p].at # "clean"
            /\ purge[p].warned \/ ~index

IndexKnown == tomb /\ index => row # NoRow

CleanMeansDone == life = "clean" => \A q \in Requests : ~Owed(q)

EngineOut ==
    tomb \/ (\E q \in Requests : pc[q] \in Held) => engine # "live"

Orderly ==
    /\ Alone /\ Fenced /\ Decided /\ Owner /\ ThreadsWaitedFor /\ Named
    /\ PurgesKnow /\ IndexKnown /\ CleanMeansDone /\ EngineOut

IInv ==
    /\ TypeOK /\ Shape
    /\ stray \/ Orderly

\* The initial state satisfies the invariant.
LEMMA InitInvariant == Init => IInv
<1> SUFFICES ASSUME Init PROVE IInv
  OBVIOUS
<1> USE DeletionAssumption DEF Init
<1>1. TypeOK
  BY DEF TypeOK, Counts, Off
<1>2. Shape
  BY DEF Shape, StagedOnce, AfterCommit, NobodyWhenDown, DataKept, Busy, Off
<1>3. Orderly
  BY DEF Orderly, Alone, Fenced, Decided, Owner, ThreadsWaitedFor, Named,
     PurgesKnow, IndexKnown, CleanMeansDone, EngineOut, Busy, Owed, Held, Off
<1> QED
  BY <1>1, <1>2, <1>3 DEF IInv

\* The counters stay natural numbers: whatever is refused or timed out adds one.
LEMMA StepCounts == Counts /\ [Next]_vars => Counts'
<1> SUFFICES ASSUME Counts, [Next]_vars PROVE Counts'
  OBVIOUS
<1> DEFINE Bounded == Fault \/ TimesOut \/ UNCHANGED bounds
<1>a. ASSUME Bounded, orphans' \in Nat PROVE Counts'
  BY <1>a DEF Counts, Fault, TimesOut, bounds
<1>b. ASSUME NEW owned \in BOOLEAN, Orphaned(owned) PROVE orphans' \in Nat
  <2>1. /\ (IF restarting THEN 1 ELSE 0) \in Nat
        /\ (IF owned THEN 1 ELSE 0) \in Nat
    OBVIOUS
  <2> QED
    BY <1>b, <2>1 DEF Counts, Orphaned
<1>c. orphans' = orphans => orphans' \in Nat
  BY DEF Counts
<1>1. ASSUME Wake PROVE Counts'
  <2>1. Bounded /\ orphans' = orphans
    BY <1>1 DEF Wake, engines
  <2> QED
    BY <1>a, <1>c, <2>1
<1>2. ASSUME Restart PROVE Counts'
  <2>1. Bounded /\ orphans' = orphans
    BY <1>2 DEF Restart, engines
  <2> QED
    BY <1>a, <1>c, <2>1
<1>3. ASSUME Restarted PROVE Counts'
  <2>1. Bounded /\ orphans' = orphans
    BY <1>3 DEF Restarted, engines
  <2> QED
    BY <1>a, <1>c, <2>1
<1>4. ASSUME RestartFails PROVE Counts'
  <2>1. Bounded /\ orphans' = orphans
    BY <1>4 DEF RestartFails, engines
  <2> QED
    BY <1>a, <1>c, <2>1
<1>5. ASSUME OrphanEnds PROVE Counts'
  BY <1>5 DEF OrphanEnds, bounds, Counts
<1>6. ASSUME NEW r \in Requests, Begin(r) PROVE Counts'
  <2>1. Bounded /\ (Orphaned(TRUE) \/ Orphaned(FALSE))
    BY <1>6 DEF Begin, Fences
  <2> QED
    BY <1>a, <1>b, <2>1
<1>7. ASSUME NEW r \in Requests, BeginFails(r) PROVE Counts'
  <2>1. Bounded /\ (Orphaned(TRUE) \/ Orphaned(FALSE))
    BY <1>7 DEF BeginFails, Fences
  <2> QED
    BY <1>a, <1>b, <2>1
<1>8. ASSUME NEW r \in Requests, Reject(r) PROVE Counts'
  <2>1. Bounded /\ orphans' = orphans
    BY <1>8 DEF Reject, engines
  <2> QED
    BY <1>a, <1>c, <2>1
<1>9. ASSUME NEW r \in Requests, LockTimesOut(r) PROVE Counts'
  <2>1. Bounded /\ orphans' = orphans
    BY <1>9 DEF LockTimesOut, engines
  <2> QED
    BY <1>a, <1>c, <2>1
<1>10. ASSUME NEW r \in Requests, Resume(r) PROVE Counts'
  <2>1. Bounded /\ (Orphaned(TRUE) \/ Orphaned(FALSE))
    BY <1>10 DEF Resume, Cleaned
  <2> QED
    BY <1>a, <1>b, <2>1
<1>11. ASSUME NEW r \in Requests, Stopped(r) PROVE Counts'
  <2>1. Bounded /\ orphans' = orphans
    BY <1>11 DEF Stopped, engines
  <2> QED
    BY <1>a, <1>c, <2>1
<1>12. ASSUME NEW r \in Requests, StopFails(r) PROVE Counts'
  <2>1. Bounded /\ orphans' = orphans
    BY <1>12 DEF StopFails, engines
  <2> QED
    BY <1>a, <1>c, <2>1
<1>13. ASSUME NEW r \in Requests, StopTimesOut(r) PROVE Counts'
  BY <1>13 DEF StopTimesOut, TimesOut, Counts
<1>14. ASSUME NEW r \in Requests, Drained(r) PROVE Counts'
  <2>1. Bounded /\ orphans' = orphans
    BY <1>14 DEF Drained, engines
  <2> QED
    BY <1>a, <1>c, <2>1
<1>15. ASSUME NEW r \in Requests, Staged(r) PROVE Counts'
  <2>1. Bounded /\ orphans' = orphans
    BY <1>15 DEF Staged, engines
  <2> QED
    BY <1>a, <1>c, <2>1
<1>16. ASSUME NEW r \in Requests, Commit(r) PROVE Counts'
  <2>1. Bounded /\ orphans' = orphans
    BY <1>16 DEF Commit, engines
  <2> QED
    BY <1>a, <1>c, <2>1
<1>17. ASSUME NEW r \in Requests, StepFails(r) PROVE Counts'
  <2>1. Bounded /\ orphans' = orphans
    BY <1>17 DEF StepFails, engines
  <2> QED
    BY <1>a, <1>c, <2>1
<1>18. ASSUME NEW r \in Requests, GiveUp(r) PROVE Counts'
  <2>1. Bounded /\ orphans' = orphans
    BY <1>18 DEF GiveUp, engines
  <2> QED
    BY <1>a, <1>c, <2>1
<1>19. ASSUME NEW r \in Requests, Restore(r) PROVE Counts'
  <2>1. Bounded /\ orphans' = orphans
    BY <1>19 DEF Restore, engines
  <2> QED
    BY <1>a, <1>c, <2>1
<1>20. ASSUME NEW r \in Requests, RestoreFails(r) PROVE Counts'
  <2>1. Bounded /\ orphans' = orphans
    BY <1>20 DEF RestoreFails, engines
  <2> QED
    BY <1>a, <1>c, <2>1
<1>21. ASSUME NEW r \in Requests, Reopen(r) PROVE Counts'
  <2>1. Bounded /\ orphans' = orphans
    BY <1>21 DEF Reopen, Reopened
  <2> QED
    BY <1>a, <1>c, <2>1
<1>22. ASSUME NEW r \in Requests, ReopenFails(r) PROVE Counts'
  <2>1. Bounded /\ orphans' = orphans
    BY <1>22 DEF ReopenFails, Reopened
  <2> QED
    BY <1>a, <1>c, <2>1
<1>23. ASSUME NEW r \in Requests, Cleanup(r) PROVE Counts'
  <2>1. Bounded /\ orphans' = orphans
    BY <1>23 DEF Cleanup, Cleaned, engines
  <2> QED
    BY <1>a, <1>c, <2>1
<1>24. ASSUME NEW r \in Requests, Rename(r) PROVE Counts'
  <2>1. Bounded /\ orphans' = orphans
    BY <1>24 DEF Rename, engines
  <2> QED
    BY <1>a, <1>c, <2>1
<1>25. ASSUME NEW r \in Requests, RenameFails(r) PROVE Counts'
  <2>1. Bounded /\ orphans' = orphans
    BY <1>25 DEF RenameFails, engines
  <2> QED
    BY <1>a, <1>c, <2>1
<1>26. ASSUME NEW r \in Requests, PurgeFiles(r) PROVE Counts'
  <2>1. Bounded /\ orphans' = orphans
    BY <1>26 DEF PurgeFiles, engines
  <2> QED
    BY <1>a, <1>c, <2>1
<1>27. ASSUME NEW r \in Requests, PurgeFails(r) PROVE Counts'
  <2>1. Bounded /\ orphans' = orphans
    BY <1>27 DEF PurgeFails, engines
  <2> QED
    BY <1>a, <1>c, <2>1
<1>28. ASSUME NEW r \in Requests, PurgeRow(r) PROVE Counts'
  <2>1. Bounded /\ orphans' = orphans
    BY <1>28 DEF PurgeRow, engines
  <2> QED
    BY <1>a, <1>c, <2>1
<1>29. ASSUME NEW r \in Requests, PurgeRowFails(r) PROVE Counts'
  <2>1. Bounded /\ orphans' = orphans
    BY <1>29 DEF PurgeRowFails, engines
  <2> QED
    BY <1>a, <1>c, <2>1
<1>30. ASSUME Crash PROVE Counts'
  BY <1>30 DEF Crash, Counts
<1>31. ASSUME RecoverFirst PROVE Counts'
  <2>1. Bounded /\ orphans' = orphans
    BY <1>31 DEF RecoverFirst, engines
  <2> QED
    BY <1>a, <1>c, <2>1
<1>32. ASSUME RecoverFails PROVE Counts'
  <2>1. Bounded /\ orphans' = orphans
    BY <1>32 DEF RecoverFails, engines
  <2> QED
    BY <1>a, <1>c, <2>1
<1>33. ASSUME NEW w \in BOOLEAN, RecoverRow(w) PROVE Counts'
  <2>1. Bounded /\ orphans' = orphans
    BY <1>33 DEF RecoverRow, engines
  <2> QED
    BY <1>a, <1>c, <2>1
<1>34. ASSUME NEW r \in Requests, StopUntold(r) PROVE Counts'
  <2>1. Bounded /\ orphans' = orphans
    BY <1>34 DEF StopUntold, engines
  <2> QED
    BY <1>a, <1>c, <2>1
<1>35. ASSUME NEW r \in Requests, ReopenUnrecovered(r) PROVE Counts'
  <2>1. Bounded /\ orphans' = orphans
    BY <1>35 DEF ReopenUnrecovered, Reopened
  <2> QED
    BY <1>a, <1>c, <2>1
<1>36. ASSUME RecoverRowStays PROVE Counts'
  <2>1. Bounded /\ orphans' = orphans
    BY <1>36 DEF RecoverRowStays, engines
  <2> QED
    BY <1>a, <1>c, <2>1
<1>37. CASE UNCHANGED vars
  BY <1>37 DEF vars, engines, bounds, Counts
<1> QED
  BY <1>1, <1>2, <1>3, <1>4, <1>5, <1>6, <1>7, <1>8, <1>9, <1>10, <1>11,
     <1>12, <1>13, <1>14, <1>15, <1>16, <1>17, <1>18, <1>19, <1>20, <1>21,
     <1>22, <1>23, <1>24, <1>25, <1>26, <1>27, <1>28, <1>29, <1>30, <1>31,
     <1>32, <1>33, <1>34, <1>35, <1>36, <1>37
  DEF Next, Request, Staging, Purging, Recovery

LEMMA StepTypes == TypeOK /\ [Next]_vars => TypeOK'
<1> SUFFICES ASSUME TypeOK, [Next]_vars PROVE TypeOK'
  OBVIOUS
<1>a. Counts'
  BY StepCounts DEF TypeOK
<1> USE <1>a, DeletionAssumption DEF TypeOK
<1>1. ASSUME Wake PROVE TypeOK'
  BY <1>1 DEF Wake, Layout, Activatable, disk, engines, local, history,
     bounds
<1>2. ASSUME Restart PROVE TypeOK'
  BY <1>2 DEF Restart, disk, engines, local, history, bounds
<1>3. ASSUME Restarted PROVE TypeOK'
  BY <1>3, ZenonT(30) DEF Restarted, Layout, Activatable, disk, engines, local, history,
     bounds
<1>4. ASSUME RestartFails PROVE TypeOK'
  BY <1>4, ZenonT(30) DEF RestartFails, disk, engines, local, history, bounds
<1>5. ASSUME OrphanEnds PROVE TypeOK'
  BY <1>5 DEF OrphanEnds, disk, engines, local, history, bounds
<1>6. ASSUME NEW r \in Requests, Begin(r) PROVE TypeOK'
  BY <1>6 DEF Begin, Fences, Goes, Aside, bounds
<1>7. ASSUME NEW r \in Requests, BeginFails(r) PROVE TypeOK'
  BY <1>7 DEF BeginFails, Fences, Goes
<1>8. ASSUME NEW r \in Requests, Reject(r) PROVE TypeOK'
  BY <1>8 DEF Reject, Goes, disk, engines, local, history, bounds
<1>9. ASSUME NEW r \in Requests, LockTimesOut(r) PROVE TypeOK'
  BY <1>9 DEF LockTimesOut, Goes, disk, engines, local, history, bounds
<1>10. ASSUME NEW r \in Requests, Resume(r) PROVE TypeOK'
  <2> DEFINE plan == IF row = NoRow THEN NoPlan ELSE row
  <2>1. PICK w \in BOOLEAN : Cleaned(w) /\ Schedule(r, plan, w)
    BY <1>10 DEF Resume
  <2>2. /\ index' \in BOOLEAN /\ shown' \in BOOLEAN
        /\ closing' \in BOOLEAN /\ engine' = "none"
    BY <2>1 DEF Cleaned
  <2>3. /\ plan \in Requests \cup {NoPlan}
        /\ purge' = [purge EXCEPT ![r] = [at |-> "files", plan |-> plan,
                                         warned |-> w]]
    BY <2>1 DEF Schedule
  <2> QED
    BY <1>10, <2>2, <2>3 DEF Resume, Goes, history
<1>11. ASSUME NEW r \in Requests, Stopped(r) PROVE TypeOK'
  BY <1>11 DEF Stopped, Goes, disk, engines, local, history, bounds
<1>12. ASSUME NEW r \in Requests, StopFails(r) PROVE TypeOK'
  BY <1>12 DEF StopFails, Goes, Abort, disk, engines, local, history, bounds
<1>13. ASSUME NEW r \in Requests, StopTimesOut(r) PROVE TypeOK'
  BY <1>13 DEF StopTimesOut, Goes, Abort, disk, engines, local, history,
     bounds
<1>14. ASSUME NEW r \in Requests, Drained(r) PROVE TypeOK'
  BY <1>14 DEF Drained, Goes, disk, engines, local, history, bounds
<1>15. ASSUME NEW r \in Requests, Staged(r) PROVE TypeOK'
  BY <1>15 DEF Staged, Goes, disk, engines, local, history, bounds
<1>16. ASSUME NEW r \in Requests, Commit(r) PROVE TypeOK'
  BY <1>16 DEF Commit, Goes, disk, engines, local, history, bounds
<1>17. ASSUME NEW r \in Requests, StepFails(r) PROVE TypeOK'
  BY <1>17 DEF StepFails, Goes, Abort, disk, engines, local, history, bounds
<1>18. ASSUME NEW r \in Requests, GiveUp(r) PROVE TypeOK'
  BY <1>18 DEF GiveUp, Goes, Abort, disk, engines, local, history, bounds
<1>19. ASSUME NEW r \in Requests, Restore(r) PROVE TypeOK'
  BY <1>19 DEF Restore, Goes, PutBack, disk, engines, local, history, bounds
<1>20. ASSUME NEW r \in Requests, RestoreFails(r) PROVE TypeOK'
  BY <1>20 DEF RestoreFails, Goes, disk, engines, local, history, bounds
<1>21. ASSUME NEW r \in Requests, Reopen(r) PROVE TypeOK'
  BY <1>21 DEF Reopen, Reopened, Goes, DropRow, Aside, Layout, bounds
<1>22. ASSUME NEW r \in Requests, ReopenFails(r) PROVE TypeOK'
  BY <1>22 DEF ReopenFails, Reopened, Goes, KeepRow, Layout
<1>23. ASSUME NEW r \in Requests, Cleanup(r) PROVE TypeOK'
  <2>1. PICK w \in BOOLEAN :
            Cleaned(w) /\ Schedule(r, r, w \/ pc[r] = "salvaged")
    BY <1>23 DEF Cleanup
  <2>2. /\ index' \in BOOLEAN /\ shown' \in BOOLEAN
        /\ closing' \in BOOLEAN /\ engine' = "none"
    BY <2>1 DEF Cleaned
  <2>3. purge' = [purge EXCEPT ![r] = [at |-> "files", plan |-> r,
                                       warned |-> w \/ pc[r] = "salvaged"]]
    BY <2>1 DEF Schedule
  <2> QED
    BY <1>23, <2>2, <2>3 DEF Cleanup, Goes, history
<1>24. ASSUME NEW r \in Requests, Rename(r) PROVE TypeOK'
  BY <1>24 DEF Rename, disk, engines, local, history, bounds
<1>25. ASSUME NEW r \in Requests, RenameFails(r) PROVE TypeOK'
  BY <1>25 DEF RenameFails, Goes, Abort, disk, engines, local, history,
     bounds
<1>26. ASSUME NEW r \in Requests, PurgeFiles(r) PROVE TypeOK'
  BY <1>26 DEF PurgeFiles, Files, Purged, disk, engines, local, history,
     bounds
<1>27. ASSUME NEW r \in Requests, PurgeFails(r) PROVE TypeOK'
  BY <1>27 DEF PurgeFails, Files, disk, engines, local, history, bounds
<1>28. ASSUME NEW r \in Requests, PurgeRow(r) PROVE TypeOK'
  BY <1>28 DEF PurgeRow, Off, disk, engines, local, history, bounds
<1>29. ASSUME NEW r \in Requests, PurgeRowFails(r) PROVE TypeOK'
  BY <1>29 DEF PurgeRowFails, Off, disk, engines, local, history, bounds
<1>30. ASSUME Crash PROVE TypeOK'
  BY <1>30 DEF Crash, Off, disk, engines, local, history, bounds
<1>31. ASSUME RecoverFirst PROVE TypeOK'
  BY <1>31 DEF RecoverFirst, RecoverPaths, PathsConflict, Recovered,
     PutBack, Purged, disk, engines, local, history, bounds
<1>32. ASSUME RecoverFails PROVE TypeOK'
  BY <1>32 DEF RecoverFails, Recovered, disk, engines, local, history,
     bounds
<1>33. ASSUME NEW w \in BOOLEAN, RecoverRow(w) PROVE TypeOK'
  BY <1>33 DEF RecoverRow, disk, engines, local, history, bounds
<1>34. ASSUME NEW r \in Requests, StopUntold(r) PROVE TypeOK'
  BY <1>34 DEF StopUntold, Goes, Abort, disk, engines, local, history, bounds
<1>35. ASSUME NEW r \in Requests, ReopenUnrecovered(r) PROVE TypeOK'
  BY <1>35 DEF ReopenUnrecovered, Reopened, Goes, DropRow, Aside, Layout
<1>36. ASSUME RecoverRowStays PROVE TypeOK'
  BY <1>36 DEF RecoverRowStays, disk, engines, local, history, bounds
<1>37. CASE UNCHANGED vars
  BY <1>37 DEF vars, disk, engines, local, history, bounds
<1> QED
  BY <1>1, <1>2, <1>3, <1>4, <1>5, <1>6, <1>7, <1>8, <1>9, <1>10, <1>11,
     <1>12, <1>13, <1>14, <1>15, <1>16, <1>17, <1>18, <1>19, <1>20, <1>21,
     <1>22, <1>23, <1>24, <1>25, <1>26, <1>27, <1>28, <1>29, <1>30, <1>31,
     <1>32, <1>33, <1>34, <1>35, <1>36, <1>37
  DEF Next, Request, Staging, Purging, Recovery

\* Where directories can be does not depend on the fence.
LEMMA StepShape == TypeOK /\ Shape /\ [Next]_vars => Shape'
<1> SUFFICES ASSUME TypeOK, Shape, [Next]_vars PROVE Shape'
  OBVIOUS
<1> USE DeletionAssumption
    DEF TypeOK, Shape, StagedOnce, AfterCommit, NobodyWhenDown, DataKept, Busy
<1>1. ASSUME Wake PROVE Shape'
  BY <1>1 DEF Wake, Layout, Activatable, disk, engines, local, history,
     bounds
<1>2. ASSUME Restart PROVE Shape'
  BY <1>2 DEF Restart, disk, engines, local, history, bounds
<1>3. ASSUME Restarted PROVE Shape'
  BY <1>3 DEF Restarted, Layout, Activatable, disk, engines, local, history,
     bounds
<1>4. ASSUME RestartFails PROVE Shape'
  BY <1>4 DEF RestartFails, disk, engines, local, history, bounds
<1>5. ASSUME OrphanEnds PROVE Shape'
  BY <1>5 DEF OrphanEnds, disk, engines, local, history, bounds
<1>6. ASSUME NEW r \in Requests, Begin(r) PROVE Shape'
  BY <1>6 DEF Begin, Fences, Goes, Aside, bounds
<1>7. ASSUME NEW r \in Requests, BeginFails(r) PROVE Shape'
  BY <1>7 DEF BeginFails, Fences, Goes
<1>8. ASSUME NEW r \in Requests, Reject(r) PROVE Shape'
  BY <1>8 DEF Reject, Goes, disk, engines, local, history, bounds
<1>9. ASSUME NEW r \in Requests, LockTimesOut(r) PROVE Shape'
  BY <1>9 DEF LockTimesOut, Goes, disk, engines, local, history, bounds
<1>10. ASSUME NEW r \in Requests, Resume(r) PROVE Shape'
  BY <1>10 DEF Resume, Goes, Cleaned, Schedule, disk, engines, local,
     history, bounds
<1>11. ASSUME NEW r \in Requests, Stopped(r) PROVE Shape'
  BY <1>11 DEF Stopped, Goes, disk, engines, local, history, bounds
<1>12. ASSUME NEW r \in Requests, StopFails(r) PROVE Shape'
  BY <1>12 DEF StopFails, Goes, Abort, disk, engines, local, history, bounds
<1>13. ASSUME NEW r \in Requests, StopTimesOut(r) PROVE Shape'
  BY <1>13 DEF StopTimesOut, Goes, Abort, disk, engines, local, history,
     bounds
<1>14. ASSUME NEW r \in Requests, Drained(r) PROVE Shape'
  BY <1>14 DEF Drained, Goes, disk, engines, local, history, bounds
<1>15. ASSUME NEW r \in Requests, Staged(r) PROVE Shape'
  BY <1>15 DEF Staged, Goes, disk, engines, local, history, bounds
<1>16. ASSUME NEW r \in Requests, Commit(r) PROVE Shape'
  BY <1>16 DEF Commit, Goes, disk, engines, local, history, bounds
<1>17. ASSUME NEW r \in Requests, StepFails(r) PROVE Shape'
  BY <1>17 DEF StepFails, Goes, Abort, disk, engines, local, history, bounds
<1>18. ASSUME NEW r \in Requests, GiveUp(r) PROVE Shape'
  BY <1>18 DEF GiveUp, Goes, Abort, disk, engines, local, history, bounds
<1>19. ASSUME NEW r \in Requests, Restore(r) PROVE Shape'
  BY <1>19 DEF Restore, Goes, PutBack, disk, engines, local, history, bounds
<1>20. ASSUME NEW r \in Requests, RestoreFails(r) PROVE Shape'
  BY <1>20 DEF RestoreFails, Goes, disk, engines, local, history, bounds
<1>21. ASSUME NEW r \in Requests, Reopen(r) PROVE Shape'
  BY <1>21 DEF Reopen, Reopened, Goes, DropRow, Aside, Layout, bounds
<1>22. ASSUME NEW r \in Requests, ReopenFails(r) PROVE Shape'
  BY <1>22 DEF ReopenFails, Reopened, Goes, KeepRow, Layout
<1>23. ASSUME NEW r \in Requests, Cleanup(r) PROVE Shape'
  BY <1>23 DEF Cleanup, Goes, Cleaned, Schedule, disk, engines, local,
     history, bounds
<1>24. ASSUME NEW r \in Requests, Rename(r) PROVE Shape'
  BY <1>24 DEF Rename, disk, engines, local, history, bounds
<1>25. ASSUME NEW r \in Requests, RenameFails(r) PROVE Shape'
  BY <1>25 DEF RenameFails, Goes, Abort, disk, engines, local, history,
     bounds
<1>26. ASSUME NEW r \in Requests, PurgeFiles(r) PROVE Shape'
  BY <1>26 DEF PurgeFiles, Files, Purged, disk, engines, local, history,
     bounds
<1>27. ASSUME NEW r \in Requests, PurgeFails(r) PROVE Shape'
  BY <1>27 DEF PurgeFails, Files, disk, engines, local, history, bounds
<1>28. ASSUME NEW r \in Requests, PurgeRow(r) PROVE Shape'
  BY <1>28 DEF PurgeRow, Off, disk, engines, local, history, bounds
<1>29. ASSUME NEW r \in Requests, PurgeRowFails(r) PROVE Shape'
  BY <1>29 DEF PurgeRowFails, Off, disk, engines, local, history, bounds
<1>30. ASSUME Crash PROVE Shape'
  BY <1>30 DEF Crash, Off, disk, engines, local, history, bounds
<1>31. ASSUME RecoverFirst PROVE Shape'
  BY <1>31 DEF RecoverFirst, RecoverPaths, PathsConflict, Recovered,
     PutBack, Purged, disk, engines, local, history, bounds
<1>32. ASSUME RecoverFails PROVE Shape'
  BY <1>32 DEF RecoverFails, Recovered, disk, engines, local, history,
     bounds
<1>33. ASSUME NEW w \in BOOLEAN, RecoverRow(w) PROVE Shape'
  BY <1>33 DEF RecoverRow, disk, engines, local, history, bounds
<1>34. ASSUME NEW r \in Requests, StopUntold(r) PROVE Shape'
  BY <1>34 DEF StopUntold, Goes, Abort, disk, engines, local, history, bounds
<1>35. ASSUME NEW r \in Requests, ReopenUnrecovered(r) PROVE Shape'
  BY <1>35 DEF ReopenUnrecovered, Reopened, Goes, DropRow, Aside, Layout
<1>36. ASSUME RecoverRowStays PROVE Shape'
  BY <1>36 DEF RecoverRowStays, disk, engines, local, history, bounds
<1>37. CASE UNCHANGED vars
  BY <1>37 DEF vars, disk, engines, local, history, bounds
<1> QED
  BY <1>1, <1>2, <1>3, <1>4, <1>5, <1>6, <1>7, <1>8, <1>9, <1>10, <1>11,
     <1>12, <1>13, <1>14, <1>15, <1>16, <1>17, <1>18, <1>19, <1>20, <1>21,
     <1>22, <1>23, <1>24, <1>25, <1>26, <1>27, <1>28, <1>29, <1>30, <1>31,
     <1>32, <1>33, <1>34, <1>35, <1>36, <1>37
  DEF Next, Request, Staging, Purging, Recovery

\* A request that gets the fence, with no rollback under way, is alone.
LEMMA BeginsAlone ==
    ASSUME TypeOK, AfterCommit, Orderly, ~stray',
           NEW r \in Requests, Fences(r)
    PROVE  \A q \in Requests : ~Busy(q) /\ (q \in thread => q \in loose)
<1>1. ASSUME NEW q \in Requests PROVE ~Busy(q)
  BY DEF TypeOK, AfterCommit, Orderly, Fenced, Held, Busy, Fences
<1> QED
  BY <1>1 DEF TypeOK, Orderly, ThreadsWaitedFor, Busy

\* A cleanup that is scheduled with everything that is owed knows what to keep.
LEMMA SchedulesKnown ==
    ASSUME TypeOK, PurgesKnow, NEW r \in Requests,
           NEW plan \in Requests \cup {NoPlan},
           NEW w \in BOOLEAN, NEW v \in BOOLEAN,
           Cleaned(w), w => v, Schedule(r, plan, v),
           UNCHANGED <<staged, thread, loose>>,
           \A q \in Requests : Owed(q) => q = plan
    PROVE  PurgesKnow'
<1>1. index' => index /\ v
  BY DEF Cleaned, TypeOK
<1>2. purge' = [purge EXCEPT ![r] = [at |-> "files", plan |-> plan,
                                     warned |-> v]]
  BY DEF Schedule
<1>3. \A q \in Requests : Owed(q)' <=> Owed(q)
  BY DEF Owed
<1> SUFFICES ASSUME NEW p \in Requests, purge'[p].at # "off"
             PROVE  /\ \A q \in Requests :
                           Owed(q)' => /\ q = purge'[p].plan
                                       /\ purge'[p].at # "clean"
                    /\ purge'[p].warned \/ ~index'
  BY DEF PurgesKnow
<1>4. CASE p = r
  BY <1>1, <1>2, <1>3, <1>4 DEF TypeOK
<1>5. CASE p # r
  <2>1. purge'[p] = purge[p]
    BY <1>2, <1>5 DEF TypeOK
  <2> QED
    BY <1>1, <1>3, <2>1 DEF PurgesKnow
<1> QED
  BY <1>4, <1>5

\* A rollback that has failed keeps the fence.
LEMMA FailedIsFenced ==
    ASSUME TypeOK, NEW r \in Requests, NEW dropped \in BOOLEAN,
           NEW recovered \in BOOLEAN, Reopened(r, dropped, recovered)
    PROVE  pc'[r] = "failed" => closing'
BY DEF TypeOK, Reopened, Goes

\* A request that is answered again takes over the plan that is left.
LEMMA ResumesKnown ==
    ASSUME TypeOK, Orderly, NEW r \in Requests, Resume(r)
    PROVE  PurgesKnow'
<1> DEFINE plan == IF row = NoRow THEN NoPlan ELSE row
<1>1. PICK w \in BOOLEAN : Cleaned(w) /\ Schedule(r, plan, w)
  BY DEF Resume
<1>2. PICK p \in Requests \cup {NoPlan} : p = plan
  BY DEF TypeOK
<1>3. Schedule(r, p, w) /\ \A q \in Requests : Owed(q) => q = p
  BY <1>1, <1>2, DeletionAssumption DEF Orderly, Named
<1>4. UNCHANGED <<staged, thread, loose>>
  BY DEF Resume, history
<1> HIDE DEF plan
<1> QED
  BY <1>1, <1>3, <1>4, SchedulesKnown DEF Orderly

\* The fence is kept by a step after which no request has rolled back without
\* it.
LEMMA StepOrderly ==
    ASSUME TypeOK, Shape, Orderly, [Next]_vars, ~stray'
    PROVE  Orderly'
<1> USE DeletionAssumption
    DEF TypeOK, Shape, StagedOnce, AfterCommit, NobodyWhenDown, Busy, Owed,
        Held, Orderly, Alone, Fenced, Decided, Owner, ThreadsWaitedFor, Named,
        PurgesKnow, IndexKnown, CleanMeansDone, EngineOut
<1>1. ASSUME Wake PROVE Orderly'
  BY <1>1 DEF Wake, Layout, Activatable, disk, engines, local, history,
     bounds
<1>2. ASSUME Restart PROVE Orderly'
  BY <1>2 DEF Restart, disk, engines, local, history, bounds
<1>3. ASSUME Restarted PROVE Orderly'
  BY <1>3 DEF Restarted, Layout, Activatable, disk, engines, local, history,
     bounds
<1>4. ASSUME RestartFails PROVE Orderly'
  BY <1>4 DEF RestartFails, disk, engines, local, history, bounds
<1>5. ASSUME OrphanEnds PROVE Orderly'
  BY <1>5 DEF OrphanEnds, disk, engines, local, history, bounds
<1>6. ASSUME NEW r \in Requests, Begin(r) PROVE Orderly'
  <2>1. \A q \in Requests : ~Busy(q) /\ (q \in thread => q \in loose)
    BY <1>6, BeginsAlone DEF Begin
  <2>2. \A q \in Requests : q # r => pc'[q] = pc[q]
    BY <1>6 DEF Begin, Fences, Goes
  <2>3. Alone'
    BY <1>6, <2>1, <2>2 DEF Begin, Fences, Goes, Aside, bounds
  <2>4. Fenced'
    BY <1>6, <2>1, <2>2 DEF Begin, Fences, Goes, Aside, bounds
  <2>5. Decided'
    BY <1>6, <2>1, <2>2 DEF Begin, Fences, Goes, Aside, bounds
  <2>6. Owner'
    BY <1>6, <2>1, <2>2 DEF Begin, Fences, Goes, Aside, bounds
  <2>7. ThreadsWaitedFor'
    BY <1>6, <2>1, <2>2 DEF Begin, Fences, Goes, Aside, bounds
  <2>8. Named'
    BY <1>6, <2>1, <2>2 DEF Begin, Fences, Goes, Aside, bounds
  <2>9. PurgesKnow'
    BY <1>6, <2>1, <2>2 DEF Begin, Fences, Goes, Aside, bounds
  <2>10. IndexKnown'
    BY <1>6, <2>1, <2>2 DEF Begin, Fences, Goes, Aside, bounds
  <2>11. CleanMeansDone'
    BY <1>6, <2>1, <2>2 DEF Begin, Fences, Goes, Aside, bounds
  <2>12. EngineOut'
    BY <1>6, <2>1, <2>2 DEF Begin, Fences, Goes, Aside, bounds
  <2> QED
    BY <2>3, <2>4, <2>5, <2>6, <2>7, <2>8, <2>9, <2>10, <2>11, <2>12 DEF
       Orderly
<1>7. ASSUME NEW r \in Requests, BeginFails(r) PROVE Orderly'
  <2>1. \A q \in Requests : ~Busy(q) /\ (q \in thread => q \in loose)
    BY <1>7, BeginsAlone DEF BeginFails
  <2>2. \A q \in Requests : q # r => pc'[q] = pc[q]
    BY <1>7 DEF BeginFails, Fences, Goes
  <2>3. Alone'
    BY <1>7, <2>1, <2>2 DEF BeginFails, Fences, Goes
  <2>4. Fenced'
    BY <1>7, <2>1, <2>2 DEF BeginFails, Fences, Goes
  <2>5. Decided'
    BY <1>7, <2>1, <2>2 DEF BeginFails, Fences, Goes
  <2>6. Owner'
    BY <1>7, <2>1, <2>2 DEF BeginFails, Fences, Goes
  <2>7. ThreadsWaitedFor'
    BY <1>7, <2>1, <2>2 DEF BeginFails, Fences, Goes
  <2>8. Named'
    BY <1>7, <2>1, <2>2 DEF BeginFails, Fences, Goes
  <2>9. PurgesKnow'
    BY <1>7, <2>1, <2>2 DEF BeginFails, Fences, Goes
  <2>10. IndexKnown'
    BY <1>7, <2>1, <2>2 DEF BeginFails, Fences, Goes
  <2>11. CleanMeansDone'
    BY <1>7, <2>1, <2>2 DEF BeginFails, Fences, Goes
  <2>12. EngineOut'
    BY <1>7, <2>1, <2>2 DEF BeginFails, Fences, Goes
  <2> QED
    BY <2>3, <2>4, <2>5, <2>6, <2>7, <2>8, <2>9, <2>10, <2>11, <2>12 DEF
       Orderly
<1>8. ASSUME NEW r \in Requests, Reject(r) PROVE Orderly'
  BY <1>8 DEF Reject, Goes, disk, engines, local, history, bounds
<1>9. ASSUME NEW r \in Requests, LockTimesOut(r) PROVE Orderly'
  BY <1>9 DEF LockTimesOut, Goes, disk, engines, local, history, bounds
<1>10. ASSUME NEW r \in Requests, Resume(r) PROVE Orderly'
  <2>3. Alone'
    BY <1>10 DEF Resume, Goes, Cleaned, Schedule, disk, engines, local,
       history, bounds
  <2>4. Fenced'
    BY <1>10 DEF Resume, Goes, Cleaned, Schedule, disk, engines, local,
       history, bounds
  <2>5. Decided'
    BY <1>10 DEF Resume, Goes, Cleaned, Schedule, disk, engines, local,
       history, bounds
  <2>6. Owner'
    BY <1>10 DEF Resume, Goes, Cleaned, Schedule, disk, engines, local,
       history, bounds
  <2>7. ThreadsWaitedFor'
    BY <1>10 DEF Resume, Goes, Cleaned, Schedule, disk, engines, local,
       history, bounds
  <2>8. Named'
    BY <1>10 DEF Resume, Goes, Cleaned, Schedule, disk, engines, local,
       history, bounds
  <2>9. PurgesKnow'
    BY <1>10, ResumesKnown
  <2>10. IndexKnown'
    BY <1>10 DEF Resume, Goes, Cleaned, Schedule, disk, engines, local,
       history, bounds
  <2>11. CleanMeansDone'
    BY <1>10 DEF Resume, Goes, Cleaned, Schedule, disk, engines, local,
       history, bounds
  <2>12. EngineOut'
    BY <1>10 DEF Resume, Goes, Cleaned, Schedule, disk, engines, local,
       history, bounds
  <2> QED
    BY <2>3, <2>4, <2>5, <2>6, <2>7, <2>8, <2>9, <2>10, <2>11, <2>12 DEF
       Orderly
<1>11. ASSUME NEW r \in Requests, Stopped(r) PROVE Orderly'
  BY <1>11 DEF Stopped, Goes, disk, engines, local, history, bounds
<1>12. ASSUME NEW r \in Requests, StopFails(r) PROVE Orderly'
  BY <1>12 DEF StopFails, Goes, Abort, disk, engines, local, history, bounds
<1>13. ASSUME NEW r \in Requests, StopTimesOut(r) PROVE Orderly'
  BY <1>13 DEF StopTimesOut, Goes, Abort, disk, engines, local, history,
     bounds
<1>14. ASSUME NEW r \in Requests, Drained(r) PROVE Orderly'
  BY <1>14 DEF Drained, Goes, disk, engines, local, history, bounds
<1>15. ASSUME NEW r \in Requests, Staged(r) PROVE Orderly'
  BY <1>15 DEF Staged, Goes, disk, engines, local, history, bounds
<1>16. ASSUME NEW r \in Requests, Commit(r) PROVE Orderly'
  BY <1>16 DEF Commit, Goes, disk, engines, local, history, bounds
<1>17. ASSUME NEW r \in Requests, StepFails(r) PROVE Orderly'
  BY <1>17 DEF StepFails, Goes, Abort, disk, engines, local, history, bounds
<1>18. ASSUME NEW r \in Requests, GiveUp(r) PROVE Orderly'
  BY <1>18 DEF GiveUp, Goes, Abort, disk, engines, local, history, bounds
<1>19. ASSUME NEW r \in Requests, Restore(r) PROVE Orderly'
  BY <1>19, SMTT(30) DEF Restore, Goes, PutBack, disk, engines, local, history, bounds
<1>20. ASSUME NEW r \in Requests, RestoreFails(r) PROVE Orderly'
  BY <1>20 DEF RestoreFails, Goes, disk, engines, local, history, bounds
<1>21. ASSUME NEW r \in Requests, Reopen(r) PROVE Orderly'
  <2>1. Busy(r) /\ \A q \in Requests : Busy(q) => q = r
    BY <1>21 DEF Reopen, Reopened
  <2>2. \A q \in Requests : q # r => pc'[q] = pc[q]
    BY <1>21 DEF Reopen, Reopened, Goes
  <2>a. pc'[r] \in {"ended", "failed"}
    BY <1>21 DEF Reopen, Reopened, Goes
  <2>b. pc'[r] = "failed" => closing'
    BY <1>21, FailedIsFenced DEF Reopen
  <2>3. Alone'
    BY <1>21, <2>1, <2>2 DEF Reopen, Reopened, Goes, DropRow, Aside, Layout,
       bounds
  <2>4. Fenced'
    BY <2>1, <2>2, <2>a, <2>b
  <2>5. Decided'
    BY <1>21, <2>1, <2>2 DEF Reopen, Reopened, Goes, DropRow, Aside, Layout,
       bounds
  <2>6. Owner'
    BY <1>21, <2>1, <2>2 DEF Reopen, Reopened, Goes, DropRow, Aside, Layout,
       bounds
  <2>7. ThreadsWaitedFor'
    BY <1>21, <2>1, <2>2 DEF Reopen, Reopened, Goes, DropRow, Aside, Layout,
       bounds
  <2>8. Named'
    BY <1>21, <2>1, <2>2 DEF Reopen, Reopened, Goes, DropRow, Aside, Layout,
       bounds
  <2>9. PurgesKnow'
    BY <1>21, <2>1, <2>2 DEF Reopen, Reopened, Goes, DropRow, Aside, Layout,
       bounds
  <2>10. IndexKnown'
    BY <1>21, <2>1, <2>2 DEF Reopen, Reopened, Goes, DropRow, Aside, Layout,
       bounds
  <2>11. CleanMeansDone'
    BY <1>21, <2>1, <2>2 DEF Reopen, Reopened, Goes, DropRow, Aside, Layout,
       bounds
  <2>12. EngineOut'
    BY <1>21, <2>1, <2>2 DEF Reopen, Reopened, Goes, DropRow, Aside, Layout,
       bounds
  <2> QED
    BY <2>3, <2>4, <2>5, <2>6, <2>7, <2>8, <2>9, <2>10, <2>11, <2>12 DEF
       Orderly
<1>22. ASSUME NEW r \in Requests, ReopenFails(r) PROVE Orderly'
  <2>1. Busy(r) /\ \A q \in Requests : Busy(q) => q = r
    BY <1>22 DEF ReopenFails, Reopened
  <2>2. \A q \in Requests : q # r => pc'[q] = pc[q]
    BY <1>22 DEF ReopenFails, Reopened, Goes
  <2>a. pc'[r] \in {"ended", "failed"}
    BY <1>22 DEF ReopenFails, Reopened, Goes
  <2>b. pc'[r] = "failed" => closing'
    BY <1>22, FailedIsFenced DEF ReopenFails
  <2>3. Alone'
    BY <1>22, <2>1, <2>2 DEF ReopenFails, Reopened, Goes, KeepRow, Layout
  <2>4. Fenced'
    BY <2>1, <2>2, <2>a, <2>b
  <2>5. Decided'
    BY <1>22, <2>1, <2>2 DEF ReopenFails, Reopened, Goes, KeepRow, Layout
  <2>6. Owner'
    BY <1>22, <2>1, <2>2 DEF ReopenFails, Reopened, Goes, KeepRow, Layout
  <2>7. ThreadsWaitedFor'
    BY <1>22, <2>1, <2>2 DEF ReopenFails, Reopened, Goes, KeepRow, Layout
  <2>8. Named'
    BY <1>22, <2>1, <2>2 DEF ReopenFails, Reopened, Goes, KeepRow, Layout
  <2>9. PurgesKnow'
    BY <1>22, <2>1, <2>2 DEF ReopenFails, Reopened, Goes, KeepRow, Layout
  <2>10. IndexKnown'
    BY <1>22, <2>1, <2>2 DEF ReopenFails, Reopened, Goes, KeepRow, Layout
  <2>11. CleanMeansDone'
    BY <1>22, <2>1, <2>2 DEF ReopenFails, Reopened, Goes, KeepRow, Layout
  <2>12. EngineOut'
    BY <1>22, <2>1, <2>2 DEF ReopenFails, Reopened, Goes, KeepRow, Layout
  <2> QED
    BY <2>3, <2>4, <2>5, <2>6, <2>7, <2>8, <2>9, <2>10, <2>11, <2>12 DEF
       Orderly
<1>23. ASSUME NEW r \in Requests, Cleanup(r) PROVE Orderly'
  <2>3. Alone'
    BY <1>23 DEF Cleanup, Goes, Cleaned, Schedule, disk, engines,
       local, history, bounds
  <2>4. Fenced'
    BY <1>23 DEF Cleanup, Goes, Cleaned, Schedule, disk, engines,
       local, history, bounds
  <2>5. Decided'
    BY <1>23 DEF Cleanup, Goes, Cleaned, Schedule, disk, engines,
       local, history, bounds
  <2>6. Owner'
    BY <1>23 DEF Cleanup, Goes, Cleaned, Schedule, disk, engines,
       local, history, bounds
  <2>7. ThreadsWaitedFor'
    BY <1>23 DEF Cleanup, Goes, Cleaned, Schedule, disk, engines,
       local, history, bounds
  <2>8. Named'
    BY <1>23 DEF Cleanup, Goes, Cleaned, Schedule, disk, engines,
       local, history, bounds
  <2>9. PurgesKnow'
    <3>1. PICK w \in BOOLEAN :
              Cleaned(w) /\ Schedule(r, r, w \/ pc[r] = "salvaged")
      BY <1>23 DEF Cleanup
    <3>2. \A q \in Requests : Owed(q) => q = r
      BY <1>23 DEF Cleanup
    <3>3. /\ UNCHANGED <<staged, thread, loose>>
          /\ (w \/ pc[r] = "salvaged") \in BOOLEAN
      BY <1>23 DEF Cleanup, history
    <3> QED
      BY SMTT(30), <3>1, <3>2, <3>3, SchedulesKnown
  <2>10. IndexKnown'
    BY <1>23 DEF Cleanup, Goes, Cleaned, Schedule, disk, engines,
       local, history, bounds
  <2>11. CleanMeansDone'
    BY <1>23 DEF Cleanup, Goes, Cleaned, Schedule, disk, engines,
       local, history, bounds
  <2>12. EngineOut'
    BY <1>23 DEF Cleanup, Goes, Cleaned, Schedule, disk, engines,
       local, history, bounds
  <2> QED
    BY <2>3, <2>4, <2>5, <2>6, <2>7, <2>8, <2>9, <2>10, <2>11, <2>12 DEF
       Orderly
<1>24. ASSUME NEW r \in Requests, Rename(r) PROVE Orderly'
  BY <1>24 DEF Rename, disk, engines, local, history, bounds
<1>25. ASSUME NEW r \in Requests, RenameFails(r) PROVE Orderly'
  BY <1>25 DEF RenameFails, Goes, Abort, disk, engines, local, history,
     bounds
<1>26. ASSUME NEW r \in Requests, PurgeFiles(r) PROVE Orderly'
  BY <1>26 DEF PurgeFiles, Files, Purged, disk, engines, local, history,
     bounds
<1>27. ASSUME NEW r \in Requests, PurgeFails(r) PROVE Orderly'
  BY <1>27 DEF PurgeFails, Files, disk, engines, local, history, bounds
<1>28. ASSUME NEW r \in Requests, PurgeRow(r) PROVE Orderly'
  BY <1>28 DEF PurgeRow, Off, disk, engines, local, history, bounds
<1>29. ASSUME NEW r \in Requests, PurgeRowFails(r) PROVE Orderly'
  BY <1>29 DEF PurgeRowFails, Off, disk, engines, local, history, bounds
<1>30. ASSUME Crash PROVE Orderly'
  BY <1>30 DEF Crash, Off, disk, engines, local, history, bounds
<1>31. ASSUME RecoverFirst PROVE Orderly'
  BY <1>31 DEF RecoverFirst, RecoverPaths, PathsConflict, Recovered,
     PutBack, Purged, disk, engines, local, history, bounds
<1>32. ASSUME RecoverFails PROVE Orderly'
  BY <1>32 DEF RecoverFails, Recovered, disk, engines, local, history,
     bounds
<1>33. ASSUME NEW w \in BOOLEAN, RecoverRow(w) PROVE Orderly'
  BY <1>33 DEF RecoverRow, disk, engines, local, history, bounds
<1>34. ASSUME NEW r \in Requests, StopUntold(r) PROVE Orderly'
  BY <1>34 DEF StopUntold, Goes, Abort, disk, engines, local, history, bounds
<1>35. ASSUME NEW r \in Requests, ReopenUnrecovered(r) PROVE Orderly'
  <2>1. Busy(r) /\ \A q \in Requests : Busy(q) => q = r
    BY <1>35 DEF ReopenUnrecovered, Reopened
  <2>2. \A q \in Requests : q # r => pc'[q] = pc[q]
    BY <1>35 DEF ReopenUnrecovered, Reopened, Goes
  <2>a. pc'[r] \in {"ended", "failed"}
    BY <1>35 DEF ReopenUnrecovered, Reopened, Goes
  <2>b. pc'[r] = "failed" => closing'
    BY <1>35, FailedIsFenced DEF ReopenUnrecovered
  <2>3. Alone'
    BY <1>35, <2>1, <2>2 DEF ReopenUnrecovered, Reopened, Goes, DropRow,
       Aside, Layout, bounds
  <2>4. Fenced'
    BY <2>1, <2>2, <2>a, <2>b
  <2>5. Decided'
    BY <1>35, <2>1, <2>2 DEF ReopenUnrecovered, Reopened, Goes, DropRow,
       Aside, Layout, bounds
  <2>6. Owner'
    BY <1>35, <2>1, <2>2 DEF ReopenUnrecovered, Reopened, Goes, DropRow,
       Aside, Layout, bounds
  <2>7. ThreadsWaitedFor'
    BY <1>35, <2>1, <2>2 DEF ReopenUnrecovered, Reopened, Goes, DropRow,
       Aside, Layout, bounds
  <2>8. Named'
    BY <1>35, <2>1, <2>2 DEF ReopenUnrecovered, Reopened, Goes, DropRow,
       Aside, Layout, bounds
  <2>9. PurgesKnow'
    BY <1>35, <2>1, <2>2 DEF ReopenUnrecovered, Reopened, Goes, DropRow,
       Aside, Layout, bounds
  <2>10. IndexKnown'
    BY <1>35, <2>1, <2>2 DEF ReopenUnrecovered, Reopened, Goes, DropRow,
       Aside, Layout, bounds
  <2>11. CleanMeansDone'
    BY <1>35, <2>1, <2>2 DEF ReopenUnrecovered, Reopened, Goes, DropRow,
       Aside, Layout, bounds
  <2>12. EngineOut'
    BY <1>35, <2>1, <2>2 DEF ReopenUnrecovered, Reopened, Goes, DropRow,
       Aside, Layout, bounds
  <2> QED
    BY <2>3, <2>4, <2>5, <2>6, <2>7, <2>8, <2>9, <2>10, <2>11, <2>12 DEF
       Orderly
<1>36. ASSUME RecoverRowStays PROVE Orderly'
  BY <1>36 DEF RecoverRowStays, disk, engines, local, history, bounds
<1>37. CASE UNCHANGED vars
  BY <1>37 DEF vars, disk, engines, local, history, bounds
<1> QED
  BY <1>1, <1>2, <1>3, <1>4, <1>5, <1>6, <1>7, <1>8, <1>9, <1>10, <1>11,
     <1>12, <1>13, <1>14, <1>15, <1>16, <1>17, <1>18, <1>19, <1>20, <1>21,
     <1>22, <1>23, <1>24, <1>25, <1>26, <1>27, <1>28, <1>29, <1>30, <1>31,
     <1>32, <1>33, <1>34, <1>35, <1>36, <1>37
  DEF Next, Request, Staging, Purging, Recovery

\* A rollback without the fence is not forgotten.
LEMMA StrayStays == TypeOK /\ stray /\ [Next]_vars => stray'
<1> SUFFICES ASSUME TypeOK, stray, [Next]_vars PROVE stray'
  OBVIOUS
<1>1. ASSUME Wake PROVE stray'
  BY <1>1 DEF Wake, history
<1>2. ASSUME Restart PROVE stray'
  BY <1>2 DEF Restart, history
<1>3. ASSUME Restarted PROVE stray'
  BY <1>3 DEF Restarted, history
<1>4. ASSUME RestartFails PROVE stray'
  BY <1>4 DEF RestartFails, history
<1>5. ASSUME OrphanEnds PROVE stray'
  BY <1>5 DEF OrphanEnds, history
<1>6. ASSUME NEW r \in Requests, Begin(r) PROVE stray'
  BY <1>6 DEF Begin, Fences
<1>7. ASSUME NEW r \in Requests, BeginFails(r) PROVE stray'
  BY <1>7 DEF BeginFails, Fences
<1>8. ASSUME NEW r \in Requests, Reject(r) PROVE stray'
  BY <1>8 DEF Reject, history
<1>9. ASSUME NEW r \in Requests, LockTimesOut(r) PROVE stray'
  BY <1>9 DEF LockTimesOut, history
<1>10. ASSUME NEW r \in Requests, Resume(r) PROVE stray'
  BY <1>10 DEF Resume, history
<1>11. ASSUME NEW r \in Requests, Stopped(r) PROVE stray'
  BY <1>11 DEF Stopped, history
<1>12. ASSUME NEW r \in Requests, StopFails(r) PROVE stray'
  BY <1>12 DEF StopFails, history
<1>13. ASSUME NEW r \in Requests, StopTimesOut(r) PROVE stray'
  BY <1>13 DEF StopTimesOut, history
<1>14. ASSUME NEW r \in Requests, Drained(r) PROVE stray'
  BY <1>14 DEF Drained, history
<1>15. ASSUME NEW r \in Requests, Staged(r) PROVE stray'
  BY <1>15 DEF Staged, history
<1>16. ASSUME NEW r \in Requests, Commit(r) PROVE stray'
  BY <1>16 DEF Commit, history
<1>17. ASSUME NEW r \in Requests, StepFails(r) PROVE stray'
  BY <1>17 DEF StepFails, history
<1>18. ASSUME NEW r \in Requests, GiveUp(r) PROVE stray'
  BY <1>18 DEF GiveUp, history
<1>19. ASSUME NEW r \in Requests, Restore(r) PROVE stray'
  BY <1>19 DEF Restore, history
<1>20. ASSUME NEW r \in Requests, RestoreFails(r) PROVE stray'
  BY <1>20 DEF RestoreFails, history
<1>21. ASSUME NEW r \in Requests, Reopen(r) PROVE stray'
  BY <1>21 DEF Reopen, Reopened, DropRow
<1>22. ASSUME NEW r \in Requests, ReopenFails(r) PROVE stray'
  BY <1>22 DEF ReopenFails, Reopened, KeepRow
<1>23. ASSUME NEW r \in Requests, Cleanup(r) PROVE stray'
  BY <1>23 DEF Cleanup, history
<1>24. ASSUME NEW r \in Requests, Rename(r) PROVE stray'
  BY <1>24 DEF Rename, history
<1>25. ASSUME NEW r \in Requests, RenameFails(r) PROVE stray'
  BY <1>25 DEF RenameFails, history
<1>26. ASSUME NEW r \in Requests, PurgeFiles(r) PROVE stray'
  BY <1>26 DEF PurgeFiles, history
<1>27. ASSUME NEW r \in Requests, PurgeFails(r) PROVE stray'
  BY <1>27 DEF PurgeFails, history
<1>28. ASSUME NEW r \in Requests, PurgeRow(r) PROVE stray'
  BY <1>28 DEF PurgeRow, history
<1>29. ASSUME NEW r \in Requests, PurgeRowFails(r) PROVE stray'
  BY <1>29 DEF PurgeRowFails, history
<1>30. ASSUME Crash PROVE stray'
  BY <1>30 DEF Crash, history
<1>31. ASSUME RecoverFirst PROVE stray'
  BY <1>31 DEF RecoverFirst, history
<1>32. ASSUME RecoverFails PROVE stray'
  BY <1>32 DEF RecoverFails, history
<1>33. ASSUME NEW w \in BOOLEAN, RecoverRow(w) PROVE stray'
  BY <1>33 DEF RecoverRow, history
<1>34. ASSUME NEW r \in Requests, StopUntold(r) PROVE stray'
  BY <1>34 DEF StopUntold, history
<1>35. ASSUME NEW r \in Requests, ReopenUnrecovered(r) PROVE stray'
  BY <1>35 DEF ReopenUnrecovered, Reopened, DropRow
<1>36. ASSUME RecoverRowStays PROVE stray'
  BY <1>36 DEF RecoverRowStays, history
<1>37. CASE UNCHANGED vars
  BY <1>37 DEF vars, disk, engines, local, history, bounds
<1> QED
  BY <1>1, <1>2, <1>3, <1>4, <1>5, <1>6, <1>7, <1>8, <1>9, <1>10, <1>11,
     <1>12, <1>13, <1>14, <1>15, <1>16, <1>17, <1>18, <1>19, <1>20, <1>21,
     <1>22, <1>23, <1>24, <1>25, <1>26, <1>27, <1>28, <1>29, <1>30, <1>31,
     <1>32, <1>33, <1>34, <1>35, <1>36, <1>37
  DEF Next, Request, Staging, Purging, Recovery

\* Every step preserves the invariant.
LEMMA StepInvariant == IInv /\ [Next]_vars => IInv'
<1> SUFFICES ASSUME IInv, [Next]_vars PROVE IInv'
  OBVIOUS
<1>1. TypeOK'
  BY StepTypes DEF IInv
<1>2. Shape'
  BY StepShape DEF IInv
<1>3. ASSUME ~stray' PROVE Orderly'
  <2>1. ~stray
    BY <1>3, StrayStays DEF IInv
  <2> QED
    BY <1>3, <2>1, StepOrderly DEF IInv
<1> QED
  BY <1>1, <1>2, <1>3 DEF IInv

\* The inductive invariant holds in every reachable state.
THEOREM InvariantHolds == Spec => []IInv
<1> QED
  BY InitInvariant, StepInvariant, PTL DEF Spec

\* Every variable has its type.
THEOREM TypeCorrect == Spec => []TypeOK
<1>1. IInv => TypeOK
  BY DEF IInv
<1> QED
  BY <1>1, InvariantHolds, PTL

\* Until the commit the data is in its place, or set aside where the journal says.
THEOREM RollbackStaysPossible == Spec => []RollbackPossible
<1>1. IInv => RollbackPossible
  BY DEF IInv, Shape, DataKept, Orderly, Named, Owed, RollbackPossible
<1> QED
  BY <1>1, InvariantHolds, PTL

\* After the commit the journal names what is left to remove.
THEOREM CleanupStaysKnown == Spec => []CleanupRemembered
<1>1. IInv => CleanupRemembered
  BY DEF IInv, Orderly, Named, Owed, IndexKnown, CleanupRemembered
<1> QED
  BY <1>1, InvariantHolds, PTL

\* Nobody creates an engine in a directory that a request has, or has deleted.
THEOREM FenceStays == Spec => []FenceHolds
<1>1. IInv => FenceHolds
  BY DEF IInv, Orderly, EngineOut, Held, FenceHolds
<1> QED
  BY <1>1, InvariantHolds, PTL

\* What a step may not do once, and before, the deletion is committed.
Final ==
    /\ tomb => tomb'
    /\ tomb /\ orig # "data" /\ ~stray => orig' # "data"
    /\ \A r \in Requests :
           staged[r] # "none" /\ staged'[r] = "none"
               => tomb \/ orig' = staged[r]

LEMMA StepFinal == IInv /\ [Next]_vars => Final
<1> SUFFICES ASSUME IInv, [Next]_vars PROVE Final
  OBVIOUS
<1> USE DEF IInv, TypeOK, Shape, StagedOnce, AfterCommit, Orderly, Decided,
        Final
<1>1. ASSUME Wake PROVE Final
  BY <1>1 DEF Wake, Layout, Activatable, disk, engines, local, history,
     bounds
<1>2. ASSUME Restart PROVE Final
  BY <1>2 DEF Restart, disk, engines, local, history, bounds
<1>3. ASSUME Restarted PROVE Final
  BY <1>3 DEF Restarted, Layout, Activatable, disk, engines, local, history,
     bounds
<1>4. ASSUME RestartFails PROVE Final
  BY <1>4 DEF RestartFails, disk, engines, local, history, bounds
<1>5. ASSUME OrphanEnds PROVE Final
  BY <1>5 DEF OrphanEnds, disk, engines, local, history, bounds
<1>6. ASSUME NEW r \in Requests, Begin(r) PROVE Final
  BY <1>6 DEF Begin, Fences, Goes, Aside, bounds
<1>7. ASSUME NEW r \in Requests, BeginFails(r) PROVE Final
  BY <1>7 DEF BeginFails, Fences, Goes
<1>8. ASSUME NEW r \in Requests, Reject(r) PROVE Final
  BY <1>8 DEF Reject, Goes, disk, engines, local, history, bounds
<1>9. ASSUME NEW r \in Requests, LockTimesOut(r) PROVE Final
  BY <1>9 DEF LockTimesOut, Goes, disk, engines, local, history, bounds
<1>10. ASSUME NEW r \in Requests, Resume(r) PROVE Final
  BY <1>10 DEF Resume, Goes, Cleaned, Schedule, disk, engines, local,
     history, bounds
<1>11. ASSUME NEW r \in Requests, Stopped(r) PROVE Final
  BY <1>11 DEF Stopped, Goes, disk, engines, local, history, bounds
<1>12. ASSUME NEW r \in Requests, StopFails(r) PROVE Final
  BY <1>12 DEF StopFails, Goes, Abort, disk, engines, local, history, bounds
<1>13. ASSUME NEW r \in Requests, StopTimesOut(r) PROVE Final
  BY <1>13 DEF StopTimesOut, Goes, Abort, disk, engines, local, history,
     bounds
<1>14. ASSUME NEW r \in Requests, Drained(r) PROVE Final
  BY <1>14 DEF Drained, Goes, disk, engines, local, history, bounds
<1>15. ASSUME NEW r \in Requests, Staged(r) PROVE Final
  BY <1>15 DEF Staged, Goes, disk, engines, local, history, bounds
<1>16. ASSUME NEW r \in Requests, Commit(r) PROVE Final
  BY <1>16 DEF Commit, Goes, disk, engines, local, history, bounds
<1>17. ASSUME NEW r \in Requests, StepFails(r) PROVE Final
  BY <1>17 DEF StepFails, Goes, Abort, disk, engines, local, history, bounds
<1>18. ASSUME NEW r \in Requests, GiveUp(r) PROVE Final
  BY <1>18 DEF GiveUp, Goes, Abort, disk, engines, local, history, bounds
<1>19. ASSUME NEW r \in Requests, Restore(r) PROVE Final
  BY <1>19 DEF Restore, Goes, PutBack, disk, engines, local, history, bounds
<1>20. ASSUME NEW r \in Requests, RestoreFails(r) PROVE Final
  BY <1>20 DEF RestoreFails, Goes, disk, engines, local, history, bounds
<1>21. ASSUME NEW r \in Requests, Reopen(r) PROVE Final
  BY <1>21 DEF Reopen, Reopened, Goes, DropRow, Aside, Layout, bounds
<1>22. ASSUME NEW r \in Requests, ReopenFails(r) PROVE Final
  BY <1>22 DEF ReopenFails, Reopened, Goes, KeepRow, Layout
<1>23. ASSUME NEW r \in Requests, Cleanup(r) PROVE Final
  BY <1>23 DEF Cleanup, Goes, Cleaned, Schedule, disk, engines, local,
     history, bounds
<1>24. ASSUME NEW r \in Requests, Rename(r) PROVE Final
  BY <1>24 DEF Rename, disk, engines, local, history, bounds
<1>25. ASSUME NEW r \in Requests, RenameFails(r) PROVE Final
  BY <1>25 DEF RenameFails, Goes, Abort, disk, engines, local, history,
     bounds
<1>26. ASSUME NEW r \in Requests, PurgeFiles(r) PROVE Final
  BY <1>26 DEF PurgeFiles, Files, Purged, disk, engines, local, history,
     bounds
<1>27. ASSUME NEW r \in Requests, PurgeFails(r) PROVE Final
  BY <1>27 DEF PurgeFails, Files, disk, engines, local, history, bounds
<1>28. ASSUME NEW r \in Requests, PurgeRow(r) PROVE Final
  BY <1>28 DEF PurgeRow, Off, disk, engines, local, history, bounds
<1>29. ASSUME NEW r \in Requests, PurgeRowFails(r) PROVE Final
  BY <1>29 DEF PurgeRowFails, Off, disk, engines, local, history, bounds
<1>30. ASSUME Crash PROVE Final
  BY <1>30 DEF Crash, Off, disk, engines, local, history, bounds
<1>31. ASSUME RecoverFirst PROVE Final
  BY <1>31 DEF RecoverFirst, RecoverPaths, PathsConflict, Recovered,
     PutBack, Purged, disk, engines, local, history, bounds
<1>32. ASSUME RecoverFails PROVE Final
  BY <1>32 DEF RecoverFails, Recovered, disk, engines, local, history,
     bounds
<1>33. ASSUME NEW w \in BOOLEAN, RecoverRow(w) PROVE Final
  BY <1>33 DEF RecoverRow, disk, engines, local, history, bounds
<1>34. ASSUME NEW r \in Requests, StopUntold(r) PROVE Final
  BY <1>34 DEF StopUntold, Goes, Abort, disk, engines, local, history, bounds
<1>35. ASSUME NEW r \in Requests, ReopenUnrecovered(r) PROVE Final
  BY <1>35 DEF ReopenUnrecovered, Reopened, Goes, DropRow, Aside, Layout
<1>36. ASSUME RecoverRowStays PROVE Final
  BY <1>36 DEF RecoverRowStays, disk, engines, local, history, bounds
<1>37. CASE UNCHANGED vars
  BY <1>37 DEF vars, disk, engines, local, history, bounds
<1> QED
  BY <1>1, <1>2, <1>3, <1>4, <1>5, <1>6, <1>7, <1>8, <1>9, <1>10, <1>11,
     <1>12, <1>13, <1>14, <1>15, <1>16, <1>17, <1>18, <1>19, <1>20, <1>21,
     <1>22, <1>23, <1>24, <1>25, <1>26, <1>27, <1>28, <1>29, <1>30, <1>31,
     <1>32, <1>33, <1>34, <1>35, <1>36, <1>37
  DEF Next, Request, Staging, Purging, Recovery

\* A committed deletion is never rolled back; nothing is removed before it is.
THEOREM CommitStaysFinal == Spec => CommitIsFinal
<1>1. IInv /\ [Next]_vars =>
          [/\ tomb => tomb'
           /\ tomb /\ orig # "data" /\ ~stray => orig' # "data"
           /\ \A r \in Requests :
                  staged[r] # "none" /\ staged'[r] = "none"
                      => tomb \/ orig' = staged[r]]_vars
  BY StepFinal DEF Final
<1> QED
  BY <1>1, InvariantHolds, PTL DEF Spec, CommitIsFinal
=============================================================================
