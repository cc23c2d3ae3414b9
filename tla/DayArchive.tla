----------------------------- MODULE DayArchive -----------------------------
(***************************************************************************)
(* The event file of one project over the days (backend/persist.py).  The  *)
(* first append of a new day, or the maintenance round of the server,      *)
(* renames the file to an archive of its day and compresses it; a restart  *)
(* reads file and archives together, rewrites them as one file and removes *)
(* the archives.  The appends run on the writer thread, the maintenance on *)
(* the event loop's thread, and nothing locks one against the other.       *)
(*                                                                         *)
(* One action is one call of the file system with the code around it.  A   *)
(* file is a bag of lines: every reader sorts them by seq.                 *)
(***************************************************************************)
EXTENDS Integers, FiniteSets, Bags, Functions

CONSTANTS
    DayLength,      \* clock ticks in a day
    Offset,         \* local time is UTC + Offset ticks
    NoDay,          \* no date
    Overlap,        \* maintenance may run while the writer works
    MaxTime,        \* bound: the clock
    MaxLines,       \* bound: lines appended
    MaxRounds,      \* bound: maintenance rounds
    MaxCrashes,     \* bound: crashes
    MaxFailures,    \* bound: calls of the file system that fail
    MaxUnreadable   \* bound: files a restart cannot read

ASSUME ArchiveAssumption ==
    /\ DayLength \in Nat \ {0}
    /\ Offset \in Int /\ Offset < DayLength /\ -Offset < DayLength
    /\ NoDay \notin Int
    /\ Overlap \in BOOLEAN
    /\ MaxTime \in Nat /\ MaxLines \in Nat /\ MaxRounds \in Nat
    /\ MaxCrashes \in Nat /\ MaxFailures \in Nat /\ MaxUnreadable \in Nat

VARIABLES
    now,        \* the clock, in ticks of UTC
    files,      \* the lines of each file; a file that is not there has none
    touched,    \* the modification time of the day file
    checked,    \* _rotation_dates: the local day of the last check
    proc,       \* the two threads: where each one is, and its locals
    life,       \* "up", "down", or how far a restart has come
    loaded,     \* what load_all_events returned
    stale,      \* the archives compact still has to remove
    appended,   \* history: lines whose append was done
    excused,    \* history: lines of a file that had to be given up
    torn,       \* history: lines copied, whose old file was not removed
    rounds, crashes, failures   \* counters

boot == <<life, loaded, stale>>
counts == <<rounds, crashes, failures>>
vars == <<now, files, touched, checked, proc, boot, appended, excused, torn,
          counts>>

-----------------------------------------------------------------------------
Days == 0 .. (MaxTime \div DayLength)
Raw(d) == <<"raw", d>>      \* {pid}.{day}.jsonl
Gz(d)  == <<"gz", d>>       \* {pid}.{day}.jsonl.gz
Archives == {"raw", "gz"} \X Days
DayFile == <<"day", 0>>     \* {pid}.jsonl
Paths == {DayFile} \cup Archives

Threads == {"writer", "keeper"}
Places == {"idle", "check", "move", "zip", "drop", "write",
           "sweep", "sweepzip", "sweepdrop"}
Idle == [at |-> "idle", day |-> NoDay, today |-> NoDay]

LinesOf(path) == BagToSet(files[path])
OnDisk == UNION {LinesOf(path) : path \in Paths}
CopiesOf(n, path) == IF n \in LinesOf(path) THEN files[path][n] ELSE 0
CopiesAt(S, n) == SumFunction([path \in S |-> CopiesOf(n, path)])

\* The lines of some files, one after the other.
Together(S) ==
    [n \in UNION {LinesOf(path) : path \in S} |-> CopiesAt(S, n)]

\* The day label of a file: its modification time, as a date in UTC.
FileDay(t) == t \div DayLength

\* date.today(): the date of the local clock.
Today == (now + Offset) \div DayLength

Goes(t, where) == proc' = [proc EXCEPT ![t].at = where]
Free(t) == Overlap \/ \A u \in Threads \ {t} : proc[u].at = "idle"

\* Where a thread goes after a rotation: append_event writes,
\* rotate_and_compress turns to the archives that are not compressed yet.
AfterRotation(t) == IF t = "writer" THEN "write" ELSE "sweep"

\* The lines that are in a raw file and in the archive it was copied to.
Pending(t) ==
    IF proc[t].at \in {"drop", "sweepdrop"} THEN LinesOf(Raw(proc[t].day)) ELSE {}

-----------------------------------------------------------------------------
Init ==
    /\ now = 0
    /\ files = [path \in Paths |-> EmptyBag]
    /\ touched = 0
    /\ checked = NoDay
    /\ proc = [t \in Threads |-> Idle]
    /\ life = "up" /\ loaded = EmptyBag /\ stale = {}
    /\ appended = {} /\ excused = {} /\ torn = {}
    /\ rounds = 0 /\ crashes = 0 /\ failures = 0

Tick ==
    /\ now < MaxTime
    /\ now' = now + 1
    /\ UNCHANGED <<files, touched, checked, proc, boot, appended, excused,
                   torn, counts>>

\* The writer takes the next append from its queue.
Take ==
    /\ life = "up" /\ proc["writer"].at = "idle" /\ Free("writer")
    /\ Cardinality(appended) < MaxLines
    /\ Goes("writer", "check")
    /\ UNCHANGED <<now, files, touched, checked, boot, appended, excused,
                   torn, counts>>

\* rotate_and_compress forgets the cached date first.
Round ==
    /\ life = "up" /\ proc["keeper"].at = "idle" /\ Free("keeper")
    /\ rounds < MaxRounds
    /\ checked' = NoDay
    /\ rounds' = rounds + 1
    /\ Goes("keeper", "check")
    /\ UNCHANGED <<now, files, touched, boot, appended, excused, torn, crashes,
                   failures>>

-----------------------------------------------------------------------------
(* _rotate_if_needed and _compress_day_file, on either thread              *)

\* The dates are compared: nothing to do, or the file gets a day label.
Check(t) ==
    /\ proc[t].at = "check"
    /\ LET day == FileDay(touched)
           done == \/ checked = Today
                   \/ files[DayFile] = EmptyBag
                   \/ day = Today
       IN \/ /\ done
             /\ checked' = Today
             /\ Goes(t, AfterRotation(t))
          \/ /\ ~done
             /\ proc' = [proc EXCEPT ![t].at = "move", ![t].day = day,
                                     ![t].today = Today]
             /\ UNCHANGED checked
    /\ UNCHANGED <<now, files, touched, boot, appended, excused, torn, counts>>

\* os.replace to the archive of that day.  If the day has an archive
\* already, its raw file is overwritten, and the renamed file will be taken
\* for a leftover of the compressed one.
Move(t) ==
    /\ proc[t].at = "move" /\ files[DayFile] # EmptyBag
    /\ LET d == proc[t].day
       IN /\ files' = [files EXCEPT ![Raw(d)] = files[DayFile],
                                    ![DayFile] = EmptyBag]
          /\ excused' = excused \cup LinesOf(Raw(d)) \cup
                IF files[Gz(d)] = EmptyBag THEN {} ELSE LinesOf(DayFile)
    /\ Goes(t, "zip")
    /\ UNCHANGED <<now, touched, checked, boot, appended, torn, counts>>

\* Fault: the archive is compressed anew although it is there already.
ZipAgain(t) ==
    /\ proc[t].at \in {"zip", "sweepzip"}
    /\ LET d == proc[t].day
       IN files' = [files EXCEPT ![Gz(d)] = files[Raw(d)]]
    /\ Goes(t, IF proc[t].at = "zip" THEN "drop" ELSE "sweepdrop")
    /\ UNCHANGED <<now, touched, checked, boot, appended, excused, torn,
                   counts>>

\* The archive is compressed through a temporary file, unless it has been.
Zip(t) ==
    /\ proc[t].at \in {"zip", "sweepzip"}
    /\ LET d == proc[t].day
       IN files' = [files EXCEPT
                       ![Gz(d)] = IF @ = EmptyBag THEN files[Raw(d)] ELSE @]
    /\ Goes(t, IF proc[t].at = "zip" THEN "drop" ELSE "sweepdrop")
    /\ UNCHANGED <<now, touched, checked, boot, appended, excused, torn,
                   counts>>

\* The raw file is removed.
Drop(t) ==
    /\ proc[t].at \in {"drop", "sweepdrop"}
    /\ files' = [files EXCEPT ![Raw(proc[t].day)] = EmptyBag]
    /\ IF proc[t].at = "drop"
       THEN checked' = proc[t].today /\ Goes(t, AfterRotation(t))
       ELSE UNCHANGED checked /\ Goes(t, "sweep")
    /\ UNCHANGED <<now, touched, boot, appended, excused, torn, counts>>

\* A call fails, or the other thread has moved the file away.  The writer
\* appends all the same; a maintenance round ends, or skips the archive.
RotationFails(t) ==
    /\ \/ failures < MaxFailures /\ failures' = failures + 1
          /\ proc[t].at \in {"check", "move", "zip", "drop",
                              "sweepzip", "sweepdrop"}
       \/ proc[t].at = "move" /\ files[DayFile] = EmptyBag
          /\ UNCHANGED failures
    /\ Goes(t, IF t = "writer" THEN "write"
               ELSE IF proc[t].at \in {"sweepzip", "sweepdrop"} THEN "sweep"
               ELSE "idle")
    /\ torn' = torn \cup Pending(t)
    /\ UNCHANGED <<now, files, touched, checked, boot, appended, excused,
                   rounds, crashes>>

\* append_event opens the day file, or makes a new one, and writes.
Write ==
    /\ proc["writer"].at = "write"
    /\ LET n == Cardinality(appended) + 1
       IN /\ files' = [files EXCEPT ![DayFile] = @ (+) SetToBag({n})]
          /\ appended' = appended \cup {n}
    /\ touched' = now
    /\ proc' = [proc EXCEPT !["writer"] = Idle]
    /\ UNCHANGED <<now, checked, boot, excused, torn, counts>>

\* rotate_and_compress goes on to every archive that is not compressed.
Sweep ==
    /\ proc["keeper"].at = "sweep"
    /\ LET left == {d \in Days : files[Raw(d)] # EmptyBag}
       IN \/ /\ left = {}
             /\ proc' = [proc EXCEPT !["keeper"] = Idle]
          \/ \E d \in left :
                proc' = [proc EXCEPT !["keeper"].at = "sweepzip",
                                     !["keeper"].day = d]
    /\ UNCHANGED <<now, files, touched, checked, boot, appended, excused,
                   torn, counts>>

-----------------------------------------------------------------------------
(* Crash and restart                                                       *)

Crash ==
    /\ life # "down" /\ crashes < MaxCrashes
    /\ crashes' = crashes + 1
    /\ life' = "down" /\ loaded' = EmptyBag /\ stale' = {}
    /\ checked' = NoDay
    /\ proc' = [t \in Threads |-> Idle]
    /\ torn' = torn \cup (UNION {LinesOf(path) : path \in stale})
                    \cup (UNION {Pending(t) : t \in Threads})
    /\ UNCHANGED <<now, files, touched, appended, excused, rounds, failures>>

\* load_all_events: all files together; one that cannot be read is skipped.
Load ==
    /\ life = "down"
    /\ \E skipped \in SUBSET {path \in Paths : files[path] # EmptyBag} :
          /\ Cardinality(skipped) <= MaxUnreadable
          /\ loaded' = Together(Paths \ skipped)
          /\ excused' = excused \cup UNION {LinesOf(path) : path \in skipped}
    /\ life' = "loaded"
    /\ UNCHANGED <<now, files, touched, checked, proc, stale, appended, torn,
                   counts>>

\* Fault: the rewritten file leaves the archives where they are.
RewriteOnly ==
    /\ life = "loaded"
    /\ files' = [files EXCEPT ![DayFile] = loaded]
    /\ touched' = now
    /\ life' = "rewritten"
    /\ UNCHANGED <<now, checked, proc, loaded, stale, appended, excused, torn,
                   counts>>

\* compact: the day file is replaced by everything that was read.
Rewrite ==
    /\ life = "loaded"
    /\ files' = [files EXCEPT ![DayFile] = loaded]
    /\ touched' = now
    /\ life' = "rewritten"
    /\ stale' = {path \in Archives : files[path] # EmptyBag}
    /\ UNCHANGED <<now, checked, proc, loaded, appended, excused, torn, counts>>

\* compact removes the archives one by one; a failure leaves one behind.
Remove ==
    /\ life = "rewritten"
    /\ \E path \in stale :
          /\ stale' = stale \ {path}
          /\ \/ /\ files' = [files EXCEPT ![path] = EmptyBag]
                /\ UNCHANGED <<torn, failures>>
             \/ /\ failures < MaxFailures
                /\ failures' = failures + 1
                /\ torn' = torn \cup LinesOf(path)
                /\ UNCHANGED files
    /\ UNCHANGED <<now, touched, checked, proc, life, loaded, appended,
                   excused, rounds, crashes>>

Open ==
    /\ life = "rewritten" /\ stale = {}
    /\ life' = "up" /\ loaded' = EmptyBag
    /\ UNCHANGED <<now, files, touched, checked, proc, stale, appended,
                   excused, torn, counts>>

-----------------------------------------------------------------------------
Rotation(t) == Check(t) \/ Move(t) \/ Zip(t) \/ Drop(t) \/ RotationFails(t)
Restart == Load \/ Rewrite \/ Remove \/ Open

Next ==
    \/ Tick \/ Take \/ Round \/ Write \/ Sweep
    \/ \E t \in Threads : Rotation(t)
    \/ Crash \/ Restart

Spec == Init /\ [][Next]_vars

-----------------------------------------------------------------------------
TypeOK ==
    /\ now \in 0 .. MaxTime /\ touched \in 0 .. now
    /\ DOMAIN files = Paths
    /\ \A path \in Paths : IsABag(files[path]) /\ LinesOf(path) \subseteq Nat
    /\ checked \in Int \cup {NoDay}
    /\ proc \in [Threads -> [at : Places, day : Days \cup {NoDay},
                             today : Int \cup {NoDay}]]
    /\ life \in {"up", "down", "loaded", "rewritten"}
    /\ IsABag(loaded) /\ stale \subseteq Archives
    /\ appended \subseteq Nat /\ excused \subseteq appended
    /\ torn \subseteq appended
    /\ rounds \in Nat /\ crashes \in Nat /\ failures \in Nat

\* A line that was written stays on disk, through rotation, compression,
\* failed calls, crashes and the rewrite of a restart, unless its file was
\* moved to a day that has an archive already, or could not be read by a
\* restart (persist.py: read together, compressed, never deleted).
LinesKept == appended \subseteq OnDisk \cup excused

\* A restarted reader finds no line twice, unless the process died, or a
\* call failed, between making a copy and removing what it replaces
\* (persist.py compact: "to prevent reading twice").
CopiedOnce ==
    life = "up" /\ (\A t \in Threads : proc[t].at = "idle") =>
        \A n \in appended \ torn : CopiesAt(Paths, n) <= 1

\* What the comments of persist.py and storage_maintenance.py promise: the
\* chat record is only compressed, and no line of it is ever lost.
NothingLost == appended \subseteq OnDisk
=============================================================================
