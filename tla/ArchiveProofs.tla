--------------------------- MODULE ArchiveProofs ---------------------------
(***************************************************************************)
(* No line of the chat record is lost by rotation, compression, failed     *)
(* calls, crashes and rewrites, in any zone and whatever the two threads   *)
(* do at once, except the lines DayArchive gives up by name.  The          *)
(* invariant says what makes the removal of a raw file safe: its           *)
(* compressed archive is there, and holds what the raw file holds.  And    *)
(* no line is read twice: a line is in two files only while a thread, or   *)
(* the restart, is about to remove one of them.                            *)
(***************************************************************************)
EXTENDS DayArchive, WellFoundedInduction, FiniteSetTheorems, TLAPS

Dated == {"move", "zip", "drop", "sweepzip", "sweepdrop"}

\* A file is a function, so it is empty if it has no line.
IsFile(b) == b = [n \in DOMAIN b |-> b[n]]

\* The part of TypeOK the proof needs.
Shape ==
    /\ DOMAIN files = Paths /\ \A path \in Paths : IsFile(files[path])
    /\ now \in 0 .. MaxTime /\ touched \in 0 .. now
    /\ proc \in [Threads -> [at : Places, day : Days \cup {NoDay},
                             today : Int \cup {NoDay}]]
    /\ \A t \in Threads : proc[t].at \in Dated => proc[t].day \in Days
    /\ IsFile(loaded) /\ stale \subseteq Archives

\* Both threads rest while the process is down or starts.
Rest == life # "up" => \A t \in Threads : proc[t].at = "idle"

\* A thread that is about to compress finds something to compress, or an
\* archive; one that is about to remove the raw file finds the archive.
Ready ==
    \A t \in Threads :
        /\ proc[t].at \in {"zip", "sweepzip"} =>
               LinesOf(Raw(proc[t].day)) # {} \/ LinesOf(Gz(proc[t].day)) # {}
        /\ proc[t].at \in {"drop", "sweepdrop"} => LinesOf(Gz(proc[t].day)) # {}

\* An archive that is there holds every line of the raw file of its day.
Copied ==
    \A d \in Days : LinesOf(Gz(d)) # {} =>
        LinesOf(Raw(d)) \subseteq LinesOf(Gz(d)) \cup excused

\* Every line is where the restart needs it.
Carried ==
    /\ life = "loaded" => appended \subseteq DOMAIN loaded \cup excused
    /\ life = "rewritten" => appended \subseteq LinesOf(DayFile) \cup excused

IInv == Shape /\ Rest /\ Ready /\ Copied /\ Carried /\ LinesKept

-----------------------------------------------------------------------------
(* Files                                                                   *)

LEMMA Names ==
    ASSUME NEW d \in Days
    PROVE  /\ Raw(d) \in Archives /\ Gz(d) \in Archives /\ DayFile \notin Archives
           /\ Raw(d) \in Paths /\ Gz(d) \in Paths /\ DayFile \in Paths
           /\ Raw(d) # DayFile /\ Gz(d) # DayFile
           /\ \A e \in Days : /\ Raw(e) # Gz(d)
                              /\ (Raw(e) = Raw(d) <=> e = d)
                              /\ (Gz(e) = Gz(d) <=> e = d)
BY DEF Raw, Gz, DayFile, Archives, Paths

LEMMA DayOfFile == ASSUME NEW t \in 0 .. MaxTime PROVE FileDay(t) \in Days
BY ArchiveAssumption DEF FileDay, Days

\* A file is there if it has a line.
LEMMA Empty ==
    ASSUME NEW b, IsFile(b)
    PROVE  b = EmptyBag <=> DOMAIN b = {}
BY DEF IsFile, EmptyBag, SetToBag

LEMMA NoLines == IsFile(EmptyBag) /\ DOMAIN EmptyBag = {}
BY DEF IsFile, EmptyBag, SetToBag

\* What a step that sets some files leaves of the others.
LEMMA Untouched ==
    ASSUME NEW f, DOMAIN f = Paths, NEW path \in Paths, NEW b,
           NEW g, g = [f EXCEPT ![path] = b]
    PROVE  /\ DOMAIN g = Paths /\ g[path] = b
           /\ \A other \in Paths : other # path => g[other] = f[other]
OBVIOUS

LEMMA InitInvariant == Init => IInv
<1> SUFFICES ASSUME Init PROVE IInv
  OBVIOUS
<1> USE DEF Init
<1>1. \A path \in Paths : files[path] = EmptyBag /\ LinesOf(path) = {}
  BY NoLines DEF LinesOf, BagToSet
<1>2. \A t \in Threads : proc[t].at = "idle"
  BY DEF Idle
<1>3. Shape
  <2>1. proc \in [Threads -> [at : Places, day : Days \cup {NoDay},
                              today : Int \cup {NoDay}]]
    BY DEF Idle, Places
  <2>2. DOMAIN files = Paths /\ \A path \in Paths : IsFile(files[path])
    BY <1>1, NoLines
  <2>3. now \in 0 .. MaxTime /\ touched \in 0 .. now
    BY ArchiveAssumption
  <2> QED BY <1>2, <2>1, <2>2, <2>3, NoLines DEF Shape, Dated
<1>4. Rest /\ Ready
  BY <1>2 DEF Rest, Ready
<1>5. Copied
  BY <1>1, Names DEF Copied
<1>6. Carried /\ LinesKept
  BY DEF Carried, LinesKept
<1> QED BY <1>3, <1>4, <1>5, <1>6 DEF IInv

-----------------------------------------------------------------------------
(* The steps                                                               *)

\* LinesKept, line by line.
LEMMA KeptIs ==
    LinesKept <=> \A n \in appended :
                      n \in excused \/ \E path \in Paths : n \in LinesOf(path)
BY DEF LinesKept, OnDisk

\* A step that leaves the files alone, loses no excuse and adds no line keeps
\* every line.
LEMMA FilesStand ==
    ASSUME IInv, files' = files, appended' = appended,
           excused \subseteq excused'
    PROVE  Copied' /\ LinesKept' /\ \A path \in Paths : LinesOf(path)' = LinesOf(path)
<1>1. \A path \in Paths : LinesOf(path)' = LinesOf(path)
  BY DEF LinesOf
<1>2. Copied'
  <2>1. \A d \in Days : /\ LinesOf(Raw(d))' = LinesOf(Raw(d))
                        /\ LinesOf(Gz(d))' = LinesOf(Gz(d))
    BY <1>1, Names
  <2> QED BY <2>1 DEF IInv, Copied
<1>3. LinesKept'
  <2>1. OnDisk' = OnDisk
    BY DEF OnDisk, LinesOf
  <2> QED BY <2>1 DEF IInv, LinesKept
<1> QED BY <1>1, <1>2, <1>3

\* A step of one thread that changes no file.
LEMMA ThreadMoves ==
    ASSUME IInv, NEW t \in Threads,
           files' = files, appended' = appended, excused' = excused,
           UNCHANGED <<now, touched, boot>>,
           life = "up",
           proc' \in [Threads -> [at : Places, day : Days \cup {NoDay},
                                 today : Int \cup {NoDay}]],
           \A u \in Threads : u # t => proc'[u] = proc[u],
           proc'[t].at \in Dated => proc'[t].day \in Days,
           proc'[t].at \in {"zip", "sweepzip"} => LinesOf(Raw(proc'[t].day)) # {},
           proc'[t].at \notin {"drop", "sweepdrop"}
    PROVE  IInv'
<1>0. Shape /\ Rest /\ Ready /\ Copied /\ Carried
  BY DEF IInv
<1>1. Copied' /\ LinesKept' /\ \A path \in Paths : LinesOf(path)' = LinesOf(path)
  BY FilesStand
<1>2. Shape'
  BY <1>0 DEF Shape, boot
<1>3. Rest' /\ Carried'
  BY DEF Rest, Carried, boot
<1>4. Ready'
  <2>1. ASSUME NEW d \in Days
        PROVE  LinesOf(Raw(d))' = LinesOf(Raw(d)) /\ LinesOf(Gz(d))' = LinesOf(Gz(d))
    BY <1>1, Names
  <2>2. ASSUME NEW u \in Threads
        PROVE  /\ proc'[u].at \in {"zip", "sweepzip"} =>
                      \/ LinesOf(Raw(proc[u].day))' # {}
                      \/ LinesOf(Gz(proc[u].day))' # {}
               /\ proc'[u].at \in {"drop", "sweepdrop"} =>
                      LinesOf(Gz(proc[u].day))' # {}
    <3>1. CASE u = t
      <4>1. CASE proc'[t].at \in {"zip", "sweepzip"}
        <5>1. proc'[t].day \in Days /\ LinesOf(Raw(proc'[t].day)) # {}
          BY <4>1 DEF Dated
        <5>2. PICK d \in Days : d = proc'[t].day
          BY <5>1
        <5>3. LinesOf(Raw(d))' # {}
          BY <5>1, <5>2, <2>1
        <5>4. LinesOf(Raw(d))' = LinesOf(Raw(proc[t].day))'
          BY <5>2 DEF LinesOf, Raw
        <5> QED BY <3>1, <4>1, <5>3, <5>4
      <4> QED BY <3>1, <4>1
    <3>2. CASE u # t
      <4>1. CASE proc[u].at \in Dated
        <5>1. proc[u].day \in Days
          BY <1>0, <4>1 DEF Shape
        <5> QED BY <1>0, <2>1, <3>2, <5>1 DEF Ready
      <4> QED BY <3>2, <4>1 DEF Dated
    <3> QED BY <3>1, <3>2
  <2> QED BY <2>2 DEF Ready
<1> QED BY <1>1, <1>2, <1>3, <1>4 DEF IInv

LEMMA TickStep == ASSUME IInv, Tick PROVE IInv'
<1>0. Shape /\ Rest /\ Ready /\ Copied /\ Carried
  BY DEF IInv
<1>1. /\ now < MaxTime /\ now' = now + 1
      /\ UNCHANGED <<files, touched, proc, life, loaded, stale, appended, excused>>
  BY DEF Tick, boot
<1>2. Copied' /\ LinesKept'
  BY <1>1, FilesStand
<1>3. now' \in 0 .. MaxTime /\ touched \in 0 .. now'
  BY <1>0, <1>1, ArchiveAssumption DEF Shape
<1>4. Shape' /\ Rest' /\ Ready' /\ Carried'
  BY <1>0, <1>1, <1>3 DEF Shape, Rest, Ready, Carried, LinesOf
<1> QED BY <1>2, <1>4 DEF IInv

LEMMA TakeStep == ASSUME IInv, Take PROVE IInv'
<1>1. /\ life = "up" /\ "writer" \in Threads
      /\ proc' = [proc EXCEPT !["writer"].at = "check"]
      /\ files' = files /\ appended' = appended /\ excused' = excused
      /\ UNCHANGED <<now, touched, boot>>
  BY DEF Take, Goes, Threads
<1>2. /\ proc' \in [Threads -> [at : Places, day : Days \cup {NoDay},
                               today : Int \cup {NoDay}]]
      /\ proc'["writer"].at = "check"
      /\ \A u \in Threads : u # "writer" => proc'[u] = proc[u]
  BY <1>1 DEF IInv, Shape, Places
<1> QED BY <1>1, <1>2, ThreadMoves DEF Dated

LEMMA RoundStep == ASSUME IInv, Round PROVE IInv'
<1>1. /\ life = "up" /\ "keeper" \in Threads
      /\ proc' = [proc EXCEPT !["keeper"].at = "check"]
      /\ files' = files /\ appended' = appended /\ excused' = excused
      /\ UNCHANGED <<now, touched, boot>>
  BY DEF Round, Goes, Threads
<1>2. /\ proc' \in [Threads -> [at : Places, day : Days \cup {NoDay},
                               today : Int \cup {NoDay}]]
      /\ proc'["keeper"].at = "check"
      /\ \A u \in Threads : u # "keeper" => proc'[u] = proc[u]
  BY <1>1 DEF IInv, Shape, Places
<1> QED BY <1>1, <1>2, ThreadMoves DEF Dated

LEMMA CheckStep == ASSUME IInv, NEW t \in Threads, Check(t) PROVE IInv'
<1>0. Shape /\ Rest
  BY DEF IInv
<1>1. /\ proc[t].at = "check" /\ files' = files
      /\ appended' = appended /\ excused' = excused
      /\ UNCHANGED <<now, touched, boot>>
  BY DEF Check
<1>2. life = "up"
  BY <1>0, <1>1 DEF Rest
<1>3. FileDay(touched) \in Days /\ Today \in Int
  <2>1. touched \in 0 .. MaxTime
    BY <1>0, ArchiveAssumption DEF Shape
  <2>2. now + Offset \in Int
    BY <1>0, ArchiveAssumption DEF Shape
  <2> QED BY <2>1, <2>2, DayOfFile, ArchiveAssumption DEF Today
<1>4. CASE proc' = [proc EXCEPT ![t].at = AfterRotation(t)]
  <2>1. /\ proc' \in [Threads -> [at : Places, day : Days \cup {NoDay},
                                 today : Int \cup {NoDay}]]
        /\ proc'[t].at \in {"write", "sweep"}
        /\ \A u \in Threads : u # t => proc'[u] = proc[u]
    BY <1>0, <1>4 DEF Shape, Places, AfterRotation
  <2> QED BY <1>1, <1>2, <2>1, ThreadMoves DEF Dated
<1>5. CASE proc' = [proc EXCEPT ![t].at = "move", ![t].day = FileDay(touched),
                                ![t].today = Today]
  <2>1. /\ proc' \in [Threads -> [at : Places, day : Days \cup {NoDay},
                                 today : Int \cup {NoDay}]]
        /\ proc'[t].at = "move" /\ proc'[t].day \in Days
        /\ \A u \in Threads : u # t => proc'[u] = proc[u]
    BY <1>0, <1>3, <1>5, ZenonT(30) DEF Shape, Places
  <2> QED BY <1>1, <1>2, <2>1, ThreadMoves DEF Dated
<1> QED BY <1>4, <1>5 DEF Check, Goes

LEMMA RotationFailsStep ==
    ASSUME IInv, NEW t \in Threads, RotationFails(t) PROVE IInv'
<1>0. Shape /\ Rest
  BY DEF IInv
<1> DEFINE where == IF t = "writer" THEN "write"
                    ELSE IF proc[t].at \in {"sweepzip", "sweepdrop"} THEN "sweep"
                    ELSE "idle"
<1>1. /\ proc[t].at # "idle" /\ files' = files
      /\ proc' = [proc EXCEPT ![t].at = where]
      /\ appended' = appended /\ excused' = excused
      /\ UNCHANGED <<now, touched, boot>>
  BY DEF RotationFails, Goes
<1>2. life = "up"
  BY <1>0, <1>1 DEF Rest
<1>3. where \in {"write", "sweep", "idle"}
  OBVIOUS
<1> HIDE DEF where
<1>4. /\ proc' \in [Threads -> [at : Places, day : Days \cup {NoDay},
                               today : Int \cup {NoDay}]]
      /\ proc'[t].at = where
      /\ \A u \in Threads : u # t => proc'[u] = proc[u]
  BY <1>0, <1>1, <1>3 DEF Shape, Places
<1> QED BY <1>1, <1>2, <1>3, <1>4, ThreadMoves DEF Dated

LEMMA SweepStep == ASSUME IInv, Sweep PROVE IInv'
<1>0. Shape /\ Rest
  BY DEF IInv
<1>1. /\ proc["keeper"].at = "sweep" /\ "keeper" \in Threads
      /\ files' = files /\ appended' = appended /\ excused' = excused
      /\ UNCHANGED <<now, touched, boot>>
  BY DEF Sweep, Threads
<1>2. life = "up"
  BY <1>0, <1>1 DEF Rest
<1>3. CASE proc' = [proc EXCEPT !["keeper"] = Idle]
  <2>1. /\ proc' \in [Threads -> [at : Places, day : Days \cup {NoDay},
                                 today : Int \cup {NoDay}]]
        /\ proc'["keeper"].at = "idle"
        /\ \A u \in Threads : u # "keeper" => proc'[u] = proc[u]
    BY <1>0, <1>1, <1>3 DEF Shape, Places, Idle
  <2> QED BY <1>1, <1>2, <2>1, ThreadMoves DEF Dated
<1>4. ASSUME NEW d \in Days, files[Raw(d)] # EmptyBag,
             proc' = [proc EXCEPT !["keeper"].at = "sweepzip", !["keeper"].day = d]
      PROVE  IInv'
  <2>1. /\ proc' \in [Threads -> [at : Places, day : Days \cup {NoDay},
                                 today : Int \cup {NoDay}]]
        /\ proc'["keeper"].at = "sweepzip" /\ proc'["keeper"].day = d
        /\ \A u \in Threads : u # "keeper" => proc'[u] = proc[u]
    BY <1>0, <1>1, <1>4 DEF Shape, Places
  <2>2. LinesOf(Raw(d)) # {}
    BY <1>0, <1>4, Names, Empty DEF Shape, LinesOf, BagToSet
  <2> QED BY <1>1, <1>2, <2>1, <2>2, ThreadMoves
<1> QED BY <1>3, <1>4 DEF Sweep

\* A step that writes one file: what is in it, and what is in the others.
LEMMA FileSet ==
    ASSUME Shape, NEW path \in Paths, NEW b, IsFile(b),
           files' = [files EXCEPT ![path] = b]
    PROVE  /\ DOMAIN files' = Paths
           /\ \A other \in Paths : IsFile(files'[other])
           /\ LinesOf(path)' = DOMAIN b
           /\ \A other \in Paths : other # path =>
                  files'[other] = files[other] /\ LinesOf(other)' = LinesOf(other)
<1>1. /\ DOMAIN files' = Paths /\ files'[path] = b
      /\ \A other \in Paths : other # path => files'[other] = files[other]
  BY DEF Shape
<1>2. \A other \in Paths : IsFile(files'[other])
  BY <1>1 DEF Shape
<1> QED BY <1>1, <1>2 DEF LinesOf, BagToSet

LEMMA MoveStep == ASSUME IInv, NEW t \in Threads, Move(t) PROVE IInv'
<1>0. Shape /\ Rest /\ Ready /\ Copied /\ Carried
  BY DEF IInv
<1>1. /\ proc[t].at = "move" /\ files[DayFile] # EmptyBag
      /\ proc' = [proc EXCEPT ![t].at = "zip"]
      /\ UNCHANGED <<now, touched, life, loaded, stale, appended>>
  BY DEF Move, Goes, boot
<1>2. life = "up"
  BY <1>0, <1>1 DEF Rest
<1>3. PICK d \in Days : d = proc[t].day
  BY <1>0, <1>1 DEF Shape, Dated
<1>4. /\ files' = [files EXCEPT ![Raw(d)] = files[DayFile], ![DayFile] = EmptyBag]
      /\ excused' = excused \cup LinesOf(Raw(d)) \cup
            IF files[Gz(d)] = EmptyBag THEN {} ELSE LinesOf(DayFile)
  BY <1>3 DEF Move
<1>5. /\ DOMAIN files' = Paths /\ files'[Raw(d)] = files[DayFile]
      /\ files'[DayFile] = EmptyBag
      /\ \A other \in Paths : other # Raw(d) /\ other # DayFile =>
            files'[other] = files[other]
  BY <1>0, <1>4, Names DEF Shape
<1>6. /\ LinesOf(Raw(d))' = LinesOf(DayFile) /\ LinesOf(DayFile) # {}
      /\ \A other \in Paths : other # Raw(d) /\ other # DayFile =>
            LinesOf(other)' = LinesOf(other)
  <2>1. IsFile(files[DayFile])
    BY <1>0, Names DEF Shape
  <2> QED BY <1>1, <1>5, <2>1, Empty DEF LinesOf, BagToSet
<1>7. /\ proc' \in [Threads -> [at : Places, day : Days \cup {NoDay},
                                 today : Int \cup {NoDay}]]
      /\ proc'[t].at = "zip" /\ proc'[t].day = d
      /\ \A u \in Threads : u # t => proc'[u] = proc[u]
  BY <1>0, <1>1, <1>3 DEF Shape, Places
<1>8. Shape'
  <2>1. \A path \in Paths : IsFile(files'[path])
    BY <1>0, <1>5, Names, NoLines DEF Shape
  <2>2. \A u \in Threads : proc'[u].at \in Dated => proc'[u].day \in Days
    BY <1>0, <1>7 DEF Shape
  <2> QED BY <1>0, <1>1, <1>5, <1>7, <2>1, <2>2 DEF Shape
<1>9. Rest' /\ Carried'
  BY <1>1, <1>2 DEF Rest, Carried
<1>10. Ready'
  <2>1. \A e \in Days : /\ LinesOf(Gz(e))' = LinesOf(Gz(e))
                        /\ LinesOf(Raw(e)) # {} => LinesOf(Raw(e))' # {}
    BY <1>6, Names
  <2>2. ASSUME NEW u \in Threads
        PROVE  /\ proc'[u].at \in {"zip", "sweepzip"} =>
                      \/ LinesOf(Raw(proc[u].day))' # {}
                      \/ LinesOf(Gz(proc[u].day))' # {}
               /\ proc'[u].at \in {"drop", "sweepdrop"} =>
                      LinesOf(Gz(proc[u].day))' # {}
    <3>1. CASE u = t
      <4>1. LinesOf(Raw(d))' = LinesOf(Raw(proc[u].day))'
        BY <1>7, <3>1 DEF LinesOf, Raw
      <4> QED BY <1>6, <1>7, <3>1, <4>1
    <3>2. CASE u # t
      <4>1. CASE proc[u].at \in Dated
        <5>1. proc[u].day \in Days
          BY <1>0, <4>1 DEF Shape
        <5> QED BY <1>0, <1>7, <2>1, <3>2, <5>1 DEF Ready
      <4> QED BY <1>7, <3>2, <4>1 DEF Dated
    <3> QED BY <3>1, <3>2
  <2> QED BY <2>2 DEF Ready
<1>11. Copied'
  <2>1. ASSUME NEW e \in Days, LinesOf(Gz(e))' # {}
        PROVE  LinesOf(Raw(e))' \subseteq LinesOf(Gz(e))' \cup excused'
    <3>1. LinesOf(Gz(e))' = LinesOf(Gz(e))
      BY <1>6, Names
    <3>2. CASE e = d
      <4>1. files[Gz(d)] # EmptyBag
        BY <1>0, <2>1, <3>1, <3>2, Names, NoLines DEF LinesOf, BagToSet
      <4>2. LinesOf(DayFile) \subseteq excused'
        BY <1>4, <4>1
      <4> QED BY <1>6, <3>2, <4>2
    <3>3. CASE e # d
      <4>1. LinesOf(Raw(e))' = LinesOf(Raw(e))
        BY <1>6, <3>3, Names
      <4> QED BY <1>0, <1>4, <2>1, <3>1, <4>1 DEF Copied
    <3> QED BY <3>2, <3>3
  <2> QED BY <2>1 DEF Copied
<1>12. LinesKept'
  <2>1. ASSUME NEW n \in appended
        PROVE  n \in excused' \/ \E path \in Paths : n \in LinesOf(path)'
    <3>1. CASE n \in excused
      BY <1>4, <3>1
    <3>2. ASSUME NEW path \in Paths, n \in LinesOf(path)
          PROVE  n \in excused' \/ \E other \in Paths : n \in LinesOf(other)'
      <4>1. CASE path = Raw(d)
        BY <1>4, <3>2, <4>1
      <4>2. CASE path = DayFile
        BY <1>6, <3>2, <4>2, Names
      <4>3. CASE path # Raw(d) /\ path # DayFile
        BY <1>6, <3>2, <4>3
      <4> QED BY <4>1, <4>2, <4>3
    <3> QED BY <3>1, <3>2, KeptIs DEF IInv
  <2>2. \A n \in appended' :
            n \in excused' \/ \E path \in Paths : n \in LinesOf(path)'
    BY <1>1, <2>1
  <2> QED BY <2>2 DEF LinesKept, OnDisk
<1> QED BY <1>8, <1>9, <1>10, <1>11, <1>12 DEF IInv

\* What every thread was ready for it is ready for after a step that takes no
\* archive away, and a raw file only for an archive.
LEMMA ReadyStays ==
    ASSUME Shape, Ready, NEW t \in Threads,
           \A u \in Threads : u # t => proc'[u] = proc[u],
           \A e \in Days : LinesOf(Gz(e)) # {} => LinesOf(Gz(e))' # {},
           \A e \in Days : LinesOf(Raw(e)) # {} =>
               LinesOf(Raw(e))' # {} \/ LinesOf(Gz(e))' # {},
           NEW d \in Days,
           proc'[t].at \in Dated => proc'[t].day = d,
           proc'[t].at \notin {"zip", "sweepzip"},
           proc'[t].at \in {"drop", "sweepdrop"} => LinesOf(Gz(d))' # {}
    PROVE  Ready'
<1>1. ASSUME NEW u \in Threads
      PROVE  /\ proc'[u].at \in {"zip", "sweepzip"} =>
                    \/ LinesOf(Raw(proc[u].day))' # {}
                    \/ LinesOf(Gz(proc[u].day))' # {}
             /\ proc'[u].at \in {"drop", "sweepdrop"} =>
                    LinesOf(Gz(proc[u].day))' # {}
  <2>1. CASE u = t
    <3>1. CASE proc'[t].at \in {"drop", "sweepdrop"}
      <4>1. LinesOf(Gz(d))' = LinesOf(Gz(proc[u].day))'
        BY <2>1, <3>1 DEF LinesOf, Gz, Dated
      <4> QED BY <2>1, <3>1, <4>1
    <3> QED BY <2>1, <3>1
  <2>2. CASE u # t
    <3>1. CASE proc[u].at \in Dated
      <4>1. proc[u].day \in Days
        BY <3>1 DEF Shape
      <4> QED BY <2>2, <4>1 DEF Ready
    <3> QED BY <2>2, <3>1 DEF Dated
  <2> QED BY <2>1, <2>2
<1> QED BY <1>1 DEF Ready

LEMMA ZipStep == ASSUME IInv, NEW t \in Threads, Zip(t) PROVE IInv'
<1>0. Shape /\ Rest /\ Ready /\ Copied /\ Carried
  BY DEF IInv
<1>1. /\ proc[t].at \in {"zip", "sweepzip"}
      /\ UNCHANGED <<now, touched, life, loaded, stale, appended, excused>>
  BY DEF Zip, boot
<1>2. life = "up"
  BY <1>0, <1>1 DEF Rest
<1>3. PICK d \in Days : d = proc[t].day
  BY <1>0, <1>1 DEF Shape, Dated
<1>4. PICK b : /\ b = IF files[Gz(d)] = EmptyBag THEN files[Raw(d)] ELSE files[Gz(d)]
               /\ files' = [files EXCEPT ![Gz(d)] = b]
  <2>1. files' = [files EXCEPT ![Gz(d)] =
                     IF files[Gz(d)] = EmptyBag THEN files[Raw(d)] ELSE files[Gz(d)]]
    BY <1>0, <1>3, Names DEF Zip, Shape
  <2> QED BY <2>1
<1>5. IsFile(b)
  BY <1>0, <1>4, Names DEF Shape
<1>6. /\ DOMAIN files' = Paths /\ \A other \in Paths : IsFile(files'[other])
      /\ LinesOf(Gz(d))' = DOMAIN b
      /\ \A other \in Paths : other # Gz(d) => LinesOf(other)' = LinesOf(other)
  BY ZenonT(30), <1>0, <1>4, <1>5, Names, FileSet
<1>7. IF LinesOf(Gz(d)) = {} THEN DOMAIN b = LinesOf(Raw(d))
                             ELSE DOMAIN b = LinesOf(Gz(d))
  <2>1. files[Gz(d)] = EmptyBag <=> LinesOf(Gz(d)) = {}
    BY <1>0, Names, Empty DEF Shape, LinesOf, BagToSet
  <2> QED BY <1>4, <2>1 DEF LinesOf, BagToSet
<1>8. LinesOf(Gz(d))' # {}
  BY <1>0, <1>1, <1>3, <1>6, <1>7 DEF Ready
<1>9. /\ proc' \in [Threads -> [at : Places, day : Days \cup {NoDay},
                                 today : Int \cup {NoDay}]]
      /\ proc'[t].at \in {"drop", "sweepdrop"} /\ proc'[t].day = d
      /\ \A u \in Threads : u # t => proc'[u] = proc[u]
  <2>1. proc' = [proc EXCEPT ![t].at =
                    IF proc[t].at = "zip" THEN "drop" ELSE "sweepdrop"]
    BY DEF Zip, Goes
  <2>2. /\ proc' \in [Threads -> [at : Places, day : Days \cup {NoDay},
                                   today : Int \cup {NoDay}]]
        /\ proc'[t].at \in {"drop", "sweepdrop"} /\ proc'[t].day = proc[t].day
    BY <1>0, <2>1 DEF Shape, Places
  <2>3. \A u \in Threads : u # t => proc'[u] = proc[u]
    BY <1>0, <2>1 DEF Shape
  <2> QED BY <1>3, <2>2, <2>3
<1>10. Shape'
  BY <1>0, <1>1, <1>6, <1>9 DEF Shape
<1>11. Rest' /\ Carried'
  BY <1>1, <1>2 DEF Rest, Carried
<1>12. \A e \in Days : /\ LinesOf(Raw(e))' = LinesOf(Raw(e))
                       /\ LinesOf(Gz(e)) \subseteq LinesOf(Gz(e))'
                       /\ e # d => LinesOf(Gz(e))' = LinesOf(Gz(e))
  BY <1>6, <1>7, Names
<1>13. Ready'
  <2>1. \A e \in Days : LinesOf(Gz(e)) # {} => LinesOf(Gz(e))' # {}
    BY <1>12
  <2>2. proc'[t].at \notin {"zip", "sweepzip"}
    BY <1>9
  <2> QED BY <1>0, <1>8, <1>9, <1>12, <2>1, <2>2, ReadyStays
<1>14. Copied'
  <2>1. ASSUME NEW e \in Days, LinesOf(Gz(e))' # {}
        PROVE  LinesOf(Raw(e))' \subseteq LinesOf(Gz(e))' \cup excused'
    BY <1>0, <1>1, <1>6, <1>7, <1>12, <2>1 DEF Copied
  <2> QED BY <2>1 DEF Copied
<1>15. LinesKept'
  <2>1. \A path \in Paths : LinesOf(path) \subseteq LinesOf(path)'
    BY <1>6, <1>7
  <2>2. \A n \in appended' :
            n \in excused' \/ \E path \in Paths : n \in LinesOf(path)'
    BY <1>1, <2>1, KeptIs DEF IInv
  <2> QED BY <2>2 DEF LinesKept, OnDisk
<1> QED BY <1>10, <1>11, <1>13, <1>14, <1>15 DEF IInv

LEMMA DropStep == ASSUME IInv, NEW t \in Threads, Drop(t) PROVE IInv'
<1>0. Shape /\ Rest /\ Ready /\ Copied /\ Carried
  BY DEF IInv
<1>1. /\ proc[t].at \in {"drop", "sweepdrop"}
      /\ UNCHANGED <<now, touched, life, loaded, stale, appended, excused>>
  BY DEF Drop, boot
<1>2. life = "up"
  BY <1>0, <1>1 DEF Rest
<1>3. PICK d \in Days : d = proc[t].day
  BY <1>0, <1>1 DEF Shape, Dated
<1>4. files' = [files EXCEPT ![Raw(d)] = EmptyBag]
  BY <1>3 DEF Drop
<1>5. /\ DOMAIN files' = Paths /\ \A other \in Paths : IsFile(files'[other])
      /\ LinesOf(Raw(d))' = {}
      /\ \A other \in Paths : other # Raw(d) => LinesOf(other)' = LinesOf(other)
  BY <1>0, <1>4, Names, NoLines, FileSet
<1>6. /\ proc' \in [Threads -> [at : Places, day : Days \cup {NoDay},
                                 today : Int \cup {NoDay}]]
      /\ proc'[t].at \in {"write", "sweep"}
      /\ \A u \in Threads : u # t => proc'[u] = proc[u]
  <2>1. PICK where \in {"write", "sweep"} : proc' = [proc EXCEPT ![t].at = where]
    BY DEF Drop, Goes, AfterRotation
  <2> QED BY <1>0, <2>1 DEF Shape, Places
<1>7. Shape'
  <2>1. \A u \in Threads : proc'[u].at \in Dated => proc'[u].day \in Days
    BY <1>0, <1>6 DEF Shape, Dated
  <2> QED BY <1>0, <1>1, <1>5, <1>6, <2>1 DEF Shape
<1>8. Rest' /\ Carried'
  BY <1>1, <1>2 DEF Rest, Carried
<1>9. \A e \in Days : /\ LinesOf(Gz(e))' = LinesOf(Gz(e))
                      /\ e # d => LinesOf(Raw(e))' = LinesOf(Raw(e))
  BY <1>5, Names
<1>10. LinesOf(Gz(d)) # {}
  BY <1>0, <1>1, <1>3 DEF Ready
<1>11. Ready'
  <2>1. \A e \in Days : /\ LinesOf(Gz(e)) # {} => LinesOf(Gz(e))' # {}
                        /\ LinesOf(Raw(e)) # {} =>
                              LinesOf(Raw(e))' # {} \/ LinesOf(Gz(e))' # {}
    BY <1>9, <1>10
  <2>2. /\ proc'[t].at \notin Dated
        /\ proc'[t].at \notin {"zip", "sweepzip"}
        /\ proc'[t].at \notin {"drop", "sweepdrop"}
    BY <1>6 DEF Dated
  <2> QED BY <1>0, <1>6, <2>1, <2>2, ReadyStays
<1>12. Copied'
  <2>1. ASSUME NEW e \in Days, LinesOf(Gz(e))' # {}
        PROVE  LinesOf(Raw(e))' \subseteq LinesOf(Gz(e))' \cup excused'
    BY <1>0, <1>1, <1>5, <1>9, <2>1 DEF Copied
  <2> QED BY <2>1 DEF Copied
<1>13. LinesKept'
  <2>1. ASSUME NEW n \in appended
        PROVE  n \in excused \/ \E path \in Paths : n \in LinesOf(path)'
    <3>1. ASSUME NEW path \in Paths, n \in LinesOf(path)
          PROVE  n \in excused \/ \E other \in Paths : n \in LinesOf(other)'
      <4>1. CASE path = Raw(d)
        <5>1. n \in LinesOf(Gz(d)) \cup excused
          BY <1>0, <1>10, <3>1, <4>1 DEF Copied
        <5> QED BY <1>9, <5>1, Names
      <4>2. CASE path # Raw(d)
        BY <1>5, <3>1, <4>2
      <4> QED BY <4>1, <4>2
    <3> QED BY <3>1, KeptIs DEF IInv
  <2>2. \A n \in appended' :
            n \in excused' \/ \E path \in Paths : n \in LinesOf(path)'
    BY <1>1, <2>1
  <2> QED BY <2>2 DEF LinesKept, OnDisk
<1> QED BY <1>7, <1>8, <1>11, <1>12, <1>13 DEF IInv

LEMMA WriteStep == ASSUME IInv, Write PROVE IInv'
<1>0. Shape /\ Rest /\ Ready /\ Copied /\ Carried
  BY DEF IInv
<1>1. /\ proc["writer"].at = "write" /\ "writer" \in Threads
      /\ proc' = [proc EXCEPT !["writer"] = Idle]
      /\ touched' = now
      /\ UNCHANGED <<now, life, loaded, stale, excused>>
  BY DEF Write, boot, Threads
<1>2. life = "up"
  BY <1>0, <1>1 DEF Rest
<1>3. PICK n : /\ appended' = appended \cup {n}
               /\ files' = [files EXCEPT ![DayFile] = files[DayFile] (+) SetToBag({n})]
  BY DEF Write
<1>4. /\ IsFile(files[DayFile] (+) SetToBag({n}))
      /\ DOMAIN (files[DayFile] (+) SetToBag({n})) = LinesOf(DayFile) \cup {n}
  BY DEF IsFile, (+), SetToBag, LinesOf, BagToSet
<1>5. DayFile \in Paths
  BY DEF Paths
<1>6. /\ DOMAIN files' = Paths /\ \A other \in Paths : IsFile(files'[other])
      /\ LinesOf(DayFile)' = LinesOf(DayFile) \cup {n}
      /\ \A other \in Paths : other # DayFile => LinesOf(other)' = LinesOf(other)
  BY <1>0, <1>3, <1>4, <1>5, FileSet
<1>7. /\ proc' \in [Threads -> [at : Places, day : Days \cup {NoDay},
                                 today : Int \cup {NoDay}]]
      /\ proc'["writer"].at = "idle"
      /\ \A u \in Threads : u # "writer" => proc'[u] = proc[u]
  BY <1>0, <1>1 DEF Shape, Places, Idle
<1>8. Shape'
  <2>1. \A u \in Threads : proc'[u].at \in Dated => proc'[u].day \in Days
    BY <1>0, <1>7 DEF Shape, Dated
  <2>2. now' \in 0 .. MaxTime /\ touched' \in 0 .. now'
    BY <1>0, <1>1 DEF Shape
  <2> QED BY <1>0, <1>1, <1>6, <1>7, <2>1, <2>2 DEF Shape
<1>9. Rest' /\ Carried'
  BY <1>1, <1>2 DEF Rest, Carried
<1>10. \A e \in Days : /\ LinesOf(Gz(e))' = LinesOf(Gz(e))
                       /\ LinesOf(Raw(e))' = LinesOf(Raw(e))
  BY <1>6, Names
<1>11. Ready'
  <2>1. /\ proc'["writer"].at \notin Dated
        /\ proc'["writer"].at \notin {"zip", "sweepzip"}
        /\ proc'["writer"].at \notin {"drop", "sweepdrop"}
    BY <1>7 DEF Dated
  <2>2. 0 \in Days
    BY ArchiveAssumption DEF Days
  <2> QED BY <1>0, <1>1, <1>7, <1>10, <2>1, <2>2, ReadyStays
<1>12. Copied'
  BY <1>0, <1>1, <1>10 DEF Copied
<1>13. LinesKept'
  <2>1. \A m \in appended' :
            m \in excused' \/ \E path \in Paths : m \in LinesOf(path)'
    BY <1>1, <1>3, <1>5, <1>6, KeptIs DEF IInv
  <2> QED BY <2>1 DEF LinesKept, OnDisk
<1> QED BY <1>8, <1>9, <1>11, <1>12, <1>13 DEF IInv

\* Nobody compresses while every thread rests.
LEMMA RestIsReady ==
    ASSUME \A t \in Threads : proc'[t].at = "idle"
    PROVE  Ready' /\ Rest' /\ \A t \in Threads : proc'[t].at \notin Dated
BY DEF Ready, Rest, Dated

LEMMA CrashStep == ASSUME IInv, Crash PROVE IInv'
<1>0. Shape
  BY DEF IInv
<1>1. /\ proc' = [t \in Threads |-> Idle]
      /\ life' = "down" /\ loaded' = EmptyBag /\ stale' = {}
      /\ UNCHANGED <<now, files, touched, appended, excused>>
  BY DEF Crash
<1>2. Copied' /\ LinesKept'
  BY <1>1, FilesStand
<1>3. \A t \in Threads : proc'[t].at = "idle"
  BY <1>1 DEF Idle
<1>4. Shape'
  <2>1. proc' \in [Threads -> [at : Places, day : Days \cup {NoDay},
                               today : Int \cup {NoDay}]]
    BY <1>1 DEF Idle, Places
  <2> QED BY <1>0, <1>1, <1>3, <2>1, RestIsReady, NoLines DEF Shape
<1>5. Carried'
  BY <1>1 DEF Carried
<1> QED BY <1>2, <1>3, <1>4, <1>5, RestIsReady DEF IInv

LEMMA LoadStep == ASSUME IInv, Load PROVE IInv'
<1>0. Shape /\ Rest
  BY DEF IInv
<1>1. /\ life = "down" /\ life' = "loaded"
      /\ UNCHANGED <<now, files, touched, proc, stale, appended>>
  BY DEF Load
<1>2. PICK skipped \in SUBSET Paths :
          /\ loaded' = Together(Paths \ skipped)
          /\ excused' = excused \cup UNION {LinesOf(path) : path \in skipped}
  BY DEF Load
<1>3. Copied' /\ LinesKept'
  BY <1>1, <1>2, FilesStand
<1>4. \A t \in Threads : proc'[t].at = "idle"
  BY <1>0, <1>1 DEF Rest
<1>5. /\ IsFile(loaded')
      /\ DOMAIN loaded' = UNION {LinesOf(path) : path \in Paths \ skipped}
  BY <1>2 DEF IsFile, Together
<1>6. Shape'
  BY <1>0, <1>1, <1>5 DEF Shape
<1>7. Carried'
  <2>1. ASSUME NEW n \in appended
        PROVE  n \in DOMAIN loaded' \cup excused'
    <3>1. CASE n \in excused
      BY <1>2, <3>1
    <3>2. ASSUME NEW path \in Paths, n \in LinesOf(path)
          PROVE  n \in DOMAIN loaded' \cup excused'
      BY <1>2, <1>5, <3>2
    <3> QED BY <3>1, <3>2, KeptIs DEF IInv
  <2> QED BY <1>1, <2>1 DEF Carried
<1> QED BY <1>3, <1>4, <1>6, <1>7, RestIsReady DEF IInv

LEMMA RewriteStep == ASSUME IInv, Rewrite PROVE IInv'
<1>0. Shape /\ Rest /\ Copied /\ Carried
  BY DEF IInv
<1>1. /\ life = "loaded" /\ life' = "rewritten"
      /\ files' = [files EXCEPT ![DayFile] = loaded]
      /\ touched' = now /\ stale' \subseteq Archives
      /\ UNCHANGED <<now, proc, loaded, appended, excused>>
  BY DEF Rewrite
<1>2. DayFile \in Paths /\ IsFile(loaded)
  BY <1>0 DEF Paths, Shape
<1>3. /\ DOMAIN files' = Paths /\ \A other \in Paths : IsFile(files'[other])
      /\ LinesOf(DayFile)' = DOMAIN loaded
      /\ \A other \in Paths : other # DayFile => LinesOf(other)' = LinesOf(other)
  BY <1>0, <1>1, <1>2, FileSet
<1>4. \A t \in Threads : proc'[t].at = "idle"
  BY <1>0, <1>1 DEF Rest
<1>5. Shape'
  <2>1. now' \in 0 .. MaxTime /\ touched' \in 0 .. now'
    BY <1>0, <1>1 DEF Shape
  <2> QED BY <1>0, <1>1, <1>3, <2>1 DEF Shape
<1>6. Copied'
  <2>1. \A d \in Days : /\ LinesOf(Gz(d))' = LinesOf(Gz(d))
                        /\ LinesOf(Raw(d))' = LinesOf(Raw(d))
    BY <1>3, Names
  <2> QED BY <1>0, <1>1, <2>1 DEF Copied
<1>7. appended' \subseteq LinesOf(DayFile)' \cup excused'
  BY <1>0, <1>1, <1>3 DEF Carried
<1>8. Carried'
  BY <1>1, <1>7 DEF Carried
<1>9. LinesKept'
  BY <1>2, <1>7 DEF LinesKept, OnDisk
<1> QED BY <1>4, <1>5, <1>6, <1>8, <1>9, RestIsReady DEF IInv

LEMMA RemoveStep == ASSUME IInv, Remove PROVE IInv'
<1>0. Shape /\ Rest /\ Copied /\ Carried
  BY DEF IInv
<1>1. /\ life = "rewritten"
      /\ UNCHANGED <<now, touched, proc, life, loaded, appended, excused>>
  BY DEF Remove
<1>2. \A t \in Threads : proc'[t].at = "idle"
  BY <1>0, <1>1 DEF Rest
<1>3. PICK path \in stale : /\ stale' = stale \ {path}
                           /\ \/ files' = [files EXCEPT ![path] = EmptyBag]
                              \/ files' = files
  BY DEF Remove
<1>4. path \in Archives /\ path \in Paths /\ DayFile \in Paths /\ DayFile # path
  BY <1>0, <1>3 DEF Shape, Paths, Archives, DayFile
<1>5. /\ DOMAIN files' = Paths /\ \A other \in Paths : IsFile(files'[other])
      /\ LinesOf(path)' = {} \/ LinesOf(path)' = LinesOf(path)
      /\ \A other \in Paths : other # path => LinesOf(other)' = LinesOf(other)
  <2>1. CASE files' = [files EXCEPT ![path] = EmptyBag]
    BY <1>0, <1>4, <2>1, NoLines, FileSet
  <2>2. CASE files' = files
    BY <1>0, <2>2 DEF Shape, LinesOf
  <2> QED BY <1>3, <2>1, <2>2
<1>6. Shape'
  BY <1>0, <1>1, <1>3, <1>5 DEF Shape
<1>7. Copied'
  <2>1. ASSUME NEW d \in Days
        PROVE  /\ LinesOf(Gz(d))' = {} \/ LinesOf(Gz(d))' = LinesOf(Gz(d))
               /\ LinesOf(Raw(d))' = {} \/ LinesOf(Raw(d))' = LinesOf(Raw(d))
    BY <1>5, Names
  <2> QED BY <1>0, <1>1, <2>1 DEF Copied
<1>8. appended' \subseteq LinesOf(DayFile)' \cup excused'
  BY <1>0, <1>1, <1>4, <1>5 DEF Carried
<1>9. Carried'
  BY <1>1, <1>8 DEF Carried
<1>10. LinesKept'
  BY <1>4, <1>8 DEF LinesKept, OnDisk
<1> QED BY <1>2, <1>6, <1>7, <1>9, <1>10, RestIsReady DEF IInv

LEMMA OpenStep == ASSUME IInv, Open PROVE IInv'
<1>0. Shape /\ Rest
  BY DEF IInv
<1>1. /\ life = "rewritten" /\ life' = "up" /\ loaded' = EmptyBag
      /\ UNCHANGED <<now, files, touched, proc, stale, appended, excused>>
  BY DEF Open
<1>2. \A t \in Threads : proc'[t].at = "idle"
  BY <1>0, <1>1 DEF Rest
<1>3. Copied' /\ LinesKept'
  BY <1>1, FilesStand
<1>4. Shape'
  BY <1>0, <1>1, NoLines DEF Shape
<1>5. Carried'
  BY <1>1 DEF Carried
<1> QED BY <1>2, <1>3, <1>4, <1>5, RestIsReady DEF IInv

LEMMA Stutter == ASSUME IInv, UNCHANGED vars PROVE IInv'
<1>0. Shape /\ Rest /\ Ready /\ Carried
  BY DEF IInv
<1>1. UNCHANGED <<now, files, touched, proc, life, loaded, stale, appended, excused>>
  BY DEF vars, boot
<1>2. Copied' /\ LinesKept'
  BY <1>1, FilesStand
<1>3. Shape' /\ Rest' /\ Ready' /\ Carried'
  BY <1>0, <1>1 DEF Shape, Rest, Ready, Carried, LinesOf
<1> QED BY <1>2, <1>3 DEF IInv

LEMMA StepInvariant == IInv /\ [Next]_vars => IInv'
<1> SUFFICES ASSUME IInv, [Next]_vars PROVE IInv'
  OBVIOUS
<1>1. CASE Tick
  BY <1>1, TickStep
<1>2. CASE Take
  BY <1>2, TakeStep
<1>3. CASE Round
  BY <1>3, RoundStep
<1>4. CASE Write
  BY <1>4, WriteStep
<1>5. CASE Sweep
  BY <1>5, SweepStep
<1>6. ASSUME NEW t \in Threads, Rotation(t) PROVE IInv'
  BY <1>6, CheckStep, MoveStep, ZipStep, DropStep, RotationFailsStep DEF Rotation
<1>7. CASE Crash
  BY <1>7, CrashStep
<1>8. CASE Restart
  BY <1>8, LoadStep, RewriteStep, RemoveStep, OpenStep DEF Restart
<1>9. CASE UNCHANGED vars
  BY <1>9, Stutter
<1> QED BY <1>1, <1>2, <1>3, <1>4, <1>5, <1>6, <1>7, <1>8, <1>9 DEF Next

-----------------------------------------------------------------------------
(* The theorems                                                            *)

\* The raw file of a day is only removed beside an archive that holds it.
THEOREM InvariantHolds == Spec => []IInv
BY InitInvariant, StepInvariant, PTL DEF Spec

\* persist.py: the record of a chat is compressed and read back together,
\* never deleted: no line leaves the disk but those DayArchive excuses.
THEOREM LinesStay == Spec => []LinesKept
<1>1. IInv => LinesKept
  BY DEF IInv
<1> QED BY <1>1, InvariantHolds, PTL

-----------------------------------------------------------------------------
(* Sums.  The copies of a line are counted by the fold SumFunction of the  *)
(* community modules: a CHOOSE of the function that solves the equation of *)
(* the fold.  One solution is given, and any two of them agree.            *)

\* The order a sum is taken apart along.
Below == {ss \in Nat \X Nat : ss[1] < ss[2]}

LEMMA NoDescent == IsWellFoundedOn(Below, Nat)
BY NatLessThanWellFounded, Zenon DEF OpToRel, Below

\* A set of naturals that is not empty has a smallest element.
LEMMA Smallest ==
    ASSUME NEW S \in SUBSET Nat, S # {}
    PROVE  \E x \in S : \A y \in S : x <= y
<1>1. PICK x \in S : \A y \in S : ~ (<<y, x>> \in Below)
  BY NoDescent, WFMin, Zenon
<1>2. \A a \in S, b \in S : <<a, b>> \in Below <=> a < b
  BY DEF Below
<1>3. ASSUME NEW y \in S PROVE x <= y
  <2>1. ~ (y < x)
    BY <1>1, <1>2, Zenon
  <2> QED BY <2>1, x \in Nat, y \in Nat
<1> QED BY <1>3

\* The equation of the fold behind a sum over S.
IsSum(h, c, S) ==
    h = [s \in SUBSET S |->
            IF s = {} THEN 0
            ELSE c[CHOOSE x \in s : TRUE] + h[s \ {CHOOSE x \in s : TRUE}]]

LEMMA SumIsFold ==
    ASSUME NEW c
    PROVE  SumFunction(c) = (CHOOSE h : IsSum(h, c, DOMAIN c))[DOMAIN c]
BY DEF SumFunction, SumFunctionOnSet, FoldFunctionOnSet, MapThenFoldSet, IsSum

\* The equation has one solution over a finite set.
LEMMA SumUnique ==
    ASSUME NEW S, IsFiniteSet(S), NEW c, NEW g, NEW h, IsSum(g, c, S), IsSum(h, c, S)
    PROVE  g = h
<1> DEFINE Bad == {s \in SUBSET S : g[s] # h[s]}
           Sizes == {Cardinality(s) : s \in Bad}
<1>1. \A s \in SUBSET S : IsFiniteSet(s) /\ Cardinality(s) \in Nat
  BY FS_Subset, FS_CardinalityType
<1>2. SUFFICES Bad = {}
  BY DEF IsSum
<1>3. SUFFICES ASSUME Bad # {} PROVE FALSE
  OBVIOUS
<1>4. PICK s \in Bad : \A t \in Bad : Cardinality(s) <= Cardinality(t)
  <2>1. Sizes \in SUBSET Nat /\ Sizes # {}
    BY <1>1, <1>3
  <2>2. PICK k \in Sizes : \A m \in Sizes : k <= m
    BY <2>1, Smallest
  <2> QED BY <2>2
<1>5. s # {}
  BY DEF IsSum
<1> DEFINE x == CHOOSE y \in s : TRUE
<1>6. x \in s
  BY <1>5
<1>7. /\ g[s] = c[x] + g[s \ {x}] /\ h[s] = c[x] + h[s \ {x}]
  BY <1>5 DEF IsSum
<1>8. s \ {x} \in SUBSET S /\ Cardinality(s \ {x}) = Cardinality(s) - 1
  BY <1>1, <1>6, FS_RemoveElement
<1>9. s \ {x} \notin Bad
  <2>1. Cardinality(s) \in Nat
    BY <1>1
  <2> QED BY <1>4, <1>8, <2>1
<1> QED BY <1>7, <1>8, <1>9

\* A sum with one summand 1 and the others 0.
LEMMA SumOfOne ==
    ASSUME NEW S, IsFiniteSet(S), NEW c, DOMAIN c = S, NEW one,
           \A x \in S : c[x] = IF x = one THEN 1 ELSE 0
    PROVE  SumFunction(c) = IF one \in S THEN 1 ELSE 0
<1> DEFINE g == [s \in SUBSET S |-> IF one \in s THEN 1 ELSE 0]
<1>1. IsSum(g, c, S)
  <2>1. ASSUME NEW s \in SUBSET S, s # {}
        PROVE  g[s] = c[CHOOSE x \in s : TRUE] + g[s \ {CHOOSE x \in s : TRUE}]
    <3>1. PICK x \in s : x = CHOOSE y \in s : TRUE
      BY <2>1
    <3>2. x \in S /\ s \ {x} \in SUBSET S
      OBVIOUS
    <3>3. g[s] = c[x] + g[s \ {x}]
      BY <3>2
    <3> QED BY <3>1, <3>3
  <2>2. g[{}] = 0
    OBVIOUS
  <2> QED BY <2>1, <2>2 DEF IsSum
<1> HIDE DEF g
<1>2. IsSum(CHOOSE h : IsSum(h, c, S), c, S)
  BY <1>1
<1>3. (CHOOSE h : IsSum(h, c, S)) = g
  BY <1>1, <1>2, SumUnique
<1> QED BY <1>3, SumIsFold DEF g

-----------------------------------------------------------------------------
(* One copy of each line                                                   *)

Dropping(t) == proc[t].at \in {"drop", "sweepdrop"}

\* The two files a line may be in for a while: a day file just rewritten and
\* an archive about to be removed, or the two archives of a day.
Paired(p1, p2) ==
    \/ life = "rewritten" /\ (p1 \in stale \/ p2 \in stale)
    \/ \E t \in Threads :
          Dropping(t) /\ {p1, p2} = {Raw(proc[t].day), Gz(proc[t].day)}

\* The lines are numbered, and no file has another one.
Numbered ==
    /\ Cardinality(appended) \in Nat /\ appended = 1 .. Cardinality(appended)
    /\ \A path \in Paths : LinesOf(path) \subseteq appended
    /\ DOMAIN loaded \subseteq appended

\* A line that is not torn is once in each file that has it.
Once ==
    \A n \in appended \ torn :
        /\ \A path \in Paths : n \in LinesOf(path) => files[path][n] = 1
        /\ life = "loaded" /\ n \in DOMAIN loaded => loaded[n] = 1

\* Such a line is in two files only while one of them is about to go.
Apart ==
    \A n \in appended \ torn : \A p1, p2 \in Paths :
        n \in LinesOf(p1) /\ n \in LinesOf(p2) /\ p1 # p2 => Paired(p1, p2)

Single == Numbered /\ Once /\ Apart

\* A step that changes no file.
LEMMA StillSingle ==
    ASSUME Single, \A path \in Paths : files'[path] = files[path],
           UNCHANGED appended, torn \subseteq torn',
           DOMAIN loaded' \subseteq appended,
           \A n \in appended \ torn' :
               life' = "loaded" /\ n \in DOMAIN loaded' => loaded'[n] = 1,
           \A n \in appended \ torn' : \A p1, p2 \in Paths :
               /\ n \in LinesOf(p1) /\ n \in LinesOf(p2) /\ p1 # p2
               /\ Paired(p1, p2)
               => Paired(p1, p2)'
    PROVE  Single'
<1>1. \A path \in Paths : LinesOf(path)' = LinesOf(path)
  BY DEF LinesOf
<1>2. Numbered'
  BY <1>1 DEF Single, Numbered
<1>3. Once'
  BY <1>1 DEF Single, Once
<1>4. Apart'
  BY <1>1 DEF Single, Apart
<1> QED BY <1>2, <1>3, <1>4 DEF Single

\* A thread that removes nothing ends no pair when it goes on.
LEMMA PairStays ==
    ASSUME NEW t \in Threads, ~Dropping(t),
           \A u \in Threads : u # t => proc'[u] = proc[u],
           UNCHANGED <<life, stale>>,
           NEW p1, NEW p2, Paired(p1, p2)
    PROVE  Paired(p1, p2)'
<1>1. CASE life = "rewritten" /\ (p1 \in stale \/ p2 \in stale)
  BY <1>1 DEF Paired
<1>2. ASSUME NEW u \in Threads, Dropping(u),
             {p1, p2} = {Raw(proc[u].day), Gz(proc[u].day)}
      PROVE  Paired(p1, p2)'
  <2>1. u # t /\ proc'[u] = proc[u]
    BY <1>2
  <2> QED BY <1>2, <2>1 DEF Paired, Dropping, Raw, Gz
<1> QED BY <1>1, <1>2 DEF Paired

\* Where a pair comes from while the process runs.
LEMMA PairIs ==
    ASSUME Shape, life = "up", NEW p1, NEW p2, Paired(p1, p2)
    PROVE  \E t \in Threads, d \in Days :
              /\ Dropping(t) /\ proc[t].day = d /\ {p1, p2} = {Raw(d), Gz(d)}
<1>1. PICK t \in Threads :
          Dropping(t) /\ {p1, p2} = {Raw(proc[t].day), Gz(proc[t].day)}
  BY DEF Paired
<1>2. proc[t].day \in Days
  BY <1>1 DEF Shape, Dropping, Dated
<1> QED BY <1>1, <1>2

\* While the threads rest and no archive is being removed, a line is in one
\* file.
LEMMA NoPair ==
    ASSUME \A t \in Threads : proc[t].at = "idle", life # "rewritten" \/ stale = {}
    PROVE  \A p1, p2 : ~Paired(p1, p2)
BY DEF Paired, Dropping

\* The steps that change no file.
LEMMA StillActions ==
    ASSUME IInv, Single,
           \/ Tick \/ Take \/ Round \/ Sweep \/ Crash \/ Open
           \/ \E t \in Threads : Check(t) \/ RotationFails(t)
    PROVE  Single'
<1> USE DEF boot
<1>0. Shape /\ Rest
  BY DEF IInv
<1>1. ASSUME NEW t \in Threads, ~Dropping(t),
             \A u \in Threads : u # t => proc'[u] = proc[u],
             UNCHANGED <<files, appended, life, loaded, stale>>, torn \subseteq torn'
      PROVE  Single'
  <2>1. \A p1, p2 \in Paths : Paired(p1, p2) => Paired(p1, p2)'
    BY <1>1, PairStays
  <2>2. /\ DOMAIN loaded' \subseteq appended
        /\ \A n \in appended \ torn' :
               life' = "loaded" /\ n \in DOMAIN loaded' => loaded'[n] = 1
    BY <1>1 DEF Single, Numbered, Once
  <2> QED BY <1>1, <2>1, <2>2, StillSingle
<1>2. CASE Tick
  <2>1. UNCHANGED <<files, appended, life, loaded, stale, torn, proc>>
    BY <1>2 DEF Tick
  <2>2. \A p1, p2 \in Paths : Paired(p1, p2) => Paired(p1, p2)'
    BY <2>1 DEF Paired, Dropping, Raw, Gz
  <2>3. /\ DOMAIN loaded' \subseteq appended
        /\ \A n \in appended \ torn' :
               life' = "loaded" /\ n \in DOMAIN loaded' => loaded'[n] = 1
    BY <2>1 DEF Single, Numbered, Once
  <2> QED BY <2>1, <2>2, <2>3, StillSingle
<1>3. CASE Take
  <2>1. /\ "writer" \in Threads /\ ~Dropping("writer")
        /\ \A u \in Threads : u # "writer" => proc'[u] = proc[u]
        /\ UNCHANGED <<files, appended, life, loaded, stale, torn>>
    BY <1>0, <1>3 DEF Take, Goes, Threads, Dropping, Shape
  <2> QED BY <1>1, <2>1
<1>4. CASE Round
  <2>1. /\ "keeper" \in Threads /\ ~Dropping("keeper")
        /\ \A u \in Threads : u # "keeper" => proc'[u] = proc[u]
        /\ UNCHANGED <<files, appended, life, loaded, stale, torn>>
    BY <1>0, <1>4 DEF Round, Goes, Threads, Dropping, Shape
  <2> QED BY <1>1, <2>1
<1>5. CASE Sweep
  <2>1. /\ "keeper" \in Threads /\ ~Dropping("keeper")
        /\ UNCHANGED <<files, appended, life, loaded, stale, torn>>
    BY <1>5 DEF Sweep, Threads, Dropping
  <2>2. \A u \in Threads : u # "keeper" => proc'[u] = proc[u]
    BY <1>0, <1>5 DEF Sweep, Shape
  <2> QED BY <1>1, <2>1, <2>2
<1>6. ASSUME NEW t \in Threads, Check(t) PROVE Single'
  <2>1. /\ ~Dropping(t) /\ UNCHANGED <<files, appended, life, loaded, stale, torn>>
    BY <1>6 DEF Check, Dropping
  <2>2. \A u \in Threads : u # t => proc'[u] = proc[u]
    BY <1>0, <1>6 DEF Check, Goes, Shape
  <2> QED BY <1>1, <2>1, <2>2
<1>7. ASSUME NEW t \in Threads, RotationFails(t) PROVE Single'
  <2>1. /\ UNCHANGED <<files, appended, life, loaded, stale>>
        /\ torn' = torn \cup Pending(t) /\ proc[t].at # "idle"
    BY <1>7 DEF RotationFails
  <2>2. \A u \in Threads : u # t => proc'[u] = proc[u]
    BY <1>0, <1>7 DEF RotationFails, Goes, Shape
  <2>3. CASE ~Dropping(t)
    BY <1>1, <2>1, <2>2, <2>3
  <2>4. CASE Dropping(t)
    <3>1. life = "up"
      BY <1>0, <2>1 DEF Rest
    <3>2. ASSUME NEW n \in appended \ torn', NEW p1 \in Paths, NEW p2 \in Paths,
                 n \in LinesOf(p1), n \in LinesOf(p2), Paired(p1, p2)
          PROVE  Paired(p1, p2)'
      <4>1. PICK u \in Threads :
               Dropping(u) /\ {p1, p2} = {Raw(proc[u].day), Gz(proc[u].day)}
        BY <3>1, <3>2 DEF Paired
      <4>2. u # t
        <5> SUFFICES ASSUME u = t PROVE FALSE
          OBVIOUS
        <5>1. n \in LinesOf(Raw(proc[t].day))
          BY <3>2, <4>1
        <5>2. n \in Pending(t)
          BY <2>4, <5>1 DEF Pending, Dropping
        <5> QED BY <2>1, <3>2, <5>2
      <4>3. proc'[u] = proc[u]
        BY <2>2, <4>2
      <4> QED BY <4>1, <4>3 DEF Paired, Dropping, Raw, Gz
    <3>3. /\ DOMAIN loaded' \subseteq appended
          /\ \A n \in appended \ torn' :
                 life' = "loaded" /\ n \in DOMAIN loaded' => loaded'[n] = 1
      BY <2>1 DEF Single, Numbered, Once
    <3> QED BY <2>1, <3>2, <3>3, StillSingle
  <2> QED BY <2>3, <2>4
<1>8. CASE Crash
  <2>1. /\ UNCHANGED <<files, appended>> /\ life' = "down"
        /\ torn \subseteq torn'
        /\ \A path \in stale : LinesOf(path) \subseteq torn'
        /\ \A t \in Threads : Pending(t) \subseteq torn'
    BY <1>8 DEF Crash
  <2>2. ASSUME NEW n \in appended \ torn', NEW p1 \in Paths, NEW p2 \in Paths,
               n \in LinesOf(p1), n \in LinesOf(p2), Paired(p1, p2)
        PROVE  FALSE
    <3>1. p1 \notin stale /\ p2 \notin stale
      BY <2>1, <2>2
    <3>2. PICK t \in Threads :
             Dropping(t) /\ {p1, p2} = {Raw(proc[t].day), Gz(proc[t].day)}
      BY <2>2, <3>1 DEF Paired
    <3>3. n \in LinesOf(Raw(proc[t].day))
      BY <2>2, <3>2
    <3>4. n \in Pending(t)
      BY <3>2, <3>3 DEF Pending, Dropping
    <3> QED BY <2>1, <2>2, <3>2, <3>4
  <2>3. DOMAIN loaded' \subseteq appended
    BY <1>8, NoLines DEF Crash
  <2> QED BY <2>1, <2>2, <2>3, StillSingle
<1>9. CASE Open
  <2>1. /\ UNCHANGED <<files, appended, torn>> /\ life' = "up" /\ stale = {}
        /\ life = "rewritten" /\ loaded' = EmptyBag
    BY <1>9 DEF Open
  <2>2. \A p1, p2 : ~Paired(p1, p2)
    BY <1>0, <2>1, NoPair DEF Rest
  <2> QED BY <2>1, <2>2, NoLines, StillSingle
<1> QED BY <1>2, <1>3, <1>4, <1>5, <1>6, <1>7, <1>8, <1>9

\* The day file shares no line while the process runs.
LEMMA DayFileAlone ==
    ASSUME Shape, Apart, life = "up", NEW n \in appended \ torn,
           n \in LinesOf(DayFile), NEW path \in Paths, path # DayFile
    PROVE  n \notin LinesOf(path)
<1> SUFFICES ASSUME n \in LinesOf(path) PROVE FALSE
  OBVIOUS
<1>1. DayFile \in Paths
  BY DEF Paths
<1>2. Paired(DayFile, path)
  BY <1>1 DEF Apart
<1>3. PICK d \in Days : {DayFile, path} = {Raw(d), Gz(d)}
  BY <1>2, PairIs
<1> QED BY <1>3, Names

LEMMA MoveKeepsSingle == ASSUME IInv, Single, NEW t \in Threads, Move(t) PROVE Single'
<1>0. Shape /\ Rest /\ Numbered /\ Once /\ Apart
  BY DEF IInv, Single
<1>1. /\ proc[t].at = "move"
      /\ proc' = [proc EXCEPT ![t].at = "zip"]
      /\ UNCHANGED <<life, loaded, stale, appended, torn>>
  BY DEF Move, Goes, boot
<1>2. life = "up"
  BY <1>0, <1>1 DEF Rest
<1>3. PICK d \in Days : d = proc[t].day
  BY <1>0, <1>1 DEF Shape, Dated
<1>4. files' = [files EXCEPT ![Raw(d)] = files[DayFile], ![DayFile] = EmptyBag]
  BY <1>3 DEF Move
<1>5. /\ files'[Raw(d)] = files[DayFile]
      /\ files'[DayFile] = EmptyBag
      /\ \A other \in Paths : other # Raw(d) /\ other # DayFile =>
            files'[other] = files[other]
  BY <1>0, <1>4, Names DEF Shape
<1>6. /\ LinesOf(Raw(d))' = LinesOf(DayFile) /\ LinesOf(DayFile)' = {}
      /\ \A other \in Paths : other # Raw(d) /\ other # DayFile =>
            LinesOf(other)' = LinesOf(other)
  BY <1>5, NoLines DEF LinesOf, BagToSet
<1>7. ~Dropping(t) /\ \A u \in Threads : u # t => proc'[u] = proc[u]
  BY <1>0, <1>1 DEF Dropping, Shape
<1>8. DayFile \in Paths
  BY DEF Paths
<1>9. Numbered'
  BY <1>0, <1>1, <1>6, <1>8 DEF Numbered
<1>10. Once'
  <2>1. ASSUME NEW n \in appended \ torn, NEW path \in Paths, n \in LinesOf(path)'
        PROVE  files'[path][n] = 1
    BY <1>0, <1>5, <1>6, <1>8, <2>1 DEF Once
  <2> QED BY <1>1, <1>2, <2>1 DEF Once
<1>11. Apart'
  <2>1. ASSUME NEW n \in appended \ torn, NEW p1 \in Paths, NEW p2 \in Paths,
               n \in LinesOf(p1)', n \in LinesOf(p2)', p1 # p2
        PROVE  Paired(p1, p2)'
    <3>1. p1 # DayFile /\ p2 # DayFile
      BY <1>6, <2>1
    <3>2. p1 # Raw(d) /\ p2 # Raw(d)
      BY <1>0, <1>2, <1>6, <2>1, <3>1, DayFileAlone
    <3>3. Paired(p1, p2)
      BY <1>0, <1>6, <2>1, <3>1, <3>2 DEF Apart
    <3> QED BY <1>1, <1>7, <3>3, PairStays
  <2> QED BY <1>1, <2>1 DEF Apart
<1> QED BY <1>9, <1>10, <1>11 DEF Single

LEMMA ZipKeepsSingle == ASSUME IInv, Single, NEW t \in Threads, Zip(t) PROVE Single'
<1>0. Shape /\ Rest /\ Numbered /\ Once /\ Apart
  BY DEF IInv, Single
<1>1. /\ proc[t].at \in {"zip", "sweepzip"}
      /\ \/ proc' = [proc EXCEPT ![t].at = "drop"]
         \/ proc' = [proc EXCEPT ![t].at = "sweepdrop"]
      /\ UNCHANGED <<life, loaded, stale, appended, torn>>
  BY DEF Zip, Goes, boot
<1>2. life = "up"
  BY <1>0, <1>1 DEF Rest
<1>3. PICK d \in Days : d = proc[t].day
  BY <1>0, <1>1 DEF Shape, Dated
<1>4. files' = [files EXCEPT
                   ![Gz(d)] = IF @ = EmptyBag THEN files[Raw(d)] ELSE @]
  BY <1>3 DEF Zip
<1>5. ~Dropping(t) /\ \A u \in Threads : u # t => proc'[u] = proc[u]
  BY <1>0, <1>1 DEF Dropping, Shape
<1>6. Dropping(t)' /\ proc'[t].day = d
  BY <1>0, <1>1, <1>3 DEF Dropping, Shape
<1>7. \A p1, p2 \in Paths : Paired(p1, p2) => Paired(p1, p2)'
  BY <1>1, <1>5, PairStays
<1>8. CASE files[Gz(d)] # EmptyBag
  <2>1. \A path \in Paths : files'[path] = files[path]
    BY <1>0, <1>4, <1>8, Names DEF Shape
  <2>2. /\ DOMAIN loaded' \subseteq appended
        /\ \A n \in appended \ torn' :
               life' = "loaded" /\ n \in DOMAIN loaded' => loaded'[n] = 1
    BY <1>0, <1>1 DEF Numbered, Once
  <2> QED BY <1>1, <1>7, <2>1, <2>2, StillSingle
<1>9. CASE files[Gz(d)] = EmptyBag
  <2>1. /\ files'[Gz(d)] = files[Raw(d)]
        /\ \A other \in Paths : other # Gz(d) => files'[other] = files[other]
    BY <1>0, <1>4, <1>9, Names DEF Shape
  <2>2. /\ LinesOf(Gz(d))' = LinesOf(Raw(d))
        /\ \A other \in Paths : other # Gz(d) => LinesOf(other)' = LinesOf(other)
    BY <2>1 DEF LinesOf
  <2>3. Raw(d) \in Paths /\ Raw(d) # Gz(d)
    BY Names
  <2>4. Numbered'
    BY <1>0, <1>1, <2>2, <2>3 DEF Numbered
  <2>5. Once'
    <3>1. ASSUME NEW n \in appended \ torn, NEW path \in Paths, n \in LinesOf(path)'
          PROVE  files'[path][n] = 1
      BY <1>0, <2>1, <2>2, <2>3, <3>1 DEF Once
    <3> QED BY <1>1, <1>2, <3>1 DEF Once
  <2>6. Apart'
    <3>1. ASSUME NEW n \in appended \ torn, NEW path \in Paths,
                 n \in LinesOf(Raw(d)), path # Raw(d), path # Gz(d)
          PROVE  n \notin LinesOf(path)
      <4> SUFFICES ASSUME n \in LinesOf(path) PROVE FALSE
        OBVIOUS
      <4>1. Paired(Raw(d), path)
        BY <1>0, <2>3, <3>1 DEF Apart
      <4>2. PICK e \in Days : {Raw(d), path} = {Raw(e), Gz(e)}
        BY <1>0, <1>2, <4>1, PairIs
      <4>3. Raw(d) # Gz(e) /\ (Raw(e) = Raw(d) <=> e = d)
        BY Names
      <4> QED BY <3>1, <4>2, <4>3
    <3>2. ASSUME NEW n \in appended \ torn, NEW p1 \in Paths, NEW p2 \in Paths,
                 n \in LinesOf(p1)', n \in LinesOf(p2)', p1 # p2
          PROVE  Paired(p1, p2)'
      <4>1. CASE {p1, p2} = {Raw(d), Gz(d)}
        BY <1>6, <4>1 DEF Paired, Raw, Gz
      <4>2. CASE {p1, p2} # {Raw(d), Gz(d)}
        <5>1. p1 # Gz(d) /\ p2 # Gz(d)
          BY <2>2, <2>3, <3>1, <3>2, <4>2
        <5>2. Paired(p1, p2)
          BY <1>0, <2>2, <3>2, <5>1 DEF Apart
        <5> QED BY <1>7, <5>2
      <4> QED BY <4>1, <4>2
    <3> QED BY <1>1, <3>2 DEF Apart
  <2> QED BY <2>4, <2>5, <2>6 DEF Single
<1> QED BY <1>8, <1>9

LEMMA DropKeepsSingle == ASSUME IInv, Single, NEW t \in Threads, Drop(t) PROVE Single'
<1>0. Shape /\ Rest /\ Numbered /\ Once /\ Apart
  BY DEF IInv, Single
<1>1. /\ Dropping(t) /\ proc[t].at # "idle" /\ proc[t].at \in Dated
      /\ UNCHANGED <<life, loaded, stale, appended, torn>>
  BY DEF Drop, Dropping, boot, Dated
<1>2. life = "up"
  BY <1>0, <1>1 DEF Rest
<1>3. PICK d \in Days : d = proc[t].day
  BY <1>0, <1>1 DEF Shape
<1>4. files' = [files EXCEPT ![Raw(d)] = EmptyBag]
  BY <1>3 DEF Drop
<1>5. \A u \in Threads : u # t => proc'[u] = proc[u]
  BY <1>0 DEF Drop, Goes, Shape
<1>6. /\ LinesOf(Raw(d))' = {}
      /\ \A other \in Paths : other # Raw(d) =>
            files'[other] = files[other] /\ LinesOf(other)' = LinesOf(other)
  BY <1>0, <1>4, Names, NoLines, FileSet
<1>7. Numbered'
  BY <1>0, <1>1, <1>6 DEF Numbered
<1>8. Once'
  <2>1. ASSUME NEW n \in appended \ torn, NEW path \in Paths, n \in LinesOf(path)'
        PROVE  files'[path][n] = 1
    BY <1>0, <1>6, <2>1 DEF Once
  <2> QED BY <1>1, <1>2, <2>1 DEF Once
<1>9. Apart'
  <2>1. ASSUME NEW n \in appended \ torn, NEW p1 \in Paths, NEW p2 \in Paths,
               n \in LinesOf(p1)', n \in LinesOf(p2)', p1 # p2
        PROVE  Paired(p1, p2)'
    <3>1. p1 # Raw(d) /\ p2 # Raw(d)
      BY <1>6, <2>1
    <3>2. Paired(p1, p2)
      BY <1>0, <1>6, <2>1, <3>1 DEF Apart
    <3>3. PICK u \in Threads :
             Dropping(u) /\ {p1, p2} = {Raw(proc[u].day), Gz(proc[u].day)}
      BY <1>2, <3>2 DEF Paired
    <3>4. u # t /\ proc'[u] = proc[u]
      BY <1>3, <1>5, <3>1, <3>3
    <3> QED BY <3>3, <3>4 DEF Paired, Dropping, Raw, Gz
  <2> QED BY <1>1, <2>1 DEF Apart
<1> QED BY <1>7, <1>8, <1>9 DEF Single

LEMMA WriteKeepsSingle == ASSUME IInv, Single, Write PROVE Single'
<1>0. Shape /\ Rest /\ Numbered /\ Once /\ Apart
  BY DEF IInv, Single
<1> DEFINE n == Cardinality(appended) + 1
<1>1. /\ proc["writer"].at = "write" /\ "writer" \in Threads
      /\ proc' = [proc EXCEPT !["writer"] = Idle]
      /\ appended' = appended \cup {n}
      /\ files' = [files EXCEPT ![DayFile] = files[DayFile] (+) SetToBag({n})]
      /\ UNCHANGED <<life, loaded, stale, torn>>
  BY DEF Write, boot, Threads
<1>2. life = "up"
  BY <1>0, <1>1 DEF Rest
<1>3. /\ n \in Nat \ appended /\ appended' = 1 .. n /\ Cardinality(appended') = n
  <2>1. Cardinality(1 .. n) = n
    BY <1>0, FS_Interval DEF Numbered
  <2>2. n \in Nat \ appended /\ appended' = 1 .. n
    BY <1>0, <1>1 DEF Numbered
  <2> QED BY <2>1, <2>2
<1> HIDE DEF n
<1> DEFINE after == files[DayFile] (+) SetToBag({n})
<1>4. /\ IsFile(after) /\ DOMAIN after = LinesOf(DayFile) \cup {n}
      /\ n \notin LinesOf(DayFile) => after[n] = 0 + 1
      /\ \A m \in LinesOf(DayFile) : m # n => after[m] = files[DayFile][m] + 0
  BY DEF IsFile, (+), SetToBag, LinesOf, BagToSet
<1> HIDE DEF after
<1>5. DayFile \in Paths
  BY DEF Paths
<1>6. /\ files'[DayFile] = after /\ LinesOf(DayFile)' = LinesOf(DayFile) \cup {n}
      /\ \A other \in Paths : other # DayFile =>
            files'[other] = files[other] /\ LinesOf(other)' = LinesOf(other)
  <2>1. files' = [files EXCEPT ![DayFile] = after]
    BY <1>1 DEF after
  <2>2. files'[DayFile] = after
    BY <1>0, <1>5, <2>1 DEF Shape
  <2> QED BY <1>0, <1>4, <1>5, <2>1, <2>2, FileSet
<1>7. ~Dropping("writer") /\ \A u \in Threads : u # "writer" => proc'[u] = proc[u]
  BY <1>0, <1>1 DEF Dropping, Shape
<1>8. \A path \in Paths : n \notin LinesOf(path)
  BY <1>0, <1>3 DEF Numbered
<1>9. Numbered'
  <2>1. \A path \in Paths : LinesOf(path)' \subseteq appended'
    BY <1>0, <1>1, <1>6 DEF Numbered
  <2>2. DOMAIN loaded' \subseteq appended'
    BY <1>0, <1>1 DEF Numbered
  <2> QED BY <1>3, <2>1, <2>2 DEF Numbered
<1>10. Once'
  <2>1. ASSUME NEW m \in appended' \ torn, NEW path \in Paths, m \in LinesOf(path)'
        PROVE  files'[path][m] = 1
    <3>1. CASE m = n
      BY <1>4, <1>5, <1>6, <1>8, <2>1, <3>1
    <3>2. CASE m # n
      <4>1. m \in appended \ torn /\ m \in LinesOf(path)
        BY <1>1, <1>6, <2>1, <3>2
      <4>2. files[path][m] = 1
        BY <1>0, <4>1 DEF Once
      <4>3. CASE path = DayFile
        <5>1. files'[path][m] = files[path][m] + 0
          BY <1>4, <1>6, <3>2, <4>1, <4>3
        <5> QED BY <4>2, <5>1
      <4>4. CASE path # DayFile
        BY <1>6, <4>2, <4>4
      <4> QED BY <4>3, <4>4
    <3> QED BY <3>1, <3>2
  <2> QED BY <1>1, <1>2, <2>1 DEF Once
<1>11. Apart'
  <2>1. ASSUME NEW m \in appended' \ torn, NEW p1 \in Paths, NEW p2 \in Paths,
               m \in LinesOf(p1)', m \in LinesOf(p2)', p1 # p2
        PROVE  Paired(p1, p2)'
    <3>1. m # n
      BY <1>6, <1>8, <2>1
    <3>2. m \in appended \ torn /\ m \in LinesOf(p1) /\ m \in LinesOf(p2)
      BY <1>1, <1>6, <2>1, <3>1
    <3>3. Paired(p1, p2)
      BY <1>0, <2>1, <3>2 DEF Apart
    <3> QED BY <1>1, <1>7, <3>3, PairStays
  <2> QED BY <1>1, <2>1 DEF Apart
<1> QED BY <1>9, <1>10, <1>11 DEF Single

\* Every file of a project can be counted.
LEMMA PathsFinite == IsFiniteSet(Paths)
<1>1. IsFiniteSet(Days)
  <2>1. MaxTime \div DayLength \in Int
    BY ArchiveAssumption
  <2> QED BY <2>1, FS_Interval DEF Days
<1>2. IsFiniteSet({"raw", "gz"})
  <2>1. IsFiniteSet({"raw"}) /\ IsFiniteSet({"gz"})
    BY FS_Singleton
  <2>2. IsFiniteSet({"raw"} \cup {"gz"})
    BY <2>1, FS_Union
  <2>3. {"raw", "gz"} = {"raw"} \cup {"gz"}
    OBVIOUS
  <2> QED BY <2>2, <2>3
<1>3. IsFiniteSet(Archives) /\ IsFiniteSet({DayFile})
  BY <1>1, <1>2, FS_Product, FS_Singleton DEF Archives
<1> QED BY <1>3, FS_Union DEF Paths

\* A line that is in no two files is found once, or not at all.
LEMMA CopiesCounted ==
    ASSUME Once, Apart, \A p1, p2 : ~Paired(p1, p2),
           NEW n \in appended \ torn, NEW S \in SUBSET Paths
    PROVE  /\ CopiesAt(S, n) \in {0, 1}
           /\ (\E path \in S : n \in LinesOf(path)) => CopiesAt(S, n) = 1
<1>1. IsFiniteSet(S)
  BY PathsFinite, FS_Subset
<1> DEFINE c == [path \in S |-> CopiesOf(n, path)]
<1>2. CASE \E path \in S : n \in LinesOf(path)
  <2>1. PICK one \in S : n \in LinesOf(one)
    BY <1>2
  <2>2. \A path \in S : path # one => n \notin LinesOf(path)
    BY <2>1 DEF Apart
  <2>3. files[one][n] = 1
    BY <2>1 DEF Once
  <2>4. \A path \in S : c[path] = IF path = one THEN 1 ELSE 0
    BY <2>1, <2>2, <2>3 DEF CopiesOf
  <2>5. DOMAIN c = S
    OBVIOUS
  <2> HIDE DEF c
  <2>6. SumFunction(c) = 1
    BY <1>1, <2>1, <2>4, <2>5, SumOfOne
  <2> QED BY <2>6 DEF CopiesAt, c
<1>3. CASE ~\E path \in S : n \in LinesOf(path)
  <2>1. PICK one : one \notin S
    <3>1. <<"none", 0>> \notin Paths
      BY DEF Paths, Archives, DayFile
    <3> QED BY <3>1
  <2>2. \A path \in S : c[path] = IF path = one THEN 1 ELSE 0
    BY <1>3, <2>1 DEF CopiesOf
  <2>3. DOMAIN c = S
    OBVIOUS
  <2> HIDE DEF c
  <2>4. SumFunction(c) = 0
    BY <1>1, <2>1, <2>2, <2>3, SumOfOne
  <2> QED BY <1>3, <2>4 DEF CopiesAt, c
<1> QED BY <1>2, <1>3

LEMMA LoadKeepsSingle == ASSUME IInv, Single, Load PROVE Single'
<1>0. Shape /\ Rest /\ Numbered /\ Once /\ Apart
  BY DEF IInv, Single
<1>1. /\ life = "down"
      /\ UNCHANGED <<files, stale, appended, torn>>
  BY DEF Load
<1>2. PICK skipped \in SUBSET Paths : loaded' = Together(Paths \ skipped)
  BY DEF Load
<1>3. \A p1, p2 : ~Paired(p1, p2)
  BY <1>0, <1>1, NoPair DEF Rest
<1> DEFINE S == Paths \ skipped
<1>4. /\ DOMAIN loaded' = UNION {LinesOf(path) : path \in S}
      /\ \A n \in DOMAIN loaded' : loaded'[n] = CopiesAt(S, n)
  BY <1>2 DEF Together
<1>5. DOMAIN loaded' \subseteq appended
  BY <1>0, <1>4 DEF Numbered
<1>6. ASSUME NEW n \in appended \ torn, n \in DOMAIN loaded'
      PROVE  loaded'[n] = 1
  <2>1. \E path \in S : n \in LinesOf(path)
    BY <1>4, <1>6
  <2>2. CopiesAt(S, n) = 1
    BY <1>0, <1>3, <2>1, CopiesCounted
  <2> QED BY <1>4, <1>6, <2>2
<1> QED BY <1>1, <1>3, <1>5, <1>6, StillSingle

LEMMA RewriteKeepsSingle == ASSUME IInv, Single, Rewrite PROVE Single'
<1>0. Shape /\ Rest /\ Numbered /\ Once /\ Apart
  BY DEF IInv, Single
<1>1. /\ life = "loaded" /\ life' = "rewritten"
      /\ files' = [files EXCEPT ![DayFile] = loaded]
      /\ stale' = {path \in Archives : files[path] # EmptyBag}
      /\ UNCHANGED <<loaded, appended, torn>>
  BY DEF Rewrite
<1>2. DayFile \in Paths /\ IsFile(loaded)
  BY <1>0 DEF Paths, Shape
<1>3. /\ files'[DayFile] = loaded /\ LinesOf(DayFile)' = DOMAIN loaded
      /\ \A other \in Paths : other # DayFile =>
            files'[other] = files[other] /\ LinesOf(other)' = LinesOf(other)
  <2>1. files'[DayFile] = loaded
    BY <1>0, <1>1, <1>2 DEF Shape
  <2> QED BY <1>0, <1>1, <1>2, <2>1, FileSet
<1>4. Numbered'
  BY <1>0, <1>1, <1>3 DEF Numbered
<1>5. Once'
  <2>1. ASSUME NEW n \in appended \ torn, NEW path \in Paths, n \in LinesOf(path)'
        PROVE  files'[path][n] = 1
    BY <1>0, <1>1, <1>3, <2>1 DEF Once
  <2> QED BY <1>1, <2>1 DEF Once
<1>6. Apart'
  <2>1. ASSUME NEW n, NEW path \in Paths, path # DayFile, n \in LinesOf(path)'
        PROVE  path \in stale'
    <3>1. n \in LinesOf(path) /\ path \in Archives
      BY <1>3, <2>1 DEF Paths
    <3>2. files[path] # EmptyBag
      BY <3>1, NoLines DEF LinesOf, BagToSet
    <3> QED BY <1>1, <3>1, <3>2
  <2> QED BY <1>1, <2>1 DEF Apart, Paired
<1> QED BY <1>4, <1>5, <1>6 DEF Single

LEMMA RemoveKeepsSingle == ASSUME IInv, Single, Remove PROVE Single'
<1>0. Shape /\ Rest /\ Numbered /\ Once /\ Apart
  BY DEF IInv, Single
<1>1. /\ life = "rewritten" /\ UNCHANGED <<proc, life, loaded, appended>>
  BY DEF Remove
<1>2. PICK path \in stale :
          /\ stale' = stale \ {path}
          /\ \/ files' = [files EXCEPT ![path] = EmptyBag] /\ torn' = torn
             \/ files' = files /\ torn' = torn \cup LinesOf(path)
  BY DEF Remove
<1>3. path \in Paths
  BY <1>0 DEF Shape, Paths
<1>4. ASSUME NEW p1, NEW p2, Paired(p1, p2), p1 # path, p2 # path
      PROVE  Paired(p1, p2)'
  <2>1. p1 \in stale \/ p2 \in stale
    BY <1>0, <1>1, <1>4 DEF Paired, Rest, Dropping
  <2> QED BY <1>1, <1>2, <1>4, <2>1 DEF Paired
<1>5. CASE files' = [files EXCEPT ![path] = EmptyBag] /\ torn' = torn
  <2>1. /\ LinesOf(path)' = {}
        /\ \A other \in Paths : other # path =>
              files'[other] = files[other] /\ LinesOf(other)' = LinesOf(other)
    BY <1>0, <1>3, <1>5, NoLines, FileSet
  <2>2. Numbered'
    BY <1>0, <1>1, <1>3, <2>1 DEF Numbered
  <2>3. Once'
    BY <1>0, <1>1, <1>5, <2>1 DEF Once
  <2>4. Apart'
    BY <1>0, <1>1, <1>4, <1>5, <2>1 DEF Apart
  <2> QED BY <2>2, <2>3, <2>4 DEF Single
<1>6. CASE files' = files /\ torn' = torn \cup LinesOf(path)
  <2>1. ASSUME NEW n \in appended \ torn', NEW p1 \in Paths, NEW p2 \in Paths,
               n \in LinesOf(p1), n \in LinesOf(p2), Paired(p1, p2)
        PROVE  Paired(p1, p2)'
    BY <1>4, <1>6, <2>1
  <2>2. /\ DOMAIN loaded' \subseteq appended
        /\ \A n \in appended \ torn' :
               life' = "loaded" /\ n \in DOMAIN loaded' => loaded'[n] = 1
    BY <1>0, <1>1 DEF Numbered
  <2> QED BY <1>1, <1>6, <2>1, <2>2, StillSingle
<1> QED BY <1>2, <1>5, <1>6

LEMMA InitSingle == Init => Single
<1> SUFFICES ASSUME Init PROVE Single
  OBVIOUS
<1> USE DEF Init
<1>1. \A path \in Paths : LinesOf(path) = {}
  BY NoLines DEF LinesOf, BagToSet
<1>2. Cardinality(appended) = 0 /\ appended = 1 .. 0
  BY FS_EmptySet
<1> QED BY <1>1, <1>2, NoLines DEF Single, Numbered, Once, Apart

LEMMA StepSingle == IInv /\ Single /\ [Next]_vars => Single'
<1> SUFFICES ASSUME IInv, Single, [Next]_vars PROVE Single'
  OBVIOUS
<1>1. CASE Tick \/ Take \/ Round \/ Sweep \/ Crash
  BY <1>1, StillActions
<1>2. CASE Write
  BY <1>2, WriteKeepsSingle
<1>3. ASSUME NEW t \in Threads, Rotation(t) PROVE Single'
  BY <1>3, StillActions, MoveKeepsSingle, ZipKeepsSingle, DropKeepsSingle
     DEF Rotation
<1>4. CASE Restart
  BY <1>4, LoadKeepsSingle, RewriteKeepsSingle, RemoveKeepsSingle, StillActions
     DEF Restart
<1>5. CASE UNCHANGED vars
  BY <1>5 DEF vars, boot, Single, Numbered, Once, Apart, Paired, Dropping,
              LinesOf, Raw, Gz
<1> QED BY <1>1, <1>2, <1>3, <1>4, <1>5 DEF Next

\* persist.py compact: the archives are removed "to prevent reading twice":
\* a reader who comes while both threads rest finds each line once at most,
\* but for those a crash or a failed call left in two files.
THEOREM NothingReadTwice == Spec => []CopiedOnce
<1>1. Spec => []Single
  BY InvariantHolds, InitSingle, StepSingle, PTL DEF Spec
<1>2. Single => CopiedOnce
  <2> SUFFICES ASSUME Single, life = "up", \A t \in Threads : proc[t].at = "idle",
                      NEW n \in appended \ torn
               PROVE  CopiesAt(Paths, n) <= 1
    BY DEF CopiedOnce
  <2>1. \A p1, p2 : ~Paired(p1, p2)
    BY NoPair
  <2>2. CopiesAt(Paths, n) \in {0, 1}
    BY <2>1, CopiesCounted DEF Single
  <2> QED BY <2>2
<1> QED BY <1>1, <1>2, PTL
=============================================================================
