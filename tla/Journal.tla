------------------------------- MODULE Journal -------------------------------
(***************************************************************************)
(* What the event log of the backend promises, without ring, queue or      *)
(* files: the chat record of a project is a set of entries, each with a    *)
(* seq above all seqs handed out before it in the same process; a crash    *)
(* keeps every entry up to some seq and loses the ones after it.           *)
(* EventLog implements this specification (backend/hub.py emit and         *)
(* restore, backend/persist.py "one writer thread, so the order on disk is *)
(* the order of submission").                                              *)
(***************************************************************************)
EXTENDS Integers

CONSTANT Projects

VARIABLES
    record,     \* the entries of the chat record, by seq
    last        \* the last seq handed out

jvars == <<record, last>>

JInit ==
    /\ record = [p \in Projects |-> {}]
    /\ last = [p \in Projects |-> 0]

\* An event of the chat record.
Enter(p) ==
    /\ last' = [last EXCEPT ![p] = @ + 1]
    /\ record' = [record EXCEPT ![p] = @ \cup {last[p] + 1}]

\* An event that is only shown, never recorded.
Pass(p) ==
    /\ last' = [last EXCEPT ![p] = @ + 1]
    /\ UNCHANGED record

\* The disk refuses an entry: it is shown, but no longer promised.
Forfeit(p) ==
    /\ \E n \in record[p] : record' = [record EXCEPT ![p] = @ \ {n}]
    /\ UNCHANGED last

\* T holds every element of S up to some seq, and nothing else.
IsPrefix(T, S) == T \subseteq S /\ \A n \in T, m \in S : m < n => m \in T

\* The process dies: of each project a prefix of the record survives.
Die ==
    /\ record' \in [Projects -> SUBSET Nat]
    /\ \A p \in Projects : IsPrefix(record'[p], record[p])
    /\ last' = [p \in Projects |-> 0]

\* The next process continues above everything that survived.
Resume ==
    /\ \A p \in Projects : last[p] = 0
    /\ last' \in [Projects -> Nat]
    /\ \A p \in Projects : \A n \in record[p] : n <= last'[p]
    /\ UNCHANGED record

JNext ==
    \/ \E p \in Projects : Enter(p) \/ Pass(p) \/ Forfeit(p)
    \/ Die
    \/ Resume

JSpec == JInit /\ [][JNext]_jvars
=============================================================================
