------------------------------- MODULE Outbox -------------------------------
(***************************************************************************)
(* What the completion outbox promises: committing a result owes every     *)
(* projection of it at once, a projection is settled one at a time, and    *)
(* neither a crash nor a second consumer takes a debt or a receipt back.   *)
(***************************************************************************)
EXTENDS FiniteSets

CONSTANTS Tasks, Lanes

VARIABLES
    owed,       \* the projections a result still owes
    settled     \* the projections with a receipt

Rows == Tasks \X Lanes

Init == owed = {} /\ settled = {}

\* The result of task t is committed: all its projections are owed.
Owe(t) ==
    /\ ({t} \X Lanes) \cap (owed \cup settled) = {}
    /\ owed' = owed \cup ({t} \X Lanes)
    /\ UNCHANGED settled

Settle(r) ==
    /\ r \in owed
    /\ owed' = owed \ {r}
    /\ settled' = settled \cup {r}

Next == (\E t \in Tasks : Owe(t)) \/ (\E r \in Rows : Settle(r))

Spec == Init /\ [][Next]_<<owed, settled>>
=============================================================================
