----------------------------- MODULE AtomicLog -----------------------------
(***************************************************************************)
(* What the journal promises (spec.md 4.5): each successful NEW_TXN,         *)
(* timeout, COMMIT and ABORT appends a single line naming the transaction, *)
(* the file and a size.  Abstractly a log is a sequence of records; a     *)
(* caller announces the line it is about to log, and the line is then     *)
(* appended whole with the size read at that moment, or it is lost (the   *)
(* write failed, or the process ended).  Nothing else ever changes a log. *)
(***************************************************************************)
EXTENDS Sequences

CONSTANTS
    Logs,       \* the names of the logs
    TxnIds,     \* the transaction ids a line may name
    Names,      \* the file names a line may name
    Sizes       \* the sizes a line may record

VARIABLES
    logs,       \* logs[l]: the records of log l, oldest first
    pending     \* <<log, txn, name>> of the lines being logged

vars == <<logs, pending>>

Init ==
    /\ logs = [l \in Logs |-> <<>>]
    /\ pending = {}

\* A caller starts logging a line for transaction txn and file name.
Issue(l, txn, name) ==
    /\ <<l, txn, name>> \notin pending
    /\ pending' = pending \cup {<<l, txn, name>>}
    /\ UNCHANGED logs

\* An announced line is appended as one record.
AppendLine(p, size) ==
    /\ p \in pending
    /\ logs' = [logs EXCEPT ![p[1]] = Append(@, [txn |-> p[2], file |-> p[3], size |-> size])]
    /\ pending' = pending \ {p}

\* Some announced lines are never written.
Lose(P) ==
    /\ P # {}
    /\ pending' = pending \ P
    /\ UNCHANGED logs

Next ==
    \/ \E l \in Logs, txn \in TxnIds, name \in Names : Issue(l, txn, name)
    \/ \E p \in pending, s \in Sizes : AppendLine(p, s)
    \/ \E P \in SUBSET pending : Lose(P)

Spec == Init /\ [][Next]_vars

=============================================================================
