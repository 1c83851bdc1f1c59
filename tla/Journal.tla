------------------------------ MODULE Journal ------------------------------
(***************************************************************************)
(* The four append-only logs of ServerBackend and the pure algorithm that  *)
(* replays them on reboot (loadFilesAndTransactions) and rolls back files  *)
(* (truncateFiles).  A log line "txn_id file_name file_size" is a record   *)
(* [txn, file, size].  The text of a line (the six writes of              *)
(* logTransaction) and the operator>> parsing of a log's text are defined  *)
(* character by character below, so that text glued together by           *)
(* interleaved or failed writes parses the way the server parses it.      *)
(***************************************************************************)
EXTENDS Integers, Sequences, SequencesExt, TLC, Lexical

\* m_transaction_log, m_timeout_log, m_commit_log, m_abort_log
LogNames == {"open", "timeout", "commit", "abort"}

\* The fixed order in which loadFilesAndTransactions reads the logs.
LogOrder == <<"open", "timeout", "commit", "abort">>

\* The state the replay builds: file_name -> max size seen, and
\* txn_id -> file_name of the transactions still in progress.
EmptyReplay == [sizes |-> <<>>, txns |-> <<>>]

\* Remove key k from function g.
Without(g, k) == [x \in DOMAIN g \ {k} |-> g[x]]

\* A record raises its file's entry to the record's size; the first record
\* of a file creates the entry.
RaiseSize(sizes, r) ==
    IF r.file \in DOMAIN sizes
    THEN [sizes EXCEPT ![r.file] = IF r.size > @ THEN r.size ELSE @]
    ELSE sizes @@ (r.file :> r.size)

\* A record inserts its transaction if absent and erases it if present
\* ("this transaction timed out, committed, or aborted").
ToggleTxn(txns, r) ==
    IF r.txn \in DOMAIN txns
    THEN Without(txns, r.txn)
    ELSE txns @@ (r.txn :> r.file)

\* Mutant: a later record of a transaction never erases it.
ApplyRecordNoErase(st, r) ==
    [sizes |-> RaiseSize(st.sizes, r),
     txns  |-> IF r.txn \in DOMAIN st.txns THEN st.txns ELSE st.txns @@ (r.txn :> r.file)]

\* One iteration of the while loop over a log's records.
ApplyRecord(st, r) ==
    [sizes |-> RaiseSize(st.sizes, r), txns |-> ToggleTxn(st.txns, r)]

\* Replay of one whole log.
ReplayLog(st, log) == FoldLeft(ApplyRecord, st, log)

\* Replay of every log in LogOrder, as one reboot that is not interrupted.
ReplayAll(logs) ==
    FoldLeft(LAMBDA st, l : ReplayLog(st, logs[l]), EmptyReplay, LogOrder)

(***************************************************************************)
(* truncate(path, n) of one file: shorter content is cut, and a length    *)
(* beyond the end extends the file with zero bytes (POSIX truncate).      *)
(***************************************************************************)
TruncateTo(content, n, zero) ==
    IF n <= Len(content)
    THEN SubSeq(content, 1, n)
    ELSE content \o [i \in 1..(n - Len(content)) |-> zero]

(***************************************************************************)
(* truncateFiles: every file named by the replay that exists is truncated *)
(* to its recorded maximum, or removed when that maximum is 0.  A file is *)
(* its content plus membership in the set of existing files.              *)
(***************************************************************************)
TruncateFiles(sizes, content, exists, zero) ==
    [content |-> [f \in DOMAIN content |->
                    IF f \in DOMAIN sizes /\ f \in exists
                    THEN IF sizes[f] > 0 THEN TruncateTo(content[f], sizes[f], zero)
                         ELSE <<>>
                    ELSE content[f]],
     exists  |-> exists \ {f \in DOMAIN sizes : sizes[f] = 0}]


(***************************************************************************)
(* Text, with the character operators of Lexical.tla.  A file name is a   *)
(* sequence of non-blank characters.                                      *)
(***************************************************************************)
\* Mutant: the trailing log.write("\n") is missing.
LineTokensNoNewline(txn, name, size) ==
    <<IntString(txn), <<" ">>, name, <<" ">>, DecimalString(size), <<>>>>

\* The arguments of the six log.write calls of logTransaction, in order.
LineTokens(txn, name, size) ==
    <<IntString(txn), <<" ">>, name, <<" ">>, DecimalString(size), <<"\n">>>>

\* operator>> into a long long (file_size): the longest run of digits,
\* failing when the next non-blank character is not a digit or the text
\* has ended.  The sizes of the model are far from its range.
ReadInt(s) ==
    LET t == SkipBlanks(s)
        n == PrefixWhile(t, Range(DigitChars))
    IN [ok   |-> n > 0,
        val  |-> FoldLeft(LAMBDA a, c : 10 * a + DigitValue(c), 0, SubSeq(t, 1, n)),
        rest |-> Drop(t, n)]

\* The records `while (ss >> txn_id && ss >> file_name && ss >> file_size)`
\* reads from a log's text: it stops at the first extraction that fails,
\* dropping a final partial line and everything after an unparsable one.
RECURSIVE Parse(_)
Parse(s) ==
    LET i == ReadIntSigned(s)
        f == ReadStr(i.rest)
        z == ReadInt(f.rest)
    IN IF i.ok /\ f.ok /\ z.ok
       THEN <<[txn |-> i.val, file |-> f.val, size |-> z.val]>> \o Parse(z.rest)
       ELSE <<>>

=============================================================================
