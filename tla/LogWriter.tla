----------------------------- MODULE LogWriter -----------------------------
(***************************************************************************)
(* The writers of the four journal logs, one write() at a time, and the   *)
(* reboot that parses them (ServerBackend::logTransaction, the File        *)
(* wrapper, loadFilesAndTransactions).                                    *)
(*                                                                         *)
(* Every transaction t logs an open line (NEW_TXN) and later a terminal  *)
(* line: the ABORT or COMMIT of its request thread, or the timeout of its *)
(* timer thread.  The timer logs whenever t is still in the transaction   *)
(* map, which it is until COMMIT's removeTransaction after the commit     *)
(* line, so one transaction may log a commit line and a timeout line.     *)
(* The open, timeout and abort lines are logged under m_member_mtx; COMMIT *)
(* holds only the mutex of its file.  The File wrapper takes g_mtx around *)
(* open() and close() only, so write() calls of threads holding different *)
(* mutexes interleave in one log.  The process may end at any step; the   *)
(* restart replays the text it finds.  The order of a transaction's       *)
(* requests and the sizes' values are ServerBackend's concern: here a     *)
(* size is any value getFileSize may return.  open() and write() on a log *)
(* do not fail here (see the README).                                      *)
(***************************************************************************)
EXTENDS Journal, FiniteSets

CONSTANTS
    TxnIds,         \* transaction ids, positive integers
    FileNames,      \* file names, one-character strings
    MaxSize         \* largest size getFileSize returns

ASSUME TxnIds \subseteq Nat \ {0}
ASSUME FileNames \subseteq {"a", "b", "c"}

NoTxn == 0

Sizes == 0..MaxSize

Name(f) == <<f>>

NoReplay == [sizes |-> <<>>, txns |-> <<>>, done |-> FALSE]

\* Each transaction has a connection thread serving its requests and the
\* timer thread START_TRANSACTION_TIMER starts for it.
Roles == {"req", "timer"}

Threads == TxnIds \X Roles

Req(t) == <<t, "req">>

Timer(t) == <<t, "timer">>

VARIABLES
    content,    \* content[l]: the characters of log l on disk
    th,         \* th[w]: the state of thread w
    txns,       \* the ids in m_txn_id_to_transaction_attributes
    member,     \* holder of m_member_mtx, or NoTxn
    fileMtx,    \* fileMtx[f]: holder of the mutex of file f, or NoTxn
    ended,      \* the process has stopped (crash or signal)
    recovered,  \* the replay the restart computes
    logged,     \* history: the lines whose every token up to the size was written
    parsed      \* parsed[l]: the records operator>> reads from content[l]

vars == <<content, th, txns, member, fileMtx, ended, recovered, logged, parsed>>

(***************************************************************************)
(* th[w].phase of a request thread: "idle" before NEW_TXN, "logging"      *)
(* inside logTransaction, "live" between the open line and the terminal   *)
(* request, "committed" between the commit line and removeTransaction,    *)
(* "done" after.  Of a timer: "off" until the open line is logged, then   *)
(* "armed", "logging", "fired".  th[w].k is the next of the six log.write *)
(* calls (7: all written).                                                 *)
(***************************************************************************)
Phases == {"idle", "logging", "live", "committed", "done", "off", "armed", "fired"}

ThreadState == [phase : Phases, log : LogNames, file : FileNames, k : 1..7, size : Sizes]

Record == [log : LogNames, txn : TxnIds, file : Seq(STRING), size : Sizes]

TypeOK ==
    /\ content \in [LogNames -> Seq(STRING)]
    /\ th \in [Threads -> ThreadState]
    /\ txns \subseteq TxnIds
    /\ member \in TxnIds \cup {NoTxn}
    /\ fileMtx \in [FileNames -> TxnIds \cup {NoTxn}]
    /\ ended \in BOOLEAN
    /\ logged \subseteq Record
    /\ parsed \in [LogNames -> Seq([txn : Nat, file : Seq(STRING), size : Nat])]

Init ==
    /\ content = [l \in LogNames |-> <<>>]
    /\ th = [w \in Threads |-> [phase |-> IF w[2] = "req" THEN "idle" ELSE "off",
                                log |-> "open", file |-> CHOOSE f \in FileNames : TRUE,
                                k |-> 1, size |-> 0]]
    /\ txns = {}
    /\ member = NoTxn
    /\ fileMtx = [f \in FileNames |-> NoTxn]
    /\ ended = FALSE
    /\ recovered = NoReplay
    /\ logged = {}
    /\ parsed = [l \in LogNames |-> <<>>]

\* The phase a thread is in once its line on log l is written.
AfterLog == [open |-> "live", commit |-> "committed", abort |-> "done", timeout |-> "fired"]

\* The caller of logTransaction(l) for t takes the mutex it holds around
\* the call: the file mutex for COMMIT, m_member_mtx for the others.
LockFree(l, f) == IF l = "commit" THEN fileMtx[f] = NoTxn ELSE member = NoTxn

TakeLock(t, l, f) ==
    /\ LockFree(l, f)
    /\ \/ l = "commit" /\ fileMtx' = [fileMtx EXCEPT ![f] = t] /\ UNCHANGED member
       \/ l # "commit" /\ member' = t /\ UNCHANGED fileMtx

DropLock(w) ==
    \/ /\ th[w].log = "commit"
       /\ fileMtx' = [fileMtx EXCEPT ![th[w].file] = NoTxn] /\ UNCHANGED member
    \/ /\ th[w].log # "commit"
       /\ member' = NoTxn /\ UNCHANGED fileMtx

\* The lines t's request thread may log: NEW_TXN's open line on any file;
\* the abort or commit line of an ABORT or COMMIT that found t in the map
\* and not yet committed (RETURN_ERROR_IF_COMMITTED_OR_ABORTED), on t's file.
MayLog(t, l, f) ==
    \/ l = "open" /\ th[Req(t)].phase = "idle"
    \/ /\ l \in {"commit", "abort"} /\ th[Req(t)].phase = "live"
       /\ t \in txns /\ f = th[Req(t)].file

\* Thread w enters logTransaction(l) for file f.
StartLog(w, l, f) ==
    th' = [th EXCEPT ![w] = [@ EXCEPT !.phase = "logging", !.log = l, !.file = f, !.k = 1]]

\* Under its mutex, the request thread's logTransaction constructs
\* File(log, O_APPEND), which opens the log under g_mtx.  NEW_TXN has put t
\* in the map just before (addNewTransaction's emplace).
BeginLog(t, l, f) ==
    /\ ~ended
    /\ MayLog(t, l, f)
    /\ TakeLock(t, l, f)
    /\ StartLog(Req(t), l, f)
    /\ txns' = IF l = "open" THEN txns \cup {t} ELSE txns
    /\ UNCHANGED <<content, ended, recovered, logged, parsed>>

\* The timer thread, under m_member_mtx, finds t still in the map and timed
\* out: removeTransaction, then logTransaction(m_timeout_log) with its own
\* copy of the file name.  It has no clock, so it may fire whenever t is in
\* the map, between COMMIT's commit line and removeTransaction included.
TimerExpire(t) ==
    /\ ~ended
    /\ th[Timer(t)].phase = "armed"
    /\ t \in txns
    /\ member = NoTxn
    /\ member' = t
    /\ txns' = txns \ {t}
    /\ StartLog(Timer(t), "timeout", th[Req(t)].file)
    /\ UNCHANGED <<content, fileMtx, ended, recovered, logged, parsed>>

\* File::write through writeFileDescriptor: write() on the O_APPEND log
\* until the whole text is in it, and the parser's view of that log.
AppendText(l, text) ==
    /\ content' = [content EXCEPT ![l] = @ \o text]
    /\ parsed' = [parsed EXCEPT ![l] = Parse(content'[l])]

\* The text of the k-th write of w's line.
Token(w) == LineTokens(w[1], Name(th[w].file), th[w].size)[th[w].k]

\* One log.write of the id, a blank, the name, or the newline.
WriteToken(w) ==
    /\ ~ended
    /\ th[w].phase = "logging"
    /\ th[w].k \in {1, 2, 3, 4, 6}
    /\ AppendText(th[w].log, Token(w))
    /\ th' = [th EXCEPT ![w].k = @ + 1]
    /\ UNCHANGED <<txns, member, fileMtx, ended, recovered, logged>>

\* log.write(to_string(File::getFileSize(in_file_name))): the size is
\* whatever stat returns at this moment.
WriteSize(w) ==
    /\ ~ended
    /\ th[w].phase = "logging"
    /\ th[w].k = 5
    /\ \E s \in Sizes :
        /\ th' = [th EXCEPT ![w].k = 6, ![w].size = s]
        /\ AppendText(th[w].log, LineTokens(w[1], Name(th[w].file), s)[5])
        /\ logged' = logged \cup
               {[log |-> th[w].log, txn |-> w[1], file |-> Name(th[w].file), size |-> s]}
    /\ UNCHANGED <<txns, member, fileMtx, ended, recovered>>

\* ~File fsyncs and closes the log under g_mtx.  After the open line
\* NEW_TXN starts the timer; ABORT removes t while it still holds
\* m_member_mtx; then the caller releases its mutex.
EndLog(w) ==
    LET t == w[1]
        l == th[w].log
    IN /\ ~ended
       /\ th[w].phase = "logging"
       /\ th[w].k = 7
       /\ DropLock(w)
       /\ th' = [th EXCEPT ![w].phase = AfterLog[l],
                           ![Timer(t)].phase = IF l = "open" THEN "armed" ELSE @]
       /\ txns' = IF l = "abort" THEN txns \ {t} ELSE txns
       /\ UNCHANGED <<content, ended, recovered, logged, parsed>>

\* COMMIT after its commit line: member_lck.lock() and removeTransaction.
\* If the timer removed t meanwhile, find returns end() (undefined
\* behaviour the model does not follow further).
RemoveTxn(t) ==
    /\ ~ended
    /\ th[Req(t)].phase = "committed"
    /\ member = NoTxn
    /\ txns' = txns \ {t}
    /\ th' = [th EXCEPT ![Req(t)].phase = "done"]
    /\ UNCHANGED <<content, member, fileMtx, ended, recovered, logged, parsed>>

\* The process stops at any point: a crash or the interrupt handler.
Stop ==
    /\ ~ended
    /\ ended' = TRUE
    /\ UNCHANGED <<content, th, txns, member, fileMtx, recovered, logged, parsed>>

\* The restart's loadFilesAndTransactions parses and replays every log.
Recover ==
    /\ ended
    /\ ~recovered.done
    /\ LET r == ReplayAll(parsed)
       IN recovered' = [sizes |-> r.sizes, txns |-> r.txns, done |-> TRUE]
    /\ UNCHANGED <<content, th, txns, member, fileMtx, ended, logged, parsed>>

Next ==
    \/ \E t \in TxnIds, l \in LogNames, f \in FileNames : BeginLog(t, l, f)
    \/ \E t \in TxnIds : TimerExpire(t) \/ RemoveTxn(t)
    \/ \E w \in Threads : WriteToken(w) \/ WriteSize(w) \/ EndLog(w)
    \/ Stop
    \/ Recover

Spec == Init /\ [][Next]_vars


(***************************************************************************)
(* Refinement: read through the server's own parser, every log is an      *)
(* AtomicLog.  The lines being logged are those whose size is not yet      *)
(* written; once it is, operator>> reads the line whole.                   *)
(***************************************************************************)
Pending ==
    IF ended THEN {}
    ELSE {<<th[w].log, w[1], Name(th[w].file)>> :
            w \in {v \in Threads : th[v].phase = "logging" /\ th[v].k <= 5}}

Atomic == INSTANCE AtomicLog WITH
    Logs <- LogNames, Names <- {Name(f) : f \in FileNames},
    logs <- parsed, pending <- Pending

\* Every logTransaction call adds at most one whole line to its log, as the
\* restart's parser reads it, and never alters the lines before it
\* (spec.md 4.5: each NEW_TXN, timeout, COMMIT and ABORT appends a single
\* line).
LogsAreAtomic == Atomic!Spec

\* Over the lines written up to the size before the process stopped: the
\* file each transaction's open line names, and its terminal lines.
OpenedOn ==
    LET opens == {r \in logged : r.log = "open"}
    IN [t \in {r.txn : r \in opens} |-> (CHOOSE r \in opens : r.txn = t).file]

Terminals(t) == {r \in logged : r.txn = t /\ r.log # "open"}

MaxSizes ==
    [n \in {r.file : r \in logged} |-> Max({r.size : r \in {x \in logged : x.file = n}})]

(***************************************************************************)
(* The restart (loadFilesAndTransactions) restarts every transaction whose*)
(* open line was logged and no terminal line, on the file it named; it    *)
(* restarts none that logged no open line or exactly one terminal line;   *)
(* and it keeps for each file the largest size any line logged (spec.md   *)
(* 4.5) - whatever write() the process stopped after.  A transaction with *)
(* both a commit line and a timeout line (the timer firing before COMMIT's*)
(* removeTransaction) is left out: the toggle restarts it, which the      *)
(* resurrect run follows to a second commit.                              *)
(***************************************************************************)
RecoveryMatchesLogged ==
    recovered.done =>
        /\ recovered.sizes = MaxSizes
        /\ \A t \in DOMAIN OpenedOn :
              Terminals(t) = {} =>
                  t \in DOMAIN recovered.txns /\ recovered.txns[t] = OpenedOn[t]
        /\ \A t \in DOMAIN recovered.txns :
              t \in DOMAIN OpenedOn /\ Cardinality(Terminals(t)) # 1

====
