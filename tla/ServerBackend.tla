--------------------------- MODULE ServerBackend ---------------------------
(***************************************************************************)
(* The transaction engine of ServerBackend (server-backend.cpp): the five  *)
(* command functions run by concurrent connection threads, the per-       *)
(* transaction timer threads, the journal, the files on disk, a crash of  *)
(* the process at any point and the recovery that runs on the first       *)
(* request after a restart.                                               *)
(*                                                                         *)
(* Every section the code runs under m_member_mtx is one atomic step.  A  *)
(* thread's steps outside it are separate actions, so the timer and the   *)
(* other threads can interleave exactly where the code lets them.         *)
(***************************************************************************)
EXTENDS Integers, Sequences, FiniteSets, Journal

CONSTANTS
    Workers,       \* connection threads (one request at a time each)
    TxnIds,        \* ids rand() may return
    FileNames,     \* file names clients name
    MaxSeq,        \* largest sequence number a client sends
    MaxCrashes,    \* bound on process crashes
    WriteFailures, \* whether open()/write() of a data file may fail
    MaxIdDraws     \* how often NEW_TXN may draw one id (rand() repeats)

ASSUME MaxSeq \in Nat \ {0} /\ MaxCrashes \in Nat
ASSUME WriteFailures \in BOOLEAN /\ MaxIdDraws \in Nat \ {0}

\* Constants::initial_seq_num
InitialSeqNum == 0

\* Fragment payloads are abstract: the data of WRITE(t, s).
Tok(t, s) == [txn |-> t, seq |-> s]
\* A byte truncate() adds when it extends a file.
Zero == [txn |-> "none", seq |-> 0]

VARIABLES
    srv,          \* "recovering" until the first request ran recovery, then "serving"
    rec,          \* recovery scratch: next log index and the replay state
    live,         \* m_txn_id_to_transaction_attributes
    attrSize,     \* m_file_name_to_ptr_to_file_attributes: file -> the FileAttributes
                  \* object (named by the tuple that created it) and its m_file_size
    commits,      \* m_commits
    wk,           \* each connection thread's program counter and locals
    txnLocks,     \* per-transaction mutexes held: <<txn, incarnation>>
    fileLocks,    \* m_file_mtx held: the FileAttributes objects whose mutex is locked
    disk,         \* file contents
    onDisk,       \* files that exist
    jlog,         \* the four logs
    crashes,
    \* ghost state, never read by the code's actions
    used,         \* how often NEW_TXN has handed out each id
    incs,         \* number of tuples ever created per id
    committed,    \* per file: blocks whose commit-log line was written
    durable,      \* ids whose commit-log line was written
    acked,        \* ids a COMMIT was answered ACK for
    uaf           \* a freed transaction tuple was accessed

vars == <<srv, rec, live, attrSize, commits, wk, txnLocks, fileLocks, disk,
          onDisk, jlog, crashes, used, incs, committed, durable, acked, uaf>>

PCs == {"idle", "write_lock", "write_body", "commit_lock", "commit_check",
        "commit_open", "commit_write", "commit_truncate", "commit_log",
        "commit_remove", "abort_lock", "read_data"}

Responses == {"none", "ACK", "ASK_RESEND", "InvalidTransactionId",
              "InvalidOperation", "InvalidSequenceNumber",
              "RepeatedSequenceNumber", "ErrorOpeningFile", "ErrorReadingFile", "ErrorWritingFile",
              "CommitWithInvalidSequenceNumber", "TransactionAlreadyCommitted",
              "TransactionAborted"}

\* A thread between requests; resp is the answer to its last request.
Idle(r) == [pc |-> "idle", txn |-> "none", seq |-> 0, inc |-> 0,
            file |-> "none", attr |-> <<"none", 0>>, k |-> 0, resp |-> r]

Seqs == 1..MaxSeq

-----------------------------------------------------------------------------
(* Helpers *)

\* File::getFileSize(name): 0 when the file does not exist.
FileSize(f) == IF f \in onDisk THEN Len(disk[f]) ELSE 0

\* logTransaction(log, t, f): one line with f's size at this instant.
Line(t, f) == [txn |-> t, file |-> f, size |-> FileSize(f)]

\* Mutant: the tuple starts with max_seq_num = initial_seq_num.
AddTxnMaxZero(t, f) ==
    /\ live' = live @@ (t :> [inc |-> incs[t] + 1, file |-> f, bufs |-> {},
                              max |-> InitialSeqNum])
    /\ attrSize' = IF f \in DOMAIN attrSize THEN attrSize
                   ELSE attrSize @@ (f :> [owner |-> <<t, incs[t] + 1>>, size |-> FileSize(f)])
    /\ incs' = [incs EXCEPT ![t] = @ + 1]

\* getNewTransactionAttributes + addNewTransaction's map updates: the
\* FileAttributes of f are shared, or created with f's current size.
AddTxn(t, f) ==
    /\ live' = live @@ (t :> [inc |-> incs[t] + 1, file |-> f, bufs |-> {},
                              max |-> InitialSeqNum + 1])
    /\ attrSize' = IF f \in DOMAIN attrSize THEN attrSize
                   ELSE attrSize @@ (f :> [owner |-> <<t, incs[t] + 1>>, size |-> FileSize(f)])
    /\ incs' = [incs EXCEPT ![t] = @ + 1]

\* removeTransaction: erase the tuple; the FileAttributes deleter erases
\* the file's entry when the last transaction naming it is gone.
RemoveTxn(t) ==
    LET f == live[t].file
    IN /\ live' = Without(live, t)
       /\ attrSize' = IF \E x \in DOMAIN live \ {t} : live[x].file = f
                      THEN attrSize ELSE Without(attrSize, f)

\* The tuple a thread took references to is still the one in the map.
TupleAlive(w) ==
    wk[w].txn \in DOMAIN live /\ live[wk[w].txn].inc = wk[w].inc

Handle(w) == <<wk[w].txn, wk[w].inc>>

\* The FileAttributes object a COMMIT bound file_name and file_size to
\* (through the tuple's shared_ptr) is still owned by some tuple.
AttrsAlive(w) ==
    LET f == wk[w].file
    IN f \in DOMAIN attrSize /\ attrSize[f].owner = wk[w].attr

\* A command function returns response r; its locals are dropped.
Done(w, r) == wk' = [wk EXCEPT ![w] = Idle(r)]

\* Process crash: memory, threads and locks are gone; files and logs stay.
\* On restart recovery runs before any request is served.
CrashState ==
    /\ srv' = "recovering"
    /\ rec' = [idx |-> 1, st |-> EmptyReplay]
    /\ live' = <<>>
    /\ attrSize' = <<>>
    /\ commits' = {}
    /\ wk' = [w \in Workers |-> Idle("none")]
    /\ txnLocks' = {}
    /\ fileLocks' = {}

\* A thread dereferences a tuple that removeTransaction freed: undefined
\* behaviour; the model takes the outcome in which the process dies.
UseAfterFree(w) ==
    /\ ~TupleAlive(w)
    /\ CrashState
    /\ uaf' = TRUE
    /\ UNCHANGED <<disk, onDisk, jlog, crashes, used, incs, committed, durable, acked>>

-----------------------------------------------------------------------------
Init ==
    /\ srv = "recovering"
    /\ rec = [idx |-> 1, st |-> EmptyReplay]
    /\ live = <<>>
    /\ attrSize = <<>>
    /\ commits = {}
    /\ wk = [w \in Workers |-> Idle("none")]
    /\ txnLocks = {}
    /\ fileLocks = {}
    /\ disk = [f \in FileNames |-> <<>>]
    /\ onDisk = {}
    /\ jlog = [l \in LogNames |-> <<>>]
    /\ crashes = 0
    /\ used = [t \in TxnIds |-> 0]
    /\ incs = [t \in TxnIds |-> 0]
    /\ committed = [f \in FileNames |-> <<>>]
    /\ durable = {}
    /\ acked = {}
    /\ uaf = FALSE


-----------------------------------------------------------------------------
(***************************************************************************)
(* Recovery: initializeFunctionsAndTransactions, run under m_member_mtx by *)
(* the first processRequest after a start.  loadFilesAndTransactions      *)
(* replays and deletes the logs one by one, truncateFiles rolls files     *)
(* back, and the in-progress transactions are added again.                *)
(***************************************************************************)
RecoverLog ==
    LET l == LogOrder[rec.idx]
    IN /\ srv = "recovering" /\ rec.idx <= Len(LogOrder)
       /\ rec' = [idx |-> rec.idx + 1, st |-> ReplayLog(rec.st, jlog[l])]
       /\ jlog' = [jlog EXCEPT ![l] = <<>>]
       /\ UNCHANGED <<srv, live, attrSize, commits, wk, txnLocks, fileLocks,
                      disk, onDisk, crashes, used, incs, committed, durable, acked, uaf>>

RecoverTruncate ==
    LET r == TruncateFiles(rec.st.sizes, disk, onDisk, Zero)
    IN /\ srv = "recovering" /\ rec.idx = Len(LogOrder) + 1
       /\ disk' = r.content
       /\ onDisk' = r.exists
       /\ rec' = [rec EXCEPT !.idx = @ + 1]
       /\ UNCHANGED <<srv, live, attrSize, commits, wk, txnLocks, fileLocks,
                      jlog, crashes, used, incs, committed, durable, acked, uaf>>

\* initializeTransactions' loop of addNewTransaction, then m_initialize = false.
RecoverRestart ==
    LET R == DOMAIN rec.st.txns
        file == rec.st.txns
    IN /\ srv = "recovering" /\ rec.idx = Len(LogOrder) + 2
       /\ live' = [t \in R |-> [inc |-> incs[t] + 1, file |-> file[t], bufs |-> {},
                                max |-> InitialSeqNum + 1]]
       /\ attrSize' = [f \in {file[t] : t \in R} |->
                        LET c == CHOOSE t \in R : file[t] = f
                        IN [owner |-> <<c, incs[c] + 1>>, size |-> FileSize(f)]]
       /\ incs' = [t \in TxnIds |-> IF t \in R THEN incs[t] + 1 ELSE incs[t]]
       /\ jlog' = [jlog EXCEPT !["open"] = @ \o SetToSeq({Line(t, file[t]) : t \in R})]
       /\ srv' = "serving"
       /\ rec' = [idx |-> 1, st |-> EmptyReplay]
       /\ UNCHANGED <<commits, wk, txnLocks, fileLocks, disk, onDisk,
                      crashes, used, committed, durable, acked, uaf>>

-----------------------------------------------------------------------------
(* NEW_TXN: one step.  READ: the open and fstat, then the read.       *)

NewTxn(w, f) ==
    /\ srv = "serving" /\ wk[w].pc = "idle"
    /\ \E t \in TxnIds :
          /\ t \notin DOMAIN live
          /\ used[t] < MaxIdDraws
          /\ AddTxn(t, f)
          /\ jlog' = [jlog EXCEPT !["open"] = Append(@, Line(t, f))]
          /\ used' = [used EXCEPT ![t] = @ + 1]
    /\ Done(w, "ACK")
    /\ UNCHANGED <<srv, rec, commits, txnLocks, fileLocks, disk, onDisk,
                   crashes, committed, durable, acked, uaf>>

NewTxnBadSeq(w) ==
    /\ srv = "serving" /\ wk[w].pc = "idle"
    /\ Done(w, "InvalidSequenceNumber")
    /\ UNCHANGED <<srv, rec, live, attrSize, commits, txnLocks, fileLocks, disk,
                   onDisk, jlog, crashes, used, incs, committed, durable, acked, uaf>>

\* File::getFileSize(): fstat on the open descriptor of an existing file.
FstatSize(f) == Len(disk[f])

\* File(path, O_RDONLY); file.read() first takes the size by fstat.
ReadOpen(w, f) ==
    /\ srv = "serving" /\ wk[w].pc = "idle"
    /\ \/ f \notin onDisk /\ Done(w, "ErrorOpeningFile")
       \/ f \in onDisk
          /\ wk' = [wk EXCEPT ![w] = [Idle("none") EXCEPT !.pc = "read_data",
                                                         !.file = f, !.k = FstatSize(f)]]
    /\ UNCHANGED <<srv, rec, live, attrSize, commits, txnLocks, fileLocks, disk,
                   onDisk, jlog, crashes, used, incs, committed, durable, acked, uaf>>

\* readFileDescriptor(fd, buffer, size): read() until that many bytes came;
\* a read() failing or hitting the end of a file truncated in the meantime
\* makes it return -1 and READ answer ErrorReadingFile.
ReadData(w) ==
    LET f == wk[w].file
        short == Len(disk[f]) < wk[w].k
    IN /\ wk[w].pc = "read_data"
       /\ \/ ~short /\ Done(w, "ACK")
          \/ (short \/ WriteFailures) /\ Done(w, "ErrorReadingFile")
       /\ UNCHANGED <<srv, rec, live, attrSize, commits, txnLocks, fileLocks, disk,
                      onDisk, jlog, crashes, used, incs, committed, durable, acked, uaf>>

-----------------------------------------------------------------------------
(***************************************************************************)
(* The preamble WRITE, COMMIT and ABORT share: look the transaction up     *)
(* under m_member_mtx and copy its mutex handle (Lookup); then lock that  *)
(* mutex and re-validate the id under m_member_mtx (LockReval).  Taking   *)
(* the transaction mutex commutes with every step of another thread up to *)
(* the re-validation, so the two are one step.                            *)
(***************************************************************************)
\* RETURN_*_IF_COMMITTED / RETURN_IF_INVALID_ID, then copy sp_txn_mtx.
Lookup(w, t, s, committedResp, next) ==
    /\ srv = "serving" /\ wk[w].pc = "idle"
    /\ \/ t \in commits /\ Done(w, committedResp)
          /\ acked' = IF committedResp = "ACK" THEN acked \cup {t} ELSE acked
       \/ t \notin commits /\ t \notin DOMAIN live
          /\ Done(w, "InvalidTransactionId") /\ UNCHANGED acked
       \/ t \notin commits /\ t \in DOMAIN live
          /\ wk' = [wk EXCEPT ![w] = [@ EXCEPT !.pc = next, !.txn = t, !.seq = s,
                                              !.inc = live[t].inc]]
          /\ UNCHANGED acked
    /\ UNCHANGED <<srv, rec, live, attrSize, commits, txnLocks, fileLocks, disk,
                   onDisk, jlog, crashes, used, incs, committed, durable, uaf>>

\* lock_guard / unique_lock on *sp_txn_mtx_cpy can be taken.
TxnMutexFree(w) == Handle(w) \notin txnLocks

\* RETURN_ERROR_IF_COMMITTED_OR_ABORTED: the return unwinds the guard, so
\* the transaction mutex is released again.
RevalFails(w) ==
    LET t == wk[w].txn
    IN \/ t \in commits /\ Done(w, "TransactionAlreadyCommitted")
       \/ t \notin commits /\ t \notin DOMAIN live /\ Done(w, "TransactionAborted")

RevalPasses(w) == wk[w].txn \notin commits /\ wk[w].txn \in DOMAIN live

\* WRITE and COMMIT keep the transaction mutex after a passing re-validation.
LockReval(w, from, next) ==
    /\ wk[w].pc = from
    /\ TxnMutexFree(w)
    /\ \/ RevalFails(w) /\ UNCHANGED txnLocks
       \/ RevalPasses(w) /\ wk' = [wk EXCEPT ![w].pc = next]
          /\ txnLocks' = txnLocks \cup {Handle(w)}
    /\ UNCHANGED <<srv, rec, live, attrSize, commits, fileLocks, disk, onDisk,
                   jlog, crashes, used, incs, committed, durable, acked, uaf>>

-----------------------------------------------------------------------------
(* WRITE *)

WriteLookup(w, t, s) == Lookup(w, t, s, "InvalidOperation", "write_lock")

WriteLockReval(w) == LockReval(w, "write_lock", "write_body")

\* After member_lck.unlock(): refresh the timestamp through the tuple, then
\* store the fragment unless its sequence number was seen; raise
\* max_seq_num.  The lock_guard releases the transaction mutex.
WriteBody(w) ==
    LET t == wk[w].txn
        s == wk[w].seq
    IN /\ wk[w].pc = "write_body"
       /\ \/ UseAfterFree(w)
          \/ /\ TupleAlive(w)
             /\ \/ s \in live[t].bufs
                   /\ Done(w, "RepeatedSequenceNumber")
                   /\ UNCHANGED live
                \/ s \notin live[t].bufs
                   /\ live' = [live EXCEPT ![t].bufs = @ \cup {s},
                                           ![t].max = IF s > @ THEN s ELSE @]
                   /\ Done(w, "ACK")
             /\ txnLocks' = txnLocks \ {Handle(w)}
             /\ UNCHANGED <<srv, rec, attrSize, commits, fileLocks, disk, onDisk,
                            jlog, crashes, used, incs, committed, durable, acked, uaf>>

-----------------------------------------------------------------------------
(* COMMIT *)

\* RETURN_ACK_IF_COMMITTED_OR_ERROR_IF_INVALID_ID: a retransmitted COMMIT
\* of a transaction in m_commits is answered ACK.
CommitLookup(w, t, s) == Lookup(w, t, s, "ACK", "commit_lock")

CommitLockReval(w) == LockReval(w, "commit_lock", "commit_check")

\* Refresh the timestamp; reject seq_num < max_seq_num; set max_seq_num to
\* seq_num; ASK_RESEND the first missing fragment, if any.
CommitCheck(w) ==
    LET t == wk[w].txn
        s == wk[w].seq
    IN /\ wk[w].pc = "commit_check"
       /\ \/ UseAfterFree(w)
          \/ /\ TupleAlive(w)
             /\ \/ s < live[t].max
                   /\ Done(w, "CommitWithInvalidSequenceNumber")
                   /\ txnLocks' = txnLocks \ {Handle(w)}
                   /\ UNCHANGED live
                \/ s >= live[t].max
                   /\ live' = [live EXCEPT ![t].max = s]
                   /\ \/ \E i \in 1..s : i \notin live[t].bufs
                         /\ Done(w, "ASK_RESEND")
                         /\ txnLocks' = txnLocks \ {Handle(w)}
                      \/ \A i \in 1..s : i \in live[t].bufs
                         /\ wk' = [wk EXCEPT ![w].pc = "commit_open",
                                             ![w].file = live[t].file,
                                             ![w].attr = attrSize[live[t].file].owner]
                         /\ UNCHANGED txnLocks
             /\ UNCHANGED <<srv, rec, attrSize, commits, fileLocks, disk, onDisk,
                            jlog, crashes, used, incs, committed, durable, acked, uaf>>

\* Mutant: the file is opened and appended to without taking file_mtx.
CommitOpenUnlocked(w) ==
    LET f == wk[w].file
    IN /\ wk[w].pc = "commit_open"
       /\ \/ ~AttrsAlive(w) /\ UseAfterFree(w)
          \/ AttrsAlive(w) /\ onDisk' = onDisk \cup {f}
             /\ wk' = [wk EXCEPT ![w].pc = "commit_write", ![w].k = 1]
             /\ UNCHANGED <<srv, rec, live, attrSize, commits, disk, jlog, crashes, txnLocks,
                            fileLocks, used, incs, committed, durable, acked, uaf>>

\* lock_guard file_grd(file_mtx), then File(path, O_CREAT|O_WRONLY|O_APPEND).
\* ErrorOpeningFile unwinds both guards; the transaction stays.
CommitOpen(w) ==
    LET f == wk[w].file
    IN /\ wk[w].pc = "commit_open"
       /\ wk[w].attr \notin fileLocks
       /\ \/ ~AttrsAlive(w) /\ UseAfterFree(w)
          \/ AttrsAlive(w) /\ onDisk' = onDisk \cup {f}
             /\ fileLocks' = fileLocks \cup {wk[w].attr}
             /\ wk' = [wk EXCEPT ![w].pc = "commit_write", ![w].k = 1]
             /\ UNCHANGED txnLocks
             /\ UNCHANGED <<srv, rec, live, attrSize, commits, disk, jlog, crashes,
                            used, incs, committed, durable, acked, uaf>>
          \/ AttrsAlive(w) /\ WriteFailures
             /\ Done(w, "ErrorOpeningFile")
             /\ txnLocks' = txnLocks \ {Handle(w)}
             /\ UNCHANGED <<onDisk, fileLocks, srv, rec, live, attrSize, commits, disk,
                            jlog, crashes, used, incs, committed, durable, acked, uaf>>

\* One iteration of file.write(buffers.at(seq_num)).  On ErrorWritingToFile
\* the File destructor and file_grd run before the catch block.
CommitWrite(w) ==
    LET t == wk[w].txn
        f == wk[w].file
        k == wk[w].k
    IN /\ wk[w].pc = "commit_write"
       /\ k <= wk[w].seq
       /\ \/ UseAfterFree(w)
          \/ /\ TupleAlive(w)
             /\ \/ /\ disk' = [disk EXCEPT ![f] = Append(@, Tok(t, k))]
                   /\ wk' = [wk EXCEPT ![w].k = k + 1]
                   /\ UNCHANGED fileLocks
                \/ /\ WriteFailures
                   /\ wk' = [wk EXCEPT ![w].pc = "commit_truncate"]
                   /\ fileLocks' = fileLocks \ {wk[w].attr}
                   /\ UNCHANGED disk
             /\ UNCHANGED <<srv, rec, live, attrSize, commits, txnLocks, onDisk,
                            jlog, crashes, used, incs, committed, durable, acked, uaf>>

\* catch (ErrorWritingToFile): truncate(file_name, file_size), outside file_grd.
CommitTruncate(w) ==
    LET f == wk[w].file
    IN /\ wk[w].pc = "commit_truncate"
       /\ \/ ~AttrsAlive(w) /\ UseAfterFree(w)
          \/ /\ AttrsAlive(w)
             /\ disk' = [disk EXCEPT ![f] = TruncateTo(@, attrSize[f].size, Zero)]
             /\ Done(w, "ErrorWritingFile")
             /\ txnLocks' = txnLocks \ {Handle(w)}
             /\ UNCHANGED <<srv, rec, live, attrSize, commits, fileLocks, onDisk, jlog,
                            crashes, used, incs, committed, durable, acked, uaf>>

\* m_commits.insert(txn_id), with m_member_mtx not held.
CommitInsert(w) ==
    /\ wk[w].pc = "commit_write"
    /\ wk[w].k > wk[w].seq
    /\ commits' = commits \cup {wk[w].txn}
    /\ wk' = [wk EXCEPT ![w].pc = "commit_log"]
    /\ UNCHANGED <<srv, rec, live, attrSize, txnLocks, fileLocks, disk, onDisk,
                   jlog, crashes, used, incs, committed, durable, acked, uaf>>

\* logTransaction(m_commit_log, ...); file_size = file.getFileSize(); the
\* File destructor and file_grd end the try block.
CommitLog(w) ==
    LET t == wk[w].txn
        f == wk[w].file
    IN /\ wk[w].pc = "commit_log"
       /\ \/ ~AttrsAlive(w) /\ UseAfterFree(w)
          \/ /\ AttrsAlive(w)
             /\ jlog' = [jlog EXCEPT !["commit"] = Append(@, Line(t, f))]
             /\ attrSize' = [attrSize EXCEPT ![f].size = FileSize(f)]
             /\ fileLocks' = fileLocks \ {wk[w].attr}
             /\ committed' = [committed EXCEPT ![f] =
                                Append(@, [at |-> Len(disk[f]) - wk[w].seq,
                                           data |-> [i \in 1..wk[w].seq |-> Tok(t, i)]])]
             /\ durable' = durable \cup {t}
             /\ wk' = [wk EXCEPT ![w].pc = "commit_remove"]
             /\ UNCHANGED <<srv, rec, live, commits, txnLocks, disk, onDisk, crashes,
                            used, incs, acked, uaf>>

\* Mutant: the thread removes the transaction but never returns its answer.
CommitRemoveNoReply(w) ==
    LET t == wk[w].txn
    IN /\ wk[w].pc = "commit_remove"
       /\ IF t \in DOMAIN live THEN RemoveTxn(t) ELSE UNCHANGED <<live, attrSize>>
       /\ txnLocks' = txnLocks \ {Handle(w)}
       /\ acked' = acked \cup {t}
       /\ UNCHANGED <<wk, srv, rec, commits, fileLocks, disk, onDisk, jlog, crashes,
                      used, incs, committed, durable, uaf>>

\* member_lck.lock(); removeTransaction(find(txn_id)); ACK.
CommitRemove(w) ==
    LET t == wk[w].txn
    IN /\ wk[w].pc = "commit_remove"
       /\ IF t \in DOMAIN live THEN RemoveTxn(t) ELSE UNCHANGED <<live, attrSize>>
       /\ txnLocks' = txnLocks \ {Handle(w)}
       /\ acked' = acked \cup {t}
       /\ Done(w, "ACK")
       /\ UNCHANGED <<srv, rec, commits, fileLocks, disk, onDisk, jlog, crashes,
                      used, incs, committed, durable, uaf>>

-----------------------------------------------------------------------------
(* ABORT *)

AbortLookup(w, t) == Lookup(w, t, 0, "InvalidOperation", "abort_lock")

\* Lock the transaction mutex and, under m_member_mtx, re-validate, unlock
\* it, log and remove.  The file name is read through the tuple.
AbortLockReval(w) ==
    LET t == wk[w].txn
    IN /\ wk[w].pc = "abort_lock"
       /\ TxnMutexFree(w)
       /\ \/ RevalFails(w)
             /\ UNCHANGED <<live, attrSize, jlog, uaf, incs, durable, committed,
                            crashes, srv, rec, commits, fileLocks, disk, onDisk>>
          \/ RevalPasses(w) /\ UseAfterFree(w)
          \/ RevalPasses(w) /\ TupleAlive(w)
             /\ jlog' = [jlog EXCEPT !["abort"] = Append(@, Line(t, live[t].file))]
             /\ RemoveTxn(t)
             /\ Done(w, "ACK")
             /\ UNCHANGED <<uaf, incs, durable, committed, crashes, srv, rec,
                            commits, fileLocks, disk, onDisk>>
       /\ UNCHANGED <<used, acked, txnLocks>>

-----------------------------------------------------------------------------
(***************************************************************************)
(* The timer thread of a transaction: it wakes T_transaction after the    *)
(* latest timestamp, finds it expired under m_member_mtx, removes the     *)
(* transaction and logs the timeout, taking no transaction mutex.  The    *)
(* model has no clock: any two steps may lie T_transaction apart, so the  *)
(* timer of a live transaction may fire at any step.                      *)
(***************************************************************************)
TimerExpire(t) ==
    /\ srv = "serving"
    /\ t \in DOMAIN live
    /\ RemoveTxn(t)
    /\ jlog' = [jlog EXCEPT !["timeout"] = Append(@, Line(t, live[t].file))]
    /\ UNCHANGED <<srv, rec, commits, wk, txnLocks, fileLocks, disk, onDisk,
                   crashes, used, incs, committed, durable, acked, uaf>>

\* The process dies at any point: kill -9, a fatal error, or exit() from the
\* interrupt handler (SignalHandler::ctrlc) while the other threads run.
Crash ==
    /\ crashes < MaxCrashes
    /\ CrashState
    /\ crashes' = crashes + 1
    /\ UNCHANGED <<disk, onDisk, jlog, used, incs, committed, durable, acked, uaf>>

-----------------------------------------------------------------------------
Next ==
    \/ RecoverLog \/ RecoverTruncate \/ RecoverRestart
    \/ Crash
    \/ \E t \in TxnIds : TimerExpire(t)
    \/ \E w \in Workers :
          \/ NewTxnBadSeq(w)
          \/ \E f \in FileNames : NewTxn(w, f) \/ ReadOpen(w, f)
          \/ \E t \in TxnIds :
                \/ AbortLookup(w, t)
                \/ \E s \in Seqs : WriteLookup(w, t, s)
                \/ \E s \in 0..MaxSeq : CommitLookup(w, t, s)
          \/ WriteLockReval(w) \/ WriteBody(w)
          \/ CommitLockReval(w) \/ CommitCheck(w) \/ CommitOpen(w)
          \/ CommitWrite(w) \/ CommitTruncate(w) \/ CommitInsert(w)
          \/ CommitLog(w) \/ CommitRemove(w)
          \/ AbortLockReval(w) \/ ReadData(w)

Spec == Init /\ [][Next]_vars

\* The steps a connection thread takes once it holds what it needs: it is
\* running code that does not wait.
Running(w) ==
    \/ WriteBody(w) \/ CommitCheck(w) \/ CommitWrite(w) \/ CommitTruncate(w)
    \/ CommitInsert(w) \/ CommitLog(w) \/ CommitRemove(w) \/ ReadData(w)

\* The steps that first acquire a transaction mutex or a file mutex.
Acquiring(w) ==
    \/ WriteLockReval(w) \/ CommitLockReval(w) \/ CommitOpen(w) \/ AbortLockReval(w)

(***************************************************************************)
(* Each connection thread is scheduled (weak fairness), and a mutex that  *)
(* is released again and again is eventually granted to a thread blocked *)
(* on it (strong fairness).  Clients, the timer and crashes get none.     *)
(***************************************************************************)
FairSpec ==
    /\ Spec
    /\ \A w \in Workers : WF_vars(Running(w)) /\ SF_vars(Acquiring(w))

-----------------------------------------------------------------------------
(* Properties *)

Tokens == {Tok(t, s) : t \in TxnIds, s \in Seqs} \cup {Zero}

TypeOK ==
    /\ srv \in {"recovering", "serving"}
    /\ rec.idx \in 1..Len(LogOrder) + 2
    /\ DOMAIN live \subseteq TxnIds
    /\ \A t \in DOMAIN live :
          /\ live[t].file \in FileNames /\ live[t].bufs \subseteq Seqs
          /\ live[t].max \in 1..MaxSeq
    /\ DOMAIN attrSize \subseteq FileNames
    /\ commits \subseteq TxnIds
    /\ \A w \in Workers : wk[w].pc \in PCs /\ wk[w].resp \in Responses
    /\ fileLocks \subseteq TxnIds \X Nat
    /\ \A f \in FileNames : disk[f] \in Seq(Tokens)
    /\ onDisk \subseteq FileNames
    /\ durable \subseteq TxnIds /\ acked \subseteq TxnIds

\* The content of f that commit-log lines vouch for, in commit order.
CommittedContent(f) == FlattenSeq([i \in DOMAIN committed[f] |-> committed[f][i].data])

(***************************************************************************)
(* Durability: once a COMMIT wrote its commit-log line, its fragments stay*)
(* in the file at the offset it appended them to: no failed COMMIT's      *)
(* rollback truncate and no recovery's truncateFiles ever cuts or         *)
(* overwrites them.                                                       *)
(***************************************************************************)
CommittedBlocksDurable ==
    \A f \in FileNames : \A i \in DOMAIN committed[f] :
        LET b == committed[f][i]
        IN /\ b.at >= 0 /\ Len(disk[f]) >= b.at + Len(b.data)
           /\ SubSeq(disk[f], b.at + 1, b.at + Len(b.data)) = b.data

(***************************************************************************)
(* Commits to one file are serialised by its m_file_mtx: as long as the   *)
(* process has not restarted, the file is its committed content followed  *)
(* by the fragments written so far by the one COMMIT that holds the file  *)
(* mutex - whatever the timer threads and the other COMMITs, WRITEs and   *)
(* ABORTs do meanwhile (no failed write).  A holder whose FileAttributes  *)
(* object the timer freed is excluded: its next step is a use after free  *)
(* (NoUseAfterFree), and a new object for the file brings a new mutex.    *)
(***************************************************************************)
NeverRestarted == crashes = 0 /\ ~uaf

Appending(f) == {w \in Workers : wk[w].file = f /\
                   wk[w].pc \in {"commit_write", "commit_log"}}

Written(w) == IF wk[w].pc = "commit_write" THEN wk[w].k - 1 ELSE wk[w].seq

InFlight(f) ==
    IF Appending(f) = {} THEN <<>>
    ELSE LET w == CHOOSE x \in Appending(f) : TRUE
         IN [i \in 1..Written(w) |-> Tok(wk[w].txn, i)]

AppendsSerialized ==
    \A f \in FileNames :
        (NeverRestarted /\ \A w \in Appending(f) : AttrsAlive(w))
            => disk[f] = CommittedContent(f) \o InFlight(f)

(***************************************************************************)
(* Atomic commit across a crash: when recovery completes, every file holds*)
(* exactly the fragments of the commits that reached the commit log: a    *)
(* COMMIT interrupted mid-append leaves nothing behind.                   *)
(***************************************************************************)
RecoveryRollsBackPartialCommits ==
    [][srv = "recovering" /\ srv' = "serving" =>
         \A f \in FileNames : disk'[f] = CommittedContent(f)]_vars

(***************************************************************************)
(* Exactly-once: a transaction id's fragments are appended by at most one *)
(* commit (when NEW_TXN hands each id out once).                          *)
(***************************************************************************)
CommitBlocks(t) ==
    UNION {{<<f, i>> : i \in {j \in DOMAIN committed[f] : committed[f][j].data[1].txn = t}}
           : f \in FileNames}

CommitOnce == \A t \in TxnIds : Cardinality(CommitBlocks(t)) <= 1

(***************************************************************************)
(* A COMMIT answered ACK - first or retransmitted - is in the commit log, *)
(* so a crash cannot undo it.                                             *)
(***************************************************************************)
AckedCommitIsLogged == acked \subseteq durable

(***************************************************************************)
(* No thread dereferences a transaction tuple that removeTransaction has  *)
(* freed (the timer erases tuples without the transaction mutex).         *)
(***************************************************************************)
NoUseAfterFree == ~uaf

(***************************************************************************)
(* Every request a connection thread starts is answered: no thread blocks *)
(* forever on a transaction mutex or a file mutex, and no COMMIT loops.   *)
(***************************************************************************)
RequestsComplete == \A w \in Workers : wk[w].pc # "idle" ~> wk[w].pc = "idle"

=============================================================================
