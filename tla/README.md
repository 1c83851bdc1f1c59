# TLA+ models of ClientServerFileSystem

This directory holds TLA+ models of the server in `src/Server/Server`. They
cover the transaction engine (`server-backend.cpp`), its journal and crash
recovery, and the TLC configurations that check them.

## The system

A client opens a transaction on a file name with NEW_TXN. It then sends
numbered fragments with WRITE, which may arrive in any order, and finishes
with COMMIT or ABORT. COMMIT appends the fragments, in order, to the file.
READ returns a file's current bytes.

The parts and how they interact:

| Part | Code | State | Concurrency |
|---|---|---|---|
| Dispatcher | `server-dispatcher.h`, `read-write-helper.h` | listening socket, `m_rfds`, one condition variable and mutex per fd | accept loop; a notifier thread that runs `select` and signals the fd's condition variable; one thread per connection |
| Transaction engine | `server-backend.cpp` | `m_txn_id_to_transaction_attributes` (tuple: txn mutex, shared FileAttributes, buffers, max_seq_num, timestamp); `m_file_name_to_ptr_to_file_attributes` (file size and file mutex); `m_commits` | connection threads run the command functions; one timer thread per transaction |
| Journal | `logTransaction`, `loadFilesAndTransactions`, `truncateFiles` | four append-only logs: open, timeout, commit, abort; lines `txn file size` | written under `m_member_mtx`, except the COMMIT line, which is written under the file mutex |
| Files | `file.cpp` | data files | opens and closes are serialised by `g_mtx`; `~File` fsyncs |

Locks, in the order they are taken:
1. `m_member_mtx`
2. the per-transaction mutex, reached through a copied `shared_ptr`
3. the per-file `m_file_mtx`, which lives in the FileAttributes object
4. `g_mtx`

WRITE, COMMIT and ABORT share a preamble:
1. Look the id up under `m_member_mtx` and copy the mutex handle.
2. Unlock `m_member_mtx` and lock the transaction mutex.
3. Re-lock `m_member_mtx` to re-validate the id.
4. Continue **without** `m_member_mtx`.

The timer thread removes an expired transaction under `m_member_mtx` alone.

Recovery runs inside the first `processRequest` after a start. It replays the
logs in the order open, timeout, commit, abort. Each record raises its file's
maximum size and toggles its transaction: inserted if absent, erased if
present. Each log is deleted as soon as it has been read. `truncateFiles` then
truncates each file to its maximum, or removes it when the maximum is 0.
Finally, the transactions still in progress are re-added and logged again in
the open log.

## Modules

| Module | Models |
|---|---|
| `Journal.tla` | The replay as pure operators: `RaiseSize` and `ToggleTxn` (one record), `ApplyRecord`, `ReplayLog`, `ReplayAll` (FoldLeft over `LogOrder`), and `TruncateTo` / `TruncateFiles` (POSIX truncate: cut, or extend with zero bytes; remove when the size is 0). |
| `Lexical.tla` | Text as the code writes and reads it, on sequences of one-character strings: `DecimalString` / `IntString` (`std::to_string`), `SkipBlanks`, `ReadStr` (operator>> into a string) `ReadIntSigned` (operator>> into an int: optional sign, digits, failbit with 0 when there is no digit and INT_MAX / INT_MIN when out of range), and `CString` (`std::string(const char *)`: the characters before the first NUL). |
| `WireProtocol.tla` | The framing of constants.h and wire-protocol.h: `EncodeRequest` (`Client::sendRequest`: fields joined by a space, one space and `'0'` padding to 64, then the data), `GenerateResponse` (the same to 128, with the error code), the request and response regexes as a left-to-right scan (`IsValidRequestFormat`, `IsValidResponseFormat`), `ExtractHeaderFields` (the operator>> loop; after a failure later fields stay 0), `GetContentLength` (-1 after `SET_FORMATTING_ERROR`) and `GetClientRequest` (the payload taken as a C string, as `data = string(in_request_payload)` does). |
| `Journal.tla` (codec) | The line encoding and the parser, on `Lexical`: `LineTokens` (the six `log.write` calls of `logTransaction`), `ReadInt` and the RECURSIVE `Parse` (the `while (ss >> txn_id && ss >> file_name && ss >> file_size)` loop with istream semantics: skip blanks, a maximal run of digits or of non-blanks, stop at the first failure). |
| `AtomicLog.tla` | The abstract journal (spec.md 4.5): a log is a sequence of records; a caller announces a line (`Issue`), which is then appended whole (`AppendLine`) or lost (`Lose`). |
| `LogWriter.tla` | The writers of the four logs, one `write()` per step, under the mutex each caller holds (`m_member_mtx` for the open, timeout and abort logs, the file mutex for the commit log). Each transaction has its connection thread (`Req(t)`: NEW_TXN, then COMMIT or ABORT) and its timer thread (`Timer(t)`). `txns` is the key set of `m_txn_id_to_transaction_attributes`: NEW_TXN adds `t`, ABORT and the timer remove it while they hold `m_member_mtx`, and COMMIT removes it only after its commit line (`RemoveTxn`, lines 436-438). Until then the timer may fire (`TimerExpire`), so a committed transaction can also log a timeout line. The module also has a stop at any step and the restart's parse and replay. It is checked to refine `AtomicLog`, with the logs mapped through `Parse`. |
| `ServerBackend.tla` | The engine, the files, the logs, crashes and recovery. |
| `MC_ServerBackend.tla` | Symmetry over workers and ids, and a VIEW that drops the last response, which no property reads. |
| `Dispatcher.tla` | The accept loop, the notifier, the connection threads with their timed reads, and the test client as environment; the sockets carry bytes framed by `WireProtocol`. |
| `MC_Dispatcher.tla` | Symmetry over clients. |

### ServerBackend: state

| Variable | Code |
|---|---|
| `live` | `m_txn_id_to_transaction_attributes`. `inc` is a ghost that names the tuple object; `bufs` holds the buffered sequence numbers. |
| `attrSize` | `m_file_name_to_ptr_to_file_attributes`. `owner` names the FileAttributes object; `size` is `m_file_size`. |
| `commits` | `m_commits` |
| `wk` | each connection thread's program counter and locals: `txn`, `seq`, the handle `inc`, the bound `file`/`attr`, and the loop index `k` |
| `txnLocks`, `fileLocks` | the transaction and file mutexes held, keyed by object identity |
| `disk`, `onDisk` | file contents as sequences of abstract fragments `Tok(t, i)` |
| `jlog` | the four logs |
| `srv`, `rec` | `m_initialize`, and the locals of the recovery in progress |

Ghosts, which no action reads:
- `committed`: the blocks whose commit-log line was written, with their offsets.
- `durable`, `acked`, `used`, `incs`, `uaf`.

### ServerBackend: actions

Each section the code runs under `m_member_mtx` is one step. So is each
blocking lock acquisition together with the section that follows it.
Acquiring a mutex commutes with the other threads' steps up to the next shared
access, so merging the two loses no interleaving. The action names and the
code they stand for:

- `NewTxn`, `NewTxnBadSeq`: NEW_TXN, one step.
- `ReadOpen` (open, and `fstat` for the size: `FstatSize`), `ReadData`
  (`File::read`): READ. A truncate between the two makes the read hit end of
  file, which READ answers with ErrorReadingFile.
- `WriteLookup`, `WriteLockReval`, `WriteBody`: WRITE.
- `CommitLookup`, `CommitLockReval`, `CommitCheck`, `CommitOpen`,
  `CommitWrite` (one fragment per step), `CommitTruncate` (the catch block),
  `CommitInsert` (`m_commits.insert`), `CommitLog`, `CommitRemove`: COMMIT.
- `AbortLookup`, `AbortLockReval`: ABORT.
- `TimerExpire`: the timer thread.
- `Crash`: the process dies (kill -9, a fatal error, or `exit()` from `SignalHandler::ctrlc`).
- `RecoverLog` (one log per step), `RecoverTruncate`, `RecoverRestart`:
  recovery.

Some steps go through a tuple or a FileAttributes object after
`m_member_mtx` was dropped. When the timer has freed that object, the
behaviour is undefined. The model takes the outcome in which the process dies
(`UseAfterFree`), and the ghost `uaf` records it.

The file mutex lives in the FileAttributes object. A new object for the same
file therefore brings a new mutex, and `fileLocks` is keyed by object.

The timer has no clock. Any two steps may be `T_transaction` apart, so
`TimerExpire` is enabled for every live transaction.

### Dispatcher: state and actions

| Variable | Code |
|---|---|
| `rfds` | `m_rfds` |
| `mainPc` | the accept loop: waiting on `m_fd_cvs[m_listenfd]`, woken, or blocked in `accept()` holding `g_mtx` (`in_accept`) |
| `nt` | the notifier: selecting, or signalling the ready set `pend` it copied |
| `thr` | the thread that owns each descriptor: its pc, its client, `transaction_in_progress`, the command read and the last response |
| `sk`, `backlog`, `cl` | the kernel socket of each client (the request bytes not yet read, `data`; the bytes of the responses not yet read by the client, `out`; hang-up; closed by the server), the listen queue, and the client (state, requests sent, responses still expected) |
| `sk[c].reqs`, `sk[c].unread` | ghost queues: the requests whose bytes are in the stream, and the responses whose bytes are in `out`, oldest first; the framing properties compare the decoded bytes with them |
| `codec` | a constant: the codec applied to every request and response the model can send, computed once by `Init` |

The clients send three requests of the tests, pipelined as in
`TEST(Client, PipelinedRequests)`: a NEW_TXN for file `f`, an ABORT, and the
raw 64-byte header of `TEST(ClientByzantine, InvalidRequestFormat)`. Each is
encoded by `EncodeRequest` and appended to the socket. A connection thread
reads the header bytes available (`ReadHdr`, possibly in several reads), runs
`getContentLength` on them, answers a malformed header with the formatting
error and ends the loop, reads the payload (`ReadPay`), and `Process`
decodes the request with `getClientRequestAsTuple` and writes the bytes of
`generateResponse`. `GetResponse` is `Client::getResponse`: it reads 128
bytes, matches them against the response regex, extracts the fields and
reads `content_len` bytes of data.

`codec` exists for TLC's sake: the codec works character by character on
headers of 64 and 128 characters, and TLC re-evaluates constant expressions
inside `ENABLED` (fairness) and under coverage on every use. Tabulating it
in a variable that no action changes makes each lookup one function
application. The tables are the codec's own definitions applied to every
request the clients can send and every response the server can write.

Descriptors are numbers: the listening socket is 3, and `accept` returns the
lowest free one among as many as there are clients. A descriptor above
`MaxSockFd` is closed at once. A closed descriptor is handed to the next
connection, whose thread then shares the condition variable of the old one.

Actions:
- `Accept` (lines 152-192): the wake-up and `accept`. With an empty listen
  queue it blocks holding `g_mtx`.
- `Select`: the copy of `m_rfds` and `select`, one step under `g_mtx`.
- `Notify`: one `notify_one`, with `g_mtx` released. It is lost when nobody
  waits.
- `ReadHdr`, `ReadPay`, `Process`, `Close`: the steps of
  `m_processRequest`. A read takes what is in the socket, up to what is
  still needed, as `read()` does.
- `Connect`, `Send`, `GetResponse`, `HangUp`: the test client.
- `Timeout`, `Spurious`, `MainSpurious`: a `wait_for` that times out, and
  spurious wakeups.

Time is not modelled, so a timeout may strike at any wait. `read()` has no
timeout: with no data and the peer connected, `ReadHdr` and `ReadPay` are
disabled, which means the thread is blocked. The backend is reduced to
whether the command succeeds and whether it opens a file or a log: those take
`g_mtx` inside `File`, and ABORT always logs. A success is an ACK carrying
the request's id and sequence number (NEW_TXN: a new id and sequence number
0); a failure is an ERROR with a backend error code. A NEW_TXN with sequence
number 0 cannot fail, and it always writes the open log, so it always needs
`g_mtx`.

## Runs

| Run | cfg | Expect | Shows |
|---|---|---|---|
| log_writer | MC_LogWriter.cfg | pass | With one file, each log line written one `write()` at a time and the process stopping at any step, `Parse` reads every log as whole lines: `LogWriter` implements `AtomicLog` (`LogsAreAtomic`). Over the lines written up to the size, the replay restarts every opened transaction with no terminal line, on the file its open line names. It restarts no transaction with exactly one terminal line, and it keeps each file's largest logged size (`RecoveryMatchesLogged`). A committed transaction whose timer also logged a timeout has two terminal lines, and the toggle restarts it; the property leaves that case out, and `resurrect` follows it to a second commit. |
| log_interleave | MC_LogInterleave.cfg | violation | Two COMMITs on different files hold different file mutexes, so their `log.write` calls interleave in the commit log. `"1 a "` followed by the other COMMIT's `"2"` parses as the record (1, a, 2), which no COMMIT logged (`LogsAreAtomic`). spec.md 5 says the File wrapper's mutex handles log contention, but `g_mtx` is held only around open and close. |
| durable | MC_Durable.cfg | pass | One crash at any step of serving, followed by a recovery that runs to its end, and no I/O errors. The state stays well typed (`TypeOK`). Until a restart, each file is its committed blocks plus the prefix written by the one holder of its mutex (`AppendsSerialized`). |
| liveness | MC_Liveness.cfg | pass | Every started request returns, failing opens and writes included (`RequestsComplete`). |
| truncate_race | MC_TruncateRace.cfg | violation | COMMIT's rollback `truncate` (line 428) runs after `file_grd` is released and cuts another COMMIT's append, which is then logged and ACKed. |
| ack_before_log | MC_AckBeforeLog.cfg | violation | A retransmitted COMMIT is ACKed between `m_commits.insert` (416) and the commit-log write (418). |
| timer_uaf | MC_TimerUAF.cfg | violation | The timer frees a tuple that WRITE or COMMIT dereferences after dropping `m_member_mtx`. |
| partial_size | MC_PartialSize.cfg | violation | A timeout, NEW_TXN or ABORT line written during another COMMIT's append records the partial size (613), so recovery keeps the partial data. |
| dispatcher | MC_Dispatcher.cfg | pass | With descriptor reuse, spurious wakeups, timeouts, a connection above `m_max_sockfd` and pipelined requests, every request a thread processes is decoded from the bytes sent for it (`RequestsFramed`), and the 128 bytes at the head of each client's stream pass the response regex and carry the fields and `content_len` of the oldest unread response, followed by its data (`ResponsesFramed`). Every queued connection is eventually accepted (`ConnectionsAccepted`): a lost `notify_one` is made good by the next select. |
| stale_wakeup | MC_StaleWakeup.cfg | violation | The race runs as follows, with no spurious wakeups: (1) a select reports fd 4 readable because its peer hung up; (2) the old thread times out and closes fd 4; (3) fd 4 is accepted for a new client; (4) the pending `notify_one` wakes the new thread, which enters a `read()` with no timeout on an empty socket (`NoBlockingRead`). |
| accept_freeze | MC_AcceptFreeze.cfg | violation | Two selects report the same pending connection. After accepting it, the accept loop is woken again and blocks in `accept()` holding `g_mtx`. The notifier stops, and a client's request is never read (`RequestsAnswered`). |
| resurrect | MC_Resurrect.cfg | violation | The timer fires between the commit-log line and `removeTransaction`. After a crash, the open/timeout/commit toggle restarts the committed transaction, and it is committed twice. |

Each passing property has a mutant, listed in `PROJECT.json`: a plausible bug
in a mapped definition that TLC must catch under the run's configuration.

## Bounds

All engine runs use 2 connection threads, 2 transaction ids and 1 file. That
is the smallest setting in which two COMMITs contend for one file mutex and
two transactions share one FileAttributes object.

`MaxSeq` is 1 where crashes are on. One fragment already opens every window:
- between an append and the commit-log line;
- a log line written mid-commit;
- a missing fragment, which gives ASK_RESEND;
- a commit with `seq < max`;
- a repeated sequence number.

With `MaxSeq = 2`, `MC_Durable.cfg` takes about 580 s, which is past the
five-minute limit, so the run keeps `MaxSeq = 1`.

`MaxCrashes` is 1, so the recovery that a crash starts runs to its end. A
use after free also ends in the crash state without counting, and then a
crash may strike that recovery. Two crashes take 5·10^6 states and over six
minutes. They reach the double-crash loss listed under "Known divergences
without a run". `MaxIdDraws` is 1 in every run. With 2 ids and 2 threads every run explores 10^4 to 4·10^5 distinct
states, in under a minute.

The dispatcher runs use 2 clients and at most 1 or 2 requests sent in all
(`MaxRequests` bounds the total), which is enough for:
- two requests pipelined on one socket, of either kind, including a
  malformed header followed by another request;
- two connections in the listen queue at once;
- one descriptor being reused;
- a second connection above `m_max_sockfd` (set to 4).

Together they explore between 10^3 and 2·10^5 states; `MC_Dispatcher.cfg`
reaches 10^5 in about 2.5 minutes with coverage on.

`MC_LogWriter.cfg` uses 2 transactions, 1 file and sizes 0..1: 2·10^5 states
in about 30 s. Two transactions are enough for two lines in one log and for an
open line whose terminal line is cut by the stop. With one file, the only
lines written by threads holding different mutexes are a COMMIT's commit
line and an open or timeout line. Those go to different logs, so the
refinement holds. A third
transaction takes about 3 minutes and adds no new pattern. `MC_LogInterleave.cfg`
adds a second file, which is all the interleaving needs. Both runs set
`CHECK_DEADLOCK FALSE`: every transaction ends logging, and a stopped process
that has replayed has nothing left to do.

## Fairness

`FairSpec` puts weak fairness on each thread's non-blocking steps (`Running`)
and strong fairness on its mutex acquisitions (`Acquiring`). The strong
fairness encodes an assumption: a `std::mutex` that becomes free again and
again is eventually granted to a waiting thread. The standard does not
promise this, but Linux futex mutexes behave this way in practice.

Clients, the timer and crashes have no fairness: they may never act.

In `Dispatcher`, `FairSpec` puts weak fairness on the accept loop, the
notifier and each connection thread. These are ordinary threads that the OS
schedules. Timeouts, spurious wakeups and clients get no fairness.

## Known divergences without a run

- **Every error closes the connection:** `SET_ERROR_AND_RETURN`
  (server-backend.cpp:29) clears `transaction_in_progress` on every refused
  command, so the dispatcher closes the connection after any error. The tests
  rely on this (client-server-test.cpp:311). spec.md 4.6 says only a
  successful ABORT clears the flag.
- **NEW_TXN can reuse a committed id:** NEW_TXN (server-backend.cpp:279)
  rejects only ids that are live. It can hand out an id that is still in
  `m_commits`, and every WRITE and COMMIT on that transaction is then refused.
  `ServerBackend` reaches this with `MaxIdDraws = 2`.
- **A crash during recovery loses a committed block:** `loadFilesAndTransactions`
  deletes each log as soon as it has read it (server-backend.cpp:589). The
  files are truncated only after all four logs are read. With
  `MaxCrashes = 2`, TLC finds `CommittedBlocksDurable` violated in 7 s:
  1. t1 opens f1 and aborts, so the abort log holds `t1 f1 0`.
  2. t2 commits its block on f1.
  3. The process crashes.
  4. Recovery reads and deletes the open, timeout and commit logs.
  5. A second crash strikes.
  6. The next recovery finds only the abort log. Its size 0 makes
     `truncateFiles` remove f1, and t2's committed block is lost (t1 is
     restarted).

## Not modelled

- **Failing log writes:** `LogWriter` has no failing `open()` or `write()`.
  A write that fails after some tokens leaves a partial line without its
  newline, and the next line is glued to it (server-backend.cpp:627). With
  such failures the logs are no longer an `AtomicLog`, so the passing run
  could not contain those steps.
- **READ returning bytes written after its open:** a rollback truncate and
  then another COMMIT's append between `ReadOpen` and `ReadData` need three
  threads. The engine runs use two.
- **Power failure:** the data file's `File` object lives to the end of
  COMMIT's `try` block (server-backend.cpp:409-420). Its fsync therefore runs
  after `logTransaction` has fsynced the commit-log line. A power loss in
  between leaves a line vouching for data still in the page cache, and
  `truncateFiles` then extends the file with zeros. Modelling this needs the
  synced prefix of every file. The outcome would be one more violation of
  `CommittedBlocksDurable`, which `truncate_race` already shows the code
  breaks.
- **Payloads holding a NUL byte:** `getClientRequestAsTuple` keeps the
  payload only up to its first NUL (server-backend.cpp:144), and
  `File::read` returns a file only up to its first zero byte
  (file.cpp:114). spec.md 4.1 says a payload is `CONTENT_LEN` raw bytes.
  `DecodeRequest` models the conversion. Adding a request whose payload holds
  a NUL makes TLC report `RequestsFramed` violated, with the data stored cut
  short. The model's requests carry no NUL, so the dispatcher run checks the
  framing of NUL-free payloads.
- **READ of a large file:** `File::read` puts a buffer the size of the file
  on the thread's stack (file.cpp:105). Stack size is not modelled.
- **The interrupt handler's erase branch:** answered Y, `ctrlc` removes the
  directory's files one `readdir` entry at a time while the other threads
  keep running. Answered N, it calls `exit()`, which is `Crash` / `Stop`.
  The static destructors that `exit()` runs under live threads are not
  modelled.
- **The dispatcher's own abstractions:**
  - Bytes written to a socket all become readable at once; a `read()` takes
    all that is there up to what it needs. TCP segmentation is not modelled.
  - Writes always succeed. A client that resets its connection while a
    response is written raises SIGPIPE, which nothing ignores, and kills the
    server (read-write-helper.h:74); this needs socket buffer sizes.
  - Payloads are at most one byte. A `CONTENT_LEN` above `INT_MAX` (the regex
    allows 51 digits) makes `content_len + 1` overflow and the stack array
    `request_payload` overflow (server-dispatcher.h:295). One request reaches
    it without any interleaving; `ReadIntSigned` models the INT_MAX clamp.
  - `accept` never fails (EMFILE): there are enough descriptors.
  - The dispatcher model's backend is not `ServerBackend`; the two modules are
    checked separately.
- **Argument parsing and `main`:** one thread runs them once, before any
  other thread exists. They are the IPv4 and port regexes (the port regex
  admits exactly 1..65535), the directory check and object wiring.
- **The data race on `m_commits`:** it is modelled as an atomic insert.
- **WRITE with a sequence number ≤ 0.**
- **Log paths:** logs are read from a bare path (line 545) but written under
  `m_directory` (line 603). The model assumes the working directory is the
  server directory.
