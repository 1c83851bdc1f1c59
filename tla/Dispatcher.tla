----------------------------- MODULE Dispatcher -----------------------------
(***************************************************************************)
(* The connection dispatcher of server-dispatcher.h and the timed read of  *)
(* read-write-helper.h.  Three kinds of server threads share m_rfds and    *)
(* one condition variable per descriptor:                                  *)
(*  - the accept loop (start): waits on the listening descriptor's         *)
(*    condition variable, then accepts under g_mtx;                        *)
(*  - the notifier: copies m_rfds and selects under g_mtx, then, with      *)
(*    g_mtx released, calls notify_one on every ready descriptor;          *)
(*  - one thread per connection (m_processRequest): reads a header and a   *)
(*    payload, each read preceded by a wait_for on its descriptor's        *)
(*    condition variable, hands the request to the backend and loops while *)
(*    transaction_in_progress; then closes the socket and clears it from   *)
(*    m_rfds under g_mtx.                                                  *)
(* Clients are the environment: the test client of Client::sendRequest   *)
(* and Client::getResponse.  The sockets carry bytes, framed and parsed by *)
(* WireProtocol.tla; the backend is abstracted to the response it writes   *)
(* and the transaction_in_progress flag it sets.                           *)
(***************************************************************************)
EXTENDS Integers, Sequences, FiniteSets, FiniteSetsExt, WireProtocol

CONSTANTS
    Clients,          \* the peers that connect, one connection each
    MaxSockFd,        \* m_max_sockfd
    MaxRequests,      \* requests the clients send in all
    SpuriousWakeups   \* whether wait / wait_for may return unsignalled

\* socket() in initializeSocket returns the lowest free descriptor after
\* stdin, stdout and stderr.
ListenFd == 3

\* The descriptors accept can return.  There are as many as clients, so
\* accept never fails with EMFILE (its exit path is not modelled).
OsFds == ListenFd + 1 .. ListenFd + Cardinality(Clients)

NoClient == "none"

(***************************************************************************)
(* What a client writes: a NEW_TXN with one byte of data (the file name),  *)
(* an ABORT of transaction 1, which has no data, and a raw 64-byte header  *)
(* isValidRequestFormat rejects (sendRawRequestGetResponse of the tests).  *)
(* A request is a record; Raw holds the bytes of the raw one.              *)
(***************************************************************************)
NewTxnReq == [cmd |-> NewTxnCmd, txn |-> DefaultTxnId, seq |-> InitialSeqNum, data |-> <<"f">>]
AbortReq  == [cmd |-> AbortCmd, txn |-> 1, seq |-> 1, data |-> <<>>]
RawReq    == [cmd |-> <<>>, txn |-> 0, seq |-> 0,
              data |-> [i \in 1..RequestHeaderLen |-> "x"]]

Requests == {NewTxnReq, AbortReq, RawReq}

\* The bytes Client::sendRequest (or the raw write) puts on the socket.
RequestBytes(r) == IF r = RawReq THEN r.data ELSE EncodeRequest(r.cmd, r.txn, r.seq, r.data)

(***************************************************************************)
(* Responses as records of generateResponse's arguments.  Error messages   *)
(* are one character each: only their length reaches the header.  The     *)
(* backend's failures all go through SET_ERROR_AND_RETURN with a code of   *)
(* 200..212; BackendError stands for them.                                 *)
(***************************************************************************)
InvalidMessageFormat == [code |-> 199, msg |-> <<"F">>]
BackendError         == [code |-> 201, msg |-> <<"I">>]

\* The transaction id NEW_TXN picks.
NewTxnId == 1

Response(cmd, txn, seq, err, data) ==
    [cmd |-> cmd, txn |-> txn, seq |-> seq, err |-> err, data |-> data]

\* SET_FORMATTING_ERROR.
FormattingError ==
    Response(ErrorCmd, DefaultTxnId, ErrorSeqNum, InvalidMessageFormat, InvalidMessageFormat.msg)

ResponseBytes(r) == GenerateResponse(r.cmd, r.txn, r.seq, r.err, r.data)

\* processCommand's response to a decoded request: every failure goes
\* through SET_ERROR_AND_RETURN and answers ERROR; a successful NEW_TXN
\* answers ACK with the new id and sequence number 0, the other commands
\* ACK with the request's id and sequence number.
BackendResponse(req, ok) ==
    CASE ~ok -> Response(ErrorCmd, req.txn, req.seq, BackendError, BackendError.msg)
      [] req.cmd = NewTxnCmd -> Response(AckCmd, NewTxnId, InitialSeqNum, NoError, <<>>)
      [] OTHER -> Response(AckCmd, req.txn, req.seq, NoError, <<>>)

(***************************************************************************)
(* The wire protocol's encoders and decoders on every message the model   *)
(* puts on a socket, computed once, by Init, into the variable codec that  *)
(* no step changes.  TLC evaluates operator arguments afresh when it       *)
(* checks fairness, which makes scanning a 64- or 128-character header at  *)
(* each step unaffordable; a lookup is one function application.  A       *)
(* lookup of a byte string outside the tables is an error of TLC, so the  *)
(* tables cannot hide a message nobody foresaw.                            *)
(***************************************************************************)
CodecTables ==
    LET reqBytes == [r \in Requests |-> RequestBytes(r)]
        hdrs     == {SubSeq(reqBytes[r], 1, RequestHeaderLen) : r \in Requests}
        hdr      == [h \in hdrs |-> [len |-> GetContentLength(h),
                                     req |-> GetClientRequest(h, <<>>)]]
        rsps     == {FormattingError} \cup
                    {BackendResponse(hdr[h].req, ok) : h \in hdrs, ok \in BOOLEAN}
        rspBytes == [r \in rsps |-> ResponseBytes(r)]
        rspHdrs  == {SubSeq(rspBytes[r], 1, ResponseHeaderLen) : r \in rsps}
    IN [reqBytes |-> reqBytes, hdr |-> hdr, rspBytes |-> rspBytes,
        rspHdr |-> [h \in rspHdrs |-> [valid |-> IsValidResponseFormat(h),
                                       f |-> ExtractHeaderFields(h, 4)]]]

WaitPcs == {"wait_hdr", "wait_pay"}

ThreadPcs == {"none", "wait_hdr", "read_hdr", "wait_pay", "read_pay",
              "process", "close"}

VARIABLES
    cl,       \* client side: st, requests sent, responses still expected
    sk,       \* kernel socket of each client: unread request bytes (data),
              \* unread response bytes (out), peer hung up, closed by the
              \* server; reqs and unread record the requests in data and
              \* the responses in out, in order
    backlog,  \* the listen queue: connections not yet accepted
    rfds,     \* m_rfds
    mainPc,   \* the accept loop
    nt,       \* the notifier: pc and the ready set still to notify
    thr,      \* the connection thread that owns each descriptor
    codec     \* the wire protocol's results, tabulated (CodecTables)

vars == <<cl, sk, backlog, rfds, mainPc, nt, thr, codec>>

\* A connection thread's locals: the bytes read so far (buf), the header
\* once complete (hdr), content_len (need), transaction_in_progress, and
\* the number of headers read on the connection (k).
NoThread == [pc |-> "none", c |-> NoClient, inProg |-> TRUE,
             buf |-> <<>>, hdr |-> <<>>, need |-> 0, k |-> 0]

Bytes == CmdChars \cup Range(DigitChars) \cup {Delim, "-", "x", "f", "F", "I"}

TypeOK ==
    /\ cl \in [Clients -> [st : {"idle", "conn", "gone"}, sent : 0..MaxRequests,
                           pending : 0..MaxRequests]]
    /\ \A c \in Clients : /\ sk[c].data \in Seq(Bytes) /\ sk[c].out \in Seq(Bytes)
                          /\ sk[c].hup \in BOOLEAN /\ sk[c].closed \in BOOLEAN
    /\ backlog \in Seq(Clients)
    /\ rfds \subseteq {ListenFd} \cup OsFds
    /\ mainPc \in {"wait", "woken", "in_accept"}
    /\ nt \in [pc : {"select", "notify"}, pend : SUBSET ({ListenFd} \cup OsFds)]
    /\ \A fd \in OsFds :
          /\ thr[fd].pc \in ThreadPcs /\ thr[fd].c \in Clients \cup {NoClient}
          /\ thr[fd].inProg \in BOOLEAN /\ thr[fd].buf \in Seq(Bytes)
          /\ Len(thr[fd].hdr) \in {0, RequestHeaderLen}
          /\ thr[fd].need \in Nat /\ thr[fd].k \in 0..MaxRequests

\* initializeSocket: FD_SET(m_listenfd, &m_rfds).
Init ==
    /\ cl = [c \in Clients |-> [st |-> "idle", sent |-> 0, pending |-> 0]]
    /\ sk = [c \in Clients |-> [data |-> <<>>, reqs |-> <<>>, out |-> <<>>, unread |-> <<>>,
                                hup |-> FALSE, closed |-> FALSE]]
    /\ backlog = <<>>
    /\ rfds = {ListenFd}
    /\ mainPc = "wait"
    /\ nt = [pc |-> "select", pend |-> {}]
    /\ thr = [fd \in OsFds |-> NoThread]
    /\ codec = CodecTables

\* select reports a socket readable when it holds unread bytes or the peer
\* has closed it (read then returns 0).
Readable(c) == sk[c].data # <<>> \/ sk[c].hup

ReadyFds ==
    {fd \in rfds : IF fd = ListenFd THEN backlog # <<>>
                                     ELSE Readable(thr[fd].c)}

\* The accept loop blocks in accept() holding g_mtx.
GHeldByMain == mainPc = "in_accept"

-----------------------------------------------------------------------------
(***************************************************************************)
(* Clients.  A client connects once; the connection completes in the      *)
(* kernel and waits in the listen queue until accept.  The client may     *)
(* send a request before the earlier ones are answered, as the test       *)
(* PipelinedRequests does, reads the responses in order, and may hang up  *)
(* at any moment.                                                         *)
(***************************************************************************)
Connect(c) ==
    /\ cl[c].st = "idle"
    /\ cl' = [cl EXCEPT ![c].st = "conn"]
    /\ backlog' = Append(backlog, c)
    /\ UNCHANGED <<codec, sk, rfds, mainPc, nt, thr>>

Send(c, r) ==
    /\ cl[c].st = "conn" /\ ~sk[c].closed
    /\ MapThenSumSet(LAMBDA x : cl[x].sent, Clients) < MaxRequests
    /\ sk' = [sk EXCEPT ![c].data = @ \o codec.reqBytes[r], ![c].reqs = Append(@, r)]
    /\ cl' = [cl EXCEPT ![c].sent = @ + 1, ![c].pending = @ + 1]
    /\ UNCHANGED <<codec, backlog, rfds, mainPc, nt, thr>>

\* Client::getResponse: read the 128-byte header, check it against the
\* response regex (EXPECT_TRUE), extract its fields, then read
\* content_len bytes of data.  Each read blocks until its bytes are there.
ResponseAt(o) == codec.rspHdr[SubSeq(o, 1, ResponseHeaderLen)]

GetResponse(c) ==
    /\ cl[c].st = "conn"
    /\ Len(sk[c].out) >= ResponseHeaderLen
    /\ Len(sk[c].out) >= ResponseHeaderLen + ResponseAt(sk[c].out).f.ints[4]
    /\ sk' = [sk EXCEPT ![c].out = Drop(@, ResponseHeaderLen + ResponseAt(@).f.ints[4]),
                        ![c].unread = Tail(@)]
    /\ UNCHANGED <<codec, cl, backlog, rfds, mainPc, nt, thr>>

HangUp(c) ==
    /\ cl[c].st = "conn"
    /\ cl' = [cl EXCEPT ![c].st = "gone", ![c].pending = 0]
    /\ sk' = [sk EXCEPT ![c].hup = TRUE]
    /\ UNCHANGED <<codec, backlog, rfds, mainPc, nt, thr>>

-----------------------------------------------------------------------------
(***************************************************************************)
(* The accept loop (start).  The wait on m_fd_cvs[m_listenfd] has no      *)
(* predicate: it returns on any notify_one of that variable, or            *)
(* spuriously.  The thread then takes g_mtx and calls accept on the       *)
(* blocking listening socket; with an empty listen queue it blocks there, *)
(* still holding g_mtx.                                                    *)
(***************************************************************************)
MainSpurious ==
    /\ SpuriousWakeups /\ mainPc = "wait"
    /\ mainPc' = "woken"
    /\ UNCHANGED <<codec, cl, sk, backlog, rfds, nt, thr>>

\* The descriptors no connection thread holds; accept returns the lowest.
FreeFds == {fd \in OsFds : thr[fd].pc = "none"}

\* accept returned: a descriptor above m_max_sockfd is closed at once and
\* the loop continues; otherwise FD_SET it, release g_mtx and start its
\* thread.
DoAccept ==
    LET c  == Head(backlog)
        fd == Min(FreeFds)
    IN /\ backlog' = Tail(backlog)
       /\ mainPc' = "wait"
       /\ \/ /\ fd > MaxSockFd
             /\ sk' = [sk EXCEPT ![c].closed = TRUE]
             /\ cl' = [cl EXCEPT ![c].pending = 0]
             /\ UNCHANGED <<rfds, thr>>
          \/ /\ fd <= MaxSockFd
             /\ rfds' = rfds \cup {fd}
             /\ thr' = [thr EXCEPT ![fd] = [NoThread EXCEPT !.pc = "wait_hdr",
                                                            !.c = c]]
             /\ UNCHANGED <<cl, sk>>
       /\ UNCHANGED <<nt, codec>>

Accept ==
    /\ mainPc \in {"woken", "in_accept"}
    /\ \/ /\ mainPc = "woken" /\ backlog = <<>>
          /\ mainPc' = "in_accept"
          /\ UNCHANGED <<codec, cl, sk, backlog, rfds, nt, thr>>
       \/ backlog # <<>> /\ DoAccept

-----------------------------------------------------------------------------
(***************************************************************************)
(* The notifier.  Copying m_rfds and the select run under g_mtx, so they   *)
(* are one step, and they wait while the accept loop holds g_mtx.  A      *)
(* select that finds nothing ready times out after 100 ms and changes     *)
(* nothing.  The notify_one calls follow with g_mtx released, in          *)
(* ascending descriptor order; one that finds no thread waiting is lost.  *)
(***************************************************************************)
Select ==
    /\ nt.pc = "select" /\ ~GHeldByMain
    /\ ReadyFds # {}
    /\ nt' = [pc |-> "notify", pend |-> ReadyFds]
    /\ UNCHANGED <<codec, cl, sk, backlog, rfds, mainPc, thr>>

\* The pc a wait_for returns to: the read that follows it.
Woken(pc) == IF pc = "wait_hdr" THEN "read_hdr" ELSE "read_pay"

\* Mutant: the notify loop starts above m_listenfd.
NotifyFromFirstSocket ==
    LET fd == Min(nt.pend)
    IN /\ nt.pc = "notify"
       /\ nt' = [pc |-> IF nt.pend = {fd} THEN "select" ELSE "notify",
                 pend |-> nt.pend \ {fd}]
       /\ \/ fd # ListenFd /\ thr[fd].pc \in WaitPcs
             /\ thr' = [thr EXCEPT ![fd].pc = Woken(@)]
          \/ fd = ListenFd /\ UNCHANGED thr
          \/ fd # ListenFd /\ thr[fd].pc \notin WaitPcs /\ UNCHANGED thr
       /\ UNCHANGED <<codec, cl, sk, backlog, rfds, mainPc>>

Notify ==
    LET fd == Min(nt.pend)
    IN /\ nt.pc = "notify"
       /\ nt' = [pc |-> IF nt.pend = {fd} THEN "select" ELSE "notify",
                 pend |-> nt.pend \ {fd}]
       /\ \/ fd = ListenFd /\ mainPc = "wait" /\ mainPc' = "woken"
             /\ UNCHANGED thr
          \/ fd # ListenFd /\ thr[fd].pc \in WaitPcs
             /\ thr' = [thr EXCEPT ![fd].pc = Woken(@)]
             /\ UNCHANGED mainPc
          \/ fd = ListenFd /\ mainPc # "wait" /\ UNCHANGED <<mainPc, thr>>
          \/ fd # ListenFd /\ thr[fd].pc \notin WaitPcs /\ UNCHANGED <<mainPc, thr>>
       /\ UNCHANGED <<codec, cl, sk, backlog, rfds>>

-----------------------------------------------------------------------------
(***************************************************************************)
(* A connection thread, one per accepted descriptor.  readFileDescriptor  *)
(* waits on the descriptor's condition variable before each read():      *)
(* woken by the notifier or spuriously, it calls read(); when wait_for    *)
(* times out it fails with ETIMEDOUT.  The model has no clock, so the     *)
(* timeout may strike at any wait.  read() itself has no timeout: on an   *)
(* empty socket whose peer is still connected it blocks.                  *)
(***************************************************************************)
Spurious(fd) ==
    /\ SpuriousWakeups /\ thr[fd].pc \in WaitPcs
    /\ thr' = [thr EXCEPT ![fd].pc = Woken(@)]
    /\ UNCHANGED <<codec, cl, sk, backlog, rfds, mainPc, nt>>

\* readSocket returns false: the do-while loop breaks.
Timeout(fd) ==
    /\ thr[fd].pc \in WaitPcs
    /\ thr' = [thr EXCEPT ![fd].pc = "close"]
    /\ UNCHANGED <<codec, cl, sk, backlog, rfds, mainPc, nt>>

\* processRequest's getClientRequestAsTuple: the header's fields from the
\* table, then data = string(in_request_payload), the payload as a C string.
DecodeRequest(h, data) == [codec.hdr[h].req EXCEPT !.data = CString(data)]

(***************************************************************************)
(* One read() of readFileDescriptor returns what the socket holds, up to   *)
(* the bytes still missing (Taken), after which the helper waits again     *)
(* until all n bytes are there.  read() returning 0 (the peer closed)      *)
(* fails the readSocket.  The client writes whole requests, so every read *)
(* the model reaches completes its buffer.                                 *)
(***************************************************************************)
Taken(fd, n) == Min({Len(sk[thr[fd].c].data), n - Len(thr[fd].buf)})

Received(fd, n) == thr[fd].buf \o SubSeq(sk[thr[fd].c].data, 1, Taken(fd, n))

\* writeFileDescriptor, on the socket state s, of the response to the
\* oldest request on the socket.  The bytes reach the client's side.
Write(s, c, r) ==
    sk' = [s EXCEPT ![c].out = @ \o codec.rspBytes[r], ![c].unread = Append(@, r),
                    ![c].reqs = Tail(@)]

\* One response fewer expected; a client that hung up expects none.
Answered(p) == IF p > 0 THEN p - 1 ELSE 0

\* getContentLength, on the header h just read (the socket is then s).  A
\* header the regex rejects gets the formatting-error response, which
\* clears transaction_in_progress and ends the loop; a content length of
\* 0 makes readSocket of the payload return at once.
ParseHdr(fd, h, s) ==
    LET t   == thr[fd]
        len == codec.hdr[h].len
        nxt == [t EXCEPT !.buf = <<>>, !.hdr = h, !.need = len, !.k = t.k + 1]
    IN \/ /\ len < 0
          /\ thr' = [thr EXCEPT ![fd] = [nxt EXCEPT !.pc = "close", !.inProg = FALSE,
                                                   !.need = 0]]
          /\ Write(s, t.c, FormattingError)
          /\ cl' = [cl EXCEPT ![t.c].pending = Answered(@)]
       \/ /\ len = 0
          /\ thr' = [thr EXCEPT ![fd] = [nxt EXCEPT !.pc = "process"]]
          /\ sk' = s /\ UNCHANGED cl
       \/ /\ len > 0
          /\ thr' = [thr EXCEPT ![fd] = [nxt EXCEPT !.pc = "wait_pay"]]
          /\ sk' = s /\ UNCHANGED cl

\* The peer closed the socket: read() returns 0.
ReadEof(fd) ==
    /\ sk[thr[fd].c].data = <<>> /\ sk[thr[fd].c].hup
    /\ thr' = [thr EXCEPT ![fd].pc = "close"]
    /\ UNCHANGED <<cl, sk>>

\* read() of the request_header_len bytes of the header, and
\* getContentLength once they are all there.
ReadHdr(fd) ==
    LET c    == thr[fd].c
        h    == Received(fd, RequestHeaderLen)
        rest == [sk EXCEPT ![c].data = Drop(@, Taken(fd, RequestHeaderLen))]
    IN /\ thr[fd].pc = "read_hdr"
       /\ \/ /\ sk[c].data # <<>>
             /\ IF Len(h) < RequestHeaderLen
                THEN /\ thr' = [thr EXCEPT ![fd].buf = h, ![fd].pc = "wait_hdr"]
                     /\ sk' = rest /\ UNCHANGED cl
                ELSE ParseHdr(fd, h, rest)
          \/ ReadEof(fd)
       /\ UNCHANGED <<codec, backlog, rfds, mainPc, nt>>

\* read() of the content_len bytes of the payload.
ReadPay(fd) ==
    LET c == thr[fd].c
        d == Received(fd, thr[fd].need)
    IN /\ thr[fd].pc = "read_pay"
       /\ \/ /\ sk[c].data # <<>>
             /\ thr' = [thr EXCEPT ![fd].buf = d,
                                   ![fd].pc = IF Len(d) < thr[fd].need THEN "wait_pay" ELSE "process"]
             /\ sk' = [sk EXCEPT ![c].data = Drop(@, Taken(fd, thr[fd].need))]
             /\ UNCHANGED cl
          \/ ReadEof(fd)
       /\ UNCHANGED <<codec, backlog, rfds, mainPc, nt>>

(***************************************************************************)
(* processRequest and the response write.  The command succeeds or fails; *)
(* a failure, like a successful ABORT, clears transaction_in_progress.  A *)
(* NEW_TXN with sequence number 0 never fails.  A command that opens a    *)
(* file or a log (a NEW_TXN and a successful ABORT always log) takes      *)
(* g_mtx inside the File constructor and destructor.                      *)
(***************************************************************************)
Process(fd) ==
    LET t == thr[fd]
    IN /\ t.pc = "process"
       /\ \E ok \in BOOLEAN, usesFile \in BOOLEAN :
             LET req   == DecodeRequest(t.hdr, t.buf)
                 abort == req.cmd = AbortCmd
                 newTxn == req.cmd = NewTxnCmd /\ req.seq = InitialSeqNum
                 more  == t.inProg /\ ok /\ ~abort
             IN /\ newTxn => ok
                /\ (abort \/ newTxn) /\ ok => usesFile
                /\ usesFile => ~GHeldByMain
                /\ thr' = [thr EXCEPT ![fd] = [t EXCEPT !.pc = IF more THEN "wait_hdr" ELSE "close",
                                                       !.inProg = more, !.buf = <<>>,
                                                       !.hdr = <<>>, !.need = 0]]
                /\ Write(sk, t.c, BackendResponse(req, ok))
       /\ cl' = [cl EXCEPT ![t.c].pending = Answered(@)]
       /\ UNCHANGED <<codec, backlog, rfds, mainPc, nt>>

\* Under g_mtx: close(in_sockfd), then FD_CLR(in_sockfd, &m_rfds).
Close(fd) ==
    LET c == thr[fd].c
    IN /\ thr[fd].pc = "close" /\ ~GHeldByMain
       /\ sk' = [sk EXCEPT ![c].closed = TRUE]
       /\ cl' = [cl EXCEPT ![c].pending = 0]
       /\ rfds' = rfds \ {fd}
       /\ thr' = [thr EXCEPT ![fd] = NoThread]
       /\ UNCHANGED <<codec, backlog, mainPc, nt>>

-----------------------------------------------------------------------------
Connection(fd) ==
    ReadHdr(fd) \/ ReadPay(fd) \/ Process(fd) \/ Close(fd)

Next ==
    \/ \E c \in Clients : Connect(c) \/ HangUp(c) \/ GetResponse(c) \/ \E r \in Requests : Send(c, r)
    \/ Accept \/ MainSpurious \/ Select \/ Notify
    \/ \E fd \in OsFds : Spurious(fd) \/ Timeout(fd) \/ Connection(fd)

Spec == Init /\ [][Next]_vars

\* Every server thread that can run eventually runs: the accept loop, the
\* notifier and each connection thread are ordinary threads the scheduler
\* serves.  Clients, timeouts and spurious wakeups get no fairness.
FairSpec ==
    /\ Spec
    /\ WF_vars(Accept) /\ WF_vars(Select) /\ WF_vars(Notify)
    /\ \A fd \in OsFds : WF_vars(Connection(fd))

-----------------------------------------------------------------------------
(* Properties *)

Queued(c) == \E i \in 1..Len(backlog) : backlog[i] = c

\* Every connection in the listen queue is eventually accepted (and served
\* or, above m_max_sockfd, closed): the notifier keeps signalling the
\* listening descriptor while the queue is non-empty, so a lost
\* notify_one is made good by the next select.
ConnectionsAccepted == \A c \in Clients : Queued(c) ~> ~Queued(c)

\* A connection thread only calls read() on a socket that holds data or
\* whose peer has closed it, so the connection timeout of wait_for is the
\* only place it can block (spec.md: a worker closes after T_connection
\* without activity).
NoBlockingRead ==
    \A fd \in OsFds : thr[fd].pc \in {"read_hdr", "read_pay"} => Readable(thr[fd].c)

\* Every request a client sends is eventually answered, or its connection
\* closed.
RequestsAnswered == \A c \in Clients : cl[c].pending > 0 ~> cl[c].pending = 0

\* The request a connection thread hands to processRequest is the one its
\* client sent earliest of those not yet consumed: the header getClientRequestAsTuple decodes, with the
\* payload read after it, gives back the command, id, sequence number and
\* data of the sendRequest.  sendRequest's to_string and padding, the
\* thread's two readSocket calls and the operator>> loop must agree on
\* the framing, negative ids included.
RequestsFramed ==
    \A fd \in OsFds :
        thr[fd].pc = "process" =>
            DecodeRequest(thr[fd].hdr, thr[fd].buf) = Head(sk[thr[fd].c].reqs)

\* Every response the test client's getResponse would read next passes
\* its EXPECT_TRUE on the response regex, carries the command, id,
\* sequence number and error code of the oldest response the server wrote
\* and the client has not read, and its content_len spans exactly that
\* response's data: generateResponse's header, the formatting error's
\* included, frames its data so that each getResponse consumes one
\* response.
ResponsesFramed ==
    \A c \in Clients :
        sk[c].unread # <<>> =>
            LET r == Head(sk[c].unread)
                h == ResponseAt(sk[c].out)
            IN /\ h.valid
               /\ h.f.cmd = r.cmd
               /\ h.f.ints = <<r.txn, r.seq, r.err.code, Len(r.data)>>
               /\ SubSeq(sk[c].out, ResponseHeaderLen + 1, ResponseHeaderLen + Len(r.data)) = r.data

=============================================================================
