---------------------------- MODULE WireProtocol ----------------------------
(***************************************************************************)
(* The framing of requests and responses (constants.h, wire-protocol.h):  *)
(* a fixed-width header of space-separated fields, padded with '0', then  *)
(* CONTENT_LEN bytes of payload.  The encoders are Client::sendRequest    *)
(* and ServerBackend::generateResponse; the decoders are the regular      *)
(* expressions of isValidRequestFormat / isValidResponseFormat and the    *)
(* operator>> loop of extractHeaderFields.                                 *)
(***************************************************************************)
EXTENDS Lexical

Delim == " "
Pad == "0"
RequestHeaderLen == 64
ResponseHeaderLen == 128

DefaultTxnId == -1
ErrorSeqNum == -1
InitialSeqNum == 0

\* Client and server commands.
AbortCmd  == <<"A", "B", "O", "R", "T">>
NewTxnCmd == <<"N", "E", "W", "_", "T", "X", "N">>
AckCmd    == <<"A", "C", "K">>
ErrorCmd  == <<"E", "R", "R", "O", "R">>

\* [A-Z_]
CmdChars == {"A", "B", "C", "D", "E", "F", "G", "H", "I", "J", "K", "L", "M",
             "N", "O", "P", "Q", "R", "S", "T", "U", "V", "W", "X", "Y", "Z", "_"}

(***************************************************************************)
(* Encoding.                                                               *)
(***************************************************************************)
\* The fields joined by the delimiting character.
JoinFields(fs) == FoldLeft(LAMBDA a, f : a \o <<Delim>> \o f, Head(fs), Tail(fs))

\* One delimiter if the header is still short, then padding to the width.
PadHeader(h, width) ==
    LET d == IF Len(h) < width THEN h \o <<Delim>> ELSE h
    IN d \o [i \in 1..(width - Len(d)) |-> Pad]

\* Client::sendRequest: the header, then the data.
EncodeRequest(cmd, txn, seq, data) ==
    PadHeader(JoinFields(<<cmd, IntString(txn), IntString(seq), DecimalString(Len(data))>>),
              RequestHeaderLen) \o data

\* An error of errors.h: its code and message; NoError is Errors::nil.
NoError == [code |-> 0, msg |-> <<>>]

\* Mutant: err_code stays 0 whatever the error.
GenerateResponseNilCode(cmd, txn, seq, err, data) ==
    PadHeader(JoinFields(<<cmd, IntString(txn), IntString(seq), <<"0">>,
                           DecimalString(Len(data))>>),
              ResponseHeaderLen) \o data

\* generateResponse: err_code is 0 for nil, the header, then the data.
GenerateResponse(cmd, txn, seq, err, data) ==
    PadHeader(JoinFields(<<cmd, IntString(txn), IntString(seq), IntString(err.code),
                           DecimalString(Len(data))>>),
              ResponseHeaderLen) \o data

(***************************************************************************)
(* Validation.  The field classes [A-Z_]+, [-]?[0-9]+ and [0-9]+ never    *)
(* contain the delimiter, so the greedy match of each field is the only   *)
(* one, and regex_match is a left-to-right scan.                          *)
(***************************************************************************)
\* Length of the field of kind k at the head of s, 0 when there is none.
FieldLen(k, s) ==
    LET sg == IF k = "sint" /\ s # <<>> /\ s[1] = "-" THEN 1 ELSE 0
        n  == IF k = "cmd" THEN PrefixWhile(s, CmdChars)
              ELSE PrefixWhile(Drop(s, sg), Range(DigitChars))
    IN IF n > 0 THEN sg + n ELSE 0

\* s is fields of kinds ks separated by single delimiters, then
\* ([ ]0*)? to the end.
RECURSIVE MatchFields(_, _)
MatchFields(s, ks) ==
    IF ks = <<>>
    THEN s = <<>> \/ (s[1] = Delim /\ \A i \in 2..Len(s) : s[i] = Pad)
    ELSE LET n == FieldLen(Head(ks), s)
         IN /\ n > 0
            /\ IF Len(ks) = 1 THEN MatchFields(Drop(s, n), <<>>)
               ELSE Len(s) > n /\ s[n + 1] = Delim /\ MatchFields(Drop(s, n + 1), Tail(ks))

\* ^(?=.{64}$)[A-Z_]+ [-]?[0-9]+ [-]?[0-9]+ [0-9]+( 0*)?
IsValidRequestFormat(h) ==
    Len(h) = RequestHeaderLen /\ MatchFields(h, <<"cmd", "sint", "sint", "uint">>)

\* ^(?=.{128}$)[A-Z_]+ [-]?[0-9]+ [-]?[0-9]+ [0-9]+ [0-9]+( 0*)?
IsValidResponseFormat(h) ==
    Len(h) = ResponseHeaderLen /\ MatchFields(h, <<"cmd", "sint", "sint", "uint", "uint">>)

(***************************************************************************)
(* Extraction.  extractHeaderFields applies operator>> to the first       *)
(* size - 1 tuple fields in order: a string, then ints.  Once one fails,  *)
(* the stream is bad and the later fields keep their initial 0.           *)
(***************************************************************************)
RECURSIVE ExtractInts(_, _, _)
ExtractInts(s, k, good) ==
    IF k = 0 THEN <<>>
    ELSE IF ~good THEN <<0>> \o ExtractInts(s, k - 1, FALSE)
    ELSE LET r == ReadIntSigned(s)
         IN <<r.val>> \o ExtractInts(r.rest, k - 1, r.ok)

ExtractHeaderFields(h, k) ==
    LET c == ReadStr(h)
    IN [cmd |-> c.val, ints |-> ExtractInts(c.rest, k, c.ok)]

\* ServerBackend::getContentLength: -1 (after SET_FORMATTING_ERROR) for a
\* header the request regex rejects.
GetContentLength(h) ==
    IF IsValidRequestFormat(h) THEN ExtractHeaderFields(h, 3).ints[3] ELSE -1

\* getClientRequestAsTuple: the header's fields, and the payload buffer
\* read as a C string (data = string(in_request_payload)).
GetClientRequest(h, data) ==
    LET f == ExtractHeaderFields(h, 3)
    IN [cmd |-> f.cmd, txn |-> f.ints[1], seq |-> f.ints[2], data |-> CString(data)]

=============================================================================
