------------------------------ MODULE Lexical ------------------------------
(***************************************************************************)
(* Text as the server writes and reads it: std::to_string and the         *)
(* operator>> extractions of std::istream, on sequences of one-character   *)
(* strings.  The journal (Journal.tla) and the wire protocol               *)
(* (WireProtocol.tla) are built on these.  Digits are "0".."9"; the blanks *)
(* operator>> skips are " " and "\n", the only ones the code writes.       *)
(***************************************************************************)
EXTENDS Integers, Sequences, SequencesExt

DigitChars == <<"0", "1", "2", "3", "4", "5", "6", "7", "8", "9">>

Blanks == {" ", "\n"}

\* The range of int.
IntMax == 2147483647
IntMin == -IntMax - 1

\* to_string of a non-negative integer: its decimal digits, most
\* significant first.
RECURSIVE DecimalString(_)
DecimalString(n) ==
    IF n < 10 THEN <<DigitChars[n + 1]>>
    ELSE DecimalString(n \div 10) \o <<DigitChars[(n % 10) + 1]>>

\* to_string of an int.
IntString(n) == IF n < 0 THEN <<"-">> \o DecimalString(-n) ELSE DecimalString(n)

\* Length of the longest prefix of s whose characters are all in C.
PrefixWhile(s, C) ==
    LET out == {i \in 1..Len(s) : s[i] \notin C}
    IN IF out = {} THEN Len(s)
       ELSE (CHOOSE i \in out : \A j \in 1..i - 1 : s[j] \in C) - 1

\* s without its first k characters.
Drop(s, k) == SubSeq(s, k + 1, Len(s))

\* The NUL character '\0' that ends a C string.
NulChar == "\\0"

\* std::string(const char *): the characters before the first NUL.
CString(s) == SubSeq(s, 1, PrefixWhile(s, Range(s) \ {NulChar}))

\* Every operator>> first skips leading blanks.
SkipBlanks(s) == Drop(s, PrefixWhile(s, Blanks))

DigitValue(c) == CHOOSE d \in 0..9 : DigitChars[d + 1] = c

\* operator>> into a string: the longest run of non-blank characters,
\* failing at the end of the text.
ReadStr(s) ==
    LET t == SkipBlanks(s)
        n == PrefixWhile(t, Range(t) \ Blanks)
    IN [ok |-> n > 0, val |-> SubSeq(t, 1, n), rest |-> Drop(t, n)]

\* The digit string d, without leading zeros, spells a number above the
\* magnitude lim (a digit string of the same form).
Exceeds(d, lim) ==
    \/ Len(d) > Len(lim)
    \/ /\ Len(d) = Len(lim)
       /\ \E i \in 1..Len(d) : /\ DigitValue(d[i]) > DigitValue(lim[i])
                               /\ \A j \in 1..i - 1 : d[j] = lim[j]

\* Mutant: the sign is read but not applied.
ReadIntUnsigned(s) ==
    LET t == SkipBlanks(s)
        sgn == IF t # <<>> /\ t[1] = "-" THEN 1 ELSE 0
        n == PrefixWhile(Drop(t, sgn), Range(DigitChars))
    IN [ok |-> n > 0,
        val |-> FoldLeft(LAMBDA a, c : 10 * a + DigitValue(c), 0, SubSeq(t, sgn + 1, sgn + n)),
        rest |-> Drop(t, sgn + n)]

\* operator>> into an int (num_get): an optional sign and the longest run
\* of digits.  Without a digit it fails and stores 0; out of range it
\* fails and stores INT_MAX or INT_MIN.  Either failure sets failbit.
ReadIntSigned(s) ==
    LET t    == SkipBlanks(s)
        neg  == t # <<>> /\ t[1] = "-"
        sgn  == IF neg THEN 1 ELSE 0
        n    == PrefixWhile(Drop(t, sgn), Range(DigitChars))
        d    == SubSeq(t, sgn + 1, sgn + n)
        mag  == Drop(d, PrefixWhile(d, {"0"}))
        over == Exceeds(mag, IF neg THEN Front(DecimalString(IntMax)) \o <<"8">>
                                    ELSE DecimalString(IntMax))
        \* accumulate towards the sign, so that INT_MIN itself never overflows
        val  == FoldLeft(LAMBDA a, c : 10 * a + (IF neg THEN -1 ELSE 1) * DigitValue(c),
                         0, mag)
    IN [ok   |-> n > 0 /\ ~over,
        val  |-> CASE n = 0 -> 0 [] over /\ neg -> IntMin [] over -> IntMax [] OTHER -> val,
        rest |-> Drop(t, sgn + n)]

=============================================================================
