------------------------------- MODULE UtilAll -------------------------------
(***************************************************************************)
(* String helpers of common/UtilAll.cpp.  Split(ret_, strIn, char sep) and *)
(* Split(ret_, strIn, string sep) break a string at a separator and keep   *)
(* the non-empty pieces.  StringToInt32(str, out) parses a decimal int     *)
(* with strtol and range checks; StringToInt64(str, val) parses with       *)
(* strtoll and checks against LONG_MAX and LONG_MIN.  A string is a        *)
(* sequence of one-character strings; a position is 1-based and NPos (0)  *)
(* is string::npos.  A C long is as wide as int (ILP32, LLP64) or twice as *)
(* wide (LP64); a long long is as wide as the widest long.  The helpers    *)
(* are checked against reference definitions over every string up to a    *)
(* bounded length.                                                         *)
(***************************************************************************)
EXTENDS Integers, Sequences, SequencesExt

CONSTANTS
    Chars,       \* the characters strings are made of
    MaxLen,      \* bound: longest string
    IntWidth,    \* bits of an int (narrower than 32, where the checks are alike)
    LongWidths,  \* the widths a long may have on the platforms built for
    ShortWidth,  \* bits of a short, narrower than an int
    Bytes        \* values a (signed) char of bytes2string's input may hold

ASSUME MaxLen \in Nat /\ IntWidth \in 2 .. 14 /\ LongWidths \subseteq IntWidth .. 28
ASSUME ShortWidth \in 2 .. IntWidth - 1 /\ Bytes \subseteq -128 .. 127

Strings == SeqOf(Chars, MaxLen)
NPos == 0

Space == {" "}
Digits == {"0", "1", "2", "3", "4", "5", "6", "7", "8", "9"}
DigitValue(d) == CHOOSE v \in 0 .. 9 : ToString(v) = d

INT_MAX == 2^(IntWidth - 1) - 1
INT_MIN == -(2^(IntWidth - 1))
LONG_MAX(lw) == 2^(lw - 1) - 1
LONG_MIN(lw) == -(2^(lw - 1))
LongLongWidth == Max(LongWidths)

\* The first position at or after from whose character is (not) in S.
FirstIn(s, from, S) ==
    LET hits == {i \in from .. Len(s) : s[i] \in S}
    IN  IF hits = {} THEN NPos ELSE Min(hits)

\* string::find_first_not_of(sep) and string::find(sep, pos).
FindFirstNotOf(s, c) == FirstIn(s, 1, Chars \ {c})
Find(s, c, pos) == FirstIn(s, pos, {c})

\* Mutant of SplitFrom: the !tmp.empty() check is dropped, so the piece
\* between two adjacent separators is pushed as an empty string.
RECURSIVE SplitFromKeepEmpty(_, _, _, _)
SplitFromKeepEmpty(s, c, posBegin, ret) ==
    IF posBegin = NPos THEN ret
    ELSE LET commaPos == Find(s, c, posBegin)
             tmp == IF commaPos # NPos THEN SubSeq(s, posBegin, commaPos - 1)
                    ELSE SubSeq(s, posBegin, Len(s))
             next == IF commaPos # NPos THEN commaPos + 1 ELSE NPos
         IN  SplitFromKeepEmpty(s, c, next, Append(ret, tmp))

\* The while loop of Split: the piece up to the next separator (or the rest
\* of the string) is pushed when it is not empty, and the scan resumes one
\* past the separator.
RECURSIVE SplitFrom(_, _, _, _)
SplitFrom(s, c, posBegin, ret) ==
    IF posBegin = NPos THEN ret
    ELSE LET commaPos == Find(s, c, posBegin)
             tmp == IF commaPos # NPos THEN SubSeq(s, posBegin, commaPos - 1)
                    ELSE SubSeq(s, posBegin, Len(s))
             next == IF commaPos # NPos THEN commaPos + 1 ELSE NPos
         IN  SplitFrom(s, c, next, IF tmp # <<>> THEN Append(ret, tmp) ELSE ret)

\* Split(ret_, strIn, sep) into an empty ret_: 0 pieces for an empty string,
\* otherwise the loop from the first character that is not sep.
Split(s, c) ==
    IF s = <<>> THEN <<>> ELSE SplitFrom(s, c, FindFirstNotOf(s, c), <<>>)

\* Mutant of FindStr: the search starts one past pos.
FindStrAfter(s, sep, pos) ==
    LET hits == {i \in pos + 1 .. Len(s) - Len(sep) + 1 : SubSeq(s, i, i + Len(sep) - 1) = sep}
    IN  IF hits = {} THEN NPos ELSE Min(hits)

\* string::find(sep, pos) for a string sep: the first position at or after
\* pos where sep occurs.
FindStr(s, sep, pos) ==
    LET hits == {i \in pos .. Len(s) - Len(sep) + 1 : SubSeq(s, i, i + Len(sep) - 1) = sep}
    IN  IF hits = {} THEN NPos ELSE Min(hits)

\* The while loop of Split(string sep): as SplitFrom, with the scan resuming
\* sep.length() past the separator.
RECURSIVE SplitStrFrom(_, _, _, _)
SplitStrFrom(s, sep, posBegin, ret) ==
    IF posBegin = NPos THEN ret
    ELSE LET commaPos == FindStr(s, sep, posBegin)
             tmp == IF commaPos # NPos THEN SubSeq(s, posBegin, commaPos - 1)
                    ELSE SubSeq(s, posBegin, Len(s))
             next == IF commaPos # NPos THEN commaPos + Len(sep) ELSE NPos
         IN  SplitStrFrom(s, sep, next, IF tmp # <<>> THEN Append(ret, tmp) ELSE ret)

\* Split(ret_, strIn, string sep): the loop starts at find_first_not_of(sep),
\* the first character that is none of sep's characters.
SplitStr(s, sep) ==
    IF s = <<>> THEN <<>> ELSE SplitStrFrom(s, sep, FirstIn(s, 1, Chars \ Range(sep)), <<>>)

\* strtol(str, &end, 10) with a long of lw bits: leading white space, an
\* optional sign, the longest run of digits.  No digits: 0 and end at the
\* start.  A value out of the long's range is clamped with errno = ERANGE.
\* end is the position of the first character not parsed.
Strtol(s, lw) ==
    LET ws == IF FirstIn(s, 1, Chars \ Space) = NPos THEN Len(s)
              ELSE FirstIn(s, 1, Chars \ Space) - 1
        signed == ws < Len(s) /\ s[ws + 1] \in {"+", "-"}
        d0 == ws + (IF signed THEN 2 ELSE 1)
        dEnd == IF FirstIn(s, d0, Chars \ Digits) = NPos THEN Len(s) + 1
                ELSE FirstIn(s, d0, Chars \ Digits)
        mag == FoldLeft(LAMBDA acc, d : 10 * acc + DigitValue(d), 0, SubSeq(s, d0, dEnd - 1))
        v == IF signed /\ s[ws + 1] = "-" THEN -mag ELSE mag
    IN  IF dEnd = d0 THEN [l |-> 0, erange |-> FALSE, end |-> 1]
        ELSE [l |-> IF v > LONG_MAX(lw) THEN LONG_MAX(lw)
                    ELSE IF v < LONG_MIN(lw) THEN LONG_MIN(lw) ELSE v,
              erange |-> v > LONG_MAX(lw) \/ v < LONG_MIN(lw),
              end |-> dEnd]

\* Mutant of StringToInt32: the errno == ERANGE halves of the range checks
\* are dropped, which only matters where long is as wide as int.
StringToInt32NoErange(s, lw) ==
    LET r == Strtol(s, lw)
    IN  IF s = <<>> THEN [ok |-> FALSE, out |-> 0]
        ELSE IF r.l > INT_MAX \/ r.l < INT_MIN \/ r.end <= Len(s)
             THEN [ok |-> FALSE, out |-> 0]
        ELSE [ok |-> TRUE, out |-> r.l]

\* StringToInt32(str, out): out = 0; false for an empty string, a value
\* over INT_MAX (or a clamped LONG_MAX), under INT_MIN (or a clamped
\* LONG_MIN), or characters left after the number; else out = l.
StringToInt32(s, lw) ==
    LET r == Strtol(s, lw)
    IN  IF s = <<>> THEN [ok |-> FALSE, out |-> 0]
        ELSE IF r.l > INT_MAX \/ (r.erange /\ r.l = LONG_MAX(lw)) THEN [ok |-> FALSE, out |-> 0]
        ELSE IF r.l < INT_MIN \/ (r.erange /\ r.l = LONG_MIN(lw)) THEN [ok |-> FALSE, out |-> 0]
        ELSE IF r.end <= Len(s) THEN [ok |-> FALSE, out |-> 0]
        ELSE [ok |-> TRUE, out |-> r.l]

\* Mutant of StringToInt64: the ERANGE check is dropped.
StringToInt64NoErange(s, lw) ==
    LET r == Strtol(s, LongLongWidth)
    IN  IF r.end = 1 \/ r.end <= Len(s) THEN [ok |-> FALSE, val |-> r.l]
        ELSE [ok |-> TRUE, val |-> r.l]

\* StringToInt64(str, val): val = strtoll(str, &endptr, 10); false when
\* errno is ERANGE and val is LONG_MAX or LONG_MIN (of the long of lw bits,
\* not of long long), when errno is set and val is 0, when no digit was
\* read (endptr at the start) or when characters are left after the number.
StringToInt64(s, lw) ==
    LET r == Strtol(s, LongLongWidth)
    IN  IF r.erange /\ r.l \in {LONG_MAX(lw), LONG_MIN(lw)} THEN [ok |-> FALSE, val |-> r.l]
        ELSE IF r.erange /\ r.l = 0 THEN [ok |-> FALSE, val |-> r.l]
        ELSE IF r.end = 1 \/ r.end <= Len(s) THEN [ok |-> FALSE, val |-> r.l]
        ELSE [ok |-> TRUE, val |-> r.l]

\* A conversion to a signed integer type of w bits: modulo 2^w (gcc).
ToWidth(v, w) == ((v + 2^(w - 1)) % 2^w) - 2^(w - 1)

\* size_t arithmetic, scaled: npos is its largest value, and npos + 1 wraps
\* to 0.
SizeMod == 2^16
NPOS_T == SizeMod - 1

\* Mutant of Trim: the first erase, of the leading blanks, is left out.
TrimRightOnly(s) ==
    LET lastNot == LET hits == {i \in 1 .. Len(s) : s[i] # " "}
                   IN  IF hits = {} THEN NPOS_T ELSE Max(hits) - 1
    IN  SubSeq(s, 1, (lastNot + 1) % SizeMod)

\* Trim(str): erase(0, find_first_not_of(' ')) removes the leading blanks
\* (all of them, npos, for a blank string); erase(find_last_not_of(' ') + 1)
\* keeps up to the last non-blank, where npos + 1 wraps to 0.
Trim(s) ==
    LET first == FirstIn(s, 1, Chars \ {" "})
        s1 == IF first = NPos THEN <<>> ELSE SubSeq(s, first, Len(s))
        lastNot == LET hits == {i \in 1 .. Len(s1) : s1[i] # " "}
                   IN  IF hits = {} THEN NPOS_T ELSE Max(hits) - 1
    IN  SubSeq(s1, 1, (lastNot + 1) % SizeMod)

HexStr == <<"0", "1", "2", "3", "4", "5", "6", "7", "8", "9", "A", "B", "C", "D", "E", "F">>

\* Mutant of Bytes2String: the two hex digits of a byte in swapped order.
Bytes2StringSwapped(bs) ==
    FoldLeft(LAMBDA acc, b : acc \o <<HexStr[(b % 16) + 1], HexStr[((b \div 16) % 16) + 1]>>,
             <<>>, bs)

\* bytes2string(bytes, len): empty for no bytes; else per byte
\* hex_str[(bytes[i] >> 4) & 0x0F] and hex_str[bytes[i] & 0x0F].  A
\* negative char shifts arithmetically (floor division by 16), and the
\* mask keeps the low four bits.
Bytes2String(bs) ==
    FoldLeft(LAMBDA acc, b : acc \o <<HexStr[((b \div 16) % 16) + 1], HexStr[(b % 16) + 1]>>,
             <<>>, bs)

Localhost == <<"l", "o", "c", "a", "l", "h", "o", "s", "t">>
Loopback == <<"1", "2", "7", ".", "0", ".", "0", ".", "1">>

\* Mutant of SplitURL: a port of 0 is not refused.
SplitURLNoZeroCheck(s, lw) ==
    LET pos == FirstIn(s, 1, {":"})
        addr == SubSeq(s, 1, pos - 1)
        nPort == ToWidth(ToWidth(Strtol(SubSeq(s, pos + 1, Len(s)), lw).l, IntWidth), ShortWidth)
    IN  IF pos = NPos THEN [ok |-> FALSE, addr |-> <<>>, port |-> 0]
        ELSE [ok |-> TRUE, addr |-> IF addr = Localhost THEN Loopback ELSE addr,
              port |-> nPort]

\* SplitURL(serverURL, addr, nPort) with a long of lw bits: false without a
\* ':'; addr is the text before the first ':' ("localhost" becomes
\* 127.0.0.1), nPort = atoi(the rest), that is (int)strtol, stored in a
\* short; false if nPort is 0.
SplitURL(s, lw) ==
    LET pos == FirstIn(s, 1, {":"})
        addr == SubSeq(s, 1, pos - 1)
        nPort == ToWidth(ToWidth(Strtol(SubSeq(s, pos + 1, Len(s)), lw).l, IntWidth), ShortWidth)
    IN  IF pos = NPos THEN [ok |-> FALSE, addr |-> <<>>, port |-> 0]
        ELSE [ok |-> nPort # 0, addr |-> IF addr = Localhost THEN Loopback ELSE addr,
              port |-> nPort]

VARIABLES str, longWidth
vars == <<str, longWidth>>

\* Every string up to MaxLen, on every platform.
Init == str \in Strings /\ longWidth \in LongWidths

\* The helpers are pure functions: nothing changes.
Next == UNCHANGED vars

Spec == Init /\ [][Next]_vars

-----------------------------------------------------------------------------
(***************************************************************************)
(* Reference definitions                                                   *)
(***************************************************************************)

\* The pieces of s between separators c: its maximal runs of other
\* characters, in order.
SplitSpec(s, c) ==
    LET starts == {i \in 1 .. Len(s) : s[i] # c /\ (i = 1 \/ s[i - 1] = c)}
        PieceAt(i) == LET stop == {j \in i .. Len(s) : s[j] = c}
                      IN  SubSeq(s, i, IF stop = {} THEN Len(s) ELSE Min(stop) - 1)
    IN  [k \in 1 .. Cardinality(starts) |-> PieceAt(SetToSortSeq(starts, <)[k])]

\* The value of a non-empty digit string, most significant digit first.
RECURSIVE Number(_)
Number(ds) == IF ds = <<>> THEN 0 ELSE 10 * Number(Front(ds)) + DigitValue(Last(ds))

\* The ways s reads as a decimal int as the function promises to read it:
\* blanks, an optional sign, one or more digits and nothing after them.
Numerals(s) ==
    {n \in {<<SubSeq(s, 1, k), SubSeq(s, k + 1, j), SubSeq(s, j + 1, Len(s))>> :
              k \in 0 .. Len(s), j \in 0 .. Len(s)} :
        /\ n[1] \in Seq(Space)
        /\ n[2] \in {<<>>, <<"+">>, <<"-">>}
        /\ n[3] # <<>> /\ n[3] \in Seq(Digits)
        /\ n[1] \o n[2] \o n[3] = s}
NumeralValue(n) == IF n[2] = <<"-">> THEN -Number(n[3]) ELSE Number(n[3])

-----------------------------------------------------------------------------
(***************************************************************************)
(* Properties                                                              *)
(***************************************************************************)

\* Split keeps exactly the non-empty pieces between separators, in order:
\* leading, trailing and doubled separators yield no empty strings.
SplitAgreesWithSpec ==
    \A c \in Chars : Split(str, c) = SplitSpec(str, c)

\* StringToInt32 accepts exactly the decimal numerals within int's range,
\* and gives their value, on every width of long; a value that overflows
\* the long itself is clamped by strtol to LONG_MAX or LONG_MIN, which is
\* INT_MAX or INT_MIN where long is as wide as int.
StringToInt32AgreesWithSpec ==
    LET r == StringToInt32(str, longWidth)
        parses == Numerals(str)
    IN  IF \E n \in parses : NumeralValue(n) \in INT_MIN .. INT_MAX
        THEN r = [ok |-> TRUE, out |-> NumeralValue(CHOOSE n \in parses : TRUE)]
        ELSE r = [ok |-> FALSE, out |-> 0]


\* Split with a one-character string separator gives the pieces the char
\* overload gives: the search by substring, the skip by sep.length() and
\* the first-not-of start agree for a single character.
SplitStrAgreesWithSplit ==
    \A c \in Chars : SplitStr(str, <<c>>) = Split(str, c)

\* Where long is as wide as long long (LP64), StringToInt64 accepts exactly
\* the decimal numerals within long long's range and gives their value; a
\* numeral past the range makes strtoll clamp and set ERANGE, and fails.
StringToInt64AgreesWithSpec ==
    longWidth = LongLongWidth =>
        LET r == StringToInt64(str, longWidth)
            parses == Numerals(str)
        IN  /\ r.ok = \E n \in parses : NumeralValue(n) \in LONG_MIN(LongLongWidth) .. LONG_MAX(LongLongWidth)
            /\ r.ok => r.val = NumeralValue(CHOOSE n \in parses : TRUE)

\* Trim removes exactly the leading and trailing blanks: a blank string
\* becomes empty through npos + 1 wrapping to 0.
TrimAgreesWithSpec ==
    Trim(str) = LET nonBlank == {i \in 1 .. Len(str) : str[i] # " "}
                IN  IF nonBlank = {} THEN <<>> ELSE SubSeq(str, Min(nonBlank), Max(nonBlank))

\* bytes2string writes each byte as two upper-case hex digits of its
\* unsigned value, high digit first, for negative chars too.
Bytes2StringAgreesWithSpec ==
    \A bs \in SeqOf(Bytes, 2) :
        Bytes2String(bs) =
            [i \in 1 .. 2 * Len(bs) |->
                LET u == bs[(i + 1) \div 2] % 256
                IN  HexStr[(IF i % 2 = 1 THEN u \div 16 ELSE u % 16) + 1]]

\* SplitURL accepts "host:port" with the host before the first ':' and
\* the port as written, when the port is a decimal numeral from 1 to
\* SHRT_MAX, and refuses it for port 0 or no ':'.
SplitURLAgreesWithSpec ==
    LET r == SplitURL(str, longWidth)
        pos == FirstIn(str, 1, {":"})
        parses == Numerals(SubSeq(str, pos + 1, Len(str)))
    IN  /\ pos = NPos => ~r.ok
        /\ pos # NPos /\ parses # {} /\ NumeralValue(CHOOSE n \in parses : TRUE) \in 0 .. 2^(ShortWidth - 1) - 1 =>
              /\ r.ok = (NumeralValue(CHOOSE n \in parses : TRUE) # 0)
              /\ r.ok => r.port = NumeralValue(CHOOSE n \in parses : TRUE) /\ r.addr = SubSeq(str, 1, pos - 1)
=============================================================================
