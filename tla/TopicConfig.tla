---------------------------- MODULE TopicConfig ----------------------------
(***************************************************************************)
(* common/TopicConfig.cpp: a topic's name, read and write queue counts,    *)
(* permission and filter type, and their text form: encode() writes the   *)
(* five fields with operator<< separated by SEPARATOR (" "); decode()      *)
(* reads them back with operator>> from a stringstream.  Text is a         *)
(* sequence of one-character strings.  operator>> into a string skips      *)
(* white space and reads up to the next white space; into an int it skips *)
(* white space and reads an optional sign and digits, and on failure sets  *)
(* failbit and stores 0; but when only white space is left its sentry      *)
(* fails and it stores nothing.  Once an extraction has failed, or one     *)
(* has reached the end, every later one leaves its target alone.           *)
(***************************************************************************)
EXTENDS Integers, Sequences, SequencesExt

CONSTANTS
    NameChars,    \* the characters topic names are made of
    MaxNameLen,   \* bound: longest topic name
    QueueNums,    \* queue counts
    Perms,        \* permission bit sets
    FilterTypes   \* SINGLE_TAG (0), MULTI_TAG (1)

Separator == <<" ">>
Space == {" ", "\t", "\n", "\r"}   \* isspace (vertical tab and form feed left out)
DigitChars == {"0", "1", "2", "3", "4", "5", "6", "7", "8", "9"}
DigitOf(d) == CHOOSE v \in 0 .. 9 : ToString(v) = d

Configs ==
    [name : SeqOf(NameChars, MaxNameLen), read : QueueNums, write : QueueNums,
     perm : Perms, filter : FilterTypes]

\* The text operator<< writes for an int: a minus sign for a negative
\* value, then the decimal digits.
RECURSIVE DecimalText(_)
DecimalText(n) ==
    IF n < 10 THEN <<ToString(n)>> ELSE DecimalText(n \div 10) \o <<ToString(n % 10)>>
IntText(n) == IF n < 0 THEN <<"-">> \o DecimalText(-n) ELSE DecimalText(n)

\* Mutant of Encode: no separator between the two queue counts.
EncodeJoined(c) ==
    c.name \o Separator \o IntText(c.read) \o IntText(c.write)
        \o Separator \o IntText(c.perm) \o Separator \o IntText(c.filter)

\* encode(): the fields in order, separated by SEPARATOR.
Encode(c) ==
    c.name \o Separator \o IntText(c.read) \o Separator \o IntText(c.write)
        \o Separator \o IntText(c.perm) \o Separator \o IntText(c.filter)

\* The first position at or after pos whose character is not in S, or one
\* past the end.
SkipOver(s, pos, S) ==
    LET hits == {i \in pos .. Len(s) : s[i] \notin S}
    IN  IF hits = {} THEN Len(s) + 1 ELSE Min(hits)

\* The first position at or after pos whose character is in S, or one past
\* the end.
SkipTo(s, pos, S) ==
    LET hits == {i \in pos .. Len(s) : s[i] \in S}
    IN  IF hits = {} THEN Len(s) + 1 ELSE Min(hits)

\* operator>>(string&) at pos: [ok, val, pos]; no word fails.
ReadWord(s, pos) ==
    LET b == SkipOver(s, pos, Space)
        e == SkipTo(s, b, Space)
    IN  IF b > Len(s) THEN [ok |-> FALSE, val |-> <<>>, pos |-> b]
        ELSE [ok |-> TRUE, val |-> SubSeq(s, b, e - 1), pos |-> e]

\* operator>>(int&) at pos: [ok, eof, val, pos]; eof: only white space is
\* left, the sentry fails and nothing is stored; otherwise no digits after
\* the optional sign fails with the value 0.
ReadInt(s, pos) ==
    LET b == SkipOver(s, pos, Space)
        signed == b <= Len(s) /\ s[b] \in {"+", "-"}
        d0 == IF signed THEN b + 1 ELSE b
        e == SkipOver(s, d0, DigitChars)
        mag == FoldLeft(LAMBDA acc, d : 10 * acc + DigitOf(d), 0, SubSeq(s, d0, e - 1))
    IN  IF e = d0 THEN [ok |-> FALSE, eof |-> b > Len(s), val |-> 0, pos |-> e]
        ELSE [ok |-> TRUE, eof |-> FALSE,
              val |-> IF signed /\ s[b] = "-" THEN -mag ELSE mag, pos |-> e]

\* decode(in) into the config old: each extraction in turn; once one has
\* failed the later ones leave their field as it was, and so does one that
\* finds only white space.  The local int type is then uninitialized, and
\* the filter type read from it is any of FilterTypes (the value the build
\* leaves in it).
Decode(s, old) ==
    LET n == ReadWord(s, 1)
        r == ReadInt(s, n.pos)
        w == ReadInt(s, r.pos)
        p == ReadInt(s, w.pos)
        t == ReadInt(s, p.pos)
        name == IF n.ok THEN n.val ELSE old.name
        read == IF n.ok /\ ~r.eof THEN r.val ELSE old.read
        write == IF n.ok /\ r.ok /\ ~w.eof THEN w.val ELSE old.write
        perm == IF n.ok /\ r.ok /\ w.ok /\ ~p.eof THEN p.val ELSE old.perm
    IN  {[name |-> name, read |-> read, write |-> write, perm |-> perm,
          filter |-> f] :
            f \in IF n.ok /\ r.ok /\ w.ok /\ p.ok /\ ~t.eof THEN {t.val} ELSE FilterTypes}

VARIABLES config
vars == <<config>>

\* The three constructors: every config of the bounded sets, the default
\* one's empty name, 16/16 queues, PERM_READ|PERM_WRITE and SINGLE_TAG
\* among them.
Init == config \in Configs

\* setTopicName, setReadQueueNums, setWriteQueueNums, setPerm,
\* setTopicFilterType: one field replaced.
Set == \E c \in Configs, f \in DOMAIN config : config' = [config EXCEPT ![f] = c[f]]

\* decode(in) of the text another config's encode() wrote.
DecodeEncoded == \E c \in Configs : config' \in Decode(Encode(c), config)

Next == Set \/ DecodeEncoded

Spec == Init /\ [][Next]_vars

-----------------------------------------------------------------------------
(***************************************************************************)
(* Properties                                                              *)
(***************************************************************************)

\* decode(encode()) gives back the config, into any config the decoding
\* object held before, for every topic name made of characters the name
\* pattern allows (a name with white space, or the empty name of the
\* default constructor, does not survive).
DecodeInvertsEncode ==
    (config.name # <<>> /\ \A i \in 1 .. Len(config.name) : config.name[i] \notin Space)
        => \A old \in Configs : Decode(Encode(config), old) = {config}
=============================================================================
