----------------------------- MODULE Validators -----------------------------
(***************************************************************************)
(* common/Validators.cpp: checkTopic, checkGroup and checkMessage, which   *)
(* throw MQClientException for a name or message the broker would refuse, *)
(* with UtilAll::isBlank.  A check's outcome is "ok" or the reason it      *)
(* throws.  A name is a sequence of one-character strings.  The 255-       *)
(* character limit (CHARACTER_MAX_LENGTH) is the constant NameMax, scaled  *)
(* down so that names at and past the limit are among the names checked.   *)
(* The default topic TBW102 is the constant DefaultTopic.                  *)
(***************************************************************************)
EXTENDS Integers, Sequences, SequencesExt

CONSTANTS
    Chars,         \* the characters names are made of
    MaxLen,        \* bound: longest name checked
    NameMax,       \* CHARACTER_MAX_LENGTH, scaled down
    DefaultTopic,  \* DEFAULT_TOPIC
    BodyMax        \* bound: longest message body; maxMessageSize ranges below it

ASSUME NameMax \in Nat /\ MaxLen > NameMax /\ BodyMax \in Nat \ {0}

\* UtilAll.h's WHITESPACE (" \t\r\n") and validPatternStr's character class
\* ^[a-zA-Z0-9_-]+$ (both restricted to Chars).
WhiteSpace == {" ", "\t", "\r", "\n"}
PatternChars == {"a", "b", "Z", "0", "9", "_", "-"}

\* UtilAll::isBlank: empty, or no character outside WHITESPACE.
IsBlank(s) == \A i \in 1 .. Len(s) : s[i] \in WhiteSpace

\* regularExpressionMatcher(origin, patternStr) with the validPatternStr
\* pattern: false for a blank origin, and otherwise true; the match itself
\* is commented out.
RegularExpressionMatcher(s) == ~IsBlank(s)

\* Mutant of CheckTopic: the length check counts the limit itself as too
\* long.
CheckTopicAtLimit(s) ==
    IF IsBlank(s) THEN "blank"
    ELSE IF Len(s) >= NameMax THEN "too long"
    ELSE IF s = DefaultTopic THEN "default topic"
    ELSE IF ~RegularExpressionMatcher(s) THEN "illegal characters"
    ELSE "ok"

\* checkTopic: blank, then longer than CHARACTER_MAX_LENGTH, then the
\* default topic, then the pattern.
CheckTopic(s) ==
    IF IsBlank(s) THEN "blank"
    ELSE IF Len(s) > NameMax THEN "too long"
    ELSE IF s = DefaultTopic THEN "default topic"
    ELSE IF ~RegularExpressionMatcher(s) THEN "illegal characters"
    ELSE "ok"

\* checkGroup: blank, then the pattern, then the length.
CheckGroup(s) ==
    IF IsBlank(s) THEN "blank"
    ELSE IF ~RegularExpressionMatcher(s) THEN "illegal characters"
    ELSE IF Len(s) > NameMax THEN "too long"
    ELSE "ok"

\* checkMessage(msg, maxMessageSize): the topic, then an empty body, then a
\* body longer than maxMessageSize.
CheckMessage(topic, bodyLen, maxMessageSize) ==
    IF CheckTopic(topic) # "ok" THEN CheckTopic(topic)
    ELSE IF bodyLen = 0 THEN "empty body"
    ELSE IF bodyLen > maxMessageSize THEN "body too large"
    ELSE "ok"

VARIABLES name, bodyLen, maxSize
vars == <<name, bodyLen, maxSize>>

\* Every name up to MaxLen characters, every body up to BodyMax bytes and
\* every limit below it.
Init ==
    /\ name \in SeqOf(Chars, MaxLen)
    /\ bodyLen \in 0 .. BodyMax
    /\ maxSize \in 1 .. BodyMax - 1

\* The checks are pure functions: nothing changes.
Next == UNCHANGED vars

Spec == Init /\ [][Next]_vars

-----------------------------------------------------------------------------
(***************************************************************************)
(* Reference definitions: the rules as spec section 3 and validPatternStr  *)
(* state them.                                                             *)
(***************************************************************************)

\* A name the broker accepts: one or more pattern characters, at most
\* CHARACTER_MAX_LENGTH of them.
ValidName(s) ==
    /\ Len(s) \in 1 .. NameMax
    /\ \A i \in 1 .. Len(s) : s[i] \in PatternChars

-----------------------------------------------------------------------------
(***************************************************************************)
(* Properties                                                              *)
(***************************************************************************)

\* checkTopic, checkGroup and checkMessage accept every valid name (other
\* than the default topic, for a topic) and every message with a valid
\* topic and a body of 1 to maxMessageSize bytes, up to and including the
\* limits; the stubbed matcher makes the checks too lenient, never too
\* strict.
AcceptsEveryValidName ==
    ValidName(name) =>
        /\ CheckGroup(name) = "ok"
        /\ name # DefaultTopic =>
              /\ CheckTopic(name) = "ok"
              /\ CheckMessage(name, bodyLen, maxSize) =
                    IF bodyLen \in 1 .. maxSize THEN "ok"
                    ELSE IF bodyLen = 0 THEN "empty body" ELSE "body too large"
=============================================================================
