-------------------------- MODULE MessageQueueOrder --------------------------
(***************************************************************************)
(* MessageQueue identity and order (protocol/MessageQueue.cpp): the key of *)
(* every std::map the client keeps per queue (offset tables, request       *)
(* tables, process queues).  compareTo compares topic, then brokerName     *)
(* (std::string::compare, whose sign is the lexicographic order), then     *)
(* returns m_queueId - mq.m_queueId in an int; operator< is          *)
(* compareTo(mq) < 0.  A signed overflow in the subtraction is undefined:  *)
(* a build either wraps it (two's complement) or, with compareTo inlined   *)
(* into operator<, folds (a - b) < 0 into a < b.  The comparator is        *)
(* checked against the order the spec states, over all triples of queues   *)
(* drawn from a small domain.                                              *)
(***************************************************************************)
EXTENDS Integers, Sequences

CONSTANTS
    Names,      \* topic and broker names, in lexicographic order (a sequence)
    QueueIds,   \* queue ids the domain draws from
    IntWidth    \* bits of a C++ int (32; TLC's own integers are 32-bit, so
                \* the models run it narrower, where the wrap is the same)

ASSUME IntWidth \in 2 .. 30

\* The set of names and the sign-preserving result of std::string::compare.
NameSet == {Names[i] : i \in 1 .. Len(Names)}
Rank(s) == CHOOSE i \in 1 .. Len(Names) : Names[i] = s
StrCompare(s, t) == Rank(s) - Rank(t)

\* A C++ int: IntWidth-bit two's complement.
IntMin == -(2^(IntWidth - 1))
IntMax == 2^(IntWidth - 1) - 1
Int32(v) == ((v - IntMin) % 2^IntWidth) + IntMin

MessageQueues == [topic : NameSet, brokerName : NameSet, queueId : QueueIds]

\* Mutant of CompareTo: the queue-id operands are swapped.
CompareToSwapped(a, b) ==
    IF StrCompare(a.topic, b.topic) # 0 THEN StrCompare(a.topic, b.topic)
    ELSE IF StrCompare(a.brokerName, b.brokerName) # 0
         THEN StrCompare(a.brokerName, b.brokerName)
    ELSE Int32(b.queueId - a.queueId)

\* compareTo(mq) with the subtraction wrapped to the int width.
CompareTo(a, b) ==
    IF StrCompare(a.topic, b.topic) # 0 THEN StrCompare(a.topic, b.topic)
    ELSE IF StrCompare(a.brokerName, b.brokerName) # 0
         THEN StrCompare(a.brokerName, b.brokerName)
    ELSE Int32(a.queueId - b.queueId)

\* operator<: compareTo(mq) < 0, or, when the build folds the inlined
\* subtraction into a comparison, the queue ids compared directly.
Less(a, b, folded) ==
    IF folded /\ a.topic = b.topic /\ a.brokerName = b.brokerName
    THEN a.queueId < b.queueId
    ELSE CompareTo(a, b) < 0

\* operator==: brokerName, queueId and topic all equal.
Equal(a, b) ==
    a.brokerName = b.brokerName /\ a.queueId = b.queueId /\ a.topic = b.topic

\* Spec section 3: queues ordered lexicographically by (topic, brokerName,
\* queueId).
SpecLess(a, b) ==
    \/ Rank(a.topic) < Rank(b.topic)
    \/ a.topic = b.topic /\ Rank(a.brokerName) < Rank(b.brokerName)
    \/ a.topic = b.topic /\ a.brokerName = b.brokerName /\ a.queueId < b.queueId

VARIABLES x, y, z, folded
vars == <<x, y, z, folded>>

\* Every triple of queues and either outcome of the overflow.
Init ==
    /\ x \in MessageQueues /\ y \in MessageQueues /\ z \in MessageQueues
    /\ folded \in BOOLEAN

\* The comparator is a pure function: nothing changes.
Next == UNCHANGED vars

Spec == Init /\ [][Next]_vars

-----------------------------------------------------------------------------
\* Spec section 3: operator< is the lexicographic order of (topic,
\* brokerName, queueId), so std::map sees a strict total order whose
\* equivalence is operator==.  compareTo's int subtraction of queue ids is
\* what could make it disagree.
OrderAgreesWithSpec ==
    /\ Less(x, y, folded) <=> SpecLess(x, y)
    /\ (~Less(x, y, folded) /\ ~Less(y, x, folded)) <=> Equal(x, y)
    /\ Less(x, y, folded) /\ Less(y, z, folded) => Less(x, z, folded)

=============================================================================
