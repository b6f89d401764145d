------------------------------ MODULE MC_Units -------------------------------
(***************************************************************************)
(* One model-checking run for the client's smaller units: the value-level  *)
(* code (the MessageQueue order, TopicRouteData decoding, the UtilAll      *)
(* string helpers, the Validators checks, TopicConfig's text form), the two *)
(* example programs and the TaskQueue of the pull thread pool.  They share *)
(* no state: part picks which one a behaviour explores, from all of that   *)
(* part's initial states, while the variables of the others stay at a      *)
(* fixed value.  Each property is stated for its own part.                 *)
(***************************************************************************)
EXTENDS Integers, TLC

CONSTANTS q1, q2, Absent, a, b, c, l1, l2

VARIABLES
    part,
    x, y, z, folded,                     \* MessageQueueOrder
    doc, relisted,                       \* TopicRoute
    str, longWidth,                      \* UtilAll
    minOff, maxOff, offsetTable, pending, cur, pc, status, msgCount, found,
                                         \* PullConsumerExample
    ring, pubSeq, consSeq, unproduced, publishing, posted, runs, flag, ioStopped, alert,
    runPc, closeIdx,                     \* TaskQueue
    mainPc, sent, stored, redelivered, consumed, quit, waiting, lpc, lleft,
                                         \* OrderlyPushConsumerExample
    name, bodyLen, maxSize,              \* Validators
    config                               \* TopicConfig

\* The queue ids the broker hands out (0 .. readQueueNums-1) and the -1 of a
\* default-constructed MessageQueue; an int of 16 bits.
MQ == INSTANCE MessageQueueOrder
        WITH Names <- <<"BrokerA", "TopicB">>, QueueIds <- {-1, 0, 1, 2},
             IntWidth <- 16

\* Every route of two brokers, each with a master and a slave address.
TR == INSTANCE TopicRoute
        WITH Names <- <<"broker-a", "broker-b">>,
             Addrs <- {"10.0.0.1:10911", "10.0.0.2:10911"},
             BrokerIds <- {0, 1}, QueueNums <- {4, 8}, Perms <- {6}, Confs <- {""}

\* Strings of up to four characters with a blank, both signs, digits, a
\* separator and a colon; an int of 5 bits, a long as wide or twice as
\* wide, a short of 3 bits; chars at both ends of the signed range, around
\* 0 and at a nibble boundary.
UT == INSTANCE UtilAll
        WITH Chars <- {" ", "-", "+", "0", "1", "9", ",", ":"}, MaxLen <- 4,
             IntWidth <- 5, LongWidths <- {5, 10}, ShortWidth <- 3,
             Bytes <- {-128, -17, -1, 0, 9, 16, 127}

\* Two queues, three offsets each, pulls of up to two messages.
PC == INSTANCE PullConsumerExample
        WITH Queues <- {q1, q2}, MaxOffset <- 3, PullBatch <- 2

\* Three tasks through a ring of two slots, so a slot is reused while the
\* handler posted for it may still be waiting.
TQ == INSTANCE TaskQueue WITH Tasks <- {a, b, c}, RingSize <- 2

\* Two messages, two consume threads, batches of two, one redelivery.
OX == INSTANCE OrderlyPushConsumerExample
        WITH MsgCount <- 2, MaxBatch <- 2, Listeners <- {l1, l2}, MaxRedeliver <- 1

\* Names of up to three characters, with a blank and a character outside
\* the name pattern, against a length limit of two; bodies up to three
\* bytes against limits of one and two.
VA == INSTANCE Validators
        WITH Chars <- {"a", "-", " ", "#"}, MaxLen <- 3, NameMax <- 2,
             DefaultTopic <- <<"a", "-">>, BodyMax <- 3

\* Names of up to two characters with a blank, negative, zero and
\* two-digit queue counts, the default permission, both filter types.
TC == INSTANCE TopicConfig
        WITH NameChars <- {"a", "-", " "}, MaxNameLen <- 2,
             QueueNums <- {-1, 0, 16}, Perms <- {6}, FilterTypes <- {0, 1}

mqVars == <<x, y, z, folded>>
trVars == <<doc, relisted>>
utVars == <<str, longWidth>>
pcVars == <<minOff, maxOff, offsetTable, pending, cur, pc, status, msgCount, found>>
tqVars == <<ring, pubSeq, consSeq, unproduced, publishing, posted, runs, flag, ioStopped,
           alert, runPc, closeIdx>>
oxVars == <<mainPc, sent, stored, redelivered, consumed, quit, waiting, lpc, lleft>>
vaVars == <<name, bodyLen, maxSize>>
vars == <<part, mqVars, trVars, utVars, pcVars, tqVars, oxVars, vaVars, config>>

Parts == {"order", "route", "util", "pull", "tasks", "example", "validate", "config"}

\* The fixed values of the parts a behaviour does not explore: the pull
\* loop's and the orderly example's are the programs after they have ended,
\* the task queue's its initial state, in which nothing is enabled until a
\* task is produced.
MQIdle == /\ x = [topic |-> "TopicB", brokerName |-> "BrokerA", queueId |-> 0]
          /\ y = x /\ z = x /\ folded = FALSE
TRIdle == doc = [orderTopicConf |-> "", queueDatas |-> <<>>, brokerDatas |-> <<>>] /\ relisted = doc
UTIdle == str = <<>> /\ longWidth = 5
VAIdle == name = <<>> /\ bodyLen = 0 /\ maxSize = 1
TCIdle == config = [name |-> <<>>, read |-> 0, write |-> 0, perm |-> 6, filter |-> 0]
PCIdle == /\ minOff = [q \in {q1, q2} |-> 0] /\ maxOff = [q \in {q1, q2} |-> 0]
          /\ offsetTable = [q \in {q1, q2} |-> Absent] /\ pending = {}
          /\ cur = q1 /\ pc = "done" /\ status = "none" /\ msgCount = 0 /\ found = {}

OXIdle == /\ mainPc = "exit" /\ sent = 2 /\ stored = 0 /\ redelivered = 0
          /\ consumed = 0 /\ quit = FALSE /\ waiting = FALSE
          /\ lpc = [l \in {l1, l2} |-> "idle"] /\ lleft = [l \in {l1, l2} |-> 0]

Init ==
    /\ part \in Parts
    /\ IF part = "order" THEN MQ!Init ELSE MQIdle
    /\ IF part = "route" THEN TR!Init ELSE TRIdle
    /\ IF part = "util" THEN UT!Init ELSE UTIdle
    /\ IF part = "pull" THEN PC!Init ELSE PCIdle
    /\ TQ!Init
    /\ IF part = "example" THEN OX!Init ELSE OXIdle
    /\ IF part = "validate" THEN VA!Init ELSE VAIdle
    /\ IF part = "config" THEN TC!Init ELSE TCIdle

\* The value parts only stutter; the pull loop, the task queue, the
\* orderly example and a TopicConfig object run in their own parts.
Next ==
    \/ part = "pull" /\ PC!Next /\ UNCHANGED <<part, mqVars, trVars, utVars, tqVars, oxVars, vaVars, config>>
    \/ part = "tasks" /\ TQ!Next /\ UNCHANGED <<part, mqVars, trVars, utVars, pcVars, oxVars, vaVars, config>>
    \/ part = "example" /\ OX!Next /\ UNCHANGED <<part, mqVars, trVars, utVars, pcVars, tqVars, vaVars, config>>
    \/ part = "config" /\ TC!Next /\ UNCHANGED <<part, mqVars, trVars, utVars, pcVars, tqVars, oxVars, vaVars>>
    \/ part \notin {"pull", "tasks", "example", "config"} /\ UNCHANGED vars

\* In the idle value of a part none of its fair actions is enabled.
Spec == Init /\ [][Next]_vars /\ PC!Fairness /\ TQ!Fairness /\ OX!Fairness

-----------------------------------------------------------------------------
\* Spec section 3: MessageQueue::operator< is the lexicographic order of
\* (topic, brokerName, queueId), a strict total order for std::map, though
\* compareTo subtracts queue ids in an int.
OrderAgreesWithSpec == part = "order" => MQ!OrderAgreesWithSpec

\* TopicRouteData::Decode sorts both lists, so two listings of one route
\* decode to routes operator== calls equal.
DecodeIgnoresListOrder == part = "route" => TR!DecodeIgnoresListOrder

\* selectBrokerAddr finds a master address whenever some broker has one.
SelectsAMaster == part = "route" => TR!SelectsAMaster

\* UtilAll::Split keeps exactly the non-empty pieces between separators.
SplitAgreesWithSpec == part = "util" => UT!SplitAgreesWithSpec

\* UtilAll::StringToInt32 accepts exactly the decimal numerals in int's
\* range, whatever the width of long.
StringToInt32AgreesWithSpec == part = "util" => UT!StringToInt32AgreesWithSpec

\* UtilAll::Split with a one-character string separator agrees with the
\* char overload.
SplitStrAgreesWithSplit == part = "util" => UT!SplitStrAgreesWithSplit

\* UtilAll::Trim removes exactly the leading and trailing blanks.
TrimAgreesWithSpec == part = "util" => UT!TrimAgreesWithSpec

\* UtilAll::bytes2string gives the hex digits of each byte's unsigned
\* value, negative chars included.
Bytes2StringAgreesWithSpec == part = "util" => UT!Bytes2StringAgreesWithSpec

\* UtilAll::SplitURL splits "host:port" and keeps a port from 1 to
\* SHRT_MAX as written.
SplitURLAgreesWithSpec == part = "util" => UT!SplitURLAgreesWithSpec

\* UtilAll::StringToInt64 accepts exactly the decimal numerals in long
\* long's range where long is 64 bits wide.
StringToInt64AgreesWithSpec == part = "util" => UT!StringToInt64AgreesWithSpec

\* The pull example's stored offset never passes a message that was
\* neither pulled nor deleted by retention.
NoMessageSkipped == part = "pull" => PC!NoMessageSkipped

\* The pull example's g_msgCount counts every pulled message once.
NoMessageCountedTwice == part = "pull" => PC!NoMessageCountedTwice

\* The pull example's loop ends, though pulls time out or throw.
LoopTerminates == PC!LoopTerminates

\* The task queue's variables keep their types.
TypeOK == TQ!TypeOK

\* Each published task runs at most once, and only published tasks run,
\* although a producer reuses a ring slot before the handler OnEvent
\* posted for it has run.
EachTaskRunsOnce == TQ!EachTaskRunsOnce

\* A published task is run, unless close() stops the io_service first.
PublishedEventuallyRun == TQ!PublishedEventuallyRun

\* After close() returns, the thread in TaskQueue::run() leaves its loop.
RunExitsAfterClose == TQ!RunExitsAfterClose

\* A producer in TaskQueue::produce() returns and releases m_publishLock
\* unless run() has left its loop, after which a full ring is never freed.
ProducerReturns == TQ!ProducerReturns

\* The orderly example's main returns only after its listener has counted
\* g_msgCount messages, though its wait may end spuriously.
ExitOnlyAfterAllCounted == part = "example" => OX!ExitOnlyAfterAllCounted

\* checkTopic, checkGroup and checkMessage accept every name the pattern
\* ^[a-zA-Z0-9_-]+$ and the 255-character limit allow, and every body
\* of 1 to maxMessageSize bytes, at the limits included.
AcceptsEveryValidName == part = "validate" => VA!AcceptsEveryValidName

\* TopicConfig::decode reads back what encode wrote, for every name
\* without white space, whatever the decoding object held before.
DecodeInvertsEncode == part = "config" => TC!DecodeInvertsEncode

=============================================================================
