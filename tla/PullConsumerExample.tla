------------------------- MODULE PullConsumerExample -------------------------
(***************************************************************************)
(* The pull-consumer example (example/PullConsumer.cpp): it fetches the    *)
(* topic's queues, then drains them one after the other, calling           *)
(* pull(mq, "*", getMessageQueueOffset(mq), 32) until a NO_NEW_MSG.  The   *)
(* offsets live in the global map g_offseTable, which stores every         *)
(* nextBeginOffset except a BROKER_TIMEOUT's (that result carries 0).      *)
(* g_msgCount adds up the sizes of the found lists.  A producer keeps      *)
(* appending to the queues and the broker's retention deletes their head,  *)
(* concurrently with the loop.                                             *)
(***************************************************************************)
EXTENDS Integers, FiniteSets

CONSTANTS
    Queues,      \* the topic's message queues (model values)
    MaxOffset,   \* bound: the producer appends offsets 0 .. MaxOffset-1
    PullBatch,   \* maxNums of a pull (32 in the example)
    Absent       \* g_offseTable has no entry for the queue

ASSUME MaxOffset \in Nat \ {0} /\ PullBatch \in Nat \ {0}

VARIABLES
    minOff,      \* the broker's min offset of each queue (retention)
    maxOff,      \* the broker's max offset: the next offset to be written
    offsetTable, \* g_offseTable
    pending,     \* queues of mqs the loop has not reached yet
    cur,         \* the queue the do-while loop is on
    pc,          \* "fetch", "next" (for loop), "pull" (do-while), "done"
    status,      \* result.pullStatus of the last pull, or "exception"
    msgCount,    \* g_msgCount
    found        \* history: <<queue, offset>> of every message pulled

vars == <<minOff, maxOff, offsetTable, pending, cur, pc, status, msgCount, found>>

Offsets == 0 .. MaxOffset - 1

TypeOK ==
    /\ minOff \in [Queues -> 0 .. MaxOffset]
    /\ maxOff \in [Queues -> 0 .. MaxOffset]
    /\ offsetTable \in [Queues -> 0 .. MaxOffset \cup {Absent}]
    /\ pending \subseteq Queues
    /\ cur \in Queues
    /\ pc \in {"fetch", "next", "pull", "done"}
    /\ status \in {"none", "FOUND", "NO_NEW_MSG", "OFFSET_ILLEGAL",
                   "BROKER_TIMEOUT", "exception"}
    /\ msgCount \in Nat
    /\ found \subseteq Queues \X Offsets

Init ==
    /\ minOff = [q \in Queues |-> 0]
    /\ maxOff \in [Queues -> 0 .. 1]
    /\ offsetTable = [q \in Queues |-> Absent]
    /\ pending = {}
    /\ cur \in Queues
    /\ pc = "fetch"
    /\ status = "none"
    /\ msgCount = 0
    /\ found = {}

\* getMessageQueueOffset(mq): the stored offset, 0 for a queue not in the map.
getMessageQueueOffset(q) == IF offsetTable[q] = Absent THEN 0 ELSE offsetTable[q]

\* putMessageQueueOffset(mq, offset): g_offseTable[mq] = offset.
putMessageQueueOffset(q, off) == offsetTable' = [offsetTable EXCEPT ![q] = off]

(***************************************************************************)
(* The broker's answer to a pull at offset off (spec section 4.4): an      *)
(* offset outside [min, max] is OFFSET_ILLEGAL and moves to the nearest    *)
(* end, the max offset is NO_NEW_MSG, otherwise FOUND with up to maxNums   *)
(* messages.  Subscription "*" matches every tag, so no NO_MATCHED_MSG.    *)
(***************************************************************************)
BrokerPull(q, off) ==
    LET lo == minOff[q]  hi == maxOff[q]
        end == IF off + PullBatch < hi THEN off + PullBatch ELSE hi
    IN  CASE off < lo  -> [status |-> "OFFSET_ILLEGAL", next |-> lo, msgs |-> {}]
          [] off > hi  -> [status |-> "OFFSET_ILLEGAL", next |-> hi, msgs |-> {}]
          [] off = hi  -> [status |-> "NO_NEW_MSG", next |-> off, msgs |-> {}]
          [] OTHER     -> [status |-> "FOUND", next |-> end, msgs |-> off .. end - 1]

\* fetchSubscribeMessageQueues(topic, mqs): the queues of the topic, or an
\* MQException that is printed and leaves mqs empty.
FetchSubscribeMessageQueues ==
    /\ pc = "fetch"
    /\ pending' \in {Queues, {}}
    /\ pc' = "next"
    /\ UNCHANGED <<minOff, maxOff, offsetTable, cur, status, msgCount, found>>

\* The for loop over mqs: take the next queue, or leave the loop.
NextQueue ==
    /\ pc = "next"
    /\ IF pending = {}
       THEN /\ pc' = "done"
            /\ UNCHANGED <<pending, cur>>
       ELSE \E q \in pending :
              /\ cur' = q
              /\ pending' = pending \ {q}
              /\ pc' = "pull"
    /\ UNCHANGED <<minOff, maxOff, offsetTable, status, msgCount, found>>

\* Mutant of PullAnswered: the result's maxOffset is stored in place of
\* nextBeginOffset.
PullStoresMaxOffset ==
    /\ pc = "pull"
    /\ LET r == BrokerPull(cur, getMessageQueueOffset(cur))
       IN  /\ status' = r.status
           /\ msgCount' = msgCount + Cardinality(r.msgs)
           /\ found' = found \cup ({cur} \X r.msgs)
           /\ putMessageQueueOffset(cur, maxOff[cur])
           /\ pc' = IF r.status = "NO_NEW_MSG" THEN "next" ELSE "pull"
    /\ UNCHANGED <<minOff, maxOff, pending, cur>>

\* Mutant of PullAnswered: the NO_NEW_MSG case falls into the default branch
\* and the do-while loop never ends.
PullNeverDone ==
    /\ pc = "pull"
    /\ LET r == BrokerPull(cur, getMessageQueueOffset(cur))
       IN  /\ status' = r.status
           /\ msgCount' = msgCount + Cardinality(r.msgs)
           /\ found' = found \cup ({cur} \X r.msgs)
           /\ putMessageQueueOffset(cur, r.next)
    /\ UNCHANGED <<minOff, maxOff, pending, cur, pc>>

(***************************************************************************)
(* One pass of the do-while loop that the broker answers: the found list   *)
(* is counted, nextBeginOffset is stored, and NO_NEW_MSG ends the loop.    *)
(***************************************************************************)
PullAnswered ==
    /\ pc = "pull"
    /\ LET r == BrokerPull(cur, getMessageQueueOffset(cur))
       IN  /\ status' = r.status
           /\ msgCount' = msgCount + Cardinality(r.msgs)
           /\ found' = found \cup ({cur} \X r.msgs)
           /\ putMessageQueueOffset(cur, r.next)
           /\ pc' = IF r.status = "NO_NEW_MSG" THEN "next" ELSE "pull"
    /\ UNCHANGED <<minOff, maxOff, pending, cur>>

\* Mutant of PullTimeout: the BROKER_TIMEOUT guard is missing and the
\* result's nextBeginOffset, 0, is stored.
PullTimeoutStored ==
    /\ pc = "pull"
    /\ status' = "BROKER_TIMEOUT"
    /\ putMessageQueueOffset(cur, 0)
    /\ UNCHANGED <<minOff, maxOff, pending, cur, pc, msgCount, found>>

\* The pull times out or gets no response: BROKER_TIMEOUT with an empty
\* list and nextBeginOffset 0, which the example does not store.
PullTimeout ==
    /\ pc = "pull"
    /\ status' = "BROKER_TIMEOUT"
    /\ UNCHANGED <<minOff, maxOff, offsetTable, pending, cur, pc, msgCount, found>>

\* pull throws MQClientException: printed, and the loop goes round again.
PullException ==
    /\ pc = "pull"
    /\ status' = "exception"
    /\ UNCHANGED <<minOff, maxOff, offsetTable, pending, cur, pc, msgCount, found>>

\* The producer appends a message to a queue.
Produce(q) ==
    /\ maxOff[q] < MaxOffset
    /\ maxOff' = [maxOff EXCEPT ![q] = @ + 1]
    /\ UNCHANGED <<minOff, offsetTable, pending, cur, pc, status, msgCount, found>>

\* Retention deletes the oldest message of a queue.
Expire(q) ==
    /\ minOff[q] < maxOff[q]
    /\ minOff' = [minOff EXCEPT ![q] = @ + 1]
    /\ UNCHANGED <<maxOff, offsetTable, pending, cur, pc, status, msgCount, found>>

Next ==
    \/ FetchSubscribeMessageQueues \/ NextQueue
    \/ PullAnswered \/ PullTimeout \/ PullException
    \/ \E q \in Queues : Produce(q) \/ Expire(q)

(***************************************************************************)
(* The loop runs on; the broker answers a pull that is retried often       *)
(* enough (timeouts and exceptions are transient: strong fairness).        *)
(***************************************************************************)
Fairness ==
    /\ WF_vars(FetchSubscribeMessageQueues) /\ WF_vars(NextQueue)
    /\ SF_vars(PullAnswered)

Spec == Init /\ [][Next]_vars /\ Fairness

-----------------------------------------------------------------------------
(***************************************************************************)
(* Properties                                                              *)
(***************************************************************************)

\* The stored offset of a queue never passes a message that was neither
\* pulled nor deleted by retention: the example stores nextBeginOffset of
\* every answer, a jump past the head only where the head is gone.
NoMessageSkipped ==
    \A q \in Queues : \A o \in Offsets :
        o < getMessageQueueOffset(q) => <<q, o>> \in found \/ o < minOff[q]

\* g_msgCount counts every pulled message once: no answer makes the loop
\* pull again from an offset it has passed.  A BROKER_TIMEOUT result, whose
\* nextBeginOffset is 0, must not be stored.
NoMessageCountedTwice ==
    msgCount = Cardinality(found)

\* The example ends: once the producer stops, each queue's loop reaches a
\* NO_NEW_MSG, though timeouts and exceptions make it pull again.
LoopTerminates ==
    <>(pc = "done")

=============================================================================
