----------------------- MODULE RemoteBrokerOffsetStore -----------------------
(***************************************************************************)
(* RemoteBrokerOffsetStore of clustering consumers, for one message queue  *)
(* handed over between the consumers of a group.  Each consumer has its    *)
(* own m_offsetTable under m_lock, written by the consume service          *)
(* (updateOffset) and read by two threads that persist it: the 5 s offset  *)
(* timer and the rebalance thread, which persists the final offset of a    *)
(* revoked queue and then removes it (removeOffset).  persist copies the   *)
(* table under m_lock and sends the offset oneway outside it, over the     *)
(* consumer's connection to the broker (FIFO, lossy: a oneway send that    *)
(* fails or finds no broker address is only logged).  A consumer newly     *)
(* assigned the queue reads the broker's offset (readOffset                *)
(* READ_FROM_STORE: fetchConsumeOffsetFromBroker then updateOffset).       *)
(***************************************************************************)
EXTENDS Integers, Sequences

CONSTANTS
    Clients,     \* consumers of the group (model values)
    MaxOffset,   \* the queue holds offsets 0 .. MaxOffset-1
    MaxChan,     \* oneway requests a connection holds unsent (socket buffer)
    MaxMoves,    \* bound: times the allocation moves the queue
    Absent       \* no entry for the queue in a consumer's offset table

ASSUME MaxOffset \in Nat \ {0} /\ MaxChan \in Nat \ {0} /\ MaxMoves \in Nat

\* The two threads of a consumer that call persist.
PersistThreads == {"timer", "rebalance"}

VARIABLES
    assigned,     \* the consumer the allocation gives the queue to
    moves,        \* times the allocation has moved the queue
    owns,         \* the consumer's requestTable holds a live request for it
    table,        \* each consumer's m_offsetTable entry, or Absent
    pc,           \* each persisting thread: "idle", "send", or "remove"
    snap,         \* the offset the thread copied out under m_lock
    chan,         \* each consumer's connection: oneway offsets, oldest first
    brokerOffset  \* the group's committed offset held by the broker

vars == <<assigned, moves, owns, table, pc, snap, chan, brokerOffset>>

Threads == Clients \X PersistThreads

TypeOK ==
    /\ assigned \in Clients
    /\ moves \in 0 .. MaxMoves
    /\ owns \in [Clients -> BOOLEAN]
    /\ table \in [Clients -> 0 .. MaxOffset \cup {Absent}]
    /\ pc \in [Threads -> {"idle", "send", "remove"}]
    /\ snap \in [Threads -> 0 .. MaxOffset]
    /\ chan \in [Clients -> Seq(0 .. MaxOffset)]
    /\ brokerOffset \in 0 .. MaxOffset

Init ==
    /\ assigned \in Clients
    /\ moves = 0
    /\ owns = [c \in Clients |-> FALSE]
    /\ table = [c \in Clients |-> Absent]
    /\ pc = [t \in Threads |-> "idle"]
    /\ snap = [t \in Threads |-> 0]
    /\ chan = [c \in Clients |-> <<>>]
    /\ brokerOffset = 0

\* fetchConsumeOffsetFromBroker: queryConsumerOffset on the broker found by
\* findBrokerAddressInAdmin (after at most one route refresh) answers the
\* group's committed offset.
fetchConsumeOffsetFromBroker == brokerOffset

(***************************************************************************)
(* Rebalance gives the queue to a consumer: computePullFromWhere reads the *)
(* offset with readOffset(READ_FROM_STORE), which queries the broker and   *)
(* stores the answer with updateOffset; the consumer then pulls from it.   *)
(***************************************************************************)
Assign(c) ==
    /\ assigned = c
    /\ ~owns[c]
    /\ pc[<<c, "rebalance">>] = "idle"
    /\ owns' = [owns EXCEPT ![c] = TRUE]
    /\ table' = [table EXCEPT ![c] = fetchConsumeOffsetFromBroker]
    /\ UNCHANGED <<assigned, moves, pc, snap, chan, brokerOffset>>

\* Mutant of Consume: acknowledges past the end of the queue.
ConsumeUnbounded(c) ==
    /\ owns[c]
    /\ table[c] # Absent
    /\ table' = [table EXCEPT ![c] = @ + 1]
    /\ UNCHANGED <<assigned, moves, owns, pc, snap, chan, brokerOffset>>

\* The consume service acknowledges the next message of a queue it owns:
\* updateOffset(mq, offset) under m_lock, an unconditional overwrite.
Consume(c) ==
    /\ owns[c]
    /\ table[c] # Absent
    /\ table[c] < MaxOffset
    /\ table' = [table EXCEPT ![c] = @ + 1]
    /\ UNCHANGED <<assigned, moves, owns, pc, snap, chan, brokerOffset>>

\* The group changes and the allocation moves the queue to another consumer.
Move ==
    /\ moves < MaxMoves
    /\ moves' = moves + 1
    /\ \E c \in Clients \ {assigned} : assigned' = c
    /\ UNCHANGED <<owns, table, pc, snap, chan, brokerOffset>>

\* persist(mq): copy m_offsetTable under m_lock; with no entry for the queue
\* nothing is sent.
Snapshot(t, next) ==
    IF table[t[1]] # Absent
    THEN /\ pc' = [pc EXCEPT ![t] = "send"]
         /\ snap' = [snap EXCEPT ![t] = table[t[1]]]
    ELSE /\ pc' = [pc EXCEPT ![t] = next]
         /\ UNCHANGED snap

\* The offset timer persists the queue's offset.
TimerPersist(c) ==
    /\ pc[<<c, "timer">>] = "idle"
    /\ table[c] # Absent
    /\ Snapshot(<<c, "timer">>, "idle")
    /\ UNCHANGED <<assigned, moves, owns, table, chan, brokerOffset>>

\* Rebalance revokes the queue: the request is dropped (consumption stops),
\* the final offset is persisted, then removeOffset.
Revoke(c) ==
    /\ owns[c]
    /\ assigned # c
    /\ pc[<<c, "rebalance">>] = "idle"
    /\ owns' = [owns EXCEPT ![c] = FALSE]
    /\ Snapshot(<<c, "rebalance">>, "remove")
    /\ UNCHANGED <<assigned, moves, table, chan, brokerOffset>>

\* After persist: the timer is done, the rebalance thread goes on to
\* removeOffset.
AfterSend(t) ==
    pc' = [pc EXCEPT ![t] = IF t[2] = "timer" THEN "idle" ELSE "remove"]

\* Mutant of Sent: the oneway request is written to a connection that never
\* reaches the queue's master broker.
SentNowhere(t) ==
    /\ pc[t] = "send"
    /\ Len(chan[t[1]]) < MaxChan
    /\ AfterSend(t)
    /\ UNCHANGED <<assigned, moves, owns, table, snap, chan, brokerOffset>>

\* updateConsumeOffsetToBroker: the broker address is found (after at most
\* one route refresh) and updateConsumerOffsetOneway queues the request.
Sent(t) ==
    /\ pc[t] = "send"
    /\ Len(chan[t[1]]) < MaxChan
    /\ chan' = [chan EXCEPT ![t[1]] = Append(@, snap[t])]
    /\ AfterSend(t)
    /\ UNCHANGED <<assigned, moves, owns, table, snap, brokerOffset>>

\* updateConsumeOffsetToBroker: no broker address, or the oneway call throws
\* and the MQException is caught; the offset is not sent.
Lost(t) ==
    /\ pc[t] = "send"
    /\ AfterSend(t)
    /\ UNCHANGED <<assigned, moves, owns, table, snap, chan, brokerOffset>>

\* removeOffset(mq): erase the entry under m_lock.
RemoveOffset(c) ==
    /\ pc[<<c, "rebalance">>] = "remove"
    /\ pc' = [pc EXCEPT ![<<c, "rebalance">>] = "idle"]
    /\ table' = [table EXCEPT ![c] = Absent]
    /\ UNCHANGED <<assigned, moves, owns, snap, chan, brokerOffset>>

\* The broker applies the oldest request of a connection: UPDATE_CONSUMER_
\* OFFSET overwrites the group's offset.
BrokerCommit(c) ==
    /\ chan[c] # <<>>
    /\ brokerOffset' = Head(chan[c])
    /\ chan' = [chan EXCEPT ![c] = Tail(@)]
    /\ UNCHANGED <<assigned, moves, owns, table, pc, snap>>

Next ==
    \/ Move
    \/ \E c \in Clients :
          \/ Assign(c) \/ Consume(c) \/ TimerPersist(c) \/ Revoke(c)
          \/ RemoveOffset(c) \/ BrokerCommit(c)
    \/ \E t \in Threads : Sent(t) \/ Lost(t)

(***************************************************************************)
(* Rebalance, consumption, the offset timer and the broker keep running.  *)
(* A failed oneway send is transient: a thread that keeps persisting gets  *)
(* through eventually (strong fairness on Sent, which a loss disables).    *)
(***************************************************************************)
Fairness ==
    /\ \A c \in Clients :
          /\ WF_vars(Assign(c)) /\ WF_vars(Consume(c)) /\ WF_vars(Revoke(c))
          /\ WF_vars(TimerPersist(c)) /\ WF_vars(RemoveOffset(c))
          /\ WF_vars(BrokerCommit(c))
    /\ \A t \in Threads : SF_vars(Sent(t)) /\ WF_vars(Lost(t) \/ Sent(t))

Spec == Init /\ [][Next]_vars /\ Fairness

-----------------------------------------------------------------------------
(***************************************************************************)
(* Properties                                                              *)
(***************************************************************************)

\* Once the queue is fully consumed the broker ends up holding its end
\* offset for good, although oneway sends are lost and stale ones from a
\* revoked consumer arrive late.
EventuallyPersisted ==
    <>[](brokerOffset = MaxOffset)

\* Spec section 8, invariant 3: the committed offset never decreases.
\* persist copies the offset under m_lock and sends it after releasing it,
\* so two threads of one consumer send their copies in either order; a
\* revoked consumer's last send can also land after the new owner's.
BrokerOffsetNeverDecreases ==
    [][brokerOffset' >= brokerOffset]_brokerOffset

=============================================================================
