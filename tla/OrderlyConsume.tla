---------------------------- MODULE OrderlyConsume ----------------------------
(***************************************************************************)
(* ConsumeMessageOrderlyService for one MessageQueue of a push consumer.   *)
(* Pulled batches go into the ProcessQueue and each pull posts a           *)
(* ConsumeRequest(request) to the consume io_service.  A pool thread that  *)
(* runs it takes the request's timed critical section, checks the broker   *)
(* lock of the queue and then loops: takeMessages, listener, commit or     *)
(* makeMessageToCosumeAgain.  Delayed resubmissions                        *)
(* (tryLockLaterAndReconsume) and the periodic lockAll run on a second,    *)
(* asynchronous io_service.  shutdown() sets m_shutdownInprogress, stops   *)
(* both io_services, joins the threads and unlocks every queue.  Rebalance *)
(* may revoke the queue: the request is marked dropped, its offset entry   *)
(* persisted and removed, and the broker lock released.                    *)
(***************************************************************************)
EXTENDS Integers, Sequences, FiniteSets, ProcessQueue

CONSTANTS
    Workers,            \* threads of the consume io_service (model values)
    MaxOffset,          \* the broker holds offsets 0 .. MaxOffset-1
    MaxPull,            \* most messages one pull returns
    BatchMax,           \* consumeMessageBatchMaxSize
    MaxFailures,        \* bound: RECONSUME_LATER verdicts in a behaviour
    MaxExpiries,        \* bound: times the broker lock lapses unrenewed
    MaxReconsumeTimes,  \* spec 4.6: deliveries of a message beyond the first
    MessageModel,       \* "CLUSTERING" or "BROADCASTING"
    None,               \* the critical section is free
    Absent              \* no entry for the queue in the offset table

ASSUME /\ MaxOffset \in Nat \ {0} /\ MaxPull \in Nat \ {0}
       /\ BatchMax \in Nat \ {0} /\ MaxFailures \in Nat /\ MaxExpiries \in Nat
       /\ MaxReconsumeTimes \in Nat
       /\ MessageModel \in {"CLUSTERING", "BROADCASTING"}

VARIABLES
    pq,           \* the queue's ProcessQueue / PullRequest
    nextOffset,   \* where the next pull starts
    pool,         \* ConsumeRequest handlers posted and not yet started
    timers,       \* pending tryLockLaterAndReconsume timers, by tryLockMQ
    cs,           \* holder of the request's timed critical section
    wpc,          \* where each consume thread is in ConsumeRequest
    wmsgs,        \* the batch the thread has handed to the listener
    wbusy,        \* the thread has consumed a batch in this ConsumeRequest
    lockState,    \* broker lock: "unlocked", "locked", or "expired"
    expiries,     \* lock lapses so far
    failures,     \* RECONSUME_LATER verdicts so far
    shutdown,     \* m_shutdownInprogress
    phase,        \* "running", "stopping" (io_services stopped), "down"
    offsetTable,  \* the offset store's entry for the queue, or Absent
    delivered,    \* history: batches handed to the listener, in order
    acked         \* history: offsets whose listener call returned SUCCESS

vars == <<pq, nextOffset, pool, timers, cs, wpc, wmsgs, wbusy, lockState,
          expiries, failures, shutdown, phase, offsetTable, delivered, acked>>

Offsets == 0 .. MaxOffset - 1

TypeOK ==
    /\ IsProcessQueue(pq, Offsets)
    /\ nextOffset \in 0 .. MaxOffset
    /\ pool \in Nat
    /\ timers \in [BOOLEAN -> Nat]
    /\ cs \in Workers \cup {None}
    /\ wpc \in [Workers -> {"idle", "lock", "loop", "listen"}]
    /\ wmsgs \in [Workers -> SUBSET Offsets]
    /\ wbusy \in [Workers -> BOOLEAN]
    /\ lockState \in {"unlocked", "locked", "expired"}
    /\ expiries \in 0 .. MaxExpiries
    /\ failures \in 0 .. MaxFailures
    /\ shutdown \in BOOLEAN
    /\ phase \in {"running", "stopping", "down"}
    /\ offsetTable \in -1 .. MaxOffset \cup {Absent}
    /\ delivered \in Seq(SUBSET Offsets)
    /\ acked \subseteq Offsets

Init ==
    /\ pq = EmptyQueue
    /\ nextOffset = 0
    /\ pool = 0
    /\ timers = [t \in BOOLEAN |-> 0]
    /\ cs = None
    /\ wpc = [w \in Workers |-> "idle"]
    /\ wmsgs = [w \in Workers |-> {}]
    /\ wbusy = [w \in Workers |-> FALSE]
    /\ lockState = "unlocked"
    /\ expiries = 0
    /\ failures = 0
    /\ shutdown = FALSE
    /\ phase = "running"
    /\ offsetTable = Absent
    /\ delivered = <<>>
    /\ acked = {}

\* The thread leaves ConsumeRequest, releasing the critical section.
Leave(w) ==
    /\ wpc' = [wpc EXCEPT ![w] = "idle"]
    /\ cs' = None

\* tryLockLaterAndReconsume(request, tryLockMQ): arm a timer.
TryLockLater(tryLockMQ) ==
    timers' = [timers EXCEPT ![tryLockMQ] = @ + 1]

(***************************************************************************)
(* Pull scheduler, FOUND result.  An orderly pull waits until the queue is *)
(* locked (PullRequest::isLocked, not the expiry).  The batch is buffered  *)
(* and a ConsumeRequest posted (submitConsumeRequest).                     *)
(***************************************************************************)
PullFound ==
    /\ ~pq.dropped
    /\ lockState # "unlocked"
    /\ nextOffset < MaxOffset
    /\ \E n \in 1 .. MaxPull :
        LET batch == nextOffset .. (IF nextOffset + n > MaxOffset
                                    THEN MaxOffset ELSE nextOffset + n) - 1
        IN  /\ pq' = PutMessages(pq, batch)
            /\ nextOffset' = nextOffset + Cardinality(batch)
    /\ pool' = pool + 1
    /\ UNCHANGED <<timers, cs, wpc, wmsgs, wbusy, lockState, expiries,
                   failures, shutdown, phase, offsetTable, delivered, acked>>

\* An io_service thread starts a posted ConsumeRequest; a stopped
\* io_service starts no handler.
Dequeue(w) ==
    /\ phase = "running"
    /\ wpc[w] = "idle"
    /\ pool > 0
    /\ pool' = pool - 1
    /\ wpc' = [wpc EXCEPT ![w] = "lock"]
    /\ wbusy' = [wbusy EXCEPT ![w] = FALSE]
    /\ UNCHANGED <<pq, nextOffset, timers, cs, wmsgs, lockState, expiries,
                   failures, shutdown, phase, offsetTable, delivered, acked>>

(***************************************************************************)
(* try_to_lock / timed_lock(1s) succeeds.  With the section held: a       *)
(* dropped request has its messages cleared (clearAllMsgs) and returns; a  *)
(* queue that is locked and not expired (or a broadcasting consumer)       *)
(* enters the consume loop; otherwise tryLockLaterAndReconsume(request,    *)
(* true).  The section is released on return.                              *)
(***************************************************************************)
Acquire(w) ==
    /\ wpc[w] = "lock"
    /\ cs = None
    /\ CASE pq.dropped ->
              /\ pq' = ClearAllMsgs(pq)
              /\ wpc' = [wpc EXCEPT ![w] = "idle"]
              /\ UNCHANGED <<cs, timers>>
          [] lockState = "locked" \/ MessageModel = "BROADCASTING" ->
              /\ cs' = w
              /\ wpc' = [wpc EXCEPT ![w] = "loop"]
              /\ UNCHANGED <<pq, timers>>
          [] OTHER ->
              /\ TryLockLater(TRUE)
              /\ wpc' = [wpc EXCEPT ![w] = "idle"]
              /\ UNCHANGED <<pq, cs>>
    /\ UNCHANGED <<nextOffset, pool, wmsgs, wbusy, lockState, expiries,
                   failures, shutdown, phase, offsetTable, delivered, acked>>

\* timed_lock gives up after one second and the request is abandoned.  Only
\* a listener call holds the section that long.
TimedOut(w) ==
    /\ wpc[w] = "lock"
    /\ cs # None
    /\ wpc[cs] = "listen"
    /\ wpc' = [wpc EXCEPT ![w] = "idle"]
    /\ UNCHANGED <<pq, nextOffset, pool, timers, cs, wmsgs, wbusy, lockState,
                   expiries, failures, shutdown, phase, offsetTable,
                   delivered, acked>>

\* The loop has run longer than m_MaxTimeConsumeContinuously (possible only
\* once a batch has been consumed): tryLockLaterAndReconsume(request, false).
Yield(w) ==
    /\ wpc[w] = "loop"
    /\ wbusy[w]
    /\ TryLockLater(FALSE)
    /\ Leave(w)
    /\ UNCHANGED <<pq, nextOffset, pool, wmsgs, wbusy, lockState, expiries,
                   failures, shutdown, phase, offsetTable, delivered, acked>>

\* takeMessages(msgs, batchMax); a non-empty batch is handed to the
\* listener, an empty one ends the loop.
Take(w) ==
    /\ wpc[w] = "loop"
    /\ LET batch == TakeBatch(pq, BatchMax) IN
       IF batch = {}
       THEN /\ Leave(w)
            /\ UNCHANGED <<pq, wmsgs, delivered>>
       ELSE /\ pq' = TakeMessages(pq, BatchMax)
            /\ wmsgs' = [wmsgs EXCEPT ![w] = batch]
            /\ wpc' = [wpc EXCEPT ![w] = "listen"]
            /\ delivered' = Append(delivered, batch)
            /\ UNCHANGED cs
    /\ UNCHANGED <<nextOffset, pool, timers, wbusy, lockState, expiries,
                   failures, shutdown, phase, offsetTable, acked>>

\* After the listener: leave the loop when shutdown is in progress.
LoopOrLeave(w) ==
    IF shutdown THEN Leave(w)
    ELSE /\ wpc' = [wpc EXCEPT ![w] = "loop"]
         /\ UNCHANGED cs

\* Mutant of ListenerLater: a RECONSUME_LATER verdict is committed like a
\* success and the loop goes on.
ListenerLaterCommits(w) ==
    /\ wpc[w] = "listen"
    /\ failures < MaxFailures
    /\ failures' = failures + 1
    /\ LET r == Commit(pq) IN
       /\ pq' = r.queue
       /\ offsetTable' = r.offset
    /\ wbusy' = [wbusy EXCEPT ![w] = TRUE]
    /\ LoopOrLeave(w)
    /\ UNCHANGED <<nextOffset, pool, timers, wmsgs, lockState, expiries,
                   shutdown, phase, delivered, acked>>

\* The listener returns CONSUME_SUCCESS:
\* updateConsumeOffset(mq, request->commit()).
ListenerSuccess(w) ==
    /\ wpc[w] = "listen"
    /\ LET r == Commit(pq) IN
       /\ pq' = r.queue
       /\ offsetTable' = r.offset
    /\ acked' = acked \cup wmsgs[w]
    /\ wbusy' = [wbusy EXCEPT ![w] = TRUE]
    /\ LoopOrLeave(w)
    /\ UNCHANGED <<nextOffset, pool, timers, wmsgs, lockState, expiries,
                   failures, shutdown, phase, delivered>>

\* Mutant of ListenerLater: the batch is put back but no resubmission is
\* scheduled.
ListenerLaterNoRetry(w) ==
    /\ wpc[w] = "listen"
    /\ failures < MaxFailures
    /\ failures' = failures + 1
    /\ pq' = MakeMessageToConsumeAgain(pq, wmsgs[w])
    /\ Leave(w)
    /\ UNCHANGED <<nextOffset, pool, timers, wmsgs, wbusy, lockState, expiries,
                   shutdown, phase, offsetTable, delivered, acked>>

\* The listener returns RECONSUME_LATER: makeMessageToCosumeAgain, then
\* tryLockLaterAndReconsume(request, false) and the loop ends.
ListenerLater(w) ==
    /\ wpc[w] = "listen"
    /\ failures < MaxFailures
    /\ failures' = failures + 1
    /\ pq' = MakeMessageToConsumeAgain(pq, wmsgs[w])
    /\ TryLockLater(FALSE)
    /\ Leave(w)
    /\ UNCHANGED <<nextOffset, pool, wmsgs, wbusy, lockState, expiries,
                   shutdown, phase, offsetTable, delivered, acked>>

\* Mutant of SubmitLater: a timer callback runs without a pending timer.
SubmitLaterUnarmed(tryLockMQ) ==
    /\ phase = "running"
    /\ timers' = [timers EXCEPT ![tryLockMQ] = @ - 1]
    /\ pool' = pool + 1
    /\ IF tryLockMQ THEN lockState' \in {lockState, IF pq.dropped THEN lockState ELSE "locked"}
                    ELSE UNCHANGED lockState
    /\ UNCHANGED <<pq, nextOffset, cs, wpc, wmsgs, wbusy, expiries, failures,
                   shutdown, phase, offsetTable, delivered, acked>>

(***************************************************************************)
(* static_submitConsumeRequestLater on the asynchronous io_service: post   *)
(* the ConsumeRequest again and, for tryLockMQ, lockOneMQ.  The broker may *)
(* or may not grant the lock; a revoked queue is not locked again.         *)
(***************************************************************************)
SubmitLater(tryLockMQ) ==
    /\ phase = "running"
    /\ timers[tryLockMQ] > 0
    /\ timers' = [timers EXCEPT ![tryLockMQ] = @ - 1]
    /\ pool' = pool + 1
    /\ IF tryLockMQ THEN lockState' \in {lockState, IF pq.dropped THEN lockState ELSE "locked"}
                    ELSE UNCHANGED lockState
    /\ UNCHANGED <<pq, nextOffset, cs, wpc, wmsgs, wbusy, expiries, failures,
                   shutdown, phase, offsetTable, delivered, acked>>

\* lockMQPeriodically: lockAll of the queues still assigned; the broker
\* grants the lock (a refused request changes nothing).
LockMQPeriodically ==
    /\ phase = "running"
    /\ ~pq.dropped
    /\ lockState # "locked"
    /\ lockState' = "locked"
    /\ UNCHANGED <<pq, nextOffset, pool, timers, cs, wpc, wmsgs, wbusy,
                   expiries, failures, shutdown, phase, offsetTable,
                   delivered, acked>>

\* No lockAll has renewed the lock for its lifetime: isLockExpired().
LockExpires ==
    /\ lockState = "locked"
    /\ expiries < MaxExpiries
    /\ lockState' = "expired"
    /\ expiries' = expiries + 1
    /\ UNCHANGED <<pq, nextOffset, pool, timers, cs, wpc, wmsgs, wbusy,
                   failures, shutdown, phase, offsetTable, delivered, acked>>

\* stopThreadPool: m_shutdownInprogress = true, both io_services stopped.
Shutdown ==
    /\ phase = "running"
    /\ shutdown' = TRUE
    /\ phase' = "stopping"
    /\ UNCHANGED <<pq, nextOffset, pool, timers, cs, wpc, wmsgs, wbusy,
                   lockState, expiries, failures, offsetTable, delivered, acked>>

\* join_all returns once every thread has left its handler; then
\* unlockAllMQ releases the broker lock.
UnlockAllMQ ==
    /\ phase = "stopping"
    /\ \A w \in Workers : wpc[w] = "idle"
    /\ phase' = "down"
    /\ lockState' = "unlocked"
    /\ UNCHANGED <<pq, nextOffset, pool, timers, cs, wpc, wmsgs, wbusy,
                   expiries, failures, shutdown, offsetTable, delivered, acked>>

(***************************************************************************)
(* Rebalance revokes the queue (Rebalance::removeUnnecessaryMessageQueue,  *)
(* spec section 4.3): the request is marked dropped, the final offset is   *)
(* persisted and the entry removed, and the queue unlocked at the broker.  *)
(* A thread inside ConsumeRequest goes on with what it holds.              *)
(***************************************************************************)
Drop ==
    /\ phase = "running"
    /\ ~pq.dropped
    /\ pq' = [pq EXCEPT !.dropped = TRUE]
    /\ offsetTable' = Absent
    /\ lockState' = "unlocked"
    /\ UNCHANGED <<nextOffset, pool, timers, cs, wpc, wmsgs, wbusy, expiries,
                   failures, shutdown, phase, delivered, acked>>

WorkerStep(w) ==
    \/ Dequeue(w) \/ Acquire(w) \/ TimedOut(w) \/ Yield(w) \/ Take(w)
    \/ ListenerSuccess(w) \/ ListenerLater(w)

Next ==
    \/ PullFound
    \/ \E w \in Workers : WorkerStep(w)
    \/ \E b \in BOOLEAN : SubmitLater(b)
    \/ LockMQPeriodically
    \/ LockExpires
    \/ Drop
    \/ Shutdown
    \/ UnlockAllMQ

(***************************************************************************)
(* Every io_service thread keeps running its handlers; the listener        *)
(* returns; timers fire; the periodic lockAll keeps running and the only   *)
(* consumer of the group is granted the lock.  Lock expiry, the time-slice *)
(* yield, a revocation and shutdown are not forced.                        *)
(***************************************************************************)
Fairness ==
    /\ WF_vars(PullFound)
    /\ \A w \in Workers :
          /\ WF_vars(Dequeue(w)) /\ WF_vars(Acquire(w))
          /\ WF_vars(Take(w))
          /\ WF_vars(ListenerSuccess(w) \/ ListenerLater(w))
    /\ \A b \in BOOLEAN : WF_vars(SubmitLater(b))
    /\ WF_vars(LockMQPeriodically)
    /\ WF_vars(UnlockAllMQ)

Spec == Init /\ [][Next]_vars /\ Fairness

-----------------------------------------------------------------------------
(***************************************************************************)
(* Properties                                                              *)
(***************************************************************************)

Contiguous(b) == b = Min(b) .. Max(b)

\* Spec section 5: within the queue the listener sees offsets in order.
\* Each batch is a run of consecutive offsets that either repeats the
\* previous batch's start (redelivery after RECONSUME_LATER) or continues
\* right after it; the first starts at the pull start.  Needs the critical
\* section to serialise the threads that run ConsumeRequest.
InOrderDelivery ==
    \A i \in 1 .. Len(delivered) :
        /\ Contiguous(delivered[i])
        /\ i = 1 => Min(delivered[1]) = 0
        /\ i > 1 => Min(delivered[i]) \in {Min(delivered[i - 1]),
                                           Max(delivered[i - 1]) + 1}

\* The committed offset covers only messages whose listener call returned
\* CONSUME_SUCCESS: commit() must not acknowledge a batch that is to be
\* consumed again.
CommitOnlyAcked ==
    offsetTable # Absent => \A o \in Offsets : o < offsetTable => o \in acked

\* Every pulled message is eventually committed unless the consumer shuts
\* down or the queue is revoked: no ConsumeRequest is lost between the
\* timed critical section, the lock check and the delayed resubmissions.
PulledEventuallyCommitted ==
    \A o \in Offsets :
        (o \in pq.msgs) ~> (shutdown \/ pq.dropped \/
                            (offsetTable # Absent /\ offsetTable > o))

\* Spec section 4.6: a message whose consumption keeps failing is delivered
\* at most MaxReconsumeTimes + 1 times before it goes to the dead letter
\* queue.
Deliveries(o) == Cardinality({i \in 1 .. Len(delivered) : o \in delivered[i]})

BoundedRedelivery ==
    \A o \in Offsets : Deliveries(o) <= MaxReconsumeTimes + 1

\* Spec section 8, invariant 5: once the request is dropped no ack reaches
\* the offset store.  A thread in the listener when rebalance revokes the
\* queue goes on to updateConsumeOffset(mq, commit()), and commit() of a
\* dropped request returns -1, which is written without a >= 0 check.
NoAckAfterDrop ==
    pq.dropped => offsetTable = Absent

\* Spec scenario S6: no listener call begins after shutdown() has started.
NoConsumeAfterShutdown ==
    [][shutdown => Len(delivered') = Len(delivered)]_<<shutdown, delivered>>

=============================================================================
