------------------------ MODULE MC_ConsumeServices ------------------------
(***************************************************************************)
(* The two consume services of the push consumer checked in one run:       *)
(* ConsumeMessageConcurrentlyService and ConsumeMessageOrderlyService.  A  *)
(* consumer registers either a concurrent or an orderly listener, and the  *)
(* consumer's start() creates the matching service; part records which.   *)
(* The instance not chosen stays in its initial state.  Each service runs  *)
(* two consume threads over a queue of three messages, pulls of up to two  *)
(* and revocation by rebalance; the orderly one also has batches of two,   *)
(* lock expiry, the time-slice yield, one RECONSUME_LATER and shutdown.    *)
(***************************************************************************)
EXTENDS TLC

CONSTANTS w1, w2, Absent, None

VARIABLES
    part,
    \* ConsumeMessageConcurrentlyService
    cpq, cnextOffset, cpool, cwpc, cwbatch, cwresult, coffsetTable,
    cbrokerOffset, cdelivered, csentBack,
    \* ConsumeMessageOrderlyService
    opq, onextOffset, opool, otimers, ocs, owpc, owmsgs, owbusy, olockState,
    oexpiries, ofailures, oshutdown, ophase, ooffsetTable, odelivered, oacked

cvars == <<cpq, cnextOffset, cpool, cwpc, cwbatch, cwresult, coffsetTable,
           cbrokerOffset, cdelivered, csentBack>>
ovars == <<opq, onextOffset, opool, otimers, ocs, owpc, owmsgs, owbusy,
           olockState, oexpiries, ofailures, oshutdown, ophase, ooffsetTable,
           odelivered, oacked>>
vars == <<part, cvars, ovars>>

Workers == {w1, w2}

CC == INSTANCE ConcurrentConsume
        WITH Workers <- Workers, MaxOffset <- 3, MaxPull <- 2,
             MessageModel <- "CLUSTERING", Absent <- Absent,
             pq <- cpq, nextOffset <- cnextOffset, pool <- cpool, wpc <- cwpc,
             wbatch <- cwbatch, wresult <- cwresult, offsetTable <- coffsetTable,
             brokerOffset <- cbrokerOffset, delivered <- cdelivered,
             sentBack <- csentBack

OC == INSTANCE OrderlyConsume
        WITH Workers <- Workers, MaxOffset <- 3, MaxPull <- 2, BatchMax <- 2,
             MaxFailures <- 1, MaxExpiries <- 1, MaxReconsumeTimes <- 1,
             MessageModel <- "CLUSTERING", None <- None, Absent <- Absent,
             pq <- opq, nextOffset <- onextOffset, pool <- opool,
             timers <- otimers, cs <- ocs, wpc <- owpc, wmsgs <- owmsgs,
             wbusy <- owbusy, lockState <- olockState, expiries <- oexpiries,
             failures <- ofailures, shutdown <- oshutdown, phase <- ophase,
             offsetTable <- ooffsetTable, delivered <- odelivered,
             acked <- oacked

Init == part \in {"concurrent", "orderly"} /\ CC!Init /\ OC!Init

\* A step of the service the consumer runs; the other one stays put.
Concurrent(A) == part = "concurrent" /\ A /\ UNCHANGED <<part, ovars>>
Orderly(A) == part = "orderly" /\ A /\ UNCHANGED <<part, cvars>>

Next == Concurrent(CC!Next) \/ Orderly(OC!Next)

\* The fairness of each service (ConcurrentConsume!Fairness and
\* OrderlyConsume!Fairness), for the service the consumer runs.
Fairness ==
    /\ WF_vars(Concurrent(CC!PullFound))
    /\ \A w \in Workers :
          WF_vars(Concurrent(CC!ConsumeRequest(w) \/ CC!Remove(w) \/ CC!UpdateOffset(w)))
    /\ WF_vars(Orderly(OC!PullFound))
    /\ \A w \in Workers :
          /\ WF_vars(Orderly(OC!Dequeue(w))) /\ WF_vars(Orderly(OC!Acquire(w)))
          /\ WF_vars(Orderly(OC!Take(w)))
          /\ WF_vars(Orderly(OC!ListenerSuccess(w) \/ OC!ListenerLater(w)))
    /\ \A b \in BOOLEAN : WF_vars(Orderly(OC!SubmitLater(b)))
    /\ WF_vars(Orderly(OC!LockMQPeriodically))
    /\ WF_vars(Orderly(OC!UnlockAllMQ))

Spec == Init /\ [][Next]_vars /\ Fairness

-----------------------------------------------------------------------------

\* Both services keep the types of their state.
TypeOK == CC!TypeOK /\ OC!TypeOK

\* Concurrent: neither the offset in the table nor the one persisted when
\* the queue is revoked passes a message not yet handed to the listener,
\* whatever order two threads acknowledge their batches in.
NoCommitPastUndelivered == part = "concurrent" => CC!NoCommitPastUndelivered

\* Concurrent: every message pulled into the queue reaches the listener,
\* unless the queue is revoked first.
PulledEventuallyConsumed == part = "concurrent" => CC!PulledEventuallyConsumed

\* Orderly: the timed critical section and the broker lock keep the
\* listener's batches in offset order, across retries, lock expiry and the
\* time-slice yield.
InOrderDelivery == part = "orderly" => OC!InOrderDelivery

\* Orderly: commit() never acknowledges an offset whose listener call
\* returned SUSPEND_CURRENT_QUEUE_A_MOMENT.
CommitOnlyAcked == part = "orderly" => OC!CommitOnlyAcked

\* Orderly: every pulled message is committed, unless the queue is revoked
\* or shutdown begins.
PulledEventuallyCommitted == part = "orderly" => OC!PulledEventuallyCommitted
=============================================================================
