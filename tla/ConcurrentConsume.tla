-------------------------- MODULE ConcurrentConsume --------------------------
(***************************************************************************)
(* ConsumeMessageConcurrentlyService for one MessageQueue of a push        *)
(* consumer, together with the parts of the consumer it interacts with:    *)
(* the pull scheduler that deposits pulled batches into the queue's        *)
(* ProcessQueue and posts a ConsumeRequest per batch to the io_service,    *)
(* the pool of consume threads that run ConsumeRequest, the consumer's     *)
(* offset table (OffsetStore::updateOffset) and the rebalance step that    *)
(* revokes the queue.                                                      *)
(*                                                                         *)
(* ConsumeRequest is split at the points where another thread can get in:  *)
(* the dropped check and the listener call (one step: nothing shared is    *)
(* read between them), removeMessage under the ProcessQueue mutex, and     *)
(* updateConsumeOffset under the offset store mutex.                       *)
(***************************************************************************)
EXTENDS Integers, Sequences, FiniteSets, ProcessQueue

CONSTANTS
    Workers,       \* threads of the consume pool (model values)
    MaxOffset,     \* the broker holds offsets 0 .. MaxOffset-1 for the queue
    MaxPull,       \* most messages one pull returns
    MessageModel,  \* "CLUSTERING" or "BROADCASTING"
    Absent         \* no entry for the queue in the offset table

ASSUME MaxOffset \in Nat \ {0} /\ MaxPull \in Nat \ {0}
ASSUME MessageModel \in {"CLUSTERING", "BROADCASTING"}

VARIABLES
    pq,            \* the queue's ProcessQueue / PullRequest
    nextOffset,    \* PullRequest nextOffset: where the next pull starts
    pool,          \* ConsumeRequests posted to the io_service, oldest first
    wpc,           \* where each consume thread is in ConsumeRequest
    wbatch,        \* the msgs argument of the thread's ConsumeRequest
    wresult,       \* the offset removeMessage returned to the thread
    offsetTable,   \* the offset store's entry for the queue, or Absent
    brokerOffset,  \* offset persisted for the queue when it was revoked
    delivered,     \* history: offsets handed to the listener
    sentBack       \* history: offsets sent back to the broker for retry

vars == <<pq, nextOffset, pool, wpc, wbatch, wresult, offsetTable,
          brokerOffset, delivered, sentBack>>

Offsets == 0 .. MaxOffset - 1

ConsumeStatus == {"CONSUME_SUCCESS", "RECONSUME_LATER"}

TypeOK ==
    /\ IsProcessQueue(pq, Offsets)
    /\ nextOffset \in 0 .. MaxOffset
    /\ pool \in Seq(SUBSET Offsets)
    /\ wpc \in [Workers -> {"idle", "remove", "update"}]
    /\ wbatch \in [Workers -> SUBSET Offsets]
    /\ wresult \in [Workers -> Offsets \cup {-1, MaxOffset}]
    /\ offsetTable \in 0 .. MaxOffset \cup {Absent}
    /\ brokerOffset \in 0 .. MaxOffset \cup {Absent}
    /\ delivered \subseteq Offsets
    /\ sentBack \subseteq Offsets

Init ==
    /\ pq = EmptyQueue
    /\ nextOffset = 0
    /\ pool = <<>>
    /\ wpc = [w \in Workers |-> "idle"]
    /\ wbatch = [w \in Workers |-> {}]
    /\ wresult = [w \in Workers |-> -1]
    /\ offsetTable = Absent
    /\ brokerOffset = Absent
    /\ delivered = {}
    /\ sentBack = {}

\* Mutant of PullFound: the batch is buffered but never posted to the
\* consume service.
PullFoundNoSubmit ==
    /\ ~pq.dropped
    /\ nextOffset < MaxOffset
    /\ \E n \in 1 .. MaxPull :
        LET batch == nextOffset .. (IF nextOffset + n > MaxOffset
                                    THEN MaxOffset ELSE nextOffset + n) - 1
        IN  /\ pq' = PutMessages(pq, batch)
            /\ nextOffset' = nextOffset + Cardinality(batch)
            /\ UNCHANGED pool
    /\ UNCHANGED <<wpc, wbatch, wresult, offsetTable, brokerOffset,
                   delivered, sentBack>>

(***************************************************************************)
(* Pull scheduler, FOUND result: the batch [nextOffset, nextOffset+n) goes *)
(* into the ProcessQueue, nextOffset moves to the broker's nextBeginOffset *)
(* and the batch is posted to the consume service (submitConsumeRequest). *)
(* A dropped request is not pulled again.                                  *)
(***************************************************************************)
PullFound ==
    /\ ~pq.dropped
    /\ nextOffset < MaxOffset
    /\ \E n \in 1 .. MaxPull :
        LET batch == nextOffset .. (IF nextOffset + n > MaxOffset
                                    THEN MaxOffset ELSE nextOffset + n) - 1
        IN  /\ pq' = PutMessages(pq, batch)
            /\ nextOffset' = nextOffset + Cardinality(batch)
            /\ pool' = Append(pool, batch)
    /\ UNCHANGED <<wpc, wbatch, wresult, offsetTable, brokerOffset,
                   delivered, sentBack>>

(***************************************************************************)
(* A consume thread runs the oldest posted ConsumeRequest up to the call   *)
(* of removeMessage.  A dropped request only has its messages cleared.     *)
(* Otherwise the listener consumes the batch; on RECONSUME_LATER          *)
(* (ackIndex = -1) a clustering consumer sends every message back to the   *)
(* broker, a broadcasting one drops them.                                  *)
(***************************************************************************)
ConsumeRequest(w) ==
    /\ wpc[w] = "idle"
    /\ pool # <<>>
    /\ pool' = Tail(pool)
    /\ LET batch == Head(pool) IN
       IF pq.dropped
       THEN /\ pq' = ClearAllMsgs(pq)
            /\ UNCHANGED <<wpc, wbatch, delivered, sentBack>>
       ELSE \E status \in ConsumeStatus :
            /\ delivered' = delivered \cup batch
            /\ sentBack' = IF status = "RECONSUME_LATER"
                              /\ MessageModel = "CLUSTERING"
                           THEN sentBack \cup batch ELSE sentBack
            /\ wbatch' = [wbatch EXCEPT ![w] = batch]
            /\ wpc' = [wpc EXCEPT ![w] = "remove"]
            /\ UNCHANGED pq
    /\ UNCHANGED <<nextOffset, wresult, offsetTable, brokerOffset>>

\* Mutant of Remove: removeMessage returns one past the largest offset
\* instead of the smallest one still buffered.
RemoveCommitsMax(w) ==
    /\ wpc[w] = "remove"
    /\ LET r == RemoveMessage(pq, wbatch[w]) IN
       /\ pq' = r.queue
       /\ wresult' = [wresult EXCEPT ![w] = IF r.offset < 0 THEN -1
                                            ELSE pq.offsetMax + 1]
    /\ wpc' = [wpc EXCEPT ![w] = "update"]
    /\ UNCHANGED <<nextOffset, pool, wbatch, offsetTable, brokerOffset,
                   delivered, sentBack>>

\* request->removeMessage(msgs), whatever the listener's verdict.
Remove(w) ==
    /\ wpc[w] = "remove"
    /\ LET r == RemoveMessage(pq, wbatch[w]) IN
       /\ pq' = r.queue
       /\ wresult' = [wresult EXCEPT ![w] = r.offset]
    /\ wpc' = [wpc EXCEPT ![w] = "update"]
    /\ UNCHANGED <<nextOffset, pool, wbatch, offsetTable, brokerOffset,
                   delivered, sentBack>>

\* Mutant of UpdateOffset: the offset >= 0 check is dropped, so the -1 of
\* a dropped request is written.
UpdateOffsetUnchecked(w) ==
    /\ wpc[w] = "update"
    /\ offsetTable' = wresult[w]
    /\ wpc' = [wpc EXCEPT ![w] = "idle"]
    /\ wbatch' = [wbatch EXCEPT ![w] = {}]
    /\ UNCHANGED <<pq, nextOffset, pool, wresult, brokerOffset,
                   delivered, sentBack>>

\* if (offset >= 0) updateConsumeOffset(mq, offset): the offset store's
\* updateOffset overwrites the table entry unconditionally.
UpdateOffset(w) ==
    /\ wpc[w] = "update"
    /\ offsetTable' = IF wresult[w] >= 0 THEN wresult[w] ELSE offsetTable
    /\ wpc' = [wpc EXCEPT ![w] = "idle"]
    /\ wbatch' = [wbatch EXCEPT ![w] = {}]
    /\ UNCHANGED <<pq, nextOffset, pool, wresult, brokerOffset,
                   delivered, sentBack>>

(***************************************************************************)
(* Rebalance revokes the queue: the request and its ProcessQueue are       *)
(* marked dropped, the offset in the table is persisted to the broker      *)
(* (persist) and the entry removed (removeOffset).                         *)
(***************************************************************************)
Drop ==
    /\ ~pq.dropped
    /\ pq' = [pq EXCEPT !.dropped = TRUE]
    /\ brokerOffset' = offsetTable
    /\ offsetTable' = Absent
    /\ UNCHANGED <<nextOffset, pool, wpc, wbatch, wresult, delivered, sentBack>>

Next ==
    \/ PullFound
    \/ Drop
    \/ \E w \in Workers : ConsumeRequest(w) \/ Remove(w) \/ UpdateOffset(w)

\* The io_service threads are never starved; pulls are re-issued
\* immediately after a FOUND result.  Rebalance is not forced to happen.
Fairness ==
    /\ WF_vars(PullFound)
    /\ \A w \in Workers : WF_vars(ConsumeRequest(w) \/ Remove(w) \/ UpdateOffset(w))

Spec == Init /\ [][Next]_vars /\ Fairness

-----------------------------------------------------------------------------
(***************************************************************************)
(* Properties                                                              *)
(***************************************************************************)

\* At-least-once: the committed offset (in the table or persisted to the
\* broker at revocation) never covers a message the listener has not been
\* given.  Threads acknowledge batches out of order; removeMessage must
\* return the smallest offset still buffered for this to hold.
NoCommitPastUndelivered ==
    \A c \in {offsetTable, brokerOffset} \ {Absent} :
        \A o \in Offsets : o < c => o \in delivered

\* Every message pulled into a live ProcessQueue is eventually handed to
\* the listener: each posted ConsumeRequest is run by some pool thread.
PulledEventuallyConsumed ==
    \A o \in Offsets : (o \in pq.msgs /\ ~pq.dropped) ~> (o \in delivered \/ pq.dropped)

\* Spec section 8, invariant 3: the committed offset of a queue never
\* decreases.  Two threads acknowledging batches of the same queue compute
\* their offsets under the ProcessQueue mutex but write them later, under
\* the offset store mutex, in either order.
OffsetNeverDecreases ==
    [][offsetTable # Absent /\ offsetTable' # Absent
         => offsetTable' >= offsetTable]_offsetTable

\* Spec section 8, invariant 5: once the request is dropped no ack reaches
\* the offset store; the entry removed at revocation stays removed.
\* ConsumeRequest checks isDroped() only on entry.
NoAckAfterDrop ==
    pq.dropped => offsetTable = Absent

=============================================================================
