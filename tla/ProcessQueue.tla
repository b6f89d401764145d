---------------------------- MODULE ProcessQueue ----------------------------
(***************************************************************************)
(* The per-queue buffer of pulled but not yet acknowledged messages (the   *)
(* PullRequest / ProcessQueue of spec section 4.2).  Its implementation is *)
(* not part of the source tree, so these operators follow the spec.  A     *)
(* message is abstracted to its queue offset; a buffer is a record         *)
(*   msgs      offsets buffered (the offset -> message map)                *)
(*   consuming offsets handed to an orderly listener, a subset of msgs     *)
(*   offsetMax largest offset ever inserted (-1 before the first insert)   *)
(*   dropped   the sticky tombstone set when rebalance revokes the queue   *)
(* Operations are pure operators; the modules of the consume services      *)
(* apply them to their ProcessQueue variable inside one atomic step,       *)
(* because every mutating operation holds the queue's own mutex.           *)
(***************************************************************************)
EXTENDS Integers, FiniteSets, FiniteSetsExt

EmptyQueue == [msgs |-> {}, consuming |-> {}, offsetMax |-> -1, dropped |-> FALSE]

IsProcessQueue(pq, Offsets) ==
    pq \in [msgs : SUBSET Offsets, consuming : SUBSET Offsets,
            offsetMax : Offsets \cup {-1}, dropped : BOOLEAN]

\* putMessages: only offsets above offsetMax are new; a dropped queue is inert.
PutMessages(pq, batch) ==
    LET new == {o \in batch : o > pq.offsetMax}
    IN  IF pq.dropped \/ new = {} THEN pq
        ELSE [pq EXCEPT !.msgs = @ \cup new, !.offsetMax = Max(new)]

\* The safe commit offset: the smallest buffered offset, or one past the
\* largest offset ever inserted when nothing is buffered.
SafeOffset(pq) ==
    IF pq.msgs = {} THEN pq.offsetMax + 1 ELSE Min(pq.msgs)

\* removeMessage(msgs): the buffer after removal, and the offset it returns.
\* A dropped queue never contributes to commit offsets: it returns -1.
RemoveMessage(pq, batch) ==
    LET after == [pq EXCEPT !.msgs = @ \ batch, !.consuming = @ \ batch]
    IN  IF pq.dropped THEN [queue |-> pq, offset |-> -1]
        ELSE [queue |-> after, offset |-> SafeOffset(after)]

\* Mutant of TakeBatch: the map is walked from its end, so the largest
\* ready offsets are taken.
TakeBatchLargest(pq, maxBatch) ==
    LET ready == pq.msgs \ pq.consuming
        RECURSIVE Largest(_, _)
        Largest(S, k) == IF k = 0 \/ S = {} THEN {}
                         ELSE {Max(S)} \cup Largest(S \ {Max(S)}, k - 1)
    IN  IF pq.dropped THEN {} ELSE Largest(ready, maxBatch)

\* takeMessages(maxBatch): the (at most maxBatch) smallest offsets not yet
\* being consumed, in offset order, moved into the consuming set.
TakeBatch(pq, maxBatch) ==
    LET ready == pq.msgs \ pq.consuming
        RECURSIVE Smallest(_, _)
        Smallest(S, k) == IF k = 0 \/ S = {} THEN {}
                          ELSE {Min(S)} \cup Smallest(S \ {Min(S)}, k - 1)
    IN  IF pq.dropped THEN {} ELSE Smallest(ready, maxBatch)

TakeMessages(pq, maxBatch) ==
    [pq EXCEPT !.consuming = @ \cup TakeBatch(pq, maxBatch)]

\* commit(): the consuming set is consumed for good; returns the buffer and
\* the new safe commit offset (-1 when the queue was dropped).
Commit(pq) ==
    LET after == [pq EXCEPT !.msgs = @ \ pq.consuming, !.consuming = {}]
    IN  IF pq.dropped THEN [queue |-> pq, offset |-> -1]
        ELSE [queue |-> after, offset |-> SafeOffset(after)]

\* makeMessageToConsumeAgain(msgs): back from consuming to the head of msgs.
MakeMessageToConsumeAgain(pq, batch) ==
    [pq EXCEPT !.consuming = @ \ batch]

\* clearAllMsgs(): empties the buffer; idempotent.
ClearAllMsgs(pq) ==
    [pq EXCEPT !.msgs = {}, !.consuming = {}]

=============================================================================
