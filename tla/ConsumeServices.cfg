\* Safety and progress of both consume services (concurrent and orderly).
CONSTANTS
    w1 = w1
    w2 = w2
    Absent = Absent
    None = None
SPECIFICATION Spec
INVARIANT TypeOK
INVARIANT NoCommitPastUndelivered
INVARIANT InOrderDelivery
INVARIANT CommitOnlyAcked
PROPERTY PulledEventuallyConsumed
PROPERTY PulledEventuallyCommitted
\* A service stops changing once the broker has no new message, the queue
\* is revoked, or (orderly) shutdown completes or every offset is committed.
CHECK_DEADLOCK FALSE
