\* Spec invariant 5 against a ConsumeRequest in flight when the queue is revoked.
CONSTANTS
    w1 = w1
    w2 = w2
    Workers <- MCWorkers
    MaxOffset = 3
    MaxPull = 2
    MessageModel = "CLUSTERING"
    Absent = Absent
SPECIFICATION Spec
INVARIANT NoAckAfterDrop
\* Once the broker has no new message (pulls return NO_NEW_MSG and change
\* nothing modelled) or the queue is revoked, this queue's state stops changing.
CHECK_DEADLOCK FALSE
