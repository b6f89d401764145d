\* Spec invariant 3 against out-of-order acknowledgements.
CONSTANTS
    w1 = w1
    w2 = w2
    Workers <- MCWorkers
    MaxOffset = 3
    MaxPull = 2
    MessageModel = "CLUSTERING"
    Absent = Absent
SPECIFICATION Spec
PROPERTY OffsetNeverDecreases
\* Once the broker has no new message (pulls return NO_NEW_MSG and change
\* nothing modelled) or the queue is revoked, this queue's state stops changing.
CHECK_DEADLOCK FALSE
