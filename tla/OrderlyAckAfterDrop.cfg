\* A thread inside the listener when rebalance revokes the queue goes on to
\* updateConsumeOffset(mq, commit()) and writes the -1 commit() returns.
CONSTANTS
    w1 = w1
    w2 = w2
    Workers <- MCWorkers
    MaxOffset = 3
    MaxPull = 2
    BatchMax = 2
    MaxFailures = 1
    MaxExpiries = 1
    MaxReconsumeTimes = 1
    MessageModel = "CLUSTERING"
    None = None
    Absent = Absent
SPECIFICATION Spec
INVARIANT NoAckAfterDrop
\* After shutdown completes, or once every message is committed and no
\* lock is to renew, nothing modelled changes any more.
CHECK_DEADLOCK FALSE
