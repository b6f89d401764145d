\* Spec scenario S6: no listener call starts after shutdown.
CONSTANTS
    w1 = w1
    w2 = w2
    Workers <- MCWorkers
    MaxOffset = 3
    MaxPull = 2
    BatchMax = 1
    MaxFailures = 0
    MaxExpiries = 1
    MaxReconsumeTimes = 1
    MessageModel = "CLUSTERING"
    None = None
    Absent = Absent
SPECIFICATION Spec
PROPERTY NoConsumeAfterShutdown
\* After shutdown completes, or once every message is committed and no
\* lock is to renew, nothing modelled changes any more.
CHECK_DEADLOCK FALSE
