\* Spec 4.6 bound on redeliveries of a failing message.
CONSTANTS
    w1 = w1
    w2 = w2
    Workers <- MCWorkers
    MaxOffset = 3
    MaxPull = 2
    BatchMax = 1
    MaxFailures = 2
    MaxExpiries = 1
    MaxReconsumeTimes = 1
    MessageModel = "CLUSTERING"
    None = None
    Absent = Absent
SPECIFICATION Spec
INVARIANT BoundedRedelivery
\* After shutdown completes, or once every message is committed and no
\* lock is to renew, nothing modelled changes any more.
CHECK_DEADLOCK FALSE
