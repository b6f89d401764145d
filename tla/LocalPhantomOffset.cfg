CONSTANTS
    t1 = t1
    t2 = t2
    q1 = q1
    q2 = q2
    Threads <- MCThreads
    Queues <- MCQueues
    OffsetVals <- MCOffsetVals
    None = None
    Absent = Absent
    NoResult = NoResult
    Exception = Exception
SPECIFICATION Spec
INVARIANT NoPhantomOffset
\* A thread blocked on m_lock for ever stops every other caller.
CHECK_DEADLOCK FALSE
