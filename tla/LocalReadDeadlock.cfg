CONSTANTS
    t1 = t1
    t2 = t2
    q1 = q1
    q2 = q2
    Threads <- MCThreads
    Queues <- MCQueues
    OffsetVals <- MCOffsetVals
    None = None
    Absent = Absent
    NoResult = NoResult
    Exception = Exception
SPECIFICATION Spec
PROPERTY ReadOffsetReturns
\* A thread blocked on m_lock for ever stops every other caller: the state
\* where all threads wait is the behaviour under test, not a modelling gap.
CHECK_DEADLOCK FALSE
