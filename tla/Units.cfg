\* The MessageQueue order, route decoding, the string helpers, the pull
\* example, the task queue, the orderly example, the Validators checks
\* and TopicConfig's text form, each from all of its
\* own initial states.
CONSTANTS
    q1 = q1
    q2 = q2
    Absent = Absent
    a = a
    b = b
    c = c
    l1 = l1
    l2 = l2
SPECIFICATION Spec
INVARIANT OrderAgreesWithSpec
INVARIANT DecodeIgnoresListOrder
INVARIANT SelectsAMaster
INVARIANT SplitAgreesWithSpec
INVARIANT StringToInt32AgreesWithSpec
INVARIANT SplitStrAgreesWithSplit
INVARIANT StringToInt64AgreesWithSpec
INVARIANT TrimAgreesWithSpec
INVARIANT Bytes2StringAgreesWithSpec
INVARIANT SplitURLAgreesWithSpec
INVARIANT NoMessageSkipped
INVARIANT NoMessageCountedTwice
PROPERTY LoopTerminates
INVARIANT TypeOK
INVARIANT EachTaskRunsOnce
PROPERTY PublishedEventuallyRun
PROPERTY RunExitsAfterClose
PROPERTY ProducerReturns
INVARIANT ExitOnlyAfterAllCounted
INVARIANT AcceptsEveryValidName
INVARIANT DecodeInvertsEncode
\* The example programs exit; the task queue is idle for good once every task has run, or after close().
CHECK_DEADLOCK FALSE
