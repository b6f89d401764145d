----------------------- MODULE MC_LocalFileOffsetStore -----------------------
(* Two client threads and two queues of one consumer; one offset value is  *)
(* enough to tell a stored offset from the phantom 0 and from a miss (-1). *)
EXTENDS LocalFileOffsetStore, TLC

CONSTANTS t1, t2, q1, q2

MCThreads == {t1, t2}
MCQueues == {q1, q2}
MCOffsetVals == {5}
=============================================================================
