------------------- MODULE MC_OrderlyPushConsumerExample -------------------
(* Model-checking instance of the orderly push example: two messages, two  *)
(* consume threads (two queues), batches of up to two, one redelivery.     *)
EXTENDS OrderlyPushConsumerExample

CONSTANTS l1, l2

MCListeners == {l1, l2}
=============================================================================
