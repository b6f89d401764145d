------------------------- MODULE MC_OrderlyConsume -------------------------
(* Model-checking instance of OrderlyConsume: two consume threads compete   *)
(* for the request's critical section over a queue of three messages.      *)
EXTENDS OrderlyConsume, TLC

CONSTANTS w1, w2

MCWorkers == {w1, w2}
=============================================================================
