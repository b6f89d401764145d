------------------------ MODULE MC_ConcurrentConsume ------------------------
(* Model-checking instance of ConcurrentConsume: two consume threads, a     *)
(* queue of three messages and pulls of up to two, so that two batches are  *)
(* in the hands of two threads at once and can be acknowledged in either    *)
(* order.                                                                   *)
EXTENDS ConcurrentConsume, TLC

CONSTANTS w1, w2

MCWorkers == {w1, w2}

MCSymmetry == Permutations(MCWorkers)
=============================================================================
