-------------------- MODULE OrderlyPushConsumerExample --------------------
(***************************************************************************)
(* example/OrderlyPushConsumer.cpp: main starts an orderly push consumer,  *)
(* sends g_msgCount messages, then waits on g_finished until g_quit is     *)
(* set.  The listener, MyMsgListener::consumeMessage, runs on the consume  *)
(* threads (one per queue); when it finds g_consumedCount already at       *)
(* g_msgCount it sets g_quit and calls notify_one under g_mtx, then counts *)
(* its batch one message at a time.                                        *)
(*                                                                         *)
(* main reads g_quit without holding g_mtx, then locks g_mtx and waits:    *)
(* wait() releases the lock and blocks in one step, so main's lock-and-    *)
(* wait is one action; the listener's lock, store and notify is another.   *)
(* A wait may end spuriously.  A send may fail (the exception is caught    *)
(* and the message not re-sent) before or after the broker stored it.     *)
(* The consumer delivers each stored message at least once: a message      *)
(* already consumed may come again, as after a rebalance before its offset *)
(* was persisted.                                                          *)
(***************************************************************************)
EXTENDS Naturals

CONSTANTS
    MsgCount,     \* g_msgCount, from the command line
    MaxBatch,     \* consumeMessageBatchMaxSize (31), scaled down
    Listeners,    \* consume threads, one per queue (model values)
    MaxRedeliver  \* bound: redeliveries of consumed messages

ASSUME MsgCount \in Nat \ {0} /\ MaxBatch \in Nat \ {0} /\ MaxRedeliver \in Nat

VARIABLES
    mainPc,      \* "send", "check" (reads g_quit), "lock", "wait" (in wait()), "exit"
    sent,        \* loop index i of the send loop
    stored,      \* messages the broker holds for the consumer, not yet delivered
    redelivered, \* redeliveries so far
    consumed,    \* g_consumedCount
    quit,        \* g_quit
    waiting,     \* main is in g_finished's wait set
    lpc,         \* each listener thread: "idle" or "count"
    lleft        \* messages of its batch the thread has still to count

vars == <<mainPc, sent, stored, redelivered, consumed, quit, waiting, lpc, lleft>>

TypeOK ==
    /\ mainPc \in {"send", "check", "lock", "wait", "exit"}
    /\ sent \in 0 .. MsgCount
    /\ stored \in 0 .. MsgCount + MaxRedeliver
    /\ redelivered \in 0 .. MaxRedeliver
    /\ consumed \in Nat /\ quit \in BOOLEAN /\ waiting \in BOOLEAN
    /\ lpc \in [Listeners -> {"idle", "count"}]
    /\ lleft \in [Listeners -> 0 .. MaxBatch]

Init ==
    /\ mainPc = "send" /\ sent = 0
    /\ stored = 0 /\ redelivered = 0
    /\ consumed = 0 /\ quit = FALSE /\ waiting = FALSE
    /\ lpc = [l \in Listeners |-> "idle"]
    /\ lleft = [l \in Listeners |-> 0]

\* producer.send(msg) in the for loop: the broker stores the message and the
\* send returns, or the send throws (MQException, caught and logged) after
\* the broker stored it or without it being stored.
Send ==
    /\ mainPc = "send"
    /\ sent < MsgCount
    /\ stored' \in {stored, stored + 1}
    /\ sent' = sent + 1
    /\ mainPc' = IF sent + 1 = MsgCount THEN "check" ELSE "send"
    /\ UNCHANGED <<redelivered, consumed, quit, waiting, lpc, lleft>>

\* while (!g_quit.load()): leave the loop, or go on to lock and wait.
Check ==
    /\ mainPc = "check"
    /\ mainPc' = IF quit THEN "exit" ELSE "lock"
    /\ UNCHANGED <<sent, stored, redelivered, consumed, quit, waiting, lpc, lleft>>

\* unique_lock lk(g_mtx); g_finished.wait(lk): main joins the wait set.
LockAndWait ==
    /\ mainPc = "lock"
    /\ waiting' = TRUE
    /\ mainPc' = "wait"
    /\ UNCHANGED <<sent, stored, redelivered, consumed, quit, lpc, lleft>>

\* wait() returns, notified or spuriously, and main re-acquires and then
\* releases g_mtx at the end of the loop body.
Wake ==
    /\ mainPc = "wait"
    /\ mainPc' = "check"
    /\ waiting' = FALSE
    /\ UNCHANGED <<sent, stored, redelivered, consumed, quit, lpc, lleft>>

\* Mutant of Deliver: the listener counts the batch it is given before
\* comparing with g_msgCount.
DeliverCountsBatch(l, n) ==
    /\ lpc[l] = "idle"
    /\ n <= stored
    /\ stored' = stored - n
    /\ IF consumed + n >= MsgCount
       THEN quit' = TRUE /\ waiting' = FALSE
       ELSE UNCHANGED <<quit, waiting>>
    /\ lpc' = [lpc EXCEPT ![l] = "count"]
    /\ lleft' = [lleft EXCEPT ![l] = n]
    /\ UNCHANGED <<mainPc, sent, redelivered, consumed>>

\* The orderly service hands a batch of n stored messages to
\* consumeMessage: if g_consumedCount >= g_msgCount it sets g_quit and
\* notifies one waiter under g_mtx.  notify_one takes main out of the wait
\* set if it is there and is lost otherwise.
Deliver(l, n) ==
    /\ lpc[l] = "idle"
    /\ n <= stored
    /\ stored' = stored - n
    /\ IF consumed >= MsgCount
       THEN quit' = TRUE /\ waiting' = FALSE
       ELSE UNCHANGED <<quit, waiting>>
    /\ lpc' = [lpc EXCEPT ![l] = "count"]
    /\ lleft' = [lleft EXCEPT ![l] = n]
    /\ UNCHANGED <<mainPc, sent, redelivered, consumed>>

\* A consumed message is delivered again (at-least-once delivery).
Redeliver ==
    /\ redelivered < MaxRedeliver
    /\ consumed > 0
    /\ stored' = stored + 1
    /\ redelivered' = redelivered + 1
    /\ UNCHANGED <<mainPc, sent, consumed, quit, waiting, lpc, lleft>>

\* ++g_consumedCount for one message of the batch; after the last one the
\* listener returns CONSUME_SUCCESS.
Count(l) ==
    /\ lpc[l] = "count"
    /\ consumed' = consumed + 1
    /\ lleft' = [lleft EXCEPT ![l] = @ - 1]
    /\ lpc' = [lpc EXCEPT ![l] = IF lleft[l] = 1 THEN "idle" ELSE "count"]
    /\ UNCHANGED <<mainPc, sent, stored, redelivered, quit, waiting>>

Next ==
    \/ Send \/ Check \/ LockAndWait \/ Wake \/ Redeliver
    \/ \E l \in Listeners :
          \/ \E n \in 1 .. MaxBatch : Deliver(l, n)
          \/ Count(l)

(***************************************************************************)
(* main runs; a notified waiter wakes; the consumer keeps delivering what  *)
(* the broker stores, and a listener call runs to its end.  Spurious       *)
(* wakeups and redeliveries may happen but are not forced.                 *)
(***************************************************************************)
Fairness ==
    /\ WF_vars(Send) /\ WF_vars(Check) /\ WF_vars(LockAndWait)
    /\ WF_vars(~waiting /\ Wake)
    /\ \A l \in Listeners :
          /\ WF_vars(\E n \in 1 .. MaxBatch : Deliver(l, n))
          /\ WF_vars(Count(l))

Spec == Init /\ [][Next]_vars /\ Fairness

-----------------------------------------------------------------------------
(***************************************************************************)
(* Properties                                                              *)
(***************************************************************************)

\* main returns only once the listener has counted g_msgCount messages:
\* g_quit is set by a listener call that finds the count already there,
\* and main's loop re-reads g_quit after every wakeup, spurious ones too.
ExitOnlyAfterAllCounted == mainPc = "exit" => consumed >= MsgCount

=============================================================================
