------------------------------ MODULE TaskQueue ------------------------------
(***************************************************************************)
(* TaskQueue (thread/task_queue.cpp): producers publish tasks into the     *)
(* disruptor ring under m_publishLock; the processor thread, inside        *)
(* TaskQueue::run(), hands each published slot to taskBatchHandler::       *)
(* OnEvent, which copies the task out of the slot and posts it to the      *)
(* io_service of the pull thread pool; a pool thread runs it later.        *)
(* close() clears m_flag, stops the io_service (handlers not yet run are   *)
(* discarded; join_all waits for running ones) and halts the processor.    *)
(* run() calls the processor's Run() until, after it returns, m_flag is    *)
(* false.  The ring is the disruptor's: a publisher waits for a free slot, *)
(* and Halt() alerts a Run() in progress once (a Run() started after the   *)
(* alert waits again).                                                     *)
(***************************************************************************)
EXTENDS Integers, FiniteSets

CONSTANTS
    Tasks,       \* tasks producers publish, each once (model values)
    RingSize     \* slots of the ring

ASSUME RingSize \in Nat \ {0}

VARIABLES
    ring,        \* slot contents: sequence number mod RingSize -> task
    pubSeq,      \* next sequence to publish
    consSeq,     \* next sequence the processor hands to OnEvent
    unproduced,  \* tasks no producer has published yet
    publishing,  \* the task of the producer holding m_publishLock, or "none"
    posted,      \* handlers posted to the io_service: [seq, task]
    runs,        \* times each task has run
    flag,        \* m_flag
    ioStopped,   \* m_ioService.stop() has been called
    alert,       \* Halt()'s alert not yet seen by Run()
    runPc,       \* the run() thread: "run" (in Run()), "check", "exit"
    closeIdx     \* close(): steps done; 0 = not called

vars == <<ring, pubSeq, consSeq, unproduced, publishing, posted, runs, flag, ioStopped,
          alert, runPc, closeIdx>>

Seqs == 0 .. Cardinality(Tasks)
Handlers == [seq : Seqs, task : Tasks]

TypeOK ==
    /\ ring \in [0 .. RingSize - 1 -> Tasks \cup {"empty"}]
    /\ pubSeq \in Seqs /\ consSeq \in Seqs /\ consSeq <= pubSeq
    /\ unproduced \subseteq Tasks
    /\ publishing \in Tasks \cup {"none"}
    /\ posted \subseteq Handlers
    /\ runs \in [Tasks -> Nat]
    /\ flag \in BOOLEAN /\ ioStopped \in BOOLEAN /\ alert \in BOOLEAN
    /\ runPc \in {"run", "check", "exit"}
    /\ closeIdx \in 0 .. 3

\* The TaskQueue constructor sets m_flag; the consumer then starts run().
Init ==
    /\ ring = [i \in 0 .. RingSize - 1 |-> "empty"]
    /\ pubSeq = 0 /\ consSeq = 0
    /\ unproduced = Tasks
    /\ publishing = "none"
    /\ posted = {}
    /\ runs = [t \in Tasks |-> 0]
    /\ flag = TRUE /\ ioStopped = FALSE /\ alert = FALSE
    /\ runPc = "run"
    /\ closeIdx = 0

\* produce(task) takes m_publishLock; the other producers wait for it.
Produce(t) ==
    /\ t \in unproduced
    /\ publishing = "none"
    /\ publishing' = t
    /\ UNCHANGED <<ring, pubSeq, consSeq, unproduced, posted, runs, flag, ioStopped, alert, runPc, closeIdx>>

\* Mutant of Publish: the lock is not released when PublishEvent returns.
PublishKeepsLock ==
    /\ publishing \in unproduced
    /\ pubSeq - consSeq < RingSize
    /\ ring' = [ring EXCEPT ![pubSeq % RingSize] = publishing]
    /\ pubSeq' = pubSeq + 1
    /\ unproduced' = unproduced \ {publishing}
    /\ UNCHANGED <<publishing, consSeq, posted, runs, flag, ioStopped, alert, runPc, closeIdx>>

\* PublishEvent, under the lock, for a task not yet published: it waits until the processor has freed the
\* next slot, TranslateTo copies the task into it, the sequence is published
\* and produce() returns, releasing the lock.
Publish ==
    /\ publishing \in unproduced
    /\ pubSeq - consSeq < RingSize
    /\ ring' = [ring EXCEPT ![pubSeq % RingSize] = publishing]
    /\ pubSeq' = pubSeq + 1
    /\ unproduced' = unproduced \ {publishing}
    /\ publishing' = "none"
    /\ UNCHANGED <<consSeq, posted, runs, flag, ioStopped, alert, runPc, closeIdx>>

\* Mutant of TaskOf: the handler is bound to the slot, and reads it when it
\* runs.
TaskOfSlot(h) == ring[h.seq % RingSize]

\* The task a posted handler runs: OnEvent's copy, Task currentTask(*event).
TaskOf(h) == h.task

\* Mutant of OnEvent: only the last event of a batch is posted.
OnEventEndOfBatch ==
    /\ runPc = "run"
    /\ consSeq < pubSeq
    /\ posted' = IF consSeq + 1 = pubSeq
                 THEN posted \cup {[seq |-> consSeq, task |-> ring[consSeq % RingSize]]}
                 ELSE posted
    /\ consSeq' = consSeq + 1
    /\ UNCHANGED <<ring, pubSeq, unproduced, publishing, runs, flag, ioStopped, alert, runPc, closeIdx>>

\* Mutant of OnEvent: the processor does not wait for the publisher's
\* cursor and hands on a slot that has not been published.
OnEventUnpublished ==
    /\ runPc = "run"
    /\ consSeq < Cardinality(Tasks)
    /\ posted' = posted \cup {[seq |-> consSeq, task |-> ring[consSeq % RingSize]]}
    /\ consSeq' = consSeq + 1
    /\ UNCHANGED <<ring, pubSeq, unproduced, publishing, runs, flag, ioStopped, alert, runPc, closeIdx>>

\* The processor, in Run(), hands the next published slot to OnEvent, which
\* posts runTaskEvent with a copy of the task; the slot is then free.
OnEvent ==
    /\ runPc = "run"
    /\ consSeq < pubSeq
    /\ posted' = posted \cup {[seq |-> consSeq, task |-> ring[consSeq % RingSize]]}
    /\ consSeq' = consSeq + 1
    /\ UNCHANGED <<ring, pubSeq, unproduced, publishing, runs, flag, ioStopped, alert, runPc, closeIdx>>

\* A pool thread runs a posted handler: runTaskEvent calls event.run().
RunTaskEvent(h) ==
    /\ h \in posted
    /\ ~ioStopped
    /\ posted' = posted \ {h}
    /\ runs' = [runs EXCEPT ![TaskOf(h)] = @ + 1]
    /\ UNCHANGED <<ring, pubSeq, consSeq, unproduced, publishing, flag, ioStopped, alert, runPc, closeIdx>>

\* Run() returns when it sees Halt()'s alert.
RunReturns ==
    /\ runPc = "run"
    /\ alert
    /\ alert' = FALSE
    /\ runPc' = "check"
    /\ UNCHANGED <<ring, pubSeq, consSeq, unproduced, publishing, posted, runs, flag, ioStopped, closeIdx>>

\* run(): after Run() returns, leave the loop if m_flag is false, else call
\* Run() again.
RunCheck ==
    /\ runPc = "check"
    /\ runPc' = IF flag THEN "run" ELSE "exit"
    /\ UNCHANGED <<ring, pubSeq, consSeq, unproduced, publishing, posted, runs, flag, ioStopped, alert, closeIdx>>

\* Mutant of CloseSteps: the processor is halted before m_flag is cleared.
CloseStepsHaltFirst == <<"halt", "flag", "stop">>

\* close(): m_flag.store(false), stopIOService(), Halt(), in this order.
CloseSteps == <<"flag", "stop", "halt">>

\* One statement of close(); the first step is the call.  stopIOService:
\* io_service::stop() and join_all, which waits for running handlers only.
CloseStep ==
    /\ closeIdx < 3
    /\ LET step == CloseSteps[closeIdx + 1]
       IN  /\ flag' = (flag /\ step # "flag")
           /\ ioStopped' = (ioStopped \/ step = "stop")
           /\ alert' = (alert \/ step = "halt")
    /\ closeIdx' = closeIdx + 1
    /\ UNCHANGED <<ring, pubSeq, consSeq, unproduced, publishing, posted, runs, runPc>>

Next ==
    \/ \E t \in Tasks : Produce(t)
    \/ Publish
    \/ OnEvent
    \/ \E h \in posted : RunTaskEvent(h)
    \/ RunReturns \/ RunCheck \/ CloseStep

(***************************************************************************)
(* The processor and run() threads are dedicated and keep running; the     *)
(* pool threads run what is posted while the io_service is not stopped; a  *)
(* producer in PublishEvent keeps waiting and takes its slot once free; a *)
(* close() that has begun runs to its end.  Producing and calling close()  *)
(* are the client's choice.                                                *)
(***************************************************************************)
Fairness ==
    /\ WF_vars(OnEvent) /\ WF_vars(Publish) /\ WF_vars(RunReturns) /\ WF_vars(RunCheck)
    /\ \A h \in Handlers : WF_vars(RunTaskEvent(h))
    /\ WF_vars(closeIdx > 0 /\ CloseStep)

Spec == Init /\ [][Next]_vars /\ Fairness

-----------------------------------------------------------------------------
(***************************************************************************)
(* Properties                                                              *)
(***************************************************************************)

\* Each published task runs at most once, and only published tasks run,
\* although a producer reuses a slot while the handler posted for it has
\* not run yet (OnEvent copies the task out of the slot).
EachTaskRunsOnce ==
    \A t \in Tasks : runs[t] <= 1 /\ (runs[t] = 1 => t \notin unproduced)

\* A producer in produce() returns and releases m_publishLock, unless the
\* thread in run() has left its loop after close(): then nothing frees a
\* slot of a full ring and the producer, with every producer queued on the
\* lock behind it, waits for good.
ProducerReturns ==
    \A t \in Tasks : publishing = t ~> (publishing # t \/ runPc = "exit")

\* A published task is run, unless close() stops the io_service first.
PublishedEventuallyRun ==
    \A t \in Tasks : t \notin unproduced ~> (runs[t] = 1 \/ ioStopped)

\* After close() returns, the thread in run() leaves its loop: the flag is
\* cleared before the Halt() that makes Run() return.
RunExitsAfterClose ==
    closeIdx = 3 ~> runPc = "exit"

=============================================================================
