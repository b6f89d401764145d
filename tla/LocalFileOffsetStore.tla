------------------------- MODULE LocalFileOffsetStore -------------------------
(***************************************************************************)
(* LocalFileOffsetStore (broadcasting consumers): the in-memory offset     *)
(* table m_offsetTable guarded by the non-recursive boost::mutex m_lock,   *)
(* and the offsets file it is persisted to.  Client threads call load,     *)
(* updateOffset, readOffset and persistAll concurrently; persist and       *)
(* removeOffset are empty in this variant.  A call that holds m_lock       *)
(* across several steps (readOffset) is split at the point where it calls  *)
(* load(), which takes m_lock itself.                                      *)
(*                                                                         *)
(* The file is abstracted to its state ("missing", "empty": it exists but *)
(* has no data, or "ok") and its decoded table from queue to offset.      *)
(***************************************************************************)
EXTENDS Integers, FiniteSets

CONSTANTS
    Threads,      \* client threads calling into the store (model values)
    Queues,       \* message queues of the consumer (model values)
    OffsetVals,   \* offsets callers pass to updateOffset
    None,         \* m_lock is free
    Absent,       \* no entry for a queue in a table
    NoResult,     \* the thread has no returned value yet
    Exception     \* the call ended by an exception

ReadOffsetType == {"READ_FROM_MEMORY", "MEMORY_FIRST_THEN_STORE", "READ_FROM_STORE"}

VARIABLES
    table,        \* m_offsetTable: queue -> offset or Absent
    file,         \* offsets file: [state, data: queue -> offset or Absent]
    holder,       \* thread holding m_lock, or None
    pc,           \* "idle", "read" (in readOffset), "load" (readOffset calls
                  \* load()), "hung" (blocked for ever)
    req,          \* the thread's readOffset arguments
    result,       \* the value the thread's last readOffset returned
    loaded,       \* load() has been called at start-up
    written       \* history: queues whose entry came from updateOffset or load

vars == <<table, file, holder, pc, req, result, loaded, written>>

Entries == [Queues -> OffsetVals \cup {0, Absent}]

TypeOK ==
    /\ table \in Entries
    /\ file \in [state : {"missing", "empty", "ok"}, data : Entries]
    /\ holder \in Threads \cup {None}
    /\ pc \in [Threads -> {"idle", "read", "load", "hung"}]
    /\ req \in [Threads -> [mq : Queues, type : ReadOffsetType]]
    /\ result \in [Threads -> OffsetVals \cup {0, -1, NoResult, Exception}]
    /\ loaded \in BOOLEAN
    /\ written \subseteq Queues

\* A consumer starts with whatever an earlier run left on disk.
Init ==
    /\ table = [q \in Queues |-> Absent]
    /\ \/ file \in [state : {"missing", "empty"}, data : {[q \in Queues |-> Absent]}]
       \/ file \in [state : {"ok"}, data : [Queues -> OffsetVals \cup {Absent}]]
    /\ holder = None
    /\ pc = [t \in Threads |-> "idle"]
    /\ req = [t \in Threads |-> [mq |-> CHOOSE q \in Queues : TRUE,
                                   type |-> "READ_FROM_MEMORY"]]
    /\ result = [t \in Threads |-> NoResult]
    /\ loaded = FALSE
    /\ written = {}

\* The entries of the file that decode to a queue.
FileQueues == IF file.state # "ok" THEN {} ELSE {q \in Queues : file.data[q] # Absent}

\* load()'s effect once it holds m_lock: a missing file is only logged, an
\* empty one throws, otherwise every decoded entry overwrites the table.
LoadedTable ==
    [q \in Queues |-> IF q \in FileQueues THEN file.data[q] ELSE table[q]]

(***************************************************************************)
(* load() called by the consumer at start-up.                              *)
(***************************************************************************)
Load(t) ==
    /\ pc[t] = "idle"
    /\ holder = None
    /\ ~loaded
    /\ loaded' = TRUE
    /\ table' = LoadedTable
    /\ written' = written \cup FileQueues
    /\ result' = [result EXCEPT ![t] = IF file.state = "empty" THEN Exception ELSE NoResult]
    /\ UNCHANGED <<file, holder, pc, req>>

\* updateOffset(mq, offset): m_offsetTable[mq] = offset under m_lock.
UpdateOffset(t) ==
    /\ pc[t] = "idle"
    /\ holder = None
    /\ \E q \in Queues, v \in OffsetVals :
        /\ table' = [table EXCEPT ![q] = v]
        /\ written' = written \cup {q}
    /\ UNCHANGED <<file, holder, pc, req, result, loaded>>

\* readOffset(mq, type) takes m_lock for the whole call.
ReadOffset(t) ==
    /\ pc[t] = "idle"
    /\ holder = None
    /\ holder' = t
    /\ pc' = [pc EXCEPT ![t] = "read"]
    /\ \E q \in Queues, ty \in ReadOffsetType :
          req' = [req EXCEPT ![t] = [mq |-> q, type |-> ty]]
    /\ result' = [result EXCEPT ![t] = NoResult]
    /\ UNCHANGED <<table, file, loaded, written>>

\* The memory cases of readOffset's switch: a hit returns the entry, a miss
\* returns -1 for READ_FROM_MEMORY and falls through to READ_FROM_STORE
\* (load()) for MEMORY_FIRST_THEN_STORE.
ReadMemory(t) ==
    /\ pc[t] = "read"
    /\ LET q == req[t].mq
           ty == req[t].type
       IN  IF ty # "READ_FROM_STORE" /\ table[q] # Absent
           THEN /\ result' = [result EXCEPT ![t] = table[q]]
                /\ pc' = [pc EXCEPT ![t] = "idle"]
                /\ holder' = None
           ELSE IF ty = "READ_FROM_MEMORY"
           THEN /\ result' = [result EXCEPT ![t] = -1]
                /\ pc' = [pc EXCEPT ![t] = "idle"]
                /\ holder' = None
           ELSE /\ pc' = [pc EXCEPT ![t] = "load"]
                /\ UNCHANGED <<result, holder>>
    /\ UNCHANGED <<table, file, req, loaded, written>>

(***************************************************************************)
(* readOffset calls load() while it holds m_lock, and load() locks m_lock  *)
(* again.  Relocking a non-recursive boost::mutex from its owner is        *)
(* undefined; the builds produce one of two outcomes: the thread blocks    *)
(* for ever (default pthread mutex) or lock() throws boost::lock_error,    *)
(* which readOffset's catch (MQException&) does not catch, so the call     *)
(* ends by an exception and the lock_guard releases m_lock.                *)
(***************************************************************************)
LoadRelock(t) ==
    /\ pc[t] = "load"
    /\ holder = t
    /\ \/ /\ pc' = [pc EXCEPT ![t] = "hung"]
          /\ UNCHANGED <<holder, result>>
       \/ /\ pc' = [pc EXCEPT ![t] = "idle"]
          /\ holder' = None
          /\ result' = [result EXCEPT ![t] = Exception]
    /\ UNCHANGED <<table, file, req, loaded, written>>

(***************************************************************************)
(* persistAll(mqs) under m_lock: m_offsetTable[*it] for each queue of mqs  *)
(* (operator[] inserts 0 for a queue without an entry), then the file is   *)
(* rewritten with exactly those queues; if it cannot be opened the call    *)
(* throws and the file is left as it was.                                  *)
(***************************************************************************)
PersistAll(t) ==
    /\ pc[t] = "idle"
    /\ holder = None
    /\ \E mqs \in SUBSET Queues, opened \in BOOLEAN :
        LET snap == [q \in Queues |-> IF q \notin mqs THEN Absent
                                      ELSE IF table[q] = Absent THEN 0
                                      ELSE table[q]]
        IN  /\ table' = [q \in Queues |-> IF q \in mqs THEN snap[q] ELSE table[q]]
            /\ file' = IF opened THEN [state |-> "ok", data |-> snap] ELSE file
            /\ result' = [result EXCEPT ![t] = IF opened THEN NoResult ELSE Exception]
    /\ UNCHANGED <<holder, pc, req, loaded, written>>

Next ==
    \E t \in Threads :
        \/ Load(t) \/ UpdateOffset(t) \/ PersistAll(t)
        \/ ReadOffset(t) \/ ReadMemory(t) \/ LoadRelock(t)

\* Every thread in a call keeps running.
Fairness == \A t \in Threads : WF_vars(ReadMemory(t)) /\ WF_vars(LoadRelock(t))

Spec == Init /\ [][Next]_vars /\ Fairness

-----------------------------------------------------------------------------
(***************************************************************************)
(* Properties                                                              *)
(***************************************************************************)

\* Spec section 4.1: readOffset returns the offset, or -1 on a miss.  A
\* MEMORY_FIRST_THEN_STORE miss or a READ_FROM_STORE read goes through
\* load() while readOffset holds m_lock.
ReadOffsetReturns ==
    \A t \in Threads : (pc[t] = "read") ~> (pc[t] = "idle" /\ result[t] \in Int)

\* Spec section 4.1: an entry in the offset table comes from updateOffset or
\* from the file, so a queue that was never consumed reads as a miss (-1)
\* and the consumer falls back to its consume-from-where policy.
\* persistAll's m_offsetTable[*it] creates entries.
NoPhantomOffset ==
    \A q \in Queues : table[q] # Absent => q \in written

=============================================================================
