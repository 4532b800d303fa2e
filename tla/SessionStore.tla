---------------------------- MODULE SessionStore ----------------------------
(***************************************************************************)
(* The session store Coordinator of one function pool: an asynchronous     *)
(* write queue with one worker, synchronous cleanup when the pool is       *)
(* destroyed, and singleflight reads.                                      *)
(*                                                                         *)
(* The pool calls SaveRecord and DeleteRecord under its own lock, so there *)
(* is one caller at a time; deletePool stops and cleans without that lock, *)
(* while requests that still hold the pool go on calling.  A record is its *)
(* instance ID; NoRecord as a written value stands for Delete.             *)
(*                                                                         *)
(* The Redis client bounds an operation with a timeout (doWithTimeout): on *)
(* a timeout the caller is told of an error and the command goes on in its *)
(* own goroutine.  An operation may also fail without effect, and a failed *)
(* one is only logged.  Timeouts and Failures are the keys on whose        *)
(* operations this may happen, so that what holds of a key whose own       *)
(* operations succeed can be told apart.                                   *)
(***************************************************************************)
EXTENDS Naturals, Sequences, FiniteSets, SequencesExt

CONSTANTS
  Keys,        \* session keys
  Values,      \* instance IDs
  NoRecord,    \* no record, and the value a Delete writes
  Unknown,     \* the scheduler has not used this key yet
  Getters,     \* goroutines that look a session up after a local miss
  QueueSize,   \* asyncQueueSize
  MaxOps,      \* bound on the Save and Delete calls
  Failures,    \* keys: a store operation may fail without effect
  Timeouts     \* keys: a store operation may time out and take effect later

ASSUME SessionStoreAssumption ==
  /\ QueueSize \in Nat /\ MaxOps \in Nat
  /\ NoRecord \notin Values /\ Unknown \notin Values \cup {NoRecord}
  /\ Failures \subseteq Keys /\ Timeouts \subseteq Keys

VARIABLES
  store,      \* the external store
  last,       \* per key, the value of the pool's last call (its own session map)
  ops,        \* how many calls were made
  caller,     \* the call under way: before or after it has started the worker
  queue,      \* the operations accepted and not yet taken by the worker
  started,    \* started: the worker goroutine was launched
  worker,     \* where the worker stands, with the operation it executes
  cancelled,  \* the queue's ctx is done
  late,       \* operations that timed out and still run
  destroyer,  \* deletePool: its position, the keys to clean, the keys cleaned
  calls,      \* StoreCallGroup.calls: the read in flight per key
  g           \* the getters

vars == <<store, last, ops, caller, queue, started, worker, cancelled, late, destroyer, calls, g>>

Written == Values \cup {NoRecord}
Op == [key : Keys, val : Written]

NoCall == [pc |-> "none"]
IdleGetter == [pc |-> "idle"]

-----------------------------------------------------------------------------
(***************************************************************************)
(* The external store, as the Redis client shows it to its callers.        *)
(***************************************************************************)
Put(s, op) == [s EXCEPT ![op.key] = op.val]

\* Save or Delete: done, failed, or timed out and left running.
Execute(op) ==
  \/ store' = Put(store, op) /\ UNCHANGED late
  \/ op.key \in Failures /\ UNCHANGED <<store, late>>
  \/ op.key \in Timeouts /\ late' = Append(late, op) /\ UNCHANGED store

\* The goroutine of an operation that timed out gets its command through.
LateLand(i) ==
  /\ i \in DOMAIN late
  /\ store' = Put(store, late[i])
  /\ late' = RemoveAt(late, i)
  /\ UNCHANGED <<last, ops, caller, queue, started, worker, cancelled, destroyer, calls, g>>

-----------------------------------------------------------------------------
(***************************************************************************)
(* asyncStoreQueue.                                                        *)
(***************************************************************************)

\* SaveRecord or DeleteRecord, under the pool's lock; enqueue first launches
\* the worker, once.
Submit(k, v) ==
  /\ caller.pc = "idle" /\ ops < MaxOps
  /\ ops' = ops + 1
  /\ last' = [last EXCEPT ![k] = v]
  /\ caller' = [pc |-> "enqueue", op |-> [key |-> k, val |-> v]]
  /\ started' = TRUE
  /\ worker' = IF started THEN worker ELSE [pc |-> "loop"]
  /\ UNCHANGED <<store, queue, cancelled, late, destroyer, calls, g>>

\* Faults: one operation too many is let in; the ctx is not checked; a full queue
\* makes room by dropping its oldest operation.
Enqueue_OneTooMany ==
  /\ caller.pc = "enqueue"
  /\ queue' = IF ~cancelled /\ Len(queue) <= QueueSize THEN Append(queue, caller.op) ELSE queue
  /\ caller' = [pc |-> "idle"]
  /\ UNCHANGED <<store, last, ops, started, worker, cancelled, late, destroyer, calls, g>>
Enqueue_NoCheck ==
  /\ caller.pc = "enqueue"
  /\ queue' = IF Len(queue) < QueueSize THEN Append(queue, caller.op) ELSE queue
  /\ caller' = [pc |-> "idle"]
  /\ UNCHANGED <<store, last, ops, started, worker, cancelled, late, destroyer, calls, g>>
Enqueue_DropOldest ==
  /\ caller.pc = "enqueue"
  /\ queue' = IF cancelled THEN queue
              ELSE Append(IF Len(queue) < QueueSize THEN queue ELSE Tail(queue), caller.op)
  /\ caller' = [pc |-> "idle"]
  /\ UNCHANGED <<store, last, ops, started, worker, cancelled, late, destroyer, calls, g>>

\* The rest of enqueue, under mu: refused once the ctx is done, dropped when the
\* queue is full.
Enqueue ==
  /\ caller.pc = "enqueue"
  /\ queue' = IF ~cancelled /\ Len(queue) < QueueSize THEN Append(queue, caller.op) ELSE queue
  /\ caller' = [pc |-> "idle"]
  /\ UNCHANGED <<store, last, ops, started, worker, cancelled, late, destroyer, calls, g>>

\* loop and drainRemaining take the next operation.
WorkerTake ==
  /\ worker.pc = "loop" /\ queue # <<>>
  /\ worker' = [pc |-> "busy", op |-> Head(queue)]
  /\ queue' = Tail(queue)
  /\ UNCHANGED <<store, last, ops, caller, started, cancelled, late, destroyer, calls, g>>

\* process
WorkerProcess ==
  /\ worker.pc = "busy"
  /\ Execute(worker.op)
  /\ worker' = [pc |-> "loop"]
  /\ UNCHANGED <<last, ops, caller, queue, started, cancelled, destroyer, calls, g>>

\* loop after ctx.Done, with nothing left to drain: done is closed.
WorkerExit ==
  /\ worker.pc = "loop" /\ cancelled /\ queue = <<>>
  /\ worker' = [pc |-> "exited"]
  /\ UNCHANGED <<store, last, ops, caller, queue, started, cancelled, late, destroyer, calls, g>>

-----------------------------------------------------------------------------
(***************************************************************************)
(* deletePool: the sessions are taken under the pool's lock; Stop and      *)
(* CleanRecords follow without it.                                         *)
(***************************************************************************)
Destroy ==
  /\ destroyer.pc = "idle" /\ caller.pc = "idle"
  /\ destroyer' = [pc |-> "cancel", todo |-> {k \in Keys : last[k] \in Values}, cleaned |-> {}]
  /\ last' = [k \in Keys |-> IF last[k] \in Values THEN NoRecord ELSE last[k]]
  /\ UNCHANGED <<store, ops, caller, queue, started, worker, cancelled, late, calls, g>>

\* stop cancels the ctx under mu.
Cancel ==
  /\ destroyer.pc = "cancel"
  /\ cancelled' = TRUE
  /\ destroyer' = [destroyer EXCEPT !.pc = "wait"]
  /\ UNCHANGED <<store, last, ops, caller, queue, started, worker, late, calls, g>>

\* Faults: stop does not wait for the worker; it waits for one never launched.
StopWait_NoWait ==
  /\ destroyer.pc = "wait"
  /\ destroyer' = [destroyer EXCEPT !.pc = "clean"]
  /\ UNCHANGED <<store, last, ops, caller, queue, started, worker, cancelled, late, calls, g>>
StopWait_Always ==
  /\ destroyer.pc = "wait" /\ worker.pc = "exited"
  /\ destroyer' = [destroyer EXCEPT !.pc = "clean"]
  /\ UNCHANGED <<store, last, ops, caller, queue, started, worker, cancelled, late, calls, g>>

\* stop returns: the worker has exited, if it was ever launched.
StopWait ==
  /\ destroyer.pc = "wait" /\ (started => worker.pc = "exited")
  /\ destroyer' = [destroyer EXCEPT !.pc = "clean"]
  /\ UNCHANGED <<store, last, ops, caller, queue, started, worker, cancelled, late, calls, g>>

\* CleanRecords deletes the records one by one; a failed delete is only logged.
CleanRecord(k) ==
  /\ destroyer.pc = "clean" /\ k \in destroyer.todo
  /\ Execute([key |-> k, val |-> NoRecord])
  /\ destroyer' = [destroyer EXCEPT !.todo = @ \ {k},
                                    !.cleaned = IF store'[k] = NoRecord THEN @ \cup {k} ELSE @]
  /\ UNCHANGED <<last, ops, caller, queue, started, worker, cancelled, calls, g>>

-----------------------------------------------------------------------------
(***************************************************************************)
(* GetRecord and StoreCallGroup.Do.                                        *)
(***************************************************************************)

\* Fault: the calls in flight are not looked up.
GetStart_NoJoin(t, k) ==
  /\ g[t].pc = "idle" /\ last[k] \notin Values
  /\ calls' = [calls EXCEPT ![k] = [pc |-> "flying"]]
  /\ g' = [g EXCEPT ![t] = [pc |-> "read", key |-> k, val |-> NoRecord]]
  /\ UNCHANGED <<store, last, ops, caller, queue, started, worker, cancelled, late, destroyer>>

\* A local miss: the getter leads a read, waits for the one in flight, or takes
\* the result of one that is just over.
GetStart(t, k) ==
  /\ g[t].pc = "idle" /\ last[k] \notin Values
  /\ calls' = IF calls[k] = NoCall THEN [calls EXCEPT ![k] = [pc |-> "flying"]] ELSE calls
  /\ g' = [g EXCEPT ![t] = CASE calls[k].pc = "none" -> [pc |-> "read", key |-> k, val |-> NoRecord]
                             [] calls[k].pc = "flying" -> [pc |-> "wait", key |-> k, val |-> NoRecord]
                             [] calls[k].pc = "done" -> [pc |-> "return", key |-> k, val |-> calls[k].val]]
  /\ UNCHANGED <<store, last, ops, caller, queue, started, worker, cancelled, late, destroyer>>

\* The leader reads the store; an error counts as no record for the callers.
GetRead(t) ==
  /\ g[t].pc = "read"
  /\ \E v \in {store[g[t].key]} \cup (IF g[t].key \in Failures \cup Timeouts THEN {NoRecord} ELSE {}) :
       g' = [g EXCEPT ![t].pc = "publish", ![t].val = v]
  /\ UNCHANGED <<store, last, ops, caller, queue, started, worker, cancelled, late, destroyer, calls>>

\* Fault: the call is removed before the waiters are told.
GetPublish_NoWake(t) ==
  /\ g[t].pc = "publish"
  /\ calls' = [calls EXCEPT ![g[t].key] = [pc |-> "done", val |-> g[t].val]]
  /\ g' = [g EXCEPT ![t].pc = "delete"]
  /\ UNCHANGED <<store, last, ops, caller, queue, started, worker, cancelled, late, destroyer>>

\* close(c.done): everyone waiting for the call gets its result.
GetPublish(t) ==
  /\ g[t].pc = "publish"
  /\ calls' = [calls EXCEPT ![g[t].key] = [pc |-> "done", val |-> g[t].val]]
  /\ g' = [u \in Getters |->
             IF u = t THEN [g[t] EXCEPT !.pc = "delete"]
             ELSE IF g[u].pc = "wait" /\ g[u].key = g[t].key
                  THEN [g[u] EXCEPT !.pc = "return", !.val = g[t].val]
                  ELSE g[u]]
  /\ UNCHANGED <<store, last, ops, caller, queue, started, worker, cancelled, late, destroyer>>

GetDelete(t) ==
  /\ g[t].pc = "delete"
  /\ calls' = [calls EXCEPT ![g[t].key] = NoCall]
  /\ g' = [g EXCEPT ![t].pc = "return"]
  /\ UNCHANGED <<store, last, ops, caller, queue, started, worker, cancelled, late, destroyer>>

GetReturn(t) ==
  /\ g[t].pc = "return"
  /\ g' = [g EXCEPT ![t] = IdleGetter]
  /\ UNCHANGED <<store, last, ops, caller, queue, started, worker, cancelled, late, destroyer, calls>>

-----------------------------------------------------------------------------
\* The store may hold what an earlier scheduler left behind.
Init ==
  /\ store \in [Keys -> Written]
  /\ last = [k \in Keys |-> Unknown]
  /\ ops = 0 /\ caller = [pc |-> "idle"]
  /\ queue = <<>> /\ started = FALSE /\ worker = [pc |-> "off"] /\ cancelled = FALSE
  /\ late = <<>>
  /\ destroyer = [pc |-> "idle", todo |-> {}, cleaned |-> {}]
  /\ calls = [k \in Keys |-> NoCall]
  /\ g = [t \in Getters |-> IdleGetter]

Worker == WorkerTake \/ WorkerProcess \/ WorkerExit
Destroyer == Cancel \/ StopWait \/ \E k \in Keys : CleanRecord(k)
Getter(t) == GetRead(t) \/ GetPublish(t) \/ GetDelete(t) \/ GetReturn(t)

Next ==
  \/ \E k \in Keys, v \in Written : Submit(k, v)
  \/ Enqueue \/ Worker
  \/ Destroy \/ Destroyer
  \/ \E i \in 1 .. MaxOps + Cardinality(Keys) : LateLand(i)
  \/ \E t \in Getters : (\E k \in Keys : GetStart(t, k)) \/ Getter(t)

Spec == Init /\ [][Next]_vars

\* Every goroutine that can run keeps running.
Fairness ==
  /\ WF_vars(Enqueue) /\ WF_vars(Worker) /\ WF_vars(Destroyer)
  /\ \A t \in Getters : WF_vars(Getter(t))

FairSpec == Spec /\ Fairness

-----------------------------------------------------------------------------
\* The state is well-formed; the channel of asyncStoreQueue never holds more than
\* asyncQueueSize operations.
TypeOK ==
  /\ store \in [Keys -> Written]
  /\ last \in [Keys -> Written \cup {Unknown}]
  /\ ops \in 0 .. MaxOps
  /\ caller \in [pc : {"idle"}] \cup [pc : {"enqueue"}, op : Op]
  /\ queue \in Seq(Op) /\ Len(queue) <= QueueSize
  /\ started \in BOOLEAN /\ cancelled \in BOOLEAN
  /\ worker \in [pc : {"off", "loop", "exited"}] \cup [pc : {"busy"}, op : Op]
  /\ late \in Seq(Op)
  /\ destroyer \in [pc : {"idle", "cancel", "wait", "clean"}, todo : SUBSET Keys, cleaned : SUBSET Keys]
  /\ calls \in [Keys -> [pc : {"none", "flying"}] \cup [pc : {"done"}, val : Written]]
  /\ g \in [Getters -> [pc : {"idle"}] \cup
                       [pc : {"read", "wait", "publish", "delete", "return"}, key : Keys, val : Written]]

\* The operations the queue has accepted and the worker has not finished.
Pending == IF worker.pc = "busy" THEN <<worker.op>> \o queue ELSE queue

\* Operation i is the last one on key k in the sequence P.
IsLast(P, k, i) ==
  /\ i \in DOMAIN P /\ P[i].key = k
  /\ \A j \in DOMAIN P : j > i => P[j].key # k

\* What the operations of P make of the record v of key k.
AmountsTo(P, v, k) ==
  IF \E i \in DOMAIN P : IsLast(P, k, i)
  THEN P[CHOOSE i \in DOMAIN P : IsLast(P, k, i)].val
  ELSE v

Effective(k) == AmountsTo(Pending, store[k], k)

\* The keys whose operations all get through.
Reliable == Keys \ (Failures \cup Timeouts)

Asked == IF caller.pc = "enqueue" /\ caller.op.key \in Reliable THEN {caller.op} ELSE {}

Records == INSTANCE RecordStore
             WITH Keys <- Reliable, record <- [k \in Reliable |-> Effective(k)],
                  asked <- Asked, open <- ~cancelled

\* The queue, its worker and the cleanup implement RecordStore for the keys whose
\* operations get through, whatever happens to the others that share the queue:
\* the external store ends up with what the accepted calls say, in their order,
\* a call refused by a full queue changes no record, its own or another's, and
\* once the queue is closed no record is written any more.
RefinesRecords == Records!Spec

\* An operation is never left in a queue without a worker: mu closes the gap
\* between the ctx check and the send.
NoOrphanOp == worker.pc = "exited" => queue = <<>>

\* A record that CleanRecords has deleted is not written again: no queued or
\* executing Save outlives Stop, unless one of its key may have timed out.
CleanedStaysClean == \A k \in destroyer.cleaned \ Timeouts : store[k] = NoRecord

\* Concurrent lookups of one key hit the store at most once.
SingleRead ==
  \A t, u \in Getters : g[t].pc = "read" /\ g[u].pc = "read" /\ g[t].key = g[u].key => t = u

\* Stop of the Coordinator returns: the worker drains what it has and exits, and a
\* queue that never launched one is not waited for.
StopReturns == destroyer.pc = "wait" ~> destroyer.pc = "clean"

\* Every lookup returns, whoever led the read.
LookupReturns == \A t \in Getters : g[t].pc # "idle" ~> g[t].pc = "idle"
-----------------------------------------------------------------------------
(* What a comment of the code says and TLC refutes (README, "Findings")    *)

\* "No in-flight or queued Save can outlive stop and re-write a record that was
\* just cleaned".  One that has timed out can.
CleanedForGood == \A k \in destroyer.cleaned : store[k] = NoRecord
=============================================================================
