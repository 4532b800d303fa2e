--------------------------- MODULE RequestQueue ---------------------------
(***************************************************************************)
(* InsAcqReqQueue: the acquire requests of one function and resource spec  *)
(* that found no instance thread.  The reserved and the scaled scheduler   *)
(* share the queue.  A request is answered through its ResultChan, which   *)
(* holds one answer: by the goroutine of a scheduler that found a thread   *)
(* for it, by the timeout loop, by an unrecoverable create error or when   *)
(* the queue stops.                                                        *)
(*                                                                         *)
(* Each action is one critical section of the queue's lock or of a         *)
(* scheduler's lock.  Threads are counted: which instance a thread belongs *)
(* to is the schedulers' affair (module ConcurrencyScheduler).  So a       *)
(* request that any one free thread serves fails only without one, and a   *)
(* request that needs more than that may fail whatever is free.  Calls     *)
(* that never wait (on a scheduler that does not own the function and is   *)
(* not asked because of a traffic limit, or with another queue to fall     *)
(* back on) are left out.  A recoverable create error only replaces the    *)
(* timeout error's text and is left out too.                               *)
(***************************************************************************)
EXTENDS Naturals, FiniteSets, Sequences, SequencesExt

CONSTANTS
    Requests,      \* one acquire call each
    Designated,    \* those that ask for a given reserved instance
    Sessions,      \* those of a session, which has or needs threads of one instance
    scaled,        \* the schedulers that registered a schedule function
    reserve,
    None,
    maxQueueLen,   \* BurstScaleNum
    CN,            \* threads of an instance
    MaxEvents      \* bound: instances added, unrecoverable create errors, the stop

Scheds == {scaled, reserve}

ASSUME ConstantsAssumption ==
    /\ Designated \subseteq Requests /\ Sessions \subseteq Requests
    /\ scaled # reserve
    /\ None \notin Requests
    /\ maxQueueLen \in Nat
    /\ CN \in Nat \ {0}
    /\ MaxEvents \in Nat

VARIABLES
    queue,     \* pending requests, front first
    caller,    \* where the goroutine of each acquire call is
    result,    \* answers sent on the ResultChan of each request
    young,     \* those that have not waited for requestTimeout, by CreatedTime
    scheCh,    \* scheduler -> a wake-up is buffered
    worker,    \* scheduler -> state of its goroutine
    hand,      \* scheduler -> request it has popped and not yet placed
    triggerCh, \* buffered triggers of the timeout loop
    timer,     \* request the loop's timer was last set for
    loopDone,  \* the timeout loop has returned
    free,      \* scheduler -> available threads
    leased,    \* scheduler -> threads under a lease
    ins,       \* scheduler -> instances; insNum is their sum
    unrecoverableError,
    stopped,   \* stopCh is closed
    events     \* budget left

clients == <<caller, young>>
workers == <<scheCh, worker, hand>>
loop    == <<triggerCh, timer, loopDone>>
threads == <<free, leased, ins>>
vars    == <<queue, result, clients, workers, loop, threads, unrecoverableError, stopped, events>>

TypeOK ==
    /\ queue \in Seq(Requests)
    /\ caller \in [Requests -> {"idle", "tried", "waiting", "gone"}]
    /\ result \in [Requests -> 0 .. 1]
    /\ young \in Seq(Requests)
    /\ scheCh \in [Scheds -> BOOLEAN]
    /\ worker \in [Scheds -> {"idle", "working", "exited"}]
    /\ hand \in [Scheds -> Requests \cup {None}]
    /\ triggerCh \in Nat
    /\ timer \in Requests \cup {None}
    /\ loopDone \in BOOLEAN /\ unrecoverableError \in BOOLEAN /\ stopped \in BOOLEAN
    /\ free \in [Scheds -> Nat] /\ leased \in [Scheds -> Nat] /\ ins \in [Scheds -> Nat]
    /\ events \in 0 .. MaxEvents

Init ==
    /\ queue = <<>>
    /\ caller = [r \in Requests |-> "idle"]
    /\ result = [r \in Requests |-> 0]
    /\ young = <<>>
    /\ scheCh = [w \in Scheds |-> FALSE]
    /\ worker = [w \in Scheds |-> "idle"]
    /\ hand = [w \in Scheds |-> None]
    /\ triggerCh = 0 /\ timer = None /\ loopDone = FALSE
    /\ free = [w \in Scheds |-> 0]
    /\ leased = [w \in Scheds |-> 0]
    /\ ins = [w \in Scheds |-> 0]
    /\ unrecoverableError = FALSE
    /\ stopped = FALSE
    /\ events = MaxEvents

\* what happens to the function from outside, MaxEvents times in all
Event == events > 0 /\ events' = events - 1

insNum == ins[scaled] + ins[reserve]
Expired == {r \in Requests : caller[r] # "idle"} \ ToSet(young)
Home(r) == IF r \in Designated THEN reserve ELSE scaled

\* Requests that not every free thread serves.  A session's takes one of the
\* threads reserved before, one beyond these, or its Concurrency at once.
Particular == Designated \cup Sessions
Takes(r) == IF r \in Sessions THEN 0 .. CN ELSE {1}

\* schFunc returns an allocation: n free threads of scheduler w are now in use
TakeThreads(w, n) ==
    /\ n <= free[w]
    /\ free' = [free EXCEPT ![w] = @ - n]
    /\ leased' = [leased EXCEPT ![w] = @ + n]

\* schFunc may return an error
MayFail(w, r) == free[w] = 0 \/ r \in Particular

\* a send on the ResultChan of every request of a set
Answered(rs) == [r \in Requests |-> IF r \in rs THEN result[r] + 1 ELSE result[r]]
-----------------------------------------------------------------------------
(* Acquire calls                                                           *)

\* The first try succeeds.
AcquireNow(r) ==
    /\ caller[r] = "idle"
    /\ caller' = [caller EXCEPT ![r] = "gone"]
    /\ \E n \in Takes(r) : TakeThreads(Home(r), n)
    /\ UNCHANGED <<queue, result, young, workers, loop, ins, unrecoverableError, stopped, events>>

\* ErrNoInsAvailable: the call makes a pending request, not yet in the queue
AcquireFails(r) ==
    /\ caller[r] = "idle"
    /\ MayFail(Home(r), r)
    /\ caller' = [caller EXCEPT ![r] = "tried"]
    /\ young' = Append(young, r)
    /\ UNCHANGED <<queue, result, workers, loop, threads, unrecoverableError, stopped, events>>

\* requestTimeout passes for the oldest request that has not reached it
Age ==
    /\ young # <<>> /\ young' = Tail(young)
    /\ UNCHANGED <<queue, result, caller, workers, loop, threads, unrecoverableError, stopped, events>>

AddRequest(r) ==
    /\ caller[r] = "tried"
    /\ IF unrecoverableError \/ Len(queue) >= maxQueueLen
         THEN /\ caller' = [caller EXCEPT ![r] = "gone"]
              /\ UNCHANGED <<queue, triggerCh>>
         ELSE /\ caller' = [caller EXCEPT ![r] = "waiting"]
              /\ queue' = Append(queue, r)
              /\ triggerCh' = IF queue = <<>> THEN triggerCh + 1 ELSE triggerCh
    /\ UNCHANGED <<result, young, workers, timer, loopDone, threads,
                   unrecoverableError, stopped, events>>

\* The reserved scheduler's own timer ends the wait; CancelRequest takes the
\* request out of the queue if it is there.
CancelRequest(r) ==
    /\ r \in Designated /\ caller[r] = "waiting"
    /\ caller' = [caller EXCEPT ![r] = "gone"]
    /\ \/ \E i \in DOMAIN queue : queue[i] = r /\ queue' = RemoveAt(queue, i)
       \/ r \notin ToSet(queue) /\ UNCHANGED queue
    /\ UNCHANGED <<result, young, workers, loop, threads, unrecoverableError, stopped, events>>
-----------------------------------------------------------------------------
(* Threads come and go; the observers of AvailInsThdTopic wake the worker  *)

ScheduleRequest(w) == scheCh' = [scheCh EXCEPT ![w] = TRUE]

\* The client or the lease manager gives a thread back.  A session's goes to its
\* reservation; the difference of 0 that is published wakes the worker as well.
Release(w, n) ==
    /\ leased[w] > 0 /\ (n = 0 => Sessions # {})
    /\ leased' = [leased EXCEPT ![w] = @ - n]
    /\ free' = [free EXCEPT ![w] = @ + n]
    /\ ScheduleRequest(w)
    /\ UNCHANGED <<queue, result, clients, worker, hand, loop, ins, unrecoverableError, stopped, events>>

AddInstance(w) ==
    /\ Event
    /\ ins' = [ins EXCEPT ![w] = @ + 1]
    /\ free' = [free EXCEPT ![w] = @ + CN]
    /\ ScheduleRequest(w)
    /\ UNCHANGED <<queue, result, clients, worker, hand, loop, leased, unrecoverableError, stopped>>

\* k of the instance's threads were free; a difference of 0 wakes the worker
DelInstance(w, k) ==
    /\ ins[w] > 0 /\ k <= free[w] /\ CN - k <= leased[w]
    /\ ins' = [ins EXCEPT ![w] = @ - 1]
    /\ free' = [free EXCEPT ![w] = @ - k]
    /\ leased' = [leased EXCEPT ![w] = @ - (CN - k)]
    /\ IF k = 0 THEN ScheduleRequest(w) ELSE UNCHANGED scheCh
    /\ UNCHANGED <<queue, result, clients, worker, hand, loop, unrecoverableError, stopped, events>>
-----------------------------------------------------------------------------
(* The goroutine RegisterSchFunc starts for a scheduler                    *)

WorkerWakes(w) ==
    /\ scheCh[w] /\ worker[w] = "idle"
    /\ scheCh' = [scheCh EXCEPT ![w] = FALSE]
    /\ worker' = [worker EXCEPT ![w] = "working"]
    /\ UNCHANGED <<queue, result, clients, hand, loop, threads, unrecoverableError, stopped, events>>

WorkerPops(w) ==
    /\ worker[w] = "working" /\ hand[w] = None
    /\ IF queue = <<>>
         THEN /\ worker' = [worker EXCEPT ![w] = "idle"]
              /\ UNCHANGED <<queue, hand>>
         ELSE /\ hand' = [hand EXCEPT ![w] = Head(queue)]
              /\ queue' = Tail(queue)
              /\ UNCHANGED worker
    /\ UNCHANGED <<result, clients, scheCh, loop, threads, unrecoverableError, stopped, events>>

\* mutant: the round ends with the first request that is served
WorkerGrants_One(w) ==
    /\ hand[w] # None
    /\ \E n \in Takes(hand[w]) : TakeThreads(w, n)
    /\ result' = Answered({hand[w]})
    /\ hand' = [hand EXCEPT ![w] = None]
    /\ worker' = [worker EXCEPT ![w] = "idle"]
    /\ UNCHANGED <<queue, clients, scheCh, loop, ins, unrecoverableError, stopped, events>>

\* schFunc returned an allocation: answer and go on with the next request
WorkerGrants(w) ==
    /\ hand[w] # None
    /\ \E n \in Takes(hand[w]) : TakeThreads(w, n)
    /\ result' = Answered({hand[w]})
    /\ hand' = [hand EXCEPT ![w] = None]
    /\ UNCHANGED <<queue, clients, scheCh, worker, loop, ins, unrecoverableError, stopped, events>>

\* schFunc failed: the request goes to the back and the worker stops, even if
\* threads are free and others wait
WorkerPutsBack(w) ==
    /\ hand[w] # None /\ MayFail(w, hand[w])
    /\ queue' = Append(queue, hand[w])
    /\ hand' = [hand EXCEPT ![w] = None]
    /\ worker' = [worker EXCEPT ![w] = "idle"]
    /\ UNCHANGED <<result, clients, scheCh, loop, threads, unrecoverableError, stopped, events>>

WorkerExits(w) ==
    /\ stopped /\ worker[w] = "idle"
    /\ worker' = [worker EXCEPT ![w] = "exited"]
    /\ UNCHANGED <<queue, result, clients, scheCh, hand, loop, threads, unrecoverableError, stopped, events>>
-----------------------------------------------------------------------------
(* TimeoutReqHandleLoop                                                    *)

\* how many requests at the front have waited long enough
ExpiredFront ==
    CHOOSE n \in 0 .. Len(queue) :
        /\ \A i \in 1 .. n : queue[i] \in Expired
        /\ n < Len(queue) => queue[n + 1] \notin Expired

\* the body of the loop; old is the timer it keeps if it sets no other
HandleTimeouts(old) ==
    LET rest == SubSeq(queue, ExpiredFront + 1, Len(queue)) IN
    /\ queue' = rest
    /\ result' = Answered(ToSet(SubSeq(queue, 1, ExpiredFront)))
    /\ timer' = IF rest = <<>> THEN old ELSE Head(rest)

LoopTriggered ==
    /\ ~loopDone /\ triggerCh > 0
    /\ triggerCh' = triggerCh - 1
    /\ HandleTimeouts(timer)
    /\ UNCHANGED <<clients, workers, loopDone, threads, unrecoverableError, stopped, events>>

LoopTimer ==
    /\ ~loopDone /\ timer \in Expired
    /\ HandleTimeouts(None)
    /\ UNCHANGED <<clients, workers, triggerCh, loopDone, threads, unrecoverableError, stopped, events>>

\* mutant: only the front is answered before the queue is emptied
ClearReqQueueWithError_FrontOnly ==
    /\ result' = Answered({queue[i] : i \in DOMAIN queue \cap {1}})
    /\ queue' = <<>>

ClearReqQueueWithError ==
    /\ result' = Answered(ToSet(queue))
    /\ queue' = <<>>

LoopStops ==
    /\ stopped /\ ~loopDone
    /\ ClearReqQueueWithError
    /\ loopDone' = TRUE /\ timer' = None
    /\ UNCHANGED <<clients, workers, triggerCh, threads, unrecoverableError, stopped, events>>
-----------------------------------------------------------------------------
(* HandleCreateError and Stop                                              *)

CreateSucceeds ==
    /\ ~stopped /\ unrecoverableError
    /\ unrecoverableError' = FALSE
    /\ UNCHANGED <<queue, result, clients, workers, loop, threads, stopped, events>>

CreateFails ==
    /\ Event
    /\ ~stopped
    /\ unrecoverableError' = TRUE
    /\ IF insNum = 0 THEN ClearReqQueueWithError ELSE UNCHANGED <<queue, result>>
    /\ UNCHANGED <<clients, workers, loop, threads, stopped>>

Stop ==
    /\ Event
    /\ ~stopped /\ stopped' = TRUE
    /\ UNCHANGED <<queue, result, clients, workers, loop, threads, unrecoverableError>>

Call(r) ==
    \/ AcquireNow(r) \/ AcquireFails(r) \/ AddRequest(r) \/ CancelRequest(r)

ThreadsChange(w) ==
    \/ \E n \in 0 .. 1 : Release(w, n)
    \/ AddInstance(w) \/ \E k \in 0 .. CN : DelInstance(w, k)

WorkerStep(w) ==
    \/ WorkerWakes(w) \/ WorkerPops(w) \/ WorkerGrants(w) \/ WorkerPutsBack(w)
    \/ WorkerExits(w)

LoopStep == LoopTriggered \/ LoopTimer \/ LoopStops

Next ==
    \/ \E r \in Requests : Call(r)
    \/ \E w \in Scheds : ThreadsChange(w) \/ WorkerStep(w)
    \/ LoopStep \/ Age
    \/ CreateSucceeds \/ CreateFails \/ Stop

Spec == Init /\ [][Next]_vars
FairSpec ==
    /\ Spec
    /\ \A w \in Scheds : WF_vars(WorkerStep(w))
    /\ WF_vars(LoopStep) /\ WF_vars(Age)
-----------------------------------------------------------------------------
(* Properties                                                              *)

Places(r) ==
    Cardinality({i \in DOMAIN queue : queue[i] = r})
      + Cardinality({w \in Scheds : hand[w] = r})

\* The inductive invariant behind OnePlaceEach: a request is in the queue once,
\* in one hand, not in both, and unanswered in either; one whose call has not
\* reached AddRequest is nowhere, and one whose caller waits is somewhere.
Held == {hand[w] : w \in Scheds} \ {None}
QueuedOnce == \A i, j \in DOMAIN queue : queue[i] = queue[j] => i = j
HeldOnce ==
    /\ hand[scaled] = hand[reserve] => hand[scaled] = None
    /\ Held \cap ToSet(queue) = {}
OpenUnanswered == \A r \in ToSet(queue) \cup Held : result[r] = 0
CallersPlaced ==
    \A r \in Requests :
        /\ caller[r] \in {"idle", "tried"} => r \notin ToSet(queue) \cup Held /\ result[r] = 0
        /\ caller[r] = "waiting" => r \in ToSet(queue) \cup Held \/ result[r] = 1
PlaceInv == TypeOK /\ QueuedOnce /\ HeldOnce /\ OpenUnanswered /\ CallersPlaced

\* A request handed from the queue to a worker, put back, timed out, cleared
\* or cancelled is never lost and never answered twice: as long as its caller
\* waits it is in exactly one of the queue, a worker's hand and its
\* ResultChan.  A second send would block its goroutine, in the timeout
\* loop's case with the queue locked.
OnePlaceEach ==
    \A r \in Requests :
        /\ Places(r) + result[r] <= 1
        /\ caller[r] = "waiting" => Places(r) + result[r] = 1

\* A published change is not wasted: the worker it wakes goes on from request
\* to request until the queue is empty or its scheduler has no thread left.
\* Only a designated request or one of a session, which may fail with threads
\* free, ends its round before that, or the stop of the queue.
WakeServes ==
    \A w \in Scheds :
        scheCh[w] ~> \/ queue = <<>> \/ free[w] = 0 \/ stopped
                    \/ \E r \in Particular : Places(r) > 0

\* TimeoutReqHandleLoop is "a loop to continually handle timeout request in
\* queue": a caller does not wait for ever, unless the queue is stopped.
EveryRequestAnswered ==
    \A r \in Requests : caller[r] = "waiting" ~> result[r] = 1 \/ caller[r] = "gone" \/ stopped
=============================================================================
