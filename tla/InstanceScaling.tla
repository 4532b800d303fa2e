-------------------------- MODULE InstanceScaling --------------------------
(***************************************************************************)
(* AutoScaler, ScaledInstanceQueue and InstanceCreateQueue of one function *)
(* and resource spec: how waiting acquire requests become instances and    *)
(* how idle instances go away.                                             *)
(*                                                                         *)
(* Goroutines: the acquire calls, scaleUpLoop, scaleDownLoop, the worker   *)
(* of the create queue, one scaleUpInstanceWithRetry for each creation and *)
(* one scaleDownInstance for each instance to remove.  An action is one    *)
(* critical section or one channel operation.                              *)
(*                                                                         *)
(* The request queue is its length (module RequestQueue has the rest) and  *)
(* a scheduler is the number of threads in use of each instance.  The      *)
(* number computed from float metrics may be any number in its range.      *)
(* autoScaleDownFlag, which only CheckScaling reads, and coldStartTime,    *)
(* which only enters the float metrics, are left out.                      *)
(***************************************************************************)
EXTENDS Integers, FiniteSets, FiniteSetsExt, Functions

CONSTANTS
    Slots,          \* bound: instances that exist or are being created
    Concurrencies,  \* values concurrentNum may take
    MaxReqs,        \* bound: requests waiting or about to
    MaxDemand,      \* bound: concurrency asked for by a scale hint
    MaxEvents       \* bound: arrivals, hints, scale downs, spec updates, errors, deletions

ASSUME ConstantsAssumption ==
    /\ IsFiniteSet(Slots)
    /\ Concurrencies \subseteq Nat \ {0} /\ Concurrencies # {}
    /\ MaxReqs \in Nat /\ MaxDemand \in Nat /\ MaxEvents \in Nat

VARIABLES
    \* acquire calls
    tried,     \* calls that found no thread and are not yet in the queue
    reqs,      \* length of the request queue
    untold,    \* calls in the queue that have not yet published TriggerScale
    \* AutoScaler
    autoScaleUpFlag, minScaleDemand, pendingInsThdNum, remainedInsThdReqNum,
    inUseInsThdNum, totalInsThdNum, concurrentNum,
    \* scaleUpLoop
    upPc, scaleUpTriggerCh, scaleUpChan,
    ticker,    \* the ticker runs
    \* scaleDownLoop
    scaleDownTriggerCh, downTimer,
    \* InstanceCreateQueue and its worker
    createQueue, workerPc,
    pushes,    \* requests the round in progress has still to push
    signalDue, \* the last push has not yet signalled
    \* ScaledInstanceQueue
    slot,      \* creations and instances
    downs,     \* scaleDownInstance goroutines that have not chosen
    offsets,   \* those that have, and are about to run the callback
    funcSig, updating,
    destroyed, \* "no", then "closing" (funcCtx, stopCh), then "yes"
    events     \* budget left

calls   == <<tried, reqs, untold>>
counts  == <<inUseInsThdNum, totalInsThdNum, scaleDownTriggerCh>>
demand  == <<pendingInsThdNum, remainedInsThdReqNum>>
trigger == <<autoScaleUpFlag, minScaleDemand, scaleUpTriggerCh>>
upLoop  == <<upPc, scaleUpChan, ticker>>
create  == <<createQueue, workerPc, pushes, signalDue>>
down    == <<downTimer, downs, offsets>>
func    == <<funcSig, updating, concurrentNum, destroyed>>
vars    == <<calls, counts, demand, trigger, upLoop, create, down, func, slot, events>>

Free == [st |-> "free", sig |-> 0, cn |-> 0, used |-> 0]
Stages == {"free", "creating", "adding", "live"}

TypeOK ==
    /\ tried \in Nat /\ reqs \in Nat /\ untold \in Nat
    /\ autoScaleUpFlag \in BOOLEAN /\ scaleUpTriggerCh \in BOOLEAN
    /\ scaleUpChan \in BOOLEAN /\ ticker \in BOOLEAN
    /\ scaleDownTriggerCh \in BOOLEAN /\ downTimer \in BOOLEAN /\ updating \in BOOLEAN
    /\ minScaleDemand \in 0 .. MaxDemand
    /\ pendingInsThdNum \in Int
    /\ remainedInsThdReqNum \in Nat /\ inUseInsThdNum \in Nat /\ totalInsThdNum \in Nat
    /\ concurrentNum \in Concurrencies
    /\ upPc \in {"select", "sendFirst", "sendTick", "noReq", "pause", "scale", "push",
                "exited"}
    /\ pushes \in Nat /\ signalDue \in BOOLEAN
    /\ createQueue \in Nat /\ downs \in Nat /\ offsets \in Nat /\ funcSig \in Nat
    /\ workerPc \in {"top", "get", "wait", "woken", "exited"}
    /\ slot \in [Slots -> [st : Stages, sig : Nat, cn : Concurrencies \cup {0}, used : Nat]]
    /\ destroyed \in {"no", "closing", "yes"}
    /\ events \in 0 .. MaxEvents

Init ==
    /\ tried = 0 /\ reqs = 0 /\ untold = 0
    /\ autoScaleUpFlag = FALSE /\ minScaleDemand = 0
    /\ pendingInsThdNum = 0 /\ remainedInsThdReqNum = 0
    /\ inUseInsThdNum = 0 /\ totalInsThdNum = 0
    /\ concurrentNum \in Concurrencies
    /\ upPc = "select" /\ scaleUpTriggerCh = FALSE /\ scaleUpChan = FALSE
    /\ ticker = FALSE
    /\ scaleDownTriggerCh = FALSE /\ downTimer = FALSE
    /\ createQueue = 0 /\ workerPc = "top" /\ pushes = 0 /\ signalDue = FALSE
    /\ slot = [i \in Slots |-> Free]
    /\ downs = 0 /\ offsets = 0
    /\ funcSig = 0 /\ updating = FALSE
    /\ destroyed = "no"
    /\ events = MaxEvents

Event == events > 0 /\ events' = events - 1
Ceil(n, d) == (n + d - 1) \div d
AtLeast0(n) == IF n > 0 THEN n ELSE 0

Live == {i \in Slots : slot[i].st = "live"}
Creating == {i \in Slots : slot[i].st = "creating"}
Avail(i) == slot[i].st = "live" /\ slot[i].used < slot[i].cn

\* a round holds the scaler's lock until its last push has signalled
Unlocked == upPc # "push"

\* HandleInsThdUpdate for the in-use and then the total difference; a stopped
\* scheduler publishes nothing
Publish(inUseDiff, totalDiff) ==
    LET used == inUseInsThdNum + inUseDiff
        all  == totalInsThdNum + totalDiff
    IN IF destroyed = "yes" THEN UNCHANGED counts
       ELSE /\ Unlocked
            /\ inUseInsThdNum' = used
            /\ totalInsThdNum' = all
            /\ scaleDownTriggerCh' =
                 (\/ scaleDownTriggerCh
                  \/ totalInsThdNum - used >= concurrentNum
                  \/ all - used >= concurrentNum)
-----------------------------------------------------------------------------
(* Acquire calls, scale hints and the threads in use                       *)

TriggerScale(minConcurrency) ==
    /\ Unlocked
    /\ minScaleDemand' = Max({minScaleDemand, minConcurrency})
    /\ autoScaleUpFlag \/ ~scaleUpTriggerCh   \* the send would block
    /\ autoScaleUpFlag' = TRUE
    /\ scaleUpTriggerCh' = (scaleUpTriggerCh \/ ~autoScaleUpFlag)

AcquireFails ==
    /\ Event
    /\ destroyed = "no" /\ ~updating /\ tried + reqs < MaxReqs
    /\ ~\E i \in Slots : Avail(i)
    /\ tried' = tried + 1
    /\ UNCHANGED <<reqs, untold, counts, demand, trigger, upLoop, create, down, func, slot>>

AddRequest ==
    /\ tried > 0
    /\ tried' = tried - 1 /\ reqs' = reqs + 1 /\ untold' = untold + 1
    /\ UNCHANGED <<counts, demand, trigger, upLoop, create, down, func, slot, events>>

PublishTrigger ==
    /\ untold > 0
    /\ untold' = untold - 1
    /\ TriggerScale(0)
    /\ UNCHANGED <<tried, reqs, counts, demand, upLoop, create, down, func, slot, events>>

ScaleHint(d) ==
    /\ Event
    /\ TriggerScale(d)
    /\ UNCHANGED <<calls, counts, demand, upLoop, create, down, func, slot>>

\* the request queue gives a free thread to its front, or to a new call
TakeThread(i) ==
    /\ Avail(i)
    /\ \/ reqs > 0 /\ reqs' = reqs - 1 /\ UNCHANGED events
       \/ Event /\ destroyed = "no" /\ ~updating /\ UNCHANGED reqs
    /\ slot' = [slot EXCEPT ![i].used = @ + 1]
    /\ Publish(1, 0)
    /\ UNCHANGED <<tried, untold, demand, trigger, upLoop, create, down, func>>

ReleaseThread(i) ==
    /\ i \in Live /\ slot[i].used > 0
    /\ slot' = [slot EXCEPT ![i].used = @ - 1]
    /\ Publish(-1, 0)
    /\ UNCHANGED <<calls, demand, trigger, upLoop, create, down, func, events>>

\* the front request times out or is failed by a create error
RequestFails ==
    /\ reqs > 0 /\ reqs' = reqs - 1
    /\ UNCHANGED <<tried, untold, counts, demand, trigger, upLoop, create, down, func, slot, events>>

-----------------------------------------------------------------------------
(* InstanceCreateQueue                                                     *)

\* push, first part: the request is in the queue when the lock is released
push ==
    /\ pushes > 0 /\ ~signalDue
    /\ createQueue' = createQueue + 1
    /\ pushes' = pushes - 1 /\ signalDue' = TRUE
    /\ UNCHANGED <<calls, counts, demand, trigger, upLoop, workerPc, down, func, slot, events>>

\* mutant: push does not signal
Signal_None ==
    /\ signalDue /\ signalDue' = FALSE
    /\ upPc' = IF pushes = 0 THEN "select" ELSE upPc
    /\ UNCHANGED <<calls, counts, demand, trigger, scaleUpChan, ticker, createQueue, workerPc,
                   pushes, down, func, slot, events>>

\* second part, the queue unlocked again; ScaleUpHandler goes on to the next
\* request or returns
Signal ==
    /\ signalDue /\ signalDue' = FALSE
    /\ workerPc' = IF workerPc = "wait" THEN "woken" ELSE workerPc
    /\ upPc' = IF pushes = 0 THEN "select" ELSE upPc
    /\ UNCHANGED <<calls, counts, demand, trigger, scaleUpChan, ticker, createQueue, pushes, down,
                   func, slot, events>>

\* the worker looks at stopCh before each getForCreate
WorkerTop ==
    /\ workerPc = "top"
    /\ workerPc' = IF destroyed = "no" THEN "get" ELSE "exited"
    /\ UNCHANGED <<calls, counts, demand, trigger, upLoop, createQueue, pushes, signalDue, down,
                   func, slot, events>>

\* an attempt of scaleUpInstanceWithRetry: it looks at funcCtx, ending without
\* the callback if the function is deleted, and reads the signature
Attempt ==
    IF destroyed # "no" THEN Free
    ELSE [st |-> "creating", sig |-> funcSig, cn |-> concurrentNum, used |-> 0]

\* getForCreate: the emptiness test is not repeated after the wait, nor is
\* stopped looked at before it
getForCreate ==
    /\ workerPc \in {"get", "woken"}
    /\ \/ /\ workerPc = "get" /\ createQueue = 0
          /\ workerPc' = "wait" /\ UNCHANGED <<createQueue, slot>>
       \/ /\ destroyed = "yes" \/ createQueue = 0
          /\ workerPc = "get" => createQueue > 0
          /\ workerPc' = "top" /\ UNCHANGED <<createQueue, slot>>
       \/ /\ destroyed # "yes" /\ createQueue > 0
          /\ createQueue' = createQueue - 1 /\ workerPc' = "top"
          /\ \E i \in Slots :
               slot[i] = Free /\ slot' = [slot EXCEPT ![i] = Attempt]
    /\ UNCHANGED <<calls, counts, demand, trigger, upLoop, pushes, signalDue, down, func, events>>
-----------------------------------------------------------------------------
(* scaleUpLoop                                                             *)

UpReceiveTrigger ==
    /\ upPc = "select" /\ scaleUpTriggerCh
    /\ scaleUpTriggerCh' = FALSE
    /\ upPc' = "sendFirst"
    /\ UNCHANGED <<calls, counts, demand, autoScaleUpFlag, minScaleDemand, scaleUpChan, ticker,
                   create, down, func, slot, events>>

\* after scaleUpInitTime: the first round at once, then one for each tick
UpSendFirst ==
    /\ upPc = "sendFirst" /\ ~scaleUpChan
    /\ scaleUpChan' = TRUE
    /\ ticker' = TRUE
    /\ upPc' = "select"
    /\ UNCHANGED <<calls, counts, demand, trigger, create, down, func, slot, events>>

UpReceiveTick ==
    /\ upPc = "select" /\ ticker
    /\ upPc' = "sendTick"
    /\ UNCHANGED <<calls, counts, demand, trigger, scaleUpChan, ticker, create, down, func, slot,
                   events>>

UpSendTick ==
    /\ upPc = "sendTick" /\ ~scaleUpChan
    /\ scaleUpChan' = TRUE /\ upPc' = "select"
    /\ UNCHANGED <<calls, counts, demand, trigger, ticker, create, down, func, slot, events>>

\* a round reads the length of the request queue, then minScaleDemand
UpCheckReqNum ==
    /\ upPc = "select" /\ scaleUpChan
    /\ scaleUpChan' = FALSE
    /\ upPc' = IF reqs = 0 THEN "noReq" ELSE "scale"
    /\ UNCHANGED <<calls, counts, demand, trigger, ticker, create, down, func, slot, events>>

UpCheckDemand ==
    /\ upPc = "noReq"
    /\ upPc' = IF minScaleDemand = 0 THEN "pause" ELSE "scale"
    /\ UNCHANGED <<calls, counts, demand, trigger, scaleUpChan, ticker, create, down, func,
                   slot, events>>

\* mutant: the flag is not reset
pauseScale_KeepFlag ==
    /\ upPc = "pause" /\ upPc' = "select"
    /\ ticker' = FALSE
    /\ UNCHANGED <<calls, counts, demand, trigger, scaleUpChan, create, down, func, slot, events>>

pauseScale ==
    /\ upPc = "pause" /\ upPc' = "select"
    /\ ticker' = FALSE
    /\ autoScaleUpFlag' = FALSE
    /\ UNCHANGED <<calls, counts, demand, minScaleDemand, scaleUpTriggerCh, scaleUpChan, create,
                   down, func, slot, events>>

\* A round turns a demand of d threads into creations.  Without metrics it
\* asks for d threads.  With metrics it asks for any part of d, but for no
\* less than the last round left over, or gives up (insThdProcNumPS is 0).
\* What is already pending is subtracted.
Without(d) == [ask |-> d, keep |-> TRUE]
With(d) ==
    {[ask |-> IF remainedInsThdReqNum < d THEN Max({n, remainedInsThdReqNum}) ELSE n,
      keep |-> FALSE] : n \in 0 .. d}

scaleUpInstances ==
    LET d == Max({reqs, minScaleDemand}) IN
    /\ upPc = "scale"
    /\ minScaleDemand' = 0
    /\ \/ upPc' = "select" /\ UNCHANGED <<demand, pushes>>
       \/ \E r \in {Without(d)} \cup With(d) :
            LET thds  == AtLeast0(r.ask - pendingInsThdNum)
                insts == Ceil(thds, concurrentNum)
            IN /\ pendingInsThdNum' = pendingInsThdNum + insts * concurrentNum
               /\ remainedInsThdReqNum' =
                    IF r.keep THEN remainedInsThdReqNum ELSE AtLeast0(d - thds)
               /\ pushes' = insts
               /\ upPc' = IF insts = 0 THEN "select" ELSE "push"
    /\ UNCHANGED <<calls, counts, autoScaleUpFlag, scaleUpTriggerCh, scaleUpChan, ticker,
                   createQueue, workerPc, signalDue, down, func, slot, events>>

UpExit ==
    /\ destroyed = "yes" /\ upPc = "select" /\ upPc' = "exited"
    /\ UNCHANGED <<calls, counts, demand, trigger, scaleUpChan, ticker, create, down, func,
                   slot, events>>
-----------------------------------------------------------------------------
(* scaleUpInstanceWithRetry                                                *)

\* callback(1) of a creation
handlePendingInsNumDecrease ==
    /\ Unlocked
    /\ pendingInsThdNum' = pendingInsThdNum - concurrentNum

\* createInstanceFunc returned an instance and the signature is the same
CreateSucceeds(i) ==
    /\ slot[i].st = "creating" /\ destroyed = "no" /\ slot[i].sig = funcSig
    /\ handlePendingInsNumDecrease
    /\ slot' = [slot EXCEPT ![i].st = "adding"]
    /\ UNCHANGED <<calls, counts, remainedInsThdReqNum, trigger, upLoop, create, down, func, events>>

\* mutant: every failed attempt runs the callback
CreateRetries_Offset(i) ==
    /\ slot[i].st = "creating"
    /\ IF destroyed = "no" /\ slot[i].sig = funcSig THEN Event ELSE UNCHANGED events
    /\ handlePendingInsNumDecrease
    /\ slot' = [slot EXCEPT ![i] = Attempt]
    /\ UNCHANGED <<calls, counts, remainedInsThdReqNum, trigger, upLoop, create, down, func>>

\* it failed, or the function was deleted or changed meanwhile and the
\* instance is killed: try again after a delay
CreateRetries(i) ==
    /\ slot[i].st = "creating"
    /\ IF destroyed = "no" /\ slot[i].sig = funcSig THEN Event ELSE UNCHANGED events
    /\ slot' = [slot EXCEPT ![i] = Attempt]
    /\ UNCHANGED <<calls, counts, demand, trigger, upLoop, create, down, func>>

\* an unrecoverable error or the last attempt
CreateGivesUp(i) ==
    /\ slot[i].st = "creating"
    /\ handlePendingInsNumDecrease
    /\ slot' = [slot EXCEPT ![i] = Free]
    /\ UNCHANGED <<calls, counts, remainedInsThdReqNum, trigger, upLoop, create, down, func, events>>

AddInstance(i) ==
    /\ slot[i].st = "adding"
    /\ slot' = [slot EXCEPT ![i].st = "live"]
    /\ Publish(0, slot[i].cn)
    /\ UNCHANGED <<calls, demand, trigger, upLoop, create, down, func, events>>

\* instances leave the scheduler: deleted, faulty or popped
Remove(is) ==
    /\ slot' = [i \in Slots |-> IF i \in is THEN Free ELSE slot[i]]
    /\ Publish(-SumFunctionOnSet([i \in is |-> slot[i].used], is),
               -SumFunctionOnSet([i \in is |-> slot[i].cn], is))

HandleInstanceDelete(i) ==
    /\ Event
    /\ i \in Live /\ Remove({i})
    /\ UNCHANGED <<calls, demand, trigger, upLoop, create, down, func>>
-----------------------------------------------------------------------------
(* scaleDownLoop and scaleDownInstance                                     *)

DownReceiveTrigger ==
    /\ scaleDownTriggerCh /\ destroyed # "yes"
    /\ scaleDownTriggerCh' = FALSE /\ downTimer' = TRUE
    /\ UNCHANGED <<calls, inUseInsThdNum, totalInsThdNum, demand, trigger, upLoop, create, downs,
                   offsets, func, slot, events>>

\* idle threads, or with metrics any number of threads, plus the pending ones
scaleDownInstances ==
    /\ Event
    /\ downTimer /\ destroyed # "yes" /\ Unlocked
    /\ downTimer' = FALSE
    /\ \E n \in (0 .. totalInsThdNum) \cup {AtLeast0(totalInsThdNum - inUseInsThdNum)} :
         LET insts == AtLeast0(n + pendingInsThdNum) \div concurrentNum
         IN /\ pendingInsThdNum' = pendingInsThdNum - insts * concurrentNum
            /\ downs' = downs + insts
    /\ UNCHANGED <<calls, counts, remainedInsThdReqNum, trigger, upLoop, create, offsets, func,
                   slot>>

DownFunctionDeleted ==
    /\ downs > 0 /\ destroyed # "no"
    /\ downs' = downs - 1
    /\ UNCHANGED <<calls, counts, demand, trigger, upLoop, create, downTimer, offsets, func, slot,
                   events>>

\* mutant: cancelHead is not checked for nil
getForCancel_NoCheck ==
    /\ downs > 0 /\ destroyed # "yes"
    /\ createQueue' = createQueue - 1
    /\ downs' = downs - 1 /\ offsets' = offsets + 1
    /\ UNCHANGED <<calls, counts, demand, trigger, upLoop, workerPc, pushes, signalDue,
                   downTimer, func, slot, events>>

getForCancel ==
    /\ downs > 0 /\ destroyed # "yes" /\ createQueue > 0
    /\ createQueue' = createQueue - 1
    /\ downs' = downs - 1 /\ offsets' = offsets + 1
    /\ UNCHANGED <<calls, counts, demand, trigger, upLoop, workerPc, pushes, signalDue,
                   downTimer, func, slot, events>>

\* PopInstance(false) takes an instance whose threads are all free, if any
DownPopInstance ==
    LET idle == {i \in Live : slot[i].used = 0} IN
    /\ downs > 0 /\ (destroyed = "yes" \/ createQueue = 0)
    /\ IF idle = {} THEN UNCHANGED <<slot, counts>> ELSE \E i \in idle : Remove({i})
    /\ downs' = downs - 1 /\ offsets' = offsets + 1
    /\ UNCHANGED <<calls, demand, trigger, upLoop, create, downTimer, func, events>>

handlePendingInsNumIncrease ==
    /\ offsets > 0 /\ Unlocked
    /\ offsets' = offsets - 1
    /\ pendingInsThdNum' = pendingInsThdNum + concurrentNum
    /\ UNCHANGED <<calls, counts, remainedInsThdReqNum, trigger, upLoop, create, downTimer, downs,
                   func, slot, events>>
-----------------------------------------------------------------------------
(* HandleFuncSpecUpdate and Destroy of the instance queue                  *)

UpdateSignature ==
    /\ Event
    /\ destroyed = "no" /\ ~updating
    /\ funcSig' = funcSig + 1 /\ updating' = TRUE
    /\ UNCHANGED <<calls, counts, demand, trigger, upLoop, create, down, slot, concurrentNum,
                   destroyed>>

\* cleanInstances, then the scheduler and the scaler learn the new spec
UpdateFuncSpec(c) ==
    /\ updating /\ updating' = FALSE
    /\ Unlocked
    /\ Remove(Live)
    /\ concurrentNum' = c
    /\ UNCHANGED <<calls, demand, trigger, upLoop, create, down, funcSig, destroyed,
                   events>>

DestroyBegins ==
    /\ Event
    /\ destroyed = "no" /\ ~updating /\ destroyed' = "closing"
    /\ UNCHANGED <<calls, counts, demand, trigger, upLoop, create, down, slot, funcSig, updating,
                   concurrentNum>>

\* insCreateQueue.destroy wakes the worker; the scaler's loops are stopped
\* and the instances cleaned
Destroy ==
    /\ destroyed = "closing" /\ destroyed' = "yes"
    /\ workerPc' = IF workerPc = "wait" THEN "woken" ELSE workerPc
    /\ slot' = [i \in Slots |-> IF i \in Live THEN Free ELSE slot[i]]
    /\ UNCHANGED <<calls, counts, demand, trigger, upLoop, createQueue, pushes, signalDue, down,
                   funcSig, updating, concurrentNum, events>>
-----------------------------------------------------------------------------
Acquire ==
    \/ AcquireFails \/ AddRequest \/ PublishTrigger \/ RequestFails
    \/ \E d \in 1 .. MaxDemand : ScaleHint(d)
    \/ \E i \in Slots : TakeThread(i) \/ ReleaseThread(i)

Worker == WorkerTop \/ getForCreate

ScaleUpLoop ==
    \/ UpReceiveTrigger \/ UpSendFirst \/ UpReceiveTick \/ UpSendTick
    \/ UpCheckReqNum \/ UpCheckDemand \/ pauseScale \/ scaleUpInstances \/ push \/ Signal
    \/ UpExit

Creation(i) ==
    \/ CreateSucceeds(i) \/ CreateRetries(i) \/ CreateGivesUp(i) \/ AddInstance(i)

ScaleDown ==
    \/ DownReceiveTrigger \/ scaleDownInstances \/ DownFunctionDeleted \/ getForCancel
    \/ DownPopInstance \/ handlePendingInsNumIncrease

Update ==
    \/ UpdateSignature \/ \E c \in Concurrencies : UpdateFuncSpec(c)
    \/ DestroyBegins \/ Destroy
    \/ \E i \in Slots : HandleInstanceDelete(i)

Next ==
    \/ Acquire \/ Worker \/ ScaleUpLoop \/ ScaleDown \/ Update
    \/ \E i \in Slots : Creation(i)

Spec == Init /\ [][Next]_vars
-----------------------------------------------------------------------------
(* Properties                                                              *)

\* pendingInsThdNum "records these instances to avoid excessive scaling":
\* whatever creations, removals and their callbacks overlap, it never falls
\* below the threads that are on their way, less those being removed.
PendingCovers ==
    destroyed = "no" =>
        pendingInsThdNum >=
            concurrentNum * (pushes + createQueue + Cardinality(Creating) - downs - offsets)

\* A create request is never left in the queue with the worker asleep, but
\* for the moment between a push and its Signal: the Signal is not lost
\* although it comes after the unlock, and the worker may take or a scale down
\* cancel the request in between.
WorkerAwake == createQueue > 0 /\ workerPc = "wait" => signalDue

\* autoScaleUpFlag tells whether scaleUpLoop runs: TriggerScale relies on a
\* set flag to mean that a round is due, and sends on a full channel, with
\* the scaler locked, if the flag is cleared while a trigger is buffered.
FlagFollowsLoop ==
    IF autoScaleUpFlag
      THEN scaleUpTriggerCh \/ ticker \/ upPc \in {"sendFirst", "exited"}
      ELSE ~scaleUpTriggerCh /\ ~ticker /\ ~scaleUpChan
-----------------------------------------------------------------------------
(* What comments of the code say and TLC refutes (README, "Findings")      *)

\* pendingInsThdNum counts exactly the instances on their way.  A create
\* request that a scale down cancels is never subtracted.
PendingExact ==
    destroyed = "no" =>
        pendingInsThdNum =
            concurrentNum * (pushes + createQueue + Cardinality(Creating) - downs - offsets)

\* scaleUpLoop does not pause while a hint's demand is recorded.  A hint that
\* arrives after the loop has read minScaleDemand sees the flag still set.
NoPauseWithDemand == autoScaleUpFlag \/ minScaleDemand = 0

\* No instance of an old signature is left once a spec update has cleaned the
\* instances.  One whose signature was checked before may be added after.
NoStaleInstance == ~updating => \A i \in Live : slot[i].sig = funcSig

\* The loop sends a round into its own channel "before ticker fires", and each
\* tick finds the last round taken.  When rounds take longer than the
\* window a tick and a round may be ready together; if the select picks the
\* tick, the only reader of the channel blocks on it for ever.
RoundTakenBeforeTick == ~(upPc = "sendTick" /\ scaleUpChan)

\* getForCreate "blocks until a createReq is pushed in or insCreateQueue is
\* destroyed".  It does not look at stopped before it waits.
WorkerReleased == destroyed = "yes" => workerPc # "wait"
=============================================================================
