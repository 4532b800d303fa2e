----------------------- MODULE InstanceScalingProofs -----------------------
(***************************************************************************)
(* For any number of slots, requests and events: autoScaleUpFlag tells     *)
(* whether scaleUpLoop runs, so that TriggerScale neither misses a paused  *)
(* loop nor blocks on a full channel; no create request is left to a worker *)
(* that sleeps; the numbers of threads the scaler learns as differences are *)
(* the sums over the instances; and the pending threads cover the instances *)
(* on their way.                                                           *)
(***************************************************************************)
EXTENDS InstanceScaling, FiniteSums, TLAPS

LoopTypes ==
    /\ autoScaleUpFlag \in BOOLEAN
    /\ scaleUpTriggerCh \in BOOLEAN
    /\ scaleUpChan \in BOOLEAN
    /\ ticker \in BOOLEAN
    /\ upPc \in {"select", "sendFirst", "sendTick", "noReq", "pause", "scale", "push", "exited"}

\* where the loop is tells what is buffered: a trigger only before the loop
\* starts, a round only while the ticker runs
LoopState ==
    /\ scaleUpTriggerCh => autoScaleUpFlag /\ ~ticker /\ upPc \in {"select", "exited"}
    /\ ticker => autoScaleUpFlag
    /\ scaleUpChan => ticker
    /\ upPc = "sendFirst" => autoScaleUpFlag /\ ~ticker
    /\ upPc \in {"noReq", "pause", "scale", "push"} => ticker /\ ~scaleUpChan
    /\ upPc = "sendTick" => ticker
    /\ pushes > 0 \/ signalDue => upPc = "push"

FlagInv == LoopTypes /\ LoopState /\ FlagFollowsLoop

\* The initial state: the loop has not started.
LEMMA InitFlag == Init => FlagInv
<1> SUFFICES ASSUME Init PROVE FlagInv
  OBVIOUS
<1>1. /\ upPc = "select" /\ ~autoScaleUpFlag /\ ~scaleUpTriggerCh /\ ~scaleUpChan /\ ~ticker
      /\ ~(pushes > 0) /\ ~signalDue
  BY DEF Init
<1>2. LoopTypes
  BY DEF Init, LoopTypes
<1> QED BY <1>1, <1>2 DEF FlagInv, LoopState, FlagFollowsLoop

\* TriggerScale starts a paused loop and leaves a running one alone.
LEMMA TriggerFlag ==
    ASSUME FlagInv, NEW d, TriggerScale(d), UNCHANGED <<upLoop, create>>
    PROVE  FlagInv'
  <1>1. CASE autoScaleUpFlag
    <2>1. autoScaleUpFlag' = TRUE /\ scaleUpTriggerCh' = scaleUpTriggerCh
      BY <1>1, Zenon DEF TriggerScale, FlagInv, LoopTypes
    <2> QED BY <1>1, <2>1 DEF FlagInv, LoopTypes, LoopState, FlagFollowsLoop, upLoop, create
  <1>2. CASE ~autoScaleUpFlag
    <2>1. autoScaleUpFlag' = TRUE /\ scaleUpTriggerCh' = TRUE
      BY <1>2, Zenon DEF TriggerScale
    <2> QED BY <1>2, <2>1 DEF FlagInv, LoopTypes, LoopState, FlagFollowsLoop, upLoop, create
  <1> QED BY <1>1, <1>2

\* Steps of the loop keep flag, ticker and channels in step.
LEMMA LoopFlag ==
    ASSUME FlagInv, ScaleUpLoop
    PROVE  FlagInv'
  <1> USE DEF FlagInv, LoopTypes, LoopState, FlagFollowsLoop
  <1>1. CASE UpReceiveTrigger
    BY <1>1 DEF UpReceiveTrigger, create
  <1>2. CASE UpSendFirst
    BY <1>2 DEF UpSendFirst, trigger, create
  <1>3. CASE UpReceiveTick
    BY <1>3 DEF UpReceiveTick, trigger, create
  <1>4. CASE UpSendTick
    BY <1>4 DEF UpSendTick, trigger, create
  <1>5. CASE UpCheckReqNum
    BY <1>5 DEF UpCheckReqNum, trigger, create
  <1>6. CASE UpCheckDemand
    BY <1>6 DEF UpCheckDemand, trigger, create
  <1>7. CASE pauseScale
    BY <1>7 DEF pauseScale, create
  <1>8. CASE scaleUpInstances
    BY <1>8 DEF scaleUpInstances
  <1>9. CASE UpExit
    BY <1>9 DEF UpExit, trigger, create
  <1>10. CASE push
    BY <1>10 DEF push, trigger, upLoop
  <1>11. CASE Signal
    BY <1>11 DEF Signal, trigger
  <1> QED BY <1>1, <1>2, <1>3, <1>4, <1>5, <1>6, <1>7, <1>8, <1>9, <1>10, <1>11 DEF ScaleUpLoop

\* Every other step leaves the loop alone or calls TriggerScale.
LEMMA OtherFlag ==
    ASSUME FlagInv, UNCHANGED <<trigger, upLoop, pushes, signalDue>>
    PROVE  FlagInv'
  BY DEF FlagInv, LoopTypes, LoopState, FlagFollowsLoop, trigger, upLoop

LEMMA FlagStep ==
    ASSUME FlagInv, [Next]_vars
    PROVE  FlagInv'
  <1>1. CASE Acquire
    <2>1. CASE AcquireFails
      BY <2>1, OtherFlag DEF AcquireFails, create
    <2>2. CASE AddRequest
      BY <2>2, OtherFlag DEF AddRequest, create
    <2>3. CASE PublishTrigger
      BY <2>3, TriggerFlag DEF PublishTrigger
    <2>4. CASE RequestFails
      BY <2>4, OtherFlag DEF RequestFails, create
    <2>5. ASSUME NEW d \in 1 .. MaxDemand, ScaleHint(d) PROVE FlagInv'
      BY <2>5, TriggerFlag DEF ScaleHint
    <2>6. ASSUME NEW i \in Slots, TakeThread(i) PROVE FlagInv'
      BY <2>6, OtherFlag DEF TakeThread, create
    <2>7. ASSUME NEW i \in Slots, ReleaseThread(i) PROVE FlagInv'
      BY <2>7, OtherFlag DEF ReleaseThread, create
    <2> QED BY <1>1, <2>1, <2>2, <2>3, <2>4, <2>5, <2>6, <2>7 DEF Acquire
  <1>2. CASE Worker
    BY <1>2, OtherFlag DEF Worker, WorkerTop, getForCreate
  <1>3. CASE ScaleUpLoop
    BY <1>3, LoopFlag
  <1>4. CASE ScaleDown
    BY <1>4, OtherFlag DEF ScaleDown, DownReceiveTrigger, scaleDownInstances,
         DownFunctionDeleted, getForCancel, DownPopInstance, handlePendingInsNumIncrease, create
  <1>5. CASE Update
    BY <1>5, OtherFlag DEF Update, UpdateSignature, UpdateFuncSpec, DestroyBegins, Destroy,
         HandleInstanceDelete, create
  <1>6. ASSUME NEW i \in Slots, Creation(i) PROVE FlagInv'
    BY <1>6, OtherFlag DEF Creation, CreateSucceeds, CreateRetries, CreateGivesUp, AddInstance, create
  <1>7. CASE UNCHANGED vars
    BY <1>7, OtherFlag DEF vars, create
  <1> QED BY <1>1, <1>2, <1>3, <1>4, <1>5, <1>6, <1>7 DEF Next

\* autoScaleUpFlag is set exactly while scaleUpLoop has a trigger, a ticker or
\* a first round to come (or has been stopped), and while it is clear the
\* trigger channel is empty, so that the send TriggerScale makes with the
\* scaler locked never blocks.
THEOREM FlagTheorem == Spec => []FlagFollowsLoop
  <1>1. FlagInv => FlagFollowsLoop
    BY DEF FlagInv
  <1> QED BY <1>1, InitFlag, FlagStep, PTL DEF Spec

-----------------------------------------------------------------------------
(* The create queue's worker                                               *)

\* A step that leaves the queue and the worker alone.
LEMMA OtherAwake ==
    ASSUME WorkerAwake, UNCHANGED create
    PROVE  WorkerAwake'
  BY DEF WorkerAwake, create

LEMMA AwakeStep ==
    ASSUME WorkerAwake, [Next]_vars
    PROVE  WorkerAwake'
  <1>1. CASE Acquire
    BY <1>1, OtherAwake DEF Acquire, AcquireFails, AddRequest, PublishTrigger, RequestFails,
         ScaleHint, TakeThread, ReleaseThread
  <1>2. CASE Worker
    BY <1>2 DEF WorkerAwake, Worker, WorkerTop, getForCreate
  <1>3. CASE ScaleUpLoop
    <2>1. CASE scaleUpInstances \/ push \/ Signal
      BY <2>1 DEF WorkerAwake, scaleUpInstances, push, Signal
    <2>2. CASE ~(scaleUpInstances \/ push \/ Signal)
      BY <1>3, <2>2, OtherAwake DEF ScaleUpLoop, UpReceiveTrigger, UpSendFirst, UpReceiveTick,
           UpSendTick, UpCheckReqNum, UpCheckDemand, pauseScale, UpExit
    <2> QED BY <2>1, <2>2
  <1>4. CASE ScaleDown
    <2>1. CASE getForCancel
      BY <2>1 DEF WorkerAwake, getForCancel
    <2>2. CASE ~getForCancel
      BY <1>4, <2>2, OtherAwake DEF ScaleDown, DownReceiveTrigger, scaleDownInstances,
           DownFunctionDeleted, DownPopInstance, handlePendingInsNumIncrease
    <2> QED BY <2>1, <2>2
  <1>5. CASE Update
    <2>1. CASE Destroy
      BY <2>1 DEF WorkerAwake, Destroy
    <2>2. CASE ~Destroy
      BY <1>5, <2>2, OtherAwake DEF Update, UpdateSignature, UpdateFuncSpec, DestroyBegins,
           HandleInstanceDelete
    <2> QED BY <2>1, <2>2
  <1>6. ASSUME NEW i \in Slots, Creation(i) PROVE WorkerAwake'
    BY <1>6, OtherAwake DEF Creation, CreateSucceeds, CreateRetries, CreateGivesUp, AddInstance
  <1>7. CASE UNCHANGED vars
    BY <1>7, OtherAwake DEF vars
  <1> QED BY <1>1, <1>2, <1>3, <1>4, <1>5, <1>6, <1>7 DEF Next

\* No Signal of the create queue is lost: a request is never left in it while
\* the worker sleeps in getForCreate, whatever creations and cancellations
\* overlap.
THEOREM WorkerTheorem == Spec => []WorkerAwake
  <1>1. Init => WorkerAwake
    BY DEF Init, WorkerAwake
  <1> QED BY <1>1, AwakeStep, PTL DEF Spec

-----------------------------------------------------------------------------
(* Lemmas about numbers                                                    *)

LEMMA MaxOfTwo ==
    ASSUME NEW a \in Int, NEW b \in Int
    PROVE  Max({a, b}) \in {a, b} /\ Max({a, b}) >= a /\ Max({a, b}) >= b
<1>1. \E x \in {a, b} : \A y \in {a, b} : x >= y
  <2>1. CASE a >= b
    BY <2>1
  <2>2. CASE b >= a
    BY <2>2
  <2> QED BY <2>1, <2>2
<1> QED BY <1>1 DEF Max

LEMMA CeilNat ==
    ASSUME NEW n \in Nat, NEW d \in Nat \ {0}
    PROVE  Ceil(n, d) \in Nat
<1>1. n + d - 1 \in Nat
  OBVIOUS
<1>2. \A m \in Nat : m \div d \in Nat
  OBVIOUS
<1> QED BY <1>1, <1>2 DEF Ceil

LEMMA ProductNat == \A m, n \in Nat : m * n \in Nat
  OBVIOUS

LEMMA Distributes == \A a, b, c \in Int : a * (b + c) = a * b + a * c /\ a * b \in Int /\ a * b = b * a
  OBVIOUS

-----------------------------------------------------------------------------
(* The numbers of threads are sums over the instances                      *)

SlotState == [st : Stages, sig : Nat, cn : Concurrencies \cup {0}, used : Nat]

\* Only an instance in the scheduler has threads in use.
Shape(sl) ==
    /\ sl \in [Slots -> SlotState]
    /\ \A i \in Slots : sl[i].st # "live" => sl[i].used = 0

\* What the scheduler counts of each slot.
UsedBy(sl) == [i \in Slots |-> IF sl[i].st = "live" THEN sl[i].used ELSE 0]
ThreadsOf(sl) == [i \in Slots |-> IF sl[i].st = "live" THEN sl[i].cn ELSE 0]
SumUsed(sl) == SumFunctionOnSet(UsedBy(sl), Slots)
SumThreads(sl) == SumFunctionOnSet(ThreadsOf(sl), Slots)

CountsInv ==
    /\ Shape(slot)
    /\ inUseInsThdNum \in Nat /\ totalInsThdNum \in Nat /\ scaleDownTriggerCh \in BOOLEAN
    /\ destroyed # "yes" => inUseInsThdNum = SumUsed(slot) /\ totalInsThdNum = SumThreads(slot)

LEMMA SlotNat ==
    ASSUME NEW x \in SlotState
    PROVE  x.used \in Nat /\ x.cn \in Nat /\ x.cn \in Int
<1>1. x.used \in Nat /\ x.cn \in Concurrencies \cup {0}
  BY DEF SlotState
<1>2. Concurrencies \cup {0} \subseteq Nat
  BY ConstantsAssumption
<1> QED BY <1>1, <1>2

LEMMA CountedNat ==
    ASSUME NEW sl, Shape(sl)
    PROVE  \A i \in Slots : UsedBy(sl)[i] \in Nat /\ ThreadsOf(sl)[i] \in Nat
<1> SUFFICES ASSUME NEW i \in Slots PROVE UsedBy(sl)[i] \in Nat /\ ThreadsOf(sl)[i] \in Nat
  OBVIOUS
<1>1. sl[i] \in SlotState
  BY DEF Shape
<1>2. sl[i].used \in Nat /\ sl[i].cn \in Nat
  BY <1>1, SlotNat
<1> QED BY <1>2 DEF UsedBy, ThreadsOf

LEMMA SumsNat ==
    ASSUME NEW sl, Shape(sl)
    PROVE  SumUsed(sl) \in Nat /\ SumThreads(sl) \in Nat
<1> DEFINE f == UsedBy(sl)
           g == ThreadsOf(sl)
<1>1. IsFiniteSet(Slots) /\ (\A i \in Slots : f[i] \in Nat) /\ (\A i \in Slots : g[i] \in Nat)
  BY CountedNat, ConstantsAssumption
<1> HIDE DEF f, g
<1>2. SumFunctionOnSet(f, Slots) \in Nat
  BY <1>1, SumNat
<1>3. SumFunctionOnSet(g, Slots) \in Nat
  BY <1>1, SumNat
<1> QED BY <1>2, <1>3 DEF f, g, SumUsed, SumThreads

\* One slot changes.
LEMMA SlotChange ==
    ASSUME NEW sl, Shape(sl), NEW sl2, Shape(sl2), NEW i \in Slots, \A k \in Slots \ {i} : sl2[k] = sl[k]
    PROVE  /\ SumUsed(sl2) = SumUsed(sl) - UsedBy(sl)[i] + UsedBy(sl2)[i]
           /\ SumThreads(sl2) = SumThreads(sl) - ThreadsOf(sl)[i] + ThreadsOf(sl2)[i]
<1> DEFINE f == UsedBy(sl)
           f2 == UsedBy(sl2)
           g == ThreadsOf(sl)
           g2 == ThreadsOf(sl2)
<1>1. /\ IsFiniteSet(Slots)
      /\ \A k \in Slots : f[k] \in Int /\ f2[k] \in Int /\ g[k] \in Int /\ g2[k] \in Int
  BY CountedNat, ConstantsAssumption
<1>2. \A k \in Slots \ {i} : f[k] = f2[k] /\ g[k] = g2[k]
  BY DEF UsedBy, ThreadsOf
<1> HIDE DEF f, f2, g, g2
<1>3. SumFunctionOnSet(f2, Slots) = SumFunctionOnSet(f, Slots) - Part(f, Slots, i) + Part(f2, Slots, i)
  BY <1>1, <1>2, SumChange
<1>4. SumFunctionOnSet(g2, Slots) = SumFunctionOnSet(g, Slots) - Part(g, Slots, i) + Part(g2, Slots, i)
  BY <1>1, <1>2, SumChange
<1> QED BY <1>3, <1>4 DEF f, f2, g, g2, SumUsed, SumThreads, Part

\* Instances leave the scheduler.
LEMMA SlotsRemoved ==
    ASSUME NEW sl, Shape(sl), NEW is \in SUBSET Slots, \A i \in is : sl[i].st = "live",
           NEW sl2, sl2 = [i \in Slots |-> IF i \in is THEN Free ELSE sl[i]]
    PROVE  /\ Shape(sl2)
           /\ SumFunctionOnSet([i \in is |-> sl[i].used], is) \in Int
           /\ SumFunctionOnSet([i \in is |-> sl[i].cn], is) \in Int
           /\ SumUsed(sl2) = SumUsed(sl) - SumFunctionOnSet([i \in is |-> sl[i].used], is)
           /\ SumThreads(sl2) = SumThreads(sl) - SumFunctionOnSet([i \in is |-> sl[i].cn], is)
<1> DEFINE f == UsedBy(sl)
           f2 == UsedBy(sl2)
           e == [i \in is |-> sl[i].used]
           g == ThreadsOf(sl)
           g2 == ThreadsOf(sl2)
           d == [i \in is |-> sl[i].cn]
<1>1. Shape(sl2)
  BY DEF Shape, SlotState, Free, Stages
<1>2. /\ IsFiniteSet(Slots) /\ IsFiniteSet(is)
      /\ \A k \in Slots : f[k] \in Int /\ g[k] \in Int
  BY CountedNat, FS_Subset, ConstantsAssumption
<1>3. \A k \in Slots : /\ f2[k] = IF k \in is THEN 0 ELSE f[k]
                       /\ g2[k] = IF k \in is THEN 0 ELSE g[k]
  <2>1. Free.st # "live"
    BY DEF Free
  <2> HIDE DEF f, f2, g, g2
  <2> QED BY <2>1 DEF f, f2, g, g2, UsedBy, ThreadsOf
<1>4. \A k \in is : f[k] = e[k] /\ g[k] = d[k]
  BY DEF UsedBy, ThreadsOf
<1> HIDE DEF f, f2, g, g2, e, d
<1>5. SumFunctionOnSet(f2, Slots) = SumFunctionOnSet(f, Slots) - SumFunctionOnSet(f, is)
  BY <1>2, <1>3, SumDrop
<1>6. SumFunctionOnSet(g2, Slots) = SumFunctionOnSet(g, Slots) - SumFunctionOnSet(g, is)
  BY <1>2, <1>3, SumDrop
<1>7. SumFunctionOnSet(f, is) = SumFunctionOnSet(e, is) /\ SumFunctionOnSet(f, is) \in Int
  BY <1>2, <1>4, SumEqual, SumInt
<1>8. SumFunctionOnSet(g, is) = SumFunctionOnSet(d, is) /\ SumFunctionOnSet(g, is) \in Int
  BY <1>2, <1>4, SumEqual, SumInt
<1> QED BY <1>1, <1>5, <1>6, <1>7, <1>8 DEF f, f2, g, g2, e, d, SumUsed, SumThreads

\* What the scheduler publishes keeps the scaler's numbers in step.
LEMMA Published ==
    ASSUME CountsInv, NEW u \in Int, NEW n \in Int, Publish(u, n), UNCHANGED destroyed, Shape(slot'),
           SumUsed(slot') = SumUsed(slot) + u, SumThreads(slot') = SumThreads(slot) + n
    PROVE  CountsInv'
<1>0. SumUsed(slot') \in Nat /\ SumThreads(slot') \in Nat
  BY SumsNat
<1>1. CASE destroyed = "yes"
  <2>1. UNCHANGED counts
    BY <1>1 DEF Publish
  <2> QED BY <1>1, <2>1 DEF CountsInv, counts, Shape
<1>2. CASE destroyed # "yes"
  <2>1. inUseInsThdNum' = inUseInsThdNum + u /\ totalInsThdNum' = totalInsThdNum + n
    BY <1>2 DEF Publish
  <2>2. inUseInsThdNum' = SumUsed(slot') /\ totalInsThdNum' = SumThreads(slot')
    BY <1>2, <2>1 DEF CountsInv
  <2>3. scaleDownTriggerCh' \in BOOLEAN
    BY <1>2, Zenon DEF Publish
  <2> QED BY <1>0, <2>2, <2>3 DEF CountsInv, Shape, SumUsed, SumThreads, UsedBy, ThreadsOf
<1> QED BY <1>1, <1>2

LEMMA RemoveCounts ==
    ASSUME CountsInv, NEW is \in SUBSET Live, Remove(is), UNCHANGED destroyed
    PROVE  CountsInv'
<1> DEFINE u == SumFunctionOnSet([i \in is |-> slot[i].used], is)
           n == SumFunctionOnSet([i \in is |-> slot[i].cn], is)
<1>1. is \in SUBSET Slots /\ (\A i \in is : slot[i].st = "live") /\ Shape(slot)
      /\ slot' = [i \in Slots |-> IF i \in is THEN Free ELSE slot[i]]
  BY DEF Live, CountsInv, Remove
<1>2. /\ Shape(slot') /\ u \in Int /\ n \in Int
      /\ SumUsed(slot') = SumUsed(slot) - u /\ SumThreads(slot') = SumThreads(slot) - n
  BY <1>1, SlotsRemoved
<1>3. Publish(-u, -n)
  BY DEF Remove
<1> HIDE DEF u, n
<1>4. SumUsed(slot) \in Nat /\ SumThreads(slot) \in Nat
  BY <1>1, SumsNat
<1>5. -u \in Int /\ -n \in Int /\ SumUsed(slot') = SumUsed(slot) + (-u) /\ SumThreads(slot') = SumThreads(slot) + (-n)
  BY <1>2, <1>4
<1> QED BY <1>2, <1>3, <1>5, Published

\* A slot outside the scheduler changes.
LEMMA OutsideCounts ==
    ASSUME CountsInv, NEW i \in Slots, NEW x \in SlotState, x.st # "live", x.used = 0, slot[i].st # "live",
           slot' = [slot EXCEPT ![i] = x], UNCHANGED <<counts, destroyed>>
    PROVE  CountsInv'
<1>1. Shape(slot') /\ (\A k \in Slots \ {i} : slot'[k] = slot[k]) /\ slot'[i] = x
  BY DEF CountsInv, Shape
<1>2. SumUsed(slot') = SumUsed(slot) /\ SumThreads(slot') = SumThreads(slot)
  <2>1. /\ UsedBy(slot)[i] = 0 /\ UsedBy(slot')[i] = 0
        /\ ThreadsOf(slot)[i] = 0 /\ ThreadsOf(slot')[i] = 0
    BY <1>1 DEF UsedBy, ThreadsOf
  <2>2. /\ SumUsed(slot') = SumUsed(slot) - UsedBy(slot)[i] + UsedBy(slot')[i]
        /\ SumThreads(slot') = SumThreads(slot) - ThreadsOf(slot)[i] + ThreadsOf(slot')[i]
    <3>1. Shape(slot)
      BY DEF CountsInv
    <3> QED BY ONLY i \in Slots, <1>1, <3>1, SlotChange
  <2>3. SumUsed(slot) \in Nat /\ SumThreads(slot) \in Nat
    BY SumsNat DEF CountsInv
  <2> QED BY <2>1, <2>2, <2>3
<1> QED BY <1>1, <1>2 DEF CountsInv, counts, Shape, SumUsed, SumThreads, UsedBy, ThreadsOf

LEMMA SameCounts ==
    ASSUME CountsInv, UNCHANGED <<slot, counts, destroyed>>
    PROVE  CountsInv'
  BY DEF CountsInv, counts, Shape, SumUsed, SumThreads, UsedBy, ThreadsOf

RestOK ==
    /\ tried \in Nat /\ reqs \in Nat /\ untold \in Nat
    /\ autoScaleUpFlag \in BOOLEAN /\ scaleUpTriggerCh \in BOOLEAN
    /\ scaleUpChan \in BOOLEAN /\ ticker \in BOOLEAN
    /\ downTimer \in BOOLEAN /\ updating \in BOOLEAN
    /\ minScaleDemand \in 0 .. MaxDemand
    /\ pendingInsThdNum \in Int /\ remainedInsThdReqNum \in Nat
    /\ concurrentNum \in Concurrencies
    /\ upPc \in {"select", "sendFirst", "sendTick", "noReq", "pause", "scale", "push", "exited"}
    /\ pushes \in Nat /\ signalDue \in BOOLEAN
    /\ createQueue \in Nat /\ downs \in Nat /\ offsets \in Nat /\ funcSig \in Nat
    /\ workerPc \in {"top", "get", "wait", "woken", "exited"}
    /\ destroyed \in {"no", "closing", "yes"}
    /\ events \in 0 .. MaxEvents

TypeInv == RestOK /\ CountsInv

LEMMA TypeInvImplies == TypeInv => TypeOK
  BY DEF TypeInv, RestOK, CountsInv, Shape, SlotState, TypeOK

LEMMA ConcNat == ASSUME RestOK PROVE concurrentNum \in Nat \ {0} /\ concurrentNum \in Int
  BY ConstantsAssumption DEF RestOK

LEMMA FreeState == Free \in SlotState /\ Free.st = "free" /\ Free.used = 0
  BY DEF Free, SlotState, Stages

LEMMA AttemptState ==
    ASSUME RestOK
    PROVE  /\ Attempt \in SlotState /\ Attempt.used = 0
           /\ destroyed = "no" => Attempt.st = "creating"
           /\ destroyed # "no" => Attempt.st = "free"
<1>1. CASE destroyed # "no"
  BY <1>1, FreeState DEF Attempt
<1>2. CASE destroyed = "no"
  BY <1>2 DEF Attempt, SlotState, Stages, RestOK
<1> QED BY <1>1, <1>2

\* A thread of a live instance is taken or given back, or an instance is added.
LEMMA LiveCounts ==
    ASSUME CountsInv, NEW i \in Slots, NEW x \in SlotState, x.st = "live",
           slot' = [slot EXCEPT ![i] = x], NEW u \in Int, NEW n \in Int, Publish(u, n), UNCHANGED destroyed,
           x.used = UsedBy(slot)[i] + u, x.cn = ThreadsOf(slot)[i] + n
    PROVE  CountsInv'
<1>0. Shape(slot)
  BY DEF CountsInv
<1>1. Shape(slot') /\ (\A k \in Slots \ {i} : slot'[k] = slot[k]) /\ slot'[i] = x
  BY <1>0 DEF Shape
<1>2. UsedBy(slot')[i] = x.used /\ ThreadsOf(slot')[i] = x.cn
  BY <1>1 DEF UsedBy, ThreadsOf
<1>3. /\ SumUsed(slot') = SumUsed(slot) - UsedBy(slot)[i] + UsedBy(slot')[i]
      /\ SumThreads(slot') = SumThreads(slot) - ThreadsOf(slot)[i] + ThreadsOf(slot')[i]
  BY ONLY i \in Slots, <1>0, <1>1, SlotChange
<1>4. /\ SumUsed(slot) \in Nat /\ SumThreads(slot) \in Nat
      /\ UsedBy(slot)[i] \in Nat /\ ThreadsOf(slot)[i] \in Nat
  BY <1>0, SumsNat, CountedNat
<1>5. SumUsed(slot') = SumUsed(slot) + u /\ SumThreads(slot') = SumThreads(slot) + n
  BY <1>2, <1>3, <1>4
<1> QED BY <1>1, <1>5, Published

\* The steps of one instance.
LEMMA InstanceCounts ==
    ASSUME TypeInv, NEW i \in Slots, TakeThread(i) \/ ReleaseThread(i) \/ Creation(i)
    PROVE  CountsInv'
<1>0. CountsInv /\ RestOK /\ Shape(slot) /\ slot[i] \in SlotState
  BY DEF TypeInv, CountsInv, Shape
<1>1. CASE TakeThread(i)
  <2> DEFINE x == [slot[i] EXCEPT !.used = slot[i].used + 1]
  <2>1. slot[i].st = "live" /\ Publish(1, 0) /\ UNCHANGED destroyed /\ slot' = [slot EXCEPT ![i] = x]
    BY <1>1 DEF TakeThread, Avail, func
  <2>2. x \in SlotState /\ x.st = "live" /\ x.used = slot[i].used + 1 /\ x.cn = slot[i].cn
    BY <1>0, <2>1 DEF SlotState
  <2>3. UsedBy(slot)[i] = slot[i].used /\ ThreadsOf(slot)[i] = slot[i].cn
    BY <2>1 DEF UsedBy, ThreadsOf
  <2>4. ThreadsOf(slot)[i] \in Nat
    BY <1>0, CountedNat
  <2> HIDE DEF x
  <2>5. x.used = UsedBy(slot)[i] + 1 /\ x.cn = ThreadsOf(slot)[i] + 0
    BY <2>2, <2>3, <2>4
  <2> QED BY ONLY i \in Slots, 1 \in Int, 0 \in Int, <1>0, <2>1, <2>2, <2>5, LiveCounts
<1>2. CASE ReleaseThread(i)
  <2> DEFINE x == [slot[i] EXCEPT !.used = slot[i].used - 1]
  <2>1. slot[i].st = "live" /\ slot[i].used > 0 /\ Publish(-1, 0) /\ UNCHANGED destroyed
        /\ slot' = [slot EXCEPT ![i] = x]
    BY <1>2 DEF ReleaseThread, Live, func
  <2>2. x \in SlotState /\ x.st = "live" /\ x.used = slot[i].used - 1 /\ x.cn = slot[i].cn
    BY <1>0, <2>1 DEF SlotState
  <2>3. UsedBy(slot)[i] = slot[i].used /\ ThreadsOf(slot)[i] = slot[i].cn
    BY <2>1 DEF UsedBy, ThreadsOf
  <2>4. ThreadsOf(slot)[i] \in Nat /\ UsedBy(slot)[i] \in Nat /\ -1 \in Int
    BY <1>0, CountedNat
  <2> HIDE DEF x
  <2>5. x.used = UsedBy(slot)[i] + (-1) /\ x.cn = ThreadsOf(slot)[i] + 0
    BY <2>2, <2>3, <2>4
  <2> QED BY ONLY i \in Slots, 0 \in Int, <1>0, <2>1, <2>2, <2>4, <2>5, LiveCounts
<1>3. CASE AddInstance(i)
  <2> DEFINE x == [slot[i] EXCEPT !.st = "live"]
  <2>1. slot[i].st = "adding" /\ Publish(0, slot[i].cn) /\ UNCHANGED destroyed /\ slot' = [slot EXCEPT ![i] = x]
    BY <1>3 DEF AddInstance, func
  <2>2. x \in SlotState /\ x.st = "live" /\ x.used = slot[i].used /\ x.cn = slot[i].cn
    BY <1>0, <2>1 DEF SlotState, Stages
  <2>3. UsedBy(slot)[i] = 0 /\ ThreadsOf(slot)[i] = 0 /\ slot[i].used = 0
    BY <1>0, <2>1 DEF UsedBy, ThreadsOf, Shape
  <2>4. slot[i].cn \in Int
    BY <1>0, SlotNat
  <2> HIDE DEF x
  <2>5. x.used = UsedBy(slot)[i] + 0 /\ x.cn = ThreadsOf(slot)[i] + slot[i].cn
    BY <2>2, <2>3, <2>4
  <2> QED BY ONLY i \in Slots, 0 \in Int, <1>0, <2>1, <2>2, <2>4, <2>5, LiveCounts
<1>4. CASE CreateSucceeds(i)
  <2> DEFINE x == [slot[i] EXCEPT !.st = "adding"]
  <2>1. slot[i].st = "creating" /\ UNCHANGED <<counts, destroyed>> /\ slot' = [slot EXCEPT ![i] = x]
    BY <1>4 DEF CreateSucceeds, func
  <2>2. x \in SlotState /\ x.st # "live" /\ x.used = 0
    BY <1>0, <2>1 DEF SlotState, Stages, Shape
  <2> HIDE DEF x
  <2> QED BY <1>0, <2>1, <2>2, OutsideCounts
<1>5. CASE CreateRetries(i)
  <2>1. slot[i].st = "creating" /\ UNCHANGED <<counts, destroyed>> /\ slot' = [slot EXCEPT ![i] = Attempt]
    BY <1>5 DEF CreateRetries, func
  <2>2. Attempt \in SlotState /\ Attempt.used = 0 /\ Attempt.st # "live"
    BY <1>0, AttemptState
  <2> QED BY <1>0, <2>1, <2>2, OutsideCounts
<1>6. CASE CreateGivesUp(i)
  <2>1. slot[i].st = "creating" /\ UNCHANGED <<counts, destroyed>> /\ slot' = [slot EXCEPT ![i] = Free]
    BY <1>6 DEF CreateGivesUp, func
  <2> QED BY <1>0, <2>1, FreeState, OutsideCounts
<1> QED BY <1>1, <1>2, <1>3, <1>4, <1>5, <1>6 DEF Creation

LEMMA WorkerCounts == ASSUME TypeInv, Worker PROVE CountsInv'
<1>0. CountsInv /\ RestOK /\ Shape(slot)
  BY DEF TypeInv, CountsInv
<1>1. UNCHANGED <<counts, destroyed>>
  BY DEF Worker, WorkerTop, getForCreate, func
<1>2. CASE UNCHANGED slot
  BY <1>0, <1>1, <1>2, SameCounts
<1>3. CASE \E i \in Slots : slot[i] = Free /\ slot' = [slot EXCEPT ![i] = Attempt]
  <2>1. PICK i \in Slots : slot[i] = Free /\ slot' = [slot EXCEPT ![i] = Attempt]
    BY <1>3
  <2>2. Attempt \in SlotState /\ Attempt.used = 0 /\ Attempt.st # "live"
    BY <1>0, AttemptState
  <2>3. slot[i].st # "live"
    BY <2>1, FreeState
  <2> QED BY <1>0, <1>1, <2>1, <2>2, <2>3, OutsideCounts
<1> QED BY <1>2, <1>3 DEF Worker, WorkerTop, getForCreate

LEMMA CountsStep == ASSUME TypeInv, [Next]_vars PROVE CountsInv'
<1>0. CountsInv /\ RestOK
  BY DEF TypeInv
<1>1. CASE UNCHANGED <<slot, counts, destroyed>>
  BY <1>0, <1>1, SameCounts
<1>2. CASE Acquire
  <2>1. CASE AcquireFails \/ AddRequest \/ PublishTrigger \/ RequestFails \/ \E d \in 1 .. MaxDemand : ScaleHint(d)
    BY <1>1, <2>1 DEF AcquireFails, AddRequest, PublishTrigger, RequestFails, ScaleHint, func
  <2> QED BY <1>2, <2>1, InstanceCounts DEF Acquire
<1>3. CASE Worker
  BY <1>3, WorkerCounts
<1>4. CASE ScaleUpLoop
  BY <1>1, <1>4 DEF ScaleUpLoop, UpReceiveTrigger, UpSendFirst, UpReceiveTick, UpSendTick,
       UpCheckReqNum, UpCheckDemand, pauseScale, scaleUpInstances, push, Signal, UpExit, func
<1>5. CASE ScaleDown
  <2>1. CASE DownReceiveTrigger
    BY <1>0, <2>1 DEF DownReceiveTrigger, CountsInv, func, Shape, SumUsed, SumThreads, UsedBy, ThreadsOf
  <2>2. CASE DownPopInstance
    <3>1. UNCHANGED <<slot, counts, destroyed>> \/ \E i \in Live : Remove({i}) /\ UNCHANGED destroyed
      BY <2>2 DEF DownPopInstance, func
    <3> QED BY <1>0, <1>1, <3>1, RemoveCounts
  <2> QED BY <1>1, <1>5, <2>1, <2>2 DEF ScaleDown, scaleDownInstances, DownFunctionDeleted, getForCancel,
            handlePendingInsNumIncrease, func
<1>6. CASE Update
  <2>1. CASE UpdateSignature
    BY <1>1, <2>1 DEF UpdateSignature
  <2>2. ASSUME NEW c \in Concurrencies, UpdateFuncSpec(c) PROVE CountsInv'
    BY <1>0, <2>2, RemoveCounts DEF UpdateFuncSpec
  <2>3. CASE DestroyBegins
    <3>1. UNCHANGED <<slot, counts>> /\ destroyed = "no" /\ destroyed' = "closing"
      BY <2>3 DEF DestroyBegins
    <3> QED BY <1>0, <3>1 DEF CountsInv, counts, Shape, SumUsed, SumThreads, UsedBy, ThreadsOf
  <2>4. CASE Destroy
    <3>1. /\ UNCHANGED counts /\ destroyed' = "yes"
          /\ slot' = [i \in Slots |-> IF i \in Live THEN Free ELSE slot[i]]
      BY <2>4 DEF Destroy
    <3>2. Shape(slot')
      BY <1>0, <3>1, FreeState DEF CountsInv, Shape
    <3> QED BY <1>0, <3>1, <3>2 DEF CountsInv, counts, Shape
  <2>5. ASSUME NEW i \in Slots, HandleInstanceDelete(i) PROVE CountsInv'
    BY <1>0, <2>5, RemoveCounts DEF HandleInstanceDelete, func
  <2> QED BY <1>6, <2>1, <2>2, <2>3, <2>4, <2>5 DEF Update
<1>7. ASSUME NEW i \in Slots, Creation(i) PROVE CountsInv'
  BY <1>7, InstanceCounts
<1>8. CASE UNCHANGED vars
  BY <1>1, <1>8 DEF vars, func
<1> QED BY <1>2, <1>3, <1>4, <1>5, <1>6, <1>7, <1>8 DEF Next

\* A step that leaves all of the types' variables but those of the counts.
LEMMA SameRest ==
    ASSUME RestOK, UNCHANGED <<calls, demand, trigger, upLoop, create, down, func, events>>
    PROVE  RestOK'
  BY DEF RestOK, calls, demand, trigger, upLoop, create, down, func

LEMMA EventOK == ASSUME RestOK, Event PROVE events' \in 0 .. MaxEvents
  BY ConstantsAssumption DEF RestOK, Event

LEMMA TriggerOK ==
    ASSUME RestOK, NEW d \in 0 .. MaxDemand, TriggerScale(d)
    PROVE  minScaleDemand' \in 0 .. MaxDemand /\ autoScaleUpFlag' \in BOOLEAN /\ scaleUpTriggerCh' \in BOOLEAN
<1>1. minScaleDemand' \in 0 .. MaxDemand
  <2>1. minScaleDemand' = Max({minScaleDemand, d}) /\ minScaleDemand \in 0 .. MaxDemand
    BY DEF TriggerScale, RestOK
  <2>2. Max({minScaleDemand, d}) \in {minScaleDemand, d}
    BY <2>1, MaxOfTwo
  <2> QED BY <2>1, <2>2
<1>2. autoScaleUpFlag' \in BOOLEAN /\ scaleUpTriggerCh' \in BOOLEAN
  BY Zenon DEF TriggerScale
<1> QED BY <1>1, <1>2

LEMMA AcquireRest == ASSUME RestOK, Acquire PROVE RestOK'
<1>1. CASE AcquireFails
  BY <1>1, EventOK DEF AcquireFails, RestOK, demand, trigger, upLoop, create, down, func
<1>2. CASE AddRequest
  BY <1>2 DEF AddRequest, RestOK, demand, trigger, upLoop, create, down, func
<1>3. CASE PublishTrigger
  <2>1. TriggerScale(0) /\ 0 \in 0 .. MaxDemand
    BY <1>3, ConstantsAssumption DEF PublishTrigger
  <2>2. minScaleDemand' \in 0 .. MaxDemand /\ autoScaleUpFlag' \in BOOLEAN /\ scaleUpTriggerCh' \in BOOLEAN
    BY <2>1, TriggerOK
  <2> QED BY <1>3, <2>2 DEF PublishTrigger, RestOK, demand, upLoop, create, down, func
<1>4. CASE RequestFails
  BY <1>4 DEF RequestFails, RestOK, demand, trigger, upLoop, create, down, func
<1>5. ASSUME NEW d \in 1 .. MaxDemand, ScaleHint(d) PROVE RestOK'
  <2>1. TriggerScale(d) /\ d \in 0 .. MaxDemand
    BY <1>5, ConstantsAssumption DEF ScaleHint
  <2>2. minScaleDemand' \in 0 .. MaxDemand /\ autoScaleUpFlag' \in BOOLEAN /\ scaleUpTriggerCh' \in BOOLEAN
    BY <2>1, TriggerOK
  <2>3. events' \in 0 .. MaxEvents
    BY <1>5, EventOK DEF ScaleHint
  <2> QED BY <1>5, <2>2, <2>3 DEF ScaleHint, RestOK, calls, demand, upLoop, create, down, func
<1>6. ASSUME NEW i \in Slots, TakeThread(i) PROVE RestOK'
  <2>1. events' \in 0 .. MaxEvents /\ reqs' \in Nat
    BY <1>6, EventOK DEF TakeThread, RestOK
  <2> QED BY <1>6, <2>1 DEF TakeThread, RestOK, demand, trigger, upLoop, create, down, func
<1>7. ASSUME NEW i \in Slots, ReleaseThread(i) PROVE RestOK'
  BY <1>7, SameRest DEF ReleaseThread
<1> QED BY <1>1, <1>2, <1>3, <1>4, <1>5, <1>6, <1>7 DEF Acquire

LEMMA WorkerRest == ASSUME RestOK, Worker PROVE RestOK'
<1>1. createQueue' \in Nat /\ workerPc' \in {"top", "get", "wait", "woken", "exited"}
  BY DEF Worker, WorkerTop, getForCreate, RestOK
<1>2. UNCHANGED <<calls, demand, trigger, upLoop, pushes, signalDue, down, func, events>>
  BY DEF Worker, WorkerTop, getForCreate
<1> QED BY <1>1, <1>2 DEF RestOK, calls, demand, trigger, upLoop, down, func

\* A round asks for a number of threads and creates that many, rounded up.
LEMMA ScaleUpShape ==
    ASSUME RestOK, scaleUpInstances
    PROVE  \/ UNCHANGED <<demand, pushes>>
           \/ \E k \in Nat : /\ pendingInsThdNum' = pendingInsThdNum + k * concurrentNum
                             /\ remainedInsThdReqNum' \in Nat /\ pushes' = k
<1> DEFINE d == Max({reqs, minScaleDemand})
<1>0. /\ reqs \in Nat /\ minScaleDemand \in Nat /\ remainedInsThdReqNum \in Nat /\ pendingInsThdNum \in Int
  BY ConstantsAssumption DEF RestOK
<1>1. d \in Nat
  <2>1. Max({reqs, minScaleDemand}) \in {reqs, minScaleDemand}
    BY <1>0, MaxOfTwo
  <2> QED BY <1>0, <2>1
<1> HIDE DEF d
<1>2. ASSUME NEW r \in {Without(d)} \cup With(d) PROVE r.ask \in Nat
  <2>1. CASE r = Without(d)
    BY <1>1, <2>1 DEF Without
  <2>2. CASE r \in With(d)
    <3>1. PICK n \in 0 .. d : r = [ask |-> IF remainedInsThdReqNum < d THEN Max({n, remainedInsThdReqNum}) ELSE n,
                                   keep |-> FALSE]
      BY <2>2 DEF With
    <3>2. n \in Nat /\ Max({n, remainedInsThdReqNum}) \in Nat
      BY <1>0, <1>1, MaxOfTwo
    <3>3. r.ask = IF remainedInsThdReqNum < d THEN Max({n, remainedInsThdReqNum}) ELSE n
      BY <3>1
    <3> QED BY <3>2, <3>3
  <2> QED BY <1>2, <2>1, <2>2
<1> SUFFICES ASSUME ~UNCHANGED <<demand, pushes>>
             PROVE  \E k \in Nat : /\ pendingInsThdNum' = pendingInsThdNum + k * concurrentNum
                                   /\ remainedInsThdReqNum' \in Nat /\ pushes' = k
  OBVIOUS
<1>3. PICK r \in {Without(d)} \cup With(d) :
        LET thds  == AtLeast0(r.ask - pendingInsThdNum)
            insts == Ceil(thds, concurrentNum)
        IN /\ pendingInsThdNum' = pendingInsThdNum + insts * concurrentNum
           /\ remainedInsThdReqNum' = IF r.keep THEN remainedInsThdReqNum ELSE AtLeast0(d - thds)
           /\ pushes' = insts
  BY DEF scaleUpInstances, d
<1> DEFINE thds == AtLeast0(r.ask - pendingInsThdNum)
           k == Ceil(thds, concurrentNum)
<1>4. thds \in Nat
  BY <1>0, <1>2 DEF AtLeast0
<1>5. AtLeast0(d - thds) \in Nat
  BY <1>1, <1>4 DEF AtLeast0
<1>6. k \in Nat
  BY <1>4, ConcNat, CeilNat
<1>7. remainedInsThdReqNum' \in Nat
  BY <1>0, <1>3, <1>5
<1> QED BY <1>3, <1>6, <1>7

LEMMA ScaleUpRest == ASSUME RestOK, ScaleUpLoop PROVE RestOK'
<1>1. CASE scaleUpInstances
  <2>1. minScaleDemand' \in 0 .. MaxDemand
    BY <1>1, ConstantsAssumption DEF scaleUpInstances
  <2>2. pendingInsThdNum' \in Int /\ remainedInsThdReqNum' \in Nat /\ pushes' \in Nat
    <3>1. CASE UNCHANGED <<demand, pushes>>
      BY <3>1 DEF RestOK, demand
    <3>2. ASSUME NEW k \in Nat, pendingInsThdNum' = pendingInsThdNum + k * concurrentNum,
                 remainedInsThdReqNum' \in Nat, pushes' = k
          PROVE  pendingInsThdNum' \in Int /\ remainedInsThdReqNum' \in Nat /\ pushes' \in Nat
      <4>1. k * concurrentNum \in Int /\ pendingInsThdNum \in Int
        BY ConcNat, Distributes DEF RestOK
      <4>2. pendingInsThdNum' \in Int
        BY <3>2, <4>1
      <4> QED BY <3>2, <4>2
    <3> QED BY <1>1, <3>1, <3>2, ScaleUpShape
  <2>3. /\ UNCHANGED <<calls, autoScaleUpFlag, scaleUpTriggerCh, scaleUpChan, ticker, createQueue, workerPc,
                       signalDue, down, func, events>>
        /\ upPc' \in {"select", "push"}
    BY <1>1 DEF scaleUpInstances
  <2> QED BY <2>1, <2>2, <2>3 DEF RestOK, calls, down, func
<1>2. CASE push
  <2>1. pushes' \in Nat /\ createQueue' \in Nat /\ signalDue' = TRUE
    BY <1>2 DEF push, RestOK
  <2> QED BY <1>2, <2>1 DEF push, RestOK, calls, demand, trigger, upLoop, down, func
<1>3. CASE Signal
  <2>1. /\ upPc' \in {"select", "sendFirst", "sendTick", "noReq", "pause", "scale", "push", "exited"}
        /\ workerPc' \in {"top", "get", "wait", "woken", "exited"} /\ signalDue' = FALSE
    BY <1>3 DEF Signal, RestOK
  <2> QED BY <1>3, <2>1 DEF Signal, RestOK, calls, demand, trigger, down, func
<1>4. CASE ~(scaleUpInstances \/ push \/ Signal)
  <2>1. /\ autoScaleUpFlag' \in BOOLEAN /\ scaleUpTriggerCh' \in BOOLEAN /\ scaleUpChan' \in BOOLEAN
        /\ ticker' \in BOOLEAN
        /\ upPc' \in {"select", "sendFirst", "sendTick", "noReq", "pause", "scale", "push", "exited"}
    BY <1>4 DEF ScaleUpLoop, UpReceiveTrigger, UpSendFirst, UpReceiveTick, UpSendTick,
       UpCheckReqNum, UpCheckDemand, pauseScale, UpExit, RestOK, trigger
  <2>2. UNCHANGED <<calls, demand, minScaleDemand, create, down, func, events>>
    BY <1>4 DEF ScaleUpLoop, UpReceiveTrigger, UpSendFirst, UpReceiveTick, UpSendTick,
       UpCheckReqNum, UpCheckDemand, pauseScale, UpExit, trigger
  <2> QED BY <2>1, <2>2 DEF RestOK, calls, demand, create, down, func
<1> QED BY <1>1, <1>2, <1>3, <1>4

\* Scaling down takes some number of instances from the pending ones.
LEMMA ScaleDownShape ==
    ASSUME RestOK, inUseInsThdNum \in Nat, totalInsThdNum \in Nat, scaleDownInstances
    PROVE  \E k \in Nat : pendingInsThdNum' = pendingInsThdNum - k * concurrentNum /\ downs' = downs + k
<1>1. PICK n \in (0 .. totalInsThdNum) \cup {AtLeast0(totalInsThdNum - inUseInsThdNum)} :
         LET insts == AtLeast0(n + pendingInsThdNum) \div concurrentNum
         IN /\ pendingInsThdNum' = pendingInsThdNum - insts * concurrentNum
            /\ downs' = downs + insts
  BY DEF scaleDownInstances
<1> DEFINE m == AtLeast0(n + pendingInsThdNum)
           k == m \div concurrentNum
<1>2. n \in Int /\ pendingInsThdNum \in Int
  BY DEF AtLeast0, RestOK
<1>3. m \in Nat
  BY <1>2 DEF AtLeast0
<1> HIDE DEF m
<1>4. k \in Nat
  BY <1>3, ConcNat
<1> QED BY <1>1, <1>4 DEF m

LEMMA ScaleDownRest == ASSUME TypeInv, ScaleDown PROVE RestOK'
<1>0. RestOK /\ inUseInsThdNum \in Nat /\ totalInsThdNum \in Nat
  BY DEF TypeInv, CountsInv
<1>1. CASE scaleDownInstances
  <2>1. PICK k \in Nat : pendingInsThdNum' = pendingInsThdNum - k * concurrentNum /\ downs' = downs + k
    BY <1>0, <1>1, ScaleDownShape
  <2>2. k * concurrentNum \in Int /\ pendingInsThdNum \in Int /\ downs \in Nat
    BY <1>0, ConcNat, Distributes DEF RestOK
  <2>3. pendingInsThdNum' \in Int /\ downs' \in Nat
    BY <2>1, <2>2
  <2>4. events' \in 0 .. MaxEvents
    BY <1>0, <1>1, EventOK DEF scaleDownInstances
  <2>5. UNCHANGED <<calls, remainedInsThdReqNum, trigger, upLoop, create, offsets, func>> /\ downTimer' = FALSE
    BY <1>1 DEF scaleDownInstances
  <2>6. downTimer' \in BOOLEAN
    BY <2>5
  <2> QED BY ONLY <1>0, <2>3, <2>4, <2>5, <2>6 DEF RestOK, calls, trigger, upLoop, create, func
<1>2. CASE handlePendingInsNumIncrease
  <2>1. pendingInsThdNum' \in Int /\ offsets' \in Nat
    BY <1>0, <1>2, ConcNat DEF handlePendingInsNumIncrease, RestOK
  <2> QED BY <1>0, <1>2, <2>1 DEF handlePendingInsNumIncrease, RestOK, calls, trigger, upLoop, create, func
<1>3. CASE DownReceiveTrigger
  BY <1>0, <1>3 DEF DownReceiveTrigger, RestOK, calls, demand, trigger, upLoop, create, func
<1>4. CASE DownFunctionDeleted \/ getForCancel \/ DownPopInstance
  <2>1. createQueue' \in Nat /\ downs' \in Nat /\ offsets' \in Nat
    BY <1>0, <1>4 DEF DownFunctionDeleted, getForCancel, DownPopInstance, RestOK, create
  <2>2. UNCHANGED <<calls, demand, trigger, upLoop, workerPc, pushes, signalDue, downTimer, func, events>>
    BY <1>4 DEF DownFunctionDeleted, getForCancel, DownPopInstance, create
  <2> QED BY <1>0, <2>1, <2>2 DEF RestOK, calls, demand, trigger, upLoop, func
<1> QED BY <1>1, <1>2, <1>3, <1>4 DEF ScaleDown

LEMMA UpdateRest == ASSUME RestOK, Update PROVE RestOK'
<1>1. CASE UpdateSignature \/ DestroyBegins \/ \E i \in Slots : HandleInstanceDelete(i)
  <2>1. events' \in 0 .. MaxEvents
    BY <1>1, EventOK DEF UpdateSignature, DestroyBegins, HandleInstanceDelete
  <2>2. /\ funcSig' \in Nat /\ updating' \in BOOLEAN /\ concurrentNum' \in Concurrencies
        /\ destroyed' \in {"no", "closing", "yes"}
    <3>1. CASE UpdateSignature
      BY <3>1 DEF UpdateSignature, RestOK
    <3>2. CASE DestroyBegins
      BY <3>2 DEF DestroyBegins, RestOK
    <3>3. ASSUME NEW i \in Slots, HandleInstanceDelete(i)
          PROVE  UNCHANGED func
      BY <3>3 DEF HandleInstanceDelete
    <3> QED BY <1>1, <3>1, <3>2, <3>3 DEF RestOK, func
  <2>3. UNCHANGED <<calls, demand, trigger, upLoop, create, down>>
    BY <1>1 DEF UpdateSignature, DestroyBegins, HandleInstanceDelete
  <2> QED BY <2>1, <2>2, <2>3 DEF RestOK, calls, demand, trigger, upLoop, create, down
<1>2. ASSUME NEW c \in Concurrencies, UpdateFuncSpec(c) PROVE RestOK'
  <2>1. /\ updating' = FALSE /\ concurrentNum' \in Concurrencies
        /\ UNCHANGED <<calls, demand, trigger, upLoop, create, down, funcSig, destroyed, events>>
    BY <1>2 DEF UpdateFuncSpec
  <2>2. updating' \in BOOLEAN
    BY <2>1
  <2> QED BY ONLY RestOK, <2>1, <2>2 DEF RestOK, calls, demand, trigger, upLoop, create, down
<1>3. CASE Destroy
  BY <1>3 DEF Destroy, RestOK, calls, demand, trigger, upLoop, down
<1> QED BY <1>1, <1>2, <1>3 DEF Update

LEMMA CreationRest == ASSUME RestOK, NEW i \in Slots, Creation(i) PROVE RestOK'
<1>1. CASE CreateSucceeds(i) \/ CreateGivesUp(i)
  <2>1. pendingInsThdNum' \in Int
    BY <1>1, ConcNat DEF CreateSucceeds, CreateGivesUp, handlePendingInsNumDecrease, RestOK
  <2> QED BY <1>1, <2>1 DEF CreateSucceeds, CreateGivesUp, RestOK, calls, trigger, upLoop, create, down, func
<1>2. CASE CreateRetries(i)
  <2>1. events' \in 0 .. MaxEvents
    BY <1>2, EventOK DEF CreateRetries, RestOK
  <2> QED BY <1>2, <2>1 DEF CreateRetries, RestOK, calls, demand, trigger, upLoop, create, down, func
<1>3. CASE AddInstance(i)
  BY <1>3, SameRest DEF AddInstance
<1> QED BY <1>1, <1>2, <1>3 DEF Creation

LEMMA RestStep == ASSUME TypeInv, [Next]_vars PROVE RestOK'
<1>0. RestOK
  BY DEF TypeInv
<1>1. CASE UNCHANGED vars
  BY <1>0, <1>1, SameRest DEF vars
<1> QED BY <1>0, <1>1, AcquireRest, WorkerRest, ScaleUpRest, ScaleDownRest, UpdateRest, CreationRest DEF Next

LEMMA InitTypes == Init => TypeInv
<1> SUFFICES ASSUME Init PROVE TypeInv
  OBVIOUS
<1>1. RestOK
  <2>1. 0 \in 0 .. MaxDemand /\ MaxEvents \in 0 .. MaxEvents
    BY ConstantsAssumption
  <2>2. /\ autoScaleUpFlag \in BOOLEAN /\ scaleUpTriggerCh \in BOOLEAN /\ scaleUpChan \in BOOLEAN
        /\ ticker \in BOOLEAN /\ downTimer \in BOOLEAN /\ updating \in BOOLEAN /\ signalDue \in BOOLEAN
    BY DEF Init
  <2>3. /\ tried \in Nat /\ reqs \in Nat /\ untold \in Nat /\ pendingInsThdNum \in Int
        /\ remainedInsThdReqNum \in Nat /\ createQueue \in Nat /\ downs \in Nat /\ offsets \in Nat
        /\ funcSig \in Nat /\ pushes \in Nat
    BY DEF Init
  <2>4. /\ concurrentNum \in Concurrencies /\ upPc = "select" /\ workerPc = "top" /\ destroyed = "no"
        /\ events = MaxEvents /\ minScaleDemand = 0
    BY DEF Init
  <2> QED BY <2>1, <2>2, <2>3, <2>4 DEF RestOK
<1>2. Shape(slot) /\ slot = [i \in Slots |-> Free]
  BY FreeState DEF Init, Shape
<1>3. SumUsed(slot) = 0 /\ SumThreads(slot) = 0
  <2> DEFINE z == [i \in Slots |-> 0]
  <2>1. UsedBy(slot) = z /\ ThreadsOf(slot) = z
    BY <1>2, FreeState DEF UsedBy, ThreadsOf
  <2>2. IsFiniteSet(Slots) /\ Slots \in SUBSET Slots /\ (\A x \in Slots : z[x] \in Int)
        /\ \A x \in Slots : z[x] = IF x \in Slots THEN 0 ELSE z[x]
    BY ConstantsAssumption
  <2> HIDE DEF z
  <2>3. SumFunctionOnSet(z, Slots) = SumFunctionOnSet(z, Slots) - SumFunctionOnSet(z, Slots)
    BY <2>2, SumDrop
  <2>4. SumFunctionOnSet(z, Slots) \in Int
    BY <2>2, SumInt
  <2> QED BY <2>1, <2>3, <2>4 DEF SumUsed, SumThreads
<1> QED BY <1>1, <1>2, <1>3 DEF TypeInv, CountsInv, Init

LEMMA TypesInvariant == Spec => []TypeInv
<1>1. TypeInv /\ [Next]_vars => TypeInv'
  BY CountsStep, RestStep DEF TypeInv
<1> QED BY InitTypes, <1>1, PTL DEF Spec

\* Type correctness.  Its hard part is that the numbers of threads in use and
\* of all threads, which the scaler only learns as differences, never become
\* negative: they are the sums over the instances in the scheduler, whatever
\* additions, removals and releases overlap.
THEOREM TypeCorrect == Spec => []TypeOK
  BY TypesInvariant, TypeInvImplies, PTL

-----------------------------------------------------------------------------
(* Pending threads                                                         *)

LEMMA Monotone == \A a \in Nat, b, c \in Int : b <= c => a * b <= a * c
  OBVIOUS

\* The instances on their way, less those being removed.
OnTheWay == pushes + createQueue + Cardinality(Creating) - downs - offsets

LEMMA CreatingFinite == IsFiniteSet(Creating) /\ Cardinality(Creating) \in Nat
<1>1. IsFiniteSet(Creating)
  BY ConstantsAssumption, FS_Subset DEF Creating
<1> QED BY <1>1, FS_CardinalityType

LEMMA CreatingFiniteNext == IsFiniteSet(Creating') /\ Cardinality(Creating') \in Nat
<1>1. IsFiniteSet(Creating')
  BY ConstantsAssumption, FS_Subset DEF Creating
<1> QED BY <1>1, FS_CardinalityType

\* One slot changes.
LEMMA CreatingChange ==
    ASSUME TypeInv, NEW i \in Slots, NEW x, slot' = [slot EXCEPT ![i] = x]
    PROVE  Cardinality(Creating') = Cardinality(Creating) - (IF slot[i].st = "creating" THEN 1 ELSE 0)
                                      + (IF x.st = "creating" THEN 1 ELSE 0)
<1> DEFINE A == Creating
           B == Creating'
<1>1. IsFiniteSet(A) /\ IsFiniteSet(B)
  BY CreatingFinite, CreatingFiniteNext
<1>2. /\ A \ {i} = B \ {i}
      /\ i \in A <=> slot[i].st = "creating"
      /\ i \in B <=> x.st = "creating"
  BY DEF Creating, TypeInv, CountsInv, Shape
<1> HIDE DEF A, B
<1>3. Cardinality(B) = Cardinality(A) - (IF i \in A THEN 1 ELSE 0) + (IF i \in B THEN 1 ELSE 0)
  BY ONLY <1>1, <1>2, CardChange
<1> QED BY <1>2, <1>3 DEF A, B

\* The pending threads change by k instances and those on the way by no more.
LEMMA Covered ==
    ASSUME TypeInv, TypeInv', PendingCovers, destroyed' = "no" => destroyed = "no",
           concurrentNum' = concurrentNum, NEW k \in Int,
           pendingInsThdNum' = pendingInsThdNum + concurrentNum * k, OnTheWay' <= OnTheWay + k
    PROVE  PendingCovers'
<1> SUFFICES ASSUME destroyed' = "no"
             PROVE  pendingInsThdNum' >= concurrentNum * OnTheWay'
  BY DEF PendingCovers, OnTheWay
<1> DEFINE c == concurrentNum
           m == OnTheWay
           n == OnTheWay'
<1>1. c \in Nat /\ c \in Int /\ pendingInsThdNum \in Int
  BY ConcNat DEF TypeInv, RestOK
<1>2. m \in Int
  BY CreatingFinite DEF TypeInv, RestOK, OnTheWay
<1>3. n \in Int
  <2>1. pushes' \in Nat /\ createQueue' \in Nat /\ downs' \in Nat /\ offsets' \in Nat
    BY DEF TypeInv, RestOK
  <2> QED BY <2>1, CreatingFiniteNext DEF OnTheWay
<1>4. pendingInsThdNum >= c * m
  BY DEF PendingCovers, OnTheWay
<1> HIDE DEF c, m, n
<1>5. c * n <= c * (m + k)
  <2>1. n <= m + k /\ m + k \in Int
    BY <1>2 DEF m, n
  <2> QED BY <1>1, <1>3, <2>1, Monotone
<1>6. c * (m + k) = c * m + c * k /\ c * m \in Int /\ c * k \in Int /\ c * n \in Int
  BY <1>1, <1>2, <1>3, Distributes
<1>7. pendingInsThdNum' = pendingInsThdNum + c * k
  BY DEF c
<1>8. pendingInsThdNum' >= c * n
  BY <1>1, <1>4, <1>5, <1>6, <1>7
<1> QED BY <1>8 DEF c, n

\* Nothing on its way changes.
LEMMA SameCovered ==
    ASSUME TypeInv, TypeInv', PendingCovers, destroyed' = "no" => destroyed = "no",
           concurrentNum' = concurrentNum, UNCHANGED <<pendingInsThdNum, pushes, createQueue, downs, offsets>>,
           Creating' = Creating
    PROVE  PendingCovers'
  BY DEF PendingCovers

LEMMA CreationCovered ==
    ASSUME TypeInv, TypeInv', PendingCovers, NEW i \in Slots, Creation(i)
    PROVE  PendingCovers'
<1>0. RestOK /\ slot[i] \in SlotState /\ concurrentNum \in Int /\ pendingInsThdNum \in Int
      /\ pushes \in Nat /\ createQueue \in Nat /\ downs \in Nat /\ offsets \in Nat
      /\ Cardinality(Creating) \in Nat
  BY ConcNat, CreatingFinite DEF TypeInv, CountsInv, Shape, RestOK
<1>1. CASE CreateSucceeds(i) \/ CreateGivesUp(i)
  <2>1. /\ UNCHANGED <<pushes, createQueue, downs, offsets, concurrentNum, destroyed>> /\ slot[i].st = "creating"
        /\ pendingInsThdNum' = pendingInsThdNum - concurrentNum
    BY <1>1 DEF CreateSucceeds, CreateGivesUp, handlePendingInsNumDecrease, create, down, func
  <2>2. PICK x \in SlotState : x.st # "creating" /\ slot' = [slot EXCEPT ![i] = x]
    <3>1. CASE CreateSucceeds(i)
      <4> DEFINE x == [slot[i] EXCEPT !.st = "adding"]
      <4>1. x \in SlotState /\ x.st = "adding"
        BY <1>0 DEF SlotState, Stages
      <4>2. slot' = [slot EXCEPT ![i] = x]
        BY <3>1 DEF CreateSucceeds
      <4> QED BY <4>1, <4>2
    <3>2. CASE CreateGivesUp(i)
      BY <3>2, FreeState DEF CreateGivesUp
    <3> QED BY <1>1, <3>1, <3>2
  <2>3. Cardinality(Creating') = Cardinality(Creating) - 1
    <3>1. Cardinality(Creating') = Cardinality(Creating) - (IF slot[i].st = "creating" THEN 1 ELSE 0)
                                      + (IF x.st = "creating" THEN 1 ELSE 0)
      BY ONLY TypeInv, i \in Slots, <2>2, CreatingChange
    <3> QED BY <1>0, <2>1, <2>2, <3>1
  <2>4. OnTheWay' <= OnTheWay + (-1)
    BY <1>0, <2>1, <2>3 DEF OnTheWay
  <2>5. pendingInsThdNum' = pendingInsThdNum + concurrentNum * (-1) /\ -1 \in Int
    BY <1>0, <2>1
  <2> QED BY <2>1, <2>4, <2>5, Covered
<1>2. CASE CreateRetries(i)
  <2>1. /\ UNCHANGED <<pendingInsThdNum, pushes, createQueue, downs, offsets, concurrentNum, destroyed>>
        /\ slot[i].st = "creating" /\ slot' = [slot EXCEPT ![i] = Attempt]
    BY <1>2 DEF CreateRetries, demand, create, down, func
  <2>2. CASE destroyed = "no"
    <3>1. Attempt.st = "creating"
      BY <1>0, <2>2, AttemptState
    <3>2. Creating' = Creating
      BY <2>1, <3>1 DEF Creating, TypeInv, CountsInv, Shape
    <3> QED BY <2>1, <3>2, SameCovered
  <2>3. CASE destroyed # "no"
    BY <2>1, <2>3 DEF PendingCovers
  <2> QED BY <2>2, <2>3
<1>3. CASE AddInstance(i)
  <2>1. UNCHANGED <<pendingInsThdNum, pushes, createQueue, downs, offsets, concurrentNum, destroyed>>
    BY <1>3 DEF AddInstance, demand, create, down, func
  <2>2. Creating' = Creating
    BY <1>0, <1>3 DEF AddInstance, Creating, TypeInv, CountsInv, Shape, SlotState
  <2> QED BY <2>1, <2>2, SameCovered
<1> QED BY <1>1, <1>2, <1>3 DEF Creation

LEMMA WorkerCovered ==
    ASSUME TypeInv, TypeInv', PendingCovers, Worker
    PROVE  PendingCovers'
<1>0. RestOK /\ concurrentNum \in Int /\ pendingInsThdNum \in Int
      /\ pushes \in Nat /\ createQueue \in Nat /\ downs \in Nat /\ offsets \in Nat
      /\ Cardinality(Creating) \in Nat
  BY ConcNat, CreatingFinite DEF TypeInv, RestOK
<1>1. UNCHANGED <<pendingInsThdNum, pushes, downs, offsets, concurrentNum, destroyed>>
  BY DEF Worker, WorkerTop, getForCreate, demand, down, func
<1>2. CASE UNCHANGED <<createQueue, slot>>
  BY <1>1, <1>2, SameCovered DEF Creating
<1>3. CASE createQueue' = createQueue - 1 /\ \E i \in Slots : slot[i] = Free /\ slot' = [slot EXCEPT ![i] = Attempt]
  <2>1. PICK i \in Slots : slot[i] = Free /\ slot' = [slot EXCEPT ![i] = Attempt]
    BY <1>3
  <2>2. Cardinality(Creating') <= Cardinality(Creating) + 1
    <3>0. PICK x : x = Attempt /\ slot' = [slot EXCEPT ![i] = x]
      BY <2>1
    <3>1. Cardinality(Creating') = Cardinality(Creating) - (IF slot[i].st = "creating" THEN 1 ELSE 0)
                                      + (IF x.st = "creating" THEN 1 ELSE 0)
      BY ONLY TypeInv, i \in Slots, <3>0, CreatingChange
    <3>2. slot[i].st # "creating"
      BY <2>1, FreeState
    <3> QED BY <1>0, <3>1, <3>2
  <2>3. OnTheWay' <= OnTheWay + 0
    BY <1>0, <1>1, <1>3, <2>2, CreatingFiniteNext DEF OnTheWay
  <2>4. pendingInsThdNum' = pendingInsThdNum + concurrentNum * 0 /\ 0 \in Int
    BY <1>0, <1>1
  <2> QED BY <1>1, <2>3, <2>4, Covered
<1> QED BY <1>2, <1>3 DEF Worker, WorkerTop, getForCreate

LEMMA ScaleUpCovered ==
    ASSUME TypeInv, TypeInv', PendingCovers, ScaleUpLoop
    PROVE  PendingCovers'
<1>0. RestOK /\ concurrentNum \in Int /\ pendingInsThdNum \in Int
      /\ pushes \in Nat /\ createQueue \in Nat /\ downs \in Nat /\ offsets \in Nat
      /\ Cardinality(Creating) \in Nat
  BY ConcNat, CreatingFinite DEF TypeInv, RestOK
<1>1. UNCHANGED <<slot, downs, offsets, concurrentNum, destroyed>> /\ Creating' = Creating
  BY DEF ScaleUpLoop, UpReceiveTrigger, UpSendFirst, UpReceiveTick, UpSendTick,
       UpCheckReqNum, UpCheckDemand, pauseScale, scaleUpInstances, push, Signal, UpExit, down, func, Creating
<1>2. CASE UNCHANGED <<demand, pushes, createQueue>>
  BY <1>1, <1>2, SameCovered DEF demand
<1>3. CASE scaleUpInstances /\ ~UNCHANGED <<demand, pushes>>
  <2>1. PICK k \in Nat : pendingInsThdNum' = pendingInsThdNum + k * concurrentNum /\ pushes' = k
    BY <1>0, <1>3, ScaleUpShape
  <2>2. createQueue' = createQueue
    BY <1>3 DEF scaleUpInstances
  <2>3. OnTheWay' <= OnTheWay + k
    BY <2>1, <1>0, <1>1, <2>2 DEF OnTheWay
  <2>4. pendingInsThdNum' = pendingInsThdNum + concurrentNum * k /\ k \in Int
    BY <1>0, <2>1, Distributes
  <2> QED BY <1>1, <2>3, <2>4, Covered
<1>4. CASE push
  <2>1. pushes' = pushes - 1 /\ createQueue' = createQueue + 1 /\ pendingInsThdNum' = pendingInsThdNum
    BY <1>4 DEF push, demand
  <2>2. OnTheWay' <= OnTheWay + 0
    BY <1>0, <1>1, <2>1 DEF OnTheWay
  <2>3. pendingInsThdNum' = pendingInsThdNum + concurrentNum * 0 /\ 0 \in Int
    BY <1>0, <2>1
  <2> QED BY <1>1, <2>2, <2>3, Covered
<1> QED BY <1>2, <1>3, <1>4 DEF ScaleUpLoop, UpReceiveTrigger, UpSendFirst, UpReceiveTick, UpSendTick,
       UpCheckReqNum, UpCheckDemand, pauseScale, scaleUpInstances, Signal, UpExit, create

LEMMA ScaleDownCovered ==
    ASSUME TypeInv, TypeInv', PendingCovers, ScaleDown
    PROVE  PendingCovers'
<1>0. RestOK /\ concurrentNum \in Int /\ pendingInsThdNum \in Int
      /\ pushes \in Nat /\ createQueue \in Nat /\ downs \in Nat /\ offsets \in Nat
      /\ Cardinality(Creating) \in Nat
      /\ inUseInsThdNum \in Nat /\ totalInsThdNum \in Nat
  BY ConcNat, CreatingFinite DEF TypeInv, RestOK, CountsInv
<1>1. UNCHANGED <<concurrentNum, destroyed>>
  BY DEF ScaleDown, DownReceiveTrigger, scaleDownInstances, DownFunctionDeleted, getForCancel,
         DownPopInstance, handlePendingInsNumIncrease, func
<1>2. CASE scaleDownInstances
  <2>1. PICK k \in Nat : pendingInsThdNum' = pendingInsThdNum - k * concurrentNum /\ downs' = downs + k
    BY <1>0, <1>2, ScaleDownShape
  <2>2. UNCHANGED <<slot, pushes, createQueue, offsets>> /\ Creating' = Creating
    BY <1>2 DEF scaleDownInstances, create, Creating
  <2>3. OnTheWay' <= OnTheWay + (-k)
    BY <1>0, <2>1, <2>2 DEF OnTheWay
  <2>4. pendingInsThdNum' = pendingInsThdNum + concurrentNum * (-k) /\ -k \in Int
    <3>1. concurrentNum * (k + (-k)) = concurrentNum * k + concurrentNum * (-k) /\ concurrentNum * k \in Int
          /\ concurrentNum * (-k) \in Int /\ concurrentNum * k = k * concurrentNum
      BY <1>0, Distributes
    <3>2. concurrentNum * (k + (-k)) = 0
      BY <1>0
    <3> QED BY <1>0, <2>1, <3>1, <3>2
  <2> QED BY <1>1, <2>3, <2>4, Covered
<1>3. CASE handlePendingInsNumIncrease
  <2>1. /\ offsets' = offsets - 1 /\ pendingInsThdNum' = pendingInsThdNum + concurrentNum
        /\ UNCHANGED <<slot, pushes, createQueue, downs>> /\ Creating' = Creating
    BY <1>3 DEF handlePendingInsNumIncrease, create, Creating
  <2>2. OnTheWay' <= OnTheWay + 1
    BY <1>0, <2>1 DEF OnTheWay
  <2>3. pendingInsThdNum' = pendingInsThdNum + concurrentNum * 1 /\ 1 \in Int
    BY <1>0, <2>1
  <2> QED BY <1>1, <2>2, <2>3, Covered
<1>4. CASE getForCancel
  <2>1. /\ createQueue' = createQueue - 1 /\ downs' = downs - 1 /\ offsets' = offsets + 1
        /\ UNCHANGED <<slot, pushes, pendingInsThdNum>> /\ Creating' = Creating
    BY <1>4 DEF getForCancel, demand, Creating
  <2>2. OnTheWay' <= OnTheWay + 0
    BY <1>0, <2>1 DEF OnTheWay
  <2>3. pendingInsThdNum' = pendingInsThdNum + concurrentNum * 0 /\ 0 \in Int
    BY <1>0, <2>1
  <2> QED BY <1>1, <2>2, <2>3, Covered
<1>5. CASE DownPopInstance
  <2>1. /\ downs' = downs - 1 /\ offsets' = offsets + 1 /\ UNCHANGED <<pushes, createQueue, pendingInsThdNum>>
    BY <1>5 DEF DownPopInstance, demand, create
  <2>2. Creating' = Creating
    BY <1>5, FreeState DEF DownPopInstance, Remove, Creating, Live, TypeInv, CountsInv, Shape
  <2>3. OnTheWay' <= OnTheWay + 0
    BY <1>0, <2>1, <2>2 DEF OnTheWay
  <2>4. pendingInsThdNum' = pendingInsThdNum + concurrentNum * 0 /\ 0 \in Int
    BY <1>0, <2>1
  <2> QED BY <1>1, <2>3, <2>4, Covered
<1>6. CASE DownFunctionDeleted
  BY <1>1, <1>6 DEF DownFunctionDeleted, PendingCovers
<1>7. CASE DownReceiveTrigger
  BY <1>1, <1>7, SameCovered DEF DownReceiveTrigger, demand, create, Creating
<1> QED BY <1>2, <1>3, <1>4, <1>5, <1>6, <1>7 DEF ScaleDown

\* pendingInsThdNum never falls below the threads of the instances on their
\* way, less those being removed, whatever creations, retries, cancellations
\* and removals overlap, as long as a spec update does not change the
\* concurrency: the callbacks subtract the concurrency of the moment, not the
\* one that was added.
THEOREM PendingTheorem ==
    ASSUME \A a, b \in Concurrencies : a = b
    PROVE  Spec => []PendingCovers
<1>1. Init => PendingCovers
  <2> SUFFICES ASSUME Init PROVE PendingCovers
    OBVIOUS
  <2>1. Creating = {}
    BY FreeState DEF Init, Creating
  <2>2. Cardinality(Creating) = 0
    BY <2>1, FS_EmptySet
  <2>3. concurrentNum \in Int
    BY InitTypes, ConcNat DEF TypeInv
  <2> QED BY <2>2, <2>3 DEF Init, PendingCovers
<1>2. TypeInv /\ TypeInv' /\ PendingCovers /\ [Next]_vars => PendingCovers'
  <2> SUFFICES ASSUME TypeInv, TypeInv', PendingCovers, [Next]_vars PROVE PendingCovers'
    OBVIOUS
  <2>0. concurrentNum' = concurrentNum
    BY DEF TypeInv, RestOK
  <2>1. CASE Acquire
    <3>1. UNCHANGED <<pendingInsThdNum, pushes, createQueue, downs, offsets, destroyed>>
      BY <2>1 DEF Acquire, AcquireFails, AddRequest, PublishTrigger, RequestFails, ScaleHint, TakeThread,
           ReleaseThread, demand, create, down, func
    <3>2. Creating' = Creating
      <4>1. CASE UNCHANGED slot
        BY <4>1 DEF Creating
      <4>2. ASSUME NEW i \in Slots, TakeThread(i) \/ ReleaseThread(i) PROVE Creating' = Creating
        <5>1. slot' = [slot EXCEPT ![i].used = @ + 1] \/ slot' = [slot EXCEPT ![i].used = @ - 1]
          BY <4>2 DEF TakeThread, ReleaseThread
        <5>2. slot \in [Slots -> SlotState]
          BY DEF TypeInv, CountsInv, Shape
        <5>3. \A k \in Slots : slot'[k].st = slot[k].st
          BY <5>1, <5>2 DEF SlotState
        <5> QED BY <5>3 DEF Creating
      <4> QED BY <2>1, <4>1, <4>2 DEF Acquire, AcquireFails, AddRequest, PublishTrigger, RequestFails, ScaleHint
    <3> QED BY <2>0, <3>1, <3>2, SameCovered
  <2>2. CASE Update
    <3>1. UNCHANGED <<pendingInsThdNum, pushes, createQueue, downs, offsets>> /\ (destroyed' = "no" => destroyed = "no")
      BY <2>2 DEF Update, UpdateSignature, UpdateFuncSpec, DestroyBegins, Destroy, HandleInstanceDelete,
           demand, create, down, func
    <3>2. Creating' = Creating
      BY <2>2, FreeState DEF Update, UpdateSignature, UpdateFuncSpec, DestroyBegins, Destroy,
           HandleInstanceDelete, Remove, Creating, Live, TypeInv, CountsInv, Shape
    <3> QED BY <2>0, <3>1, <3>2, SameCovered
  <2>3. CASE UNCHANGED vars
    BY <2>3, SameCovered DEF vars, demand, create, down, func, Creating
  <2> QED BY <2>1, <2>2, <2>3, WorkerCovered, ScaleUpCovered, ScaleDownCovered, CreationCovered DEF Next
<1> QED BY <1>1, <1>2, TypesInvariant, PTL DEF Spec
=============================================================================
