# Formal models of the openYuanrong FaaS scheduler

TLA+ models of the parts of openYuanrong's FaaS scheduler that hand out, take back and
create capacity under concurrency and failure: the LiteScheduler's function pool with
its session store and time wheel, the concurrency scheduler with its request queue,
autoscaler and instance queue, and the registration of schedulers through etcd. TLC
checks them on small instances; TLAPS proves the safety properties the passing runs check
for every value of the constants, or of those for which the code keeps them. Paths below are relative to `src/go/pkg/`.

## 1. The system

openYuanrong is a serverless compute engine. This repository holds the function
runtime (C++ `libruntime`, language APIs), and, in Go, the control plane for FaaS
functions. A frontend that wants to call a function asks a scheduler (`functionscaler`)
for a *lease* on an instance; it retains the lease while it uses it and releases it.

| Component | State | Operations | Interacts with | Hard part | Status |
|---|---|---|---|---|---|
| LiteScheduler pool (`functionscaler/litescheduler`) | instances with InUse, session bindings with reserved/active units and an idle timer, lease map | acquire, release, retain, reacquire, expiry, idle unbind, function/instance events, idle scan | store coordinator, time wheel, registries, scale hints | four kinds of goroutines and timers under two locks, with unlocks in the middle of an operation | partly |
| Session store (`functionscaler/session`) | write queue, worker, calls in flight | SaveRecord, DeleteRecord, GetRecord, Stop, CleanRecords | pool, Redis client | shutdown against queued and timed-out writes | modelled |
| Time wheel (`common/faas_common/timewheel`) | slots, triggers, current slot, ready channel | AddTask, UpdateTask, DelTask, Wait, Stop, run | pool, lease manager | no lock; slot arithmetic | modelled |
| Concurrency scheduler (`functionscaler/scheduler/concurrencyscheduler`) | two instance queues, elements with free threads, session records, published counts | acquire, release, session expiry, instance events, PopInstance, ownership change | session store, lease manager, autoscaler | references to replaced objects; a channel receive with the lock held | partly |
| Request queue (`functionscaler/requestqueue`) | fifo of waiting requests, one answer channel each, trigger and wake-up channels | AddRequest, ScheduleRequest, timeout loop, create errors, Stop | both schedulers, autoscaler | four kinds of goroutines pass one request around | partly |
| AutoScaler, scaled instance queue, create queue (`functionscaler/scaler`, `instancequeue`) | trigger flag and channels, pending threads, demand, create requests | TriggerScale, both loops, creation with retry, scale down, spec update, Destroy | schedulers, request queue, kernel | counters moved ahead and offset by callbacks; a condition variable | partly |
| Generic lease manager (`functionscaler/lease`) | leases on the wheel | create, extend, release | time wheel, schedulers | expiry against release | partly |
| Scheduler registration (`common/faas_common/etcd3/lock.go`, `functionscaler/selfregister`, `registry/faasschedulerregistry.go`) | holder keys and leases in etcd, each locker's view, the hash ring | contend, tryLock, keeper loop, Unlock, watch handlers | etcd, control plane | failed or ambiguous requests, expired leases, crashes | partly |
| Priority queue (`common/faas_common/queue`) | max-min heap | push, pop at both ends, update, delete by ID | concurrency scheduler | index arithmetic | modelled |
| Scale hints (`litescheduler/scalehint.go`) | dedup window, retries | Send | owner scheduler (HTTP) | duplicates, retries | planned |
| Instance pool, other registries, session context manager, tenant quota, worker manager, rollout, other scalers and schedulers | - | - | kernel, etcd, Kubernetes | list-and-watch, external calls | not modelled |
| Function manager, frontend, dashboard, collector, system function controller | - | - | - | mostly I/O | not modelled |
| C++ `libruntime` | ordering queues, waiting objects, dependencies | invoke, get, wait | function system, data system | ordering, callbacks | planned |
| Language APIs, deployment, docs, empty submodules | - | - | - | - | not modelled |

What makes the modelled parts correct:

* pool: units are conserved between leases, bindings and instances; no instance is
  oversold; a session stays on one instance; nothing refers to an instance that is
  gone; an idle reservation is given back; a lease of a dead client expires; what is
  left in the store for recovery agrees with the bindings, once an operation is accepted;
* store: writes take effect in order; after Stop nothing writes; every caller returns;
* wheel: every task fires, neither early nor late and as often as it should; Stop returns;
* concurrency scheduler: a thread is free, reserved or leased, never two of these; the
  counts the autoscaler works on are exact; nobody waits for ever with the lock held;
* request queue: every request is answered, once; freed threads serve waiting requests;
* scaling: what is on its way is counted, create requests are worked on, and a trigger
  is neither lost nor sent on a full channel;
* registration: a slot has one holder, the hash ring agrees with etcd, and a scheduler
  that lost its slot gives up its registration.

The hazards these properties are for are listed, each at its line, in `PROJECT.json`.

## 2. Modules

| Module | Content |
|---|---|
| `LitePool` | the function pool of the LiteScheduler, its handlers, timers and events |
| `MCLitePool` | the symmetry set for TLC |
| `LitePoolProofs` | types, live instances, the store, and the accounts of a steady pool, proved |
| `RecordStore` | abstract: one record per session key, changed by the call under way until closed, then only deleted |
| `SessionStore` | the Coordinator (asynchronous queue, worker, Stop, CleanRecords), singleflight, Redis timeouts |
| `SessionStoreProofs` | invariants, single reads and the refinement of `RecordStore`, proved |
| `ExpiryTasks` | abstract: tasks with the number of times they still fire |
| `SimpleTimeWheel` | the time wheel; implements `ExpiryTasks`, with one firing more than documented |
| `SimpleTimeWheelProofs` | slots, timing and the refinement of `ExpiryTasks`, proved |
| `ConcurrencyScheduler` | the concurrency scheduler of one function, with sessions, leases and ownership changes |
| `MCConcurrencyScheduler` | sessions' concurrency and the symmetry set for TLC |
| `ConcurrencySchedulerProofs` | conservation of threads, published counts, cancel token, bindings, proved |
| `PriorityQueue` | the max-min heap the scheduler's queues are made of |
| `RequestQueue` | the queue of waiting acquire requests and everybody who takes from it |
| `RequestQueueProofs` | one place and one answer per request, proved |
| `InstanceScaling` | AutoScaler, ScaledInstanceQueue and InstanceCreateQueue, composed |
| `MCInstanceScaling` | the symmetry set for TLC |
| `InstanceScalingProofs` | types, the trigger flag, the create worker and the pending threads, proved |
| `EtcdLocker` | the etcd lock, its use for registration, and the registry's view of it |
| `EtcdLockerProofs` | type correctness, mutual exclusion and the hash ring, proved |
| `FiniteSums` | induction on natural numbers, and lemmas about sums and cardinalities of finite sets |

`LitePool` uses the store and the wheel in their abstract form: its variable `record` is
what `RecordStore` calls `record` (the result of the operations accepted so far), except that an
operation a full queue drops leaves `Stale` there (`SetRecord`), its
`wheel` is `left` of `ExpiryTasks` (two shots for a task of times = 1). The other two modules show that the code behind
these interfaces behaves that way, and where it does not. In the same way `RequestQueue`
keeps of the schedulers only their free threads, `InstanceScaling` keeps of the
request queue only its length, and `ConcurrencyScheduler` takes the busiest running
instance for the front of its queue, which `PriorityQueue` promises and, from eight instances
on, does not always keep.

### LitePool

| Variable | Code |
|---|---|
| `pool[g]` | a `LiteFunctionPool`: `inst`/`inUse`/`reclaiming` are `instances`, `sess` is `sessions`, `seq` is `seqCounter`; `stopped`: its store coordinator is stopped |
| `curPool`, `created` | `ls.pools[funcKey]`; requests may still hold an older pool |
| `deleting` | how far `deletePool` has come |
| `allocations` | `ls.allocations`, with the pool that granted the lease |
| `wheel`, `ready` | expiry wheel and its ready channel |
| `record` | what the store operations enqueued so far amount to, per session; `Stale` while the latest one was dropped by a full queue |
| `issued` | leases a client may present as ReacquireData |
| `h` | the handlers: request goroutines and the reaper, each with a program counter |

Each action is one region under `pool.Lock` and/or `allocMu`, or one wheel operation
outside of them. `handleAcquire` is `AcquireSticky` (phase 1), `AcquireMiss` (phases 1-2,
the lock-free store read), `DispatchSticky`/`DispatchReject`/`DispatchAssign` (phase 3),
`ColdStart`, `PollAssign`, `PollTimeout` (phase 4). `handleRelease` is `ReleaseDelete`,
`ReleaseDelTask`, `Return`, `StartTimer`; the reaper is `WheelFire`, `ReapDelete`, `Return`,
`StartTimer`; the idle timer is `FireUnbind`. `handleRetain` is `RetainLookup` and then
`RetainRefresh`+`RetainUpdate`, `RetainDrop`+`RetainForget`, or `ReacquireAllocation`+
`RetainUpdate`; a batch retain is several retains. Events are `UpsertPool`, `DeletePool`/
`DeleteRecords`/`DeleteAllocations`, `InstanceUpdate`, `InstanceDelete`; the idle scan is
`IdleReport` and `IdleReset`.

Abstractions: one function key (pools of different functions share only the lease map
and the wheel, keyed by lease); all requests of a pool carry the same session context;
the dispatcher picks any candidate (both policies choose one of them); a store lookup
may return anything, since another scheduler may have written it; time is left out, so
timers, waits and the wheel may end at any moment; an instance of the pool is
schedulable. A lookup of the pool and the region that follows it are one step where
nothing else happens in between (instance events, release, reacquire), and so are the
unregistering of a pool and the clearing of its bindings, and the registration of an
expiry task and the allocMu region before it (both run under pool.Lock). Refused requests without an
effect, owner checks on the hash ring, startup barriers, metrics and responses are left
out.

### SessionStore

`Submit`/`Enqueue` is a SaveRecord or DeleteRecord, split at the point where the worker
is launched; `WorkerTake`, `WorkerProcess`, `WorkerExit` are the worker's loop and drain;
`Destroy`, `Cancel`, `StopWait`, `CleanRecord` are deletePool's use of Stop and
CleanRecords; `GetStart`, `GetRead`, `GetPublish`, `GetDelete`, `GetReturn` are
`StoreCallGroup.Do` around a store read. `Execute` is a store operation: done, failed
without effect (on a key of `Failures`), or timed out and left running (on a key of
`Timeouts`, `LateLand`). Faults are a matter of keys so that the refinement and the cleanup
can be stated of the keys whose own operations get through, while others fail.
Physical TTL, keys, encoding and hot reload of the client are left out.

### SimpleTimeWheel

Time is counted in ticks. AddTask and UpdateTask are split at their read of `curSlot`
(`AddTask`/`UpdateTask`, then `StoreTask`); the run goroutine is `Tick`, `Visit`,
`CheckTrigger`, `CountVisit`, `EndScan`, `Send`, `RunStop`. The unlocked read-modify-write
of `circleCount` is a choice between the two outcomes of the race. `due` is a history
variable for the timing properties. With `Overlap = FALSE` an operation does not meet a
tick or a scan, which is what the comment on AddTask assumes; `Overlap = TRUE` lets one
tick and its scan come in between. Calls for one task come one after the other. `ExpiryTasks` is
instantiated twice: `Documented` with the number of firings the comments promise, `Expiry`
with the number the code gives.

### EtcdLocker

etcd is `rev`, `origin`/`value` (the slots), `holders` (the keys `<slot>/<lease>` with their
create revision), `alive` and `nextLease`; a scheduler is one `EtcdLocker` with the request
its goroutine is at (`pc`). `contendInstanceInEtcd` is `ListSlots`, `NextSlot`; `tryLock` is
`Grant`, `Txn`, `Publish` (LockCallback), and on failure `LockFailed`, `Revoke`, `Delete`;
`lockKeeperLoop` is `TickRelock`, `TickGet`, `KeepAlive`; `Unlock` is `UnlockDelete`,
`UnlockExists`, `UnlockClear`. Every request may fail before or after it took effect.
`Expire`, `Crash`, `Restart`, `ControlPlaneDelete` are the environment. The registry's
handlers (`LeasePutEvent`, `SpecPutEvent`, `LeaseDelEvent`, `SpecDelEvent`) run in the step
that wrote the key: etcd delivers events in order, and the registry's state depends on
nothing else. Left out: hashes, the rollout key, function schedulers, discovery types
other than contention.

### ConcurrencyScheduler

`sch` is what the scheduler's lock protects: elements (heap objects an instance is stored
in; a new one for each time the instance enters a queue), the two queues, session
records, `sessionMap`, and the sums of what was published on the three metric topics.
Handlers are one step each except where the code leaves the lock: `PeekSession`/`ReadStore`/
`AcquireResolved` (the store read), `UpdateArrives`/`HandleInstanceUpdate` (the queue is
chosen before the lock is taken), `EndLease`/`ReleaseInstance` (the lease is gone before its
callback runs), `TimerFires`/`TimerCancelled`/`Unbind` (the expiry goroutine). A request
carries TrafficLimited (`limited`): with it a scheduler that does not own the function
serves it from its self queue unless its instance is in one of the queues (`Route`). Left
out: agent sessions, requests that name both a session and an instance, designated thread IDs, session contexts, the rollout partition, permanent
instances, HandleFuncSpecUpdate and Destroy. Thread IDs are counted, not named.

### PriorityQueue

DeHeap's array with an item reduced to its priority; `shiftUp` and `shiftDown` as
recursive operators, `Push`, `DeHeapRemove`, `Fix` and the queue's operations on top.

### RequestQueue

`Call` is the acquire call (first try, AddRequest, cancel), `WorkerStep` the goroutine a
scheduler registered (wake-up, pop, grant or put back), `LoopStep` the timeout loop, `Age`
the clock: requests reach their timeout in the order of their creation. `CreateFails` is
HandleCreateError with an unrecoverable error, `CreateSucceeds` its reset. Left out:
handlerWorkMangerError, UpdateRequestTimeout, which error a timed-out request gets. Threads
are counted per scheduler and not per instance, so the model cannot tell whether one
instance has all the threads a session asks for, or whether a designated instance has one:
a request of a session (`Sessions`) may fail whatever is free (`MayFail`) and takes, when it
succeeds, any of the numbers the code may take (`Takes`: one of its reserved threads, one
beyond them, or its Concurrency). Calls that return ErrNoInsAvailable to their caller
without waiting (on a scheduler that neither owns the function nor is asked because of a
traffic limit, or with SkipWaitPending) change nothing here and are left out.

### InstanceScaling

The acquire calls (`AcquireFails`, `AddRequest`, `PublishTrigger`), `ScaleHint`, the scale-up
loop (`UpReceiveTrigger` ... `pauseScale`, `scaleUpInstances`), which keeps the scaler's lock
(`Unlocked`) while ScaleUpHandler pushes one request after the other and signals after each
(`push`, `Signal`), the create queue's worker (`WorkerTop`, `Attempt`, `getForCreate`), one `Creation` per slot (`CreateSucceeds`,
`CreateRetries`, `CreateGivesUp`, `AddInstance`), the scale-down loop and its goroutines
(`getForCancel`, `DownPopInstance`), `UpdateSignature`/`UpdateFuncSpec`, and `DestroyBegins`/
`Destroy`. A creation's signature check and its callback are one step. The number of
instances computed from float metrics is any number in its range. Left out: the predict
policy, WiseCloud and replica scalers, RecoverInstance, HandleFuncOwnerChange,
autoScaleDownFlag, coldStartTime.

## 3. Runs

| Run | Checks | Bounds |
|---|---|---|
| `pool_accounting` | exact accounting of units, capacity, affinity, idle timers, no unbinding of a session in use | 2 instances of capacity 2, 2 sessions and sessionless requests, 2 handlers and the reaper, concurrency 1 and 2, 3 leases; instances stay, no polling |
| `pool_lifecycle` | types; no binding or lease on a lost instance | 2 pools in succession, retains and reacquires, polling, 1 instance, 1 session, 2 leases per pool |
| `pool_liveness` | InUse covers what bindings hold, the store follows the bindings, leases expire, idle sessions unbind | 2 instances, one of which comes and goes, 2 sessions, the store operations of one may be dropped, 2 handlers, 2 leases, polling requests |
| `session_store` | types, no orphaned operation, cleaned records stay away, refinement of `RecordStore`, one read at a time, Stop and lookups return | 2 keys, operations on one fail and time out, queue of 1, 2 calls, so that the queue overflows, 2 getters |
| `wheel_timing` | types, one slot per task, neither late nor early, Stop returns | 2 tasks, 2 slots, intervals of one circumference and one pace more, ready channel of 1 |
| `wheel_shots` (violation) | a task of times = m fires m times | 1 task of times = 1, 2 slots |
| `scheduler_threads` | threads conserved, published counts exact, cancel token present, bindings kept | 2 instances of 2 threads, 1 session, 2 clients, 2 elements, 2 records, 2 leases, 3 acquires, 3 events and ownership changes |
| `request_queue` | a request in one place and answered once, wake-ups serve | 3 requests, one of them a session's that asks for a reserved instance, queue of 2, 2 schedulers of 2 threads per instance, 1 event |
| `request_timeout` (violation) | every request is answered | 1 request, 2 events |
| `scaling` | types, pending covers what is on its way, worker awake, flag follows loop | 2 slots, concurrency 2, 2 requests, demand 1, 3 events |
| `heap_front` (violation) | Front is the maximum | 8 items, 3 priorities |
| `lock_registration` | types, one holder, ring follows holders, a displaced scheduler unregisters | 2 schedulers, 1 slot, 2 rounds of contention, 1 relock failure before FailCallback, 2 faults |

Why the bounds are enough: capacity 2 with concurrency 1 and 2 gives reservations that
are full, partly used and over-acquired, and instances that are full or have one unit
left; three leases give a session two of its own and one that competes; two handlers
and the reaper meet in any two regions of the code. Two pools are what a request that
holds the old one needs. With two slots a task wraps in every position of the wheel and
fires on the next or the second visit. Two records let a session be bound anew while
its old record still waits for its timer; three acquires are a binding, an over-acquire
and a competitor; three events are two instances and one that leaves, changes or moves to the
other queue. Three requests are one in a worker's hand, one in the queue and one that is hard to place; two
slots are a creation and an instance, or two creations one of which is cancelled. Two
faults are a lost answer and a crash or an expiry after it; a slot is taken over and won
back within them. Eight items are the smallest heap with a grandchild that has children
of its own. Deadlock checking is off where the system may come to rest when nobody calls
it and its bounds are used up.

### Scopes that follow from the code

Exact accounting of the pool does not survive polling requests or removed instances, so
`pool_accounting` has neither; the weaker InUseCoversHeld of `pool_liveness` does. With
sessionless requests even that fails after a removal: the release of a lease on a
removed and re-added instance takes a unit that somebody else holds. StoreFollowsBinding
excepts a session whose latest store operation a full queue has dropped (coord.go:121-131). In
`ConcurrencyScheduler`, ThreadsConserved and AvailTotalExact speak of instances that had
one element: leases of a deleted element are released onto its successor. BindingKept
excepts the expiry of a record that was replaced earlier, which deletes the session by
its ID, and, on a scheduler that does not own the function, a traffic-limited acquire whose
instance has left both queues since it was looked up: it runs on the self queue, where
isSessionExist takes the binding made meanwhile for a stale one. RingFollowsHolders excepts slots the control plane has deleted. WakeServes
excepts queues with a designated request or one of a session: a worker that cannot place
it puts it back and stops, although threads may be free and others wait (219-226).

### Findings

`heap_front`, `request_timeout` and `wheel_shots` are runs of their own:

* `heap_front`: `shiftDown` goes on from the wrong position after a swap with the parent, so
  that from eight items on two updates of a priority leave an item in front that is not the
  one of highest priority;
* `request_timeout`: the timeout loop takes its trigger while a worker holds the only
  request, sets no timer, and the request put back is never timed out;
* `wheel_shots`: the wheel drops a trigger when it fires with no times left instead of when it
  uses up the last, so that a lease's task, added with times = 1 to "fire once", fires twice.

Others are reproduced by changing a configuration:

| Configuration | Change | Property that fails |
|---|---|---|
| `LitePoolAccounting` | AcquireWait = TRUE | InUseExact: a polling request overwrites a binding made meanwhile |
| `LitePoolAccounting` | Removable = {i1, i2} | UnbindOnlyIdle: a release is booked on the session's new binding |
| `LitePoolAccounting` | Retains, Reacquire = TRUE, SessionCtx = FALSE | CapacityRespected: a reacquire does not look at the capacity |
| `LitePoolLiveness` | ZeroTTL = {s1} | IdleSessionUnbinds: the timer's callback reads a variable not yet assigned |
| `LitePoolLiveness` | Retains, Reacquire = TRUE | IdleSessionUnbinds: a reacquire does not stop the idle timer |
| `SessionStore` | add CleanedForGood | a timed-out save outlives Stop |
| `SimpleTimeWheel` | Overlap = TRUE | NeverLate: a tick during AddTask makes a task a revolution late |
| `EtcdLocker` | add HeldSlotHasValue | Unlock empties the value the next holder has published |
| `ConcurrencyScheduler` | add InUseExact | the published in-use count drifts with ownership changes and sub-healthy instances |
| `InstanceScaling` | Concurrencies = {1, 2} | PendingCovers: a callback subtracts the concurrency of the moment, not the one that was added |
| `InstanceScaling` | add PendingExact | a cancelled create request is never subtracted |
| `InstanceScaling` | add NoPauseWithDemand | the loop pauses on a demand read earlier |
| `InstanceScaling` | add RoundTakenBeforeTick | the loop takes a tick while a round is in scaleUpChan and blocks on its own channel |
| `InstanceScaling` | add NoStaleInstance | an instance checked before a spec update is added after it |
| `InstanceScaling` | add WorkerReleased | getForCreate waits without looking at stopped |

`PROJECT.json` quotes the comments these contradict, and lists further disagreements met
while modelling: an orphaned record is observed by the next lookup; a designated instance that conflicts with the session's answers an error;
the request queue is not fifo once a request is put back; a request in a worker's hand
escapes an unrecoverable create error; a slot deleted with two holder keys stays in the
hash ring; a scale-up may meet free threads.

### Fairness

Only what the Go runtime and its timers give: a goroutine that has started an operation
proceeds (`Proceed`, `Worker`, `Destroyer`, `Getter`, `StoreTask`), a timer and a wheel task
in place go off, the reaper takes what it is handed. Clients need not call anything,
release or retain. In `EtcdLocker` requests are answered, with an error at worst, tickers
tick and a lease that no scheduler has any more ends; a lease in use need not end, and no
restart and no further fault is assumed. In
`RequestQueue` each worker and the timeout loop proceed and time passes; instances need
not come and threads need not be released. `RunStop` of the wheel has strong fairness: the run goroutine selects
among a tick and stopCh, Go chooses at random among ready cases, and it does not choose
the tick for ever. Nobody needs to call Wait.

## 4. Proofs

Checked by TLAPS for all values of the constants that satisfy the modules' ASSUMEs. Every
safety property of a passing run is stated by a theorem. Some theorems have a hypothesis
on the constants; each such hypothesis excludes a case in which TLC finds the property
violated (table below), so it cannot be dropped.

| Hypothesis | Theorems | Without it |
|---|---|---|
| MaxPools = 1 (the pool is not deleted) | `StoreFollows` | records of the old pool outlive its bindings |
| ~SessionCtx (every request has a session) | `InUseCovers` | the release of a sessionless lease on a re-added instance takes a unit of somebody else |
| MaxPools = 1, Removable = {}, ~AcquireWait | the pool's accounts: `ActiveMatches`, `InUseIsExact`, `SessionsAreSticky`, `OnlyIdleUnbinds`, `NoInstanceOversold` | polls overwrite bindings, releases are booked on new bindings, so that a unit goes back while its lease lives on |
| SessionCtx or no reacquire | `SlotsWithinCapacity`, `NoInstanceOversold`, `IdleSessionsHaveTimers` | reacquireAllocation does not look at the capacity and leaves the expiring mark |
| ZeroTTL = {} | `IdleSessionsHaveTimers` | the timer's callback reads a variable not yet assigned |
| ~Overlap | the theorems about the wheel other than its types | a tick during AddTask |
| one concurrency | `PendingTheorem` | callbacks subtract another concurrency than was added |

`FiniteSums` is what the counting proofs rest on. The provers cannot instantiate the
library's induction rule for a predicate, but they accept a set: `Induction` says that a
set of naturals that contains 0 and the successor of each of its members is Nat, and
follows from the least element of its complement. The lemmas about `SumFunctionOnSet` take the set
of cardinalities up to which they hold: the fold exists, does not depend on the order
in which elements are taken, and changes by one summand when one element changes
(`SumChange`); `CardChange` and `FibresBound` are the same for cardinalities.

`LitePoolProofs`, types and live instances: `Spec => []TypeOK`, `[]BindingOnLiveInstance`,
`[]LeaseOnLiveInstance`. The inductive invariant `IInv` has six parts: every pool is
well-formed with bindings on its own instances (`PoolsOK`), leases are on instances of the
pool that granted them (`LeasesOK`), the wheel, the registry and the rest have their types,
and every handler in the middle of an operation carries what its next region needs
(`HandlersOK`: a request that dispatches or polls has a pool, a concurrency, a session ID; a
returning one has a lease). The last part is what makes the rest inductive: an action in
the middle of an operation is only safe for the state the handler was left in. One lemma
per operation on a pool (`StickyTakeOK`, `BindFreshOK`, `RemoveInstanceOK`, ...) says that it
keeps a pool well-formed; one lemma per variable says how a step that writes it keeps its
part; one lemma per action combines them.

`LitePoolProofs`, InUse and the store: `InUseCovers` follows from `SlackInv` (InUse of an
instance less the sum of what its bindings hold is not negative); one lemma per operation
says how it moves that difference. `StoreFollows` follows from `StoreInv`: in a pool that is
not deleted every change of a binding and the operation it enqueues are one region, and an
operation dropped by a full queue, for any session, leaves a record that claims nothing until
the next one is accepted.

`LitePoolProofs`, a steady pool: the accounts relate the bindings of a pool, the lease map
and the units that handlers are carrying back. `NextKind` shows that every step is of
one of eight kinds (a lease is granted to a session, or without one; a lease is dropped
and its unit on its way; a unit comes back to a binding, or to the instance; a timer
is started; it fires; or nothing is counted), and each kind keeps the equations
(`AccInv`).

`LitePoolProofs`, timers and capacity, in any pool: `IdleSessionsHaveTimers` and
`SlotsWithinCapacity` need no steady pool. `TimerInv` adds to the property the handlers that
are about to start a timer; a step leaves a binding as it is, removes it or leaves a
unit of it handed out (`Undisturbed`), except for the return of a unit, which sends its
handler to start the timer, and the start itself. `CapInv` (InUse within the capacity) is
inductive with the types: each grant finds room for what it takes. With the accounts
of a steady pool it also bounds the number of leases, which is `CapacityRespected`: the
leases of an instance are counted binding by binding, each no more than it holds
(`FibresBound`).

`SessionStoreProofs`: `Spec => []TypeOK`; `[]NoOrphanOp` from `StopInv` (the worker exits only
after the cancel, and a cancelled queue accepts nothing); `[]SingleRead` from `LeadInv` (the
getter that reads is the leader of the call that is registered under its key);
`[]CleanedStaysClean` from `CleanInv` (only operations on keys of Timeouts run late); and
`Spec => RefinesRecords`: the record of a key is the value of the last pending operation
on it, or the store's. The lemmas `AppendDecides` and `TailDecides` say how accepting and
finishing an operation change that last operation, so a call is an `Ask`, its enqueueing a
`Write` or `Refuse`, the worker's steps are stutters, cancelling is `Close` and cleaning is
`Clean`, and whatever a fault does to its own key is a stutter too. The properties themselves
except the keys that have faults: a timed-out save outlives Stop. `LastsInv` (a key
with a pending operation has a last one) stands in for an induction over the queue.

`SimpleTimeWheelProofs`: `Spec => []TypeOK` for every wheel, overlapping operations included.
Without overlap, `WheelInv` adds where triggers are (`SlotsInv`), what an operation carries
from its read of curSlot to its store (`OpInv`), which triggers a scan has still to visit
(`RunInv`), and the equation of the arithmetic (`DueInv`): the ticks until a task is due are
the distance from the current slot to its own plus a revolution for each circle it still
has to wait. `OneSlot`, `NeverLate` and `NeverEarly` follow from it, and the refinement of
`ExpiryTasks` maps a recorded trigger to its remaining shots, one more than its times, and the scan's list
to the batch; the documented number is refuted by `wheel_shots`.

`EtcdLockerProofs`: `Spec => []TypeOK`, `[]OneHolder` and `[]RingFollowsHolders`, for any set of
schedulers and slots, limits and number of faults. OneHolder says nothing of the keys in
etcd, so it is not inductive. `LockInv` adds `HolderKeys` (a holder key lives no longer than
its lease; revisions and leases tell holder keys apart), `OwnLeases` (no scheduler uses or
deletes another's lease, and at each point of tryLock it has the lease that point needs)
and `OldestKey` (the key of a scheduler that holds a slot is the oldest key of the slot).
Two holders of one slot would both have the oldest key; revisions are distinct, so these
are one key, and leases are distinct, so these are one scheduler. For the ring `ViewInv`
adds that the leases the registry knows of a slot are those of its holder keys
(`KnowsLeases`, `FewLeases`); the steps fall into the events the registry handles.

`InstanceScalingProofs`: `[]FlagFollowsLoop` from `FlagInv`, which adds the types of the loop's
variables and `LoopState` (what the loop has buffered at each of its waits); `[]WorkerAwake`,
which is inductive by itself: a push leaves a Signal due in the step that makes the queue
non-empty, and the worker tests and waits in one step under the queue's lock; `[]TypeOK` from `CountsInv`: the
totals are changed by differences, so that they are natural numbers only because they
are the sums over the instances; `[]PendingCovers`, in which each step's change of the
pending threads is compared with its change of the instances on their way.

`RequestQueueProofs`: `[]TypeOK` and `[]OnePlaceEach` from `PlaceInv`: the queue has no request
twice and shares none with a worker's hand, no two workers hold the same one, a request
in such a place has no answer, and a waiting caller's request is in one of them or
answered.

`ConcurrencySchedulerProofs`: `[]ThreadsConserved`, `[]AvailTotalExact`, `[]CancelTokenPresent` and
`BindingKept`, from one invariant. The operations are operators on scheduler states, so the
invariant is a predicate of such a state and of the allocations. `SInv` adds to the
conservation of threads what keeps it: a record counts at least the threads that were
allocated from it (`CoverOK`), a session's current record is its latest and has not expired
(`MapOK`), an allocation belongs to an instance that was added and to its record's (`AllocsOK`),
and a record whose expiry is under way is marked, so that its users leave the token
(`TokensOK`). `Exact` says that the published numbers are the sums over the self queue, that
insAvailThdCount is up to date for what counts, and that such an instance is not in the
other queue as well, where its threads would be handed out unpublished. An event
that chose its queue before the lock does not revive an instance that is being evicted
(`EventOK`); without that, the total would count it again. Sums change in one place at a
time: `ChangeInv` and `ExactStep` reduce a step to the record, element and slot it touches.
HandleFuncOwnerUpdate is a fold over the instances of a queue; `MoveAll` goes by induction
on the set already moved. One lemma per action ends the proof.

Only model-checked: liveness (IdleSessionUnbinds, LeaseExpires, both StopReturns,
LookupReturns, DisplacedUnregisters, WakeServes), because fairness and ENABLED are outside
TLAPS, and the violations: `PriorityQueue`, whose operators are recursive,
EveryRequestAnswered and FiresTimes. TypeOK of `ConcurrencyScheduler` (ranges and bounds) holds on
the instance of `ConcurrencyScheduler.cfg` when added to it, but is no property of a run and
is not proved; the proofs use the unbounded types of `StateT`.

## 5. Not modelled

The implementation has some 88,000 lines in 422 files; the map covers the scheduler's own
concurrent logic and a few percent of the whole. Most of the rest has no behaviour of its
own to check: cgo and language bindings, type and constant declarations, configuration,
HTTP handlers, Kubernetes and kernel request building, metrics, logs and command-line
tools. What has such behaviour and is left for later is named in the plan; a module for
any other part would restate assignments.

## 6. Plan

Done: `LitePool` first (the core of the scheduler), then the store and the wheel it rests
on, then the concurrency scheduler with the request queue, the scaling of instances and the
registration of schedulers. Next, in this order:

1. Proofs: TypeOK of `ConcurrencyScheduler` (free threads and reservations within their
   ranges), and what of InUseExact of the pool survives polls and removed instances.
2. `SessionContext`: idle reports and reclaiming, composed with `LitePool`'s idle scan;
   `ScaleHint`: dedup window and retries, composed with `InstanceScaling`'s hint.
3. The instance pool: creation, recovery after a restart, owner changes.
4. libruntime's invocation ordering and waiting objects.
