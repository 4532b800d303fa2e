------------------------------ MODULE LitePool ------------------------------
(***************************************************************************)
(* The LiteScheduler's function pool: session-sticky leases on instances.  *)
(*                                                                         *)
(* One function key is modelled.  A lease (Allocation in the code) is one  *)
(* concurrency unit handed to a frontend.  A session is bound to one       *)
(* instance by a binding that reserves units there; leases are taken from  *)
(* the reservation and go back to it, and the reservation goes back to the *)
(* instance when an idle session's unbind timer fires.                     *)
(*                                                                         *)
(* Every action is one region the code runs under pool.Lock and/or         *)
(* allocMu, or one operation on the wheel outside of both; what the code   *)
(* does between two of them (a store read, a wait, an unlock) is a program *)
(* counter of the handler that runs it, so other goroutines interleave     *)
(* there.                                                                  *)
(*                                                                         *)
(* Abstractions.  Session keys, instance IDs and lease IDs are opaque; the *)
(* hash in a lease ID is injective.  All requests and instances of the     *)
(* pool carry the same session context (SessionCtx tells whether it is the *)
(* empty one).  Time is left out: a timer, the wheel and a wait may end at *)
(* any moment.  An instance of the pool is Running or SubHealth (an        *)
(* Unavailable one is removed), and the dispatcher may choose any          *)
(* candidate.  Requests that are refused without a state change are left   *)
(* out.                                                                    *)
(***************************************************************************)
EXTENDS Naturals, Sequences, FiniteSets, Functions

CONSTANTS
  Instances,      \* instance IDs of the function
  Sessions,       \* session IDs the clients use
  NoSession,      \* the empty session ID
  NoInstance,     \* the empty instance ID
  NoLease,        \* no lease
  Stale,          \* in record: the store still has what it had before
  Requests,       \* concurrent request handlers (goroutines of the server)
  Reaper,         \* the goroutine of processExpiryEvents
  Capacity,       \* ConcurrentNum of the function: units per instance
  Concurrencies,  \* the concurrency values the clients ask for
  MaxSeq,         \* bound on the leases one pool grants
  MaxPools,       \* bound on the pools created for the function key
  MaxReady,       \* bound on the fired tasks the wheel's ready channel holds
  Removable,      \* the instances that instance events may take away
  Overflows,      \* the sessions whose store operations may find the queue full
  ZeroTTL,        \* the sessions whose clients send sessionTTL = 0
  SessionCtx,     \* the function enables session contexts
  AcquireWait,    \* AcquireWaitTimeoutMs > 0
  Retains,        \* clients call retain
  Reacquire       \* their retains carry ReacquireData

ASSUME LitePoolAssumption ==
  /\ Capacity \in Nat /\ MaxSeq \in Nat /\ MaxPools \in Nat /\ MaxReady \in Nat
  /\ Concurrencies \subseteq 1 .. Capacity
  /\ Removable \subseteq Instances /\ ZeroTTL \subseteq Sessions /\ Overflows \subseteq Sessions
  /\ NoSession \notin Sessions /\ NoInstance \notin Instances
  /\ Stale \notin Instances \cup {NoInstance}
  /\ Reaper \notin Requests
  /\ {SessionCtx, AcquireWait, Retains, Reacquire} \subseteq BOOLEAN

\* Sessions and goroutines can be counted.
ASSUME LitePoolFinite == IsFiniteSet(Sessions) /\ IsFiniteSet(Requests)

VARIABLES
  pool,         \* every LiteFunctionPool created so far, registered or orphaned
  created,      \* how many pools were created
  curPool,      \* ls.pools[funcKey]: the registered pool, 0 when there is none
  deleting,     \* where processFuncSpecEvents stands in deletePool
  allocations,  \* ls.allocations: lease -> the pool that granted it
  wheel,        \* the expiry wheel: lease -> how often its task still fires
  ready,        \* the leases the wheel has fired and the reaper has not yet seen
  record,       \* per session, what the store operations enqueued so far amount to,
                \* or Stale while the latest one was dropped
  issued,       \* the leases clients may ask back with ReacquireData
  h             \* the handlers: one per request, and the reaper

vars == <<pool, created, curPool, deleting, allocations, wheel, ready, record, issued, h>>

Pools == 1 .. MaxPools
NoPool == 0
Handlers == Requests \cup {Reaper}
SessionIDs == Sessions \cup (IF SessionCtx THEN {NoSession} ELSE {})
\* A map with an entry added or replaced.
Put(f, a, v) == [b \in DOMAIN f \cup {a} |-> IF b = a THEN v ELSE f[b]]

Lease == [sess : Sessions \cup {NoSession}, inst : Instances, seq : Nat]

(***************************************************************************)
(* sessionBinding.  timer is "ticking" while the AfterFunc is armed and    *)
(* "dead" when its one shot is spent without unbinding the session.  A     *)
(* callback whose timer was stopped finds another timer (or none) in the   *)
(* binding and returns, so it is not modelled.                             *)
(***************************************************************************)
NoBinding == [inst |-> NoInstance]
Binding == [inst : Instances, reserved : Nat, active : Nat,
            expiring : BOOLEAN, timer : {"none", "ticking", "dead"}]

PoolState == [inst : SUBSET Instances, inUse : [Instances -> Nat],
              reclaiming : SUBSET Instances,
              sess : [Sessions -> Binding \cup {NoBinding}],
              seq : Nat, stopped : BOOLEAN]

EmptyPool == [inst |-> {}, inUse |-> [i \in Instances |-> 0], reclaiming |-> {},
              sess |-> [s \in Sessions |-> NoBinding], seq |-> 0, stopped |-> FALSE]

Idle == [pc |-> "idle", sess |-> NoSession, conc |-> 0, pool |-> NoPool, lease |-> NoLease]

-----------------------------------------------------------------------------
(***************************************************************************)
(* Operations on one pool, run by their callers under pool.Lock.           *)
(***************************************************************************)

Bound(p, s) == s \in Sessions /\ p.sess[s] # NoBinding

\* tryLocalStickyLocked finds the binding usable: a reserved unit, or a free
\* one on the instance.  Its other branch for a binding whose instance has
\* left the pool is dead code, by BindingOnLiveInstance.
StickyHit(p, s) ==
  /\ Bound(p, s)
  /\ \/ p.sess[s].reserved > 0
     \/ p.inUse[p.sess[s].inst] < Capacity

StickyFull(p, s) == Bound(p, s) /\ ~StickyHit(p, s)

\* Fault: the timer is stopped and expiring is not reset.
CancelUnbind_KeepExpiring(b) == IF b.expiring THEN [b EXCEPT !.timer = "none"] ELSE b

\* cancelSessionUnbind: an acquire stops the idle timer of its session.
CancelUnbind(b) == IF b.expiring THEN [b EXCEPT !.timer = "none", !.expiring = FALSE] ELSE b

\* Faults: a unit from the reservation is not counted as active; an
\* over-acquired unit is not counted on the instance; an exhausted reservation
\* is not noticed.
StickyTake_NotActive(p, s) ==
  LET b == p.sess[s] IN
    IF b.reserved > 0
    THEN [p EXCEPT !.sess[s].reserved = @ - 1]
    ELSE [p EXCEPT !.sess[s].active = @ + 1, !.inUse[b.inst] = @ + 1]
StickyTake_NotInUse(p, s) ==
  IF p.sess[s].reserved > 0
  THEN [p EXCEPT !.sess[s].reserved = @ - 1, !.sess[s].active = @ + 1]
  ELSE [p EXCEPT !.sess[s].active = @ + 1]
StickyTake_NoCheck(p, s) ==
  [p EXCEPT !.sess[s].reserved = @ - 1, !.sess[s].active = @ + 1]

\* bindSessionStickyTakeLocked: one unit from the reservation, or over-acquired
\* from the instance once the reservation is used up.
StickyTake(p, s) ==
  LET b == p.sess[s] IN
    IF b.reserved > 0
    THEN [p EXCEPT !.sess[s].reserved = @ - 1, !.sess[s].active = @ + 1]
    ELSE [p EXCEPT !.sess[s].active = @ + 1, !.inUse[b.inst] = @ + 1]

\* bindSessionFreshLocked and the caller's slot.InUse += concurrency.
BindFresh(p, s, i, c) ==
  [p EXCEPT !.inUse[i] = @ + c,
            !.sess[s] = [inst |-> i, reserved |-> c - 1, active |-> 1,
                         expiring |-> FALSE, timer |-> "none"]]

\* Fault: one free unit is enough for any concurrency.
Candidates_AnyFree(p, c) == {i \in p.inst \ p.reclaiming : p.inUse[i] < Capacity}

\* candidateSlotsLocked: the slots a fresh request of concurrency c may go to.
Candidates(p, c) == {i \in p.inst \ p.reclaiming : p.inUse[i] + c <= Capacity}

\* Fault: one release takes back every unit of the session.
UnbindOnRelease_All(b) ==
  [b EXCEPT !.active = 0, !.reserved = b.reserved + b.active, !.expiring = TRUE]

\* unbindSessionOnRelease: the unit goes back to the reservation; the last one
\* marks the session as expiring.
UnbindOnRelease(b) ==
  LET r == IF b.active > 0 THEN [b EXCEPT !.active = @ - 1, !.reserved = @ + 1] ELSE b
  IN  IF r.active > 0 THEN r ELSE [r EXCEPT !.expiring = TRUE]

NeedTimer(b) == b.active <= 1 /\ ~b.expiring

\* removeSessionBinding and processInstanceInUse: everything the session holds
\* goes back to the instance, clamped at zero.
RemoveBinding(p, s) ==
  LET b == p.sess[s]
      held == b.reserved + b.active
  IN  [p EXCEPT !.sess[s] = NoBinding,
                !.inUse[b.inst] = IF @ >= held THEN @ - held ELSE 0]

\* Fault: the bindings to a removed instance stay.
RemoveInstance_KeepBindings(p, i) ==
  [p EXCEPT !.inst = @ \ {i}, !.reclaiming = @ \ {i}, !.inUse[i] = 0]

\* The slot and binding part of removeInstanceLocked: the slot goes first, so
\* the bindings' units go nowhere.
RemoveInstance(p, i) ==
  [p EXCEPT !.inst = @ \ {i}, !.reclaiming = @ \ {i}, !.inUse[i] = 0,
            !.sess = [s \in Sessions |-> IF p.sess[s].inst = i THEN NoBinding ELSE p.sess[s]]]

\* sessionStore.saveSessionToStore, or deleteSessionFromStore with NoInstance, for
\* the sessions of S: each operation is enqueued, or dropped if the queue is full.
\* A stopped coordinator takes none.
SetRecord(p, S, i) ==
  IF p.stopped THEN {record}
  ELSE {[s \in Sessions |-> IF s \in dropped THEN Stale ELSE IF s \in S THEN i ELSE record[s]] :
          dropped \in SUBSET (S \cap Overflows)}

-----------------------------------------------------------------------------
(***************************************************************************)
(* The expiry wheel as this component sees it: AddTask refuses a known     *)
(* key, UpdateTask adds a missing one, and a task of times = 1 fires and   *)
(* stays for a second shot before the wheel drops it.                      *)
(***************************************************************************)
Shots == 2
\* Fault: a new lease gets no expiry task.
AddTask_None(a) == wheel
AddTask(a) == IF a \in DOMAIN wheel THEN wheel ELSE Put(wheel, a, Shots)
UpdateTask(a) == Put(wheel, a, Shots)
DelTasks(S) == Restrict(wheel, DOMAIN wheel \ S)

-----------------------------------------------------------------------------
(***************************************************************************)
(* handleAcquire.                                                          *)
(***************************************************************************)

\* Bound on the leases: the grants made and those still to come stay below MaxSeq.
CanIssue(g) ==
  pool[g].seq + Cardinality({t \in Requests : h[t].pc \in {"dispatch", "wait"} /\ h[t].pool = g})
    < MaxSeq

\* assignInstance: pool g becomes p, which holds the unit, and the lease is
\* entered in the allocation map and on the wheel.
AssignInstance(t, g, p, s, i) ==
  LET a == [sess |-> s, inst |-> i, seq |-> p.seq + 1] IN
    /\ pool' = [pool EXCEPT ![g] = [p EXCEPT !.seq = @ + 1]]
    /\ allocations' = Put(allocations, a, g)
    /\ wheel' = AddTask(a)
    /\ issued' = IF Reacquire THEN issued \cup {a} ELSE issued
    /\ h' = [h EXCEPT ![t] = Idle]
    /\ UNCHANGED <<created, curPool, deleting, ready>>

\* assignInstance on a binding in use.
AssignSticky(t, g, s) ==
  LET p == [pool[g] EXCEPT !.sess[s] = CancelUnbind(@)] IN
    /\ AssignInstance(t, g, StickyTake(p, s), s, p.sess[s].inst)
    /\ UNCHANGED record

\* assignInstance with a nil binding: applySlotBinding binds the session afresh,
\* over the binding it may have, and a request without a session takes one unit.
AssignFresh(t, g, s, i, c) ==
  IF s \in Sessions
  THEN /\ AssignInstance(t, g, BindFresh(pool[g], s, i, c), s, i)
       /\ record' \in SetRecord(pool[g], {s}, i)
  ELSE /\ AssignInstance(t, g, [pool[g] EXCEPT !.inUse[i] = @ + 1], s, i)
       /\ UNCHANGED record

\* Phase 1, tryLocalSticky: the session is bound here and usable.
AcquireSticky(t, s) ==
  /\ h[t].pc = "idle" /\ curPool # NoPool /\ CanIssue(curPool)
  /\ StickyHit(pool[curPool], s)
  /\ AssignSticky(t, curPool, s)

\* Phase 1 misses; phase 2 reads the store without a lock.
AcquireMiss(t, s, c) ==
  /\ h[t].pc = "idle" /\ curPool # NoPool /\ CanIssue(curPool)
  /\ ~Bound(pool[curPool], s)
  /\ h' = [h EXCEPT ![t] = [Idle EXCEPT !.pc = "dispatch", !.sess = s, !.conc = c, !.pool = curPool]]
  /\ UNCHANGED <<pool, created, curPool, deleting, allocations, wheel, ready, record, issued>>

\* Phase 3a, acquireDispatchOrColdStart: a concurrent request bound the session.
DispatchSticky(t) ==
  /\ h[t].pc = "dispatch"
  /\ StickyHit(pool[h[t].pool], h[t].sess)
  /\ AssignSticky(t, h[t].pool, h[t].sess)

\* Phase 3a: it is bound to a full instance; the client has to retry.
DispatchReject(t) ==
  /\ h[t].pc = "dispatch"
  /\ StickyFull(pool[h[t].pool], h[t].sess)
  /\ h' = [h EXCEPT ![t] = Idle]
  /\ UNCHANGED <<pool, created, curPool, deleting, allocations, wheel, ready, record, issued>>

\* tryStoreRecoveryLocked: the recorded instance can take the session.
Recoverable(p, i, c) == i \in p.inst /\ p.inUse[i] + c <= Capacity

\* Fault: phase 3 does not look for a binding made during the store read.
DispatchAssign_NoRecheck(t) ==
  /\ h[t].pc = "dispatch"
  /\ \E i \in Candidates(pool[h[t].pool], h[t].conc) :
       AssignFresh(t, h[t].pool, h[t].sess, i, h[t].conc)

\* Phases 3b and 3c: the instance the store names, if it can take the session,
\* or else one the dispatcher selects.  The store may hold whatever this or
\* another scheduler wrote, and a failed read counts as no record.
DispatchAssign(t) ==
  LET g == h[t].pool
      c == h[t].conc
  IN  /\ h[t].pc = "dispatch"
      /\ ~Bound(pool[g], h[t].sess)
      /\ \E rec \in Instances \cup {NoInstance} :
           \E i \in IF Recoverable(pool[g], rec, c) THEN {rec} ELSE Candidates(pool[g], c) :
             AssignFresh(t, g, h[t].sess, i, c)

\* Phase 4: no slot.  The record found, if any, is deleted as stale; the scale
\* hint's answer, or a zero wait, ends the request, and otherwise it polls.
ColdStart(t) ==
  LET g == h[t].pool
      c == h[t].conc
  IN  /\ h[t].pc = "dispatch"
      /\ ~Bound(pool[g], h[t].sess)
      /\ Candidates(pool[g], c) = {}
      /\ \E rec \in {r \in Instances \cup {NoInstance} : ~Recoverable(pool[g], r, c)} :
           record' \in IF rec = NoInstance THEN {record}
                       ELSE SetRecord(pool[g], {h[t].sess}, NoInstance)
      /\ h' \in {[h EXCEPT ![t] = Idle]}
                  \cup (IF AcquireWait THEN {[h EXCEPT ![t].pc = "wait"]} ELSE {})
      /\ UNCHANGED <<pool, created, curPool, deleting, allocations, wheel, ready, issued>>

\* waitForInstance, tryPollDispatch: a slot has appeared.
PollAssign(t) ==
  /\ h[t].pc = "wait"
  /\ \E i \in Candidates(pool[h[t].pool], h[t].conc) :
       AssignFresh(t, h[t].pool, h[t].sess, i, h[t].conc)

\* waitForInstance: the deadline has passed since the last poll.
PollTimeout(t) ==
  /\ h[t].pc = "wait"
  /\ h' = [h EXCEPT ![t] = Idle]
  /\ UNCHANGED <<pool, created, curPool, deleting, allocations, wheel, ready, record, issued>>

-----------------------------------------------------------------------------
(***************************************************************************)
(* handleRelease and reapExpiredAllocation: the lease leaves the map first *)
(* and its unit goes back in a later region.                               *)
(***************************************************************************)

\* handleRelease deletes the lease under allocMu.
ReleaseDelete(t, a) ==
  /\ h[t].pc = "idle" /\ a \in DOMAIN allocations
  /\ allocations' = Restrict(allocations, DOMAIN allocations \ {a})
  /\ h' = [h EXCEPT ![t] = [Idle EXCEPT !.pc = "deltask", !.lease = a]]
  /\ UNCHANGED <<pool, created, curPool, deleting, wheel, ready, record, issued>>

\* removeExpiryTask
ReleaseDelTask(t) ==
  /\ h[t].pc = "deltask"
  /\ wheel' = DelTasks({h[t].lease})
  /\ h' = [h EXCEPT ![t].pc = "return"]
  /\ UNCHANGED <<pool, created, curPool, deleting, allocations, ready, record, issued>>

\* The wheel's run goroutine hands over a task that is due; it blocks while the
\* ready channel is full.
WheelFire(a) ==
  /\ a \in DOMAIN wheel /\ Len(ready) < MaxReady
  /\ wheel' = IF wheel[a] = 1 THEN DelTasks({a}) ELSE [wheel EXCEPT ![a] = @ - 1]
  /\ ready' = Append(ready, a)
  /\ UNCHANGED <<pool, created, curPool, deleting, allocations, record, issued, h>>

\* processExpiryEvents takes the next lease and deletes it under allocMu.
ReapDelete ==
  /\ h[Reaper].pc = "idle" /\ ready # <<>>
  /\ ready' = Tail(ready)
  /\ IF Head(ready) \in DOMAIN allocations
     THEN /\ allocations' = Restrict(allocations, DOMAIN allocations \ {Head(ready)})
          /\ h' = [h EXCEPT ![Reaper] = [Idle EXCEPT !.pc = "return", !.lease = Head(ready)]]
     ELSE UNCHANGED <<allocations, h>>
  /\ UNCHANGED <<pool, created, curPool, deleting, wheel, record, issued>>

\* Fault: a session's release also returns the unit to the instance.
ReturnUnit_InUseToo(p, a) ==
  IF Bound(p, a.sess)
  THEN [p EXCEPT !.sess[a.sess] = UnbindOnRelease(@),
                 !.inUse[a.inst] = IF @ > 0 THEN @ - 1 ELSE 0]
  ELSE p

\* The pool once the unit of lease a is back: in the session's reservation, or,
\* without a session, on the instance.
ReturnUnit(p, a) ==
  IF Bound(p, a.sess) THEN [p EXCEPT !.sess[a.sess] = UnbindOnRelease(@)]
  ELSE IF a.sess = NoSession /\ a.inst \in p.inst /\ p.inUse[a.inst] > 0
       THEN [p EXCEPT !.inUse[a.inst] = @ - 1]
       ELSE p

\* releaseSlotLocked, and the pool.Lock region of reapExpiredAllocation: the
\* unit goes back to whatever pool is registered by now.  A release does nothing
\* when the instance is gone; the reaper looks only for a lease without session.
Return(t) ==
  LET a == h[t].lease
      p == pool[curPool]
      gone == t # Reaper /\ a.inst \notin p.inst
  IN  /\ h[t].pc = "return"
      /\ IF curPool = NoPool \/ gone
         THEN /\ h' = [h EXCEPT ![t] = Idle]
              /\ UNCHANGED pool
         ELSE /\ pool' = [pool EXCEPT ![curPool] = ReturnUnit(p, a)]
              /\ h' = [h EXCEPT ![t] = IF Bound(p, a.sess) /\ NeedTimer(p.sess[a.sess])
                                       THEN [Idle EXCEPT !.pc = "timer", !.sess = a.sess, !.pool = curPool]
                                       ELSE Idle]
      /\ UNCHANGED <<created, curPool, deleting, allocations, wheel, ready, record, issued>>

\* startSessionUnbindTimer.  The callback reads the variable timer before it
\* takes pool.Lock; with a zero TTL it may run before AfterFunc's result is
\* assigned to it, and then it gives up: the timer's only shot is gone.
StartTimer(t) ==
  LET g == h[t].pool
      s == h[t].sess
      b == pool[g].sess[s]
  IN  /\ h[t].pc = "timer"
      /\ IF Bound(pool[g], s) /\ b.expiring /\ b.active = 0
         THEN \E timer \in {"ticking"} \cup (IF s \in ZeroTTL THEN {"dead"} ELSE {}) :
                pool' = [pool EXCEPT ![g].sess[s].timer = timer]
         ELSE UNCHANGED pool
      /\ h' = [h EXCEPT ![t] = Idle]
      /\ UNCHANGED <<created, curPool, deleting, allocations, wheel, ready, record, issued>>

\* fireSessionUnbind: the idle time is over.
FireUnbind(g, s) ==
  LET b == pool[g].sess[s] IN
    /\ Bound(pool[g], s) /\ b.timer = "ticking"
    /\ IF b.expiring /\ b.active = 0
       THEN /\ pool' = [pool EXCEPT ![g] = RemoveBinding(@, s)]
            /\ record' \in SetRecord(pool[g], {s}, NoInstance)
       ELSE /\ pool' = [pool EXCEPT ![g].sess[s].timer = "dead"]
            /\ UNCHANGED record
    /\ UNCHANGED <<created, curPool, deleting, allocations, wheel, ready, issued, h>>

-----------------------------------------------------------------------------
(***************************************************************************)
(* handleRetain.                                                           *)
(***************************************************************************)

\* Steps (1) and (2), validateRetainTarget: the lease is there; is its slot?
RetainLookup(t, a) ==
  /\ Retains /\ h[t].pc = "idle" /\ a \in DOMAIN allocations
  /\ LET ok == curPool # NoPool /\ a.inst \in pool[curPool].inst IN
       h' = [h EXCEPT ![t] = [Idle EXCEPT !.pc = IF ok THEN "refresh" ELSE "drop", !.lease = a]]
  /\ UNCHANGED <<pool, created, curPool, deleting, allocations, wheel, ready, record, issued>>

\* Step (3), refreshRetainTTL: under allocMu, the lease may be gone by now.
RetainRefresh(t) ==
  /\ h[t].pc = "refresh"
  /\ h' = [h EXCEPT ![t] = IF @.lease \in DOMAIN allocations THEN [@ EXCEPT !.pc = "update"] ELSE Idle]
  /\ UNCHANGED <<pool, created, curPool, deleting, allocations, wheel, ready, record, issued>>

\* updateExpiryTask, without a lock: the deadline moves, and a task that has been
\* removed meanwhile is back.
RetainUpdate(t) ==
  /\ h[t].pc = "update"
  /\ wheel' = UpdateTask(h[t].lease)
  /\ h' = [h EXCEPT ![t] = Idle]
  /\ UNCHANGED <<pool, created, curPool, deleting, allocations, ready, record, issued>>

\* deleteAllocAndExpiry: the slot was gone; the lease goes, under allocMu, and no
\* unit comes back.
RetainDrop(t) ==
  /\ h[t].pc = "drop"
  /\ allocations' = Restrict(allocations, DOMAIN allocations \ {h[t].lease})
  /\ h' = [h EXCEPT ![t].pc = "forget"]
  /\ UNCHANGED <<pool, created, curPool, deleting, wheel, ready, record, issued>>

\* Its removeExpiryTask, without a lock.
RetainForget(t) ==
  /\ h[t].pc = "forget"
  /\ wheel' = DelTasks({h[t].lease})
  /\ h' = [h EXCEPT ![t] = Idle]
  /\ UNCHANGED <<pool, created, curPool, deleting, allocations, ready, record, issued>>

\* reacquireAllocation: a retain found the lease missing and rebuilds it under
\* both locks, unless another did meanwhile; updateExpiryTask follows without
\* them.  The capacity is not checked, and a session is needed; with session
\* contexts the hash check never passes (the ID holds the hash of the joined
\* key, the check takes the plain session ID).
ReacquireAllocation(t, a, c) ==
  LET p == pool[curPool] IN
    /\ Retains /\ Reacquire /\ ~SessionCtx /\ h[t].pc = "idle"
    /\ a \in issued /\ a.sess \in Sessions /\ curPool # NoPool
    /\ a.inst \in p.inst
    /\ Bound(p, a.sess) => p.sess[a.sess].inst = a.inst
    /\ IF a \in DOMAIN allocations
       THEN UNCHANGED <<pool, allocations, record>>
       ELSE /\ allocations' = Put(allocations, a, curPool)
            /\ pool' = [pool EXCEPT ![curPool] = IF Bound(p, a.sess) THEN StickyTake(p, a.sess)
                                                 ELSE BindFresh(p, a.sess, a.inst, c)]
            /\ record' \in IF Bound(p, a.sess) THEN {record} ELSE SetRecord(p, {a.sess}, a.inst)
    /\ h' = [h EXCEPT ![t] = [Idle EXCEPT !.pc = "update", !.lease = a]]
    /\ UNCHANGED <<created, curPool, deleting, wheel, ready, issued>>

-----------------------------------------------------------------------------
(***************************************************************************)
(* Registry events.  One goroutine handles the function events and another *)
(* the instance events.                                                    *)
(***************************************************************************)

\* upsertPool of a function that has no pool.  (For one that has, it swaps the
\* function metadata, which the model does not hold.)
UpsertPool ==
  /\ curPool = NoPool /\ deleting.pc = "idle" /\ created < MaxPools
  /\ created' = created + 1 /\ curPool' = created + 1
  /\ UNCHANGED <<pool, deleting, allocations, wheel, ready, record, issued, h>>

\* deletePool unregisters the pool and clears its bindings under pool.Lock; the
\* instances stay in it.  (Bound: the last of the MaxPools pools stays.)
DeletePool ==
  /\ curPool # NoPool /\ created < MaxPools
  /\ curPool' = NoPool
  /\ pool' = [pool EXCEPT ![curPool].sess = [s \in Sessions |-> NoBinding]]
  /\ deleting' = [pc |-> "stop", pool |-> curPool,
                  keys |-> {s \in Sessions : Bound(pool[curPool], s)}]
  /\ UNCHANGED <<created, allocations, wheel, ready, record, issued, h>>

\* It stops the store coordinator and deletes the records of those sessions.
DeleteRecords ==
  /\ deleting.pc = "stop"
  /\ pool' = [pool EXCEPT ![deleting.pool].stopped = TRUE]
  /\ record' = [s \in Sessions |-> IF s \in deleting.keys THEN NoInstance ELSE record[s]]
  /\ deleting' = [deleting EXCEPT !.pc = "purge"]
  /\ UNCHANGED <<created, curPool, allocations, wheel, ready, issued, h>>

\* It purges every lease of the function.
DeleteAllocations ==
  /\ deleting.pc = "purge"
  /\ allocations' = <<>>
  /\ wheel' = DelTasks(DOMAIN allocations)
  /\ deleting' = [pc |-> "idle", pool |-> NoPool, keys |-> {}]
  /\ UNCHANGED <<pool, created, curPool, ready, record, issued, h>>

\* handleInstanceUpdate of a Running or SubHealth instance the pool does not
\* have.  (An update of one it has keeps InUse and Reclaiming.)
InstanceUpdate(i) ==
  /\ curPool # NoPool /\ i \notin pool[curPool].inst
  /\ pool' = [pool EXCEPT ![curPool].inst = @ \cup {i}, ![curPool].inUse[i] = 0]
  /\ UNCHANGED <<created, curPool, deleting, allocations, wheel, ready, record, issued, h>>

\* Faults: the store records, or the leases, of a removed instance stay.
InstanceDelete_KeepRecords(i) ==
  LET p == pool[curPool]
      gone == {a \in DOMAIN allocations : a.inst = i}
  IN  /\ curPool # NoPool /\ i \in p.inst \cap Removable
      /\ pool' = [pool EXCEPT ![curPool] = RemoveInstance(p, i)]
      /\ allocations' = Restrict(allocations, DOMAIN allocations \ gone)
      /\ wheel' = DelTasks(gone)
      /\ UNCHANGED <<created, curPool, deleting, ready, record, issued, h>>
InstanceDelete_KeepLeases(i) ==
  LET p == pool[curPool]
  IN  /\ curPool # NoPool /\ i \in p.inst \cap Removable
      /\ pool' = [pool EXCEPT ![curPool] = RemoveInstance(p, i)]
      /\ record' \in SetRecord(p, {s \in Sessions : p.sess[s].inst = i}, NoInstance)
      /\ UNCHANGED <<created, curPool, deleting, allocations, wheel, ready, issued, h>>

\* handleInstanceDelete, and handleInstanceUpdate of an Unavailable instance:
\* removeInstanceLocked under pool.Lock and allocMu.
InstanceDelete(i) ==
  LET p == pool[curPool]
      gone == {a \in DOMAIN allocations : a.inst = i}
  IN  /\ curPool # NoPool /\ i \in p.inst \cap Removable
      /\ pool' = [pool EXCEPT ![curPool] = RemoveInstance(p, i)]
      /\ record' \in SetRecord(p, {s \in Sessions : p.sess[s].inst = i}, NoInstance)
      /\ allocations' = Restrict(allocations, DOMAIN allocations \ gone)
      /\ wheel' = DelTasks(gone)
      /\ UNCHANGED <<created, curPool, deleting, ready, issued, h>>

\* scanSessionContextIdle: an instance unused for the idle TTL is reported to
\* its function's owner and takes no new session until that is settled.
IdleReport(i) ==
  LET p == pool[curPool] IN
    /\ SessionCtx /\ curPool # NoPool
    /\ i \in p.inst \ p.reclaiming /\ p.inUse[i] = 0
    /\ pool' = [pool EXCEPT ![curPool].reclaiming = @ \cup {i}]
    /\ UNCHANGED <<created, curPool, deleting, allocations, wheel, ready, record, issued, h>>

\* resetReclaiming after a failed report, the scan of an instance in use again,
\* and a ring change that takes the context away (processSchedulerEvents).
IdleReset(i) ==
  /\ SessionCtx /\ curPool # NoPool
  /\ i \in pool[curPool].reclaiming
  /\ pool' = [pool EXCEPT ![curPool].reclaiming = @ \ {i}]
  /\ UNCHANGED <<created, curPool, deleting, allocations, wheel, ready, record, issued, h>>

-----------------------------------------------------------------------------
Init ==
  /\ pool = [g \in Pools |-> EmptyPool]
  /\ created = 0 /\ curPool = NoPool
  /\ deleting = [pc |-> "idle", pool |-> NoPool, keys |-> {}]
  /\ allocations = <<>> /\ wheel = <<>> /\ ready = <<>>
  /\ record = [s \in Sessions |-> NoInstance]
  /\ issued = {}
  /\ h = [t \in Handlers |-> Idle]

\* What a handler does next by itself, once it has started.
Proceed(t) ==
  \/ DispatchSticky(t) \/ DispatchReject(t) \/ DispatchAssign(t) \/ ColdStart(t)
  \/ PollAssign(t) \/ PollTimeout(t)
  \/ ReleaseDelTask(t) \/ Return(t) \/ StartTimer(t)
  \/ RetainRefresh(t) \/ RetainUpdate(t) \/ RetainDrop(t) \/ RetainForget(t)

Call(t) ==
  \/ \E s \in SessionIDs : AcquireSticky(t, s) \/ \E c \in Concurrencies : AcquireMiss(t, s, c)
  \/ \E a \in DOMAIN allocations : ReleaseDelete(t, a) \/ RetainLookup(t, a)
  \/ \E a \in issued, c \in Concurrencies : ReacquireAllocation(t, a, c)

Registry ==
  \/ UpsertPool \/ DeletePool \/ DeleteRecords \/ DeleteAllocations
  \/ \E i \in Instances : InstanceUpdate(i) \/ InstanceDelete(i) \/ IdleReport(i) \/ IdleReset(i)

Next ==
  \/ \E t \in Requests : Call(t)
  \/ \E t \in Handlers : Proceed(t)
  \/ ReapDelete
  \/ \E a \in DOMAIN wheel : WheelFire(a)
  \/ \E g \in Pools, s \in Sessions : FireUnbind(g, s)
  \/ Registry

Spec == Init /\ [][Next]_vars

\* Goroutines that are running keep running, timers and the wheel go off in
\* the end, and the reaper takes what the wheel hands it.
LeaseIDs == [sess : SessionIDs, inst : Instances, seq : 1 .. MaxSeq]
Fairness ==
  /\ \A t \in Handlers : WF_vars(Proceed(t))
  /\ \A a \in LeaseIDs : WF_vars(WheelFire(a))
  /\ WF_vars(ReapDelete)
  /\ \A g \in Pools, s \in Sessions : WF_vars(FireUnbind(g, s))

FairSpec == Spec /\ Fairness

-----------------------------------------------------------------------------
\* The state is well-formed.  A sessionBinding, a slot and the wheel never count
\* below zero: a unit is only taken from where there is one.
TypeOK ==
  /\ pool \in [Pools -> PoolState]
  /\ created \in 0 .. MaxPools /\ curPool \in 0 .. created
  /\ deleting \in [pc : {"idle", "stop", "purge"}, pool : 0 .. created, keys : SUBSET Sessions]
  /\ DOMAIN allocations \subseteq Lease
  /\ \A a \in DOMAIN allocations : allocations[a] \in Pools
  /\ DOMAIN wheel \subseteq Lease
  /\ \A a \in DOMAIN wheel : wheel[a] \in 1 .. Shots
  /\ ready \in Seq(Lease)
  /\ record \in [Sessions -> Instances \cup {NoInstance, Stale}]
  /\ issued \subseteq Lease
  /\ h \in [Handlers -> [pc : {"idle", "dispatch", "wait", "deltask", "return", "timer",
                               "refresh", "update", "drop", "forget"},
                         sess : Sessions \cup {NoSession}, conc : Concurrencies \cup {0},
                         pool : 0 .. created, lease : Lease \cup {NoLease}]]

\* A session is bound only to an instance its pool has: removing an instance
\* takes its bindings along, so tryLocalStickyLocked never meets a dangling one.
BindingOnLiveInstance ==
  \A g \in Pools, s \in Sessions : Bound(pool[g], s) => pool[g].sess[s].inst \in pool[g].inst

\* A lease in the allocation map is on an instance of the pool that granted
\* it: no client is told that a lease lives on an instance the pool has lost.
LeaseOnLiveInstance ==
  \A a \in DOMAIN allocations : a.inst \in pool[allocations[a]].inst

Held(b) == b.reserved + b.active
BoundTo(p, i) == {s \in Sessions : Bound(p, s) /\ p.sess[s].inst = i}
SumHeld(p, i) == SumFunctionOnSet([s \in BoundTo(p, i) |-> Held(p.sess[s])], BoundTo(p, i))

\* The leases of session s, and the handlers that have taken one of them out of
\* the allocation map and not yet given its unit back.
LeasesOf(s) == {a \in DOMAIN allocations : a.sess = s}
Returning(s) == {t \in Handlers : h[t].pc \in {"deltask", "return"} /\ h[t].lease.sess = s}

\* InUse of an instance covers what the bindings hold there, whatever events,
\* polls, recoveries and pool deletions interleave, as long as every request
\* has a session: the sentinel branch of processInstanceInUse ("accounting
\* broken: inUse < held") is never taken.
InUseCoversHeld ==
  \A g \in Pools, i \in Instances : pool[g].inUse[i] >= SumHeld(pool[g], i)

\* activeAllocs of a binding counts exactly the session's leases, plus the
\* units on their way back; a session without a binding has neither.
ActiveMatchesLeases ==
  curPool # NoPool =>
    \A s \in Sessions :
      Cardinality(LeasesOf(s)) + Cardinality(Returning(s)) =
        IF Bound(pool[curPool], s) THEN pool[curPool].sess[s].active ELSE 0

\* InUse of an instance is exactly what its bindings hold and what requests
\* without a session have taken: no unit leaks and none is returned twice.
InUseExact ==
  curPool # NoPool =>
    \A i \in Instances :
      pool[curPool].inUse[i] =
        SumHeld(pool[curPool], i)
        + Cardinality({a \in LeasesOf(NoSession) : a.inst = i})
        + Cardinality({t \in Returning(NoSession) : h[t].lease.inst = i})

\* No instance is oversold: neither its leases nor what is accounted as in use
\* exceed its capacity.
CapacityRespected ==
  \A g \in Pools, i \in Instances :
    /\ pool[g].inUse[i] <= Capacity
    /\ Cardinality({a \in DOMAIN allocations : allocations[a] = g /\ a.inst = i}) <= Capacity

\* All leases of a session are on the one instance it is bound to.
SessionAffinity ==
  curPool # NoPool =>
    \A a \in DOMAIN allocations :
      Bound(pool[curPool], a.sess) => a.inst = pool[curPool].sess[a.sess].inst

\* A binding is expiring exactly while none of its units is handed out, and then
\* its timer is ticking or a handler is on its way to start it: the reservation
\* of an idle session always has someone who will give it back.
IdleBindingHasTimer ==
  \A g \in Pools, s \in Sessions : Bound(pool[g], s) =>
    LET b == pool[g].sess[s] IN
      /\ b.expiring <=> b.active = 0
      /\ b.expiring => \/ b.timer = "ticking"
                       \/ \E t \in Handlers : h[t].pc = "timer" /\ h[t].pool = g /\ h[t].sess = s

\* The store operations for a session amount to its binding: bound to i, the
\* record ends up naming i; unbound, there is none to recover from.  Only while
\* the latest operation was dropped by a full queue may the store say otherwise;
\* the next one that is accepted sets it right.
StoreFollowsBinding ==
  curPool # NoPool =>
    \A s \in Sessions : record[s] # Stale => record[s] = pool[curPool].sess[s].inst

\* Only a session without leases loses its binding on an instance that stays in
\* the registered pool.
UnbindOnlyIdle ==
  [][\A s \in Sessions :
       /\ curPool # NoPool /\ curPool' = curPool
       /\ Bound(pool[curPool], s) /\ ~Bound(pool'[curPool], s)
       /\ pool[curPool].sess[s].inst \in pool'[curPool].inst
       => LeasesOf(s) = {}]_vars

\* A session none of whose units is handed out is used again or unbound in the end.
IdleSessionUnbinds ==
  \A g \in Pools, s \in Sessions :
    (Bound(pool[g], s) /\ pool[g].sess[s].active = 0)
      ~> (~Bound(pool[g], s) \/ pool[g].sess[s].active > 0)

\* A lease nobody retains leaves the allocation map in the end.
LeaseExpires ==
  \A a \in LeaseIDs : (a \in DOMAIN allocations) ~> (a \notin DOMAIN allocations)
=============================================================================
