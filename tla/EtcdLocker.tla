----------------------------- MODULE EtcdLocker -----------------------------
(***************************************************************************)
(* Registration of FaaS schedulers by contention                           *)
(* (src/go/pkg/common/faas_common/etcd3/lock.go,                           *)
(*  src/go/pkg/functionscaler/selfregister/selfregister.go) and the view   *)
(* every scheduler builds of the ring from the same keys                   *)
(* (src/go/pkg/functionscaler/registry/faasschedulerregistry.go).          *)
(*                                                                         *)
(* The control plane puts one key per scheduler slot.  A scheduler locks a *)
(* slot with a holder key "<slot>/<lease>" bound to a lease, publishes its *)
(* instance spec as the slot's value, and keeps the lease alive; the       *)
(* registry of every scheduler adds a slot to the hash ring when it has    *)
(* seen a holder key and a spec.                                           *)
(*                                                                         *)
(* Every etcd request is a step of its own, may fail before or after it    *)
(* took effect, and leases expire; those faults, crashes, stops and the    *)
(* control plane's deletions are drawn from one budget.  The registry      *)
(* handles each watch event in the step that wrote the key: its state      *)
(* depends on the order of the events alone, never on when they arrive.    *)
(***************************************************************************)
EXTENDS Naturals, FiniteSets

CONSTANTS
    Nodes,              \* schedulers
    Keys,               \* slots put by the control plane
    maxContendTime,     \* rounds of contendInstanceInEtcd (300 in the code)
    lockFailCountLimit, \* relock failures before FailCallback (10 in the code)
    MaxFaults           \* bound: faults, crashes, stops and slot deletions

None == "none"
NoLease == 0

ASSUME ConstantsAssumption ==
    /\ maxContendTime \in Nat \ {0}
    /\ lockFailCountLimit \in Nat
    /\ MaxFaults \in Nat
    /\ None \notin Nodes \cup Keys

VARIABLES
    \* etcd
    rev,        \* the store's revision
    origin,     \* slot -> its create revision, 0 when the key does not exist
    value,      \* slot -> scheduler whose spec is published, None for ""
    holders,    \* holder keys: [key, lease, rev]
    alive,      \* leases that are neither expired nor revoked
    nextLease,  \* lease IDs are never used twice
    \* one EtcdLocker per scheduler, and the state of its goroutine
    pc,         \* the request or wait the scheduler is at
    keeper,     \* lockKeeperLoop has been started
    leaseID, holderKey, LockedKey, failCount,
    tries,      \* contend rounds used
    todo,       \* slots listed by TryLockWithPrefix and not tried yet
    err,        \* error of the tryLock in progress: None, "lost" or "other"
    Registered, \* RegisterKey of a registered scheduler, None otherwise
    \* the registry's view (moduleScheduler and GlobalSchedulerProxy)
    leaseIds, insInfos, ring,
    removed,    \* slots the control plane has deleted at some time
    faults      \* budget left

etcd   == <<rev, origin, value, holders, alive, nextLease, removed>>
locker == <<pc, keeper, leaseID, holderKey, LockedKey, failCount, tries, todo,
            err, Registered>>
view   == <<leaseIds, insInfos, ring>>
vars   == <<etcd, locker, view, faults>>

Waits == {"contend", "next", "grant", "txn", "publish", "revoke", "delete", "idle",
          "sleep", "refresh", "unlock", "exists", "clear", "failed", "down"}

TypeOK ==
    /\ rev \in Nat /\ nextLease \in Nat \ {0} /\ faults \in Nat
    /\ origin \in [Keys -> Nat] /\ value \in [Keys -> Nodes \cup {None}]
    /\ holders \subseteq [key : Keys, lease : Nat, rev : Nat]
    /\ alive \subseteq Nat /\ removed \subseteq Keys
    /\ pc \in [Nodes -> Waits] /\ keeper \in [Nodes -> BOOLEAN]
    /\ leaseID \in [Nodes -> Nat] /\ holderKey \in [Nodes -> Nat]
    /\ LockedKey \in [Nodes -> Keys \cup {None}]
    /\ failCount \in [Nodes -> 0..lockFailCountLimit]
    /\ tries \in [Nodes -> 0..maxContendTime]
    /\ todo \in [Nodes -> SUBSET Keys]
    /\ err \in [Nodes -> {None, "lost", "other"}]
    /\ Registered \in [Nodes -> Keys \cup {None}]
    /\ leaseIds \in [Keys -> SUBSET Nat]
    /\ insInfos \in [Keys -> Nodes \cup {None}]
    /\ ring \in [Keys -> Nodes \cup {None}]

Init ==
    /\ rev = 1 /\ nextLease = 1 /\ alive = {} /\ holders = {} /\ removed = {}
    /\ origin = [k \in Keys |-> 1] /\ value = [k \in Keys |-> None]
    /\ pc = [n \in Nodes |-> "contend"] /\ keeper = [n \in Nodes |-> FALSE]
    /\ leaseID = [n \in Nodes |-> NoLease] /\ holderKey = [n \in Nodes |-> NoLease]
    /\ LockedKey = [n \in Nodes |-> None] /\ failCount = [n \in Nodes |-> 0]
    /\ tries = [n \in Nodes |-> 0] /\ todo = [n \in Nodes |-> {}]
    /\ err = [n \in Nodes |-> None] /\ Registered = [n \in Nodes |-> None]
    /\ leaseIds = [k \in Keys |-> {}] /\ insInfos = [k \in Keys |-> None]
    /\ ring = [k \in Keys |-> None]
    /\ faults = MaxFaults

Goto(n, p) == pc' = [pc EXCEPT ![n] = p]
Fault == faults > 0 /\ faults' = faults - 1
NoFault == UNCHANGED faults

-----------------------------------------------------------------------------
(* The registry's handlers, run on the event each etcd write produces.     *)

\* addLeaseBare and the Add at the end of handleModuleSchedulerUpdate
LeasePutEvent(k, l) ==
    /\ leaseIds' = [leaseIds EXCEPT ![k] = @ \cup {l}]
    /\ ring' = [ring EXCEPT ![k] = IF insInfos[k] # None THEN insInfos[k] ELSE @]
    /\ UNCHANGED insInfos

\* a value that does not parse (the "" of UnlockCallback) is ignored
SpecPutEvent(k, v) ==
    /\ insInfos' = [insInfos EXCEPT ![k] = IF v # None THEN v ELSE @]
    /\ ring' = [ring EXCEPT ![k] = IF v # None /\ leaseIds[k] # {} THEN v ELSE @]
    /\ UNCHANGED leaseIds

\* handleModuleSchedulerRemove leaves the ring alone unless exactly one lease
\* is known when the event comes, whichever key the event is about
RingAfterRemove_AnyLease(k) ==
    [ring EXCEPT ![k] = IF insInfos[k] # None THEN None ELSE @]

RingAfterRemove(k) ==
    [ring EXCEPT ![k] = IF Cardinality(leaseIds[k]) = 1 /\ insInfos[k] # None THEN None ELSE @]

LeaseDelEvent(k, l) ==
    /\ ring' = RingAfterRemove(k)
    /\ leaseIds' = [leaseIds EXCEPT ![k] = @ \ {l}]
    /\ UNCHANGED insInfos

SpecDelEvent(k) ==
    /\ ring' = RingAfterRemove(k)
    /\ insInfos' = [insInfos EXCEPT ![k] = None]
    /\ UNCHANGED leaseIds

-----------------------------------------------------------------------------
(* etcd requests.                                                          *)

\* a lease ends: its holder key goes with it
EndLease(l) ==
    /\ alive' = alive \ {l}
    /\ holders' = {h \in holders : h.lease # l}
    /\ IF \E h \in holders : h.lease = l
       THEN LET h == CHOOSE h \in holders : h.lease = l IN LeaseDelEvent(h.key, l)
       ELSE UNCHANGED view
    /\ UNCHANGED <<rev, origin, value, nextLease, removed>>

DeleteHolder(l) ==
    /\ holders' = {h \in holders : h.lease # l}
    /\ IF \E h \in holders : h.lease = l
       THEN LET h == CHOOSE h \in holders : h.lease = l IN LeaseDelEvent(h.key, l)
       ELSE UNCHANGED view
    /\ UNCHANGED <<rev, origin, value, alive, nextLease, removed>>

\* a put on a slot that was deleted meanwhile creates it again
PutSlot(k, v) ==
    /\ rev' = rev + 1
    /\ origin' = [origin EXCEPT ![k] = IF @ = 0 THEN rev + 1 ELSE @]
    /\ value' = [value EXCEPT ![k] = v]
    /\ SpecPutEvent(k, v)
    /\ UNCHANGED <<holders, alive, nextLease, removed>>

PutHolder(k, l) ==
    /\ rev' = rev + 1
    /\ holders' = holders \cup {[key |-> k, lease |-> l, rev |-> rev + 1]}
    /\ LeasePutEvent(k, l)
    /\ UNCHANGED <<origin, value, alive, nextLease, removed>>

\* getKeyHolder sorts the slot's keys by create revision: the slot must come
\* first, and the holder key just put directly after it
LockedByOther_LimitThree(k) == Cardinality({h \in holders : h.key = k}) > 1

SlotMissing(k) == origin[k] = 0 \/ \E h \in holders : h.key = k /\ h.rev < origin[k]
LockedByOther(k) == \E h \in holders : h.key = k

-----------------------------------------------------------------------------
(* contendInstanceInEtcd and TryLockWithPrefix.                            *)

ListSlots(n) ==
    /\ pc[n] = "contend"
    /\ \/ /\ tries[n] < maxContendTime
          /\ tries' = [tries EXCEPT ![n] = @ + 1]
          /\ \/ /\ todo' = [todo EXCEPT ![n] = {k \in Keys : origin[k] # 0}]
                /\ Goto(n, "next") /\ NoFault
             \/ Fault /\ UNCHANGED <<todo, pc>>     \* Get fails: wait and retry
       \/ /\ tries[n] = maxContendTime
          /\ Goto(n, "failed") /\ NoFault /\ UNCHANGED <<tries, todo>>
    /\ UNCHANGED <<etcd, view, keeper, leaseID, holderKey, LockedKey, failCount,
                   err, Registered>>

\* the loop over the listed slots: the key being tried is kept in LockedKey,
\* which only a successful tryLock sets in the code; nobody reads it earlier
NextSlot(n) ==
    /\ pc[n] = "next"
    /\ \/ \E k \in todo[n] :
            /\ todo' = [todo EXCEPT ![n] = @ \ {k}]
            /\ LockedKey' = [LockedKey EXCEPT ![n] = k]
            /\ Goto(n, "grant")
       \/ todo[n] = {} /\ Goto(n, "contend") /\ UNCHANGED <<todo, LockedKey>>
    /\ UNCHANGED <<etcd, view, faults, keeper, leaseID, holderKey, failCount, tries,
                   err, Registered>>

-----------------------------------------------------------------------------
(* tryLock, run by the contending goroutine or by the keeper.              *)

LockFailed_NoCallback(n, e) ==
    /\ UNCHANGED Registered
    /\ IF ~keeper[n] THEN Goto(n, "next") /\ UNCHANGED failCount
       ELSE IF e # "lost" THEN Goto(n, "idle") /\ failCount' = [failCount EXCEPT ![n] = 0]
       ELSE IF failCount[n] >= lockFailCountLimit THEN Goto(n, "failed") /\ UNCHANGED failCount
       ELSE Goto(n, "idle") /\ failCount' = [failCount EXCEPT ![n] = @ + 1]

LockFailed_OneMore(n, e) ==
    IF ~keeper[n] THEN Goto(n, "next") /\ UNCHANGED <<failCount, Registered>>
    ELSE IF e # "lost"
    THEN Goto(n, "idle") /\ failCount' = [failCount EXCEPT ![n] = 0] /\ UNCHANGED Registered
    ELSE IF failCount[n] > lockFailCountLimit
    THEN Goto(n, "failed") /\ UNCHANGED failCount /\ Registered' = [Registered EXCEPT ![n] = None]
    ELSE Goto(n, "idle") /\ UNCHANGED Registered /\ failCount' = [failCount EXCEPT ![n] = @ + 1]

\* where a tryLock that failed with error e returns to
LockFailed(n, e) ==
    IF ~keeper[n]
    THEN Goto(n, "next") /\ UNCHANGED <<failCount, Registered>>
    ELSE IF e # "lost"
    THEN Goto(n, "idle") /\ failCount' = [failCount EXCEPT ![n] = 0] /\ UNCHANGED Registered
    ELSE IF failCount[n] >= lockFailCountLimit
    THEN \* FailCallback is unsetInstanceRegister
         /\ Goto(n, "failed") /\ UNCHANGED failCount
         /\ Registered' = [Registered EXCEPT ![n] = None]
    ELSE /\ Goto(n, "idle") /\ UNCHANGED Registered
         /\ failCount' = [failCount EXCEPT ![n] = @ + 1]

Grant(n) ==
    /\ pc[n] = "grant"
    /\ \/ /\ leaseID' = [leaseID EXCEPT ![n] = nextLease]
          /\ holderKey' = [holderKey EXCEPT ![n] = nextLease]
          /\ alive' = alive \cup {nextLease}
          /\ nextLease' = nextLease + 1
          /\ Goto(n, "txn") /\ NoFault
          /\ UNCHANGED <<rev, origin, value, holders, removed, failCount, Registered>>
       \/ /\ Fault
          /\ LockFailed(n, "other")
          /\ UNCHANGED <<etcd, leaseID, holderKey>>
    /\ UNCHANGED <<view, keeper, LockedKey, tries, todo, err>>

\* The comparison always succeeds, for a lease is used for one tryLock only.
\* The transaction fails on a lease that is gone; a client error may hide that
\* it was committed.
Txn(n) ==
    /\ pc[n] = "txn"
    /\ LET k == LockedKey[n]
           l == leaseID[n] IN
       \/ /\ l \in alive
          /\ PutHolder(k, l)
          /\ \/ /\ ~SlotMissing(k) /\ ~LockedByOther(k)
                /\ Goto(n, "publish") /\ NoFault /\ UNCHANGED err
             \/ /\ SlotMissing(k) \/ LockedByOther(k)
                /\ err' = [err EXCEPT ![n] = "lost"]
                /\ Goto(n, "revoke") /\ NoFault
             \/ /\ Fault
                /\ err' = [err EXCEPT ![n] = "other"]
                /\ Goto(n, "revoke")
       \/ /\ \/ l \notin alive /\ NoFault
             \/ Fault
          /\ err' = [err EXCEPT ![n] = "other"]
          /\ Goto(n, "revoke")
          /\ UNCHANGED <<etcd, view>>
    /\ UNCHANGED <<keeper, leaseID, holderKey, LockedKey, failCount, tries, todo,
                   Registered>>

\* LockCallback, putInsSpecForInstanceKey: a spec that is not known yet or a
\* failed put (which may have reached the store) gives the lock up again
Publish(n) ==
    /\ pc[n] = "publish"
    /\ \/ /\ PutSlot(LockedKey[n], n)
          /\ \/ /\ Goto(n, "idle") /\ NoFault
                /\ keeper' = [keeper EXCEPT ![n] = TRUE]
                /\ failCount' = [failCount EXCEPT ![n] = 0]
                \* processLockedInstanceKey runs long before the first tick
                /\ Registered' = [Registered EXCEPT ![n] =
                                    IF keeper[n] THEN @ ELSE LockedKey[n]]
                /\ UNCHANGED err
             \/ /\ Fault
                /\ err' = [err EXCEPT ![n] = "other"]
                /\ Goto(n, "revoke") /\ UNCHANGED <<keeper, failCount, Registered>>
       \/ /\ Fault
          /\ err' = [err EXCEPT ![n] = "other"]
          /\ Goto(n, "revoke")
          /\ UNCHANGED <<etcd, view, keeper, failCount, Registered>>
    /\ UNCHANGED <<leaseID, holderKey, LockedKey, tries, todo>>

\* the deferred cleanup: both errors are only logged
Revoke(n) ==
    /\ pc[n] = "revoke"
    /\ \/ EndLease(leaseID[n]) /\ NoFault
       \/ Fault /\ UNCHANGED <<etcd, view>>
    /\ leaseID' = [leaseID EXCEPT ![n] = NoLease]
    /\ Goto(n, "delete")
    /\ UNCHANGED <<keeper, holderKey, LockedKey, failCount, tries, todo, err, Registered>>

Delete(n) ==
    /\ pc[n] = "delete"
    /\ \/ DeleteHolder(holderKey[n]) /\ NoFault
       \/ Fault /\ UNCHANGED <<etcd, view>>
    /\ LockFailed(n, err[n])
    /\ err' = [err EXCEPT ![n] = None]
    /\ UNCHANGED <<keeper, leaseID, holderKey, LockedKey, tries, todo>>

-----------------------------------------------------------------------------
(* lockKeeperLoop.                                                         *)

\* The tick of a scheduler without a lease sleeps a whole TTL first: by then
\* the lease it gave up is gone at the server.
TickRelock(n) ==
    /\ pc[n] = "idle" /\ leaseID[n] = NoLease
    /\ holderKey[n] \notin alive
    /\ Goto(n, "grant")
    /\ UNCHANGED <<etcd, view, faults, keeper, leaseID, holderKey, LockedKey, failCount,
                   tries, todo, err, Registered>>

TickGet(n) ==
    /\ pc[n] = "idle" /\ leaseID[n] # NoLease
    /\ \/ Fault /\ leaseID' = [leaseID EXCEPT ![n] = NoLease] /\ UNCHANGED pc
       \/ /\ NoFault /\ UNCHANGED leaseID
          /\ Goto(n, IF origin[LockedKey[n]] = 0 THEN "unlock" ELSE "refresh")
    /\ UNCHANGED <<etcd, view, keeper, holderKey, LockedKey, failCount, tries, todo,
                   err, Registered>>

KeepAlive(n) ==
    /\ pc[n] = "refresh"
    /\ \/ leaseID[n] \in alive /\ NoFault /\ UNCHANGED leaseID
       \/ /\ (leaseID[n] \notin alive /\ NoFault) \/ Fault
          /\ leaseID' = [leaseID EXCEPT ![n] = NoLease]
    /\ Goto(n, "idle")
    /\ UNCHANGED <<etcd, view, keeper, holderKey, LockedKey, failCount, tries, todo,
                   err, Registered>>

Stop(n) ==
    /\ pc[n] = "idle" /\ Fault
    /\ Goto(n, "unlock")
    /\ UNCHANGED <<etcd, view, keeper, leaseID, holderKey, LockedKey, failCount, tries,
                   todo, err, Registered>>

\* Unlock: the holder key goes first, the published spec two requests later
UnlockDelete(n) ==
    /\ pc[n] = "unlock"
    /\ \/ DeleteHolder(holderKey[n]) /\ NoFault
       \/ Fault /\ UNCHANGED <<etcd, view>>
    /\ Goto(n, "exists")
    /\ UNCHANGED <<keeper, leaseID, holderKey, LockedKey, failCount, tries, todo, err,
                   Registered>>

\* delInsSpecForInstanceKey returns early when the slot is gone or unreadable
UnlockExists(n) ==
    /\ pc[n] = "exists"
    /\ \/ origin[LockedKey[n]] # 0 /\ NoFault /\ Goto(n, "clear")
          /\ UNCHANGED <<leaseID, holderKey, LockedKey, Registered>>
       \/ /\ (origin[LockedKey[n]] = 0 /\ NoFault) \/ Fault
          /\ Goto(n, "failed")
          /\ leaseID' = [leaseID EXCEPT ![n] = NoLease]
          /\ holderKey' = [holderKey EXCEPT ![n] = NoLease]
          /\ LockedKey' = [LockedKey EXCEPT ![n] = None]
          /\ Registered' = [Registered EXCEPT ![n] = None]  \* FailCallback or the exit
    /\ UNCHANGED <<etcd, view, keeper, failCount, tries, todo, err>>

UnlockClear(n) ==
    /\ pc[n] = "clear"
    /\ \/ PutSlot(LockedKey[n], None) /\ NoFault
       \/ Fault /\ UNCHANGED <<etcd, view>>
    /\ Goto(n, "failed")
    /\ leaseID' = [leaseID EXCEPT ![n] = NoLease]
    /\ holderKey' = [holderKey EXCEPT ![n] = NoLease]
    /\ LockedKey' = [LockedKey EXCEPT ![n] = None]
    /\ Registered' = [Registered EXCEPT ![n] = None]
    /\ UNCHANGED <<keeper, failCount, tries, todo, err>>

-----------------------------------------------------------------------------
(* The environment.                                                        *)

\* a lease somebody keeps alive expires only through a fault
Expire(l) ==
    /\ l \in alive
    /\ IF \E n \in Nodes : leaseID[n] = l THEN Fault ELSE NoFault
    /\ EndLease(l)
    /\ UNCHANGED locker

Crash(n) ==
    /\ pc[n] # "down" /\ Fault
    /\ Goto(n, "down")
    /\ keeper' = [keeper EXCEPT ![n] = FALSE]
    /\ leaseID' = [leaseID EXCEPT ![n] = NoLease]
    /\ holderKey' = [holderKey EXCEPT ![n] = NoLease]
    /\ LockedKey' = [LockedKey EXCEPT ![n] = None]
    /\ failCount' = [failCount EXCEPT ![n] = 0]
    /\ tries' = [tries EXCEPT ![n] = 0]
    /\ todo' = [todo EXCEPT ![n] = {}]
    /\ err' = [err EXCEPT ![n] = None]
    /\ Registered' = [Registered EXCEPT ![n] = None]
    /\ UNCHANGED <<etcd, view>>

Restart(n) ==
    /\ pc[n] = "down"
    /\ Goto(n, "contend")
    /\ UNCHANGED <<etcd, view, faults, keeper, leaseID, holderKey, LockedKey, failCount,
                   tries, todo, err, Registered>>

ControlPlaneDelete(k) ==
    /\ origin[k] # 0 /\ Fault
    /\ origin' = [origin EXCEPT ![k] = 0]
    /\ value' = [value EXCEPT ![k] = None]
    /\ removed' = removed \cup {k}
    /\ SpecDelEvent(k)
    /\ UNCHANGED <<rev, holders, alive, nextLease, locker>>

LockStep(n) == \/ ListSlots(n) \/ NextSlot(n) \/ Grant(n) \/ Txn(n) \/ Publish(n)
               \/ Revoke(n) \/ Delete(n)
KeeperStep(n) == \/ TickRelock(n) \/ TickGet(n) \/ KeepAlive(n)
                 \/ UnlockDelete(n) \/ UnlockExists(n) \/ UnlockClear(n)

Next ==
    \/ \E n \in Nodes : LockStep(n) \/ KeeperStep(n) \/ Stop(n) \/ Crash(n) \/ Restart(n)
    \/ \E l \in alive : Expire(l)
    \/ \E k \in Keys : ControlPlaneDelete(k)

Spec == Init /\ [][Next]_vars

\* Goroutines run, requests are answered (with an error at worst), tickers tick,
\* and a lease that no scheduler has any more ends.  Nothing else is assumed: a
\* lease in use need not end, and there need be no restart or further deletion.
Fairness ==
    /\ \A n \in Nodes : WF_vars(LockStep(n)) /\ WF_vars(KeeperStep(n))
    /\ WF_vars(\E l \in alive \ {leaseID[n] : n \in Nodes} : Expire(l))

FairSpec == Spec /\ Fairness

-----------------------------------------------------------------------------
(* Properties.                                                             *)

\* a scheduler that is past the transaction, has not begun to unlock and
\* whose lease still runs
Holds(n, k) ==
    /\ pc[n] \in {"publish", "idle", "refresh"}
    /\ LockedKey[n] = k
    /\ leaseID[n] \in alive

\* The inductive invariant behind OneHolder: a holder key lives no longer than
\* its lease, revisions and leases tell holder keys apart, no scheduler uses or
\* deletes another's lease, and the holder's key is the oldest of its slot.
HolderKeys ==
    \A h \in holders :
        /\ h.lease \in alive /\ h.rev <= rev
        /\ \A g \in holders : g.lease = h.lease \/ g.rev = h.rev => g = h
OwnLeases ==
    /\ \A l \in alive : NoLease < l /\ l < nextLease
    /\ \A n \in Nodes :
        /\ leaseID[n] < nextLease /\ holderKey[n] < nextLease
        /\ leaseID[n] # NoLease => /\ holderKey[n] = leaseID[n]
                                  /\ \A m \in Nodes \ {n} : holderKey[m] # leaseID[n]
        /\ pc[n] \in {"txn", "publish", "refresh"} => leaseID[n] # NoLease
        /\ pc[n] \in {"grant", "txn", "publish", "revoke", "delete", "idle", "refresh",
                      "unlock", "exists", "clear"} => LockedKey[n] \in Keys
        /\ pc[n] = "grant" => leaseID[n] = NoLease
        /\ pc[n] \in {"next", "contend", "delete", "down"} => leaseID[n] = NoLease
        /\ pc[n] = "txn" => \A h \in holders : h.lease # leaseID[n]
OldestKey ==
    \A n \in Nodes : Holds(n, LockedKey[n]) =>
        \E h \in holders : /\ h.lease = leaseID[n] /\ h.key = LockedKey[n]
                           /\ \A g \in holders : g.key = h.key => h.rev <= g.rev
LockInv == TypeOK /\ HolderKeys /\ OwnLeases /\ OldestKey

\* At most one scheduler holds a slot, whatever requests fail, leases expire,
\* schedulers crash or slots are deleted and put again (tryLock, Unlock).
OneHolder ==
    \A k \in Keys : \A m, n \in Nodes : Holds(m, k) /\ Holds(n, k) => m = n

\* A slot that is never deleted is in the hash ring exactly when a holder key
\* exists for it and some scheduler's spec has been published; the order in
\* which holder keys of the old holder, the new one and losing contenders come
\* and go does not matter (handleModuleSchedulerUpdate and ...Remove).
RingFollowsHolders ==
    \A k \in Keys \ removed :
        ring[k] # None <=> insInfos[k] # None /\ \E h \in holders : h.key = k

\* A scheduler whose slot was taken over does not stay registered: it finds out
\* through its keeper, fails to lock again, and unregisters, or gets the slot
\* back (lockKeeperLoop's failure count and FailCallback).
Displaced(n) ==
    \E k \in Keys, m \in Nodes \ {n} : Registered[n] = k /\ Holds(m, k) /\ pc[m] # "publish"
DisplacedUnregisters ==
    \A n \in Nodes : Displaced(n) ~> ~Displaced(n)

\* The registry's comment on registration by contention: the value of a slot
\* "may be empty if no scheduler locks this key".  A scheduler that has locked
\* the slot and published its spec finds it there as long as it holds the lock.
HeldSlotHasValue ==
    \A k \in Keys : \A n \in Nodes :
        Holds(n, k) /\ pc[n] # "publish" /\ k \notin removed => value[k] # None
=============================================================================
