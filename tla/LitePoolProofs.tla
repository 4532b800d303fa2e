--------------------------- MODULE LitePoolProofs ---------------------------
(***************************************************************************)
(* Theorems about LitePool for every number of instances, sessions,        *)
(* requests and pools and every capacity.                                  *)
(*                                                                         *)
(* 1. Types and live instances, for every combination of the switches.     *)
(*    The operations on one pool come first: each keeps PoolOK, the part of *)
(*    the invariant that concerns a single pool.  The actions then only have *)
(*    to show that they put such a pool in its place and that no lease loses *)
(*    its instance.                                                        *)
(* 2. InUse covers what the bindings hold (functions without a session     *)
(*    context), and the store follows the bindings (one pool).             *)
(* 3. The accounts of a steady pool: one that is not deleted, loses no     *)
(*    instance and lets no request poll for a slot.  Every step is of one of *)
(*    eight kinds (NextKind), and each kind keeps the counts of leases and *)
(*    units.                                                               *)
(* 4. The timers of idle sessions, and the capacity of the slots, in any   *)
(*    pool; with the accounts of 3, the capacity bounds the leases.        *)
(* The switches left out are those under which the code does not keep the  *)
(* property (README, Proofs).                                              *)
(***************************************************************************)
EXTENDS LitePool, FiniteSums, TLAPS

\* The part of the invariant that concerns one pool.
PoolOK(p) ==
  /\ p \in PoolState
  /\ \A s \in Sessions : p.sess[s] # NoBinding => p.sess[s].inst \in p.inst

LEMMA NoBindingIsNoBinding == NoBinding \notin Binding
  BY LitePoolAssumption DEF NoBinding, Binding

LEMMA BoundBinding ==
  ASSUME NEW p, PoolOK(p), NEW s, Bound(p, s)
  PROVE  s \in Sessions /\ p.sess[s] \in Binding /\ p.sess[s].inst \in p.inst
                        /\ p.sess[s].inst \in Instances
  BY DEF PoolOK, PoolState, Bound, Binding

LEMMA CancelUnbindOK ==
  ASSUME NEW b \in Binding
  PROVE  CancelUnbind(b) \in Binding /\ CancelUnbind(b).inst = b.inst
  BY DEF CancelUnbind, Binding

\* Moving units between the fields of a binding.
LEMMA SetUnitsOK ==
  ASSUME NEW b \in Binding, NEW m \in Nat, NEW n \in Nat
  PROVE  LET c == [b EXCEPT !.reserved = m, !.active = n]
         IN  c \in Binding /\ c.inst = b.inst /\ c.active = n
  BY DEF Binding

LEMMA UnbindOnReleaseOK ==
  ASSUME NEW b \in Binding
  PROVE  UnbindOnRelease(b) \in Binding /\ UnbindOnRelease(b).inst = b.inst
<1> DEFINE r == IF b.active > 0 THEN [b EXCEPT !.active = @ - 1, !.reserved = @ + 1] ELSE b
<1>1. r \in Binding /\ r.inst = b.inst
  <2>1. b.active \in Nat /\ b.reserved \in Nat
    BY DEF Binding
  <2>2. CASE b.active > 0
    <3>1. b.active - 1 \in Nat /\ b.reserved + 1 \in Nat
      BY <2>1, <2>2
    <3>2. r = [b EXCEPT !.reserved = b.reserved + 1, !.active = b.active - 1]
      BY <2>2 DEF Binding
    <3> HIDE DEF r
    <3> QED BY <3>1, <3>2, SetUnitsOK
  <2> QED BY <2>2
<1>2. UnbindOnRelease(b) = IF r.active > 0 THEN r ELSE [r EXCEPT !.expiring = TRUE]
  BY DEF UnbindOnRelease
<1> HIDE DEF r
<1> QED BY <1>1, <1>2 DEF Binding

\* Replacing one binding by another to the same instance.
LEMMA SetBindingOK ==
  ASSUME NEW p, PoolOK(p), NEW s \in Sessions, NEW b \in Binding, b.inst \in p.inst
  PROVE  /\ PoolOK([p EXCEPT !.sess[s] = b])
         /\ [p EXCEPT !.sess[s] = b].inst = p.inst
  BY DEF PoolOK, PoolState

LEMMA SetInUseOK ==
  ASSUME NEW p, PoolOK(p), NEW i \in Instances, NEW n \in Nat
  PROVE  /\ PoolOK([p EXCEPT !.inUse[i] = n])
         /\ [p EXCEPT !.inUse[i] = n].inst = p.inst
  BY DEF PoolOK, PoolState

LEMMA StickyTakeOK ==
  ASSUME NEW p, PoolOK(p), NEW s, Bound(p, s)
  PROVE  PoolOK(StickyTake(p, s)) /\ StickyTake(p, s).inst = p.inst
<1> DEFINE b == p.sess[s]
<1>1. s \in Sessions /\ b \in Binding /\ b.inst \in p.inst /\ b.inst \in Instances
  BY BoundBinding
<1> HIDE DEF b
<1>2. CASE b.reserved > 0
  <2> DEFINE c == [b EXCEPT !.reserved = @ - 1, !.active = @ + 1]
  <2>1. b.reserved - 1 \in Nat /\ b.active + 1 \in Nat
    BY <1>1, <1>2 DEF Binding
  <2>3. c \in Binding /\ c.inst = b.inst
    BY <1>1, <2>1, SetUnitsOK
  <2>2. StickyTake(p, s) = [p EXCEPT !.sess[s] = c]
    BY <1>1, <1>2 DEF StickyTake, PoolOK, PoolState, Binding, b
  <2> HIDE DEF c
  <2> QED BY <1>1, <2>3, <2>2, SetBindingOK
<1>3. CASE ~(b.reserved > 0)
  <2> DEFINE c == [b EXCEPT !.active = @ + 1]
             q == [p EXCEPT !.sess[s] = c]
  <2>1. c \in Binding /\ c.inst = b.inst
    BY <1>1 DEF Binding
  <2>2. PoolOK(q) /\ q.inst = p.inst
    BY <1>1, <2>1, SetBindingOK
  <2>3. p.inUse[b.inst] + 1 \in Nat
    BY <1>1 DEF PoolOK, PoolState
  <2>4. StickyTake(p, s) = [q EXCEPT !.inUse[b.inst] = p.inUse[b.inst] + 1]
    BY <1>1, <1>3 DEF StickyTake, PoolOK, PoolState, Binding, b
  <2> HIDE DEF c, q
  <2> QED BY <1>1, <2>2, <2>3, <2>4, SetInUseOK
<1> QED BY <1>2, <1>3

LEMMA BindFreshOK ==
  ASSUME NEW p, PoolOK(p), NEW s \in Sessions, NEW i \in p.inst, NEW c \in Concurrencies
  PROVE  PoolOK(BindFresh(p, s, i, c)) /\ BindFresh(p, s, i, c).inst = p.inst
<1> DEFINE b == [inst |-> i, reserved |-> c - 1, active |-> 1, expiring |-> FALSE, timer |-> "none"]
           q == [p EXCEPT !.sess[s] = b]
<1>1. i \in Instances /\ p.inUse[i] \in Nat
  BY DEF PoolOK, PoolState
<1>2. c - 1 \in Nat /\ p.inUse[i] + c \in Nat
  BY <1>1, LitePoolAssumption
<1>3. b \in Binding /\ b.inst = i
  BY <1>1, <1>2 DEF Binding
<1>4. BindFresh(p, s, i, c) = [q EXCEPT !.inUse[i] = p.inUse[i] + c]
  BY <1>1 DEF BindFresh, PoolOK, PoolState
<1> HIDE DEF b
<1>5. PoolOK(q) /\ q.inst = p.inst
  BY <1>3, SetBindingOK
<1> HIDE DEF q
<1> QED BY <1>1, <1>2, <1>4, <1>5, SetInUseOK

LEMMA RemoveBindingOK ==
  ASSUME NEW p, PoolOK(p), NEW s, Bound(p, s)
  PROVE  PoolOK(RemoveBinding(p, s)) /\ RemoveBinding(p, s).inst = p.inst
<1> DEFINE b == p.sess[s]
           n == IF p.inUse[b.inst] >= b.reserved + b.active
                THEN p.inUse[b.inst] - (b.reserved + b.active) ELSE 0
           q == [p EXCEPT !.sess[s] = NoBinding]
<1>1. s \in Sessions /\ b \in Binding /\ b.inst \in Instances
  BY BoundBinding
<1>2. b.reserved \in Nat /\ b.active \in Nat /\ p.inUse[b.inst] \in Nat
  BY <1>1 DEF Binding, PoolOK, PoolState
<1>3. n \in Nat
  BY <1>2
<1>4. PoolOK(q) /\ q.inst = p.inst
  BY <1>1 DEF PoolOK, PoolState
<1>5. RemoveBinding(p, s) = [q EXCEPT !.inUse[b.inst] = n]
  BY <1>1 DEF RemoveBinding, PoolOK, PoolState
<1> HIDE DEF b, n, q
<1> QED BY <1>1, <1>3, <1>4, <1>5, SetInUseOK

LEMMA RemoveInstanceOK ==
  ASSUME NEW p, PoolOK(p), NEW i \in Instances
  PROVE  PoolOK(RemoveInstance(p, i)) /\ RemoveInstance(p, i).inst = p.inst \ {i}
<1> DEFINE f == [s \in Sessions |-> IF p.sess[s].inst = i THEN NoBinding ELSE p.sess[s]]
           q == RemoveInstance(p, i)
<1>1. q = [p EXCEPT !.inst = p.inst \ {i}, !.reclaiming = p.reclaiming \ {i},
                    !.inUse = [p.inUse EXCEPT ![i] = 0], !.sess = f]
  BY DEF RemoveInstance, PoolOK, PoolState
<1>2. f \in [Sessions -> Binding \cup {NoBinding}]
  BY DEF PoolOK, PoolState
<1>3. q \in PoolState /\ q.inst = p.inst \ {i} /\ q.sess = f
  <2> HIDE DEF f, q
  <2> QED BY <1>1, <1>2 DEF PoolOK, PoolState
<1>4. \A s \in Sessions : f[s] # NoBinding => f[s].inst \in p.inst \ {i}
  BY DEF PoolOK
<1> QED BY <1>3, <1>4 DEF PoolOK

LEMMA ReturnUnitOK ==
  ASSUME NEW p, PoolOK(p), NEW a \in Lease
  PROVE  PoolOK(ReturnUnit(p, a)) /\ ReturnUnit(p, a).inst = p.inst
<1>1. CASE Bound(p, a.sess)
  <2> DEFINE b == UnbindOnRelease(p.sess[a.sess])
  <2>1. a.sess \in Sessions /\ b \in Binding /\ b.inst \in p.inst
    BY <1>1, BoundBinding, UnbindOnReleaseOK
  <2>2. ReturnUnit(p, a) = [p EXCEPT !.sess[a.sess] = b]
    BY <1>1 DEF ReturnUnit
  <2> HIDE DEF b
  <2> QED BY <2>1, <2>2, SetBindingOK
<1>2. CASE ~Bound(p, a.sess) /\ a.sess = NoSession /\ a.inst \in p.inst /\ p.inUse[a.inst] > 0
  <2>1. a.inst \in Instances /\ p.inUse[a.inst] - 1 \in Nat
    BY <1>2 DEF PoolOK, PoolState, Lease
  <2>2. ReturnUnit(p, a) = [p EXCEPT !.inUse[a.inst] = p.inUse[a.inst] - 1]
    BY <1>2 DEF ReturnUnit
  <2> QED BY <2>1, <2>2, SetInUseOK
<1>3. CASE ReturnUnit(p, a) = p
  BY <1>3
<1> QED BY <1>1, <1>2, <1>3 DEF ReturnUnit

LEMMA EmptyPoolOK == PoolOK(EmptyPool)
  BY DEF EmptyPool, PoolOK, PoolState

-----------------------------------------------------------------------------
(***************************************************************************)
(* The allocation map and the wheel shrink.                                *)
(***************************************************************************)

LEMMA RestrictFunction ==
  ASSUME NEW f, NEW S
  PROVE  /\ DOMAIN Restrict(f, DOMAIN f \ S) = DOMAIN f \ S
         /\ \A b \in DOMAIN f \ S : Restrict(f, DOMAIN f \ S)[b] = f[b]
  BY DEF Restrict

-----------------------------------------------------------------------------
(***************************************************************************)
(* The inductive invariant.  The type invariant and the two properties     *)
(* about instances need each other (a lease's instance is looked up in the *)
(* pool its type gives), and the handlers' local variables are needed to   *)
(* know what a handler resumes with.                                       *)
(***************************************************************************)

PoolsOK == pool \in [Pools -> PoolState] /\ \A g \in Pools : PoolOK(pool[g])

LeasesOK ==
  /\ DOMAIN allocations \subseteq Lease
  /\ \A a \in DOMAIN allocations :
       allocations[a] \in Pools /\ a.inst \in pool[allocations[a]].inst

WheelOK == DOMAIN wheel \subseteq Lease /\ \A a \in DOMAIN wheel : wheel[a] \in 1 .. Shots

RegistryOK ==
  /\ created \in 0 .. MaxPools /\ curPool \in 0 .. created
  /\ deleting \in [pc : {"idle", "stop", "purge"}, pool : 0 .. created, keys : SUBSET Sessions]

RestOK == ready \in Seq(Lease) /\ issued \subseteq Lease /\ record \in [Sessions -> Instances \cup {NoInstance, Stale}]

HandlerState ==
  [pc : {"idle", "dispatch", "wait", "deltask", "return", "timer",
         "refresh", "update", "drop", "forget"},
   sess : Sessions \cup {NoSession}, conc : Concurrencies \cup {0},
   pool : 0 .. created, lease : Lease \cup {NoLease}]

\* What a handler knows when it resumes.
Resumable(r) ==
  /\ r.pc \in {"dispatch", "wait"} => r.pool # NoPool /\ r.conc \in Concurrencies
  /\ r.pc \in {"deltask", "return", "refresh", "update", "drop", "forget"} => r.lease \in Lease

HandlersOK == h \in [Handlers -> HandlerState] /\ \A t \in Handlers : Resumable(h[t])

IInv == PoolsOK /\ LeasesOK /\ WheelOK /\ RegistryOK /\ RestOK /\ HandlersOK

LEMMA IInvImplies == IInv => TypeOK /\ BindingOnLiveInstance /\ LeaseOnLiveInstance
<1> SUFFICES ASSUME IInv PROVE TypeOK /\ BindingOnLiveInstance /\ LeaseOnLiveInstance
  OBVIOUS
<1>1. TypeOK
  BY DEF IInv, PoolsOK, LeasesOK, WheelOK, RegistryOK, RestOK, HandlersOK, HandlerState, TypeOK
<1>2. BindingOnLiveInstance
  BY DEF IInv, PoolsOK, PoolOK, Bound, BindingOnLiveInstance
<1>3. LeaseOnLiveInstance
  BY DEF IInv, LeasesOK, LeaseOnLiveInstance
<1> QED BY <1>1, <1>2, <1>3

LEMMA InitOK == Init => IInv
<1> SUFFICES ASSUME Init PROVE IInv
  OBVIOUS
<1>1. PoolsOK
  BY EmptyPoolOK DEF Init, PoolsOK, PoolOK
<1>2. LeasesOK /\ WheelOK
  BY DEF Init, LeasesOK, WheelOK
<1>3. RegistryOK /\ RestOK
  BY LitePoolAssumption DEF Init, RegistryOK, RestOK, NoPool
<1>4. HandlersOK
  <2>1. Idle \in HandlerState /\ Resumable(Idle)
    BY LitePoolAssumption DEF Init, Idle, HandlerState, Resumable, NoPool
  <2> QED BY <2>1 DEF Init, HandlersOK
<1> QED BY <1>1, <1>2, <1>3, <1>4 DEF IInv

-----------------------------------------------------------------------------
(***************************************************************************)
(* How a step may change each part of the state and keep IInv.             *)
(***************************************************************************)

\* One pool is replaced by one with the same instances, or more.
LEMMA PoolStep ==
  ASSUME PoolsOK, NEW g \in Pools, NEW p, PoolOK(p), pool[g].inst \subseteq p.inst,
         pool' = [pool EXCEPT ![g] = p]
  PROVE  PoolsOK' /\ \A k \in Pools : pool[k].inst \subseteq pool'[k].inst
<1>1. \A k \in Pools : pool'[k] = IF k = g THEN p ELSE pool[k]
  BY DEF PoolsOK
<1>2. pool' \in [Pools -> PoolState]
  BY DEF PoolsOK, PoolOK
<1>3. \A k \in Pools : PoolOK(pool'[k])
  BY <1>1 DEF PoolsOK
<1> QED BY <1>1, <1>2, <1>3 DEF PoolsOK

\* No lease is added and no pool loses an instance.
LEMMA LeaseStep ==
  ASSUME LeasesOK, \A k \in Pools : pool[k].inst \subseteq pool'[k].inst,
         DOMAIN allocations' \subseteq DOMAIN allocations,
         \A a \in DOMAIN allocations' : allocations'[a] = allocations[a]
  PROVE  LeasesOK'
  BY DEF LeasesOK

\* A lease on an instance of its pool is added.
LEMMA LeaseAdd ==
  ASSUME LeasesOK, \A k \in Pools : pool[k].inst \subseteq pool'[k].inst,
         NEW a \in Lease, NEW g \in Pools, a.inst \in pool[g].inst,
         allocations' = Put(allocations, a, g)
  PROVE  LeasesOK'
<1>1. /\ DOMAIN allocations' = {a} \cup DOMAIN allocations
      /\ allocations'[a] = g
      /\ \A b \in DOMAIN allocations : b # a => allocations'[b] = allocations[b]
  BY DEF Put
<1>2. DOMAIN allocations' \subseteq Lease
  BY <1>1 DEF LeasesOK
<1>3. ASSUME NEW b \in DOMAIN allocations'
      PROVE  allocations'[b] \in Pools /\ b.inst \in pool'[allocations'[b]].inst
  <2>1. CASE b = a
    BY <1>1, <2>1
  <2>2. CASE b # a
    BY <1>1, <2>2 DEF LeasesOK
  <2> QED BY <2>1, <2>2
<1> QED BY <1>2, <1>3 DEF LeasesOK

LEMMA LeaseDrop ==
  ASSUME LeasesOK, UNCHANGED pool, NEW S,
         allocations' = Restrict(allocations, DOMAIN allocations \ S)
  PROVE  LeasesOK'
<1>1. /\ DOMAIN allocations' = DOMAIN allocations \ S
      /\ \A b \in DOMAIN allocations \ S : allocations'[b] = allocations[b]
  BY RestrictFunction
<1> QED BY <1>1 DEF LeasesOK

LEMMA WheelStep ==
  ASSUME WheelOK, NEW a \in Lease, wheel' \in {AddTask(a), UpdateTask(a)}
  PROVE  WheelOK'
<1>1. CASE wheel' = wheel
  BY <1>1 DEF WheelOK
<1>2. CASE wheel' = Put(wheel, a, Shots)
  <2>1. /\ DOMAIN wheel' = {a} \cup DOMAIN wheel
        /\ wheel'[a] = Shots
        /\ \A b \in DOMAIN wheel : b # a => wheel'[b] = wheel[b]
    BY <1>2 DEF Put
  <2>2. Shots \in 1 .. Shots
    BY DEF Shots
  <2> QED BY <2>1, <2>2 DEF WheelOK
<1> QED BY <1>1, <1>2 DEF AddTask, UpdateTask

LEMMA WheelDrop ==
  ASSUME WheelOK, NEW S, wheel' = DelTasks(S)
  PROVE  WheelOK'
<1>1. /\ DOMAIN wheel' = DOMAIN wheel \ S
      /\ \A b \in DOMAIN wheel \ S : wheel'[b] = wheel[b]
  BY RestrictFunction DEF DelTasks
<1> QED BY <1>1 DEF WheelOK

LEMMA RecordStep ==
  ASSUME RestOK, NEW p, NEW S, NEW i \in Instances \cup {NoInstance}
  PROVE  SetRecord(p, S, i) \subseteq [Sessions -> Instances \cup {NoInstance, Stale}]
  BY DEF RestOK, SetRecord

LEMMA HandlerStep ==
  ASSUME HandlersOK, UNCHANGED created, NEW t \in Handlers,
         NEW r \in HandlerState, Resumable(r), h' = [h EXCEPT ![t] = r]
  PROVE  HandlersOK'
<1>1. \A u \in Handlers : h'[u] = IF u = t THEN r ELSE h[u]
  BY DEF HandlersOK
<1>2. HandlerState' = HandlerState
  BY DEF HandlerState
<1>3. h' \in [Handlers -> HandlerState]
  BY DEF HandlersOK
<1>4. \A u \in Handlers : Resumable(h'[u])
  BY <1>1 DEF HandlersOK
<1> QED BY <1>2, <1>3, <1>4 DEF HandlersOK, Resumable

LEMMA IdleOK ==
  ASSUME RegistryOK
  PROVE  Idle \in HandlerState /\ Resumable(Idle)
  BY LitePoolAssumption DEF RegistryOK, Idle, HandlerState, Resumable, NoPool

LEMMA HandlerDone ==
  ASSUME HandlersOK, RegistryOK, UNCHANGED created, NEW t \in Handlers, h' = [h EXCEPT ![t] = Idle]
  PROVE  HandlersOK'
  BY IdleOK, HandlerStep

LEMMA CurPoolOK ==
  ASSUME RegistryOK, curPool # NoPool
  PROVE  curPool \in Pools
  BY LitePoolAssumption DEF RegistryOK, Pools, NoPool

LEMMA HandlerFacts ==
  ASSUME HandlersOK, RegistryOK, NEW t \in Handlers
  PROVE  /\ h[t].sess \in Sessions \cup {NoSession}
         /\ h[t].pc \in {"dispatch", "wait"} => h[t].pool \in Pools /\ h[t].conc \in Concurrencies
         /\ h[t].pc \in {"deltask", "return", "refresh", "update", "drop", "forget"} => h[t].lease \in Lease
<1>1. h[t] \in HandlerState /\ Resumable(h[t])
  BY DEF HandlersOK
<1>2. h[t].pool \in 0 .. created /\ created \in 0 .. MaxPools
  BY <1>1 DEF HandlerState, RegistryOK
<1>3. h[t].pool # NoPool => h[t].pool \in Pools
  BY <1>2, LitePoolAssumption DEF NoPool, Pools
<1> QED BY <1>1, <1>3 DEF HandlerState, Resumable

-----------------------------------------------------------------------------
(***************************************************************************)
(* The actions.                                                            *)
(***************************************************************************)

LEMMA AssignInstanceKeeps ==
  ASSUME IInv, NEW t \in Handlers, NEW g \in Pools, NEW p, PoolOK(p), p.inst = pool[g].inst,
         NEW s \in Sessions \cup {NoSession}, NEW i \in p.inst, AssignInstance(t, g, p, s, i),
         record' \in [Sessions -> Instances \cup {NoInstance, Stale}]
  PROVE  IInv'
<1> DEFINE a == [sess |-> s, inst |-> i, seq |-> p.seq + 1]
           q == [p EXCEPT !.seq = @ + 1]
<1>1. i \in Instances /\ p.seq + 1 \in Nat
  BY DEF PoolOK, PoolState
<1>2. a \in Lease /\ a.inst = i
  BY <1>1 DEF Lease
<1>3. PoolOK(q) /\ q.inst = p.inst
  BY DEF PoolOK, PoolState
<1>4. /\ pool' = [pool EXCEPT ![g] = q] /\ allocations' = Put(allocations, a, g)
      /\ wheel' = AddTask(a) /\ issued' \subseteq issued \cup {a}
      /\ h' = [h EXCEPT ![t] = Idle]
      /\ UNCHANGED <<created, curPool, deleting, ready>>
  BY DEF AssignInstance
<1> HIDE DEF a, q
<1>5. PoolsOK' /\ \A k \in Pools : pool[k].inst \subseteq pool'[k].inst
  BY <1>3, <1>4, PoolStep DEF IInv
<1>6. LeasesOK'
  BY <1>2, <1>4, <1>5, LeaseAdd DEF IInv
<1>7. WheelOK'
  BY <1>2, <1>4, WheelStep DEF IInv
<1>8. RegistryOK' /\ RestOK'
  BY <1>2, <1>4 DEF IInv, RegistryOK, RestOK
<1>9. HandlersOK'
  BY <1>4, HandlerDone DEF IInv
<1> QED BY <1>5, <1>6, <1>7, <1>8, <1>9 DEF IInv

LEMMA AssignStickyKeeps ==
  ASSUME IInv, NEW t \in Handlers, NEW g \in Pools, NEW s, Bound(pool[g], s), AssignSticky(t, g, s)
  PROVE  IInv'
<1> DEFINE b == CancelUnbind(pool[g].sess[s])
           p == [pool[g] EXCEPT !.sess[s] = b]
<1>1. PoolOK(pool[g]) /\ s \in Sessions /\ b \in Binding
                      /\ b.inst \in pool[g].inst /\ b.inst \in Instances
  BY BoundBinding, CancelUnbindOK DEF IInv, PoolsOK
<1>2. p.sess[s] = b
  BY <1>1 DEF PoolOK, PoolState
<1>3. /\ AssignInstance(t, g, StickyTake(p, s), s, b.inst)
      /\ UNCHANGED record
  BY <1>2 DEF AssignSticky
<1> HIDE DEF b
<1>4. PoolOK(p) /\ p.inst = pool[g].inst
  BY <1>1, SetBindingOK
<1>5. Bound(p, s)
  BY <1>1, <1>2, NoBindingIsNoBinding DEF Bound
<1> HIDE DEF p
<1>6. PoolOK(StickyTake(p, s)) /\ StickyTake(p, s).inst = pool[g].inst
  BY <1>4, <1>5, StickyTakeOK
<1>7. record' \in [Sessions -> Instances \cup {NoInstance, Stale}]
  BY <1>3 DEF IInv, RestOK
<1> QED BY <1>1, <1>3, <1>6, <1>7, AssignInstanceKeeps

LEMMA AssignFreshKeeps ==
  ASSUME IInv, NEW t \in Handlers, NEW g \in Pools, NEW s \in Sessions \cup {NoSession},
         NEW i \in pool[g].inst, NEW c \in Concurrencies, AssignFresh(t, g, s, i, c)
  PROVE  IInv'
<1>1. PoolOK(pool[g]) /\ i \in Instances /\ RestOK
  BY DEF IInv, PoolsOK, PoolOK, PoolState
<1>2. CASE s \in Sessions
  <2> DEFINE p == BindFresh(pool[g], s, i, c)
  <2>1. AssignInstance(t, g, p, s, i) /\ record' \in SetRecord(pool[g], {s}, i)
    BY <1>2 DEF AssignFresh
  <2>2. PoolOK(p) /\ p.inst = pool[g].inst
    BY <1>1, <1>2, BindFreshOK
  <2>3. record' \in [Sessions -> Instances \cup {NoInstance, Stale}]
    BY <1>1, <2>1, RecordStep
  <2> HIDE DEF p
  <2> QED BY <2>1, <2>2, <2>3, AssignInstanceKeeps
<1>3. CASE s \notin Sessions
  <2> DEFINE p == [pool[g] EXCEPT !.inUse[i] = @ + 1]
  <2>1. AssignInstance(t, g, p, s, i) /\ UNCHANGED record
    BY <1>3 DEF AssignFresh
  <2>2. pool[g].inUse[i] + 1 \in Nat
    BY <1>1 DEF PoolOK, PoolState
  <2>3. PoolOK(p) /\ p.inst = pool[g].inst
    BY <1>1, <2>2, SetInUseOK
  <2>4. record' \in [Sessions -> Instances \cup {NoInstance, Stale}]
    BY <1>1, <2>1 DEF RestOK
  <2> HIDE DEF p
  <2> QED BY <2>1, <2>3, <2>4, AssignInstanceKeeps
<1> QED BY <1>2, <1>3

\* The steps of handleAcquire that assign an instance.
LEMMA AcquireKeeps ==
  ASSUME IInv, NEW t \in Handlers,
         \/ \E s \in SessionIDs : AcquireSticky(t, s)
         \/ DispatchSticky(t) \/ DispatchAssign(t) \/ PollAssign(t)
  PROVE  IInv'
<1>0. /\ h[t].sess \in Sessions \cup {NoSession}
      /\ h[t].pc \in {"dispatch", "wait"} => h[t].pool \in Pools /\ h[t].conc \in Concurrencies
  BY HandlerFacts DEF IInv
<1>1. ASSUME NEW s \in SessionIDs, AcquireSticky(t, s)
      PROVE  IInv'
  BY <1>1, CurPoolOK, AssignStickyKeeps DEF IInv, AcquireSticky, StickyHit
<1>2. CASE DispatchSticky(t)
  BY <1>0, <1>2, AssignStickyKeeps DEF DispatchSticky, StickyHit
<1>3. CASE DispatchAssign(t)
  <2>1. h[t].pool \in Pools /\ h[t].conc \in Concurrencies
    BY <1>0, <1>3 DEF DispatchAssign
  <2>2. PICK i \in pool[h[t].pool].inst : AssignFresh(t, h[t].pool, h[t].sess, i, h[t].conc)
    BY <1>3 DEF DispatchAssign, Recoverable, Candidates
  <2> QED BY <1>0, <2>1, <2>2, AssignFreshKeeps
<1>4. CASE PollAssign(t)
  <2>1. h[t].pool \in Pools /\ h[t].conc \in Concurrencies
    BY <1>0, <1>4 DEF PollAssign
  <2>2. PICK i \in pool[h[t].pool].inst : AssignFresh(t, h[t].pool, h[t].sess, i, h[t].conc)
    BY <1>4 DEF PollAssign, Candidates
  <2> QED BY <1>0, <2>1, <2>2, AssignFreshKeeps
<1> QED BY <1>1, <1>2, <1>3, <1>4

\* The steps that only move a handler, and the store record of its session.
LEMMA HandlerKeeps ==
  ASSUME IInv, NEW t \in Handlers,
         \/ \E s \in SessionIDs, c \in Concurrencies : AcquireMiss(t, s, c)
         \/ DispatchReject(t) \/ ColdStart(t) \/ PollTimeout(t)
         \/ \E a \in DOMAIN allocations : RetainLookup(t, a)
  PROVE  IInv'
<1> USE DEF IInv
<1>1. UNCHANGED <<pool, created, curPool, deleting, allocations, wheel, ready, issued>>
  BY DEF AcquireMiss, DispatchReject, ColdStart, PollTimeout, RetainLookup
<1>2. PoolsOK' /\ LeasesOK' /\ WheelOK' /\ RegistryOK'
  BY <1>1 DEF PoolsOK, LeasesOK, WheelOK, RegistryOK
<1>3. RestOK'
  <2>1. CASE UNCHANGED record
    BY <1>1, <2>1 DEF RestOK
  <2>2. CASE ColdStart(t)
    <3>1. \/ UNCHANGED record
          \/ record' \in SetRecord(pool[h[t].pool], {h[t].sess}, NoInstance)
      BY <2>2 DEF ColdStart
    <3> QED BY <1>1, <2>1, <3>1, RecordStep DEF RestOK
  <2> QED BY <2>1, <2>2 DEF AcquireMiss, DispatchReject, PollTimeout, RetainLookup
<1>4. HandlersOK'
  <2>1. ASSUME NEW s \in SessionIDs, NEW c \in Concurrencies, AcquireMiss(t, s, c)
        PROVE  HandlersOK'
    <3> DEFINE r == [Idle EXCEPT !.pc = "dispatch", !.sess = s, !.conc = c, !.pool = curPool]
    <3>1. h' = [h EXCEPT ![t] = r] /\ curPool # NoPool
      BY <2>1 DEF AcquireMiss
    <3>2. r \in HandlerState /\ Resumable(r)
      BY <3>1, IdleOK DEF Idle, HandlerState, Resumable, SessionIDs, RegistryOK
    <3> HIDE DEF r
    <3> QED BY <1>1, <3>1, <3>2, HandlerStep
  <2>2. CASE h' = [h EXCEPT ![t] = Idle]
    BY <1>1, <2>2, HandlerDone
  <2>3. CASE ColdStart(t) /\ h' = [h EXCEPT ![t].pc = "wait"]
    <3> DEFINE r == [h[t] EXCEPT !.pc = "wait"]
    <3>1. h[t] \in HandlerState /\ Resumable(h[t]) /\ h[t].pc = "dispatch"
      BY <2>3 DEF HandlersOK, ColdStart
    <3>2. r \in HandlerState /\ Resumable(r) /\ h' = [h EXCEPT ![t] = r]
      BY <2>3, <3>1 DEF HandlerState, Resumable
    <3> HIDE DEF r
    <3> QED BY <1>1, <3>2, HandlerStep
  <2>4. ASSUME NEW a \in DOMAIN allocations, RetainLookup(t, a)
        PROVE  HandlersOK'
    <3>1. PICK pc \in {"refresh", "drop"} :
            h' = [h EXCEPT ![t] = [Idle EXCEPT !.pc = pc, !.lease = a]]
      BY <2>4 DEF RetainLookup
    <3> DEFINE r == [Idle EXCEPT !.pc = pc, !.lease = a]
    <3>2. r \in HandlerState /\ Resumable(r)
      BY IdleOK DEF Idle, HandlerState, Resumable, LeasesOK
    <3> HIDE DEF r
    <3> QED BY <1>1, <3>1, <3>2, HandlerStep DEF r
  <2> QED BY <2>1, <2>2, <2>3, <2>4 DEF DispatchReject, ColdStart, PollTimeout
<1> QED BY <1>2, <1>3, <1>4

\* The steps that take leases out of the map or touch their tasks.
LEMMA LeaseEndKeeps ==
  ASSUME IInv, NEW t \in Handlers,
         \/ \E a \in DOMAIN allocations : ReleaseDelete(t, a)
         \/ ReleaseDelTask(t) \/ RetainRefresh(t) \/ RetainUpdate(t) \/ RetainDrop(t) \/ RetainForget(t)
  PROVE  IInv'
<1> USE DEF IInv
<1>1. UNCHANGED <<pool, created, curPool, deleting, ready, record, issued>>
  BY DEF ReleaseDelete, ReleaseDelTask, RetainRefresh, RetainUpdate, RetainDrop, RetainForget
<1>2. PoolsOK' /\ RegistryOK' /\ RestOK'
  BY <1>1 DEF PoolsOK, RegistryOK, RestOK
<1>3. h[t].pc \in {"deltask", "return", "refresh", "update", "drop", "forget"} => h[t].lease \in Lease
  BY HandlerFacts
<1>4. ASSUME NEW a \in DOMAIN allocations, ReleaseDelete(t, a)
      PROVE  LeasesOK' /\ WheelOK' /\ HandlersOK'
  <2> DEFINE r == [Idle EXCEPT !.pc = "deltask", !.lease = a]
  <2>1. LeasesOK' /\ WheelOK'
    BY <1>1, <1>4, LeaseDrop DEF ReleaseDelete, WheelOK
  <2>2. r \in HandlerState /\ Resumable(r)
    BY IdleOK DEF Idle, HandlerState, Resumable, LeasesOK
  <2>3. h' = [h EXCEPT ![t] = r]
    BY <1>4 DEF ReleaseDelete
  <2> HIDE DEF r
  <2> QED BY <1>1, <2>1, <2>2, <2>3, HandlerStep
<1>5. CASE ReleaseDelTask(t)
  <2> DEFINE r == [h[t] EXCEPT !.pc = "return"]
  <2>1. LeasesOK' /\ WheelOK'
    BY <1>1, <1>5, WheelDrop DEF ReleaseDelTask, LeasesOK
  <2>2. h[t] \in HandlerState /\ Resumable(h[t]) /\ h[t].pc = "deltask"
    BY <1>5 DEF HandlersOK, ReleaseDelTask
  <2>3. r \in HandlerState /\ Resumable(r) /\ h' = [h EXCEPT ![t] = r]
    BY <1>5, <2>2 DEF HandlerState, Resumable, ReleaseDelTask
  <2> HIDE DEF r
  <2> QED BY <1>1, <1>2, <2>1, <2>3, HandlerStep
<1>6. CASE RetainRefresh(t)
  <2> DEFINE r == [h[t] EXCEPT !.pc = "update"]
  <2>1. LeasesOK' /\ WheelOK'
    BY <1>1, <1>6 DEF RetainRefresh, LeasesOK, WheelOK
  <2>2. h[t] \in HandlerState /\ Resumable(h[t]) /\ h[t].pc = "refresh"
    BY <1>6 DEF HandlersOK, RetainRefresh
  <2>3. r \in HandlerState /\ Resumable(r)
    BY <2>2 DEF HandlerState, Resumable
  <2>4. h' = [h EXCEPT ![t] = r] \/ h' = [h EXCEPT ![t] = Idle]
    BY <1>6 DEF RetainRefresh
  <2> HIDE DEF r
  <2> QED BY <1>1, <1>2, <2>1, <2>3, <2>4, HandlerStep, HandlerDone
<1>7. CASE RetainUpdate(t)
  <2>1. LeasesOK'
    BY <1>1, <1>7 DEF RetainUpdate, LeasesOK
  <2>2. WheelOK'
    BY <1>3, <1>7, WheelStep DEF RetainUpdate
  <2> QED BY <1>1, <1>2, <1>7, <2>1, <2>2, HandlerDone DEF RetainUpdate
<1>8. CASE RetainDrop(t)
  <2> DEFINE r == [h[t] EXCEPT !.pc = "forget"]
  <2>1. LeasesOK' /\ WheelOK'
    BY <1>1, <1>8, LeaseDrop DEF RetainDrop, WheelOK
  <2>2. h[t] \in HandlerState /\ Resumable(h[t]) /\ h[t].pc = "drop"
    BY <1>8 DEF HandlersOK, RetainDrop
  <2>3. r \in HandlerState /\ Resumable(r) /\ h' = [h EXCEPT ![t] = r]
    BY <1>8, <2>2 DEF HandlerState, Resumable, RetainDrop
  <2> HIDE DEF r
  <2> QED BY <1>1, <1>2, <2>1, <2>3, HandlerStep
<1>9. CASE RetainForget(t)
  <2>1. LeasesOK' /\ WheelOK'
    BY <1>1, <1>9, WheelDrop DEF RetainForget, LeasesOK
  <2> QED BY <1>1, <1>2, <1>9, <2>1, HandlerDone DEF RetainForget
<1> QED BY <1>2, <1>4, <1>5, <1>6, <1>7, <1>8, <1>9

LEMMA ReapDeleteKeeps == ASSUME IInv, ReapDelete PROVE IInv'
<1> USE DEF IInv
<1>1. UNCHANGED <<pool, created, curPool, deleting, wheel, record, issued>>
  BY DEF ReapDelete
<1>2. PoolsOK' /\ WheelOK' /\ RegistryOK'
  BY <1>1 DEF PoolsOK, WheelOK, RegistryOK
<1>3. Head(ready) \in Lease /\ Tail(ready) \in Seq(Lease)
  BY DEF ReapDelete, RestOK
<1>4. RestOK'
  BY <1>1, <1>3 DEF ReapDelete, RestOK
<1> DEFINE a == Head(ready)
<1>5. ASSUME a \in DOMAIN allocations PROVE LeasesOK' /\ HandlersOK'
  <2> DEFINE r == [Idle EXCEPT !.pc = "return", !.lease = a]
  <2>1. r \in HandlerState /\ Resumable(r)
    BY <1>3, IdleOK DEF Idle, HandlerState, Resumable
  <2>2. /\ h' = [h EXCEPT ![Reaper] = r] /\ Reaper \in Handlers
        /\ allocations' = Restrict(allocations, DOMAIN allocations \ {a})
    BY <1>5 DEF ReapDelete, Handlers
  <2> HIDE DEF r, a
  <2>3. LeasesOK'
    BY <1>1, <2>2, LeaseDrop
  <2>4. HandlersOK'
    BY <1>1, <2>1, <2>2, HandlerStep
  <2> QED BY <2>3, <2>4
<1>6. ASSUME a \notin DOMAIN allocations PROVE LeasesOK' /\ HandlersOK'
  <2>1. UNCHANGED <<allocations, h>>
    BY <1>6 DEF ReapDelete
  <2> QED BY <1>1, <2>1 DEF LeasesOK, HandlersOK, HandlerState
<1> HIDE DEF a
<1> QED BY <1>2, <1>4, <1>5, <1>6

LEMMA WheelFireKeeps == ASSUME IInv, NEW a \in DOMAIN wheel, WheelFire(a) PROVE IInv'
<1> USE DEF IInv
<1>1. UNCHANGED <<pool, created, curPool, deleting, allocations, record, issued, h>>
  BY DEF WheelFire
<1>2. PoolsOK' /\ LeasesOK' /\ RegistryOK' /\ HandlersOK'
  BY <1>1 DEF PoolsOK, LeasesOK, RegistryOK, HandlersOK, HandlerState
<1>3. a \in Lease /\ wheel[a] \in 1 .. Shots
  BY DEF WheelOK
<1>4. RestOK'
  BY <1>1, <1>3 DEF WheelFire, RestOK
<1>5. WheelOK'
  <2>1. CASE wheel[a] = 1
    BY <2>1, WheelDrop DEF WheelFire
  <2>2. CASE wheel[a] # 1
    <3>1. wheel' = [wheel EXCEPT ![a] = wheel[a] - 1]
      BY <2>2 DEF WheelFire
    <3>2. wheel[a] - 1 \in 1 .. Shots
      BY <1>3, <2>2 DEF Shots
    <3> QED BY <3>1, <3>2 DEF WheelOK
  <2> QED BY <2>1, <2>2
<1> QED BY <1>2, <1>4, <1>5

\* The steps that return a unit, start an unbind timer, or unbind a session.
LEMMA ReturnKeeps == ASSUME IInv, NEW t \in Handlers, Return(t) PROVE IInv'
<1> USE DEF IInv
<1> DEFINE a == h[t].lease
           p == pool[curPool]
<1>1. UNCHANGED <<created, curPool, deleting, allocations, wheel, ready, record, issued>>
  BY DEF Return
<1>2. WheelOK' /\ RegistryOK' /\ RestOK'
  BY <1>1 DEF WheelOK, RegistryOK, RestOK
<1>3. a \in Lease
  BY HandlerFacts DEF Return
<1>4. ASSUME UNCHANGED pool, h' = [h EXCEPT ![t] = Idle]
      PROVE  PoolsOK' /\ LeasesOK' /\ HandlersOK'
  BY <1>1, <1>4, HandlerDone DEF PoolsOK, LeasesOK
<1>5. ASSUME curPool # NoPool, pool' = [pool EXCEPT ![curPool] = ReturnUnit(p, a)],
             h' = [h EXCEPT ![t] = IF Bound(p, a.sess) /\ NeedTimer(p.sess[a.sess])
                                   THEN [Idle EXCEPT !.pc = "timer", !.sess = a.sess, !.pool = curPool]
                                   ELSE Idle]
      PROVE  PoolsOK' /\ LeasesOK' /\ HandlersOK'
  <2>1. curPool \in Pools /\ PoolOK(p)
    BY <1>5, CurPoolOK DEF PoolsOK
  <2>2. PoolsOK' /\ \A k \in Pools : pool[k].inst \subseteq pool'[k].inst
    <3>1. PoolOK(ReturnUnit(p, a)) /\ ReturnUnit(p, a).inst = p.inst
      BY <1>3, <2>1, ReturnUnitOK
    <3> QED BY <1>5, <2>1, <3>1, PoolStep
  <2>3. LeasesOK'
    BY <1>1, <2>2, LeaseStep
  <2>4. HandlersOK'
    <3>1. CASE h' = [h EXCEPT ![t] = Idle]
      BY <1>1, <3>1, HandlerDone
    <3> DEFINE r == [Idle EXCEPT !.pc = "timer", !.sess = a.sess, !.pool = curPool]
    <3>2. CASE h' = [h EXCEPT ![t] = r]
      <4>1. r \in HandlerState /\ Resumable(r)
        BY <1>3, IdleOK DEF Idle, HandlerState, Resumable, Lease, RegistryOK
      <4> HIDE DEF r
      <4> QED BY <1>1, <3>2, <4>1, HandlerStep
    <3> QED BY <1>5, <3>1, <3>2
  <2> QED BY <2>2, <2>3, <2>4
<1> QED BY <1>2, <1>4, <1>5 DEF Return

LEMMA StartTimerKeeps == ASSUME IInv, NEW t \in Handlers, StartTimer(t) PROVE IInv'
<1> USE DEF IInv
<1> DEFINE g == h[t].pool
           s == h[t].sess
<1>1. UNCHANGED <<created, curPool, deleting, allocations, wheel, ready, record, issued>>
  BY DEF StartTimer
<1>2. WheelOK' /\ RegistryOK' /\ RestOK' /\ HandlersOK'
  BY <1>1, HandlerDone DEF WheelOK, RegistryOK, RestOK, StartTimer
<1>3. PoolsOK' /\ \A k \in Pools : pool[k].inst \subseteq pool'[k].inst
  <2>1. CASE UNCHANGED pool
    BY <2>1 DEF PoolsOK
  <2>2. CASE ~UNCHANGED pool
    <3>1. PICK timer \in {"ticking", "dead"} : pool' = [pool EXCEPT ![g].sess[s].timer = timer]
      BY <2>2 DEF StartTimer
    <3>2. Bound(pool[g], s)
      BY <2>2 DEF StartTimer
    <3>3. g \in Pools
      BY <2>2, <3>1 DEF PoolsOK
    <3> DEFINE b == [pool[g].sess[s] EXCEPT !.timer = timer]
               p == [pool[g] EXCEPT !.sess[s] = b]
    <3>4. PoolOK(pool[g]) /\ s \in Sessions /\ b \in Binding /\ b.inst \in pool[g].inst
      BY <3>2, <3>3, BoundBinding DEF PoolsOK, Binding
    <3>5. pool' = [pool EXCEPT ![g] = p]
      BY <3>1, <3>3, <3>4 DEF PoolsOK, PoolState
    <3> HIDE DEF b
    <3>6. PoolOK(p) /\ p.inst = pool[g].inst
      BY <3>4, SetBindingOK
    <3> HIDE DEF p
    <3> QED BY <3>3, <3>5, <3>6, PoolStep
  <2> QED BY <2>1, <2>2
<1>4. LeasesOK'
  BY <1>1, <1>3, LeaseStep
<1> QED BY <1>2, <1>3, <1>4

LEMMA FireUnbindKeeps ==
  ASSUME IInv, NEW g \in Pools, NEW s \in Sessions, FireUnbind(g, s)
  PROVE  IInv'
<1> USE DEF IInv
<1>1. UNCHANGED <<created, curPool, deleting, allocations, wheel, ready, issued, h>>
  BY DEF FireUnbind
<1>2. WheelOK' /\ RegistryOK' /\ HandlersOK'
  BY <1>1 DEF WheelOK, RegistryOK, HandlersOK, HandlerState
<1>3. RestOK'
  <2>1. record' \in {record} \cup SetRecord(pool[g], {s}, NoInstance)
    BY DEF FireUnbind
  <2> QED BY <1>1, <2>1, RecordStep DEF RestOK
<1>4. Bound(pool[g], s) /\ PoolOK(pool[g])
  BY DEF FireUnbind, PoolsOK
<1>5. PoolsOK' /\ \A k \in Pools : pool[k].inst \subseteq pool'[k].inst
  <2>1. CASE pool' = [pool EXCEPT ![g] = RemoveBinding(pool[g], s)]
    BY <1>4, <2>1, RemoveBindingOK, PoolStep
  <2>2. CASE pool' = [pool EXCEPT ![g].sess[s].timer = "dead"]
    <3> DEFINE b == [pool[g].sess[s] EXCEPT !.timer = "dead"]
               p == [pool[g] EXCEPT !.sess[s] = b]
    <3>1. b \in Binding /\ b.inst \in pool[g].inst
      BY <1>4, BoundBinding DEF Binding
    <3>2. pool' = [pool EXCEPT ![g] = p]
      BY <2>2 DEF PoolsOK, PoolState
    <3> HIDE DEF b
    <3>3. PoolOK(p) /\ p.inst = pool[g].inst
      BY <1>4, <3>1, SetBindingOK
    <3> HIDE DEF p
    <3> QED BY <3>2, <3>3, PoolStep
  <2> QED BY <2>1, <2>2 DEF FireUnbind
<1>6. LeasesOK'
  BY <1>1, <1>5, LeaseStep
<1> QED BY <1>2, <1>3, <1>5, <1>6

LEMMA ReacquireKeeps ==
  ASSUME IInv, NEW t \in Handlers, NEW a \in issued, NEW c \in Concurrencies,
         ReacquireAllocation(t, a, c)
  PROVE  IInv'
<1> USE DEF IInv
<1> DEFINE p == pool[curPool]
           q == IF Bound(p, a.sess) THEN StickyTake(p, a.sess) ELSE BindFresh(p, a.sess, a.inst, c)
           r == [Idle EXCEPT !.pc = "update", !.lease = a]
<1>1. UNCHANGED <<created, curPool, deleting, wheel, ready, issued>> /\ h' = [h EXCEPT ![t] = r]
  BY DEF ReacquireAllocation
<1>2. RegistryOK' /\ HandlersOK'
  <2>1. r \in HandlerState /\ Resumable(r)
    BY IdleOK DEF RestOK, Idle, HandlerState, Resumable
  <2> HIDE DEF r
  <2> QED BY <1>1, <2>1, HandlerStep DEF RegistryOK
<1>3. /\ a \in Lease /\ a.sess \in Sessions /\ a.inst \in Instances /\ a.inst \in p.inst
      /\ curPool \in Pools /\ PoolOK(p)
  BY CurPoolOK DEF ReacquireAllocation, RestOK, PoolsOK, Lease
<1>4. WheelOK'
  BY <1>1 DEF WheelOK
<1>5. RestOK'
  <2>1. record' \in {record} \cup SetRecord(p, {a.sess}, a.inst)
    BY DEF ReacquireAllocation
  <2> QED BY <1>1, <1>3, <2>1, RecordStep DEF RestOK
<1>6. CASE UNCHANGED <<pool, allocations>>
  BY <1>2, <1>4, <1>5, <1>6 DEF PoolsOK, LeasesOK
<1>7. CASE allocations' = Put(allocations, a, curPool) /\ pool' = [pool EXCEPT ![curPool] = q]
  <2>1. PoolOK(q) /\ q.inst = p.inst
    <3>1. CASE Bound(p, a.sess)
      BY <1>3, <3>1, StickyTakeOK
    <3>2. CASE ~Bound(p, a.sess)
      BY <1>3, <3>2, BindFreshOK
    <3> QED BY <3>1, <3>2
  <2> HIDE DEF q
  <2>2. PoolsOK' /\ \A k \in Pools : pool[k].inst \subseteq pool'[k].inst
    BY <1>3, <1>7, <2>1, PoolStep
  <2>3. LeasesOK'
    BY <1>3, <1>7, <2>2, LeaseAdd
  <2> QED BY <1>2, <1>4, <1>5, <2>2, <2>3
<1> QED BY <1>6, <1>7 DEF ReacquireAllocation

LEMMA FunctionEventKeeps ==
  ASSUME IInv, UpsertPool \/ DeletePool \/ DeleteRecords \/ DeleteAllocations
  PROVE  IInv'
<1> USE DEF IInv
<1>1. CASE UpsertPool
  <2>1. /\ created' \in 0 .. MaxPools /\ curPool' \in 0 .. created'
        /\ 0 .. created \subseteq 0 .. created'
    BY <1>1, LitePoolAssumption DEF UpsertPool, RegistryOK
  <2>2. UNCHANGED <<pool, deleting, allocations, wheel, ready, record, issued, h>>
    BY <1>1 DEF UpsertPool
  <2>3. PoolsOK' /\ LeasesOK' /\ WheelOK' /\ RestOK'
    BY <2>2 DEF PoolsOK, LeasesOK, WheelOK, RestOK
  <2>4. RegistryOK'
    BY <2>1, <2>2 DEF RegistryOK
  <2>5. HandlersOK'
    <3>1. HandlerState \subseteq HandlerState'
      BY <2>1 DEF HandlerState
    <3> QED BY <2>2, <3>1 DEF HandlersOK, Resumable
  <2> QED BY <2>3, <2>4, <2>5
<1>2. CASE DeletePool
  <2> DEFINE p == [pool[curPool] EXCEPT !.sess = [s \in Sessions |-> NoBinding]]
  <2>1. curPool \in Pools
    BY <1>2, CurPoolOK DEF DeletePool
  <2>2. PoolOK(p) /\ p.inst = pool[curPool].inst
    BY <2>1 DEF PoolsOK, PoolOK, PoolState
  <2>3. pool' = [pool EXCEPT ![curPool] = p]
    BY <1>2 DEF DeletePool
  <2> HIDE DEF p
  <2>4. PoolsOK' /\ \A k \in Pools : pool[k].inst \subseteq pool'[k].inst
    BY <2>1, <2>2, <2>3, PoolStep
  <2>5. LeasesOK'
    BY <1>2, <2>4, LeaseStep DEF DeletePool
  <2>6. WheelOK' /\ RestOK' /\ HandlersOK'
    BY <1>2 DEF DeletePool, WheelOK, RestOK, HandlersOK, HandlerState
  <2>7. RegistryOK'
    BY <1>2 DEF DeletePool, RegistryOK, NoPool
  <2> QED BY <2>4, <2>5, <2>6, <2>7
<1>3. CASE DeleteRecords
  <2> DEFINE g == deleting.pool
             p == [pool[g] EXCEPT !.stopped = TRUE]
  <2>1. pool' = [pool EXCEPT ![g] = p]
    BY <1>3 DEF DeleteRecords
  <2>2. PoolsOK' /\ \A k \in Pools : pool[k].inst \subseteq pool'[k].inst
    <3>1. CASE g \in Pools
      <4>1. PoolOK(p) /\ p.inst = pool[g].inst
        BY <3>1 DEF PoolsOK, PoolOK, PoolState
      <4> HIDE DEF p, g
      <4> QED BY <2>1, <3>1, <4>1, PoolStep
    <3>2. CASE g \notin Pools
      BY <2>1, <3>2 DEF PoolsOK
    <3> QED BY <3>1, <3>2
  <2>3. LeasesOK'
    BY <1>3, <2>2, LeaseStep DEF DeleteRecords
  <2>4. WheelOK' /\ RestOK' /\ HandlersOK'
    BY <1>3 DEF DeleteRecords, WheelOK, RestOK, HandlersOK, HandlerState
  <2>5. RegistryOK'
    BY <1>3 DEF DeleteRecords, RegistryOK
  <2> QED BY <2>2, <2>3, <2>4, <2>5
<1>4. CASE DeleteAllocations
  <2>1. UNCHANGED <<pool, created, curPool, ready, record, issued, h>>
    BY <1>4 DEF DeleteAllocations
  <2>2. PoolsOK' /\ RestOK' /\ HandlersOK'
    BY <2>1 DEF PoolsOK, RestOK, HandlersOK, HandlerState
  <2>3. LeasesOK'
    BY <1>4 DEF DeleteAllocations, LeasesOK
  <2>4. WheelOK'
    BY <1>4, WheelDrop DEF DeleteAllocations
  <2>5. RegistryOK'
    BY <1>4 DEF DeleteAllocations, RegistryOK, NoPool
  <2> QED BY <2>2, <2>3, <2>4, <2>5
<1> QED BY <1>1, <1>2, <1>3, <1>4

LEMMA InstanceDeleteKeeps ==
  ASSUME IInv, NEW i \in Instances, InstanceDelete(i)
  PROVE  IInv'
<1> USE DEF IInv
<1> DEFINE p == pool[curPool]
           q == RemoveInstance(p, i)
           gone == {a \in DOMAIN allocations : a.inst = i}
<1>1. UNCHANGED <<created, curPool, deleting, ready, issued, h>>
  BY DEF InstanceDelete
<1>2. RegistryOK' /\ HandlersOK'
  BY <1>1 DEF RegistryOK, HandlersOK, HandlerState
<1>3. RestOK'
  BY <1>1, RecordStep DEF InstanceDelete, RestOK
<1>4. WheelOK'
  BY WheelDrop DEF InstanceDelete
<1>5. curPool \in Pools /\ PoolOK(p)
  BY CurPoolOK DEF InstanceDelete, PoolsOK
<1>6. PoolOK(q) /\ q.inst = p.inst \ {i}
  BY <1>5, RemoveInstanceOK
<1>7. pool' = [pool EXCEPT ![curPool] = q]
  BY DEF InstanceDelete
<1> HIDE DEF q
<1>8. \A k \in Pools : pool'[k] = IF k = curPool THEN q ELSE pool[k]
  BY <1>5, <1>7 DEF PoolsOK
<1>9. PoolsOK'
  BY <1>5, <1>6, <1>7, <1>8 DEF PoolsOK, PoolOK
<1>10. LeasesOK'
  <2>1. /\ DOMAIN allocations' = DOMAIN allocations \ gone
        /\ \A a \in DOMAIN allocations \ gone : allocations'[a] = allocations[a]
    BY RestrictFunction DEF InstanceDelete
  <2>2. \A k \in Pools : pool[k].inst \ {i} \subseteq pool'[k].inst
    BY <1>6, <1>8
  <2> QED BY <2>1, <2>2 DEF LeasesOK
<1> QED BY <1>2, <1>3, <1>4, <1>9, <1>10

LEMMA InstanceEventKeeps ==
  ASSUME IInv, NEW i \in Instances, InstanceUpdate(i) \/ IdleReport(i) \/ IdleReset(i)
  PROVE  IInv'
<1> USE DEF IInv
<1> DEFINE p == pool[curPool]
<1>1. UNCHANGED <<created, curPool, deleting, allocations, wheel, ready, record, issued, h>>
  BY DEF InstanceUpdate, IdleReport, IdleReset
<1>2. WheelOK' /\ RegistryOK' /\ RestOK' /\ HandlersOK'
  BY <1>1 DEF WheelOK, RegistryOK, RestOK, HandlersOK, HandlerState
<1>3. curPool \in Pools /\ PoolOK(p)
  BY CurPoolOK DEF InstanceUpdate, IdleReport, IdleReset, PoolsOK
<1>4. PICK q : PoolOK(q) /\ p.inst \subseteq q.inst /\ pool' = [pool EXCEPT ![curPool] = q]
  <2>1. CASE InstanceUpdate(i)
    <3> DEFINE q == [p EXCEPT !.inst = @ \cup {i}, !.inUse[i] = 0]
    <3>1. pool' = [pool EXCEPT ![curPool] = q]
      BY <1>3, <2>1 DEF InstanceUpdate, PoolsOK, PoolState
    <3>2. PoolOK(q) /\ p.inst \subseteq q.inst
      BY <1>3 DEF PoolOK, PoolState
    <3> HIDE DEF q
    <3> QED BY <3>1, <3>2
  <2>2. CASE IdleReport(i)
    <3> DEFINE q == [p EXCEPT !.reclaiming = @ \cup {i}]
    <3>1. pool' = [pool EXCEPT ![curPool] = q]
      BY <2>2 DEF IdleReport
    <3>2. PoolOK(q) /\ p.inst \subseteq q.inst
      BY <1>3 DEF PoolOK, PoolState
    <3> HIDE DEF q
    <3> QED BY <3>1, <3>2
  <2>3. CASE IdleReset(i)
    <3> DEFINE q == [p EXCEPT !.reclaiming = @ \ {i}]
    <3>1. pool' = [pool EXCEPT ![curPool] = q]
      BY <2>3 DEF IdleReset
    <3>2. PoolOK(q) /\ p.inst \subseteq q.inst
      BY <1>3 DEF PoolOK, PoolState
    <3> HIDE DEF q
    <3> QED BY <3>1, <3>2
  <2> QED BY <2>1, <2>2, <2>3
<1>5. PoolsOK' /\ \A k \in Pools : pool[k].inst \subseteq pool'[k].inst
  BY <1>3, <1>4, PoolStep
<1>6. LeasesOK'
  BY <1>1, <1>5, LeaseStep
<1> QED BY <1>2, <1>5, <1>6

-----------------------------------------------------------------------------
(***************************************************************************)
(* The theorems.                                                           *)
(***************************************************************************)

LEMMA NextKeeps == IInv /\ [Next]_vars => IInv'
<1> SUFFICES ASSUME IInv, [Next]_vars PROVE IInv'
  OBVIOUS
<1>0. Requests \subseteq Handlers
  BY DEF Handlers
<1>1. ASSUME NEW t \in Requests, Call(t) PROVE IInv'
  BY <1>0, <1>1, AcquireKeeps, HandlerKeeps, LeaseEndKeeps, ReacquireKeeps DEF Call
<1>2. ASSUME NEW t \in Handlers, Proceed(t) PROVE IInv'
  BY <1>2, AcquireKeeps, HandlerKeeps, LeaseEndKeeps, ReturnKeeps, StartTimerKeeps DEF Proceed
<1>3. CASE Registry
  BY <1>3, FunctionEventKeeps, InstanceDeleteKeeps, InstanceEventKeeps DEF Registry
<1>4. CASE UNCHANGED vars
  BY <1>4 DEF vars, IInv, PoolsOK, LeasesOK, WheelOK, RegistryOK, RestOK, HandlersOK, HandlerState
<1> QED BY <1>1, <1>2, <1>3, <1>4, ReapDeleteKeeps, WheelFireKeeps, FireUnbindKeeps
        DEF Next

\* The inductive invariant holds in every reachable state.
THEOREM Invariance == Spec => []IInv
  BY InitOK, NextKeeps, PTL DEF Spec

\* No counter of a pool goes negative (a reservation, the active count of a
\* binding, InUse of a slot, the shots of an expiry task) and every handler
\* resumes with values of the right kind, whatever interleaves with it.
THEOREM TypeCorrect == Spec => []TypeOK
  BY Invariance, IInvImplies, PTL

\* A binding never outlives its instance's slot: the branch of
\* tryLocalStickyLocked that would silently unbind such a session is dead code.
THEOREM BindingsOnLiveInstances == Spec => []BindingOnLiveInstance
  BY Invariance, IInvImplies, PTL

\* A lease never outlives its instance's slot in the pool that granted it:
\* removeInstanceLocked, deletePool and the late grants of requests that still
\* hold a deleted pool leave no lease on an instance that is gone.
THEOREM LeasesOnLiveInstances == Spec => []LeaseOnLiveInstance
  BY Invariance, IInvImplies, PTL

-----------------------------------------------------------------------------
(***************************************************************************)
(* What the bindings of a pool hold on an instance.                        *)
(***************************************************************************)

\* What session s holds on instance i.
Share(p, s, i) == IF Bound(p, s) /\ p.sess[s].inst = i THEN Held(p.sess[s]) ELSE 0

LEMMA ShareNat ==
  ASSUME NEW p, p \in PoolState, NEW s \in Sessions, NEW i
  PROVE  Share(p, s, i) \in Nat
  BY DEF PoolState, Binding, Share, Bound, Held

LEMMA SumHeldNat ==
  ASSUME NEW p, p \in PoolState, NEW i
  PROVE  /\ IsFiniteSet(BoundTo(p, i))
         /\ \A u \in BoundTo(p, i) : [v \in BoundTo(p, i) |-> Held(p.sess[v])][u] \in Nat
         /\ SumHeld(p, i) \in Nat
<1> DEFINE A == BoundTo(p, i)
           f == [v \in A |-> Held(p.sess[v])]
<1>1. IsFiniteSet(A)
  BY FS_Subset, LitePoolFinite DEF BoundTo
<1>2. \A u \in A : f[u] \in Nat
  BY DEF BoundTo, PoolState, Binding, Bound, Held
<1>3. SumHeld(p, i) \in Nat
  <2>1. A \in SUBSET A
    OBVIOUS
  <2>2. SumFunctionOnSet(f, A) \in Nat
    <3> HIDE DEF f, A
    <3> QED BY <1>1, <1>2, <2>1, SumNat
  <2> QED BY <2>2 DEF SumHeld
<1> QED BY <1>1, <1>2, <1>3

LEMMA SumHeldIsShares ==
  ASSUME NEW p, p \in PoolState, NEW i, NEW s \in Sessions
  PROVE  /\ IsFiniteSet(BoundTo(p, i))
         /\ \A u \in BoundTo(p, i) : [v \in BoundTo(p, i) |-> Held(p.sess[v])][u] \in Nat
         /\ SumHeld(p, i) \in Nat
         /\ Part([v \in BoundTo(p, i) |-> Held(p.sess[v])], BoundTo(p, i), s) = Share(p, s, i)
<1> DEFINE A == BoundTo(p, i)
           f == [v \in A |-> Held(p.sess[v])]
<1>1. Part(f, A, s) = Share(p, s, i)
  BY DEF Part, Share, BoundTo
<1> QED BY <1>1, SumHeldNat

\* A pool in which only the binding of s differs.
LEMMA SumHeldChange ==
  ASSUME NEW p, p \in PoolState, NEW q, q \in PoolState, NEW s \in Sessions,
         \A u \in Sessions \ {s} : q.sess[u] = p.sess[u], NEW i
  PROVE  SumHeld(q, i) = SumHeld(p, i) - Share(p, s, i) + Share(q, s, i)
<1> DEFINE A == BoundTo(p, i)
           B == BoundTo(q, i)
           f == [v \in A |-> Held(p.sess[v])]
           g == [v \in B |-> Held(q.sess[v])]
<1>1. IsFiniteSet(A) /\ (\A u \in A : f[u] \in Nat) /\ Part(f, A, s) = Share(p, s, i)
  BY SumHeldIsShares
<1>2. IsFiniteSet(B) /\ (\A u \in B : g[u] \in Nat) /\ Part(g, B, s) = Share(q, s, i)
  BY SumHeldIsShares
<1>3. A \ {s} = B \ {s}
  BY DEF BoundTo, Bound
<1>4. \A u \in A \ {s} : f[u] = g[u]
  BY <1>3 DEF BoundTo
<1>5. SumHeld(p, i) = SumFunctionOnSet(f, A) /\ SumHeld(q, i) = SumFunctionOnSet(g, B)
  BY DEF SumHeld
<1> HIDE DEF A, B, f, g
<1>6. (\A u \in A : f[u] \in Int) /\ (\A u \in B : g[u] \in Int)
  BY <1>1, <1>2
<1>7. SumFunctionOnSet(g, B) = SumFunctionOnSet(f, A) - Part(f, A, s) + Part(g, B, s)
  BY ONLY <1>1, <1>2, <1>3, <1>4, <1>6, SumChange
<1> QED BY <1>1, <1>2, <1>5, <1>7

\* A session's share is part of the sum.
LEMMA ShareInSum ==
  ASSUME NEW p, p \in PoolState, NEW s \in Sessions, NEW i
  PROVE  Share(p, s, i) <= SumHeld(p, i)
<1> DEFINE A == BoundTo(p, i)
           f == [v \in A |-> Held(p.sess[v])]
<1>1. IsFiniteSet(A) /\ (\A u \in A : f[u] \in Nat) /\ Part(f, A, s) = Share(p, s, i)
  BY SumHeldIsShares
<1>2. SumHeld(p, i) = SumFunctionOnSet(f, A)
  BY DEF SumHeld
<1> HIDE DEF A, f
<1>3. \A u \in A : f[u] \in Int
  BY <1>1
<1>4. /\ SumFunctionOnSet(f, A) = Part(f, A, s) + SumFunctionOnSet(f, A \ {s})
      /\ Part(f, A, s) \in Int
      /\ SumFunctionOnSet(f, A) \in Int
      /\ SumFunctionOnSet(f, A \ {s}) \in Int
  BY ONLY <1>1, <1>3, SumSplit
<1>5. SumFunctionOnSet(f, A \ {s}) \in Nat
  <2>1. A \ {s} \in SUBSET A
    OBVIOUS
  <2> QED BY <1>1, <2>1, SumNat
<1> QED BY <1>1, <1>2, <1>4, <1>5

\* Without bindings to i the sum is zero.
LEMMA SumHeldNone ==
  ASSUME NEW p, NEW i, \A s \in Sessions : ~(Bound(p, s) /\ p.sess[s].inst = i)
  PROVE  SumHeld(p, i) = 0
<1>1. BoundTo(p, i) = {}
  BY DEF BoundTo
<1> QED BY <1>1, SumEmpty DEF SumHeld

-----------------------------------------------------------------------------
(***************************************************************************)
(* The units of an instance that are in use and that no binding holds.     *)
(***************************************************************************)

Slack(p, i) == p.inUse[i] - SumHeld(p, i)

LEMMA SlackInt ==
  ASSUME NEW p, p \in PoolState, NEW i \in Instances
  PROVE  Slack(p, i) \in Int
<1>1. SumHeld(p, i) \in Nat
  BY SumHeldNat
<1>2. p.inUse[i] \in Nat
  BY DEF PoolState
<1> QED BY <1>1, <1>2 DEF Slack

\* The slack depends on the bindings and on InUse only.
LEMMA SlackSame ==
  ASSUME NEW p, NEW q, q.sess = p.sess, NEW i, q.inUse[i] = p.inUse[i]
  PROVE  Slack(q, i) = Slack(p, i)
<1>1. BoundTo(q, i) = BoundTo(p, i)
  BY DEF BoundTo, Bound
<1>2. SumHeld(q, i) = SumHeld(p, i)
  BY <1>1 DEF SumHeld
<1> QED BY <1>2 DEF Slack

\* InUse follows what the one session that changes holds.
LEMMA SlackKept ==
  ASSUME NEW p, p \in PoolState, NEW q, q \in PoolState, NEW s \in Sessions,
         \A u \in Sessions \ {s} : q.sess[u] = p.sess[u], NEW i \in Instances,
         NEW d \in Int, q.inUse[i] = p.inUse[i] + Share(q, s, i) - Share(p, s, i) + d
  PROVE  Slack(q, i) = Slack(p, i) + d
<1>1. SumHeld(q, i) = SumHeld(p, i) - Share(p, s, i) + Share(q, s, i)
  BY SumHeldChange
<1>2. SumHeld(p, i) \in Nat /\ Share(p, s, i) \in Nat /\ Share(q, s, i) \in Nat
  BY SumHeldIsShares, ShareNat
<1>3. p.inUse[i] \in Nat
  BY DEF PoolState
<1> QED BY <1>1, <1>2, <1>3 DEF Slack

\* A binding is replaced by one that holds as much.
LEMMA SlackRebound ==
  ASSUME NEW p, PoolOK(p), NEW s, Bound(p, s), NEW b \in Binding,
         b.inst = p.sess[s].inst, Held(b) = Held(p.sess[s]), NEW i \in Instances
  PROVE  Slack([p EXCEPT !.sess[s] = b], i) = Slack(p, i)
<1> DEFINE q == [p EXCEPT !.sess[s] = b]
<1>1. s \in Sessions /\ p.sess[s] \in Binding /\ p.sess[s].inst \in p.inst
  BY BoundBinding
<1>2. PoolOK(q) /\ q \in PoolState /\ p \in PoolState
  BY <1>1, SetBindingOK DEF PoolOK
<1>3. q.sess[s] = b /\ (\A u \in Sessions \ {s} : q.sess[u] = p.sess[u]) /\ q.inUse = p.inUse
  BY <1>1 DEF PoolOK, PoolState
<1>4. Bound(q, s)
  BY <1>1, <1>3, NoBindingIsNoBinding DEF Bound
<1> HIDE DEF q
<1>5. Share(q, s, i) = Share(p, s, i)
  BY <1>3, <1>4 DEF Share
<1>6. q.inUse[i] = p.inUse[i] + Share(q, s, i) - Share(p, s, i) + 0
  BY <1>1, <1>2, <1>3, <1>5, ShareNat DEF PoolState
<1>7. Slack(q, i) = Slack(p, i) + 0
  <2>1. i \in Instances /\ 0 \in Int
    OBVIOUS
  <2> QED BY ONLY <1>1, <1>2, <1>3, <1>6, <2>1, SlackKept
<1>8. Slack(p, i) \in Int
  BY <1>1, <1>2, SlackInt
<1> QED BY <1>7, <1>8 DEF q

\* What one more unit makes of a binding.
LEMMA StickyTakeShape ==
  ASSUME NEW p, PoolOK(p), NEW s, Bound(p, s)
  PROVE  LET q == StickyTake(p, s)
             b == p.sess[s]
         IN  /\ q.sess[s] \in Binding /\ q.sess[s].inst = b.inst /\ q.sess[s].active = b.active + 1
             /\ q.sess[s].expiring = b.expiring /\ q.sess[s].timer = b.timer
             /\ \A u \in Sessions \ {s} : q.sess[u] = p.sess[u]
             /\ q.seq = p.seq /\ q.stopped = p.stopped
             /\ \A i \in Instances : Slack(q, i) = Slack(p, i)
             /\ StickyHit(p, s) => \A i \in Instances : q.inUse[i] <= Capacity \/ q.inUse[i] = p.inUse[i]
<1> DEFINE b == p.sess[s]
<1>1. s \in Sessions /\ b \in Binding /\ b.inst \in p.inst /\ b.inst \in Instances
  BY BoundBinding
<1> HIDE DEF b
<1>2. CASE b.reserved > 0
  <2> DEFINE c == [b EXCEPT !.reserved = @ - 1, !.active = @ + 1]
  <2>1. b.reserved - 1 \in Nat /\ b.active + 1 \in Nat
    BY <1>1, <1>2 DEF Binding
  <2>2. StickyTake(p, s) = [p EXCEPT !.sess[s] = c]
    BY <1>1, <1>2 DEF StickyTake, PoolOK, PoolState, Binding, b
  <2>3. c \in Binding /\ c.inst = b.inst
    BY <1>1, <2>1, SetUnitsOK
  <2>4. /\ c.expiring = b.expiring /\ c.timer = b.timer
        /\ c.reserved = b.reserved - 1 /\ c.active = b.active + 1
    BY <1>1 DEF Binding
  <2>5. Held(c) = Held(b)
    BY <1>1, <2>3, <2>4 DEF Held, Binding
  <2> HIDE DEF c
  <2>6. \A i \in Instances : Slack(StickyTake(p, s), i) = Slack(p, i)
    BY <2>2, <2>3, <2>5, SlackRebound DEF b
  <2>7. StickyTake(p, s).sess[s] = c /\ (\A u \in Sessions \ {s} : StickyTake(p, s).sess[u] = p.sess[u])
        /\ StickyTake(p, s).inUse = p.inUse /\ StickyTake(p, s).seq = p.seq
        /\ StickyTake(p, s).stopped = p.stopped
    BY <1>1, <2>2 DEF PoolOK, PoolState
  <2> QED BY <2>3, <2>4, <2>6, <2>7 DEF b
<1>3. CASE ~(b.reserved > 0)
  <2> DEFINE c == [b EXCEPT !.active = @ + 1]
             q == StickyTake(p, s)
  <2>1. c \in Binding /\ c.inst = b.inst /\ c.active = b.active + 1
        /\ c.expiring = b.expiring /\ c.timer = b.timer /\ c.reserved = b.reserved
    BY <1>1 DEF Binding
  <2>2. q = [p EXCEPT !.sess[s] = c, !.inUse[b.inst] = @ + 1]
    BY <1>1, <1>3 DEF StickyTake, PoolOK, PoolState, Binding, b
  <2>3. Held(c) = Held(b) + 1 /\ Held(b) \in Nat
    BY <1>1, <2>1 DEF Held, Binding
  <2> HIDE DEF c
  <2>4. q.sess[s] = c /\ (\A u \in Sessions \ {s} : q.sess[u] = p.sess[u])
        /\ (\A i \in Instances : q.inUse[i] = IF i = b.inst THEN p.inUse[i] + 1 ELSE p.inUse[i])
        /\ q.seq = p.seq /\ q.stopped = p.stopped
    BY <1>1, <2>2 DEF PoolOK, PoolState
  <2>5. q \in PoolState /\ p \in PoolState
    BY StickyTakeOK DEF PoolOK
  <2>6. Bound(q, s)
    BY <1>1, <2>1, <2>4, NoBindingIsNoBinding DEF Bound
  <2>7. ASSUME NEW i \in Instances PROVE Slack(q, i) = Slack(p, i)
    <3> HIDE DEF q
    <3>1. Share(q, s, i) = Share(p, s, i) + IF i = b.inst THEN 1 ELSE 0
      BY <2>1, <2>3, <2>4, <2>6 DEF Share, b
    <3>2. p.inUse[i] \in Nat /\ Share(p, s, i) \in Nat
      BY <1>1, <2>5, ShareNat DEF PoolState
    <3>3. q.inUse[i] = p.inUse[i] + Share(q, s, i) - Share(p, s, i) + 0
      BY <2>4, <3>1, <3>2
    <3>4. Slack(q, i) = Slack(p, i) + 0 /\ Slack(p, i) \in Int
      BY <1>1, <2>4, <2>5, <3>3, SlackKept, SlackInt
    <3> QED BY <3>4
  <2>8. StickyHit(p, s) => p.inUse[b.inst] < Capacity
    BY <1>3 DEF StickyHit, b
  <2>9. p.inUse[b.inst] \in Nat /\ Capacity \in Nat
    BY <1>1, <2>5, LitePoolAssumption DEF PoolState
  <2>10. StickyHit(p, s) => \A i \in Instances : q.inUse[i] <= Capacity \/ q.inUse[i] = p.inUse[i]
    BY <2>4, <2>8, <2>9
  <2> HIDE DEF q
  <2> QED BY <2>1, <2>4, <2>7, <2>10 DEF q, b
<1> QED BY <1>2, <1>3

\* A new binding leaves what the one it replaces held as slack.
LEMMA BindFreshShape ==
  ASSUME NEW p, PoolOK(p), NEW s \in Sessions, NEW i \in p.inst, NEW c \in Concurrencies,
         NEW q, q = BindFresh(p, s, i, c)
  PROVE  /\ q.sess[s] \in Binding /\ q.sess[s].inst = i /\ q.sess[s].active = 1
         /\ ~q.sess[s].expiring
         /\ \A u \in Sessions \ {s} : q.sess[u] = p.sess[u]
         /\ q.seq = p.seq /\ q.stopped = p.stopped
         /\ \A j \in Instances : Slack(q, j) = Slack(p, j) + Share(p, s, j)
         /\ \A j \in Instances : q.inUse[j] = IF j = i THEN p.inUse[j] + c ELSE p.inUse[j]
<1> DEFINE b == [inst |-> i, reserved |-> c - 1, active |-> 1, expiring |-> FALSE, timer |-> "none"]
<1>1. i \in Instances /\ c \in Nat /\ c - 1 \in Nat
  BY LitePoolAssumption DEF PoolOK, PoolState
<1>2. b \in Binding /\ b.inst = i /\ b.active = 1 /\ ~b.expiring /\ b.reserved = c - 1
  BY <1>1 DEF Binding
<1>3. Held(b) = c
  BY <1>1, <1>2 DEF Held
<1>4. q = [p EXCEPT !.inUse[i] = @ + c, !.sess[s] = b]
  BY DEF BindFresh
<1> HIDE DEF b
<1>5. /\ q.sess[s] = b /\ \A u \in Sessions \ {s} : q.sess[u] = p.sess[u]
      /\ q.seq = p.seq /\ q.stopped = p.stopped
  BY <1>1, <1>4 DEF PoolOK, PoolState
<1>6. ASSUME NEW j \in Instances PROVE q.inUse[j] = IF j = i THEN p.inUse[j] + c ELSE p.inUse[j]
  BY <1>1, <1>4 DEF PoolOK, PoolState
<1>7. q \in PoolState /\ p \in PoolState
  BY BindFreshOK DEF PoolOK
<1>8. Bound(q, s)
  BY <1>2, <1>5, NoBindingIsNoBinding DEF Bound
<1>9. ASSUME NEW j \in Instances PROVE Slack(q, j) = Slack(p, j) + Share(p, s, j)
  <2>1. Share(q, s, j) = IF j = i THEN c ELSE 0
    BY <1>2, <1>3, <1>5, <1>8 DEF Share
  <2>2. p.inUse[j] \in Nat /\ Share(p, s, j) \in Nat /\ Share(p, s, j) \in Int
    BY <1>7, ShareNat DEF PoolState
  <2>3. q.inUse[j] = p.inUse[j] + Share(q, s, j) - Share(p, s, j) + Share(p, s, j)
    BY <1>1, <1>6, <2>1, <2>2
  <2>4. s \in Sessions /\ j \in Instances
    OBVIOUS
  <2> QED BY ONLY <1>5, <1>7, <2>2, <2>3, <2>4, SlackKept
<1> QED BY <1>2, <1>5, <1>6, <1>9

LEMMA CancelUnbindShape ==
  ASSUME NEW b \in Binding
  PROVE  LET c == CancelUnbind(b)
         IN  c \in Binding /\ c.inst = b.inst /\ c.active = b.active /\ Held(c) = Held(b) /\ ~c.expiring
<1>1. CASE b.expiring
  <2> DEFINE c == [b EXCEPT !.timer = "none", !.expiring = FALSE]
  <2>1. CancelUnbind(b) = c
    BY <1>1 DEF CancelUnbind
  <2>2. c.inst = b.inst /\ c.active = b.active /\ c.reserved = b.reserved /\ ~c.expiring
    BY DEF Binding
  <2> HIDE DEF c
  <2> QED BY <2>1, <2>2, CancelUnbindOK DEF Held
<1>2. CASE ~b.expiring
  BY <1>2 DEF CancelUnbind, Binding
<1> QED BY <1>1, <1>2

\* A unit moves from the active ones to the reserved ones.
LEMMA UnbindOnReleaseShape ==
  ASSUME NEW b \in Binding
  PROVE  LET c == UnbindOnRelease(b)
         IN  /\ c \in Binding /\ c.inst = b.inst /\ Held(c) = Held(b) /\ c.timer = b.timer
             /\ c.active = IF b.active > 0 THEN b.active - 1 ELSE 0
             /\ c.expiring <=> b.expiring \/ c.active = 0
<1> DEFINE r == IF b.active > 0 THEN [b EXCEPT !.active = @ - 1, !.reserved = @ + 1] ELSE b
           c == UnbindOnRelease(b)
<1>1. b.active \in Nat /\ b.reserved \in Nat /\ b.expiring \in BOOLEAN
  BY DEF Binding
<1>2. /\ r.inst = b.inst /\ r.timer = b.timer /\ r.expiring = b.expiring
      /\ r.active = IF b.active > 0 THEN b.active - 1 ELSE 0
      /\ r.reserved = IF b.active > 0 THEN b.reserved + 1 ELSE b.reserved
  BY <1>1 DEF Binding
<1>3. r \in Binding
  <2>1. CASE b.active > 0
    <3>1. b.active - 1 \in Nat /\ b.reserved + 1 \in Nat
      BY <1>1, <2>1
    <3>2. r = [b EXCEPT !.reserved = b.reserved + 1, !.active = b.active - 1]
      BY <2>1 DEF Binding
    <3> HIDE DEF r
    <3> QED BY <3>1, <3>2, SetUnitsOK
  <2> QED BY <2>1
<1>4. c = IF r.active > 0 THEN r ELSE [r EXCEPT !.expiring = TRUE]
  BY DEF UnbindOnRelease
<1>5. c \in Binding
  BY UnbindOnReleaseOK
<1> HIDE DEF r, c
<1>6. c.inst = r.inst /\ c.timer = r.timer /\ c.active = r.active /\ c.reserved = r.reserved
  BY <1>3, <1>4 DEF Binding
<1>7. c.expiring <=> b.expiring \/ c.active = 0
  <2>1. CASE r.active > 0
    <3>1. c.expiring = b.expiring
      BY <1>2, <1>4, <2>1
    <3>2. c.active # 0
      BY <1>4, <2>1
    <3> QED BY <3>1, <3>2
  <2>2. CASE ~(r.active > 0)
    <3>1. c.expiring = TRUE
      BY <1>3, <1>4, <2>2 DEF Binding
    <3>2. c.active = 0
      BY <1>3, <1>6, <2>2 DEF Binding
    <3> QED BY <3>1, <3>2
  <2> QED BY <2>1, <2>2
<1>8. Held(c) = Held(b)
  BY <1>1, <1>2, <1>6 DEF Held
<1> QED BY <1>2, <1>5, <1>6, <1>7, <1>8 DEF c

LEMMA RemoveBindingShape ==
  ASSUME NEW p, PoolOK(p), NEW s, Bound(p, s), \A j \in Instances : Slack(p, j) >= 0
  PROVE  LET q == RemoveBinding(p, s)
         IN  /\ q.sess[s] = NoBinding
             /\ \A u \in Sessions \ {s} : q.sess[u] = p.sess[u]
             /\ q.seq = p.seq /\ q.stopped = p.stopped
             /\ \A j \in Instances : Slack(q, j) = Slack(p, j) /\ q.inUse[j] <= p.inUse[j]
<1> DEFINE b == p.sess[s]
           q == RemoveBinding(p, s)
           i == b.inst
<1>1. s \in Sessions /\ b \in Binding /\ i \in Instances /\ p \in PoolState
  BY BoundBinding DEF PoolOK
<1>2. q = [p EXCEPT !.sess[s] = NoBinding,
                    !.inUse[i] = IF p.inUse[i] >= b.reserved + b.active
                                 THEN p.inUse[i] - (b.reserved + b.active) ELSE 0]
  BY <1>1 DEF RemoveBinding, PoolState
<1>3. Held(b) \in Nat /\ Held(b) = b.reserved + b.active
  BY <1>1 DEF Held, Binding
<1>4. p.inUse[i] >= Held(b)
  <2>1. Share(p, s, i) = Held(b)
    BY DEF Share
  <2>2. Share(p, s, i) <= SumHeld(p, i) /\ SumHeld(p, i) \in Nat
    BY <1>1, ShareInSum, SumHeldIsShares
  <2>3. p.inUse[i] \in Nat /\ p.inUse[i] - SumHeld(p, i) >= 0
    BY <1>1 DEF Slack, PoolState
  <2> HIDE DEF b, i
  <2> QED BY <1>3, <2>1, <2>2, <2>3
<1>5. /\ q.sess[s] = NoBinding /\ \A u \in Sessions \ {s} : q.sess[u] = p.sess[u]
      /\ q.seq = p.seq /\ q.stopped = p.stopped
  BY <1>1, <1>2 DEF PoolState
<1>6. ASSUME NEW j \in Instances PROVE q.inUse[j] = p.inUse[j] - IF j = i THEN Held(b) ELSE 0
  BY <1>1, <1>2, <1>3, <1>4 DEF PoolState
<1>7. q \in PoolState
  BY RemoveBindingOK DEF PoolOK
<1> HIDE DEF q
<1>8. ASSUME NEW j \in Instances PROVE Slack(q, j) = Slack(p, j) /\ q.inUse[j] <= p.inUse[j]
  <2>1. Share(q, s, j) = 0 /\ Share(p, s, j) = IF j = i THEN Held(b) ELSE 0
    BY <1>5 DEF Share, Bound
  <2>2. p.inUse[j] \in Nat /\ 0 \in Int /\ s \in Sessions /\ j \in Instances
    BY <1>1 DEF PoolState
  <2> HIDE DEF b, i
  <2>3. q.inUse[j] = p.inUse[j] + Share(q, s, j) - Share(p, s, j) + 0
    BY <1>3, <1>6, <2>1, <2>2
  <2>4. Slack(q, j) = Slack(p, j) + 0
    BY ONLY <1>1, <1>5, <1>7, <2>2, <2>3, SlackKept
  <2>5. Slack(p, j) \in Int
    BY <1>1, SlackInt
  <2> QED BY <1>3, <1>6, <2>2, <2>4, <2>5
<1> QED BY <1>5, <1>8 DEF q

LEMMA RemoveInstanceShape ==
  ASSUME NEW p, PoolOK(p), NEW i \in Instances
  PROVE  LET q == RemoveInstance(p, i)
         IN  /\ q.sess = [s \in Sessions |-> IF p.sess[s].inst = i THEN NoBinding ELSE p.sess[s]]
             /\ q.stopped = p.stopped
             /\ Slack(q, i) = 0
             /\ \A j \in Instances \ {i} : Slack(q, j) = Slack(p, j)
<1> DEFINE f == [s \in Sessions |-> IF p.sess[s].inst = i THEN NoBinding ELSE p.sess[s]]
           q == RemoveInstance(p, i)
<1>1. q = [p EXCEPT !.inst = p.inst \ {i}, !.reclaiming = p.reclaiming \ {i},
                    !.inUse = [p.inUse EXCEPT ![i] = 0], !.sess = f]
  BY DEF RemoveInstance, PoolOK, PoolState
<1> HIDE DEF f
<1>2. /\ q.sess = f /\ q.stopped = p.stopped /\ q.inUse[i] = 0
      /\ \A j \in Instances \ {i} : q.inUse[j] = p.inUse[j]
  BY <1>1 DEF PoolOK, PoolState
<1>3. NoBinding.inst \notin Instances
  BY LitePoolAssumption DEF NoBinding
<1> HIDE DEF q
<1>4. Slack(q, i) = 0
  <2>1. \A s \in Sessions : ~(Bound(q, s) /\ q.sess[s].inst = i)
    BY <1>2, <1>3 DEF f, Bound
  <2> QED BY <1>2, <2>1, SumHeldNone DEF Slack
<1>5. ASSUME NEW j \in Instances \ {i} PROVE Slack(q, j) = Slack(p, j)
  <2>1. BoundTo(q, j) = BoundTo(p, j)
    BY <1>2, <1>3 DEF f, BoundTo, Bound
  <2>2. [s \in BoundTo(q, j) |-> Held(q.sess[s])] = [s \in BoundTo(p, j) |-> Held(p.sess[s])]
    <3>1. \A s \in BoundTo(p, j) : q.sess[s] = p.sess[s]
      BY <1>2 DEF f, BoundTo, Bound
    <3> QED BY <2>1, <3>1
  <2>3. SumHeld(q, j) = SumHeld(p, j)
    BY <2>1, <2>2 DEF SumHeld
  <2> QED BY <1>2, <2>3 DEF Slack
<1> QED BY <1>2, <1>4, <1>5 DEF f, q

-----------------------------------------------------------------------------
(***************************************************************************)
(* What the grants change.                                                 *)
(***************************************************************************)

\* A grant to handler t: pool g becomes q, and the lease is in the map.
Granted(t, g, q, s, i) ==
  /\ pool' = [pool EXCEPT ![g] = q]
  /\ PoolOK(q) /\ q.inst = pool[g].inst /\ i \in q.inst
  /\ q.seq = pool[g].seq + 1 /\ q.stopped = pool[g].stopped
  /\ allocations' = Put(allocations, [sess |-> s, inst |-> i, seq |-> q.seq], g)
  /\ issued' \subseteq issued \cup {[sess |-> s, inst |-> i, seq |-> q.seq]}
  /\ h' = [h EXCEPT ![t] = Idle]
  /\ UNCHANGED <<created, curPool, deleting>>

LEMMA SeqKeepsPool ==
  ASSUME NEW p, PoolOK(p)
  PROVE  LET q == [p EXCEPT !.seq = @ + 1]
         IN  /\ PoolOK(q) /\ q.inst = p.inst /\ q.seq = p.seq + 1 /\ q.stopped = p.stopped
             /\ q.sess = p.sess /\ q.inUse = p.inUse
             /\ \A j \in Instances : Slack(q, j) = Slack(p, j)
<1> DEFINE q == [p EXCEPT !.seq = @ + 1]
<1>1. /\ PoolOK(q) /\ q.inst = p.inst /\ q.seq = p.seq + 1 /\ q.stopped = p.stopped
      /\ q.sess = p.sess /\ q.inUse = p.inUse
  BY DEF PoolOK, PoolState
<1> HIDE DEF q
<1>2. \A j \in Instances : Slack(q, j) = Slack(p, j)
  BY <1>1, SlackSame
<1> QED BY <1>1, <1>2 DEF q

LEMMA AssignInstanceEffect ==
  ASSUME NEW t, NEW g, NEW p, PoolOK(p), p.inst = pool[g].inst, p.seq = pool[g].seq,
         p.stopped = pool[g].stopped, NEW s, NEW i \in p.inst, AssignInstance(t, g, p, s, i)
  PROVE  \E q : /\ Granted(t, g, q, s, i)
                /\ q.sess = p.sess /\ q.inUse = p.inUse
                /\ \A j \in Instances : Slack(q, j) = Slack(p, j)
<1> DEFINE q == [p EXCEPT !.seq = @ + 1]
           a == [sess |-> s, inst |-> i, seq |-> p.seq + 1]
<1>1. /\ PoolOK(q) /\ q.inst = p.inst /\ q.seq = p.seq + 1 /\ q.stopped = p.stopped
      /\ q.sess = p.sess /\ q.inUse = p.inUse
      /\ \A j \in Instances : Slack(q, j) = Slack(p, j)
  BY SeqKeepsPool
<1>2. /\ pool' = [pool EXCEPT ![g] = q] /\ allocations' = Put(allocations, a, g)
      /\ issued' \subseteq issued \cup {a} /\ h' = [h EXCEPT ![t] = Idle]
      /\ UNCHANGED <<created, curPool, deleting>>
  BY DEF AssignInstance
<1> HIDE DEF q
<1>3. Granted(t, g, q, s, i)
  BY <1>1, <1>2 DEF Granted
<1> QED BY <1>1, <1>3

\* A grant on a binding.
StickyGranted(t, g, q, s) ==
  LET b == pool[g].sess[s] IN
    /\ Granted(t, g, q, s, b.inst)
    /\ s \in Sessions /\ b \in Binding /\ q.sess[s] \in Binding
    /\ q.sess[s].inst = b.inst /\ q.sess[s].active = b.active + 1
    /\ ~q.sess[s].expiring
    /\ \A u \in Sessions \ {s} : q.sess[u] = pool[g].sess[u]
    /\ \A j \in Instances : Slack(q, j) = Slack(pool[g], j)
    /\ \A j \in Instances : q.inUse[j] <= Capacity \/ q.inUse[j] = pool[g].inUse[j]
    /\ UNCHANGED record

LEMMA StickyGrant ==
  ASSUME IInv, NEW t, NEW g \in Pools, NEW s, StickyHit(pool[g], s), AssignSticky(t, g, s)
  PROVE  \E q : StickyGranted(t, g, q, s)
<1> DEFINE b == pool[g].sess[s]
           c == CancelUnbind(b)
           p == [pool[g] EXCEPT !.sess[s] = c]
           r == StickyTake(p, s)
<1>1. PoolOK(pool[g]) /\ Bound(pool[g], s)
  BY DEF IInv, PoolsOK, StickyHit
<1>2. s \in Sessions /\ b \in Binding /\ b.inst \in pool[g].inst /\ b.inst \in Instances
  BY <1>1, BoundBinding
<1>3. c \in Binding /\ c.inst = b.inst /\ c.active = b.active /\ Held(c) = Held(b) /\ ~c.expiring
  BY <1>2, CancelUnbindShape
<1>4. /\ p.sess[s] = c /\ \A u \in Sessions \ {s} : p.sess[u] = pool[g].sess[u]
      /\ p.inUse = pool[g].inUse /\ p.seq = pool[g].seq /\ p.stopped = pool[g].stopped
  BY <1>1, <1>2 DEF PoolOK, PoolState
<1>5. AssignInstance(t, g, r, s, c.inst) /\ UNCHANGED record
  BY <1>4 DEF AssignSticky
<1>r. c.reserved = b.reserved
  BY <1>2, <1>3 DEF Held, Binding
<1> HIDE DEF c
<1>6. PoolOK(p) /\ p.inst = pool[g].inst
  BY <1>1, <1>2, <1>3, SetBindingOK
<1>7. \A j \in Instances : Slack(p, j) = Slack(pool[g], j)
  BY <1>1, <1>3, SlackRebound
<1> HIDE DEF p
<1>8. Bound(p, s)
  BY <1>2, <1>3, <1>4, NoBindingIsNoBinding DEF Bound
<1>9. StickyHit(p, s)
  BY <1>3, <1>4, <1>8, <1>r DEF StickyHit
<1>10. /\ r.sess[s] \in Binding /\ r.sess[s].inst = c.inst /\ r.sess[s].active = c.active + 1
       /\ r.sess[s].expiring = c.expiring
       /\ \A u \in Sessions \ {s} : r.sess[u] = p.sess[u]
       /\ r.seq = p.seq /\ r.stopped = p.stopped
       /\ \A i \in Instances : Slack(r, i) = Slack(p, i)
       /\ \A i \in Instances : r.inUse[i] <= Capacity \/ r.inUse[i] = p.inUse[i]
  BY <1>4, <1>6, <1>8, <1>9, StickyTakeShape
<1>11. PoolOK(r) /\ r.inst = p.inst
  BY <1>6, <1>8, StickyTakeOK
<1> HIDE DEF r
<1>12. PICK q : /\ Granted(t, g, q, s, c.inst)
                /\ q.sess = r.sess /\ q.inUse = r.inUse
                /\ \A j \in Instances : Slack(q, j) = Slack(r, j)
  <2>1. c.inst \in r.inst /\ r.inst = pool[g].inst /\ r.seq = pool[g].seq /\ r.stopped = pool[g].stopped
    BY <1>2, <1>3, <1>4, <1>6, <1>10, <1>11
  <2> QED BY ONLY <1>5, <1>11, <2>1, AssignInstanceEffect
<1> HIDE DEF b
<1>13. /\ Granted(t, g, q, s, b.inst)
       /\ q.sess[s] \in Binding
       /\ q.sess[s].inst = b.inst /\ q.sess[s].active = b.active + 1
       /\ ~q.sess[s].expiring
  BY <1>3, <1>10, <1>12
<1>14. /\ \A u \in Sessions \ {s} : q.sess[u] = pool[g].sess[u]
       /\ \A j \in Instances : Slack(q, j) = Slack(pool[g], j)
       /\ \A j \in Instances : q.inUse[j] <= Capacity \/ q.inUse[j] = pool[g].inUse[j]
  BY <1>4, <1>7, <1>10, <1>12
<1>15. StickyGranted(t, g, q, s)
  BY <1>2, <1>5, <1>13, <1>14 DEF b, StickyGranted
<1> QED BY <1>15

\* A grant on a fresh binding, in place of the binding the session may have.
FreshGranted(t, g, q, s, i, c) ==
  /\ Granted(t, g, q, s, i)
  /\ q.sess[s] \in Binding /\ q.sess[s].inst = i /\ q.sess[s].active = 1
  /\ ~q.sess[s].expiring
  /\ \A u \in Sessions \ {s} : q.sess[u] = pool[g].sess[u]
  /\ \A j \in Instances : Slack(q, j) = Slack(pool[g], j) + Share(pool[g], s, j)
  /\ \A j \in Instances : q.inUse[j] = IF j = i THEN pool[g].inUse[j] + c ELSE pool[g].inUse[j]
  /\ record' \in SetRecord(pool[g], {s}, i)

LEMMA FreshGrant ==
  ASSUME IInv, NEW t, NEW g \in Pools, NEW s \in Sessions, NEW i \in pool[g].inst,
         NEW c \in Concurrencies, AssignFresh(t, g, s, i, c)
  PROVE  \E q : FreshGranted(t, g, q, s, i, c)
<1> DEFINE p == pool[g]
           r == BindFresh(p, s, i, c)
<1>1. PoolOK(p)
  BY DEF IInv, PoolsOK
<1>2. AssignInstance(t, g, r, s, i) /\ record' \in SetRecord(p, {s}, i)
  BY DEF AssignFresh
<1>3. /\ r.sess[s] \in Binding /\ r.sess[s].inst = i /\ r.sess[s].active = 1
      /\ ~r.sess[s].expiring
      /\ \A u \in Sessions \ {s} : r.sess[u] = p.sess[u]
      /\ r.seq = p.seq /\ r.stopped = p.stopped
      /\ \A j \in Instances : Slack(r, j) = Slack(p, j) + Share(p, s, j)
      /\ \A j \in Instances : r.inUse[j] = IF j = i THEN p.inUse[j] + c ELSE p.inUse[j]
  <2>1. s \in Sessions /\ i \in p.inst /\ c \in Concurrencies
    OBVIOUS
  <2>2. r = BindFresh(p, s, i, c)
    OBVIOUS
  <2> HIDE DEF p, r
  <2> QED BY ONLY <1>1, <2>1, <2>2, BindFreshShape
<1>4. PoolOK(r) /\ r.inst = p.inst
  BY <1>1, BindFreshOK
<1> HIDE DEF r
<1>5. PICK q : /\ Granted(t, g, q, s, i)
               /\ q.sess = r.sess /\ q.inUse = r.inUse
               /\ \A j \in Instances : Slack(q, j) = Slack(r, j)
  <2>1. i \in r.inst
    BY <1>4
  <2> QED BY ONLY <1>2, <1>3, <1>4, <2>1, AssignInstanceEffect
<1>6. /\ q.sess[s] \in Binding /\ q.sess[s].inst = i /\ q.sess[s].active = 1
      /\ ~q.sess[s].expiring
      /\ \A u \in Sessions \ {s} : q.sess[u] = pool[g].sess[u]
  BY <1>3, <1>5
<1>7. /\ \A j \in Instances : Slack(q, j) = Slack(pool[g], j) + Share(pool[g], s, j)
      /\ \A j \in Instances : q.inUse[j] = IF j = i THEN pool[g].inUse[j] + c ELSE pool[g].inUse[j]
  BY <1>3, <1>5
<1>8. FreshGranted(t, g, q, s, i, c)
  BY <1>2, <1>5, <1>6, <1>7 DEF FreshGranted
<1> QED BY <1>8

\* A grant without a session takes one unit of the instance.
FreeGranted(t, g, q, s, i) ==
  /\ Granted(t, g, q, s, i)
  /\ q.sess = pool[g].sess
  /\ \A j \in Instances : q.inUse[j] = IF j = i THEN pool[g].inUse[j] + 1 ELSE pool[g].inUse[j]
  /\ UNCHANGED record

LEMMA FreeGrant ==
  ASSUME IInv, NEW t, NEW g \in Pools, NEW s, s \notin Sessions, NEW i \in pool[g].inst,
         NEW c, AssignFresh(t, g, s, i, c)
  PROVE  \E q : FreeGranted(t, g, q, s, i)
<1> DEFINE p == pool[g]
           r == [p EXCEPT !.inUse[i] = @ + 1]
<1>1. PoolOK(p) /\ i \in Instances /\ p.inUse[i] + 1 \in Nat
  BY DEF IInv, PoolsOK, PoolOK, PoolState
<1>2. AssignInstance(t, g, r, s, i) /\ UNCHANGED record
  BY DEF AssignFresh
<1>3. /\ r.sess = p.sess /\ r.seq = p.seq /\ r.stopped = p.stopped
      /\ \A j \in Instances : r.inUse[j] = IF j = i THEN p.inUse[j] + 1 ELSE p.inUse[j]
  BY <1>1 DEF PoolOK, PoolState
<1>4. PoolOK(r) /\ r.inst = p.inst
  BY <1>1, SetInUseOK
<1> HIDE DEF r
<1>5. PICK q : /\ Granted(t, g, q, s, i)
               /\ q.sess = r.sess /\ q.inUse = r.inUse
               /\ \A j \in Instances : Slack(q, j) = Slack(r, j)
  <2>1. i \in r.inst
    BY <1>4
  <2> QED BY ONLY <1>2, <1>3, <1>4, <2>1, AssignInstanceEffect
<1>6. FreeGranted(t, g, q, s, i)
  BY <1>2, <1>3, <1>5 DEF FreeGranted
<1> QED BY <1>6

\* A rebuilt lease: the session takes a unit of its binding, or is bound anew.
Reacquired(q, a) ==
  LET p == pool[curPool]
      s == a.sess
  IN  /\ curPool \in Pools /\ a \in Lease /\ s \in Sessions /\ a.inst \in p.inst
      /\ pool' = [pool EXCEPT ![curPool] = q] /\ PoolOK(q) /\ q.inst = p.inst
      /\ q.seq = p.seq /\ q.stopped = p.stopped
      /\ allocations' = Put(allocations, a, curPool)
      /\ q.sess[s] \in Binding /\ q.sess[s].inst = a.inst
      /\ q.sess[s].active = IF Bound(p, s) THEN p.sess[s].active + 1 ELSE 1
      /\ Bound(p, s) => p.sess[s].inst = a.inst
      /\ \A u \in Sessions \ {s} : q.sess[u] = p.sess[u]
      /\ \A j \in Instances : Slack(q, j) = Slack(p, j)
      /\ record' \in IF Bound(p, s) THEN {record} ELSE SetRecord(p, {s}, a.inst)

LEMMA ReacquireGrant ==
  ASSUME IInv, NEW t, NEW a \in issued, NEW c \in Concurrencies, ReacquireAllocation(t, a, c),
         a \notin DOMAIN allocations
  PROVE  \E q : Reacquired(q, a)
<1> DEFINE p == pool[curPool]
           s == a.sess
           q == IF Bound(p, s) THEN StickyTake(p, s) ELSE BindFresh(p, s, a.inst, c)
<1>1. /\ a \in Lease /\ s \in Sessions /\ a.inst \in p.inst
      /\ curPool \in Pools /\ PoolOK(p) /\ p \in PoolState
  BY CurPoolOK DEF ReacquireAllocation, IInv, RestOK, PoolsOK, Lease, PoolOK
<1>2. /\ allocations' = Put(allocations, a, curPool) /\ pool' = [pool EXCEPT ![curPool] = q]
      /\ record' \in IF Bound(p, s) THEN {record} ELSE SetRecord(p, {s}, a.inst)
      /\ Bound(p, s) => p.sess[s].inst = a.inst
  BY DEF ReacquireAllocation
<1> HIDE DEF p, s
<1>3. CASE Bound(p, s)
  <2>1. q = StickyTake(p, s)
    BY <1>3
  <2>2. PoolOK(q) /\ q.inst = p.inst
    BY <1>1, <1>3, <2>1, StickyTakeOK
  <2>3. /\ q.sess[s] \in Binding /\ q.sess[s].inst = p.sess[s].inst /\ q.sess[s].active = p.sess[s].active + 1
        /\ \A u \in Sessions \ {s} : q.sess[u] = p.sess[u]
        /\ q.seq = p.seq /\ q.stopped = p.stopped
        /\ \A i \in Instances : Slack(q, i) = Slack(p, i)
    BY <1>1, <1>3, <2>1, StickyTakeShape
  <2> HIDE DEF q
  <2>4. Reacquired(q, a)
    BY <1>1, <1>2, <1>3, <2>2, <2>3 DEF p, s, Reacquired
  <2> QED BY <2>4
<1>4. CASE ~Bound(p, s)
  <2>1. q = BindFresh(p, s, a.inst, c)
    BY <1>4
  <2> HIDE DEF q
  <2>2. PoolOK(q) /\ q.inst = p.inst
    BY <1>1, <2>1, BindFreshOK
  <2>3. /\ q.sess[s] \in Binding /\ q.sess[s].inst = a.inst /\ q.sess[s].active = 1
        /\ \A u \in Sessions \ {s} : q.sess[u] = p.sess[u]
        /\ q.seq = p.seq /\ q.stopped = p.stopped
        /\ \A j \in Instances : Slack(q, j) = Slack(p, j) + Share(p, s, j)
    BY <1>1, <2>1, BindFreshShape
  <2>4. ASSUME NEW j \in Instances PROVE Slack(q, j) = Slack(p, j)
    <3>1. Share(p, s, j) = 0
      BY <1>4 DEF Share
    <3>2. Slack(p, j) \in Int
      BY <1>1, SlackInt
    <3> QED BY <2>3, <3>1, <3>2
  <2>5. Reacquired(q, a)
    BY <1>1, <1>2, <1>4, <2>2, <2>3, <2>4 DEF p, s, Reacquired
  <2> QED BY <2>5
<1> QED BY <1>3, <1>4

-----------------------------------------------------------------------------
(***************************************************************************)
(* InUseCoversHeld, where every request has a session.                     *)
(***************************************************************************)

SlackInv == \A g \in Pools, i \in Instances : Slack(pool[g], i) >= 0

\* Every lease, on its way in, in the map or on its way back, is a session's.
SessionsOnly ==
  /\ \A a \in DOMAIN allocations : a.sess \in Sessions
  /\ \A t \in Handlers :
       /\ h[t].pc \in {"dispatch", "wait"} => h[t].sess \in Sessions
       /\ h[t].pc \in {"deltask", "return"} => h[t].lease.sess \in Sessions

LEMMA SlackStep ==
  ASSUME PoolsOK, SlackInv, NEW g \in Pools, NEW q, pool' = [pool EXCEPT ![g] = q],
         \A i \in Instances : Slack(q, i) >= 0
  PROVE  SlackInv'
<1>1. \A k \in Pools : pool'[k] = IF k = g THEN q ELSE pool[k]
  BY DEF PoolsOK
<1>2. ASSUME NEW k \in Pools, NEW i \in Instances PROVE Slack(pool'[k], i) >= 0
  BY <1>1 DEF SlackInv
<1>3. \A k \in Pools, i \in Instances : Slack(pool'[k], i) >= 0
  BY <1>2
<1> QED BY <1>3 DEF SlackInv, Slack, SumHeld, BoundTo, Bound, Held

\* The pools whose slack stays what it is.
LEMMA SlackUnchanged == ASSUME SlackInv, UNCHANGED pool PROVE SlackInv'
  BY DEF SlackInv, Slack, SumHeld, BoundTo, Bound, Held

LEMMA FreshSlack ==
  ASSUME IInv, SlackInv, NEW t, NEW g \in Pools, NEW s \in Sessions, NEW i \in pool[g].inst,
         NEW c \in Concurrencies, AssignFresh(t, g, s, i, c)
  PROVE  SlackInv'
<1>0. PICK q : FreshGranted(t, g, q, s, i, c)
  BY FreshGrant
<1>1. /\ pool' = [pool EXCEPT ![g] = q]
      /\ \A j \in Instances : Slack(q, j) = Slack(pool[g], j) + Share(pool[g], s, j)
  BY <1>0 DEF FreshGranted, Granted
<1>2. PoolsOK /\ pool[g] \in PoolState
  BY DEF IInv, PoolsOK
<1>3. ASSUME NEW j \in Instances PROVE Slack(q, j) >= 0
  <2>1. Share(pool[g], s, j) \in Nat /\ Slack(pool[g], j) \in Int /\ Slack(pool[g], j) >= 0
    BY <1>2, ShareNat, SlackInt DEF SlackInv
  <2> QED BY <1>1, <2>1
<1> QED BY <1>1, <1>2, <1>3, SlackStep

LEMMA StickySlack ==
  ASSUME IInv, SlackInv, NEW t, NEW g \in Pools, NEW s, StickyHit(pool[g], s), AssignSticky(t, g, s)
  PROVE  SlackInv'
<1>0. PICK q : StickyGranted(t, g, q, s)
  BY StickyGrant
<1>1. /\ pool' = [pool EXCEPT ![g] = q]
      /\ \A j \in Instances : Slack(q, j) = Slack(pool[g], j)
  BY <1>0 DEF StickyGranted, Granted
<1>2. PoolsOK
  BY DEF IInv
<1>3. \A j \in Instances : Slack(q, j) >= 0
  BY <1>1 DEF SlackInv
<1> QED BY <1>1, <1>2, <1>3, SlackStep

LEMMA AcquireSlack ==
  ASSUME IInv, SlackInv, SessionsOnly, NEW t \in Handlers,
         \/ \E s \in SessionIDs : AcquireSticky(t, s)
         \/ DispatchSticky(t) \/ DispatchAssign(t) \/ PollAssign(t)
  PROVE  SlackInv'
<1>0. h[t].pc \in {"dispatch", "wait"} =>
        h[t].pool \in Pools /\ h[t].conc \in Concurrencies /\ h[t].sess \in Sessions
  BY HandlerFacts DEF IInv, SessionsOnly
<1>1. ASSUME NEW s \in SessionIDs, AcquireSticky(t, s)
      PROVE  SlackInv'
  <2>1. curPool \in Pools /\ StickyHit(pool[curPool], s) /\ AssignSticky(t, curPool, s)
    BY <1>1, CurPoolOK DEF IInv, AcquireSticky
  <2> QED BY <2>1, StickySlack
<1>2. CASE DispatchSticky(t)
  BY <1>0, <1>2, StickySlack DEF DispatchSticky
<1>3. CASE DispatchAssign(t)
  <2>1. h[t].pool \in Pools /\ h[t].conc \in Concurrencies /\ h[t].sess \in Sessions
    BY <1>0, <1>3 DEF DispatchAssign
  <2>2. PICK i \in pool[h[t].pool].inst : AssignFresh(t, h[t].pool, h[t].sess, i, h[t].conc)
    BY <1>3 DEF DispatchAssign, Recoverable, Candidates
  <2> QED BY <2>1, <2>2, FreshSlack
<1>4. CASE PollAssign(t)
  <2>1. h[t].pool \in Pools /\ h[t].conc \in Concurrencies /\ h[t].sess \in Sessions
    BY <1>0, <1>4 DEF PollAssign
  <2>2. PICK i \in pool[h[t].pool].inst : AssignFresh(t, h[t].pool, h[t].sess, i, h[t].conc)
    BY <1>4 DEF PollAssign, Candidates
  <2> QED BY <2>1, <2>2, FreshSlack
<1> QED BY <1>1, <1>2, <1>3, <1>4

\* A unit that comes back stays within its session.
LEMMA ReturnSlack ==
  ASSUME IInv, SlackInv, SessionsOnly, NEW t \in Handlers, Return(t)
  PROVE  SlackInv'
<1> DEFINE a == h[t].lease
           p == pool[curPool]
<1>1. a \in Lease /\ a.sess \in Sessions /\ a.sess # NoSession
  BY HandlerFacts, LitePoolAssumption DEF Return, IInv, SessionsOnly
<1>2. CASE UNCHANGED pool
  BY <1>2, SlackUnchanged
<1>3. CASE curPool # NoPool /\ pool' = [pool EXCEPT ![curPool] = ReturnUnit(p, a)]
  <2>1. curPool \in Pools /\ PoolsOK /\ PoolOK(p)
    BY <1>3, CurPoolOK DEF IInv, PoolsOK
  <2>2. \A i \in Instances : Slack(p, i) >= 0
    BY <2>1 DEF SlackInv
  <2>3. CASE ~Bound(p, a.sess)
    <3>1. ReturnUnit(p, a) = p
      BY <1>1, <2>3 DEF ReturnUnit
    <3> QED BY <1>3, <2>1, <2>2, <3>1, SlackStep
  <2>4. CASE Bound(p, a.sess)
    <3> DEFINE b == UnbindOnRelease(p.sess[a.sess])
    <3>1. p.sess[a.sess] \in Binding
      BY <2>1, <2>4, BoundBinding
    <3>2. b \in Binding /\ b.inst = p.sess[a.sess].inst /\ Held(b) = Held(p.sess[a.sess])
      BY <3>1, UnbindOnReleaseShape
    <3>3. ReturnUnit(p, a) = [p EXCEPT !.sess[a.sess] = b]
      BY <2>4 DEF ReturnUnit
    <3> HIDE DEF b, p, a
    <3>4. \A i \in Instances : Slack(ReturnUnit(p, a), i) = Slack(p, i)
      BY <2>1, <2>4, <3>2, <3>3, SlackRebound
    <3> QED BY <1>3, <2>1, <2>2, <3>4, SlackStep
  <2> QED BY <2>3, <2>4
<1> QED BY <1>2, <1>3 DEF Return

\* A binding whose timer changes.
TimerSet(g, s, timer, q) ==
  /\ pool' = [pool EXCEPT ![g] = q]
  /\ s \in Sessions /\ q.sess[s] = [pool[g].sess[s] EXCEPT !.timer = timer]
  /\ \A u \in Sessions \ {s} : q.sess[u] = pool[g].sess[u]
  /\ q.inst = pool[g].inst /\ q.inUse = pool[g].inUse /\ q.seq = pool[g].seq
  /\ q.stopped = pool[g].stopped
  /\ \A i \in Instances : Slack(q, i) = Slack(pool[g], i)

LEMMA TimerShape ==
  ASSUME IInv, NEW g \in Pools, NEW s, Bound(pool[g], s), NEW timer \in {"ticking", "dead"},
         pool' = [pool EXCEPT ![g].sess[s].timer = timer]
  PROVE  \E q : TimerSet(g, s, timer, q)
<1> DEFINE b == [pool[g].sess[s] EXCEPT !.timer = timer]
           p == pool[g]
           q == [p EXCEPT !.sess[s] = b]
<1>1. PoolOK(p) /\ s \in Sessions /\ p.sess[s] \in Binding
  BY BoundBinding DEF IInv, PoolsOK
<1>2. b \in Binding /\ b.inst = p.sess[s].inst /\ Held(b) = Held(p.sess[s])
  BY <1>1 DEF Binding, Held
<1>3. pool' = [pool EXCEPT ![g] = q]
  BY <1>1 DEF PoolOK, PoolState
<1> HIDE DEF b
<1>4. /\ q.sess[s] = b /\ \A u \in Sessions \ {s} : q.sess[u] = p.sess[u]
      /\ q.inst = p.inst /\ q.inUse = p.inUse /\ q.seq = p.seq /\ q.stopped = p.stopped
  BY <1>1 DEF PoolOK, PoolState
<1>5. \A i \in Instances : Slack(q, i) = Slack(p, i)
  <2> HIDE DEF p
  <2> QED BY <1>1, <1>2, SlackRebound DEF p
<1> HIDE DEF q, p
<1>6. TimerSet(g, s, timer, q)
  BY <1>1, <1>3, <1>4, <1>5 DEF p, b, TimerSet
<1> QED BY <1>6

LEMMA TimerSlack ==
  ASSUME IInv, SlackInv, NEW g \in Pools, NEW s, Bound(pool[g], s), NEW timer \in {"ticking", "dead"},
         pool' = [pool EXCEPT ![g].sess[s].timer = timer]
  PROVE  SlackInv'
<1>0. PICK q : TimerSet(g, s, timer, q)
  BY TimerShape
<1>1. pool' = [pool EXCEPT ![g] = q] /\ \A i \in Instances : Slack(q, i) = Slack(pool[g], i)
  BY <1>0 DEF TimerSet
<1>2. PoolsOK /\ \A i \in Instances : Slack(q, i) >= 0
  BY <1>1 DEF IInv, SlackInv
<1> QED BY <1>1, <1>2, SlackStep

LEMMA SessionTimerSlack ==
  ASSUME IInv, SlackInv,
         \/ \E t \in Handlers : StartTimer(t)
         \/ \E g \in Pools, s \in Sessions : FireUnbind(g, s)
  PROVE  SlackInv'
<1>1. CASE UNCHANGED pool
  BY <1>1, SlackUnchanged
<1>2. ASSUME NEW t \in Handlers, StartTimer(t), ~UNCHANGED pool PROVE SlackInv'
  <2> DEFINE g == h[t].pool
             s == h[t].sess
  <2>1. PICK timer \in {"ticking", "dead"} : pool' = [pool EXCEPT ![g].sess[s].timer = timer]
    BY <1>2 DEF StartTimer
  <2>2. Bound(pool[g], s) /\ g \in Pools
    BY <1>2, <2>1 DEF StartTimer, IInv, PoolsOK
  <2> HIDE DEF g, s
  <2> QED BY <2>1, <2>2, TimerSlack
<1>3. ASSUME NEW g \in Pools, NEW s \in Sessions, FireUnbind(g, s) PROVE SlackInv'
  <2>1. Bound(pool[g], s) /\ PoolOK(pool[g]) /\ PoolsOK /\ \A j \in Instances : Slack(pool[g], j) >= 0
    BY <1>3 DEF FireUnbind, IInv, PoolsOK, SlackInv
  <2>2. CASE pool' = [pool EXCEPT ![g].sess[s].timer = "dead"]
    BY <2>1, <2>2, TimerSlack
  <2>3. CASE pool' = [pool EXCEPT ![g] = RemoveBinding(pool[g], s)]
    <3>1. \A j \in Instances : Slack(RemoveBinding(pool[g], s), j) = Slack(pool[g], j)
      BY <2>1, RemoveBindingShape
    <3> QED BY <2>1, <2>3, <3>1, SlackStep
  <2> QED BY <1>3, <2>2, <2>3 DEF FireUnbind
<1> QED BY <1>1, <1>2, <1>3

LEMMA ReacquireSlack ==
  ASSUME IInv, SlackInv, NEW t, NEW a \in issued, NEW c \in Concurrencies, ReacquireAllocation(t, a, c)
  PROVE  SlackInv'
<1>1. CASE a \in DOMAIN allocations
  BY <1>1, SlackUnchanged DEF ReacquireAllocation
<1>2. CASE a \notin DOMAIN allocations
  <2>0. PICK q : Reacquired(q, a)
    BY <1>2, ReacquireGrant
  <2>1. /\ curPool \in Pools /\ pool' = [pool EXCEPT ![curPool] = q]
        /\ \A j \in Instances : Slack(q, j) = Slack(pool[curPool], j)
    BY <2>0 DEF Reacquired
  <2>2. PoolsOK /\ \A i \in Instances : Slack(q, i) >= 0
    BY <2>1 DEF IInv, SlackInv
  <2> QED BY <2>1, <2>2, SlackStep
<1> QED BY <1>1, <1>2

LEMMA RegistrySlack == ASSUME IInv, SlackInv, Registry PROVE SlackInv'
<1> DEFINE p == pool[curPool]
<1>0. PoolsOK
  BY DEF IInv
<1>c. ASSUME curPool # NoPool
      PROVE  /\ curPool \in Pools /\ PoolOK(p) /\ p \in PoolState
             /\ \A i \in Instances : Slack(p, i) >= 0
  BY <1>c, CurPoolOK DEF IInv, PoolsOK, PoolOK, SlackInv
<1>1. CASE UNCHANGED pool
  BY <1>1, SlackUnchanged
<1>2. CASE DeletePool
  <2> DEFINE q == [p EXCEPT !.sess = [s \in Sessions |-> NoBinding]]
  <2>1. curPool # NoPool /\ pool' = [pool EXCEPT ![curPool] = q]
    BY <1>2 DEF DeletePool
  <2>2. q.inUse = p.inUse /\ q.sess = [s \in Sessions |-> NoBinding]
    BY <1>c, <2>1 DEF PoolState
  <2> HIDE DEF q, p
  <2>3. ASSUME NEW i \in Instances PROVE Slack(q, i) >= 0
    <3>1. SumHeld(q, i) = 0
      BY <2>2, SumHeldNone DEF Bound
    <3>2. q.inUse[i] \in Nat
      BY <1>c, <2>1, <2>2 DEF PoolState
    <3> QED BY <3>1, <3>2 DEF Slack
  <2> QED BY <1>0, <1>c, <2>1, <2>3, SlackStep
<1>3. CASE DeleteRecords
  <2> DEFINE g == deleting.pool
             q == [pool[g] EXCEPT !.stopped = TRUE]
  <2>1. pool' = [pool EXCEPT ![g] = q]
    BY <1>3 DEF DeleteRecords
  <2>2. CASE g \in Pools
    <3>1. q.inUse = pool[g].inUse /\ q.sess = pool[g].sess
      BY <1>0, <2>2 DEF PoolsOK, PoolState
    <3>2. \A i \in Instances : Slack(q, i) = Slack(pool[g], i)
      <4> HIDE DEF q
      <4> QED BY <3>1, SlackSame
    <3> HIDE DEF q, g
    <3> QED BY <1>0, <2>1, <2>2, <3>2, SlackStep DEF SlackInv
  <2>3. CASE g \notin Pools
    <3>1. pool' = pool
      BY <1>0, <2>1, <2>3 DEF PoolsOK
    <3> QED BY <3>1, SlackUnchanged
  <2> QED BY <2>2, <2>3
<1>4. ASSUME NEW i \in Instances, InstanceUpdate(i) PROVE SlackInv'
  <2> DEFINE q == [p EXCEPT !.inst = @ \cup {i}, !.inUse[i] = 0]
  <2>1. curPool # NoPool /\ pool' = [pool EXCEPT ![curPool] = q] /\ i \notin p.inst
    BY <1>0, <1>4, <1>c DEF InstanceUpdate, PoolsOK, PoolState
  <2>2. /\ q.sess = p.sess /\ q.inUse[i] = 0
        /\ \A j \in Instances \ {i} : q.inUse[j] = p.inUse[j]
    BY <1>c, <2>1 DEF PoolState
  <2> HIDE DEF q
  <2>3. ASSUME NEW j \in Instances PROVE Slack(q, j) >= 0
    <3>1. CASE j = i
      <4>1. SumHeld(q, i) = 0
        BY <1>c, <2>1, <2>2, SumHeldNone DEF PoolOK, Bound
      <4> QED BY <2>2, <3>1, <4>1 DEF Slack
    <3>2. CASE j # i
      <4>1. Slack(q, j) = Slack(p, j)
        BY <2>2, <3>2, SlackSame
      <4> QED BY <1>c, <2>1, <4>1
    <3> QED BY <3>1, <3>2
  <2> HIDE DEF p
  <2> QED BY <1>0, <1>c, <2>1, <2>3, SlackStep
<1>5. ASSUME NEW i \in Instances, InstanceDelete(i) PROVE SlackInv'
  <2> DEFINE q == RemoveInstance(p, i)
  <2>1. curPool # NoPool /\ pool' = [pool EXCEPT ![curPool] = q]
    BY <1>5 DEF InstanceDelete
  <2>2. Slack(q, i) = 0 /\ \A j \in Instances \ {i} : Slack(q, j) = Slack(p, j)
    BY <1>c, <2>1, RemoveInstanceShape
  <2> HIDE DEF q, p
  <2>3. \A j \in Instances : Slack(q, j) >= 0
    BY <1>c, <2>1, <2>2
  <2> QED BY <1>0, <1>c, <2>1, <2>3, SlackStep
<1>6. ASSUME NEW i \in Instances, IdleReport(i) \/ IdleReset(i) PROVE SlackInv'
  <2>1. curPool # NoPool /\ \E R : pool' = [pool EXCEPT ![curPool].reclaiming = R]
    BY <1>6 DEF IdleReport, IdleReset
  <2>2. PICK R : pool' = [pool EXCEPT ![curPool].reclaiming = R]
    BY <2>1
  <2> DEFINE q == [p EXCEPT !.reclaiming = R]
  <2>3. pool' = [pool EXCEPT ![curPool] = q] /\ q.inUse = p.inUse /\ q.sess = p.sess
    BY <1>c, <2>1, <2>2 DEF PoolState
  <2> HIDE DEF q
  <2>4. \A j \in Instances : Slack(q, j) = Slack(p, j)
    BY <2>3, SlackSame
  <2> HIDE DEF p
  <2> QED BY <1>0, <1>c, <2>1, <2>3, <2>4, SlackStep
<1> QED BY <1>1, <1>2, <1>3, <1>4, <1>5, <1>6 DEF Registry, UpsertPool, DeleteAllocations

\* What a handler may hold where every request has a session.
SessionHandler(r) ==
  /\ r.pc \in {"dispatch", "wait"} => r.sess \in Sessions
  /\ r.pc \in {"deltask", "return"} => r.lease.sess \in Sessions

LEMMA SessionsStep ==
  ASSUME HandlersOK, SessionsOnly, \A a \in DOMAIN allocations' : a \in DOMAIN allocations \/ a.sess \in Sessions,
         NEW t \in Handlers, NEW r, SessionHandler(r), h' = [h EXCEPT ![t] = r]
  PROVE  SessionsOnly'
<1>1. \A u \in Handlers : h'[u] = IF u = t THEN r ELSE h[u]
  BY DEF HandlersOK
<1>2. \A u \in Handlers : SessionHandler(h'[u])
  BY <1>1 DEF SessionsOnly, SessionHandler
<1>3. \A a \in DOMAIN allocations' : a.sess \in Sessions
  BY DEF SessionsOnly
<1> QED BY <1>2, <1>3 DEF SessionsOnly, SessionHandler

LEMMA SessionIdle == SessionHandler(Idle)
  BY DEF SessionHandler, Idle

LEMMA AssignSessions ==
  ASSUME IInv, SessionsOnly, NEW t \in Handlers, NEW g, NEW p, NEW s \in Sessions, NEW i,
         AssignInstance(t, g, p, s, i)
  PROVE  SessionsOnly'
<1> DEFINE b == [sess |-> s, inst |-> i, seq |-> p.seq + 1]
<1>1. allocations' = Put(allocations, b, g) /\ h' = [h EXCEPT ![t] = Idle]
  BY DEF AssignInstance
<1>2. b.sess \in Sessions
  OBVIOUS
<1> HIDE DEF b
<1>3. \A a \in DOMAIN allocations' : a \in DOMAIN allocations \/ a.sess \in Sessions
  BY <1>1, <1>2 DEF Put
<1> QED BY <1>1, <1>3, SessionIdle, SessionsStep DEF IInv

LEMMA NextSessions ==
  ASSUME IInv, SessionsOnly, ~SessionCtx, Next
  PROVE  SessionsOnly'
<1> USE DEF IInv
<1>0. SessionIDs = Sessions /\ Requests \subseteq Handlers /\ Reaper \in Handlers
  BY DEF SessionIDs, Handlers
<1>1. CASE UNCHANGED h /\ \A a \in DOMAIN allocations' : a \in DOMAIN allocations
  BY <1>1 DEF SessionsOnly
<1>2. ASSUME NEW t \in Handlers, h' = [h EXCEPT ![t] = Idle], UNCHANGED allocations PROVE SessionsOnly'
  BY <1>2, SessionIdle, SessionsStep
<1>3. ASSUME NEW t \in Requests, Call(t) PROVE SessionsOnly'
  <2>1. ASSUME NEW s \in Sessions, AcquireSticky(t, s) PROVE SessionsOnly'
    BY <1>0, <2>1, AssignSessions DEF AcquireSticky, AssignSticky
  <2>2. ASSUME NEW s \in Sessions, NEW c \in Concurrencies, AcquireMiss(t, s, c) PROVE SessionsOnly'
    <3> DEFINE r == [Idle EXCEPT !.pc = "dispatch", !.sess = s, !.conc = c, !.pool = curPool]
    <3>1. SessionHandler(r)
      BY DEF SessionHandler, Idle
    <3>2. h' = [h EXCEPT ![t] = r] /\ UNCHANGED allocations
      BY <2>2 DEF AcquireMiss
    <3> HIDE DEF r
    <3> QED BY <1>0, <3>1, <3>2, SessionsStep
  <2>3. ASSUME NEW a \in DOMAIN allocations, ReleaseDelete(t, a) PROVE SessionsOnly'
    <3> DEFINE r == [Idle EXCEPT !.pc = "deltask", !.lease = a]
    <3>1. SessionHandler(r)
      BY DEF SessionHandler, Idle, SessionsOnly
    <3>2. h' = [h EXCEPT ![t] = r] /\ allocations' = Restrict(allocations, DOMAIN allocations \ {a})
      BY <2>3 DEF ReleaseDelete
    <3>3. DOMAIN allocations' = DOMAIN allocations \ {a}
      BY <3>2, RestrictFunction
    <3> HIDE DEF r
    <3> QED BY <1>0, <3>1, <3>2, <3>3, SessionsStep
  <2>4. ASSUME NEW a \in DOMAIN allocations, RetainLookup(t, a) PROVE SessionsOnly'
    <3>1. PICK pc \in {"refresh", "drop"} : h' = [h EXCEPT ![t] = [Idle EXCEPT !.pc = pc, !.lease = a]]
      BY <2>4 DEF RetainLookup
    <3> DEFINE r == [Idle EXCEPT !.pc = pc, !.lease = a]
    <3>2. SessionHandler(r)
      BY DEF SessionHandler, Idle
    <3>3. UNCHANGED allocations
      BY <2>4 DEF RetainLookup
    <3> HIDE DEF r
    <3> QED BY <1>0, <3>1, <3>2, <3>3, SessionsStep DEF r
  <2>5. ASSUME NEW a \in issued, NEW c \in Concurrencies, ReacquireAllocation(t, a, c) PROVE SessionsOnly'
    <3> DEFINE r == [Idle EXCEPT !.pc = "update", !.lease = a]
    <3>1. SessionHandler(r)
      BY DEF SessionHandler, Idle
    <3>2. h' = [h EXCEPT ![t] = r] /\ a.sess \in Sessions
      BY <2>5 DEF ReacquireAllocation
    <3>3. UNCHANGED allocations \/ allocations' = Put(allocations, a, curPool)
      BY <2>5 DEF ReacquireAllocation
    <3>4. \A b \in DOMAIN allocations' : b \in DOMAIN allocations \/ b.sess \in Sessions
      BY <3>2, <3>3 DEF Put
    <3> HIDE DEF r
    <3> QED BY <1>0, <3>1, <3>2, <3>4, SessionsStep
  <2> QED BY <1>0, <1>3, <2>1, <2>2, <2>3, <2>4, <2>5 DEF Call
<1>4. ASSUME NEW t \in Handlers, Proceed(t) PROVE SessionsOnly'
  <2>0. /\ h[t].pc \in {"dispatch", "wait"} => h[t].sess \in Sessions
        /\ h[t].pc \in {"deltask", "return"} => h[t].lease.sess \in Sessions
        /\ h[t] \in HandlerState
    BY DEF SessionsOnly, HandlersOK
  <2>1. CASE DispatchSticky(t) \/ DispatchAssign(t) \/ PollAssign(t)
    <3>1. h[t].sess \in Sessions
      BY <2>0, <2>1 DEF DispatchSticky, DispatchAssign, PollAssign
    <3>2. \E p, i : AssignInstance(t, h[t].pool, p, h[t].sess, i)
      BY <2>1, <3>1 DEF DispatchSticky, DispatchAssign, PollAssign, AssignSticky, AssignFresh
    <3> QED BY <3>1, <3>2, AssignSessions
  <2>2. CASE ColdStart(t) /\ h' = [h EXCEPT ![t].pc = "wait"]
    <3> DEFINE r == [h[t] EXCEPT !.pc = "wait"]
    <3>1. SessionHandler(r) /\ h' = [h EXCEPT ![t] = r] /\ UNCHANGED allocations
      BY <2>0, <2>2 DEF ColdStart, HandlerState, SessionHandler
    <3> HIDE DEF r
    <3> QED BY <3>1, SessionsStep
  <2>3. CASE DispatchReject(t) \/ PollTimeout(t) \/ RetainUpdate(t) \/ RetainForget(t) \/ StartTimer(t)
    BY <1>2, <2>3 DEF DispatchReject, PollTimeout, RetainUpdate, RetainForget, StartTimer
  <2>4. CASE ReleaseDelTask(t)
    <3> DEFINE r == [h[t] EXCEPT !.pc = "return"]
    <3>1. SessionHandler(r) /\ h' = [h EXCEPT ![t] = r] /\ UNCHANGED allocations
      BY <2>0, <2>4 DEF ReleaseDelTask, HandlerState, SessionHandler
    <3> HIDE DEF r
    <3> QED BY <3>1, SessionsStep
  <2>5. CASE Return(t)
    <3>1. UNCHANGED allocations
      BY <2>5 DEF Return
    <3> DEFINE r == [Idle EXCEPT !.pc = "timer", !.sess = h[t].lease.sess, !.pool = curPool]
    <3>2. SessionHandler(r)
      BY DEF SessionHandler, Idle
    <3>3. h' = [h EXCEPT ![t] = r] \/ h' = [h EXCEPT ![t] = Idle]
      BY <2>5 DEF Return
    <3> HIDE DEF r
    <3> QED BY <1>2, <3>1, <3>2, <3>3, SessionsStep
  <2>6. CASE RetainRefresh(t)
    <3> DEFINE r == [h[t] EXCEPT !.pc = "update"]
    <3>1. SessionHandler(r) /\ UNCHANGED allocations
      BY <2>0, <2>6 DEF RetainRefresh, HandlerState, SessionHandler
    <3>2. h' = [h EXCEPT ![t] = r] \/ h' = [h EXCEPT ![t] = Idle]
      BY <2>6 DEF RetainRefresh
    <3> HIDE DEF r
    <3> QED BY <1>2, <3>1, <3>2, SessionsStep
  <2>7. CASE RetainDrop(t)
    <3> DEFINE r == [h[t] EXCEPT !.pc = "forget"]
    <3>1. SessionHandler(r) /\ h' = [h EXCEPT ![t] = r]
      BY <2>0, <2>7 DEF RetainDrop, HandlerState, SessionHandler
    <3>2. DOMAIN allocations' \subseteq DOMAIN allocations
      BY <2>7, RestrictFunction DEF RetainDrop
    <3> HIDE DEF r
    <3> QED BY <3>1, <3>2, SessionsStep
  <2>8. CASE ColdStart(t) /\ h' = [h EXCEPT ![t] = Idle]
    BY <1>2, <2>8 DEF ColdStart
  <2> QED BY <1>4, <2>1, <2>2, <2>3, <2>4, <2>5, <2>6, <2>7, <2>8 DEF Proceed, ColdStart
<1>5. CASE ReapDelete
  <2> DEFINE a == Head(ready)
             r == [Idle EXCEPT !.pc = "return", !.lease = a]
  <2>1. CASE a \in DOMAIN allocations
    <3>1. SessionHandler(r)
      BY <2>1 DEF SessionHandler, Idle, SessionsOnly
    <3>2. h' = [h EXCEPT ![Reaper] = r] /\ DOMAIN allocations' \subseteq DOMAIN allocations
      BY <1>5, <2>1, RestrictFunction DEF ReapDelete
    <3> HIDE DEF r, a
    <3> QED BY <1>0, <3>1, <3>2, SessionsStep
  <2>2. CASE a \notin DOMAIN allocations
    BY <1>1, <1>5, <2>2 DEF ReapDelete
  <2> QED BY <2>1, <2>2
<1>6. ASSUME NEW a \in DOMAIN wheel, WheelFire(a) PROVE SessionsOnly'
  BY <1>1, <1>6 DEF WheelFire
<1>7. ASSUME NEW g \in Pools, NEW s \in Sessions, FireUnbind(g, s) PROVE SessionsOnly'
  BY <1>1, <1>7 DEF FireUnbind
<1>8. CASE Registry
  <2>1. UNCHANGED h
    BY <1>8 DEF Registry, UpsertPool, DeletePool, DeleteRecords, DeleteAllocations,
                InstanceUpdate, InstanceDelete, IdleReport, IdleReset
  <2>2. DOMAIN allocations' \subseteq DOMAIN allocations
    <3>1. ASSUME NEW i \in Instances, InstanceDelete(i) PROVE DOMAIN allocations' \subseteq DOMAIN allocations
      BY <3>1, RestrictFunction DEF InstanceDelete
    <3>2. CASE DeleteAllocations
      <4>1. DOMAIN << >> = {}
        OBVIOUS
      <4> QED BY <3>2, <4>1 DEF DeleteAllocations
    <3>3. CASE UNCHANGED allocations
      BY <3>3
    <3> QED BY <1>8, <3>1, <3>2, <3>3
            DEF Registry, UpsertPool, DeletePool, DeleteRecords, InstanceUpdate, IdleReport, IdleReset
  <2> QED BY <1>1, <2>1, <2>2
<1> QED BY <1>3, <1>4, <1>5, <1>6, <1>7, <1>8 DEF Next

LEMMA NextSlack ==
  ASSUME IInv, SlackInv, SessionsOnly, [Next]_vars
  PROVE  SlackInv'
<1>0. Requests \subseteq Handlers
  BY DEF Handlers
<1>1. CASE UNCHANGED pool
  BY <1>1, SlackUnchanged
<1>2. ASSUME NEW t \in Requests, Call(t) PROVE SlackInv'
  <2>1. ASSUME NEW s \in SessionIDs, NEW c \in Concurrencies, AcquireMiss(t, s, c) PROVE SlackInv'
    BY <1>1, <2>1 DEF AcquireMiss
  <2>2. ASSUME NEW a \in DOMAIN allocations, ReleaseDelete(t, a) \/ RetainLookup(t, a) PROVE SlackInv'
    BY <1>1, <2>2 DEF ReleaseDelete, RetainLookup
  <2> QED BY <1>0, <1>2, <2>1, <2>2, AcquireSlack, ReacquireSlack DEF Call
<1>3. ASSUME NEW t \in Handlers, Proceed(t) PROVE SlackInv'
  <2>1. CASE DispatchReject(t) \/ ColdStart(t) \/ PollTimeout(t) \/ ReleaseDelTask(t)
             \/ RetainRefresh(t) \/ RetainUpdate(t) \/ RetainDrop(t) \/ RetainForget(t)
    BY <1>1, <2>1 DEF DispatchReject, ColdStart, PollTimeout, ReleaseDelTask,
                      RetainRefresh, RetainUpdate, RetainDrop, RetainForget
  <2> QED BY <1>3, <2>1, AcquireSlack, ReturnSlack, SessionTimerSlack DEF Proceed
<1>4. CASE ReapDelete \/ (\E a \in DOMAIN wheel : WheelFire(a)) \/ UNCHANGED vars
  BY <1>1, <1>4 DEF ReapDelete, WheelFire, vars
<1> QED BY <1>2, <1>3, <1>4, SessionTimerSlack, RegistrySlack DEF Next

LEMMA SlackIsCover == ASSUME IInv, SlackInv PROVE InUseCoversHeld
<1>1. ASSUME NEW g \in Pools, NEW i \in Instances PROVE pool[g].inUse[i] >= SumHeld(pool[g], i)
  <2>1. pool[g] \in PoolState
    BY DEF IInv, PoolsOK
  <2>2. pool[g].inUse[i] \in Nat /\ SumHeld(pool[g], i) \in Nat
    BY <2>1, SumHeldNat DEF PoolState
  <2>3. pool[g].inUse[i] - SumHeld(pool[g], i) >= 0
    BY DEF SlackInv, Slack
  <2> QED BY <2>2, <2>3
<1> QED BY <1>1 DEF InUseCoversHeld

LEMMA InitSlack == ASSUME Init PROVE SlackInv /\ SessionsOnly
<1>1. ASSUME NEW g \in Pools, NEW i \in Instances PROVE Slack(pool[g], i) >= 0
  <2>1. pool[g] = EmptyPool
    BY DEF Init
  <2>2. SumHeld(EmptyPool, i) = 0
    BY SumHeldNone DEF EmptyPool, Bound
  <2> QED BY <2>1, <2>2 DEF Slack, EmptyPool
<1>2. SessionsOnly
  BY SessionIdle DEF Init, SessionsOnly, SessionHandler
<1> QED BY <1>1, <1>2 DEF SlackInv

\* InUse of an instance covers everything its bindings hold, for any number of
\* sessions, instances, pools and requests and through polls, recoveries,
\* reacquires, instance events and pool deletions, where every request has a
\* session: processInstanceInUse never meets its "accounting broken" branch.
THEOREM InUseCovers ==
  ASSUME ~SessionCtx
  PROVE  Spec => []InUseCoversHeld
<1>1. Init => SlackInv /\ SessionsOnly
  BY InitSlack
<1>2. IInv /\ IInv' /\ SlackInv /\ SessionsOnly /\ [Next]_vars => (SlackInv /\ SessionsOnly)'
  <2> SUFFICES ASSUME IInv, SlackInv, SessionsOnly, [Next]_vars PROVE SlackInv' /\ SessionsOnly'
    OBVIOUS
  <2>1. CASE UNCHANGED vars
    BY <2>1, NextSlack DEF vars, SessionsOnly
  <2>2. CASE Next
    BY <2>2, NextSlack, NextSessions
  <2> QED BY <2>1, <2>2
<1>3. IInv /\ SlackInv => InUseCoversHeld
  BY SlackIsCover
<1> QED BY <1>1, <1>2, <1>3, Invariance, PTL DEF Spec

-----------------------------------------------------------------------------
(***************************************************************************)
(* StoreFollowsBinding, as long as the function's pool is not replaced.    *)
(***************************************************************************)

StoreInv ==
  /\ deleting.pc = "idle"
  /\ \A g \in Pools : /\ ~pool[g].stopped
                      /\ \A s \in Sessions : record[s] # Stale => record[s] = pool[g].sess[s].inst

\* The sessions of S, and no others, are placed on i in q.
Placed(p, q, S, i) ==
  \A s \in Sessions : q.sess[s].inst = IF s \in S THEN i ELSE p.sess[s].inst

LEMMA OnePool == ASSUME MaxPools = 1, NEW g \in Pools, NEW k \in Pools PROVE k = g
  BY DEF Pools

LEMMA StoreStep ==
  ASSUME MaxPools = 1, PoolsOK, StoreInv, NEW g \in Pools, NEW q, pool' = [pool EXCEPT ![g] = q],
         q.stopped = pool[g].stopped, UNCHANGED deleting,
         \A s \in Sessions : record'[s] # Stale => record'[s] = q.sess[s].inst
  PROVE  StoreInv'
<1>1. pool'[g] = q
  BY DEF PoolsOK
<1>2. ASSUME NEW k \in Pools
      PROVE  ~pool'[k].stopped /\ \A s \in Sessions : record'[s] # Stale => record'[s] = pool'[k].sess[s].inst
  <2>1. k = g
    BY OnePool
  <2> QED BY <1>1, <2>1 DEF StoreInv
<1> QED BY <1>2 DEF StoreInv

\* No binding moves to another instance and the store is not touched.
LEMMA StoreSame ==
  ASSUME MaxPools = 1, PoolsOK, StoreInv, NEW g \in Pools, NEW q, pool' = [pool EXCEPT ![g] = q],
         q.stopped = pool[g].stopped, Placed(pool[g], q, {}, NoInstance),
         UNCHANGED record, UNCHANGED deleting
  PROVE  StoreInv'
<1>1. \A s \in Sessions : record'[s] # Stale => record'[s] = q.sess[s].inst
  BY DEF StoreInv, Placed
<1> QED BY <1>1, StoreStep

\* Binding sessions to i, or unbinding them, writes what the store has to name,
\* or leaves a record that is known to be stale.
LEMMA StoreWrite ==
  ASSUME MaxPools = 1, PoolsOK, RestOK, StoreInv, NEW g \in Pools, NEW q, pool' = [pool EXCEPT ![g] = q],
         q.stopped = pool[g].stopped, NEW S, NEW i, Placed(pool[g], q, S, i),
         record' \in SetRecord(pool[g], S, i), UNCHANGED deleting
  PROVE  StoreInv'
<1>1. PICK dropped \in SUBSET (S \cap Overflows) :
        record' = [s \in Sessions |-> IF s \in dropped THEN Stale ELSE IF s \in S THEN i ELSE record[s]]
  BY DEF SetRecord, StoreInv
<1>2. ASSUME NEW s \in Sessions PROVE record'[s] # Stale => record'[s] = q.sess[s].inst
  BY <1>1 DEF StoreInv, Placed
<1> QED BY <1>2, StoreStep

LEMMA StoreUnchanged == ASSUME StoreInv, UNCHANGED <<pool, record, deleting>> PROVE StoreInv'
  BY DEF StoreInv

LEMMA AcquireStore ==
  ASSUME MaxPools = 1, IInv, StoreInv, NEW t \in Handlers,
         \/ \E s \in SessionIDs : AcquireSticky(t, s)
         \/ DispatchSticky(t) \/ DispatchAssign(t) \/ PollAssign(t)
  PROVE  StoreInv'
<1>0. /\ h[t].sess \in Sessions \cup {NoSession}
      /\ h[t].pc \in {"dispatch", "wait"} => h[t].pool \in Pools /\ h[t].conc \in Concurrencies
  BY HandlerFacts DEF IInv
<1>1. ASSUME NEW g \in Pools, NEW s, StickyHit(pool[g], s), AssignSticky(t, g, s)
      PROVE  StoreInv'
  <2>1. PICK q : StickyGranted(t, g, q, s)
    BY <1>1, StickyGrant
  <2>2. /\ pool' = [pool EXCEPT ![g] = q] /\ q.stopped = pool[g].stopped
        /\ UNCHANGED record /\ UNCHANGED deleting
    BY <2>1 DEF StickyGranted, Granted
  <2>3. Placed(pool[g], q, {}, NoInstance)
    BY <2>1 DEF StickyGranted, Placed
  <2> QED BY <2>2, <2>3, StoreSame DEF IInv
<1>2. ASSUME NEW g \in Pools, NEW s \in Sessions \cup {NoSession}, NEW i \in pool[g].inst,
             NEW c \in Concurrencies, AssignFresh(t, g, s, i, c)
      PROVE  StoreInv'
  <2>1. CASE s \in Sessions
    <3>1. PICK q : FreshGranted(t, g, q, s, i, c)
      BY <1>2, <2>1, FreshGrant
    <3>2. /\ pool' = [pool EXCEPT ![g] = q] /\ q.stopped = pool[g].stopped
          /\ record' \in SetRecord(pool[g], {s}, i) /\ UNCHANGED deleting
      BY <3>1 DEF FreshGranted, Granted
    <3>3. Placed(pool[g], q, {s}, i)
      BY <3>1 DEF FreshGranted, Placed
    <3> QED BY <3>2, <3>3, StoreWrite DEF IInv
  <2>2. CASE s \notin Sessions
    <3>1. PICK q : FreeGranted(t, g, q, s, i)
      BY <1>2, <2>2, FreeGrant
    <3>2. /\ pool' = [pool EXCEPT ![g] = q] /\ q.stopped = pool[g].stopped
          /\ UNCHANGED record /\ UNCHANGED deleting /\ q.sess = pool[g].sess
      BY <3>1 DEF FreeGranted, Granted
    <3>3. Placed(pool[g], q, {}, NoInstance)
      BY <3>2 DEF Placed
    <3> QED BY <3>2, <3>3, StoreSame DEF IInv
  <2> QED BY <2>1, <2>2
<1>3. ASSUME NEW s \in SessionIDs, AcquireSticky(t, s)
      PROVE  StoreInv'
  <2>1. curPool \in Pools /\ StickyHit(pool[curPool], s) /\ AssignSticky(t, curPool, s)
    BY <1>3, CurPoolOK DEF IInv, AcquireSticky
  <2> QED BY <1>1, <2>1
<1>4. CASE DispatchSticky(t)
  BY <1>0, <1>1, <1>4 DEF DispatchSticky
<1>5. CASE DispatchAssign(t)
  <2>1. h[t].pool \in Pools /\ h[t].conc \in Concurrencies
    BY <1>0, <1>5 DEF DispatchAssign
  <2>2. PICK i \in pool[h[t].pool].inst : AssignFresh(t, h[t].pool, h[t].sess, i, h[t].conc)
    BY <1>5 DEF DispatchAssign, Recoverable, Candidates
  <2> QED BY <1>0, <1>2, <2>1, <2>2
<1>6. CASE PollAssign(t)
  <2>1. h[t].pool \in Pools /\ h[t].conc \in Concurrencies
    BY <1>0, <1>6 DEF PollAssign
  <2>2. PICK i \in pool[h[t].pool].inst : AssignFresh(t, h[t].pool, h[t].sess, i, h[t].conc)
    BY <1>6 DEF PollAssign, Candidates
  <2> QED BY <1>0, <1>2, <2>1, <2>2
<1> QED BY <1>3, <1>4, <1>5, <1>6

\* A cold start deletes the record of a session that has no binding, and so
\* none that the store has to name.
LEMMA ColdStartStore ==
  ASSUME MaxPools = 1, IInv, StoreInv, NEW t \in Handlers, ColdStart(t)
  PROVE  StoreInv'
<1>1. UNCHANGED <<pool, deleting>>
  BY DEF ColdStart
<1>2. CASE UNCHANGED record
  BY <1>1, <1>2, StoreUnchanged
<1>3. CASE record' \in SetRecord(pool[h[t].pool], {h[t].sess}, NoInstance)
  <2> DEFINE g == h[t].pool
             s == h[t].sess
  <2>1. g \in Pools /\ ~Bound(pool[g], s)
    BY HandlerFacts DEF IInv, ColdStart
  <2>2. pool' = [pool EXCEPT ![g] = pool[g]]
    BY <1>1, <2>1 DEF IInv, PoolsOK
  <2>3. Placed(pool[g], pool[g], {s}, NoInstance)
    BY <2>1 DEF Bound, NoBinding, Placed
  <2>4. PoolsOK /\ RestOK /\ UNCHANGED deleting
    BY <1>1 DEF IInv
  <2> HIDE DEF g, s
  <2> QED BY <1>3, <2>1, <2>2, <2>3, <2>4, StoreWrite DEF g, s
<1> QED BY <1>2, <1>3 DEF ColdStart

LEMMA ReturnStore ==
  ASSUME MaxPools = 1, IInv, StoreInv, NEW t \in Handlers, Return(t)
  PROVE  StoreInv'
<1> DEFINE a == h[t].lease
           p == pool[curPool]
           q == ReturnUnit(p, a)
<1>1. UNCHANGED <<record, deleting>>
  BY DEF Return
<1>2. CASE UNCHANGED pool
  BY <1>1, <1>2, StoreUnchanged
<1>3. CASE curPool # NoPool /\ pool' = [pool EXCEPT ![curPool] = ReturnUnit(p, a)]
  <2>1. curPool \in Pools /\ PoolsOK /\ PoolOK(p)
    BY <1>3, CurPoolOK DEF IInv, PoolsOK
  <2>2. q.stopped = p.stopped /\ \A u \in Sessions : q.sess[u].inst = p.sess[u].inst
    <3>1. CASE Bound(p, a.sess)
      <4> DEFINE b == UnbindOnRelease(p.sess[a.sess])
      <4>1. a.sess \in Sessions /\ p.sess[a.sess] \in Binding
        BY <2>1, <3>1, BoundBinding
      <4>2. b.inst = p.sess[a.sess].inst
        BY <4>1, UnbindOnReleaseShape
      <4>3. q = [p EXCEPT !.sess[a.sess] = b]
        BY <3>1 DEF ReturnUnit
      <4> HIDE DEF b, p, q
      <4> QED BY <2>1, <4>1, <4>2, <4>3 DEF PoolOK, PoolState
    <3>2. CASE ~Bound(p, a.sess)
      BY <2>1, <3>2 DEF ReturnUnit, PoolOK, PoolState
    <3> QED BY <3>1, <3>2
  <2> HIDE DEF q
  <2>3. Placed(p, q, {}, NoInstance)
    BY <2>2 DEF Placed
  <2> QED BY <1>1, <1>3, <2>1, <2>2, <2>3, StoreSame DEF q
<1> QED BY <1>2, <1>3 DEF Return

LEMMA SessionTimerStore ==
  ASSUME MaxPools = 1, IInv, StoreInv,
         \/ \E t \in Handlers : StartTimer(t)
         \/ \E g \in Pools, s \in Sessions : FireUnbind(g, s)
  PROVE  StoreInv'
<1>0. UNCHANGED deleting /\ PoolsOK /\ RestOK
  BY DEF StartTimer, FireUnbind, IInv
<1>1. ASSUME NEW g \in Pools, NEW s, Bound(pool[g], s), NEW timer \in {"ticking", "dead"},
             pool' = [pool EXCEPT ![g].sess[s].timer = timer], UNCHANGED record
      PROVE  StoreInv'
  <2>1. PICK q : TimerSet(g, s, timer, q)
    BY <1>1, TimerShape
  <2>2. pool[g].sess[s] \in Binding
    BY <1>1, BoundBinding DEF IInv, PoolsOK
  <2>3. q.sess[s].inst = pool[g].sess[s].inst
    BY <2>1, <2>2 DEF TimerSet, Binding
  <2>4. /\ pool' = [pool EXCEPT ![g] = q] /\ q.stopped = pool[g].stopped
        /\ Placed(pool[g], q, {}, NoInstance)
    BY <2>1, <2>3 DEF TimerSet, Placed
  <2> QED BY <1>0, <1>1, <2>4, StoreSame
<1>2. ASSUME NEW t \in Handlers, StartTimer(t) PROVE StoreInv'
  <2> DEFINE g == h[t].pool
             s == h[t].sess
  <2>0. UNCHANGED record
    BY <1>2 DEF StartTimer
  <2>1. CASE UNCHANGED pool
    BY <1>0, <2>0, <2>1, StoreUnchanged
  <2>2. CASE ~UNCHANGED pool
    <3>1. PICK timer \in {"ticking", "dead"} : pool' = [pool EXCEPT ![g].sess[s].timer = timer]
      BY <1>2, <2>2 DEF StartTimer
    <3>2. Bound(pool[g], s) /\ g \in Pools
      BY <1>2, <2>2, <3>1 DEF StartTimer, IInv, PoolsOK
    <3> HIDE DEF g, s
    <3> QED BY <1>1, <2>0, <3>1, <3>2
  <2> QED BY <2>1, <2>2
<1>3. ASSUME NEW g \in Pools, NEW s \in Sessions, FireUnbind(g, s) PROVE StoreInv'
  <2>1. Bound(pool[g], s) /\ PoolOK(pool[g])
    BY <1>3 DEF FireUnbind, IInv, PoolsOK
  <2>2. CASE pool' = [pool EXCEPT ![g].sess[s].timer = "dead"] /\ UNCHANGED record
    BY <1>1, <2>1, <2>2
  <2>3. CASE /\ pool' = [pool EXCEPT ![g] = RemoveBinding(pool[g], s)]
             /\ record' \in SetRecord(pool[g], {s}, NoInstance)
    <3> DEFINE q == RemoveBinding(pool[g], s)
    <3>1. /\ q.stopped = pool[g].stopped
          /\ \A u \in Sessions : q.sess[u] = IF u = s THEN NoBinding ELSE pool[g].sess[u]
      BY <2>1 DEF RemoveBinding, PoolOK, PoolState
    <3>2. Placed(pool[g], q, {s}, NoInstance)
      BY <3>1 DEF NoBinding, Placed
    <3> HIDE DEF q
    <3> QED BY <1>0, <2>3, <3>1, <3>2, StoreWrite DEF q
  <2> QED BY <1>3, <2>2, <2>3 DEF FireUnbind
<1> QED BY <1>2, <1>3

LEMMA ReacquireStore ==
  ASSUME MaxPools = 1, IInv, StoreInv, NEW t, NEW a \in issued, NEW c \in Concurrencies,
         ReacquireAllocation(t, a, c)
  PROVE  StoreInv'
<1>0. UNCHANGED deleting /\ PoolsOK /\ RestOK
  BY DEF ReacquireAllocation, IInv
<1>1. CASE a \in DOMAIN allocations
  BY <1>0, <1>1, StoreUnchanged DEF ReacquireAllocation
<1>2. CASE a \notin DOMAIN allocations
  <2> DEFINE p == pool[curPool]
  <2>1. PICK q : Reacquired(q, a)
    BY <1>2, ReacquireGrant
  <2>2. /\ curPool \in Pools /\ pool' = [pool EXCEPT ![curPool] = q] /\ q.stopped = p.stopped
        /\ Placed(p, q, {a.sess}, a.inst)
        /\ Bound(p, a.sess) => Placed(p, q, {}, NoInstance)
        /\ record' \in IF Bound(p, a.sess) THEN {record} ELSE SetRecord(p, {a.sess}, a.inst)
    BY <2>1 DEF Reacquired, Placed
  <2>3. CASE Bound(p, a.sess)
    BY <1>0, <2>2, <2>3, StoreSame
  <2>4. CASE ~Bound(p, a.sess)
    BY <1>0, <2>2, <2>4, StoreWrite
  <2> QED BY <2>3, <2>4
<1> QED BY <1>1, <1>2

LEMMA RegistryStore == ASSUME MaxPools = 1, IInv, StoreInv, Registry PROVE StoreInv'
<1> DEFINE p == pool[curPool]
<1>0. PoolsOK /\ RestOK /\ created \in 0 .. 1 /\ curPool \in 0 .. created
  BY DEF IInv, RegistryOK
<1>c. ASSUME curPool # NoPool
      PROVE  curPool \in Pools /\ PoolOK(p) /\ p \in PoolState
  BY <1>c, CurPoolOK DEF IInv, PoolsOK, PoolOK
<1>1. CASE UpsertPool
  BY <1>1, StoreUnchanged DEF UpsertPool
<1>2. ~DeletePool /\ ~DeleteRecords /\ ~DeleteAllocations
  BY <1>0 DEF DeletePool, DeleteRecords, DeleteAllocations, NoPool, StoreInv
<1>3. ASSUME NEW i \in Instances, InstanceUpdate(i) PROVE StoreInv'
  <2> DEFINE q == [p EXCEPT !.inst = @ \cup {i}, !.inUse[i] = 0]
  <2>1. curPool # NoPool /\ pool' = [pool EXCEPT ![curPool] = q] /\ UNCHANGED <<record, deleting>>
    BY <1>0, <1>3, <1>c DEF InstanceUpdate, PoolsOK, PoolState
  <2>2. q.sess = p.sess /\ q.stopped = p.stopped
    BY <1>c, <2>1 DEF PoolState
  <2> HIDE DEF q
  <2>3. Placed(p, q, {}, NoInstance)
    BY <2>2 DEF Placed
  <2> QED BY <1>0, <1>c, <2>1, <2>2, <2>3, StoreSame
<1>4. ASSUME NEW i \in Instances, InstanceDelete(i) PROVE StoreInv'
  <2> DEFINE q == RemoveInstance(p, i)
             S == {s \in Sessions : p.sess[s].inst = i}
  <2>1. /\ curPool # NoPool /\ pool' = [pool EXCEPT ![curPool] = q]
        /\ record' \in SetRecord(p, S, NoInstance) /\ UNCHANGED deleting
    BY <1>4 DEF InstanceDelete
  <2>2. /\ q.sess = [s \in Sessions |-> IF p.sess[s].inst = i THEN NoBinding ELSE p.sess[s]]
        /\ q.stopped = p.stopped
    BY <1>c, <2>1, RemoveInstanceShape
  <2> HIDE DEF q
  <2>3. Placed(p, q, S, NoInstance)
    BY <2>2 DEF NoBinding, Placed
  <2> HIDE DEF S
  <2> QED BY <1>0, <1>c, <2>1, <2>2, <2>3, StoreWrite
<1>5. ASSUME NEW i \in Instances, IdleReport(i) \/ IdleReset(i) PROVE StoreInv'
  <2>1. curPool # NoPool /\ UNCHANGED <<record, deleting>>
    BY <1>5 DEF IdleReport, IdleReset
  <2>2. PICK R : pool' = [pool EXCEPT ![curPool].reclaiming = R]
    BY <1>5 DEF IdleReport, IdleReset
  <2> DEFINE q == [p EXCEPT !.reclaiming = R]
  <2>3. pool' = [pool EXCEPT ![curPool] = q] /\ q.stopped = p.stopped /\ q.sess = p.sess
    BY <1>c, <2>1, <2>2 DEF PoolState
  <2> HIDE DEF q
  <2>4. Placed(p, q, {}, NoInstance)
    BY <2>3 DEF Placed
  <2> QED BY <1>0, <1>c, <2>1, <2>3, <2>4, StoreSame
<1> QED BY <1>1, <1>2, <1>3, <1>4, <1>5 DEF Registry

LEMMA NextStore ==
  ASSUME MaxPools = 1, IInv, StoreInv, [Next]_vars
  PROVE  StoreInv'
<1>0. Requests \subseteq Handlers
  BY DEF Handlers
<1>1. CASE UNCHANGED <<pool, record, deleting>>
  BY <1>1, StoreUnchanged
<1>2. ASSUME NEW t \in Requests, Call(t) PROVE StoreInv'
  <2>1. ASSUME NEW s \in SessionIDs, NEW c \in Concurrencies, AcquireMiss(t, s, c) PROVE StoreInv'
    BY <1>1, <2>1 DEF AcquireMiss
  <2>2. ASSUME NEW a \in DOMAIN allocations, ReleaseDelete(t, a) \/ RetainLookup(t, a) PROVE StoreInv'
    BY <1>1, <2>2 DEF ReleaseDelete, RetainLookup
  <2> QED BY <1>0, <1>2, <2>1, <2>2, AcquireStore, ReacquireStore DEF Call
<1>3. ASSUME NEW t \in Handlers, Proceed(t) PROVE StoreInv'
  <2>1. CASE DispatchReject(t) \/ PollTimeout(t) \/ ReleaseDelTask(t)
             \/ RetainRefresh(t) \/ RetainUpdate(t) \/ RetainDrop(t) \/ RetainForget(t)
    BY <1>1, <2>1 DEF DispatchReject, PollTimeout, ReleaseDelTask,
                      RetainRefresh, RetainUpdate, RetainDrop, RetainForget
  <2> QED BY <1>3, <2>1, AcquireStore, ColdStartStore, ReturnStore, SessionTimerStore DEF Proceed
<1>4. CASE ReapDelete \/ (\E a \in DOMAIN wheel : WheelFire(a)) \/ UNCHANGED vars
  BY <1>1, <1>4 DEF ReapDelete, WheelFire, vars
<1> QED BY <1>2, <1>3, <1>4, SessionTimerStore, RegistryStore DEF Next

\* As long as the function's pool is not deleted, the operations enqueued for the
\* session store amount to the bindings, whatever requests, retains, timers and
\* instance events interleave and whichever operations a full queue drops: after
\* an accepted operation no record names an instance the session is not bound to,
\* and no unbound session has a record to recover from.
THEOREM StoreFollows ==
  ASSUME MaxPools = 1
  PROVE  Spec => []StoreFollowsBinding
<1>1. Init => StoreInv
  BY DEF Init, StoreInv, EmptyPool, NoBinding
<1>2. IInv /\ StoreInv /\ [Next]_vars => StoreInv'
  BY NextStore
<1>3. IInv /\ StoreInv => StoreFollowsBinding
  BY CurPoolOK DEF IInv, StoreInv, StoreFollowsBinding
<1> QED BY <1>1, <1>2, <1>3, Invariance, PTL DEF Spec

-----------------------------------------------------------------------------
(***************************************************************************)
(* Counting units.  A unit that is handed out is in the allocation map, or *)
(* with a handler that has taken it out and not yet returned it.           *)
(***************************************************************************)

Back(r) == r.pc \in {"deltask", "return"}
Live(al, S) == {a \in DOMAIN al : a \in S}
Coming(hs, S) == {t \in Handlers : Back(hs[t]) /\ hs[t].lease \in S}
UnitsIn(al, hs, S) == Cardinality(Live(al, S)) + Cardinality(Coming(hs, S))
One(a, S) == IF a \in S THEN 1 ELSE 0
Weight(r, S) == IF Back(r) THEN One(r.lease, S) ELSE 0

\* Handler t goes on with r.
Moved(hs, hs2, t, r) == \A u \in Handlers : hs2[u] = IF u = t THEN r ELSE hs[u]

LEMMA HandlersFinite == IsFiniteSet(Handlers)
  BY LitePoolFinite, FS_AddElement DEF Handlers

LEMMA UnitsNat ==
  ASSUME NEW al, IsFiniteSet(DOMAIN al), NEW hs, NEW S
  PROVE  /\ IsFiniteSet(Live(al, S)) /\ IsFiniteSet(Coming(hs, S))
         /\ Cardinality(Live(al, S)) \in Nat /\ Cardinality(Coming(hs, S)) \in Nat
         /\ UnitsIn(al, hs, S) \in Nat
<1>1. IsFiniteSet(Live(al, S)) /\ IsFiniteSet(Coming(hs, S))
  BY HandlersFinite, FS_Subset DEF Live, Coming
<1> QED BY <1>1, FS_CardinalityType DEF UnitsIn

LEMMA ComingStep ==
  ASSUME NEW hs, NEW hs2, NEW t \in Handlers, NEW r, Moved(hs, hs2, t, r), NEW S
  PROVE  Cardinality(Coming(hs2, S)) = Cardinality(Coming(hs, S)) - Weight(hs[t], S) + Weight(r, S)
<1> DEFINE A == Coming(hs, S)
           B == Coming(hs2, S)
<1>1. IsFiniteSet(A) /\ IsFiniteSet(B)
  BY HandlersFinite, FS_Subset DEF Coming
<1>2. A \ {t} = B \ {t}
  BY DEF Coming, Moved
<1>3. (t \in A <=> Back(hs[t]) /\ hs[t].lease \in S) /\ (t \in B <=> Back(r) /\ r.lease \in S)
  BY DEF Coming, Moved
<1> HIDE DEF A, B
<1>4. Cardinality(B) = Cardinality(A) - (IF t \in A THEN 1 ELSE 0) + (IF t \in B THEN 1 ELSE 0)
  BY ONLY <1>1, <1>2, CardChange
<1> QED BY <1>3, <1>4 DEF A, B, Weight, One

LEMMA LiveStep ==
  ASSUME NEW al, IsFiniteSet(DOMAIN al), NEW al2, IsFiniteSet(DOMAIN al2), NEW a,
         DOMAIN al \ {a} = DOMAIN al2 \ {a}, NEW S
  PROVE  Cardinality(Live(al2, S)) = Cardinality(Live(al, S)) - (IF a \in DOMAIN al THEN One(a, S) ELSE 0)
                                     + (IF a \in DOMAIN al2 THEN One(a, S) ELSE 0)
<1> DEFINE A == Live(al, S)
           B == Live(al2, S)
<1>1. IsFiniteSet(A) /\ IsFiniteSet(B)
  BY FS_Subset DEF Live
<1>2. A \ {a} = B \ {a} /\ (a \in A <=> a \in DOMAIN al /\ a \in S) /\ (a \in B <=> a \in DOMAIN al2 /\ a \in S)
  BY DEF Live
<1> HIDE DEF A, B
<1>3. Cardinality(B) = Cardinality(A) - (IF a \in A THEN 1 ELSE 0) + (IF a \in B THEN 1 ELSE 0)
  BY ONLY <1>1, <1>2, CardChange
<1> QED BY <1>2, <1>3 DEF A, B, One

LEMMA MapAdd ==
  ASSUME NEW al, IsFiniteSet(DOMAIN al), NEW a, NEW g
  PROVE  DOMAIN Put(al, a, g) = DOMAIN al \cup {a} /\ IsFiniteSet(DOMAIN Put(al, a, g))
<1>1. DOMAIN Put(al, a, g) = DOMAIN al \cup {a}
  BY DEF Put
<1> QED BY <1>1, FS_AddElement

LEMMA MapDrop ==
  ASSUME NEW al, IsFiniteSet(DOMAIN al), NEW a
  PROVE  /\ DOMAIN Restrict(al, DOMAIN al \ {a}) = DOMAIN al \ {a}
         /\ IsFiniteSet(DOMAIN Restrict(al, DOMAIN al \ {a}))
<1>1. DOMAIN Restrict(al, DOMAIN al \ {a}) = DOMAIN al \ {a}
  BY RestrictFunction
<1> QED BY <1>1, FS_RemoveElement

LEMMA WeightNat ==
  ASSUME NEW r, NEW S
  PROVE  Weight(r, S) \in {0, 1} /\ (Weight(r, S) = 1 <=> Back(r) /\ r.lease \in S)
  BY DEF Weight, One

\* A lease is granted.
LEMMA UnitsAdd ==
  ASSUME NEW al, IsFiniteSet(DOMAIN al), NEW a, a \notin DOMAIN al,
         NEW al2, DOMAIN al2 = DOMAIN al \cup {a}, IsFiniteSet(DOMAIN al2),
         NEW hs, NEW hs2, NEW t \in Handlers, NEW r, Moved(hs, hs2, t, r), ~Back(hs[t]), ~Back(r), NEW S
  PROVE  UnitsIn(al2, hs2, S) = UnitsIn(al, hs, S) + One(a, S)
<1>0. DOMAIN al \ {a} = DOMAIN al2 \ {a} /\ a \in DOMAIN al2
  OBVIOUS
<1>1. Cardinality(Live(al2, S)) = Cardinality(Live(al, S)) - (IF a \in DOMAIN al THEN One(a, S) ELSE 0)
                                     + (IF a \in DOMAIN al2 THEN One(a, S) ELSE 0)
  BY <1>0, LiveStep
<1>2. Cardinality(Coming(hs2, S)) = Cardinality(Coming(hs, S)) - Weight(hs[t], S) + Weight(r, S)
  BY ComingStep
<1>3. Weight(hs[t], S) = 0 /\ Weight(r, S) = 0 /\ One(a, S) \in Nat
  BY DEF Weight, One
<1>4. Cardinality(Live(al, S)) \in Nat /\ Cardinality(Coming(hs, S)) \in Nat
  BY UnitsNat
<1> QED BY <1>0, <1>1, <1>2, <1>3, <1>4 DEF UnitsIn

\* A lease leaves the map and is on its way back.
LEMMA UnitsDrop ==
  ASSUME NEW al, IsFiniteSet(DOMAIN al), NEW a \in DOMAIN al,
         NEW al2, DOMAIN al2 = DOMAIN al \ {a}, IsFiniteSet(DOMAIN al2),
         NEW hs, NEW hs2, NEW t \in Handlers, NEW r, Moved(hs, hs2, t, r), ~Back(hs[t]),
         Back(r), r.lease = a, NEW S
  PROVE  UnitsIn(al2, hs2, S) = UnitsIn(al, hs, S)
<1>0. DOMAIN al \ {a} = DOMAIN al2 \ {a} /\ a \notin DOMAIN al2
  OBVIOUS
<1>1. Cardinality(Live(al2, S)) = Cardinality(Live(al, S)) - (IF a \in DOMAIN al THEN One(a, S) ELSE 0)
                                     + (IF a \in DOMAIN al2 THEN One(a, S) ELSE 0)
  BY <1>0, LiveStep
<1>2. Cardinality(Coming(hs2, S)) = Cardinality(Coming(hs, S)) - Weight(hs[t], S) + Weight(r, S)
  BY ComingStep
<1>3. Weight(hs[t], S) = 0 /\ Weight(r, S) = One(a, S) /\ One(a, S) \in Nat
  BY DEF Weight, One
<1>4. Cardinality(Live(al, S)) \in Nat /\ Cardinality(Coming(hs, S)) \in Nat
  BY UnitsNat
<1> QED BY <1>0, <1>1, <1>2, <1>3, <1>4 DEF UnitsIn

\* The map stays.
LEMMA UnitsMove ==
  ASSUME NEW al, IsFiniteSet(DOMAIN al), NEW hs, NEW hs2, NEW t \in Handlers, NEW r, Moved(hs, hs2, t, r), NEW S
  PROVE  UnitsIn(al, hs2, S) = UnitsIn(al, hs, S) - Weight(hs[t], S) + Weight(r, S)
<1>1. Cardinality(Coming(hs2, S)) = Cardinality(Coming(hs, S)) - Weight(hs[t], S) + Weight(r, S)
  BY ComingStep
<1>2. Cardinality(Live(al, S)) \in Nat /\ Cardinality(Coming(hs, S)) \in Nat
  BY UnitsNat
<1>3. Weight(hs[t], S) \in Nat /\ Weight(r, S) \in Nat
  BY WeightNat
<1> QED BY <1>1, <1>2, <1>3 DEF UnitsIn

\* A unit on its way back is counted, and so is a lease in the map.
LEMMA UnitsSome ==
  ASSUME NEW al, IsFiniteSet(DOMAIN al), NEW hs, NEW S,
         \/ \E a \in DOMAIN al : a \in S
         \/ \E t \in Handlers : Back(hs[t]) /\ hs[t].lease \in S
  PROVE  UnitsIn(al, hs, S) >= 1
<1>1. /\ IsFiniteSet(Live(al, S)) /\ IsFiniteSet(Coming(hs, S))
      /\ Cardinality(Live(al, S)) \in Nat /\ Cardinality(Coming(hs, S)) \in Nat
  BY UnitsNat
<1>2. Live(al, S) # {} \/ Coming(hs, S) # {}
  BY DEF Live, Coming
<1>3. Cardinality(Live(al, S)) # 0 \/ Cardinality(Coming(hs, S)) # 0
  BY <1>1, <1>2, FS_EmptySet
<1> QED BY <1>1, <1>3 DEF UnitsIn

LEMMA UnitsNone ==
  ASSUME NEW al, NEW hs, NEW S, \A a \in DOMAIN al : a \notin S,
         \A t \in Handlers : Back(hs[t]) => hs[t].lease \notin S
  PROVE  UnitsIn(al, hs, S) = 0
<1>1. Live(al, S) = {} /\ Coming(hs, S) = {}
  BY DEF Live, Coming
<1> QED BY <1>1, FS_EmptySet DEF UnitsIn

-----------------------------------------------------------------------------
(***************************************************************************)
(* The accounts of one pool, and the kinds of steps that keep them.        *)
(***************************************************************************)

OfSession(s) == {a \in Lease : a.sess = s}
FreeOn(i) == {a \in Lease : a.sess = NoSession /\ a.inst = i}
Active(p, s) == IF Bound(p, s) THEN p.sess[s].active ELSE 0

Counted(p, al, hs) == \A s \in Sessions : UnitsIn(al, hs, OfSession(s)) = Active(p, s)
Exact(p, al, hs) == \A i \in Instances : UnitsIn(al, hs, FreeOn(i)) = Slack(p, i)
Affine(p, al) == \A a \in DOMAIN al : Bound(p, a.sess) => a.inst = p.sess[a.sess].inst
Rooted(p, hs) == \A t \in Handlers : Back(hs[t]) => hs[t].lease \in Lease /\ hs[t].lease.inst \in p.inst

Accounts(p, al, hs) ==
  Counted(p, al, hs) /\ Exact(p, al, hs) /\ Affine(p, al) /\ Rooted(p, hs)

SameSlack(p, q) == \A j \in Instances : Slack(q, j) = Slack(p, j)
OthersKept(p, q, s) == \A u \in Sessions \ {s} : q.sess[u] = p.sess[u]

\* Session s takes one more unit on i.
Takes(p, q, s, i) ==
  /\ s \in Sessions /\ q.sess[s] \in Binding /\ q.sess[s].inst = i
  /\ q.sess[s].active = Active(p, s) + 1
  /\ Bound(p, s) => p.sess[s].inst = i
  /\ OthersKept(p, q, s) /\ SameSlack(p, q)

\* A request without a session takes a unit of i, or gives one back.
UsesOneMore(p, q, i) ==
  /\ q.sess = p.sess
  /\ \A j \in Instances : q.inUse[j] = IF j = i THEN p.inUse[j] + 1 ELSE p.inUse[j]
UsesOneLess(p, q, i) ==
  /\ q.sess = p.sess
  /\ \A j \in Instances : q.inUse[j] = IF j = i THEN p.inUse[j] - 1 ELSE p.inUse[j]

\* Session s gives a unit back.
Gives(p, q, s) ==
  /\ Bound(p, s) /\ q.sess[s] = UnbindOnRelease(p.sess[s])
  /\ OthersKept(p, q, s) /\ SameSlack(p, q) /\ q.inUse = p.inUse

LEMMA SlackMoves ==
  ASSUME NEW p, p \in PoolState, NEW q, q.sess = p.sess, NEW i \in Instances, NEW j \in Instances,
         NEW d \in Int, q.inUse[j] = IF j = i THEN p.inUse[j] + d ELSE p.inUse[j]
  PROVE  Slack(q, j) = Slack(p, j) + IF j = i THEN d ELSE 0
<1>1. BoundTo(q, j) = BoundTo(p, j)
  BY DEF BoundTo, Bound
<1>2. SumHeld(q, j) = SumHeld(p, j)
  BY <1>1 DEF SumHeld
<1>3. SumHeld(p, j) \in Nat /\ p.inUse[j] \in Nat
  BY SumHeldNat DEF PoolState
<1> QED BY <1>2, <1>3 DEF Slack

LEMMA ActiveNat ==
  ASSUME NEW p, p \in PoolState, NEW s \in Sessions
  PROVE  Active(p, s) \in Nat
  BY DEF Active, Bound, PoolState, Binding

\* A session's lease is granted.
LEMMA TakeAccounts ==
  ASSUME NEW p, PoolOK(p), NEW q, PoolOK(q), q.inst = p.inst,
         NEW al, IsFiniteSet(DOMAIN al), DOMAIN al \subseteq Lease, NEW hs, Accounts(p, al, hs),
         NEW a \in Lease, a \notin DOMAIN al, NEW al2, DOMAIN al2 = DOMAIN al \cup {a}, IsFiniteSet(DOMAIN al2),
         NEW hs2, NEW t \in Handlers, NEW r, Moved(hs, hs2, t, r), ~Back(hs[t]), ~Back(r),
         Takes(p, q, a.sess, a.inst)
  PROVE  Accounts(q, al2, hs2)
<1> DEFINE s == a.sess
<1>0. s \in Sessions /\ p \in PoolState /\ q \in PoolState /\ a.inst \in Instances
  BY DEF Takes, PoolOK, Lease
<1>b. Bound(q, s)
  BY <1>0, NoBindingIsNoBinding DEF Takes, Bound
<1>u. \A S : UnitsIn(al2, hs2, S) = UnitsIn(al, hs, S) + One(a, S)
  <2> TAKE S
  <2> QED BY ONLY UnitsAdd, IsFiniteSet(DOMAIN al), a \notin DOMAIN al, DOMAIN al2 = DOMAIN al \cup {a},
                  IsFiniteSet(DOMAIN al2), t \in Handlers, Moved(hs, hs2, t, r), ~Back(hs[t]), ~Back(r)
<1>1. Counted(q, al2, hs2)
  <2> SUFFICES ASSUME NEW v \in Sessions PROVE UnitsIn(al2, hs2, OfSession(v)) = Active(q, v)
    BY DEF Counted
  <2>1. UnitsIn(al, hs, OfSession(v)) = Active(p, v) /\ Active(p, v) \in Nat
    BY <1>0, ActiveNat DEF Accounts, Counted
  <2>2. One(a, OfSession(v)) = IF v = s THEN 1 ELSE 0
    BY DEF One, OfSession
  <2>3. Active(q, v) = Active(p, v) + IF v = s THEN 1 ELSE 0
    <3>1. CASE v = s
      BY <1>b, <3>1 DEF Active, Takes
    <3>2. CASE v # s
      <4>1. q.sess[v] = p.sess[v]
        BY <3>2 DEF Takes, OthersKept
      <4> QED BY <2>1, <3>2, <4>1 DEF Active, Bound
    <3> QED BY <3>1, <3>2
  <2> QED BY <1>u, <2>1, <2>2, <2>3
<1>2. Exact(q, al2, hs2)
  <2> SUFFICES ASSUME NEW i \in Instances PROVE UnitsIn(al2, hs2, FreeOn(i)) = Slack(q, i)
    BY DEF Exact
  <2>1. One(a, FreeOn(i)) = 0
    BY <1>0, LitePoolAssumption DEF One, FreeOn
  <2>2. UnitsIn(al, hs, FreeOn(i)) = Slack(p, i) /\ Slack(p, i) \in Int /\ Slack(q, i) = Slack(p, i)
    BY <1>0, SlackInt DEF Accounts, Exact, Takes, SameSlack
  <2> QED BY <1>u, <2>1, <2>2
<1>3. Affine(q, al2)
  <2> SUFFICES ASSUME NEW b \in DOMAIN al2, Bound(q, b.sess) PROVE b.inst = q.sess[b.sess].inst
    BY DEF Affine
  <2>1. CASE b = a
    BY <2>1 DEF Takes
  <2>2. CASE b # a /\ b.sess # s
    <3>1. q.sess[b.sess] = p.sess[b.sess] /\ b \in DOMAIN al
      BY <2>2 DEF Takes, OthersKept, Bound
    <3> QED BY <3>1 DEF Accounts, Affine, Bound
  <2>3. CASE b # a /\ b.sess = s
    <3>1. b \in DOMAIN al /\ b \in OfSession(s)
      BY <2>3 DEF OfSession
    <3>2. UnitsIn(al, hs, OfSession(s)) >= 1
      BY <3>1, UnitsSome
    <3>3. Active(p, s) >= 1
      BY <1>0, <3>2 DEF Accounts, Counted
    <3>4. Bound(p, s)
      BY <3>3 DEF Active
    <3> QED BY <2>3, <3>1, <3>4 DEF Accounts, Affine, Takes
  <2> QED BY <2>1, <2>2, <2>3
<1>4. Rooted(q, hs2)
  BY DEF Accounts, Rooted, Moved
<1> QED BY <1>1, <1>2, <1>3, <1>4 DEF Accounts

\* A lease without a session is granted.
LEMMA UseAccounts ==
  ASSUME NEW p, PoolOK(p), NEW q, PoolOK(q), q.inst = p.inst,
         NEW al, IsFiniteSet(DOMAIN al), DOMAIN al \subseteq Lease, NEW hs, Accounts(p, al, hs),
         NEW a \in Lease, a \notin DOMAIN al, NEW al2, DOMAIN al2 = DOMAIN al \cup {a}, IsFiniteSet(DOMAIN al2),
         NEW hs2, NEW t \in Handlers, NEW r, Moved(hs, hs2, t, r), ~Back(hs[t]), ~Back(r),
         a.sess = NoSession, UsesOneMore(p, q, a.inst)
  PROVE  Accounts(q, al2, hs2)
<1>0. NoSession \notin Sessions /\ p \in PoolState /\ q \in PoolState /\ a.inst \in Instances /\ q.sess = p.sess
  BY LitePoolAssumption DEF UsesOneMore, PoolOK, Lease
<1>u. \A S : UnitsIn(al2, hs2, S) = UnitsIn(al, hs, S) + One(a, S)
  <2> TAKE S
  <2> QED BY ONLY UnitsAdd, IsFiniteSet(DOMAIN al), a \notin DOMAIN al, DOMAIN al2 = DOMAIN al \cup {a},
                  IsFiniteSet(DOMAIN al2), t \in Handlers, Moved(hs, hs2, t, r), ~Back(hs[t]), ~Back(r)
<1>1. Counted(q, al2, hs2)
  <2> SUFFICES ASSUME NEW v \in Sessions PROVE UnitsIn(al2, hs2, OfSession(v)) = Active(q, v)
    BY DEF Counted
  <2>1. UnitsIn(al, hs, OfSession(v)) = Active(p, v) /\ Active(p, v) \in Nat
    BY <1>0, ActiveNat DEF Accounts, Counted
  <2>2. One(a, OfSession(v)) = 0
    BY <1>0 DEF One, OfSession
  <2>3. Active(q, v) = Active(p, v)
    BY <1>0 DEF Active, Bound
  <2> QED BY <1>u, <2>1, <2>2, <2>3
<1>2. Exact(q, al2, hs2)
  <2> SUFFICES ASSUME NEW i \in Instances PROVE UnitsIn(al2, hs2, FreeOn(i)) = Slack(q, i)
    BY DEF Exact
  <2>1. One(a, FreeOn(i)) = IF i = a.inst THEN 1 ELSE 0
    BY DEF One, FreeOn
  <2>2. UnitsIn(al, hs, FreeOn(i)) = Slack(p, i) /\ Slack(p, i) \in Int
    BY <1>0, SlackInt DEF Accounts, Exact
  <2>3. q.inUse[i] = (IF i = a.inst THEN p.inUse[i] + 1 ELSE p.inUse[i]) /\ 1 \in Int
    BY DEF UsesOneMore
  <2>4. Slack(q, i) = Slack(p, i) + IF i = a.inst THEN 1 ELSE 0
    BY <1>0, <2>3, SlackMoves
  <2> QED BY <1>u, <2>1, <2>2, <2>4
<1>3. Affine(q, al2)
  <2> SUFFICES ASSUME NEW b \in DOMAIN al2, Bound(q, b.sess) PROVE b.inst = q.sess[b.sess].inst
    BY DEF Affine
  <2>1. b # a
    BY <1>0 DEF Bound
  <2> QED BY <1>0, <2>1 DEF Accounts, Affine, Bound
<1>4. Rooted(q, hs2)
  BY DEF Accounts, Rooted, Moved
<1> QED BY <1>1, <1>2, <1>3, <1>4 DEF Accounts

\* A lease leaves the map and its unit is on its way back.
LEMMA DropAccounts ==
  ASSUME NEW p, PoolOK(p),
         NEW al, IsFiniteSet(DOMAIN al), DOMAIN al \subseteq Lease, NEW hs, Accounts(p, al, hs),
         NEW a \in DOMAIN al, a.inst \in p.inst,
         NEW al2, DOMAIN al2 = DOMAIN al \ {a}, IsFiniteSet(DOMAIN al2),
         NEW hs2, NEW t \in Handlers, NEW r, Moved(hs, hs2, t, r), ~Back(hs[t]), Back(r), r.lease = a
  PROVE  Accounts(p, al2, hs2)
<1>u. \A S : UnitsIn(al2, hs2, S) = UnitsIn(al, hs, S)
  <2> TAKE S
  <2> QED BY ONLY UnitsDrop, IsFiniteSet(DOMAIN al), a \in DOMAIN al, DOMAIN al2 = DOMAIN al \ {a},
                  IsFiniteSet(DOMAIN al2), t \in Handlers, Moved(hs, hs2, t, r), ~Back(hs[t]), Back(r), r.lease = a
<1>1. Counted(p, al2, hs2) /\ Exact(p, al2, hs2)
  BY <1>u DEF Accounts, Counted, Exact
<1>2. Affine(p, al2) /\ Rooted(p, hs2)
  BY DEF Accounts, Affine, Rooted, Moved
<1> QED BY <1>1, <1>2 DEF Accounts

\* The unit of a session's lease is back in the reservation.
LEMMA GiveAccounts ==
  ASSUME NEW p, PoolOK(p), NEW q, PoolOK(q), q.inst = p.inst,
         NEW al, IsFiniteSet(DOMAIN al), NEW hs, Accounts(p, al, hs),
         NEW hs2, NEW t \in Handlers, NEW r, Moved(hs, hs2, t, r), Back(hs[t]), ~Back(r),
         Gives(p, q, hs[t].lease.sess)
  PROVE  Accounts(q, al, hs2)
<1> DEFINE a == hs[t].lease
           s == a.sess
<1>0. a \in Lease /\ p \in PoolState /\ q \in PoolState
  BY DEF Accounts, Rooted, PoolOK
<1>b. s \in Sessions /\ p.sess[s] \in Binding /\ Bound(p, s)
  BY BoundBinding DEF Gives
<1>c. /\ q.sess[s] \in Binding /\ q.sess[s].inst = p.sess[s].inst
      /\ q.sess[s].active = IF p.sess[s].active > 0 THEN p.sess[s].active - 1 ELSE 0
  BY <1>b, UnbindOnReleaseShape DEF Gives
<1>d. Bound(q, s)
  BY <1>b, <1>c, NoBindingIsNoBinding DEF Bound
<1>u. \A S : UnitsIn(al, hs2, S) = UnitsIn(al, hs, S) - One(a, S)
  <2> TAKE S
  <2>1. UnitsIn(al, hs2, S) = UnitsIn(al, hs, S) - Weight(hs[t], S) + Weight(r, S)
    BY ONLY UnitsMove, IsFiniteSet(DOMAIN al), t \in Handlers, Moved(hs, hs2, t, r)
  <2>2. Weight(hs[t], S) = One(a, S) /\ Weight(r, S) = 0 /\ One(a, S) \in Nat
    BY DEF Weight, One
  <2>3. UnitsIn(al, hs, S) \in Nat
    BY UnitsNat
  <2> QED BY <2>1, <2>2, <2>3
<1>1. Counted(q, al, hs2)
  <2> SUFFICES ASSUME NEW v \in Sessions PROVE UnitsIn(al, hs2, OfSession(v)) = Active(q, v)
    BY DEF Counted
  <2>1. UnitsIn(al, hs, OfSession(v)) = Active(p, v) /\ Active(p, v) \in Nat
    BY <1>0, ActiveNat DEF Accounts, Counted
  <2>2. One(a, OfSession(v)) = IF v = s THEN 1 ELSE 0
    BY <1>0 DEF One, OfSession
  <2>3. CASE v = s
    <3>1. UnitsIn(al, hs, OfSession(v)) >= 1
      <4>1. \E u \in Handlers : Back(hs[u]) /\ hs[u].lease \in OfSession(v)
        BY <1>0, <2>3 DEF OfSession
      <4> QED BY <4>1, UnitsSome
    <3>2. Active(p, v) = p.sess[s].active /\ Active(q, v) = q.sess[s].active
      BY <1>b, <1>d, <2>3 DEF Active
    <3>3. Active(q, v) = Active(p, v) - 1
      BY <1>c, <2>1, <3>1, <3>2
    <3> QED BY <1>u, <2>1, <2>2, <2>3, <3>3
  <2>4. CASE v # s
    <3>1. q.sess[v] = p.sess[v]
      BY <2>4 DEF Gives, OthersKept
    <3>2. Active(q, v) = Active(p, v)
      BY <3>1 DEF Active, Bound
    <3> QED BY <1>u, <2>1, <2>2, <2>4, <3>2
  <2> QED BY <2>3, <2>4
<1>2. Exact(q, al, hs2)
  <2> SUFFICES ASSUME NEW i \in Instances PROVE UnitsIn(al, hs2, FreeOn(i)) = Slack(q, i)
    BY DEF Exact
  <2>1. One(a, FreeOn(i)) = 0
    BY <1>b, LitePoolAssumption DEF One, FreeOn
  <2>2. UnitsIn(al, hs, FreeOn(i)) = Slack(p, i) /\ Slack(p, i) \in Int /\ Slack(q, i) = Slack(p, i)
    BY <1>0, SlackInt DEF Accounts, Exact, Gives, SameSlack
  <2> QED BY <1>u, <2>1, <2>2
<1>3. Affine(q, al)
  <2> SUFFICES ASSUME NEW b \in DOMAIN al, Bound(q, b.sess) PROVE b.inst = q.sess[b.sess].inst
    BY DEF Affine
  <2>1. CASE b.sess = s
    BY <1>b, <1>c, <2>1 DEF Accounts, Affine
  <2>2. CASE b.sess # s
    <3>1. q.sess[b.sess] = p.sess[b.sess]
      BY <2>2 DEF Gives, OthersKept, Bound
    <3> QED BY <3>1 DEF Accounts, Affine, Bound
  <2> QED BY <2>1, <2>2
<1>4. Rooted(q, hs2)
  BY DEF Accounts, Rooted, Moved
<1> QED BY <1>1, <1>2, <1>3, <1>4 DEF Accounts

\* The unit of a lease without a session is back on the instance.
LEMMA FreeAccounts ==
  ASSUME NEW p, PoolOK(p), NEW q, PoolOK(q), q.inst = p.inst,
         NEW al, IsFiniteSet(DOMAIN al), NEW hs, Accounts(p, al, hs),
         NEW hs2, NEW t \in Handlers, NEW r, Moved(hs, hs2, t, r), Back(hs[t]), ~Back(r),
         hs[t].lease.sess = NoSession, UsesOneLess(p, q, hs[t].lease.inst)
  PROVE  Accounts(q, al, hs2)
<1> DEFINE a == hs[t].lease
<1>0. a \in Lease /\ p \in PoolState /\ q \in PoolState /\ a.inst \in Instances /\ q.sess = p.sess
      /\ NoSession \notin Sessions
  BY LitePoolAssumption DEF Accounts, Rooted, PoolOK, UsesOneLess, Lease
<1>u. \A S : UnitsIn(al, hs2, S) = UnitsIn(al, hs, S) - One(a, S)
  <2> TAKE S
  <2>1. UnitsIn(al, hs2, S) = UnitsIn(al, hs, S) - Weight(hs[t], S) + Weight(r, S)
    BY ONLY UnitsMove, IsFiniteSet(DOMAIN al), t \in Handlers, Moved(hs, hs2, t, r)
  <2>2. Weight(hs[t], S) = One(a, S) /\ Weight(r, S) = 0 /\ One(a, S) \in Nat
    BY DEF Weight, One
  <2>3. UnitsIn(al, hs, S) \in Nat
    BY UnitsNat
  <2> QED BY <2>1, <2>2, <2>3
<1>1. Counted(q, al, hs2)
  <2> SUFFICES ASSUME NEW v \in Sessions PROVE UnitsIn(al, hs2, OfSession(v)) = Active(q, v)
    BY DEF Counted
  <2>1. UnitsIn(al, hs, OfSession(v)) = Active(p, v) /\ Active(p, v) \in Nat
    BY <1>0, ActiveNat DEF Accounts, Counted
  <2>2. One(a, OfSession(v)) = 0
    BY <1>0 DEF One, OfSession
  <2>3. Active(q, v) = Active(p, v)
    BY <1>0 DEF Active, Bound
  <2> QED BY <1>u, <2>1, <2>2, <2>3
<1>2. Exact(q, al, hs2)
  <2> SUFFICES ASSUME NEW i \in Instances PROVE UnitsIn(al, hs2, FreeOn(i)) = Slack(q, i)
    BY DEF Exact
  <2>1. One(a, FreeOn(i)) = IF i = a.inst THEN 1 ELSE 0
    BY <1>0 DEF One, FreeOn
  <2>2. UnitsIn(al, hs, FreeOn(i)) = Slack(p, i) /\ Slack(p, i) \in Int
    BY <1>0, SlackInt DEF Accounts, Exact
  <2>3. q.inUse[i] = (IF i = a.inst THEN p.inUse[i] + (-1) ELSE p.inUse[i]) /\ -1 \in Int
    BY <1>0 DEF UsesOneLess, PoolState
  <2>4. Slack(q, i) = Slack(p, i) + IF i = a.inst THEN -1 ELSE 0
    BY <1>0, <2>3, SlackMoves
  <2> QED BY <1>u, <2>1, <2>2, <2>4
<1>3. Affine(q, al) /\ Rooted(q, hs2)
  BY <1>0 DEF Accounts, Affine, Bound, Rooted, Moved
<1> QED BY <1>1, <1>2, <1>3 DEF Accounts

\* The units stay where they are: an idle session may go, an instance may come.
Resting(p, q) ==
  /\ p.inst \subseteq q.inst
  /\ \A s \in Sessions : Active(q, s) = Active(p, s) /\ (Bound(q, s) => Bound(p, s) /\ q.sess[s].inst = p.sess[s].inst)
  /\ \A j \in Instances : Slack(q, j) = Slack(p, j) \/ (j \notin p.inst /\ Slack(q, j) = 0)

LEMMA RestAccounts ==
  ASSUME NEW p, PoolOK(p), NEW q, PoolOK(q), Resting(p, q),
         NEW al, IsFiniteSet(DOMAIN al), \A a \in DOMAIN al : a.inst \in p.inst, NEW hs, Accounts(p, al, hs),
         NEW hs2, NEW t \in Handlers, NEW r, Moved(hs, hs2, t, r),
         Back(r) <=> Back(hs[t]), Back(r) => r.lease = hs[t].lease
  PROVE  Accounts(q, al, hs2)
<1>u. \A S : UnitsIn(al, hs2, S) = UnitsIn(al, hs, S)
  <2> TAKE S
  <2>1. UnitsIn(al, hs2, S) = UnitsIn(al, hs, S) - Weight(hs[t], S) + Weight(r, S)
    BY ONLY UnitsMove, IsFiniteSet(DOMAIN al), t \in Handlers, Moved(hs, hs2, t, r)
  <2>2. Weight(hs[t], S) = Weight(r, S) /\ Weight(r, S) \in Nat
    BY DEF Weight, One
  <2>3. UnitsIn(al, hs, S) \in Nat
    BY UnitsNat
  <2> QED BY <2>1, <2>2, <2>3
<1>1. Counted(q, al, hs2)
  BY <1>u DEF Accounts, Counted, Resting
<1>2. Exact(q, al, hs2)
  <2> SUFFICES ASSUME NEW i \in Instances PROVE UnitsIn(al, hs2, FreeOn(i)) = Slack(q, i)
    BY DEF Exact
  <2>1. CASE Slack(q, i) = Slack(p, i)
    BY <1>u, <2>1 DEF Accounts, Exact
  <2>2. CASE i \notin p.inst /\ Slack(q, i) = 0
    <3>1. \A a \in DOMAIN al : a \notin FreeOn(i)
      BY <2>2 DEF FreeOn
    <3>2. \A u \in Handlers : Back(hs[u]) => hs[u].lease \notin FreeOn(i)
      BY <2>2 DEF Accounts, Rooted, FreeOn
    <3> QED BY <1>u, <2>2, <3>1, <3>2, UnitsNone
  <2> QED BY <2>1, <2>2 DEF Resting
<1>3. Affine(q, al)
  <2>1. \A s : Bound(q, s) => Bound(p, s) /\ q.sess[s].inst = p.sess[s].inst
    BY DEF Resting, Bound
  <2> QED BY <2>1 DEF Accounts, Affine
<1>4. Rooted(q, hs2)
  BY DEF Accounts, Rooted, Moved, Resting
<1> QED BY <1>1, <1>2, <1>3, <1>4 DEF Accounts

-----------------------------------------------------------------------------
(***************************************************************************)
(* The kinds of steps of a pool that is never deleted, loses no instance   *)
(* and lets no request poll for a slot.                                    *)
(***************************************************************************)

Steady == MaxPools = 1 /\ Removable = {} /\ ~AcquireWait

AccInv ==
  /\ deleting.pc = "idle"
  /\ IsFiniteSet(DOMAIN allocations)
  /\ \A g \in Pools : Accounts(pool[g], allocations, h)
  /\ \A g \in Pools, a \in DOMAIN allocations \cup issued : a.seq <= pool[g].seq
  /\ \A t \in Handlers : h[t].pc \notin {"wait", "drop"}
  /\ curPool = NoPool => DOMAIN allocations = {} /\ \A t \in Handlers : h[t].pc = "idle"

\* Pool g becomes q and handler t goes on with r.
Change(g, q, t, r) ==
  /\ g \in Pools /\ PoolOK(q) /\ pool' = [pool EXCEPT ![g] = q] /\ pool[g].seq <= q.seq
  /\ t \in Handlers /\ Moved(h, h', t, r) /\ r.pc \notin {"wait", "drop"}
  /\ UNCHANGED deleting
  /\ curPool' = NoPool => curPool = NoPool /\ r.pc = "idle" /\ UNCHANGED allocations

NewLease(g, q, t, r, a) ==
  /\ a \in Lease /\ a \notin DOMAIN allocations /\ a.inst \in pool[g].inst /\ a.seq <= q.seq
  /\ q.inst = pool[g].inst /\ allocations' = Put(allocations, a, g) /\ issued' \subseteq issued \cup {a}
  /\ h[t].pc # "timer" /\ ~Back(h[t]) /\ r.pc \in {"idle", "update"}

TakeStep(g, q, t, r) ==
  \E a : NewLease(g, q, t, r, a) /\ Takes(pool[g], q, a.sess, a.inst)

UseStep(g, q, t, r) ==
  \E a : NewLease(g, q, t, r, a) /\ a.sess = NoSession /\ UsesOneMore(pool[g], q, a.inst)

DropStep(g, q, t, r) ==
  /\ q = pool[g] /\ UNCHANGED issued /\ h[t].pc = "idle" /\ Back(r)
  /\ r.lease \in DOMAIN allocations /\ allocations' = Restrict(allocations, DOMAIN allocations \ {r.lease})

GiveStep(g, q, t, r) ==
  LET s == h[t].lease.sess IN
    /\ UNCHANGED <<allocations, issued>> /\ q.inst = pool[g].inst
    /\ Back(h[t]) /\ Gives(pool[g], q, s)
    /\ IF NeedTimer(pool[g].sess[s]) THEN r.pc = "timer" /\ r.sess = s /\ r.pool = g ELSE r.pc = "idle"

FreeStep(g, q, t, r) ==
  /\ UNCHANGED <<allocations, issued>> /\ q.inst = pool[g].inst
  /\ Back(h[t]) /\ h[t].lease.sess = NoSession /\ UsesOneLess(pool[g], q, h[t].lease.inst) /\ r.pc = "idle"

IdleBinding(p, s) == Bound(p, s) /\ p.sess[s].expiring /\ p.sess[s].active = 0

StartStep(g, q, t, r) ==
  /\ UNCHANGED <<allocations, issued>> /\ h[t].pc = "timer" /\ r.pc = "idle"
  /\ \/ q = pool[g] /\ ~(h[t].pool = g /\ IdleBinding(pool[g], h[t].sess))
     \/ /\ IdleBinding(pool[g], h[t].sess)
        /\ \E timer : TimerSet(g, h[t].sess, timer, q)

FireStep(g, q, t, r) ==
  /\ UNCHANGED <<allocations, issued>> /\ r = h[t]
  /\ \E s \in Sessions :
       /\ Bound(pool[g], s)
       /\ \/ TimerSet(g, s, "dead", q) /\ ~IdleBinding(pool[g], s)
          \/ /\ IdleBinding(pool[g], s) /\ q.sess[s] = NoBinding /\ OthersKept(pool[g], q, s)
             /\ SameSlack(pool[g], q) /\ q.inst = pool[g].inst

QuietStep(g, q, t, r) ==
  /\ UNCHANGED <<allocations, issued>>
  /\ q.sess = pool[g].sess /\ pool[g].inst \subseteq q.inst
  /\ \A j \in Instances : q.inUse[j] = pool[g].inUse[j] \/ (j \notin pool[g].inst /\ q.inUse[j] = 0)
  /\ Back(r) <=> Back(h[t])
  /\ Back(r) => r.lease = h[t].lease
  /\ h[t].pc = "timer" => r = h[t]

PoolStepKind(g, q, t, r) ==
  \/ TakeStep(g, q, t, r) \/ UseStep(g, q, t, r) \/ DropStep(g, q, t, r) \/ GiveStep(g, q, t, r)
  \/ FreeStep(g, q, t, r) \/ StartStep(g, q, t, r) \/ FireStep(g, q, t, r) \/ QuietStep(g, q, t, r)

SomeStep == \E g, q, t, r : Change(g, q, t, r) /\ PoolStepKind(g, q, t, r)

LEMMA TheHandler ==
  ASSUME IInv, NEW t \in Handlers, NEW r, h' = [h EXCEPT ![t] = r]
  PROVE  Moved(h, h', t, r)
  BY DEF IInv, HandlersOK, Moved

LEMMA SamePool ==
  ASSUME IInv, NEW g \in Pools
  PROVE  PoolOK(pool[g]) /\ pool[g] \in PoolState /\ pool = [pool EXCEPT ![g] = pool[g]] /\ pool[g].seq <= pool[g].seq
  BY DEF IInv, PoolsOK, PoolOK, PoolState

\* Only a handler moves, and no unit with it.
LEMMA HandlerQuiet ==
  ASSUME Steady, IInv, AccInv, NEW t \in Handlers, NEW r, h' = [h EXCEPT ![t] = r],
         UNCHANGED <<pool, allocations, issued, deleting, curPool>>, curPool # NoPool,
         r.pc \notin {"wait", "drop"}, Back(r) <=> Back(h[t]), Back(r) => r.lease = h[t].lease, h[t].pc # "timer"
  PROVE  SomeStep
<1> DEFINE g == 1
<1>1. g \in Pools
  BY DEF Steady, Pools
<1>2. Change(g, pool[g], t, r)
  BY <1>1, TheHandler, SamePool DEF Change
<1>3. QuietStep(g, pool[g], t, r)
  BY DEF QuietStep
<1> QED BY <1>2, <1>3 DEF SomeStep, PoolStepKind

\* Only the pool changes, and no unit with it.
LEMMA PoolQuiet ==
  ASSUME Steady, IInv, AccInv, NEW g \in Pools, NEW q, PoolOK(q), pool' = [pool EXCEPT ![g] = q],
         pool[g].seq <= q.seq,
         q.sess = pool[g].sess, pool[g].inst \subseteq q.inst,
         \A j \in Instances : q.inUse[j] = pool[g].inUse[j] \/ (j \notin pool[g].inst /\ q.inUse[j] = 0),
         UNCHANGED <<h, allocations, issued, deleting>>, UNCHANGED curPool \/ curPool' # NoPool
  PROVE  SomeStep
<1> DEFINE t == Reaper
           r == h[t]
<1>1. t \in Handlers /\ r.pc \notin {"wait", "drop"} /\ (curPool = NoPool => r.pc = "idle")
  BY DEF Handlers, AccInv
<1>2. Moved(h, h', t, r)
  BY DEF Moved
<1>3. Change(g, q, t, r)
  BY <1>1, <1>2 DEF Change
<1>4. QuietStep(g, q, t, r)
  BY DEF QuietStep
<1> QED BY <1>3, <1>4 DEF SomeStep, PoolStepKind

LEMMA AllQuiet ==
  ASSUME Steady, IInv, AccInv, UNCHANGED <<pool, h, allocations, issued, deleting>>,
         UNCHANGED curPool \/ curPool' # NoPool
  PROVE  SomeStep
<1> DEFINE g == 1
<1>1. g \in Pools
  BY DEF Steady, Pools
<1>2. PoolOK(pool[g]) /\ pool' = [pool EXCEPT ![g] = pool[g]] /\ pool[g].seq <= pool[g].seq
  BY <1>1, SamePool
<1> HIDE DEF g
<1>3. /\ pool[g].sess = pool[g].sess /\ pool[g].inst \subseteq pool[g].inst
      /\ \A j \in Instances : pool[g].inUse[j] = pool[g].inUse[j] \/ (j \notin pool[g].inst /\ pool[g].inUse[j] = 0)
  OBVIOUS
<1> QED BY <1>1, <1>2, <1>3, PoolQuiet

LEMMA Running == ASSUME AccInv, NEW t \in Handlers, h[t].pc # "idle" PROVE curPool # NoPool
  BY DEF AccInv

\* The lease of a grant is new.
LEMMA GrantedLease ==
  ASSUME Steady, IInv, AccInv, NEW t \in Handlers, NEW g \in Pools, NEW q, NEW s \in Sessions \cup {NoSession}, NEW i,
         Granted(t, g, q, s, i), h[t].pc \in {"idle", "dispatch"}, curPool # NoPool
  PROVE  /\ Change(g, q, t, Idle)
         /\ NewLease(g, q, t, Idle, [sess |-> s, inst |-> i, seq |-> q.seq])
<1> DEFINE a == [sess |-> s, inst |-> i, seq |-> q.seq]
<1>1. /\ pool[g].seq \in Nat /\ q.seq \in Nat /\ i \in Instances /\ i \in pool[g].inst /\ q.inst = pool[g].inst
      /\ q.seq = pool[g].seq + 1 /\ PoolOK(q) /\ pool' = [pool EXCEPT ![g] = q]
  BY SamePool DEF Granted, PoolOK, PoolState
<1>2. a \in Lease
  BY <1>1 DEF Lease
<1>3. a.seq = q.seq /\ a.inst = i
  OBVIOUS
<1>4. allocations' = Put(allocations, a, g) /\ issued' \subseteq issued \cup {a} /\ h' = [h EXCEPT ![t] = Idle]
      /\ UNCHANGED <<created, curPool, deleting>>
  BY DEF Granted
<1> HIDE DEF a
<1>5. a \notin DOMAIN allocations
  BY <1>1, <1>3 DEF AccInv
<1>6. Idle.pc = "idle"
  BY DEF Idle
<1>7. Change(g, q, t, Idle)
  <2>1. Moved(h, h', t, Idle)
    BY <1>4, TheHandler
  <2>2. pool[g].seq <= q.seq
    BY <1>1
  <2>3. curPool' # NoPool /\ UNCHANGED deleting /\ Idle.pc \notin {"wait", "drop"}
    BY <1>4, <1>6
  <2> QED BY <1>1, <2>1, <2>2, <2>3 DEF Change
<1>8. a.seq <= q.seq /\ a.inst \in pool[g].inst
  BY <1>1, <1>3
<1>9. NewLease(g, q, t, Idle, a)
  BY <1>1, <1>2, <1>4, <1>5, <1>6, <1>8 DEF NewLease, Back
<1> QED BY <1>7, <1>9 DEF a

LEMMA StickyKind ==
  ASSUME Steady, IInv, AccInv, NEW t \in Handlers, NEW g \in Pools, NEW s,
         StickyHit(pool[g], s), AssignSticky(t, g, s), h[t].pc \in {"idle", "dispatch"}, curPool # NoPool
  PROVE  SomeStep
<1>1. PICK q : StickyGranted(t, g, q, s)
  BY StickyGrant
<1> DEFINE p == pool[g]
           b == p.sess[s]
           a == [sess |-> s, inst |-> b.inst, seq |-> q.seq]
<1>2. Granted(t, g, q, s, b.inst) /\ s \in Sessions
  BY <1>1 DEF StickyGranted
<1>3. Change(g, q, t, Idle) /\ NewLease(g, q, t, Idle, a)
  <2> HIDE DEF b
  <2> QED BY <1>2, GrantedLease
<1>4. Bound(p, s)
  BY DEF StickyHit
<1>5. Takes(p, q, s, b.inst)
  BY <1>1, <1>4 DEF StickyGranted, Takes, Active, OthersKept, SameSlack
<1>6. a.sess = s /\ a.inst = b.inst
  OBVIOUS
<1> HIDE DEF a, p, b
<1>7. TakeStep(g, q, t, Idle)
  BY <1>3, <1>5, <1>6 DEF TakeStep, p
<1> QED BY <1>3, <1>7 DEF SomeStep, PoolStepKind

LEMMA FreshKind ==
  ASSUME Steady, IInv, AccInv, NEW t \in Handlers, NEW g \in Pools, NEW s \in Sessions \cup {NoSession},
         NEW i \in pool[g].inst, NEW c \in Concurrencies, pool[g].inUse[i] + c <= Capacity,
         ~Bound(pool[g], s), AssignFresh(t, g, s, i, c), h[t].pc = "dispatch"
  PROVE  SomeStep
<1> DEFINE p == pool[g]
<1>0. curPool # NoPool /\ p \in PoolState /\ i \in Instances /\ p.inUse[i] \in Nat /\ c \in Nat /\ c >= 1 /\ Capacity \in Nat
  BY Running, SamePool, LitePoolAssumption DEF PoolState
<1>1. CASE s \in Sessions
  <2>1. PICK q : FreshGranted(t, g, q, s, i, c)
    BY <1>1, FreshGrant
  <2> DEFINE a == [sess |-> s, inst |-> i, seq |-> q.seq]
  <2>2. Granted(t, g, q, s, i)
    BY <2>1 DEF FreshGranted
  <2>3. Change(g, q, t, Idle) /\ NewLease(g, q, t, Idle, a)
    BY <1>0, <2>2, GrantedLease
  <2>4. SameSlack(p, q)
    <3>1. ASSUME NEW j \in Instances PROVE Slack(q, j) = Slack(p, j)
      <4>1. Slack(q, j) = Slack(p, j) + Share(p, s, j)
        BY <2>1 DEF FreshGranted
      <4>2. Share(p, s, j) = 0 /\ Slack(p, j) \in Int
        BY <1>0, SlackInt DEF Share
      <4> QED BY <4>1, <4>2
    <3> QED BY <3>1 DEF SameSlack
  <2>5. Takes(p, q, s, i)
    BY <1>1, <2>1, <2>4 DEF FreshGranted, Takes, Active, OthersKept
  <2>6. a.sess = s /\ a.inst = i
    OBVIOUS
  <2> HIDE DEF a, p
  <2>7. TakeStep(g, q, t, Idle)
    BY <2>3, <2>5, <2>6 DEF TakeStep, p
  <2> QED BY <2>3, <2>7 DEF SomeStep, PoolStepKind
<1>2. CASE s \notin Sessions
  <2>1. PICK q : FreeGranted(t, g, q, s, i)
    BY <1>2, FreeGrant
  <2> DEFINE a == [sess |-> s, inst |-> i, seq |-> q.seq]
  <2>2. Granted(t, g, q, s, i)
    BY <2>1 DEF FreeGranted
  <2>3. Change(g, q, t, Idle) /\ NewLease(g, q, t, Idle, a)
    BY <1>0, <2>2, GrantedLease
  <2>4. UsesOneMore(p, q, i)
    BY <1>0, <2>1 DEF FreeGranted, UsesOneMore
  <2>5. a.sess = NoSession /\ a.inst = i
    BY <1>2
  <2> HIDE DEF a, p
  <2>6. UseStep(g, q, t, Idle)
    BY <2>3, <2>4, <2>5 DEF UseStep, p
  <2> QED BY <2>3, <2>6 DEF SomeStep, PoolStepKind
<1> QED BY <1>1, <1>2

LEMMA AcquireKind ==
  ASSUME Steady, IInv, AccInv, NEW t \in Handlers,
         \/ \E s \in SessionIDs : AcquireSticky(t, s) \/ \E c \in Concurrencies : AcquireMiss(t, s, c)
         \/ DispatchSticky(t) \/ DispatchReject(t) \/ DispatchAssign(t) \/ ColdStart(t)
  PROVE  SomeStep
<1>0. /\ h[t].sess \in Sessions \cup {NoSession}
      /\ h[t].pc = "dispatch" => h[t].pool \in Pools /\ h[t].conc \in Concurrencies /\ curPool # NoPool
  BY HandlerFacts, Running DEF IInv
<1>i. Idle.pc = "idle" /\ ~Back(Idle)
  BY DEF Idle, Back
<1>1. ASSUME NEW s \in SessionIDs, AcquireSticky(t, s) PROVE SomeStep
  <2>1. curPool \in Pools /\ StickyHit(pool[curPool], s) /\ AssignSticky(t, curPool, s)
        /\ h[t].pc = "idle" /\ curPool # NoPool
    BY <1>1, CurPoolOK DEF IInv, AcquireSticky
  <2> QED BY <2>1, StickyKind
<1>2. ASSUME NEW s \in SessionIDs, NEW c \in Concurrencies, AcquireMiss(t, s, c) PROVE SomeStep
  <2> DEFINE r == [Idle EXCEPT !.pc = "dispatch", !.sess = s, !.conc = c, !.pool = curPool]
  <2>1. r.pc = "dispatch"
    BY DEF Idle
  <2>2. /\ h' = [h EXCEPT ![t] = r] /\ UNCHANGED <<pool, allocations, issued, deleting, curPool>>
        /\ curPool # NoPool /\ h[t].pc = "idle"
    BY <1>2 DEF AcquireMiss
  <2> HIDE DEF r
  <2> QED BY <2>1, <2>2, HandlerQuiet DEF Back
<1>3. CASE DispatchSticky(t)
  BY <1>0, <1>3, StickyKind DEF DispatchSticky
<1>4. CASE DispatchReject(t) \/ ColdStart(t)
  <2>1. /\ h' = [h EXCEPT ![t] = Idle] /\ UNCHANGED <<pool, allocations, issued, deleting, curPool>>
        /\ h[t].pc = "dispatch"
    BY <1>4 DEF DispatchReject, ColdStart, Steady
  <2> QED BY <1>0, <1>i, <2>1, HandlerQuiet DEF Back
<1>5. CASE DispatchAssign(t)
  <2>1. h[t].pc = "dispatch" /\ ~Bound(pool[h[t].pool], h[t].sess)
    BY <1>5 DEF DispatchAssign
  <2>2. PICK i \in pool[h[t].pool].inst : /\ pool[h[t].pool].inUse[i] + h[t].conc <= Capacity
                                          /\ AssignFresh(t, h[t].pool, h[t].sess, i, h[t].conc)
    BY <1>5 DEF DispatchAssign, Recoverable, Candidates
  <2> QED BY <1>0, <2>1, <2>2, FreshKind
<1> QED BY <1>1, <1>2, <1>3, <1>4, <1>5

LEMMA ReacquireKind ==
  ASSUME Steady, IInv, AccInv, NEW t \in Handlers, NEW a \in issued, NEW c \in Concurrencies,
         ReacquireAllocation(t, a, c)
  PROVE  SomeStep
<1> DEFINE r == [Idle EXCEPT !.pc = "update", !.lease = a]
<1>0. r.pc = "update" /\ ~Back(r)
  BY DEF Idle, Back
<1>1. /\ h' = [h EXCEPT ![t] = r] /\ UNCHANGED <<issued, deleting, curPool>> /\ curPool # NoPool
      /\ h[t].pc = "idle" /\ Retains /\ Reacquire /\ ~SessionCtx
  BY DEF ReacquireAllocation
<1> HIDE DEF r
<1>2. CASE a \in DOMAIN allocations
  <2>1. UNCHANGED <<pool, allocations, issued, deleting, curPool>>
    BY <1>1, <1>2 DEF ReacquireAllocation
  <2> QED BY <1>0, <1>1, <2>1, HandlerQuiet DEF Back
<1>3. CASE a \notin DOMAIN allocations
  <2>1. PICK q : Reacquired(q, a)
    BY <1>3, ReacquireGrant
  <2> DEFINE g == curPool
  <2>2. /\ g \in Pools /\ a \in Lease /\ a.inst \in pool[g].inst /\ pool' = [pool EXCEPT ![g] = q]
        /\ PoolOK(q) /\ q.inst = pool[g].inst /\ q.seq = pool[g].seq /\ allocations' = Put(allocations, a, g)
    BY <2>1 DEF Reacquired
  <2>3. Takes(pool[g], q, a.sess, a.inst)
    BY <2>1 DEF Reacquired, Takes, Active, OthersKept, SameSlack
  <2>4. pool[g].seq \in Nat /\ pool[g].seq <= q.seq /\ a.seq <= q.seq
    <3>1. pool[g].seq \in Nat
      BY <2>2, SamePool DEF PoolState
    <3>2. a.seq <= pool[g].seq
      BY <2>2 DEF AccInv
    <3> QED BY <2>2, <3>1, <3>2
  <2>5. Moved(h, h', t, r)
    BY <1>1, TheHandler
  <2>6. Change(g, q, t, r)
    BY <1>0, <1>1, <2>2, <2>4, <2>5 DEF Change
  <2>7. NewLease(g, q, t, r, a)
    BY <1>0, <1>1, <1>3, <2>2, <2>4 DEF NewLease, Back
  <2>8. TakeStep(g, q, t, r)
    BY <2>3, <2>7 DEF TakeStep
  <2> QED BY <2>6, <2>8 DEF SomeStep, PoolStepKind
<1> QED BY <1>2, <1>3

LEMMA DropKind ==
  ASSUME Steady, IInv, AccInv, NEW t \in Handlers, NEW a \in DOMAIN allocations, h[t].pc = "idle",
         NEW pc \in {"deltask", "return"}, h' = [h EXCEPT ![t] = [Idle EXCEPT !.pc = pc, !.lease = a]],
         allocations' = Restrict(allocations, DOMAIN allocations \ {a}),
         UNCHANGED <<pool, issued, deleting, curPool>>
  PROVE  SomeStep
<1> DEFINE r == [Idle EXCEPT !.pc = pc, !.lease = a]
           g == 1
<1>1. r.pc = pc /\ r.lease = a /\ Back(r)
  BY DEF Idle, Back
<1>2. g \in Pools /\ curPool # NoPool
  BY DEF Steady, Pools, AccInv
<1>3. Moved(h, h', t, r)
  BY TheHandler
<1>4. PoolOK(pool[g]) /\ pool = [pool EXCEPT ![g] = pool[g]] /\ pool[g].seq <= pool[g].seq
  BY <1>2, SamePool
<1> HIDE DEF r, g
<1>5. Change(g, pool[g], t, r)
  BY <1>1, <1>2, <1>3, <1>4 DEF Change
<1>6. DropStep(g, pool[g], t, r)
  BY <1>1 DEF DropStep
<1> QED BY <1>5, <1>6 DEF SomeStep, PoolStepKind

LEMMA LeaseKind ==
  ASSUME Steady, IInv, AccInv,
         \/ \E t \in Handlers, a \in DOMAIN allocations : ReleaseDelete(t, a) \/ RetainLookup(t, a)
         \/ ReapDelete
         \/ \E t \in Handlers : \/ ReleaseDelTask(t) \/ RetainRefresh(t) \/ RetainUpdate(t)
                                \/ RetainDrop(t) \/ RetainForget(t) \/ PollAssign(t) \/ PollTimeout(t)
  PROVE  SomeStep
<1>i. Idle.pc = "idle" /\ ~Back(Idle) /\ Reaper \in Handlers
  BY DEF Idle, Back, Handlers
<1>1. ASSUME NEW t \in Handlers, NEW a \in DOMAIN allocations, ReleaseDelete(t, a) PROVE SomeStep
  BY <1>1, DropKind DEF ReleaseDelete
<1>2. ASSUME NEW t \in Handlers, NEW a \in DOMAIN allocations, RetainLookup(t, a) PROVE SomeStep
  <2>1. curPool # NoPool /\ curPool \in Pools
    BY CurPoolOK DEF AccInv, IInv
  <2>2. a.inst \in pool[curPool].inst
    <3>1. allocations[a] \in Pools /\ a.inst \in pool[allocations[a]].inst
      BY DEF IInv, LeasesOK
    <3>2. allocations[a] = curPool
      BY <2>1, <3>1, OnePool DEF Steady
    <3> QED BY <3>1, <3>2
  <2> DEFINE r == [Idle EXCEPT !.pc = "refresh", !.lease = a]
  <2>3. r.pc = "refresh"
    BY DEF Idle
  <2>4. h' = [h EXCEPT ![t] = r] /\ h[t].pc = "idle" /\ UNCHANGED <<pool, allocations, issued, deleting, curPool>>
    BY <1>2, <2>1, <2>2 DEF RetainLookup
  <2> HIDE DEF r
  <2> QED BY <2>1, <2>3, <2>4, HandlerQuiet DEF Back
<1>3. CASE ReapDelete
  <2>1. CASE Head(ready) \in DOMAIN allocations
    <3> DEFINE a == Head(ready)
    <3>1. /\ h[Reaper].pc = "idle" /\ allocations' = Restrict(allocations, DOMAIN allocations \ {a})
          /\ h' = [h EXCEPT ![Reaper] = [Idle EXCEPT !.pc = "return", !.lease = a]]
          /\ UNCHANGED <<pool, issued, deleting, curPool>>
      BY <1>3, <2>1 DEF ReapDelete
    <3> HIDE DEF a
    <3> QED BY <1>i, <2>1, <3>1, DropKind DEF a
  <2>2. CASE Head(ready) \notin DOMAIN allocations
    BY <1>3, <2>2, AllQuiet DEF ReapDelete
  <2> QED BY <2>1, <2>2
<1>4. ASSUME NEW t \in Handlers, ReleaseDelTask(t) PROVE SomeStep
  <2> DEFINE r == [h[t] EXCEPT !.pc = "return"]
  <2>1. h[t] \in HandlerState
    BY DEF IInv, HandlersOK
  <2>2. r.pc = "return" /\ r.lease = h[t].lease /\ h' = [h EXCEPT ![t] = r] /\ h[t].pc = "deltask"
        /\ UNCHANGED <<pool, allocations, issued, deleting, curPool>>
    BY <1>4, <2>1 DEF ReleaseDelTask, HandlerState
  <2>3. curPool # NoPool
    BY <2>2, Running
  <2> HIDE DEF r
  <2> QED BY <2>2, <2>3, HandlerQuiet DEF Back
<1>5. ASSUME NEW t \in Handlers, RetainRefresh(t) \/ RetainUpdate(t) \/ RetainForget(t) PROVE SomeStep
  <2> DEFINE r == [h[t] EXCEPT !.pc = "update"]
  <2>1. h[t] \in HandlerState
    BY DEF IInv, HandlersOK
  <2>2. r.pc = "update" /\ h[t].pc \in {"refresh", "update", "forget"}
        /\ (h' = [h EXCEPT ![t] = r] \/ h' = [h EXCEPT ![t] = Idle])
        /\ UNCHANGED <<pool, allocations, issued, deleting, curPool>>
    BY <1>5, <2>1 DEF RetainRefresh, RetainUpdate, RetainForget, HandlerState
  <2>3. curPool # NoPool
    BY <2>2, Running
  <2> HIDE DEF r
  <2>4. CASE h' = [h EXCEPT ![t] = r]
    BY <2>2, <2>3, <2>4, HandlerQuiet DEF Back
  <2>5. CASE h' = [h EXCEPT ![t] = Idle]
    BY <1>i, <2>2, <2>3, <2>5, HandlerQuiet DEF Back
  <2> QED BY <2>2, <2>4, <2>5
<1>6. ASSUME NEW t \in Handlers PROVE ~(RetainDrop(t) \/ PollAssign(t) \/ PollTimeout(t))
  BY DEF AccInv, RetainDrop, PollAssign, PollTimeout
<1> QED BY <1>1, <1>2, <1>3, <1>4, <1>5, <1>6

LEMMA ReturnKind ==
  ASSUME Steady, IInv, AccInv, NEW t \in Handlers, Return(t)
  PROVE  SomeStep
<1> DEFINE a == h[t].lease
           g == curPool
           p == pool[g]
           s == a.sess
           q == ReturnUnit(p, a)
           r == IF Bound(p, s) /\ NeedTimer(p.sess[s])
                THEN [Idle EXCEPT !.pc = "timer", !.sess = s, !.pool = g] ELSE Idle
<1>1. h[t].pc = "return" /\ Back(h[t]) /\ curPool # NoPool /\ g \in Pools
  BY Running, CurPoolOK DEF Return, Back, IInv
<1>2. PoolOK(p) /\ p \in PoolState /\ Accounts(p, allocations, h) /\ IsFiniteSet(DOMAIN allocations)
  BY <1>1, SamePool DEF AccInv
<1>3. a \in Lease /\ a.inst \in p.inst /\ s \in Sessions \cup {NoSession} /\ a.inst \in Instances
  BY <1>1, <1>2 DEF Accounts, Rooted, Lease
<1>4. /\ pool' = [pool EXCEPT ![g] = q] /\ h' = [h EXCEPT ![t] = r]
      /\ UNCHANGED <<allocations, issued, deleting, curPool>>
  BY <1>1, <1>3 DEF Return
<1>5. IF Bound(p, s) /\ NeedTimer(p.sess[s]) THEN r.pc = "timer" /\ r.sess = s /\ r.pool = g ELSE r.pc = "idle"
  BY DEF Idle
<1>6. Moved(h, h', t, r)
  BY <1>4, TheHandler
<1> HIDE DEF r
<1>7. r.pc \notin {"wait", "drop"}
  BY <1>5
<1>8. CASE s \in Sessions
  <2>1. UnitsIn(allocations, h, OfSession(s)) >= 1
    <3>1. \E u \in Handlers : Back(h[u]) /\ h[u].lease \in OfSession(s)
      BY <1>1, <1>3 DEF OfSession
    <3> QED BY <1>2, <3>1, UnitsSome
  <2>2. Active(p, s) >= 1
    BY <1>2, <1>8, <2>1 DEF Accounts, Counted
  <2>3. Bound(p, s)
    BY <2>2 DEF Active
  <2> DEFINE b == UnbindOnRelease(p.sess[s])
  <2>4. p.sess[s] \in Binding /\ p.sess[s].inst \in p.inst
    BY <1>2, <2>3, BoundBinding
  <2>5. b \in Binding /\ b.inst = p.sess[s].inst /\ Held(b) = Held(p.sess[s])
    BY <2>4, UnbindOnReleaseShape
  <2>6. q = [p EXCEPT !.sess[s] = b]
    BY <2>3 DEF ReturnUnit
  <2> HIDE DEF b, q, p, a
  <2>7. q.sess[s] = b /\ OthersKept(p, q, s) /\ q.inUse = p.inUse /\ q.seq = p.seq /\ q.inst = p.inst
    BY <1>2, <1>8, <2>6 DEF PoolState, OthersKept
  <2>8. PoolOK(q)
    BY <1>2, <1>8, <2>4, <2>5, <2>6, SetBindingOK
  <2>9. SameSlack(p, q)
    <3>1. ASSUME NEW j \in Instances PROVE Slack([p EXCEPT !.sess[s] = b], j) = Slack(p, j)
      BY <1>2, <2>3, <2>5, SlackRebound
    <3> QED BY <2>6, <3>1 DEF SameSlack
  <2>10. Gives(p, q, s)
    BY <2>3, <2>7, <2>9 DEF Gives, b
  <2>11. p.seq <= q.seq
    BY <1>2, <2>7 DEF PoolState
  <2>12. Change(g, q, t, r)
    BY <1>1, <1>4, <1>6, <1>7, <2>8, <2>11 DEF Change, p
  <2>13. GiveStep(g, q, t, r)
    BY <1>1, <1>4, <1>5, <2>3, <2>7, <2>10 DEF GiveStep, p, a
  <2> QED BY <2>12, <2>13 DEF SomeStep, PoolStepKind
<1>9. CASE s = NoSession
  <2>1. ~Bound(p, s)
    BY <1>9, LitePoolAssumption DEF Bound
  <2>2. UnitsIn(allocations, h, FreeOn(a.inst)) >= 1
    <3>1. \E u \in Handlers : Back(h[u]) /\ h[u].lease \in FreeOn(a.inst)
      BY <1>1, <1>3, <1>9 DEF FreeOn
    <3> QED BY <1>2, <3>1, UnitsSome
  <2>3. Slack(p, a.inst) >= 1
    BY <1>2, <1>3, <2>2 DEF Accounts, Exact
  <2>4. p.inUse[a.inst] \in Nat /\ SumHeld(p, a.inst) \in Nat
    BY <1>2, <1>3, SumHeldNat DEF PoolState
  <2>5. p.inUse[a.inst] > 0 /\ p.inUse[a.inst] - 1 \in Nat
    BY <2>3, <2>4 DEF Slack
  <2>6. q = [p EXCEPT !.inUse[a.inst] = p.inUse[a.inst] - 1]
    BY <1>3, <1>9, <2>1, <2>5 DEF ReturnUnit
  <2> HIDE DEF q, p, a
  <2>7. UsesOneLess(p, q, a.inst) /\ q.seq = p.seq
    BY <1>2, <1>3, <2>6 DEF PoolState, UsesOneLess
  <2>8. PoolOK(q) /\ q.inst = p.inst
    BY <1>2, <1>3, <2>5, <2>6, SetInUseOK
  <2>9. p.seq <= q.seq
    BY <1>2, <2>7 DEF PoolState
  <2>10. Change(g, q, t, r)
    BY <1>1, <1>4, <1>6, <1>7, <2>8, <2>9 DEF Change, p
  <2>11. FreeStep(g, q, t, r)
    BY <1>1, <1>4, <1>5, <1>9, <2>1, <2>7, <2>8 DEF FreeStep, p, a
  <2> QED BY <2>10, <2>11 DEF SomeStep, PoolStepKind
<1> QED BY <1>3, <1>8, <1>9

LEMMA TimerKept ==
  ASSUME IInv, IInv', NEW g \in Pools, NEW s, NEW timer, NEW q, TimerSet(g, s, timer, q)
  PROVE  PoolOK(q) /\ pool' = [pool EXCEPT ![g] = q] /\ pool[g].seq <= q.seq
<1>1. pool' = [pool EXCEPT ![g] = q] /\ q.seq = pool[g].seq
  BY DEF TimerSet
<1>2. pool'[g] = q /\ pool[g].seq \in Nat
  BY <1>1 DEF IInv, PoolsOK, PoolState
<1>3. PoolOK(pool'[g])
  BY DEF IInv, PoolsOK
<1> QED BY <1>1, <1>2, <1>3

LEMMA StartKind ==
  ASSUME Steady, IInv, IInv', AccInv, NEW t \in Handlers, StartTimer(t)
  PROVE  SomeStep
<1> DEFINE k == h[t].pool
           s == h[t].sess
<1>1. /\ h[t].pc = "timer" /\ h' = [h EXCEPT ![t] = Idle] /\ curPool # NoPool
      /\ UNCHANGED <<allocations, issued, deleting, curPool>>
  BY Running DEF StartTimer
<1>2. Idle.pc = "idle" /\ Moved(h, h', t, Idle)
  BY <1>1, TheHandler DEF Idle
<1>3. CASE ~IdleBinding(pool[k], s)
  <2> DEFINE g == 1
  <2>1. g \in Pools /\ UNCHANGED pool
    <3>1. UNCHANGED pool
      BY <1>3 DEF StartTimer, IdleBinding
    <3>2. g \in Pools
      BY DEF Steady, Pools
    <3> QED BY <3>1, <3>2
  <2>2. PoolOK(pool[g]) /\ pool = [pool EXCEPT ![g] = pool[g]] /\ pool[g].seq <= pool[g].seq
    BY <2>1, SamePool
  <2> HIDE DEF g
  <2>3. Change(g, pool[g], t, Idle)
    BY <1>1, <1>2, <2>1, <2>2 DEF Change
  <2>4. StartStep(g, pool[g], t, Idle)
    BY <1>1, <1>2, <1>3 DEF StartStep
  <2> QED BY <2>3, <2>4 DEF SomeStep, PoolStepKind
<1>4. CASE IdleBinding(pool[k], s)
  <2>1. PICK timer \in {"ticking", "dead"} : pool' = [pool EXCEPT ![k].sess[s].timer = timer]
    BY <1>4 DEF StartTimer, IdleBinding
  <2>2. CASE k \in Pools
    <3>1. Bound(pool[k], s)
      BY <1>4 DEF IdleBinding
    <3>2. PICK q : TimerSet(k, s, timer, q)
      <4> HIDE DEF k, s
      <4> QED BY <2>1, <2>2, <3>1, TimerShape
    <3>3. PoolOK(q) /\ pool' = [pool EXCEPT ![k] = q] /\ pool[k].seq <= q.seq
      BY <2>2, <3>2, TimerKept
    <3>4. Change(k, q, t, Idle)
      BY <1>1, <1>2, <2>2, <3>3 DEF Change
    <3>5. StartStep(k, q, t, Idle)
      BY <1>1, <1>2, <1>4, <2>1, <3>2 DEF StartStep
    <3> QED BY <3>4, <3>5 DEF SomeStep, PoolStepKind
  <2>3. CASE k \notin Pools
    <3> DEFINE g == 1
    <3>1. g \in Pools /\ UNCHANGED pool
      BY <2>1, <2>3 DEF Steady, Pools, IInv, PoolsOK
    <3>2. PoolOK(pool[g]) /\ pool = [pool EXCEPT ![g] = pool[g]] /\ pool[g].seq <= pool[g].seq
      BY <3>1, SamePool
    <3> HIDE DEF g
    <3>3. Change(g, pool[g], t, Idle)
      BY <1>1, <1>2, <3>1, <3>2 DEF Change
    <3>4. StartStep(g, pool[g], t, Idle)
      BY <1>1, <1>2, <2>3, <3>1 DEF StartStep
    <3> QED BY <3>3, <3>4 DEF SomeStep, PoolStepKind
  <2> QED BY <2>2, <2>3
<1> QED BY <1>3, <1>4

LEMMA SlackNat ==
  ASSUME IInv, AccInv, NEW g \in Pools, NEW i \in Instances
  PROVE  Slack(pool[g], i) \in Nat /\ Slack(pool[g], i) >= 0
<1>1. UnitsIn(allocations, h, FreeOn(i)) = Slack(pool[g], i) /\ IsFiniteSet(DOMAIN allocations)
  BY DEF AccInv, Accounts, Exact
<1>2. UnitsIn(allocations, h, FreeOn(i)) \in Nat
  BY <1>1, UnitsNat
<1> QED BY <1>1, <1>2

LEMMA FireKind ==
  ASSUME Steady, IInv, IInv', AccInv, NEW g \in Pools, NEW s \in Sessions, FireUnbind(g, s)
  PROVE  SomeStep
<1> DEFINE p == pool[g]
           t == Reaper
           r == h[t]
<1>1. Bound(p, s) /\ PoolOK(p) /\ p \in PoolState /\ UNCHANGED <<h, allocations, issued, deleting, curPool>>
  BY SamePool DEF FireUnbind
<1>2. /\ t \in Handlers /\ r.pc \notin {"wait", "drop"} /\ (curPool = NoPool => r.pc = "idle")
      /\ Moved(h, h', t, r)
  BY <1>1 DEF Handlers, AccInv, Moved
<1>3. CASE ~IdleBinding(p, s)
  <2>1. pool' = [pool EXCEPT ![g].sess[s].timer = "dead"]
    BY <1>1, <1>3 DEF FireUnbind, IdleBinding
  <2>2. PICK q : TimerSet(g, s, "dead", q)
    BY <1>1, <2>1, TimerShape
  <2>3. PoolOK(q) /\ pool' = [pool EXCEPT ![g] = q] /\ pool[g].seq <= q.seq
    BY <2>2, TimerKept
  <2>4. Change(g, q, t, r)
    BY <1>1, <1>2, <2>3 DEF Change
  <2>5. FireStep(g, q, t, r)
    BY <1>1, <1>3, <2>2 DEF FireStep
  <2> QED BY <2>4, <2>5 DEF SomeStep, PoolStepKind
<1>4. CASE IdleBinding(p, s)
  <2> DEFINE q == RemoveBinding(p, s)
  <2>1. pool' = [pool EXCEPT ![g] = q]
    BY <1>4 DEF FireUnbind, IdleBinding
  <2>2. \A j \in Instances : Slack(p, j) >= 0
    BY SlackNat
  <2>3. PoolOK(q) /\ q.inst = p.inst
    BY <1>1, RemoveBindingOK
  <2>4. /\ q.sess[s] = NoBinding /\ OthersKept(p, q, s) /\ q.seq = p.seq
        /\ SameSlack(p, q) /\ \A j \in Instances : q.inUse[j] <= p.inUse[j]
    <3> HIDE DEF p
    <3> QED BY <1>1, <2>2, RemoveBindingShape DEF OthersKept, SameSlack
  <2> HIDE DEF q
  <2>5. p.seq <= q.seq
    BY <1>1, <2>4 DEF PoolState
  <2>6. Change(g, q, t, r)
    BY <1>1, <1>2, <2>1, <2>3, <2>5 DEF Change
  <2>7. FireStep(g, q, t, r)
    BY <1>1, <1>4, <2>3, <2>4, <2>5 DEF FireStep
  <2> QED BY <2>6, <2>7 DEF SomeStep, PoolStepKind
<1> QED BY <1>3, <1>4

LEMMA RegistryKind == ASSUME Steady, IInv, IInv', AccInv, Registry PROVE SomeStep
<1> DEFINE p == pool[curPool]
<1>0. created \in 0 .. 1 /\ curPool \in 0 .. created
  BY DEF IInv, RegistryOK, Steady
<1>c. ASSUME curPool # NoPool
      PROVE  curPool \in Pools /\ PoolOK(p) /\ p \in PoolState
  BY <1>c, CurPoolOK DEF IInv, PoolsOK, PoolOK
<1>1. CASE UpsertPool
  <2>1. curPool' # NoPool /\ UNCHANGED <<pool, h, allocations, issued, deleting>>
    BY <1>0, <1>1 DEF UpsertPool, NoPool
  <2> QED BY <2>1, AllQuiet
<1>2. ~DeletePool /\ ~DeleteRecords /\ ~DeleteAllocations
  BY <1>0 DEF DeletePool, DeleteRecords, DeleteAllocations, NoPool, AccInv, Steady
<1>3. ASSUME NEW i \in Instances, InstanceUpdate(i) PROVE SomeStep
  <2> DEFINE q == [p EXCEPT !.inst = @ \cup {i}, !.inUse[i] = 0]
  <2>1. /\ curPool # NoPool /\ pool' = [pool EXCEPT ![curPool] = q] /\ i \notin p.inst
        /\ UNCHANGED <<h, allocations, issued, deleting, curPool>>
    BY <1>3, <1>c DEF InstanceUpdate, PoolState, IInv, PoolsOK
  <2>2. /\ q.sess = p.sess /\ p.inst \subseteq q.inst /\ q.inUse[i] = 0 /\ p.seq <= q.seq
        /\ \A j \in Instances : q.inUse[j] = p.inUse[j] \/ (j \notin p.inst /\ q.inUse[j] = 0)
    BY <1>c, <2>1 DEF PoolState
  <2>3. PoolOK(q)
    <3>1. q = pool'[curPool]
      BY <1>c, <2>1 DEF IInv, PoolsOK
    <3>2. curPool \in Pools /\ \A k \in Pools : PoolOK(pool'[k])
      BY <1>c, <2>1 DEF IInv, PoolsOK
    <3> HIDE DEF q
    <3> QED BY <3>1, <3>2
  <2> HIDE DEF q
  <2> QED BY <1>c, <2>1, <2>2, <2>3, PoolQuiet
<1>4. ASSUME NEW i \in Instances PROVE ~InstanceDelete(i)
  BY DEF InstanceDelete, Steady
<1>5. ASSUME NEW i \in Instances, IdleReport(i) \/ IdleReset(i) PROVE SomeStep
  <2>1. curPool # NoPool /\ UNCHANGED <<h, allocations, issued, deleting, curPool>>
    BY <1>5 DEF IdleReport, IdleReset
  <2>2. PICK R : pool' = [pool EXCEPT ![curPool].reclaiming = R]
    BY <1>5 DEF IdleReport, IdleReset
  <2> DEFINE q == [p EXCEPT !.reclaiming = R]
  <2>3. /\ pool' = [pool EXCEPT ![curPool] = q] /\ q.sess = p.sess /\ p.inst \subseteq q.inst /\ p.seq <= q.seq
        /\ \A j \in Instances : q.inUse[j] = p.inUse[j] \/ (j \notin p.inst /\ q.inUse[j] = 0)
    BY <1>c, <2>1, <2>2 DEF PoolState
  <2>4. PoolOK(q)
    <3>1. q = pool'[curPool]
      BY <1>c, <2>1, <2>3 DEF IInv, PoolsOK
    <3>2. curPool \in Pools /\ \A k \in Pools : PoolOK(pool'[k])
      BY <1>c, <2>1 DEF IInv, PoolsOK
    <3> HIDE DEF q
    <3> QED BY <3>1, <3>2
  <2> HIDE DEF q
  <2> QED BY <1>c, <2>1, <2>3, <2>4, PoolQuiet
<1> QED BY <1>1, <1>2, <1>3, <1>4, <1>5 DEF Registry

\* Every step of a steady pool is of one of the kinds.
LEMMA NextKind == ASSUME Steady, IInv, IInv', AccInv, [Next]_vars PROVE SomeStep
<1>0. Requests \subseteq Handlers
  BY DEF Handlers
<1>1. ASSUME NEW t \in Requests, Call(t) PROVE SomeStep
  BY <1>0, <1>1, AcquireKind, LeaseKind, ReacquireKind DEF Call
<1>2. ASSUME NEW t \in Handlers, Proceed(t) PROVE SomeStep
  BY <1>2, AcquireKind, LeaseKind, ReturnKind, StartKind DEF Proceed
<1>3. CASE ReapDelete
  BY <1>3, LeaseKind
<1>4. ASSUME NEW a \in DOMAIN wheel, WheelFire(a) PROVE SomeStep
  BY <1>4, AllQuiet DEF WheelFire
<1>5. ASSUME NEW g \in Pools, NEW s \in Sessions, FireUnbind(g, s) PROVE SomeStep
  BY <1>5, FireKind
<1>6. CASE UNCHANGED vars
  BY <1>6, AllQuiet DEF vars
<1> QED BY <1>1, <1>2, <1>3, <1>4, <1>5, <1>6, RegistryKind DEF Next

LEMMA TimerRests ==
  ASSUME NEW g \in Pools, NEW s, NEW timer, NEW q, TimerSet(g, s, timer, q), PoolOK(pool[g]), Bound(pool[g], s)
  PROVE  /\ Resting(pool[g], q)
         /\ q.sess[s] = [pool[g].sess[s] EXCEPT !.timer = timer] /\ Bound(q, s)
         /\ q.sess[s].active = pool[g].sess[s].active /\ (q.sess[s].expiring <=> pool[g].sess[s].expiring)
         /\ q.sess[s].timer = timer
<1> DEFINE p == pool[g]
           b == p.sess[s]
           c == [b EXCEPT !.timer = timer]
<1>1. s \in Sessions /\ b \in Binding /\ b.inst \in Instances
  BY BoundBinding
<1>2. q.sess[s] = c /\ OthersKept(p, q, s) /\ q.inst = p.inst /\ SameSlack(p, q)
  BY DEF TimerSet, OthersKept, SameSlack
<1>3. c.inst = b.inst /\ c.active = b.active /\ c.timer = timer /\ (c.expiring <=> b.expiring)
  BY <1>1 DEF Binding
<1>4. c # NoBinding
  <2>1. NoBinding.inst \notin Instances
    BY LitePoolAssumption DEF NoBinding
  <2> HIDE DEF c
  <2> QED BY <1>1, <1>3, <2>1
<1> HIDE DEF c, p, b
<1>5. Bound(q, s) /\ Bound(p, s)
  BY <1>1, <1>2, <1>4 DEF Bound, p
<1>6. ASSUME NEW u \in Sessions
      PROVE  Active(q, u) = Active(p, u) /\ (Bound(q, u) => Bound(p, u) /\ q.sess[u].inst = p.sess[u].inst)
  <2>1. CASE u = s
    BY <1>2, <1>3, <1>5, <2>1 DEF Active, b
  <2>2. CASE u # s
    <3>1. q.sess[u] = p.sess[u]
      BY <1>2, <2>2 DEF OthersKept
    <3> QED BY <3>1 DEF Active, Bound
  <2> QED BY <2>1, <2>2
<1>7. Resting(p, q)
  BY <1>2, <1>6 DEF Resting, SameSlack
<1> QED BY <1>2, <1>3, <1>5, <1>7 DEF p, b, c

LEMMA UnbindRests ==
  ASSUME NEW p, PoolOK(p), NEW q, NEW s \in Sessions, IdleBinding(p, s), q.sess[s] = NoBinding, OthersKept(p, q, s),
         SameSlack(p, q), q.inst = p.inst
  PROVE  Resting(p, q)
<1>1. ASSUME NEW u \in Sessions
      PROVE  Active(q, u) = Active(p, u) /\ (Bound(q, u) => Bound(p, u) /\ q.sess[u].inst = p.sess[u].inst)
  <2>1. CASE u = s
    BY <2>1 DEF Active, Bound, IdleBinding
  <2>2. CASE u # s
    <3>1. q.sess[u] = p.sess[u]
      BY <2>2 DEF OthersKept
    <3> QED BY <3>1 DEF Active, Bound
  <2> QED BY <2>1, <2>2
<1> QED BY <1>1 DEF Resting, SameSlack

LEMMA QuietRests ==
  ASSUME NEW p, PoolOK(p), NEW q, q.sess = p.sess, p.inst \subseteq q.inst,
         \A j \in Instances : q.inUse[j] = p.inUse[j] \/ (j \notin p.inst /\ q.inUse[j] = 0)
  PROVE  Resting(p, q)
<1>1. \A u \in Sessions : Active(q, u) = Active(p, u) /\ (Bound(q, u) => Bound(p, u) /\ q.sess[u].inst = p.sess[u].inst)
  BY DEF Active, Bound
<1>2. ASSUME NEW j \in Instances PROVE Slack(q, j) = Slack(p, j) \/ (j \notin p.inst /\ Slack(q, j) = 0)
  <2>1. CASE q.inUse[j] = p.inUse[j]
    BY <2>1, SlackSame
  <2>2. CASE j \notin p.inst /\ q.inUse[j] = 0
    <3>1. \A s \in Sessions : ~(Bound(q, s) /\ q.sess[s].inst = j)
      BY <2>2 DEF Bound, PoolOK
    <3>2. SumHeld(q, j) = 0
      BY <3>1, SumHeldNone
    <3> QED BY <2>2, <3>2 DEF Slack
  <2> QED BY <2>1, <2>2
<1> QED BY <1>1, <1>2 DEF Resting

\* What the kinds of steps have in common.
LEMMA StepAccounts ==
  ASSUME Steady, IInv, AccInv, NEW g, NEW q, NEW t, NEW r, Change(g, q, t, r), PoolStepKind(g, q, t, r)
  PROVE  /\ Accounts(q, allocations', h') /\ IsFiniteSet(DOMAIN allocations')
         /\ issued' \subseteq issued \cup DOMAIN allocations'
         /\ \A a \in DOMAIN allocations' : a \in DOMAIN allocations \/ a.seq <= q.seq
<1> DEFINE p == pool[g]
           al == allocations
           al2 == allocations'
<1>1. /\ g \in Pools /\ PoolOK(q) /\ t \in Handlers /\ Moved(h, h', t, r) /\ PoolOK(p)
      /\ Accounts(p, al, h) /\ IsFiniteSet(DOMAIN al) /\ DOMAIN al \subseteq Lease
  BY SamePool DEF Change, AccInv, IInv, LeasesOK
<1>l. \A a \in DOMAIN al : a.inst \in p.inst
  <2>1. ASSUME NEW a \in DOMAIN al PROVE a.inst \in p.inst
    <3>1. al[a] \in Pools /\ a.inst \in pool[al[a]].inst
      BY DEF IInv, LeasesOK
    <3>2. al[a] = g
      BY <1>1, <3>1, OnePool DEF Steady
    <3> QED BY <3>1, <3>2
  <2> QED BY <2>1
<1>2. CASE \E a : NewLease(g, q, t, r, a) /\ (Takes(p, q, a.sess, a.inst)
                                               \/ (a.sess = NoSession /\ UsesOneMore(p, q, a.inst)))
  <2>1. PICK a : NewLease(g, q, t, r, a) /\ (Takes(p, q, a.sess, a.inst)
                                               \/ (a.sess = NoSession /\ UsesOneMore(p, q, a.inst)))
    BY <1>2
  <2>2. /\ a \in Lease /\ a \notin DOMAIN al /\ q.inst = p.inst /\ al2 = Put(al, a, g) /\ a.seq <= q.seq
        /\ issued' \subseteq issued \cup {a} /\ ~Back(h[t]) /\ ~Back(r)
    BY <2>1 DEF NewLease, Back
  <2>3. DOMAIN al2 = DOMAIN al \cup {a} /\ IsFiniteSet(DOMAIN al2)
    BY <1>1, <2>2, MapAdd
  <2> HIDE DEF p, al, al2
  <2>4. CASE Takes(p, q, a.sess, a.inst)
    <3>1. Accounts(q, al2, h')
      BY ONLY <1>1, <2>2, <2>3, <2>4, TakeAccounts
    <3> QED BY <2>2, <2>3, <3>1 DEF al, al2
  <2>5. CASE a.sess = NoSession /\ UsesOneMore(p, q, a.inst)
    <3>1. Accounts(q, al2, h')
      BY ONLY <1>1, <2>2, <2>3, <2>5, UseAccounts
    <3> QED BY <2>2, <2>3, <3>1 DEF al, al2
  <2> QED BY <2>1, <2>4, <2>5
<1>3. CASE DropStep(g, q, t, r)
  <2> DEFINE a == r.lease
  <2>1. /\ a \in DOMAIN al /\ ~Back(h[t]) /\ Back(r) /\ q = p /\ UNCHANGED issued
        /\ al2 = Restrict(al, DOMAIN al \ {a})
    BY <1>3 DEF DropStep, Back
  <2>2. DOMAIN al2 = DOMAIN al \ {a} /\ IsFiniteSet(DOMAIN al2)
    BY <1>1, <2>1, MapDrop
  <2>3. a = r.lease /\ a.inst \in p.inst
    BY <1>l, <2>1
  <2> HIDE DEF p, al, al2, a
  <2>4. Accounts(p, al2, h')
    BY ONLY <1>1, <2>1, <2>2, <2>3, DropAccounts
  <2> QED BY <2>1, <2>2, <2>4 DEF al, al2
<1>4. CASE UNCHANGED <<allocations, issued>> /\ Accounts(q, al, h')
  BY <1>1, <1>4
<1>5. CASE GiveStep(g, q, t, r)
  <2>1. Back(h[t]) /\ ~Back(r) /\ q.inst = p.inst /\ Gives(p, q, h[t].lease.sess) /\ UNCHANGED <<allocations, issued>>
    BY <1>5 DEF GiveStep, Back
  <2> HIDE DEF p, al
  <2>2. Accounts(q, al, h')
    BY ONLY <1>1, <2>1, GiveAccounts
  <2> QED BY <1>4, <2>1, <2>2
<1>6. CASE FreeStep(g, q, t, r)
  <2>1. /\ Back(h[t]) /\ ~Back(r) /\ q.inst = p.inst /\ h[t].lease.sess = NoSession
        /\ UsesOneLess(p, q, h[t].lease.inst) /\ UNCHANGED <<allocations, issued>>
    BY <1>6 DEF FreeStep, Back
  <2> HIDE DEF p, al
  <2>2. Accounts(q, al, h')
    BY ONLY <1>1, <2>1, FreeAccounts
  <2> QED BY <1>4, <2>1, <2>2
<1>7. CASE /\ UNCHANGED <<allocations, issued>> /\ Resting(p, q)
           /\ Back(r) <=> Back(h[t])
           /\ Back(r) => r.lease = h[t].lease
  <2> HIDE DEF p, al
  <2>1. Accounts(q, al, h')
    BY ONLY <1>1, <1>7, <1>l, RestAccounts
  <2> QED BY <1>4, <1>7, <2>1
<1>8. CASE StartStep(g, q, t, r)
  <2>1. UNCHANGED <<allocations, issued>> /\ ~Back(r) /\ ~Back(h[t])
    BY <1>8 DEF StartStep, Back
  <2>2. CASE q = p
    <3>1. Resting(p, q)
      <4>1. p.inst \subseteq p.inst /\ \A j \in Instances : p.inUse[j] = p.inUse[j] \/ (j \notin p.inst /\ p.inUse[j] = 0)
        OBVIOUS
      <4> HIDE DEF p
      <4> QED BY <1>1, <2>2, <4>1, QuietRests
    <3> QED BY <1>7, <2>1, <3>1
  <2>3. CASE IdleBinding(pool[g], h[t].sess) /\ \E timer : TimerSet(g, h[t].sess, timer, q)
    <3>1. Resting(p, q)
      BY <1>1, <2>3, TimerRests DEF IdleBinding
    <3> QED BY <1>7, <2>1, <3>1
  <2> QED BY <1>8, <2>2, <2>3 DEF StartStep
<1>9. CASE FireStep(g, q, t, r)
  <2>1. UNCHANGED <<allocations, issued>> /\ r = h[t]
    BY <1>9 DEF FireStep
  <2>2. Resting(p, q)
    BY <1>1, <1>9, TimerRests, UnbindRests DEF FireStep
  <2> QED BY <1>7, <2>1, <2>2
<1>10. CASE QuietStep(g, q, t, r)
  <2>1. Resting(p, q)
    BY <1>1, <1>10, QuietRests DEF QuietStep
  <2> QED BY <1>7, <1>10, <2>1 DEF QuietStep
<1> QED BY <1>2, <1>3, <1>5, <1>6, <1>8, <1>9, <1>10 DEF PoolStepKind, TakeStep, UseStep

LEMMA StepAccInv ==
  ASSUME Steady, IInv, AccInv, SomeStep
  PROVE  AccInv'
<1>1. PICK g, q, t, r : Change(g, q, t, r) /\ PoolStepKind(g, q, t, r)
  BY DEF SomeStep
<1>2. /\ Accounts(q, allocations', h') /\ IsFiniteSet(DOMAIN allocations')
      /\ issued' \subseteq issued \cup DOMAIN allocations'
      /\ \A a \in DOMAIN allocations' : a \in DOMAIN allocations \/ a.seq <= q.seq
  BY <1>1, StepAccounts
<1>3. g \in Pools /\ t \in Handlers /\ pool' = [pool EXCEPT ![g] = q] /\ pool[g].seq <= q.seq /\ Moved(h, h', t, r)
      /\ r.pc \notin {"wait", "drop"} /\ UNCHANGED deleting
      /\ (curPool' = NoPool => curPool = NoPool /\ r.pc = "idle" /\ UNCHANGED allocations)
  BY <1>1 DEF Change
<1>4. \A k \in Pools : pool'[k] = q
  <2>1. pool'[g] = q
    BY <1>3 DEF IInv, PoolsOK
  <2> QED BY <1>3, <2>1, OnePool DEF Steady
<1>5. deleting'.pc = "idle"
  BY <1>3 DEF AccInv
<1>6. \A k \in Pools : Accounts(pool'[k], allocations', h')
  BY <1>2, <1>4
<1>7. ASSUME NEW k \in Pools, NEW a \in DOMAIN allocations' \cup issued' PROVE a.seq <= pool'[k].seq
  <2>1. pool[g].seq \in Nat /\ q.seq \in Nat
    BY <1>1, <1>3, SamePool DEF Change, PoolOK, PoolState
  <2>2. a \in DOMAIN allocations \cup issued \/ a.seq <= q.seq
    BY <1>2
  <2>3. CASE a \in DOMAIN allocations \cup issued
    <3>1. a.seq <= pool[g].seq
      BY <1>3, <2>3 DEF AccInv
    <3>2. a.seq \in Nat
      BY <2>3 DEF IInv, LeasesOK, RestOK, Lease
    <3> QED BY <1>3, <1>4, <2>1, <3>1, <3>2
  <2> QED BY <1>4, <2>2, <2>3
<1>8. \A u \in Handlers : h'[u].pc \notin {"wait", "drop"}
  BY <1>3 DEF Moved, AccInv
<1>9. curPool' = NoPool => DOMAIN allocations' = {} /\ \A u \in Handlers : h'[u].pc = "idle"
  BY <1>3 DEF Moved, AccInv
<1> QED BY <1>2, <1>5, <1>6, <1>7, <1>8, <1>9
        DEF AccInv, Accounts, Counted, Exact, Affine, Rooted, UnitsIn, Live, Coming, Back, Slack, SumHeld, BoundTo, Bound, Active, Held

-----------------------------------------------------------------------------
(***************************************************************************)
(* The theorems about a steady pool.                                       *)
(***************************************************************************)

LEMMA InitAccounts == ASSUME Init PROVE AccInv
<1>1. Idle.pc = "idle" /\ ~Back(Idle)
  BY DEF Idle, Back
<1>2. DOMAIN allocations = {} /\ issued = {} /\ deleting.pc = "idle" /\ \A t \in Handlers : h[t] = Idle
  BY DEF Init
<1>3. IsFiniteSet(DOMAIN allocations)
  BY <1>2, FS_EmptySet
<1>4. \A S : UnitsIn(allocations, h, S) = 0
  BY <1>1, <1>2, UnitsNone
<1>5. ASSUME NEW g \in Pools PROVE Accounts(pool[g], allocations, h)
  <2>1. pool[g] = EmptyPool
    BY DEF Init
  <2>2. \A s \in Sessions : ~Bound(EmptyPool, s)
    BY DEF EmptyPool, Bound
  <2>3. Counted(pool[g], allocations, h)
    BY <1>4, <2>1, <2>2 DEF Counted, Active
  <2>4. Exact(pool[g], allocations, h)
    <3> SUFFICES ASSUME NEW i \in Instances PROVE UnitsIn(allocations, h, FreeOn(i)) = Slack(pool[g], i)
      BY DEF Exact
    <3>1. SumHeld(EmptyPool, i) = 0
      BY <2>2, SumHeldNone
    <3>2. EmptyPool.inUse[i] = 0
      BY DEF EmptyPool
    <3> QED BY <1>4, <2>1, <3>1, <3>2 DEF Slack
  <2>5. Affine(pool[g], allocations) /\ Rooted(pool[g], h)
    BY <1>1, <1>2 DEF Affine, Rooted
  <2> QED BY <2>3, <2>4, <2>5 DEF Accounts
<1> QED BY <1>1, <1>2, <1>3, <1>5 DEF AccInv

\* The accounts of a steady pool are right at any time.
LEMMA SteadyAccounts ==
  ASSUME Steady
  PROVE  Spec => [](IInv /\ AccInv)
<1>1. Init => AccInv
  BY InitAccounts
<1>2. IInv /\ IInv' /\ AccInv /\ [Next]_vars => AccInv'
  BY NextKind, StepAccInv
<1> QED BY <1>1, <1>2, Invariance, PTL DEF Spec

\* The properties' sets are the ones the accounts count.
LEMMA SameSets ==
  ASSUME IInv, AccInv, NEW g \in Pools
  PROVE  /\ \A s : LeasesOf(s) = Live(allocations, OfSession(s))
         /\ \A s : Returning(s) = Coming(h, OfSession(s))
         /\ \A i : {a \in LeasesOf(NoSession) : a.inst = i} = Live(allocations, FreeOn(i))
         /\ \A i : {t \in Returning(NoSession) : h[t].lease.inst = i} = Coming(h, FreeOn(i))
<1>1. DOMAIN allocations \subseteq Lease
  BY DEF IInv, LeasesOK
<1>2. \A t \in Handlers : Back(h[t]) => h[t].lease \in Lease
  BY DEF AccInv, Accounts, Rooted
<1> QED BY <1>1, <1>2 DEF LeasesOf, Returning, Live, Coming, OfSession, FreeOn, Back

LEMMA CurPoolAccounts ==
  ASSUME IInv, AccInv, curPool # NoPool
  PROVE  curPool \in Pools /\ pool[curPool] \in PoolState /\ Accounts(pool[curPool], allocations, h)
  BY CurPoolOK, SamePool DEF IInv, AccInv

\* activeAllocs of a binding counts the session's leases and the units on their
\* way back, for any number of sessions, instances and requests, as long as
\* the pool is not deleted, loses no instance and lets no request poll for a
\* slot: the acquires and releases of handleAcquire, handleRelease, the reaper
\* and reacquireAllocation count every unit once.
THEOREM ActiveMatches ==
  ASSUME MaxPools = 1, Removable = {}, ~AcquireWait
  PROVE  Spec => []ActiveMatchesLeases
<1>1. Spec => [](IInv /\ AccInv)
  BY SteadyAccounts DEF Steady
<1>2. IInv /\ AccInv => ActiveMatchesLeases
  <2> SUFFICES ASSUME IInv, AccInv, curPool # NoPool, NEW s \in Sessions
               PROVE  Cardinality(LeasesOf(s)) + Cardinality(Returning(s)) =
                        IF Bound(pool[curPool], s) THEN pool[curPool].sess[s].active ELSE 0
    BY DEF ActiveMatchesLeases
  <2>1. curPool \in Pools /\ Accounts(pool[curPool], allocations, h)
    BY CurPoolAccounts
  <2>2. UnitsIn(allocations, h, OfSession(s)) = Active(pool[curPool], s)
    BY <2>1 DEF Accounts, Counted
  <2>3. LeasesOf(s) = Live(allocations, OfSession(s)) /\ Returning(s) = Coming(h, OfSession(s))
    BY <2>1, SameSets
  <2> QED BY <2>2, <2>3 DEF UnitsIn, Active
<1> QED BY <1>1, <1>2, PTL

\* InUse of an instance is what its bindings hold plus the units of requests
\* without a session, under the same conditions: no unit leaks and none is
\* returned twice.
THEOREM InUseIsExact ==
  ASSUME MaxPools = 1, Removable = {}, ~AcquireWait
  PROVE  Spec => []InUseExact
<1>1. Spec => [](IInv /\ AccInv)
  BY SteadyAccounts DEF Steady
<1>2. IInv /\ AccInv => InUseExact
  <2> SUFFICES ASSUME IInv, AccInv, curPool # NoPool, NEW i \in Instances
               PROVE  pool[curPool].inUse[i] =
                        SumHeld(pool[curPool], i)
                        + Cardinality({a \in LeasesOf(NoSession) : a.inst = i})
                        + Cardinality({t \in Returning(NoSession) : h[t].lease.inst = i})
    BY DEF InUseExact
  <2> DEFINE p == pool[curPool]
             A == {a \in LeasesOf(NoSession) : a.inst = i}
             B == {t \in Returning(NoSession) : h[t].lease.inst = i}
  <2>1. curPool \in Pools /\ p \in PoolState /\ Accounts(p, allocations, h)
    BY CurPoolAccounts
  <2>2. UnitsIn(allocations, h, FreeOn(i)) = Slack(p, i)
    BY <2>1 DEF Accounts, Exact
  <2>3. A = Live(allocations, FreeOn(i)) /\ B = Coming(h, FreeOn(i))
    BY <2>1, SameSets
  <2>4. p.inUse[i] \in Nat /\ SumHeld(p, i) \in Nat
    BY <2>1, SumHeldNat DEF PoolState
  <2>5. Cardinality(A) \in Nat /\ Cardinality(B) \in Nat
    BY <2>3, UnitsNat DEF AccInv
  <2>6. Cardinality(A) + Cardinality(B) = p.inUse[i] - SumHeld(p, i)
    BY <2>2, <2>3 DEF UnitsIn, Slack
  <2> HIDE DEF A, B, p
  <2>7. p.inUse[i] = SumHeld(p, i) + Cardinality(A) + Cardinality(B)
    BY <2>4, <2>5, <2>6
  <2> QED BY <2>7 DEF A, B, p
<1> QED BY <1>1, <1>2, PTL

\* All leases of a session are on the instance it is bound to, under the same
\* conditions: a session is bound afresh only when none of its leases is left.
THEOREM SessionsAreSticky ==
  ASSUME MaxPools = 1, Removable = {}, ~AcquireWait
  PROVE  Spec => []SessionAffinity
<1>1. Spec => [](IInv /\ AccInv)
  BY SteadyAccounts DEF Steady
<1>2. IInv /\ AccInv => SessionAffinity
  BY CurPoolAccounts DEF Accounts, Affine, SessionAffinity
<1> QED BY <1>1, <1>2, PTL

-----------------------------------------------------------------------------
\* Only fireSessionUnbind takes a binding away.
LEMMA UnbindStep ==
  ASSUME Steady, IInv, AccInv, NEW g, NEW q, NEW t, NEW r, Change(g, q, t, r), PoolStepKind(g, q, t, r),
         NEW s \in Sessions, Bound(pool[g], s), ~Bound(q, s)
  PROVE  IdleBinding(pool[g], s)
<1> DEFINE p == pool[g]
<1>0. g \in Pools /\ PoolOK(p)
  BY SamePool DEF Change
<1>1. ~TakeStep(g, q, t, r)
  <2> SUFFICES ASSUME NEW a, Takes(p, q, a.sess, a.inst) PROVE FALSE
    BY DEF TakeStep
  <2>1. CASE s = a.sess
    BY <2>1, NoBindingIsNoBinding DEF Takes, Bound
  <2>2. CASE s # a.sess
    BY <2>2 DEF Takes, OthersKept, Bound
  <2> QED BY <2>1, <2>2
<1>2. ~UseStep(g, q, t, r) /\ ~DropStep(g, q, t, r) /\ ~FreeStep(g, q, t, r) /\ ~QuietStep(g, q, t, r)
  BY DEF UseStep, DropStep, FreeStep, QuietStep, UsesOneMore, UsesOneLess, Bound
<1>3. ~GiveStep(g, q, t, r)
  <2> SUFFICES ASSUME NEW u, Gives(p, q, u) PROVE FALSE
    BY DEF GiveStep
  <2>1. CASE s = u
    <3>1. p.sess[s] \in Binding
      BY <1>0, BoundBinding
    <3>2. UnbindOnRelease(p.sess[s]) \in Binding
      BY <3>1, UnbindOnReleaseOK
    <3> QED BY <2>1, <3>2, NoBindingIsNoBinding DEF Gives, Bound
  <2>2. CASE s # u
    BY <2>2 DEF Gives, OthersKept, Bound
  <2> QED BY <2>1, <2>2
<1>4. ASSUME NEW u, NEW timer, Bound(p, u), TimerSet(g, u, timer, q) PROVE FALSE
  <2>1. CASE s = u
    BY <1>0, <1>4, <2>1, TimerRests
  <2>2. CASE s # u
    BY <1>4, <2>2 DEF TimerSet, Bound
  <2> QED BY <2>1, <2>2
<1>5. ~StartStep(g, q, t, r)
  BY <1>4 DEF StartStep, IdleBinding
<1>6. CASE FireStep(g, q, t, r)
  <2>1. PICK u \in Sessions : IdleBinding(p, u) /\ OthersKept(p, q, u)
    BY <1>4, <1>6 DEF FireStep
  <2>2. s = u
    BY <2>1 DEF OthersKept, Bound
  <2> QED BY <2>1, <2>2
<1> QED BY <1>1, <1>2, <1>3, <1>5, <1>6 DEF PoolStepKind

\* Only a session without leases loses its binding: fireSessionUnbind never
\* takes the reservation of a session a client still holds a lease of, and
\* nothing else unbinds a session on an instance that stays.
THEOREM OnlyIdleUnbinds ==
  ASSUME MaxPools = 1, Removable = {}, ~AcquireWait
  PROVE  Spec => UnbindOnlyIdle
<1> DEFINE A == \A s \in Sessions :
                  /\ curPool # NoPool /\ curPool' = curPool
                  /\ Bound(pool[curPool], s) /\ ~Bound(pool'[curPool], s)
                  /\ pool[curPool].sess[s].inst \in pool'[curPool].inst
                  => LeasesOf(s) = {}
<1>0. Steady
  BY DEF Steady
<1>1. Spec => [](IInv /\ AccInv)
  BY <1>0, SteadyAccounts
<1>2. IInv /\ AccInv /\ IInv' /\ [Next]_vars => [A]_vars
  <2> SUFFICES ASSUME IInv, AccInv, IInv', [Next]_vars, NEW s \in Sessions, curPool # NoPool,
                      Bound(pool[curPool], s), ~Bound(pool'[curPool], s)
               PROVE  LeasesOf(s) = {}
    OBVIOUS
  <2>1. PICK g, q, t, r : Change(g, q, t, r) /\ PoolStepKind(g, q, t, r)
    BY <1>0, NextKind DEF SomeStep
  <2>2. curPool \in Pools /\ g \in Pools /\ pool' = [pool EXCEPT ![g] = q]
    BY <2>1, CurPoolAccounts DEF Change
  <2>3. g = curPool /\ pool'[g] = q
    BY <2>2, OnePool DEF IInv, PoolsOK
  <2>4. IdleBinding(pool[g], s)
    BY <1>0, <2>1, <2>3, UnbindStep
  <2>5. Active(pool[g], s) = 0
    BY <2>4 DEF IdleBinding, Active
  <2>6. UnitsIn(allocations, h, OfSession(s)) = 0 /\ IsFiniteSet(DOMAIN allocations)
    BY <2>2, <2>5 DEF AccInv, Accounts, Counted
  <2>7. ~\E a \in DOMAIN allocations : a \in OfSession(s)
    <3>1. ASSUME NEW a \in DOMAIN allocations, a \in OfSession(s) PROVE FALSE
      <4>1. UnitsIn(allocations, h, OfSession(s)) >= 1
        BY <2>6, <3>1, UnitsSome
      <4> QED BY <2>6, <4>1
    <3> QED BY <3>1
  <2> QED BY <2>2, <2>7, SameSets DEF Live
<1> QED BY <1>1, <1>2, PTL DEF Spec, UnbindOnlyIdle

-----------------------------------------------------------------------------
(***************************************************************************)
(* Idle sessions have a timer, in any pool.                                *)
(***************************************************************************)

\* No lease is rebuilt by a retain: reacquireAllocation leaves the timer and
\* does not look at the capacity.
Checked == SessionCtx \/ ~(Retains /\ Reacquire)

Starting(hs, g, s) == \E t \in Handlers : hs[t].pc = "timer" /\ hs[t].pool = g /\ hs[t].sess = s

Timed(p, hs, g, s) ==
  Bound(p, s) =>
    /\ p.sess[s].expiring <=> p.sess[s].active = 0
    /\ p.sess[s].expiring => p.sess[s].timer = "ticking" \/ Starting(hs, g, s)

\* A handler that is not about to start a timer leaves the others' to them.
LEMMA StartingKept ==
  ASSUME NEW t \in Handlers, NEW r, Moved(h, h', t, r), h[t].pc = "timer" => r = h[t],
         NEW g, NEW s, Starting(h, g, s)
  PROVE  Starting(h', g, s)
<1>1. PICK u \in Handlers : h[u].pc = "timer" /\ h[u].pool = g /\ h[u].sess = s
  BY DEF Starting
<1>2. h'[u] = h[u]
  BY <1>1 DEF Moved
<1> QED BY <1>1, <1>2 DEF Starting

TimerInv == \A g \in Pools, s \in Sessions : Timed(pool[g], h, g, s)

\* What a binding may become, whatever its timer does.
Undisturbed(b, c) == c = b \/ c = NoBinding \/ (c.active # 0 /\ ~c.expiring)

\* A handler that is about to start a timer still is.
StartsKept == \A g \in Pools, s \in Sessions : Starting(h, g, s) => Starting(h', g, s)

LEMMA StartsElsewhere ==
  ASSUME IInv, NEW t \in Handlers, h[t].pc # "timer", NEW r, h' = [h EXCEPT ![t] = r]
  PROVE  StartsKept
<1>1. Moved(h, h', t, r)
  BY DEF IInv, HandlersOK, Moved
<1> QED BY <1>1, StartingKept DEF StartsKept

\* A step of one pool that leaves the timers alone.
LEMMA TimersStep ==
  ASSUME IInv, TimerInv, StartsKept, NEW g \in Pools, NEW q, pool' = [pool EXCEPT ![g] = q],
         \A s \in Sessions : Undisturbed(pool[g].sess[s], q.sess[s])
  PROVE  TimerInv'
<1>1. \A k \in Pools : pool'[k] = IF k = g THEN q ELSE pool[k]
  BY DEF IInv, PoolsOK
<1>2. ASSUME NEW k \in Pools, NEW s \in Sessions PROVE Timed(pool'[k], h', k, s)
  <2>1. Undisturbed(pool[k].sess[s], pool'[k].sess[s])
    BY <1>1 DEF Undisturbed
  <2>2. Timed(pool[k], h, k, s)
    BY DEF TimerInv
  <2>3. CASE pool'[k].sess[s] = pool[k].sess[s]
    BY <2>2, <2>3 DEF Timed, Bound, StartsKept
  <2>4. CASE pool'[k].sess[s] = NoBinding
    BY <2>4 DEF Timed, Bound
  <2>5. CASE pool'[k].sess[s].active # 0 /\ ~pool'[k].sess[s].expiring
    BY <2>5 DEF Timed
  <2> QED BY <2>1, <2>3, <2>4, <2>5 DEF Undisturbed
<1> QED BY <1>2 DEF TimerInv, Timed, Starting, Bound

LEMMA TimersSamePools == ASSUME TimerInv, StartsKept, UNCHANGED pool PROVE TimerInv'
<1>1. ASSUME NEW k \in Pools, NEW s \in Sessions PROVE Timed(pool'[k], h', k, s)
  BY DEF TimerInv, Timed, StartsKept
<1> QED BY <1>1 DEF TimerInv, Timed, Starting, Bound

\* A grant cancels the unbind of its session, or binds it anew, with a unit out.
LEMMA AcquireTimers ==
  ASSUME IInv, TimerInv, NEW t \in Handlers,
         \/ \E s \in SessionIDs : AcquireSticky(t, s)
         \/ DispatchSticky(t) \/ DispatchAssign(t) \/ PollAssign(t)
  PROVE  TimerInv'
<1>0. /\ h[t].pc # "timer"
      /\ h[t].pc \in {"dispatch", "wait"} => h[t].pool \in Pools /\ h[t].conc \in Concurrencies
  BY HandlerFacts DEF IInv, AcquireSticky, DispatchSticky, DispatchAssign, PollAssign
<1>1. ASSUME NEW g \in Pools, NEW s, StickyHit(pool[g], s), AssignSticky(t, g, s) PROVE TimerInv'
  <2>0. PICK q : StickyGranted(t, g, q, s)
    BY <1>1, StickyGrant
  <2>1. /\ pool' = [pool EXCEPT ![g] = q] /\ h' = [h EXCEPT ![t] = Idle]
        /\ q.sess[s].active = pool[g].sess[s].active + 1 /\ pool[g].sess[s].active \in Nat
        /\ ~q.sess[s].expiring
        /\ \A u \in Sessions \ {s} : q.sess[u] = pool[g].sess[u]
    BY <2>0 DEF StickyGranted, Granted, Binding
  <2>2. q.sess[s].active # 0
    BY <2>1
  <2>3. StartsKept
    BY <1>0, <2>1, StartsElsewhere
  <2>4. \A u \in Sessions : Undisturbed(pool[g].sess[u], q.sess[u])
    BY <2>1, <2>2 DEF Undisturbed
  <2> QED BY <2>1, <2>3, <2>4, TimersStep
<1>2. ASSUME NEW g \in Pools, NEW s, NEW i \in pool[g].inst, NEW c \in Concurrencies, AssignFresh(t, g, s, i, c)
      PROVE  TimerInv'
  <2>1. PICK q : /\ pool' = [pool EXCEPT ![g] = q] /\ h' = [h EXCEPT ![t] = Idle]
                 /\ \A u \in Sessions : Undisturbed(pool[g].sess[u], q.sess[u])
    <3>1. CASE s \in Sessions
      <4>1. PICK q : FreshGranted(t, g, q, s, i, c)
        BY <1>2, <3>1, FreshGrant
      <4>2. /\ pool' = [pool EXCEPT ![g] = q] /\ h' = [h EXCEPT ![t] = Idle]
            /\ q.sess[s].active # 0 /\ ~q.sess[s].expiring
            /\ \A u \in Sessions \ {s} : q.sess[u] = pool[g].sess[u]
        BY <4>1 DEF FreshGranted, Granted
      <4>3. \A u \in Sessions : Undisturbed(pool[g].sess[u], q.sess[u])
        BY <4>2 DEF Undisturbed
      <4> QED BY <4>2, <4>3
    <3>2. CASE s \notin Sessions
      <4>1. PICK q : FreeGranted(t, g, q, s, i)
        BY <1>2, <3>2, FreeGrant
      <4> QED BY <4>1 DEF FreeGranted, Granted, Undisturbed
    <3> QED BY <3>1, <3>2
  <2>2. StartsKept
    BY <1>0, <2>1, StartsElsewhere
  <2> QED BY <2>1, <2>2, TimersStep
<1>3. ASSUME NEW s \in SessionIDs, AcquireSticky(t, s) PROVE TimerInv'
  <2>1. curPool \in Pools /\ StickyHit(pool[curPool], s) /\ AssignSticky(t, curPool, s)
    BY <1>3, CurPoolOK DEF IInv, AcquireSticky
  <2> QED BY <1>1, <2>1
<1>4. CASE DispatchSticky(t)
  BY <1>0, <1>1, <1>4 DEF DispatchSticky
<1>5. CASE DispatchAssign(t) \/ PollAssign(t)
  <2>1. h[t].pool \in Pools /\ h[t].conc \in Concurrencies
    BY <1>0, <1>5 DEF DispatchAssign, PollAssign
  <2>2. PICK i \in pool[h[t].pool].inst : AssignFresh(t, h[t].pool, h[t].sess, i, h[t].conc)
    BY <1>5 DEF DispatchAssign, PollAssign, Recoverable, Candidates
  <2> QED BY <1>2, <2>1, <2>2
<1> QED BY <1>3, <1>4, <1>5

\* The last unit that comes back sends its handler to start the timer.
LEMMA ReturnTimers == ASSUME IInv, TimerInv, NEW t \in Handlers, Return(t) PROVE TimerInv'
<1> DEFINE g == curPool
           p == pool[g]
           u == h[t].lease.sess
           b == p.sess[u]
           c == UnbindOnRelease(b)
           q == ReturnUnit(p, h[t].lease)
           r == [Idle EXCEPT !.pc = "timer", !.sess = u, !.pool = g]
<1>0. h[t].pc # "timer"
  BY DEF Return
<1>1. CASE UNCHANGED pool /\ h' = [h EXCEPT ![t] = Idle]
  <2>1. StartsKept
    BY <1>0, <1>1, StartsElsewhere
  <2> QED BY <1>1, <2>1, TimersSamePools
<1>2. CASE /\ g # NoPool /\ pool' = [pool EXCEPT ![g] = q]
           /\ h' = [h EXCEPT ![t] = IF Bound(p, u) /\ NeedTimer(b) THEN r ELSE Idle]
  <2>0. g \in Pools /\ PoolOK(p) /\ p \in PoolState
    BY <1>2, CurPoolOK DEF IInv, PoolsOK, PoolOK
  <2>s. StartsKept
    <3>1. PICK x : h' = [h EXCEPT ![t] = x]
      BY <1>2
    <3> QED BY <1>0, <3>1, StartsElsewhere
  <2>1. CASE ~Bound(p, u)
    <3>1. q.sess = p.sess
      BY <2>0, <2>1 DEF ReturnUnit, PoolState
    <3> QED BY <1>2, <2>0, <2>s, <3>1, TimersStep DEF Undisturbed
  <2>2. CASE Bound(p, u)
    <3>1. u \in Sessions /\ b \in Binding /\ b.active \in Nat
      BY <2>0, <2>2, BoundBinding DEF Binding
    <3>2. /\ b.expiring <=> b.active = 0
          /\ b.expiring => b.timer = "ticking" \/ Starting(h, g, u)
      BY <2>0, <2>2, <3>1 DEF TimerInv, Timed
    <3>3. q.sess[u] = c /\ \A s \in Sessions \ {u} : q.sess[s] = p.sess[s]
      BY <2>0, <2>2, <3>1 DEF ReturnUnit, PoolState
    <3>4. /\ c.timer = b.timer
          /\ c.active = IF b.active > 0 THEN b.active - 1 ELSE 0
          /\ c.expiring <=> b.expiring \/ c.active = 0
      <4> HIDE DEF b
      <4> QED BY <3>1, UnbindOnReleaseShape
    <3>5. Bound(p, u) /\ NeedTimer(b) => Starting(h', g, u)
      <4> SUFFICES ASSUME NeedTimer(b) PROVE Starting(h', g, u)
        OBVIOUS
      <4>1. h'[t] = r
        BY <1>2, <2>2 DEF IInv, HandlersOK
      <4>2. r.pc = "timer" /\ r.sess = u /\ r.pool = g
        BY DEF Idle
      <4> HIDE DEF r
      <4> QED BY <4>1, <4>2 DEF Starting
    <3> HIDE DEF q, c, b, u, p, r
    <3>6. ASSUME NEW k \in Pools, NEW s \in Sessions PROVE Timed(pool'[k], h', k, s)
      <4>1. pool'[k] = IF k = g THEN q ELSE pool[k]
        BY <1>2 DEF IInv, PoolsOK
      <4>2. Timed(pool[k], h, k, s)
        BY DEF TimerInv
      <4>3. CASE k = g /\ s = u
        <5>1. pool'[k].sess[s] = c
          BY <3>3, <4>1, <4>3
        <5>2. c.expiring <=> c.active = 0
          BY <3>1, <3>2, <3>4
        <5>3. c.expiring => c.timer = "ticking" \/ Starting(h', g, u)
          <6> SUFFICES ASSUME c.expiring PROVE c.timer = "ticking" \/ Starting(h', g, u)
            OBVIOUS
          <6>1. CASE b.expiring
            BY <2>0, <2>s, <3>1, <3>2, <3>4, <6>1 DEF StartsKept
          <6>2. CASE ~b.expiring
            <7>1. b.active <= 1
              BY <3>1, <3>4, <5>2
            <7> QED BY <2>2, <3>5, <6>2, <7>1 DEF NeedTimer
          <6> QED BY <6>1, <6>2
        <5> QED BY <4>3, <5>1, <5>2, <5>3 DEF Timed
      <4>4. CASE ~(k = g /\ s = u)
        <5>1. pool'[k].sess[s] = pool[k].sess[s]
          BY <3>3, <4>1, <4>4 DEF p
        <5> QED BY <2>s, <4>2, <5>1 DEF Timed, Bound, StartsKept
      <4> QED BY <4>3, <4>4
    <3> QED BY <3>6 DEF TimerInv, Timed, Starting, Bound
  <2> QED BY <2>1, <2>2
<1> QED BY <1>1, <1>2 DEF Return

\* startSessionUnbindTimer starts the timer of a session that is still idle.
LEMMA StartTimers == ASSUME ZeroTTL = {}, IInv, TimerInv, NEW t \in Handlers, StartTimer(t) PROVE TimerInv'
<1> DEFINE g == h[t].pool
           u == h[t].sess
<1>0. /\ h[t].pc = "timer" /\ h' = [h EXCEPT ![t] = Idle] /\ h \in [Handlers -> HandlerState]
      /\ \A v \in Handlers \ {t} : h'[v] = h[v]
  BY DEF StartTimer, IInv, HandlersOK
\* Only the binding this handler was sent for may lose its starter.
<1>1. ASSUME NEW k \in Pools, NEW s \in Sessions, ~(k = g /\ s = u), Starting(h, k, s) PROVE Starting(h', k, s)
  <2>1. PICK v \in Handlers : h[v].pc = "timer" /\ h[v].pool = k /\ h[v].sess = s
    BY <1>1 DEF Starting
  <2>2. h'[v] = h[v]
    BY <1>0, <1>1, <2>1
  <2> QED BY <2>1, <2>2 DEF Starting
<1>2. CASE ~IdleBinding(pool[g], u)
  <2>1. pool' = pool
    BY <1>2 DEF StartTimer, IdleBinding
  <2>2. ASSUME NEW k \in Pools, NEW s \in Sessions PROVE Timed(pool'[k], h', k, s)
    <3>1. Timed(pool[k], h, k, s)
      BY DEF TimerInv
    <3>2. CASE k = g /\ s = u
      BY <1>2, <2>1, <3>1, <3>2 DEF Timed, IdleBinding
    <3>3. CASE ~(k = g /\ s = u)
      BY <1>1, <2>1, <3>1, <3>3 DEF Timed
    <3> QED BY <3>2, <3>3
  <2> QED BY <2>2 DEF TimerInv, Timed, Starting, Bound
<1>3. CASE IdleBinding(pool[g], u)
  <2>1. pool' = [pool EXCEPT ![g].sess[u].timer = "ticking"] /\ Bound(pool[g], u)
    BY <1>3 DEF StartTimer, IdleBinding
  <2>2. CASE g \notin Pools
    <3>1. pool' = pool
      BY <2>1, <2>2 DEF IInv, PoolsOK
    <3>2. ASSUME NEW k \in Pools, NEW s \in Sessions PROVE Timed(pool'[k], h', k, s)
      <4>1. Timed(pool[k], h, k, s)
        BY DEF TimerInv
      <4> QED BY <1>1, <2>2, <3>1, <4>1 DEF Timed
    <3> QED BY <3>2 DEF TimerInv, Timed, Starting, Bound
  <2>3. CASE g \in Pools
    <3> HIDE DEF g, u
    <3>1. PICK q : TimerSet(g, u, "ticking", q)
      BY <2>1, <2>3, TimerShape
    <3>2. /\ PoolOK(pool[g])
          /\ \A k \in Pools : pool'[k] = IF k = g THEN q ELSE pool[k]
          /\ \A s \in Sessions \ {u} : q.sess[s] = pool[g].sess[s]
      BY <2>3, <3>1 DEF IInv, PoolsOK, TimerSet
    <3>3. /\ Resting(pool[g], q)
          /\ q.sess[u] = [pool[g].sess[u] EXCEPT !.timer = "ticking"] /\ Bound(q, u)
          /\ q.sess[u].active = pool[g].sess[u].active /\ (q.sess[u].expiring <=> pool[g].sess[u].expiring)
          /\ q.sess[u].timer = "ticking"
      BY ONLY <2>1, <2>3, <3>1, <3>2, TimerRests
    <3>4. ASSUME NEW k \in Pools, NEW s \in Sessions PROVE Timed(pool'[k], h', k, s)
      <4>1. Timed(pool[k], h, k, s)
        BY DEF TimerInv
      <4>2. CASE k = g /\ s = u
        BY <1>3, <3>2, <3>3, <4>2 DEF Timed, IdleBinding
      <4>3. CASE ~(k = g /\ s = u)
        <5>1. pool'[k].sess[s] = pool[k].sess[s]
          BY <3>2, <4>3
        <5> QED BY <1>1, <4>1, <4>3, <5>1 DEF Timed, Bound
      <4> QED BY <4>2, <4>3
    <3> QED BY <3>4 DEF TimerInv, Timed, Starting, Bound
  <2> QED BY <2>2, <2>3
<1> QED BY <1>2, <1>3

\* A timer that fires ends the binding of an idle session, and a session in
\* use needs none.
LEMMA FireTimers ==
  ASSUME IInv, TimerInv, NEW g \in Pools, NEW u \in Sessions, FireUnbind(g, u)
  PROVE  TimerInv'
<1> DEFINE p == pool[g]
<1>0. PoolOK(p) /\ p \in PoolState /\ Bound(p, u) /\ UNCHANGED h
  BY DEF FireUnbind, IInv, PoolsOK, PoolOK
<1>1. StartsKept
  BY <1>0 DEF StartsKept
<1>2. Timed(p, h, g, u)
  BY DEF TimerInv
<1>3. CASE IdleBinding(p, u)
  <2> DEFINE q == RemoveBinding(p, u)
  <2>1. pool' = [pool EXCEPT ![g] = q]
    BY <1>3 DEF FireUnbind, IdleBinding
  <2>2. q.sess[u] = NoBinding /\ \A s \in Sessions \ {u} : q.sess[s] = p.sess[s]
    BY <1>0 DEF RemoveBinding, PoolState
  <2> HIDE DEF q
  <2>3. \A s \in Sessions : Undisturbed(p.sess[s], q.sess[s])
    BY <2>2 DEF Undisturbed
  <2> QED BY <1>1, <2>1, <2>3, TimersStep
<1>4. CASE ~IdleBinding(p, u)
  <2>1. pool' = [pool EXCEPT ![g].sess[u].timer = "dead"]
    BY <1>4 DEF FireUnbind, IdleBinding
  <2>2. PICK q : TimerSet(g, u, "dead", q)
    BY <1>0, <2>1, TimerShape
  <2>3. /\ Resting(pool[g], q)
        /\ q.sess[u] = [pool[g].sess[u] EXCEPT !.timer = "dead"] /\ Bound(q, u)
        /\ q.sess[u].active = pool[g].sess[u].active /\ (q.sess[u].expiring <=> pool[g].sess[u].expiring)
        /\ q.sess[u].timer = "dead"
    BY ONLY <1>0, <2>2, g \in Pools, TimerRests
  <2>4. p.sess[u].active # 0 /\ ~p.sess[u].expiring
    BY <1>0, <1>2, <1>4 DEF Timed, IdleBinding
  <2>5. pool' = [pool EXCEPT ![g] = q] /\ \A s \in Sessions : Undisturbed(p.sess[s], q.sess[s])
    BY <2>2, <2>3, <2>4 DEF TimerSet, Undisturbed
  <2> QED BY <1>1, <2>5, TimersStep
<1> QED BY <1>3, <1>4

\* The registry takes bindings away and changes none.
LEMMA RegistryTimers == ASSUME IInv, TimerInv, Registry PROVE TimerInv'
<1> DEFINE p == pool[curPool]
<1>0. PoolsOK /\ (curPool # NoPool => curPool \in Pools /\ PoolOK(p) /\ p \in PoolState)
  BY CurPoolOK DEF IInv, PoolsOK, PoolOK
<1>s. StartsKept
  <2>1. UNCHANGED h
    BY DEF Registry, UpsertPool, DeletePool, DeleteRecords, DeleteAllocations,
           InstanceUpdate, InstanceDelete, IdleReport, IdleReset
  <2> QED BY <2>1 DEF StartsKept
<1>1. CASE UNCHANGED pool
  BY <1>1, <1>s, TimersSamePools
<1>2. CASE DeletePool
  <2> DEFINE q == [p EXCEPT !.sess = [s \in Sessions |-> NoBinding]]
  <2>1. curPool \in Pools /\ pool' = [pool EXCEPT ![curPool] = q] /\ q.sess = [s \in Sessions |-> NoBinding]
    BY <1>0, <1>2 DEF DeletePool, PoolState
  <2> HIDE DEF q
  <2> QED BY <1>s, <2>1, TimersStep DEF Undisturbed
<1>3. CASE DeleteRecords
  <2> DEFINE g == deleting.pool
             q == [pool[g] EXCEPT !.stopped = TRUE]
  <2>1. pool' = [pool EXCEPT ![g] = q]
    BY <1>3 DEF DeleteRecords
  <2>2. CASE g \in Pools
    <3>1. q.sess = pool[g].sess
      BY <1>0, <2>2 DEF PoolsOK, PoolState
    <3> HIDE DEF q, g
    <3> QED BY <1>s, <2>1, <2>2, <3>1, TimersStep DEF Undisturbed
  <2>3. CASE g \notin Pools
    <3>1. pool' = pool
      BY <1>0, <2>1, <2>3 DEF PoolsOK
    <3> QED BY <1>1, <3>1
  <2> QED BY <2>2, <2>3
<1>4. ASSUME NEW i \in Instances, InstanceUpdate(i) PROVE TimerInv'
  <2> DEFINE q == [p EXCEPT !.inst = @ \cup {i}, !.inUse[i] = 0]
  <2>1. curPool \in Pools /\ pool' = [pool EXCEPT ![curPool] = q]
    BY <1>0, <1>4 DEF InstanceUpdate, PoolsOK, PoolState
  <2>2. q.sess = p.sess
    BY <1>0, <1>4 DEF InstanceUpdate, PoolState
  <2> HIDE DEF q
  <2> QED BY <1>s, <2>1, <2>2, TimersStep DEF Undisturbed
<1>5. ASSUME NEW i \in Instances, InstanceDelete(i) PROVE TimerInv'
  <2> DEFINE q == RemoveInstance(p, i)
  <2>1. curPool \in Pools /\ PoolOK(p) /\ pool' = [pool EXCEPT ![curPool] = q]
    BY <1>0, <1>5 DEF InstanceDelete
  <2>2. q.sess = [s \in Sessions |-> IF p.sess[s].inst = i THEN NoBinding ELSE p.sess[s]]
    BY <2>1, RemoveInstanceShape
  <2> HIDE DEF q
  <2>3. \A s \in Sessions : Undisturbed(p.sess[s], q.sess[s])
    BY <2>2 DEF Undisturbed
  <2> QED BY <1>s, <2>1, <2>3, TimersStep
<1>6. ASSUME NEW i \in Instances, IdleReport(i) \/ IdleReset(i) PROVE TimerInv'
  <2>1. PICK R : curPool # NoPool /\ pool' = [pool EXCEPT ![curPool].reclaiming = R]
    BY <1>6 DEF IdleReport, IdleReset
  <2> DEFINE q == [p EXCEPT !.reclaiming = R]
  <2>2. curPool \in Pools /\ pool' = [pool EXCEPT ![curPool] = q] /\ q.sess = p.sess
    BY <1>0, <2>1 DEF PoolsOK, PoolState
  <2> HIDE DEF q
  <2> QED BY <1>s, <2>2, TimersStep DEF Undisturbed
<1> QED BY <1>1, <1>2, <1>3, <1>4, <1>5, <1>6 DEF Registry, UpsertPool, DeleteAllocations

LEMMA NextTimers ==
  ASSUME Checked, ZeroTTL = {}, IInv, TimerInv, [Next]_vars
  PROVE  TimerInv'
<1>0. Requests \subseteq Handlers /\ Reaper \in Handlers
  BY DEF Handlers
<1>1. ASSUME NEW t \in Handlers, h[t].pc # "timer", NEW r, h' = [h EXCEPT ![t] = r], UNCHANGED pool
      PROVE  TimerInv'
  <2>1. StartsKept
    BY <1>1, StartsElsewhere
  <2> QED BY <1>1, <2>1, TimersSamePools
<1>2. CASE UNCHANGED <<pool, h>>
  BY <1>2, TimersSamePools DEF StartsKept
<1>3. ASSUME NEW t \in Requests, Call(t) PROVE TimerInv'
  <2>1. ASSUME NEW s \in SessionIDs, NEW c \in Concurrencies, AcquireMiss(t, s, c) PROVE TimerInv'
    <3>1. h[t].pc # "timer" /\ UNCHANGED pool /\ \E r : h' = [h EXCEPT ![t] = r]
      BY <2>1 DEF AcquireMiss
    <3> QED BY <1>0, <1>1, <3>1
  <2>2. ASSUME NEW a \in DOMAIN allocations, ReleaseDelete(t, a) \/ RetainLookup(t, a) PROVE TimerInv'
    <3>1. h[t].pc # "timer" /\ UNCHANGED pool /\ \E r : h' = [h EXCEPT ![t] = r]
      BY <2>2 DEF ReleaseDelete, RetainLookup
    <3> QED BY <1>0, <1>1, <3>1
  <2>3. ~\E a \in issued, c \in Concurrencies : ReacquireAllocation(t, a, c)
    BY DEF Checked, ReacquireAllocation
  <2> QED BY <1>0, <1>3, <2>1, <2>2, <2>3, AcquireTimers DEF Call
<1>4. ASSUME NEW t \in Handlers, Proceed(t) PROVE TimerInv'
  <2>1. CASE DispatchReject(t) \/ ColdStart(t) \/ PollTimeout(t) \/ ReleaseDelTask(t)
             \/ RetainUpdate(t) \/ RetainDrop(t) \/ RetainForget(t)
    <3>1. h[t].pc # "timer" /\ UNCHANGED pool
      BY <2>1 DEF DispatchReject, ColdStart, PollTimeout, ReleaseDelTask,
                  RetainUpdate, RetainDrop, RetainForget
    <3>2. \E r : h' = [h EXCEPT ![t] = r]
      <4>1. CASE ColdStart(t)
        BY <4>1 DEF ColdStart
      <4>2. CASE DispatchReject(t) \/ PollTimeout(t) \/ RetainUpdate(t) \/ RetainForget(t)
        BY <4>2 DEF DispatchReject, PollTimeout, RetainUpdate, RetainForget
      <4>3. CASE ReleaseDelTask(t) \/ RetainDrop(t)
        BY <4>3 DEF ReleaseDelTask, RetainDrop
      <4> QED BY <2>1, <4>1, <4>2, <4>3
    <3> QED BY <1>1, <3>1, <3>2
  <2>2. CASE RetainRefresh(t)
    <3>1. h[t].pc # "timer" /\ UNCHANGED pool /\ \E r : h' = [h EXCEPT ![t] = r]
      BY <2>2 DEF RetainRefresh
    <3> QED BY <1>1, <3>1
  <2> QED BY <1>4, <2>1, <2>2, AcquireTimers, ReturnTimers, StartTimers DEF Proceed
<1>5. CASE ReapDelete
  <2>1. h[Reaper].pc # "timer" /\ UNCHANGED pool /\ (UNCHANGED h \/ \E r : h' = [h EXCEPT ![Reaper] = r])
    BY <1>5 DEF ReapDelete
  <2> QED BY <1>0, <1>1, <1>2, <2>1
<1>6. CASE (\E a \in DOMAIN wheel : WheelFire(a)) \/ UNCHANGED vars
  BY <1>2, <1>6 DEF WheelFire, vars
<1> QED BY <1>3, <1>4, <1>5, <1>6, FireTimers, RegistryTimers DEF Next

\* A binding is expiring exactly while none of its units is handed out, and
\* then its unbind timer ticks or a handler is about to start it, whatever
\* instances and pools come and go and however requests wait: as long as the
\* idle TTL is not zero (a timer that fires at once may find the variable it is
\* compared with unset) and no lease is rebuilt by a retain
\* (reacquireAllocation, which only requests without a session context reach,
\* leaves the expiring mark).
THEOREM IdleSessionsHaveTimers ==
  ASSUME ZeroTTL = {}, SessionCtx \/ ~(Retains /\ Reacquire)
  PROVE  Spec => []IdleBindingHasTimer
<1>0. Checked
  BY DEF Checked
<1>1. Init => TimerInv
  BY DEF Init, TimerInv, Timed, EmptyPool, Bound
<1>2. IInv /\ TimerInv /\ [Next]_vars => TimerInv'
  BY <1>0, NextTimers
<1>3. TimerInv => IdleBindingHasTimer
  BY DEF TimerInv, Timed, Starting, IdleBindingHasTimer
<1> QED BY <1>1, <1>2, <1>3, Invariance, PTL DEF Spec

-----------------------------------------------------------------------------
(***************************************************************************)
(* No instance is oversold.                                                *)
(***************************************************************************)

CapInv == \A g \in Pools, i \in Instances : pool[g].inUse[i] <= Capacity

LEMMA CapStep ==
  ASSUME IInv, IInv', CapInv, NEW g \in Pools, NEW q, pool' = [pool EXCEPT ![g] = q],
         \A i \in Instances : q.inUse[i] <= Capacity \/ q.inUse[i] <= pool[g].inUse[i]
  PROVE  CapInv'
<1>1. \A k \in Pools : pool'[k] = IF k = g THEN q ELSE pool[k]
  BY DEF IInv, PoolsOK
<1>2. ASSUME NEW k \in Pools, NEW i \in Instances PROVE pool'[k].inUse[i] <= Capacity
  <2>1. pool[k].inUse[i] \in Nat /\ pool'[k].inUse[i] \in Nat /\ Capacity \in Nat /\ pool[k].inUse[i] <= Capacity
    BY LitePoolAssumption DEF IInv, PoolsOK, PoolState, CapInv
  <2>2. pool'[k].inUse[i] <= Capacity \/ pool'[k].inUse[i] <= pool[k].inUse[i]
    BY <1>1, <2>1
  <2> QED BY <2>1, <2>2
<1> QED BY <1>2 DEF CapInv

LEMMA CapSame == ASSUME CapInv, UNCHANGED pool PROVE CapInv'
  BY DEF CapInv

\* A grant finds room for the units it takes.
LEMMA AcquireCap ==
  ASSUME IInv, IInv', CapInv, NEW t \in Handlers,
         \/ \E s \in SessionIDs : AcquireSticky(t, s)
         \/ DispatchSticky(t) \/ DispatchAssign(t) \/ PollAssign(t)
  PROVE  CapInv'
<1>0. h[t].pc \in {"dispatch", "wait"} => h[t].pool \in Pools /\ h[t].conc \in Concurrencies
  BY HandlerFacts DEF IInv
<1>n. \A g \in Pools, i \in Instances : pool[g].inUse[i] \in Nat /\ pool[g].inst \subseteq Instances
  BY DEF IInv, PoolsOK, PoolState
<1>1. ASSUME NEW g \in Pools, NEW s, StickyHit(pool[g], s), AssignSticky(t, g, s) PROVE CapInv'
  <2>0. PICK q : StickyGranted(t, g, q, s)
    BY <1>1, StickyGrant
  <2>1. pool' = [pool EXCEPT ![g] = q]
    BY <2>0 DEF StickyGranted, Granted
  <2>2. ASSUME NEW i \in Instances PROVE q.inUse[i] <= Capacity \/ q.inUse[i] <= pool[g].inUse[i]
    <3>1. q.inUse[i] <= Capacity \/ q.inUse[i] = pool[g].inUse[i]
      BY <2>0 DEF StickyGranted
    <3> QED BY <1>n, <3>1
  <2> QED BY <2>1, <2>2, CapStep
<1>2. ASSUME NEW g \in Pools, NEW s, NEW i \in pool[g].inst, NEW c \in Concurrencies,
             pool[g].inUse[i] + c <= Capacity, AssignFresh(t, g, s, i, c)
      PROVE  CapInv'
  <2>1. PICK q, n :
          /\ n \in {c, 1} /\ pool' = [pool EXCEPT ![g] = q]
          /\ \A j \in Instances : q.inUse[j] = IF j = i THEN pool[g].inUse[j] + n ELSE pool[g].inUse[j]
    <3>1. CASE s \in Sessions
      <4>1. PICK q : FreshGranted(t, g, q, s, i, c)
        BY <1>2, <3>1, FreshGrant
      <4>2. /\ pool' = [pool EXCEPT ![g] = q]
            /\ \A j \in Instances : q.inUse[j] = IF j = i THEN pool[g].inUse[j] + c ELSE pool[g].inUse[j]
        BY <4>1 DEF FreshGranted, Granted
      <4>3. c \in {c, 1}
        OBVIOUS
      <4> QED BY ONLY <4>2, <4>3
    <3>2. CASE s \notin Sessions
      <4>1. PICK q : FreeGranted(t, g, q, s, i)
        BY <1>2, <3>2, FreeGrant
      <4>2. /\ pool' = [pool EXCEPT ![g] = q]
            /\ \A j \in Instances : q.inUse[j] = IF j = i THEN pool[g].inUse[j] + 1 ELSE pool[g].inUse[j]
        BY <4>1 DEF FreeGranted, Granted
      <4>3. 1 \in {c, 1}
        OBVIOUS
      <4> QED BY ONLY <4>2, <4>3
    <3> QED BY <3>1, <3>2
  <2>2. c \in Nat /\ n \in Nat /\ n <= c /\ Capacity \in Nat
    BY <2>1, LitePoolAssumption
  <2>3. ASSUME NEW j \in Instances PROVE q.inUse[j] <= Capacity \/ q.inUse[j] <= pool[g].inUse[j]
    BY <1>2, <1>n, <2>1, <2>2
  <2> QED BY <2>1, <2>3, CapStep
<1>3. ASSUME NEW s \in SessionIDs, AcquireSticky(t, s) PROVE CapInv'
  <2>1. curPool \in Pools /\ StickyHit(pool[curPool], s) /\ AssignSticky(t, curPool, s)
    BY <1>3, CurPoolOK DEF IInv, AcquireSticky
  <2> QED BY <1>1, <2>1
<1>4. CASE DispatchSticky(t)
  BY <1>0, <1>1, <1>4 DEF DispatchSticky
<1>5. CASE DispatchAssign(t) \/ PollAssign(t)
  <2>1. h[t].pool \in Pools /\ h[t].conc \in Concurrencies
    BY <1>0, <1>5 DEF DispatchAssign, PollAssign
  <2>2. PICK i \in pool[h[t].pool].inst :
          /\ pool[h[t].pool].inUse[i] + h[t].conc <= Capacity
          /\ AssignFresh(t, h[t].pool, h[t].sess, i, h[t].conc)
    BY <1>5 DEF DispatchAssign, PollAssign, Recoverable, Candidates
  <2> QED BY <1>2, <2>1, <2>2
<1> QED BY <1>3, <1>4, <1>5

\* Units that come back, and timers, take none.
LEMMA ReturnCap ==
  ASSUME IInv, IInv', CapInv,
         \/ \E t \in Handlers : Return(t) \/ StartTimer(t)
         \/ \E g \in Pools, s \in Sessions : FireUnbind(g, s)
  PROVE  CapInv'
<1>n. \A g \in Pools : PoolOK(pool[g]) /\ pool[g] \in PoolState /\ \A i \in Instances : pool[g].inUse[i] \in Nat
  BY DEF IInv, PoolsOK, PoolState
<1>1. CASE UNCHANGED pool
  BY <1>1, CapSame
<1>2. ASSUME NEW t \in Handlers, Return(t), ~UNCHANGED pool PROVE CapInv'
  <2> DEFINE a == h[t].lease
             p == pool[curPool]
             q == ReturnUnit(p, a)
  <2>1. curPool \in Pools /\ pool' = [pool EXCEPT ![curPool] = q]
    BY <1>2, CurPoolOK DEF Return, IInv
  <2>2. ASSUME NEW i \in Instances PROVE q.inUse[i] <= p.inUse[i]
    <3>1. p.inUse[i] \in Nat /\ p \in PoolState
      BY <1>n, <2>1
    <3>2. CASE Bound(p, a.sess)
      BY <3>1, <3>2 DEF ReturnUnit, PoolState
    <3>3. CASE ~Bound(p, a.sess)
      BY <3>1, <3>3 DEF ReturnUnit, PoolState
    <3> QED BY <3>2, <3>3
  <2> HIDE DEF q, p
  <2> QED BY <2>1, <2>2, CapStep DEF p
<1>3. ASSUME NEW g \in Pools, NEW s, Bound(pool[g], s), NEW timer \in {"ticking", "dead"},
             pool' = [pool EXCEPT ![g].sess[s].timer = timer]
      PROVE  CapInv'
  <2>1. PICK q : TimerSet(g, s, timer, q)
    BY <1>3, TimerShape
  <2>2. pool' = [pool EXCEPT ![g] = q] /\ q.inUse = pool[g].inUse
    BY <2>1 DEF TimerSet
  <2>3. \A i \in Instances : q.inUse[i] <= pool[g].inUse[i]
    BY <1>n, <2>2
  <2> QED BY <2>2, <2>3, CapStep
<1>4. ASSUME NEW t \in Handlers, StartTimer(t), ~UNCHANGED pool PROVE CapInv'
  <2> DEFINE g == h[t].pool
             s == h[t].sess
  <2>1. PICK timer \in {"ticking", "dead"} : pool' = [pool EXCEPT ![g].sess[s].timer = timer]
    BY <1>4 DEF StartTimer
  <2>2. Bound(pool[g], s) /\ g \in Pools
    BY <1>4, <2>1 DEF StartTimer, IInv, PoolsOK
  <2> HIDE DEF g, s
  <2> QED BY <1>3, <2>1, <2>2
<1>5. ASSUME NEW g \in Pools, NEW s \in Sessions, FireUnbind(g, s) PROVE CapInv'
  <2> DEFINE p == pool[g]
             q == RemoveBinding(p, s)
  <2>1. Bound(p, s) /\ PoolOK(p) /\ p \in PoolState
    BY <1>5, <1>n DEF FireUnbind
  <2>2. CASE pool' = [pool EXCEPT ![g].sess[s].timer = "dead"]
    BY <1>3, <2>1, <2>2
  <2>3. CASE pool' = [pool EXCEPT ![g] = q]
    <3>1. p.sess[s] \in Binding
      BY <2>1, BoundBinding
    <3>2. p.sess[s].reserved \in Nat /\ p.sess[s].active \in Nat
      BY <3>1 DEF Binding
    <3>3. ASSUME NEW i \in Instances PROVE q.inUse[i] <= p.inUse[i]
      BY <1>n, <2>1, <3>2 DEF RemoveBinding, PoolState
    <3> HIDE DEF q
    <3> QED BY <2>3, <3>3, CapStep
  <2> QED BY <1>5, <2>2, <2>3 DEF FireUnbind
<1> QED BY <1>1, <1>2, <1>4, <1>5

LEMMA RegistryCap == ASSUME IInv, IInv', CapInv, Registry PROVE CapInv'
<1> DEFINE p == pool[curPool]
<1>0. /\ PoolsOK /\ Capacity \in Nat
      /\ curPool # NoPool => curPool \in Pools /\ PoolOK(p) /\ p \in PoolState /\ \A i \in Instances : p.inUse[i] \in Nat
  BY CurPoolOK, LitePoolAssumption DEF IInv, PoolsOK, PoolOK, PoolState
<1>1. CASE UNCHANGED pool
  BY <1>1, CapSame
<1>2. ASSUME NEW g \in Pools, NEW q, pool' = [pool EXCEPT ![g] = q], q.inUse = pool[g].inUse PROVE CapInv'
  <2>1. \A i \in Instances : q.inUse[i] <= pool[g].inUse[i]
    BY <1>0, <1>2 DEF PoolsOK, PoolState
  <2> QED BY <1>2, <2>1, CapStep
<1>3. CASE DeletePool
  <2> DEFINE q == [p EXCEPT !.sess = [s \in Sessions |-> NoBinding]]
  <2>1. curPool \in Pools /\ pool' = [pool EXCEPT ![curPool] = q] /\ q.inUse = p.inUse
    BY <1>0, <1>3 DEF DeletePool, PoolState
  <2> HIDE DEF q
  <2> QED BY <1>2, <2>1
<1>4. CASE DeleteRecords
  <2> DEFINE g == deleting.pool
             q == [pool[g] EXCEPT !.stopped = TRUE]
  <2>1. pool' = [pool EXCEPT ![g] = q]
    BY <1>4 DEF DeleteRecords
  <2>2. CASE g \in Pools
    <3>1. q.inUse = pool[g].inUse
      BY <1>0, <2>2 DEF PoolsOK, PoolState
    <3> HIDE DEF q, g
    <3> QED BY <1>2, <2>1, <2>2, <3>1
  <2>3. CASE g \notin Pools
    <3>1. pool' = pool
      BY <1>0, <2>1, <2>3 DEF PoolsOK
    <3> QED BY <1>1, <3>1
  <2> QED BY <2>2, <2>3
<1>5. ASSUME NEW i \in Instances, InstanceUpdate(i) \/ InstanceDelete(i) PROVE CapInv'
  <2>1. PICK q : /\ curPool \in Pools /\ pool' = [pool EXCEPT ![curPool] = q]
                 /\ q.inUse = [p.inUse EXCEPT ![i] = 0]
    <3>1. CASE InstanceUpdate(i)
      <4> DEFINE q == [p EXCEPT !.inst = @ \cup {i}, !.inUse[i] = 0]
      <4>1. curPool \in Pools /\ pool' = [pool EXCEPT ![curPool] = q]
        BY <1>0, <3>1 DEF InstanceUpdate, PoolsOK, PoolState
      <4>2. q.inUse = [p.inUse EXCEPT ![i] = 0]
        BY <1>0, <3>1 DEF InstanceUpdate, PoolState
      <4> QED BY <4>1, <4>2
    <3>2. CASE InstanceDelete(i)
      <4>1. curPool \in Pools /\ pool' = [pool EXCEPT ![curPool] = RemoveInstance(p, i)]
        BY <1>0, <3>2 DEF InstanceDelete
      <4>2. RemoveInstance(p, i).inUse = [p.inUse EXCEPT ![i] = 0]
        BY <1>0, <3>2 DEF InstanceDelete, RemoveInstance, PoolState
      <4> QED BY <4>1, <4>2
    <3> QED BY <1>5, <3>1, <3>2
  <2>2. ASSUME NEW j \in Instances PROVE q.inUse[j] <= p.inUse[j]
    BY <1>0, <1>5, <2>1 DEF InstanceUpdate, InstanceDelete, PoolState
  <2> QED BY <2>1, <2>2, CapStep
<1>6. ASSUME NEW i \in Instances, IdleReport(i) \/ IdleReset(i) PROVE CapInv'
  <2>1. PICK R : curPool # NoPool /\ pool' = [pool EXCEPT ![curPool].reclaiming = R]
    BY <1>6 DEF IdleReport, IdleReset
  <2> DEFINE q == [p EXCEPT !.reclaiming = R]
  <2>2. curPool \in Pools /\ pool' = [pool EXCEPT ![curPool] = q] /\ q.inUse = p.inUse
    BY <1>0, <2>1 DEF PoolsOK, PoolState
  <2> HIDE DEF q
  <2> QED BY <1>2, <2>2
<1> QED BY <1>1, <1>3, <1>4, <1>5, <1>6 DEF Registry, UpsertPool, DeleteAllocations

LEMMA NextCap ==
  ASSUME Checked, IInv, IInv', CapInv, [Next]_vars
  PROVE  CapInv'
<1>0. Requests \subseteq Handlers
  BY DEF Handlers
<1>1. CASE UNCHANGED pool
  BY <1>1, CapSame
<1>2. ASSUME NEW t \in Requests, Call(t) PROVE CapInv'
  <2>1. ASSUME NEW s \in SessionIDs, NEW c \in Concurrencies, AcquireMiss(t, s, c) PROVE CapInv'
    BY <1>1, <2>1 DEF AcquireMiss
  <2>2. ASSUME NEW a \in DOMAIN allocations, ReleaseDelete(t, a) \/ RetainLookup(t, a) PROVE CapInv'
    BY <1>1, <2>2 DEF ReleaseDelete, RetainLookup
  <2>3. ~\E a \in issued, c \in Concurrencies : ReacquireAllocation(t, a, c)
    BY DEF Checked, ReacquireAllocation
  <2> QED BY <1>0, <1>2, <2>1, <2>2, <2>3, AcquireCap DEF Call
<1>3. ASSUME NEW t \in Handlers, Proceed(t) PROVE CapInv'
  <2>1. CASE DispatchReject(t) \/ ColdStart(t) \/ PollTimeout(t) \/ ReleaseDelTask(t)
             \/ RetainRefresh(t) \/ RetainUpdate(t) \/ RetainDrop(t) \/ RetainForget(t)
    BY <1>1, <2>1 DEF DispatchReject, ColdStart, PollTimeout, ReleaseDelTask,
                      RetainRefresh, RetainUpdate, RetainDrop, RetainForget
  <2> QED BY <1>3, <2>1, AcquireCap, ReturnCap DEF Proceed
<1>4. CASE ReapDelete \/ (\E a \in DOMAIN wheel : WheelFire(a)) \/ UNCHANGED vars
  BY <1>1, <1>4 DEF ReapDelete, WheelFire, vars
<1> QED BY <1>2, <1>3, <1>4, ReturnCap, RegistryCap DEF Next

\* The units counted on a slot (slot.InUse) never exceed the capacity of its
\* instance, whatever instances and pools come and go and however requests
\* wait: every grant finds room for what it takes, also a poll that binds a
\* session over the binding it has.  Only a retain that rebuilds a lease does
\* not look (reacquireAllocation).
THEOREM SlotsWithinCapacity ==
  ASSUME SessionCtx \/ ~(Retains /\ Reacquire)
  PROVE  Spec => []CapInv
<1>0. Checked
  BY DEF Checked
<1>1. Init => CapInv
  BY LitePoolAssumption DEF Init, CapInv, EmptyPool
<1>2. IInv /\ IInv' /\ CapInv /\ [Next]_vars => CapInv'
  BY <1>0, NextCap
<1> QED BY <1>1, <1>2, Invariance, PTL DEF Spec

\* The sessions bound to an instance hold at least as many units of it as there
\* are leases of theirs.
LEMMA LeasesWithin ==
  ASSUME NEW p, PoolOK(p), NEW al, IsFiniteSet(DOMAIN al), DOMAIN al \subseteq Lease, NEW hs,
         Accounts(p, al, hs), NEW i \in Instances
  PROVE  Cardinality({a \in DOMAIN al : a.inst = i}) <= p.inUse[i]
<1> DEFINE L == {a \in DOMAIN al : a.inst = i}
           F == Live(al, FreeOn(i))
           G == {a \in L : a.sess \in Sessions}
           S == BoundTo(p, i)
           f == [v \in S |-> Held(p.sess[v])]
           key == [a \in G |-> a.sess]
<1>0. p \in PoolState
  BY DEF PoolOK
<1>1. IsFiniteSet(L) /\ IsFiniteSet(F) /\ IsFiniteSet(G)
  BY FS_Subset DEF Live
<1>2. L = F \cup G /\ F \cap G = {}
  BY LitePoolAssumption DEF Live, FreeOn, Lease
<1>3. Cardinality(L) = Cardinality(F) + Cardinality(G)
  <2>1. Cardinality(F \cup G) = Cardinality(F) + Cardinality(G) - Cardinality(F \cap G)
    BY <1>1, FS_Union
  <2>2. Cardinality(F \cap G) = 0
    BY <1>2, FS_EmptySet
  <2>3. Cardinality(F) \in Nat /\ Cardinality(G) \in Nat
    BY <1>1, FS_CardinalityType
  <2> HIDE DEF F, G, L
  <2> QED BY <1>2, <2>1, <2>2, <2>3
<1>4. Cardinality(F) <= Slack(p, i)
  <2>1. UnitsIn(al, hs, FreeOn(i)) = Slack(p, i)
    BY DEF Accounts, Exact
  <2>2. Cardinality(Live(al, FreeOn(i))) \in Nat /\ Cardinality(Coming(hs, FreeOn(i))) \in Nat
    BY UnitsNat
  <2> QED BY <2>1, <2>2 DEF UnitsIn
<1>5. Cardinality(G) <= SumHeld(p, i)
  <2>1. IsFiniteSet(S) /\ \A k \in S : f[k] \in Nat
    BY <1>0, SumHeldNat
  <2>2. \A a \in G : key[a] \in S
    <3> SUFFICES ASSUME NEW a \in G PROVE a.sess \in S
      OBVIOUS
    <3>1. a \in DOMAIN al /\ a \in OfSession(a.sess) /\ a.inst = i /\ a.sess \in Sessions
      BY DEF OfSession
    <3>2. UnitsIn(al, hs, OfSession(a.sess)) >= 1
      BY <3>1, UnitsSome
    <3>3. Active(p, a.sess) >= 1
      BY <3>1, <3>2 DEF Accounts, Counted
    <3>4. Bound(p, a.sess)
      BY <3>3 DEF Active
    <3> QED BY <3>1, <3>4 DEF Accounts, Affine, BoundTo
  <2>3. \A k \in S : Cardinality({a \in G : key[a] = k}) <= f[k]
    <3> SUFFICES ASSUME NEW k \in S PROVE Cardinality({a \in G : key[a] = k}) <= Held(p.sess[k])
      OBVIOUS
    <3> DEFINE A == {a \in G : key[a] = k}
               B == Live(al, OfSession(k))
    <3>1. k \in Sessions /\ Bound(p, k) /\ p.sess[k] \in Binding
      BY <1>0, BoundBinding DEF BoundTo
    <3>2. A \subseteq B
      BY DEF Live, OfSession
    <3>3. Cardinality(A) \in Nat /\ Cardinality(A) <= Cardinality(B)
      <4>1. IsFiniteSet(B)
        BY UnitsNat
      <4> QED BY <3>2, <4>1, FS_Subset, FS_CardinalityType
    <3>4. Cardinality(B) \in Nat /\ Cardinality(Coming(hs, OfSession(k))) \in Nat
      BY UnitsNat
    <3>5. UnitsIn(al, hs, OfSession(k)) = p.sess[k].active
      BY <3>1 DEF Accounts, Counted, Active
    <3>6. p.sess[k].active \in Nat /\ p.sess[k].reserved \in Nat
      BY <3>1 DEF Binding
    <3> HIDE DEF A
    <3>7. Cardinality(A) <= Held(p.sess[k])
      BY <3>3, <3>4, <3>5, <3>6 DEF UnitsIn, Held
    <3> QED BY <3>7 DEF A
  <2> HIDE DEF G, S, f, key
  <2>4. Cardinality(G) <= SumFunctionOnSet(f, S)
    BY <1>1, <2>1, <2>2, <2>3, FibresBound
  <2> QED BY <2>4 DEF SumHeld, f, S
<1>6. SumHeld(p, i) \in Nat /\ p.inUse[i] \in Nat
  BY <1>0, SumHeldNat DEF PoolState
<1>7. Cardinality(F) \in Nat /\ Cardinality(G) \in Nat
  BY <1>1, FS_CardinalityType
<1> HIDE DEF F, G, L
<1>8. Cardinality(L) <= p.inUse[i]
  BY <1>3, <1>4, <1>5, <1>6, <1>7 DEF Slack
<1> QED BY <1>8 DEF L

\* No instance is oversold, neither by what is accounted as in use nor by the
\* leases that exist, in a steady pool and as long as no lease is rebuilt by a
\* retain, which takes a unit without looking at the capacity.
THEOREM NoInstanceOversold ==
  ASSUME MaxPools = 1, Removable = {}, ~AcquireWait, SessionCtx \/ ~(Retains /\ Reacquire)
  PROVE  Spec => []CapacityRespected
<1>0. Steady
  BY DEF Steady
<1>1. Spec => [](IInv /\ AccInv)
  BY <1>0, SteadyAccounts
<1>2. Spec => []CapInv
  BY SlotsWithinCapacity
<1>3. IInv /\ AccInv /\ CapInv => CapacityRespected
  <2> SUFFICES ASSUME IInv, AccInv, CapInv, NEW g \in Pools, NEW i \in Instances
               PROVE  Cardinality({a \in DOMAIN allocations : allocations[a] = g /\ a.inst = i}) <= Capacity
    BY DEF CapacityRespected, CapInv
  <2> DEFINE A == {a \in DOMAIN allocations : allocations[a] = g /\ a.inst = i}
             B == {a \in DOMAIN allocations : a.inst = i}
  <2>1. PoolOK(pool[g]) /\ pool[g].inUse[i] \in Nat /\ Accounts(pool[g], allocations, h)
        /\ IsFiniteSet(DOMAIN allocations) /\ DOMAIN allocations \subseteq Lease
    BY SamePool DEF AccInv, PoolState, IInv, LeasesOK
  <2>2. Cardinality(B) <= pool[g].inUse[i]
    BY <2>1, LeasesWithin
  <2>3. Cardinality(A) \in Nat /\ Cardinality(B) \in Nat /\ Cardinality(A) <= Cardinality(B)
    <3>1. IsFiniteSet(B) /\ A \subseteq B
      BY <2>1, FS_Subset
    <3> HIDE DEF A, B
    <3> QED BY <3>1, FS_Subset, FS_CardinalityType
  <2>4. pool[g].inUse[i] <= Capacity /\ Capacity \in Nat
    BY LitePoolAssumption DEF CapInv
  <2> HIDE DEF A, B
  <2>5. Cardinality(A) <= Capacity
    BY <2>1, <2>2, <2>3, <2>4
  <2> QED BY <2>5 DEF A
<1> QED BY <1>1, <1>2, <1>3, PTL
=============================================================================
