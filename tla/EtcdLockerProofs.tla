--------------------------- MODULE EtcdLockerProofs ---------------------------
(***************************************************************************)
(* Mutual exclusion of the registration by contention and the registry's   *)
(* view of it, for any number of schedulers, slots, retries and faults.    *)
(* LockInv of EtcdLocker is inductive; one lemma per action shows a step   *)
(* preserves it.  ViewInv is inductive on top of it; there the steps fall  *)
(* into the kinds of events the registry handles.                          *)
(***************************************************************************)
EXTENDS EtcdLocker, FiniteSetTheorems, TLAPS

USE DEF NoLease


\* The initial state satisfies the invariant: there is no holder key yet.
LEMMA InitInv == Init => LockInv
BY ConstantsAssumption
   DEF Init, LockInv, TypeOK, HolderKeys, OwnLeases, OldestKey, Holds, Waits

\* The registry's handlers keep their maps well typed.
LEMMA ViewTypes ==
    ASSUME TypeOK, NEW k \in Keys, NEW l \in Nat, NEW v \in Nodes \cup {None}
    PROVE  LET typed == /\ leaseIds' \in [Keys -> SUBSET Nat]
                        /\ insInfos' \in [Keys -> Nodes \cup {None}]
                        /\ ring' \in [Keys -> Nodes \cup {None}]
           IN /\ LeasePutEvent(k, l) => typed
              /\ SpecPutEvent(k, v) => typed
              /\ LeaseDelEvent(k, l) => typed
              /\ SpecDelEvent(k) => typed
              /\ UNCHANGED view => typed
<1> USE DEF TypeOK
<1>1. RingAfterRemove(k) \in [Keys -> Nodes \cup {None}]
  BY DEF RingAfterRemove
<1>2. LeasePutEvent(k, l) => /\ leaseIds' \in [Keys -> SUBSET Nat]
                             /\ insInfos' \in [Keys -> Nodes \cup {None}]
                             /\ ring' \in [Keys -> Nodes \cup {None}]
  BY DEF LeasePutEvent
<1>3. SpecPutEvent(k, v) => /\ leaseIds' \in [Keys -> SUBSET Nat]
                            /\ insInfos' \in [Keys -> Nodes \cup {None}]
                            /\ ring' \in [Keys -> Nodes \cup {None}]
  BY DEF SpecPutEvent
<1>4. LeaseDelEvent(k, l) => /\ leaseIds' \in [Keys -> SUBSET Nat]
                             /\ insInfos' \in [Keys -> Nodes \cup {None}]
                             /\ ring' \in [Keys -> Nodes \cup {None}]
  BY <1>1 DEF LeaseDelEvent
<1>5. SpecDelEvent(k) => /\ leaseIds' \in [Keys -> SUBSET Nat]
                         /\ insInfos' \in [Keys -> Nodes \cup {None}]
                         /\ ring' \in [Keys -> Nodes \cup {None}]
  BY <1>1 DEF SpecDelEvent
<1>6. UNCHANGED view => /\ leaseIds' \in [Keys -> SUBSET Nat]
                        /\ insInfos' \in [Keys -> Nodes \cup {None}]
                        /\ ring' \in [Keys -> Nodes \cup {None}]
  BY DEF view
<1> QED BY <1>2, <1>3, <1>4, <1>5, <1>6

\* What the deletion of a lease's holder key, with the lease or without it,
\* leaves of the store: nothing changes but the keys of that lease.
LEMMA DeletionTypes ==
    ASSUME TypeOK, NEW l \in Nat, EndLease(l) \/ DeleteHolder(l)
    PROVE  /\ leaseIds' \in [Keys -> SUBSET Nat]
           /\ insInfos' \in [Keys -> Nodes \cup {None}]
           /\ ring' \in [Keys -> Nodes \cup {None}]
           /\ holders' = {h \in holders : h.lease # l}
           /\ alive' \in SUBSET alive
<1>1. CASE \E h \in holders : h.lease = l
  <2> DEFINE h == CHOOSE h \in holders : h.lease = l
  <2>1. h \in holders /\ h.key \in Keys
    BY <1>1 DEF TypeOK
  <2> HIDE DEF h
  <2>2. LeaseDelEvent(h.key, l)
    BY <1>1 DEF EndLease, DeleteHolder, h
  <2> QED BY <2>1, <2>2, ViewTypes DEF EndLease, DeleteHolder
<1>2. CASE ~ \E h \in holders : h.lease = l
  BY <1>2, ViewTypes DEF EndLease, DeleteHolder, view, TypeOK
<1> QED BY <1>1, <1>2

\* Where a failed tryLock leads: no lock state changes.
LEMMA LockFailedTypes ==
    ASSUME TypeOK, NEW n \in Nodes, NEW e \in {None, "lost", "other"}, LockFailed(n, e)
    PROVE  /\ failCount' \in [Nodes -> 0..lockFailCountLimit]
           /\ Registered' \in [Nodes -> Keys \cup {None}]
           /\ \E p \in {"next", "idle", "failed"} : pc' = [pc EXCEPT ![n] = p]
           /\ pc'[n] = "next" <=> ~keeper[n]
BY ConstantsAssumption DEF TypeOK, LockFailed, Goto, Waits

\* A step that puts no holder key keeps the oldest key of every slot where it
\* is, unless it deletes the key of a scheduler that goes on holding.
LEMMA OldestKept ==
    ASSUME LockInv, holders' \in SUBSET holders,
           \A m \in Nodes : Holds(m, LockedKey[m])' =>
               /\ Holds(m, LockedKey[m])
               /\ leaseID'[m] = leaseID[m] /\ LockedKey'[m] = LockedKey[m]
               /\ \A h \in holders : h.lease = leaseID[m] => h \in holders'
    PROVE  OldestKey'
<1> SUFFICES ASSUME NEW m \in Nodes, Holds(m, LockedKey[m])'
             PROVE \E h \in holders' : /\ h.lease = leaseID'[m] /\ h.key = LockedKey'[m]
                                       /\ \A g \in holders' : g.key = h.key => h.rev <= g.rev
  BY DEF OldestKey
<1>1. PICK h \in holders : /\ h.lease = leaseID[m] /\ h.key = LockedKey[m]
                            /\ \A g \in holders : g.key = h.key => h.rev <= g.rev
  BY DEF LockInv, OldestKey
<1>2. h \in holders'
  BY <1>1
<1> QED BY <1>1, <1>2

\* ListSlots preserves the invariant.
LEMMA ListSlotsInv == ASSUME LockInv, NEW n \in Nodes, ListSlots(n) PROVE LockInv'
<1> USE DEF LockInv, ListSlots, Goto, Fault, NoFault, etcd, view
<1>0. /\ todo' \in [Nodes -> SUBSET Keys]
      /\ tries' \in [Nodes -> 0..maxContendTime]
      /\ pc' \in [Nodes -> Waits] /\ faults' \in Nat
  <2>1. {k \in Keys : origin[k] # 0} \in SUBSET Keys
    OBVIOUS
  <2>2. CASE tries[n] < maxContendTime
    BY <2>1, <2>2, ConstantsAssumption DEF TypeOK, Waits
  <2>3. CASE tries[n] = maxContendTime
    BY <2>3, ConstantsAssumption DEF TypeOK, Waits
  <2> QED BY <2>2, <2>3, ConstantsAssumption DEF TypeOK
<1>1. TypeOK'
  BY <1>0 DEF TypeOK
<1>2. HolderKeys'
  BY DEF TypeOK, HolderKeys, OwnLeases
<1>3. OwnLeases'
  BY DEF TypeOK, OwnLeases, Waits, HolderKeys
<1>4. OldestKey'
  <2>1. \A m \in Nodes : Holds(m, LockedKey[m])' =>
               /\ Holds(m, LockedKey[m])
               /\ leaseID'[m] = leaseID[m] /\ LockedKey'[m] = LockedKey[m]
               /\ \A h \in holders : h.lease = leaseID[m] => h \in holders'
    BY DEF TypeOK, OwnLeases, Holds, Waits
  <2>2. holders' \in SUBSET holders
    BY DEF TypeOK
  <2> QED BY <2>1, <2>2, OldestKept
<1> QED BY <1>1, <1>2, <1>3, <1>4

\* NextSlot preserves the invariant.
LEMMA NextSlotInv == ASSUME LockInv, NEW n \in Nodes, NextSlot(n) PROVE LockInv'
<1> USE DEF LockInv, NextSlot, Goto, Fault, NoFault, etcd, view
<1>1. TypeOK'
  BY ConstantsAssumption DEF TypeOK, Waits
<1>2. HolderKeys'
  BY DEF TypeOK, HolderKeys, OwnLeases
<1>3. OwnLeases'
  BY DEF TypeOK, OwnLeases, Waits, HolderKeys
<1>4. OldestKey'
  <2>1. \A m \in Nodes : Holds(m, LockedKey[m])' =>
               /\ Holds(m, LockedKey[m])
               /\ leaseID'[m] = leaseID[m] /\ LockedKey'[m] = LockedKey[m]
               /\ \A h \in holders : h.lease = leaseID[m] => h \in holders'
    BY DEF TypeOK, OwnLeases, Holds, Waits
  <2>2. holders' \in SUBSET holders
    BY DEF TypeOK
  <2> QED BY <2>1, <2>2, OldestKept
<1> QED BY <1>1, <1>2, <1>3, <1>4

\* TickRelock preserves the invariant.
LEMMA TickRelockInv == ASSUME LockInv, NEW n \in Nodes, TickRelock(n) PROVE LockInv'
<1> USE DEF LockInv, TickRelock, Goto, Fault, NoFault, etcd, view
<1>1. TypeOK'
  BY ConstantsAssumption DEF TypeOK, Waits
<1>2. HolderKeys'
  BY DEF TypeOK, HolderKeys, OwnLeases
<1>3. OwnLeases'
  BY DEF TypeOK, OwnLeases, Waits, HolderKeys
<1>4. OldestKey'
  <2>1. \A m \in Nodes : Holds(m, LockedKey[m])' =>
               /\ Holds(m, LockedKey[m])
               /\ leaseID'[m] = leaseID[m] /\ LockedKey'[m] = LockedKey[m]
               /\ \A h \in holders : h.lease = leaseID[m] => h \in holders'
    BY DEF TypeOK, OwnLeases, Holds, Waits
  <2>2. holders' \in SUBSET holders
    BY DEF TypeOK
  <2> QED BY <2>1, <2>2, OldestKept
<1> QED BY <1>1, <1>2, <1>3, <1>4

\* TickGet preserves the invariant.
LEMMA TickGetInv == ASSUME LockInv, NEW n \in Nodes, TickGet(n) PROVE LockInv'
<1> USE DEF LockInv, TickGet, Goto, Fault, NoFault, etcd, view
<1>1. TypeOK'
  BY ConstantsAssumption DEF TypeOK, Waits
<1>2. HolderKeys'
  BY DEF TypeOK, HolderKeys, OwnLeases
<1>3. OwnLeases'
  BY DEF TypeOK, OwnLeases, Waits, HolderKeys
<1>4. OldestKey'
  <2>1. \A m \in Nodes : Holds(m, LockedKey[m])' =>
               /\ Holds(m, LockedKey[m])
               /\ leaseID'[m] = leaseID[m] /\ LockedKey'[m] = LockedKey[m]
               /\ \A h \in holders : h.lease = leaseID[m] => h \in holders'
    BY DEF TypeOK, OwnLeases, Holds, Waits
  <2>2. holders' \in SUBSET holders
    BY DEF TypeOK
  <2> QED BY <2>1, <2>2, OldestKept
<1> QED BY <1>1, <1>2, <1>3, <1>4

\* KeepAlive preserves the invariant.
LEMMA KeepAliveInv == ASSUME LockInv, NEW n \in Nodes, KeepAlive(n) PROVE LockInv'
<1> USE DEF LockInv, KeepAlive, Goto, Fault, NoFault, etcd, view
<1>1. TypeOK'
  BY ConstantsAssumption DEF TypeOK, Waits
<1>2. HolderKeys'
  BY DEF TypeOK, HolderKeys, OwnLeases
<1>3. OwnLeases'
  BY DEF TypeOK, OwnLeases, Waits, HolderKeys
<1>4. OldestKey'
  <2>1. \A m \in Nodes : Holds(m, LockedKey[m])' =>
               /\ Holds(m, LockedKey[m])
               /\ leaseID'[m] = leaseID[m] /\ LockedKey'[m] = LockedKey[m]
               /\ \A h \in holders : h.lease = leaseID[m] => h \in holders'
    BY DEF TypeOK, OwnLeases, Holds, Waits
  <2>2. holders' \in SUBSET holders
    BY DEF TypeOK
  <2> QED BY <2>1, <2>2, OldestKept
<1> QED BY <1>1, <1>2, <1>3, <1>4

\* Stop preserves the invariant.
LEMMA StopInv == ASSUME LockInv, NEW n \in Nodes, Stop(n) PROVE LockInv'
<1> USE DEF LockInv, Stop, Goto, Fault, NoFault, etcd, view
<1>1. TypeOK'
  BY ConstantsAssumption DEF TypeOK, Waits
<1>2. HolderKeys'
  BY DEF TypeOK, HolderKeys, OwnLeases
<1>3. OwnLeases'
  BY DEF TypeOK, OwnLeases, Waits, HolderKeys
<1>4. OldestKey'
  <2>1. \A m \in Nodes : Holds(m, LockedKey[m])' =>
               /\ Holds(m, LockedKey[m])
               /\ leaseID'[m] = leaseID[m] /\ LockedKey'[m] = LockedKey[m]
               /\ \A h \in holders : h.lease = leaseID[m] => h \in holders'
    BY DEF TypeOK, OwnLeases, Holds, Waits
  <2>2. holders' \in SUBSET holders
    BY DEF TypeOK
  <2> QED BY <2>1, <2>2, OldestKept
<1> QED BY <1>1, <1>2, <1>3, <1>4

\* UnlockExists preserves the invariant.
LEMMA UnlockExistsInv == ASSUME LockInv, NEW n \in Nodes, UnlockExists(n) PROVE LockInv'
<1> USE DEF LockInv, UnlockExists, Goto, Fault, NoFault, etcd, view
<1>1. TypeOK'
  <2>1. CASE origin[LockedKey[n]] # 0 /\ NoFault /\ Goto(n, "clear")
             /\ UNCHANGED <<leaseID, holderKey, LockedKey, Registered>>
    BY <2>1 DEF TypeOK, Waits
  <2>2. CASE /\ (origin[LockedKey[n]] = 0 /\ NoFault) \/ Fault
             /\ Goto(n, "failed")
             /\ leaseID' = [leaseID EXCEPT ![n] = NoLease]
             /\ holderKey' = [holderKey EXCEPT ![n] = NoLease]
             /\ LockedKey' = [LockedKey EXCEPT ![n] = None]
             /\ Registered' = [Registered EXCEPT ![n] = None]
    BY <2>2 DEF TypeOK, Waits
  <2> QED BY <2>1, <2>2
<1>2. HolderKeys'
  BY DEF TypeOK, HolderKeys, OwnLeases
<1>3. OwnLeases'
  BY DEF TypeOK, OwnLeases, Waits, HolderKeys
<1>4. OldestKey'
  <2>1. \A m \in Nodes : Holds(m, LockedKey[m])' =>
               /\ Holds(m, LockedKey[m])
               /\ leaseID'[m] = leaseID[m] /\ LockedKey'[m] = LockedKey[m]
               /\ \A h \in holders : h.lease = leaseID[m] => h \in holders'
    BY DEF TypeOK, OwnLeases, Holds, Waits
  <2>2. holders' \in SUBSET holders
    BY DEF TypeOK
  <2> QED BY <2>1, <2>2, OldestKept
<1> QED BY <1>1, <1>2, <1>3, <1>4

\* Crash preserves the invariant.
LEMMA CrashInv == ASSUME LockInv, NEW n \in Nodes, Crash(n) PROVE LockInv'
<1> USE DEF LockInv, Crash, Goto, Fault, NoFault, etcd, view
<1>1. TypeOK'
  BY ConstantsAssumption DEF TypeOK, Waits
<1>2. HolderKeys'
  BY DEF TypeOK, HolderKeys, OwnLeases
<1>3. OwnLeases'
  BY DEF TypeOK, OwnLeases, Waits, HolderKeys
<1>4. OldestKey'
  <2>1. \A m \in Nodes : Holds(m, LockedKey[m])' =>
               /\ Holds(m, LockedKey[m])
               /\ leaseID'[m] = leaseID[m] /\ LockedKey'[m] = LockedKey[m]
               /\ \A h \in holders : h.lease = leaseID[m] => h \in holders'
    BY DEF TypeOK, OwnLeases, Holds, Waits
  <2>2. holders' \in SUBSET holders
    BY DEF TypeOK
  <2> QED BY <2>1, <2>2, OldestKept
<1> QED BY <1>1, <1>2, <1>3, <1>4

\* Restart preserves the invariant.
LEMMA RestartInv == ASSUME LockInv, NEW n \in Nodes, Restart(n) PROVE LockInv'
<1> USE DEF LockInv, Restart, Goto, Fault, NoFault, etcd, view
<1>1. TypeOK'
  BY ConstantsAssumption DEF TypeOK, Waits
<1>2. HolderKeys'
  BY DEF TypeOK, HolderKeys, OwnLeases
<1>3. OwnLeases'
  BY DEF TypeOK, OwnLeases, Waits, HolderKeys
<1>4. OldestKey'
  <2>1. \A m \in Nodes : Holds(m, LockedKey[m])' =>
               /\ Holds(m, LockedKey[m])
               /\ leaseID'[m] = leaseID[m] /\ LockedKey'[m] = LockedKey[m]
               /\ \A h \in holders : h.lease = leaseID[m] => h \in holders'
    BY DEF TypeOK, OwnLeases, Holds, Waits
  <2>2. holders' \in SUBSET holders
    BY DEF TypeOK
  <2> QED BY <2>1, <2>2, OldestKept
<1> QED BY <1>1, <1>2, <1>3, <1>4

\* Revoke preserves the invariant.
LEMMA RevokeInv == ASSUME LockInv, NEW n \in Nodes, Revoke(n) PROVE LockInv'
<1> USE DEF LockInv, Revoke, Goto, Fault, NoFault, etcd, view
<1>0. /\ holders' \in SUBSET holders
      /\ alive' \in SUBSET alive
      /\ \A h \in holders : h.lease # holderKey[n] => h \in holders'
      /\ \A h \in holders' : h.lease \in alive'
      /\ leaseIds' \in [Keys -> SUBSET Nat]
      /\ insInfos' \in [Keys -> Nodes \cup {None}]
      /\ ring' \in [Keys -> Nodes \cup {None}]
      /\ UNCHANGED <<rev, origin, value, nextLease, removed>>
      /\ faults' \in Nat
  <2>1. CASE EndLease(leaseID[n]) /\ NoFault
    <3>1. leaseID[n] = holderKey[n] \/ leaseID[n] = NoLease
      BY DEF TypeOK, OwnLeases
    <3>2. /\ holders' = {h \in holders : h.lease # leaseID[n]}
          /\ leaseIds' \in [Keys -> SUBSET Nat]
          /\ insInfos' \in [Keys -> Nodes \cup {None}]
          /\ ring' \in [Keys -> Nodes \cup {None}]
      BY <2>1, DeletionTypes DEF TypeOK
    <3>3. alive' = alive \ {leaseID[n]} /\ UNCHANGED <<rev, origin, value, nextLease, removed>>
      BY <2>1 DEF EndLease
    <3>4. \A h \in holders : h.lease # NoLease
      BY DEF HolderKeys, OwnLeases
    <3> QED BY <2>1, <3>1, <3>2, <3>3, <3>4 DEF TypeOK, HolderKeys
  <2>2. CASE Fault /\ UNCHANGED <<etcd, view>>
    BY <2>2 DEF TypeOK, HolderKeys
  <2> QED BY <2>1, <2>2
<1>1. TypeOK'
  BY <1>0 DEF TypeOK, Waits
<1>2. HolderKeys'
  BY <1>0 DEF TypeOK, HolderKeys
<1>3. OwnLeases'
  BY <1>0 DEF TypeOK, OwnLeases, Waits
<1>4. OldestKey'
  <2>1. \A m \in Nodes : Holds(m, LockedKey[m])' =>
               /\ Holds(m, LockedKey[m])
               /\ leaseID'[m] = leaseID[m] /\ LockedKey'[m] = LockedKey[m]
               /\ \A h \in holders : h.lease = leaseID[m] => h \in holders'
    BY <1>0 DEF TypeOK, OwnLeases, Holds, Waits
  <2>2. holders' \in SUBSET holders
    BY <1>0 DEF TypeOK
  <2> QED BY <2>1, <2>2, OldestKept
<1> QED BY <1>1, <1>2, <1>3, <1>4

\* Delete preserves the invariant.
LEMMA DeleteInv == ASSUME LockInv, NEW n \in Nodes, Delete(n) PROVE LockInv'
<1> USE DEF LockInv, Delete, Goto, Fault, NoFault, etcd, view
<1>0. /\ holders' \in SUBSET holders
      /\ alive' \in SUBSET alive
      /\ \A h \in holders : h.lease # holderKey[n] => h \in holders'
      /\ \A h \in holders' : h.lease \in alive'
      /\ leaseIds' \in [Keys -> SUBSET Nat]
      /\ insInfos' \in [Keys -> Nodes \cup {None}]
      /\ ring' \in [Keys -> Nodes \cup {None}]
      /\ UNCHANGED <<rev, origin, value, nextLease, removed>>
      /\ faults' \in Nat
  <2>1. CASE DeleteHolder(holderKey[n]) /\ NoFault
    <3>2. /\ holders' = {h \in holders : h.lease # holderKey[n]}
          /\ leaseIds' \in [Keys -> SUBSET Nat]
          /\ insInfos' \in [Keys -> Nodes \cup {None}]
          /\ ring' \in [Keys -> Nodes \cup {None}]
      BY <2>1, DeletionTypes DEF TypeOK
    <3>3. UNCHANGED <<rev, origin, value, alive, nextLease, removed>>
      BY <2>1 DEF DeleteHolder
    <3> QED BY <2>1, <3>2, <3>3 DEF TypeOK, HolderKeys
  <2>2. CASE Fault /\ UNCHANGED <<etcd, view>>
    BY <2>2 DEF TypeOK, HolderKeys
  <2> QED BY <2>1, <2>2
<1>5. /\ failCount' \in [Nodes -> 0..lockFailCountLimit]
      /\ Registered' \in [Nodes -> Keys \cup {None}]
      /\ \E p \in {"next", "idle", "failed"} : pc' = [pc EXCEPT ![n] = p]
  BY LockFailedTypes DEF TypeOK
<1>1. TypeOK'
  BY <1>0, <1>5 DEF TypeOK, Waits
<1>2. HolderKeys'
  BY <1>0 DEF TypeOK, HolderKeys
<1>3. OwnLeases'
  BY <1>0, <1>5 DEF TypeOK, OwnLeases, Waits
<1>4. OldestKey'
  <2>1. \A m \in Nodes : Holds(m, LockedKey[m])' =>
               /\ Holds(m, LockedKey[m])
               /\ leaseID'[m] = leaseID[m] /\ LockedKey'[m] = LockedKey[m]
               /\ \A h \in holders : h.lease = leaseID[m] => h \in holders'
    BY <1>0, <1>5 DEF TypeOK, OwnLeases, Holds, Waits
  <2>2. holders' \in SUBSET holders
    BY <1>0, <1>5 DEF TypeOK
  <2> QED BY <2>1, <2>2, OldestKept
<1> QED BY <1>1, <1>2, <1>3, <1>4

\* UnlockDelete preserves the invariant.
LEMMA UnlockDeleteInv == ASSUME LockInv, NEW n \in Nodes, UnlockDelete(n) PROVE LockInv'
<1> USE DEF LockInv, UnlockDelete, Goto, Fault, NoFault, etcd, view
<1>0. /\ holders' \in SUBSET holders
      /\ alive' \in SUBSET alive
      /\ \A h \in holders : h.lease # holderKey[n] => h \in holders'
      /\ \A h \in holders' : h.lease \in alive'
      /\ leaseIds' \in [Keys -> SUBSET Nat]
      /\ insInfos' \in [Keys -> Nodes \cup {None}]
      /\ ring' \in [Keys -> Nodes \cup {None}]
      /\ UNCHANGED <<rev, origin, value, nextLease, removed>>
      /\ faults' \in Nat
  <2>1. CASE DeleteHolder(holderKey[n]) /\ NoFault
    <3>2. /\ holders' = {h \in holders : h.lease # holderKey[n]}
          /\ leaseIds' \in [Keys -> SUBSET Nat]
          /\ insInfos' \in [Keys -> Nodes \cup {None}]
          /\ ring' \in [Keys -> Nodes \cup {None}]
      BY <2>1, DeletionTypes DEF TypeOK
    <3>3. UNCHANGED <<rev, origin, value, alive, nextLease, removed>>
      BY <2>1 DEF DeleteHolder
    <3> QED BY <2>1, <3>2, <3>3 DEF TypeOK, HolderKeys
  <2>2. CASE Fault /\ UNCHANGED <<etcd, view>>
    BY <2>2 DEF TypeOK, HolderKeys
  <2> QED BY <2>1, <2>2
<1>1. TypeOK'
  BY <1>0 DEF TypeOK, Waits
<1>2. HolderKeys'
  BY <1>0 DEF TypeOK, HolderKeys
<1>3. OwnLeases'
  BY <1>0 DEF TypeOK, OwnLeases, Waits
<1>4. OldestKey'
  <2>1. \A m \in Nodes : Holds(m, LockedKey[m])' =>
               /\ Holds(m, LockedKey[m])
               /\ leaseID'[m] = leaseID[m] /\ LockedKey'[m] = LockedKey[m]
               /\ \A h \in holders : h.lease = leaseID[m] => h \in holders'
    BY <1>0 DEF TypeOK, OwnLeases, Holds, Waits
  <2>2. holders' \in SUBSET holders
    BY <1>0 DEF TypeOK
  <2> QED BY <2>1, <2>2, OldestKept
<1> QED BY <1>1, <1>2, <1>3, <1>4

\* UnlockClear preserves the invariant.
LEMMA UnlockClearInv == ASSUME LockInv, NEW n \in Nodes, UnlockClear(n) PROVE LockInv'
<1> USE DEF LockInv, UnlockClear, Goto, Fault, NoFault, etcd, view
<1>0. /\ UNCHANGED <<holders, alive, nextLease, removed>>
      /\ rev' \in Nat /\ rev <= rev'
      /\ origin' \in [Keys -> Nat] /\ value' \in [Keys -> Nodes \cup {None}]
      /\ leaseIds' \in [Keys -> SUBSET Nat]
      /\ insInfos' \in [Keys -> Nodes \cup {None}]
      /\ ring' \in [Keys -> Nodes \cup {None}]
      /\ faults' \in Nat
  <2>1. CASE PutSlot(LockedKey[n], None) /\ NoFault
    <3>1. LockedKey[n] \in Keys
      BY DEF OwnLeases
    <3> QED BY <2>1, <3>1, ViewTypes DEF TypeOK, PutSlot
  <2>2. CASE Fault /\ UNCHANGED <<etcd, view>>
    BY <2>2 DEF TypeOK
  <2> QED BY <2>1, <2>2
<1>1. TypeOK'
  BY <1>0 DEF TypeOK, Waits
<1>2. HolderKeys'
  BY <1>0 DEF TypeOK, HolderKeys
<1>3. OwnLeases'
  BY <1>0 DEF TypeOK, OwnLeases, Waits
<1>4. OldestKey'
  <2>1. \A m \in Nodes : Holds(m, LockedKey[m])' =>
               /\ Holds(m, LockedKey[m])
               /\ leaseID'[m] = leaseID[m] /\ LockedKey'[m] = LockedKey[m]
               /\ \A h \in holders : h.lease = leaseID[m] => h \in holders'
    BY <1>0 DEF TypeOK, OwnLeases, Holds, Waits
  <2>2. holders' \in SUBSET holders
    BY <1>0 DEF TypeOK
  <2> QED BY <2>1, <2>2, OldestKept
<1> QED BY <1>1, <1>2, <1>3, <1>4

\* Publish preserves the invariant.
LEMMA PublishInv == ASSUME LockInv, NEW n \in Nodes, Publish(n) PROVE LockInv'
<1> USE DEF LockInv, Publish, Goto, Fault, NoFault, etcd, view
<1>0. /\ UNCHANGED <<holders, alive, nextLease, removed>>
      /\ rev' \in Nat /\ rev <= rev'
      /\ origin' \in [Keys -> Nat] /\ value' \in [Keys -> Nodes \cup {None}]
      /\ leaseIds' \in [Keys -> SUBSET Nat]
      /\ insInfos' \in [Keys -> Nodes \cup {None}]
      /\ ring' \in [Keys -> Nodes \cup {None}]
  <2>1. CASE PutSlot(LockedKey[n], n)
    <3>1. LockedKey[n] \in Keys
      BY DEF OwnLeases
    <3> QED BY <2>1, <3>1, ViewTypes DEF TypeOK, PutSlot
  <2>2. CASE UNCHANGED <<etcd, view>>
    BY <2>2 DEF TypeOK
  <2> QED BY <2>1, <2>2
<1>5. /\ \E p \in {"idle", "revoke"} : pc' = [pc EXCEPT ![n] = p]
      /\ keeper' \in [Nodes -> BOOLEAN] /\ faults' \in Nat
      /\ failCount' \in [Nodes -> 0..lockFailCountLimit]
      /\ Registered' \in [Nodes -> Keys \cup {None}]
      /\ err' \in [Nodes -> {None, "lost", "other"}]
  <2>1. CASE Fault /\ err' = [err EXCEPT ![n] = "other"] /\ Goto(n, "revoke")
             /\ UNCHANGED <<keeper, failCount, Registered>>
    BY <2>1 DEF TypeOK
  <2>2. CASE /\ Goto(n, "idle") /\ NoFault
             /\ keeper' = [keeper EXCEPT ![n] = TRUE]
             /\ failCount' = [failCount EXCEPT ![n] = 0]
             /\ Registered' = [Registered EXCEPT ![n] =
                                 IF keeper[n] THEN @ ELSE LockedKey[n]]
             /\ UNCHANGED err
    BY <2>2, ConstantsAssumption DEF TypeOK
  <2> QED BY <2>1, <2>2
<1>1. TypeOK'
  BY <1>0, <1>5 DEF TypeOK, Waits
<1>2. HolderKeys'
  BY <1>0 DEF TypeOK, HolderKeys
<1>3. OwnLeases'
  BY <1>0, <1>5 DEF TypeOK, OwnLeases, Waits
<1>4. OldestKey'
  <2>1. \A m \in Nodes : Holds(m, LockedKey[m])' =>
               /\ Holds(m, LockedKey[m])
               /\ leaseID'[m] = leaseID[m] /\ LockedKey'[m] = LockedKey[m]
               /\ \A h \in holders : h.lease = leaseID[m] => h \in holders'
    BY <1>0, <1>5 DEF TypeOK, OwnLeases, Holds, Waits
  <2>2. holders' \in SUBSET holders
    BY <1>0, <1>5 DEF TypeOK
  <2> QED BY <2>1, <2>2, OldestKept
<1> QED BY <1>1, <1>2, <1>3, <1>4

\* Grant preserves the invariant.
LEMMA GrantInv == ASSUME LockInv, NEW n \in Nodes, Grant(n) PROVE LockInv'
<1> USE DEF LockInv, Grant, Goto, Fault, NoFault, etcd, view
<1>0. CASE Fault /\ LockFailed(n, "other") /\ UNCHANGED <<etcd, leaseID, holderKey>>
  <2>1. /\ failCount' \in [Nodes -> 0..lockFailCountLimit]
        /\ Registered' \in [Nodes -> Keys \cup {None}]
        /\ \E p \in {"next", "idle", "failed"} : pc' = [pc EXCEPT ![n] = p]
    BY <1>0, LockFailedTypes
  <2>2. TypeOK'
    BY <1>0, <2>1 DEF TypeOK, Waits
  <2>3. HolderKeys'
    BY <1>0 DEF HolderKeys
  <2>4. OwnLeases'
    BY <1>0, <2>1 DEF TypeOK, OwnLeases, Waits
  <2>5. \A m \in Nodes : Holds(m, LockedKey[m])' =>
               /\ Holds(m, LockedKey[m])
               /\ leaseID'[m] = leaseID[m] /\ LockedKey'[m] = LockedKey[m]
               /\ \A h \in holders : h.lease = leaseID[m] => h \in holders'
    BY <1>0, <2>1 DEF TypeOK, OwnLeases, Holds, Waits
  <2>6. OldestKey'
    BY <1>0, <2>5, OldestKept
  <2> QED BY <2>2, <2>3, <2>4, <2>6
<1>5. CASE /\ leaseID' = [leaseID EXCEPT ![n] = nextLease]
           /\ holderKey' = [holderKey EXCEPT ![n] = nextLease]
           /\ alive' = alive \cup {nextLease}
           /\ nextLease' = nextLease + 1
           /\ Goto(n, "txn") /\ NoFault
           /\ UNCHANGED <<rev, origin, value, holders, removed, failCount, Registered>>
  <2>2. TypeOK'
    BY <1>5 DEF TypeOK, Waits
  <2>3. HolderKeys'
    BY <1>5 DEF HolderKeys
  <2>4. OwnLeases'
    BY <1>5 DEF TypeOK, OwnLeases, HolderKeys, Waits
  <2>5. \A m \in Nodes : Holds(m, LockedKey[m])' =>
               /\ Holds(m, LockedKey[m])
               /\ leaseID'[m] = leaseID[m] /\ LockedKey'[m] = LockedKey[m]
               /\ \A h \in holders : h.lease = leaseID[m] => h \in holders'
    BY <1>5 DEF TypeOK, OwnLeases, Holds, Waits
  <2>6. OldestKey'
    BY <1>5, <2>5, OldestKept
  <2> QED BY <2>2, <2>3, <2>4, <2>6
<1> QED BY <1>0, <1>5

\* Txn preserves the invariant: the only step that puts a holder key, and it
\* goes on to publish only when no other key of the slot exists.
LEMMA TxnInv == ASSUME LockInv, NEW n \in Nodes, Txn(n) PROVE LockInv'
<1> DEFINE k == LockedKey[n]
           l == leaseID[n]
           new == [key |-> k, lease |-> l, rev |-> rev + 1]
<1>a. pc[n] = "txn" /\ k \in Keys /\ l \in Nat /\ l # NoLease
  BY DEF Txn, LockInv, TypeOK, OwnLeases
<1>b. UNCHANGED <<keeper, leaseID, holderKey, LockedKey, failCount, tries, todo, Registered>>
  BY DEF Txn
<1>1. CASE PutHolder(k, l) /\ l \in alive
  <2>1. /\ holders' = holders \cup {new} /\ rev' = rev + 1
        /\ UNCHANGED <<origin, value, alive, nextLease, removed>>
        /\ leaseIds' \in [Keys -> SUBSET Nat]
        /\ insInfos' \in [Keys -> Nodes \cup {None}]
        /\ ring' \in [Keys -> Nodes \cup {None}]
    BY <1>1, <1>a, ViewTypes DEF PutHolder, LockInv
  <2>2. /\ \/ pc' = [pc EXCEPT ![n] = "publish"] /\ ~LockedByOther(k)
           \/ pc' = [pc EXCEPT ![n] = "revoke"]
        /\ faults' \in Nat /\ err' \in [Nodes -> {None, "lost", "other"}]
    BY <1>1, <1>a DEF Txn, Goto, Fault, NoFault, LockInv, TypeOK
  <2>3. TypeOK'
    BY <1>a, <1>b, <2>1, <2>2 DEF LockInv, TypeOK, Waits
  <2>4. HolderKeys'
    <3>1. \A h \in holders : h.lease # l /\ h.rev # rev + 1
      BY <1>a DEF LockInv, OwnLeases, HolderKeys, TypeOK
    <3> QED BY <1>1, <2>1, <3>1 DEF LockInv, HolderKeys, TypeOK
  <2>5. OwnLeases'
    BY <1>a, <1>b, <2>1, <2>2 DEF LockInv, TypeOK, OwnLeases, Waits
  <2>6. OldestKey'
    <3> SUFFICES ASSUME NEW m \in Nodes, Holds(m, LockedKey[m])'
                 PROVE \E h \in holders' : /\ h.lease = leaseID'[m] /\ h.key = LockedKey'[m]
                                           /\ \A g \in holders' : g.key = h.key => h.rev <= g.rev
      BY DEF OldestKey
    <3>1. CASE m = n
      <4>1. \A h \in holders : h.key # k
        BY <3>1, <1>a, <2>2 DEF Holds, LockedByOther, LockInv, TypeOK
      <4>2. \A g \in holders' : g.key = new.key => new.rev <= g.rev
        BY <4>1, <2>1 DEF LockInv, TypeOK
      <4> QED BY <3>1, <4>2, <2>1, <1>b
    <3>2. CASE m # n
      <4>1. Holds(m, LockedKey[m])
        BY <3>2, <1>b, <2>1, <2>2 DEF Holds, LockInv, TypeOK
      <4>2. PICK h \in holders : /\ h.lease = leaseID[m] /\ h.key = LockedKey[m]
                                 /\ \A g \in holders : g.key = h.key => h.rev <= g.rev
        BY <4>1 DEF LockInv, OldestKey
      <4>3. h.rev <= new.rev
        BY <4>2 DEF LockInv, HolderKeys, TypeOK
      <4> QED BY <4>2, <4>3, <2>1, <1>b
    <3> QED BY <3>1, <3>2
  <2> QED BY <2>3, <2>4, <2>5, <2>6 DEF LockInv
<1>2. CASE UNCHANGED <<etcd, view>> /\ pc' = [pc EXCEPT ![n] = "revoke"]
           /\ err' = [err EXCEPT ![n] = "other"] /\ faults' \in Nat
  <2>3. TypeOK'
    BY <1>b, <1>2 DEF LockInv, TypeOK, Waits, etcd, view
  <2>4. HolderKeys'
    BY <1>2 DEF LockInv, HolderKeys, etcd
  <2>5. OwnLeases'
    BY <1>a, <1>b, <1>2 DEF LockInv, TypeOK, OwnLeases, Waits, etcd
  <2>6. \A m \in Nodes : Holds(m, LockedKey[m])' =>
               /\ Holds(m, LockedKey[m])
               /\ leaseID'[m] = leaseID[m] /\ LockedKey'[m] = LockedKey[m]
               /\ \A h \in holders : h.lease = leaseID[m] => h \in holders'
    BY <1>b, <1>2 DEF LockInv, TypeOK, Holds, Waits, etcd
  <2>7. OldestKey'
    BY <1>2, <2>6, OldestKept DEF etcd
  <2> QED BY <2>3, <2>4, <2>5, <2>7 DEF LockInv
<1> QED BY <1>1, <1>2, <1>a DEF Txn, Goto, Fault, NoFault, LockInv, TypeOK

\* The end of a lease, by whatever cause, preserves the invariant: whoever held
\* by it holds no more.
LEMMA ExpireInv == ASSUME LockInv, NEW l \in alive, Expire(l) PROVE LockInv'
<1>1. /\ holders' = {h \in holders : h.lease # l} /\ alive' = alive \ {l}
      /\ UNCHANGED <<rev, origin, value, nextLease, removed>>
      /\ leaseIds' \in [Keys -> SUBSET Nat]
      /\ insInfos' \in [Keys -> Nodes \cup {None}]
      /\ ring' \in [Keys -> Nodes \cup {None}]
      /\ UNCHANGED locker /\ faults' \in Nat
  <2>1. l \in Nat /\ EndLease(l)
    BY DEF Expire, LockInv, TypeOK
  <2> QED BY <2>1, DeletionTypes DEF Expire, EndLease, LockInv, TypeOK, Fault, NoFault
<1>2. TypeOK'
  BY <1>1 DEF LockInv, TypeOK, locker
<1>3. HolderKeys'
  BY <1>1 DEF LockInv, HolderKeys, TypeOK
<1>4. OwnLeases'
  BY <1>1 DEF LockInv, OwnLeases, TypeOK, locker
<1>5. \A m \in Nodes : Holds(m, LockedKey[m])' =>
               /\ Holds(m, LockedKey[m])
               /\ leaseID'[m] = leaseID[m] /\ LockedKey'[m] = LockedKey[m]
               /\ \A h \in holders : h.lease = leaseID[m] => h \in holders'
  BY <1>1 DEF LockInv, TypeOK, Holds, locker
<1>6. OldestKey'
  BY <1>1, <1>5, OldestKept
<1> QED BY <1>2, <1>3, <1>4, <1>6 DEF LockInv

\* The control plane's deletion of a slot touches no holder key.
LEMMA DeleteSlotInv == ASSUME LockInv, NEW k \in Keys, ControlPlaneDelete(k) PROVE LockInv'
<1>1. /\ UNCHANGED <<rev, holders, alive, nextLease, locker>>
      /\ origin' \in [Keys -> Nat] /\ value' \in [Keys -> Nodes \cup {None}]
      /\ removed' \in SUBSET Keys /\ faults' \in Nat
      /\ leaseIds' \in [Keys -> SUBSET Nat]
      /\ insInfos' \in [Keys -> Nodes \cup {None}]
      /\ ring' \in [Keys -> Nodes \cup {None}]
  <2>1. SpecDelEvent(k)
    BY DEF ControlPlaneDelete
  <2>2. /\ leaseIds' \in [Keys -> SUBSET Nat]
        /\ insInfos' \in [Keys -> Nodes \cup {None}]
        /\ ring' \in [Keys -> Nodes \cup {None}]
    BY <2>1, ViewTypes DEF LockInv, TypeOK
  <2>3. UNCHANGED <<rev, holders, alive, nextLease, locker>>
    BY DEF ControlPlaneDelete
  <2>4. origin' \in [Keys -> Nat] /\ value' \in [Keys -> Nodes \cup {None}]
    BY DEF ControlPlaneDelete, LockInv, TypeOK
  <2>5. removed' \in SUBSET Keys /\ faults' \in Nat
    BY DEF ControlPlaneDelete, LockInv, TypeOK, Fault
  <2> QED BY <2>2, <2>3, <2>4, <2>5
<1>2. TypeOK'
  BY <1>1 DEF LockInv, TypeOK, locker
<1>3. HolderKeys' /\ OwnLeases'
  BY <1>1 DEF LockInv, HolderKeys, OwnLeases, locker
<1>4. OldestKey'
  BY <1>1 DEF LockInv, OldestKey, Holds, locker
<1> QED BY <1>2, <1>3, <1>4 DEF LockInv

\* Every step preserves the invariant.
LEMMA NextInv == LockInv /\ [Next]_vars => LockInv'
<1> SUFFICES ASSUME LockInv, [Next]_vars PROVE LockInv'
  OBVIOUS
<1>1. CASE UNCHANGED vars
  BY <1>1 DEF vars, etcd, locker, view, LockInv, TypeOK, HolderKeys, OwnLeases,
              OldestKey, Holds
<1>2. CASE \E n \in Nodes : LockStep(n)
  BY <1>2, ListSlotsInv, NextSlotInv, GrantInv, TxnInv, PublishInv, RevokeInv, DeleteInv
     DEF LockStep
<1>3. CASE \E n \in Nodes : KeeperStep(n)
  BY <1>3, TickRelockInv, TickGetInv, KeepAliveInv, UnlockDeleteInv, UnlockExistsInv,
     UnlockClearInv DEF KeeperStep
<1>4. CASE \E n \in Nodes : Stop(n) \/ Crash(n) \/ Restart(n)
  BY <1>4, StopInv, CrashInv, RestartInv
<1>5. CASE \E l \in alive : Expire(l)
  BY <1>5, ExpireInv
<1>6. CASE \E k \in Keys : ControlPlaneDelete(k)
  BY <1>6, DeleteSlotInv
<1> QED BY <1>1, <1>2, <1>3, <1>4, <1>5, <1>6 DEF Next

\* The oldest holder key of a slot is unique, so its holder is.
LEMMA InvGivesOneHolder == LockInv => OneHolder
<1> SUFFICES ASSUME LockInv, NEW k \in Keys, NEW m \in Nodes, NEW n \in Nodes,
                    Holds(m, k), Holds(n, k)
             PROVE m = n
  BY DEF OneHolder
<1>1. PICK g \in holders : /\ g.lease = leaseID[m] /\ g.key = k
                           /\ \A h \in holders : h.key = g.key => g.rev <= h.rev
  BY DEF LockInv, OldestKey, Holds
<1>2. PICK h \in holders : /\ h.lease = leaseID[n] /\ h.key = k
                           /\ \A f \in holders : f.key = h.key => h.rev <= f.rev
  BY DEF LockInv, OldestKey, Holds
<1>3. g.rev \in Nat /\ h.rev \in Nat /\ g.rev <= h.rev /\ h.rev <= g.rev
  BY <1>1, <1>2 DEF LockInv, TypeOK
<1>4. g = h
  BY <1>3 DEF LockInv, HolderKeys
<1>5. leaseID[m] = leaseID[n] /\ leaseID[m] # NoLease
  BY <1>1, <1>2, <1>4 DEF LockInv, OwnLeases, Holds
<1> QED BY <1>5 DEF LockInv, OwnLeases

\* Type correctness of the locker, the keeper and the registry's view, for any
\* number of schedulers, slots, retries and faults.
THEOREM TypeCorrect == Spec => []TypeOK
<1>1. LockInv => TypeOK
  BY DEF LockInv
<1> QED BY <1>1, InitInv, NextInv, PTL DEF Spec

\* Mutual exclusion: at most one scheduler holds a slot at any time, for any
\* number of schedulers, slots, retries and faults (tryLock, Unlock).
THEOREM MutualExclusion == Spec => []OneHolder
BY InitInv, NextInv, InvGivesOneHolder, PTL DEF Spec
-----------------------------------------------------------------------------
(***************************************************************************)
(* The registry's view.  The leases it knows of a slot are those of the    *)
(* slot's holder keys, finitely many, so that counting one before a        *)
(* removal means none after it.                                            *)
(***************************************************************************)
KnowsLeases ==
    \A k \in Keys : \A l : l \in leaseIds[k] <=> \E h \in holders : h.key = k /\ h.lease = l
FewLeases == \A k \in Keys : IsFiniteSet(leaseIds[k])
RingOfView ==
    \A k \in Keys \ removed : ring[k] # None <=> insInfos[k] # None /\ leaseIds[k] # {}
ViewInv == KnowsLeases /\ FewLeases /\ RingOfView

\* Every step writes the store in one of five ways, each with its event.
LEMMA StepEvents ==
    ASSUME LockInv, [Next]_vars
    PROVE  \/ UNCHANGED <<holders, removed, leaseIds, insInfos, ring>>
           \/ \E k \in Keys, l \in Nat : PutHolder(k, l)
           \/ \E k \in Keys, v \in Nodes \cup {None} : PutSlot(k, v)
           \/ \E l \in Nat : EndLease(l) \/ DeleteHolder(l)
           \/ \E k \in Keys : ControlPlaneDelete(k)
<1> DEFINE Events == \/ UNCHANGED <<holders, removed, leaseIds, insInfos, ring>>
                     \/ \E k \in Keys, l \in Nat : PutHolder(k, l)
                     \/ \E k \in Keys, v \in Nodes \cup {None} : PutSlot(k, v)
                     \/ \E l \in Nat : EndLease(l) \/ DeleteHolder(l)
<1>1. ASSUME NEW n \in Nodes
      PROVE  /\ leaseID[n] \in Nat /\ holderKey[n] \in Nat
             /\ pc[n] \in {"txn", "publish", "clear"} => LockedKey[n] \in Keys
  BY DEF LockInv, TypeOK, OwnLeases
<1>2. ASSUME NEW n \in Nodes, Txn(n) PROVE Events
  BY <1>1, <1>2 DEF Txn, etcd, view
<1>3. ASSUME NEW n \in Nodes, Publish(n) PROVE Events
  BY <1>1, <1>3 DEF Publish, etcd, view
<1>4. ASSUME NEW n \in Nodes, UnlockClear(n) PROVE Events
  BY <1>1, <1>4 DEF UnlockClear, etcd, view
<1>5. ASSUME NEW n \in Nodes, Revoke(n) \/ Delete(n) \/ UnlockDelete(n) PROVE Events
  BY <1>1, <1>5 DEF Revoke, Delete, UnlockDelete, etcd, view
<1>6. ASSUME NEW n \in Nodes, Grant(n) PROVE Events
  BY <1>6 DEF Grant, etcd, view
<1>7. ASSUME NEW n \in Nodes, \/ ListSlots(n) \/ NextSlot(n) \/ TickRelock(n) \/ TickGet(n)
                              \/ KeepAlive(n) \/ UnlockExists(n)
                              \/ Stop(n) \/ Crash(n) \/ Restart(n)
      PROVE  Events
  BY <1>7 DEF ListSlots, NextSlot, TickRelock, TickGet, KeepAlive, UnlockExists, Stop, Crash,
              Restart, etcd, view
<1>8. ASSUME NEW l \in alive, Expire(l) PROVE Events
  BY <1>8 DEF Expire, LockInv, TypeOK
<1>9. CASE UNCHANGED vars
  BY <1>9 DEF vars, etcd, view
<1> QED BY <1>2, <1>3, <1>4, <1>5, <1>6, <1>7, <1>8, <1>9 DEF Next, LockStep, KeeperStep

\* A holder key is put: its lease becomes known, and a slot whose spec is known
\* enters the ring (addLeaseBare).
LEMMA PutHolderView ==
    ASSUME LockInv, ViewInv, NEW k \in Keys, NEW l \in Nat, PutHolder(k, l)
    PROVE  ViewInv'
<1>1. /\ holders' = holders \cup {[key |-> k, lease |-> l, rev |-> rev + 1]}
      /\ leaseIds' = [leaseIds EXCEPT ![k] = @ \cup {l}]
      /\ ring' = [ring EXCEPT ![k] = IF insInfos[k] # None THEN insInfos[k] ELSE @]
      /\ UNCHANGED <<insInfos, removed>>
  BY DEF PutHolder, LeasePutEvent
<1>2. ASSUME NEW m \in Keys
      PROVE  leaseIds'[m] = IF m = k THEN leaseIds[k] \cup {l} ELSE leaseIds[m]
  BY <1>1 DEF LockInv, TypeOK
<1>3. KnowsLeases'
  <2> SUFFICES ASSUME NEW m \in Keys, NEW x
               PROVE  x \in leaseIds'[m] <=> \E h \in holders' : h.key = m /\ h.lease = x
    BY DEF KnowsLeases
  <2> DEFINE new == [key |-> k, lease |-> l, rev |-> rev + 1]
  <2>1. new.key = k /\ new.lease = l
    OBVIOUS
  <2> HIDE DEF new
  <2>2. \A h : h \in holders' <=> h \in holders \/ h = new
    BY <1>1 DEF new
  <2>3. x \in leaseIds[m] <=> \E h \in holders : h.key = m /\ h.lease = x
    BY DEF ViewInv, KnowsLeases
  <2>4. x \in leaseIds'[m] <=> x \in leaseIds[m] \/ (m = k /\ x = l)
    BY <1>2
  <2> QED BY <2>1, <2>2, <2>3, <2>4
<1>4. FewLeases'
  <2>1. IsFiniteSet(leaseIds[k] \cup {l})
    BY FS_AddElement DEF ViewInv, FewLeases
  <2> QED BY <1>2, <2>1 DEF ViewInv, FewLeases
<1>5. RingOfView'
  BY <1>1, <1>2 DEF ViewInv, RingOfView, LockInv, TypeOK
<1> QED BY <1>3, <1>4, <1>5 DEF ViewInv

\* A spec is put: a slot with a known lease enters the ring with it; the empty
\* value of UnlockCallback changes nothing.
LEMMA PutSlotView ==
    ASSUME LockInv, ViewInv, NEW k \in Keys, NEW v \in Nodes \cup {None}, PutSlot(k, v)
    PROVE  ViewInv'
<1>1. /\ insInfos' = [insInfos EXCEPT ![k] = IF v # None THEN v ELSE @]
      /\ ring' = [ring EXCEPT ![k] = IF v # None /\ leaseIds[k] # {} THEN v ELSE @]
      /\ UNCHANGED <<leaseIds, holders, removed>>
  BY DEF PutSlot, SpecPutEvent
<1>2. KnowsLeases' /\ FewLeases'
  BY <1>1 DEF ViewInv, KnowsLeases, FewLeases
<1>3. RingOfView'
  <2> SUFFICES ASSUME NEW m \in Keys \ removed
               PROVE  ring'[m] # None <=> insInfos'[m] # None /\ leaseIds[m] # {}
    BY <1>1 DEF RingOfView
  <2>1. CASE m = k /\ v # None
    BY <1>1, <2>1 DEF ViewInv, RingOfView, LockInv, TypeOK
  <2>2. CASE m # k \/ v = None
    BY <1>1, <2>2 DEF ViewInv, RingOfView, LockInv, TypeOK
  <2> QED BY <2>1, <2>2
<1> QED BY <1>2, <1>3 DEF ViewInv

\* A holder key is deleted: the registry forgets its lease, and takes the slot
\* off the ring when that was the only one it knew.
LEMMA DropHolderView ==
    ASSUME LockInv, ViewInv, NEW l \in Nat, EndLease(l) \/ DeleteHolder(l)
    PROVE  ViewInv'
<1>1. holders' = {h \in holders : h.lease # l} /\ UNCHANGED removed
  BY DEF EndLease, DeleteHolder
<1>2. CASE ~ \E h \in holders : h.lease = l
  <2>1. UNCHANGED view /\ holders' = holders
    BY <1>1, <1>2 DEF EndLease, DeleteHolder
  <2> QED BY <1>1, <2>1 DEF ViewInv, KnowsLeases, FewLeases, RingOfView, view
<1>3. CASE \E h \in holders : h.lease = l
  <2> DEFINE h == CHOOSE h \in holders : h.lease = l
  <2>1. h \in holders /\ h.lease = l /\ h.key \in Keys
    BY <1>3 DEF LockInv, TypeOK
  <2> HIDE DEF h
  <2>2. LeaseDelEvent(h.key, l)
    BY <1>3 DEF EndLease, DeleteHolder, h
  <2>3. PICK k \in Keys : k = h.key
    BY <2>1
  <2>4. /\ ring' = [ring EXCEPT ![k] = IF Cardinality(leaseIds[k]) = 1 /\ insInfos[k] # None
                                       THEN None ELSE @]
        /\ leaseIds' = [leaseIds EXCEPT ![k] = @ \ {l}]
        /\ UNCHANGED insInfos
    BY <2>2, <2>3 DEF LeaseDelEvent, RingAfterRemove
  <2>5. ASSUME NEW m \in Keys
        PROVE  leaseIds'[m] = IF m = k THEN leaseIds[k] \ {l} ELSE leaseIds[m]
    BY <2>4 DEF LockInv, TypeOK
  <2>6. \A g \in holders : g.lease = l => g.key = k
    BY <2>1, <2>3 DEF LockInv, HolderKeys
  <2>7. KnowsLeases'
    BY <1>1, <2>5, <2>6 DEF ViewInv, KnowsLeases
  <2>8. FewLeases'
    <3>1. IsFiniteSet(leaseIds[k] \ {l})
      BY FS_RemoveElement DEF ViewInv, FewLeases
    <3> QED BY <2>5, <3>1 DEF ViewInv, FewLeases
  <2>9. l \in leaseIds[k]
    BY <2>1, <2>3 DEF ViewInv, KnowsLeases
  <2>10. leaseIds[k] \ {l} = {} <=> Cardinality(leaseIds[k]) = 1
    <3>1. IsFiniteSet(leaseIds[k])
      BY DEF ViewInv, FewLeases
    <3>2. /\ IsFiniteSet(leaseIds[k] \ {l})
          /\ Cardinality(leaseIds[k] \ {l}) = Cardinality(leaseIds[k]) - 1
      BY <2>9, <3>1, FS_RemoveElement
    <3>3. Cardinality(leaseIds[k] \ {l}) = 0 <=> leaseIds[k] \ {l} = {}
      BY <3>2, FS_EmptySet
    <3>4. Cardinality(leaseIds[k]) \in Nat
      BY <3>1, FS_CardinalityType
    <3> QED BY <3>2, <3>3, <3>4
  <2>11. RingOfView'
    <3> SUFFICES ASSUME NEW m \in Keys \ removed
                 PROVE  ring'[m] # None <=> insInfos[m] # None /\ leaseIds'[m] # {}
      BY <1>1, <2>4 DEF RingOfView
    <3>1. CASE m = k
      <4>1. ring'[k] = IF Cardinality(leaseIds[k]) = 1 /\ insInfos[k] # None
                       THEN None ELSE ring[k]
        BY <2>4 DEF LockInv, TypeOK
      <4>2. ring[k] # None <=> insInfos[k] # None
        BY <3>1, <2>9 DEF ViewInv, RingOfView
      <4> QED BY <2>5, <2>10, <3>1, <4>1, <4>2
    <3>2. CASE m # k
      BY <2>4, <2>5, <3>2 DEF ViewInv, RingOfView, LockInv, TypeOK
    <3> QED BY <3>1, <3>2
  <2> QED BY <2>7, <2>8, <2>11 DEF ViewInv
<1> QED BY <1>2, <1>3

\* The control plane deletes a slot: no promise is left for it.
LEMMA DeleteSlotView ==
    ASSUME LockInv, ViewInv, NEW k \in Keys, ControlPlaneDelete(k)
    PROVE  ViewInv'
<1>1. /\ insInfos' = [insInfos EXCEPT ![k] = None]
      /\ \A m \in Keys \ {k} : ring'[m] = ring[m]
      /\ UNCHANGED <<leaseIds, holders>> /\ removed' = removed \cup {k}
  BY DEF ControlPlaneDelete, SpecDelEvent, RingAfterRemove, LockInv, TypeOK
<1>2. KnowsLeases' /\ FewLeases'
  BY <1>1 DEF ViewInv, KnowsLeases, FewLeases
<1>3. RingOfView'
  BY <1>1 DEF ViewInv, RingOfView, LockInv, TypeOK
<1> QED BY <1>2, <1>3 DEF ViewInv

LEMMA ViewStep == LockInv /\ ViewInv /\ [Next]_vars => ViewInv'
<1> SUFFICES ASSUME LockInv, ViewInv, [Next]_vars PROVE ViewInv'
  OBVIOUS
<1>1. CASE UNCHANGED <<holders, removed, leaseIds, insInfos, ring>>
  BY <1>1 DEF ViewInv, KnowsLeases, FewLeases, RingOfView
<1> QED BY <1>1, StepEvents, PutHolderView, PutSlotView, DropHolderView, DeleteSlotView

LEMMA ViewInit == Init => ViewInv
<1> SUFFICES ASSUME Init PROVE ViewInv
  OBVIOUS
<1>1. KnowsLeases /\ RingOfView
  BY DEF Init, KnowsLeases, RingOfView
<1>2. FewLeases
  BY FS_EmptySet DEF Init, FewLeases
<1> QED BY <1>1, <1>2 DEF ViewInv

\* The hash ring follows the holder keys: a slot the control plane never deleted
\* is in the ring exactly when a holder key exists for it and a spec has been
\* published, in whatever order keys come and go (handleModuleSchedulerUpdate,
\* handleModuleSchedulerRemove).
THEOREM RingIsTrue == Spec => []RingFollowsHolders
<1>1. ViewInv => RingFollowsHolders
  <2> SUFFICES ASSUME ViewInv, NEW k \in Keys \ removed
               PROVE  ring[k] # None <=> insInfos[k] # None /\ \E h \in holders : h.key = k
    BY DEF RingFollowsHolders
  <2>1. leaseIds[k] # {} <=> \E h \in holders : h.key = k
    BY DEF ViewInv, KnowsLeases
  <2> QED BY <2>1 DEF ViewInv, RingOfView
<1> QED BY <1>1, InitInv, NextInv, ViewInit, ViewStep, PTL DEF Spec
=============================================================================
