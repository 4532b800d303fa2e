------------------------- MODULE SessionStoreProofs -------------------------
(***************************************************************************)
(* The Coordinator implements RecordStore, for every set of keys and       *)
(* values, every queue size and every number of calls, for the keys whose  *)
(* operations the external store executes (in neither Failures nor         *)
(* Timeouts), whatever happens to the others.  Whatever the store does,    *)
(* stopping loses no operation and concurrent lookups of a key share one   *)
(* read.                                                                   *)
(***************************************************************************)
EXTENDS SessionStore, TLAPS

\* Every key that occurs in P has a last occurrence.  True of every sequence,
\* and carried along as an invariant because it takes induction to prove.
HasLasts(P) == \A i \in DOMAIN P : \E j \in DOMAIN P : IsLast(P, P[i].key, j)

LEMMA LastDecides ==
  ASSUME NEW P \in Seq(Op), NEW k, NEW v, NEW i \in DOMAIN P, IsLast(P, k, i)
  PROVE  AmountsTo(P, v, k) = P[i].val
<1>1. \A j \in DOMAIN P : IsLast(P, k, j) => j = i
  BY DEF IsLast
<1>2. (CHOOSE j \in DOMAIN P : IsLast(P, k, j)) = i
  BY <1>1
<1> QED BY <1>2 DEF AmountsTo

LEMMA NoneDecides ==
  ASSUME NEW P \in Seq(Op), NEW k, NEW v, \A i \in DOMAIN P : P[i].key # k
  PROVE  AmountsTo(P, v, k) = v
  BY DEF AmountsTo, IsLast

LEMMA AppendDecides ==
  ASSUME NEW P \in Seq(Op), HasLasts(P), NEW op \in Op
  PROVE  LET Q == Append(P, op) IN
           /\ HasLasts(Q)
           /\ \A k, v : AmountsTo(Q, v, k) = IF k = op.key THEN op.val ELSE AmountsTo(P, v, k)
<1> DEFINE Q == Append(P, op)
           n == Len(P) + 1
<1>1. /\ Q \in Seq(Op) /\ DOMAIN Q = DOMAIN P \cup {n} /\ Q[n] = op
      /\ n \in DOMAIN Q /\ \A i \in DOMAIN P : Q[i] = P[i] /\ i < n
  OBVIOUS
<1> HIDE DEF Q, n
<1>2. DOMAIN P \subseteq Nat /\ n \in Nat
  BY DEF n
<1>3. IsLast(Q, op.key, n)
  BY <1>1, <1>2 DEF IsLast
<1>4. ASSUME NEW k, k # op.key
      PROVE  \A i \in DOMAIN P : IsLast(P, k, i) => IsLast(Q, k, i)
  BY <1>1, <1>4 DEF IsLast
<1>5. HasLasts(Q)
  <2> SUFFICES ASSUME NEW i \in DOMAIN Q PROVE \E j \in DOMAIN Q : IsLast(Q, Q[i].key, j)
    BY DEF HasLasts
  <2>1. CASE Q[i].key = op.key
    BY <1>1, <1>3, <2>1
  <2>2. CASE Q[i].key # op.key
    <3>1. i \in DOMAIN P /\ Q[i] = P[i]
      BY <1>1, <2>2
    <3>2. PICK j \in DOMAIN P : IsLast(P, P[i].key, j)
      BY <3>1 DEF HasLasts
    <3> QED BY <1>1, <1>4, <2>2, <3>1, <3>2
  <2> QED BY <2>1, <2>2
<1>6. ASSUME NEW k, NEW v
      PROVE  AmountsTo(Q, v, k) = IF k = op.key THEN op.val ELSE AmountsTo(P, v, k)
  <2>1. CASE k = op.key
    BY <1>1, <1>3, <2>1, LastDecides
  <2>2. CASE k # op.key /\ \E i \in DOMAIN P : P[i].key = k
    <3>1. PICK j \in DOMAIN P : IsLast(P, k, j)
      BY <2>2 DEF HasLasts
    <3>2. IsLast(Q, k, j) /\ j \in DOMAIN Q /\ Q[j] = P[j]
      BY <1>1, <1>4, <2>2, <3>1
    <3>3. AmountsTo(P, v, k) = P[j].val
      BY <3>1, LastDecides
    <3>4. AmountsTo(Q, v, k) = Q[j].val
      BY <1>1, <3>2, LastDecides
    <3> QED BY <2>2, <3>2, <3>3, <3>4
  <2>3. CASE k # op.key /\ \A i \in DOMAIN P : P[i].key # k
    <3>1. \A i \in DOMAIN Q : Q[i].key # k
      BY <1>1, <2>3
    <3> QED BY <1>1, <2>3, <3>1, NoneDecides
  <2> QED BY <2>1, <2>2, <2>3
<1> QED BY <1>5, <1>6 DEF Q

LEMMA TailDecides ==
  ASSUME NEW op \in Op, NEW Q \in Seq(Op), HasLasts(<<op>> \o Q)
  PROVE  /\ HasLasts(Q)
         /\ \A k, v : AmountsTo(Q, IF k = op.key THEN op.val ELSE v, k) = AmountsTo(<<op>> \o Q, v, k)
<1> DEFINE P == <<op>> \o Q
<1>1. /\ P \in Seq(Op) /\ DOMAIN P = 1 .. Len(Q) + 1 /\ DOMAIN Q = 1 .. Len(Q) /\ P[1] = op
      /\ \A i \in DOMAIN Q : i + 1 \in DOMAIN P /\ P[i + 1] = Q[i]
      /\ \A i \in DOMAIN P : i # 1 => i - 1 \in DOMAIN Q /\ Q[i - 1] = P[i]
      /\ Len(Q) \in Nat
  OBVIOUS
<1>2. HasLasts(P)
  OBVIOUS
<1> HIDE DEF P
<1>3. ASSUME NEW k, NEW j \in DOMAIN P, j # 1, IsLast(P, k, j)
      PROVE  j - 1 \in DOMAIN Q /\ IsLast(Q, k, j - 1)
  BY <1>1, <1>3 DEF IsLast
<1>4. ASSUME NEW i \in DOMAIN Q
      PROVE  \E j \in DOMAIN Q : IsLast(Q, Q[i].key, j) /\ IsLast(P, Q[i].key, j + 1)
  <2>1. PICK j \in DOMAIN P : IsLast(P, Q[i].key, j)
    BY <1>1, <1>2 DEF HasLasts
  <2>2. j # 1
    <3>1. i + 1 \in DOMAIN P /\ P[i + 1] = Q[i] /\ i + 1 > 1
      BY <1>1
    <3>2. \A m \in DOMAIN P : m > j => P[m].key # Q[i].key
      BY <2>1 DEF IsLast
    <3> QED BY <3>1, <3>2
  <2>3. j - 1 \in DOMAIN Q /\ IsLast(Q, Q[i].key, j - 1) /\ (j - 1) + 1 = j
    BY <1>1, <1>3, <2>1, <2>2
  <2> QED BY <2>1, <2>3
<1>5. HasLasts(Q)
  BY <1>4 DEF HasLasts
<1>6. ASSUME NEW k, NEW v
      PROVE  AmountsTo(Q, IF k = op.key THEN op.val ELSE v, k) = AmountsTo(P, v, k)
  <2>1. CASE \E i \in DOMAIN Q : Q[i].key = k
    <3>1. PICK j \in DOMAIN Q : IsLast(Q, k, j) /\ IsLast(P, k, j + 1)
      BY <1>4, <2>1
    <3>2. j + 1 \in DOMAIN P /\ P[j + 1] = Q[j]
      BY <1>1
    <3>3. AmountsTo(Q, IF k = op.key THEN op.val ELSE v, k) = Q[j].val
      BY <3>1, LastDecides
    <3>4. AmountsTo(P, v, k) = P[j + 1].val
      BY <1>1, <3>1, <3>2, LastDecides
    <3> QED BY <3>2, <3>3, <3>4
  <2>2. CASE \A i \in DOMAIN Q : Q[i].key # k
    <3>1. AmountsTo(Q, IF k = op.key THEN op.val ELSE v, k) = IF k = op.key THEN op.val ELSE v
      BY <2>2, NoneDecides
    <3>2. CASE k = op.key
      <4>1. 1 \in DOMAIN P /\ IsLast(P, k, 1)
        <5>1. 1 \in DOMAIN P /\ P[1].key = k
          BY <1>1, <3>2
        <5>2. \A m \in DOMAIN P : m > 1 => P[m].key # k
          <6> TAKE m \in DOMAIN P
          <6> HAVE m > 1
          <6>1. m - 1 \in DOMAIN Q /\ Q[m - 1] = P[m]
            BY <1>1
          <6> QED BY <2>2, <6>1
        <5> QED BY <5>1, <5>2 DEF IsLast
      <4>2. AmountsTo(P, v, k) = P[1].val
        BY <1>1, <4>1, LastDecides
      <4> QED BY <1>1, <3>1, <3>2, <4>2
    <3>3. CASE k # op.key
      <4>1. \A i \in DOMAIN P : P[i].key # k
        BY <1>1, <2>2, <3>3
      <4> QED BY <1>1, <3>1, <3>3, <4>1, NoneDecides
    <3> QED BY <3>2, <3>3
  <2> QED BY <2>1, <2>2
<1> QED BY <1>5, <1>6 DEF P

-----------------------------------------------------------------------------
(***************************************************************************)
(* Type correctness.                                                       *)
(***************************************************************************)

LEMMA ExecuteOK ==
  ASSUME TypeOK, NEW op \in Op, Execute(op)
  PROVE  store' \in [Keys -> Written] /\ late' \in Seq(Op)
<1>1. CASE store' = Put(store, op) /\ UNCHANGED late
  <2>1. op.key \in Keys /\ op.val \in Written
    BY DEF Op
  <2>2. store' = [store EXCEPT ![op.key] = op.val]
    BY <1>1 DEF Put
  <2> QED BY <1>1, <2>1, <2>2 DEF TypeOK
<1>2. CASE UNCHANGED <<store, late>>
  BY <1>2 DEF TypeOK
<1>3. CASE UNCHANGED store /\ late' = Append(late, op)
  <2>1. late \in Seq(Op) /\ store \in [Keys -> Written]
    BY DEF TypeOK
  <2>2. Append(late, op) \in Seq(Op)
    BY <2>1
  <2> QED BY <1>3, <2>1, <2>2
<1> QED BY <1>1, <1>2, <1>3 DEF Execute

LEMMA QueueTypes ==
  ASSUME TypeOK,
         \/ \E k \in Keys, v \in Written : Submit(k, v)
         \/ Enqueue \/ Worker
  PROVE  TypeOK'
<1> USE SessionStoreAssumption
<1>1. ASSUME NEW k \in Keys, NEW v \in Written, Submit(k, v) PROVE TypeOK'
  BY <1>1 DEF Submit, TypeOK, Op
<1>2. CASE Enqueue
  <2>1. caller.op \in Op
    BY <1>2 DEF Enqueue, TypeOK
  <2>2. queue' \in Seq(Op) /\ Len(queue') <= QueueSize
    BY <1>2, <2>1 DEF Enqueue, TypeOK
  <2> QED BY <1>2, <2>2 DEF Enqueue, TypeOK
<1>3. CASE WorkerTake
  <2>1. Head(queue) \in Op /\ Tail(queue) \in Seq(Op) /\ Len(Tail(queue)) <= QueueSize
    BY <1>3 DEF WorkerTake, TypeOK
  <2> QED BY <1>3, <2>1 DEF WorkerTake, TypeOK
<1>4. CASE WorkerProcess
  <2>1. worker.op \in Op
    BY <1>4 DEF WorkerProcess, TypeOK
  <2>2. store' \in [Keys -> Written] /\ late' \in Seq(Op)
    BY <1>4, <2>1, ExecuteOK DEF WorkerProcess
  <2> QED BY <1>4, <2>2 DEF WorkerProcess, TypeOK
<1>5. CASE WorkerExit
  BY <1>5 DEF WorkerExit, TypeOK
<1> QED BY <1>1, <1>2, <1>3, <1>4, <1>5 DEF Worker

LEMMA DestroyTypes ==
  ASSUME TypeOK, Destroy \/ Destroyer
  PROVE  TypeOK'
<1>1. CASE Destroy
  BY <1>1 DEF Destroy, TypeOK, Written
<1>2. CASE Cancel \/ StopWait
  BY <1>2 DEF Cancel, StopWait, TypeOK
<1>3. ASSUME NEW k \in Keys, CleanRecord(k) PROVE TypeOK'
  <2>1. [key |-> k, val |-> NoRecord] \in Op
    BY DEF Op, Written
  <2>2. store' \in [Keys -> Written] /\ late' \in Seq(Op)
    BY <1>3, <2>1, ExecuteOK DEF CleanRecord
  <2>3. destroyer'.pc = "clean" /\ destroyer' \in [pc : {"idle", "cancel", "wait", "clean"},
                                                  todo : SUBSET Keys, cleaned : SUBSET Keys]
    BY <1>3 DEF CleanRecord, TypeOK
  <2> QED BY <1>3, <2>2, <2>3 DEF CleanRecord, TypeOK
<1> QED BY <1>1, <1>2, <1>3 DEF Destroyer

LEMMA LateTypes ==
  ASSUME TypeOK, NEW i, LateLand(i)
  PROVE  TypeOK'
<1>1. late[i] \in Op /\ i \in 1 .. Len(late) /\ late \in Seq(Op)
  BY DEF LateLand, TypeOK
<1>2. RemoveAt(late, i) \in Seq(Op)
  BY <1>1 DEF RemoveAt
<1>3. Put(store, late[i]) \in [Keys -> Written]
  BY <1>1 DEF TypeOK, Put, Op
<1> QED BY <1>2, <1>3 DEF LateLand, TypeOK

LEMMA GetterTypes ==
  ASSUME TypeOK, NEW t \in Getters, (\E k \in Keys : GetStart(t, k)) \/ Getter(t)
  PROVE  TypeOK'
<1> DEFINE Calls == [pc : {"none", "flying"}] \cup [pc : {"done"}, val : Written]
           Gets == [pc : {"idle"}] \cup
                   [pc : {"read", "wait", "publish", "delete", "return"}, key : Keys, val : Written]
<1>1. calls \in [Keys -> Calls] /\ g \in [Getters -> Gets]
  BY DEF TypeOK
<1>2. g[t].pc # "idle" => g[t] \in [pc : {"read", "wait", "publish", "delete", "return"},
                                     key : Keys, val : Written]
  BY <1>1
<1>3. UNCHANGED <<store, last, ops, caller, queue, started, worker, cancelled, late, destroyer>>
  BY DEF GetStart, Getter, GetRead, GetPublish, GetDelete, GetReturn
<1>4. calls' \in [Keys -> Calls] /\ g' \in [Getters -> Gets]
  <2>1. ASSUME NEW k \in Keys, GetStart(t, k)
        PROVE  calls' \in [Keys -> Calls] /\ g' \in [Getters -> Gets]
    <3>1. calls[k] \in Calls
      BY <1>1
    <3>2. CASE calls[k].pc = "none"
      <4>1. g' = [g EXCEPT ![t] = [pc |-> "read", key |-> k, val |-> NoRecord]]
        BY <2>1, <3>2 DEF GetStart
      <4>2. [pc |-> "read", key |-> k, val |-> NoRecord] \in Gets
        BY DEF Written
      <4> QED BY <1>1, <2>1, <4>1, <4>2 DEF GetStart
    <3>3. CASE calls[k].pc = "flying"
      <4>1. g' = [g EXCEPT ![t] = [pc |-> "wait", key |-> k, val |-> NoRecord]]
        BY <2>1, <3>3 DEF GetStart
      <4>2. [pc |-> "wait", key |-> k, val |-> NoRecord] \in Gets
        BY DEF Written
      <4> QED BY <1>1, <2>1, <4>1, <4>2 DEF GetStart
    <3>4. CASE calls[k].pc = "done"
      <4>1. g' = [g EXCEPT ![t] = [pc |-> "return", key |-> k, val |-> calls[k].val]]
        BY <2>1, <3>4 DEF GetStart
      <4>2. [pc |-> "return", key |-> k, val |-> calls[k].val] \in Gets
        BY <3>1, <3>4
      <4> QED BY <1>1, <2>1, <4>1, <4>2 DEF GetStart
    <3> QED BY <3>1, <3>2, <3>3, <3>4
  <2>2. CASE GetRead(t)
    <3>0. g[t].key \in Keys /\ store[g[t].key] \in Written /\ NoRecord \in Written
      BY <1>2, <2>2 DEF GetRead, TypeOK, Written
    <3>1. PICK v \in Written : g' = [g EXCEPT ![t].pc = "publish", ![t].val = v]
      BY <2>2, <3>0 DEF GetRead
    <3>2. [g[t] EXCEPT !.pc = "publish", !.val = v] \in Gets
      BY <1>2, <2>2 DEF GetRead
    <3> QED BY <1>1, <2>2, <3>1, <3>2 DEF GetRead
  <2>3. CASE GetPublish(t)
    <3>1. g[t].key \in Keys /\ g[t].val \in Written
      BY <1>2, <2>3 DEF GetPublish
    <3>2. calls' \in [Keys -> Calls]
      BY <1>1, <2>3, <3>1 DEF GetPublish
    <3>3. ASSUME NEW u \in Getters PROVE g'[u] \in Gets
      <4>1. g[u] \in Gets
        BY <1>1
      <4>2. CASE u = t
        BY <1>2, <2>3, <4>2 DEF GetPublish
      <4>3. CASE u # t /\ g[u].pc = "wait" /\ g[u].key = g[t].key
        <5>1. g'[u] = [g[u] EXCEPT !.pc = "return", !.val = g[t].val]
          BY <2>3, <4>3 DEF GetPublish
        <5>2. g[u] \in [pc : {"read", "wait", "publish", "delete", "return"}, key : Keys, val : Written]
          BY <4>1, <4>3
        <5> QED BY <3>1, <5>1, <5>2
      <4>4. CASE u # t /\ ~(g[u].pc = "wait" /\ g[u].key = g[t].key)
        BY <2>3, <4>1, <4>4 DEF GetPublish
      <4> QED BY <4>2, <4>3, <4>4
    <3>4. g' = [u \in Getters |-> g'[u]]
      BY <2>3 DEF GetPublish
    <3> QED BY <3>2, <3>3, <3>4
  <2>4. CASE GetDelete(t)
    <3>1. [g[t] EXCEPT !.pc = "return"] \in Gets /\ g[t].key \in Keys
      BY <1>2, <2>4 DEF GetDelete
    <3> QED BY <1>1, <2>4, <3>1 DEF GetDelete, NoCall
  <2>5. CASE GetReturn(t)
    BY <1>1, <2>5 DEF GetReturn, IdleGetter
  <2> QED BY <2>1, <2>2, <2>3, <2>4, <2>5 DEF Getter
<1> QED BY <1>3, <1>4 DEF TypeOK

LEMMA TypeStep == TypeOK /\ [Next]_vars => TypeOK'
<1>1. TypeOK /\ UNCHANGED vars => TypeOK'
  BY DEF TypeOK, vars
<1> QED BY <1>1, QueueTypes, DestroyTypes, LateTypes, GetterTypes DEF Next

LEMMA TypeInit == Init => TypeOK
<1> SUFFICES ASSUME Init PROVE TypeOK
  OBVIOUS
<1>1. /\ store \in [Keys -> Written] /\ last \in [Keys -> Written \cup {Unknown}]
      /\ ops \in 0 .. MaxOps /\ queue \in Seq(Op) /\ Len(queue) <= QueueSize /\ late \in Seq(Op)
  BY SessionStoreAssumption DEF Init
<1>2. started \in BOOLEAN /\ cancelled \in BOOLEAN
  BY DEF Init
<1> QED BY <1>1, <1>2 DEF Init, TypeOK, NoCall, IdleGetter

\* The queue never holds more than its channel's size, and every goroutine of
\* the Coordinator resumes with values of the right kind.
THEOREM TypeCorrect == Spec => []TypeOK
  BY TypeInit, TypeStep, PTL DEF Spec

-----------------------------------------------------------------------------
(***************************************************************************)
(* The shutdown protocol.  When Stop has returned, the queue is closed and *)
(* empty and the worker executes nothing, even if a call that comes too    *)
(* late launches it only now.                                              *)
(***************************************************************************)
StopInv ==
  /\ started => worker.pc # "off"
  /\ ~started => worker.pc = "off" /\ queue = <<>> /\ caller.pc = "idle"
  /\ worker.pc = "exited" => cancelled /\ queue = <<>>
  /\ destroyer.pc \in {"wait", "clean"} => cancelled
  /\ destroyer.pc = "clean" => queue = <<>> /\ worker.pc # "busy"
  /\ destroyer.pc # "clean" => destroyer.cleaned = {}

LEMMA StopStep == TypeOK /\ StopInv /\ [Next]_vars => StopInv'
<1> SUFFICES ASSUME TypeOK, StopInv, [Next]_vars PROVE StopInv'
  OBVIOUS
<1> USE DEF StopInv
<1>0. started \in BOOLEAN /\ cancelled \in BOOLEAN
  BY DEF TypeOK
<1>1. ASSUME NEW k \in Keys, NEW v \in Written, Submit(k, v) PROVE StopInv'
  BY <1>0, <1>1 DEF Submit
<1>2. CASE Enqueue
  BY <1>0, <1>2 DEF Enqueue
<1>3. CASE WorkerTake
  BY <1>0, <1>3 DEF WorkerTake
<1>4. CASE WorkerProcess
  BY <1>0, <1>4 DEF WorkerProcess
<1>5. CASE WorkerExit
  BY <1>0, <1>5 DEF WorkerExit
<1>6. CASE Destroy
  BY <1>0, <1>6 DEF Destroy
<1>7. CASE Cancel
  BY <1>0, <1>7 DEF Cancel, TypeOK
<1>8. CASE StopWait
  BY <1>0, <1>8 DEF StopWait, TypeOK
<1>9. ASSUME NEW k \in Keys, CleanRecord(k) PROVE StopInv'
  <2>1. destroyer'.pc = "clean"
    BY <1>9 DEF CleanRecord, TypeOK
  <2>2. destroyer.pc = "clean" /\ UNCHANGED <<caller, queue, started, worker, cancelled>>
    BY <1>9 DEF CleanRecord
  <2> QED BY <2>1, <2>2
<1>10. CASE UNCHANGED <<caller, queue, started, worker, cancelled, destroyer>>
  BY <1>10
<1>11. ASSUME NEW t \in Getters, (\E k \in Keys : GetStart(t, k)) \/ Getter(t)
       PROVE  UNCHANGED <<caller, queue, started, worker, cancelled, destroyer>>
  BY <1>11 DEF GetStart, Getter, GetRead, GetPublish, GetDelete, GetReturn
<1>12. ASSUME NEW i, LateLand(i) PROVE UNCHANGED <<caller, queue, started, worker, cancelled, destroyer>>
  BY <1>12 DEF LateLand
<1>13. CASE UNCHANGED vars
  BY <1>10, <1>13 DEF vars
<1> QED BY <1>1, <1>2, <1>3, <1>4, <1>5, <1>6, <1>7, <1>8, <1>9, <1>10, <1>11, <1>12, <1>13
        DEF Next, Worker, Destroyer

LEMMA StopInvHolds == Spec => []StopInv
<1>1. Init => StopInv
  BY DEF Init, StopInv
<1> QED BY <1>1, StopStep, TypeCorrect, PTL DEF Spec

\* No operation is left behind in the queue of an exited worker, whatever fails
\* or times out.
THEOREM NoOrphanOps == Spec => []NoOrphanOp
<1>1. StopInv => NoOrphanOp
  BY DEF StopInv, NoOrphanOp
<1> QED BY <1>1, StopInvHolds, PTL

-----------------------------------------------------------------------------
(***************************************************************************)
(* Only operations on keys with timeouts run on after their caller was     *)
(* told of their end.                                                      *)
(***************************************************************************)
LateOp == [key : Timeouts, val : Written]

CleanInv == late \in Seq(LateOp) /\ CleanedStaysClean

LEMMA ExecuteLate ==
  ASSUME late \in Seq(LateOp), NEW op \in Op, Execute(op)
  PROVE  late' \in Seq(LateOp)
<1>1. CASE UNCHANGED late
  BY <1>1
<1>2. CASE op.key \in Timeouts /\ late' = Append(late, op)
  <2>1. op \in LateOp
    BY <1>2 DEF Op, LateOp
  <2> QED BY <1>2, <2>1
<1> QED BY <1>1, <1>2 DEF Execute

LEMMA LandsLate ==
  ASSUME TypeOK, late \in Seq(LateOp), NEW i, LateLand(i)
  PROVE  late' \in Seq(LateOp) /\ \A k \in Keys \ Timeouts : store'[k] = store[k]
<1>1. late[i] \in LateOp /\ i \in 1 .. Len(late)
  BY DEF LateLand
<1>2. RemoveAt(late, i) \in Seq(LateOp)
  BY <1>1 DEF RemoveAt
<1>3. late[i].key \in Timeouts /\ store' = [store EXCEPT ![late[i].key] = late[i].val]
  BY <1>1 DEF LateLand, LateOp, Put
<1>4. \A k \in Keys \ Timeouts : store'[k] = store[k]
  BY <1>3 DEF TypeOK
<1> QED BY <1>2, <1>4 DEF LateLand

LEMMA CleanStep == TypeOK /\ StopInv /\ CleanInv /\ [Next]_vars => CleanInv'
<1> SUFFICES ASSUME TypeOK, StopInv, CleanInv, [Next]_vars PROVE CleanInv'
  OBVIOUS
<1> USE DEF CleanInv, CleanedStaysClean
<1>0. destroyer.cleaned \subseteq Keys
  BY DEF TypeOK
<1>1. CASE UNCHANGED <<store, late, destroyer>>
  BY <1>1
<1>2. CASE WorkerProcess
  <2>1. destroyer.cleaned = {} /\ UNCHANGED destroyer
    BY <1>2 DEF WorkerProcess, StopInv
  <2>2. worker.op \in Op /\ Execute(worker.op)
    BY <1>2 DEF WorkerProcess, TypeOK
  <2>3. late' \in Seq(LateOp)
    BY <2>2, ExecuteLate
  <2> QED BY <2>1, <2>3
<1>3. CASE Destroy
  BY <1>3 DEF Destroy
<1>4. CASE Cancel \/ StopWait
  BY <1>4 DEF Cancel, StopWait, TypeOK
<1>5. ASSUME NEW k \in Keys, CleanRecord(k) PROVE CleanInv'
  <2>1. \A m \in Keys : store'[m] \in {store[m], NoRecord}
    BY <1>5 DEF CleanRecord, Execute, Put, TypeOK
  <2>2. destroyer'.cleaned \subseteq destroyer.cleaned \cup {k}
    BY <1>5 DEF CleanRecord, TypeOK
  <2>3. k \in destroyer'.cleaned => k \in destroyer.cleaned \/ store'[k] = NoRecord
    BY <1>5 DEF CleanRecord, TypeOK
  <2>4. late' \in Seq(LateOp)
    <3>1. [key |-> k, val |-> NoRecord] \in Op /\ Execute([key |-> k, val |-> NoRecord])
      BY <1>5 DEF CleanRecord, Op, Written
    <3> QED BY <3>1, ExecuteLate
  <2> QED BY <1>0, <2>1, <2>2, <2>3, <2>4
<1>6. ASSUME NEW i, LateLand(i) PROVE CleanInv'
  <2>1. late' \in Seq(LateOp) /\ \A k \in Keys \ Timeouts : store'[k] = store[k]
    BY <1>6, LandsLate
  <2>2. UNCHANGED destroyer
    BY <1>6 DEF LateLand
  <2> QED BY <1>0, <2>1, <2>2
<1>7. ASSUME NEW t \in Getters, (\E k \in Keys : GetStart(t, k)) \/ Getter(t)
      PROVE  UNCHANGED <<store, late, destroyer>>
  BY <1>7 DEF GetStart, Getter, GetRead, GetPublish, GetDelete, GetReturn
<1>8. ASSUME \/ \E k \in Keys, v \in Written : Submit(k, v)
             \/ Enqueue \/ WorkerTake \/ WorkerExit \/ UNCHANGED vars
      PROVE  UNCHANGED <<store, late, destroyer>>
  BY <1>8 DEF Submit, Enqueue, WorkerTake, WorkerExit, vars
<1> QED BY <1>1, <1>2, <1>3, <1>4, <1>5, <1>6, <1>7, <1>8 DEF Next, Worker, Destroyer

LEMMA CleanInvHolds == Spec => []CleanInv
<1>1. Init => CleanInv
  BY DEF Init, CleanInv, CleanedStaysClean
<1> QED BY <1>1, CleanStep, TypeCorrect, StopInvHolds, PTL DEF Spec

\* Stop before CleanRecords is enough: unless the store client has given up on an
\* operation of the key that still runs, no Save is executed after its record is
\* cleaned, whatever fails or times out on other keys.
THEOREM CleanedRecordsStayClean == Spec => []CleanedStaysClean
<1>1. CleanInv => CleanedStaysClean
  BY DEF CleanInv
<1> QED BY <1>1, CleanInvHolds, PTL

-----------------------------------------------------------------------------
(***************************************************************************)
(* The refinement.  The record of a key is the value of the last pending   *)
(* operation on it, or what the store holds: accepting an operation writes *)
(* the record, executing it changes nothing.                               *)
(***************************************************************************)
LastsInv == HasLasts(Pending)

\* A step changes neither the abstract record, the call under way nor the flag.
Stutter == UNCHANGED <<[k \in Reliable |-> Effective(k)], Asked, ~cancelled>>

\* An operation on a key without faults takes effect.
LEMMA ExecuteReliable ==
  ASSUME TypeOK, NEW op \in Op, Execute(op), NEW k \in Reliable
  PROVE  store'[k] = IF k = op.key THEN op.val ELSE store[k]
<1>1. k \in Keys /\ k \notin Failures /\ k \notin Timeouts /\ store \in [Keys -> Written]
  BY DEF Reliable, TypeOK
<1>2. CASE store' = Put(store, op)
  BY <1>1, <1>2 DEF Put
<1>3. CASE UNCHANGED store /\ op.key \in Failures \cup Timeouts
  BY <1>1, <1>3
<1> QED BY <1>2, <1>3 DEF Execute

LEMMA PendingType == TypeOK => Pending \in Seq(Op)
<1> SUFFICES ASSUME TypeOK PROVE Pending \in Seq(Op)
  OBVIOUS
<1>1. CASE worker.pc = "busy"
  <2>1. worker.op \in Op /\ queue \in Seq(Op)
    BY <1>1 DEF TypeOK
  <2> QED BY <1>1, <2>1 DEF Pending
<1>2. CASE worker.pc # "busy"
  BY <1>2 DEF TypeOK, Pending
<1> QED BY <1>1, <1>2

LEMMA SamePending ==
  ASSUME Pending' = Pending, UNCHANGED <<caller, cancelled>>, LastsInv,
         \A k \in Reliable : store'[k] = store[k]
  PROVE  LastsInv' /\ Stutter
<1>1. ASSUME NEW k \in Reliable PROVE Effective(k)' = Effective(k)
  BY DEF Effective
<1>2. LastsInv'
  BY DEF LastsInv
<1>3. Asked' = Asked
  BY DEF Asked
<1> QED BY <1>1, <1>2, <1>3 DEF Stutter

\* SaveRecord or DeleteRecord is called.
LEMMA SubmitRefines ==
  ASSUME TypeOK, StopInv, LastsInv, NEW k \in Keys, NEW v \in Written, Submit(k, v)
  PROVE  LastsInv' /\ (Records!Next \/ Stutter)
<1>1. Pending' = Pending /\ UNCHANGED <<store, cancelled>>
  BY DEF Submit, Pending, StopInv, TypeOK
<1>2. ASSUME NEW m \in Reliable PROVE Effective(m)' = Effective(m)
  BY <1>1 DEF Effective
<1>3. LastsInv'
  BY <1>1 DEF LastsInv
<1>4. Asked = {} /\ Asked' = IF k \in Reliable THEN {[key |-> k, val |-> v]} ELSE {}
  BY DEF Submit, Asked
<1>5. CASE k \in Reliable
  <2>1. Records!Ask(k, v)
    BY <1>1, <1>2, <1>4, <1>5 DEF Records!Ask
  <2> QED BY <1>3, <1>5, <2>1 DEF Records!Next, Written
<1>6. CASE k \notin Reliable
  BY <1>1, <1>2, <1>3, <1>4, <1>6 DEF Stutter
<1> QED BY <1>5, <1>6

LEMMA EnqueueRefines ==
  ASSUME TypeOK, StopInv, LastsInv, Enqueue
  PROVE  LastsInv' /\ (Records!Next \/ Stutter)
<1>1. caller.op \in Op /\ Pending \in Seq(Op)
  BY PendingType DEF Enqueue, TypeOK
<1>2. CASE ~cancelled /\ queue' = Append(queue, caller.op)
  <2>1. Pending' = Append(Pending, caller.op)
    <3>1. UNCHANGED worker
      BY DEF Enqueue
    <3>2. CASE worker.pc = "busy"
      <4>1. worker.op \in Op /\ queue \in Seq(Op)
        BY <3>2 DEF TypeOK
      <4>2. <<worker.op>> \o Append(queue, caller.op) = Append(<<worker.op>> \o queue, caller.op)
        BY <1>1, <4>1
      <4> QED BY <1>2, <3>1, <3>2, <4>2 DEF Pending
    <3>3. CASE worker.pc # "busy"
      BY <1>2, <3>1, <3>3 DEF Pending
    <3> QED BY <3>2, <3>3
  <2>2. /\ HasLasts(Append(Pending, caller.op))
        /\ \A k, v : AmountsTo(Append(Pending, caller.op), v, k) =
                       IF k = caller.op.key THEN caller.op.val ELSE AmountsTo(Pending, v, k)
    BY <1>1, AppendDecides DEF LastsInv
  <2>3. LastsInv'
    BY <2>1, <2>2 DEF LastsInv
  <2>4. UNCHANGED <<store, cancelled>>
    BY DEF Enqueue
  <2>5. ASSUME NEW k \in Reliable
        PROVE  Effective(k)' = IF k = caller.op.key THEN caller.op.val ELSE Effective(k)
    BY <2>1, <2>2, <2>4 DEF Effective
  <2>6. Asked = (IF caller.op.key \in Reliable THEN {caller.op} ELSE {}) /\ Asked' = {}
    BY DEF Enqueue, Asked
  <2>7. CASE caller.op.key \in Reliable
    <3>1. Records!Write(caller.op)
      BY <1>2, <2>4, <2>5, <2>6 DEF Records!Write
    <3> QED BY <2>3, <2>6, <2>7, <3>1 DEF Records!Next
  <2>8. CASE caller.op.key \notin Reliable
    <3>1. \A k \in Reliable : Effective(k)' = Effective(k)
      BY <2>5, <2>8
    <3> QED BY <2>3, <2>4, <2>6, <2>8, <3>1 DEF Stutter
  <2> QED BY <2>7, <2>8
<1>3. CASE UNCHANGED queue
  <2>1. Pending' = Pending /\ UNCHANGED <<store, cancelled>>
    BY <1>3 DEF Enqueue, Pending
  <2>2. ASSUME NEW k \in Reliable PROVE Effective(k)' = Effective(k)
    BY <2>1 DEF Effective
  <2>3. Asked' = {}
    BY DEF Enqueue, Asked
  <2>4. Records!Refuse
    BY <2>1, <2>2, <2>3 DEF Records!Refuse
  <2> QED BY <2>1, <2>4 DEF Records!Next, LastsInv
<1> QED BY <1>2, <1>3 DEF Enqueue

LEMMA WorkerRefines ==
  ASSUME TypeOK, StopInv, LastsInv, Worker
  PROVE  LastsInv' /\ Stutter
<1>1. CASE WorkerTake
  <2>1. queue \in Seq(Op) /\ queue # <<>>
    BY <1>1 DEF WorkerTake, TypeOK
  <2>2. <<Head(queue)>> \o Tail(queue) = queue
    BY <2>1
  <2>3. Pending' = Pending /\ UNCHANGED <<store, caller, cancelled>>
    BY <1>1, <2>2 DEF WorkerTake, Pending
  <2> QED BY <2>3, SamePending
<1>2. CASE WorkerProcess
  <2>1. worker.op \in Op /\ queue \in Seq(Op) /\ Pending = <<worker.op>> \o queue
    BY <1>2 DEF WorkerProcess, TypeOK, Pending
  <2>2. /\ HasLasts(queue)
        /\ \A k, v : AmountsTo(queue, IF k = worker.op.key THEN worker.op.val ELSE v, k) =
                       AmountsTo(Pending, v, k)
    BY <2>1, TailDecides DEF LastsInv
  <2>3. Pending' = queue /\ UNCHANGED <<caller, cancelled>> /\ Execute(worker.op)
    BY <1>2 DEF WorkerProcess, Pending
  <2>4. ASSUME NEW k \in Reliable PROVE Effective(k)' = Effective(k)
    <3>1. store'[k] = IF k = worker.op.key THEN worker.op.val ELSE store[k]
      BY <2>1, <2>3, ExecuteReliable
    <3> QED BY <2>2, <2>3, <3>1 DEF Effective
  <2>5. Asked' = Asked
    BY <2>3 DEF Asked
  <2> QED BY <2>2, <2>3, <2>4, <2>5 DEF LastsInv, Stutter
<1>3. CASE WorkerExit
  <2>1. Pending' = Pending /\ UNCHANGED <<store, caller, cancelled>>
    BY <1>3 DEF WorkerExit, Pending
  <2> QED BY <2>1, SamePending
<1> QED BY <1>1, <1>2, <1>3 DEF Worker

LEMMA DestroyerRefines ==
  ASSUME TypeOK, StopInv, LastsInv, Destroyer
  PROVE  LastsInv' /\ (Records!Next \/ Stutter)
<1>1. CASE Cancel
  <2>1. Pending' = Pending /\ UNCHANGED <<store, caller>> /\ cancelled' = TRUE
    BY <1>1 DEF Cancel, Pending
  <2>2. ASSUME NEW k \in Reliable PROVE Effective(k)' = Effective(k)
    BY <2>1 DEF Effective
  <2>3. Asked' = Asked
    BY <2>1 DEF Asked
  <2>4. Records!Close
    BY <2>1, <2>2, <2>3 DEF Records!Close
  <2> QED BY <2>1, <2>4 DEF Records!Next, LastsInv
<1>2. CASE StopWait
  <2>1. Pending' = Pending /\ UNCHANGED <<store, caller, cancelled>>
    BY <1>2 DEF StopWait, Pending
  <2> QED BY <2>1, SamePending
<1>3. ASSUME NEW k \in Keys, CleanRecord(k)
      PROVE  LastsInv' /\ (Records!Next \/ Stutter)
  <2>1. /\ Pending = <<>> /\ Pending' = <<>> /\ cancelled /\ UNCHANGED <<caller, cancelled>>
        /\ Execute([key |-> k, val |-> NoRecord]) /\ [key |-> k, val |-> NoRecord] \in Op
    BY <1>3 DEF CleanRecord, StopInv, Pending, Op, Written
  <2>2. ASSUME NEW m \in Reliable PROVE store'[m] = IF m = k THEN NoRecord ELSE store[m]
    BY <2>1, ExecuteReliable
  <2>3. <<>> \in Seq(Op) /\ DOMAIN <<>> = {}
    OBVIOUS
  <2>4. ASSUME NEW m \in Reliable
        PROVE  Effective(m)' = IF m = k THEN NoRecord ELSE Effective(m)
    <3>1. \A v : AmountsTo(<<>>, v, m) = v
      BY <2>3, NoneDecides
    <3> QED BY <2>1, <2>2, <3>1 DEF Effective
  <2>5. LastsInv' /\ Asked' = Asked
    BY <2>1 DEF LastsInv, HasLasts, Asked
  <2>6. CASE k \in Reliable
    <3>1. Records!Clean(k)
      BY <2>1, <2>4, <2>5 DEF Records!Clean
    <3> QED BY <2>5, <2>6, <3>1 DEF Records!Next
  <2>7. CASE k \notin Reliable
    <3>1. \A m \in Reliable : Effective(m)' = Effective(m)
      BY <2>4, <2>7
    <3> QED BY <2>1, <2>5, <3>1 DEF Stutter
  <2> QED BY <2>6, <2>7
<1> QED BY <1>1, <1>2, <1>3 DEF Destroyer

LEMMA RefineStep ==
  ASSUME TypeOK, StopInv, CleanInv, LastsInv, [Next]_vars
  PROVE  LastsInv' /\ (Records!Next \/ Stutter)
<1>1. ASSUME NEW t \in Getters, (\E k \in Keys : GetStart(t, k)) \/ Getter(t)
      PROVE  UNCHANGED <<store, caller, queue, worker, cancelled>>
  BY <1>1 DEF GetStart, Getter, GetRead, GetPublish, GetDelete, GetReturn
<1>2. CASE Destroy \/ UNCHANGED vars \/ UNCHANGED <<store, caller, queue, worker, cancelled>>
  <2>1. Pending' = Pending /\ UNCHANGED <<store, caller, cancelled>>
    BY <1>2 DEF Destroy, Pending, vars
  <2> QED BY <2>1, SamePending
<1>3. ASSUME NEW i, LateLand(i) PROVE LastsInv' /\ Stutter
  <2>1. Pending' = Pending /\ UNCHANGED <<caller, cancelled>>
    BY <1>3 DEF LateLand, Pending
  <2>2. \A k \in Reliable : store'[k] = store[k]
    BY <1>3, LandsLate DEF CleanInv, Reliable
  <2> QED BY <2>1, <2>2, SamePending
<1> QED BY <1>1, <1>2, <1>3, SubmitRefines, EnqueueRefines, WorkerRefines, DestroyerRefines DEF Next

LEMMA RefineInit == Init => LastsInv /\ Records!Init
<1> SUFFICES ASSUME Init PROVE LastsInv /\ Records!Init
  OBVIOUS
<1>1. Pending = <<>> /\ <<>> \in Seq(Op) /\ DOMAIN <<>> = {}
  BY DEF Init, Pending
<1>2. ASSUME NEW k \in Reliable PROVE Effective(k) \in Written
  <2>1. Effective(k) = store[k]
    BY <1>1, NoneDecides DEF Effective
  <2> QED BY <2>1 DEF Init, Reliable
<1>3. [k \in Reliable |-> Effective(k)] \in [Reliable -> Values \cup {NoRecord}]
  BY <1>2 DEF Written
<1>4. Asked = {}
  BY DEF Init, Asked
<1> QED BY <1>1, <1>3, <1>4 DEF Init, LastsInv, HasLasts, Records!Init

\* For the keys whose operations get through, the Coordinator implements the
\* synchronous, ordered record store: every step of a caller, the queue, its
\* worker and the cleanup is a call of the abstract store, its write or refusal,
\* the closing, a cleanup, or invisible; so are the failures and late effects of
\* other keys.
THEOREM Implements == Spec => RefinesRecords
<1>1. TypeOK /\ StopInv /\ CleanInv /\ LastsInv /\ [Next]_vars => LastsInv' /\ [Records!Next]_Records!vars
  BY RefineStep DEF Stutter, Records!vars
<1> QED BY <1>1, RefineInit, TypeCorrect, StopInvHolds, CleanInvHolds, PTL
        DEF Spec, RefinesRecords, Records!Spec
-----------------------------------------------------------------------------
(***************************************************************************)
(* Singleflight.  The getter that leads a read is between making the call  *)
(* of its key and deleting it, and only one is for each key.               *)
(***************************************************************************)
Leads(t, k) == g[t].pc \in {"read", "publish", "delete"} /\ g[t].key = k

LeadInv ==
  /\ \A t \in Getters, k \in Keys : Leads(t, k) => calls[k].pc # "none"
  /\ \A t, u \in Getters, k \in Keys : Leads(t, k) /\ Leads(u, k) => t = u

\* A step of a getter that makes nobody a leader and deletes no call.
LEMMA LeadKept ==
  ASSUME LeadInv, \A u \in Getters, m \in Keys : Leads(u, m)' => Leads(u, m),
         \A m \in Keys : calls[m].pc # "none" => calls'[m].pc # "none"
  PROVE  LeadInv'
<1>1. ASSUME NEW u \in Getters, NEW m \in Keys, Leads(u, m)'
      PROVE  Leads(u, m) /\ calls'[m].pc # "none"
  BY <1>1 DEF LeadInv
<1> QED BY <1>1 DEF LeadInv

LEMMA LeadStep == TypeOK /\ LeadInv /\ [Next]_vars => LeadInv'
<1> SUFFICES ASSUME TypeOK, LeadInv, [Next]_vars PROVE LeadInv'
  OBVIOUS
<1> DEFINE Gets == [pc : {"idle"}] \cup
                   [pc : {"read", "wait", "publish", "delete", "return"}, key : Keys, val : Written]
           Calls == [pc : {"none", "flying"}] \cup [pc : {"done"}, val : Written]
<1>0. g \in [Getters -> Gets] /\ calls \in [Keys -> Calls]
  BY DEF TypeOK
<1>1. ASSUME UNCHANGED <<g, calls>> PROVE LeadInv'
  BY <1>1 DEF LeadInv, Leads
<1>2. ASSUME NEW t \in Getters, NEW k \in Keys, GetStart(t, k) PROVE LeadInv'
  <2>1. \A u \in Getters \ {t} : g'[u] = g[u]
    BY <1>0, <1>2 DEF GetStart
  <2>2. calls[k] \in Calls
    BY <1>0
  <2>3. CASE calls[k].pc = "none"
    <3>1. calls[k] = NoCall
      BY <2>2, <2>3 DEF NoCall
    <3>2. calls' = [calls EXCEPT ![k] = [pc |-> "flying"]]
      BY <1>2, <3>1 DEF GetStart
    <3>3. g'[t] = [pc |-> "read", key |-> k, val |-> NoRecord]
      BY <1>0, <1>2, <2>3 DEF GetStart
    <3>4. \A m \in Keys : Leads(t, m)' => m = k
      BY <3>3 DEF Leads
    <3>5. \A u \in Getters \ {t}, m \in Keys : Leads(u, m)' => Leads(u, m)
      BY <2>1 DEF Leads
    <3>6. \A u \in Getters : ~Leads(u, k)
      BY <2>3 DEF LeadInv
    <3>7. calls'[k].pc = "flying" /\ \A m \in Keys \ {k} : calls'[m] = calls[m]
      BY <1>0, <3>2
    <3> QED BY <3>4, <3>5, <3>6, <3>7 DEF LeadInv
  <2>4. CASE calls[k].pc # "none"
    <3>1. calls' = calls
      BY <1>2, <2>4 DEF GetStart, NoCall
    <3>2. g'[t].pc \in {"wait", "return"}
      BY <1>0, <1>2, <2>2, <2>4 DEF GetStart
    <3>3. \A u \in Getters, m \in Keys : Leads(u, m)' => Leads(u, m)
      BY <2>1, <3>2 DEF Leads
    <3> QED BY <3>1, <3>3, LeadKept
  <2> QED BY <2>3, <2>4
<1>3. ASSUME NEW t \in Getters, GetRead(t) PROVE LeadInv'
  <2>1. PICK v : g' = [g EXCEPT ![t].pc = "publish", ![t].val = v]
    BY <1>3 DEF GetRead
  <2>2. g[t].pc = "read" /\ UNCHANGED calls /\ g[t] \in Gets
    BY <1>0, <1>3 DEF GetRead
  <2>3. g'[t].key = g[t].key
    BY <1>0, <2>1, <2>2
  <2>4. \A u \in Getters \ {t} : g'[u] = g[u]
    BY <1>0, <2>1
  <2>5. \A u \in Getters, m \in Keys : Leads(u, m)' => Leads(u, m)
    BY <2>2, <2>3, <2>4 DEF Leads
  <2> QED BY <2>2, <2>5, LeadKept
<1>4. ASSUME NEW t \in Getters, GetPublish(t) PROVE LeadInv'
  <2>1. g[t].pc = "publish" /\ g[t] \in Gets
    BY <1>0, <1>4 DEF GetPublish
  <2>2. g[t].key \in Keys
    BY <2>1
  <2>3. \A u \in Getters : g'[u] = IF u = t THEN [g[t] EXCEPT !.pc = "delete"]
                                  ELSE IF g[u].pc = "wait" /\ g[u].key = g[t].key
                                       THEN [g[u] EXCEPT !.pc = "return", !.val = g[t].val]
                                       ELSE g[u]
    BY <1>4 DEF GetPublish
  <2>4. ASSUME NEW u \in Getters, NEW m \in Keys, Leads(u, m)' PROVE Leads(u, m)
    <3>1. CASE u = t
      <4>1. g'[t].key = g[t].key
        BY <2>1, <2>3
      <4> QED BY <2>1, <2>4, <3>1, <4>1 DEF Leads
    <3>2. CASE u # t /\ g[u].pc = "wait" /\ g[u].key = g[t].key
      <4>1. g'[u] = [g[u] EXCEPT !.pc = "return", !.val = g[t].val] /\ g[u] \in Gets
        BY <1>0, <2>3, <3>2
      <4>2. g'[u].pc = "return"
        BY <3>2, <4>1
      <4> QED BY <2>4, <4>2 DEF Leads
    <3>3. CASE u # t /\ ~(g[u].pc = "wait" /\ g[u].key = g[t].key)
      BY <2>3, <2>4, <3>3 DEF Leads
    <3> QED BY <3>1, <3>2, <3>3
  <2>5. \A m \in Keys : calls[m].pc # "none" => calls'[m].pc # "none"
    BY <1>0, <1>4 DEF GetPublish
  <2> QED BY <2>4, <2>5, LeadKept
<1>5. ASSUME NEW t \in Getters, GetDelete(t) PROVE LeadInv'
  <2>1. g[t].pc = "delete" /\ g[t] \in Gets
    BY <1>0, <1>5 DEF GetDelete
  <2>2. PICK k \in Keys : k = g[t].key
    BY <2>1
  <2>3. g' = [g EXCEPT ![t].pc = "return"] /\ calls' = [calls EXCEPT ![k] = NoCall]
    BY <1>5, <2>2 DEF GetDelete
  <2>4. g'[t].pc = "return" /\ \A u \in Getters \ {t} : g'[u] = g[u]
    BY <1>0, <2>1, <2>3
  <2>5. \A u \in Getters, m \in Keys : Leads(u, m)' => Leads(u, m) /\ u # t
    BY <2>4 DEF Leads
  <2>6. Leads(t, k)
    BY <2>1, <2>2 DEF Leads
  <2>7. \A m \in Keys \ {k} : calls'[m] = calls[m]
    BY <1>0, <2>3
  <2> QED BY <2>5, <2>6, <2>7 DEF LeadInv
<1>6. ASSUME NEW t \in Getters, GetReturn(t) PROVE LeadInv'
  <2>1. \A u \in Getters, m \in Keys : Leads(u, m)' => Leads(u, m)
    BY <1>0, <1>6 DEF GetReturn, IdleGetter, Leads
  <2>2. UNCHANGED calls
    BY <1>6 DEF GetReturn
  <2> QED BY <2>1, <2>2, LeadKept
<1>7. ASSUME \/ \E k \in Keys, v \in Written : Submit(k, v)
             \/ Enqueue \/ Worker \/ Destroy \/ Destroyer
             \/ \E i \in 1 .. MaxOps + Cardinality(Keys) : LateLand(i)
             \/ UNCHANGED vars
      PROVE  UNCHANGED <<g, calls>>
  BY <1>7 DEF Submit, Enqueue, Worker, WorkerTake, WorkerProcess, WorkerExit, Destroy, Destroyer,
              Cancel, StopWait, CleanRecord, LateLand, vars
<1> QED BY <1>1, <1>2, <1>3, <1>4, <1>5, <1>6, <1>7 DEF Next, Getter

\* StoreCallGroup.Do: concurrent lookups of one session read the store once, for
\* any number of callers and keys, whatever fails or times out.
THEOREM LookupsShareOneRead == Spec => []SingleRead
<1>1. Init => LeadInv
  BY DEF Init, LeadInv, Leads, IdleGetter
<1>2. TypeOK /\ LeadInv => SingleRead
  <2> SUFFICES ASSUME TypeOK, LeadInv, NEW t \in Getters, NEW u \in Getters,
                      g[t].pc = "read", g[u].pc = "read", g[t].key = g[u].key
               PROVE  t = u
    BY DEF SingleRead
  <2>1. g[t].key \in Keys
    BY DEF TypeOK
  <2> QED BY <2>1 DEF LeadInv, Leads
<1> QED BY <1>1, <1>2, LeadStep, TypeCorrect, PTL DEF Spec
=============================================================================
