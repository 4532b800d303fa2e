--------------------- MODULE ConcurrencySchedulerProofs ---------------------
(***************************************************************************)
(* Proofs about ConcurrencyScheduler, for every set of instances, sessions *)
(* and clients and every bound.                                            *)
(*                                                                         *)
(* The operations of the scheduler are operators on scheduler states, so   *)
(* the invariant is a predicate Both(s, A) of such a state s and of the    *)
(* allocations A, and the lemmas about it are about states, not about      *)
(* steps.  SInv says that the threads of an element are accounted for;     *)
(* Exact says that what the self queue published is what is in it, while   *)
(* every instance has one element.  Both sums change in one place at a     *)
(* time: ChangeInv reduces the preservation of SInv to the record, element *)
(* and slot that were touched, ExactStep that of Exact to the element.     *)
(* The operations follow, from the queues' up to the handlers', and then   *)
(* one lemma per action.                                                   *)
(***************************************************************************)
EXTENDS ConcurrencyScheduler, FiniteSums, SequenceTheorems

-----------------------------------------------------------------------------
(***************************************************************************)
(* Scheduler states, without the bounds.                                   *)
(***************************************************************************)
ElemT == [ins : Instances, free : Int, status : Status]
RecT  == [sess : Sessions, elem : Nat, conc : Nat, avail : Int, over : Int,
          expiring : BOOLEAN, token : BOOLEAN, timer : Timers, que : Queues]
StateT == [elems : Seq(ElemT), queue : [Queues -> [Instances -> Nat]],
           count : [Instances -> Int], avail : Int, inUse : Int, total : Int,
           recs : Seq(RecT), sessionMap : [Sessions -> Nat]]

\* What the operations of the queues leave alone, and the others.
SameSessions(s, t) == t.recs = s.recs /\ t.sessionMap = s.sessionMap
SameQueues(s, t) == /\ t.queue = s.queue /\ t.count = s.count
                    /\ t.avail = s.avail /\ t.total = s.total

LEMMA SeqSet ==
    ASSUME NEW T, NEW f \in Seq(T), NEW i \in DOMAIN f, NEW x \in T
    PROVE  /\ [f EXCEPT ![i] = x] \in Seq(T)
           /\ DOMAIN [f EXCEPT ![i] = x] = DOMAIN f /\ Len([f EXCEPT ![i] = x]) = Len(f)
           /\ [f EXCEPT ![i] = x][i] = x
           /\ \A j \in DOMAIN f \ {i} : [f EXCEPT ![i] = x][j] = f[j]
<1>1. DOMAIN f = 1 .. Len(f)
  BY LenProperties
<1> QED BY <1>1, ExceptSeq, LenProperties

\* Another free count of an element.
FreeSet(s, e, x) == [s EXCEPT !.elems[e].free = x]

LEMMA SetFree ==
    ASSUME NEW s \in StateT, NEW e \in DOMAIN s.elems, NEW x \in Int, NEW t,
           t = FreeSet(s, e, x)
    PROVE  /\ t \in StateT /\ SameSessions(s, t) /\ SameQueues(s, t)
           /\ t.elems = [s.elems EXCEPT ![e] = [s.elems[e] EXCEPT !.free = x]]
<1> DEFINE el == [s.elems[e] EXCEPT !.free = x]
<1>1. s.elems \in Seq(ElemT) /\ s.elems[e] \in ElemT
  BY ElementOfSeq, LenProperties DEF StateT
<1>2. el \in ElemT
  BY <1>1 DEF ElemT
<1> HIDE DEF el
<1>3. [s.elems EXCEPT ![e] = el] \in Seq(ElemT)
  BY <1>1, <1>2, SeqSet
<1>4. t = [s EXCEPT !.elems = [s.elems EXCEPT ![e] = el]]
  BY DEF el, FreeSet
<1> HIDE DEF ElemT, RecT
<1>5. t \in StateT /\ t.elems = [s.elems EXCEPT ![e] = el] /\ SameSessions(s, t) /\ SameQueues(s, t)
  BY <1>3, <1>4 DEF StateT, SameSessions, SameQueues
<1> QED BY <1>5 DEF el
-----------------------------------------------------------------------------
(***************************************************************************)
(* The operations of the instance queues: none of them touches elements,   *)
(* records or the session map.                                             *)
(***************************************************************************)
\* Only the entry of instance i in queue q is another one.
Filed(s, t, q, i, e) ==
    \A p \in Queues, j \in Instances :
        t.queue[p][j] = IF p = q /\ j = i THEN e ELSE s.queue[p][j]

\* Results of the queues' operations.
QueueStep(s, t) == t \in StateT /\ t.elems = s.elems /\ SameSessions(s, t)

LEMMA ElemType ==
    ASSUME NEW s \in StateT, NEW e \in DOMAIN s.elems
    PROVE  /\ s.elems[e] \in ElemT /\ s.elems[e].ins \in Instances
           /\ s.elems[e].free \in Int /\ s.elems[e].status \in Status
<1>1. s.elems \in Seq(ElemT)
  BY DEF StateT
<1>2. s.elems[e] \in ElemT
  BY <1>1, ElementOfSeq, LenProperties
<1> QED BY <1>2 DEF ElemT

LEMMA PublishFields ==
    ASSUME NEW s \in StateT, NEW a \in Int, NEW u \in Int, NEW n \in Int
    PROVE  LET t == Publish(s, a, u, n) IN
           /\ QueueStep(s, t) /\ t.queue = s.queue /\ t.count = s.count
           /\ t.avail = s.avail + a /\ t.total = s.total + n
<1> DEFINE t == Publish(s, a, u, n)
<1>0. s.avail \in Int /\ s.inUse \in Int /\ s.total \in Int
  BY DEF StateT
<1>1. t = [s EXCEPT !.avail = s.avail + a, !.inUse = s.inUse + u, !.total = s.total + n]
  BY DEF Publish
<1>2. /\ t.elems = s.elems /\ t.recs = s.recs /\ t.sessionMap = s.sessionMap
      /\ t.queue = s.queue /\ t.count = s.count
  BY <1>1 DEF StateT
<1>3. t.avail = s.avail + a /\ t.total = s.total + n
  BY <1>1 DEF StateT
<1>4. t \in StateT
  <2>1. s.avail + a \in Int /\ s.inUse + u \in Int /\ s.total + n \in Int
    BY <1>0
  <2> QED BY <1>1, <2>1 DEF StateT
<1> QED BY <1>2, <1>3, <1>4 DEF QueueStep, SameSessions

LEMMA SetQueue ==
    ASSUME NEW s \in StateT, NEW q \in Queues, NEW i \in Instances, NEW e \in Nat
    PROVE  LET t == [s EXCEPT !.queue[q][i] = e] IN
           /\ QueueStep(s, t) /\ Filed(s, t, q, i, e)
           /\ t.count = s.count /\ t.avail = s.avail /\ t.total = s.total
<1> DEFINE Q == [s.queue EXCEPT ![q] = [s.queue[q] EXCEPT ![i] = e]]
           t == [s EXCEPT !.queue = Q]
<1>1. s.queue \in [Queues -> [Instances -> Nat]]
  BY DEF StateT
<1>2. Q \in [Queues -> [Instances -> Nat]]
  BY <1>1
<1>3. \A p \in Queues, j \in Instances : Q[p][j] = IF p = q /\ j = i THEN e ELSE s.queue[p][j]
  BY <1>1
<1> HIDE DEF Q
<1>4. /\ t \in StateT /\ t.elems = s.elems /\ SameSessions(s, t) /\ t.queue = Q
      /\ t.count = s.count /\ t.avail = s.avail /\ t.total = s.total
  BY <1>2 DEF StateT, SameSessions
<1>5. t = [s EXCEPT !.queue[q][i] = e]
  BY DEF Q
<1> HIDE DEF t
<1> QED BY <1>3, <1>4, <1>5 DEF QueueStep, Filed

LEMMA SetCount ==
    ASSUME NEW s \in StateT, NEW i \in Instances, NEW x \in Int
    PROVE  LET t == [s EXCEPT !.count[i] = x] IN
           /\ QueueStep(s, t) /\ t.queue = s.queue /\ t.count = [s.count EXCEPT ![i] = x]
           /\ t.avail = s.avail /\ t.total = s.total
BY DEF StateT, QueueStep, SameSessions

\* Steps of the queues may be put together.
LEMMA QueueSteps ==
    ASSUME NEW s, NEW t, NEW u, QueueStep(s, t), QueueStep(t, u)
    PROVE  QueueStep(s, u)
BY DEF QueueStep, SameSessions

\* What an instance counts for in the published numbers.
AvailOf(el) == IF el.status = "running" THEN el.free ELSE 0
TotalOf(el) == IF el.status \in {"running", "subHealth"} THEN CN ELSE 0

LEMMA PushBackFields ==
    ASSUME NEW s \in StateT, NEW q \in Queues, NEW e \in DOMAIN s.elems,
           NEW el, el = s.elems[e], NEW t, t = PushBack(s, q, e)
    PROVE  /\ QueueStep(s, t)
           /\ InQueue(s, q, el.ins) => t = s
           /\ ~InQueue(s, q, el.ins) =>
                /\ Filed(s, t, q, el.ins, e)
                /\ q = "other" => t.count = s.count /\ t.avail = s.avail /\ t.total = s.total
                /\ q = "self" => /\ t.count = [s.count EXCEPT ![el.ins] = el.free]
                                 /\ t.avail = s.avail + AvailOf(el)
                                 /\ t.total = s.total + TotalOf(el)
<1>0. /\ el.ins \in Instances /\ el.free \in Int /\ el.status \in Status /\ e \in Nat
      /\ CN \in Int /\ s.avail \in Int /\ s.total \in Int
  <2>1. s.elems \in Seq(ElemT)
    BY DEF StateT
  <2>2. e \in Nat
    BY <2>1, LenProperties
  <2>3. s.avail \in Int /\ s.total \in Int
    BY DEF StateT
  <2>4. CN \in Int
    BY ConstantsAssumption
  <2> QED BY <2>2, <2>3, <2>4, ElemType
<1>1. CASE InQueue(s, q, el.ins)
  BY <1>1 DEF PushBack, QueueStep, SameSessions
<1>2. CASE ~InQueue(s, q, el.ins)
  <2> DEFINE s1 == [s EXCEPT !.queue[q][el.ins] = e]
             s2 == [s1 EXCEPT !.count[el.ins] = el.free]
  <2>1. /\ QueueStep(s, s1) /\ Filed(s, s1, q, el.ins, e)
        /\ s1.count = s.count /\ s1.avail = s.avail /\ s1.total = s.total
    BY <1>0, SetQueue
  <2>2. q = "other" => t = s1
    BY <1>2 DEF PushBack
  <2>3. q = "self" => t = CASE el.status = "running"   -> Publish(s2, el.free, 0, CN)
                            [] el.status = "subHealth" -> Publish(s2, 0, 0, CN)
                            [] OTHER                   -> s2
    BY <1>2 DEF PushBack
  <2> HIDE DEF s1
  <2>4. /\ QueueStep(s1, s2) /\ s2.queue = s1.queue /\ s2.count = [s1.count EXCEPT ![el.ins] = el.free]
        /\ s2.avail = s1.avail /\ s2.total = s1.total
    BY <1>0, <2>1, SetCount DEF QueueStep
  <2> HIDE DEF s2
  <2>5. CASE q = "other"
    BY <1>2, <2>1, <2>2, <2>5
  <2>6. CASE q = "self" /\ el.status = "running"
    <3>1. t = Publish(s2, el.free, 0, CN)
      BY <2>3, <2>6
    <3>2. /\ QueueStep(s2, t) /\ t.queue = s2.queue /\ t.count = s2.count
          /\ t.avail = s2.avail + el.free /\ t.total = s2.total + CN
      BY <1>0, <2>4, <3>1, PublishFields DEF QueueStep
    <3>3. QueueStep(s, t)
      BY <2>1, <2>4, <3>2, QueueSteps
    <3> QED BY <1>2, <2>1, <2>4, <2>6, <3>2, <3>3 DEF Filed, AvailOf, TotalOf
  <2>7. CASE q = "self" /\ el.status = "subHealth"
    <3>1. t = Publish(s2, 0, 0, CN)
      BY <2>3, <2>7
    <3>2. /\ QueueStep(s2, t) /\ t.queue = s2.queue /\ t.count = s2.count
          /\ t.avail = s2.avail + 0 /\ t.total = s2.total + CN
      BY <1>0, <2>4, <3>1, PublishFields DEF QueueStep
    <3>3. QueueStep(s, t)
      BY <2>1, <2>4, <3>2, QueueSteps
    <3> QED BY <1>2, <2>1, <2>4, <2>7, <3>2, <3>3 DEF Filed, AvailOf, TotalOf
  <2>8. CASE q = "self" /\ el.status = "evicting"
    <3>1. t = s2
      BY <2>3, <2>8
    <3>2. s.avail = s.avail + AvailOf(el) /\ s.total = s.total + TotalOf(el)
      BY <1>0, <2>8 DEF AvailOf, TotalOf
    <3>3. QueueStep(s, t)
      BY <2>1, <2>4, <3>1, QueueSteps
    <3> QED BY <1>2, <2>1, <2>4, <2>8, <3>1, <3>2, <3>3 DEF Filed
  <2> QED BY <1>0, <2>5, <2>6, <2>7, <2>8 DEF Queues, Status
<1> QED BY <1>1, <1>2

LEMMA DelByIDFields ==
    ASSUME NEW s \in StateT, NEW q \in Queues, NEW i \in Instances, NEW e \in DOMAIN s.elems,
           e = s.queue[q][i], e # 0, NEW el, el = s.elems[e], NEW t, t = DelByID(s, q, i)
    PROVE  /\ QueueStep(s, t) /\ Filed(s, t, q, i, 0) /\ t.count = s.count
           /\ q = "other" => t.avail = s.avail /\ t.total = s.total
           /\ q = "self" => t.avail = s.avail - AvailOf(el) /\ t.total = s.total - TotalOf(el)
<1>0. /\ el.free \in Int /\ el.status \in Status
      /\ CN \in Int /\ s.avail \in Int /\ s.total \in Int /\ 0 \in Nat
  <2>1. s.avail \in Int /\ s.total \in Int /\ 0 \in Nat
    BY DEF StateT
  <2>2. CN \in Int
    BY ConstantsAssumption
  <2> QED BY <2>1, <2>2, ElemType
<1> DEFINE s1 == [s EXCEPT !.queue[q][i] = 0]
<1>1. /\ QueueStep(s, s1) /\ Filed(s, s1, q, i, 0)
      /\ s1.count = s.count /\ s1.avail = s.avail /\ s1.total = s.total
  BY <1>0, SetQueue
<1>2. t = IF q = "other" \/ el.status = "evicting" THEN s1
          ELSE Publish(s1, IF el.status = "running" THEN -el.free ELSE 0, -(CN - el.free), -CN)
  BY DEF DelByID, ElemIn, InQueue
<1> HIDE DEF s1
<1>3. CASE q = "other" \/ el.status = "evicting"
  <2>1. t = s1
    BY <1>2, <1>3
  <2>2. el.status = "evicting" => s.avail = s.avail - AvailOf(el) /\ s.total = s.total - TotalOf(el)
    BY <1>0 DEF AvailOf, TotalOf
  <2> QED BY <1>1, <1>3, <2>1, <2>2 DEF Filed
<1>4. CASE q = "self" /\ el.status \in {"running", "subHealth"}
  <2> DEFINE a == IF el.status = "running" THEN -el.free ELSE 0
             u == -(CN - el.free)
             n == -CN
  <2>1. t = Publish(s1, a, u, n)
    BY <1>2, <1>4
  <2>2. a \in Int /\ u \in Int /\ n \in Int /\ s1 \in StateT
    BY <1>0, <1>1 DEF QueueStep
  <2>3. s.avail + a = s.avail - AvailOf(el) /\ s.total + n = s.total - TotalOf(el)
    BY <1>0, <1>4 DEF AvailOf, TotalOf
  <2> HIDE DEF a, u, n
  <2>4. /\ QueueStep(s1, t) /\ t.queue = s1.queue /\ t.count = s1.count
        /\ t.avail = s1.avail + a /\ t.total = s1.total + n
    BY <2>1, <2>2, PublishFields
  <2>5. QueueStep(s, t)
    BY <1>1, <2>4, QueueSteps
  <2> QED BY <1>1, <1>4, <2>3, <2>4, <2>5 DEF Filed
<1> QED BY <1>0, <1>3, <1>4 DEF Queues, Status
\* What UpdateObjByID publishes of an instance filed under status old.
AvailDiff(s, el, old) ==
    IF old = "running" /\ el.status = "running" THEN el.free - s.count[el.ins]
    ELSE IF old = "running" /\ el.status \in {"subHealth", "evicting"} THEN -el.free
    ELSE IF old = "subHealth" /\ el.status = "running" THEN el.free ELSE 0
TotalDiff(el, old) == IF old \in {"running", "subHealth"} /\ el.status = "evicting" THEN -CN ELSE 0

LEMMA UpdateFields ==
    ASSUME NEW s \in StateT, NEW q \in Queues, NEW e \in DOMAIN s.elems, NEW old,
           NEW el, el = s.elems[e], InQueue(s, q, el.ins), NEW t, t = UpdateObjByID(s, q, e, old)
    PROVE  /\ QueueStep(s, t) /\ Filed(s, t, q, el.ins, e)
           /\ q = "other" => t.count = s.count /\ t.avail = s.avail /\ t.total = s.total
           /\ q = "self" => /\ t.count = [s.count EXCEPT ![el.ins] = el.free]
                            /\ t.avail = s.avail + AvailDiff(s, el, old)
                            /\ t.total = s.total + TotalDiff(el, old)
<1>0. /\ el.ins \in Instances /\ el.free \in Int /\ el.status \in Status /\ e \in Nat
      /\ CN \in Int /\ s.avail \in Int /\ s.total \in Int /\ s.count[el.ins] \in Int
  <2>1. s.elems \in Seq(ElemT) /\ s.count \in [Instances -> Int]
    BY DEF StateT
  <2>2. e \in Nat
    BY <2>1, LenProperties
  <2>3. s.avail \in Int /\ s.total \in Int
    BY DEF StateT
  <2>4. CN \in Int
    BY ConstantsAssumption
  <2> QED BY <2>1, <2>2, <2>3, <2>4, ElemType
<1> DEFINE s1 == [s EXCEPT !.queue[q][el.ins] = e]
           s2 == [s1 EXCEPT !.count[el.ins] = el.free]
           diff == el.free - s.count[el.ins]
<1>1. /\ QueueStep(s, s1) /\ Filed(s, s1, q, el.ins, e)
      /\ s1.count = s.count /\ s1.avail = s.avail /\ s1.total = s.total
  BY <1>0, SetQueue
<1>2. q = "other" => t = s1
  BY DEF UpdateObjByID
<1>3. q = "self" =>
        t = CASE old = "running" /\ el.status = "running"     -> Publish(s2, diff, -diff, 0)
              [] old = "running" /\ el.status = "subHealth"   -> Publish(s2, -el.free, 0, 0)
              [] old = "running" /\ el.status = "evicting"    ->
                   Publish(s2, -el.free, -(CN - el.free), -CN)
              [] old = "subHealth" /\ el.status = "running"   -> Publish(s2, el.free, -diff, 0)
              [] old = "subHealth" /\ el.status = "evicting"  -> Publish(s2, 0, -(CN - el.free), -CN)
              [] OTHER                                        -> s2
  BY DEF UpdateObjByID
<1> HIDE DEF s1
<1>4. /\ QueueStep(s1, s2) /\ s2.queue = s1.queue /\ s2.count = [s1.count EXCEPT ![el.ins] = el.free]
      /\ s2.avail = s1.avail /\ s2.total = s1.total
  BY <1>0, <1>1, SetCount DEF QueueStep
<1> HIDE DEF s2
<1>5. CASE q = "other"
  BY <1>1, <1>2, <1>5
<1>6. CASE q = "self"
  <2>0. diff \in Int /\ -diff \in Int /\ -el.free \in Int /\ -CN \in Int /\ -(CN - el.free) \in Int
    BY <1>0
  <2>1. \/ t = s2 /\ AvailDiff(s, el, old) = 0 /\ TotalDiff(el, old) = 0
        \/ \E u \in Int : t = Publish(s2, AvailDiff(s, el, old), u, TotalDiff(el, old))
    <3> HIDE DEF diff
    <3>1. CASE old = "running" /\ el.status = "running"
      <4>1. t = Publish(s2, diff, -diff, 0)
        BY <1>3, <1>6, <3>1
      <4> QED BY <2>0, <3>1, <4>1 DEF AvailDiff, TotalDiff, diff
    <3>2. CASE old = "running" /\ el.status = "subHealth"
      <4>1. t = Publish(s2, -el.free, 0, 0)
        BY <1>3, <1>6, <3>2
      <4> QED BY <3>2, <4>1 DEF AvailDiff, TotalDiff
    <3>3. CASE old = "running" /\ el.status = "evicting"
      <4>1. t = Publish(s2, -el.free, -(CN - el.free), -CN)
        BY <1>3, <1>6, <3>3
      <4> QED BY <2>0, <3>3, <4>1 DEF AvailDiff, TotalDiff
    <3>4. CASE old = "subHealth" /\ el.status = "running"
      <4>1. t = Publish(s2, el.free, -diff, 0)
        BY <1>3, <1>6, <3>4
      <4> QED BY <2>0, <3>4, <4>1 DEF AvailDiff, TotalDiff
    <3>5. CASE old = "subHealth" /\ el.status = "evicting"
      <4>1. t = Publish(s2, 0, -(CN - el.free), -CN)
        BY <1>3, <1>6, <3>5
      <4> QED BY <2>0, <3>5, <4>1 DEF AvailDiff, TotalDiff
    <3>6. CASE ~(\/ old = "running" /\ el.status \in {"running", "subHealth", "evicting"}
                 \/ old = "subHealth" /\ el.status \in {"running", "evicting"})
      <4>1. t = s2
        BY <1>3, <1>6, <3>6
      <4> QED BY <3>6, <4>1 DEF AvailDiff, TotalDiff
    <3> QED BY <3>1, <3>2, <3>3, <3>4, <3>5, <3>6
  <2>2. AvailDiff(s, el, old) \in Int /\ TotalDiff(el, old) \in Int
    BY <1>0 DEF AvailDiff, TotalDiff
  <2>3. PICK a \in Int, n \in Int : a = AvailDiff(s, el, old) /\ n = TotalDiff(el, old)
    BY <2>2
  <2>4. CASE t = s2 /\ a = 0 /\ n = 0
    <3>1. QueueStep(s, t)
      BY <1>1, <1>4, <2>4, QueueSteps
    <3>2. s.avail = s.avail + a /\ s.total = s.total + n
      BY <1>0, <2>4
    <3> QED BY <1>1, <1>4, <1>6, <2>3, <2>4, <3>1, <3>2 DEF Filed
  <2>5. CASE \E u \in Int : t = Publish(s2, a, u, n)
    <3>1. /\ QueueStep(s2, t) /\ t.queue = s2.queue /\ t.count = s2.count
          /\ t.avail = s2.avail + a /\ t.total = s2.total + n
      BY <1>4, <2>5, PublishFields DEF QueueStep
    <3>2. QueueStep(s, t)
      BY <1>1, <1>4, <3>1, QueueSteps
    <3> QED BY <1>1, <1>4, <1>6, <2>3, <3>1, <3>2 DEF Filed
  <2> QED BY <2>1, <2>3, <2>4, <2>5
<1> QED BY <1>5, <1>6 DEF Queues

LEMMA RefileFields ==
    ASSUME NEW s \in StateT, NEW q \in Queues, NEW e \in DOMAIN s.elems,
           NEW el, el = s.elems[e], NEW t, t = Refile(s, q, e)
    PROVE  /\ QueueStep(s, t)
           /\ ~InQueue(s, q, el.ins) => t = s
           /\ InQueue(s, q, el.ins) =>
                /\ Filed(s, t, q, el.ins, e)
                /\ q = "other" => t.count = s.count /\ t.avail = s.avail /\ t.total = s.total
                /\ q = "self" =>
                     /\ t.count = [s.count EXCEPT ![el.ins] = el.free]
                     /\ t.avail = s.avail + AvailDiff(s, el, s.elems[s.queue[q][el.ins]].status)
                     /\ t.total = s.total + TotalDiff(el, s.elems[s.queue[q][el.ins]].status)
<1>1. CASE ~InQueue(s, q, el.ins)
  BY <1>1 DEF Refile, QueueStep, SameSessions
<1>2. CASE InQueue(s, q, el.ins)
  <2>1. PICK old : old = s.elems[s.queue[q][el.ins]].status
    OBVIOUS
  <2>2. t = UpdateObjByID(s, q, e, old)
    BY <1>2, <2>1 DEF Refile, ElemIn
  <2>3. /\ QueueStep(s, t) /\ Filed(s, t, q, el.ins, e)
        /\ q = "other" => t.count = s.count /\ t.avail = s.avail /\ t.total = s.total
        /\ q = "self" => /\ t.count = [s.count EXCEPT ![el.ins] = el.free]
                         /\ t.avail = s.avail + AvailDiff(s, el, old)
                         /\ t.total = s.total + TotalDiff(el, old)
    <3> HIDE <2>1
    <3> QED BY <1>2, <2>2, UpdateFields
  <2> QED BY <1>2, <2>1, <2>3
<1> QED BY <1>1, <1>2
-----------------------------------------------------------------------------
(***************************************************************************)
(* The invariant, of a scheduler state s and allocations A.                *)
(***************************************************************************)
\* The entry of an instance is one of its elements.
QueuesOK(s) ==
    \A q \in Queues, i \in Instances :
        s.queue[q][i] # 0 => /\ s.queue[q][i] \in DOMAIN s.elems
                             /\ s.elems[s.queue[q][i]].ins = i

\* A record refers to an element; the session map to the last record of the
\* session, which has not expired.
RecsOK(s) == \A r \in DOMAIN s.recs : s.recs[r].elem \in DOMAIN s.elems
MapOK(s) ==
    \A x \in Sessions :
        s.sessionMap[x] # 0 =>
            /\ s.sessionMap[x] \in DOMAIN s.recs
            /\ s.recs[s.sessionMap[x]].sess = x /\ s.recs[s.sessionMap[x]].timer # "done"
            /\ \A p \in DOMAIN s.recs : s.recs[p].sess = x => p <= s.sessionMap[x]

\* Whoever uses a record whose expiry is under way finds it marked as expiring
\* and leaves the token.
TokenOf(rec) ==
    rec.timer \in {"waiting", "fired"} =>
        rec.expiring /\ (rec.avail # rec.conc \/ rec.over # 0 => rec.token)
TokensOK(s) == \A r \in DOMAIN s.recs : TokenOf(s.recs[r])

\* An allocation is of an instance that was added, and of the session record's.
AllocOK(s, al) ==
    /\ al \in Allocation
    /\ \E e \in DOMAIN s.elems : s.elems[e].ins = al.ins
    /\ al.kind = "plain" <=> al.rec = 0
    /\ al.rec # 0 => al.rec \in DOMAIN s.recs /\ s.elems[s.recs[al.rec].elem].ins = al.ins
AllocsOK(s, A) == \A a \in Slots : A[a] # None => AllocOK(s, A[a])

\* A record counts at least the threads that were allocated from it.
Of(A, kind, r) == {a \in Slots : A[a] # None /\ A[a].kind = kind /\ A[a].rec = r}
CoverOK(s, A) ==
    \A r \in DOMAIN s.recs : /\ Cardinality(Of(A, "over", r)) <= s.recs[r].over
                             /\ Cardinality(Of(A, "sess", r)) <= s.recs[r].conc - s.recs[r].avail

\* Once, Reserved and Leased of ConcurrencyScheduler, for any s and A.
OnceIn(s) == {e \in DOMAIN s.elems : \A f \in DOMAIN s.elems \ {e} : s.elems[f].ins # s.elems[e].ins}
KeptBy(s, e) == {r \in DOMAIN s.recs : s.recs[r].elem = e /\ s.recs[r].timer # "done"}
Kept(s) == [r \in DOMAIN s.recs |-> s.recs[r].avail]
ReservedIn(s, e) == SumFunctionOnSet(Kept(s), KeptBy(s, e))
LeasedFrom(s, A, e) == {a \in Slots : A[a] # None /\ A[a].ins = s.elems[e].ins}
Conserved(s, A) ==
    \A e \in OnceIn(s) :
        s.elems[e].free + ReservedIn(s, e) + Cardinality(LeasedFrom(s, A, e)) <= CN

SInv(s, A) ==
    /\ s \in StateT /\ QueuesOK(s) /\ RecsOK(s) /\ MapOK(s) /\ TokensOK(s)
    /\ AllocsOK(s, A) /\ CoverOK(s, A) /\ Conserved(s, A)

LEMMA RecType ==
    ASSUME NEW s \in StateT, NEW r \in DOMAIN s.recs
    PROVE  /\ s.recs[r] \in RecT /\ r \in Nat /\ r # 0
           /\ s.recs[r].sess \in Sessions /\ s.recs[r].elem \in Nat /\ s.recs[r].conc \in Nat
           /\ s.recs[r].avail \in Int /\ s.recs[r].over \in Int
           /\ s.recs[r].expiring \in BOOLEAN /\ s.recs[r].token \in BOOLEAN
           /\ s.recs[r].timer \in Timers /\ s.recs[r].que \in Queues
<1>1. s.recs \in Seq(RecT)
  BY DEF StateT
<1>2. s.recs[r] \in RecT /\ r \in Nat /\ r # 0
  BY <1>1, ElementOfSeq, LenProperties
<1>3. /\ s.recs[r].sess \in Sessions /\ s.recs[r].elem \in Nat /\ s.recs[r].conc \in Nat
      /\ s.recs[r].avail \in Int /\ s.recs[r].over \in Int
      /\ s.recs[r].timer \in Timers /\ s.recs[r].que \in Queues
  BY <1>2 DEF RecT
<1>4. s.recs[r].expiring \in BOOLEAN /\ s.recs[r].token \in BOOLEAN
  BY <1>2 DEF RecT
<1> QED BY <1>2, <1>3, <1>4

LEMMA FiniteRecs ==
    ASSUME NEW s \in StateT
    PROVE  IsFiniteSet(DOMAIN s.recs) /\ IsFiniteSet(DOMAIN s.elems) /\ IsFiniteSet(Slots)
<1>1. s.recs \in Seq(RecT) /\ s.elems \in Seq(ElemT)
  BY DEF StateT
<1>2. /\ DOMAIN s.recs = 1 .. Len(s.recs) /\ Len(s.recs) \in Nat
      /\ DOMAIN s.elems = 1 .. Len(s.elems) /\ Len(s.elems) \in Nat
  BY <1>1, LenProperties
<1>3. \A n \in Nat : IsFiniteSet(1 .. n)
  BY FS_Interval
<1> QED BY <1>2, <1>3, ConstantsAssumption DEF Slots

\* The sums and numbers of the invariant are integers.
LEMMA HeldInt ==
    ASSUME NEW s \in StateT, NEW A, NEW e
    PROVE  /\ IsFiniteSet(KeptBy(s, e)) /\ \A r \in KeptBy(s, e) : Kept(s)[r] \in Int
           /\ ReservedIn(s, e) \in Int
           /\ IsFiniteSet(LeasedFrom(s, A, e)) /\ Cardinality(LeasedFrom(s, A, e)) \in Nat
           /\ \A k, r : IsFiniteSet(Of(A, k, r)) /\ Cardinality(Of(A, k, r)) \in Nat
<1>1. IsFiniteSet(KeptBy(s, e))
  BY FiniteRecs, FS_Subset DEF KeptBy
<1>2. \A r \in KeptBy(s, e) : Kept(s)[r] \in Int
  BY RecType DEF KeptBy, Kept
<1>3. ReservedIn(s, e) \in Int
  <2> DEFINE f == Kept(s)
             S == KeptBy(s, e)
  <2>1. IsFiniteSet(S) /\ \A x \in S : f[x] \in Int
    BY <1>1, <1>2
  <2> HIDE DEF f, S
  <2>2. SumFunctionOnSet(f, S) \in Int
    BY <2>1, SumInt
  <2> QED BY <2>2 DEF f, S, ReservedIn
<1>4. IsFiniteSet(LeasedFrom(s, A, e)) /\ Cardinality(LeasedFrom(s, A, e)) \in Nat
  BY FiniteRecs, FS_Subset, FS_CardinalityType DEF LeasedFrom
<1>5. \A k, r : IsFiniteSet(Of(A, k, r)) /\ Cardinality(Of(A, k, r)) \in Nat
  BY FiniteRecs, FS_Subset, FS_CardinalityType DEF Of
<1> QED BY <1>1, <1>2, <1>3, <1>4, <1>5

\* What record r keeps for element e, and whether A[a] is of element e.
KeptOf(s, r, e) ==
    IF r \in DOMAIN s.recs /\ s.recs[r].elem = e /\ s.recs[r].timer # "done"
    THEN s.recs[r].avail ELSE 0
LeasedOf(s, A, a, e) == IF a \in Slots /\ A[a] # None /\ A[a].ins = s.elems[e].ins THEN 1 ELSE 0
OfOf(A, a, kind, r) == IF a \in Slots /\ A[a] # None /\ A[a].kind = kind /\ A[a].rec = r THEN 1 ELSE 0

\* Two states whose records differ in record r, and two assignments of
\* allocations that differ in slot a.
LEMMA ReservedChange ==
    ASSUME NEW s \in StateT, NEW t \in StateT, NEW r, DOMAIN s.recs \ {r} = DOMAIN t.recs \ {r},
           \A p \in DOMAIN s.recs \ {r} : t.recs[p] = s.recs[p], NEW e
    PROVE  ReservedIn(t, e) = ReservedIn(s, e) - KeptOf(s, r, e) + KeptOf(t, r, e)
<1> DEFINE f == Kept(s)
           g == Kept(t)
           S == KeptBy(s, e)
           T == KeptBy(t, e)
<1>1. IsFiniteSet(S) /\ IsFiniteSet(T) /\ (\A x \in S : f[x] \in Int) /\ (\A x \in T : g[x] \in Int)
  BY HeldInt
<1>2. S \ {r} = T \ {r} /\ \A y \in S \ {r} : f[y] = g[y]
  BY DEF KeptBy, Kept
<1>3. Part(f, S, r) = KeptOf(s, r, e) /\ Part(g, T, r) = KeptOf(t, r, e)
  BY DEF Part, KeptOf, KeptBy, Kept
<1> HIDE DEF f, g, S, T
<1>4. SumFunctionOnSet(g, T) = SumFunctionOnSet(f, S) - Part(f, S, r) + Part(g, T, r)
  BY <1>1, <1>2, SumChange
<1> QED BY <1>3, <1>4 DEF f, g, S, T, ReservedIn

LEMMA LeasedChange ==
    ASSUME NEW s \in StateT, NEW t \in StateT, NEW e, s.elems[e].ins = t.elems[e].ins,
           NEW A, NEW B, NEW a, \A b \in Slots \ {a} : B[b] = A[b]
    PROVE  Cardinality(LeasedFrom(t, B, e)) =
             Cardinality(LeasedFrom(s, A, e)) - LeasedOf(s, A, a, e) + LeasedOf(t, B, a, e)
<1> DEFINE S == LeasedFrom(s, A, e)
           T == LeasedFrom(t, B, e)
<1>1. IsFiniteSet(S) /\ IsFiniteSet(T)
  BY HeldInt
<1>2. S \ {a} = T \ {a}
  BY DEF LeasedFrom
<1>3. /\ LeasedOf(s, A, a, e) = IF a \in S THEN 1 ELSE 0
      /\ LeasedOf(t, B, a, e) = IF a \in T THEN 1 ELSE 0
  BY DEF LeasedFrom, LeasedOf
<1> HIDE DEF S, T
<1>4. Cardinality(T) = Cardinality(S) - (IF a \in S THEN 1 ELSE 0) + (IF a \in T THEN 1 ELSE 0)
  BY <1>1, <1>2, CardChange
<1> QED BY <1>3, <1>4 DEF S, T

LEMMA OfChange ==
    ASSUME NEW s \in StateT, NEW A, NEW B, NEW a, \A b \in Slots \ {a} : B[b] = A[b],
           NEW k, NEW r
    PROVE  Cardinality(Of(B, k, r)) = Cardinality(Of(A, k, r)) - OfOf(A, a, k, r) + OfOf(B, a, k, r)
<1> DEFINE S == Of(A, k, r)
           T == Of(B, k, r)
<1>1. IsFiniteSet(S) /\ IsFiniteSet(T)
  BY HeldInt
<1>2. S \ {a} = T \ {a}
  BY DEF Of
<1>3. /\ OfOf(A, a, k, r) = IF a \in S THEN 1 ELSE 0
      /\ OfOf(B, a, k, r) = IF a \in T THEN 1 ELSE 0
  BY DEF Of, OfOf
<1> HIDE DEF S, T
<1>4. Cardinality(T) = Cardinality(S) - (IF a \in S THEN 1 ELSE 0) + (IF a \in T THEN 1 ELSE 0)
  BY <1>1, <1>2, CardChange
<1> QED BY <1>3, <1>4 DEF S, T
-----------------------------------------------------------------------------
(***************************************************************************)
(* Steps that change one record r, free counts and one slot a of the       *)
(* allocations at most, and take sessions out of the map.                  *)
(***************************************************************************)
Change(s, t, r) ==
    /\ t \in StateT
    /\ DOMAIN t.elems = DOMAIN s.elems
    /\ \A e \in DOMAIN s.elems : t.elems[e].ins = s.elems[e].ins
    /\ DOMAIN t.recs = DOMAIN s.recs
    /\ \A p \in DOMAIN s.recs \ {r} : t.recs[p] = s.recs[p]
    /\ r \in DOMAIN s.recs => t.recs[r].elem = s.recs[r].elem /\ t.recs[r].sess = s.recs[r].sess

RecStep(s, t, r) ==
    /\ \A x \in Sessions : t.sessionMap[x] \in {0, s.sessionMap[x]}
    /\ r \in DOMAIN s.recs =>
         /\ TokenOf(t.recs[r])
         /\ t.recs[r].timer = "done" => \A x \in Sessions : t.sessionMap[x] # r

CoverStep(s, t, A, B, a) ==
    \A p \in DOMAIN s.recs :
        /\ s.recs[p].over - OfOf(A, a, "over", p) <= t.recs[p].over - OfOf(B, a, "over", p)
        /\ s.recs[p].conc - s.recs[p].avail - OfOf(A, a, "sess", p)
             <= t.recs[p].conc - t.recs[p].avail - OfOf(B, a, "sess", p)

HeldStep(s, t, A, B, a, r) ==
    \A e \in OnceIn(s) :
        t.elems[e].free + KeptOf(t, r, e) + LeasedOf(t, B, a, e)
          <= s.elems[e].free + KeptOf(s, r, e) + LeasedOf(s, A, a, e)

SlotStep(t, A, B, a) ==
    /\ \A b \in Slots \ {a} : B[b] = A[b]
    /\ a \in Slots /\ B[a] # None => AllocOK(t, B[a])

LEMMA PieceInt ==
    ASSUME NEW s \in StateT, NEW A, NEW a, NEW r, NEW e
    PROVE  /\ KeptOf(s, r, e) \in Int /\ LeasedOf(s, A, a, e) \in Int
           /\ \A k : OfOf(A, a, k, r) \in Int
BY RecType DEF KeptOf, LeasedOf, OfOf

LEMMA ChangeInv ==
    ASSUME NEW s, NEW A, SInv(s, A), NEW t, NEW r, Change(s, t, r), QueuesOK(t), RecStep(s, t, r),
           NEW B, NEW a, SlotStep(t, A, B, a), CoverStep(s, t, A, B, a), HeldStep(s, t, A, B, a, r)
    PROVE  SInv(t, B)
<1>0. s \in StateT /\ t \in StateT
  BY DEF SInv, Change
<1>1. \A p \in DOMAIN s.recs : t.recs[p].elem = s.recs[p].elem /\ t.recs[p].sess = s.recs[p].sess
  BY DEF Change
<1>2. RecsOK(t)
  BY <1>1 DEF SInv, RecsOK, Change
<1>3. MapOK(t)
  <2> SUFFICES ASSUME NEW x \in Sessions, t.sessionMap[x] # 0
               PROVE  /\ t.sessionMap[x] \in DOMAIN t.recs
                      /\ t.recs[t.sessionMap[x]].sess = x /\ t.recs[t.sessionMap[x]].timer # "done"
                      /\ \A p \in DOMAIN t.recs : t.recs[p].sess = x => p <= t.sessionMap[x]
    BY DEF MapOK
  <2>1. PICK m : m = s.sessionMap[x]
    OBVIOUS
  <2>2. t.sessionMap[x] = m /\ m # 0
    BY <2>1 DEF RecStep
  <2>3. /\ m \in DOMAIN s.recs /\ s.recs[m].sess = x /\ s.recs[m].timer # "done"
        /\ \A p \in DOMAIN s.recs : s.recs[p].sess = x => p <= m
    BY <2>1, <2>2 DEF SInv, MapOK
  <2>4. t.recs[m].timer # "done"
    BY <2>2, <2>3 DEF Change, RecStep
  <2>5. \A p \in DOMAIN t.recs : t.recs[p].sess = x => p <= m
    BY <1>1, <2>3 DEF Change
  <2> QED BY <1>1, <2>2, <2>3, <2>4, <2>5 DEF Change
<1>4. TokensOK(t)
  BY DEF SInv, TokensOK, Change, RecStep
<1>5. AllocsOK(t, B)
  <2> SUFFICES ASSUME NEW b \in Slots, b # a, B[b] # None PROVE AllocOK(t, B[b])
    BY DEF AllocsOK, SlotStep
  <2>1. PICK al : al = A[b]
    OBVIOUS
  <2>2. B[b] = al /\ AllocOK(s, al)
    BY <2>1 DEF SInv, AllocsOK, SlotStep
  <2>3. \E e \in DOMAIN t.elems : t.elems[e].ins = al.ins
    BY <2>2 DEF AllocOK, Change
  <2>4. al.rec # 0 => al.rec \in DOMAIN t.recs /\ t.elems[t.recs[al.rec].elem].ins = al.ins
    BY <1>1, <2>2 DEF AllocOK, Change, SInv, RecsOK
  <2>5. al \in Allocation /\ (al.kind = "plain" <=> al.rec = 0)
    BY <2>2 DEF AllocOK
  <2> QED BY <2>2, <2>3, <2>4, <2>5 DEF AllocOK
<1>6. CoverOK(t, B)
  <2> SUFFICES ASSUME NEW p \in DOMAIN s.recs
               PROVE  /\ Cardinality(Of(B, "over", p)) <= t.recs[p].over
                      /\ Cardinality(Of(B, "sess", p)) <= t.recs[p].conc - t.recs[p].avail
    BY DEF CoverOK, Change
  <2> DEFINE cover(k, x, y) ==
        /\ Cardinality(Of(A, k, p)) <= x
        /\ x - OfOf(A, a, k, p) <= y - OfOf(B, a, k, p)
  <2>1. \A b \in Slots \ {a} : B[b] = A[b]
    BY DEF SlotStep
  <2>2. ASSUME NEW k, NEW x \in Int, NEW y \in Int, cover(k, x, y)
        PROVE  Cardinality(Of(B, k, p)) <= y
    <3>1. Cardinality(Of(B, k, p)) = Cardinality(Of(A, k, p)) - OfOf(A, a, k, p) + OfOf(B, a, k, p)
      BY <1>0, <2>1, OfChange
    <3>2. OfOf(A, a, k, p) \in Int /\ OfOf(B, a, k, p) \in Int
      BY <1>0, PieceInt
    <3>3. Cardinality(Of(A, k, p)) \in Nat
      BY <1>0, HeldInt
    <3> QED BY <2>2, <3>1, <3>2, <3>3
  <2>3. /\ s.recs[p].over \in Int /\ s.recs[p].conc \in Int /\ s.recs[p].avail \in Int
        /\ t.recs[p].over \in Int /\ t.recs[p].conc \in Int /\ t.recs[p].avail \in Int
    BY <1>0, RecType DEF Change
  <2>4. cover("over", s.recs[p].over, t.recs[p].over)
    BY DEF SInv, CoverOK, CoverStep
  <2>5. cover("sess", s.recs[p].conc - s.recs[p].avail, t.recs[p].conc - t.recs[p].avail)
    BY DEF SInv, CoverOK, CoverStep
  <2> HIDE DEF cover
  <2>6. Cardinality(Of(B, "over", p)) <= t.recs[p].over
    BY <2>2, <2>3, <2>4
  <2>7. Cardinality(Of(B, "sess", p)) <= t.recs[p].conc - t.recs[p].avail
    <3>1. s.recs[p].conc - s.recs[p].avail \in Int /\ t.recs[p].conc - t.recs[p].avail \in Int
      BY <2>3
    <3> QED BY <2>2, <2>5, <3>1
  <2> QED BY <2>6, <2>7
<1>7. Conserved(t, B)
  <2>0. OnceIn(t) = OnceIn(s)
    BY DEF OnceIn, Change
  <2> SUFFICES ASSUME NEW e \in OnceIn(s)
               PROVE  t.elems[e].free + ReservedIn(t, e) + Cardinality(LeasedFrom(t, B, e)) <= CN
    BY <2>0 DEF Conserved
  <2>1. e \in DOMAIN s.elems /\ s.elems[e].ins = t.elems[e].ins
    BY DEF OnceIn, Change
  <2>2. s.elems[e].free \in Int /\ t.elems[e].free \in Int /\ CN \in Int
    <3>1. e \in DOMAIN t.elems
      BY <2>1 DEF Change
    <3>2. CN \in Int
      BY ConstantsAssumption
    <3> QED BY <1>0, <2>1, <3>1, <3>2, ElemType
  <2>3. ReservedIn(t, e) = ReservedIn(s, e) - KeptOf(s, r, e) + KeptOf(t, r, e)
    <3>1. DOMAIN s.recs \ {r} = DOMAIN t.recs \ {r} /\ \A p \in DOMAIN s.recs \ {r} : t.recs[p] = s.recs[p]
      BY DEF Change
    <3> QED BY <1>0, <3>1, ReservedChange
  <2>4. Cardinality(LeasedFrom(t, B, e)) =
             Cardinality(LeasedFrom(s, A, e)) - LeasedOf(s, A, a, e) + LeasedOf(t, B, a, e)
    <3>1. \A b \in Slots \ {a} : B[b] = A[b]
      BY DEF SlotStep
    <3> QED BY <1>0, <2>1, <3>1, LeasedChange
  <2>5. t.elems[e].free + KeptOf(t, r, e) + LeasedOf(t, B, a, e)
          <= s.elems[e].free + KeptOf(s, r, e) + LeasedOf(s, A, a, e)
    BY DEF HeldStep
  <2>6. s.elems[e].free + ReservedIn(s, e) + Cardinality(LeasedFrom(s, A, e)) <= CN
    BY DEF SInv, Conserved
  <2>7. /\ KeptOf(s, r, e) \in Int /\ KeptOf(t, r, e) \in Int
        /\ LeasedOf(s, A, a, e) \in Int /\ LeasedOf(t, B, a, e) \in Int
    BY <1>0, PieceInt
  <2>8. ReservedIn(s, e) \in Int /\ Cardinality(LeasedFrom(s, A, e)) \in Nat
    BY <1>0, HeldInt
  <2> QED BY <2>2, <2>3, <2>4, <2>5, <2>6, <2>7, <2>8
<1> QED BY <1>0, <1>2, <1>3, <1>4, <1>5, <1>6, <1>7 DEF SInv
-----------------------------------------------------------------------------
(***************************************************************************)
(* The published numbers.  While every instance has one element, they add  *)
(* up what each element of the self queue counts for; insAvailThdCount of  *)
(* an instance that counts is up to date, and it is not in the other queue *)
(* as well, where its threads would be handed out unpublished.             *)
(***************************************************************************)
AllOnce(s) == OnceIn(s) = DOMAIN s.elems
InSelf(s, e) == e \in DOMAIN s.elems /\ s.queue["self"][s.elems[e].ins] = e
SelfIn(s, S) == {e \in DOMAIN s.elems : s.queue["self"][s.elems[e].ins] = e /\ s.elems[e].status \in S}
FreeOf(s) == [e \in DOMAIN s.elems |-> s.elems[e].free]
AvailPart(s, e) == IF InSelf(s, e) THEN AvailOf(s.elems[e]) ELSE 0
TotalPart(s, e) == IF InSelf(s, e) THEN TotalOf(s.elems[e]) ELSE 0
CountOK(s, e) ==
    InSelf(s, e) /\ s.elems[e].status # "evicting" =>
        /\ s.count[s.elems[e].ins] = s.elems[e].free
        /\ s.queue["other"][s.elems[e].ins] = 0
Numbers(s) ==
    /\ s.avail = SumFunctionOnSet(FreeOf(s), SelfIn(s, {"running"}))
    /\ s.total = CN * Cardinality(SelfIn(s, {"running", "subHealth"}))
    /\ \A e \in DOMAIN s.elems : CountOK(s, e)
Exact(s) == AllOnce(s) => Numbers(s)

LEMMA TimesCN == \A n \in Int : CN * (n + 1) = CN * n + CN /\ CN * (n - 1) = CN * n - CN
BY ConstantsAssumption

LEMMA AvailSum ==
    ASSUME NEW s \in StateT, NEW t \in StateT, NEW e, DOMAIN s.elems \ {e} = DOMAIN t.elems \ {e},
           \A f \in DOMAIN s.elems \ {e} : t.elems[f] = s.elems[f] /\ (InSelf(t, f) <=> InSelf(s, f))
    PROVE  /\ SumFunctionOnSet(FreeOf(t), SelfIn(t, {"running"})) =
                SumFunctionOnSet(FreeOf(s), SelfIn(s, {"running"})) - AvailPart(s, e) + AvailPart(t, e)
           /\ SumFunctionOnSet(FreeOf(s), SelfIn(s, {"running"})) \in Int
           /\ AvailPart(s, e) \in Int /\ AvailPart(t, e) \in Int
<1> DEFINE f == FreeOf(s)
           g == FreeOf(t)
           S == SelfIn(s, {"running"})
           T == SelfIn(t, {"running"})
<1>1. IsFiniteSet(S) /\ IsFiniteSet(T)
  BY FiniteRecs, FS_Subset DEF SelfIn
<1>2. (\A x \in S : f[x] \in Int) /\ (\A x \in T : g[x] \in Int)
  BY ElemType DEF SelfIn, FreeOf
<1>3. S \ {e} = T \ {e}
  BY DEF SelfIn, InSelf
<1>4. \A y \in S \ {e} : f[y] = g[y]
  BY DEF SelfIn, FreeOf
<1>5. Part(f, S, e) = AvailPart(s, e) /\ Part(g, T, e) = AvailPart(t, e)
  BY DEF Part, AvailPart, AvailOf, SelfIn, InSelf, FreeOf
<1>6. AvailPart(s, e) \in Int /\ AvailPart(t, e) \in Int
  BY ElemType DEF AvailPart, AvailOf, InSelf
<1> HIDE DEF f, g, S, T
<1>7. SumFunctionOnSet(g, T) = SumFunctionOnSet(f, S) - Part(f, S, e) + Part(g, T, e)
  BY <1>1, <1>2, <1>3, <1>4, SumChange
<1>8. SumFunctionOnSet(f, S) \in Int
  BY <1>1, <1>2, SumInt
<1> QED BY <1>5, <1>6, <1>7, <1>8 DEF f, g, S, T

LEMMA TotalCount ==
    ASSUME NEW s \in StateT, NEW t \in StateT, NEW e, DOMAIN s.elems \ {e} = DOMAIN t.elems \ {e},
           \A f \in DOMAIN s.elems \ {e} : t.elems[f] = s.elems[f] /\ (InSelf(t, f) <=> InSelf(s, f))
    PROVE  CN * Cardinality(SelfIn(t, {"running", "subHealth"})) =
             CN * Cardinality(SelfIn(s, {"running", "subHealth"})) - TotalPart(s, e) + TotalPart(t, e)
<1> DEFINE S == SelfIn(s, {"running", "subHealth"})
           T == SelfIn(t, {"running", "subHealth"})
<1>1. IsFiniteSet(S) /\ IsFiniteSet(T)
  BY FiniteRecs, FS_Subset DEF SelfIn
<1>2. S \ {e} = T \ {e}
  BY DEF SelfIn, InSelf
<1>3. /\ TotalPart(s, e) = IF e \in S THEN CN ELSE 0
      /\ TotalPart(t, e) = IF e \in T THEN CN ELSE 0
  BY DEF TotalPart, TotalOf, SelfIn, InSelf
<1> HIDE DEF S, T
<1>4. Cardinality(T) = Cardinality(S) - (IF e \in S THEN 1 ELSE 0) + (IF e \in T THEN 1 ELSE 0)
  BY <1>1, <1>2, CardChange
<1>5. PICK n \in Int, m \in Int : n = Cardinality(S) /\ m = Cardinality(T)
  BY <1>1, FS_CardinalityType
<1>6. CN \in Int /\ CN * n \in Int
  BY ConstantsAssumption
<1>7. CASE e \in S /\ e \notin T
  <2>1. m = n - 1
    BY <1>4, <1>5, <1>7
  <2>2. CN * m = CN * n - CN
    BY <2>1, TimesCN
  <2> QED BY <1>3, <1>5, <1>6, <1>7, <2>2 DEF S, T
<1>8. CASE e \notin S /\ e \in T
  <2>1. m = n + 1
    BY <1>4, <1>5, <1>8
  <2>2. CN * m = CN * n + CN
    BY <2>1, TimesCN
  <2> QED BY <1>3, <1>5, <1>6, <1>8, <2>2 DEF S, T
<1>9. CASE e \in S <=> e \in T
  <2>1. m = n
    BY <1>4, <1>5, <1>9
  <2> QED BY <1>3, <1>5, <1>6, <1>9, <2>1 DEF S, T
<1> QED BY <1>7, <1>8, <1>9

\* A step that concerns one element, and that publishes its difference.
About(s, t, e) ==
    /\ t \in StateT /\ DOMAIN s.elems \ {e} = DOMAIN t.elems \ {e} /\ e \in DOMAIN t.elems
    /\ \A f \in DOMAIN s.elems \ {e} : t.elems[f] = s.elems[f]
    /\ e \in DOMAIN s.elems => t.elems[e].ins = s.elems[e].ins
    /\ \A j \in Instances \ {t.elems[e].ins} :
         /\ t.count[j] = s.count[j]
         /\ \A p \in Queues : t.queue[p][j] = s.queue[p][j]
Publishes(s, t, e) ==
    /\ t.avail = s.avail - AvailPart(s, e) + AvailPart(t, e)
    /\ t.total = s.total - TotalPart(s, e) + TotalPart(t, e)
    /\ CountOK(t, e)

LEMMA OnceBefore ==
    ASSUME NEW s \in StateT, NEW t \in StateT, NEW e, About(s, t, e), AllOnce(t)
    PROVE  /\ AllOnce(s)
           /\ \A f \in DOMAIN s.elems \ {e} : s.elems[f].ins \in Instances \ {t.elems[e].ins}
<1>1. \A f \in DOMAIN s.elems : f \in DOMAIN t.elems /\ t.elems[f].ins = s.elems[f].ins
  BY DEF About
<1>2. AllOnce(s)
  BY <1>1 DEF AllOnce, OnceIn
<1>3. \A f \in DOMAIN s.elems \ {e} : s.elems[f].ins # t.elems[e].ins
  BY <1>1 DEF AllOnce, OnceIn, About
<1> QED BY <1>2, <1>3, ElemType

LEMMA ExactStep ==
    ASSUME NEW s \in StateT, NEW t \in StateT, NEW e, About(s, t, e), Exact(s),
           AllOnce(t) => Publishes(s, t, e)
    PROVE  Exact(t)
<1> SUFFICES ASSUME AllOnce(t) PROVE Numbers(t)
  BY DEF Exact
<1>1. Numbers(s) /\ \A f \in DOMAIN s.elems \ {e} : s.elems[f].ins \in Instances \ {t.elems[e].ins}
  BY OnceBefore DEF Exact
<1>2. DOMAIN s.elems \ {e} = DOMAIN t.elems \ {e}
  BY DEF About
<1>3. \A f \in DOMAIN s.elems \ {e} :
        /\ t.elems[f] = s.elems[f] /\ t.count[s.elems[f].ins] = s.count[s.elems[f].ins]
        /\ \A p \in Queues : t.queue[p][s.elems[f].ins] = s.queue[p][s.elems[f].ins]
  BY <1>1 DEF About
<1>4. \A f \in DOMAIN s.elems \ {e} : t.elems[f] = s.elems[f] /\ (InSelf(t, f) <=> InSelf(s, f))
  BY <1>2, <1>3 DEF InSelf, Queues
<1>5. t.avail = SumFunctionOnSet(FreeOf(t), SelfIn(t, {"running"}))
  BY <1>1, <1>2, <1>4, AvailSum DEF Publishes, Numbers
<1>6. t.total = CN * Cardinality(SelfIn(t, {"running", "subHealth"}))
  BY <1>1, <1>2, <1>4, TotalCount DEF Publishes, Numbers
<1>7. \A f \in DOMAIN t.elems : CountOK(t, f)
  <2>1. ASSUME NEW f \in DOMAIN s.elems \ {e} PROVE CountOK(t, f)
    <3>1. CountOK(s, f)
      BY <1>1 DEF Numbers
    <3>2. "self" \in Queues /\ "other" \in Queues
      BY DEF Queues
    <3> QED BY <1>3, <1>4, <3>1, <3>2 DEF CountOK
  <2> QED BY <1>2, <2>1 DEF Publishes
<1> QED BY <1>5, <1>6, <1>7 DEF Numbers
LEMMA FiledOK ==
    ASSUME NEW s \in StateT, NEW t, QueueStep(s, t), QueuesOK(s), NEW q, NEW i, NEW e,
           Filed(s, t, q, i, e), e # 0 => e \in DOMAIN s.elems /\ s.elems[e].ins = i
    PROVE  QueuesOK(t)
BY DEF QueuesOK, QueueStep, Filed

\* The element with another free count, or the same.
WithFree(s, e, x) == [s.elems EXCEPT ![e] = [s.elems[e] EXCEPT !.free = x]]

LEMMA WithFreeFields ==
    ASSUME NEW s \in StateT, NEW e \in DOMAIN s.elems, NEW x
    PROVE  /\ DOMAIN WithFree(s, e, x) = DOMAIN s.elems
           /\ \A f \in DOMAIN s.elems \ {e} : WithFree(s, e, x)[f] = s.elems[f]
           /\ WithFree(s, e, x)[e].ins = s.elems[e].ins
           /\ WithFree(s, e, x)[e].status = s.elems[e].status
           /\ WithFree(s, e, x)[e].free = x
<1>1. s.elems[e] \in ElemT
  BY ElemType
<1>2. LET el == [s.elems[e] EXCEPT !.free = x] IN
        el.ins = s.elems[e].ins /\ el.status = s.elems[e].status /\ el.free = x
  BY <1>1 DEF ElemT
<1> QED BY <1>2 DEF WithFree

\* Refile after a change of the free threads of an element of q publishes it.
LEMMA RefileExact ==
    ASSUME NEW s \in StateT, QueuesOK(s), Exact(s), NEW e \in DOMAIN s.elems, NEW q \in Queues,
           InQueue(s, q, s.elems[e].ins), NEW x \in Int,
           NEW s1 \in StateT, s1.elems = WithFree(s, e, x), SameQueues(s, s1),
           NEW t, t = Refile(s1, q, e)
    PROVE  QueueStep(s1, t) /\ QueuesOK(t) /\ Exact(t)
<1> DEFINE el == s1.elems[e]
           i  == s.elems[e].ins
<1>0. /\ DOMAIN s1.elems = DOMAIN s.elems /\ \A f \in DOMAIN s.elems \ {e} : s1.elems[f] = s.elems[f]
      /\ el.ins = i /\ el.status = s.elems[e].status /\ el.free = x
      /\ i \in Instances /\ el.status \in Status
  BY WithFreeFields, ElemType
<1>1. InQueue(s1, q, el.ins)
  BY <1>0 DEF InQueue, SameQueues
<1> HIDE DEF el
<1>2. /\ QueueStep(s1, t) /\ Filed(s1, t, q, i, e)
      /\ q = "other" => t.count = s1.count /\ t.avail = s1.avail /\ t.total = s1.total
      /\ q = "self" => /\ t.count = [s1.count EXCEPT ![i] = x]
                       /\ t.avail = s1.avail + AvailDiff(s1, el, s1.elems[s1.queue[q][i]].status)
                       /\ t.total = s1.total + TotalDiff(el, s1.elems[s1.queue[q][i]].status)
  <2>1. /\ QueueStep(s1, t)
        /\ InQueue(s1, q, el.ins) =>
              /\ Filed(s1, t, q, el.ins, e)
              /\ q = "other" => t.count = s1.count /\ t.avail = s1.avail /\ t.total = s1.total
              /\ q = "self" =>
                   /\ t.count = [s1.count EXCEPT ![el.ins] = el.free]
                   /\ t.avail = s1.avail + AvailDiff(s1, el, s1.elems[s1.queue[q][el.ins]].status)
                   /\ t.total = s1.total + TotalDiff(el, s1.elems[s1.queue[q][el.ins]].status)
    <3>1. e \in DOMAIN s1.elems /\ el = s1.elems[e]
      BY <1>0 DEF el
    <3> QED BY ONLY <3>1, s1 \in StateT, q \in Queues, t = Refile(s1, q, e), RefileFields
  <2> QED BY <1>0, <1>1, <2>1
<1>3. QueuesOK(s1)
  <2>1. \A f \in DOMAIN s.elems : s1.elems[f].ins = s.elems[f].ins
    BY <1>0 DEF el
  <2> QED BY <1>0, <2>1 DEF QueuesOK, SameQueues
<1>4. QueuesOK(t)
  BY <1>0, <1>2, <1>3, FiledOK DEF el
<1>5. t \in StateT /\ t.elems = s1.elems
  BY <1>2 DEF QueueStep
<1>6. About(s, t, e)
  <2>1. s1.count \in [Instances -> Int]
    BY DEF StateT
  <2>2. \A j \in Instances \ {i} : t.count[j] = s.count[j]
    BY <1>2, <2>1 DEF SameQueues, Queues
  <2>3. \A j \in Instances \ {i}, p \in Queues : t.queue[p][j] = s.queue[p][j]
    BY <1>2 DEF SameQueues, Filed
  <2> QED BY <1>0, <1>5, <2>2, <2>3 DEF About, el
<1>7. ASSUME AllOnce(t) PROVE Publishes(s, t, e)
  <2>1. AllOnce(s) /\ CountOK(s, e)
    BY <1>5, <1>6, <1>7, OnceBefore DEF Exact, Numbers
  <2>2. s.queue[q][i] = e
    BY <1>0, <2>1 DEF AllOnce, OnceIn, QueuesOK, InQueue
  <2>3. s1.elems[s1.queue[q][i]].status = el.status
    BY <2>2 DEF SameQueues, el
  <2>4. /\ s.avail \in Int /\ s.total \in Int /\ s.elems[e].free \in Int
        /\ AvailPart(s, e) \in Int /\ TotalPart(s, e) \in Int
    <3>1. s.avail \in Int /\ s.total \in Int
      BY DEF StateT
    <3>2. CN \in Int
      BY ConstantsAssumption
    <3> QED BY <3>1, <3>2, ElemType DEF AvailPart, TotalPart, AvailOf, TotalOf
  <2>5. CASE q = "self"
    <3>1. t.queue["self"][i] = e /\ t.queue["other"][i] = s.queue["other"][i]
      BY <1>0, <1>2, <2>5 DEF Filed, SameQueues, Queues
    <3>2. InSelf(s, e) /\ InSelf(t, e) /\ t.elems[e] = el /\ t.elems[e].ins = i
      BY <1>0, <1>5, <2>2, <2>5, <3>1 DEF InSelf, el
    <3>3. s1.count[i] = s.count[i] /\ t.count[i] = x
      <4>1. s1.count \in [Instances -> Int]
        BY DEF StateT
      <4> QED BY <1>0, <1>2, <2>5, <4>1 DEF SameQueues
    <3>4. CountOK(t, e)
      BY <1>0, <2>1, <3>1, <3>2, <3>3 DEF CountOK
    <3>5. /\ AvailPart(s, e) = AvailOf(s.elems[e]) /\ AvailPart(t, e) = AvailOf(el)
          /\ TotalPart(s, e) = TotalOf(s.elems[e]) /\ TotalPart(t, e) = TotalOf(el)
      BY <3>2 DEF AvailPart, TotalPart
    <3>6. t.total = s.total - TotalPart(s, e) + TotalPart(t, e)
      <4>1. TotalDiff(el, el.status) = 0
        BY DEF TotalDiff
      <4>2. TotalOf(el) = TotalOf(s.elems[e])
        BY <1>0 DEF TotalOf
      <4> QED BY <1>2, <2>3, <2>4, <2>5, <3>5, <4>1, <4>2 DEF SameQueues
    <3>7. t.avail = s.avail - AvailPart(s, e) + AvailPart(t, e)
      <4>1. CASE el.status = "running"
        <5>1. AvailDiff(s1, el, el.status) = x - s.elems[e].free
          BY <1>0, <2>1, <3>2, <3>3, <4>1 DEF AvailDiff, CountOK
        <5>2. AvailOf(el) = x /\ AvailOf(s.elems[e]) = s.elems[e].free
          BY <1>0, <4>1 DEF AvailOf
        <5> QED BY <1>2, <2>3, <2>4, <2>5, <3>5, <5>1, <5>2 DEF SameQueues
      <4>2. CASE el.status # "running"
        <5>1. AvailDiff(s1, el, el.status) = 0
          BY <4>2 DEF AvailDiff
        <5>2. AvailOf(el) = 0 /\ AvailOf(s.elems[e]) = 0
          BY <1>0, <4>2 DEF AvailOf
        <5> QED BY <1>2, <2>3, <2>4, <2>5, <3>5, <5>1, <5>2 DEF SameQueues
      <4> QED BY <4>1, <4>2
    <3> QED BY <3>4, <3>6, <3>7 DEF Publishes
  <2>6. CASE q = "other"
    <3>1. t.queue["self"][i] = s.queue["self"][i] /\ t.queue["other"][i] = e /\ s.queue["other"][i] = e
      BY <1>0, <1>2, <2>2, <2>6 DEF Filed, SameQueues, Queues
    <3>2. t.elems[e] = el /\ (InSelf(t, e) <=> InSelf(s, e))
      BY <1>0, <1>5, <3>1 DEF InSelf, el
    <3>3. e # 0
      BY <2>2 DEF InQueue
    <3>4. InSelf(s, e) => s.elems[e].status = "evicting"
      BY <2>1, <3>1, <3>3 DEF CountOK
    <3>5. AvailPart(t, e) = AvailPart(s, e) /\ TotalPart(t, e) = TotalPart(s, e)
      BY <1>0, <3>2, <3>4 DEF AvailPart, TotalPart, AvailOf, TotalOf
    <3>6. CountOK(t, e)
      BY <1>0, <3>2, <3>4 DEF CountOK
    <3> QED BY <1>2, <2>4, <2>6, <3>5, <3>6 DEF Publishes, SameQueues
  <2> QED BY <2>5, <2>6 DEF Queues
<1> QED BY <1>2, <1>4, <1>5, <1>6, <1>7, ExactStep
LEMMA PartsInt ==
    ASSUME NEW s \in StateT, NEW e
    PROVE  /\ s.avail \in Int /\ s.total \in Int /\ CN \in Int
           /\ AvailPart(s, e) \in Int /\ TotalPart(s, e) \in Int
           /\ e \in DOMAIN s.elems => AvailOf(s.elems[e]) \in Int /\ TotalOf(s.elems[e]) \in Int
<1>1. s.avail \in Int /\ s.total \in Int
  BY DEF StateT
<1>2. CN \in Int
  BY ConstantsAssumption
<1> QED BY <1>1, <1>2, ElemType DEF AvailPart, TotalPart, AvailOf, TotalOf, InSelf

\* An instance leaves a queue.
LEMMA DelExact ==
    ASSUME NEW s \in StateT, QueuesOK(s), Exact(s), NEW q \in Queues, NEW i \in Instances,
           InQueue(s, q, i), NEW t, t = DelByID(s, q, i)
    PROVE  QueueStep(s, t) /\ QueuesOK(t) /\ Exact(t) /\ Filed(s, t, q, i, 0)
<1>1. PICK e \in DOMAIN s.elems : e = s.queue[q][i] /\ e # 0 /\ s.elems[e].ins = i
  BY DEF QueuesOK, InQueue
<1>2. PICK el : el = s.elems[e]
  OBVIOUS
<1>3. /\ QueueStep(s, t) /\ Filed(s, t, q, i, 0) /\ t.count = s.count
      /\ q = "other" => t.avail = s.avail /\ t.total = s.total
      /\ q = "self" => t.avail = s.avail - AvailOf(el) /\ t.total = s.total - TotalOf(el)
  <2>1. e = s.queue[q][i] /\ e # 0 /\ el = s.elems[e]
    BY <1>1, <1>2
  <2> QED BY ONLY s \in StateT, q \in Queues, i \in Instances, e \in DOMAIN s.elems, <2>1,
                  t = DelByID(s, q, i), DelByIDFields
<1>4. QueuesOK(t)
  BY <1>3, FiledOK
<1>5. t \in StateT /\ t.elems = s.elems
  BY <1>3 DEF QueueStep
<1>6. About(s, t, e)
  BY <1>1, <1>3, <1>5 DEF About, Filed
<1>7. ASSUME AllOnce(t) PROVE Publishes(s, t, e)
  <2>1. CountOK(s, e)
    BY <1>5, <1>6, <1>7, OnceBefore DEF Exact, Numbers
  <2>2. /\ s.avail \in Int /\ s.total \in Int
        /\ AvailPart(s, e) \in Int /\ TotalPart(s, e) \in Int
        /\ AvailOf(el) \in Int /\ TotalOf(el) \in Int
    BY <1>2, PartsInt
  <2>3. CASE q = "self"
    <3>1. InSelf(s, e) /\ ~InSelf(t, e)
      BY <1>1, <1>3, <1>5, <2>3 DEF InSelf, Filed
    <3>2. /\ AvailPart(s, e) = AvailOf(el) /\ TotalPart(s, e) = TotalOf(el)
          /\ AvailPart(t, e) = 0 /\ TotalPart(t, e) = 0 /\ CountOK(t, e)
      BY <1>2, <3>1 DEF AvailPart, TotalPart, CountOK
    <3> QED BY <1>3, <2>2, <2>3, <3>2 DEF Publishes
  <2>4. CASE q = "other"
    <3>1. t.queue["self"][i] = s.queue["self"][i] /\ t.queue["other"][i] = 0
      BY <1>3, <2>4 DEF Filed, Queues
    <3>2. InSelf(t, e) <=> InSelf(s, e)
      BY <1>1, <1>5, <3>1 DEF InSelf
    <3>3. AvailPart(t, e) = AvailPart(s, e) /\ TotalPart(t, e) = TotalPart(s, e)
      BY <1>5, <3>2 DEF AvailPart, TotalPart
    <3>4. CountOK(t, e)
      BY <1>1, <1>3, <1>5, <2>1, <3>1, <3>2 DEF CountOK
    <3> QED BY <1>3, <2>2, <2>4, <3>3, <3>4 DEF Publishes
  <2> QED BY <2>3, <2>4 DEF Queues
<1> QED BY <1>3, <1>4, <1>5, <1>6, <1>7, ExactStep

\* An element is pushed: no entry of its instance is in the other queue, unless
\* it is being evicted.
LEMMA PushExact ==
    ASSUME NEW s \in StateT, NEW s1 \in StateT, QueuesOK(s1), Exact(s), NEW q \in Queues,
           NEW e \in DOMAIN s1.elems, NEW i, i = s1.elems[e].ins,
           ~InQueue(s1, q, i), SameQueues(s, s1),
           DOMAIN s.elems \ {e} = DOMAIN s1.elems \ {e},
           \A f \in DOMAIN s.elems : s1.elems[f] = s.elems[f],
           AllOnce(s1) => \/ s1.elems[e].status = "evicting"
                          \/ \A p \in Queues : s.queue[p][i] = 0,
           NEW t, t = PushBack(s1, q, e)
    PROVE  QueueStep(s1, t) /\ QueuesOK(t) /\ Exact(t) /\ Filed(s1, t, q, i, e)
<1>0. PICK el : el = s1.elems[e]
  OBVIOUS
<1>1. i \in Instances /\ el.ins = i /\ el.status \in Status
  BY <1>0, ElemType
<1>2. /\ QueueStep(s1, t) /\ Filed(s1, t, q, i, e)
      /\ q = "other" => t.count = s1.count /\ t.avail = s1.avail /\ t.total = s1.total
      /\ q = "self" => /\ t.count = [s1.count EXCEPT ![i] = el.free]
                       /\ t.avail = s1.avail + AvailOf(el)
                       /\ t.total = s1.total + TotalOf(el)
  <2>1. /\ QueueStep(s1, t)
        /\ ~InQueue(s1, q, el.ins) =>
              /\ Filed(s1, t, q, el.ins, e)
              /\ q = "other" => t.count = s1.count /\ t.avail = s1.avail /\ t.total = s1.total
              /\ q = "self" => /\ t.count = [s1.count EXCEPT ![el.ins] = el.free]
                               /\ t.avail = s1.avail + AvailOf(el)
                               /\ t.total = s1.total + TotalOf(el)
    BY ONLY <1>0, s1 \in StateT, q \in Queues, e \in DOMAIN s1.elems, t = PushBack(s1, q, e),
            PushBackFields
  <2> QED BY <1>1, <2>1
<1>4. QueuesOK(t)
  <2>1. e # 0 => e \in DOMAIN s1.elems /\ s1.elems[e].ins = i
    OBVIOUS
  <2> QED BY <1>2, <2>1, FiledOK
<1>5. t \in StateT /\ t.elems = s1.elems /\ e # 0
  <2>1. s1.elems \in Seq(ElemT)
    BY DEF StateT
  <2> QED BY <1>2, <2>1, LenProperties DEF QueueStep
<1>6. About(s, t, e)
  <2>1. s1.count \in [Instances -> Int]
    BY DEF StateT
  <2>2. \A j \in Instances \ {i} : t.count[j] = s.count[j]
    BY <1>2, <2>1 DEF SameQueues, Queues
  <2>3. \A j \in Instances \ {i}, p \in Queues : t.queue[p][j] = s.queue[p][j]
    BY <1>2 DEF SameQueues, Filed
  <2> QED BY <1>5, <2>2, <2>3 DEF About
<1>7. ASSUME AllOnce(t) PROVE Publishes(s, t, e)
  <2>0. AllOnce(s1)
    BY <1>5, <1>7 DEF AllOnce, OnceIn
  <2>2. /\ s.avail \in Int /\ s.total \in Int
        /\ AvailPart(s, e) \in Int /\ TotalPart(s, e) \in Int
        /\ AvailOf(el) \in Int /\ TotalOf(el) \in Int
    BY <1>0, PartsInt
  <2>3. CASE q = "self"
    <3>1. InSelf(t, e)
      BY <1>0, <1>1, <1>2, <1>5, <2>3 DEF InSelf, Filed
    <3>2. ~InSelf(s, e)
      BY <1>5, <2>3 DEF InSelf, InQueue, SameQueues
    <3>3. /\ AvailPart(t, e) = AvailOf(el) /\ TotalPart(t, e) = TotalOf(el)
          /\ AvailPart(s, e) = 0 /\ TotalPart(s, e) = 0
      BY <1>0, <1>5, <3>1, <3>2 DEF AvailPart, TotalPart
    <3>4. CountOK(t, e)
      <4>1. t.queue["other"][i] = s.queue["other"][i]
        BY <1>1, <1>2, <2>3 DEF Filed, SameQueues, Queues
      <4>2. t.count[i] = el.free
        <5>1. s1.count \in [Instances -> Int]
          BY DEF StateT
        <5> QED BY <1>1, <1>2, <2>3, <5>1
      <4>3. "other" \in Queues
        BY DEF Queues
      <4> QED BY <1>0, <1>1, <1>5, <2>0, <4>1, <4>2, <4>3 DEF CountOK
    <3> QED BY <1>2, <2>2, <2>3, <3>3, <3>4 DEF Publishes, SameQueues
  <2>4. CASE q = "other"
    <3>1. t.queue["self"][i] = s.queue["self"][i]
      BY <1>1, <1>2, <2>4 DEF Filed, SameQueues, Queues
    <3>2. e \in DOMAIN s.elems => (InSelf(t, e) <=> InSelf(s, e))
      BY <1>0, <1>5, <3>1 DEF InSelf
    <3>3. InSelf(t, e) => el.status = "evicting"
      <4>1. "self" \in Queues
        BY DEF Queues
      <4> QED BY <1>0, <1>5, <2>0, <3>1, <4>1 DEF InSelf
    <3>4. e \notin DOMAIN s.elems => ~InSelf(s, e)
      BY DEF InSelf
    <3>5. /\ AvailPart(t, e) = 0 /\ TotalPart(t, e) = 0
          /\ AvailPart(s, e) = 0 /\ TotalPart(s, e) = 0
      BY <1>0, <1>5, <3>2, <3>3, <3>4 DEF AvailPart, TotalPart, AvailOf, TotalOf
    <3>6. CountOK(t, e)
      BY <1>0, <1>5, <3>3 DEF CountOK
    <3> QED BY <1>2, <2>2, <2>4, <3>5, <3>6 DEF Publishes, SameQueues
  <2> QED BY <2>3, <2>4 DEF Queues
<1> QED BY <1>2, <1>4, <1>5, <1>6, <1>7, ExactStep
\* An ownership change moves an instance: one that is being evicted stays in
\* its queue as well.
LEMMA MoveExact ==
    ASSUME NEW s \in StateT, QueuesOK(s), Exact(s), NEW src \in Queues, NEW dst \in Queues,
           src # dst, NEW i \in Instances, InQueue(s, src, i), NEW t, t = Move(s, i, src, dst)
    PROVE  /\ QueueStep(s, t) /\ QueuesOK(t) /\ Exact(t)
           /\ \A j \in Instances \ {i}, p \in Queues : t.queue[p][j] = s.queue[p][j]
<1>1. PICK e \in DOMAIN s.elems : e = s.queue[src][i] /\ e # 0 /\ s.elems[e].ins = i
  BY DEF QueuesOK, InQueue
<1>2. PICK el : el = s.elems[e]
  OBVIOUS
<1>3. PICK u : u = PushBack(s, dst, e)
  OBVIOUS
<1>4. t = IF el.status = "evicting" THEN u ELSE DelByID(u, src, i)
  BY <1>1, <1>2, <1>3 DEF Move, ElemIn
<1>5. /\ QueueStep(s, u)
      /\ InQueue(s, dst, i) => u = s
      /\ ~InQueue(s, dst, i) =>
           /\ Filed(s, u, dst, i, e)
           /\ dst = "other" => u.count = s.count /\ u.avail = s.avail /\ u.total = s.total
           /\ dst = "self" => /\ u.count = [s.count EXCEPT ![i] = el.free]
                              /\ u.avail = s.avail + AvailOf(el)
                              /\ u.total = s.total + TotalOf(el)
  <2>1. el.ins = i
    BY <1>1, <1>2
  <2>2. /\ QueueStep(s, u)
        /\ InQueue(s, dst, el.ins) => u = s
        /\ ~InQueue(s, dst, el.ins) =>
             /\ Filed(s, u, dst, el.ins, e)
             /\ dst = "other" => u.count = s.count /\ u.avail = s.avail /\ u.total = s.total
             /\ dst = "self" => /\ u.count = [s.count EXCEPT ![el.ins] = el.free]
                                /\ u.avail = s.avail + AvailOf(el)
                                /\ u.total = s.total + TotalOf(el)
    BY ONLY s \in StateT, dst \in Queues, e \in DOMAIN s.elems, <1>2, <1>3, PushBackFields
  <2> QED BY <2>1, <2>2
<1>6. CASE InQueue(s, dst, i) /\ el.status = "evicting"
  BY <1>4, <1>5, <1>6 DEF QueueStep, SameSessions
<1>7. CASE InQueue(s, dst, i) /\ el.status # "evicting"
  <2>1. t = DelByID(s, src, i)
    BY <1>4, <1>5, <1>7
  <2>2. QueueStep(s, t) /\ QueuesOK(t) /\ Exact(t) /\ Filed(s, t, src, i, 0)
    BY <2>1, DelExact
  <2> QED BY <2>2 DEF Filed
<1>8. CASE ~InQueue(s, dst, i) /\ el.status = "evicting"
  <2>1. t = PushBack(s, dst, e) /\ s.elems[e].status = "evicting"
    BY <1>2, <1>3, <1>4, <1>8
  <2>2. QueueStep(s, t) /\ QueuesOK(t) /\ Exact(t) /\ Filed(s, t, dst, i, e)
    <3>1. SameQueues(s, s) /\ i = s.elems[e].ins
      BY <1>1 DEF SameQueues
    <3> QED BY <1>8, <2>1, <3>1, PushExact
  <2> QED BY <2>2 DEF Filed
<1>9. CASE ~InQueue(s, dst, i) /\ el.status # "evicting"
  <2>1. t = DelByID(u, src, i)
    BY <1>4, <1>9
  <2>2. u \in StateT /\ u.elems = s.elems /\ u.queue[src][i] = e
    BY <1>1, <1>5, <1>9 DEF QueueStep, Filed
  <2>3. /\ QueueStep(u, t) /\ Filed(u, t, src, i, 0) /\ t.count = u.count
        /\ src = "other" => t.avail = u.avail /\ t.total = u.total
        /\ src = "self" => t.avail = u.avail - AvailOf(el) /\ t.total = u.total - TotalOf(el)
    <3>1. e \in DOMAIN u.elems /\ e = u.queue[src][i] /\ e # 0 /\ el = u.elems[e] /\ u \in StateT
      BY <1>1, <1>2, <2>2
    <3> QED BY ONLY src \in Queues, i \in Instances, <3>1, <2>1, DelByIDFields
  <2>4. QueueStep(s, t)
    BY <1>5, <2>3, QueueSteps
  <2>5. t \in StateT /\ t.elems = s.elems
    BY <2>4 DEF QueueStep
  <2>6. /\ t.queue[dst][i] = e /\ t.queue[src][i] = 0
        /\ \A j \in Instances \ {i}, p \in Queues : t.queue[p][j] = s.queue[p][j]
    BY <1>5, <1>9, <2>3 DEF Filed
  <2>7. QueuesOK(t)
    BY <1>1, <2>5, <2>6 DEF QueuesOK, Queues
  <2>8. /\ s.avail \in Int /\ s.total \in Int /\ s.count \in [Instances -> Int]
        /\ AvailOf(el) \in Int /\ TotalOf(el) \in Int
    <3>1. s.count \in [Instances -> Int]
      BY DEF StateT
    <3> QED BY <1>2, <3>1, PartsInt
  <2>9. About(s, t, e)
    <3>1. \A j \in Instances \ {i} : t.count[j] = s.count[j]
      BY <1>5, <1>9, <2>3, <2>8 DEF Queues
    <3> QED BY <1>1, <2>5, <2>6, <3>1 DEF About
  <2>10. Publishes(s, t, e)
    <3>1. CASE src = "self" /\ dst = "other"
      <4>1. InSelf(s, e) /\ ~InSelf(t, e)
        BY <1>1, <2>5, <2>6, <3>1 DEF InSelf
      <4>2. /\ AvailPart(s, e) = AvailOf(el) /\ TotalPart(s, e) = TotalOf(el)
            /\ AvailPart(t, e) = 0 /\ TotalPart(t, e) = 0 /\ CountOK(t, e)
        BY <1>2, <4>1 DEF AvailPart, TotalPart, CountOK
      <4> QED BY <1>5, <1>9, <2>3, <2>8, <3>1, <4>2 DEF Publishes
    <3>2. CASE src = "other" /\ dst = "self"
      <4>1. ~InSelf(s, e) /\ InSelf(t, e)
        BY <1>1, <1>9, <2>5, <2>6, <3>2 DEF InSelf, InQueue
      <4>2. /\ AvailPart(t, e) = AvailOf(el) /\ TotalPart(t, e) = TotalOf(el)
            /\ AvailPart(s, e) = 0 /\ TotalPart(s, e) = 0
        BY <1>2, <2>5, <4>1 DEF AvailPart, TotalPart
      <4>3. t.count[i] = el.free
        BY <1>5, <1>9, <2>3, <2>8, <3>2
      <4>4. CountOK(t, e)
        BY <1>1, <1>2, <2>5, <2>6, <3>2, <4>3 DEF CountOK
      <4> QED BY <1>5, <1>9, <2>3, <2>8, <3>2, <4>2, <4>4 DEF Publishes
    <3> QED BY <3>1, <3>2 DEF Queues
  <2> QED BY <2>4, <2>5, <2>6, <2>7, <2>9, <2>10, ExactStep
<1> QED BY <1>6, <1>7, <1>8, <1>9

\* The element with another status.
WithStatus(s, e, st) == [s.elems EXCEPT ![e] = [s.elems[e] EXCEPT !.status = st]]

LEMMA SetStatus ==
    ASSUME NEW s \in StateT, NEW e \in DOMAIN s.elems, NEW st \in Status, NEW s1,
           s1 = [s EXCEPT !.elems[e].status = st]
    PROVE  /\ s1 \in StateT /\ SameSessions(s, s1) /\ SameQueues(s, s1)
           /\ s1.elems = WithStatus(s, e, st)
<1> DEFINE el == [s.elems[e] EXCEPT !.status = st]
<1>1. s.elems \in Seq(ElemT) /\ s.elems[e] \in ElemT
  BY ElemType DEF StateT
<1>2. el \in ElemT
  BY <1>1 DEF ElemT
<1> HIDE DEF el
<1>3. [s.elems EXCEPT ![e] = el] \in Seq(ElemT)
  BY <1>1, <1>2, SeqSet
<1>4. s1 = [s EXCEPT !.elems = [s.elems EXCEPT ![e] = el]]
  BY DEF el
<1> HIDE DEF ElemT, RecT
<1>5. /\ s1 \in StateT /\ SameSessions(s, s1) /\ SameQueues(s, s1)
      /\ s1.elems = [s.elems EXCEPT ![e] = el]
  BY <1>3, <1>4 DEF StateT, SameSessions, SameQueues
<1> QED BY <1>5 DEF el, WithStatus

LEMMA WithStatusFields ==
    ASSUME NEW s \in StateT, NEW e \in DOMAIN s.elems, NEW st
    PROVE  /\ DOMAIN WithStatus(s, e, st) = DOMAIN s.elems
           /\ \A f \in DOMAIN s.elems \ {e} : WithStatus(s, e, st)[f] = s.elems[f]
           /\ WithStatus(s, e, st)[e].ins = s.elems[e].ins
           /\ WithStatus(s, e, st)[e].free = s.elems[e].free
           /\ WithStatus(s, e, st)[e].status = st
<1>1. s.elems[e] \in ElemT
  BY ElemType
<1>2. LET el == [s.elems[e] EXCEPT !.status = st] IN
        el.ins = s.elems[e].ins /\ el.free = s.elems[e].free /\ el.status = st
  BY <1>1 DEF ElemT
<1> QED BY <1>2 DEF WithStatus

\* What a status change publishes, for an element that counts n threads free.
LEMMA StatusDiff ==
    ASSUME NEW s, NEW el, NEW new, el.status \in Status, new.status \in Status,
           new.ins = el.ins, new.free = el.free, el.free \in Int,
           el.status = "evicting" => new.status = "evicting",
           el.status # "evicting" => s.count[new.ins] = new.free
    PROVE  /\ AvailDiff(s, new, el.status) = AvailOf(new) - AvailOf(el)
           /\ TotalDiff(new, el.status) = TotalOf(new) - TotalOf(el)
<1>1. CN \in Int
  BY ConstantsAssumption
<1>2. CASE el.status = "running"
  BY <1>1, <1>2 DEF AvailDiff, TotalDiff, AvailOf, TotalOf, Status
<1>3. CASE el.status = "subHealth"
  BY <1>1, <1>3 DEF AvailDiff, TotalDiff, AvailOf, TotalOf, Status
<1>4. CASE el.status = "evicting"
  BY <1>1, <1>4 DEF AvailDiff, TotalDiff, AvailOf, TotalOf, Status
<1> QED BY <1>2, <1>3, <1>4 DEF Status

\* An instance gets another status; one that is being evicted keeps its.
LEMMA StatusExact ==
    ASSUME NEW s \in StateT, QueuesOK(s), Exact(s), NEW q \in Queues, NEW i \in Instances,
           NEW e \in DOMAIN s.elems, s.queue[q][i] = e, e # 0, NEW st \in Status,
           AllOnce(s) /\ s.elems[e].status = "evicting" => st = "evicting",
           NEW s1 \in StateT, s1.elems = WithStatus(s, e, st), SameQueues(s, s1),
           NEW t, t = UpdateObjByID(s1, q, e, s.elems[e].status)
    PROVE  /\ QueueStep(s1, t) /\ QueuesOK(t) /\ Exact(t)
           /\ \A p \in Queues, j \in Instances : t.queue[p][j] = s.queue[p][j]
<1>0. PICK old \in Status : old = s.elems[e].status
  BY ElemType
<1>1. PICK el : el = s1.elems[e]
  OBVIOUS
<1>2. /\ el.ins = s.elems[e].ins /\ el.free = s.elems[e].free /\ el.status = st
      /\ el.ins = i /\ s.elems[e].ins = i /\ el.free \in Int
  <2>1. s.elems[e].ins = i
    BY DEF QueuesOK
  <2> QED BY <1>1, <2>1, ElemType, WithStatusFields
<1>3. s1.queue = s.queue /\ s1.count = s.count /\ s1.avail = s.avail /\ s1.total = s.total
  BY DEF SameQueues
<1>4. /\ DOMAIN s1.elems = DOMAIN s.elems /\ s1.elems[e] = el
      /\ \A f \in DOMAIN s.elems \ {e} : s1.elems[f] = s.elems[f]
  BY <1>1, WithStatusFields
<1>5. /\ QueueStep(s1, t) /\ Filed(s1, t, q, i, e)
      /\ q = "other" => t.count = s1.count /\ t.avail = s1.avail /\ t.total = s1.total
      /\ q = "self" => /\ t.count = [s1.count EXCEPT ![i] = el.free]
                       /\ t.avail = s1.avail + AvailDiff(s1, el, old)
                       /\ t.total = s1.total + TotalDiff(el, old)
  <2>1. s1 \in StateT /\ e \in DOMAIN s1.elems /\ el = s1.elems[e] /\ InQueue(s1, q, el.ins)
    BY <1>2, <1>3, <1>4 DEF InQueue
  <2>2. t = UpdateObjByID(s1, q, e, old)
    BY <1>0
  <2>3. /\ QueueStep(s1, t) /\ Filed(s1, t, q, el.ins, e)
        /\ q = "other" => t.count = s1.count /\ t.avail = s1.avail /\ t.total = s1.total
        /\ q = "self" => /\ t.count = [s1.count EXCEPT ![el.ins] = el.free]
                         /\ t.avail = s1.avail + AvailDiff(s1, el, old)
                         /\ t.total = s1.total + TotalDiff(el, old)
    BY ONLY <2>1, <2>2, q \in Queues, UpdateFields
  <2> QED BY <1>2, <2>3
<1>6. t \in StateT /\ t.elems = s1.elems
  BY <1>5 DEF QueueStep
<1>7. \A p \in Queues, j \in Instances : t.queue[p][j] = s.queue[p][j]
  <2>1. \A p \in Queues, j \in Instances :
           t.queue[p][j] = IF p = q /\ j = i THEN e ELSE s1.queue[p][j]
    BY ONLY <1>5 DEF Filed
  <2> QED BY <1>3, <2>1
<1>8. QueuesOK(t)
  <2>1. \A f \in DOMAIN s.elems : s1.elems[f].ins = s.elems[f].ins
    BY <1>2, <1>4
  <2> QED BY <1>4, <1>6, <1>7, <2>1 DEF QueuesOK
<1>9. About(s, t, e)
  <2>1. s1.count \in [Instances -> Int]
    BY DEF StateT
  <2>2. \A j \in Instances \ {i} : t.count[j] = s.count[j]
    BY <1>3, <1>5, <2>1 DEF Queues
  <2> QED BY <1>2, <1>4, <1>6, <1>7, <2>2 DEF About
<1>10. ASSUME AllOnce(t) PROVE Publishes(s, t, e)
  <2>0. s.elems[e].status = "evicting" => st = "evicting"
    BY <1>6, <1>9, <1>10, OnceBefore
  <2>1. CountOK(s, e)
    BY <1>6, <1>9, <1>10, OnceBefore DEF Exact, Numbers
  <2>2. s.avail \in Int /\ s.total \in Int /\ s.elems[e].free \in Int /\ CN \in Int
    BY PartsInt, ElemType
  <2>3. t.elems[e] = el /\ (InSelf(t, e) <=> InSelf(s, e))
    <3>1. "self" \in Queues
      BY DEF Queues
    <3> QED BY <1>2, <1>4, <1>6, <1>7, <3>1 DEF InSelf
  <2>4. CASE q = "self"
    <3>1. InSelf(s, e)
      BY <1>2, <2>4 DEF InSelf
    <3>2. /\ AvailPart(s, e) = AvailOf(s.elems[e]) /\ AvailPart(t, e) = AvailOf(el)
          /\ TotalPart(s, e) = TotalOf(s.elems[e]) /\ TotalPart(t, e) = TotalOf(el)
      BY <2>3, <3>1 DEF AvailPart, TotalPart
    <3>3. s1.count[i] = s.count[i] /\ t.count[i] = el.free
      <4>1. s1.count \in [Instances -> Int]
        BY DEF StateT
      <4> QED BY <1>3, <1>5, <2>4, <4>1
    <3>4. s.elems[e].status # "evicting" => s.count[i] = s.elems[e].free /\ s.queue["other"][i] = 0
      BY <1>2, <2>1, <3>1 DEF CountOK
    <3>5. /\ AvailDiff(s1, el, old) = AvailOf(el) - AvailOf(s.elems[e])
          /\ TotalDiff(el, old) = TotalOf(el) - TotalOf(s.elems[e])
      <4>1. PICK x : x = s.elems[e]
        OBVIOUS
      <4>2. /\ x.status \in Status /\ el.status \in Status /\ el.ins = x.ins /\ el.free = x.free
            /\ x.free \in Int /\ (x.status = "evicting" => el.status = "evicting")
            /\ (x.status # "evicting" => s1.count[el.ins] = el.free)
        BY <1>0, <1>2, <2>0, <2>2, <3>3, <3>4, <4>1
      <4>3. /\ AvailDiff(s1, el, x.status) = AvailOf(el) - AvailOf(x)
            /\ TotalDiff(el, x.status) = TotalOf(el) - TotalOf(x)
        BY ONLY <4>2, StatusDiff
      <4> QED BY <1>0, <4>1, <4>3
    <3>7. AvailOf(el) \in Int /\ TotalOf(el) \in Int /\ AvailOf(s.elems[e]) \in Int /\ TotalOf(s.elems[e]) \in Int
      BY <1>2, <2>2 DEF AvailOf, TotalOf
    <3>8. t.avail = s.avail - AvailPart(s, e) + AvailPart(t, e)
      BY <1>3, <1>5, <2>2, <2>4, <3>2, <3>5, <3>7
    <3>9. t.total = s.total - TotalPart(s, e) + TotalPart(t, e)
      BY <1>3, <1>5, <2>2, <2>4, <3>2, <3>5, <3>7
    <3>10. CountOK(t, e)
      <4>1. "other" \in Queues /\ t.queue["other"][i] = s.queue["other"][i]
        BY <1>7 DEF Queues
      <4> QED BY <1>2, <2>0, <2>3, <3>3, <3>4, <4>1 DEF CountOK
    <3> QED BY <3>8, <3>9, <3>10 DEF Publishes
  <2>5. CASE q = "other"
    <3>1. InSelf(s, e) => s.elems[e].status = "evicting" /\ st = "evicting"
      BY <1>2, <2>0, <2>1, <2>5 DEF CountOK
    <3>2. /\ AvailPart(s, e) = 0 /\ AvailPart(t, e) = 0
          /\ TotalPart(s, e) = 0 /\ TotalPart(t, e) = 0 /\ CountOK(t, e)
      BY <1>2, <2>3, <3>1 DEF AvailPart, TotalPart, CountOK, AvailOf, TotalOf
    <3> QED BY <1>3, <1>5, <2>2, <2>5, <3>2 DEF Publishes
  <2> QED BY <2>4, <2>5 DEF Queues
<1>11. Exact(t)
  BY <1>6, <1>9, <1>10, ExactStep
<1> QED BY <1>5, <1>7, <1>8, <1>11
-----------------------------------------------------------------------------
(***************************************************************************)
(* Steps as edits: the records, the map and the allocations change, and at *)
(* most the free threads of one element, which is filed anew.              *)
(***************************************************************************)
Both(s, A) == SInv(s, A) /\ Exact(s)

\* The elements and their statuses stay, and no instance enters the queues.
StatusKept(s, t) ==
    /\ DOMAIN t.elems = DOMAIN s.elems
    /\ \A e \in DOMAIN s.elems :
         t.elems[e].ins = s.elems[e].ins /\ t.elems[e].status = s.elems[e].status
    /\ \A i \in Instances, p \in Queues : InQueue(t, p, i) => \E o \in Queues : InQueue(s, o, i)

\* A step of the records of s to t, and of the allocations from A to B.
Edit(s, t, r, A, B, a) ==
    /\ Change(s, t, r) /\ RecStep(s, t, r) /\ SlotStep(t, A, B, a)
    /\ CoverStep(s, t, A, B, a) /\ HeldStep(s, t, A, B, a, r)

LEMMA StatusKeptTwice ==
    ASSUME NEW s, NEW t, NEW u, StatusKept(s, t), StatusKept(t, u)
    PROVE  StatusKept(s, u)
BY DEF StatusKept

LEMMA ExactSame ==
    ASSUME NEW s \in StateT, NEW t \in StateT, t.elems = s.elems, SameQueues(s, t), Exact(s)
    PROVE  Exact(t)
<1>1. s.queue = t.queue /\ s.count = t.count /\ s.avail = t.avail /\ s.total = t.total
  BY DEF SameQueues
<1>2. OnceIn(t) = OnceIn(s) /\ FreeOf(t) = FreeOf(s) /\ \A S : SelfIn(t, S) = SelfIn(s, S)
  BY <1>1 DEF OnceIn, FreeOf, SelfIn
<1>3. \A e : CountOK(t, e) <=> CountOK(s, e)
  BY <1>1 DEF CountOK, InSelf
<1> QED BY <1>1, <1>2, <1>3 DEF Exact, AllOnce, Numbers

LEMMA QueuesSame ==
    ASSUME NEW s, NEW t, QueuesOK(s), t.queue = s.queue, DOMAIN t.elems = DOMAIN s.elems,
           \A e \in DOMAIN s.elems : t.elems[e].ins = s.elems[e].ins
    PROVE  QueuesOK(t)
BY DEF QueuesOK

LEMMA PlainEdit ==
    ASSUME NEW s, NEW A, Both(s, A), NEW t, t.elems = s.elems, SameQueues(s, t),
           NEW r, NEW B, NEW a, Edit(s, t, r, A, B, a)
    PROVE  Both(t, B) /\ StatusKept(s, t)
<1>1. t.queue = s.queue /\ s \in StateT /\ t \in StateT /\ QueuesOK(s) /\ Exact(s) /\ SInv(s, A)
  BY DEF SameQueues, Both, SInv, Edit, Change
<1>2. QueuesOK(t)
  BY <1>1, QueuesSame
<1>3. SInv(t, B)
  BY <1>1, <1>2, ChangeInv DEF Edit
<1>4. Exact(t)
  BY <1>1, ExactSame
<1> QED BY <1>1, <1>3, <1>4 DEF Both, StatusKept, InQueue

LEMMA ThreadEdit ==
    ASSUME NEW s, NEW A, Both(s, A), NEW e \in DOMAIN s.elems, NEW q \in Queues,
           InQueue(s, q, s.elems[e].ins), NEW x \in Int,
           NEW m \in StateT, m.elems = WithFree(s, e, x), SameQueues(s, m),
           NEW u, u = Refile(m, q, e), NEW t, t.elems = WithFree(s, e, x), SameQueues(u, t),
           NEW r, NEW B, NEW a, Edit(s, t, r, A, B, a)
    PROVE  Both(t, B) /\ StatusKept(s, t)
<1>1. s \in StateT /\ t \in StateT /\ QueuesOK(s) /\ Exact(s) /\ SInv(s, A)
  BY DEF SameQueues, Both, SInv, Edit, Change
<1>2. QueueStep(m, u) /\ QueuesOK(u) /\ Exact(u)
  BY <1>1, RefileExact
<1>3. u \in StateT /\ u.elems = t.elems
  BY <1>2 DEF QueueStep
<1>4. QueuesOK(t)
  BY <1>2, <1>3, QueuesSame DEF SameQueues
<1>5. SInv(t, B)
  BY <1>1, <1>4, ChangeInv DEF Edit
<1>6. Exact(t)
  BY <1>1, <1>2, <1>3, ExactSame
<1>7. StatusKept(s, t)
  <2>1. /\ DOMAIN m.elems = DOMAIN s.elems
        /\ \A f \in DOMAIN s.elems \ {e} : m.elems[f] = s.elems[f]
        /\ m.elems[e].ins = s.elems[e].ins /\ m.elems[e].status = s.elems[e].status
    BY <1>1, WithFreeFields
  <2>2. PICK i : i = s.elems[e].ins
    OBVIOUS
  <2>3. InQueue(m, q, i) /\ InQueue(s, q, i)
    BY <2>2 DEF InQueue, SameQueues
  <2>4. Filed(m, u, q, i, e)
    <3>1. PICK el : el = m.elems[e]
      OBVIOUS
    <3>2. el.ins = i /\ e \in DOMAIN m.elems
      BY <2>1, <2>2, <3>1
    <3>3. InQueue(m, q, el.ins) => Filed(m, u, q, el.ins, e)
      BY ONLY m \in StateT, q \in Queues, <3>1, <3>2, u = Refile(m, q, e), RefileFields
    <3> QED BY <2>3, <3>2, <3>3
  <2>5. m.queue = s.queue /\ t.queue = u.queue
    BY DEF SameQueues
  <2>6. \A j \in Instances, p \in Queues : InQueue(t, p, j) => InQueue(s, p, j)
    BY <2>3, <2>4, <2>5 DEF InQueue, Filed
  <2> QED BY <2>1, <2>6 DEF StatusKept
<1> QED BY <1>5, <1>6, <1>7 DEF Both
-----------------------------------------------------------------------------
(***************************************************************************)
(* Records                                                                 *)
(***************************************************************************)
PutRec(s, r, rec) == [s EXCEPT !.recs = [s.recs EXCEPT ![r] = rec]]

LEMMA SetRec ==
    ASSUME NEW s \in StateT, NEW r \in DOMAIN s.recs, NEW rec \in RecT, NEW t,
           t = PutRec(s, r, rec)
    PROVE  /\ t \in StateT /\ t.elems = s.elems /\ SameQueues(s, t) /\ t.sessionMap = s.sessionMap
           /\ DOMAIN t.recs = DOMAIN s.recs /\ t.recs[r] = rec
           /\ \A p \in DOMAIN s.recs \ {r} : t.recs[p] = s.recs[p]
<1> DEFINE R == [s.recs EXCEPT ![r] = rec]
<1>1. s.recs \in Seq(RecT)
  BY DEF StateT
<1>2. /\ R \in Seq(RecT) /\ DOMAIN R = DOMAIN s.recs /\ R[r] = rec
      /\ \A p \in DOMAIN s.recs \ {r} : R[p] = s.recs[p]
  BY <1>1, SeqSet
<1> HIDE DEF R, RecT
<1>3. /\ t \in StateT /\ t.elems = s.elems /\ SameQueues(s, t) /\ t.sessionMap = s.sessionMap
      /\ t.recs = R
  <2>1. t = [s EXCEPT !.recs = R]
    BY DEF R, PutRec
  <2> QED BY <1>2, <2>1 DEF StateT, SameQueues
<1> QED BY <1>2, <1>3

\* No slot is concerned, and slot a is taken.
LEMMA NoSlot ==
    ASSUME NEW A, NEW s, NEW t
    PROVE  /\ \A k, p : OfOf(A, 0, k, p) = 0
           /\ \A e : LeasedOf(s, A, 0, e) = 0
           /\ SlotStep(t, A, A, 0)
<1>1. 0 \notin Slots
  BY ConstantsAssumption DEF Slots
<1> QED BY <1>1 DEF OfOf, LeasedOf, SlotStep

Put(A, a, al) == [A EXCEPT ![a] = al]

LEMMA SlotTaken ==
    ASSUME NEW A, DOMAIN A = Slots, NEW a \in Slots, A[a] = None, NEW al, NEW B,
           B = Put(A, a, al)
    PROVE  /\ \A k, p : OfOf(A, a, k, p) = 0
           /\ \A k, p : OfOf(B, a, k, p) = 0 \/ (OfOf(B, a, k, p) = 1 /\ al.kind = k /\ al.rec = p)
           /\ \A s, e : LeasedOf(s, A, a, e) = 0
           /\ \A s, e : LeasedOf(s, B, a, e) = 0 \/ (LeasedOf(s, B, a, e) = 1 /\ al.ins = s.elems[e].ins)
           /\ B[a] = al /\ DOMAIN B = Slots
           /\ \A t : AllocOK(t, al) => SlotStep(t, A, B, a)
<1>1. B[a] = al /\ DOMAIN B = Slots /\ \A b \in Slots \ {a} : B[b] = A[b]
  BY DEF Put
<1>2. (\A k, p : OfOf(A, a, k, p) = 0) /\ (\A s, e : LeasedOf(s, A, a, e) = 0)
  BY DEF OfOf, LeasedOf
<1>3. \A k, p : OfOf(B, a, k, p) = 0 \/ (OfOf(B, a, k, p) = 1 /\ al.kind = k /\ al.rec = p)
  <2> SUFFICES ASSUME NEW k, NEW p
               PROVE  OfOf(B, a, k, p) = 0 \/ (OfOf(B, a, k, p) = 1 /\ al.kind = k /\ al.rec = p)
    OBVIOUS
  <2>1. OfOf(B, a, k, p) = IF a \in Slots /\ al # None /\ al.kind = k /\ al.rec = p THEN 1 ELSE 0
    BY ONLY <1>1 DEF OfOf
  <2> QED BY ONLY <2>1
<1>4. \A s, e : LeasedOf(s, B, a, e) = 0 \/ (LeasedOf(s, B, a, e) = 1 /\ al.ins = s.elems[e].ins)
  <2> SUFFICES ASSUME NEW s, NEW e
               PROVE  LeasedOf(s, B, a, e) = 0 \/ (LeasedOf(s, B, a, e) = 1 /\ al.ins = s.elems[e].ins)
    OBVIOUS
  <2>1. LeasedOf(s, B, a, e) = IF a \in Slots /\ al # None /\ al.ins = s.elems[e].ins THEN 1 ELSE 0
    BY ONLY <1>1 DEF LeasedOf
  <2> QED BY ONLY <2>1
<1>5. \A t : AllocOK(t, al) => SlotStep(t, A, B, a)
  BY <1>1 DEF SlotStep
<1> QED BY <1>1, <1>2, <1>3, <1>4, <1>5

LEMMA NoRecord ==
    ASSUME NEW s \in StateT
    PROVE  0 \notin DOMAIN s.recs /\ \A e : KeptOf(s, 0, e) = 0
<1>1. s.recs \in Seq(RecT)
  BY DEF StateT
<1>2. 0 \notin DOMAIN s.recs
  BY <1>1, LenProperties
<1> QED BY <1>2 DEF KeptOf

\* A record changes, and what it counts does not.
SameUse(rec, new) ==
    /\ new.sess = rec.sess /\ new.elem = rec.elem /\ new.conc = rec.conc
    /\ new.avail = rec.avail /\ new.over = rec.over
    /\ new.timer = "done" <=> rec.timer = "done"

LEMMA UseKept ==
    ASSUME NEW s, NEW A, Both(s, A), NEW r \in DOMAIN s.recs, NEW rec \in RecT,
           SameUse(s.recs[r], rec), TokenOf(rec),
           NEW t, t = PutRec(s, r, rec)
    PROVE  Both(t, A) /\ StatusKept(s, t)
<1>0. s \in StateT /\ SInv(s, A)
  BY DEF Both, SInv
<1>1. /\ t \in StateT /\ t.elems = s.elems /\ SameQueues(s, t) /\ t.sessionMap = s.sessionMap
      /\ DOMAIN t.recs = DOMAIN s.recs /\ t.recs[r] = rec
      /\ \A p \in DOMAIN s.recs \ {r} : t.recs[p] = s.recs[p]
  BY <1>0, SetRec
<1> HIDE DEF RecT
<1>2. Change(s, t, r)
  BY <1>1 DEF Change, SameUse
<1>3. RecStep(s, t, r)
  <2>1. \A x \in Sessions : s.sessionMap[x] = r => s.recs[r].timer # "done"
    BY <1>0, RecType DEF SInv, MapOK
  <2> QED BY <1>1, <2>1 DEF RecStep, SameUse
<1>4. SlotStep(t, A, A, 0)
  BY NoSlot
<1>5. CoverStep(s, t, A, A, 0)
  <2>1. \A p \in DOMAIN s.recs : /\ t.recs[p].over = s.recs[p].over /\ t.recs[p].conc = s.recs[p].conc
                                 /\ t.recs[p].avail = s.recs[p].avail
                                 /\ s.recs[p].over \in Int /\ s.recs[p].conc \in Int /\ s.recs[p].avail \in Int
    BY <1>0, <1>1, RecType DEF SameUse
  <2>2. \A k, p : OfOf(A, 0, k, p) = 0
    BY NoSlot
  <2> QED BY <2>1, <2>2 DEF CoverStep
<1>6. HeldStep(s, t, A, A, 0, r)
  <2>1. \A e : KeptOf(t, r, e) = KeptOf(s, r, e)
    BY <1>1 DEF KeptOf, SameUse
  <2>2. \A e : KeptOf(s, r, e) \in Int
    BY <1>0, PieceInt
  <2>3. \A e \in DOMAIN s.elems : s.elems[e].free \in Int
    BY <1>0, ElemType
  <2>4. \A e : LeasedOf(s, A, 0, e) = 0 /\ LeasedOf(t, A, 0, e) = 0
    BY NoSlot
  <2>5. \A e \in OnceIn(s) : e \in DOMAIN s.elems
    BY DEF OnceIn
  <2> QED BY <1>1, <2>1, <2>2, <2>3, <2>4, <2>5 DEF HeldStep
<1> QED BY <1>1, <1>2, <1>3, <1>4, <1>5, <1>6, PlainEdit DEF Edit
-----------------------------------------------------------------------------
(***************************************************************************)
(* Acquiring: the result of an acquire keeps the invariant, whichever free *)
(* slot its allocation gets.                                               *)
(***************************************************************************)
ResOK(s, res, A) ==
    \A a \in Slots : A[a] = None => Both(res.s, Put(A, a, res.alloc)) /\ StatusKept(s, res.s)

LEMMA OnceSame ==
    ASSUME NEW s, NEW e \in OnceIn(s), NEW f \in DOMAIN s.elems, s.elems[f].ins = s.elems[e].ins
    PROVE  f = e
BY DEF OnceIn

\* Nothing is allocated.
LEMMA NoAlloc ==
    ASSUME NEW s, NEW t, NEW A, DOMAIN A = Slots, Both(t, A), StatusKept(s, t)
    PROVE  ResOK(s, Result(t, None), A)
<1>1. ASSUME NEW a \in Slots, A[a] = None PROVE \A b \in Slots : Put(A, a, None)[b] = A[b]
  BY <1>1 DEF Put
<1>2. ASSUME NEW a \in Slots, A[a] = None PROVE Both(t, Put(A, a, None))
  <2> DEFINE B == Put(A, a, None)
  <2>1. \A b \in Slots : B[b] = A[b]
    BY <1>1, <1>2
  <2> HIDE DEF B
  <2>2. AllocsOK(t, B) <=> AllocsOK(t, A)
    BY <2>1 DEF AllocsOK
  <2>3. \A k, r : Of(B, k, r) = Of(A, k, r)
    BY <2>1 DEF Of
  <2>4. \A e : LeasedFrom(t, B, e) = LeasedFrom(t, A, e)
    BY <2>1 DEF LeasedFrom
  <2>5. Both(t, B)
    BY <2>2, <2>3, <2>4 DEF Both, SInv, CoverOK, Conserved
  <2> QED BY <2>5 DEF B
<1> QED BY <1>2 DEF ResOK, Result

LEMMA TakeFields ==
    ASSUME NEW s \in StateT, NEW q \in Queues, NEW e \in DOMAIN s.elems,
           NEW m, m = FreeSet(s, e, s.elems[e].free - 1), NEW u, u = Refile(m, q, e)
    PROVE  /\ m \in StateT /\ SameSessions(s, m) /\ SameQueues(s, m)
           /\ m.elems = WithFree(s, e, s.elems[e].free - 1) /\ s.elems[e].free - 1 \in Int
           /\ QueueStep(m, u) /\ u \in StateT /\ u.elems = m.elems
           /\ u.recs = s.recs /\ u.sessionMap = s.sessionMap
           /\ DOMAIN u.elems = DOMAIN s.elems
           /\ \A f \in DOMAIN s.elems \ {e} : u.elems[f] = s.elems[f]
           /\ u.elems[e].ins = s.elems[e].ins /\ u.elems[e].free = s.elems[e].free - 1
<1>1. s.elems[e].free - 1 \in Int
  BY ElemType
<1>2. PICK x \in Int : x = s.elems[e].free - 1
  BY <1>1
<1>3. m = FreeSet(s, e, x)
  BY <1>2
<1>4. /\ m \in StateT /\ SameSessions(s, m) /\ SameQueues(s, m)
      /\ m.elems = [s.elems EXCEPT ![e] = [s.elems[e] EXCEPT !.free = x]]
  BY ONLY s \in StateT, e \in DOMAIN s.elems, x \in Int, <1>3, SetFree
<1>5. m.elems = WithFree(s, e, x)
  BY <1>4 DEF WithFree
<1>6. /\ DOMAIN m.elems = DOMAIN s.elems
      /\ \A f \in DOMAIN s.elems \ {e} : m.elems[f] = s.elems[f]
      /\ m.elems[e].ins = s.elems[e].ins /\ m.elems[e].free = x
  BY <1>5, WithFreeFields
<1>7. QueueStep(m, u)
  <2>1. PICK el : el = m.elems[e]
    OBVIOUS
  <2>2. e \in DOMAIN m.elems
    BY <1>6
  <2> QED BY ONLY <1>4, q \in Queues, <2>1, <2>2, u = Refile(m, q, e), RefileFields
<1>8. u \in StateT /\ u.elems = m.elems /\ u.recs = s.recs /\ u.sessionMap = s.sessionMap
  BY <1>4, <1>7 DEF QueueStep, SameSessions
<1> QED BY <1>2, <1>4, <1>5, <1>6, <1>7, <1>8

LEMMA TakePlain ==
    ASSUME NEW s, NEW A, Both(s, A), DOMAIN A = Slots, NEW q \in Queues, NEW e \in DOMAIN s.elems,
           InQueue(s, q, s.elems[e].ins)
    PROVE  ResOK(s, TakeThread(s, q, e, "plain", 0), A)
<1>0. s \in StateT /\ SInv(s, A) /\ s.elems[e].free \in Int /\ s.elems[e].ins \in Instances
  BY ElemType DEF Both, SInv
<1>1. CASE s.elems[e].free = 0
  <2>1. TakeThread(s, q, e, "plain", 0) = Result(s, None)
    BY <1>1 DEF TakeThread
  <2>2. StatusKept(s, s)
    BY DEF StatusKept
  <2> QED BY <2>1, <2>2, NoAlloc
<1>2. CASE s.elems[e].free # 0
  <2>1. PICK m : m = FreeSet(s, e, s.elems[e].free - 1)
    OBVIOUS
  <2>2. PICK u : u = Refile(m, q, e)
    OBVIOUS
  <2>3. PICK al : al = [ins |-> s.elems[e].ins, kind |-> "plain", rec |-> 0, state |-> "leased"]
    OBVIOUS
  <2>4. TakeThread(s, q, e, "plain", 0) = Result(u, al)
    BY <1>2, <2>1, <2>2, <2>3 DEF TakeThread, Alloc, FreeSet
  <2>5. /\ m \in StateT /\ SameSessions(s, m) /\ SameQueues(s, m)
        /\ m.elems = WithFree(s, e, s.elems[e].free - 1) /\ s.elems[e].free - 1 \in Int
        /\ QueueStep(m, u) /\ u \in StateT /\ u.elems = m.elems
        /\ u.recs = s.recs /\ u.sessionMap = s.sessionMap
        /\ DOMAIN u.elems = DOMAIN s.elems
        /\ \A f \in DOMAIN s.elems \ {e} : u.elems[f] = s.elems[f]
        /\ u.elems[e].ins = s.elems[e].ins /\ u.elems[e].free = s.elems[e].free - 1
    BY ONLY <1>0, q \in Queues, e \in DOMAIN s.elems, <2>1, <2>2, TakeFields
  <2>6. al.ins = s.elems[e].ins /\ al.kind = "plain" /\ al.rec = 0 /\ al \in Allocation
    BY <1>0, <2>3 DEF Allocation
  <2>7. Change(s, u, 0)
    BY <2>5 DEF Change
  <2>8. RecStep(s, u, 0)
    BY <1>0, <2>5, NoRecord DEF RecStep
  <2>9. AllocOK(u, al)
    BY <2>5, <2>6 DEF AllocOK
  <2>10. ASSUME NEW a \in Slots, A[a] = None PROVE Both(u, Put(A, a, al)) /\ StatusKept(s, u)
    <3>1. PICK B : B = Put(A, a, al)
      OBVIOUS
    <3>2. /\ \A k, p : OfOf(A, a, k, p) = 0
          /\ \A k, p : OfOf(B, a, k, p) = 0 \/ (OfOf(B, a, k, p) = 1 /\ al.kind = k /\ al.rec = p)
          /\ \A z, f : LeasedOf(z, A, a, f) = 0
          /\ \A z, f : LeasedOf(z, B, a, f) = 0 \/ (LeasedOf(z, B, a, f) = 1 /\ al.ins = z.elems[f].ins)
          /\ \A t : AllocOK(t, al) => SlotStep(t, A, B, a)
      BY ONLY <2>10, <3>1, DOMAIN A = Slots, SlotTaken
    <3>3. SlotStep(u, A, B, a)
      BY <2>9, <3>2
    <3>4. CoverStep(s, u, A, B, a)
      <4>1. \A p \in DOMAIN s.recs : s.recs[p].over \in Int /\ s.recs[p].conc \in Int /\ s.recs[p].avail \in Int
        BY <1>0, RecType
      <4>2. \A p : OfOf(B, a, "over", p) = 0 /\ OfOf(B, a, "sess", p) = 0
        BY <2>6, <3>2
      <4> QED BY <2>5, <3>2, <4>1, <4>2 DEF CoverStep
    <3>5. HeldStep(s, u, A, B, a, 0)
      <4> SUFFICES ASSUME NEW f \in OnceIn(s)
                   PROVE  u.elems[f].free + KeptOf(u, 0, f) + LeasedOf(u, B, a, f)
                            <= s.elems[f].free + KeptOf(s, 0, f) + LeasedOf(s, A, a, f)
        BY DEF HeldStep
      <4>1. KeptOf(u, 0, f) = 0 /\ KeptOf(s, 0, f) = 0 /\ LeasedOf(s, A, a, f) = 0
        BY <1>0, <2>5, <3>2, NoRecord
      <4>2. f \in DOMAIN s.elems /\ s.elems[f].free \in Int
        BY <1>0, ElemType DEF OnceIn
      <4>3. CASE f = e
        BY <2>5, <3>2, <4>1, <4>2, <4>3
      <4>4. CASE f # e
        <5>1. u.elems[f] = s.elems[f]
          BY <2>5, <4>2, <4>4
        <5>2. LeasedOf(u, B, a, f) = 0
          BY <2>6, <3>2, <4>4, <5>1, OnceSame
        <5> QED BY <4>1, <4>2, <5>1, <5>2
      <4> QED BY <4>3, <4>4
    <3>6. Edit(s, u, 0, A, B, a)
      BY <2>7, <2>8, <3>3, <3>4, <3>5 DEF Edit
    <3>7. SameQueues(u, u)
      BY DEF SameQueues
    <3>8. Both(u, B) /\ StatusKept(s, u)
      BY <2>2, <2>5, <3>6, <3>7, ThreadEdit
    <3> QED BY <3>1, <3>8
  <2>12. ResOK(s, Result(u, al), A)
    BY <2>10 DEF ResOK, Result
  <2> QED BY <2>4, <2>12
<1> QED BY <1>1, <1>2
\* An allocation of session record r, and a record that its user leaves a token in.
Share(s, kind, r) == [ins |-> s.elems[s.recs[r].elem].ins, kind |-> kind, rec |-> r, state |-> "leased"]
Usable(s, r) ==
    /\ r \in DOMAIN s.recs /\ s.recs[r].timer # "done"
    /\ s.recs[r].timer \in {"waiting", "fired"} => s.recs[r].expiring /\ s.recs[r].token

LEMMA ShareOK ==
    ASSUME NEW s \in StateT, RecsOK(s), NEW r \in DOMAIN s.recs, NEW kind \in {"sess", "over"},
           NEW al, al = Share(s, kind, r), NEW t, DOMAIN t.elems = DOMAIN s.elems,
           \A e \in DOMAIN s.elems : t.elems[e].ins = s.elems[e].ins,
           r \in DOMAIN t.recs, t.recs[r].elem = s.recs[r].elem
    PROVE  /\ AllocOK(t, al) /\ al \in Allocation /\ al # None
           /\ al.ins = s.elems[s.recs[r].elem].ins /\ al.kind = kind /\ al.rec = r
<1>1. s.recs[r].elem \in DOMAIN s.elems /\ r \in Nat /\ r # 0
  BY RecType DEF RecsOK
<1>2. s.elems[s.recs[r].elem].ins \in Instances
  BY <1>1, ElemType
<1>3. al.ins = s.elems[s.recs[r].elem].ins /\ al.kind = kind /\ al.rec = r /\ al \in Allocation
  BY <1>1, <1>2 DEF Share, Allocation
<1>4. al # None
  BY <1>3, ConstantsAssumption
<1>5. AllocOK(t, al)
  BY <1>1, <1>3 DEF AllocOK
<1> QED BY <1>3, <1>4, <1>5

LEMMA TakeReserved ==
    ASSUME NEW s, NEW A, Both(s, A), DOMAIN A = Slots, NEW r, Usable(s, r),
           NEW rec, rec = [s.recs[r] EXCEPT !.avail = s.recs[r].avail - 1],
           NEW t, t = PutRec(s, r, rec)
    PROVE  ResOK(s, Result(t, Share(s, "sess", r)), A) /\ t.sessionMap = s.sessionMap
<1>0. s \in StateT /\ SInv(s, A) /\ RecsOK(s) /\ r \in DOMAIN s.recs
  BY DEF Both, SInv, Usable
<1>1. /\ rec \in RecT /\ rec.sess = s.recs[r].sess /\ rec.elem = s.recs[r].elem
      /\ rec.conc = s.recs[r].conc /\ rec.over = s.recs[r].over /\ rec.timer = s.recs[r].timer
      /\ rec.avail = s.recs[r].avail - 1
      /\ rec.expiring = s.recs[r].expiring /\ rec.token = s.recs[r].token
      /\ s.recs[r].avail \in Int /\ s.recs[r].over \in Int /\ s.recs[r].conc \in Int
  <2>1. s.recs[r] \in RecT /\ s.recs[r].avail \in Int /\ s.recs[r].over \in Int /\ s.recs[r].conc \in Int
    BY <1>0, RecType
  <2>2. s.recs[r].avail - 1 \in Int
    BY <2>1
  <2> QED BY <2>1, <2>2 DEF RecT
<1>2. /\ t \in StateT /\ t.elems = s.elems /\ SameQueues(s, t) /\ t.sessionMap = s.sessionMap
      /\ DOMAIN t.recs = DOMAIN s.recs /\ t.recs[r] = rec
      /\ \A p \in DOMAIN s.recs \ {r} : t.recs[p] = s.recs[p]
  BY ONLY <1>0, <1>1, t = PutRec(s, r, rec), SetRec
<1>3. Change(s, t, r)
  BY <1>1, <1>2 DEF Change
<1>4. RecStep(s, t, r)
  BY <1>1, <1>2 DEF RecStep, Usable, TokenOf
<1>5. PICK al : al = Share(s, "sess", r)
  OBVIOUS
<1>6. /\ AllocOK(t, al) /\ al.ins = s.elems[s.recs[r].elem].ins /\ al.kind = "sess" /\ al.rec = r
  <2>1. /\ DOMAIN t.elems = DOMAIN s.elems /\ r \in DOMAIN t.recs /\ t.recs[r].elem = s.recs[r].elem
        /\ \A e \in DOMAIN s.elems : t.elems[e].ins = s.elems[e].ins
    BY <1>0, <1>1, <1>2
  <2>2. "sess" \in {"sess", "over"}
    OBVIOUS
  <2> QED BY ONLY <1>0, <1>5, <2>1, <2>2, ShareOK
<1>7. ASSUME NEW a \in Slots, A[a] = None PROVE Both(t, Put(A, a, al)) /\ StatusKept(s, t)
  <2>1. PICK B : B = Put(A, a, al)
    OBVIOUS
  <2>2. /\ \A k, p : OfOf(A, a, k, p) = 0
        /\ \A k, p : OfOf(B, a, k, p) = 0 \/ (OfOf(B, a, k, p) = 1 /\ al.kind = k /\ al.rec = p)
        /\ \A z, f : LeasedOf(z, A, a, f) = 0
        /\ \A z, f : LeasedOf(z, B, a, f) = 0 \/ (LeasedOf(z, B, a, f) = 1 /\ al.ins = z.elems[f].ins)
        /\ \A z : AllocOK(z, al) => SlotStep(z, A, B, a)
    BY ONLY <1>7, <2>1, DOMAIN A = Slots, SlotTaken
  <2>3. SlotStep(t, A, B, a)
    BY <1>6, <2>2
  <2>4. CoverStep(s, t, A, B, a)
    <3> SUFFICES ASSUME NEW p \in DOMAIN s.recs
                 PROVE  /\ s.recs[p].over - OfOf(A, a, "over", p) <= t.recs[p].over - OfOf(B, a, "over", p)
                        /\ s.recs[p].conc - s.recs[p].avail - OfOf(A, a, "sess", p)
                             <= t.recs[p].conc - t.recs[p].avail - OfOf(B, a, "sess", p)
      BY DEF CoverStep
    <3>1. s.recs[p].over \in Int /\ s.recs[p].conc \in Int /\ s.recs[p].avail \in Int
      BY <1>0, RecType
    <3>2. OfOf(A, a, "over", p) = 0 /\ OfOf(A, a, "sess", p) = 0 /\ OfOf(B, a, "over", p) = 0
      BY <1>6, <2>2
    <3>3. CASE p = r
      <4>1. OfOf(B, a, "sess", p) = 0 \/ OfOf(B, a, "sess", p) = 1
        BY <2>2
      <4>2. /\ t.recs[p].over = s.recs[p].over /\ t.recs[p].conc = s.recs[p].conc
            /\ t.recs[p].avail = s.recs[p].avail - 1
        BY <1>1, <1>2, <3>3
      <4> QED BY ONLY <3>1, <3>2, <4>1, <4>2
    <3>4. CASE p # r
      <4>1. OfOf(B, a, "sess", p) = 0 /\ t.recs[p] = s.recs[p]
        BY <1>2, <1>6, <2>2, <3>4
      <4> QED BY <3>1, <3>2, <4>1
    <3> QED BY <3>3, <3>4
  <2>5. HeldStep(s, t, A, B, a, r)
    <3> SUFFICES ASSUME NEW f \in OnceIn(s)
                 PROVE  t.elems[f].free + KeptOf(t, r, f) + LeasedOf(t, B, a, f)
                          <= s.elems[f].free + KeptOf(s, r, f) + LeasedOf(s, A, a, f)
      BY DEF HeldStep
    <3>1. f \in DOMAIN s.elems /\ s.elems[f].free \in Int
      BY <1>0, ElemType DEF OnceIn
    <3>2. CASE f = s.recs[r].elem
      <4>1. KeptOf(s, r, f) = s.recs[r].avail /\ KeptOf(t, r, f) = s.recs[r].avail - 1
        BY <1>0, <1>1, <1>2, <3>2 DEF KeptOf, Usable
      <4>2. LeasedOf(s, A, a, f) = 0 /\ LeasedOf(t, B, a, f) \in {0, 1}
        BY <2>2
      <4> QED BY <1>1, <1>2, <3>1, <4>1, <4>2
    <3>3. CASE f # s.recs[r].elem
      <4>1. KeptOf(s, r, f) = 0 /\ KeptOf(t, r, f) = 0
        BY <1>1, <1>2, <3>3 DEF KeptOf
      <4>2. al.ins # t.elems[f].ins
        BY <1>0, <1>2, <1>6, <3>1, <3>3, OnceSame DEF RecsOK
      <4>3. LeasedOf(s, A, a, f) = 0 /\ LeasedOf(t, B, a, f) = 0
        BY <2>2, <4>2
      <4> QED BY <1>2, <3>1, <4>1, <4>3
    <3> QED BY <3>2, <3>3
  <2>6. Edit(s, t, r, A, B, a)
    BY <1>3, <1>4, <2>3, <2>4, <2>5 DEF Edit
  <2>7. Both(t, B) /\ StatusKept(s, t)
    BY <1>2, <2>6, PlainEdit
  <2> QED BY <2>1, <2>7
<1>8. ResOK(s, Result(t, al), A)
  BY <1>7 DEF ResOK, Result
<1> QED BY <1>2, <1>5, <1>8
LEMMA TakeOver ==
    ASSUME NEW s, NEW A, Both(s, A), DOMAIN A = Slots, NEW r, Usable(s, r), NEW q \in Queues,
           NEW e \in DOMAIN s.elems, s.recs[r].elem = e, InQueue(s, q, s.elems[e].ins),
           NEW rec, rec = [s.recs[r] EXCEPT !.over = s.recs[r].over + 1],
           NEW m, m = FreeSet(s, e, s.elems[e].free - 1), NEW u, u = Refile(m, q, e),
           NEW t, t = PutRec(u, r, rec)
    PROVE  ResOK(s, Result(t, Share(s, "over", r)), A) /\ t.sessionMap = s.sessionMap
<1>0. s \in StateT /\ SInv(s, A) /\ RecsOK(s) /\ r \in DOMAIN s.recs
  BY DEF Both, SInv, Usable
<1>1. /\ rec \in RecT /\ rec.sess = s.recs[r].sess /\ rec.elem = s.recs[r].elem
      /\ rec.conc = s.recs[r].conc /\ rec.avail = s.recs[r].avail /\ rec.timer = s.recs[r].timer
      /\ rec.over = s.recs[r].over + 1
      /\ rec.expiring = s.recs[r].expiring /\ rec.token = s.recs[r].token
      /\ s.recs[r].avail \in Int /\ s.recs[r].over \in Int /\ s.recs[r].conc \in Int
  <2>1. s.recs[r] \in RecT /\ s.recs[r].avail \in Int /\ s.recs[r].over \in Int /\ s.recs[r].conc \in Int
    BY <1>0, RecType
  <2>2. s.recs[r].over + 1 \in Int
    BY <2>1
  <2> QED BY <2>1, <2>2 DEF RecT
<1>2. /\ m \in StateT /\ SameQueues(s, m)
      /\ m.elems = WithFree(s, e, s.elems[e].free - 1) /\ s.elems[e].free - 1 \in Int
      /\ u \in StateT /\ u.elems = m.elems /\ u.recs = s.recs /\ u.sessionMap = s.sessionMap
      /\ DOMAIN u.elems = DOMAIN s.elems
      /\ \A f \in DOMAIN s.elems \ {e} : u.elems[f] = s.elems[f]
      /\ u.elems[e].ins = s.elems[e].ins /\ u.elems[e].free = s.elems[e].free - 1
  BY ONLY <1>0, q \in Queues, e \in DOMAIN s.elems, m = FreeSet(s, e, s.elems[e].free - 1),
          u = Refile(m, q, e), TakeFields
<1>3. /\ t \in StateT /\ t.elems = u.elems /\ SameQueues(u, t) /\ t.sessionMap = u.sessionMap
      /\ DOMAIN t.recs = DOMAIN u.recs /\ t.recs[r] = rec
      /\ \A p \in DOMAIN u.recs \ {r} : t.recs[p] = u.recs[p]
  <2>1. r \in DOMAIN u.recs /\ u \in StateT
    BY <1>0, <1>2
  <2> QED BY ONLY <1>1, <2>1, t = PutRec(u, r, rec), SetRec
<1>4. /\ DOMAIN t.elems = DOMAIN s.elems /\ t.elems[e].ins = s.elems[e].ins
      /\ t.elems[e].free = s.elems[e].free - 1
      /\ \A f \in DOMAIN s.elems \ {e} : t.elems[f] = s.elems[f]
      /\ DOMAIN t.recs = DOMAIN s.recs /\ \A p \in DOMAIN s.recs \ {r} : t.recs[p] = s.recs[p]
      /\ t.sessionMap = s.sessionMap
  BY ONLY <1>2, <1>3
<1>5. Change(s, t, r)
  <2>1. \A f \in DOMAIN s.elems : t.elems[f].ins = s.elems[f].ins
    BY ONLY <1>4
  <2> QED BY ONLY <1>1, <1>3, <1>4, <2>1 DEF Change
<1>6. RecStep(s, t, r)
  <2>1. Usable(s, r)
    OBVIOUS
  <2> QED BY ONLY <1>1, <1>3, <1>4, <2>1 DEF RecStep, Usable, TokenOf
<1>7. PICK al : al = Share(s, "over", r)
  OBVIOUS
<1>8. /\ AllocOK(t, al) /\ al.ins = s.elems[s.recs[r].elem].ins /\ al.kind = "over" /\ al.rec = r
  <2>1. /\ DOMAIN t.elems = DOMAIN s.elems /\ r \in DOMAIN t.recs /\ t.recs[r].elem = s.recs[r].elem
        /\ \A f \in DOMAIN s.elems : t.elems[f].ins = s.elems[f].ins
    BY ONLY <1>0, <1>1, <1>3, <1>4
  <2>2. "over" \in {"sess", "over"}
    OBVIOUS
  <2> QED BY ONLY <1>0, <1>7, <2>1, <2>2, ShareOK
<1>9. ASSUME NEW a \in Slots, A[a] = None PROVE Both(t, Put(A, a, al)) /\ StatusKept(s, t)
  <2>1. PICK B : B = Put(A, a, al)
    OBVIOUS
  <2>2. /\ \A k, p : OfOf(A, a, k, p) = 0
        /\ \A k, p : OfOf(B, a, k, p) = 0 \/ (OfOf(B, a, k, p) = 1 /\ al.kind = k /\ al.rec = p)
        /\ \A z, f : LeasedOf(z, A, a, f) = 0
        /\ \A z, f : LeasedOf(z, B, a, f) = 0 \/ (LeasedOf(z, B, a, f) = 1 /\ al.ins = z.elems[f].ins)
        /\ \A z : AllocOK(z, al) => SlotStep(z, A, B, a)
    BY ONLY <1>9, <2>1, DOMAIN A = Slots, SlotTaken
  <2>3. SlotStep(t, A, B, a)
    BY <1>8, <2>2
  <2>4. CoverStep(s, t, A, B, a)
    <3> SUFFICES ASSUME NEW p \in DOMAIN s.recs
                 PROVE  /\ s.recs[p].over - OfOf(A, a, "over", p) <= t.recs[p].over - OfOf(B, a, "over", p)
                        /\ s.recs[p].conc - s.recs[p].avail - OfOf(A, a, "sess", p)
                             <= t.recs[p].conc - t.recs[p].avail - OfOf(B, a, "sess", p)
      BY DEF CoverStep
    <3>1. s.recs[p].over \in Int /\ s.recs[p].conc \in Int /\ s.recs[p].avail \in Int
      BY <1>0, RecType
    <3>2. OfOf(A, a, "over", p) = 0 /\ OfOf(A, a, "sess", p) = 0 /\ OfOf(B, a, "sess", p) = 0
      BY <1>8, <2>2
    <3>3. CASE p = r
      <4>1. OfOf(B, a, "over", p) = 0 \/ OfOf(B, a, "over", p) = 1
        BY <2>2
      <4>2. /\ t.recs[p].avail = s.recs[p].avail /\ t.recs[p].conc = s.recs[p].conc
            /\ t.recs[p].over = s.recs[p].over + 1
        BY <1>1, <1>3, <3>3
      <4> QED BY ONLY <3>1, <3>2, <4>1, <4>2
    <3>4. CASE p # r
      <4>1. OfOf(B, a, "over", p) = 0 /\ t.recs[p] = s.recs[p]
        BY <1>4, <1>8, <2>2, <3>4
      <4> QED BY <3>1, <3>2, <4>1
    <3> QED BY <3>3, <3>4
  <2>5. HeldStep(s, t, A, B, a, r)
    <3> SUFFICES ASSUME NEW f \in OnceIn(s)
                 PROVE  t.elems[f].free + KeptOf(t, r, f) + LeasedOf(t, B, a, f)
                          <= s.elems[f].free + KeptOf(s, r, f) + LeasedOf(s, A, a, f)
      BY DEF HeldStep
    <3>1. f \in DOMAIN s.elems /\ s.elems[f].free \in Int
      BY <1>0, ElemType DEF OnceIn
    <3>2. KeptOf(t, r, f) = KeptOf(s, r, f) /\ KeptOf(s, r, f) \in Int
      <4>1. KeptOf(t, r, f) = KeptOf(s, r, f)
        BY ONLY <1>0, <1>1, <1>3, <1>4 DEF KeptOf
      <4> QED BY <1>0, <4>1, PieceInt
    <3>3. LeasedOf(s, A, a, f) = 0 /\ (LeasedOf(t, B, a, f) = 0 \/ LeasedOf(t, B, a, f) = 1)
      BY <2>2
    <3>4. CASE f = e
      <4>1. t.elems[f].free = s.elems[f].free - 1
        BY <1>4, <3>4
      <4> QED BY ONLY <3>1, <3>2, <3>3, <4>1
    <3>5. CASE f # e
      <4>1. t.elems[f] = s.elems[f]
        BY <1>4, <3>1, <3>5
      <4>2. al.ins # t.elems[f].ins
        BY <1>8, <3>5, <4>1, OnceSame
      <4>3. LeasedOf(t, B, a, f) = 0
        BY <2>2, <4>2
      <4> QED BY <3>1, <3>2, <3>3, <4>1, <4>3
    <3> QED BY <3>4, <3>5
  <2>6. Edit(s, t, r, A, B, a)
    BY <1>5, <1>6, <2>3, <2>4, <2>5 DEF Edit
  <2>7. Both(t, B) /\ StatusKept(s, t)
    <3>1. PICK x \in Int : x = s.elems[e].free - 1
      BY <1>2
    <3>2. m \in StateT /\ m.elems = WithFree(s, e, x) /\ t.elems = WithFree(s, e, x) /\ SameQueues(s, m)
      BY <1>2, <1>3, <3>1
    <3> QED BY ONLY Both(s, A), e \in DOMAIN s.elems, q \in Queues, InQueue(s, q, s.elems[e].ins),
                    x \in Int, <3>2, u = Refile(m, q, e), <1>3, <2>6, ThreadEdit
  <2> QED BY <2>1, <2>7
<1>10. ResOK(s, Result(t, al), A)
  BY <1>9 DEF ResOK, Result
<1> QED BY <1>4, <1>7, <1>10

LEMMA ResLater ==
    ASSUME NEW s, NEW t, NEW res, NEW A, StatusKept(s, t), ResOK(t, res, A)
    PROVE  ResOK(s, res, A)
BY StatusKeptTwice DEF ResOK

\* The instance of session x's record is in queue q.
Found(s, q, x) == s.sessionMap[x] # 0 /\ InQueue(s, q, s.elems[s.recs[s.sessionMap[x]].elem].ins)

\* acquireSessionThread for a session whose instance is in the queue.
LEMMA SessionTake ==
    ASSUME NEW s, NEW A, Both(s, A), DOMAIN A = Slots, NEW q \in Queues, NEW x \in Sessions,
           Found(s, q, x), NEW res, res = SessionThread(s, q, x)
    PROVE  ResOK(s, res, A) /\ res.s.sessionMap = s.sessionMap
<1>0. s \in StateT /\ SInv(s, A) /\ RecsOK(s)
  BY DEF Both, SInv
<1>1. PICK r \in DOMAIN s.recs : r = s.sessionMap[x] /\ s.recs[r].timer # "done"
  BY <1>0 DEF SInv, MapOK, Found
<1>2. PICK e \in DOMAIN s.elems : e = s.recs[r].elem
  BY <1>0 DEF RecsOK
<1>3. PICK rec : rec = [s.recs[r] EXCEPT !.token = s.recs[r].token \/ s.recs[r].expiring]
  OBVIOUS
<1>4. PICK s1 : s1 = PutRec(s, r, rec)
  OBVIOUS
<1>5. /\ rec \in RecT /\ SameUse(s.recs[r], rec) /\ TokenOf(rec)
      /\ rec.timer \in {"waiting", "fired"} => rec.expiring /\ rec.token
  <2>1. s.recs[r] \in RecT /\ TokenOf(s.recs[r])
    BY <1>0, RecType DEF SInv, TokensOK
  <2>2. (s.recs[r].token \/ s.recs[r].expiring) \in BOOLEAN
    OBVIOUS
  <2>3. rec \in RecT
    BY <1>3, <2>1, <2>2 DEF RecT
  <2>4. /\ rec.sess = s.recs[r].sess /\ rec.elem = s.recs[r].elem /\ rec.conc = s.recs[r].conc
        /\ rec.avail = s.recs[r].avail /\ rec.over = s.recs[r].over /\ rec.timer = s.recs[r].timer
        /\ rec.expiring = s.recs[r].expiring
        /\ rec.token = (s.recs[r].token \/ s.recs[r].expiring)
    BY <1>3, <2>1 DEF RecT
  <2> QED BY <2>1, <2>3, <2>4 DEF SameUse, TokenOf
<1>6. Both(s1, A) /\ StatusKept(s, s1)
  BY <1>4, <1>5, UseKept
<1>7. /\ s1 \in StateT /\ s1.elems = s.elems /\ SameQueues(s, s1) /\ s1.sessionMap = s.sessionMap
      /\ DOMAIN s1.recs = DOMAIN s.recs /\ s1.recs[r] = rec
  BY ONLY <1>0, r \in DOMAIN s.recs, <1>4, <1>5, SetRec
<1>8. Usable(s1, r) /\ s1.recs[r].elem = e /\ rec.avail = s.recs[r].avail
  BY <1>1, <1>2, <1>5, <1>7 DEF Usable, SameUse
<1>9. s1 = [s EXCEPT !.recs[r].token = s.recs[r].token \/ s.recs[r].expiring]
  BY <1>3, <1>4 DEF PutRec
<1>10. Share(s1, "sess", r) = Alloc(s, e, "sess", r) /\ Share(s1, "over", r) = Alloc(s1, e, "over", r)
  BY <1>7, <1>8 DEF Share, Alloc
<1>11. CASE s.recs[r].avail > 0
  <2>1. PICK t : t = PutRec(s1, r, [s1.recs[r] EXCEPT !.avail = s1.recs[r].avail - 1])
    OBVIOUS
  <2>2. ResOK(s1, Result(t, Share(s1, "sess", r)), A) /\ t.sessionMap = s1.sessionMap
    BY <1>6, <1>8, <2>1, TakeReserved
  <2>3. t = [s1 EXCEPT !.recs[r].avail = @ - 1]
    BY <2>1 DEF PutRec
  <2>4. res = Result(t, Alloc(s, e, "sess", r))
    BY <1>1, <1>2, <1>9, <1>11, <2>3 DEF SessionThread
  <2>5. res.s = t
    BY <2>4 DEF Result
  <2> QED BY <1>6, <1>7, <1>10, <2>2, <2>4, <2>5, ResLater
<1>12. CASE ~(s.recs[r].avail > 0)
  <2>0. PICK tak : tak = TakeThread(s1, q, e, "over", r)
    OBVIOUS
  <2>1. res = IF tak.alloc = None THEN tak
              ELSE Result([tak.s EXCEPT !.recs[r].over = @ + 1], tak.alloc)
    BY <1>1, <1>2, <1>9, <1>12, <2>0 DEF SessionThread
  <2>2. CASE s1.elems[e].free = 0
    <3>1. tak = Result(s1, None)
      BY <2>0, <2>2 DEF TakeThread
    <3>2. res = Result(s1, None) /\ res.s = s1
      BY <2>1, <3>1 DEF Result
    <3> QED BY <1>6, <1>7, <3>2, NoAlloc
  <2>3. CASE s1.elems[e].free # 0
    <3>1. PICK m : m = FreeSet(s1, e, s1.elems[e].free - 1)
      OBVIOUS
    <3>2. PICK u : u = Refile(m, q, e)
      OBVIOUS
    <3>3. PICK al : al = Share(s1, "over", r)
      OBVIOUS
    <3>4. InQueue(s1, q, s1.elems[e].ins) /\ e \in DOMAIN s1.elems
      BY <1>1, <1>2, <1>7 DEF InQueue, SameQueues, Found
    <3>5. tak = Result(u, al)
      BY <1>10, <2>0, <2>3, <3>1, <3>2, <3>3, <3>4 DEF TakeThread, FreeSet
    <3>6. al # None
      <4>1. RecsOK(s1) /\ r \in DOMAIN s1.recs /\ "over" \in {"sess", "over"}
        BY <1>6, <1>7 DEF Both, SInv
      <4>2. DOMAIN s1.elems = DOMAIN s1.elems /\ \A f \in DOMAIN s1.elems : s1.elems[f].ins = s1.elems[f].ins
        OBVIOUS
      <4> QED BY ONLY <1>7, <3>3, <4>1, <4>2, ShareOK
    <3>7. PICK t : t = PutRec(u, r, [s1.recs[r] EXCEPT !.over = s1.recs[r].over + 1])
      OBVIOUS
    <3>8. ResOK(s1, Result(t, Share(s1, "over", r)), A) /\ t.sessionMap = s1.sessionMap
      BY <1>6, <1>8, <3>1, <3>2, <3>4, <3>7, TakeOver
    <3>9. u.recs = s1.recs
      BY ONLY <1>7, q \in Queues, <3>4, <3>1, <3>2, TakeFields
    <3>10. t = [u EXCEPT !.recs[r].over = @ + 1]
      BY <3>7, <3>9 DEF PutRec
    <3>11. res = Result(t, al) /\ res.s = t
      BY <2>1, <3>5, <3>6, <3>10 DEF Result
    <3> QED BY <1>6, <1>7, <3>3, <3>8, <3>11, ResLater
  <2> QED BY <2>2, <2>3
<1> QED BY <1>11, <1>12
-----------------------------------------------------------------------------
(***************************************************************************)
(* A new session record                                                    *)
(***************************************************************************)
NewRec(x, e, n) ==
    [sess |-> x, elem |-> e, conc |-> n, avail |-> n, over |-> 0, expiring |-> FALSE,
     token |-> FALSE, timer |-> "none", que |-> "self"]
Reserve(s, e, n, rec) == [s EXCEPT !.elems[e].free = @ - n, !.recs = Append(@, rec)]
SetMap(s, x, r) == [s EXCEPT !.sessionMap[x] = r]

LEMMA SetMapFields ==
    ASSUME NEW s \in StateT, NEW x \in Sessions, NEW r \in Nat, NEW t, t = SetMap(s, x, r)
    PROVE  /\ t \in StateT /\ t.elems = s.elems /\ t.recs = s.recs /\ SameQueues(s, t)
           /\ t.sessionMap[x] = r /\ \A y \in Sessions \ {x} : t.sessionMap[y] = s.sessionMap[y]
<1> DEFINE M == [s.sessionMap EXCEPT ![x] = r]
<1>1. s.sessionMap \in [Sessions -> Nat]
  BY DEF StateT
<1>2. M \in [Sessions -> Nat] /\ M[x] = r /\ \A y \in Sessions \ {x} : M[y] = s.sessionMap[y]
  BY <1>1
<1>3. t = [s EXCEPT !.sessionMap = M]
  BY DEF SetMap
<1> HIDE DEF M
<1>4. t \in StateT /\ t.elems = s.elems /\ t.recs = s.recs /\ SameQueues(s, t) /\ t.sessionMap = M
  BY <1>2, <1>3 DEF StateT, SameQueues
<1> QED BY <1>2, <1>4

LEMMA ReserveFields ==
    ASSUME NEW s \in StateT, NEW e \in DOMAIN s.elems, NEW n \in Nat, NEW rec \in RecT,
           NEW m, m = Reserve(s, e, n, rec), NEW r, r = Len(s.recs) + 1
    PROVE  /\ m \in StateT /\ SameQueues(s, m) /\ m.sessionMap = s.sessionMap
           /\ m.elems = WithFree(s, e, s.elems[e].free - n) /\ s.elems[e].free - n \in Int
           /\ DOMAIN m.recs = DOMAIN s.recs \cup {r} /\ m.recs[r] = rec
           /\ r \notin DOMAIN s.recs /\ r \in Nat /\ r # 0
           /\ \A p \in DOMAIN s.recs : p <= r /\ m.recs[p] = s.recs[p]
<1>1. s.elems[e].free - n \in Int /\ s.recs \in Seq(RecT)
  <2>1. s.elems[e].free \in Int
    BY ElemType
  <2>2. s.recs \in Seq(RecT)
    BY DEF StateT
  <2> QED BY <2>1, <2>2
<1>2. PICK k \in Int : k = s.elems[e].free - n
  BY <1>1
<1>3. PICK f : f = FreeSet(s, e, k)
  OBVIOUS
<1>4. /\ f \in StateT /\ SameSessions(s, f) /\ SameQueues(s, f)
      /\ f.elems = [s.elems EXCEPT ![e] = [s.elems[e] EXCEPT !.free = k]]
  BY ONLY s \in StateT, e \in DOMAIN s.elems, k \in Int, <1>3, SetFree
<1>5. m = [f EXCEPT !.recs = Append(s.recs, rec)]
  <2>1. m = [FreeSet(s, e, k) EXCEPT !.recs = Append(@, rec)]
    BY <1>2 DEF Reserve, FreeSet
  <2>2. f.recs = s.recs
    BY <1>4 DEF SameSessions
  <2> QED BY <1>3, <2>1, <2>2
<1>6. PICK R : R = Append(s.recs, rec)
  OBVIOUS
<1>7. /\ R \in Seq(RecT) /\ Len(R) = r /\ R[r] = rec
      /\ \A p \in 1 .. Len(s.recs) : R[p] = s.recs[p]
  BY <1>1, <1>6, AppendProperties
<1>8. /\ DOMAIN R = 1 .. r /\ DOMAIN s.recs = 1 .. Len(s.recs) /\ Len(s.recs) \in Nat
  BY <1>1, <1>7, LenProperties
<1>9. m \in StateT /\ SameQueues(f, m) /\ m.sessionMap = f.sessionMap /\ m.elems = f.elems /\ m.recs = R
  <2> HIDE DEF RecT, ElemT
  <2>1. m = [f EXCEPT !.recs = R]
    BY <1>5, <1>6
  <2> QED BY <1>4, <1>7, <2>1 DEF StateT, SameQueues
<1>10. SameQueues(s, m) /\ m.sessionMap = s.sessionMap
  BY ONLY <1>4, <1>9 DEF SameQueues, SameSessions
<1>11. m.elems = WithFree(s, e, s.elems[e].free - n)
  BY <1>2, <1>4, <1>9 DEF WithFree
<1> QED BY <1>1, <1>7, <1>8, <1>9, <1>10, <1>11
\* bindThdWithSession and addSession keep the invariant: the new record is the
\* last one of its session, and reserves the threads it takes.
LEMMA BindInv ==
    ASSUME NEW s, NEW A, Both(s, A), NEW q \in Queues, NEW e \in DOMAIN s.elems,
           InQueue(s, q, s.elems[e].ins), NEW x \in Sessions, NEW conc \in {Full} \cup 1 .. CN,
           NEW t, t = Bind(s, q, e, x, conc)
    PROVE  /\ Both(t, A) /\ StatusKept(s, t)
           /\ t.sessionMap[x] # 0 /\ t.recs[t.sessionMap[x]].elem = e
           /\ InQueue(t, q, t.elems[e].ins)
           /\ \A y \in Sessions \ {x} : t.sessionMap[y] = s.sessionMap[y]
<1>0. s \in StateT /\ SInv(s, A) /\ QueuesOK(s) /\ Exact(s)
  BY DEF Both, SInv
<1>1. PICK n \in Nat : n = Wanted(conc)
  BY ConstantsAssumption DEF Wanted, Full
<1>2. PICK rec \in RecT : /\ rec = NewRec(x, e, n) /\ rec.sess = x /\ rec.elem = e /\ rec.conc = n
                          /\ rec.avail = n /\ rec.over = 0 /\ rec.timer = "none"
  <2>1. e \in Nat
    <3>1. s.elems \in Seq(ElemT)
      BY <1>0 DEF StateT
    <3> QED BY <3>1, LenProperties
  <2>2. NewRec(x, e, n) \in RecT
    BY <2>1 DEF NewRec, RecT, Timers, Queues
  <2> QED BY <2>2 DEF NewRec
<1>3. PICK m : m = Reserve(s, e, n, rec)
  OBVIOUS
<1>4. PICK r : r = Len(s.recs) + 1
  OBVIOUS
<1>5. /\ m \in StateT /\ SameQueues(s, m) /\ m.sessionMap = s.sessionMap
      /\ m.elems = WithFree(s, e, s.elems[e].free - n) /\ s.elems[e].free - n \in Int
      /\ DOMAIN m.recs = DOMAIN s.recs \cup {r} /\ m.recs[r] = rec
      /\ r \notin DOMAIN s.recs /\ r \in Nat /\ r # 0
      /\ \A p \in DOMAIN s.recs : p <= r /\ m.recs[p] = s.recs[p]
  BY ONLY <1>0, e \in DOMAIN s.elems, n \in Nat, rec \in RecT, <1>3, <1>4, ReserveFields
<1>6. PICK u : u = Refile(m, q, e)
  OBVIOUS
<1>7. t = SetMap(u, x, r)
  BY <1>1, <1>2, <1>3, <1>4, <1>6 DEF Bind, SetMap, Reserve, NewRec
<1>8. PICK k \in Int : k = s.elems[e].free - n
  BY <1>5
<1>9. m.elems = WithFree(s, e, k)
  BY <1>5, <1>8
<1>10. QueueStep(m, u) /\ QueuesOK(u) /\ Exact(u)
  BY ONLY <1>0, e \in DOMAIN s.elems, q \in Queues, InQueue(s, q, s.elems[e].ins), k \in Int,
          <1>5, <1>6, <1>9, RefileExact
<1>11. u \in StateT /\ u.elems = m.elems /\ u.recs = m.recs /\ u.sessionMap = m.sessionMap
  BY ONLY <1>10 DEF QueueStep, SameSessions
<1>12. /\ t \in StateT /\ t.elems = u.elems /\ t.recs = u.recs /\ SameQueues(u, t)
       /\ t.sessionMap[x] = r /\ \A y \in Sessions \ {x} : t.sessionMap[y] = u.sessionMap[y]
  <2>1. u \in StateT /\ r \in Nat
    BY <1>5, <1>11
  <2> QED BY ONLY <1>7, <2>1, x \in Sessions, SetMapFields
<1>13. /\ DOMAIN t.elems = DOMAIN s.elems /\ \A f \in DOMAIN s.elems \ {e} : t.elems[f] = s.elems[f]
       /\ t.elems[e].ins = s.elems[e].ins /\ t.elems[e].status = s.elems[e].status
       /\ t.elems[e].free = k
  <2>1. t.elems = WithFree(s, e, k)
    BY ONLY <1>9, <1>11, <1>12
  <2> QED BY ONLY <1>0, <2>1, e \in DOMAIN s.elems, WithFreeFields
<1>14. /\ DOMAIN t.recs = DOMAIN s.recs \cup {r} /\ t.recs[r] = rec
       /\ \A p \in DOMAIN s.recs : t.recs[p] = s.recs[p]
       /\ \A y \in Sessions \ {x} : t.sessionMap[y] = s.sessionMap[y]
  BY ONLY <1>5, <1>11, <1>12
<1>15. QueuesOK(t) /\ Exact(t)
  <2>1. t.queue = u.queue /\ DOMAIN t.elems = DOMAIN u.elems /\ \A f \in DOMAIN u.elems : t.elems[f].ins = u.elems[f].ins
    BY ONLY <1>12 DEF SameQueues
  <2>2. QueuesOK(t)
    BY ONLY <1>10, <2>1, QueuesSame
  <2>3. Exact(t)
    BY ONLY <1>10, <1>11, <1>12, ExactSame
  <2> QED BY <2>2, <2>3
<1>16. RecsOK(t)
  BY ONLY <1>0, <1>2, <1>13, <1>14, e \in DOMAIN s.elems DEF RecsOK, SInv
<1>17. MapOK(t)
  <2> SUFFICES ASSUME NEW y \in Sessions, t.sessionMap[y] # 0
               PROVE  /\ t.sessionMap[y] \in DOMAIN t.recs
                      /\ t.recs[t.sessionMap[y]].sess = y /\ t.recs[t.sessionMap[y]].timer # "done"
                      /\ \A p \in DOMAIN t.recs : t.recs[p].sess = y => p <= t.sessionMap[y]
    BY DEF MapOK
  <2>1. CASE y = x
    BY ONLY <1>2, <1>5, <1>12, <1>14, <2>1
  <2>2. CASE y # x
    <3>1. PICK o : o = s.sessionMap[y]
      OBVIOUS
    <3>2. t.sessionMap[y] = o /\ o # 0
      BY <1>14, <2>2, <3>1
    <3>3. /\ o \in DOMAIN s.recs /\ s.recs[o].sess = y /\ s.recs[o].timer # "done"
          /\ \A p \in DOMAIN s.recs : s.recs[p].sess = y => p <= o
      BY ONLY <1>0, <3>1, <3>2, y \in Sessions DEF SInv, MapOK
    <3> QED BY ONLY <1>2, <1>14, <2>2, <3>2, <3>3
  <2> QED BY <2>1, <2>2
<1>18. TokensOK(t)
  BY ONLY <1>0, <1>2, <1>14 DEF SInv, TokensOK, TokenOf
<1>19. AllocsOK(t, A)
  <2> SUFFICES ASSUME NEW b \in Slots, A[b] # None PROVE AllocOK(t, A[b])
    BY DEF AllocsOK
  <2>1. PICK al : al = A[b]
    OBVIOUS
  <2>2. AllocOK(s, al)
    BY <1>0, <2>1 DEF SInv, AllocsOK
  <2>3. \E f \in DOMAIN t.elems : t.elems[f].ins = al.ins
    BY ONLY <1>13, <2>2 DEF AllocOK
  <2>4. al.rec # 0 => al.rec \in DOMAIN t.recs /\ t.elems[t.recs[al.rec].elem].ins = al.ins
    BY ONLY <1>0, <1>13, <1>14, <2>2 DEF AllocOK, SInv, RecsOK
  <2>5. al \in Allocation /\ (al.kind = "plain" <=> al.rec = 0)
    BY <2>2 DEF AllocOK
  <2> QED BY ONLY <2>1, <2>3, <2>4, <2>5 DEF AllocOK
<1>20. CoverOK(t, A)
  <2> SUFFICES ASSUME NEW p \in DOMAIN t.recs
               PROVE  /\ Cardinality(Of(A, "over", p)) <= t.recs[p].over
                      /\ Cardinality(Of(A, "sess", p)) <= t.recs[p].conc - t.recs[p].avail
    BY DEF CoverOK
  <2>1. CASE p = r
    <3>1. \A b \in Slots : A[b] # None => A[b].rec # r
      BY ONLY <1>0, <1>5 DEF SInv, AllocsOK, AllocOK
    <3>2. Of(A, "over", r) = {} /\ Of(A, "sess", r) = {}
      BY ONLY <3>1 DEF Of
    <3>3. Cardinality({}) = 0
      BY FS_EmptySet
    <3>4. t.recs[p].over = 0 /\ t.recs[p].conc = n /\ t.recs[p].avail = n
      BY ONLY <1>2, <1>14, <2>1
    <3>5. Cardinality(Of(A, "over", p)) = 0 /\ Cardinality(Of(A, "sess", p)) = 0
      BY ONLY <2>1, <3>2, <3>3
    <3>6. n \in Nat
      OBVIOUS
    <3> QED BY ONLY <3>4, <3>5, <3>6
  <2>2. CASE p # r
    <3>1. p \in DOMAIN s.recs /\ t.recs[p] = s.recs[p]
      BY <1>14, <2>2
    <3> QED BY ONLY <1>0, <3>1 DEF SInv, CoverOK
  <2> QED BY <2>1, <2>2
<1>21. Conserved(t, A)
  <2>0. OnceIn(t) = OnceIn(s)
    BY ONLY <1>13 DEF OnceIn
  <2> SUFFICES ASSUME NEW f \in OnceIn(s)
               PROVE  t.elems[f].free + ReservedIn(t, f) + Cardinality(LeasedFrom(t, A, f)) <= CN
    BY <2>0 DEF Conserved
  <2>1. f \in DOMAIN s.elems /\ t.elems[f].ins = s.elems[f].ins
    BY ONLY <1>13, f \in OnceIn(s) DEF OnceIn
  <2>2. LeasedFrom(t, A, f) = LeasedFrom(s, A, f)
    BY ONLY <2>1 DEF LeasedFrom
  <2>3. ReservedIn(t, f) = ReservedIn(s, f) - KeptOf(s, r, f) + KeptOf(t, r, f)
    <3>1. DOMAIN s.recs \ {r} = DOMAIN t.recs \ {r} /\ \A p \in DOMAIN s.recs \ {r} : t.recs[p] = s.recs[p]
      BY ONLY <1>14
    <3> QED BY ONLY <1>0, <1>12, <3>1, ReservedChange
  <2>4. KeptOf(s, r, f) = 0 /\ KeptOf(t, r, f) = IF f = e THEN n ELSE 0
    BY ONLY <1>2, <1>5, <1>14 DEF KeptOf
  <2>5. s.elems[f].free + ReservedIn(s, f) + Cardinality(LeasedFrom(s, A, f)) <= CN
    BY ONLY <1>0, f \in OnceIn(s) DEF SInv, Conserved
  <2>6. /\ s.elems[f].free \in Int /\ ReservedIn(s, f) \in Int
        /\ Cardinality(LeasedFrom(s, A, f)) \in Nat /\ CN \in Int
    BY <1>0, <2>1, ElemType, HeldInt, ConstantsAssumption
  <2>7. CASE f = e
    <3>1. t.elems[f].free = s.elems[f].free - n
      BY ONLY <1>8, <1>13, <2>7
    <3> QED BY ONLY <2>2, <2>3, <2>4, <2>5, <2>6, <2>7, <3>1, n \in Nat
  <2>8. CASE f # e
    <3>1. t.elems[f] = s.elems[f]
      BY ONLY <1>13, <2>1, <2>8
    <3> QED BY ONLY <2>2, <2>3, <2>4, <2>5, <2>6, <2>8, <3>1
  <2> QED BY <2>7, <2>8
<1>22. Both(t, A)
  BY ONLY <1>12, <1>15, <1>16, <1>17, <1>18, <1>19, <1>20, <1>21 DEF Both, SInv
<1>23. StatusKept(s, t) /\ InQueue(t, q, t.elems[e].ins)
  <2>1. PICK el : el = m.elems[e]
    OBVIOUS
  <2>2. el.ins = s.elems[e].ins /\ e \in DOMAIN m.elems /\ el.ins \in Instances /\ e # 0
    <3>1. DOMAIN m.elems = DOMAIN s.elems /\ m.elems[e].ins = s.elems[e].ins
      BY ONLY <1>0, <1>9, e \in DOMAIN s.elems, WithFreeFields
    <3>2. s.elems[e].ins \in Instances /\ e # 0
      <4>1. s.elems \in Seq(ElemT)
        BY <1>0 DEF StateT
      <4> QED BY <1>0, <4>1, ElemType, LenProperties
    <3> QED BY <2>1, <3>1, <3>2
  <2>3. InQueue(m, q, el.ins)
    BY <1>5, <2>2 DEF InQueue, SameQueues
  <2>4. Filed(m, u, q, el.ins, e)
    BY ONLY <1>5, <1>6, q \in Queues, <2>1, <2>2, <2>3, RefileFields
  <2>5. m.queue = s.queue /\ t.queue = u.queue
    BY <1>5, <1>12 DEF SameQueues
  <2>6. \A j \in Instances, p \in Queues : InQueue(t, p, j) => InQueue(s, p, j)
    BY ONLY <2>2, <2>3, <2>4, <2>5 DEF InQueue, Filed
  <2>7. StatusKept(s, t)
    BY ONLY <1>13, <2>6 DEF StatusKept
  <2>8. InQueue(t, q, t.elems[e].ins)
    BY ONLY <1>13, <2>2, <2>4, <2>5, q \in Queues DEF InQueue, Filed
  <2> QED BY <2>7, <2>8
<1> QED BY ONLY <1>2, <1>5, <1>12, <1>14, <1>22, <1>23
\* The sessions other than x keep their records.
Others(s, t, x) == \A y \in Sessions \ {x} : t.sessionMap[y] = s.sessionMap[y]

LEMMA BindTake ==
    ASSUME NEW s, NEW A, Both(s, A), DOMAIN A = Slots, NEW q \in Queues, NEW e \in DOMAIN s.elems,
           InQueue(s, q, s.elems[e].ins), NEW x \in Sessions, NEW conc \in {Full} \cup 1 .. CN,
           NEW res, res = SessionThread(Bind(s, q, e, x, conc), q, x)
    PROVE  ResOK(s, res, A) /\ Others(s, res.s, x)
<1>1. PICK b : b = Bind(s, q, e, x, conc)
  OBVIOUS
<1>2. /\ Both(b, A) /\ StatusKept(s, b)
      /\ b.sessionMap[x] # 0 /\ b.recs[b.sessionMap[x]].elem = e
      /\ InQueue(b, q, b.elems[e].ins)
      /\ \A y \in Sessions \ {x} : b.sessionMap[y] = s.sessionMap[y]
  BY <1>1, BindInv
<1>3. ResOK(b, res, A) /\ res.s.sessionMap = b.sessionMap
  <2>1. res = SessionThread(b, q, x)
    BY <1>1
  <2>2. Found(b, q, x)
    BY <1>2 DEF Found
  <2> QED BY ONLY <1>2, <2>1, <2>2, DOMAIN A = Slots, q \in Queues, x \in Sessions, SessionTake
<1> QED BY <1>2, <1>3, ResLater DEF Others

LEMMA ForgetInv ==
    ASSUME NEW s, NEW A, Both(s, A), NEW q \in Queues, NEW x \in Sessions,
           NEW t, t = ForgetGone(s, q, x)
    PROVE  /\ Both(t, A) /\ StatusKept(s, t) /\ Others(s, t, x)
           /\ IF Found(s, q, x) THEN t = s ELSE t.sessionMap[x] = 0
<1>0. s \in StateT /\ SInv(s, A)
  BY DEF Both, SInv
<1>1. CASE Found(s, q, x) \/ s.sessionMap[x] = 0
  <2>1. t = s
    BY <1>1 DEF ForgetGone, Found
  <2> QED BY <1>1, <2>1 DEF StatusKept, Others, Found
<1>2. CASE ~Found(s, q, x) /\ s.sessionMap[x] # 0
  <2>1. t = SetMap(s, x, 0)
    BY <1>2 DEF ForgetGone, Found, SetMap
  <2>2. /\ t \in StateT /\ t.elems = s.elems /\ t.recs = s.recs /\ SameQueues(s, t)
        /\ t.sessionMap[x] = 0 /\ \A y \in Sessions \ {x} : t.sessionMap[y] = s.sessionMap[y]
    <3>1. 0 \in Nat
      OBVIOUS
    <3> QED BY ONLY <1>0, <2>1, <3>1, x \in Sessions, SetMapFields
  <2>3. Edit(s, t, 0, A, A, 0)
    <3>1. Change(s, t, 0)
      BY ONLY <2>2 DEF Change
    <3>2. RecStep(s, t, 0)
      BY <1>0, <2>2, NoRecord DEF RecStep
    <3>3. CoverStep(s, t, A, A, 0)
      <4>1. \A p \in DOMAIN s.recs : s.recs[p].over \in Int /\ s.recs[p].conc \in Int /\ s.recs[p].avail \in Int
        BY <1>0, RecType
      <4>2. \A k, p : OfOf(A, 0, k, p) = 0
        BY NoSlot
      <4> QED BY ONLY <2>2, <4>1, <4>2 DEF CoverStep
    <3>4. HeldStep(s, t, A, A, 0, 0)
      <4>1. \A e : LeasedOf(s, A, 0, e) = 0 /\ LeasedOf(t, A, 0, e) = 0 /\ KeptOf(s, 0, e) = 0 /\ KeptOf(t, 0, e) = 0
        BY <1>0, <2>2, NoSlot, NoRecord
      <4>2. \A e \in OnceIn(s) : s.elems[e].free \in Int
        BY <1>0, ElemType DEF OnceIn
      <4> QED BY ONLY <2>2, <4>1, <4>2 DEF HeldStep
    <3> QED BY <3>1, <3>2, <3>3, <3>4, NoSlot DEF Edit
  <2>4. Both(t, A) /\ StatusKept(s, t)
    BY <2>2, <2>3, PlainEdit
  <2> QED BY <1>2, <2>2, <2>4 DEF Others
<1> QED BY <1>1, <1>2

\* acquireSessionInstance
LEMMA SessionResult ==
    ASSUME NEW s, NEW A, Both(s, A), DOMAIN A = Slots, NEW q \in Queues, NEW x \in Sessions,
           NEW conc \in {Full} \cup 1 .. CN, NEW res \in AcquireSession(s, q, x, conc)
    PROVE  /\ ResOK(s, res, A) /\ Others(s, res.s, x)
           /\ Found(s, q, x) => res.s.sessionMap = s.sessionMap
<1>1. PICK s1 : s1 = ForgetGone(s, q, x)
  OBVIOUS
<1>2. /\ Both(s1, A) /\ StatusKept(s, s1) /\ Others(s, s1, x)
      /\ IF Found(s, q, x) THEN s1 = s ELSE s1.sessionMap[x] = 0
  BY ONLY Both(s, A), q \in Queues, x \in Sessions, <1>1, ForgetInv
<1>3. CASE Found(s, q, x)
  <2>1. res = SessionThread(s, q, x)
    BY <1>1, <1>2, <1>3 DEF AcquireSession, Found
  <2>2. ResOK(s, res, A) /\ res.s.sessionMap = s.sessionMap
    BY <1>3, <2>1, SessionTake
  <2> QED BY <2>2 DEF Others
<1>4. CASE ~Found(s, q, x)
  <2>1. PICK es : es = Busiest(s1, q, Wanted(conc))
    OBVIOUS
  <2>2. res \in IF es = {} THEN {Result(s1, None)}
                ELSE {SessionThread(Bind(s1, q, e, x, conc), q, x) : e \in es}
    BY <1>1, <1>2, <1>4, <2>1 DEF AcquireSession
  <2>3. CASE es = {}
    <3>1. res = Result(s1, None) /\ res.s = s1
      BY <2>2, <2>3 DEF Result
    <3> QED BY <1>2, <1>4, <3>1, NoAlloc
  <2>4. CASE es # {}
    <3>1. PICK e \in es : res = SessionThread(Bind(s1, q, e, x, conc), q, x)
      BY <2>2, <2>4
    <3>2. e \in DOMAIN s1.elems /\ InQueue(s1, q, s1.elems[e].ins)
      <4>1. e \in DOMAIN s1.elems /\ s1.queue[q][s1.elems[e].ins] = e
        BY <2>1, <3>1 DEF Busiest
      <4>2. s1.elems \in Seq(ElemT)
        BY <1>2 DEF Both, SInv, StateT
      <4> QED BY <4>1, <4>2, LenProperties DEF InQueue
    <3>3. ResOK(s1, res, A) /\ Others(s1, res.s, x)
      BY ONLY <1>2, <3>1, <3>2, DOMAIN A = Slots, q \in Queues, x \in Sessions,
              conc \in {Full} \cup 1 .. CN, BindTake
    <3> QED BY <1>2, <1>4, <3>3, ResLater DEF Others
  <2> QED BY <2>3, <2>4
<1> QED BY <1>3, <1>4

\* acquireDesignateInstance
LEMMA DesignateResult ==
    ASSUME NEW s, NEW A, Both(s, A), DOMAIN A = Slots, NEW q \in Queues, NEW x \in Sessions,
           NEW i \in Instances, NEW conc \in {Full} \cup 1 .. CN,
           NEW res \in AcquireDesignate(s, q, i, x, conc)
    PROVE  /\ ResOK(s, res, A) /\ Others(s, res.s, x)
           /\ s.sessionMap[x] # 0 /\ (InQueue(s, q, i) \/ Found(s, q, x)) => res.s.sessionMap = s.sessionMap
<1>1. CASE ~InQueue(s, q, i)
  <2>1. res \in AcquireSession(s, q, x, conc)
    BY <1>1 DEF AcquireDesignate, InQueue
  <2> QED BY <1>1, <2>1, SessionResult
<1>2. CASE InQueue(s, q, i)
  <2>0. PICK e \in DOMAIN s.elems : e = s.queue[q][i] /\ e # 0 /\ s.elems[e].ins = i
    BY <1>2 DEF Both, SInv, QueuesOK, InQueue
  <2>1. ASSUME res = Result(s, None)
        PROVE  ResOK(s, res, A) /\ res.s.sessionMap = s.sessionMap
    <3>1. StatusKept(s, s) /\ res.s = s
      BY <2>1 DEF StatusKept, Result
    <3> QED BY <2>1, <3>1, NoAlloc
  <2>2. \/ res = Result(s, None)
        \/ /\ s.sessionMap[x] # 0 /\ s.elems[s.recs[s.sessionMap[x]].elem].ins = i
           /\ res = SessionThread(s, q, x)
        \/ s.sessionMap[x] = 0 /\ res = SessionThread(Bind(s, q, e, x, conc), q, x)
    BY <1>2, <2>0 DEF AcquireDesignate, InQueue
  <2>3. CASE /\ s.sessionMap[x] # 0 /\ s.elems[s.recs[s.sessionMap[x]].elem].ins = i
             /\ res = SessionThread(s, q, x)
    <3>1. ResOK(s, res, A) /\ res.s.sessionMap = s.sessionMap
      <4>1. Found(s, q, x)
        BY <1>2, <2>3 DEF Found
      <4> QED BY <2>3, <4>1, SessionTake
    <3> QED BY <3>1 DEF Others
  <2>4. CASE s.sessionMap[x] = 0 /\ res = SessionThread(Bind(s, q, e, x, conc), q, x)
    <3>1. ResOK(s, res, A) /\ Others(s, res.s, x)
      BY <1>2, <2>0, <2>4, BindTake
    <3> QED BY <2>4, <3>1
  <2> QED BY <2>1, <2>2, <2>3, <2>4 DEF Others
<1> QED BY <1>1, <1>2
-----------------------------------------------------------------------------
(***************************************************************************)
(* Releasing                                                               *)
(***************************************************************************)
LEMMA DropInv ==
    ASSUME NEW s, NEW A, Both(s, A), NEW B, \A b \in Slots : B[b] = A[b] \/ B[b] = None
    PROVE  Both(s, B) /\ StatusKept(s, s)
<1>0. s \in StateT /\ SInv(s, A)
  BY DEF Both, SInv
<1>1. AllocsOK(s, B)
  BY <1>0 DEF SInv, AllocsOK
<1>2. ASSUME NEW k, NEW r PROVE Cardinality(Of(B, k, r)) <= Cardinality(Of(A, k, r))
  <2>1. Of(B, k, r) \subseteq Of(A, k, r)
    BY DEF Of
  <2>2. IsFiniteSet(Of(A, k, r))
    BY <1>0, HeldInt
  <2> QED BY <2>1, <2>2, FS_Subset
<1>3. ASSUME NEW e PROVE Cardinality(LeasedFrom(s, B, e)) <= Cardinality(LeasedFrom(s, A, e))
  <2>1. LeasedFrom(s, B, e) \subseteq LeasedFrom(s, A, e)
    BY DEF LeasedFrom
  <2>2. IsFiniteSet(LeasedFrom(s, A, e))
    BY <1>0, HeldInt
  <2> QED BY <2>1, <2>2, FS_Subset
<1>4. CoverOK(s, B)
  <2> SUFFICES ASSUME NEW r \in DOMAIN s.recs
               PROVE  /\ Cardinality(Of(B, "over", r)) <= s.recs[r].over
                      /\ Cardinality(Of(B, "sess", r)) <= s.recs[r].conc - s.recs[r].avail
    BY DEF CoverOK
  <2>1. /\ Cardinality(Of(A, "over", r)) <= s.recs[r].over
        /\ Cardinality(Of(A, "sess", r)) <= s.recs[r].conc - s.recs[r].avail
    BY <1>0 DEF SInv, CoverOK
  <2>2. \A k : Cardinality(Of(A, k, r)) \in Nat /\ Cardinality(Of(B, k, r)) \in Nat
    BY <1>0, HeldInt
  <2>3. s.recs[r].over \in Int /\ s.recs[r].conc \in Int /\ s.recs[r].avail \in Int
    BY <1>0, RecType
  <2> QED BY <1>2, <2>1, <2>2, <2>3
<1>5. Conserved(s, B)
  <2> SUFFICES ASSUME NEW e \in OnceIn(s)
               PROVE  s.elems[e].free + ReservedIn(s, e) + Cardinality(LeasedFrom(s, B, e)) <= CN
    BY DEF Conserved
  <2>1. s.elems[e].free + ReservedIn(s, e) + Cardinality(LeasedFrom(s, A, e)) <= CN
    BY <1>0 DEF SInv, Conserved
  <2>2. Cardinality(LeasedFrom(s, A, e)) \in Nat /\ Cardinality(LeasedFrom(s, B, e)) \in Nat
    BY <1>0, HeldInt
  <2>3. s.elems[e].free \in Int /\ ReservedIn(s, e) \in Int /\ CN \in Int
    <3>1. e \in DOMAIN s.elems
      BY DEF OnceIn
    <3> QED BY <1>0, <3>1, ElemType, HeldInt, ConstantsAssumption
  <2> QED BY <1>3, <2>1, <2>2, <2>3
<1> QED BY <1>0, <1>1, <1>4, <1>5 DEF Both, SInv, StatusKept

LEMMA SlotFreed ==
    ASSUME NEW A, DOMAIN A = Slots, NEW a \in Slots, A[a] # None, NEW al, al = A[a], NEW B,
           B = Put(A, a, None)
    PROVE  /\ \A k, p : OfOf(B, a, k, p) = 0
           /\ \A k, p : OfOf(A, a, k, p) = IF al.kind = k /\ al.rec = p THEN 1 ELSE 0
           /\ \A s, e : LeasedOf(s, B, a, e) = 0
           /\ \A s, e : LeasedOf(s, A, a, e) = IF al.ins = s.elems[e].ins THEN 1 ELSE 0
           /\ \A t : SlotStep(t, A, B, a)
<1>1. B[a] = None /\ \A b \in Slots \ {a} : B[b] = A[b]
  BY DEF Put
<1>2. (\A k, p : OfOf(B, a, k, p) = 0) /\ (\A s, e : LeasedOf(s, B, a, e) = 0)
  BY ONLY <1>1 DEF OfOf, LeasedOf
<1>3. \A k, p : OfOf(A, a, k, p) = IF al.kind = k /\ al.rec = p THEN 1 ELSE 0
  BY DEF OfOf
<1>4. \A s, e : LeasedOf(s, A, a, e) = IF al.ins = s.elems[e].ins THEN 1 ELSE 0
  BY DEF LeasedOf
<1>5. \A t : SlotStep(t, A, B, a)
  BY ONLY <1>1 DEF SlotStep
<1> QED BY <1>2, <1>3, <1>4, <1>5

LEMMA PutFields ==
    ASSUME NEW s \in StateT, NEW e \in DOMAIN s.elems, NEW n \in Nat
    PROVE  \E x \in Int : PutThreads(s, e, n) = FreeSet(s, e, x) /\ x <= s.elems[e].free + n
<1>1. PICK y \in Int : y = s.elems[e].free + n
  <2>1. s.elems[e].free \in Int
    BY ElemType
  <2> QED BY <2>1
<1>2. PICK x : x = Min({CN, y})
  OBVIOUS
<1>3. CN \in Int
  BY ConstantsAssumption
<1>4. x \in {CN, y} /\ \A z \in {CN, y} : x <= z
  <2>1. \E w \in {CN, y} : \A z \in {CN, y} : w <= z
    <3>1. CASE CN <= y
      BY <1>3, <3>1
    <3>2. CASE y <= CN
      BY <1>3, <3>2
    <3> QED BY <1>3, <3>1, <3>2
  <2> QED BY <1>2, <2>1 DEF Min
<1>5. x \in Int /\ x <= y
  BY <1>3, <1>4
<1>6. PutThreads(s, e, n) = FreeSet(s, e, x)
  BY <1>1, <1>2 DEF PutThreads, FreeSet
<1> QED BY <1>1, <1>5, <1>6

\* The edit is complete before the element is filed.
LEMMA FileEdit ==
    ASSUME NEW s, NEW A, Both(s, A), NEW e \in DOMAIN s.elems, NEW q \in Queues,
           InQueue(s, q, s.elems[e].ins), NEW x \in Int,
           NEW m, m.elems = WithFree(s, e, x), SameQueues(s, m),
           NEW r, NEW B, NEW a, Edit(s, m, r, A, B, a), NEW u, u = Refile(m, q, e)
    PROVE  Both(u, B) /\ StatusKept(s, u) /\ u.sessionMap = m.sessionMap
<1>1. m \in StateT /\ s \in StateT
  BY DEF Edit, Change, Both, SInv
<1>2. QueueStep(m, u)
  <2>1. PICK el : el = m.elems[e]
    OBVIOUS
  <2>2. e \in DOMAIN m.elems
    BY <1>1, WithFreeFields
  <2> QED BY ONLY <1>1, q \in Queues, <2>1, <2>2, u = Refile(m, q, e), RefileFields
<1>3. u \in StateT /\ u.elems = m.elems /\ u.recs = m.recs /\ u.sessionMap = m.sessionMap
  BY ONLY <1>2 DEF QueueStep, SameSessions
<1>4. Edit(s, u, r, A, B, a)
  <2>0. Edit(s, m, r, A, B, a)
    OBVIOUS
  <2>1. Change(s, u, r) /\ RecStep(s, u, r)
    BY ONLY <1>3, <2>0 DEF Edit, Change, RecStep
  <2>2. CoverStep(s, u, A, B, a)
    BY ONLY <1>3, <2>0 DEF Edit, CoverStep
  <2>3. HeldStep(s, u, A, B, a, r)
    BY ONLY <1>3, <2>0 DEF Edit, HeldStep, KeptOf, LeasedOf
  <2>4. SlotStep(u, A, B, a)
    BY ONLY <1>3, <2>0 DEF Edit, SlotStep, AllocOK
  <2> QED BY ONLY <2>1, <2>2, <2>3, <2>4 DEF Edit
<1>5. SameQueues(u, u) /\ u.elems = WithFree(s, e, x)
  BY <1>3 DEF SameQueues
<1>6. Both(u, B) /\ StatusKept(s, u)
  BY ONLY Both(s, A), e \in DOMAIN s.elems, q \in Queues, InQueue(s, q, s.elems[e].ins), x \in Int,
          <1>1, m.elems = WithFree(s, e, x), SameQueues(s, m), u = Refile(m, q, e), <1>4, <1>5, ThreadEdit
<1> QED BY <1>3, <1>6
RecChanged(s, w, r, new) ==
    /\ w \in StateT /\ w.elems = s.elems /\ SameQueues(s, w) /\ w.sessionMap = s.sessionMap
    /\ DOMAIN w.recs = DOMAIN s.recs /\ w.recs[r] = new
    /\ \A p \in DOMAIN s.recs \ {r} : w.recs[p] = s.recs[p]

LEMMA PutRecChanged ==
    ASSUME NEW s \in StateT, NEW r \in DOMAIN s.recs, NEW rec \in RecT, NEW w, w = PutRec(s, r, rec)
    PROVE  RecChanged(s, w, r, rec)
BY SetRec DEF RecChanged

LEMMA ChangedTwice ==
    ASSUME NEW s, NEW v, NEW w, NEW r, NEW old, NEW new, RecChanged(s, v, r, old), RecChanged(v, w, r, new)
    PROVE  RecChanged(s, w, r, new)
BY DEF RecChanged, SameQueues

\* startUnbindInstanceSession for a record whose user left the token if it was
\* expiring.
LEMMA UnbindFields ==
    ASSUME NEW s \in StateT, NEW r \in DOMAIN s.recs, NEW rec \in RecT, NEW q \in Queues,
           rec.timer # "done", rec.timer \in {"waiting", "fired"} => rec.expiring /\ rec.token,
           NEW s1, s1 = PutRec(s, r, rec), NEW w, w = StartUnbind(s1, q, r)
    PROVE  \E new \in RecT :
             /\ RecChanged(s, w, r, new) /\ TokenOf(new) /\ new.timer # "done"
             /\ new.sess = rec.sess /\ new.elem = rec.elem /\ new.conc = rec.conc
             /\ new.avail = rec.avail /\ new.over = rec.over
<1>0. RecChanged(s, s1, r, rec)
  BY PutRecChanged
<1>1. s1 \in StateT /\ s1.recs[r] = rec /\ r \in DOMAIN s1.recs
  BY ONLY <1>0, r \in DOMAIN s.recs DEF RecChanged
<1>2. CASE ~(rec.over = 0 /\ rec.avail = rec.conc /\ ~rec.expiring)
  <2>1. w = s1
    BY <1>1, <1>2 DEF StartUnbind
  <2>2. TokenOf(rec)
    BY DEF TokenOf
  <2> QED BY <1>0, <2>1, <2>2
<1>3. CASE rec.over = 0 /\ rec.avail = rec.conc /\ ~rec.expiring
  <2>1. PICK n1 : n1 = [rec EXCEPT !.expiring = TRUE]
    OBVIOUS
  <2>2. PICK n2 : n2 = [n1 EXCEPT !.timer = "waiting"]
    OBVIOUS
  <2>3. PICK n3 : n3 = [n2 EXCEPT !.que = q]
    OBVIOUS
  <2>4. n1 \in RecT /\ n2 \in RecT /\ n3 \in RecT
    <3>1. "waiting" \in Timers /\ TRUE \in BOOLEAN
      BY DEF Timers
    <3>2. n1 \in RecT
      BY <2>1, <3>1 DEF RecT
    <3>3. n2 \in RecT
      BY <2>2, <3>1, <3>2 DEF RecT
    <3>4. n3 \in RecT
      BY <2>3, <3>3 DEF RecT
    <3> QED BY <3>2, <3>3, <3>4
  <2>5. /\ n3.sess = rec.sess /\ n3.elem = rec.elem /\ n3.conc = rec.conc
        /\ n3.avail = rec.avail /\ n3.over = rec.over /\ n3.timer = "waiting"
    BY <2>1, <2>2, <2>3, <2>4 DEF RecT
  <2>6. n3.expiring
    BY <2>1, <2>2, <2>3, <2>4 DEF RecT
  <2>7. PICK y1 : y1 = PutRec(s1, r, n1)
    OBVIOUS
  <2>8. PICK y2 : y2 = PutRec(y1, r, n2)
    OBVIOUS
  <2>9. RecChanged(s, y1, r, n1)
    BY ONLY <1>0, <1>1, <2>4, <2>7, PutRecChanged, ChangedTwice
  <2>10. y1 \in StateT /\ r \in DOMAIN y1.recs /\ y1.recs[r] = n1
    BY ONLY <2>9, r \in DOMAIN s.recs DEF RecChanged
  <2>11. RecChanged(s, y2, r, n2)
    BY ONLY <2>4, <2>8, <2>9, <2>10, PutRecChanged, ChangedTwice
  <2>12. y2 \in StateT /\ r \in DOMAIN y2.recs /\ y2.recs[r] = n2
    BY ONLY <2>11, r \in DOMAIN s.recs DEF RecChanged
  <2>13. PICK y3 : y3 = PutRec(y2, r, n3)
    OBVIOUS
  <2>14. RecChanged(s, y3, r, n3)
    BY ONLY <2>4, <2>11, <2>12, <2>13, PutRecChanged, ChangedTwice
  <2>15. w = y3
    <3>1. w = [s1 EXCEPT !.recs[r].expiring = TRUE, !.recs[r].timer = "waiting", !.recs[r].que = q]
      BY <1>1, <1>3 DEF StartUnbind
    <3>2. y1 = [s1 EXCEPT !.recs[r].expiring = TRUE]
      BY ONLY <1>1, <2>1, <2>7 DEF PutRec
    <3>3. y2 = [y1 EXCEPT !.recs[r].timer = "waiting"]
      BY ONLY <2>2, <2>8, <2>10 DEF PutRec
    <3>4. y3 = [y2 EXCEPT !.recs[r].que = q]
      BY ONLY <2>3, <2>12, <2>13 DEF PutRec
    <3> QED BY ONLY <3>1, <3>2, <3>3, <3>4
  <2>16. TokenOf(n3)
    BY <1>3, <2>5, <2>6 DEF TokenOf
  <2> QED BY <2>4, <2>5, <2>14, <2>15, <2>16
<1> QED BY <1>2, <1>3
\* A thread goes back to the instance.
LEMMA ReturnPlain ==
    ASSUME NEW s, NEW A, Both(s, A), DOMAIN A = Slots, NEW q \in Queues, NEW e \in DOMAIN s.elems,
           InQueue(s, q, s.elems[e].ins), NEW a \in Slots, A[a] # None, A[a].ins = s.elems[e].ins,
           NEW B, B = Put(A, a, None), NEW t, t = Refile(PutThreads(s, e, 1), q, e)
    PROVE  Both(t, B) /\ StatusKept(s, t) /\ t.sessionMap = s.sessionMap
<1>0. s \in StateT /\ SInv(s, A)
  BY DEF Both, SInv
<1>1. PICK x \in Int : PutThreads(s, e, 1) = FreeSet(s, e, x) /\ x <= s.elems[e].free + 1
  BY <1>0, PutFields
<1>2. PICK m : m = FreeSet(s, e, x)
  OBVIOUS
<1>3. t = Refile(m, q, e)
  BY <1>1, <1>2
<1>4. m \in StateT /\ SameSessions(s, m) /\ SameQueues(s, m) /\ m.elems = WithFree(s, e, x)
  <2>1. /\ m \in StateT /\ SameSessions(s, m) /\ SameQueues(s, m)
        /\ m.elems = [s.elems EXCEPT ![e] = [s.elems[e] EXCEPT !.free = x]]
    BY ONLY <1>0, e \in DOMAIN s.elems, x \in Int, <1>2, SetFree
  <2> QED BY <2>1 DEF WithFree
<1>5. /\ DOMAIN m.elems = DOMAIN s.elems /\ \A f \in DOMAIN s.elems \ {e} : m.elems[f] = s.elems[f]
      /\ m.elems[e].ins = s.elems[e].ins /\ m.elems[e].free = x
  BY ONLY <1>0, <1>4, e \in DOMAIN s.elems, WithFreeFields
<1>6. m.recs = s.recs /\ m.sessionMap = s.sessionMap
  BY ONLY <1>4 DEF SameSessions
<1>7. PICK al : al = A[a]
  OBVIOUS
<1>8. /\ \A k, p : OfOf(B, a, k, p) = 0
      /\ \A k, p : OfOf(A, a, k, p) = IF al.kind = k /\ al.rec = p THEN 1 ELSE 0
      /\ \A z, f : LeasedOf(z, B, a, f) = 0
      /\ \A z, f : LeasedOf(z, A, a, f) = IF al.ins = z.elems[f].ins THEN 1 ELSE 0
      /\ \A z : SlotStep(z, A, B, a)
  BY ONLY <1>7, DOMAIN A = Slots, a \in Slots, A[a] # None, B = Put(A, a, None), SlotFreed
<1>9. Edit(s, m, 0, A, B, a)
  <2>1. Change(s, m, 0)
    BY ONLY <1>4, <1>5, <1>6 DEF Change
  <2>2. RecStep(s, m, 0)
    <3>1. 0 \notin DOMAIN s.recs
      BY <1>0, NoRecord
    <3> QED BY ONLY <1>6, <3>1 DEF RecStep
  <2>3. CoverStep(s, m, A, B, a)
    <3>1. \A p \in DOMAIN s.recs : s.recs[p].over \in Int /\ s.recs[p].conc \in Int /\ s.recs[p].avail \in Int
      BY <1>0, RecType
    <3>2. \A k, p : OfOf(A, a, k, p) = 0 \/ OfOf(A, a, k, p) = 1
      BY ONLY <1>8
    <3> QED BY ONLY <1>6, <1>8, <3>1, <3>2 DEF CoverStep
  <2>4. HeldStep(s, m, A, B, a, 0)
    <3> SUFFICES ASSUME NEW f \in OnceIn(s)
                 PROVE  m.elems[f].free + KeptOf(m, 0, f) + LeasedOf(m, B, a, f)
                          <= s.elems[f].free + KeptOf(s, 0, f) + LeasedOf(s, A, a, f)
      BY DEF HeldStep
    <3>1. f \in DOMAIN s.elems /\ s.elems[f].free \in Int /\ KeptOf(m, 0, f) = 0 /\ KeptOf(s, 0, f) = 0
      BY <1>0, <1>4, ElemType, NoRecord DEF OnceIn
    <3>2. LeasedOf(m, B, a, f) = 0 /\ (LeasedOf(s, A, a, f) = 0 \/ LeasedOf(s, A, a, f) = 1)
      BY ONLY <1>8
    <3>3. CASE f = e
      <4>1. LeasedOf(s, A, a, f) = 1
        BY <1>7, <1>8, <3>3
      <4>2. m.elems[f].free = x /\ x \in Int /\ x <= s.elems[f].free + 1
        BY <1>1, <1>5, <3>3
      <4> QED BY ONLY <3>1, <3>2, <4>1, <4>2
    <3>4. CASE f # e
      <4>1. m.elems[f] = s.elems[f]
        BY <1>5, <3>1, <3>4
      <4> QED BY ONLY <3>1, <3>2, <4>1
    <3> QED BY <3>3, <3>4
  <2> QED BY <1>8, <2>1, <2>2, <2>3, <2>4 DEF Edit
<1>10. Both(t, B) /\ StatusKept(s, t) /\ t.sessionMap = m.sessionMap
  BY ONLY Both(s, A), e \in DOMAIN s.elems, q \in Queues, InQueue(s, q, s.elems[e].ins), x \in Int,
          <1>3, <1>4, <1>9, FileEdit
<1> QED BY <1>6, <1>10

\* A thread goes back to the session's reservation, or one beyond it to the
\* instance: the edit of record r, before the element is filed.
LEMMA ReturnShare ==
    ASSUME NEW s, NEW A, Both(s, A), DOMAIN A = Slots, NEW q \in Queues, NEW e \in DOMAIN s.elems,
           InQueue(s, q, s.elems[e].ins), NEW a \in Slots, A[a] # None, A[a].ins = s.elems[e].ins,
           NEW B, B = Put(A, a, None), NEW r \in DOMAIN s.recs, A[a].rec = r,
           NEW new, NEW w, RecChanged(s, w, r, new), TokenOf(new), new.timer # "done",
           s.recs[r].timer # "done",
           new.sess = s.recs[r].sess, new.elem = s.recs[r].elem, new.conc = s.recs[r].conc,
           NEW x \in Int, NEW m \in StateT, m.elems = WithFree(s, e, x), SameQueues(s, m), SameSessions(w, m),
           \/ A[a].kind = "over" /\ new.over = s.recs[r].over - 1 /\ new.avail = s.recs[r].avail
                /\ x <= s.elems[e].free + 1
           \/ A[a].kind = "sess" /\ new.over = s.recs[r].over /\ new.avail = s.recs[r].avail + 1
                /\ x = s.elems[e].free,
           NEW t, t = Refile(m, q, e)
    PROVE  Both(t, B) /\ StatusKept(s, t) /\ t.sessionMap = s.sessionMap
<1>0. s \in StateT /\ SInv(s, A)
  BY DEF Both, SInv
<1>1. /\ DOMAIN m.recs = DOMAIN s.recs /\ m.recs[r] = new
      /\ \A p \in DOMAIN s.recs \ {r} : m.recs[p] = s.recs[p]
      /\ m.sessionMap = s.sessionMap
  BY DEF RecChanged, SameSessions
<1>2. /\ DOMAIN m.elems = DOMAIN s.elems /\ \A f \in DOMAIN s.elems \ {e} : m.elems[f] = s.elems[f]
      /\ m.elems[e].ins = s.elems[e].ins /\ m.elems[e].free = x
  BY ONLY <1>0, m.elems = WithFree(s, e, x), e \in DOMAIN s.elems, WithFreeFields
<1>3. PICK al : al = A[a]
  OBVIOUS
<1>4. /\ \A k, p : OfOf(B, a, k, p) = 0
      /\ \A k, p : OfOf(A, a, k, p) = IF al.kind = k /\ al.rec = p THEN 1 ELSE 0
      /\ \A z, f : LeasedOf(z, B, a, f) = 0
      /\ \A z, f : LeasedOf(z, A, a, f) = IF al.ins = z.elems[f].ins THEN 1 ELSE 0
      /\ \A z : SlotStep(z, A, B, a)
  BY ONLY <1>3, DOMAIN A = Slots, a \in Slots, A[a] # None, B = Put(A, a, None), SlotFreed
<1>5. /\ s.recs[r].over \in Int /\ s.recs[r].conc \in Int /\ s.recs[r].avail \in Int
      /\ s.elems[e].free \in Int
  BY <1>0, RecType, ElemType
<1>6. \/ al.kind = "over" /\ new.over = s.recs[r].over - 1 /\ new.avail = s.recs[r].avail
           /\ x <= s.elems[e].free + 1
      \/ al.kind = "sess" /\ new.over = s.recs[r].over /\ new.avail = s.recs[r].avail + 1
           /\ x = s.elems[e].free
  BY <1>3
<1>7. al.rec = r /\ al.ins = s.elems[e].ins /\ s.elems[s.recs[r].elem].ins = al.ins
  BY <1>0, <1>3, RecType DEF SInv, AllocsOK, AllocOK
<1>8. Edit(s, m, r, A, B, a)
  <2>1. Change(s, m, r)
    <3>1. new.sess = s.recs[r].sess /\ new.elem = s.recs[r].elem /\ m \in StateT
      OBVIOUS
    <3>2. \A f \in DOMAIN s.elems : m.elems[f].ins = s.elems[f].ins
      BY ONLY <1>2
    <3> QED BY ONLY <1>1, <1>2, <3>1, <3>2 DEF Change
  <2>2. RecStep(s, m, r)
    <3>1. TokenOf(new) /\ new.timer # "done"
      OBVIOUS
    <3> QED BY ONLY <1>1, <3>1 DEF RecStep
  <2>3. CoverStep(s, m, A, B, a)
    <3> SUFFICES ASSUME NEW p \in DOMAIN s.recs
                 PROVE  /\ s.recs[p].over - OfOf(A, a, "over", p) <= m.recs[p].over - OfOf(B, a, "over", p)
                        /\ s.recs[p].conc - s.recs[p].avail - OfOf(A, a, "sess", p)
                             <= m.recs[p].conc - m.recs[p].avail - OfOf(B, a, "sess", p)
      BY DEF CoverStep
    <3>1. s.recs[p].over \in Int /\ s.recs[p].conc \in Int /\ s.recs[p].avail \in Int
      BY <1>0, RecType
    <3>2. \A k : OfOf(A, a, k, p) = 0 \/ OfOf(A, a, k, p) = 1
      BY ONLY <1>4
    <3>3. \A k : OfOf(B, a, k, p) = 0
      BY ONLY <1>4
    <3>4. CASE p = r
      <4>1. OfOf(A, a, al.kind, p) = 1
        BY ONLY <1>4, <1>7, <3>4
      <4>2. m.recs[p].over = new.over /\ m.recs[p].avail = new.avail /\ m.recs[p].conc = s.recs[p].conc
        BY <1>1, <3>4
      <4>3. CASE al.kind = "over"
        <5>1. m.recs[p].over = s.recs[p].over - 1 /\ m.recs[p].avail = s.recs[p].avail
          BY ONLY <1>6, <3>4, <4>2, <4>3
        <5> QED BY ONLY <3>1, <3>2, <3>3, <4>1, <4>2, <4>3, <5>1
      <4>4. CASE al.kind = "sess"
        <5>1. m.recs[p].over = s.recs[p].over /\ m.recs[p].avail = s.recs[p].avail + 1
          BY ONLY <1>6, <3>4, <4>2, <4>4
        <5> QED BY ONLY <3>1, <3>2, <3>3, <4>1, <4>2, <4>4, <5>1
      <4> QED BY <1>6, <4>3, <4>4
    <3>5. CASE p # r
      <4>1. m.recs[p] = s.recs[p]
        BY <1>1, <3>5
      <4> QED BY ONLY <3>1, <3>2, <3>3, <4>1
    <3> QED BY <3>4, <3>5
  <2>4. HeldStep(s, m, A, B, a, r)
    <3> SUFFICES ASSUME NEW f \in OnceIn(s)
                 PROVE  m.elems[f].free + KeptOf(m, r, f) + LeasedOf(m, B, a, f)
                          <= s.elems[f].free + KeptOf(s, r, f) + LeasedOf(s, A, a, f)
      BY DEF HeldStep
    <3>1. f \in DOMAIN s.elems /\ s.elems[f].free \in Int /\ LeasedOf(m, B, a, f) = 0
      BY <1>0, <1>4, ElemType DEF OnceIn
    <3>2. LeasedOf(s, A, a, f) = IF al.ins = s.elems[f].ins THEN 1 ELSE 0
      BY ONLY <1>4
    <3>3. /\ KeptOf(s, r, f) = IF s.recs[r].elem = f THEN s.recs[r].avail ELSE 0
          /\ KeptOf(m, r, f) = IF s.recs[r].elem = f THEN new.avail ELSE 0
      BY <1>1 DEF KeptOf
    <3>4. s.recs[r].elem = f => al.ins = s.elems[f].ins
      BY ONLY <1>7
    <3>5. f = e => m.elems[f].free = x /\ al.ins = s.elems[f].ins /\ s.elems[e].free = s.elems[f].free
      BY ONLY <1>2, <1>7
    <3>6. f # e => m.elems[f].free = s.elems[f].free
      BY ONLY <1>2, <3>1
    <3>7. x \in Int
      OBVIOUS
    <3>8. CASE al.kind = "over"
      <4>1. new.avail = s.recs[r].avail /\ x <= s.elems[e].free + 1
        BY ONLY <1>6, <3>8
      <4>2. KeptOf(m, r, f) = KeptOf(s, r, f) /\ KeptOf(s, r, f) \in Int
        BY ONLY <1>5, <3>3, <4>1
      <4>3. CASE f = e
        <5>1. LeasedOf(s, A, a, f) = 1 /\ m.elems[f].free <= s.elems[f].free + 1 /\ m.elems[f].free \in Int
          BY ONLY <3>2, <3>5, <3>7, <4>1, <4>3
        <5> QED BY ONLY <3>1, <4>2, <5>1
      <4>4. CASE f # e
        <5>1. LeasedOf(s, A, a, f) = 0 \/ LeasedOf(s, A, a, f) = 1
          BY ONLY <3>2
        <5> QED BY ONLY <3>1, <3>6, <4>2, <4>4, <5>1
      <4> QED BY <4>3, <4>4
    <3>9. CASE al.kind = "sess"
      <4>1. new.avail = s.recs[r].avail + 1 /\ x = s.elems[e].free
        BY ONLY <1>6, <3>9
      <4>2. m.elems[f].free = s.elems[f].free
        BY ONLY <3>5, <3>6, <4>1
      <4>3. CASE s.recs[r].elem = f
        <5>1. LeasedOf(s, A, a, f) = 1
          BY ONLY <3>2, <3>4, <4>3
        <5>2. KeptOf(s, r, f) = s.recs[r].avail /\ KeptOf(m, r, f) = s.recs[r].avail + 1
          BY ONLY <3>3, <4>1, <4>3
        <5> QED BY ONLY <1>5, <3>1, <4>2, <5>1, <5>2
      <4>4. CASE s.recs[r].elem # f
        <5>1. LeasedOf(s, A, a, f) = 0 \/ LeasedOf(s, A, a, f) = 1
          BY ONLY <3>2
        <5>2. KeptOf(s, r, f) = 0 /\ KeptOf(m, r, f) = 0
          BY ONLY <3>3, <4>4
        <5> QED BY ONLY <3>1, <4>2, <5>1, <5>2
      <4> QED BY <4>3, <4>4
    <3> QED BY <1>6, <3>8, <3>9
  <2> QED BY <1>4, <2>1, <2>2, <2>3, <2>4 DEF Edit
<1>9. Both(t, B) /\ StatusKept(s, t) /\ t.sessionMap = m.sessionMap
  BY ONLY Both(s, A), e \in DOMAIN s.elems, q \in Queues, InQueue(s, q, s.elems[e].ins), x \in Int,
          m.elems = WithFree(s, e, x), SameQueues(s, m), t = Refile(m, q, e), <1>8, FileEdit
<1> QED BY <1>1, <1>9
LEMMA WithSame ==
    ASSUME NEW s \in StateT, NEW e \in DOMAIN s.elems
    PROVE  WithFree(s, e, s.elems[e].free) = s.elems
<1>1. s.elems[e] \in ElemT /\ s.elems \in Seq(ElemT)
  BY ElemType DEF StateT
<1>2. [s.elems[e] EXCEPT !.free = s.elems[e].free] = s.elems[e]
  BY <1>1 DEF ElemT
<1>3. [s.elems EXCEPT ![e] = s.elems[e]] = s.elems
  BY <1>1
<1> QED BY <1>2, <1>3 DEF WithFree

\* A record that an allocation still answers for is in use, and so its user
\* left the token.
LEMMA LeasedBusy ==
    ASSUME NEW s, NEW A, SInv(s, A), NEW a \in Slots, A[a] # None, NEW r \in DOMAIN s.recs, A[a].rec = r
    PROVE  /\ A[a].kind = "over" => s.recs[r].over >= 1
           /\ A[a].kind = "sess" => s.recs[r].conc - s.recs[r].avail >= 1
           /\ A[a].kind \in {"over", "sess"}
           /\ s.recs[r].timer \in {"waiting", "fired"} => s.recs[r].expiring /\ s.recs[r].token
<1>0. s \in StateT
  BY DEF SInv
<1>1. A[a].kind \in {"over", "sess"}
  <2>1. AllocOK(s, A[a]) /\ r # 0
    BY <1>0, RecType DEF SInv, AllocsOK
  <2> QED BY <2>1 DEF AllocOK, Allocation
<1>2. ASSUME NEW k, A[a].kind = k PROVE Cardinality(Of(A, k, r)) >= 1
  <2>1. a \in Of(A, k, r)
    BY <1>2 DEF Of
  <2>2. IsFiniteSet(Of(A, k, r)) /\ Cardinality(Of(A, k, r)) \in Nat
    BY <1>0, HeldInt
  <2>3. Cardinality(Of(A, k, r)) # 0
    BY <2>1, <2>2, FS_EmptySet
  <2> QED BY <2>2, <2>3
<1>3. /\ s.recs[r].over \in Int /\ s.recs[r].conc \in Int /\ s.recs[r].avail \in Int
      /\ Cardinality(Of(A, "over", r)) \in Nat /\ Cardinality(Of(A, "sess", r)) \in Nat
      /\ Cardinality(Of(A, "over", r)) <= s.recs[r].over
      /\ Cardinality(Of(A, "sess", r)) <= s.recs[r].conc - s.recs[r].avail
  BY <1>0, RecType, HeldInt DEF SInv, CoverOK
<1>4. A[a].kind = "over" => s.recs[r].over >= 1
  BY <1>2, <1>3
<1>5. A[a].kind = "sess" => s.recs[r].conc - s.recs[r].avail >= 1
  BY <1>2, <1>3
<1>6. s.recs[r].avail # s.recs[r].conc \/ s.recs[r].over # 0
  BY <1>1, <1>3, <1>4, <1>5
<1>7. TokenOf(s.recs[r])
  BY DEF SInv, TokensOK
<1> QED BY <1>1, <1>4, <1>5, <1>6, <1>7 DEF TokenOf

\* releaseInstanceInternal
LEMMA ReturnInv ==
    ASSUME NEW s, NEW A, Both(s, A), DOMAIN A = Slots, NEW q \in Queues, NEW a \in Slots, A[a] # None,
           NEW B, B = Put(A, a, None), NEW t, t = ReturnThread(s, q, A[a])
    PROVE  Both(t, B) /\ StatusKept(s, t) /\ t.sessionMap = s.sessionMap
<1>0. s \in StateT /\ SInv(s, A) /\ QueuesOK(s)
  BY DEF Both, SInv
<1>1. PICK al : al = A[a]
  OBVIOUS
<1>2. AllocOK(s, al) /\ al.ins \in Instances
  <2>1. AllocOK(s, al)
    BY <1>0, <1>1 DEF SInv, AllocsOK
  <2> QED BY <2>1 DEF AllocOK, Allocation
<1>3. PICK e : e = s.queue[q][al.ins]
  OBVIOUS
<1>4. PICK r : r = IF al.rec = 0 THEN 0 ELSE s.sessionMap[s.recs[al.rec].sess]
  OBVIOUS
<1>5. t = IF e = 0 \/ (al.rec # 0 /\ r = 0) THEN s
          ELSE IF al.rec = 0 \/ r # al.rec THEN Refile(PutThreads(s, e, 1), q, e)
          ELSE IF al.kind = "over"
          THEN Refile(PutThreads(StartUnbind([s EXCEPT !.recs[r].over = @ - 1], q, r), e, 1), q, e)
          ELSE Refile(StartUnbind([s EXCEPT !.recs[r].avail = @ + 1], q, r), q, e)
  BY <1>1, <1>3, <1>4 DEF ReturnThread
<1>6. CASE e = 0 \/ (al.rec # 0 /\ r = 0)
  <2>1. t = s
    BY ONLY <1>5, <1>6
  <2>2. \A b \in Slots : B[b] = A[b] \/ B[b] = None
    BY DEF Put
  <2> QED BY <2>1, <2>2, DropInv
<1>7. CASE e # 0 /\ ~(al.rec # 0 /\ r = 0)
  <2>0. /\ e \in DOMAIN s.elems /\ s.elems[e].ins = al.ins /\ InQueue(s, q, s.elems[e].ins)
    BY <1>0, <1>2, <1>3, <1>7 DEF QueuesOK, InQueue
  <2>1. CASE al.rec = 0 \/ r # al.rec
    <3>1. t = Refile(PutThreads(s, e, 1), q, e)
      BY ONLY <1>5, <1>7, <2>1
    <3>2. A[a].ins = s.elems[e].ins
      BY <1>1, <2>0
    <3> QED BY ONLY Both(s, A), DOMAIN A = Slots, q \in Queues, a \in Slots, A[a] # None,
                    B = Put(A, a, None), <2>0, <3>1, <3>2, ReturnPlain
  <2>2. CASE al.rec # 0 /\ r = al.rec
    <3>1. r \in DOMAIN s.recs
      BY <1>2, <2>2 DEF AllocOK
    <3>2. s.recs[r].timer # "done" /\ s.recs[r] \in RecT /\ s.recs[r].over \in Int /\ s.recs[r].avail \in Int
      <4>1. s.recs[r].sess \in Sessions /\ s.recs[r] \in RecT /\ s.recs[r].over \in Int /\ s.recs[r].avail \in Int
        BY <1>0, <3>1, RecType
      <4>2. s.sessionMap[s.recs[r].sess] = r /\ r # 0
        BY <1>4, <2>2
      <4> QED BY <1>0, <4>1, <4>2 DEF SInv, MapOK
    <3>3. /\ al.kind \in {"over", "sess"}
          /\ s.recs[r].timer \in {"waiting", "fired"} => s.recs[r].expiring /\ s.recs[r].token
      BY <1>0, <1>1, <2>2, <3>1, LeasedBusy
    <3>4. A[a].ins = s.elems[e].ins /\ A[a].rec = r /\ A[a].kind = al.kind
      BY <1>1, <2>0, <2>2
    <3>5. CASE al.kind = "over"
      <4>1. PICK rec : rec = [s.recs[r] EXCEPT !.over = s.recs[r].over - 1]
        OBVIOUS
      <4>2. /\ rec \in RecT /\ rec.sess = s.recs[r].sess /\ rec.elem = s.recs[r].elem
            /\ rec.conc = s.recs[r].conc /\ rec.avail = s.recs[r].avail /\ rec.over = s.recs[r].over - 1
            /\ rec.timer = s.recs[r].timer /\ rec.expiring = s.recs[r].expiring
            /\ rec.token = s.recs[r].token
        <5>1. s.recs[r].over - 1 \in Int
          BY <3>2
        <5> QED BY ONLY <3>2, <4>1, <5>1 DEF RecT
      <4>3. PICK s1 : s1 = PutRec(s, r, rec)
        OBVIOUS
      <4>4. PICK w : w = StartUnbind(s1, q, r)
        OBVIOUS
      <4>5. rec.timer # "done" /\ (rec.timer \in {"waiting", "fired"} => rec.expiring /\ rec.token)
        BY ONLY <3>2, <3>3, <4>2
      <4>6. PICK new \in RecT :
             /\ RecChanged(s, w, r, new) /\ TokenOf(new) /\ new.timer # "done"
             /\ new.sess = rec.sess /\ new.elem = rec.elem /\ new.conc = rec.conc
             /\ new.avail = rec.avail /\ new.over = rec.over
        BY ONLY <1>0, <3>1, q \in Queues, <4>2, <4>3, <4>4, <4>5, UnbindFields
      <4>7. s1 = [s EXCEPT !.recs[r].over = @ - 1]
        BY ONLY <4>1, <4>3 DEF PutRec
      <4>8. t = Refile(PutThreads(w, e, 1), q, e)
        BY ONLY <1>5, <1>7, <2>2, <3>5, <4>4, <4>7
      <4>9. w \in StateT /\ w.elems = s.elems /\ SameQueues(s, w) /\ e \in DOMAIN w.elems
        BY ONLY <2>0, <4>6 DEF RecChanged
      <4>10. PICK x \in Int : PutThreads(w, e, 1) = FreeSet(w, e, x) /\ x <= w.elems[e].free + 1
        BY ONLY <4>9, PutFields
      <4>11. PICK m : m = FreeSet(w, e, x)
        OBVIOUS
      <4>12. m \in StateT /\ SameSessions(w, m) /\ SameQueues(s, m) /\ m.elems = WithFree(s, e, x)
        <5>1. /\ m \in StateT /\ SameSessions(w, m) /\ SameQueues(w, m)
              /\ m.elems = [w.elems EXCEPT ![e] = [w.elems[e] EXCEPT !.free = x]]
          BY ONLY <4>9, x \in Int, <4>11, SetFree
        <5>2. m.elems = WithFree(s, e, x)
          BY ONLY <4>9, <5>1 DEF WithFree
        <5>3. SameQueues(s, m)
          BY ONLY <4>9, <5>1 DEF SameQueues
        <5> QED BY <5>1, <5>2, <5>3
      <4>13. t = Refile(m, q, e) /\ x <= s.elems[e].free + 1
        BY ONLY <4>8, <4>9, <4>10, <4>11
      <4>14. /\ RecChanged(s, w, r, new) /\ TokenOf(new) /\ new.timer # "done"
             /\ new.sess = s.recs[r].sess /\ new.elem = s.recs[r].elem /\ new.conc = s.recs[r].conc
             /\ A[a].kind = "over" /\ new.over = s.recs[r].over - 1 /\ new.avail = s.recs[r].avail
        BY ONLY <3>4, <3>5, <4>2, <4>6
      <4> QED BY ONLY Both(s, A), DOMAIN A = Slots, q \in Queues, a \in Slots, A[a] # None,
                      B = Put(A, a, None), <2>0, <3>1, <3>2, <3>4, <4>12, <4>13, <4>14, x \in Int, ReturnShare
    <3>6. CASE al.kind = "sess"
      <4>1. PICK rec : rec = [s.recs[r] EXCEPT !.avail = s.recs[r].avail + 1]
        OBVIOUS
      <4>2. /\ rec \in RecT /\ rec.sess = s.recs[r].sess /\ rec.elem = s.recs[r].elem
            /\ rec.conc = s.recs[r].conc /\ rec.avail = s.recs[r].avail + 1 /\ rec.over = s.recs[r].over
            /\ rec.timer = s.recs[r].timer /\ rec.expiring = s.recs[r].expiring
            /\ rec.token = s.recs[r].token
        <5>1. s.recs[r].avail + 1 \in Int
          BY <3>2
        <5> QED BY ONLY <3>2, <4>1, <5>1 DEF RecT
      <4>3. PICK s1 : s1 = PutRec(s, r, rec)
        OBVIOUS
      <4>4. PICK w : w = StartUnbind(s1, q, r)
        OBVIOUS
      <4>5. rec.timer # "done" /\ (rec.timer \in {"waiting", "fired"} => rec.expiring /\ rec.token)
        BY ONLY <3>2, <3>3, <4>2
      <4>6. PICK new \in RecT :
             /\ RecChanged(s, w, r, new) /\ TokenOf(new) /\ new.timer # "done"
             /\ new.sess = rec.sess /\ new.elem = rec.elem /\ new.conc = rec.conc
             /\ new.avail = rec.avail /\ new.over = rec.over
        BY ONLY <1>0, <3>1, q \in Queues, <4>2, <4>3, <4>4, <4>5, UnbindFields
      <4>7. s1 = [s EXCEPT !.recs[r].avail = @ + 1]
        BY ONLY <4>1, <4>3 DEF PutRec
      <4>8. t = Refile(w, q, e)
        BY ONLY <1>5, <1>7, <2>2, <3>6, <4>4, <4>7
      <4>9. PICK m : m = w
        OBVIOUS
      <4>10. PICK x \in Int : x = s.elems[e].free
        BY <1>0, <2>0, ElemType
      <4>11. w.elems = s.elems
        BY ONLY <4>6 DEF RecChanged
      <4>12. m \in StateT /\ SameSessions(w, m) /\ SameQueues(s, m) /\ m.elems = WithFree(s, e, x)
        <5>1. m \in StateT /\ SameSessions(w, m) /\ SameQueues(s, m)
          BY ONLY <4>6, <4>9 DEF RecChanged, SameSessions
        <5>2. WithFree(s, e, s.elems[e].free) = s.elems
          BY ONLY <1>0, <2>0, WithSame
        <5>3. m.elems = WithFree(s, e, x)
          BY ONLY <4>9, <4>10, <4>11, <5>2
        <5> QED BY <5>1, <5>3
      <4>13. t = Refile(m, q, e)
        BY ONLY <4>8, <4>9
      <4>14. /\ RecChanged(s, w, r, new) /\ TokenOf(new) /\ new.timer # "done"
             /\ new.sess = s.recs[r].sess /\ new.elem = s.recs[r].elem /\ new.conc = s.recs[r].conc
             /\ A[a].kind = "sess" /\ new.over = s.recs[r].over /\ new.avail = s.recs[r].avail + 1
        BY ONLY <3>4, <3>6, <4>2, <4>6
      <4> QED BY ONLY Both(s, A), DOMAIN A = Slots, q \in Queues, a \in Slots, A[a] # None,
                      B = Put(A, a, None), <2>0, <3>1, <3>2, <3>4, <4>10, <4>12, <4>13, <4>14,
                      x \in Int, ReturnShare
    <3> QED BY <3>3, <3>5, <3>6
  <2> QED BY <2>1, <2>2
<1> QED BY <1>6, <1>7
-----------------------------------------------------------------------------
(***************************************************************************)
(* Instances come, change and go.                                          *)
(***************************************************************************)
\* Only the published numbers and entries of a queue change.
LEMMA QueueInv ==
    ASSUME NEW s, NEW A, SInv(s, A), NEW t, QueueStep(s, t), QueuesOK(t)
    PROVE  SInv(t, A)
<1>1. t \in StateT /\ t.elems = s.elems /\ t.recs = s.recs /\ t.sessionMap = s.sessionMap
  BY DEF QueueStep, SameSessions
<1>2. RecsOK(t) /\ MapOK(t) /\ TokensOK(t)
  BY <1>1 DEF SInv, RecsOK, MapOK, TokensOK
<1>3. \A al : AllocOK(t, al) <=> AllocOK(s, al)
  BY <1>1 DEF AllocOK
<1>4. AllocsOK(t, A) /\ CoverOK(t, A)
  BY <1>1, <1>3 DEF SInv, AllocsOK, CoverOK
<1>5. \A e : ReservedIn(t, e) = ReservedIn(s, e) /\ LeasedFrom(t, A, e) = LeasedFrom(s, A, e)
  BY <1>1 DEF ReservedIn, Kept, KeptBy, LeasedFrom
<1>6. OnceIn(t) = OnceIn(s)
  BY <1>1 DEF OnceIn
<1>7. Conserved(t, A)
  BY <1>1, <1>5, <1>6 DEF SInv, Conserved
<1> QED BY <1>1, <1>2, <1>4, <1>7 DEF SInv

\* DelByID and the Pop operations
LEMMA DelInv ==
    ASSUME NEW s, NEW A, Both(s, A), NEW q \in Queues, NEW i \in Instances, NEW t, t = DelByID(s, q, i)
    PROVE  Both(t, A) /\ StatusKept(s, t) /\ t.sessionMap = s.sessionMap
<1>0. s \in StateT /\ SInv(s, A) /\ QueuesOK(s) /\ Exact(s)
  BY DEF Both, SInv
<1>1. CASE ~InQueue(s, q, i)
  <2>1. t = s
    BY <1>1 DEF DelByID
  <2> QED BY <2>1 DEF StatusKept
<1>2. CASE InQueue(s, q, i)
  <2>1. QueueStep(s, t) /\ QueuesOK(t) /\ Exact(t) /\ Filed(s, t, q, i, 0)
    BY <1>0, <1>2, DelExact
  <2>2. SInv(t, A)
    BY <1>0, <2>1, QueueInv
  <2>3. \A p \in Queues, j \in Instances : InQueue(t, p, j) => InQueue(s, p, j)
    BY <2>1 DEF InQueue, Filed
  <2>4. t.elems = s.elems /\ t.sessionMap = s.sessionMap
    BY <2>1 DEF QueueStep, SameSessions
  <2> QED BY <2>1, <2>2, <2>3, <2>4 DEF Both, StatusKept
<1> QED BY <1>1, <1>2

\* The equation of the fold in HandleFuncOwnerUpdate.
Moves(s, src, dst, D, g) ==
    g = [T \in D |-> IF T = {} THEN s ELSE Move(g[T \ {Some(T)}], Some(T), src, dst)]
MoveFold(s, src, dst, S) == CHOOSE g : Moves(s, src, dst, SUBSET S, g)

MoveSet(s, src, dst, S) == FoldSet(LAMBDA i, u : Move(u, i, src, dst), s, S)

LEMMA MoveIsFold ==
    ASSUME NEW s, NEW src, NEW dst, NEW S
    PROVE  MoveSet(s, src, dst, S) = MoveFold(s, src, dst, S)[S]
BY DEF MoveSet, FoldSet, MapThenFoldSet, MoveFold, Moves, Some

LEMMA MovesExist ==
    ASSUME NEW s, NEW src, NEW dst, NEW S, IsFiniteSet(S)
    PROVE  \E g : Moves(s, src, dst, SUBSET S, g)
<1> DEFINE D(n) == {T \in SUBSET S : Cardinality(T) <= n}
           P == {n \in Nat : \E g : Moves(s, src, dst, D(n), g)}
<1>1. 0 \in P
  <2> DEFINE g == [T \in D(0) |-> s]
  <2>1. \A T \in D(0) : T = {}
    BY SubsetCardinality
  <2>2. g = [T \in D(0) |-> IF T = {} THEN s ELSE Move(g[T \ {Some(T)}], Some(T), src, dst)]
    BY <2>1
  <2> QED BY <2>2 DEF Moves
<1>2. ASSUME NEW n \in P PROVE n + 1 \in P
  <2>1. PICK g : Moves(s, src, dst, D(n), g)
    OBVIOUS
  <2> DEFINE k == [T \in D(n + 1) |-> IF T = {} THEN s ELSE Move(g[T \ {Some(T)}], Some(T), src, dst)]
  <2>2. ASSUME NEW T \in D(n) PROVE T \in D(n + 1) /\ g[T] = k[T]
    <3>1. T \in D(n + 1)
      BY SubsetCardinality
    <3>2. g[T] = IF T = {} THEN s ELSE Move(g[T \ {Some(T)}], Some(T), src, dst)
      BY <2>1 DEF Moves
    <3> QED BY <3>1, <3>2
  <2>3. ASSUME NEW T \in D(n + 1), T # {} PROVE T \ {Some(T)} \in D(n)
    <3>1. Some(T) \in T
      BY <2>3, SomeIn
    <3>2. Cardinality(T \ {Some(T)}) = Cardinality(T) - 1 /\ Cardinality(T) \in Nat
      BY <3>1, SubsetCardinality
    <3> QED BY <3>1, <3>2
  <2>4. ASSUME NEW T \in D(n + 1)
        PROVE  k[T] = IF T = {} THEN s ELSE Move(k[T \ {Some(T)}], Some(T), src, dst)
    <3>1. CASE T = {}
      BY <3>1
    <3>2. CASE T # {}
      <4>1. g[T \ {Some(T)}] = k[T \ {Some(T)}]
        BY <3>2, <2>2, <2>3
      <4>2. k[T] = Move(g[T \ {Some(T)}], Some(T), src, dst)
        BY <3>2
      <4> QED BY <3>2, <4>1, <4>2
    <3> QED BY <3>1, <3>2
  <2>5. k = [T \in D(n + 1) |-> IF T = {} THEN s ELSE Move(k[T \ {Some(T)}], Some(T), src, dst)]
    <3>1. k = [T \in D(n + 1) |-> k[T]]
      OBVIOUS
    <3> HIDE DEF k
    <3> QED BY <3>1, <2>4
  <2>6. Moves(s, src, dst, D(n + 1), k)
    BY <2>5 DEF Moves
  <2>7. \E h : Moves(s, src, dst, D(n + 1), h)
    <3> HIDE DEF k, D
    <3> QED BY <2>6
  <2> HIDE DEF k
  <2>8. n + 1 \in Nat
    OBVIOUS
  <2> QED BY <2>7, <2>8
<1>3. Cardinality(S) \in P
  <2> HIDE DEF P
  <2>1. P \in SUBSET Nat
    BY DEF P
  <2>2. P = Nat
    BY <1>1, <1>2, <2>1, Induction
  <2> QED BY <2>2, SubsetCardinality
<1>4. D(Cardinality(S)) = SUBSET S
  <2>1. ASSUME NEW T \in SUBSET S PROVE Cardinality(T) <= Cardinality(S)
    BY FS_Subset
  <2> QED BY <2>1
<1> QED BY <1>3, <1>4

\* What moving the instances of T makes of s.
Moved(s, u, T, A) ==
    /\ Both(u, A) /\ StatusKept(s, u) /\ u.sessionMap = s.sessionMap
    /\ \A j \in Instances \ T, p \in Queues : u.queue[p][j] = s.queue[p][j]

LEMMA MoveOne ==
    ASSUME NEW s, NEW A, NEW src \in Queues, NEW dst \in Queues, src # dst,
           NEW T, NEW i \in T, i \in Instances, InQueue(s, src, i),
           NEW u, Moved(s, u, T \ {i}, A), NEW t, t = Move(u, i, src, dst)
    PROVE  Moved(s, t, T, A)
<1>0. Both(u, A) /\ StatusKept(s, u) /\ u.sessionMap = s.sessionMap
  BY DEF Moved
<1>1. u \in StateT /\ QueuesOK(u) /\ Exact(u) /\ SInv(u, A)
  BY <1>0 DEF Both, SInv
<1>2. InQueue(u, src, i)
  BY DEF Moved, InQueue
<1>3. /\ QueueStep(u, t) /\ QueuesOK(t) /\ Exact(t)
      /\ \A j \in Instances \ {i}, p \in Queues : t.queue[p][j] = u.queue[p][j]
  BY <1>1, <1>2, MoveExact
<1>4. SInv(t, A)
  BY <1>1, <1>3, QueueInv
<1>5. t.elems = u.elems /\ t.sessionMap = u.sessionMap
  BY <1>3 DEF QueueStep, SameSessions
<1>6. StatusKept(u, t)
  BY <1>2, <1>3, <1>5 DEF StatusKept, InQueue
<1>7. StatusKept(s, t)
  BY <1>0, <1>6, StatusKeptTwice
<1>8. \A j \in Instances \ T, p \in Queues : t.queue[p][j] = s.queue[p][j]
  BY <1>3 DEF Moved
<1> QED BY <1>0, <1>3, <1>4, <1>5, <1>7, <1>8 DEF Moved, Both

LEMMA MoveAll ==
    ASSUME NEW s, NEW A, Both(s, A), NEW src \in Queues, NEW dst \in Queues, src # dst,
           NEW S, S = {i \in Instances : InQueue(s, src, i)},
           NEW t, t = MoveSet(s, src, dst, S)
    PROVE  Both(t, A) /\ StatusKept(s, t) /\ t.sessionMap = s.sessionMap
<1>1. IsFiniteSet(S)
  BY ConstantsAssumption, FS_Subset
<1>2. PICK g : g = MoveFold(s, src, dst, S)
  OBVIOUS
<1>3. t = g[S]
  BY <1>2, MoveIsFold
<1>4. Moves(s, src, dst, SUBSET S, g)
  BY <1>1, <1>2, MovesExist DEF MoveFold
<1>5. \A T \in SUBSET S : g[T] = IF T = {} THEN s ELSE Move(g[T \ {Some(T)}], Some(T), src, dst)
  BY <1>4 DEF Moves
<1> DEFINE P == {n \in Nat : \A T \in SUBSET S : Cardinality(T) = n => Moved(s, g[T], T, A)}
<1>6. 0 \in P
  <2>1. ASSUME NEW T \in SUBSET S, Cardinality(T) = 0 PROVE Moved(s, g[T], T, A)
    <3>1. T = {}
      BY <1>1, <2>1, SubsetCardinality
    <3>2. g[T] = s
      BY <1>5, <3>1
    <3> QED BY <3>2 DEF Moved, StatusKept
  <2> QED BY <2>1
<1>7. ASSUME NEW n \in P PROVE n + 1 \in P
  <2>1. ASSUME NEW T \in SUBSET S, Cardinality(T) = n + 1 PROVE Moved(s, g[T], T, A)
    <3>1. n \in Nat
      OBVIOUS
    <3>2. T # {}
      BY <1>1, <2>1, <3>1, SubsetCardinality
    <3>3. PICK i \in T : i = Some(T)
      BY <3>2, SomeIn
    <3>4. T \ {i} \in SUBSET S /\ Cardinality(T \ {i}) = n
      BY <1>1, <2>1, <3>1, SubsetCardinality
    <3>5. PICK u : u = g[T \ {i}]
      OBVIOUS
    <3>6. Moved(s, u, T \ {i}, A)
      BY <3>4, <3>5
    <3>7. g[T] = Move(u, i, src, dst)
      BY <1>5, <3>2, <3>3, <3>5
    <3>8. i \in Instances /\ InQueue(s, src, i)
      OBVIOUS
    <3> HIDE DEF P
    <3> QED BY <3>6, <3>7, <3>8, MoveOne
  <2> QED BY <2>1
<1>8. P = Nat
  <2> HIDE DEF P
  <2>1. P \in SUBSET Nat
    BY DEF P
  <2> QED BY <1>6, <1>7, <2>1, Induction
<1>9. Moved(s, g[S], S, A)
  BY <1>1, <1>8, SubsetCardinality
<1> QED BY <1>3, <1>9 DEF Moved

\* An element is appended.
Grow(s, el) == [s EXCEPT !.elems = Append(s.elems, el)]

\* The elements of s stay, and element n is one more.
Grown(s, t, n, el) ==
    /\ n \notin DOMAIN s.elems /\ DOMAIN t.elems = DOMAIN s.elems \cup {n} /\ t.elems[n] = el
    /\ \A e \in DOMAIN s.elems : t.elems[e] = s.elems[e]

LEMMA GrowFields ==
    ASSUME NEW s \in StateT, NEW el \in ElemT, NEW m, m = Grow(s, el), NEW n, n = Len(s.elems) + 1
    PROVE  /\ m \in StateT /\ SameSessions(s, m) /\ SameQueues(s, m)
           /\ Grown(s, m, n, el) /\ n \in DOMAIN m.elems /\ n # 0
<1>1. s.elems \in Seq(ElemT)
  BY DEF StateT
<1>2. PICK E : E = Append(s.elems, el)
  OBVIOUS
<1>3. /\ E \in Seq(ElemT) /\ Len(E) = n /\ E[n] = el
      /\ \A p \in 1 .. Len(s.elems) : E[p] = s.elems[p]
  BY <1>1, <1>2, AppendProperties
<1>4. DOMAIN E = 1 .. n /\ DOMAIN s.elems = 1 .. Len(s.elems) /\ Len(s.elems) \in Nat
  BY <1>1, <1>3, LenProperties
<1>5. m \in StateT /\ SameSessions(s, m) /\ SameQueues(s, m) /\ m.elems = E
  <2> HIDE DEF ElemT, RecT
  <2>1. m = [s EXCEPT !.elems = E]
    BY <1>2 DEF Grow
  <2> QED BY <1>3, <2>1 DEF StateT, SameSessions, SameQueues
<1> QED BY <1>3, <1>4, <1>5 DEF Grown

\* No allocation and no record is of an instance that comes for the first time.
LEMMA GrowInv ==
    ASSUME NEW s, NEW A, SInv(s, A), NEW m \in StateT, SameSessions(s, m), m.queue = s.queue,
           NEW n, NEW el \in ElemT, el.free = CN, Grown(s, m, n, el)
    PROVE  SInv(m, A)
<1>0. s \in StateT /\ m.recs = s.recs /\ m.sessionMap = s.sessionMap
  BY DEF SInv, SameSessions
<1>1. \A e \in DOMAIN s.elems : e \in DOMAIN m.elems /\ m.elems[e] = s.elems[e] /\ e # n
  BY DEF Grown
<1>2. QueuesOK(m)
  BY <1>1 DEF SInv, QueuesOK
<1>3. RecsOK(m) /\ MapOK(m) /\ TokensOK(m)
  BY <1>0, <1>1 DEF SInv, RecsOK, MapOK, TokensOK
<1>4. ASSUME NEW al, AllocOK(s, al) PROVE AllocOK(m, al)
  <2>1. \E e \in DOMAIN m.elems : m.elems[e].ins = al.ins
    BY <1>1, <1>4 DEF AllocOK
  <2>2. al.rec # 0 => al.rec \in DOMAIN m.recs /\ m.elems[m.recs[al.rec].elem].ins = al.ins
    BY <1>0, <1>1, <1>4 DEF AllocOK, SInv, RecsOK
  <2> QED BY <1>4, <2>1, <2>2 DEF AllocOK
<1>5. AllocsOK(m, A)
  BY <1>4 DEF SInv, AllocsOK
<1>6. CoverOK(m, A)
  BY <1>0 DEF SInv, CoverOK
<1>7. Conserved(m, A)
  <2> SUFFICES ASSUME NEW e \in OnceIn(m)
               PROVE  m.elems[e].free + ReservedIn(m, e) + Cardinality(LeasedFrom(m, A, e)) <= CN
    BY DEF Conserved
  <2>1. CASE e = n
    <3>1. LeasedFrom(m, A, e) = {}
      <4> SUFFICES ASSUME NEW a \in Slots, A[a] # None, A[a].ins = m.elems[e].ins PROVE FALSE
        BY DEF LeasedFrom
      <4>1. PICK f \in DOMAIN s.elems : s.elems[f].ins = m.elems[e].ins
        BY DEF SInv, AllocsOK, AllocOK
      <4> QED BY <1>1, <2>1, <4>1 DEF OnceIn
    <3>2. KeptBy(m, e) = {}
      BY <1>0, <1>1, <2>1 DEF KeptBy, SInv, RecsOK
    <3>3. ReservedIn(m, e) = 0
      BY <3>2, SumEmpty DEF ReservedIn
    <3>4. Cardinality(LeasedFrom(m, A, e)) = 0
      BY <3>1, FS_EmptySet
    <3>5. m.elems[e].free = CN
      BY <2>1 DEF Grown
    <3> QED BY <3>3, <3>4, <3>5, ConstantsAssumption
  <2>2. CASE e # n
    <3>1. e \in DOMAIN s.elems
      BY <2>2 DEF OnceIn, Grown
    <3>2. e \in OnceIn(s)
      BY <1>1, <3>1 DEF OnceIn
    <3>3. ReservedIn(m, e) = ReservedIn(s, e)
      BY <1>0 DEF ReservedIn, Kept, KeptBy
    <3>4. LeasedFrom(m, A, e) = LeasedFrom(s, A, e)
      BY <1>1, <3>1 DEF LeasedFrom
    <3>5. m.elems[e] = s.elems[e]
      BY <1>1, <3>1
    <3> QED BY <3>2, <3>3, <3>4, <3>5 DEF SInv, Conserved
  <2> QED BY <2>1, <2>2
<1> QED BY <1>2, <1>3, <1>5, <1>6, <1>7 DEF SInv

\* The status of the instance's only element is st, if it has an entry at all.
LEMMA NewElemInv ==
    ASSUME NEW s, NEW A, Both(s, A), NEW q \in Queues, NEW i \in Instances, NEW st \in Status,
           ~InQueue(s, q, i), NEW t, t = NewElem(s, q, i, st)
    PROVE  /\ Both(t, A) /\ t.sessionMap = s.sessionMap
           /\ \E n : /\ Grown(s, t, n, [ins |-> i, free |-> CN, status |-> st])
                     /\ \A p \in Queues, j \in Instances \ {i} : t.queue[p][j] = s.queue[p][j]
<1>0. s \in StateT /\ SInv(s, A) /\ QueuesOK(s) /\ Exact(s)
  BY DEF Both, SInv
<1>1. PICK el : el = [ins |-> i, free |-> CN, status |-> st]
  OBVIOUS
<1>2. el \in ElemT /\ el.ins = i /\ el.free = CN /\ el.status = st
  <2>1. CN \in Int
    BY ConstantsAssumption
  <2> QED BY <1>1, <2>1 DEF ElemT
<1>3. PICK m : m = Grow(s, el)
  OBVIOUS
<1>4. PICK n : n = Len(s.elems) + 1
  OBVIOUS
<1>5. t = PushBack(m, q, n)
  BY ONLY t = NewElem(s, q, i, st), <1>1, <1>3, <1>4 DEF NewElem, Grow
<1>6. /\ m \in StateT /\ SameSessions(s, m) /\ SameQueues(s, m)
      /\ Grown(s, m, n, el) /\ n \in DOMAIN m.elems /\ n # 0
  BY ONLY <1>0, <1>2, <1>3, <1>4, GrowFields
<1>7. m.queue = s.queue
  BY <1>6 DEF SameQueues
<1>8. SInv(m, A)
  BY <1>0, <1>2, <1>6, <1>7, GrowInv
<1>9. /\ i = m.elems[n].ins /\ ~InQueue(m, q, i) /\ QueuesOK(m)
      /\ DOMAIN s.elems \ {n} = DOMAIN m.elems \ {n}
      /\ \A f \in DOMAIN s.elems : m.elems[f] = s.elems[f]
  BY <1>2, <1>6, <1>7, <1>8 DEF Grown, SInv, InQueue
<1>10. AllOnce(m) => \A p \in Queues : s.queue[p][i] = 0
  <2> SUFFICES ASSUME AllOnce(m), NEW p \in Queues, s.queue[p][i] # 0 PROVE FALSE
    OBVIOUS
  <2>1. PICK f \in DOMAIN s.elems : s.elems[f].ins = i
    BY <1>0 DEF QueuesOK
  <2>2. f \in DOMAIN m.elems \ {n} /\ m.elems[f].ins = m.elems[n].ins
    BY <1>6, <1>9, <2>1 DEF Grown
  <2> QED BY <1>6, <2>2 DEF AllOnce, OnceIn
<1>11. QueueStep(m, t) /\ QueuesOK(t) /\ Exact(t) /\ Filed(m, t, q, i, n)
  BY ONLY <1>0, <1>5, <1>6, <1>9, <1>10, q \in Queues, PushExact
<1>12. SInv(t, A)
  BY <1>8, <1>11, QueueInv
<1>13. t.elems = m.elems /\ t.sessionMap = s.sessionMap
  BY <1>6, <1>11 DEF QueueStep, SameSessions
<1>14. Grown(s, t, n, el)
  BY <1>6, <1>13 DEF Grown
<1>15. \A p \in Queues, j \in Instances \ {i} : t.queue[p][j] = s.queue[p][j]
  BY <1>7, <1>11 DEF Filed
<1> QED BY <1>1, <1>11, <1>12, <1>13, <1>14, <1>15 DEF Both

StatusSet(s, e, st) == [s EXCEPT !.elems[e].status = st]

NoRevival(s, e, st) == AllOnce(s) /\ s.elems[e].status = "evicting" => st = "evicting"

\* t files the element e of s again, with status st.
Restated(s, t, q, e, st) == t = UpdateObjByID(StatusSet(s, e, st), q, e, s.elems[e].status)

\* HandleInstanceUpdate of an instance of the queue.
LEMMA StatusInv ==
    ASSUME NEW s, NEW A, Both(s, A), NEW q \in Queues, NEW i \in Instances, NEW st \in Status,
           NEW e, e = s.queue[q][i], e # 0,
           NoRevival(s, e, st), NEW t, Restated(s, t, q, e, st)
    PROVE  Both(t, A) /\ t.sessionMap = s.sessionMap
<1>0. s \in StateT /\ SInv(s, A) /\ QueuesOK(s) /\ Exact(s)
  BY DEF Both, SInv
<1>1. e \in DOMAIN s.elems /\ s.elems[e].ins = i
  BY <1>0 DEF QueuesOK
<1>2. PICK m : m = [s EXCEPT !.elems[e].status = st]
  OBVIOUS
<1>3. m \in StateT /\ SameSessions(s, m) /\ SameQueues(s, m) /\ m.elems = WithStatus(s, e, st)
  BY ONLY <1>0, <1>1, <1>2, st \in Status, SetStatus
<1>4. /\ QueueStep(m, t) /\ QueuesOK(t) /\ Exact(t)
  <2>1. t = UpdateObjByID(m, q, e, s.elems[e].status)
    BY <1>2 DEF Restated, StatusSet
  <2>2. AllOnce(s) /\ s.elems[e].status = "evicting" => st = "evicting"
    BY DEF NoRevival
  <2> QED BY ONLY <1>0, <1>1, <1>3, <2>1, <2>2, q \in Queues, i \in Instances, st \in Status,
                  e = s.queue[q][i], e # 0, StatusExact
<1>5. t \in StateT /\ t.elems = WithStatus(s, e, st) /\ t.recs = s.recs /\ t.sessionMap = s.sessionMap
  BY <1>3, <1>4 DEF QueueStep, SameSessions
<1>6. /\ DOMAIN t.elems = DOMAIN s.elems
      /\ \A f \in DOMAIN s.elems : t.elems[f].ins = s.elems[f].ins /\ t.elems[f].free = s.elems[f].free
  <2>1. /\ DOMAIN WithStatus(s, e, st) = DOMAIN s.elems
        /\ \A f \in DOMAIN s.elems \ {e} : WithStatus(s, e, st)[f] = s.elems[f]
        /\ WithStatus(s, e, st)[e].ins = s.elems[e].ins
        /\ WithStatus(s, e, st)[e].free = s.elems[e].free
    BY ONLY <1>0, <1>1, WithStatusFields
  <2> QED BY ONLY <1>1, <1>5, <2>1
<1>7. Change(s, t, 0)
  <2>1. 0 \notin DOMAIN s.recs
    BY <1>0, NoRecord
  <2> QED BY ONLY <1>5, <1>6, <2>1 DEF Change
<1>8. RecStep(s, t, 0)
  BY <1>0, <1>5, NoRecord DEF RecStep
<1>9. CoverStep(s, t, A, A, 0)
  <2>1. \A p \in DOMAIN s.recs : s.recs[p].over \in Int /\ s.recs[p].conc \in Int /\ s.recs[p].avail \in Int
    BY <1>0, RecType
  <2>2. \A k, p : OfOf(A, 0, k, p) = 0
    BY NoSlot
  <2> QED BY ONLY <1>5, <2>1, <2>2 DEF CoverStep
<1>10. HeldStep(s, t, A, A, 0, 0)
  <2>1. \A f : LeasedOf(s, A, 0, f) = 0 /\ LeasedOf(t, A, 0, f) = 0 /\ KeptOf(s, 0, f) = 0 /\ KeptOf(t, 0, f) = 0
    BY <1>0, <1>5, NoSlot, NoRecord
  <2>2. \A f \in OnceIn(s) : f \in DOMAIN s.elems /\ s.elems[f].free \in Int
    BY <1>0, ElemType DEF OnceIn
  <2> QED BY ONLY <1>6, <2>1, <2>2 DEF HeldStep
<1>11. SInv(t, A)
  BY <1>0, <1>4, <1>7, <1>8, <1>9, <1>10, NoSlot, ChangeInv
<1> QED BY <1>4, <1>5, <1>11 DEF Both
-----------------------------------------------------------------------------
(***************************************************************************)
(* The expiry of sessions.                                                 *)
(***************************************************************************)
\* A step that keeps the invariant, the statuses and the session map.
Quiet(s, t, A) == Both(t, A) /\ StatusKept(s, t) /\ t.sessionMap = s.sessionMap

LEMMA QuietTwice ==
    ASSUME NEW s, NEW t, NEW u, NEW A, Quiet(s, t, A), Quiet(t, u, A)
    PROVE  Quiet(s, u, A)
BY StatusKeptTwice DEF Quiet

LEMMA UseQuiet ==
    ASSUME NEW s, NEW A, Both(s, A), NEW r \in DOMAIN s.recs, NEW rec \in RecT,
           SameUse(s.recs[r], rec), TokenOf(rec), NEW t, t = PutRec(s, r, rec)
    PROVE  Quiet(s, t, A) /\ r \in DOMAIN t.recs /\ t.recs[r] = rec
<1>1. s \in StateT
  BY DEF Both, SInv
<1>2. t.sessionMap = s.sessionMap /\ DOMAIN t.recs = DOMAIN s.recs /\ t.recs[r] = rec
  BY <1>1, SetRec
<1>3. Both(t, A) /\ StatusKept(s, t)
  BY UseKept
<1> QED BY <1>2, <1>3 DEF Quiet

LEMMA TimerSet ==
    ASSUME NEW s, NEW A, Both(s, A), NEW r \in DOMAIN s.recs, s.recs[r].timer # "done",
           NEW x \in Timers, x # "done",
           x \in {"waiting", "fired"} => s.recs[r].timer \in {"waiting", "fired"},
           NEW t, t = [s EXCEPT !.recs[r].timer = x]
    PROVE  Quiet(s, t, A) /\ r \in DOMAIN t.recs /\ t.recs[r].timer = x
<1>0. s \in StateT /\ TokenOf(s.recs[r])
  BY DEF Both, SInv, TokensOK
<1>1. PICK rec : rec = [s.recs[r] EXCEPT !.timer = x]
  OBVIOUS
<1>2. s.recs[r] \in RecT
  BY <1>0, RecType
<1>3. rec \in RecT /\ rec.timer = x /\ SameUse(s.recs[r], rec)
  BY <1>1, <1>2 DEF RecT, SameUse
<1>4. TokenOf(rec)
  <2>1. rec.expiring = s.recs[r].expiring /\ rec.token = s.recs[r].token
    BY <1>1, <1>2 DEF RecT
  <2>2. rec.avail = s.recs[r].avail /\ rec.conc = s.recs[r].conc /\ rec.over = s.recs[r].over
    BY <1>3 DEF SameUse
  <2> QED BY <1>0, <1>3, <2>1, <2>2 DEF TokenOf
<1>5. t = PutRec(s, r, rec)
  BY <1>1 DEF PutRec
<1>6. Quiet(s, t, A) /\ r \in DOMAIN t.recs /\ t.recs[r] = rec
  BY ONLY Both(s, A), r \in DOMAIN s.recs, <1>3, <1>4, <1>5, UseQuiet
<1> QED BY <1>3, <1>6

LEMMA TokenGone ==
    ASSUME NEW s, NEW A, Both(s, A), NEW r \in DOMAIN s.recs,
           s.recs[r].timer \notin {"waiting", "fired"},
           NEW t, t = [s EXCEPT !.recs[r].token = FALSE]
    PROVE  Quiet(s, t, A) /\ r \in DOMAIN t.recs /\ t.recs[r].timer = s.recs[r].timer
<1>0. s \in StateT
  BY DEF Both, SInv
<1>1. PICK rec : rec = [s.recs[r] EXCEPT !.token = FALSE]
  OBVIOUS
<1>2. s.recs[r] \in RecT
  BY <1>0, RecType
<1>3. rec \in RecT /\ rec.timer = s.recs[r].timer /\ SameUse(s.recs[r], rec)
  BY <1>1, <1>2 DEF RecT, SameUse
<1>4. TokenOf(rec)
  BY <1>3 DEF TokenOf
<1>5. t = PutRec(s, r, rec)
  BY <1>1 DEF PutRec
<1>6. Quiet(s, t, A) /\ r \in DOMAIN t.recs /\ t.recs[r] = rec
  BY ONLY Both(s, A), r \in DOMAIN s.recs, <1>3, <1>4, <1>5, UseQuiet
<1> QED BY <1>3, <1>6

LEMMA ExpiringGone ==
    ASSUME NEW s, NEW A, Both(s, A), NEW r \in DOMAIN s.recs,
           s.recs[r].timer \notin {"waiting", "fired"},
           NEW t, t = [s EXCEPT !.recs[r].expiring = FALSE]
    PROVE  Quiet(s, t, A)
<1>0. s \in StateT
  BY DEF Both, SInv
<1>1. PICK rec : rec = [s.recs[r] EXCEPT !.expiring = FALSE]
  OBVIOUS
<1>2. s.recs[r] \in RecT
  BY <1>0, RecType
<1>3. rec \in RecT /\ rec.timer = s.recs[r].timer /\ SameUse(s.recs[r], rec)
  BY <1>1, <1>2 DEF RecT, SameUse
<1>4. TokenOf(rec)
  BY <1>3 DEF TokenOf
<1>5. t = PutRec(s, r, rec)
  BY <1>1 DEF PutRec
<1> QED BY ONLY Both(s, A), r \in DOMAIN s.recs, <1>3, <1>4, <1>5, UseQuiet

\* The steps of the goroutine that end in a reset of the flags.
LEMMA TimerQuiet ==
    ASSUME NEW s, NEW A, Both(s, A), NEW r \in DOMAIN s.recs, NEW t,
           \/ /\ s.recs[r].timer = "waiting" /\ t = [s EXCEPT !.recs[r].timer = "fired"]
           \/ /\ s.recs[r].timer = "waiting"
              /\ t = [s EXCEPT !.recs[r].timer = "cancelled", !.recs[r].token = FALSE]
           \/ /\ s.recs[r].timer = "cancelled"
              /\ t = [s EXCEPT !.recs[r].timer = "none", !.recs[r].expiring = FALSE]
           \/ /\ s.recs[r].timer = "fired"
              /\ t = [s EXCEPT !.recs[r].timer = "none", !.recs[r].token = FALSE,
                               !.recs[r].expiring = FALSE]
    PROVE  Quiet(s, t, A)
<1>0. "fired" \in Timers /\ "cancelled" \in Timers /\ "none" \in Timers
  BY DEF Timers
<1>1. CASE s.recs[r].timer = "waiting" /\ t = [s EXCEPT !.recs[r].timer = "fired"]
  <2>1. PICK x \in Timers : x = "fired"
    BY <1>0
  <2>2. t = [s EXCEPT !.recs[r].timer = x] /\ s.recs[r].timer # "done" /\ x # "done"
    BY <1>1, <2>1
  <2> QED BY <1>1, <2>1, <2>2, TimerSet
<1>2. CASE /\ s.recs[r].timer = "waiting"
           /\ t = [s EXCEPT !.recs[r].timer = "cancelled", !.recs[r].token = FALSE]
  <2>1. PICK u : u = [s EXCEPT !.recs[r].timer = "cancelled"]
    OBVIOUS
  <2>2. Quiet(s, u, A) /\ r \in DOMAIN u.recs /\ u.recs[r].timer = "cancelled"
    BY <1>0, <1>2, <2>1, TimerSet
  <2>3. t = [u EXCEPT !.recs[r].token = FALSE]
    BY ONLY <1>2, <2>1
  <2>4. Both(u, A) /\ u.recs[r].timer \notin {"waiting", "fired"}
    BY ONLY <2>2 DEF Quiet
  <2>5. Quiet(u, t, A)
    BY ONLY <2>2, <2>3, <2>4, TokenGone
  <2> QED BY <2>2, <2>5, QuietTwice
<1>3. CASE /\ s.recs[r].timer = "cancelled"
           /\ t = [s EXCEPT !.recs[r].timer = "none", !.recs[r].expiring = FALSE]
  <2>1. PICK u : u = [s EXCEPT !.recs[r].timer = "none"]
    OBVIOUS
  <2>2. Quiet(s, u, A) /\ r \in DOMAIN u.recs /\ u.recs[r].timer = "none"
    BY <1>0, <1>3, <2>1, TimerSet
  <2>3. t = [u EXCEPT !.recs[r].expiring = FALSE]
    BY ONLY <1>3, <2>1
  <2>4. Both(u, A) /\ u.recs[r].timer \notin {"waiting", "fired"}
    BY ONLY <2>2 DEF Quiet
  <2>5. Quiet(u, t, A)
    BY ONLY <2>2, <2>3, <2>4, ExpiringGone
  <2> QED BY <2>2, <2>5, QuietTwice
<1>4. CASE /\ s.recs[r].timer = "fired"
           /\ t = [s EXCEPT !.recs[r].timer = "none", !.recs[r].token = FALSE, !.recs[r].expiring = FALSE]
  <2>1. PICK u : u = [s EXCEPT !.recs[r].timer = "none"]
    OBVIOUS
  <2>2. Quiet(s, u, A) /\ r \in DOMAIN u.recs /\ u.recs[r].timer = "none"
    BY <1>0, <1>4, <2>1, TimerSet
  <2>3. PICK v : v = [u EXCEPT !.recs[r].token = FALSE]
    OBVIOUS
  <2>4. Both(u, A) /\ u.recs[r].timer \notin {"waiting", "fired"}
    BY ONLY <2>2 DEF Quiet
  <2>5. Quiet(u, v, A) /\ r \in DOMAIN v.recs /\ v.recs[r].timer = u.recs[r].timer
    BY ONLY <2>2, <2>3, <2>4, TokenGone
  <2>6. t = [v EXCEPT !.recs[r].expiring = FALSE]
    BY ONLY <1>4, <2>1, <2>3
  <2>7. Both(v, A) /\ v.recs[r].timer \notin {"waiting", "fired"}
    BY ONLY <2>4, <2>5 DEF Quiet
  <2>8. Quiet(v, t, A)
    BY ONLY <2>5, <2>6, <2>7, ExpiringGone
  <2> QED BY <2>2, <2>5, <2>8, QuietTwice
<1> QED BY <1>1, <1>2, <1>3, <1>4

\* What is left of the reservation is no more than the threads given back.
LEMMA ExpireEdit ==
    ASSUME NEW s, NEW A, Both(s, A), NEW r \in DOMAIN s.recs, s.recs[r].timer # "done",
           s.recs[r].avail = s.recs[r].conc, NEW x, x = s.recs[r].sess,
           NEW new \in RecT, new = [s.recs[r] EXCEPT !.timer = "done"],
           NEW t \in StateT, DOMAIN t.elems = DOMAIN s.elems,
           \A f \in DOMAIN s.elems : t.elems[f].ins = s.elems[f].ins,
           \A f \in DOMAIN s.elems \ {s.recs[r].elem} : t.elems[f].free = s.elems[f].free,
           t.elems[s.recs[r].elem].free <= s.elems[s.recs[r].elem].free + s.recs[r].conc,
           DOMAIN t.recs = DOMAIN s.recs, t.recs[r] = new,
           \A p \in DOMAIN s.recs \ {r} : t.recs[p] = s.recs[p],
           t.sessionMap[x] = 0, Others(s, t, x)
    PROVE  Edit(s, t, r, A, A, 0)
<1>0. s \in StateT /\ SInv(s, A) /\ MapOK(s) /\ RecsOK(s)
  BY DEF Both, SInv
<1>1. PICK e \in DOMAIN s.elems : e = s.recs[r].elem
  BY <1>0 DEF RecsOK
<1>2. /\ s.recs[r] \in RecT /\ x \in Sessions /\ r # 0 /\ s.recs[r].conc \in Nat
      /\ s.recs[r].over \in Int /\ s.recs[r].avail \in Int
  BY <1>0, RecType
<1>3. /\ new.timer = "done" /\ new.sess = x /\ new.elem = e /\ new.conc = s.recs[r].conc
      /\ new.avail = s.recs[r].avail /\ new.over = s.recs[r].over
  BY <1>1, <1>2 DEF RecT
<1>4. Change(s, t, r)
  BY <1>1, <1>3 DEF Change
<1>5. RecStep(s, t, r)
  <2>1. \A y \in Sessions : t.sessionMap[y] \in {0, s.sessionMap[y]}
    BY DEF Others
  <2>2. TokenOf(t.recs[r])
    BY <1>3 DEF TokenOf
  <2>3. ASSUME NEW y \in Sessions PROVE t.sessionMap[y] # r
    <3>1. CASE y = x
      BY <1>2, <3>1
    <3>2. CASE y # x
      <4>1. t.sessionMap[y] = s.sessionMap[y]
        BY <3>2 DEF Others
      <4>2. s.sessionMap[y] = r => s.recs[r].sess = y
        BY <1>0, <1>2 DEF MapOK
      <4> QED BY <3>2, <4>1, <4>2
    <3> QED BY <3>1, <3>2
  <2> QED BY <2>1, <2>2, <2>3 DEF RecStep
<1>6. CoverStep(s, t, A, A, 0)
  <2>1. \A p \in DOMAIN s.recs : /\ t.recs[p].over = s.recs[p].over /\ t.recs[p].conc = s.recs[p].conc
                                 /\ t.recs[p].avail = s.recs[p].avail
                                 /\ s.recs[p].over \in Int /\ s.recs[p].conc \in Int /\ s.recs[p].avail \in Int
    <3>1. \A p \in DOMAIN s.recs : s.recs[p].over \in Int /\ s.recs[p].conc \in Int /\ s.recs[p].avail \in Int
      BY <1>0, RecType
    <3>2. t.recs[r] = new /\ \A p \in DOMAIN s.recs \ {r} : t.recs[p] = s.recs[p]
      OBVIOUS
    <3> QED BY ONLY <1>3, <3>1, <3>2
  <2>2. \A k, p : OfOf(A, 0, k, p) = 0
    BY NoSlot
  <2> QED BY ONLY <2>1, <2>2 DEF CoverStep
<1>7. HeldStep(s, t, A, A, 0, r)
  <2> SUFFICES ASSUME NEW f \in OnceIn(s)
               PROVE  t.elems[f].free + KeptOf(t, r, f) + LeasedOf(t, A, 0, f)
                        <= s.elems[f].free + KeptOf(s, r, f) + LeasedOf(s, A, 0, f)
    BY DEF HeldStep
  <2>1. f \in DOMAIN s.elems
    BY DEF OnceIn
  <2>2. LeasedOf(t, A, 0, f) = 0 /\ LeasedOf(s, A, 0, f) = 0
    BY NoSlot
  <2>3. KeptOf(t, r, f) = 0
    BY <1>3 DEF KeptOf
  <2>4. s.elems[f].free \in Int /\ t.elems[f].free \in Int
    <3>1. f \in DOMAIN t.elems
      BY <2>1
    <3> QED BY <1>0, <2>1, <3>1, ElemType
  <2>5. CASE f = e
    <3>1. KeptOf(s, r, f) = s.recs[r].conc
      BY <1>1, <2>5 DEF KeptOf
    <3>2. t.elems[f].free <= s.elems[f].free + s.recs[r].conc
      BY <1>1, <2>5
    <3> QED BY ONLY <1>2, <2>2, <2>3, <2>4, <3>1, <3>2
  <2>6. CASE f # e
    <3>1. KeptOf(s, r, f) = 0
      BY <1>1, <2>6 DEF KeptOf
    <3>2. t.elems[f].free = s.elems[f].free
      BY <1>1, <2>1, <2>6
    <3> QED BY ONLY <2>2, <2>3, <2>4, <3>1, <3>2
  <2> QED BY <2>5, <2>6
<1>8. SlotStep(t, A, A, 0)
  BY NoSlot
<1> QED BY <1>4, <1>5, <1>6, <1>7, <1>8 DEF Edit

GiveBack(s, q, e, n) == IF InQueue(s, q, s.elems[e].ins) THEN PutThreads(s, e, n) ELSE s
Done(s, r) == [s EXCEPT !.recs[r].timer = "done"]

\* unbindInstanceSession of an idle record.
LEMMA ExpireInv ==
    ASSUME NEW s, NEW A, Both(s, A), NEW r \in DOMAIN s.recs, s.recs[r].timer # "done", ~Busy(s, r),
           NEW q \in Queues, NEW e, e = s.recs[r].elem, NEW x, x = s.recs[r].sess,
           NEW s1, s1 = GiveBack(s, q, e, s.recs[r].conc),
           NEW u, u = Refile(SetMap(s1, x, 0), q, e),
           NEW t, t = Done(u, r)
    PROVE  Both(t, A) /\ StatusKept(s, t) /\ Others(s, t, x) /\ t.recs[r].timer = "done"
<1>0. s \in StateT /\ SInv(s, A) /\ RecsOK(s) /\ 0 \in Nat
  BY DEF Both, SInv
<1>1. e \in DOMAIN s.elems /\ s.elems[e].free \in Int
  BY <1>0, ElemType DEF RecsOK
<1>2. /\ s.recs[r] \in RecT /\ x \in Sessions /\ s.recs[r].conc \in Nat
      /\ s.recs[r].avail = s.recs[r].conc
  BY <1>0, RecType DEF Busy
<1>3. PICK new : new = [s.recs[r] EXCEPT !.timer = "done"]
  OBVIOUS
<1>4. new \in RecT /\ new.timer = "done"
  <2>1. "done" \in Timers
    BY DEF Timers
  <2> QED BY <1>2, <1>3, <2>1 DEF RecT
<1>5. PICK y \in Int : /\ y <= s.elems[e].free + s.recs[r].conc
                       /\ s1 \in StateT /\ SameSessions(s, s1) /\ SameQueues(s, s1)
                       /\ s1.elems = WithFree(s, e, y)
                       /\ ~InQueue(s, q, s.elems[e].ins) => s1.elems = s.elems
  <2>1. CASE InQueue(s, q, s.elems[e].ins)
    <3>1. PICK y \in Int : s1 = FreeSet(s, e, y) /\ y <= s.elems[e].free + s.recs[r].conc
      <4>1. s1 = PutThreads(s, e, s.recs[r].conc)
        BY <2>1 DEF GiveBack
      <4>2. PICK n \in Nat : n = s.recs[r].conc
        BY <1>2
      <4>3. \E y \in Int : PutThreads(s, e, n) = FreeSet(s, e, y) /\ y <= s.elems[e].free + n
        BY ONLY <1>0, <1>1, n \in Nat, PutFields
      <4> QED BY <4>1, <4>2, <4>3
    <3>2. /\ s1 \in StateT /\ SameSessions(s, s1) /\ SameQueues(s, s1)
          /\ s1.elems = [s.elems EXCEPT ![e] = [s.elems[e] EXCEPT !.free = y]]
      BY ONLY <1>0, <1>1, <3>1, y \in Int, SetFree
    <3> QED BY <2>1, <3>1, <3>2 DEF WithFree
  <2>2. CASE ~InQueue(s, q, s.elems[e].ins)
    <3>1. s1 = s /\ SameSessions(s, s1) /\ SameQueues(s, s1)
      BY <2>2 DEF GiveBack, SameSessions, SameQueues
    <3>2. WithFree(s, e, s.elems[e].free) = s.elems
      BY <1>0, <1>1, WithSame
    <3>3. s.elems[e].free <= s.elems[e].free + s.recs[r].conc
      BY ONLY <1>1, <1>2
    <3> QED BY <1>0, <1>1, <2>2, <3>1, <3>2, <3>3
  <2> QED BY <2>1, <2>2
<1>6. PICK m : m = SetMap(s1, x, 0)
  OBVIOUS
<1>7. /\ m \in StateT /\ m.elems = s1.elems /\ m.recs = s1.recs /\ SameQueues(s1, m)
      /\ m.sessionMap[x] = 0 /\ \A z \in Sessions \ {x} : m.sessionMap[z] = s1.sessionMap[z]
  BY ONLY <1>0, <1>2, <1>5, <1>6, SetMapFields
<1>8. /\ m.elems = WithFree(s, e, y) /\ m.recs = s.recs /\ SameQueues(s, m) /\ Others(s, m, x)
  BY ONLY <1>5, <1>7 DEF SameQueues, SameSessions, Others
<1>9. /\ DOMAIN m.elems = DOMAIN s.elems
      /\ \A f \in DOMAIN s.elems \ {e} : m.elems[f] = s.elems[f]
      /\ m.elems[e].ins = s.elems[e].ins /\ m.elems[e].free = y
  BY ONLY <1>0, <1>1, <1>8, WithFreeFields
<1>10. u = Refile(m, q, e)
  BY <1>6
<1>11. QueueStep(m, u) /\ (~InQueue(m, q, s.elems[e].ins) => u = m)
  <2>1. PICK el : el = m.elems[e]
    OBVIOUS
  <2>2. m \in StateT /\ e \in DOMAIN m.elems /\ el.ins = s.elems[e].ins
    BY <1>1, <1>7, <1>9, <2>1
  <2>3. QueueStep(m, u)
    BY ONLY <1>10, <2>1, <2>2, q \in Queues, RefileFields
  <2>4. ~InQueue(m, q, el.ins) => u = m
    BY ONLY <1>10, <2>1 DEF Refile
  <2> QED BY <2>2, <2>3, <2>4
<1>12. u \in StateT /\ u.elems = m.elems /\ u.recs = s.recs /\ u.sessionMap = m.sessionMap
  BY ONLY <1>8, <1>11 DEF QueueStep, SameSessions
<1>13. t = PutRec(u, r, new)
  BY ONLY t = Done(u, r), <1>3, <1>12 DEF Done, PutRec
<1>14. /\ t \in StateT /\ t.elems = u.elems /\ SameQueues(u, t) /\ t.sessionMap = u.sessionMap
       /\ DOMAIN t.recs = DOMAIN s.recs /\ t.recs[r] = new
       /\ \A p \in DOMAIN s.recs \ {r} : t.recs[p] = s.recs[p]
  BY ONLY <1>4, <1>12, <1>13, r \in DOMAIN s.recs, SetRec
<1>15. Others(s, t, x) /\ t.sessionMap[x] = 0
  BY ONLY <1>7, <1>8, <1>12, <1>14 DEF Others
<1>16. Edit(s, t, r, A, A, 0)
  <2>1. /\ DOMAIN t.elems = DOMAIN s.elems
        /\ \A f \in DOMAIN s.elems : t.elems[f].ins = s.elems[f].ins
        /\ \A f \in DOMAIN s.elems \ {s.recs[r].elem} : t.elems[f].free = s.elems[f].free
        /\ t.elems[s.recs[r].elem].free <= s.elems[s.recs[r].elem].free + s.recs[r].conc
    BY ONLY <1>5, <1>9, <1>12, <1>14, e = s.recs[r].elem
  <2> QED BY ONLY Both(s, A), r \in DOMAIN s.recs, s.recs[r].timer # "done", x = s.recs[r].sess,
                  <1>2, <1>3, <1>4, <1>14, <1>15, <2>1, ExpireEdit
<1>17. CASE InQueue(s, q, s.elems[e].ins)
  <2>1. t.elems = WithFree(s, e, y)
    BY ONLY <1>8, <1>12, <1>14
  <2>2. Both(t, A) /\ StatusKept(s, t)
    BY ONLY Both(s, A), <1>1, q \in Queues, <1>17, y \in Int, <1>7, <1>8, <1>10, <2>1, <1>14, <1>16, ThreadEdit
  <2> QED BY <1>4, <1>14, <1>15, <2>2
<1>18. CASE ~InQueue(s, q, s.elems[e].ins)
  <2>1. ~InQueue(m, q, s.elems[e].ins)
    BY <1>8, <1>18 DEF InQueue, SameQueues
  <2>2. t.elems = s.elems /\ SameQueues(s, t)
    <3>1. u = m /\ s1.elems = s.elems
      BY ONLY <1>5, <1>11, <1>18, <2>1
    <3> QED BY ONLY <1>7, <1>8, <1>14, <3>1 DEF SameQueues
  <2>3. Both(t, A) /\ StatusKept(s, t)
    BY ONLY Both(s, A), <2>2, <1>16, PlainEdit
  <2> QED BY <1>4, <1>14, <1>15, <2>3
<1> QED BY <1>17, <1>18
-----------------------------------------------------------------------------
(***************************************************************************)
(* The steps of the specification.                                         *)
(***************************************************************************)
ReqFields == [sess : Sessions, conc : {Full} \cup 1 .. CN, limited : BOOLEAN,
              pc : {"read", "hit", "miss"}, ins : Instances \cup {None}]
ReqT   == {rq \in ReqFields : rq.pc = "hit" => rq.ins # None}
EventT == [ins : Instances, status : Status, que : Queues]
Allocations == [Slots -> Allocation \cup {None}]
Requests == [Clients -> ReqT \cup {None}]

\* An event under way does not revive an instance that is being evicted.
EventOK(s, ev) ==
    ev # None =>
        /\ ev \in EventT
        /\ AllOnce(s) /\ ev.status # "evicting" =>
             \A q \in Queues : InQueue(s, q, ev.ins) => ElemIn(s, q, ev.ins).status # "evicting"

Inv == /\ Both(sch, allocs) /\ allocs \in Allocations
       /\ req \in Requests /\ EventOK(sch, event)

\* BindingKept, for session x.
BindStep(x) ==
    LET r == sch.sessionMap[x] IN
    /\ r # 0 /\ sch'.sessionMap[x] # r
    /\ InQueue(sch, HomeQueue, sch.elems[sch.recs[r].elem].ins)
    => ExpiresRecord(x, r) \/ LimitedAndGone(x)
Bindings == \A x \in Sessions : BindStep(x)

LEMMA HomeIsQueue == HomeQueue \in Queues
BY DEF HomeQueue, Queues

LEMMA RouteIsQueue == \A i, limited : Route(sch, i, limited) \in Queues
BY HomeIsQueue DEF Route, Queues

LEMMA EventKept ==
    ASSUME NEW s, NEW t, QueuesOK(s), QueuesOK(t), StatusKept(s, t), NEW ev, EventOK(s, ev)
    PROVE  EventOK(t, ev)
<1> SUFFICES ASSUME ev # None PROVE EventOK(t, ev)
  BY DEF EventOK
<1>1. ev \in EventT /\ ev.ins \in Instances
  BY DEF EventOK, EventT
<1> SUFFICES ASSUME AllOnce(t), ev.status # "evicting", NEW q \in Queues, InQueue(t, q, ev.ins)
             PROVE  ElemIn(t, q, ev.ins).status # "evicting"
  BY <1>1 DEF EventOK
<1>2. PICK i \in Instances : i = ev.ins
  BY <1>1
<1>3. AllOnce(s)
  BY DEF AllOnce, OnceIn, StatusKept
<1>4. PICK o \in Queues : InQueue(s, o, i)
  BY <1>2 DEF StatusKept
<1>5. PICK g : g = s.queue[o][i]
  OBVIOUS
<1>6. g \in DOMAIN s.elems /\ s.elems[g].ins = i /\ s.elems[g].status # "evicting"
  <2>1. ElemIn(s, o, i).status # "evicting"
    BY <1>2, <1>3, <1>4 DEF EventOK
  <2> QED BY <1>4, <1>5, <2>1 DEF QueuesOK, InQueue, ElemIn
<1>7. PICK f : f = t.queue[q][i]
  OBVIOUS
<1>8. f \in DOMAIN t.elems /\ t.elems[f].ins = i
  BY <1>2, <1>7 DEF QueuesOK, InQueue
<1>9. f \in DOMAIN s.elems /\ s.elems[f].ins = i /\ t.elems[f].status = s.elems[f].status
  BY <1>8 DEF StatusKept
<1>10. f = g
  BY <1>3, <1>6, <1>9 DEF AllOnce, OnceIn
<1> QED BY <1>2, <1>6, <1>7, <1>9, <1>10 DEF ElemIn

\* Steps that leave the elements' statuses alone.
LEMMA KeepsInv ==
    ASSUME Inv, Both(sch', allocs'), StatusKept(sch, sch'), allocs' \in Allocations,
           req' \in Requests, event' = event
    PROVE  Inv'
<1>1. QueuesOK(sch) /\ QueuesOK(sch') /\ EventOK(sch, event)
  BY DEF Inv, Both, SInv
<1>2. PICK t : t = sch'
  OBVIOUS
<1>3. EventOK(t, event)
  BY <1>1, <1>2, EventKept
<1>4. EventOK(sch', event')
  BY <1>2, <1>3
<1> QED BY <1>4 DEF Inv

\* CreateInstanceLease
LEMMA GrantInv ==
    ASSUME Inv, NEW res, ResOK(sch, res, allocs), NEW f \in Slots, allocs[f] = None, Grant(res)
    PROVE  Both(sch', allocs') /\ StatusKept(sch, sch') /\ allocs' \in Allocations /\ sch' = res.s
<1>0. sch' = res.s /\ allocs \in Allocations
  BY DEF Grant, Inv
<1>1. CASE res.alloc = None
  <2>1. allocs' = allocs
    BY <1>1 DEF Grant
  <2>2. Put(allocs, f, res.alloc) = allocs
    BY <1>0, <1>1 DEF Put, Allocations
  <2>3. Both(res.s, Put(allocs, f, res.alloc)) /\ StatusKept(sch, res.s)
    BY DEF ResOK
  <2> QED BY <1>0, <2>1, <2>2, <2>3
<1>2. CASE res.alloc # None
  <2>1. PICK a \in Slots : allocs[a] = None /\ allocs' = [allocs EXCEPT ![a] = res.alloc]
    BY <1>2 DEF Grant
  <2>2. Both(res.s, Put(allocs, a, res.alloc)) /\ StatusKept(sch, res.s)
    BY <2>1 DEF ResOK
  <2>3. allocs' = Put(allocs, a, res.alloc)
    BY <2>1 DEF Put
  <2>4. res.alloc \in Allocation
    <3>1. AllocsOK(res.s, Put(allocs, a, res.alloc))
      BY <2>2 DEF Both, SInv
    <3>2. Put(allocs, a, res.alloc)[a] = res.alloc
      BY <1>0 DEF Put, Allocations
    <3> QED BY <1>2, <3>1, <3>2 DEF AllocsOK, AllocOK
  <2>5. allocs' \in Allocations
    BY <1>0, <2>1, <2>4 DEF Allocations
  <2> QED BY <1>0, <2>2, <2>3, <2>5
<1> QED BY <1>1, <1>2

LEMMA TakeMap ==
    ASSUME NEW s \in StateT, NEW q \in Queues, NEW e \in DOMAIN s.elems, NEW k, NEW r,
           NEW res, res = TakeThread(s, q, e, k, r)
    PROVE  res.s.sessionMap = s.sessionMap
<1>1. PICK m : m = FreeSet(s, e, s.elems[e].free - 1)
  OBVIOUS
<1>2. PICK u : u = Refile(m, q, e)
  OBVIOUS
<1>3. m.sessionMap = s.sessionMap /\ u.sessionMap = s.sessionMap
  <2>1. SameSessions(s, m) /\ u.sessionMap = s.sessionMap
    BY ONLY s \in StateT, q \in Queues, e \in DOMAIN s.elems, <1>1, <1>2, TakeFields
  <2> QED BY <2>1 DEF SameSessions
<1>4. res.s \in {s, m, u}
  <2>1. m = [s EXCEPT !.elems[e].free = @ - 1]
    BY ONLY <1>1 DEF FreeSet
  <2>2. res = IF s.elems[e].free = 0 THEN Result(s, None)
              ELSE IF ~InQueue(s, q, s.elems[e].ins) THEN Result(m, None)
              ELSE Result(u, Alloc(s, e, k, r))
    BY ONLY res = TakeThread(s, q, e, k, r), <1>2, <2>1 DEF TakeThread
  <2>3. \A v, al : Result(v, al).s = v
    BY DEF Result
  <2> QED BY ONLY <2>2, <2>3
<1> QED BY <1>3, <1>4

LEMMA AcquireStep ==
    ASSUME Inv, NEW c \in Clients, NEW limited \in BOOLEAN, Acquire(c, limited)
    PROVE  Inv' /\ Bindings
<1>0. /\ Both(sch, allocs) /\ sch \in StateT /\ DOMAIN allocs = Slots
  BY DEF Inv, Both, SInv, Allocations
<1>1. PICK f \in Slots : allocs[f] = None
  BY DEF Acquire
<1>2. PICK q \in Queues : q = Route(sch, None, limited)
  BY RouteIsQueue
<1>3. PICK e \in Busiest(sch, q, 1) : Grant(TakeThread(sch, q, e, "plain", 0))
  BY <1>2 DEF Acquire
<1>4. e \in DOMAIN sch.elems /\ InQueue(sch, q, sch.elems[e].ins)
  <2>1. e \in DOMAIN sch.elems /\ sch.queue[q][sch.elems[e].ins] = e
    BY <1>3 DEF Busiest
  <2>2. sch.elems \in Seq(ElemT)
    BY <1>0 DEF StateT
  <2> QED BY <2>1, <2>2, LenProperties DEF InQueue
<1>5. PICK res : res = TakeThread(sch, q, e, "plain", 0)
  OBVIOUS
<1>6. ResOK(sch, res, allocs)
  BY ONLY <1>0, <1>4, <1>5, q \in Queues, TakePlain
<1>7. Both(sch', allocs') /\ StatusKept(sch, sch') /\ allocs' \in Allocations /\ sch' = res.s
  BY <1>1, <1>3, <1>5, <1>6, GrantInv
<1>8. req' = req /\ event' = event /\ req \in Requests
  BY DEF Acquire, Inv
<1>9. sch'.sessionMap = sch.sessionMap
  <2>1. res.s.sessionMap = sch.sessionMap
    BY ONLY <1>0, <1>4, <1>5, q \in Queues, TakeMap
  <2> QED BY <1>7, <2>1
<1>10. Inv'
  BY <1>7, <1>8, KeepsInv
<1> QED BY <1>9, <1>10 DEF Bindings, BindStep

LEMMA AcquireNamedStep ==
    ASSUME Inv, NEW c \in Clients, NEW i \in Instances, NEW limited \in BOOLEAN,
           AcquireNamed(c, i, limited)
    PROVE  Inv' /\ Bindings
<1>0. /\ Both(sch, allocs) /\ sch \in StateT /\ DOMAIN allocs = Slots /\ QueuesOK(sch)
  BY DEF Inv, Both, SInv, Allocations
<1>1. PICK f \in Slots : allocs[f] = None
  BY DEF AcquireNamed
<1>2. PICK q \in Queues : q = Route(sch, i, limited)
  BY RouteIsQueue
<1>3. PICK e : e = sch.queue[q][i]
  OBVIOUS
<1>4. InQueue(sch, q, i) /\ Grant(TakeThread(sch, q, e, "plain", 0))
  BY <1>2, <1>3 DEF AcquireNamed
<1>5. e \in DOMAIN sch.elems /\ InQueue(sch, q, sch.elems[e].ins)
  BY <1>0, <1>3, <1>4 DEF QueuesOK, InQueue
<1>6. PICK res : res = TakeThread(sch, q, e, "plain", 0)
  OBVIOUS
<1>7. ResOK(sch, res, allocs)
  BY ONLY <1>0, <1>5, <1>6, q \in Queues, TakePlain
<1>8. Both(sch', allocs') /\ StatusKept(sch, sch') /\ allocs' \in Allocations /\ sch' = res.s
  BY <1>1, <1>4, <1>6, <1>7, GrantInv
<1>9. req' = req /\ event' = event /\ req \in Requests
  BY DEF AcquireNamed, Inv
<1>10. sch'.sessionMap = sch.sessionMap
  <2>1. res.s.sessionMap = sch.sessionMap
    BY ONLY <1>0, <1>5, <1>6, q \in Queues, TakeMap
  <2> QED BY <1>8, <2>1
<1>11. Inv'
  BY <1>8, <1>9, KeepsInv
<1> QED BY <1>10, <1>11 DEF Bindings, BindStep

\* The record a session is bound to, and its instance.
LEMMA RecordOf ==
    ASSUME NEW s, NEW A, Both(s, A), NEW x \in Sessions, s.sessionMap[x] # 0
    PROVE  LET r == s.sessionMap[x] IN
           /\ r \in DOMAIN s.recs /\ r \in Nat /\ s.recs[r].sess = x
           /\ s.elems[s.recs[r].elem].ins \in Instances
           /\ \A p \in DOMAIN s.recs : s.recs[p].sess = x => p <= r
<1>1. s \in StateT /\ MapOK(s) /\ RecsOK(s)
  BY DEF Both, SInv
<1>2. PICK r : r = s.sessionMap[x]
  OBVIOUS
<1>3. r \in DOMAIN s.recs /\ s.recs[r].sess = x /\ \A p \in DOMAIN s.recs : s.recs[p].sess = x => p <= r
  BY <1>1, <1>2 DEF MapOK
<1>4. s.elems[s.recs[r].elem].ins \in Instances /\ r \in Nat
  BY <1>1, <1>3, ElemType, RecType DEF RecsOK
<1> QED BY <1>2, <1>3, <1>4

LEMMA PeekStep ==
    ASSUME Inv, NEW c \in Clients, NEW x \in Sessions, NEW limited \in BOOLEAN,
           PeekSession(c, x, limited)
    PROVE  Inv' /\ Bindings
<1>0. Both(sch, allocs) /\ allocs \in Allocations /\ req \in Requests
  BY DEF Inv
<1>1. sch' = sch /\ allocs' = allocs /\ event' = event
  BY DEF PeekSession
<1>2. req' \in Requests
  <2> DEFINE r == sch.sessionMap[x]
             rq == [sess |-> x, conc |-> Conc[x], limited |-> limited,
                    pc   |-> IF r = 0 THEN "read" ELSE "hit",
                    ins  |-> IF r = 0 THEN None ELSE sch.elems[sch.recs[r].elem].ins]
  <2>1. req' = [req EXCEPT ![c] = rq]
    BY DEF PeekSession
  <2>2. Conc[x] \in {Full} \cup 1 .. CN
    BY ConstantsAssumption
  <2>3. r # 0 => sch.elems[sch.recs[r].elem].ins \in Instances
    BY <1>0, RecordOf
  <2>4. rq \in ReqT
    BY <2>2, <2>3, ConstantsAssumption DEF ReqT, ReqFields
  <2> QED BY <1>0, <2>1, <2>4 DEF Requests
<1>3. StatusKept(sch, sch')
  BY <1>1 DEF StatusKept
<1>4. Inv'
  BY <1>0, <1>1, <1>2, <1>3, KeepsInv
<1> QED BY <1>1, <1>4 DEF Bindings, BindStep

LEMMA ReadStep ==
    ASSUME Inv, NEW c \in Clients, ReadStore(c)
    PROVE  Inv' /\ Bindings
<1>0. Both(sch, allocs) /\ allocs \in Allocations /\ req \in Requests
  BY DEF Inv
<1>1. sch' = sch /\ allocs' = allocs /\ event' = event
  BY DEF ReadStore
<1>2. req' \in Requests
  <2>1. PICK i \in Instances \cup {None} :
          req' = [req EXCEPT ![c].pc = "miss", ![c].ins = i,
                             ![c].conc = IF i = None THEN @ ELSE Wanted(@)]
    BY DEF ReadStore
  <2>2. PICK rq \in ReqT : rq = req[c]
    BY <1>0 DEF ReadStore, Requests
  <2>3. rq \in ReqFields /\ rq.conc \in {Full} \cup 1 .. CN
    BY DEF ReqT, ReqFields
  <2>4. PICK k : k = IF i = None THEN rq.conc ELSE Wanted(rq.conc)
    OBVIOUS
  <2>5. k \in {Full} \cup 1 .. CN
    BY <2>3, <2>4, ConstantsAssumption DEF Wanted
  <2>6. PICK new : new = [[[rq EXCEPT !.pc = "miss"] EXCEPT !.ins = i] EXCEPT !.conc = k]
    OBVIOUS
  <2>7. new \in ReqT
    BY <2>3, <2>5, <2>6 DEF ReqT, ReqFields
  <2>8. req' = [req EXCEPT ![c] = new]
    BY <1>0, <2>1, <2>2, <2>3, <2>4, <2>6 DEF Requests, ReqFields
  <2> QED BY <1>0, <2>7, <2>8 DEF Requests
<1>3. StatusKept(sch, sch')
  BY <1>1 DEF StatusKept
<1>4. Inv'
  BY <1>0, <1>1, <1>2, <1>3, KeepsInv
<1> QED BY <1>1, <1>4 DEF Bindings, BindStep

\* Phase 3 of acquireWithSessionResolve: the local record wins if its instance
\* is in the queue of the current owner, unless a traffic limit sends the
\* request to the other one.
LEMMA ResolvedStep ==
    ASSUME Inv, NEW c \in Clients, AcquireResolved(c)
    PROVE  Inv' /\ Bindings
<1>0. /\ Both(sch, allocs) /\ sch \in StateT /\ DOMAIN allocs = Slots /\ req \in Requests
  BY DEF Inv, Both, SInv, Allocations
<1>1. PICK f \in Slots : allocs[f] = None
  BY DEF AcquireResolved
<1>2. PICK x \in Sessions, k \in {Full} \cup 1 .. CN, n \in Instances \cup {None} :
        /\ x = req[c].sess /\ k = req[c].conc /\ n = req[c].ins
        /\ req[c].limited \in BOOLEAN /\ (req[c].pc = "hit" => n # None)
        /\ req[c].pc \in {"hit", "miss"} /\ req[c] # None
  BY <1>0 DEF AcquireResolved, Requests, ReqT, ReqFields
<1>3. PICK i : i = Designated(c)
  OBVIOUS
<1>4. i \in Instances \cup {None}
  <2>1. sch.sessionMap[x] # 0 => sch.elems[sch.recs[sch.sessionMap[x]].elem].ins \in Instances
    BY <1>0, RecordOf
  <2> QED BY <1>2, <1>3, <2>1 DEF Designated
<1>5. PICK q \in Queues : q = Route(sch, i, req[c].limited)
  BY RouteIsQueue
<1>6. PICK res \in IF i = None THEN AcquireSession(sch, q, x, k) ELSE AcquireDesignate(sch, q, i, x, k) :
         Grant(res)
  BY <1>2, <1>3, <1>5 DEF AcquireResolved
<1>7. ResOK(sch, res, allocs) /\ Others(sch, res.s, x)
  <2>1. CASE i = None
    <3>1. res \in AcquireSession(sch, q, x, k)
      BY <1>6, <2>1
    <3> QED BY ONLY <1>0, <3>1, q \in Queues, x \in Sessions, k \in {Full} \cup 1 .. CN, SessionResult
  <2>2. CASE i # None
    <3>1. res \in AcquireDesignate(sch, q, i, x, k) /\ i \in Instances
      BY <1>4, <1>6, <2>2
    <3> QED BY ONLY <1>0, <3>1, q \in Queues, x \in Sessions, k \in {Full} \cup 1 .. CN, DesignateResult
  <2> QED BY <2>1, <2>2
<1>8. ASSUME Found(sch, HomeQueue, x),
             ~(req[c].limited /\ ~isFuncOwner /\ \A p \in Queues : ~InQueue(sch, p, i))
      PROVE  res.s.sessionMap = sch.sessionMap
  <2>1. i # None
    <3>1. sch.sessionMap[x] # 0 /\ sch.elems[sch.recs[sch.sessionMap[x]].elem].ins \in Instances
      BY <1>0, <1>8, RecordOf DEF Found
    <3> QED BY <1>2, <1>3, <3>1, ConstantsAssumption DEF Designated
  <2>2. res \in AcquireDesignate(sch, q, i, x, k) /\ i \in Instances
    BY <1>4, <1>6, <2>1
  <2>3. InQueue(sch, q, i) \/ q = HomeQueue
    BY <1>5, <1>8, <2>1 DEF Route, HomeQueue, Queues
  <2>4. sch.sessionMap[x] # 0 /\ (InQueue(sch, q, i) \/ Found(sch, q, x))
    BY <1>8, <2>3 DEF Found
  <2> QED BY ONLY <1>0, <2>2, <2>4, q \in Queues, x \in Sessions, k \in {Full} \cup 1 .. CN, DesignateResult
<1>9. Both(sch', allocs') /\ StatusKept(sch, sch') /\ allocs' \in Allocations /\ sch' = res.s
  BY <1>1, <1>6, <1>7, GrantInv
<1>10. req' \in Requests /\ event' = event /\ req'[c] = None
  <2>1. req' = [req EXCEPT ![c] = None] /\ event' = event
    BY DEF AcquireResolved
  <2> QED BY <1>0, <2>1 DEF Requests
<1>11. Inv'
  BY <1>9, <1>10, KeepsInv
<1>12. Bindings
  <2> SUFFICES ASSUME NEW y \in Sessions, sch'.sessionMap[y] # sch.sessionMap[y], Found(sch, HomeQueue, y)
               PROVE  LimitedAndGone(y)
    BY DEF Bindings, BindStep, Found
  <2>1. y = x
    BY <1>7, <1>9 DEF Others
  <2>2. req[c].limited /\ ~isFuncOwner /\ \A p \in Queues : ~InQueue(sch, p, i)
    BY <1>8, <1>9, <2>1
  <2> QED BY <1>2, <1>3, <1>10, <2>1, <2>2 DEF LimitedAndGone
<1> QED BY <1>11, <1>12

\* Only the state of an allocation changes.
LEMMA EndStep ==
    ASSUME Inv, NEW a \in Slots, EndLease(a)
    PROVE  Inv' /\ Bindings
<1>0. Both(sch, allocs) /\ allocs \in Allocations /\ req \in Requests
  BY DEF Inv
<1>1. sch' = sch /\ req' = req /\ event' = event /\ allocs' = [allocs EXCEPT ![a].state = "releasing"]
  BY DEF EndLease
<1>2. PICK al \in Allocation : al = allocs[a]
  BY <1>0 DEF EndLease, Allocations
<1>3. PICK new : new = [al EXCEPT !.state = "releasing"]
  OBVIOUS
<1>4. new \in Allocation /\ new.ins = al.ins /\ new.kind = al.kind /\ new.rec = al.rec
  BY <1>3 DEF Allocation
<1>5. al # None /\ new # None
  BY <1>4, ConstantsAssumption
<1>6. PICK B : B = allocs'
  OBVIOUS
<1>7. B \in Allocations /\ B[a] = new /\ \A b \in Slots \ {a} : B[b] = allocs[b]
  BY <1>0, <1>1, <1>2, <1>3, <1>4, <1>6 DEF Allocations
<1>8. \A k, r : Of(B, k, r) = Of(allocs, k, r)
  BY <1>2, <1>4, <1>5, <1>7 DEF Of
<1>9. \A e : LeasedFrom(sch, B, e) = LeasedFrom(sch, allocs, e)
  BY <1>2, <1>4, <1>5, <1>7 DEF LeasedFrom
<1>10. AllocsOK(sch, B)
  <2>1. AllocsOK(sch, allocs)
    BY <1>0 DEF Both, SInv
  <2>2. AllocOK(sch, al)
    BY <1>2, <1>5, <2>1 DEF AllocsOK
  <2>3. AllocOK(sch, new)
    BY <1>4, <2>2 DEF AllocOK
  <2> QED BY <1>7, <2>1, <2>3 DEF AllocsOK
<1>11. Both(sch, B)
  BY <1>0, <1>8, <1>9, <1>10 DEF Both, SInv, CoverOK, Conserved
<1>12. Both(sch', allocs') /\ StatusKept(sch, sch')
  BY <1>1, <1>6, <1>11 DEF StatusKept
<1>13. Inv'
  BY <1>0, <1>1, <1>6, <1>7, <1>12, KeepsInv
<1> QED BY <1>1, <1>13 DEF Bindings, BindStep

LEMMA ReleaseStep ==
    ASSUME Inv, NEW a \in Slots, ReleaseInstance(a)
    PROVE  Inv' /\ Bindings
<1>0. Both(sch, allocs) /\ allocs \in Allocations /\ req \in Requests /\ DOMAIN allocs = Slots
  BY DEF Inv, Allocations
<1>1. PICK q \in Queues : q = HomeQueue
  BY HomeIsQueue
<1>2. /\ allocs[a] # None /\ sch' = ReturnThread(sch, q, allocs[a])
      /\ allocs' = Put(allocs, a, None) /\ req' = req /\ event' = event
  BY <1>1 DEF ReleaseInstance, Put
<1>3. PICK t : t = ReturnThread(sch, q, allocs[a])
  OBVIOUS
<1>4. PICK B : B = Put(allocs, a, None)
  OBVIOUS
<1>5. Both(t, B) /\ StatusKept(sch, t) /\ t.sessionMap = sch.sessionMap
  BY ONLY <1>0, <1>2, <1>3, <1>4, q \in Queues, a \in Slots, ReturnInv
<1>6. Both(sch', allocs') /\ StatusKept(sch, sch') /\ sch'.sessionMap = sch.sessionMap
  BY <1>2, <1>3, <1>4, <1>5
<1>7. allocs' \in Allocations
  BY <1>0, <1>2 DEF Put, Allocations
<1>8. Inv'
  BY <1>0, <1>2, <1>6, <1>7, KeepsInv
<1> QED BY <1>6, <1>8 DEF Bindings, BindStep

LEMMA TimerStep ==
    ASSUME Inv, NEW r \in DOMAIN sch.recs, TimerFires(r) \/ TimerCancelled(r)
    PROVE  Inv' /\ Bindings
<1>0. Both(sch, allocs) /\ allocs \in Allocations /\ req \in Requests
  BY DEF Inv
<1>1. allocs' = allocs /\ req' = req /\ event' = event
  BY DEF TimerFires, TimerCancelled
<1>2. PICK t : t = sch'
  OBVIOUS
<1>3. \/ /\ sch.recs[r].timer = "waiting" /\ t = [sch EXCEPT !.recs[r].timer = "fired"]
      \/ /\ sch.recs[r].timer = "waiting"
         /\ t = [sch EXCEPT !.recs[r].timer = "cancelled", !.recs[r].token = FALSE]
      \/ /\ sch.recs[r].timer = "cancelled"
         /\ t = [sch EXCEPT !.recs[r].timer = "none", !.recs[r].expiring = FALSE]
  BY <1>2 DEF TimerFires, TimerCancelled
<1>4. Quiet(sch, t, allocs)
  BY ONLY <1>0, <1>3, r \in DOMAIN sch.recs, TimerQuiet
<1>5. Both(sch', allocs') /\ StatusKept(sch, sch') /\ sch'.sessionMap = sch.sessionMap
  BY <1>1, <1>2, <1>4 DEF Quiet
<1>6. Inv'
  BY <1>0, <1>1, <1>5, KeepsInv
<1> QED BY <1>5, <1>6 DEF Bindings, BindStep

\* unbindInstanceSession, timer case
LEMMA UnbindStep ==
    ASSUME Inv, NEW r \in DOMAIN sch.recs, Unbind(r)
    PROVE  Inv' /\ Bindings
<1>0. Both(sch, allocs) /\ allocs \in Allocations /\ req \in Requests /\ sch \in StateT
  BY DEF Inv, Both, SInv
<1>1. allocs' = allocs /\ req' = req /\ event' = event /\ sch.recs[r].timer = "fired"
  BY DEF Unbind
<1>2. PICK t : t = sch'
  OBVIOUS
<1>3. PICK q \in Queues : q = sch.recs[r].que
  BY <1>0, RecType
<1>4. PICK e : e = sch.recs[r].elem
  OBVIOUS
<1>5. PICK x \in Sessions : x = sch.recs[r].sess
  BY <1>0, RecType
<1>6. PICK s1 : s1 = GiveBack(sch, q, e, sch.recs[r].conc)
  OBVIOUS
<1>7. PICK u : u = Refile(SetMap(s1, x, 0), q, e)
  OBVIOUS
<1>8. \/ t = [sch EXCEPT !.recs[r].timer = "none", !.recs[r].token = FALSE, !.recs[r].expiring = FALSE]
      \/ ~Busy(sch, r) /\ t = Done(u, r)
  BY ONLY Unbind(r), <1>2, <1>3, <1>4, <1>5, <1>6, <1>7 DEF Unbind, SetMap, GiveBack, Done
<1>9. CASE t = [sch EXCEPT !.recs[r].timer = "none", !.recs[r].token = FALSE, !.recs[r].expiring = FALSE]
  <2>1. Quiet(sch, t, allocs)
    BY ONLY <1>0, <1>1, <1>9, r \in DOMAIN sch.recs, TimerQuiet
  <2>2. Both(sch', allocs') /\ StatusKept(sch, sch') /\ sch'.sessionMap = sch.sessionMap
    BY <1>1, <1>2, <2>1 DEF Quiet
  <2>3. Inv'
    BY <1>0, <1>1, <2>2, KeepsInv
  <2> QED BY <2>2, <2>3 DEF Bindings, BindStep
<1>10. CASE ~Busy(sch, r) /\ t = Done(u, r)
  <2>1. Both(t, allocs) /\ StatusKept(sch, t) /\ Others(sch, t, x) /\ t.recs[r].timer = "done"
    <3>1. sch.recs[r].timer # "done"
      BY <1>1
    <3> QED BY ONLY <1>0, <3>1, <1>4, <1>5, <1>6, <1>7, <1>10, q \in Queues, r \in DOMAIN sch.recs, ExpireInv
  <2>2. Both(sch', allocs') /\ StatusKept(sch, sch')
    BY <1>1, <1>2, <2>1
  <2>3. Inv'
    BY <1>0, <1>1, <2>2, KeepsInv
  <2>4. Bindings
    <3> SUFFICES ASSUME NEW y \in Sessions, sch.sessionMap[y] # 0, t.sessionMap[y] # sch.sessionMap[y]
                 PROVE  \E p \in 1 .. sch.sessionMap[y] :
                            /\ sch.recs[p].sess = y
                            /\ sch.recs[p].timer = "fired" /\ t.recs[p].timer = "done"
      BY <1>2 DEF Bindings, BindStep, ExpiresRecord
    <3>1. y = x
      BY <2>1 DEF Others
    <3>2. r <= sch.sessionMap[y] /\ sch.sessionMap[y] \in Nat
      BY <1>0, <1>5, <3>1, RecordOf
    <3>3. r \in 1 .. sch.sessionMap[y]
      BY <1>0, <3>2, RecType
    <3> QED BY <1>1, <1>5, <2>1, <3>1, <3>3
  <2> QED BY <2>3, <2>4
<1> QED BY <1>8, <1>9, <1>10

\* A new element revives no instance: while elements are unique, it is the
\* first of its instance.
LEMMA GrownEvent ==
    ASSUME NEW s, QueuesOK(s), NEW t, QueuesOK(t), NEW n, NEW el, Grown(s, t, n, el),
           el.status = "running", NEW i \in Instances, el.ins = i,
           \A p \in Queues, j \in Instances \ {i} : t.queue[p][j] = s.queue[p][j],
           NEW ev, EventOK(s, ev)
    PROVE  EventOK(t, ev)
<1> SUFFICES ASSUME ev # None PROVE EventOK(t, ev)
  BY DEF EventOK
<1>1. ev \in EventT /\ ev.ins \in Instances
  BY DEF EventOK, EventT
<1> SUFFICES ASSUME AllOnce(t), ev.status # "evicting", NEW q \in Queues, InQueue(t, q, ev.ins)
             PROVE  ElemIn(t, q, ev.ins).status # "evicting"
  BY <1>1 DEF EventOK
<1>2. PICK f : f = t.queue[q][ev.ins]
  OBVIOUS
<1>3. f \in DOMAIN t.elems /\ t.elems[f].ins = ev.ins
  BY <1>1, <1>2 DEF QueuesOK, InQueue
<1>4. CASE ev.ins = i
  <2>1. n \in DOMAIN t.elems /\ t.elems[n].ins = i /\ t.elems[n].status = "running"
    BY DEF Grown
  <2>2. f = n
    BY <1>3, <1>4, <2>1 DEF AllOnce, OnceIn
  <2> QED BY <1>2, <2>1, <2>2 DEF ElemIn
<1>5. CASE ev.ins # i
  <2>1. t.queue[q][ev.ins] = s.queue[q][ev.ins]
    BY <1>1, <1>5
  <2>2. AllOnce(s)
    BY DEF AllOnce, OnceIn, Grown
  <2>3. InQueue(s, q, ev.ins)
    BY <2>1 DEF InQueue
  <2>4. ElemIn(s, q, ev.ins).status # "evicting"
    BY <2>2, <2>3 DEF EventOK
  <2>5. f \in DOMAIN s.elems
    BY <1>1, <1>2, <2>1, <2>3 DEF QueuesOK, InQueue
  <2>6. t.elems[f] = s.elems[f]
    BY <2>5 DEF Grown
  <2> QED BY <1>2, <2>1, <2>4, <2>6 DEF ElemIn
<1> QED BY <1>4, <1>5

LEMMA AddStep ==
    ASSUME Inv, NEW i \in Instances, AddInstance(i)
    PROVE  Inv' /\ Bindings
<1>0. /\ Both(sch, allocs) /\ allocs \in Allocations /\ req \in Requests /\ QueuesOK(sch)
      /\ EventOK(sch, event)
  BY DEF Inv, Both, SInv
<1>1. PICK q \in Queues : q = HomeQueue
  BY HomeIsQueue
<1>2. PICK t : t = sch'
  OBVIOUS
<1>3. PICK st \in Status : st = "running"
  BY DEF Status
<1>4. /\ ~InQueue(sch, q, i) /\ t = NewElem(sch, q, i, st)
      /\ allocs' = allocs /\ req' = req /\ event' = event
  BY <1>1, <1>2, <1>3 DEF AddInstance
<1>5. PICK el : el = [ins |-> i, free |-> CN, status |-> st]
  OBVIOUS
<1>6. /\ Both(t, allocs) /\ t.sessionMap = sch.sessionMap
      /\ \E n : /\ Grown(sch, t, n, el)
                /\ \A p \in Queues, j \in Instances \ {i} : t.queue[p][j] = sch.queue[p][j]
  <2>1. /\ Both(t, allocs) /\ t.sessionMap = sch.sessionMap
        /\ \E n : /\ Grown(sch, t, n, [ins |-> i, free |-> CN, status |-> st])
                  /\ \A p \in Queues, j \in Instances \ {i} : t.queue[p][j] = sch.queue[p][j]
    BY ONLY <1>0, <1>4, q \in Queues, i \in Instances, st \in Status, NewElemInv
  <2> QED BY <1>5, <2>1
<1>7. EventOK(t, event)
  <2>1. PICK n : /\ Grown(sch, t, n, el)
                 /\ \A p \in Queues, j \in Instances \ {i} : t.queue[p][j] = sch.queue[p][j]
    BY <1>6
  <2>2. QueuesOK(t)
    BY <1>6 DEF Both, SInv
  <2>3. el.ins = i /\ el.status = "running"
    BY <1>3, <1>5
  <2> QED BY ONLY <1>0, <2>1, <2>2, <2>3, i \in Instances, GrownEvent
<1>8. Inv'
  BY <1>0, <1>2, <1>4, <1>6, <1>7 DEF Inv
<1> QED BY <1>2, <1>6, <1>8 DEF Bindings, BindStep

LEMMA ArrivesStep ==
    ASSUME Inv, NEW i \in Instances, NEW st \in Status, UpdateArrives(i, st)
    PROVE  Inv' /\ Bindings
<1>1. /\ sch' = sch /\ allocs' = allocs /\ req' = req
      /\ event' = [ins |-> i, status |-> st, que |-> HomeQueue]
      /\ st = "evicting" \/ \A q \in Queues : InQueue(sch, q, i) => ElemIn(sch, q, i).status # "evicting"
  BY DEF UpdateArrives
<1>2. PICK ev : ev = [ins |-> i, status |-> st, que |-> HomeQueue]
  OBVIOUS
<1>3. ev \in EventT /\ ev.ins = i /\ ev.status = st
  BY <1>2, HomeIsQueue DEF EventT
<1>4. EventOK(sch, ev)
  BY <1>1, <1>3 DEF EventOK
<1>5. EventOK(sch', event')
  BY <1>1, <1>2, <1>4
<1>6. Inv'
  BY <1>1, <1>5 DEF Inv
<1> QED BY <1>1, <1>6 DEF Bindings, BindStep

LEMMA UpdateStep ==
    ASSUME Inv, HandleInstanceUpdate
    PROVE  Inv' /\ Bindings
<1>0. /\ Both(sch, allocs) /\ allocs \in Allocations /\ req \in Requests
      /\ EventOK(sch, event) /\ event # None
  BY DEF Inv, HandleInstanceUpdate
<1>1. event \in EventT
  BY <1>0 DEF EventOK
<1>2. PICK q \in Queues, i \in Instances, st \in Status :
         q = event.que /\ i = event.ins /\ st = event.status
  BY <1>1 DEF EventT
<1>3. PICK e : e = sch.queue[q][i]
  OBVIOUS
<1>4. PICK t : t = sch'
  OBVIOUS
<1>5. /\ e = 0 => t = NewElem(sch, q, i, st)
      /\ e # 0 => t = UpdateObjByID(StatusSet(sch, e, st), q, e, sch.elems[e].status)
      /\ allocs' = allocs /\ req' = req /\ event' = None
  BY <1>2, <1>3, <1>4 DEF HandleInstanceUpdate, StatusSet
<1>6. Both(t, allocs) /\ t.sessionMap = sch.sessionMap
  <2>1. CASE e = 0
    <3>1. ~InQueue(sch, q, i) /\ t = NewElem(sch, q, i, st)
      BY <1>3, <1>5, <2>1 DEF InQueue
    <3>2. /\ Both(t, allocs) /\ t.sessionMap = sch.sessionMap
          /\ \E n : /\ Grown(sch, t, n, [ins |-> i, free |-> CN, status |-> st])
                    /\ \A p \in Queues, j \in Instances \ {i} : t.queue[p][j] = sch.queue[p][j]
      BY ONLY <1>0, <3>1, q \in Queues, i \in Instances, st \in Status, NewElemInv
    <3> QED BY <3>2
  <2>2. CASE e # 0
    <3>1. NoRevival(sch, e, st)
      BY <1>0, <1>2, <1>3, <2>2 DEF NoRevival, EventOK, InQueue, ElemIn
    <3>2. Restated(sch, t, q, e, st)
      BY <1>5, <2>2 DEF Restated
    <3>3. /\ Both(sch, allocs) /\ q \in Queues /\ i \in Instances /\ st \in Status
          /\ e = sch.queue[q][i] /\ e # 0
      BY <1>0, <1>3, <2>2
    <3> QED BY ONLY <3>1, <3>2, <3>3, StatusInv
  <2> QED BY <2>1, <2>2
<1>7. EventOK(sch', event')
  BY <1>5 DEF EventOK
<1>8. Inv'
  BY <1>0, <1>4, <1>5, <1>6, <1>7 DEF Inv
<1> QED BY <1>4, <1>6, <1>8 DEF Bindings, BindStep

LEMMA DelStep ==
    ASSUME Inv, NEW i \in Instances, DelInstance(i)
    PROVE  Inv' /\ Bindings
<1>0. Both(sch, allocs) /\ allocs \in Allocations /\ req \in Requests
  BY DEF Inv
<1>1. PICK q \in Queues : q = HomeQueue
  BY HomeIsQueue
<1>2. PICK t : t = sch'
  OBVIOUS
<1>3. PICK B : B = allocs'
  OBVIOUS
<1>4. t = DelByID(sch, q, i) /\ req' = req /\ event' = event
  BY <1>1, <1>2 DEF DelInstance
<1>5. B \in Allocations /\ \A b \in Slots : B[b] = allocs[b] \/ B[b] = None
  BY <1>0, <1>3 DEF DelInstance, Allocations
<1>6. Both(t, allocs) /\ StatusKept(sch, t) /\ t.sessionMap = sch.sessionMap
  BY ONLY <1>0, <1>4, q \in Queues, i \in Instances, DelInv
<1>7. Both(t, B)
  BY ONLY <1>5, <1>6, DropInv
<1>8. Both(sch', allocs') /\ StatusKept(sch, sch') /\ allocs' \in Allocations
  BY <1>2, <1>3, <1>5, <1>6, <1>7
<1>9. Inv'
  BY <1>0, <1>4, <1>8, KeepsInv
<1> QED BY <1>2, <1>6, <1>9 DEF Bindings, BindStep

LEMMA PopStep ==
    ASSUME Inv, NEW force \in BOOLEAN, PopInstance(force)
    PROVE  Inv' /\ Bindings
<1>0. Both(sch, allocs) /\ allocs \in Allocations /\ req \in Requests
  BY DEF Inv
<1>1. PICK q \in Queues : q = "self"
  BY DEF Queues
<1>2. PICK t : t = sch'
  OBVIOUS
<1>3. PICK i \in Instances : t = DelByID(sch, q, i)
  BY <1>1, <1>2 DEF PopInstance, Poppable
<1>4. allocs' = allocs /\ req' = req /\ event' = event
  BY DEF PopInstance
<1>5. Both(t, allocs) /\ StatusKept(sch, t) /\ t.sessionMap = sch.sessionMap
  BY ONLY <1>0, <1>3, q \in Queues, i \in Instances, DelInv
<1>6. Both(sch', allocs') /\ StatusKept(sch, sch')
  BY <1>2, <1>4, <1>5
<1>7. Inv'
  BY <1>0, <1>4, <1>6, KeepsInv
<1> QED BY <1>2, <1>5, <1>7 DEF Bindings, BindStep

LEMMA OwnerStep ==
    ASSUME Inv, HandleFuncOwnerUpdate
    PROVE  Inv' /\ Bindings
<1>0. Both(sch, allocs) /\ allocs \in Allocations /\ req \in Requests
  BY DEF Inv
<1>1. PICK src \in Queues : src = HomeQueue
  BY HomeIsQueue
<1>2. PICK dst \in Queues : dst = IF isFuncOwner THEN "other" ELSE "self"
  BY DEF Queues
<1>3. src # dst
  BY <1>1, <1>2 DEF HomeQueue
<1>4. PICK S : S = {i \in Instances : InQueue(sch, src, i)}
  OBVIOUS
<1>5. PICK t : t = sch'
  OBVIOUS
<1>6. t = MoveSet(sch, src, dst, S) /\ allocs' = allocs /\ req' = req /\ event' = event
  <2>1. sch' = MoveSet(sch, HomeQueue, IF isFuncOwner THEN "other" ELSE "self",
                       {i \in Instances : InQueue(sch, HomeQueue, i)})
    BY DEF HandleFuncOwnerUpdate, MoveSet, FoldSet, MapThenFoldSet
  <2>2. allocs' = allocs /\ req' = req /\ event' = event
    BY Zenon DEF HandleFuncOwnerUpdate
  <2> QED BY <1>1, <1>2, <1>4, <1>5, <2>1, <2>2
<1>7. Both(t, allocs) /\ StatusKept(sch, t) /\ t.sessionMap = sch.sessionMap
  BY ONLY <1>0, <1>3, <1>4, <1>6, src \in Queues, dst \in Queues, MoveAll
<1>8. Both(sch', allocs') /\ StatusKept(sch, sch')
  BY <1>5, <1>6, <1>7
<1>9. Inv'
  BY <1>0, <1>6, <1>8, KeepsInv
<1> QED BY <1>5, <1>7, <1>9 DEF Bindings, BindStep

LEMMA InitInv == Init => Inv
<1> SUFFICES ASSUME Init PROVE Inv
  OBVIOUS
<1>1. PICK s : s = sch
  OBVIOUS
<1>2. PICK A : A = allocs
  OBVIOUS
<1>3. /\ s.elems = << >> /\ s.recs = << >> /\ s.avail = 0 /\ s.inUse = 0 /\ s.total = 0
      /\ s.queue = [q \in Queues |-> [i \in Instances |-> 0]]
      /\ s.count = [i \in Instances |-> 0] /\ s.sessionMap = [x \in Sessions |-> 0]
  BY <1>1 DEF Init
<1>4. A = [a \in Slots |-> None]
  BY <1>2 DEF Init
<1>5. DOMAIN s.elems = {} /\ DOMAIN s.recs = {}
  <2>1. << >> \in Seq({}) /\ Len(<< >>) = 0
    BY EmptySeq
  <2>2. DOMAIN << >> = {}
    BY <2>1, LenProperties
  <2> QED BY <1>3, <2>2
<1>6. s \in StateT
  <2>1. s = [elems |-> << >>, queue |-> [q \in Queues |-> [i \in Instances |-> 0]],
             count |-> [i \in Instances |-> 0], avail |-> 0, inUse |-> 0, total |-> 0,
             recs |-> << >>, sessionMap |-> [x \in Sessions |-> 0]]
    BY <1>1 DEF Init
  <2>2. << >> \in Seq(ElemT) /\ << >> \in Seq(RecT)
    BY EmptySeq
  <2> HIDE DEF ElemT, RecT
  <2> QED BY <2>1, <2>2 DEF StateT
<1>7. QueuesOK(s) /\ RecsOK(s) /\ MapOK(s) /\ TokensOK(s)
  BY <1>3, <1>5 DEF QueuesOK, RecsOK, MapOK, TokensOK
<1>8. AllocsOK(s, A) /\ CoverOK(s, A) /\ Conserved(s, A)
  BY <1>4, <1>5 DEF AllocsOK, CoverOK, Conserved, OnceIn
<1>9. Exact(s)
  <2>1. SelfIn(s, {"running"}) = {} /\ SelfIn(s, {"running", "subHealth"}) = {}
    BY <1>5 DEF SelfIn
  <2>2. SumFunctionOnSet(FreeOf(s), SelfIn(s, {"running"})) = 0
    BY <2>1, SumEmpty
  <2>3. CN * Cardinality(SelfIn(s, {"running", "subHealth"})) = 0
    <3>1. Cardinality(SelfIn(s, {"running", "subHealth"})) = 0
      BY <2>1, FS_EmptySet
    <3>2. CN \in Int
      BY ConstantsAssumption
    <3> QED BY <3>1, <3>2
  <2> QED BY <1>3, <1>5, <2>2, <2>3 DEF Exact, Numbers
<1>10. Both(s, A)
  BY <1>6, <1>7, <1>8, <1>9 DEF Both, SInv
<1>11. allocs \in Allocations /\ req \in Requests /\ EventOK(sch, event)
  BY DEF Init, Allocations, Requests, EventOK
<1> QED BY <1>1, <1>2, <1>10, <1>11 DEF Inv

\* A step that changes nothing.
LEMMA StutterStep ==
    ASSUME Inv, UNCHANGED vars
    PROVE  Inv' /\ Bindings
<1>1. sch' = sch /\ allocs' = allocs /\ req' = req /\ event' = event
  BY DEF vars
<1>2. Inv'
  BY <1>1 DEF Inv
<1> QED BY <1>1, <1>2 DEF Bindings, BindStep

LEMMA NextStep ==
    ASSUME Inv, [Next]_vars
    PROVE  Inv' /\ Bindings
<1>1. ASSUME NEW c \in Clients, NEW limited \in BOOLEAN, Acquire(c, limited) PROVE Inv' /\ Bindings
  BY <1>1, AcquireStep
<1>2. ASSUME NEW c \in Clients, ReadStore(c) PROVE Inv' /\ Bindings
  BY <1>2, ReadStep
<1>3. ASSUME NEW c \in Clients, AcquireResolved(c) PROVE Inv' /\ Bindings
  BY <1>3, ResolvedStep
<1>4. ASSUME NEW c \in Clients, NEW i \in Instances, NEW limited \in BOOLEAN,
             AcquireNamed(c, i, limited)
      PROVE  Inv' /\ Bindings
  BY <1>4, AcquireNamedStep
<1>5. ASSUME NEW c \in Clients, NEW x \in Sessions, NEW limited \in BOOLEAN,
             PeekSession(c, x, limited)
      PROVE  Inv' /\ Bindings
  BY <1>5, PeekStep
<1>6. ASSUME NEW a \in Slots, EndLease(a) PROVE Inv' /\ Bindings
  BY <1>6, EndStep
<1>7. ASSUME NEW a \in Slots, ReleaseInstance(a) PROVE Inv' /\ Bindings
  BY <1>7, ReleaseStep
<1>8. ASSUME NEW r \in DOMAIN sch.recs, TimerFires(r) \/ TimerCancelled(r) PROVE Inv' /\ Bindings
  BY <1>8, TimerStep
<1>9. ASSUME NEW r \in DOMAIN sch.recs, Unbind(r) PROVE Inv' /\ Bindings
  BY <1>9, UnbindStep
<1>10. ASSUME NEW i \in Instances, AddInstance(i) PROVE Inv' /\ Bindings
  BY <1>10, AddStep
<1>11. ASSUME NEW i \in Instances, DelInstance(i) PROVE Inv' /\ Bindings
  BY <1>11, DelStep
<1>12. ASSUME NEW i \in Instances, NEW st \in Status, UpdateArrives(i, st) PROVE Inv' /\ Bindings
  BY <1>12, ArrivesStep
<1>13. CASE HandleInstanceUpdate
  BY <1>13, UpdateStep
<1>14. CASE HandleFuncOwnerUpdate
  BY <1>14, OwnerStep
<1>15. ASSUME NEW force \in BOOLEAN, PopInstance(force) PROVE Inv' /\ Bindings
  BY <1>15, PopStep
<1>16. CASE UNCHANGED vars
  BY <1>16, StutterStep
<1>17. CASE Next
  <2>0. CASE \E c \in Clients : ReadStore(c) \/ AcquireResolved(c)
    BY <1>2, <1>3, <2>0
  <2>1. CASE \E c \in Clients, limited \in BOOLEAN :
                \/ Acquire(c, limited)
                \/ \E i \in Instances : AcquireNamed(c, i, limited)
                \/ \E x \in Sessions : PeekSession(c, x, limited)
    BY <1>1, <1>4, <1>5, <2>1
  <2>2. CASE \E a \in Slots : EndLease(a) \/ ReleaseInstance(a)
    BY <1>6, <1>7, <2>2
  <2>3. CASE \E r \in DOMAIN sch.recs : TimerFires(r) \/ TimerCancelled(r) \/ Unbind(r)
    BY <1>8, <1>9, <2>3
  <2>4. CASE \E i \in Instances : \/ AddInstance(i) \/ DelInstance(i)
                                  \/ \E st \in Status : UpdateArrives(i, st)
    BY <1>10, <1>11, <1>12, <2>4
  <2>5. CASE \E force \in BOOLEAN : PopInstance(force)
    BY <1>15, <2>5
  <2> QED BY ONLY <1>13, <1>14, <1>17, <2>0, <2>1, <2>2, <2>3, <2>4, <2>5, Zenon DEF Next
<1> QED BY <1>16, <1>17

LEMMA AlwaysInv == Spec => []Inv
<1>1. Inv /\ [Next]_vars => Inv'
  BY NextStep
<1> QED BY <1>1, InitInv, PTL DEF Spec

-----------------------------------------------------------------------------
(***************************************************************************)
(* The theorems.                                                           *)
(***************************************************************************)
\* A thread of an instance is free, reserved by a session, or leased, and never
\* two of these, for any number of instances, sessions, clients and leases and
\* however acquireInstanceInternal, releaseInstanceInternal, the expiry of
\* sessions and HandleFuncOwnerUpdate interleave.
THEOREM ThreadsAreConserved == Spec => []ThreadsConserved
<1>1. Inv => ThreadsConserved
  <2> SUFFICES ASSUME Inv PROVE ThreadsConserved
    OBVIOUS
  <2>1. Conserved(sch, allocs)
    BY DEF Inv, Both, SInv
  <2> QED BY <2>1 DEF Conserved, ThreadsConserved, Once, OnceIn, Reserved, ReservedIn, Kept, KeptBy,
                      Leased, LeasedFrom
<1> QED BY <1>1, AlwaysInv, PTL

\* The free and total threads that instanceQueueWithObserver publishes are those
\* of the elements of the self queue, as long as no instance was added twice.
THEOREM PublishedIsExact == Spec => []AvailTotalExact
<1>1. Inv => AvailTotalExact
  <2> SUFFICES ASSUME Inv PROVE AvailTotalExact
    OBVIOUS
  <2>1. Exact(sch)
    BY DEF Inv, Both
  <2>2. /\ OnceIn(sch) = Once /\ \A S : SelfIn(sch, S) = SelfElems(S)
        /\ FreeOf(sch) = [e \in DOMAIN sch.elems |-> sch.elems[e].free]
    BY DEF OnceIn, Once, SelfIn, SelfElems, FreeOf
  <2> QED BY <2>1, <2>2 DEF Exact, Numbers, AllOnce, AvailTotalExact, Free
<1> QED BY <1>1, AlwaysInv, PTL

\* unbindInstanceSession never waits in vain with the scheduler's lock held: a
\* session found in use has the cancel token its user left.
THEOREM TokenIsThere == Spec => []CancelTokenPresent
<1>1. Inv => CancelTokenPresent
  BY DEF Inv, Both, SInv, TokensOK, TokenOf, CancelTokenPresent, Busy
<1> QED BY <1>1, AlwaysInv, PTL

\* A session whose instance is in the queue of the current owner keeps its
\* binding, whatever acquire, release or ownership change gets in between, until
\* unbindInstanceSession of a record of that session ends it, or, on a scheduler
\* that is not the owner, a traffic-limited acquire of the session finds that
\* the instance it looked up has left both queues and drops the binding made
\* meanwhile.
THEOREM BindingsAreKept == Spec => BindingKept
<1>1. Inv /\ [Next]_vars =>
        [\A s \in Sessions :
            LET r == sch.sessionMap[s] IN
            /\ r # 0 /\ sch'.sessionMap[s] # r
            /\ InQueue(sch, HomeQueue, sch.elems[sch.recs[r].elem].ins)
            => ExpiresRecord(s, r) \/ LimitedAndGone(s)]_vars
  <2> SUFFICES ASSUME Inv, [Next]_vars
               PROVE  \A s \in Sessions :
                        LET r == sch.sessionMap[s] IN
                        /\ r # 0 /\ sch'.sessionMap[s] # r
                        /\ InQueue(sch, HomeQueue, sch.elems[sch.recs[r].elem].ins)
                        => ExpiresRecord(s, r) \/ LimitedAndGone(s)
    OBVIOUS
  <2>1. Bindings
    BY NextStep
  <2> QED BY <2>1 DEF Bindings, BindStep
<1> QED BY <1>1, AlwaysInv, PTL DEF Spec, BindingKept
=============================================================================
