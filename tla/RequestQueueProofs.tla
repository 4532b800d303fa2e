------------------------- MODULE RequestQueueProofs -------------------------
(***************************************************************************)
(* No request of the queue is lost or answered twice, for any number of    *)
(* requests, threads and events.  PlaceInv of RequestQueue is inductive.   *)
(***************************************************************************)
EXTENDS RequestQueue, FiniteSetTheorems, SequenceTheorems, WellFoundedInduction, TLAPS

-----------------------------------------------------------------------------
(* The order of the natural numbers, and what the operations of the queue  *)
(* do to the set of requests in it.                                        *)

LessThan == {ss \in Nat \X Nat : ss[1] < ss[2]}

LEMMA LessThanWellFounded == IsWellFoundedOn(LessThan, Nat)
BY NatLessThanWellFounded DEF LessThan, OpToRel

\* A nonempty set of natural numbers has a least element.
LEMMA LeastNatural ==
    ASSUME NEW T \in SUBSET Nat, T # {}
    PROVE  \E x \in T : \A y \in T : x <= y
<1>1. PICK x \in T : \A y \in T : ~ (<<y, x>> \in LessThan)
  <2>1. \E x \in T : \A y \in T : ~ (<<y, x>> \in LessThan)
    BY LessThanWellFounded, WFMin
  <2> QED BY <2>1
<1>2. \A z, y \in Nat : y < z => <<y, z>> \in LessThan
  BY DEF LessThan
<1>3. ASSUME NEW y \in T PROVE x <= y
  <2> SUFFICES ASSUME ~ (x <= y) PROVE FALSE
    OBVIOUS
  <2>1. x \in Nat /\ y \in Nat /\ y < x
    OBVIOUS
  <2>2. <<y, x>> \in LessThan
    BY <2>1, <1>2
  <2> QED BY <2>2, <1>1
<1> QED BY <1>3

Distinct(q) == \A i, j \in DOMAIN q : q[i] = q[j] => i = j

\* PushBack of a request that is not in the queue.
LEMMA AppendQueue ==
    ASSUME NEW S, NEW q \in Seq(S), NEW r \in S, Distinct(q), r \notin ToSet(q)
    PROVE  /\ Append(q, r) \in Seq(S) /\ Distinct(Append(q, r))
           /\ ToSet(Append(q, r)) = ToSet(q) \cup {r}
<1> DEFINE a == Append(q, r)
<1>1. /\ a \in Seq(S) /\ Len(a) = Len(q) + 1 /\ Len(q) \in Nat
      /\ DOMAIN q = 1 .. Len(q) /\ DOMAIN a = 1 .. Len(q) + 1
      /\ \A i \in 1 .. Len(q) : a[i] = q[i]
      /\ a[Len(q) + 1] = r
  BY AppendProperties, LenProperties
<1> HIDE DEF a
<1>2. \A i \in DOMAIN q : q[i] # r
  BY DEF ToSet
<1>3. Distinct(a)
  BY <1>1, <1>2 DEF Distinct
<1>4. ToSet(a) = ToSet(q) \cup {r}
  BY <1>1 DEF ToSet
<1> QED BY <1>1, <1>3, <1>4 DEF a

\* How many requests there are from position n + 1 on.
LEMMA RestLength ==
    \A a \in Nat : \A n \in 0 .. a : n # a => n + 1 <= a /\ a - (n + 1) + 1 = a - n
OBVIOUS

\* The queue from position n + 1 on, and what is in front of it.
LEMMA SplitQueue ==
    ASSUME NEW S, NEW q \in Seq(S), Distinct(q), NEW n \in 0 .. Len(q)
    PROVE  LET front == SubSeq(q, 1, n)
               rest  == SubSeq(q, n + 1, Len(q))
           IN  /\ rest \in Seq(S) /\ Distinct(rest)
               /\ ToSet(front) \cup ToSet(rest) = ToSet(q)
               /\ ToSet(front) \cap ToSet(rest) = {}
<1> DEFINE front == SubSeq(q, 1, n)
           rest  == SubSeq(q, n + 1, Len(q))
<1>0. Len(q) \in Nat /\ DOMAIN q = 1 .. Len(q) /\ \A i \in 1 .. Len(q) : q[i] \in S
  BY LenProperties, ElementOfSeq
<1>1. /\ front \in Seq(S) /\ DOMAIN front = 1 .. n
      /\ \A i \in 1 .. n : front[i] = q[i]
  <2>1. \A i \in 1 .. n : q[i] \in S
    BY <1>0
  <2>2. /\ front \in Seq(S) /\ Len(front) = n
        /\ \A i \in 1 .. n : front[i] = q[1 + i - 1]
    BY <2>1, SubSeqProperties
  <2> QED BY <2>2, LenProperties
<1>2. /\ rest \in Seq(S) /\ DOMAIN rest = 1 .. Len(q) - n
      /\ \A i \in 1 .. Len(q) - n : rest[i] = q[n + i]
  <2>1. \A i \in n + 1 .. Len(q) : q[i] \in S
    BY <1>0
  <2>2. n + 1 \in Int /\ Len(q) \in Int
    BY <1>0
  <2>3. /\ rest \in Seq(S)
        /\ Len(rest) = IF n + 1 <= Len(q) THEN Len(q) - (n + 1) + 1 ELSE 0
        /\ \A i \in 1 .. Len(q) - (n + 1) + 1 : rest[i] = q[(n + 1) + i - 1]
    BY <2>1, <2>2, SubSeqProperties
  <2>4. DOMAIN rest = 1 .. Len(rest)
    BY <2>3, LenProperties
  <2> HIDE DEF rest
  <2>5. Len(rest) = Len(q) - n
    <3>1. CASE n = Len(q)
      BY <3>1, <2>3, <1>0
    <3>2. CASE n # Len(q)
      <4>1. n + 1 <= Len(q) /\ Len(q) - (n + 1) + 1 = Len(q) - n
        BY <3>2, <1>0, RestLength
      <4> QED BY <4>1, <2>3
    <3> QED BY <3>1, <3>2
  <2> QED BY <2>3, <2>4, <2>5, <1>0
<1> HIDE DEF front, rest
<1>3. Distinct(rest)
  <2> SUFFICES ASSUME NEW i \in DOMAIN rest, NEW j \in DOMAIN rest, rest[i] = rest[j]
               PROVE  i = j
    BY DEF Distinct
  <2>1. n + i \in DOMAIN q /\ n + j \in DOMAIN q /\ q[n + i] = q[n + j]
    BY <1>0, <1>2
  <2>2. n + i = n + j
    BY <2>1 DEF Distinct
  <2> QED BY <2>2, <1>2
<1>4. ToSet(front) \cap ToSet(rest) = {}
  <2> SUFFICES ASSUME NEW i \in DOMAIN front, NEW j \in DOMAIN rest, front[i] = rest[j]
               PROVE  FALSE
    BY DEF ToSet
  <2>1. i \in DOMAIN q /\ n + j \in DOMAIN q /\ i # n + j /\ q[i] = q[n + j]
    BY <1>0, <1>1, <1>2
  <2> QED BY <2>1 DEF Distinct
<1>5. ToSet(front) \cup ToSet(rest) = ToSet(q)
  <2>1. ToSet(front) \subseteq ToSet(q) /\ ToSet(rest) \subseteq ToSet(q)
    <3>1. \A i \in DOMAIN front : i \in DOMAIN q /\ front[i] = q[i]
      BY <1>0, <1>1
    <3>2. \A i \in DOMAIN rest : n + i \in DOMAIN q /\ rest[i] = q[n + i]
      BY <1>0, <1>2
    <3> QED BY <3>1, <3>2 DEF ToSet
  <2>2. ASSUME NEW i \in DOMAIN q PROVE q[i] \in ToSet(front) \cup ToSet(rest)
    <3>1. CASE i <= n
      BY <3>1, <1>0, <1>1 DEF ToSet
    <3>2. CASE i > n
      <4>1. i - n \in DOMAIN rest /\ rest[i - n] = q[i]
        BY <3>2, <1>0, <1>2
      <4> QED BY <4>1 DEF ToSet
    <3> QED BY <3>1, <3>2, <1>0
  <2> QED BY <2>1, <2>2 DEF ToSet
<1> QED BY <1>2, <1>3, <1>4, <1>5 DEF front, rest

\* PopFront.
LEMMA PopQueue ==
    ASSUME NEW S, NEW q \in Seq(S), Distinct(q), q # <<>>
    PROVE  /\ Head(q) \in ToSet(q) /\ Head(q) \in S
           /\ Tail(q) \in Seq(S) /\ Distinct(Tail(q))
           /\ ToSet(Tail(q)) = ToSet(q) \ {Head(q)}
<1>1. Len(q) \in Nat \ {0} /\ DOMAIN q = 1 .. Len(q) /\ Head(q) = q[1]
  BY EmptySeq, LenProperties
<1>2. /\ Head(q) \in S /\ Tail(q) \in Seq(S)
      /\ DOMAIN Tail(q) = 1 .. Len(q) - 1
      /\ \A i \in 1 .. Len(q) - 1 : Tail(q)[i] = q[i + 1]
  BY HeadTailProperties, LenProperties
<1>3. Head(q) \in ToSet(q)
  BY <1>1 DEF ToSet
<1>4. Distinct(Tail(q))
  BY <1>1, <1>2 DEF Distinct
<1>5. ToSet(Tail(q)) \subseteq ToSet(q) \ {Head(q)}
  BY <1>1, <1>2 DEF Distinct, ToSet
<1>6. ASSUME NEW i \in DOMAIN q, q[i] # Head(q) PROVE q[i] \in ToSet(Tail(q))
  <2>1. i - 1 \in DOMAIN Tail(q) /\ Tail(q)[i - 1] = q[i]
    BY <1>1, <1>2, <1>6
  <2> QED BY <2>1 DEF ToSet
<1>7. ToSet(q) \ {Head(q)} \subseteq ToSet(Tail(q))
  BY <1>6 DEF ToSet
<1> QED BY <1>2, <1>3, <1>4, <1>5, <1>7

\* DelByID.
LEMMA RemoveQueue ==
    ASSUME NEW S, NEW q \in Seq(S), Distinct(q), NEW k \in DOMAIN q
    PROVE  /\ RemoveAt(q, k) \in Seq(S) /\ Distinct(RemoveAt(q, k))
           /\ ToSet(RemoveAt(q, k)) = ToSet(q) \ {q[k]}
<1> DEFINE s == SubSeq(q, 1, k - 1)
           t == SubSeq(q, k + 1, Len(q))
           u == RemoveAt(q, k)
<1>0. Len(q) \in Nat /\ DOMAIN q = 1 .. Len(q) /\ \A i \in 1 .. Len(q) : q[i] \in S
  BY LenProperties, ElementOfSeq
<1>1. /\ s \in Seq(S) /\ Len(s) = k - 1
      /\ \A i \in 1 .. k - 1 : s[i] = q[i]
  <2>1. \A i \in 1 .. k - 1 : q[i] \in S
    BY <1>0
  <2>2. /\ s \in Seq(S) /\ Len(s) = k - 1
        /\ \A i \in 1 .. k - 1 - 1 + 1 : s[i] = q[1 + i - 1]
    BY <1>0, <2>1, SubSeqProperties
  <2> QED BY <1>0, <2>2
<1>2. /\ t \in Seq(S) /\ Len(t) = Len(q) - k
      /\ \A i \in 1 .. Len(q) - k : t[i] = q[k + i]
  <2>1. \A i \in k + 1 .. Len(q) : q[i] \in S
    BY <1>0
  <2>2. /\ t \in Seq(S) /\ Len(t) = Len(q) - k
        /\ \A i \in 1 .. Len(q) - k : t[i] = q[k + 1 + i - 1]
    BY <1>0, <2>1, SubSeqProperties
  <2> QED BY <1>0, <2>2
<1> HIDE DEF s, t
<1>3. u = s \o t
  BY DEF RemoveAt, s, t
<1>4. /\ u \in Seq(S) /\ Len(u) = Len(q) - 1
      /\ \A i \in 1 .. Len(q) - 1 : u[i] = IF i <= k - 1 THEN s[i] ELSE t[i - (k - 1)]
  <2>1. /\ s \o t \in Seq(S) /\ Len(s \o t) = Len(s) + Len(t)
        /\ \A i \in 1 .. Len(s) + Len(t) :
               (s \o t)[i] = IF i <= Len(s) THEN s[i] ELSE t[i - Len(s)]
    BY <1>1, <1>2, ConcatProperties
  <2>2. Len(s) + Len(t) = Len(q) - 1 /\ Len(s) = k - 1
    BY <1>0, <1>1, <1>2
  <2> HIDE DEF u
  <2> QED BY <1>3, <2>1, <2>2
<1> HIDE DEF u
<1>5. DOMAIN u = 1 .. Len(q) - 1
  BY <1>4, LenProperties
<1>6. \A i \in 1 .. Len(q) - 1 : u[i] = IF i < k THEN q[i] ELSE q[i + 1]
  <2> SUFFICES ASSUME NEW i \in 1 .. Len(q) - 1
               PROVE  u[i] = IF i < k THEN q[i] ELSE q[i + 1]
    OBVIOUS
  <2>1. CASE i < k
    BY <2>1, <1>0, <1>1, <1>4
  <2>2. CASE ~ (i < k)
    <3>1. i - (k - 1) \in 1 .. Len(q) - k /\ k + (i - (k - 1)) = i + 1
      BY <2>2, <1>0
    <3>2. u[i] = t[i - (k - 1)]
      BY <2>2, <1>0, <1>4
    <3> QED BY <3>1, <3>2, <2>2, <1>2
  <2> QED BY <2>1, <2>2
<1>7. Distinct(u)
  BY <1>0, <1>5, <1>6 DEF Distinct
<1>8. ToSet(u) \subseteq ToSet(q) \ {q[k]}
  BY <1>0, <1>5, <1>6 DEF Distinct, ToSet
<1>9. ASSUME NEW i \in DOMAIN q, q[i] # q[k] PROVE q[i] \in ToSet(u)
  <2>1. CASE i < k
    BY <2>1, <1>0, <1>5, <1>6 DEF ToSet
  <2>2. CASE i > k
    <3>1. i - 1 \in DOMAIN u /\ u[i - 1] = q[i]
      BY <2>2, <1>0, <1>5, <1>6
    <3> QED BY <3>1 DEF ToSet
  <2> QED BY <2>1, <2>2, <1>9, <1>0
<1>10. ToSet(q) \ {q[k]} \subseteq ToSet(u)
  BY <1>9 DEF ToSet
<1> QED BY <1>4, <1>7, <1>8, <1>10 DEF u
-----------------------------------------------------------------------------
(* The steps                                                               *)

\* handleTimeout stops at the first request that has time left.
LEMMA ExpiredFrontExists ==
    ASSUME TypeOK
    PROVE  ExpiredFront \in 0 .. Len(queue)
<1>0. Len(queue) \in Nat
  BY LenProperties DEF TypeOK
<1> DEFINE L == Len(queue)
           T == {n \in 0 .. L : n < L => queue[n + 1] \notin Expired}
<1> HIDE DEF L
<1>1. L \in Nat
  BY <1>0 DEF L
<1>2. L \in T /\ T \in SUBSET Nat
  BY <1>1
<1>3. PICK n \in T : \A m \in T : n <= m
  <2> HIDE DEF T
  <2> QED BY <1>2, LeastNatural
<1>4. n \in 0 .. L /\ (n < L => queue[n + 1] \notin Expired)
  OBVIOUS
<1>5. ASSUME NEW i \in 1 .. n PROVE queue[i] \in Expired
  <2>1. i - 1 \in 0 .. L /\ i - 1 < L /\ i - 1 + 1 = i /\ ~ (n <= i - 1)
    BY <1>1, <1>4
  <2>2. i - 1 \notin T
    BY <2>1, <1>3
  <2> QED BY <2>1, <2>2
<1> QED BY <1>4, <1>5 DEF ExpiredFront, L

\* One send on the empty channels of a set of requests.
LEMMA AnsweredProperties ==
    ASSUME TypeOK, NEW rs \in SUBSET Requests, \A r \in rs : result[r] = 0
    PROVE  /\ Answered(rs) \in [Requests -> 0 .. 1]
           /\ \A r \in rs : Answered(rs)[r] = 1
           /\ \A r \in Requests \ rs : Answered(rs)[r] = result[r]
BY DEF TypeOK, Answered

\* A step that touches neither a place nor a caller.
LEMMA PlacesUntouched ==
    ASSUME PlaceInv, TypeOK', UNCHANGED <<queue, hand, result, caller>>
    PROVE  PlaceInv'
BY DEF PlaceInv, QueuedOnce, HeldOnce, Held, OpenUnanswered, CallersPlaced

\* The fields of a good state that the steps below use.
LEMMA PlaceFacts ==
    ASSUME PlaceInv
    PROVE  /\ TypeOK /\ queue \in Seq(Requests) /\ Distinct(queue)
           /\ ToSet(queue) \subseteq Requests /\ Held \subseteq Requests
           /\ \A w \in Scheds : hand[w] = None \/ hand[w] \in Held
<1>1. TypeOK /\ queue \in Seq(Requests) /\ Distinct(queue)
  BY DEF PlaceInv, TypeOK, QueuedOnce, Distinct
<1>2. \A i \in DOMAIN queue : queue[i] \in Requests
  BY <1>1, ElementOfSeq, LenProperties
<1>3. Held \subseteq Requests /\ \A w \in Scheds : hand[w] = None \/ hand[w] \in Held
  BY <1>1 DEF TypeOK, Held
<1> QED BY <1>1, <1>2, <1>3 DEF ToSet

\* Thread counters stay natural numbers.
LEMMA CounterStep ==
    ASSUME NEW f \in [Scheds -> Nat], NEW w \in Scheds, NEW k \in Nat
    PROVE  /\ [f EXCEPT ![w] = @ + k] \in [Scheds -> Nat]
           /\ k <= f[w] => [f EXCEPT ![w] = @ - k] \in [Scheds -> Nat]
<1>1. f[w] + k \in Nat /\ (k <= f[w] => f[w] - k \in Nat)
  OBVIOUS
<1> QED BY <1>1

\* An allocation: the threads it takes were free.
LEMMA TakeThreadsStep ==
    ASSUME ConstantsAssumption, TypeOK, NEW w \in Scheds, NEW r \in Requests,
           \E n \in Takes(r) : TakeThreads(w, n)
    PROVE  free' \in [Scheds -> Nat] /\ leased' \in [Scheds -> Nat]
<1>1. PICK n \in Takes(r) : TakeThreads(w, n)
  OBVIOUS
<1>2. n \in Nat
  BY DEF Takes, ConstantsAssumption
<1>3. free \in [Scheds -> Nat] /\ leased \in [Scheds -> Nat] /\ n <= free[w]
  BY <1>1 DEF TypeOK, TakeThreads
<1> QED BY <1>1, <1>2, <1>3, CounterStep DEF TakeThreads

\* An event uses up one unit of the budget.
LEMMA EventStep ==
    ASSUME ConstantsAssumption, TypeOK, Event
    PROVE  events' \in 0 .. MaxEvents
BY DEF ConstantsAssumption, TypeOK, Event

\* Threads and events change; nothing moves.
LEMMA QuietSteps ==
    ASSUME ConstantsAssumption, PlaceInv,
           \/ Age \/ CreateSucceeds \/ Stop
           \/ \E w \in Scheds :
                 \/ ThreadsChange(w) \/ WorkerWakes(w) \/ WorkerExits(w)
    PROVE  PlaceInv'
<1> USE PlaceFacts DEF clients, workers, loop, threads
<1>1. CASE Age
  <2>1. TypeOK'
    BY <1>1, HeadTailProperties DEF Age, TypeOK
  <2> QED BY <1>1, <2>1, PlacesUntouched DEF Age
<1>2. CASE CreateSucceeds
  <2>1. TypeOK'
    BY <1>2 DEF CreateSucceeds, TypeOK
  <2> QED BY <1>2, <2>1, PlacesUntouched DEF CreateSucceeds
<1>3. CASE Stop
  <2>1. TypeOK'
    BY <1>3, EventStep DEF Stop, TypeOK
  <2> QED BY <1>3, <2>1, PlacesUntouched DEF Stop
<1>4. ASSUME NEW w \in Scheds, NEW n \in 0 .. 1, Release(w, n) PROVE PlaceInv'
  <2>1. TypeOK'
    <3>1. leased' \in [Scheds -> Nat] /\ free' \in [Scheds -> Nat]
      <4>1. n \in Nat /\ n <= leased[w] /\ free \in [Scheds -> Nat] /\ leased \in [Scheds -> Nat]
        BY <1>4 DEF Release, TypeOK
      <4> QED BY <1>4, <4>1, CounterStep DEF Release
    <3> QED BY <1>4, <3>1 DEF Release, ScheduleRequest, TypeOK
  <2> QED BY <1>4, <2>1, PlacesUntouched DEF Release, ScheduleRequest
<1>5. ASSUME NEW w \in Scheds, AddInstance(w) PROVE PlaceInv'
  <2>1. TypeOK'
    <3>1. ins' \in [Scheds -> Nat] /\ free' \in [Scheds -> Nat]
      BY <1>5, CounterStep DEF AddInstance, TypeOK, ConstantsAssumption
    <3> QED BY <1>5, <3>1, EventStep DEF AddInstance, ScheduleRequest, TypeOK
  <2> QED BY <1>5, <2>1, PlacesUntouched DEF AddInstance, ScheduleRequest
<1>6. ASSUME NEW w \in Scheds, NEW k \in 0 .. CN, DelInstance(w, k) PROVE PlaceInv'
  <2>1. TypeOK'
    <3>1. k \in Nat /\ CN - k \in Nat /\ CN \in Nat
      BY DEF ConstantsAssumption
    <3>2. /\ ins' \in [Scheds -> Nat] /\ free' \in [Scheds -> Nat]
          /\ leased' \in [Scheds -> Nat]
      <4>1. /\ ins \in [Scheds -> Nat] /\ free \in [Scheds -> Nat]
            /\ leased \in [Scheds -> Nat]
        BY DEF TypeOK
      <4>2. 1 <= ins[w] /\ k <= free[w] /\ CN - k <= leased[w]
        BY <1>6, <4>1 DEF DelInstance
      <4>3. [ins EXCEPT ![w] = @ - 1] \in [Scheds -> Nat]
        BY <4>1, <4>2, CounterStep
      <4>4. [free EXCEPT ![w] = @ - k] \in [Scheds -> Nat]
        BY <4>1, <4>2, <3>1, CounterStep
      <4>5. [leased EXCEPT ![w] = @ - (CN - k)] \in [Scheds -> Nat]
        BY <4>1, <4>2, <3>1, CounterStep
      <4> QED BY <1>6, <4>3, <4>4, <4>5 DEF DelInstance
    <3>3. scheCh' \in [Scheds -> BOOLEAN]
      BY <1>6 DEF DelInstance, ScheduleRequest, TypeOK
    <3> QED BY <1>6, <3>2, <3>3 DEF DelInstance, TypeOK
  <2> QED BY <1>6, <2>1, PlacesUntouched DEF DelInstance, ScheduleRequest
<1>7. ASSUME NEW w \in Scheds, WorkerWakes(w) PROVE PlaceInv'
  <2>1. TypeOK'
    BY <1>7 DEF WorkerWakes, TypeOK
  <2> QED BY <1>7, <2>1, PlacesUntouched DEF WorkerWakes
<1>8. ASSUME NEW w \in Scheds, WorkerExits(w) PROVE PlaceInv'
  <2>1. TypeOK'
    BY <1>8 DEF WorkerExits, TypeOK
  <2> QED BY <1>8, <2>1, PlacesUntouched DEF WorkerExits
<1> QED BY <1>1, <1>2, <1>3, <1>4, <1>5, <1>6, <1>7, <1>8 DEF ThreadsChange

\* An acquire call that is served at once, or makes a pending request.
LEMMA AcquireSteps ==
    ASSUME ConstantsAssumption, PlaceInv, NEW r \in Requests, AcquireNow(r) \/ AcquireFails(r)
    PROVE  PlaceInv'
<1> USE PlaceFacts DEF clients, workers, loop, threads
<1>1. CASE AcquireNow(r)
  <2>1. TypeOK'
    <3>1. Home(r) \in Scheds
      BY DEF Home, Scheds
    <3>2. free' \in [Scheds -> Nat] /\ leased' \in [Scheds -> Nat]
      BY <1>1, <3>1, TakeThreadsStep DEF AcquireNow
    <3> QED BY <1>1, <3>2 DEF AcquireNow, TypeOK
  <2>2. QueuedOnce' /\ HeldOnce' /\ OpenUnanswered'
    BY <1>1 DEF AcquireNow, PlaceInv, QueuedOnce, HeldOnce, Held, OpenUnanswered
  <2>3. CallersPlaced'
    BY <1>1 DEF AcquireNow, PlaceInv, TypeOK, CallersPlaced, Held
  <2> QED BY <2>1, <2>2, <2>3 DEF PlaceInv
<1>2. CASE AcquireFails(r)
  <2>1. TypeOK'
    <3>1. young' \in Seq(Requests)
      BY <1>2, AppendProperties DEF AcquireFails, TypeOK
    <3> QED BY <1>2, <3>1 DEF AcquireFails, TypeOK
  <2>2. QueuedOnce' /\ HeldOnce' /\ OpenUnanswered'
    BY <1>2 DEF AcquireFails, PlaceInv, QueuedOnce, HeldOnce, Held, OpenUnanswered
  <2>3. CallersPlaced'
    BY <1>2 DEF AcquireFails, PlaceInv, TypeOK, CallersPlaced, Held
  <2> QED BY <2>1, <2>2, <2>3 DEF PlaceInv
<1> QED BY <1>1, <1>2

\* AddRequest: the request goes to the back of the queue or is turned down.
LEMMA AddRequestStep ==
    ASSUME ConstantsAssumption, PlaceInv, NEW r \in Requests, AddRequest(r)
    PROVE  PlaceInv'
<1> USE PlaceFacts DEF clients, workers, loop, threads
<1>1. Held' = Held /\ result' = result /\ hand' = hand
  BY DEF AddRequest, Held
<1>2. r \notin ToSet(queue) /\ r \notin Held /\ result[r] = 0
  BY DEF AddRequest, PlaceInv, CallersPlaced
<1>3. triggerCh' \in Nat
  BY DEF AddRequest, TypeOK
<1>4. CASE unrecoverableError \/ Len(queue) >= maxQueueLen
  <2>1. queue' = queue /\ caller' = [caller EXCEPT ![r] = "gone"]
    BY <1>4 DEF AddRequest
  <2>2. TypeOK'
    BY <2>1, <1>3 DEF AddRequest, TypeOK
  <2>3. QueuedOnce' /\ HeldOnce' /\ OpenUnanswered'
    BY <2>1, <1>1 DEF PlaceInv, QueuedOnce, HeldOnce, OpenUnanswered
  <2>4. CallersPlaced'
    BY <2>1, <1>1 DEF PlaceInv, TypeOK, CallersPlaced
  <2> QED BY <2>2, <2>3, <2>4 DEF PlaceInv
<1>5. CASE ~ (unrecoverableError \/ Len(queue) >= maxQueueLen)
  <2>1. queue' = Append(queue, r) /\ caller' = [caller EXCEPT ![r] = "waiting"]
    BY <1>5 DEF AddRequest
  <2>2. /\ queue' \in Seq(Requests) /\ Distinct(queue')
        /\ ToSet(queue') = ToSet(queue) \cup {r}
    BY <2>1, <1>2, AppendQueue
  <2>3. TypeOK'
    BY <2>1, <2>2, <1>3 DEF AddRequest, TypeOK
  <2>4. QueuedOnce'
    BY <2>2 DEF QueuedOnce, Distinct
  <2>5. HeldOnce' /\ OpenUnanswered'
    BY <2>2, <1>1, <1>2 DEF PlaceInv, HeldOnce, OpenUnanswered
  <2>6. CallersPlaced'
    BY <2>1, <2>2, <1>1, <1>2 DEF PlaceInv, TypeOK, CallersPlaced
  <2> QED BY <2>3, <2>4, <2>5, <2>6 DEF PlaceInv
<1> QED BY <1>4, <1>5

\* CancelRequest: the reserved scheduler gives up on a request.
LEMMA CancelRequestStep ==
    ASSUME ConstantsAssumption, PlaceInv, NEW r \in Requests, CancelRequest(r)
    PROVE  PlaceInv'
<1> USE PlaceFacts DEF clients, workers, loop, threads
<1>1. /\ Held' = Held /\ result' = result /\ hand' = hand
      /\ caller' = [caller EXCEPT ![r] = "gone"]
  BY DEF CancelRequest, Held
<1>2. /\ queue' \in Seq(Requests) /\ Distinct(queue')
      /\ ToSet(queue') = ToSet(queue) \ {r}
  <2>1. CASE r \notin ToSet(queue) /\ UNCHANGED queue
    BY <2>1
  <2>2. ASSUME NEW i \in DOMAIN queue, queue[i] = r, queue' = RemoveAt(queue, i)
        PROVE  /\ queue' \in Seq(Requests) /\ Distinct(queue')
               /\ ToSet(queue') = ToSet(queue) \ {r}
    BY <2>2, RemoveQueue
  <2> QED BY <2>1, <2>2 DEF CancelRequest
<1>3. TypeOK'
  BY <1>1, <1>2 DEF CancelRequest, TypeOK
<1>4. QueuedOnce'
  BY <1>2 DEF QueuedOnce, Distinct
<1>5. HeldOnce' /\ OpenUnanswered'
  BY <1>1, <1>2 DEF PlaceInv, HeldOnce, OpenUnanswered
<1>6. CallersPlaced'
  BY <1>1, <1>2 DEF PlaceInv, TypeOK, CallersPlaced
<1> QED BY <1>3, <1>4, <1>5, <1>6 DEF PlaceInv

\* What a worker's hand holds before and after one of its steps.
LEMMA HandFacts ==
    ASSUME ConstantsAssumption, TypeOK, HeldOnce, NEW w \in Scheds, NEW x \in Requests \cup {None},
           hand' = [hand EXCEPT ![w] = x]
    PROVE  /\ hand' \in [Scheds -> Requests \cup {None}]
           /\ hand[w] = None /\ x \in Requests => Held' = Held \cup {x}
           /\ x = None => Held' = Held \ {hand[w]}
           /\ (x \notin Held \/ x = None) =>
                 (hand[scaled] = hand[reserve] => hand[scaled] = None)'
<1>1. \A v \in Scheds : hand'[v] = IF v = w THEN x ELSE hand[v]
  BY DEF TypeOK
<1>2. w = scaled \/ w = reserve
  BY DEF Scheds
<1>3. Held = {hand[scaled], hand[reserve]} \ {None} /\ Held' = {hand[scaled]', hand[reserve]'} \ {None}
  BY DEF Held, Scheds
<1>4. hand[scaled] = hand[reserve] => hand[scaled] = None
  BY DEF HeldOnce
<1>5. hand' \in [Scheds -> Requests \cup {None}]
  BY DEF TypeOK
<1>6. scaled # reserve /\ None \notin Requests /\ scaled \in Scheds /\ reserve \in Scheds
  BY DEF ConstantsAssumption, Scheds
<1>7. CASE w = scaled
  BY <1>1, <1>3, <1>4, <1>5, <1>6, <1>7
<1>8. CASE w = reserve
  BY <1>1, <1>3, <1>4, <1>5, <1>6, <1>8
<1> QED BY <1>2, <1>7, <1>8

\* A worker takes the front of the queue, grants it or puts it back.
LEMMA WorkerSteps ==
    ASSUME ConstantsAssumption, PlaceInv, NEW w \in Scheds,
           WorkerPops(w) \/ WorkerGrants(w) \/ WorkerPutsBack(w)
    PROVE  PlaceInv'
<1> USE PlaceFacts DEF clients, workers, loop, threads
<1>0. None \notin Requests /\ HeldOnce
  BY DEF ConstantsAssumption, PlaceInv
<1>1. CASE WorkerPops(w) /\ queue = <<>>
  <2>1. TypeOK'
    BY <1>1 DEF WorkerPops, TypeOK
  <2> QED BY <1>1, <2>1, PlacesUntouched DEF WorkerPops
<1>2. CASE WorkerPops(w) /\ queue # <<>>
  <2> DEFINE x == Head(queue)
  <2>1. /\ x \in ToSet(queue) /\ x \in Requests
        /\ queue' \in Seq(Requests) /\ Distinct(queue')
        /\ ToSet(queue') = ToSet(queue) \ {x}
    <3>1. queue' = Tail(queue) /\ queue # <<>>
      BY <1>2 DEF WorkerPops
    <3> QED BY <3>1, PopQueue
  <2>2. hand' = [hand EXCEPT ![w] = x] /\ hand[w] = None
    BY <1>2 DEF WorkerPops
  <2> HIDE DEF x
  <2>3. x \notin Held
    BY <2>1, <1>0 DEF HeldOnce
  <2>4. /\ hand' \in [Scheds -> Requests \cup {None}] /\ Held' = Held \cup {x}
        /\ (hand[scaled] = hand[reserve] => hand[scaled] = None)'
    BY <2>1, <2>2, <2>3, <1>0, HandFacts
  <2>5. result' = result /\ caller' = caller
    BY <1>2 DEF WorkerPops
  <2>6. TypeOK'
    BY <1>2, <2>1, <2>4 DEF WorkerPops, TypeOK
  <2>7. QueuedOnce' /\ HeldOnce'
    BY <2>1, <2>4, <1>0 DEF QueuedOnce, Distinct, HeldOnce
  <2>8. ToSet(queue)' \cup Held' = ToSet(queue) \cup Held
    BY <2>1, <2>4
  <2>9. OpenUnanswered' /\ CallersPlaced'
    BY <2>5, <2>8 DEF PlaceInv, OpenUnanswered, CallersPlaced
  <2> QED BY <2>6, <2>7, <2>9 DEF PlaceInv
<1>3. CASE WorkerGrants(w)
  <2>1. hand[w] \in Requests /\ hand[w] \in Held /\ result[hand[w]] = 0
    BY <1>3 DEF WorkerGrants, TypeOK, PlaceInv, OpenUnanswered
  <2>2. /\ hand' = [hand EXCEPT ![w] = None] /\ result' = Answered({hand[w]})
        /\ queue' = queue /\ caller' = caller
    BY <1>3 DEF WorkerGrants
  <2>3. /\ hand' \in [Scheds -> Requests \cup {None}] /\ Held' = Held \ {hand[w]}
        /\ (hand[scaled] = hand[reserve] => hand[scaled] = None)'
    BY <2>2, <1>0, HandFacts
  <2>4. /\ result' \in [Requests -> 0 .. 1]
        /\ result'[hand[w]] = 1
        /\ \A r \in Requests \ {hand[w]} : result'[r] = result[r]
    BY <2>1, <2>2, AnsweredProperties
  <2>5. free' \in [Scheds -> Nat] /\ leased' \in [Scheds -> Nat]
    BY <1>3, <2>1, TakeThreadsStep DEF WorkerGrants
  <2>6. TypeOK'
    BY <1>3, <2>3, <2>4, <2>5 DEF WorkerGrants, TypeOK
  <2>7. QueuedOnce' /\ HeldOnce'
    BY <2>2, <2>3, <1>0 DEF PlaceInv, QueuedOnce, HeldOnce
  <2>8. hand[w] \notin ToSet(queue)
    BY <2>1, <1>0 DEF HeldOnce
  <2>9. OpenUnanswered' /\ CallersPlaced'
    BY <2>1, <2>2, <2>3, <2>4, <2>8 DEF PlaceInv, OpenUnanswered, CallersPlaced
  <2> QED BY <2>6, <2>7, <2>9 DEF PlaceInv
<1>4. CASE WorkerPutsBack(w)
  <2>1. hand[w] \in Requests /\ hand[w] \in Held
    BY <1>4 DEF WorkerPutsBack, TypeOK
  <2>2. /\ hand' = [hand EXCEPT ![w] = None] /\ queue' = Append(queue, hand[w])
        /\ result' = result /\ caller' = caller
    BY <1>4 DEF WorkerPutsBack
  <2>3. /\ hand' \in [Scheds -> Requests \cup {None}] /\ Held' = Held \ {hand[w]}
        /\ (hand[scaled] = hand[reserve] => hand[scaled] = None)'
    BY <2>2, <1>0, HandFacts
  <2>4. hand[w] \notin ToSet(queue)
    BY <2>1, <1>0 DEF HeldOnce
  <2>5. /\ queue' \in Seq(Requests) /\ Distinct(queue')
        /\ ToSet(queue') = ToSet(queue) \cup {hand[w]}
    BY <2>1, <2>2, <2>4, AppendQueue
  <2>6. TypeOK'
    BY <1>4, <2>3, <2>5 DEF WorkerPutsBack, TypeOK
  <2>7. QueuedOnce' /\ HeldOnce'
    BY <2>3, <2>5, <1>0 DEF QueuedOnce, Distinct, HeldOnce
  <2>8. ToSet(queue)' \cup Held' = ToSet(queue) \cup Held
    BY <2>1, <2>3, <2>5
  <2>9. OpenUnanswered' /\ CallersPlaced'
    BY <2>2, <2>8 DEF PlaceInv, OpenUnanswered, CallersPlaced
  <2> QED BY <2>6, <2>7, <2>9 DEF PlaceInv
<1> QED BY <1>1, <1>2, <1>3, <1>4

\* Requests leave the queue with an error: those of a set rs that was in it.
LEMMA ErrorAnswers ==
    ASSUME ConstantsAssumption, PlaceInv, TypeOK',
           NEW rs \in SUBSET ToSet(queue),
           queue' \in Seq(Requests), Distinct(queue'), ToSet(queue') = ToSet(queue) \ rs,
           result' = Answered(rs),
           UNCHANGED <<hand, caller>>
    PROVE  PlaceInv'
<1> USE PlaceFacts
<1>1. rs \subseteq Requests /\ \A r \in rs : result[r] = 0
  BY DEF PlaceInv, OpenUnanswered
<1>2. /\ \A r \in rs : result'[r] = 1
      /\ \A r \in Requests \ rs : result'[r] = result[r]
  BY <1>1, AnsweredProperties
<1>3. Held' = Held /\ Held \cap ToSet(queue) = {}
  BY DEF Held, PlaceInv, HeldOnce
<1>4. QueuedOnce' /\ HeldOnce'
  BY <1>3 DEF PlaceInv, QueuedOnce, HeldOnce, Distinct
<1>5. OpenUnanswered'
  <2>1. ASSUME NEW r \in ToSet(queue') \cup Held PROVE result'[r] = 0
    <3>1. r \in Requests \ rs /\ result[r] = 0
      BY <1>3 DEF PlaceInv, OpenUnanswered
    <3> QED BY <3>1, <1>2
  <2> QED BY <2>1, <1>3 DEF OpenUnanswered
<1>6. CallersPlaced'
  BY <1>2, <1>3 DEF PlaceInv, CallersPlaced
<1> QED BY <1>4, <1>5, <1>6 DEF PlaceInv

\* ClearReqQueueWithError empties the queue.
LEMMA ClearFacts ==
    ASSUME PlaceInv, ClearReqQueueWithError
    PROVE  /\ queue' \in Seq(Requests) /\ Distinct(queue')
           /\ ToSet(queue') = ToSet(queue) \ ToSet(queue)
           /\ result' = Answered(ToSet(queue))
           /\ result' \in [Requests -> 0 .. 1]
<1> USE PlaceFacts
<1>1. queue' = <<>> /\ result' = Answered(ToSet(queue))
  BY DEF ClearReqQueueWithError
<1>2. queue' \in Seq(Requests) /\ DOMAIN queue' = {}
  BY <1>1
<1>3. Distinct(queue') /\ ToSet(queue') = {}
  BY <1>2 DEF Distinct, ToSet
<1>4. result' \in [Requests -> 0 .. 1]
  BY <1>1, AnsweredProperties DEF PlaceInv, OpenUnanswered
<1> QED BY <1>1, <1>2, <1>3, <1>4

\* The timeout loop: a trigger, its timer, or the stop; and a create error
\* that clears the queue.
LEMMA LoopSteps ==
    ASSUME ConstantsAssumption, PlaceInv, LoopStep \/ CreateFails
    PROVE  PlaceInv'
<1> USE PlaceFacts DEF clients, workers, loop, threads
<1>1. ASSUME NEW old \in Requests \cup {None}, HandleTimeouts(old)
      PROVE  \E rs \in SUBSET ToSet(queue) :
                /\ queue' \in Seq(Requests) /\ Distinct(queue')
                /\ ToSet(queue') = ToSet(queue) \ rs
                /\ result' = Answered(rs)
                /\ result' \in [Requests -> 0 .. 1]
                /\ timer' \in Requests \cup {None}
  <2> DEFINE front == SubSeq(queue, 1, ExpiredFront)
             rest  == SubSeq(queue, ExpiredFront + 1, Len(queue))
  <2>1. ExpiredFront \in 0 .. Len(queue)
    BY ExpiredFrontExists
  <2>2. /\ rest \in Seq(Requests) /\ Distinct(rest)
        /\ ToSet(front) \cup ToSet(rest) = ToSet(queue)
        /\ ToSet(front) \cap ToSet(rest) = {}
    BY <2>1, SplitQueue
  <2>3. /\ queue' = rest /\ result' = Answered(ToSet(front))
        /\ timer' = IF rest = <<>> THEN old ELSE Head(rest)
    BY <1>1 DEF HandleTimeouts
  <2> HIDE DEF front, rest
  <2>4. rest # <<>> => Head(rest) \in Requests
    BY <2>2, PopQueue
  <2>5. result' \in [Requests -> 0 .. 1]
    <3>1. ToSet(front) \subseteq Requests /\ \A r \in ToSet(front) : result[r] = 0
      BY <2>2 DEF PlaceInv, OpenUnanswered
    <3> QED BY <2>3, <3>1, AnsweredProperties
  <2>6. ToSet(front) \in SUBSET ToSet(queue) /\ ToSet(rest) = ToSet(queue) \ ToSet(front)
    BY <2>2
  <2>7. timer' \in Requests \cup {None}
    BY <2>3, <2>4, <1>1
  <2>8. /\ queue' \in Seq(Requests) /\ Distinct(queue')
        /\ ToSet(queue') = ToSet(queue) \ ToSet(front)
    BY <2>2, <2>3, <2>6
  <2> QED BY <2>3, <2>5, <2>6, <2>7, <2>8
<1>2. CASE LoopTriggered
  <2>1. timer \in Requests \cup {None} /\ HandleTimeouts(timer) /\ UNCHANGED <<hand, caller>>
    BY <1>2 DEF LoopTriggered, TypeOK
  <2>2. PICK rs \in SUBSET ToSet(queue) :
                /\ queue' \in Seq(Requests) /\ Distinct(queue')
                /\ ToSet(queue') = ToSet(queue) \ rs
                /\ result' = Answered(rs)
                /\ result' \in [Requests -> 0 .. 1]
                /\ timer' \in Requests \cup {None}
    BY <2>1, <1>1
  <2>3. triggerCh' \in Nat
    BY <1>2 DEF LoopTriggered, TypeOK
  <2>4. TypeOK'
    BY <1>2, <2>2, <2>3 DEF LoopTriggered, TypeOK
  <2> QED BY <2>1, <2>2, <2>4, ErrorAnswers
<1>3. CASE LoopTimer
  <2>1. HandleTimeouts(None) /\ UNCHANGED <<hand, caller>>
    BY <1>3 DEF LoopTimer
  <2>2. PICK rs \in SUBSET ToSet(queue) :
                /\ queue' \in Seq(Requests) /\ Distinct(queue')
                /\ ToSet(queue') = ToSet(queue) \ rs
                /\ result' = Answered(rs)
                /\ result' \in [Requests -> 0 .. 1]
                /\ timer' \in Requests \cup {None}
    BY <2>1, <1>1
  <2>3. TypeOK'
    BY <1>3, <2>2 DEF LoopTimer, TypeOK
  <2> QED BY <2>1, <2>2, <2>3, ErrorAnswers
<1>4. CASE LoopStops
  <2>1. ClearReqQueueWithError /\ UNCHANGED <<hand, caller>>
    BY <1>4 DEF LoopStops
  <2>2. TypeOK'
    BY <1>4, <2>1, ClearFacts DEF LoopStops, TypeOK
  <2> QED BY <2>1, <2>2, ClearFacts, ErrorAnswers
<1>5. CASE CreateFails /\ insNum = 0
  <2>1. ClearReqQueueWithError /\ UNCHANGED <<hand, caller>>
    BY <1>5 DEF CreateFails
  <2>2. TypeOK'
    BY <1>5, <2>1, ClearFacts, EventStep DEF CreateFails, TypeOK
  <2> QED BY <2>1, <2>2, ClearFacts, ErrorAnswers
<1>6. CASE CreateFails /\ insNum # 0
  <2>1. TypeOK'
    BY <1>6, EventStep DEF CreateFails, TypeOK
  <2> QED BY <1>6, <2>1, PlacesUntouched DEF CreateFails
<1> QED BY <1>2, <1>3, <1>4, <1>5, <1>6 DEF LoopStep

-----------------------------------------------------------------------------
(* The theorems                                                            *)

LEMMA InitPlaceInv == ASSUME ConstantsAssumption, Init PROVE PlaceInv
<1>1. TypeOK
  <2>1. queue \in Seq(Requests) /\ young \in Seq(Requests)
    BY DEF Init
  <2>2. events \in 0 .. MaxEvents
    BY DEF ConstantsAssumption, Init
  <2>3. result \in [Requests -> 0 .. 1]
    BY DEF Init
  <2>4. /\ triggerCh \in Nat /\ free \in [Scheds -> Nat]
        /\ leased \in [Scheds -> Nat] /\ ins \in [Scheds -> Nat]
    BY DEF Init
  <2> QED BY <2>1, <2>2, <2>3, <2>4 DEF Init, TypeOK
<1>2. ToSet(queue) = {} /\ Held = {}
  BY DEF Init, ToSet, Held
<1> QED BY <1>1, <1>2 DEF PlaceInv, QueuedOnce, HeldOnce, OpenUnanswered, CallersPlaced, Init, Scheds

LEMMA NextPlaceInv == ASSUME ConstantsAssumption, PlaceInv, [Next]_vars PROVE PlaceInv'
<1>1. CASE UNCHANGED vars
  <2>1. TypeOK'
    BY <1>1, PlaceFacts DEF vars, clients, workers, loop, threads, TypeOK
  <2> QED BY <1>1, <2>1, PlacesUntouched DEF vars, clients, workers
<1>2. ASSUME NEW r \in Requests, Call(r) PROVE PlaceInv'
  BY <1>2, AcquireSteps, AddRequestStep, CancelRequestStep DEF Call
<1>3. ASSUME NEW w \in Scheds, ThreadsChange(w) PROVE PlaceInv'
  BY <1>3, QuietSteps
<1>4. ASSUME NEW w \in Scheds, WorkerStep(w) PROVE PlaceInv'
  BY <1>4, QuietSteps, WorkerSteps DEF WorkerStep
<1>5. CASE Age \/ CreateSucceeds \/ Stop
  BY <1>5, QuietSteps
<1>6. CASE LoopStep \/ CreateFails
  BY <1>6, LoopSteps
<1> QED BY <1>1, <1>2, <1>3, <1>4, <1>5, <1>6 DEF Next

\* The places of a request are its positions in the queue and the hands that
\* hold it, at most one in all.
LEMMA PlacesCount ==
    ASSUME ConstantsAssumption, PlaceInv, NEW r \in Requests
    PROVE  Places(r) = IF r \in ToSet(queue) \cup Held THEN 1 ELSE 0
<1> USE PlaceFacts
<1> DEFINE P == {i \in DOMAIN queue : queue[i] = r}
           H == {w \in Scheds : hand[w] = r}
<1>1. Cardinality(P) = IF r \in ToSet(queue) THEN 1 ELSE 0
  <2>1. CASE r \in ToSet(queue)
    <3>1. PICK i \in DOMAIN queue : queue[i] = r
      BY <2>1 DEF ToSet
    <3>2. P = {i}
      BY <3>1 DEF Distinct
    <3> QED BY <3>2, <2>1, FS_Singleton
  <2>2. CASE r \notin ToSet(queue)
    <3>1. P = {}
      BY <2>2 DEF ToSet
    <3> QED BY <3>1, <2>2, FS_EmptySet
  <2> QED BY <2>1, <2>2
<1>2. r # None
  BY DEF ConstantsAssumption
<1>3. Cardinality(H) = IF r \in Held THEN 1 ELSE 0
  <2>1. CASE r \in Held
    <3>1. PICK w \in Scheds : hand[w] = r
      BY <2>1 DEF Held
    <3>2. H = {w}
      BY <3>1, <1>2 DEF Scheds, PlaceInv, HeldOnce
    <3> QED BY <3>2, <2>1, FS_Singleton
  <2>2. CASE r \notin Held
    <3>1. H = {}
      BY <2>2, <1>2 DEF Held
    <3> QED BY <3>1, <2>2, FS_EmptySet
  <2> QED BY <2>1, <2>2
<1>4. ~ (r \in ToSet(queue) /\ r \in Held)
  BY DEF PlaceInv, HeldOnce
<1>5. Places(r) = Cardinality(P) + Cardinality(H)
  BY DEF Places
<1> HIDE DEF P, H
<1> QED BY <1>1, <1>3, <1>4, <1>5

LEMMA PlaceInvOnePlaceEach == ASSUME ConstantsAssumption, PlaceInv PROVE OnePlaceEach
<1> SUFFICES ASSUME NEW r \in Requests
             PROVE  /\ Places(r) + result[r] <= 1
                    /\ caller[r] = "waiting" => Places(r) + result[r] = 1
  BY DEF OnePlaceEach
<1>1. Places(r) = IF r \in ToSet(queue) \cup Held THEN 1 ELSE 0
  BY PlacesCount
<1>2. result[r] = 0 \/ result[r] = 1
  BY PlaceFacts DEF TypeOK
<1>3. r \in ToSet(queue) \cup Held => result[r] = 0
  BY DEF PlaceInv, OpenUnanswered
<1>4. caller[r] = "waiting" => r \in ToSet(queue) \cup Held \/ result[r] = 1
  BY DEF PlaceInv, CallersPlaced
<1> QED BY <1>1, <1>2, <1>3, <1>4

\* Every state of the request queue is well typed: in particular no
\* ResultChan, which has room for one answer, ever gets a second one.
THEOREM TypeCorrect == Spec => []TypeOK
<1>1. Init => PlaceInv
  BY ConstantsAssumption, InitPlaceInv
<1>2. PlaceInv /\ [Next]_vars => PlaceInv'
  BY ConstantsAssumption, NextPlaceInv
<1>3. PlaceInv => TypeOK
  BY DEF PlaceInv
<1> QED BY <1>1, <1>2, <1>3, PTL DEF Spec

\* A request whose caller waits is in exactly one of the queue, a worker's
\* hand and its ResultChan, and never in two of them: nothing is lost or
\* answered twice when the two workers, the timeout loop, a create error,
\* the stop and a cancelling caller meet.
THEOREM NothingLostOrAnsweredTwice == Spec => []OnePlaceEach
<1>1. Init => PlaceInv
  BY ConstantsAssumption, InitPlaceInv
<1>2. PlaceInv /\ [Next]_vars => PlaceInv'
  BY ConstantsAssumption, NextPlaceInv
<1>3. PlaceInv => OnePlaceEach
  BY ConstantsAssumption, PlaceInvOnePlaceEach
<1> QED BY <1>1, <1>2, <1>3, PTL DEF Spec
=============================================================================
