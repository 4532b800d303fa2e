------------------------ MODULE ConcurrencyScheduler ------------------------
(***************************************************************************)
(* The concurrency scheduler of one function and resource specification:   *)
(* src/go/pkg/functionscaler/scheduler/concurrencyscheduler/               *)
(*   basic_concurrency_scheduler.go, scaled_concurrency_scheduler.go,      *)
(*   sessionmanager.go, and lease/generic_lease_manager.go.                *)
(*                                                                         *)
(* Each instance offers CN threads.  A thread is handed out on its own, or *)
(* a session reserves several; a lease returns what its client does not.   *)
(* All handlers run under the scheduler's lock and are single steps; what  *)
(* happens outside the lock is split off: the read of the session store,   *)
(* the ownership check of HandleInstanceUpdate, the removal of a lease     *)
(* before its callback, and the goroutine that waits for a session to      *)
(* expire.  Thread IDs are counted, not named.                             *)
(*                                                                         *)
(* An instanceElement is a heap object: queues and session records refer   *)
(* to it, and an instance that leaves a queue and comes back gets a new    *)
(* one.  That is why elements have identities here.                        *)
(***************************************************************************)
EXTENDS Integers, FiniteSets, Sequences, FiniteSetsExt

CONSTANTS
    Instances, Sessions, Clients,
    CN,             \* concurrentNum
    Conc,           \* session -> Concurrency of its requests, -1 for a whole instance
    MaxElems, MaxRecs, MaxAllocs,   \* bounds: elements, records, allocations held
    MaxEvents, MaxAcquires,     \* bounds: instance events and ownership changes, requests
    None            \* no instance, lease, request or event

Full == -1

\* A thread handed out: on its own, from a session's reservation, or beyond it
Allocation == [ins : Instances, kind : {"plain", "sess", "over"}, rec : Nat,
               state : {"leased", "releasing"}]

ASSUME ConstantsAssumption ==
    /\ CN \in Nat \ {0}
    /\ Conc \in [Sessions -> {Full} \cup 1..CN]
    /\ MaxElems \in Nat /\ MaxRecs \in Nat /\ MaxAllocs \in Nat
    /\ MaxEvents \in Nat /\ MaxAcquires \in Nat
    /\ IsFiniteSet(Instances)
    /\ None \notin Instances \cup Sessions \cup Allocation

VARIABLES
    sch,        \* what the scheduler's lock protects, see SchedulerState
    isFuncOwner,
    allocs,     \* allocations a lease still answers for
    req,        \* client -> session acquire between two lock regions
    event,      \* HandleInstanceUpdate between its ownership check and the lock
    events, acquires     \* what is left of the bounds

vars == <<sch, isFuncOwner, allocs, req, event, events, acquires>>

Queues == {"self", "other"}
Status == {"running", "subHealth", "evicting"}
Slots  == 1..MaxAllocs
Timers == {"none", "waiting", "fired", "cancelled", "done"}

SchedulerState ==
    [elems : Seq([ins : Instances, free : 0..CN, status : Status]),
     queue : [Queues -> [Instances -> 0..MaxElems]],    \* 0: not in the queue
     count : [Instances -> 0..CN],                      \* insAvailThdCount
     avail : Int, inUse : Int, total : Int,             \* what the topics add up to
     recs  : Seq([sess : Sessions, elem : 1..MaxElems, conc : 1..CN, avail : 0..CN,
                  over : Nat, expiring : BOOLEAN, token : BOOLEAN,
                  timer : Timers, que : Queues]),
     sessionMap : [Sessions -> 0..MaxRecs]]             \* 0: no record

TypeOK ==
    /\ sch.elems \in Seq([ins : Instances, free : 0..CN, status : Status])
    /\ Len(sch.elems) <= MaxElems /\ Len(sch.recs) <= MaxRecs
    /\ sch.queue \in [Queues -> [Instances -> 0..Len(sch.elems)]]
    /\ sch.count \in [Instances -> 0..CN]
    /\ \A r \in DOMAIN sch.recs :
        /\ sch.recs[r].avail \in 0..sch.recs[r].conc /\ sch.recs[r].over \in Nat
        /\ sch.recs[r].timer \in Timers
    /\ sch.sessionMap \in [Sessions -> 0..Len(sch.recs)]
    /\ isFuncOwner \in BOOLEAN
    /\ allocs \in [Slots -> Allocation \cup {None}]
    /\ \A q \in Queues, i \in Instances :
        sch.queue[q][i] # 0 => sch.elems[sch.queue[q][i]].ins = i

Init ==
    /\ sch = [elems |-> <<>>, queue |-> [q \in Queues |-> [i \in Instances |-> 0]],
              count |-> [i \in Instances |-> 0], avail |-> 0, inUse |-> 0, total |-> 0,
              recs |-> <<>>, sessionMap |-> [s \in Sessions |-> 0]]
    /\ isFuncOwner \in BOOLEAN
    /\ allocs = [a \in Slots |-> None]
    /\ req = [c \in Clients |-> None]
    /\ event = None
    /\ events = MaxEvents /\ acquires = MaxAcquires

-----------------------------------------------------------------------------
(* Instance queues.  The self queue publishes what changes; the arguments  *)
(* and results of these operators are scheduler states.                    *)

HomeQueue == IF isFuncOwner THEN "self" ELSE "other"     \* checkSelfInstance

InQueue(s, q, i) == s.queue[q][i] # 0
ElemIn(s, q, i)  == s.elems[s.queue[q][i]]

Publish(s, avail, inUse, total) ==
    [s EXCEPT !.avail = @ + avail, !.inUse = @ + inUse, !.total = @ + total]

\* instanceQueueWithObserver.PushBack, for an instance that is in no record of q
PushBack(s, q, e) ==
    LET el == s.elems[e]
        s1 == [s EXCEPT !.queue[q][el.ins] = e] IN
    IF InQueue(s, q, el.ins) THEN s
    ELSE IF q = "other" THEN s1
    ELSE LET s2 == [s1 EXCEPT !.count[el.ins] = el.free] IN
         CASE el.status = "running"   -> Publish(s2, el.free, 0, CN)
           [] el.status = "subHealth" -> Publish(s2, 0, 0, CN)
           [] OTHER                   -> s2

\* DelByID, and the Pop operations, which publish the same amounts
DelByID(s, q, i) ==
    LET el == ElemIn(s, q, i)
        s1 == [s EXCEPT !.queue[q][i] = 0] IN
    IF ~InQueue(s, q, i) THEN s
    ELSE IF q = "other" \/ el.status = "evicting" THEN s1
    ELSE Publish(s1, IF el.status = "running" THEN -el.free ELSE 0, -(CN - el.free), -CN)

UpdateObjByID_KeepAvail(s, q, e, old) ==
    LET el == s.elems[e]
        s1 == [s EXCEPT !.queue[q][el.ins] = e]
        s2 == [s1 EXCEPT !.count[el.ins] = el.free]
        diff == el.free - s.count[el.ins] IN
    IF ~InQueue(s, q, el.ins) THEN s
    ELSE IF q = "other" THEN s1
    ELSE IF old = "running" /\ el.status = "running" THEN Publish(s2, diff, -diff, 0) ELSE s2

\* UpdateObjByID files element e, whatever element was filed for the instance,
\* and publishes the difference; old is the status it was filed under
UpdateObjByID(s, q, e, old) ==
    LET el   == s.elems[e]
        diff == el.free - s.count[el.ins]
        s1   == [s EXCEPT !.queue[q][el.ins] = e]
        s2   == [s1 EXCEPT !.count[el.ins] = el.free] IN
    IF ~InQueue(s, q, el.ins) THEN s
    ELSE IF q = "other" THEN s1
    ELSE CASE old = "running" /\ el.status = "running"     -> Publish(s2, diff, -diff, 0)
           [] old = "running" /\ el.status = "subHealth"   -> Publish(s2, -el.free, 0, 0)
           [] old = "running" /\ el.status = "evicting"    ->
                Publish(s2, -el.free, -(CN - el.free), -CN)
           [] old = "subHealth" /\ el.status = "running"   -> Publish(s2, el.free, -diff, 0)
           [] old = "subHealth" /\ el.status = "evicting"  -> Publish(s2, 0, -(CN - el.free), -CN)
           [] OTHER                                        -> s2

Refile(s, q, e) ==
    IF InQueue(s, q, s.elems[e].ins)
    THEN UpdateObjByID(s, q, e, ElemIn(s, q, s.elems[e].ins).status) ELSE s

\* PutThreadToThreadMap: threads beyond concurrentNum are dropped
PutThreads(s, e, n) == [s EXCEPT !.elems[e].free = Min({CN, @ + n})]

\* Front of the priority queue: the busiest running instance that has at
\* least n free threads; equally busy ones come in any order
Busiest(s, q, n) ==
    LET fit == {e \in DOMAIN s.elems :
                  /\ s.queue[q][s.elems[e].ins] = e
                  /\ s.elems[e].status = "running" /\ s.elems[e].free >= n}
    IN  {e \in fit : \A f \in fit : s.elems[e].free <= s.elems[f].free}

-----------------------------------------------------------------------------
(* Acquiring.  A result carries the new state, and the allocation or None. *)

Result(s, a) == [s |-> s, alloc |-> a]
Alloc(s, e, kind, r) ==
    [ins |-> s.elems[e].ins, kind |-> kind, rec |-> r, state |-> "leased"]

\* acquireInstanceThread
TakeThread(s, q, e, kind, r) ==
    LET s1 == [s EXCEPT !.elems[e].free = @ - 1] IN
    IF s.elems[e].free = 0 THEN Result(s, None)
    ELSE IF ~InQueue(s, q, s.elems[e].ins) THEN Result(s1, None)    \* the thread is lost
    ELSE Result(Refile(s1, q, e), Alloc(s, e, kind, r))

SessionThread_NoToken(s, q, sess) ==
    LET r   == s.sessionMap[sess]
        res == TakeThread(s, q, s.recs[r].elem, "over", r) IN
    IF s.recs[r].avail > 0
    THEN Result([s EXCEPT !.recs[r].avail = @ - 1], Alloc(s, s.recs[r].elem, "sess", r))
    ELSE IF res.alloc = None THEN res
    ELSE Result([res.s EXCEPT !.recs[r].over = @ + 1], res.alloc)

\* acquireSessionThread, and a thread outside the reservation when it is used up
SessionThread(s, q, sess) ==
    LET r   == s.sessionMap[sess]
        s1  == [s EXCEPT !.recs[r].token = @ \/ s.recs[r].expiring]
        res == TakeThread(s1, q, s.recs[r].elem, "over", r) IN
    IF s.recs[r].avail > 0
    THEN Result([s1 EXCEPT !.recs[r].avail = @ - 1], Alloc(s, s.recs[r].elem, "sess", r))
    ELSE IF res.alloc = None THEN res
    ELSE Result([res.s EXCEPT !.recs[r].over = @ + 1], res.alloc)

Wanted(conc) == IF conc = Full THEN CN ELSE conc

\* bindThdWithSession and addSession; what addSession saves, ReadStore reads
Bind(s, q, e, sess, conc) ==
    LET n  == Wanted(conc)
        r  == Len(s.recs) + 1
        s1 == [s EXCEPT !.elems[e].free = @ - n,
                        !.recs = Append(@, [sess |-> sess, elem |-> e, conc |-> n,
                                            avail |-> n, over |-> 0, expiring |-> FALSE,
                                            token |-> FALSE, timer |-> "none", que |-> "self"])]
    IN  [Refile(s1, q, e) EXCEPT !.sessionMap[sess] = r]

\* isSessionExist drops the local record of an instance that left the queue
ForgetGone(s, q, sess) ==
    IF s.sessionMap[sess] # 0 /\ ~InQueue(s, q, s.elems[s.recs[s.sessionMap[sess]].elem].ins)
    THEN [s EXCEPT !.sessionMap[sess] = 0] ELSE s

\* acquireSessionInstance
AcquireSession(s, q, sess, conc) ==
    LET s1 == ForgetGone(s, q, sess)
        es == Busiest(s1, q, Wanted(conc)) IN
    IF s1.sessionMap[sess] # 0 THEN {SessionThread(s1, q, sess)}
    ELSE IF es = {} THEN {Result(s1, None)}
    ELSE {SessionThread(Bind(s1, q, e, sess, conc), q, sess) : e \in es}

AcquireDesignate_Rebind(s, q, i, sess, conc) ==
    LET e == s.queue[q][i] IN
    IF e = 0 THEN AcquireSession(s, q, sess, conc)
    ELSE IF s.elems[e].status = "subHealth" \/ s.elems[e].free < Wanted(conc) THEN {Result(s, None)}
    ELSE {SessionThread(Bind(s, q, e, sess, conc), q, sess)}

\* acquireDesignateInstance, with the fallback of acquireInstanceInternal
AcquireDesignate(s, q, i, sess, conc) ==
    LET e == s.queue[q][i]
        r == s.sessionMap[sess] IN
    IF e = 0 THEN AcquireSession(s, q, sess, conc)
    ELSE IF s.elems[e].status = "subHealth" THEN {Result(s, None)}
    ELSE IF r # 0
    THEN IF s.elems[s.recs[r].elem].ins # i
         THEN {Result(s, None)}      \* SessionID is cleared, then not found: ErrInternal
         ELSE {SessionThread(s, q, sess)}
    ELSE IF s.elems[e].free < Wanted(conc) THEN {Result(s, None)}
    ELSE {SessionThread(Bind(s, q, e, sess, conc), q, sess)}

\* routeDesignateInstance; a request the owner turned away because of its
\* traffic limit (TrafficLimited) is served from the self queue
Route(s, i, limited) ==
    IF i # None /\ InQueue(s, "self", i) THEN "self"
    ELSE IF i # None /\ InQueue(s, "other", i) THEN "other"
    ELSE IF limited THEN "self" ELSE HomeQueue

\* CreateInstanceLease: the allocation is leased until its callback has run
Grant(res) ==
    /\ sch' = res.s
    /\ IF res.alloc = None THEN UNCHANGED allocs
       ELSE \E a \in Slots :
              /\ allocs[a] = None /\ \A b \in 1..(a - 1) : allocs[b] # None
              /\ allocs' = [allocs EXCEPT ![a] = res.alloc]

\* acquireDefaultInstance: a request without a session
Acquire(c, limited) ==
    /\ req[c] = None /\ acquires > 0 /\ acquires' = acquires - 1
    /\ \E a \in Slots : allocs[a] = None
    /\ LET q == Route(sch, None, limited) IN
       \E e \in Busiest(sch, q, 1) : Grant(TakeThread(sch, q, e, "plain", 0))
    /\ UNCHANGED <<isFuncOwner, req, event, events>>

\* a request that names a running instance and no session
AcquireNamed(c, i, limited) ==
    /\ req[c] = None /\ acquires > 0 /\ acquires' = acquires - 1
    /\ \E a \in Slots : allocs[a] = None
    /\ LET q == Route(sch, i, limited) IN
       /\ InQueue(sch, q, i) /\ ElemIn(sch, q, i).status = "running"
       /\ Grant(TakeThread(sch, q, sch.queue[q][i], "plain", 0))
    /\ UNCHANGED <<isFuncOwner, req, event, events>>

\* acquireWithSessionResolve, phase 1: look for a local record
PeekSession(c, sess, limited) ==
    /\ req[c] = None /\ acquires > 0 /\ acquires' = acquires - 1
    /\ LET r == sch.sessionMap[sess] IN
       req' = [req EXCEPT ![c] =
                [sess |-> sess, conc |-> Conc[sess], limited |-> limited,
                 pc   |-> IF r = 0 THEN "read" ELSE "hit",
                 ins  |-> IF r = 0 THEN None ELSE sch.elems[sch.recs[r].elem].ins]]
    /\ UNCHANGED <<sch, isFuncOwner, allocs, event, events>>

\* phase 2, outside the lock: records are saved and deleted asynchronously, by
\* other schedulers too, so any earlier binding or none may be found; an error
\* is a miss, and the stored concurrency replaces the requested one
ReadStore(c) ==
    /\ req[c] # None /\ req[c].pc = "read"
    /\ \E i \in Instances \cup {None} :
        req' = [req EXCEPT ![c].pc = "miss", ![c].ins = i,
                           ![c].conc = IF i = None THEN @ ELSE Wanted(@)]
    /\ UNCHANGED <<sch, isFuncOwner, allocs, event, events, acquires>>

\* phase 3: a local record made meanwhile wins over the stored one
Designated(c) ==
    LET r == sch.sessionMap[req[c].sess] IN
    IF req[c].pc = "miss" /\ r # 0 THEN sch.elems[sch.recs[r].elem].ins ELSE req[c].ins

AcquireResolved(c) ==
    /\ req[c] # None /\ req[c].pc \in {"hit", "miss"}
    /\ \E a \in Slots : allocs[a] = None
    /\ LET i == Designated(c)
           q == Route(sch, i, req[c].limited) IN
       \E res \in IF i = None THEN AcquireSession(sch, q, req[c].sess, req[c].conc)
                  ELSE AcquireDesignate(sch, q, i, req[c].sess, req[c].conc) :
            Len(res.s.recs) <= MaxRecs /\ Grant(res)
    /\ req' = [req EXCEPT ![c] = None]
    /\ UNCHANGED <<isFuncOwner, event, events, acquires>>

-----------------------------------------------------------------------------
(* Releasing, and the expiry of idle sessions.                             *)

\* releaseLease or pollLease: the lease is gone, its callback still to run
EndLease(a) ==
    /\ allocs[a] # None /\ allocs[a].state = "leased"
    /\ allocs' = [allocs EXCEPT ![a].state = "releasing"]
    /\ UNCHANGED <<sch, isFuncOwner, req, event, events, acquires>>

\* startUnbindInstanceSession: the goroutine keeps the queue it was given
StartUnbind(s, q, r) ==
    IF s.recs[r].over = 0 /\ s.recs[r].avail = s.recs[r].conc /\ ~s.recs[r].expiring
    THEN [s EXCEPT !.recs[r].expiring = TRUE, !.recs[r].timer = "waiting", !.recs[r].que = q]
    ELSE s

ReturnThread_Twice(s, q, al) ==
    LET e == s.queue[q][al.ins]
        r == IF al.rec = 0 THEN 0 ELSE s.sessionMap[s.recs[al.rec].sess] IN
    IF e = 0 THEN s
    ELSE IF al.rec # 0 /\ r = al.rec /\ al.kind = "sess"
    THEN Refile(PutThreads([s EXCEPT !.recs[r].avail = @ + 1], e, 1), q, e)
    ELSE Refile(PutThreads(s, e, 1), q, e)

\* releaseInstanceInternal: an allocation of a session whose record was
\* replaced is returned like a plain one, one whose record is gone is lost
ReturnThread(s, q, al) ==
    LET e    == s.queue[q][al.ins]
        r    == IF al.rec = 0 THEN 0 ELSE s.sessionMap[s.recs[al.rec].sess]
        over == StartUnbind([s EXCEPT !.recs[r].over = @ - 1], q, r)
        idle == StartUnbind([s EXCEPT !.recs[r].avail = @ + 1], q, r) IN
    IF e = 0 \/ (al.rec # 0 /\ r = 0) THEN s
    ELSE IF al.rec = 0 \/ r # al.rec THEN Refile(PutThreads(s, e, 1), q, e)
    ELSE IF al.kind = "over" THEN Refile(PutThreads(over, e, 1), q, e)
    ELSE Refile(idle, q, e)

ReleaseInstance(a) ==
    /\ allocs[a] # None /\ allocs[a].state = "releasing"
    /\ sch' = ReturnThread(sch, HomeQueue, allocs[a])
    /\ allocs' = [allocs EXCEPT ![a] = None]
    /\ UNCHANGED <<isFuncOwner, req, event, events, acquires>>

TimerFires(r) ==
    /\ sch.recs[r].timer = "waiting"
    /\ sch' = [sch EXCEPT !.recs[r].timer = "fired"]
    /\ UNCHANGED <<isFuncOwner, allocs, req, event, events, acquires>>

\* the cancel token is taken first, expiring is reset later and without a lock
TimerCancelled(r) ==
    /\ \/ /\ sch.recs[r].timer = "waiting" /\ sch.recs[r].token
          /\ sch' = [sch EXCEPT !.recs[r].timer = "cancelled", !.recs[r].token = FALSE]
       \/ /\ sch.recs[r].timer = "cancelled"
          /\ sch' = [sch EXCEPT !.recs[r].timer = "none", !.recs[r].expiring = FALSE]
    /\ UNCHANGED <<isFuncOwner, allocs, req, event, events, acquires>>

Busy(s, r) == s.recs[r].avail # s.recs[r].conc \/ s.recs[r].over # 0

\* unbindInstanceSession, timer case: with the lock held a record in use waits
\* for the token its user must have left; an idle one gives its threads back
\* to the instance and is deleted by session ID
Unbind(r) ==
    /\ sch.recs[r].timer = "fired"
    /\ LET q  == sch.recs[r].que
           e  == sch.recs[r].elem
           s1 == IF InQueue(sch, q, sch.elems[e].ins)
                 THEN PutThreads(sch, e, sch.recs[r].conc) ELSE sch
           s2 == [s1 EXCEPT !.sessionMap[sch.recs[r].sess] = 0] IN
       \/ /\ Busy(sch, r) /\ sch.recs[r].token
          /\ sch' = [sch EXCEPT !.recs[r].timer = "none", !.recs[r].token = FALSE,
                                !.recs[r].expiring = FALSE]
       \/ /\ ~Busy(sch, r)
          /\ sch' = [Refile(s2, q, e) EXCEPT !.recs[r].timer = "done"]
    /\ UNCHANGED <<isFuncOwner, allocs, req, event, events, acquires>>

-----------------------------------------------------------------------------
(* Instances come, change and go; ownership of the function moves.         *)

NewElem(s, q, i, st) ==
    PushBack([s EXCEPT !.elems = Append(@, [ins |-> i, free |-> CN, status |-> st])],
             q, Len(s.elems) + 1)

\* AddInstance after a creation
AddInstance(i) ==
    /\ events > 0 /\ events' = events - 1
    /\ Len(sch.elems) < MaxElems
    /\ LET q == HomeQueue IN
       ~InQueue(sch, q, i) /\ sch' = NewElem(sch, q, i, "running")
    /\ UNCHANGED <<isFuncOwner, allocs, req, event, acquires>>

\* HandleInstanceUpdate: the queue is chosen before the lock is taken; the kernel
\* never reports an instance that is being evicted as anything else
UpdateArrives(i, st) ==
    /\ event = None /\ events > 0 /\ events' = events - 1
    /\ st = "evicting" \/ \A q \in Queues : InQueue(sch, q, i) => ElemIn(sch, q, i).status # "evicting"
    /\ event' = [ins |-> i, status |-> st, que |-> HomeQueue]
    /\ UNCHANGED <<sch, isFuncOwner, allocs, req, acquires>>

HandleInstanceUpdate ==
    /\ event # None
    /\ LET q == event.que
           i == event.ins
           e == sch.queue[q][i] IN
       IF e = 0
       THEN /\ Len(sch.elems) < MaxElems
            /\ sch' = NewElem(sch, q, i, event.status)
       ELSE sch' = UpdateObjByID([sch EXCEPT !.elems[e].status = event.status],
                                 q, e, sch.elems[e].status)
    /\ event' = None
    /\ UNCHANGED <<isFuncOwner, allocs, req, events, acquires>>

\* DelInstance stops the lease holder: its callbacks never run
DelInstance(i) ==
    /\ events > 0 /\ events' = events - 1
    /\ \E q \in Queues : InQueue(sch, q, i)
    /\ sch' = DelByID(sch, HomeQueue, i)
    /\ allocs' = [a \in Slots |->
                    IF allocs[a] # None /\ allocs[a].ins = i /\ allocs[a].state = "leased"
                    THEN None ELSE allocs[a]]
    /\ UNCHANGED <<isFuncOwner, req, event, acquires>>

\* popInstanceElement: a sub-healthy instance first, the one with the fewest
\* free threads; then the running one with the most; unforced, an idle one
Poppable(s, st) == {i \in Instances : InQueue(s, "self", i) /\ ElemIn(s, "self", i).status = st}

PopInstance(force) ==
    /\ events > 0 /\ events' = events - 1
    /\ LET sub == Poppable(sch, "subHealth")
           run == Poppable(sch, "running")
           free(i) == ElemIn(sch, "self", i).free IN
       \/ \E i \in sub : /\ \A j \in sub : free(i) <= free(j)
                         /\ sch' = DelByID(sch, "self", i)
       \/ /\ sub = {}
          /\ \E i \in run : /\ \A j \in run : free(i) >= free(j)
                            /\ force \/ free(i) = CN
                            /\ sch' = DelByID(sch, "self", i)
    /\ UNCHANGED <<isFuncOwner, allocs, req, event, acquires>>

\* HandleFuncOwnerUpdate and reassignQueues: instances that are being evicted
\* are put in both queues
Move(s, i, src, dst) ==
    LET s1 == PushBack(s, dst, s.queue[src][i]) IN
    IF ElemIn(s, src, i).status = "evicting" THEN s1 ELSE DelByID(s1, src, i)

HandleFuncOwnerUpdate ==
    /\ events > 0 /\ events' = events - 1
    /\ isFuncOwner' = ~isFuncOwner
    /\ LET src == HomeQueue
           dst == IF isFuncOwner THEN "other" ELSE "self" IN
       sch' = FoldSet(LAMBDA i, s : Move(s, i, src, dst), sch,
                      {i \in Instances : InQueue(sch, src, i)})
    /\ UNCHANGED <<allocs, req, event, acquires>>

Next ==
    \/ \E c \in Clients : ReadStore(c) \/ AcquireResolved(c)
    \/ \E c \in Clients, limited \in BOOLEAN :
           \/ Acquire(c, limited)
           \/ \E i \in Instances : AcquireNamed(c, i, limited)
           \/ \E sess \in Sessions : PeekSession(c, sess, limited)
    \/ \E a \in Slots : EndLease(a) \/ ReleaseInstance(a)
    \/ \E r \in DOMAIN sch.recs : TimerFires(r) \/ TimerCancelled(r) \/ Unbind(r)
    \/ \E i \in Instances : \/ AddInstance(i) \/ DelInstance(i)
                            \/ \E st \in Status : UpdateArrives(i, st)
    \/ HandleInstanceUpdate \/ HandleFuncOwnerUpdate
    \/ \E force \in BOOLEAN : PopInstance(force)

Spec == Init /\ [][Next]_vars

-----------------------------------------------------------------------------
(* Properties.                                                             *)

\* Instances that were added once, so that one element stands for them
Once == {e \in DOMAIN sch.elems :
            \A f \in DOMAIN sch.elems \ {e} : sch.elems[f].ins # sch.elems[e].ins}

\* Threads of element e that an unfinished session record keeps ready, and
\* those that a lease answers for
Reserved(e) ==
    SumFunctionOnSet([r \in DOMAIN sch.recs |-> sch.recs[r].avail],
        {r \in DOMAIN sch.recs : sch.recs[r].elem = e /\ sch.recs[r].timer # "done"})
Leased(e)   == Cardinality({a \in Slots : allocs[a] # None /\ allocs[a].ins = sch.elems[e].ins})

\* A thread of an instance is free, reserved by a session, or leased, and never
\* two of these, however acquires, releases, expiring sessions, replaced
\* records and ownership changes interleave.
ThreadsConserved ==
    \A e \in Once : sch.elems[e].free + Reserved(e) + Leased(e) <= CN

\* What the autoscaler was told: free threads of running instances, and
\* all threads of running and sub-healthy ones, of the self queue.
SelfElems(S) == {e \in DOMAIN sch.elems :
                    sch.queue["self"][sch.elems[e].ins] = e /\ sch.elems[e].status \in S}
Free(S) == SumFunctionOnSet([e \in DOMAIN sch.elems |-> sch.elems[e].free], SelfElems(S))

AvailTotalExact ==
    (Once = DOMAIN sch.elems) =>
        /\ sch.avail = Free({"running"})
        /\ sch.total = CN * Cardinality(SelfElems({"running", "subHealth"}))

\* The goroutine that finds an expired session in use again waits for the
\* cancel token with the scheduler's lock held: whoever took the thread must
\* have left the token, or the function hangs for good.
CancelTokenPresent ==
    \A r \in DOMAIN sch.recs :
        sch.recs[r].timer \in {"waiting", "fired"} /\ Busy(sch, r) => sch.recs[r].token

\* A session keeps its instance: a binding whose instance is in the queue of
\* the current owner ends only when it expires idle, and not because another
\* acquire of the session, an ownership change or a release got in between.
\* Two cases are excepted.  The expiry of a record replaced earlier deletes by
\* session ID.  And on a scheduler that is not the owner, a traffic-limited
\* acquire whose instance has left both queues since it was looked up runs on
\* the self queue, where isSessionExist takes any record of the owner's
\* instances for a stale one.
ExpiresRecord(s, r) ==
    \E p \in 1..r : /\ sch.recs[p].sess = s
                    /\ sch.recs[p].timer = "fired" /\ sch'.recs[p].timer = "done"
LimitedAndGone(s) ==
    \E c \in Clients :
        /\ req[c] # None /\ req'[c] = None
        /\ req[c].sess = s /\ req[c].limited /\ ~isFuncOwner
        /\ \A q \in Queues : ~InQueue(sch, q, Designated(c))

BindingKept ==
    [][\A s \in Sessions :
        LET r == sch.sessionMap[s] IN
        /\ r # 0 /\ sch'.sessionMap[s] # r
        /\ InQueue(sch, HomeQueue, sch.elems[sch.recs[r].elem].ins)
        => ExpiresRecord(s, r) \/ LimitedAndGone(s)]_vars

\* The number of threads in use that the autoscaler was told (insAvailThdCount
\* is kept so that the published figures are accurate).
InUseExact ==
    sch.inUse = CN * Cardinality(SelfElems({"running", "subHealth"})) - Free({"running", "subHealth"})
=============================================================================
