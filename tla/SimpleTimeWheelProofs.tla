----------------------- MODULE SimpleTimeWheelProofs -----------------------
(***************************************************************************)
(* The time wheel fires neither early nor late and implements ExpiryTasks, *)
(* for any number of tasks and slots and any intervals.  TypeOK holds with *)
(* and without Overlap; the rest, like the runs, is about operations that  *)
(* end before the next tick.  WheelInv of SimpleTimeWheel is inductive.    *)
(***************************************************************************)
EXTENDS SimpleTimeWheel, SequenceTheorems, TLAPS

-----------------------------------------------------------------------------
(* Arithmetic of the wheel                                                 *)

\* Quotient and remainder.
LEMMA DivMod ==
  ASSUME NEW a \in Nat, NEW N \in Nat \ {0}
  PROVE  a \div N \in Nat /\ a % N \in 0 .. N - 1 /\ a = (a \div N) * N + (a % N)
<1>1. a % N \in 0 .. N - 1
  OBVIOUS
<1>2. a \div N \in Nat
  OBVIOUS
<1>3. a = N * (a \div N) + (a % N)
  OBVIOUS
<1> QED BY <1>1, <1>2, <1>3

\* The slot after the last one is the first.
LEMMA NextSlot ==
  ASSUME NEW N \in Nat \ {0}, NEW c \in 0 .. N - 1
  PROVE  (c + 1) % N = IF c + 1 = N THEN 0 ELSE c + 1
<1>1. CASE c + 1 = N
  BY <1>1
<1>2. CASE c + 1 # N
  BY <1>2
<1> QED BY <1>1, <1>2

\* A turn of the wheel.
LEMMA OneTurn == \A a, b \in Int : (a - 1) * b + b = a * b
OBVIOUS

\* A number of turns is a number of ticks.
LEMMA Turns == \A a, b \in Nat : a * b \in Nat
OBVIOUS

\* An interval of a turn or more has the wheel come round.
LEMMA ComesRound ==
  ASSUME NEW N \in Nat \ {0}, NEW q \in Nat, NEW a \in Nat, NEW r \in 0 .. N - 1,
         a >= N, a = q * N + r
  PROVE  q >= 1
OBVIOUS

\* AddTask and UpdateTask set a trigger that fires, counted from a wheel at slot
\* c, on the tick after n paces: the visits left over and the way to the slot
\* add up to n + 1.
LEMMA TriggerFires ==
  ASSUME SimpleTimeWheelAssumption, NEW n \in Intervals, NEW c \in Slots, NEW m \in Times
  PROVE  LET x == TimeTrigger(n, c, m) IN
           /\ x \in Trigger /\ x.times = m
           /\ x.circleCount <= x.circle
           /\ n + 1 = (IF x.index > c THEN x.index - c ELSE x.index - c + SlotNum)
                        + (x.circle - x.circleCount) * SlotNum
<1> DEFINE a == n + c + 1
           q == a \div SlotNum
           r == a % SlotNum
           k == IF r > c THEN 0 ELSE 1
<1>1. /\ SlotNum \in Nat \ {0} /\ n \in Nat /\ n >= SlotNum /\ m \in Nat
      /\ c \in 0 .. SlotNum - 1 /\ Slots = 0 .. SlotNum - 1
  BY DEF SimpleTimeWheelAssumption, Slots
<1>2. a \in Nat /\ a >= SlotNum
  BY <1>1
<1>3. q \in Nat /\ r \in 0 .. SlotNum - 1 /\ a = q * SlotNum + r
  BY <1>1, <1>2, DivMod
<1>4. TimeTrigger(n, c, m) = [times |-> m, index |-> r, circle |-> q, circleCount |-> k]
  BY DEF TimeTrigger
<1>5. a = n + c + 1
  OBVIOUS
<1> HIDE DEF a, q, r
<1>6. q >= 1
  BY <1>1, <1>2, <1>3, ComesRound
<1>7. TimeTrigger(n, c, m) \in Trigger
  BY <1>1, <1>3, <1>4 DEF Trigger
<1>8. n + 1 = (IF r > c THEN r - c ELSE r - c + SlotNum) + (q - k) * SlotNum
  <2>1. CASE r > c
    BY <2>1, <1>1, <1>3, <1>5
  <2>2. CASE ~ (r > c)
    <3>1. (q - 1) * SlotNum + SlotNum = q * SlotNum
      BY <1>1, <1>3, OneTurn
    <3> QED BY <2>2, <3>1, <1>1, <1>3, <1>5
  <2> QED BY <2>1, <2>2
<1>9. k <= q
  BY <1>6, <1>3
<1> QED BY <1>4, <1>7, <1>8, <1>9

-----------------------------------------------------------------------------
(* Type correctness, with or without Overlap                               *)

LEMMA TypeInit == ASSUME SimpleTimeWheelAssumption, Init PROVE TypeOK
<1>1. 0 \in Slots /\ NoTrigger \in Trigger
  BY DEF SimpleTimeWheelAssumption, Slots, NoTrigger, Trigger
<1>2. ready \in Seq(SUBSET Tasks) /\ Len(ready) <= ReadySize
  BY DEF Init, SimpleTimeWheelAssumption
<1> QED BY <1>1, <1>2 DEF Init, TypeOK, NoOp, Waiting, Operation, RunState

\* The operation that is none and the run goroutine that waits are well typed.
LEMMA RestTypes == ASSUME SimpleTimeWheelAssumption PROVE NoOp \in Operation /\ Waiting \in RunState
<1>1. NoTrigger \in Trigger
  BY DEF SimpleTimeWheelAssumption, Slots, NoTrigger, Trigger
<1> QED BY <1>1 DEF NoOp, Operation, Waiting, RunState

\* The operations of the callers.
LEMMA TypeOperate ==
  ASSUME SimpleTimeWheelAssumption, TypeOK, NEW t \in Tasks, Operate(t) \/ StoreTask(t)
  PROVE  TypeOK'
<1> USE DEF TypeOK
<1>1. ASSUME NEW n \in Intervals, NEW m \in Times, AddTask(t, n, m) \/ UpdateTask(t, n, m)
      PROVE  TypeOK'
  <2>1. TimeTrigger(n, curSlot, m) \in Trigger
    BY TriggerFires
  <2>2. n + 1 \in Int
    BY DEF SimpleTimeWheelAssumption
  <2>3. slots' \in [Slots -> SUBSET Tasks]
    BY <1>1 DEF AddTask, UpdateTask
  <2>4. op' \in [Tasks -> Operation]
    <3>1. \A pc \in {"add", "update"} :
            [pc |-> pc, trigger |-> TimeTrigger(n, curSlot, m), ticked |-> FALSE] \in Operation
      BY <2>1 DEF Operation
    <3> QED BY <1>1, <3>1 DEF AddTask, UpdateTask
  <2>5. due' \in [Tasks -> Int \cup {Fired}]
    BY <1>1, <2>2 DEF AddTask, UpdateTask
  <2> QED BY <1>1, <2>3, <2>4, <2>5 DEF AddTask, UpdateTask
<1>2. CASE DelTask(t)
  BY <1>2 DEF DelTask
<1>3. CASE StoreTask(t)
  <2>1. op[t].trigger \in Trigger /\ op' \in [Tasks -> Operation]
    BY <1>3, RestTypes DEF StoreTask, Operation
  <2>2. run' \in RunState
    BY <1>3 DEF StoreTask, RunState
  <2>3. slots' \in [Slots -> SUBSET Tasks]
    BY <1>3 DEF StoreTask
  <2>4. trigger' \in [Tasks -> Trigger] /\ record' \subseteq Tasks
    BY <1>3, <2>1 DEF StoreTask
  <2> QED BY <1>3, <2>1, <2>2, <2>3, <2>4 DEF StoreTask
<1> QED BY <1>1, <1>2, <1>3 DEF Operate

\* What checkAndFireTrigger does to a trigger: it fires when it has been visited
\* often enough.
LEMMA CheckedTrigger ==
  ASSUME TypeOK, NEW t \in Tasks, CheckTrigger(t)
  PROVE  LET x == trigger[t]
             fires == x.circleCount = x.circle
         IN  /\ trigger' \in [Tasks -> Trigger]
             /\ \A s \in Tasks \ {t} : trigger'[s] = trigger[s]
             /\ trigger'[t] = [times |-> IF fires /\ x.times > 0 THEN x.times - 1 ELSE x.times,
                               index |-> x.index, circle |-> x.circle,
                               circleCount |-> IF fires THEN 0 ELSE x.circleCount]
<1> DEFINE x == trigger[t]
           fires == x.circleCount = x.circle
           y == [times |-> IF fires /\ x.times > 0 THEN x.times - 1 ELSE x.times,
                 index |-> x.index, circle |-> x.circle,
                 circleCount |-> IF fires THEN 0 ELSE x.circleCount]
<1>1. trigger \in [Tasks -> Trigger] /\ x \in Trigger
  BY DEF TypeOK
<1>2. trigger' = [trigger EXCEPT ![t].circleCount = IF fires THEN 0 ELSE @,
                                 ![t].times = IF fires /\ @ > 0 THEN @ - 1 ELSE @]
  BY DEF CheckTrigger
<1>3. trigger' = [s \in Tasks |-> IF s = t THEN [x EXCEPT !.circleCount = IF fires THEN 0 ELSE @,
                                                        !.times = IF fires /\ @ > 0 THEN @ - 1 ELSE @]
                                  ELSE trigger[s]]
  BY <1>1, <1>2
<1>4. [x EXCEPT !.circleCount = IF fires THEN 0 ELSE @,
                !.times = IF fires /\ @ > 0 THEN @ - 1 ELSE @] = y
  <2> DEFINE z == [x EXCEPT !.circleCount = IF fires THEN 0 ELSE @]
  <2>1. z = [times |-> x.times, index |-> x.index, circle |-> x.circle,
             circleCount |-> IF fires THEN 0 ELSE x.circleCount]
    BY <1>1 DEF Trigger
  <2>2. z \in Trigger
    BY <2>1, <1>1 DEF Trigger
  <2>3. [x EXCEPT !.circleCount = IF fires THEN 0 ELSE @,
                  !.times = IF fires /\ @ > 0 THEN @ - 1 ELSE @]
          = [z EXCEPT !.times = IF fires /\ @ > 0 THEN @ - 1 ELSE @]
    OBVIOUS
  <2> HIDE DEF z
  <2>4. [z EXCEPT !.times = IF fires /\ @ > 0 THEN @ - 1 ELSE @]
          = [times |-> IF fires /\ z.times > 0 THEN z.times - 1 ELSE z.times, index |-> z.index,
             circle |-> z.circle, circleCount |-> z.circleCount]
    BY <2>2 DEF Trigger
  <2> QED BY <2>1, <2>3, <2>4
<1>5. y \in Trigger
  BY <1>1 DEF Trigger
<1> HIDE DEF y
<1>6. trigger' = [s \in Tasks |-> IF s = t THEN y ELSE trigger[s]]
  BY <1>3, <1>4
<1>7. trigger' \in [Tasks -> Trigger] /\ trigger'[t] = y /\ \A s \in Tasks \ {t} : trigger'[s] = trigger[s]
  BY <1>1, <1>5, <1>6
<1> QED BY <1>7 DEF y

\* circleCount++.
LEMMA CountedTrigger ==
  ASSUME TypeOK, NEW t \in Tasks, CountVisit(t)
  PROVE  LET x == trigger[t] IN
           /\ trigger' \in [Tasks -> Trigger]
           /\ \A s \in Tasks \ {t} : trigger'[s] = trigger[s]
           /\ \E c \in {x.circleCount, run.count} :
                trigger'[t] = [times |-> x.times, index |-> x.index, circle |-> x.circle,
                               circleCount |-> c + 1]
<1> DEFINE x == trigger[t]
           y(c) == [times |-> x.times, index |-> x.index, circle |-> x.circle, circleCount |-> c + 1]
<1>1. trigger \in [Tasks -> Trigger] /\ x \in Trigger /\ run \in RunState
  BY DEF TypeOK
<1>2. PICK c \in {x.circleCount, run.count} : trigger' = [trigger EXCEPT ![t].circleCount = c + 1]
  BY DEF CountVisit
<1>3. c \in Nat
  BY <1>1 DEF Trigger, RunState
<1>4. trigger' = [s \in Tasks |-> IF s = t THEN [x EXCEPT !.circleCount = c + 1] ELSE trigger[s]]
  BY <1>1, <1>2
<1>5. [x EXCEPT !.circleCount = c + 1] = y(c) /\ y(c) \in Trigger
  BY <1>1, <1>3 DEF Trigger
<1> HIDE DEF y
<1>6. trigger' \in [Tasks -> Trigger] /\ trigger'[t] = y(c) /\ \A s \in Tasks \ {t} : trigger'[s] = trigger[s]
  BY <1>1, <1>4, <1>5
<1> QED BY <1>6 DEF y

\* The steps of the run goroutine.
LEMMA TypeRun ==
  ASSUME SimpleTimeWheelAssumption, TypeOK, Run
  PROVE  TypeOK'
<1> USE DEF TypeOK
<1>1. CASE Tick
  <2>1. curSlot' \in Slots
    BY <1>1, NextSlot DEF Tick, SimpleTimeWheelAssumption, Slots
  <2>2. op' \in [Tasks -> Operation]
    BY <1>1, RestTypes DEF Tick, Operation
  <2>3. run' \in RunState
    <3>1. slots[curSlot'] \subseteq Tasks
      BY <2>1
    <3>2. run' = [Waiting EXCEPT !.pc = "scan", !.todo = slots[curSlot']]
      BY <1>1 DEF Tick
    <3> QED BY <3>1, <3>2 DEF Waiting, RunState
  <2>4. due' \in [Tasks -> Int \cup {Fired}]
    BY <1>1 DEF Tick
  <2> QED BY <1>1, <2>1, <2>2, <2>3, <2>4 DEF Tick
<1>2. CASE EndScan \/ RunStop
  <2>1. run' \in RunState
    BY <1>2, RestTypes DEF EndScan, RunStop, RunState
  <2> QED BY <1>2, <2>1 DEF EndScan, RunStop
<1>3. CASE Send
  <2>1. run.list \in SUBSET Tasks
    BY DEF RunState
  <2>2. /\ Append(ready, run.list) \in Seq(SUBSET Tasks)
        /\ Len(Append(ready, run.list)) = Len(ready) + 1 /\ Len(ready) \in Nat
    BY <2>1, AppendProperties, LenProperties
  <2>3. ready' \in Seq(SUBSET Tasks) /\ Len(ready') <= ReadySize
    BY <1>3, <2>2 DEF Send, SimpleTimeWheelAssumption
  <2> QED BY <1>3, <2>3, RestTypes DEF Send
<1>4. ASSUME NEW t \in Tasks, Visit(t) PROVE TypeOK'
  <2>1. run' \in RunState
    BY <1>4 DEF Visit, RunState
  <2> QED BY <1>4, <2>1 DEF Visit
<1>5. ASSUME NEW t \in Tasks, CheckTrigger(t) PROVE TypeOK'
  <2>1. trigger' \in [Tasks -> Trigger]
    BY <1>5, CheckedTrigger
  <2>2. run' \in RunState
    <3>1. trigger'[t].circleCount \in Nat
      BY <2>1 DEF Trigger
    <3> QED BY <1>5, <3>1 DEF CheckTrigger, RunState
  <2>3. slots' \in [Slots -> SUBSET Tasks] /\ record' \subseteq Tasks
    BY <1>5 DEF CheckTrigger
  <2>4. due' \in [Tasks -> Int \cup {Fired}]
    BY <1>5 DEF CheckTrigger
  <2> QED BY <1>5, <2>1, <2>2, <2>3, <2>4 DEF CheckTrigger
<1>6. ASSUME NEW t \in Tasks, CountVisit(t) PROVE TypeOK'
  <2>1. trigger' \in [Tasks -> Trigger]
    BY <1>6, CountedTrigger
  <2>2. run' \in RunState
    BY <1>6 DEF CountVisit, RunState
  <2> QED BY <1>6, <2>1, <2>2 DEF CountVisit
<1> QED BY <1>1, <1>2, <1>3, <1>4, <1>5, <1>6 DEF Run

LEMMA TypeStep ==
  ASSUME SimpleTimeWheelAssumption, TypeOK, [Next]_vars
  PROVE  TypeOK'
<1>1. CASE UNCHANGED vars
  BY <1>1 DEF vars, TypeOK
<1>2. CASE Wait
  <2>1. ready # <<>> /\ ready' = Tail(ready) /\ ready \in Seq(SUBSET Tasks) /\ Len(ready) <= ReadySize
    BY <1>2 DEF Wait, TypeOK
  <2>2. Tail(ready) \in Seq(SUBSET Tasks) /\ Len(Tail(ready)) = Len(ready) - 1 /\ Len(ready) \in Nat
    BY <2>1, HeadTailProperties, LenProperties
  <2>3. ready' \in Seq(SUBSET Tasks) /\ Len(ready') <= ReadySize
    BY <2>1, <2>2 DEF SimpleTimeWheelAssumption
  <2> QED BY <1>2, <2>3 DEF Wait, TypeOK
<1>3. CASE Stop \/ StopReturn
  BY <1>3 DEF Stop, StopReturn, TypeOK
<1> QED BY <1>1, <1>2, <1>3, TypeRun, TypeOperate DEF Next

\* Every state of the wheel is well typed, with and without operations that meet
\* a tick: a trigger's index is always a slot of the wheel, and the ready
\* channel never holds more than its size.
THEOREM TypeCorrect == Spec => []TypeOK
<1>1. Init => TypeOK
  BY SimpleTimeWheelAssumption, TypeInit
<1>2. TypeOK /\ [Next]_vars => TypeOK'
  BY SimpleTimeWheelAssumption, TypeStep
<1> QED BY <1>1, <1>2, PTL DEF Spec
-----------------------------------------------------------------------------
(* The inductive invariant, without Overlap                                *)

LEMMA WheelInit == ASSUME SimpleTimeWheelAssumption, Init PROVE WheelInv
<1>1. TypeOK
  BY TypeInit
<1>2. SlotsInv /\ OpInv /\ RunInv /\ DueInv
  BY DEF Init, SlotsInv, OpInv, RunInv, DueInv, Scanning, Waiting
<1> QED BY <1>1, <1>2 DEF WheelInv

\* A step that leaves the wheel, the triggers and the operations alone.
LEMMA WheelUntouched ==
  ASSUME WheelInv, TypeOK', UNCHANGED <<curSlot, slots, trigger, record, op, run, due>>
  PROVE  WheelInv'
BY DEF WheelInv, SlotsInv, OpInv, RunInv, DueInv, Scanning, Current, Away

\* An operation under way is not NoOp.
LEMMA UnderWay ==
  ASSUME NEW x, NEW b, NEW pc \in {"add", "update"}
  PROVE  [pc |-> pc, trigger |-> x, ticked |-> b] # NoOp
BY DEF NoOp

\* AddTask and UpdateTask up to the store.
LEMMA StartInv ==
  ASSUME SimpleTimeWheelAssumption, ~Overlap, WheelInv, TypeOK', NEW t \in Tasks, NEW n \in Intervals, NEW m \in Times,
         AddTask(t, n, m) \/ UpdateTask(t, n, m)
  PROVE  WheelInv'
<1> DEFINE x == TimeTrigger(n, curSlot, m)
<1> USE DEF WheelInv
<1>1. op[t] = NoOp /\ ~Scanning
  BY DEF AddTask, UpdateTask, CanOperate, Scanning
<1>2. run.todo = {} /\ run.at = NoTask /\ run' = run /\ curSlot' = curSlot /\ trigger' = trigger /\ record' = record
  BY <1>1 DEF RunInv, AddTask, UpdateTask
<1>3. curSlot \in Slots /\ trigger \in [Tasks -> Trigger] /\ op \in [Tasks -> Operation]
  BY DEF TypeOK
<1>4. /\ x \in Trigger /\ x.times \in Times /\ x.circleCount <= x.circle
      /\ n + 1 = (IF x.index > curSlot THEN x.index - curSlot ELSE x.index - curSlot + SlotNum)
                        + (x.circle - x.circleCount) * SlotNum
  BY <1>3, TriggerFires
<1>5. PICK pc \in {"add", "update"} :
        /\ op' = [op EXCEPT ![t] = [pc |-> pc, trigger |-> x, ticked |-> FALSE]]
        /\ t \in record <=> pc = "update"
        /\ due' = [due EXCEPT ![t] = n + 1]
  BY DEF AddTask, UpdateTask
<1> HIDE DEF x
<1>6. op'[t] # NoOp /\ op'[t].pc = pc /\ op'[t].trigger = x
  BY <1>3, <1>5, UnderWay
<1>7. \A s \in Tasks \ {t} : op'[s] = op[s] /\ due'[s] = due[s]
  BY <1>3, <1>5 DEF TypeOK
<1>8. due'[t] = n + 1
  BY <1>5 DEF TypeOK
<1>9. \A i \in Slots : \A s \in Tasks : s \in slots'[i] <=> s # t /\ s \in slots[i]
  <2>1. CASE AddTask(t, n, m)
    BY <2>1 DEF AddTask, SlotsInv
  <2>2. CASE UpdateTask(t, n, m)
    <3>1. trigger[t].index \in Slots /\ slots \in [Slots -> SUBSET Tasks]
      BY DEF TypeOK, Trigger
    <3>2. slots' = [slots EXCEPT ![trigger[t].index] = @ \ {t}]
      BY <2>2 DEF UpdateTask
    <3> QED BY <3>1, <3>2, <1>1 DEF SlotsInv
  <2> QED BY <2>1, <2>2
<1>10. SlotsInv'
  BY <1>2, <1>6, <1>7, <1>9 DEF SlotsInv
<1>11. OpInv'
  BY <1>1, <1>2, <1>4, <1>5, <1>6, <1>7 DEF OpInv, Scanning
<1>12. RunInv'
  BY <1>1, <1>2 DEF RunInv, Scanning
<1>13. DueInv'
  <2> SUFFICES ASSUME NEW s \in Tasks, due'[s] # Fired
               PROVE  /\ op'[s] # NoOp \/ s \in record'
                      /\ (Current(s).circleCount <= Current(s).circle)'
                      /\ (due[s] = Away(s) + (Current(s).circle - Current(s).circleCount) * SlotNum)'
    BY DEF DueInv
  <2>1. CASE s = t
    <3>1. Current(t)' = x
      BY <1>6 DEF Current
    <3>2. Away(t)' = IF x.index > curSlot THEN x.index - curSlot ELSE x.index - curSlot + SlotNum
      BY <3>1, <1>2 DEF Away
    <3> QED BY <2>1, <3>1, <3>2, <1>4, <1>6, <1>8
  <2>2. CASE s # t
    <3>1. Current(s)' = Current(s) /\ Away(s)' = Away(s)
      BY <2>2, <1>2, <1>7 DEF Current, Away
    <3> QED BY <2>2, <3>1, <1>2, <1>7 DEF DueInv
  <2> QED BY <2>1, <2>2
<1> QED BY <1>10, <1>11, <1>12, <1>13

\* DelTask.
LEMMA DelInv ==
  ASSUME SimpleTimeWheelAssumption, ~Overlap, WheelInv, TypeOK', NEW t \in Tasks, DelTask(t)
  PROVE  WheelInv'
<1> USE DEF WheelInv
<1>1. op[t] = NoOp /\ ~Scanning /\ t \in record
  BY DEF DelTask, CanOperate, Scanning
<1>2. run' = run /\ curSlot' = curSlot /\ trigger' = trigger /\ record' = record \ {t} /\ op' = op
  BY DEF DelTask
<1>3. \A i \in Slots : \A s \in Tasks : s \in slots'[i] <=> s # t /\ s \in slots[i]
  <2>1. trigger[t].index \in Slots /\ slots \in [Slots -> SUBSET Tasks]
    BY DEF TypeOK, Trigger
  <2>2. slots' = [slots EXCEPT ![trigger[t].index] = @ \ {t}]
    BY DEF DelTask
  <2> QED BY <2>1, <2>2, <1>1 DEF SlotsInv
<1>4. SlotsInv'
  BY <1>2, <1>3 DEF SlotsInv
<1>5. OpInv' /\ RunInv'
  BY <1>1, <1>2 DEF OpInv, RunInv, Scanning
<1>6. DueInv'
  <2>1. due'[t] = Fired /\ \A s \in Tasks \ {t} : due'[s] = due[s]
    BY DEF DelTask, TypeOK
  <2>2. \A s \in Tasks : Current(s)' = Current(s) /\ Away(s)' = Away(s)
    BY <1>2 DEF Current, Away
  <2> QED BY <2>1, <2>2, <1>2 DEF DueInv
<1> QED BY <1>4, <1>5, <1>6

\* The store of a trigger.
LEMMA StoreInv ==
  ASSUME SimpleTimeWheelAssumption, ~Overlap, WheelInv, TypeOK', NEW t \in Tasks, StoreTask(t)
  PROVE  WheelInv'
<1> USE DEF WheelInv
<1> DEFINE x == op[t].trigger
<1>1. op[t] # NoOp /\ ~Scanning /\ run.todo = {} /\ run.at = NoTask /\ NoTask # t
  BY DEF StoreTask, OpInv, RunInv, SimpleTimeWheelAssumption
<1>2. run' = run /\ curSlot' = curSlot /\ due' = due /\ record' = record \cup {t}
  BY <1>1 DEF StoreTask, OpInv
<1>3. x \in Trigger /\ x.index \in Slots
  BY DEF TypeOK, Operation, Trigger
<1>4. op'[t] = NoOp /\ trigger'[t] = x /\ \A s \in Tasks \ {t} : op'[s] = op[s] /\ trigger'[s] = trigger[s]
  BY DEF StoreTask, TypeOK
<1>5. \A i \in Slots : \A s \in Tasks : s \in slots'[i] <=> s \in slots[i] \/ (s = t /\ i = x.index)
  BY <1>3 DEF StoreTask, TypeOK
<1> HIDE DEF x
<1>6. SlotsInv'
  BY <1>1, <1>2, <1>4, <1>5 DEF SlotsInv
<1>7. OpInv' /\ RunInv'
  BY <1>1, <1>2, <1>4 DEF OpInv, RunInv, Scanning
<1>8. DueInv'
  <2>1. \A s \in Tasks : Current(s)' = Current(s)
    BY <1>1, <1>4 DEF Current, x
  <2>2. \A s \in Tasks : Away(s)' = Away(s)
    BY <2>1, <1>2 DEF Away
  <2> QED BY <2>1, <2>2, <1>2, <1>4 DEF DueInv
<1> QED BY <1>6, <1>7, <1>8
\* A tick brings every task one tick nearer to its slot.
LEMMA TickInv ==
  ASSUME SimpleTimeWheelAssumption, ~Overlap, WheelInv, TypeOK', Tick
  PROVE  WheelInv'
<1> USE DEF WheelInv
<1> DEFINE next == (curSlot + 1) % SlotNum
<1>1. SlotNum \in Nat \ {0} /\ curSlot \in 0 .. SlotNum - 1 /\ Slots = 0 .. SlotNum - 1
  BY DEF SimpleTimeWheelAssumption, Slots, TypeOK
<1>2. next = IF curSlot + 1 = SlotNum THEN 0 ELSE curSlot + 1
  BY <1>1, NextSlot
<1>3. /\ run.pc = "wait" /\ curSlot' = next /\ slots' = slots /\ trigger' = trigger /\ record' = record
      /\ run' = [Waiting EXCEPT !.pc = "scan", !.todo = slots[next]]
      /\ \A t \in Tasks : op[t] = NoOp
  BY DEF Tick
<1>4. run'.pc = "scan" /\ run'.todo = slots[next] /\ run'.at = NoTask
  BY <1>3 DEF Waiting
<1>5. \A t \in Tasks : op'[t] = NoOp
  BY <1>3 DEF Tick
<1>6. run.todo = {}
  BY <1>3 DEF RunInv, Scanning
<1>7. \A t \in Tasks : due'[t] = IF due[t] = Fired THEN Fired ELSE due[t] - 1
  BY DEF Tick
<1> HIDE DEF next
<1>8. SlotsInv' /\ OpInv'
  BY <1>3, <1>5 DEF SlotsInv, OpInv
<1>9. RunInv'
  BY <1>3, <1>4 DEF RunInv, Scanning
<1>10. DueInv'
  <2> SUFFICES ASSUME NEW s \in Tasks, due'[s] # Fired
               PROVE  /\ op'[s] # NoOp \/ s \in record'
                      /\ (Current(s).circleCount <= Current(s).circle)'
                      /\ (due[s] = Away(s) + (Current(s).circle - Current(s).circleCount) * SlotNum)'
    BY DEF DueInv
  <2> DEFINE x == trigger[s]
             k == (x.circle - x.circleCount) * SlotNum
  <2>1. due[s] # Fired /\ due'[s] = due[s] - 1
    BY <1>7
  <2>2. Current(s) = x /\ Current(s)' = x /\ x \in Trigger
    BY <1>3, <1>5 DEF Current, TypeOK
  <2>3. s \in record /\ x.circleCount <= x.circle /\ due[s] = Away(s) + k
    BY <2>1, <2>2, <1>3 DEF DueInv
  <2>4. k \in Int /\ x.index \in 0 .. SlotNum - 1
    BY <2>2, <1>1 DEF Trigger
  <2> HIDE DEF k
  <2>5. s \in slots[next] <=> x.index = next
    <3>1. next \in Slots
      BY <1>1, <1>2
    <3> QED BY <2>3, <3>1, <1>3 DEF SlotsInv
  <2>6. Away(s) = IF x.index > curSlot THEN x.index - curSlot ELSE x.index - curSlot + SlotNum
    BY <2>2, <1>6 DEF Away
  <2>7. Away(s)' = IF x.index = next THEN 0
                   ELSE IF x.index > next THEN x.index - next ELSE x.index - next + SlotNum
    BY <2>2, <2>5, <1>3, <1>4 DEF Away
  <2> HIDE DEF x
  <2>8. Away(s)' = Away(s) - 1
    BY <2>4, <2>6, <2>7, <1>1, <1>2
  <2>9. Away(s) \in Int
    BY <2>4, <2>6, <1>1
  <2>10. due'[s] = Away(s)' + k
    BY <2>1, <2>3, <2>4, <2>8, <2>9
  <2> QED BY <2>2, <2>3, <2>10, <1>3 DEF k
<1> QED BY <1>8, <1>9, <1>10

\* Range comes to the next task of the slot.
LEMMA VisitInv ==
  ASSUME SimpleTimeWheelAssumption, ~Overlap, WheelInv, TypeOK', NEW t \in Tasks, Visit(t)
  PROVE  WheelInv'
<1> USE DEF WheelInv
<1>1. t \in slots[curSlot] /\ run.pc = "scan" /\ t \in run.todo
  BY DEF Visit, RunInv
<1>2. run'.pc = "scan" /\ run'.todo = run.todo /\ run'.at = t
  BY <1>1 DEF Visit, TypeOK, RunState
<1>3. UNCHANGED <<curSlot, slots, trigger, record, op, due>>
  BY DEF Visit
<1>4. SlotsInv' /\ OpInv'
  BY <1>1, <1>2, <1>3 DEF SlotsInv, OpInv, Scanning
<1>5. RunInv'
  BY <1>1, <1>2, <1>3 DEF RunInv, Scanning
<1>6. DueInv'
  BY <1>2, <1>3 DEF DueInv, Current, Away
<1> QED BY <1>4, <1>5, <1>6

\* The callback of Range: a trigger fires at its first visit after its time.
LEMMA CheckInv ==
  ASSUME SimpleTimeWheelAssumption, ~Overlap, WheelInv, TypeOK', NEW t \in Tasks, CheckTrigger(t)
  PROVE  WheelInv'
<1> USE DEF WheelInv
<1> DEFINE x == trigger[t]
           fires == x.circleCount = x.circle
<1>1. run.pc = "scan" /\ run.at = t /\ t \in run.todo /\ run.todo \subseteq slots[curSlot]
  BY DEF CheckTrigger, RunInv, SimpleTimeWheelAssumption
<1>2. \A s \in Tasks : op[s] = NoOp
  BY <1>1 DEF OpInv, Scanning
<1>3. curSlot \in Slots /\ t \in record /\ x.index = curSlot
  BY <1>1 DEF SlotsInv, TypeOK
<1>4. /\ curSlot' = curSlot /\ op' = op
      /\ record' = IF fires /\ x.times = 0 THEN record \ {t} ELSE record
      /\ slots' = IF fires /\ x.times = 0 THEN [slots EXCEPT ![curSlot] = @ \ {t}] ELSE slots
      /\ due' = IF fires THEN [due EXCEPT ![t] = Fired] ELSE due
  BY DEF CheckTrigger
<1>5. run'.pc = "count" /\ run'.todo = run.todo /\ run'.at = t /\ run'.count = trigger'[t].circleCount
  BY <1>1 DEF CheckTrigger, TypeOK, RunState
<1>6. /\ \A s \in Tasks \ {t} : trigger'[s] = trigger[s]
      /\ trigger'[t].index = x.index /\ trigger'[t].circle = x.circle
      /\ trigger'[t].circleCount = IF fires THEN 0 ELSE x.circleCount
  <2>1. TypeOK
    OBVIOUS
  <2> HIDE DEF WheelInv
  <2>2. \A s \in Tasks \ {t} : trigger'[s] = trigger[s]
    BY <2>1, CheckedTrigger
  <2>3. trigger'[t] = [times |-> IF fires /\ x.times > 0 THEN x.times - 1 ELSE x.times,
                       index |-> x.index, circle |-> x.circle,
                       circleCount |-> IF fires THEN 0 ELSE x.circleCount]
    BY <2>1, CheckedTrigger
  <2> QED BY <2>2, <2>3
<1>7. \A i \in Slots : \A s \in Tasks : s \in slots'[i] <=> s \in slots[i] /\ (s # t \/ s \in record')
  <2>1. CASE fires /\ x.times = 0
    <3>1. slots' = [slots EXCEPT ![curSlot] = @ \ {t}] /\ record' = record \ {t}
      BY <2>1, <1>4
    <3>2. \A i \in Slots : t \in slots[i] => i = curSlot
      BY <1>3 DEF SlotsInv
    <3> QED BY <3>1, <3>2, <1>3 DEF TypeOK
  <2>2. CASE ~ (fires /\ x.times = 0)
    BY <2>2, <1>3, <1>4
  <2> QED BY <2>1, <2>2
<1>8. \A s \in Tasks \ {t} : s \in record' <=> s \in record
  BY <1>4
<1>9. SlotsInv'
  <2> SUFFICES ASSUME NEW s \in Tasks, NEW i \in Slots
               PROVE  s \in slots'[i] <=> op'[s] = NoOp /\ s \in record' /\ i = trigger'[s].index
    BY DEF SlotsInv
  <2>1. s \in slots[i] <=> s \in record /\ i = trigger[s].index
    BY <1>2 DEF SlotsInv
  <2>2. record' \subseteq record
    BY <1>4
  <2> QED BY <2>1, <2>2, <1>2, <1>4, <1>6, <1>7, <1>8
<1>10. OpInv'
  BY <1>2, <1>4 DEF OpInv
<1>11. RunInv'
  <2>1. run'.todo \ {run'.at} \subseteq slots'[curSlot']
    <3>1. \A s \in run'.todo \ {t} : s \in Tasks /\ s \in slots[curSlot]
      BY <1>1, <1>3, <1>5 DEF TypeOK
    <3> QED BY <3>1, <1>3, <1>4, <1>5, <1>7
  <2>2. due'[t] # Fired => ~fires
    BY <1>4 DEF TypeOK
  <2> QED BY <2>1, <2>2, <1>1, <1>3, <1>4, <1>5, <1>6 DEF RunInv, Scanning
<1>12. DueInv'
  <2> SUFFICES ASSUME NEW s \in Tasks, due'[s] # Fired
               PROVE  /\ op'[s] # NoOp \/ s \in record'
                      /\ (Current(s).circleCount <= Current(s).circle)'
                      /\ (due[s] = Away(s) + (Current(s).circle - Current(s).circleCount) * SlotNum)'
    BY DEF DueInv
  <2>1. due'[s] = due[s] /\ (s = t => ~fires)
    BY <1>4 DEF TypeOK
  <2>2. /\ trigger'[s].index = trigger[s].index /\ trigger'[s].circle = trigger[s].circle
        /\ trigger'[s].circleCount = trigger[s].circleCount
    BY <2>1, <1>6
  <2>3. s \in record' <=> s \in record
    BY <2>1, <1>4
  <2>4. Away(s)' = Away(s)
    BY <2>2, <1>2, <1>4, <1>5 DEF Away, Current
  <2> QED BY <2>1, <2>2, <2>3, <2>4, <1>2, <1>4 DEF DueInv, Current
<1> QED BY <1>9, <1>10, <1>11, <1>12

\* circleCount++: a visit is used up and the slot is a turn away again.
LEMMA CountInv ==
  ASSUME SimpleTimeWheelAssumption, ~Overlap, WheelInv, TypeOK', NEW t \in Tasks, CountVisit(t)
  PROVE  WheelInv'
<1> DEFINE x == trigger[t]
<1>0. TypeOK /\ SlotsInv /\ OpInv /\ RunInv /\ DueInv
  BY DEF WheelInv
<1>1. /\ run.pc = "count" /\ run.at = t /\ t \in run.todo /\ run.todo \ {t} \subseteq slots[curSlot]
      /\ run.count = x.circleCount /\ x.index = curSlot
      /\ due[t] # Fired => x.circleCount # x.circle
  BY <1>0 DEF CountVisit, RunInv
<1>2. \A s \in Tasks : op[s] = NoOp
  BY <1>0, <1>1 DEF OpInv, Scanning
<1>3. UNCHANGED <<curSlot, slots, record, op, due>>
  BY DEF CountVisit
<1>4. run'.pc = "scan" /\ run'.todo = run.todo \ {t} /\ run'.at = NoTask
  BY <1>0, <1>1 DEF CountVisit, TypeOK, RunState
<1>5. /\ \A s \in Tasks \ {t} : trigger'[s] = trigger[s]
      /\ trigger'[t].index = x.index /\ trigger'[t].circle = x.circle
      /\ trigger'[t].circleCount = x.circleCount + 1
  <2>1. \A s \in Tasks \ {t} : trigger'[s] = trigger[s]
    BY <1>0, CountedTrigger
  <2>2. PICK c \in {x.circleCount, run.count} :
          trigger'[t] = [times |-> x.times, index |-> x.index, circle |-> x.circle,
                         circleCount |-> c + 1]
    BY <1>0, CountedTrigger
  <2>3. c = x.circleCount
    BY <1>1
  <2> QED BY <2>1, <2>2, <2>3
<1>6. SlotsInv' /\ OpInv'
  BY <1>0, <1>2, <1>3, <1>5 DEF SlotsInv, OpInv
<1>7. RunInv'
  BY <1>1, <1>3, <1>4 DEF RunInv, Scanning
<1>8. DueInv'
  <2> SUFFICES ASSUME NEW s \in Tasks, due'[s] # Fired
               PROVE  /\ op'[s] # NoOp \/ s \in record'
                      /\ (Current(s).circleCount <= Current(s).circle)'
                      /\ (due[s] = Away(s) + (Current(s).circle - Current(s).circleCount) * SlotNum)'
    BY DEF DueInv
  <2>1. /\ Current(s) = trigger[s] /\ Current(s)' = trigger'[s] /\ trigger[s] \in Trigger
        /\ SlotNum \in Nat \ {0} /\ curSlot \in Nat
    BY <1>0, <1>2, <1>3 DEF Current, TypeOK, SimpleTimeWheelAssumption, Slots
  <2>2. /\ s \in record /\ trigger[s].circleCount <= trigger[s].circle
        /\ due[s] = Away(s) + (trigger[s].circle - trigger[s].circleCount) * SlotNum
    BY <2>1, <1>0, <1>2, <1>3 DEF DueInv
  <2>3. CASE s # t
    <3>1. Away(s)' = Away(s)
      BY <2>1, <2>3, <1>3, <1>4, <1>5 DEF Away
    <3> QED BY <2>1, <2>2, <2>3, <3>1, <1>3, <1>5
  <2>4. CASE s = t
    <3> DEFINE a == x.circle - x.circleCount
    <3>1. /\ a \in Int /\ x.circleCount + 1 <= x.circle
          /\ x.circle - (x.circleCount + 1) = a - 1
      BY <2>1, <2>2, <2>4, <1>1, <1>3 DEF Trigger
    <3>2. Away(t) = 0
      BY <1>1 DEF Away
    <3>3. Away(t)' = SlotNum
      BY <2>1, <2>4, <1>1, <1>3, <1>4, <1>5 DEF Away
    <3> HIDE DEF a
    <3>4. due[t] = a * SlotNum
      <4>1. due[t] = 0 + a * SlotNum
        BY <2>2, <2>4, <3>2 DEF a
      <4> QED BY <4>1, <3>1, <2>1
    <3>5. a * SlotNum = SlotNum + (a - 1) * SlotNum
      BY <3>1, <2>1
    <3> QED BY <2>1, <2>2, <2>4, <3>1, <3>3, <3>4, <3>5, <1>3, <1>5
  <2> QED BY <2>3, <2>4
<1> QED BY <1>6, <1>7, <1>8 DEF WheelInv

\* The scan ends, the list is sent, or the goroutine stops.
LEMMA ScanEndInv ==
  ASSUME SimpleTimeWheelAssumption, ~Overlap, WheelInv, TypeOK', EndScan \/ Send \/ RunStop
  PROVE  WheelInv'
<1> USE DEF WheelInv
<1>1. UNCHANGED <<curSlot, slots, trigger, record, op, due>>
  BY DEF EndScan, Send, RunStop
<1>2. run.todo = {} /\ run.pc # "count"
  BY DEF EndScan, Send, RunStop, RunInv, Scanning
<1>3. run'.todo = {} /\ run'.at = NoTask /\ run'.pc \notin {"scan", "count"}
  BY <1>2 DEF EndScan, Send, RunStop, RunInv, Waiting, TypeOK, RunState, Scanning
<1>4. SlotsInv' /\ OpInv'
  BY <1>1, <1>3 DEF SlotsInv, OpInv, Scanning
<1>5. RunInv'
  BY <1>3 DEF RunInv, Scanning
<1>6. DueInv'
  BY <1>1, <1>2, <1>3 DEF DueInv, Current, Away
<1> QED BY <1>4, <1>5, <1>6

LEMMA WheelStep ==
  ASSUME SimpleTimeWheelAssumption, ~Overlap, WheelInv, [Next]_vars
  PROVE  WheelInv'
<1>1. TypeOK'
  BY TypeStep DEF WheelInv
<1>2. CASE UNCHANGED vars
  BY <1>1, <1>2, WheelUntouched DEF vars
<1>3. CASE Wait \/ Stop \/ StopReturn
  BY <1>1, <1>3, WheelUntouched DEF Wait, Stop, StopReturn
<1>4. CASE Run
  BY <1>1, <1>4, TickInv, VisitInv, CheckInv, CountInv, ScanEndInv DEF Run
<1>5. ASSUME NEW t \in Tasks, Operate(t) \/ StoreTask(t) PROVE WheelInv'
  BY <1>1, <1>5, StartInv, DelInv, StoreInv DEF Operate
<1> QED BY <1>2, <1>3, <1>4, <1>5 DEF Next

LEMMA WheelInvHolds == ~Overlap => (Spec => []WheelInv)
<1>1. Init => WheelInv
  BY SimpleTimeWheelAssumption, WheelInit
<1>2. ~Overlap /\ WheelInv /\ [Next]_vars => WheelInv'
  BY SimpleTimeWheelAssumption, WheelStep
<1>3. SUFFICES ASSUME ~Overlap PROVE Spec => []WheelInv
  OBVIOUS
<1>4. WheelInv /\ [Next]_vars => WheelInv'
  BY <1>2, <1>3
<1> QED BY <1>1, <1>4, PTL DEF Spec

-----------------------------------------------------------------------------
(* The theorems                                                            *)

\* A recorded task has its trigger in exactly the slot DelTask and UpdateTask
\* take it from, and any other task in none: no trigger is left behind to fire.
THEOREM TriggerInOneSlot == ~Overlap => (Spec => []OneSlot)
<1>1. WheelInv => OneSlot
  BY DEF WheelInv, SlotsInv, OneSlot, TypeOK, Trigger
<1>2. SUFFICES ASSUME ~Overlap PROVE Spec => []OneSlot
  OBVIOUS
<1>3. Spec => []WheelInv
  BY <1>2, WheelInvHolds
<1> QED BY <1>1, <1>3, PTL

\* A task is fired by the tick that completes its interval and one pace, at the
\* latest, whatever the slots, the interval and the slot the wheel was at.
THEOREM FiresInTime == ~Overlap => (Spec => []NeverLate)
<1>1. ASSUME WheelInv PROVE NeverLate
  <2> SUFFICES ASSUME NEW t \in Tasks, due[t] # Fired PROVE due[t] >= 0
    BY DEF NeverLate
  <2> DEFINE x == Current(t)
             a == x.circle - x.circleCount
  <2>1. x \in Trigger /\ SlotNum \in Nat \ {0} /\ curSlot \in 0 .. SlotNum - 1 /\ x.index \in 0 .. SlotNum - 1
    BY <1>1, SimpleTimeWheelAssumption DEF WheelInv, TypeOK, Current, Operation, Trigger, SimpleTimeWheelAssumption, Slots
  <2>2. x.circleCount <= x.circle /\ due[t] = Away(t) + a * SlotNum
    BY <1>1 DEF WheelInv, DueInv
  <2>3. Away(t) \in Nat
    BY <2>1 DEF Away
  <2>4. a \in Nat
    BY <2>1, <2>2 DEF Trigger
  <2> HIDE DEF a
  <2>5. a * SlotNum \in Nat
    BY <2>1, <2>4, Turns
  <2> QED BY <2>2, <2>3, <2>5
<1>2. SUFFICES ASSUME ~Overlap PROVE Spec => []NeverLate
  OBVIOUS
<1>3. Spec => []WheelInv
  BY <1>2, WheelInvHolds
<1> QED BY <1>1, <1>3, PTL

\* A task that has not been fired since it was added or updated is fired by no
\* tick before the one that completes its interval and one pace.
THEOREM NotBeforeTime == ~Overlap => (Spec => NeverEarly)
<1>1. ASSUME ~Overlap, WheelInv, [Next]_vars
      PROVE  [\A t \in Tasks : t \in run'.list \ run.list /\ due[t] # Fired => due[t] = 0]_vars
  <2> SUFFICES ASSUME NEW t \in Tasks, t \in run'.list, t \notin run.list, due[t] # Fired
               PROVE  due[t] = 0
    OBVIOUS
  <2>1. CheckTrigger(t)
    <3>1. CASE Run
      <4>1. ~ (Tick \/ EndScan \/ Send \/ RunStop)
        <5>1. Tick \/ Send \/ RunStop => run'.list = {}
          <6>1. Tick => run'.list = {}
            BY DEF Tick, Waiting
          <6>2. Send => run'.list = {}
            BY DEF Send, Waiting
          <6>3. RunStop => run'.list = {}
            BY DEF RunStop, Waiting
          <6> QED BY <6>1, <6>2, <6>3
        <5>2. EndScan => run'.list \subseteq run.list
          BY <1>1 DEF EndScan, Waiting, WheelInv, TypeOK, RunState
        <5> QED BY <5>1, <5>2
      <4>2. ASSUME NEW s \in Tasks, Visit(s) \/ CountVisit(s) PROVE FALSE
        BY <4>2, <1>1 DEF Visit, CountVisit, WheelInv, TypeOK, RunState
      <4>3. PICK s \in Tasks : CheckTrigger(s)
        BY <3>1, <4>1, <4>2 DEF Run
      <4>4. s = t
        BY <4>3, <1>1 DEF CheckTrigger, WheelInv, TypeOK, RunState
      <4> QED BY <4>3, <4>4
    <3>2. ASSUME NEW s \in Tasks, Operate(s) \/ StoreTask(s) PROVE FALSE
      BY <3>2, <1>1 DEF Operate, AddTask, UpdateTask, DelTask, StoreTask, WheelInv, TypeOK, RunState
    <3>3. ~ (Wait \/ Stop \/ StopReturn \/ UNCHANGED vars)
      BY DEF Wait, Stop, StopReturn, vars
    <3> QED BY <3>1, <3>2, <3>3, <1>1 DEF Next
  <2>2. run.pc = "scan" /\ run.at = t /\ t \in run.todo
    BY <2>1, <1>1, SimpleTimeWheelAssumption DEF CheckTrigger, WheelInv, RunInv, SimpleTimeWheelAssumption
  <2>3. trigger[t].circleCount = trigger[t].circle
    BY <2>1, <1>1 DEF CheckTrigger, WheelInv, TypeOK, RunState
  <2>4. Current(t) = trigger[t] /\ Away(t) = 0
    BY <2>2, <1>1 DEF Current, Away, WheelInv, OpInv, Scanning
  <2>5. trigger[t].circle \in Int /\ SlotNum \in Int
    BY <1>1, SimpleTimeWheelAssumption DEF WheelInv, TypeOK, Trigger, SimpleTimeWheelAssumption
  <2>6. due[t] = 0 + (trigger[t].circle - trigger[t].circle) * SlotNum
    BY <2>3, <2>4, <1>1 DEF WheelInv, DueInv
  <2> QED BY <2>5, <2>6
<1>2. SUFFICES ASSUME ~Overlap PROVE Spec => NeverEarly
  OBVIOUS
<1>3. WheelInv /\ [Next]_vars =>
        [\A t \in Tasks : t \in run'.list \ run.list /\ due[t] # Fired => due[t] = 0]_vars
  BY <1>1, <1>2
<1>4. Spec => []WheelInv
  BY <1>2, WheelInvHolds
<1> QED BY <1>3, <1>4, PTL DEF Spec, NeverEarly

-----------------------------------------------------------------------------
(* The refinement of ExpiryTasks                                           *)

\* What the users of the wheel see of a step.
Invisible == UNCHANGED <<Left, run.list>>
Shows == Expiry!Next \/ Invisible

\* The operations: a store schedules the task, DelTask removes it, and what comes
\* before the store does not show.
LEMMA OperateRefines ==
  ASSUME SimpleTimeWheelAssumption, ~Overlap, WheelInv, NEW t \in Tasks, Operate(t) \/ StoreTask(t)
  PROVE  Shows
<1>1. CASE \E n \in Intervals, m \in Times : AddTask(t, n, m) \/ UpdateTask(t, n, m)
  BY <1>1 DEF AddTask, UpdateTask, Left, Shows, Invisible
<1>2. CASE DelTask(t)
  <2>1. Left' = [Left EXCEPT ![t] = 0] /\ run' = run
    BY <1>2 DEF DelTask, Left
  <2> QED BY <2>1 DEF Shows, Expiry!Next, Expiry!Remove
<1>3. CASE StoreTask(t)
  <2>1. run.at # t /\ op[t].trigger.times \in Times /\ record' = record \cup {t}
    BY <1>3 DEF StoreTask, WheelInv, OpInv, RunInv, SimpleTimeWheelAssumption
  <2>2. run' = run
    BY <1>3, <2>1 DEF StoreTask
  <2>3. trigger'[t] = op[t].trigger /\ \A s \in Tasks \ {t} : trigger'[s] = trigger[s]
    BY <1>3 DEF StoreTask, WheelInv, TypeOK
  <2>4. Left' = [Left EXCEPT ![t] = op[t].trigger.times + 1]
    BY <2>1, <2>3 DEF Left
  <2>5. op[t].trigger.times + 1 \in {m + 1 : m \in Times}
    BY <2>1
  <2> QED BY <2>2, <2>4, <2>5 DEF Shows, Expiry!Next, Expiry!Schedule
<1> QED BY <1>1, <1>2, <1>3 DEF Operate

\* The run goroutine: a trigger that fires, and the list it hands over.
LEMMA RunRefines ==
  ASSUME SimpleTimeWheelAssumption, ~Overlap, WheelInv, Run
  PROVE  Shows
<1>0. TypeOK /\ run \in RunState
  BY DEF WheelInv, TypeOK
<1>1. CASE Tick
  <2>1. run'.list = {} /\ Left' = Left
    BY <1>1 DEF Tick, Waiting, Left
  <2> QED BY <2>1 DEF Shows, Expiry!Next, Expiry!HandOver
<1>2. CASE Send
  <2>1. run'.list = {} /\ Left' = Left
    BY <1>2 DEF Send, Waiting, Left
  <2> QED BY <2>1 DEF Shows, Expiry!Next, Expiry!HandOver
<1>3. CASE RunStop
  <2>1. run'.list = {} /\ Left' = Left
    BY <1>3 DEF RunStop, Waiting, Left
  <2> QED BY <2>1 DEF Shows, Expiry!Next, Expiry!HandOver
<1>4. CASE EndScan
  BY <1>0, <1>4 DEF EndScan, Waiting, RunState, Left, Shows, Invisible
<1>5. ASSUME NEW t \in Tasks, Visit(t) PROVE Shows
  BY <1>0, <1>5 DEF Visit, RunState, Left, Shows, Invisible
<1>6. ASSUME NEW t \in Tasks, CountVisit(t) PROVE Shows
  <2>1. \A s \in Tasks \ {t} : trigger'[s] = trigger[s]
    BY <1>0, <1>6, CountedTrigger
  <2>2. \E c \in {trigger[t].circleCount, run.count} :
          trigger'[t] = [times |-> trigger[t].times, index |-> trigger[t].index,
                         circle |-> trigger[t].circle, circleCount |-> c + 1]
    BY <1>0, <1>6, CountedTrigger
  <2>3. trigger'[t].times = trigger[t].times
    BY <2>2
  <2>4. record' = record /\ run'.list = run.list
    BY <1>0, <1>6 DEF CountVisit, RunState
  <2> QED BY <2>1, <2>3, <2>4 DEF Left, Shows, Invisible
<1>7. ASSUME NEW t \in Tasks, CheckTrigger(t) PROVE Shows
  <2> DEFINE x == trigger[t]
             fires == x.circleCount = x.circle
  <2>1. run.pc = "scan" /\ t \in run.todo /\ t \in slots[curSlot] /\ curSlot \in Slots
    BY <1>0, <1>7 DEF CheckTrigger, WheelInv, RunInv, TypeOK, SimpleTimeWheelAssumption
  <2>2. t \in record
    BY <2>1 DEF WheelInv, SlotsInv
  <2>3. \A s \in Tasks \ {t} : trigger'[s] = trigger[s]
    BY <1>0, <1>7, CheckedTrigger
  <2>4. trigger'[t] = [times |-> IF fires /\ x.times > 0 THEN x.times - 1 ELSE x.times,
                       index |-> x.index, circle |-> x.circle,
                       circleCount |-> IF fires THEN 0 ELSE x.circleCount]
    BY <1>0, <1>7, CheckedTrigger
  <2>5. trigger'[t].times = IF fires /\ x.times > 0 THEN x.times - 1 ELSE x.times
    BY <2>4
  <2>6. x.times \in Nat
    BY <1>0 DEF TypeOK, Trigger
  <2>7. record' = IF fires /\ x.times = 0 THEN record \ {t} ELSE record
    BY <1>7 DEF CheckTrigger
  <2>8. run'.list = IF fires THEN run.list \cup {t} ELSE run.list
    BY <1>0, <1>7 DEF CheckTrigger, RunState
  <2>9. Left[t] = x.times + 1
    BY <2>2 DEF Left
  <2>10. CASE fires
    <3>1. \A s \in Tasks : Left'[s] = IF s = t THEN Left[t] - 1 ELSE Left[s]
      BY <2>2, <2>3, <2>5, <2>6, <2>7, <2>9, <2>10 DEF Left
    <3>2. Left' = [Left EXCEPT ![t] = @ - 1]
      BY <3>1 DEF Left
    <3>3. Left[t] > 0
      BY <2>6, <2>9
    <3> QED BY <2>8, <2>10, <3>2, <3>3 DEF Shows, Expiry!Next, Expiry!Fire
  <2>11. CASE ~fires
    BY <2>3, <2>5, <2>7, <2>8, <2>11 DEF Left, Shows, Invisible
  <2> QED BY <2>10, <2>11
<1> QED BY <1>1, <1>2, <1>3, <1>4, <1>5, <1>6, <1>7 DEF Run

\* The wheel implements ExpiryTasks with one shot more than documented: a task
\* added or updated with times = m fires no more than m + 1 times and is then gone
\* (checkAndFireTrigger drops it when it fires with times = 0), a deleted task does
\* not fire, and every firing reaches a list that is handed over or dropped by Stop.
THEOREM Implements == ~Overlap => (Spec => Expiry!Spec)
<1> SUFFICES ASSUME ~Overlap PROVE Spec => Expiry!Spec
  OBVIOUS
<1>1. Init => Expiry!Init
  BY DEF Init, Expiry!Init, Left, Waiting
<1>2. ASSUME WheelInv, [Next]_vars PROVE [Expiry!Next]_<<Left, run.list>>
  <2>1. CASE UNCHANGED vars \/ Wait \/ Stop \/ StopReturn
    BY <2>1 DEF vars, Wait, Stop, StopReturn, Left
  <2>2. CASE Run
    BY <1>2, <2>2, SimpleTimeWheelAssumption, RunRefines DEF Shows, Invisible
  <2>3. ASSUME NEW t \in Tasks, Operate(t) \/ StoreTask(t) PROVE Shows
    BY <1>2, <2>3, SimpleTimeWheelAssumption, OperateRefines
  <2> QED BY <1>2, <2>1, <2>2, <2>3 DEF Next, Shows, Invisible
<1>3. Spec => []WheelInv
  BY WheelInvHolds
<1> QED BY <1>1, <1>2, <1>3, PTL DEF Spec, Expiry!Spec
=============================================================================
