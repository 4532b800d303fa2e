-------------------------- MODULE SimpleTimeWheel --------------------------
(***************************************************************************)
(* The time wheel behind the expiry of leases: slots of triggers, a run    *)
(* goroutine that moves one slot per tick and fires what is due, and       *)
(* AddTask, UpdateTask and DelTask called by any goroutine, without a      *)
(* lock.                                                                   *)
(*                                                                         *)
(* Time is counted in ticks; an interval is a number of paces.  An         *)
(* operation takes less than a pace, as a comment on AddTask assumes; with *)
(* Overlap it may meet the one tick and scan that can come meanwhile,      *)
(* without it there is none.  The calls for one task come one after the    *)
(* other.  Calls that are refused change nothing and are left out, as is   *)
(* times = -1, which no caller uses.                                       *)
(***************************************************************************)
EXTENDS Integers, Sequences, FiniteSets

CONSTANTS
  Tasks,      \* task IDs
  NoTask,     \* no task
  Fired,      \* in due: the task has fired
  SlotNum,    \* slotNum
  Intervals,  \* the intervals of the callers, in paces
  Times,      \* the times of the callers
  ReadySize,  \* readyChan: the size of the ready channel
  Overlap     \* an operation may meet a tick and its scan

ASSUME SimpleTimeWheelAssumption ==
  /\ SlotNum \in Nat \ {0} /\ ReadySize \in Nat \ {0} /\ Times \subseteq Nat
  /\ \A n \in Intervals : n \in Nat /\ n >= SlotNum
  /\ NoTask \notin Tasks /\ Fired \notin Int
  /\ Overlap \in BOOLEAN

VARIABLES
  curSlot,   \* the slot the wheel is at
  slots,     \* per slot, the tasks that have their trigger there
  trigger,   \* the timeTrigger of a task, NoTrigger before its first
  record,    \* the tasks in record
  op,        \* per task, the AddTask or UpdateTask under way
  run,       \* where the run goroutine stands
  ready,     \* readyCh
  stop,      \* Stop: not called, closing stopCh, or returned
  due        \* per task, the ticks until its first firing since it was added or
             \* updated; Fired afterwards.  Kept for the properties only.

vars == <<curSlot, slots, trigger, record, op, run, ready, stop, due>>

Slots == 0 .. SlotNum - 1
NoTrigger == [times |-> 0, index |-> 0, circle |-> 0, circleCount |-> 0]
NoOp == [pc |-> "none", trigger |-> NoTrigger, ticked |-> FALSE]
Waiting == [pc |-> "wait", todo |-> {}, at |-> NoTask, count |-> 0, list |-> {}]

-----------------------------------------------------------------------------
\* Fault: the slot the wheel is at counts as one it will still reach.
TimeTrigger_AtSlot(n, c, m) ==
  LET index == (n + c + 1) % SlotNum IN
    [times |-> m, index |-> index, circle |-> (n + c + 1) \div SlotNum,
     circleCount |-> IF index >= c THEN 0 ELSE 1]
\* Fault: the visit to come is always counted as made.
TimeTrigger_Counted(n, c, m) ==
  [times |-> m, index |-> (n + c + 1) % SlotNum, circle |-> (n + c + 1) \div SlotNum, circleCount |-> 1]
\* Fault: the slot is not taken modulo the circumference.
TimeTrigger_NoWrap(n, c, m) ==
  [times |-> m, index |-> IF c + 1 < SlotNum THEN (n + c + 1) % SlotNum ELSE c + 1,
   circle |-> (n + c + 1) \div SlotNum, circleCount |-> 0]

\* Where and after how many visits a task of interval n and m times fires, when
\* the wheel is at slot c.
TimeTrigger(n, c, m) ==
  LET index == (n + c + 1) % SlotNum IN
    [times |-> m, index |-> index, circle |-> (n + c + 1) \div SlotNum,
     circleCount |-> IF index > c THEN 0 ELSE 1]

\* An operation starts; without Overlap it does so between two scans.
CanOperate(t) == op[t] = NoOp /\ (Overlap \/ run.pc \notin {"scan", "count"})

\* AddTask up to its read of curSlot: the task is not in record.
AddTask(t, n, m) ==
  /\ CanOperate(t) /\ t \notin record
  /\ op' = [op EXCEPT ![t] = [pc |-> "add", trigger |-> TimeTrigger(n, curSlot, m),
                              ticked |-> FALSE]]
  /\ due' = [due EXCEPT ![t] = n + 1]
  /\ UNCHANGED <<curSlot, slots, trigger, record, run, ready, stop>>

\* Fault: the trigger is not taken out of its slot.
UpdateTask_KeepSlot(t, n, m) ==
  /\ CanOperate(t) /\ t \in record
  /\ op' = [op EXCEPT ![t] = [pc |-> "update", trigger |-> TimeTrigger(n, curSlot, m),
                              ticked |-> FALSE]]
  /\ due' = [due EXCEPT ![t] = n + 1]
  /\ UNCHANGED <<curSlot, slots, trigger, record, run, ready, stop>>

\* UpdateTask of a task in record: its trigger leaves its slot, and curSlot is
\* read.  (Of any other task it is AddTask.)
UpdateTask(t, n, m) ==
  /\ CanOperate(t) /\ t \in record
  /\ slots' = [slots EXCEPT ![trigger[t].index] = @ \ {t}]
  /\ op' = [op EXCEPT ![t] = [pc |-> "update", trigger |-> TimeTrigger(n, curSlot, m),
                              ticked |-> FALSE]]
  /\ due' = [due EXCEPT ![t] = n + 1]
  /\ UNCHANGED <<curSlot, trigger, record, run, ready, stop>>

\* The rest of either: the trigger is set and stored.  AddTask makes a new one,
\* which a scan that still holds the old one no longer reaches, and records it.
StoreTask(t) ==
  LET new == op[t].pc = "add" IN
    /\ op[t] # NoOp
    /\ trigger' = [trigger EXCEPT ![t] = op[t].trigger]
    /\ slots' = [slots EXCEPT ![op[t].trigger.index] = @ \cup {t}]
    /\ record' = IF new THEN record \cup {t} ELSE record
    /\ run' = IF new /\ run.at = t THEN [run EXCEPT !.pc = "scan", !.at = NoTask, !.todo = @ \ {t}] ELSE run
    /\ op' = [op EXCEPT ![t] = NoOp]
    /\ UNCHANGED <<curSlot, ready, stop, due>>

DelTask(t) ==
  /\ CanOperate(t) /\ t \in record
  /\ record' = record \ {t}
  /\ slots' = [slots EXCEPT ![trigger[t].index] = @ \ {t}]
  /\ due' = [due EXCEPT ![t] = Fired]
  /\ UNCHANGED <<curSlot, trigger, op, run, ready, stop>>

-----------------------------------------------------------------------------
(***************************************************************************)
(* The run goroutine.                                                      *)
(***************************************************************************)

\* A tick: the wheel moves and checkAndFireTrigger starts to range over the slot.
Tick ==
  LET next == (curSlot + 1) % SlotNum IN
    /\ run.pc = "wait" /\ \A t \in Tasks : op[t] = NoOp \/ (Overlap /\ ~op[t].ticked)
    /\ op' = [t \in Tasks |-> IF op[t] = NoOp THEN NoOp ELSE [op[t] EXCEPT !.ticked = TRUE]]
    /\ curSlot' = next
    /\ run' = [Waiting EXCEPT !.pc = "scan", !.todo = slots[next]]
    /\ due' = [t \in Tasks |-> IF due[t] = Fired THEN Fired ELSE due[t] - 1]
    /\ UNCHANGED <<slots, trigger, record, ready, stop>>

\* Range comes to a task, which may have been deleted since.
Visit(t) ==
  /\ run.pc = "scan" /\ run.at = NoTask /\ t \in run.todo
  /\ run' = IF t \in slots[curSlot] THEN [run EXCEPT !.at = t] ELSE [run EXCEPT !.todo = @ \ {t}]
  /\ UNCHANGED <<curSlot, slots, trigger, record, op, ready, stop, due>>

\* Its callback: a trigger that has been visited often enough fires, and is
\* dropped if no times are left.
CheckTrigger(t) ==
  LET x == trigger[t]
      fires == x.circleCount = x.circle
  IN  /\ run.pc = "scan" /\ run.at = t
      /\ trigger' = [trigger EXCEPT ![t].circleCount = IF fires THEN 0 ELSE @,
                                    ![t].times = IF fires /\ @ > 0 THEN @ - 1 ELSE @]
      /\ record' = IF fires /\ x.times = 0 THEN record \ {t} ELSE record
      /\ slots' = IF fires /\ x.times = 0 THEN [slots EXCEPT ![curSlot] = @ \ {t}] ELSE slots
      /\ run' = [run EXCEPT !.pc = "count", !.count = trigger'[t].circleCount,
                            !.list = IF fires THEN @ \cup {t} ELSE @]
      /\ due' = IF fires THEN [due EXCEPT ![t] = Fired] ELSE due
      /\ UNCHANGED <<curSlot, op, ready, stop>>

\* circleCount++, which an UpdateTask of the same trigger may race with: either
\* write may come out on top.
CountVisit(t) ==
  /\ run.pc = "count" /\ run.at = t
  /\ \E c \in {trigger[t].circleCount, run.count} :
       trigger' = [trigger EXCEPT ![t].circleCount = c + 1]
  /\ run' = [run EXCEPT !.pc = "scan", !.at = NoTask, !.todo = @ \ {t}]
  /\ UNCHANGED <<curSlot, slots, record, op, ready, stop, due>>

\* The slot is done.
EndScan ==
  /\ run.pc = "scan" /\ run.todo = {}
  /\ run' = IF run.list = {} THEN Waiting ELSE [run EXCEPT !.pc = "send"]
  /\ UNCHANGED <<curSlot, slots, trigger, record, op, ready, stop, due>>

\* The ready list goes out once there is room for it.
Send ==
  /\ run.pc = "send" /\ Len(ready) < ReadySize
  /\ ready' = Append(ready, run.list)
  /\ run' = Waiting
  /\ UNCHANGED <<curSlot, slots, trigger, record, op, stop, due>>

\* Fault: a send that blocks does not look at stopCh.
RunStop_WaitOnly ==
  /\ stop = "closing" /\ run.pc = "wait"
  /\ run' = [Waiting EXCEPT !.pc = "exited"]
  /\ UNCHANGED <<curSlot, slots, trigger, record, op, ready, stop, due>>

\* stopCh is seen, waiting for a tick or for room in the ready channel.  (A list
\* that was to be sent is lost; run goes round once more and then returns.)
RunStop ==
  /\ stop = "closing" /\ run.pc \in {"wait", "send"}
  /\ run' = [Waiting EXCEPT !.pc = "exited"]
  /\ UNCHANGED <<curSlot, slots, trigger, record, op, ready, stop, due>>

-----------------------------------------------------------------------------
Wait ==
  /\ ready # <<>>
  /\ ready' = Tail(ready)
  /\ UNCHANGED <<curSlot, slots, trigger, record, op, run, stop, due>>

Stop ==
  /\ stop = "no"
  /\ stop' = "closing"
  /\ UNCHANGED <<curSlot, slots, trigger, record, op, run, ready, due>>

\* run is done: readyCh is closed.
StopReturn ==
  /\ stop = "closing" /\ run.pc = "exited"
  /\ stop' = "returned"
  /\ UNCHANGED <<curSlot, slots, trigger, record, op, run, ready, due>>

-----------------------------------------------------------------------------
Init ==
  /\ curSlot = 0
  /\ slots = [i \in Slots |-> {}]
  /\ trigger = [t \in Tasks |-> NoTrigger]
  /\ record = {}
  /\ op = [t \in Tasks |-> NoOp]
  /\ run = Waiting
  /\ ready = <<>>
  /\ stop = "no"
  /\ due = [t \in Tasks |-> Fired]

Run ==
  \/ Tick \/ EndScan \/ Send \/ RunStop
  \/ \E t \in Tasks : Visit(t) \/ CheckTrigger(t) \/ CountVisit(t)

Operate(t) ==
  \/ \E n \in Intervals, m \in Times : AddTask(t, n, m) \/ UpdateTask(t, n, m)
  \/ DelTask(t)

Next ==
  \/ Run
  \/ \E t \in Tasks : Operate(t) \/ StoreTask(t)
  \/ Wait \/ Stop \/ StopReturn

Spec == Init /\ [][Next]_vars

\* The goroutines that can run keep running; a goroutine with stopCh and a tick
\* both ready does not choose the tick forever.  Nobody has to call Wait.
Fairness ==
  /\ WF_vars(Run) /\ SF_vars(RunStop) /\ WF_vars(StopReturn)
  /\ \A t \in Tasks : WF_vars(StoreTask(t))

FairSpec == Spec /\ Fairness

-----------------------------------------------------------------------------
Trigger == [times : Nat, index : Slots, circle : Nat, circleCount : Nat]
Operation == [pc : {"none", "add", "update"}, trigger : Trigger, ticked : BOOLEAN]
RunState == [pc : {"wait", "scan", "count", "send", "exited"}, todo : SUBSET Tasks,
             at : Tasks \cup {NoTask}, count : Nat, list : SUBSET Tasks]

\* The state is well-formed; a trigger's index is a slot of the wheel.
TypeOK ==
  /\ curSlot \in Slots /\ slots \in [Slots -> SUBSET Tasks]
  /\ trigger \in [Tasks -> Trigger] /\ record \subseteq Tasks
  /\ op \in [Tasks -> Operation] /\ run \in RunState
  /\ ready \in Seq(SUBSET Tasks) /\ Len(ready) <= ReadySize
  /\ stop \in {"no", "closing", "returned"}
  /\ due \in [Tasks -> Int \cup {Fired}]

(***************************************************************************)
(* The inductive invariant of the wheel without Overlap.                   *)
(***************************************************************************)
Scanning == run.pc \in {"scan", "count"}

\* A trigger is in the slot of its index from its store to its removal.
SlotsInv ==
  \A t \in Tasks : \A i \in Slots :
    t \in slots[i] <=> op[t] = NoOp /\ t \in record /\ i = trigger[t].index

\* An operation meets no scan; AddTask is for tasks that are not recorded.
OpInv ==
  \A t \in Tasks : op[t] # NoOp =>
    /\ ~Scanning /\ op[t].trigger.times \in Times
    /\ IF t \in record THEN op[t].pc = "update" ELSE op[t].pc = "add"

\* A scan goes over what is in the slot and has not been visited.
RunInv ==
  /\ ~Scanning => run.todo = {} /\ run.at = NoTask
  /\ run.pc = "scan" => run.todo \subseteq slots[curSlot] /\ run.at \in run.todo \cup {NoTask}
  /\ run.pc = "count" =>
       /\ run.at \in run.todo /\ run.todo \ {run.at} \subseteq slots[curSlot]
       /\ run.count = trigger[run.at].circleCount /\ trigger[run.at].index = curSlot
       /\ due[run.at] # Fired => trigger[run.at].circleCount # trigger[run.at].circle

\* The trigger a task has or is about to get, the ticks until the wheel visits
\* its slot next, and so the ticks until it first fires.
Current(t) == IF op[t] = NoOp THEN trigger[t] ELSE op[t].trigger
Away(t) ==
  LET i == Current(t).index IN
    IF t \in run.todo THEN 0 ELSE IF i > curSlot THEN i - curSlot ELSE i - curSlot + SlotNum
DueInv ==
  \A t \in Tasks : due[t] # Fired =>
    /\ op[t] # NoOp \/ t \in record
    /\ Current(t).circleCount <= Current(t).circle
    /\ due[t] = Away(t) + (Current(t).circle - Current(t).circleCount) * SlotNum

WheelInv == TypeOK /\ SlotsInv /\ OpInv /\ RunInv /\ DueInv

\* A task has its trigger in one slot, the one it is to be deleted from, and
\* only as long as it is recorded.
OneSlot ==
  \A t \in Tasks : op[t] = NoOp =>
    {i \in Slots : t \in slots[i]} = IF t \in record THEN {trigger[t].index} ELSE {}

\* A task is first fired, at the latest, when its interval and one pace more have
\* passed since it was added or updated.
NeverLate == \A t \in Tasks : due[t] # Fired => due[t] >= 0

\* A task is not fired before its interval has passed since it was added or updated.
NeverEarly ==
  [][\A t \in Tasks : t \in run'.list \ run.list /\ due[t] # Fired => due[t] = 0]_vars

\* How often a task still fires, by the comments on AddTask and at the callers:
\* as often as its trigger's times say, once for times = 1.
Documented == INSTANCE ExpiryTasks WITH
                left <- [t \in Tasks |-> IF t \in record THEN trigger[t].times ELSE 0],
                batch <- run.list,
                Shots <- Times

\* A task added or updated with times = m fires m times, unless it is updated or
\* deleted.  The wheel drops a trigger when it fires with no times left, not when
\* it uses up the last, so one firing more is seen.
FiresTimes == Documented!Spec

\* How often it fires in the code, which is what LitePool counts on.
Left == [t \in Tasks |-> IF t \in record THEN trigger[t].times + 1 ELSE 0]
Expiry == INSTANCE ExpiryTasks WITH
            left <- Left,
            batch <- run.list,
            Shots <- {m + 1 : m \in Times}

\* Stop of the wheel returns, even with the ready channel full and nobody waiting.
StopReturns == stop = "closing" ~> stop = "returned"
=============================================================================
