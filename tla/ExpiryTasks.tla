---------------------------- MODULE ExpiryTasks ----------------------------
(***************************************************************************)
(* What the users of a time wheel take it to be: a set of tasks, each with *)
(* the number of times it still fires.  Time is left out.  LitePool uses   *)
(* the expiry wheel in this form; SimpleTimeWheel implements it with one   *)
(* shot more than its times.                                               *)
(***************************************************************************)
EXTENDS Naturals

CONSTANTS Tasks, Shots

VARIABLES
  left,   \* per task, how often it still fires; 0 for no task
  batch   \* the tasks fired and not yet handed over

Init == left = [t \in Tasks |-> 0] /\ batch = {}

Schedule(t, k) == left' = [left EXCEPT ![t] = k] /\ UNCHANGED batch

Remove(t) == left' = [left EXCEPT ![t] = 0] /\ UNCHANGED batch

Fire(t) ==
  /\ left[t] > 0
  /\ left' = [left EXCEPT ![t] = @ - 1]
  /\ batch' = batch \cup {t}

HandOver == batch' = {} /\ UNCHANGED left

Next ==
  \/ \E t \in Tasks : (\E k \in Shots : Schedule(t, k)) \/ Remove(t) \/ Fire(t)
  \/ HandOver

Spec == Init /\ [][Next]_<<left, batch>>
=============================================================================
