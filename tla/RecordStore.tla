---------------------------- MODULE RecordStore ----------------------------
(***************************************************************************)
(* What a scheduler takes the external session store of a function to be:  *)
(* one record per session key, written in the order of its calls until the *)
(* pool is destroyed; from then on records only disappear.  A call may be  *)
(* refused, and nothing but a call changes a record.  The Coordinator of   *)
(* SessionStore implements this: the record of a key is what the           *)
(* operations accepted so far amount to, and the external store catches up *)
(* with it.                                                                *)
(***************************************************************************)
CONSTANTS Keys, Values, NoRecord

VARIABLES
  record,
  asked,   \* the call under way, if any, in a set
  open

vars == <<record, asked, open>>

Init == record \in [Keys -> Values \cup {NoRecord}] /\ asked = {} /\ open = TRUE

\* Save (v is a value) or Delete (v is NoRecord) is called.
Ask(k, v) == asked = {} /\ asked' = {[key |-> k, val |-> v]} /\ UNCHANGED <<record, open>>

Write(op) == open /\ record' = [record EXCEPT ![op.key] = op.val] /\ asked' = {} /\ UNCHANGED open

Refuse == asked' = {} /\ UNCHANGED <<record, open>>

Close == open' = FALSE /\ UNCHANGED <<record, asked>>

Clean(k) == ~open /\ record' = [record EXCEPT ![k] = NoRecord] /\ UNCHANGED <<asked, open>>

Next ==
  \/ \E k \in Keys, v \in Values \cup {NoRecord} : Ask(k, v)
  \/ \E op \in asked : Write(op)
  \/ Refuse \/ Close
  \/ \E k \in Keys : Clean(k)

Spec == Init /\ [][Next]_vars
=============================================================================
