----------------------- MODULE MCConcurrencyScheduler -----------------------
(* Model values for ConcurrencyScheduler: sessions that reserve one thread. *)
EXTENDS ConcurrencyScheduler, TLC

OneThread == [s \in Sessions |-> 1]
Symmetry == Permutations(Clients) \cup Permutations(Instances)
WholeInstance == [s \in Sessions |-> Full]
=============================================================================
