----------------------------- MODULE MCLitePool -----------------------------
(***************************************************************************)
(* LitePool for TLC.  The identities of instances, sessions and requests   *)
(* play no role in the safety runs.  Removable, Overflows and ZeroTTL are  *)
(* all of their set or none of it there, so that permuting it is sound.    *)
(***************************************************************************)
EXTENDS LitePool, TLC

Symmetry == Permutations(Instances) \cup Permutations(Sessions) \cup Permutations(Requests)
=============================================================================
