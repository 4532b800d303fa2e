------------------------- MODULE MCInstanceScaling -------------------------
(***************************************************************************)
(* InstanceScaling for TLC.  The slots are interchangeable.                *)
(***************************************************************************)
EXTENDS InstanceScaling, TLC

Symmetry == Permutations(Slots)
=============================================================================
