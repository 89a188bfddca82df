---------------------------- MODULE MCLifecycle ----------------------------
(* Instances of Lifecycle for TLC.                                         *)
EXTENDS Lifecycle, TLC

Symmetry == Permutations(Handle) \cup Permutations(Operator)
=============================================================================
