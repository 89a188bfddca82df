----------------------------- MODULE MCLanding -----------------------------
(* Instances of Landing for TLC.                                           *)
EXTENDS Landing, TLC

Symmetry == Permutations(Seat) \cup Permutations(Task)
=============================================================================
