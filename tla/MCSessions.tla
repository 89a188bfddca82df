----------------------------- MODULE MCSessions -----------------------------
(* Instances of Sessions for TLC.                                          *)
EXTENDS Sessions, TLC

CONSTANTS t1, e1, s1, s2, d1, p1, o1

\* Two implementer seats, one of each other role, as in a small fleet.
MCSeatsOf == [role \in Role |->
  CASE role = "implementer" -> <<s1, s2>>
    [] role = "designer"    -> <<d1>>
    [] role = "repairer"    -> <<p1>>
    [] role = "reviewer"    -> <<o1>>]

\* One seat of each role.
MCOneSeatOf == [role \in Role |->
  CASE role = "implementer" -> <<s1>>
    [] role = "designer"    -> <<d1>>
    [] role = "repairer"    -> <<p1>>
    [] role = "reviewer"    -> <<o1>>]

\* One task under one epic.
MCParent == [t \in Task |-> IF t = t1 THEN e1 ELSE NoTask]

\* Work on the task only.
MCTask == {<<"implementer", t1>>}
\* Work on the task and reviews of its epic; nobody is sent to design an epic
\* that is being reviewed.
MCNoDesign == {<<"implementer", t1>>, <<"repairer", t1>>, <<"reviewer", e1>>}

Symmetry == Permutations(Caller)
=============================================================================
