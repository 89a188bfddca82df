------------------------------- MODULE MCTasks -------------------------------
(* One repository has an epic, another one plain tasks, and the issue       *)
(* tracker of a third always fails.                                        *)
EXTENDS Tasks

CONSTANTS a, b, c, epic, one, two, fix, refit, other

MCRepoOrder == <<c, a, b>>
MCOneRepo == <<a>>
MCBeadOrder == <<epic, one, two, fix, refit>>
MCRepoOf == [x \in Bead |-> IF x = other THEN b ELSE a]
MCParent == [x \in Bead |-> IF x \in {one, two, fix, refit} THEN epic ELSE None]
MCPriority == [x \in Bead |-> IF x \in {fix, refit} THEN 1 ELSE 2]
MCSeatsOf == [role \in {"implementer", "designer"} |->
                IF role = "implementer" THEN 1 ELSE 1]
Child(deps, provides, consumes) ==
  [deps |-> deps, provides |-> provides, consumes |-> consumes,
   sound |-> TRUE, recorded |-> FALSE]
MCPlans ==
  {[x \in {one, two} |-> Child({}, {}, {})],
   [x \in {one, two} |-> IF x = one THEN Child({}, {"s"}, {})
                         ELSE Child({}, {}, {"s"})],
   [x \in {one, two} |-> IF x = one THEN Child({two}, {}, {})
                         ELSE Child({one}, {}, {})]}

(* The instance for liveness: plain tasks, without an epic.                *)
MCNoParent == [x \in Bead |-> None]
MCWorkOrder == <<one, two, other>>
=============================================================================
