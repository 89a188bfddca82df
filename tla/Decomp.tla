-------------------------------- MODULE Decomp --------------------------------
(***************************************************************************)
(* The rules of internal/decomp that a decomposition of an epic must pass. *)
(* A plan maps the identifiers of the children of an epic to what the      *)
(* rules read of them: the dependencies, the symbols a child provides and  *)
(* consumes, whether its own text obeys the rules that look at one child,  *)
(* and whether it carries a recorded verdict on the size of the plan.      *)
(***************************************************************************)
EXTENDS Naturals, Sequences, FiniteSets, FiniteSetsExt

CONSTANTS MinChildren, MaxChildren,   \* the budget of children
          FleetConcurrency            \* how many of them should run at a time

Known(plan, ids) == ids \cap DOMAIN plan

(* What the recursive visit marks when it starts at ids: Find skips the    *)
(* identifiers that are not of the plan, and nothing is visited twice.     *)
Visited(plan, ids) ==
  LET reached[n \in 0..Cardinality(DOMAIN plan)] ==
        IF n = 0 THEN Known(plan, ids)
        ELSE reached[n - 1] \cup UNION {Known(plan, plan[c].deps) : c \in reached[n - 1]}
  IN reached[Cardinality(DOMAIN plan)]

(* Fault: a symbol counts as provided wherever in the plan it is.          *)
AnyoneProvides(plan, c) == UNION {plan[a].provides : a \in DOMAIN plan \ {c}}

AncestorProvides(plan, c) ==
  UNION {plan[a].provides : a \in Visited(plan, plan[c].deps)}

InCycle(plan, c) == c \in Visited(plan, plan[c].deps)

(* The longest chain of dependencies below c, in a plan without a cycle.   *)
Depth(plan, c) ==
  LET deep[n \in 0..Cardinality(DOMAIN plan)] ==
        [d \in DOMAIN plan |->
           IF n = 0 \/ Known(plan, plan[d].deps) = {} THEN 0
           ELSE 1 + Max({deep[n - 1][a] : a \in Known(plan, plan[d].deps)})]
  IN deep[Cardinality(DOMAIN plan)][c]

(* Wave d holds the children at depth d.                                   *)
Waves(plan) ==
  LET depths == {Depth(plan, c) : c \in DOMAIN plan}
  IN [d \in 0..Max(depths) |-> Cardinality({c \in DOMAIN plan : Depth(plan, c) = d})]

(* Twice the median, to stay within the integers: how many waves are       *)
(* smaller and how many are larger decides which value is in the middle.   *)
MedianTwice(waves) ==
  LET n == Cardinality(DOMAIN waves)
      Rank(k) == CHOOSE v \in {waves[d] : d \in DOMAIN waves} :
                   /\ Cardinality({d \in DOMAIN waves : waves[d] < v}) < k
                   /\ Cardinality({d \in DOMAIN waves : waves[d] <= v}) >= k
  IN Rank((n + 1) \div 2) + Rank(n \div 2 + 1)

RecordedVerdict(plan) == \E c \in DOMAIN plan : plan[c].recorded

CountBudget(plan) ==
  \/ Cardinality(DOMAIN plan) > MaxChildren
  \/ Cardinality(DOMAIN plan) < MinChildren /\ ~RecordedVerdict(plan)

CheckGraph(plan) ==
  LET cyclic == {c \in DOMAIN plan : InCycle(plan, c)}
      unprovided == {c \in DOMAIN plan :
                       ~(plan[c].consumes \subseteq AncestorProvides(plan, c))}
  IN (IF CountBudget(plan) THEN {"count-budget"} ELSE {})
     \cup (IF unprovided # {} THEN {"unprovided-symbol"} ELSE {})
     \cup (IF cyclic # {} THEN {"graph-cycle"}
           ELSE IF MedianTwice(Waves(plan)) < 2 * FleetConcurrency THEN {"graph-width"}
           ELSE {})

(* The caps on words, the schema, the tier and the interim phrases.        *)
CheckChild(plan, c) == IF plan[c].sound THEN {} ELSE {"child"}

(* The kinds of violations; a plan without children has none.              *)
Check(plan) ==
  IF DOMAIN plan = {} THEN {}
  ELSE CheckGraph(plan) \cup UNION {CheckChild(plan, c) : c \in DOMAIN plan}

-----------------------------------------------------------------------------
(* What the rules are for, said without them: the ready queue can work the *)
(* plan off, since no group of children waits for each other, and what a   *)
(* child consumes is there when its dependencies are closed.               *)

Blocks(plan, group) == \A c \in group : plan[c].deps \cap group # {}

Below(plan, c) ==
  {group \in SUBSET DOMAIN plan :
     /\ Known(plan, plan[c].deps) \subseteq group
     /\ \A d \in group : Known(plan, plan[d].deps) \subseteq group}

Workable(plan) ==
  /\ \A group \in (SUBSET DOMAIN plan) \ {{}} : ~Blocks(plan, group)
  /\ \A c \in DOMAIN plan : \A group \in Below(plan, c) :
       plan[c].consumes \subseteq UNION {plan[a].provides : a \in group}
=============================================================================
