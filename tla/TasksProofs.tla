---------------------------- MODULE TasksProofs ----------------------------
(***************************************************************************)
(* Theorems about Tasks and the rules of Decomp, for every set of          *)
(* repositories, beads, epics and plans, every budget and any number of    *)
(* faults:                                                                 *)
(*                                                                         *)
(*   PassedPlansRun  a plan that the gate lets pass can be worked off;     *)
(*   ReviewsBounded  no epic is reviewed on and on;                        *)
(*   QueueIsFair     the ready queue serves repositories in turn.          *)
(***************************************************************************)
EXTENDS Tasks, FiniteSetTheorems, TLAPS

-----------------------------------------------------------------------------
(* Smallest members.  They stand in for induction: what holds of every     *)
(* number holds because there is no smallest one it does not hold of.      *)

LEMMA MinimalSet ==
  ASSUME NEW S, IsFiniteSet(S), NEW T, T \subseteq SUBSET S, T # {}
  PROVE  \E x \in T : \A y \in T : y \subseteq x => y = x
<1>1. IsWellFoundedOn(StrictSubsetOrdering(S), FiniteSubsetsOf(S))
  BY FS_StrictSubsetOrderingWellFounded
<1>2. T \subseteq FiniteSubsetsOf(S)
  BY FS_FiniteSubsetsOfFinite
<1>3. \E x \in T : \A y \in T : <<y, x>> \notin StrictSubsetOrdering(S)
  BY <1>1, <1>2, WFMin
<1> QED
  BY <1>3 DEF StrictSubsetOrdering

LEMMA Smallest ==
  ASSUME NEW T, T \subseteq Nat, T # {}
  PROVE  \E k \in T : \A j \in T : k <= j
<1> PICK n \in T : TRUE
  OBVIOUS
<1> DEFINE Low == {j \in T : j <= n}
           S == 1..n
           Up == {1..k : k \in Low}
<1>1. IsFiniteSet(S) /\ Up \subseteq SUBSET S /\ Up # {}
  <2>1. IsFiniteSet(S)
    BY FS_Interval
  <2>2. ASSUME NEW k \in Low PROVE 1..k \subseteq S
    OBVIOUS
  <2>3. n \in Low
    OBVIOUS
  <2> QED
    BY <2>1, <2>2, <2>3
<1>2. PICK x \in Up : \A y \in Up : y \subseteq x => y = x
  <2> HIDE DEF Up, S
  <2> QED
    BY <1>1, MinimalSet
<1>3. PICK k \in Low : x = 1..k
  <2>1. x \in Up
    BY <1>2
  <2> QED
    BY <2>1
<1> SUFFICES ASSUME NEW j \in T, j < k PROVE FALSE
  BY <1>3
<1>4. QED
  <2>1. j \in Low /\ j \in Nat /\ k \in Nat
    BY <1>3
  <2>4. 1..j \in Up /\ 1..j \subseteq x
    BY <1>3, <2>1
  <2>2. 1..j = 1..k
    BY <1>2, <1>3, <2>4
  <2>3. k \in 1..k /\ k \notin 1..j
    BY <2>1
  <2> QED
    BY <2>2, <2>3

-----------------------------------------------------------------------------
(* What a visit of the dependencies reaches.                               *)

More(p, ids) == ids \cup UNION {Known(p, p[c].deps) : c \in ids}

Closed(p, group) == \A d \in group : Known(p, p[d].deps) \subseteq group

(* The recursive function that Visited is defined by exists.               *)
Steps(p, ids, n, f) ==
  f = [k \in 0..n |->
         IF k = 0 THEN Known(p, ids)
         ELSE f[k - 1] \cup UNION {Known(p, p[c].deps) : c \in f[k - 1]}]

LEMMA StepsExist ==
  ASSUME NEW p, NEW ids, NEW n \in Nat
  PROVE  \E f : Steps(p, ids, n, f)
<1> DEFINE T == {k \in Nat : ~\E f : Steps(p, ids, k, f)}
<1> SUFFICES ASSUME T # {} PROVE FALSE
  OBVIOUS
<1>1. PICK k \in T : \A j \in T : k <= j
  <2> HIDE DEF T
  <2>1. T \subseteq Nat
    BY DEF T
  <2> QED
    BY <2>1, Smallest
<1>2. CASE k = 0
  <2> DEFINE f == [j \in 0..0 |-> Known(p, ids)]
  <2>1. Steps(p, ids, 0, f)
    BY DEF Steps
  <2> QED
    BY <1>2, <2>1
<1>3. CASE k # 0
  <2>1. k - 1 \in Nat /\ k - 1 \notin T
    BY <1>1, <1>3
  <2>2. PICK g : Steps(p, ids, k - 1, g)
    BY <2>1
  <2> DEFINE f == [j \in 0..k |-> IF j < k THEN g[j] ELSE More(p, g[k - 1])]
  <2>3. ASSUME NEW j \in 0..k
        PROVE  f[j] = IF j = 0 THEN Known(p, ids)
                      ELSE f[j - 1] \cup UNION {Known(p, p[c].deps) : c \in f[j - 1]}
    <3>1. CASE j = 0
      BY <1>3, <2>1, <2>2, <3>1 DEF Steps
    <3>2. CASE j # 0 /\ j < k
      <4>1. f[j] = g[j] /\ f[j - 1] = g[j - 1] /\ j \in 0..(k - 1)
        BY <3>2
      <4>2. g[j] = g[j - 1] \cup UNION {Known(p, p[c].deps) : c \in g[j - 1]}
        BY <2>2, <3>2, <4>1 DEF Steps
      <4> QED
        BY <3>2, <4>1, <4>2
    <3>3. CASE j = k
      <4>1. f[j] = More(p, g[k - 1]) /\ f[j - 1] = g[k - 1]
        BY <1>3, <3>3
      <4> QED
        BY <1>3, <3>3, <4>1 DEF More
    <3> QED
      BY <3>1, <3>2, <3>3
  <2>4. Steps(p, ids, k, f)
    BY <2>3 DEF Steps
  <2> QED
    BY <2>4
<1> QED
  BY <1>2, <1>3

LEMMA VisitedInSteps ==
  ASSUME NEW p, IsFiniteSet(DOMAIN p), NEW ids
  PROVE  LET n == Cardinality(DOMAIN p) IN
         \E f : /\ n \in Nat
                /\ f[0] = Known(p, ids)
                /\ \A k \in 1..n : f[k] = More(p, f[k - 1])
                /\ Visited(p, ids) = f[n]
<1> DEFINE n == Cardinality(DOMAIN p)
           f == CHOOSE g : Steps(p, ids, n, g)
<1>1. n \in Nat
  BY FS_CardinalityType
<1>2. Steps(p, ids, n, f)
  BY <1>1, StepsExist
<1>3. Visited(p, ids) = f[n]
  BY DEF Visited, Steps
<1> HIDE DEF n, f
<1>4. f[0] = Known(p, ids)
  BY <1>1, <1>2 DEF Steps
<1>5. ASSUME NEW k \in 1..n PROVE f[k] = More(p, f[k - 1])
  <2>1. k \in 0..n /\ k # 0
    BY <1>1
  <2>2. f[k] = f[k - 1] \cup UNION {Known(p, p[c].deps) : c \in f[k - 1]}
    BY <1>2, <2>1 DEF Steps
  <2> QED
    BY <2>2 DEF More
<1> QED
  BY <1>1, <1>3, <1>4, <1>5 DEF n

(* Nothing is visited that some closed set leaves out.                     *)
LEMMA VisitedIsLeast ==
  ASSUME NEW p, IsFiniteSet(DOMAIN p), NEW ids,
         NEW group, Known(p, ids) \subseteq group, Closed(p, group)
  PROVE  Visited(p, ids) \subseteq group
<1> DEFINE n == Cardinality(DOMAIN p)
<1>1. PICK f : /\ n \in Nat /\ f[0] = Known(p, ids)
               /\ \A k \in 1..n : f[k] = More(p, f[k - 1])
               /\ Visited(p, ids) = f[n]
  BY VisitedInSteps
<1> HIDE DEF n
<1> DEFINE T == {k \in 0..n : ~(f[k] \subseteq group)}
<1>2. ASSUME T # {} PROVE FALSE
  <2>1. PICK k \in T : \A j \in T : k <= j
    <3>1. T \subseteq Nat
      OBVIOUS
    <3> HIDE DEF T
    <3> QED
      BY <1>2, <3>1, Smallest
  <2>2. k \in 1..n /\ k - 1 \in 0..n /\ k - 1 \notin T
    BY <1>1, <2>1
  <2>3. f[k - 1] \subseteq group
    BY <2>2
  <2>4. f[k] \subseteq group
    BY <1>1, <2>2, <2>3 DEF More, Closed
  <2> QED
    BY <2>1, <2>4
<1> QED
  BY <1>1, <1>2

LEMMA VisitedOfPlan ==
  ASSUME NEW p, IsFiniteSet(DOMAIN p), NEW ids
  PROVE  Visited(p, ids) \subseteq DOMAIN p
  BY VisitedIsLeast DEF Known, Closed

(* As many rounds as there are children are enough: a round that adds      *)
(* nothing is the last that could.                                         *)
LEMMA VisitedIsClosed ==
  ASSUME NEW p, IsFiniteSet(DOMAIN p), NEW ids
  PROVE  Known(p, ids) \subseteq Visited(p, ids) /\ Closed(p, Visited(p, ids))
<1> DEFINE n == Cardinality(DOMAIN p)
<1>1. PICK f : /\ n \in Nat /\ f[0] = Known(p, ids)
               /\ \A k \in 1..n : f[k] = More(p, f[k - 1])
               /\ Visited(p, ids) = f[n]
  BY VisitedInSteps
<1> DEFINE Good(k) ==
             /\ Known(p, ids) \subseteq f[k] /\ f[k] \subseteq DOMAIN p
             /\ Closed(p, f[k]) \/ Cardinality(f[k]) >= k
           T == {k \in 0..n : ~Good(k)}
<1> HIDE DEF n
<1>2. ASSUME T # {} PROVE FALSE
  <2>1. PICK k \in T : \A j \in T : k <= j
    <3>1. T \subseteq Nat
      OBVIOUS
    <3> HIDE DEF T
    <3> QED
      BY <1>2, <3>1, Smallest
  <2>2. CASE k = 0
    <3>1. f[0] \subseteq DOMAIN p
      BY <1>1 DEF Known
    <3>2. Cardinality(f[0]) \in Nat
      BY <3>1, FS_Subset, FS_CardinalityType
    <3> QED
      BY <1>1, <2>1, <2>2, <3>1, <3>2
  <2>3. CASE k # 0
    <3>1. k \in 1..n /\ k - 1 \in 0..n /\ k - 1 \notin T
      BY <1>1, <2>1, <2>3
    <3>2. Good(k - 1)
      BY <3>1
    <3>3. f[k] = More(p, f[k - 1])
      BY <1>1, <3>1
    <3>4. f[k] \subseteq DOMAIN p /\ f[k - 1] \subseteq f[k]
      BY <3>2, <3>3 DEF More, Known
    <3>5. CASE Closed(p, f[k - 1])
      <4>1. f[k] = f[k - 1]
        BY <3>3, <3>5 DEF More, Closed
      <4> QED
        BY <2>1, <3>2, <3>5, <4>1
    <3>6. CASE ~Closed(p, f[k - 1])
      <4>1. f[k] # f[k - 1]
        BY <3>3, <3>6 DEF More, Closed
      <4>2. IsFiniteSet(f[k]) /\ Cardinality(f[k]) \in Nat
        BY <3>4, FS_Subset, FS_CardinalityType
      <4>3. /\ Cardinality(f[k - 1]) <= Cardinality(f[k])
            /\ Cardinality(f[k]) # Cardinality(f[k - 1])
            /\ IsFiniteSet(f[k - 1])
        BY <3>4, <4>1, <4>2, FS_Subset
      <4>4. Cardinality(f[k - 1]) \in Nat
        BY <4>3, FS_CardinalityType
      <4>5. Cardinality(f[k - 1]) >= k - 1
        BY <3>2, <3>6
      <4>6. Cardinality(f[k]) >= k
        BY <3>1, <4>2, <4>3, <4>4, <4>5
      <4> QED
        BY <2>1, <3>2, <3>4, <4>6
    <3> QED
      BY <3>5, <3>6
  <2> QED
    BY <2>2, <2>3
<1>3. Good(n)
  BY <1>1, <1>2
<1>4. CASE Closed(p, f[n])
  BY <1>1, <1>3, <1>4
<1>5. CASE Cardinality(f[n]) >= n
  <2>1. Cardinality(f[n]) <= Cardinality(DOMAIN p)
        /\ (Cardinality(DOMAIN p) = Cardinality(f[n]) => DOMAIN p = f[n])
        /\ IsFiniteSet(f[n])
    BY <1>3, FS_Subset
  <2>2. Cardinality(f[n]) \in Nat
    BY <2>1, FS_CardinalityType
  <2>3. f[n] = DOMAIN p
    BY <1>1, <1>5, <2>1, <2>2 DEF n
  <2> QED
    BY <1>1, <1>3, <2>3 DEF Closed, Known
<1> QED
  BY <1>3, <1>4, <1>5

(* A plan without a cycle in which every child consumes what its ancestors *)
(* provide can be worked off.                                              *)
LEMMA SoundPlanRuns ==
  ASSUME NEW p, IsFiniteSet(DOMAIN p),
         \A c \in DOMAIN p : ~InCycle(p, c),
         \A c \in DOMAIN p : p[c].consumes \subseteq AncestorProvides(p, c)
  PROVE  Workable(p)
<1>1. ASSUME NEW group \in SUBSET DOMAIN p, group # {}, Blocks(p, group)
      PROVE  FALSE
  <2> DEFINE Reach(c) == Visited(p, p[c].deps)
             T == {Reach(c) : c \in group}
  <2>1. T \subseteq SUBSET DOMAIN p /\ T # {}
    BY <1>1, VisitedOfPlan
  <2>2. PICK x \in T : \A y \in T : y \subseteq x => y = x
    <3> HIDE DEF T
    <3> QED
      BY <2>1, MinimalSet
  <2>3. PICK c \in group : x = Reach(c)
    BY <2>2
  <2>4. PICK d \in group : d \in p[c].deps
    BY <1>1, <2>3 DEF Blocks
  <2>5. Known(p, p[c].deps) \subseteq Reach(c) /\ Closed(p, Reach(c))
    BY VisitedIsClosed
  <2>6. d \in Reach(c)
    BY <1>1, <2>4, <2>5 DEF Known
  <2>7. Reach(d) \subseteq Reach(c)
    <3>1. Known(p, p[d].deps) \subseteq Reach(c)
      BY <2>5, <2>6 DEF Closed
    <3> HIDE DEF Reach
    <3> QED
      BY <2>5, <3>1, VisitedIsLeast DEF Reach
  <2>8. d \notin Reach(d)
    BY <1>1, <2>4 DEF InCycle
  <2>9. Reach(d) = Reach(c)
    BY <2>2, <2>3, <2>4, <2>7
  <2> QED
    BY <2>6, <2>8, <2>9
<1>2. ASSUME NEW c \in DOMAIN p, NEW group \in Below(p, c)
      PROVE  p[c].consumes \subseteq UNION {p[a].provides : a \in group}
  <2>1. Visited(p, p[c].deps) \subseteq group
    BY VisitedIsLeast DEF Below, Closed
  <2> QED
    BY <2>1 DEF AncestorProvides
<1>3. \A group \in (SUBSET DOMAIN p) \ {{}} : ~Blocks(p, group)
  BY <1>1
<1> QED
  BY <1>2, <1>3 DEF Workable

-----------------------------------------------------------------------------
(* Ranks in a strict total order.                                          *)

Ordered(S, R) ==
  /\ \A a \in S : <<a, a>> \notin R
  /\ \A a, b, c \in S : <<a, b>> \in R /\ <<b, c>> \in R => <<a, c>> \in R
  /\ \A a, b \in S : a # b => <<a, b>> \in R \/ <<b, a>> \in R

Under(S, R, b) == {c \in S : <<c, b>> \in R}
Rank(S, R, b) == Cardinality(Under(S, R, b))

LEMMA RankType ==
  ASSUME NEW S, IsFiniteSet(S), NEW R, NEW b
  PROVE  Rank(S, R, b) \in Nat /\ IsFiniteSet(Under(S, R, b))
  BY FS_Subset, FS_CardinalityType DEF Rank, Under

LEMMA RankGrows ==
  ASSUME NEW S, IsFiniteSet(S), NEW R, Ordered(S, R),
         NEW a \in S, NEW b \in S, <<a, b>> \in R
  PROVE  Rank(S, R, a) < Rank(S, R, b)
<1>1. Under(S, R, a) \cup {a} \subseteq Under(S, R, b) /\ a \notin Under(S, R, a)
  BY DEF Ordered, Under
<1>2. Cardinality(Under(S, R, a) \cup {a}) = Rank(S, R, a) + 1
  BY <1>1, RankType, FS_AddElement DEF Rank
<1>3. Cardinality(Under(S, R, a) \cup {a}) <= Rank(S, R, b)
  BY <1>1, RankType, FS_Subset DEF Rank
<1> QED
  BY <1>2, <1>3, RankType

LEMMA Greatest ==
  ASSUME NEW S, IsFiniteSet(S), NEW R, Ordered(S, R), NEW T, T \subseteq S, T # {}
  PROVE  \E m \in T : \A y \in T : y # m => <<y, m>> \in R
<1> DEFINE n == Cardinality(S)
           Gaps == {n - Rank(S, R, z) : z \in T}
<1>1. n \in Nat
  BY FS_CardinalityType
<1>2. ASSUME NEW z \in T PROVE Rank(S, R, z) \in Nat /\ Rank(S, R, z) <= n
  <2>1. Under(S, R, z) \subseteq S
    BY DEF Under
  <2> QED
    BY <2>1, RankType, FS_Subset DEF Rank
<1>3. Gaps \subseteq Nat /\ Gaps # {}
  <2> HIDE DEF n
  <2> QED
    BY <1>1, <1>2
<1>4. PICK k \in Gaps : \A j \in Gaps : k <= j
  <2> HIDE DEF Gaps
  <2> QED
    BY <1>3, Smallest
<1> HIDE DEF n
<1>5. PICK m \in T : k = n - Rank(S, R, m)
  BY <1>4
<1>6. ASSUME NEW y \in T, y # m, <<y, m>> \notin R PROVE FALSE
  <2>1. <<m, y>> \in R
    BY <1>6 DEF Ordered
  <2>2. Rank(S, R, m) < Rank(S, R, y)
    BY <2>1, RankGrows
  <2>3. n - Rank(S, R, m) <= n - Rank(S, R, y)
    BY <1>4, <1>5
  <2> QED
    BY <1>1, <1>2, <2>2, <2>3
<1> QED
  BY <1>6

(* No rank is left out.                                                    *)
LEMMA RankOnto ==
  ASSUME NEW S, IsFiniteSet(S), NEW R, Ordered(S, R),
         NEW b \in S, NEW r \in Nat, r <= Rank(S, R, b)
  PROVE  \E d \in S : Rank(S, R, d) = r
<1> DEFINE T == {Rank(S, R, d) : d \in {c \in S : r <= Rank(S, R, c)}}
<1>1. T \subseteq Nat /\ T # {}
  BY RankType
<1>2. PICK k \in T : \A j \in T : k <= j
  <2> HIDE DEF T
  <2> QED
    BY <1>1, Smallest
<1>3. PICK d \in S : r <= Rank(S, R, d) /\ k = Rank(S, R, d)
  BY <1>2
<1> SUFFICES ASSUME Rank(S, R, d) # r PROVE FALSE
  OBVIOUS
<1>4. Under(S, R, d) \subseteq S /\ Under(S, R, d) # {}
  <2>1. Rank(S, R, d) # 0
    BY <1>3, RankType
  <2> QED
    BY <2>1, FS_EmptySet DEF Under, Rank
<1>5. PICK z \in Under(S, R, d) : \A y \in Under(S, R, d) : y # z => <<y, z>> \in R
  BY <1>4, Greatest
<1>6. z \in S /\ Under(S, R, d) = Under(S, R, z) \cup {z} /\ z \notin Under(S, R, z)
  BY <1>5 DEF Under, Ordered
<1>7. Rank(S, R, d) = Rank(S, R, z) + 1
  BY <1>6, RankType, FS_AddElement DEF Rank
<1>8. Rank(S, R, z) \in Nat /\ Rank(S, R, d) \in Nat
  BY RankType
<1>9. r <= Rank(S, R, z)
  BY <1>3, <1>7, <1>8
<1>10. Rank(S, R, z) \in T
  BY <1>6, <1>9
<1>11. k <= Rank(S, R, z)
  BY <1>2, <1>10
<1> QED
  BY <1>3, <1>7, <1>8, <1>11

(* The members of S one after the other, each once.                        *)
LEMMA SortedIsSorted ==
  ASSUME NEW S, IsFiniteSet(S), NEW R, Ordered(S, R)
  PROVE  /\ Sorted(S, R) \in Seq(S) /\ Len(Sorted(S, R)) = Cardinality(S)
         /\ \A i \in DOMAIN Sorted(S, R) :
              Sorted(S, R)[i] \in S /\ Rank(S, R, Sorted(S, R)[i]) = i - 1
         /\ \A b \in S : \E i \in DOMAIN Sorted(S, R) : Sorted(S, R)[i] = b
<1> DEFINE n == Cardinality(S)
           q == Sorted(S, R)
<1>1. n \in Nat
  BY FS_CardinalityType
<1>2. q = [i \in 1..n |-> CHOOSE b \in S : Rank(S, R, b) = i - 1]
  BY DEF Sorted, Rank, Under
<1>3. ASSUME NEW b \in S PROVE Rank(S, R, b) \in 0..(n - 1)
  <2>1. Under(S, R, b) \subseteq S \ {b} /\ IsFiniteSet(S \ {b})
    BY FS_RemoveElement DEF Ordered, Under
  <2>2. Rank(S, R, b) <= Cardinality(S \ {b})
    BY <2>1, FS_Subset DEF Rank
  <2>3. Cardinality(S \ {b}) = n - 1
    BY FS_RemoveElement
  <2> HIDE DEF n
  <2> QED
    BY <1>1, <2>2, <2>3, RankType
<1>4. ASSUME NEW i \in 1..n PROVE \E b \in S : Rank(S, R, b) = i - 1
  <2>1. S # {}
    BY <1>1, <1>4, FS_EmptySet
  <2>2. PICK m \in S : \A y \in S : y # m => <<y, m>> \in R
    BY <2>1, Greatest
  <2>3. Under(S, R, m) = S \ {m}
    BY <2>2 DEF Under, Ordered
  <2>4. Rank(S, R, m) = n - 1
    BY <2>3, FS_RemoveElement DEF Rank
  <2> HIDE DEF n
  <2>5. i - 1 \in Nat /\ i - 1 <= Rank(S, R, m)
    BY <1>1, <2>4
  <2> QED
    BY <2>5, RankOnto
<1> HIDE DEF n
<1>5. ASSUME NEW i \in 1..n PROVE q[i] \in S /\ Rank(S, R, q[i]) = i - 1
  <2>1. q[i] = CHOOSE b \in S : Rank(S, R, b) = i - 1
    BY <1>2
  <2> HIDE DEF q
  <2> QED
    BY <1>4, <2>1
<1>6. DOMAIN q = 1..n
  BY <1>2
<1>7. q \in Seq(S) /\ Len(q) = n
  <2>1. q \in [1..n -> S]
    BY <1>2, <1>5
  <2> HIDE DEF q
  <2> QED
    BY <1>1, <2>1
<1>8. ASSUME NEW b \in S PROVE \E i \in 1..n : q[i] = b
  <2> DEFINE i == Rank(S, R, b) + 1
  <2>1. i \in 1..n /\ i - 1 = Rank(S, R, b)
    BY <1>1, <1>3
  <2>2. q[i] \in S /\ Rank(S, R, q[i]) = Rank(S, R, b)
    BY <1>5, <2>1
  <2>3. ASSUME q[i] # b PROVE FALSE
    <3>1. <<q[i], b>> \in R \/ <<b, q[i]>> \in R
      BY <2>2, <2>3 DEF Ordered
    <3>2. Rank(S, R, q[i]) < Rank(S, R, b) \/ Rank(S, R, b) < Rank(S, R, q[i])
      BY <2>2, <3>1, RankGrows
    <3> QED
      BY <2>2, <3>2, RankType
  <2> QED
    BY <2>1, <2>3
<1> QED
  BY <1>5, <1>6, <1>7, <1>8 DEF n

(* A sorted sequence is in order, and says so.                             *)
LEMMA RankOrders ==
  ASSUME NEW S, IsFiniteSet(S), NEW R, Ordered(S, R), NEW a \in S, NEW b \in S
  PROVE  /\ <<a, b>> \in R => Rank(S, R, a) < Rank(S, R, b)
         /\ Rank(S, R, a) < Rank(S, R, b) => <<a, b>> \in R
<1>1. <<a, b>> \in R => Rank(S, R, a) < Rank(S, R, b)
  BY RankGrows
<1>2. <<b, a>> \in R => Rank(S, R, b) < Rank(S, R, a)
  BY RankGrows
<1>3. a # b => <<a, b>> \in R \/ <<b, a>> \in R
  BY DEF Ordered
<1>4. Rank(S, R, a) \in Nat /\ Rank(S, R, b) \in Nat
  BY RankType
<1> QED
  BY <1>1, <1>2, <1>3, <1>4

LEMMA SortedInOrder ==
  ASSUME NEW S, IsFiniteSet(S), NEW R, Ordered(S, R),
         NEW i \in DOMAIN Sorted(S, R), NEW j \in DOMAIN Sorted(S, R)
  PROVE  /\ i < j => <<Sorted(S, R)[i], Sorted(S, R)[j]>> \in R
         /\ <<Sorted(S, R)[i], Sorted(S, R)[j]>> \in R => i < j
<1> DEFINE a == Sorted(S, R)[i]
           b == Sorted(S, R)[j]
<1>1. a \in S /\ Rank(S, R, a) = i - 1 /\ b \in S /\ Rank(S, R, b) = j - 1
  BY SortedIsSorted
<1>2. i \in Nat /\ j \in Nat
  BY SortedIsSorted
<1> HIDE DEF a, b
<1>3. /\ <<a, b>> \in R => i - 1 < j - 1
      /\ i - 1 < j - 1 => <<a, b>> \in R
  BY <1>1, RankOrders
<1>4. /\ i < j => <<a, b>> \in R
      /\ <<a, b>> \in R => i < j
  BY <1>2, <1>3
<1> QED
  BY <1>4 DEF a, b

-----------------------------------------------------------------------------
(* The ready queue.                                                        *)

LEMMA Places ==
  ASSUME NEW b \in Bead
  PROVE  /\ Place(b) \in Nat /\ BeadOrder[Place(b)] = b
         /\ Group(b) \in Nat /\ RepoOrder[Group(b)] = RepoOf[b]
<1>1. \E i \in DOMAIN BeadOrder : BeadOrder[i] = b
  BY TasksAssumption DEF ToSet
<1>2. \E i \in DOMAIN RepoOrder : RepoOrder[i] = RepoOf[b]
  BY TasksAssumption DEF ToSet
<1>3. DOMAIN BeadOrder \subseteq Nat /\ DOMAIN RepoOrder \subseteq Nat
  BY TasksAssumption
<1> QED
  BY <1>1, <1>2, <1>3 DEF Place, Group

(* A turn is a rank among the beads of the repository and the priority.    *)
Listed == {p \in Bead \X Bead : Place(p[1]) < Place(p[2])}

LEMMA ListedOrders ==
  ASSUME NEW ids, ids \subseteq Bead
  PROVE  Ordered(ids, Listed)
<1>1. \A a \in ids : a \in Bead /\ Place(a) \in Nat /\ BeadOrder[Place(a)] = a
  BY Places
<1>2. \A a, b \in ids : (<<a, b>> \in Listed) <=> (Place(a) < Place(b))
  BY <1>1 DEF Listed
<1>3. \A a, b \in ids : a # b => Place(a) # Place(b)
  BY <1>1
<1>4. \A a \in ids : <<a, a>> \notin Listed
  BY <1>1, <1>2
<1>5. \A a, b, c \in ids : <<a, b>> \in Listed /\ <<b, c>> \in Listed => <<a, c>> \in Listed
  BY <1>1, <1>2
<1>6. \A a, b \in ids : a # b => <<a, b>> \in Listed \/ <<b, a>> \in Listed
  BY <1>1, <1>2, <1>3
<1> QED
  BY <1>4, <1>5, <1>6 DEF Ordered

LEMMA TurnIsRank ==
  ASSUME NEW ids, ids \subseteq Bead, NEW b \in ids
  PROVE  /\ Turn(b, ids) = Rank(Equals(b, ids), Listed, b) /\ Turn(b, ids) \in Nat
         /\ Equals(b, ids) \subseteq ids /\ IsFiniteSet(Equals(b, ids)) /\ b \in Equals(b, ids)
<1>1. Equals(b, ids) \subseteq ids /\ Equals(b, ids) \subseteq Bead /\ b \in Bead
  BY DEF Equals
<1>2. {c \in Equals(b, ids) : Place(c) < Place(b)} = Under(Equals(b, ids), Listed, b)
  BY <1>1 DEF Under, Listed
<1>3. IsFiniteSet(Equals(b, ids))
  BY <1>1, TasksAssumption, FS_Subset
<1>4. Turn(b, ids) = Rank(Equals(b, ids), Listed, b)
  BY <1>2 DEF Turn, Rank
<1>5. Turn(b, ids) \in Nat
  BY <1>3, <1>4, RankType
<1>6. b \in Equals(b, ids)
  BY DEF Equals
<1> QED
  BY <1>1, <1>3, <1>4, <1>5, <1>6

LEMMA TurnsDiffer ==
  ASSUME NEW ids, ids \subseteq Bead, NEW a \in ids, NEW b \in ids, a # b,
         RepoOf[a] = RepoOf[b], Priority[a] = Priority[b]
  PROVE  Turn(a, ids) # Turn(b, ids)
<1>1. Equals(a, ids) = Equals(b, ids)
  BY DEF Equals
<1>2. Ordered(Equals(b, ids), Listed)
  BY TurnIsRank, ListedOrders
<1>3. <<a, b>> \in Listed \/ <<b, a>> \in Listed
  BY <1>1, <1>2, TurnIsRank DEF Ordered
<1>4. /\ a \in Equals(b, ids) /\ b \in Equals(b, ids) /\ IsFiniteSet(Equals(b, ids))
      /\ Turn(a, ids) = Rank(Equals(b, ids), Listed, a)
      /\ Turn(b, ids) = Rank(Equals(b, ids), Listed, b)
      /\ Turn(a, ids) \in Nat /\ Turn(b, ids) \in Nat
  BY <1>1, TurnIsRank
<1>5. Turn(a, ids) < Turn(b, ids) \/ Turn(b, ids) < Turn(a, ids)
  BY <1>2, <1>3, <1>4, RankGrows
<1> QED
  BY <1>4, <1>5

(* Within a repository and a priority every earlier turn is somebody's.    *)
LEMMA EarlierTurn ==
  ASSUME NEW ids, ids \subseteq Bead, NEW b \in ids, NEW r \in Nat, r <= Turn(b, ids)
  PROVE  \E d \in ids : /\ RepoOf[d] = RepoOf[b] /\ Priority[d] = Priority[b]
                        /\ Turn(d, ids) = r
<1>1. /\ Ordered(Equals(b, ids), Listed) /\ IsFiniteSet(Equals(b, ids))
      /\ b \in Equals(b, ids) /\ r <= Rank(Equals(b, ids), Listed, b)
  BY TurnIsRank, ListedOrders
<1>2. PICK d \in Equals(b, ids) : Rank(Equals(b, ids), Listed, d) = r
  BY <1>1, RankOnto
<1>3. d \in ids /\ RepoOf[d] = RepoOf[b] /\ Priority[d] = Priority[b]
  BY <1>2 DEF Equals
<1>4. Equals(d, ids) = Equals(b, ids)
  BY <1>3 DEF Equals
<1>5. Turn(d, ids) = r
  BY <1>2, <1>3, <1>4, TurnIsRank
<1> QED
  BY <1>3, <1>5

Order(ids) == {p \in ids \X ids : Before(p[1], p[2], ids)}

LEMMA BeforeOrders ==
  ASSUME NEW ids, ids \subseteq Bead
  PROVE  Ordered(ids, Order(ids))
<1>1. \A a \in ids : /\ Priority[a] \in Nat /\ Turn(a, ids) \in Nat /\ Group(a) \in Nat
                     /\ RepoOrder[Group(a)] = RepoOf[a]
  BY Places, TurnIsRank, TasksAssumption
<1>2. \A a, b \in ids : (<<a, b>> \in Order(ids)) <=> Before(a, b, ids)
  BY DEF Order
<1>3. ASSUME NEW a \in ids PROVE ~Before(a, a, ids)
  BY <1>1 DEF Before
<1>4. ASSUME NEW a \in ids, NEW b \in ids, NEW c \in ids,
             Before(a, b, ids), Before(b, c, ids)
      PROVE  Before(a, c, ids)
  BY <1>1, <1>4 DEF Before
<1>5. ASSUME NEW a \in ids, NEW b \in ids, a # b, ~Before(a, b, ids), ~Before(b, a, ids)
      PROVE  FALSE
  <2>1. Priority[a] = Priority[b] /\ Turn(a, ids) = Turn(b, ids) /\ Group(a) = Group(b)
    BY <1>1, <1>5 DEF Before
  <2>2. RepoOf[a] = RepoOf[b]
    BY <1>1, <2>1
  <2> QED
    BY <1>5, <2>1, <2>2, TurnsDiffer
<1> QED
  BY <1>2, <1>3, <1>4, <1>5 DEF Ordered

(* What MergeReady promises.                                               *)
LEMMA MergedIsFair ==
  ASSUME NEW ids, ids \subseteq Bead
  PROVE  MergeReady(ids) \in Seq(Bead) /\ Fair(MergeReady(ids))
<1> DEFINE R == Order(ids)
           q == Sorted(ids, R)
<1>1. IsFiniteSet(ids) /\ Ordered(ids, R)
  BY BeforeOrders, TasksAssumption, FS_Subset
<1>2. MergeReady(ids) = q
  BY DEF MergeReady, Order
<1>3. /\ q \in Seq(ids) /\ \A i \in DOMAIN q : q[i] \in ids
      /\ \A b \in ids : \E i \in DOMAIN q : q[i] = b
  BY <1>1, SortedIsSorted
<1>4. \A i, j \in DOMAIN q : /\ i < j => <<q[i], q[j]>> \in R
                             /\ <<q[i], q[j]>> \in R => i < j
  BY <1>1, SortedInOrder
<1> HIDE DEF q
<1>5. \A i, j \in DOMAIN q : /\ i < j => Before(q[i], q[j], ids)
                             /\ Before(q[i], q[j], ids) => i < j
  BY <1>3, <1>4 DEF Order
<1>6. DOMAIN q = 1..Len(q) /\ Len(q) \in Nat
  BY <1>3
<1>7. \A a \in ids : /\ Priority[a] \in Nat /\ Turn(a, ids) \in Nat /\ Group(a) \in Nat
                     /\ RepoOrder[Group(a)] = RepoOf[a]
  BY Places, TurnIsRank, TasksAssumption
<1>8. ASSUME NEW i \in DOMAIN q, NEW j \in DOMAIN q, i < j
      PROVE  Priority[q[i]] <= Priority[q[j]]
  <2>1. Before(q[i], q[j], ids)
    BY <1>5, <1>8
  <2>2. Priority[q[i]] \in Nat /\ Priority[q[j]] \in Nat
    BY <1>3, <1>7
  <2> QED
    BY <2>1, <2>2 DEF Before
<1>9. ASSUME NEW i \in DOMAIN q, NEW j \in DOMAIN q, i < j,
             RepoOf[q[i]] = RepoOf[q[j]], Priority[q[i]] = Priority[q[j]],
             NEW k \in j..Len(q),
             Priority[q[k]] = Priority[q[i]], RepoOf[q[k]] # RepoOf[q[i]]
      PROVE  \E m \in i..j : RepoOf[q[m]] = RepoOf[q[k]]
  <2>1. k \in DOMAIN q /\ q[i] \in ids /\ q[j] \in ids /\ q[k] \in ids
    BY <1>3, <1>6, <1>9
  <2>2. Group(q[i]) = Group(q[j])
    BY <1>9 DEF Group
  <2>3. Turn(q[i], ids) < Turn(q[j], ids)
    <3>1. Before(q[i], q[j], ids)
      BY <1>5, <1>9
    <3> QED
      BY <1>7, <1>9, <2>1, <2>2, <3>1 DEF Before
  <2>4. Turn(q[j], ids) <= Turn(q[k], ids)
    <3>1. j < k
      <4>1. j # k
        BY <1>9
      <4> QED
        BY <1>6, <1>9, <4>1
    <3>2. Before(q[j], q[k], ids)
      BY <1>5, <2>1, <3>1
    <3> QED
      BY <1>7, <1>9, <2>1, <3>2 DEF Before
  <2>5. Group(q[k]) # Group(q[i])
    BY <1>7, <1>9, <2>1
  <2> DEFINE r == IF Group(q[i]) < Group(q[k]) THEN Turn(q[i], ids) ELSE Turn(q[i], ids) + 1
  <2>6. r \in Nat /\ r <= Turn(q[k], ids)
    BY <1>7, <2>1, <2>3, <2>4
  <2>7. PICK d \in ids : /\ RepoOf[d] = RepoOf[q[k]] /\ Priority[d] = Priority[q[k]]
                         /\ Turn(d, ids) = r
    <3> HIDE DEF r
    <3> QED
      BY <2>1, <2>6, EarlierTurn
  <2>8. Group(d) = Group(q[k])
    BY <2>7 DEF Group
  <2>9. Before(q[i], d, ids) /\ Before(d, q[j], ids)
    <3>1. Priority[q[i]] = Priority[d] /\ Priority[d] = Priority[q[j]]
      BY <1>9, <2>7
    <3>2. /\ Group(q[i]) \in Nat /\ Group(q[k]) \in Nat
          /\ Turn(q[i], ids) \in Nat /\ Turn(q[j], ids) \in Nat
      BY <1>7, <2>1
    <3>3. CASE Group(q[i]) < Group(q[k])
      BY <2>2, <2>3, <2>7, <2>8, <3>1, <3>2, <3>3 DEF Before
    <3>4. CASE ~(Group(q[i]) < Group(q[k]))
      <4>1. Group(d) < Group(q[j]) /\ Turn(d, ids) = Turn(q[i], ids) + 1
        BY <2>2, <2>5, <2>7, <2>8, <3>2, <3>4
      <4> QED
        BY <2>3, <3>1, <3>2, <4>1 DEF Before
    <3> QED
      BY <3>3, <3>4
  <2>10. PICK m \in DOMAIN q : q[m] = d
    BY <1>3
  <2>11. i < m /\ m < j
    BY <1>5, <1>9, <2>9, <2>10
  <2>12. m \in i..j
    BY <1>6, <1>9, <2>11
  <2> QED
    BY <2>7, <2>10, <2>12
<1>10. Fair(q)
  BY <1>8, <1>9 DEF Fair
<1>11. q \in Seq(Bead)
  BY <1>3
<1> QED
  BY <1>2, <1>10, <1>11

(* Serving the head keeps a queue fair.                                    *)
LEMMA TailIsFair ==
  ASSUME NEW q \in Seq(Bead), q # <<>>, Fair(q)
  PROVE  Tail(q) \in Seq(Bead) /\ Fair(Tail(q)) /\ Head(q) \in Bead
<1> DEFINE t == Tail(q)
<1>1. /\ t \in Seq(Bead) /\ Head(q) \in Bead /\ Len(t) = Len(q) - 1 /\ Len(q) \in Nat
      /\ DOMAIN t = 1..Len(t) /\ DOMAIN q = 1..Len(q)
      /\ \A i \in 1..Len(t) : t[i] = q[i + 1]
  OBVIOUS
<1> HIDE DEF t
<1>2. ASSUME NEW i \in DOMAIN t, NEW j \in DOMAIN t, i < j
      PROVE  Priority[t[i]] <= Priority[t[j]]
  <2>1. i + 1 \in DOMAIN q /\ j + 1 \in DOMAIN q /\ i + 1 < j + 1
    BY <1>1, <1>2
  <2>2. Priority[q[i + 1]] <= Priority[q[j + 1]]
    BY <2>1 DEF Fair
  <2> QED
    BY <1>1, <2>2
<1>3. ASSUME NEW i \in DOMAIN t, NEW j \in DOMAIN t, i < j,
             RepoOf[t[i]] = RepoOf[t[j]], Priority[t[i]] = Priority[t[j]],
             NEW k \in j..Len(t),
             Priority[t[k]] = Priority[t[i]], RepoOf[t[k]] # RepoOf[t[i]]
      PROVE  \E m \in i..j : RepoOf[t[m]] = RepoOf[t[k]]
  <2>1. /\ i + 1 \in DOMAIN q /\ j + 1 \in DOMAIN q /\ i + 1 < j + 1
        /\ k + 1 \in (j + 1)..Len(q) /\ k \in 1..Len(t)
    BY <1>1, <1>3
  <2>2. t[i] = q[i + 1] /\ t[j] = q[j + 1] /\ t[k] = q[k + 1]
    BY <1>1, <2>1
  <2>3. /\ RepoOf[q[i + 1]] = RepoOf[q[j + 1]] /\ Priority[q[i + 1]] = Priority[q[j + 1]]
        /\ Priority[q[k + 1]] = Priority[q[i + 1]] /\ RepoOf[q[k + 1]] # RepoOf[q[i + 1]]
    BY <1>3, <2>2
  <2>4. PICK m \in (i + 1)..(j + 1) : RepoOf[q[m]] = RepoOf[q[k + 1]]
    BY <2>1, <2>3 DEF Fair
  <2>5. m - 1 \in i..j /\ m - 1 \in 1..Len(t) /\ (m - 1) + 1 = m
    BY <1>1, <1>3
  <2>6. t[m - 1] = q[m]
    BY <1>1, <2>5
  <2> QED
    BY <2>2, <2>4, <2>5, <2>6
<1>4. Fair(t)
  BY <1>2, <1>3 DEF Fair
<1> QED
  BY <1>1, <1>4 DEF t

LEMMA EmptyIsFair == Fair(<<>>)
  BY DEF Fair

-----------------------------------------------------------------------------
(* Types.                                                                  *)

(* What a session at each of its stages works on.                          *)
Duty(x) ==
  /\ x.at # "free" => x.task \in Bead
  /\ x.at # "free" /\ x.role \in {"designer", "reviewer"} => x.task \in Epic
  /\ x.at \in {"note", "verdict", "approve", "clear", "drift"} => x.task \in Epic
  /\ x.at \in {"budget", "review"} => Parent[x.task] \in Epic
  /\ x.at = "plan" => x.role = "designer"

Stage == {"free", "working", "land", "close", "plan", "due", "budget", "review",
          "note", "verdict", "approve", "clear", "drift", "fail"}
SessionType ==
  {x \in [task : Bead \cup {None}, role : Role, tried : BOOLEAN,
          next : Slot \cup {None}, at : Stage] : Duty(x)}
TickType ==
  [at : {"idle", "drift", "progress", "recover", "hold", "merge", "implement", "passes"},
   drift : Reads \cup {<<>>}, found : Reads \cup {<<>>},
   rework : SUBSET Bead, groups : SUBSET Repo, queue : Seq(Bead)]
PassType ==
  [at : {"off", "children", "design", "gate"},
   epics : SUBSET Epic, open : SUBSET Epic, whole : BOOLEAN]
Status == {"absent", "open", "in_progress", "closed"}

BeadsOK ==
  /\ bead \in [Bead -> Status]
  /\ plan \in [Epic -> Plans \cup {None}]
  /\ verdict \in [Epic -> {"none", "pass", "fix"}]
GateOK ==
  /\ tracked \in [Slot -> Epic \cup {None}]
  /\ attempted \in [Epic -> Nat] /\ exhausted \in SUBSET Epic
  /\ seen \in [Epic -> (SUBSET Bead) \cup {None}]
SlotsOK == slot \in [Slot -> SessionType]
TipOK == tip \in [Repo -> Bead \cup {None}]
TickOK == tick \in TickType /\ (tick.at \in {"hold", "merge"} => tick.found \in Reads)
PassOK == pass \in [Repo -> PassType]
TroubleOK == trouble \in 0..MaxTrouble

Typed == BeadsOK /\ GateOK /\ SlotsOK /\ TipOK /\ TickOK /\ PassOK /\ TroubleOK

LEMMA TypedIsTypeOK == Typed => TypeOK
  BY DEF Typed, TypeOK, BeadsOK, GateOK, SlotsOK, TipOK, TickOK, PassOK, TroubleOK,
         SessionType, TickType, PassType, Status, Stage

LEMMA EmptyIsSession == Empty \in SessionType /\ NoTick \in TickType /\ NoPass \in PassType
<1>1. Empty \in SessionType
  BY DEF Empty, SessionType, Duty, Role, Stage
<1>2. NoTick \in TickType
  BY DEF NoTick, TickType
<1>3. NoPass \in PassType
  BY DEF NoPass, PassType
<1> QED
  BY <1>1, <1>2, <1>3

LEMMA InitTyped == Init => Typed
<1> SUFFICES ASSUME Init PROVE Typed
  OBVIOUS
<1>1. BeadsOK /\ GateOK /\ TipOK /\ TroubleOK
  BY TasksAssumption DEF Init, BeadsOK, GateOK, TipOK, TroubleOK, Status
<1>2. SlotsOK /\ PassOK
  BY EmptyIsSession DEF Init, SlotsOK, PassOK
<1>3. TickOK
  BY EmptyIsSession DEF Init, TickOK, NoTick
<1> QED
  BY <1>1, <1>2, <1>3 DEF Typed

(* A query that succeeds answers what is there.                            *)
LEMMA AnswersAre ==
  ASSUME NEW results, NEW broken, NEW answer \in Answers(results, broken)
  PROVE  /\ answer = [i \in DOMAIN results |-> answer[i]]
         /\ \A i \in DOMAIN results : answer[i] \in {None, results[i]}
  BY DEF Answers

LEMMA TroubleTyped ==
  ASSUME TroubleOK
  PROVE  /\ Fine => TroubleOK' /\ trouble' = trouble
         /\ Fault => TroubleOK' /\ trouble' = trouble + 1
  BY TasksAssumption DEF TroubleOK, Fine, Fault

LEMMA PaidTyped ==
  ASSUME TroubleOK, NEW answer, NEW broken, Paid(answer, broken)
  PROVE  TroubleOK' /\ trouble' >= trouble
  BY TroubleTyped DEF Paid, TroubleOK

(* What is read of the repositories.                                       *)
LEMMA ReadsTyped ==
  ASSUME NEW results, DOMAIN results = Repo, \A r \in Repo : results[r] \subseteq In(r),
         NEW broken, NEW answer \in Answers(results, broken)
  PROVE  answer \in Reads
<1>1. /\ answer = [r \in Repo |-> answer[r]]
      /\ \A r \in Repo : answer[r] \in {None, results[r]}
  BY AnswersAre
<1>2. \A r \in Repo : results[r] \in SUBSET Bead /\ \A b \in results[r] : RepoOf[b] = r
  BY DEF In
<1> QED
  BY <1>1, <1>2 DEF Reads

-----------------------------------------------------------------------------
(* What a step may do without disturbing the plans and the budget.         *)

(* A charge of a review of e that is under way or may still be made.       *)
Charged(x, e) ==
  \/ x.at = "note" /\ x.task = e
  \/ x.at = "review" /\ Parent[x.task] = e
  \/ x.at = "fail" /\ x.role = "reviewer" /\ x.task = e

(* A designer that has filed its plan.                                     *)
Designing(x) == x.at \in {"land", "plan"} /\ x.role = "designer"

Follows(x, y) ==
  /\ \A e \in Epic : Charged(y, e) => Charged(x, e)
  /\ Designing(y) => Designing(x) /\ x.task = y.task

Harmless ==
  /\ plan' = plan /\ verdict' = verdict /\ attempted' = attempted
  /\ trouble' >= trouble
  /\ \A b \in Bead : bead[b] # "absent" => bead'[b] # "absent"
  /\ \A s \in Slot : Follows(slot[s], slot'[s])

LEMMA NothingFollows ==
  ASSUME NEW x, NEW y, y.at \notin {"note", "review", "fail", "land", "plan"}
  PROVE  Follows(x, y)
  BY DEF Follows, Charged, Designing

LEMMA SameFollows ==
  ASSUME NEW x
  PROVE  Follows(x, x)
  BY DEF Follows

LEMMA HandleIsFree ==
  ASSUME Room # {}
  PROVE  Handle \in Slot /\ slot[Handle].at = "free"
<1>1. Handle \in Room
  BY DEF Handle
<1> QED
  BY <1>1 DEF Room

LEMMA SessionTyped ==
  ASSUME NEW b \in Bead, NEW role \in Role, role \in {"designer", "reviewer"} => b \in Epic
  PROVE  /\ Session(b, role) \in SessionType /\ Session(b, role).at = "working"
         /\ [Session(b, role) EXCEPT !.tried = TRUE] \in SessionType
         /\ [Session(b, role) EXCEPT !.tried = TRUE].at = "working"
  BY TasksAssumption DEF Session, Empty, SessionType, Duty, Role, Stage

(* Others are the sessions as a completion leaves them.                    *)
LEMMA SpawnTyped ==
  ASSUME SlotsOK, BeadsOK, TroubleOK,
         NEW b \in Bead, NEW role \in Role, role \in {"designer", "reviewer"} => b \in Epic,
         NEW others \in [Slot -> SessionType],
         \A s \in Slot : Follows(slot[s], others[s]),
         Spawned(b, role, others) \/ Refused(b, role, others)
  PROVE  /\ SlotsOK' /\ TroubleOK' /\ bead' \in [Bead -> Status]
         /\ trouble' >= trouble
         /\ \A a \in Bead : bead[a] # "absent" => bead'[a] # "absent"
         /\ \A s \in Slot : Follows(slot[s], slot'[s])
<1>1. trouble' >= trouble /\ TroubleOK'
  BY TroubleTyped DEF Spawned, Refused, TroubleOK
<1>2. /\ bead' \in [Bead -> Status]
      /\ \A a \in Bead : bead[a] # "absent" => bead'[a] # "absent"
  BY DEF Spawned, Refused, BeadsOK, Status
<1>3. CASE Spawned(b, role, others)
  <2> DEFINE x == Session(b, role)
  <2>1. Handle \in Slot /\ slot' = [others EXCEPT ![Handle] = x]
    BY <1>3, HandleIsFree DEF Spawned, Admissible
  <2>2. x \in SessionType /\ x.at = "working"
    BY SessionTyped
  <2> HIDE DEF x
  <2>3. Follows(slot[Handle], x)
    BY <2>2, NothingFollows
  <2>4. SlotsOK'
    BY <2>1, <2>2 DEF SlotsOK
  <2>5. \A s \in Slot : Follows(slot[s], slot'[s])
    BY <2>1, <2>3
  <2> QED
    BY <1>1, <1>2, <2>4, <2>5
<1>4. CASE Refused(b, role, others)
  BY <1>1, <1>2, <1>4 DEF Refused, SlotsOK
<1> QED
  BY <1>3, <1>4

LEMMA SlotsFollow == \A s \in Slot : Follows(slot[s], slot[s])
  BY SameFollows

(* Gate and branches are left alone by the tick.                           *)
LEMMA SpawnHarmless ==
  ASSUME SlotsOK, BeadsOK, TroubleOK,
         NEW b \in Bead, NEW role \in Role, role \in {"designer", "reviewer"} => b \in Epic,
         Spawn(b, role, slot), UNCHANGED <<plan, verdict, attempted>>
  PROVE  SlotsOK' /\ TroubleOK' /\ BeadsOK' /\ Harmless
<1>1. slot \in [Slot -> SessionType]
  BY DEF SlotsOK
<1>2. /\ SlotsOK' /\ TroubleOK' /\ bead' \in [Bead -> Status]
      /\ trouble' >= trouble
      /\ \A a \in Bead : bead[a] # "absent" => bead'[a] # "absent"
      /\ \A s \in Slot : Follows(slot[s], slot'[s])
  BY <1>1, SlotsFollow, SpawnTyped DEF Spawn
<1> QED
  BY <1>2 DEF BeadsOK, Harmless

-----------------------------------------------------------------------------
(* The tick.                                                               *)

LEMMA StayTyped ==
  ASSUME Typed
  PROVE  /\ UNCHANGED beads => BeadsOK'
         /\ UNCHANGED gate => GateOK'
         /\ UNCHANGED slot => SlotsOK'
         /\ UNCHANGED tip => TipOK'
         /\ UNCHANGED tick => TickOK'
         /\ UNCHANGED pass => PassOK'
         /\ UNCHANGED trouble => TroubleOK' /\ trouble' >= trouble
  BY DEF Typed, BeadsOK, GateOK, SlotsOK, TipOK, TickOK, PassOK, TroubleOK, beads, gate

LEMMA IdleHarmless ==
  ASSUME Typed, UNCHANGED <<beads, gate, slot>>, trouble' >= trouble
  PROVE  Harmless
  BY SlotsFollow DEF Harmless, beads, gate

(* A step of the tick that only reads.                                     *)
LEMMA ReadingStep ==
  ASSUME Typed, UNCHANGED <<beads, gate, slot, tip, pass>>,
         TickOK', TroubleOK', trouble' >= trouble
  PROVE  Typed' /\ Harmless
  BY StayTyped, IdleHarmless DEF Typed

LEMMA SubsetsOfIn ==
  ASSUME NEW r
  PROVE  /\ DriftFixTasks(r) \subseteq In(r) /\ InProgress(r) \subseteq In(r)
         /\ Ready(r) \subseteq In(r)
  BY DEF DriftFixTasks, Unclosed, InProgress, Ready

LEMMA TickTyped ==
  ASSUME Typed, Tick \/ EndTick
  PROVE  Typed' /\ Harmless /\ tick'.queue = <<>>
<1>1. [NoTick EXCEPT !.at = "drift"] \in TickType /\ NoTick \in TickType
  BY EmptyIsSession DEF TickType
<1>2. tick' \in {[NoTick EXCEPT !.at = "drift"], NoTick} /\ tick'.at \in {"drift", "idle"}
      /\ tick'.queue = <<>>
  BY DEF Tick, EndTick, NoTick
<1>3. TickOK'
  BY <1>1, <1>2 DEF TickOK
<1>4. UNCHANGED <<beads, gate, slot, tip, pass, trouble>>
  BY DEF Tick, EndTick
<1> QED
  BY <1>2, <1>3, <1>4, StayTyped, ReadingStep

LEMMA QueryDriftTyped ==
  ASSUME Typed, QueryDrift
  PROVE  Typed' /\ Harmless /\ UNCHANGED tick.queue
<1> PICK answer \in Answers([r \in Repo |-> DriftFixTasks(r)], Broken) :
      /\ Paid(answer, Broken)
      /\ tick' = [tick EXCEPT !.at = "progress", !.drift = answer]
  BY DEF QueryDrift
<1>1. answer \in Reads
  BY SubsetsOfIn, ReadsTyped
<1>2. TickOK' /\ UNCHANGED tick.queue
  BY <1>1 DEF Typed, TickOK, TickType
<1>3. TroubleOK' /\ trouble' >= trouble
  BY PaidTyped DEF Typed
<1> QED
  BY <1>2, <1>3, ReadingStep DEF QueryDrift

LEMMA QueryProgressTyped ==
  ASSUME Typed, QueryProgress
  PROVE  Typed' /\ Harmless /\ UNCHANGED tick.queue
<1> PICK answer \in Answers([r \in Repo |-> InProgress(r)], Broken) :
      /\ Paid(answer, Broken)
      /\ tick' = [tick EXCEPT !.at = "recover", !.found = answer]
  BY DEF QueryProgress
<1>1. answer \in Reads
  BY SubsetsOfIn, ReadsTyped
<1>2. TickOK' /\ UNCHANGED tick.queue
  BY <1>1 DEF Typed, TickOK, TickType
<1>3. TroubleOK' /\ trouble' >= trouble
  BY PaidTyped DEF Typed
<1> QED
  BY <1>2, <1>3, ReadingStep DEF QueryProgress

LEMMA RecoverTasksTyped ==
  ASSUME Typed, RecoverTasks
  PROVE  Typed' /\ Harmless /\ UNCHANGED tick.queue
<1> DEFINE ids == UNION {Eligible(r, tick.found) : r \in Repo}
<1>1. tick.found \in Reads
  BY DEF Typed, TickOK, TickType, RecoverTasks
<1>2. ASSUME NEW r \in Repo PROVE Eligible(r, tick.found) \subseteq Bead
  <2>1. tick.found[r] # None => tick.found[r] \subseteq Bead
    BY <1>1 DEF Reads
  <2> QED
    BY <2>1 DEF Eligible, Orphans
<1>3. ids \subseteq Bead
  BY <1>2
<1>4. tick' = [tick EXCEPT !.rework = ids, !.found = <<>>] /\ tick.at = "recover"
  BY DEF RecoverTasks
<1> HIDE DEF ids
<1>5. TickOK' /\ UNCHANGED tick.queue
  BY <1>3, <1>4 DEF Typed, TickOK, TickType
<1>6. UNCHANGED <<beads, gate, slot, tip, pass, trouble>>
  BY DEF RecoverTasks
<1> QED
  BY <1>5, <1>6, StayTyped, ReadingStep

LEMMA QueryReadyTyped ==
  ASSUME Typed, QueryReady
  PROVE  Typed' /\ Harmless /\ UNCHANGED tick.queue
<1> PICK answer \in Answers([r \in Repo |-> Ready(r)], Broken) :
      /\ Paid(answer, Broken)
      /\ tick' = [tick EXCEPT !.at = "hold", !.found = answer]
  BY DEF QueryReady
<1>1. answer \in Reads
  BY SubsetsOfIn, ReadsTyped
<1>2. TickOK' /\ UNCHANGED tick.queue
  BY <1>1 DEF Typed, TickOK, TickType
<1>3. TroubleOK' /\ trouble' >= trouble
  BY PaidTyped DEF Typed
<1> QED
  BY <1>2, <1>3, ReadingStep DEF QueryReady

LEMMA HoldTyped ==
  ASSUME Typed, Hold
  PROVE  Typed' /\ Harmless /\ UNCHANGED tick.queue
<1> PICK answer \in Answers([r \in Repo |-> HoldWith(r)], Broken) :
      /\ Paid(answer, Broken)
      /\ tick' = [tick EXCEPT !.at = "merge", !.drift = <<>>, !.groups = Unheld(answer)]
  BY DEF Hold
<1>1. Unheld(answer) \in SUBSET Repo /\ tick.at = "hold"
  BY DEF Unheld, Hold
<1>2. TickOK' /\ UNCHANGED tick.queue
  BY <1>1 DEF Typed, TickOK, TickType
<1>3. TroubleOK' /\ trouble' >= trouble
  BY PaidTyped DEF Typed
<1> QED
  BY <1>2, <1>3, ReadingStep DEF Hold

LEMMA MergeTyped ==
  ASSUME Typed, Merge
  PROVE  Typed' /\ Harmless /\ Fair(tick'.queue)
<1> DEFINE ids == UNION {tick.found[r] : r \in {q \in tick.groups : tick.found[q] # None}}
<1>1. tick.found \in Reads /\ tick.groups \subseteq Repo
  BY DEF Typed, TickOK, TickType, Merge
<1>2. \A r \in Repo : tick.found[r] # None => tick.found[r] \subseteq Bead
  BY <1>1 DEF Reads
<1>3. ids \subseteq Bead
  BY <1>1, <1>2
<1>4. tick' = [tick EXCEPT !.at = "implement", !.groups = {}, !.queue = MergeReady(ids)]
  BY DEF Merge
<1> HIDE DEF ids
<1> DEFINE q == MergeReady(ids)
<1>5. q \in Seq(Bead) /\ Fair(q)
  BY <1>3, MergedIsFair
<1> HIDE DEF q
<1>6. tick' = [tick EXCEPT !.at = "implement", !.groups = {}, !.queue = q]
  BY <1>4 DEF q
<1>7. TickOK' /\ tick'.queue = q
  BY <1>5, <1>6 DEF Typed, TickOK, TickType
<1>8. UNCHANGED <<beads, gate, slot, tip, pass, trouble>>
  BY DEF Merge
<1> QED
  BY <1>5, <1>7, <1>8, StayTyped, ReadingStep

LEMMA ReworkTyped ==
  ASSUME Typed, NEW b \in Bead, Rework(b)
  PROVE  Typed' /\ Harmless /\ UNCHANGED tick.queue
<1>1. SlotsOK' /\ TroubleOK' /\ BeadsOK' /\ Harmless
  BY SpawnHarmless DEF Rework, Typed, gate, Role
<1>2. TickOK' /\ UNCHANGED tick.queue
  BY DEF Rework, Typed, TickOK, TickType
<1>3. GateOK' /\ TipOK' /\ PassOK'
  BY StayTyped DEF Rework
<1> QED
  BY <1>1, <1>2, <1>3 DEF Typed

LEMMA ImplementTyped ==
  ASSUME Typed, FairQueue, Implement
  PROVE  Typed' /\ Harmless /\ Fair(tick'.queue)
<1> DEFINE q == tick.queue
<1>1. q \in Seq(Bead) /\ q # <<>> /\ Fair(q)
  BY DEF Typed, TickOK, TickType, Implement, FairQueue
<1>2. Tail(q) \in Seq(Bead) /\ Fair(Tail(q)) /\ Head(q) \in Bead
  BY <1>1, TailIsFair
<1>3. Spawn(Head(q), "implementer", slot) /\ UNCHANGED <<plan, verdict, attempted>>
  BY DEF Implement, gate
<1>4. SlotsOK' /\ TroubleOK' /\ BeadsOK' /\ Harmless
  <2> HIDE DEF q
  <2> QED
    BY <1>2, <1>3, SpawnHarmless DEF Typed, Role
<1>5. tick' = [tick EXCEPT !.queue = Tail(q)] /\ tick.at = "implement"
  BY DEF Implement
<1>6. TickOK' /\ tick'.queue = Tail(q)
  <2> DEFINE t == Tail(q)
  <2>1. t \in Seq(Bead) /\ tick' = [tick EXCEPT !.queue = t]
    BY <1>2, <1>5
  <2> HIDE DEF t, q
  <2>2. TickOK' /\ tick'.queue = t
    BY <1>5, <2>1 DEF Typed, TickOK, TickType
  <2> QED
    BY <2>2 DEF t
<1>7. GateOK' /\ TipOK' /\ PassOK'
  BY StayTyped DEF Implement
<1> QED
  BY <1>2, <1>4, <1>6, <1>7 DEF Typed

-----------------------------------------------------------------------------
(* The passes.                                                             *)

LEMMA QueryEpicsTyped ==
  ASSUME Typed, QueryEpics
  PROVE  Typed' /\ Harmless /\ tick'.queue = <<>>
<1> DEFINE results == [r \in {q \in Repo : tick.found[q] # None} |-> OpenEpics(r)]
<1>1. PICK answer \in Answers(results, Broken) :
        /\ Paid(answer, Broken)
        /\ pass' = [r \in Repo |->
             IF r \notin DOMAIN answer THEN NoPass
             ELSE IF answer[r] \in {None, {}} THEN NoPass
             ELSE [NoPass EXCEPT !.at = "children", !.epics = answer[r]]]
  BY DEF QueryEpics
<1>2. \A r \in DOMAIN answer : answer[r] \in {None, OpenEpics(r)}
  BY AnswersAre
<1>3. \A r \in DOMAIN answer : answer[r] # None => answer[r] \in SUBSET Epic
  BY <1>2 DEF OpenEpics
<1>4. ASSUME NEW epics \in SUBSET Epic
      PROVE  [NoPass EXCEPT !.at = "children", !.epics = epics] \in PassType
  BY DEF NoPass, PassType
<1> HIDE DEF results
<1>5. PassOK'
  BY <1>1, <1>3, <1>4, EmptyIsSession DEF PassOK
<1>6. [NoTick EXCEPT !.at = "passes"] \in TickType
  BY EmptyIsSession DEF TickType
<1>7. TickOK' /\ tick'.queue = <<>>
  BY <1>6 DEF QueryEpics, TickOK, NoTick
<1>8. TroubleOK' /\ trouble' >= trouble
  BY <1>1, PaidTyped DEF Typed
<1>9. UNCHANGED <<beads, gate, slot, tip>>
  BY DEF QueryEpics
<1> QED
  BY <1>5, <1>7, <1>8, <1>9, StayTyped, IdleHarmless DEF Typed

LEMMA QueryChildrenTyped ==
  ASSUME Typed, NEW r \in Repo, QueryChildren(r)
  PROVE  Typed' /\ Harmless /\ UNCHANGED tick
<1> DEFINE results == [e \in pass[r].epics |-> EpicChildren(e)]
<1>1. PICK answer \in Answers(results, BrokenEpics) :
        /\ Paid(answer, BrokenEpics)
        /\ pass' = [pass EXCEPT ![r] =
             [at |-> "design", epics |-> {e \in DOMAIN answer : answer[e] = {}},
              open |-> {e \in DOMAIN answer : answer[e] \notin {None, {}}},
              whole |-> \A e \in DOMAIN answer : answer[e] # None]]
  BY DEF QueryChildren
<1>2. DOMAIN answer \subseteq Epic
  <2>1. DOMAIN answer = pass[r].epics
    BY AnswersAre
  <2> QED
    BY <2>1 DEF Typed, PassOK, PassType
<1> HIDE DEF results
<1>3. PassOK'
  BY <1>1, <1>2 DEF Typed, PassOK, PassType
<1>4. TroubleOK' /\ trouble' >= trouble
  BY <1>1, PaidTyped DEF Typed
<1>5. UNCHANGED <<beads, gate, slot, tip, tick>>
  BY DEF QueryChildren
<1> QED
  BY <1>3, <1>4, <1>5, StayTyped, IdleHarmless DEF Typed

LEMMA QueryOpenChildrenTyped ==
  ASSUME Typed, NEW r \in Repo, QueryOpenChildren(r)
  PROVE  Typed' /\ Harmless /\ UNCHANGED tick
<1> DEFINE results == [e \in pass[r].open |-> EpicOpenChildren(e)]
<1>1. PICK answer \in Answers(results, BrokenEpics) :
        /\ Paid(answer, BrokenEpics)
        /\ pass' = [pass EXCEPT ![r] =
             IF pass[r].whole /\ \A e \in DOMAIN answer : answer[e] # None
             THEN [NoPass EXCEPT !.at = "gate",
                     !.epics = {e \in DOMAIN answer : answer[e] = {}}]
             ELSE NoPass]
  BY DEF QueryOpenChildren
<1>2. DOMAIN answer \subseteq Epic
  <2>1. DOMAIN answer = pass[r].open
    BY AnswersAre
  <2> QED
    BY <2>1 DEF Typed, PassOK, PassType
<1> HIDE DEF results
<1> DEFINE epics == {e \in DOMAIN answer : answer[e] = {}}
<1>3. epics \in SUBSET Epic
  BY <1>2
<1> HIDE DEF epics
<1>4. [NoPass EXCEPT !.at = "gate", !.epics = epics] \in PassType /\ NoPass \in PassType
  BY <1>3 DEF NoPass, PassType
<1>5. PassOK'
  BY <1>1, <1>4 DEF Typed, PassOK, epics
<1>6. TroubleOK' /\ trouble' >= trouble
  BY <1>1, PaidTyped DEF Typed
<1>7. UNCHANGED <<beads, gate, slot, tip, tick>>
  BY DEF QueryOpenChildren
<1> QED
  BY <1>5, <1>6, <1>7, StayTyped, IdleHarmless DEF Typed

LEMMA DecomposeEpicTyped ==
  ASSUME Typed, NEW r \in Repo, NEW e \in Epic, DecomposeEpic(r, e)
  PROVE  Typed' /\ Harmless /\ UNCHANGED tick
<1>1. e \in Bead
  BY TasksAssumption
<1>2. SlotsOK' /\ TroubleOK' /\ BeadsOK' /\ Harmless
  BY <1>1, SpawnHarmless DEF DecomposeEpic, Typed, gate, Role
<1>3. PassOK'
  BY DEF DecomposeEpic, Typed, PassOK, PassType
<1>4. GateOK' /\ TipOK' /\ TickOK' /\ UNCHANGED tick
  BY StayTyped DEF DecomposeEpic
<1> QED
  BY <1>2, <1>3, <1>4 DEF Typed

LEMMA DueTyped ==
  ASSUME Typed, NEW e \in Epic, Due(e) \/ NotDue(e)
  PROVE  /\ exhausted' \in SUBSET Epic
         /\ seen' \in [Epic -> (SUBSET Bead) \cup {None}]
<1>1. {tip[RepoOf[e]]} \ {None} \in SUBSET Bead
  BY TasksAssumption DEF Typed, TipOK
<1> QED
  BY <1>1 DEF Due, NotDue, NoteEpicLand, Typed, GateOK

LEMMA GateEpicTyped ==
  ASSUME Typed, NEW r \in Repo, NEW e \in Epic, GateEpic(r, e)
  PROVE  Typed' /\ Harmless /\ UNCHANGED tick
<1>1. TroubleOK' /\ trouble' >= trouble
  BY TroubleTyped DEF Typed, GateEpic, TroubleOK
<1>2. GateOK'
  <2>1. Due(e) \/ NotDue(e) \/ UNCHANGED <<exhausted, seen>>
    BY DEF GateEpic
  <2>2. exhausted' \in SUBSET Epic /\ seen' \in [Epic -> (SUBSET Bead) \cup {None}]
    BY <2>1, DueTyped DEF Typed, GateOK
  <2> QED
    BY <2>2 DEF GateEpic, Typed, GateOK
<1>3. PassOK'
  BY DEF GateEpic, Typed, PassOK, PassType
<1>4. UNCHANGED <<beads, slot, tip, tick, attempted>>
  BY DEF GateEpic
<1>5. Harmless
  BY <1>1, <1>4, SlotsFollow DEF Harmless, beads
<1> QED
  BY <1>1, <1>2, <1>3, <1>4, <1>5, StayTyped DEF Typed

LEMMA EndPassTyped ==
  ASSUME Typed, NEW r \in Repo, EndPass(r)
  PROVE  Typed' /\ Harmless /\ UNCHANGED tick
<1>1. PassOK'
  BY EmptyIsSession DEF EndPass, Typed, PassOK
<1>2. UNCHANGED <<beads, gate, slot, tip, tick, trouble>>
  BY DEF EndPass
<1> QED
  BY <1>1, <1>2, StayTyped, IdleHarmless DEF Typed

LEMMA TickingTyped ==
  ASSUME Typed, FairQueue, Ticking
  PROVE  Typed' /\ Harmless /\ FairQueue'
<1>1. CASE Tick \/ EndTick \/ QueryEpics
  BY <1>1, TickTyped, QueryEpicsTyped, EmptyIsFair DEF FairQueue
<1>2. CASE QueryDrift \/ QueryProgress \/ RecoverTasks \/ QueryReady \/ Hold
           \/ \E b \in Bead : Rework(b)
  BY <1>2, QueryDriftTyped, QueryProgressTyped, RecoverTasksTyped, QueryReadyTyped, HoldTyped,
     ReworkTyped DEF FairQueue
<1>3. CASE Merge \/ Implement
  BY <1>3, MergeTyped, ImplementTyped DEF FairQueue
<1>4. CASE \/ \E r \in Repo : QueryChildren(r) \/ QueryOpenChildren(r) \/ EndPass(r)
           \/ \E r \in Repo, e \in Epic : DecomposeEpic(r, e) \/ GateEpic(r, e)
  BY <1>4, QueryChildrenTyped, QueryOpenChildrenTyped, EndPassTyped, DecomposeEpicTyped,
     GateEpicTyped DEF FairQueue
<1> QED
  BY <1>1, <1>2, <1>3, <1>4 DEF Ticking

-----------------------------------------------------------------------------
(* Completions.                                                            *)

At(x, at) == [x EXCEPT !.at = at]
Quiet == Stage \ {"note", "review", "fail", "land", "plan"}

LEMMA AtTyped ==
  ASSUME SlotsOK, NEW s \in Slot, NEW at \in Stage, Duty(At(slot[s], at))
  PROVE  /\ At(slot[s], at) \in SessionType
         /\ At(slot[s], at).at = at /\ At(slot[s], at).task = slot[s].task
         /\ At(slot[s], at).role = slot[s].role
  BY DEF SlotsOK, SessionType, At

LEMMA StepTyped ==
  ASSUME SlotsOK, NEW s \in Slot, NEW at \in Stage, Duty(At(slot[s], at)), Step(s, at)
  PROVE  /\ SlotsOK' /\ slot' = [slot EXCEPT ![s] = At(slot[s], at)]
         /\ slot'[s].at = at /\ slot'[s].task = slot[s].task /\ slot'[s].role = slot[s].role
         /\ Follows(slot[s], At(slot[s], at)) => \A t \in Slot : Follows(slot[t], slot'[t])
<1>1. slot' = [slot EXCEPT ![s] = At(slot[s], at)]
  BY DEF Step, At
<1>2. At(slot[s], at) \in SessionType
  BY AtTyped
<1>3. SlotsOK'
  BY <1>1, <1>2 DEF SlotsOK
<1>4. slot'[s] = At(slot[s], at)
  BY <1>1 DEF SlotsOK
<1>5. \A t \in Slot : t # s => slot'[t] = slot[t]
  BY <1>1 DEF SlotsOK
<1> QED
  BY <1>1, <1>3, <1>4, <1>5, AtTyped, SlotsFollow

LEMMA QuietStep ==
  ASSUME SlotsOK, NEW s \in Slot, NEW at \in Quiet, Duty(At(slot[s], at)), Step(s, at)
  PROVE  SlotsOK' /\ \A t \in Slot : Follows(slot[t], slot'[t])
<1>1. at \in Stage /\ At(slot[s], at).at \notin {"note", "review", "fail", "land", "plan"}
  BY AtTyped DEF Quiet
<1> QED
  BY <1>1, StepTyped, NothingFollows

LEMMA FinishTyped ==
  ASSUME SlotsOK, NEW s \in Slot, slot' = Without(s)
  PROVE  SlotsOK' /\ \A t \in Slot : Follows(slot[t], slot'[t])
<1>1. Empty \in SessionType /\ Follows(slot[s], Empty)
  BY EmptyIsSession, NothingFollows DEF Empty
<1> QED
  BY <1>1, SlotsFollow DEF Without, SlotsOK

LEMMA FinishIsWithout == \A s : Finish(s) <=> slot' = Without(s)
  BY DEF Finish, Without

(* A completion that leaves plans, verdicts and the budget alone.          *)
LEMMA CompletingStep ==
  ASSUME Typed, SlotsOK', TroubleOK', trouble' >= trouble, bead' \in [Bead -> Status],
         \A b \in Bead : bead[b] # "absent" => bead'[b] # "absent",
         \A t \in Slot : Follows(slot[t], slot'[t]),
         UNCHANGED <<plan, verdict, attempted, tick, pass>>,
         TipOK', tracked' \in [Slot -> Epic \cup {None}], exhausted' \in SUBSET Epic,
         seen' \in [Epic -> (SUBSET Bead) \cup {None}]
  PROVE  Typed' /\ Harmless
<1>1. BeadsOK' /\ GateOK' /\ TickOK' /\ PassOK'
  BY DEF Typed, BeadsOK, GateOK, TickOK, PassOK
<1> QED
  BY <1>1 DEF Typed, Harmless

LEMMA StatusSet ==
  ASSUME BeadsOK, NEW b, NEW status \in Status \ {"absent"},
         bead' = [bead EXCEPT ![b] = status]
  PROVE  /\ bead' \in [Bead -> Status]
         /\ \A a \in Bead : bead[a] # "absent" => bead'[a] # "absent"
  BY DEF BeadsOK

LEMMA Released ==
  ASSUME BeadsOK, NEW b, Release(b)
  PROVE  /\ bead' \in [Bead -> Status]
         /\ \A a \in Bead : bead[a] # "absent" => bead'[a] # "absent"
<1>1. "open" \in Status \ {"absent"}
  BY DEF Status
<1> QED
  BY <1>1, StatusSet DEF Release

LEMMA DispatchTyped ==
  ASSUME Typed, NEW b \in Bead, Dispatch(b)
  PROVE  Typed' /\ Harmless /\ UNCHANGED tick
<1>1. Spawn(b, "implementer", slot) /\ UNCHANGED <<plan, verdict, attempted>>
  BY DEF Dispatch, Spawn, gate
<1>2. SlotsOK' /\ TroubleOK' /\ BeadsOK' /\ Harmless
  BY <1>1, SpawnHarmless DEF Typed, Role
<1>3. GateOK' /\ TipOK' /\ TickOK' /\ PassOK'
  BY StayTyped DEF Dispatch
<1> QED
  BY <1>2, <1>3 DEF Typed, Dispatch

LEMMA LandTyped ==
  ASSUME Typed, NEW s \in Slot, Land(s)
  PROVE  Typed' /\ Harmless /\ UNCHANGED tick
<1>1. /\ SlotsOK /\ BeadsOK /\ slot[s] \in SessionType /\ slot[s].at = "land"
      /\ Task(s) = slot[s].task /\ Task(s) \in Bead
  BY DEF Typed, SlotsOK, SessionType, Duty, Land, Task
<1>2. UNCHANGED <<plan, verdict, tracked, attempted, exhausted, tick, pass>>
  BY DEF Land
<1>3. /\ TroubleOK' /\ trouble' >= trouble
      /\ tracked' \in [Slot -> Epic \cup {None}] /\ exhausted' \in SUBSET Epic
  BY <1>2, TroubleTyped DEF Typed, Land, TroubleOK, GateOK
<1>4. CASE slot[s].role # "designer" /\ Landed(Task(s)) /\ Step(s, "close") /\ UNCHANGED bead
  <2>1. Duty(At(slot[s], "close")) /\ "close" \in Quiet
    BY <1>1 DEF Duty, At, SessionType, Quiet, Stage
  <2>2. TipOK' /\ seen' \in [Epic -> (SUBSET Bead) \cup {None}]
    BY <1>1, <1>4, TasksAssumption DEF Landed, Typed, TipOK, GateOK
  <2>3. SlotsOK' /\ \A t \in Slot : Follows(slot[t], slot'[t])
    BY <1>1, <1>4, <2>1, QuietStep
  <2> QED
    BY <1>1, <1>2, <1>3, <1>4, <2>2, <2>3, CompletingStep DEF BeadsOK
<1>5. CASE slot[s].role = "designer" /\ Step(s, "plan") /\ UNCHANGED <<tip, seen, bead>>
  <2>1. Duty(At(slot[s], "plan")) /\ "plan" \in Stage
    BY <1>1, <1>5 DEF Duty, At, SessionType, Stage
  <2>2. Follows(slot[s], At(slot[s], "plan"))
    BY <1>1, <1>5, <2>1, AtTyped DEF Follows, Charged, Designing
  <2>3. SlotsOK' /\ \A t \in Slot : Follows(slot[t], slot'[t])
    BY <1>1, <1>5, <2>1, <2>2, StepTyped
  <2>4. TipOK' /\ seen' \in [Epic -> (SUBSET Bead) \cup {None}]
    BY <1>5 DEF Typed, TipOK, GateOK
  <2> QED
    BY <1>1, <1>2, <1>3, <1>5, <2>3, <2>4, CompletingStep DEF BeadsOK
<1>6. CASE Finish(s) /\ Release(Task(s)) /\ UNCHANGED <<tip, seen>>
  <2>1. SlotsOK' /\ \A t \in Slot : Follows(slot[t], slot'[t])
    BY <1>1, <1>6, FinishIsWithout, FinishTyped
  <2>2. /\ bead' \in [Bead -> Status]
        /\ \A a \in Bead : bead[a] # "absent" => bead'[a] # "absent"
    BY <1>1, <1>6, Released
  <2>3. TipOK' /\ seen' \in [Epic -> (SUBSET Bead) \cup {None}]
    BY <1>6 DEF Typed, TipOK, GateOK
  <2> QED
    BY <1>2, <1>3, <2>1, <2>2, <2>3, CompletingStep
<1> QED
  BY <1>2, <1>4, <1>5, <1>6 DEF Land

LEMMA CloseTyped ==
  ASSUME Typed, NEW s \in Slot, Close(s)
  PROVE  Typed' /\ Harmless /\ UNCHANGED tick
<1>1. /\ SlotsOK /\ BeadsOK /\ slot[s] \in SessionType /\ slot[s].at = "close"
  BY DEF Typed, SlotsOK, Close
<1>2. UNCHANGED <<plan, verdict, gate, tip, tick, pass>>
  BY DEF Close
<1>3. /\ TroubleOK' /\ trouble' >= trouble
      /\ tracked' \in [Slot -> Epic \cup {None}] /\ exhausted' \in SUBSET Epic
      /\ TipOK' /\ seen' \in [Epic -> (SUBSET Bead) \cup {None}] /\ UNCHANGED attempted
  BY <1>2, TroubleTyped DEF Typed, Close, TroubleOK, GateOK, TipOK, gate
<1>4. CASE bead' = [bead EXCEPT ![Task(s)] = "closed"] /\ Step(s, "due")
  <2>1. Duty(At(slot[s], "due")) /\ "due" \in Quiet /\ "closed" \in Status \ {"absent"}
    BY <1>1 DEF Duty, At, SessionType, Quiet, Stage, Status
  <2>2. SlotsOK' /\ \A t \in Slot : Follows(slot[t], slot'[t])
    BY <1>1, <1>4, <2>1, QuietStep
  <2>3. /\ bead' \in [Bead -> Status]
        /\ \A a \in Bead : bead[a] # "absent" => bead'[a] # "absent"
    BY <1>1, <1>4, <2>1, StatusSet
  <2> QED
    BY <1>2, <1>3, <2>2, <2>3, CompletingStep
<1>5. CASE Finish(s) /\ Release(Task(s))
  <2>1. SlotsOK' /\ \A t \in Slot : Follows(slot[t], slot'[t])
    BY <1>1, <1>5, FinishIsWithout, FinishTyped
  <2>2. /\ bead' \in [Bead -> Status]
        /\ \A a \in Bead : bead[a] # "absent" => bead'[a] # "absent"
    BY <1>1, <1>5, Released
  <2> QED
    BY <1>2, <1>3, <2>1, <2>2, CompletingStep
<1> QED
  BY <1>2, <1>4, <1>5 DEF Close

LEMMA CreateFixTyped ==
  ASSUME BeadsOK, NEW e, NEW fixes, CreateFix(e, fixes)
  PROVE  /\ bead' \in [Bead -> Status]
         /\ \A a \in Bead : bead[a] # "absent" => bead'[a] # "absent"
  BY DEF CreateFix, BeadsOK, Status

LEMMA DueEpicTyped ==
  ASSUME Typed, NEW s \in Slot, DueEpic(s)
  PROVE  Typed' /\ Harmless /\ UNCHANGED tick
<1>1. /\ SlotsOK /\ BeadsOK /\ slot[s] \in SessionType /\ slot[s].at = "due"
      /\ Task(s) = slot[s].task /\ Task(s) \in Bead
  BY DEF Typed, SlotsOK, SessionType, Duty, DueEpic, Task
<1>2. UNCHANGED <<beads, gate, tip, tick, pass>>
  BY DEF DueEpic
<1>3. /\ TroubleOK' /\ trouble' >= trouble
      /\ tracked' \in [Slot -> Epic \cup {None}] /\ exhausted' \in SUBSET Epic
      /\ TipOK' /\ seen' \in [Epic -> (SUBSET Bead) \cup {None}] /\ UNCHANGED attempted
      /\ UNCHANGED <<bead, plan, verdict>> /\ bead' \in [Bead -> Status]
  BY <1>2, TroubleTyped DEF Typed, DueEpic, TroubleOK, GateOK, TipOK, gate, beads, BeadsOK
<1>4. SlotsOK' /\ \A t \in Slot : Follows(slot[t], slot'[t])
  <2>1. CASE Parent[Task(s)] # None /\ Step(s, "budget")
    <3>1. Parent[slot[s].task] \in Epic
      BY <1>1, <2>1, TasksAssumption
    <3>2. Duty(At(slot[s], "budget")) /\ "budget" \in Quiet
      BY <1>1, <3>1 DEF Duty, At, SessionType, Quiet, Stage
    <3> QED
      BY <1>1, <2>1, <3>2, QuietStep
  <2>2. CASE Finish(s)
    BY <1>1, <2>2, FinishIsWithout, FinishTyped
  <2> QED
    BY <2>1, <2>2 DEF DueEpic
<1> QED
  BY <1>2, <1>3, <1>4, CompletingStep

LEMMA ReviewTyped ==
  ASSUME Typed, NEW s \in Slot, Review(s)
  PROVE  Typed' /\ Harmless /\ UNCHANGED tick
<1> DEFINE e == Parent[Task(s)]
           x == [slot[s] EXCEPT !.at = "note", !.task = e, !.next = Handle]
           others == [slot EXCEPT ![s] = x]
<1>1. /\ SlotsOK /\ BeadsOK /\ TroubleOK /\ slot[s] \in SessionType /\ slot[s].at = "review"
      /\ e \in Epic /\ e \in Bead /\ e = Parent[slot[s].task]
  BY TasksAssumption DEF Typed, SlotsOK, SessionType, Duty, Review, Task
<1>2. UNCHANGED <<plan, verdict, gate, tip, tick, pass>>
  BY DEF Review
<1>3. /\ SlotsOK' /\ TroubleOK' /\ bead' \in [Bead -> Status] /\ trouble' >= trouble
      /\ \A a \in Bead : bead[a] # "absent" => bead'[a] # "absent"
      /\ \A t \in Slot : Follows(slot[t], slot'[t])
  <2>1. CASE Spawned(e, "reviewer", others)
    <3>1. Handle \in Slot
      BY <2>1, HandleIsFree DEF Spawned, Admissible
    <3>2. x \in SessionType /\ x.at = "note" /\ x.task = e
      BY <1>1, <3>1 DEF SessionType, Duty, Stage
    <3> HIDE DEF x
    <3>3. Follows(slot[s], x)
      BY <1>1, <3>2 DEF Follows, Charged, Designing
    <3>4. others \in [Slot -> SessionType] /\ \A t \in Slot : Follows(slot[t], others[t])
      BY <1>1, <3>2, <3>3, SlotsFollow DEF SlotsOK
    <3> HIDE DEF others, e
    <3> QED
      BY <1>1, <2>1, <3>4, SpawnTyped DEF Role
  <2>2. CASE Refused(e, "reviewer", Without(s))
    <3>1. Empty \in SessionType /\ Follows(slot[s], Empty)
      BY EmptyIsSession, NothingFollows DEF Empty
    <3>2. Without(s) \in [Slot -> SessionType] /\ \A t \in Slot : Follows(slot[t], Without(s)[t])
      BY <1>1, <3>1, SlotsFollow DEF Without, SlotsOK
    <3> HIDE DEF others, e
    <3> QED
      BY <1>1, <2>2, <3>2, SpawnTyped DEF Role
  <2>3. Spawned(e, "reviewer", others) \/ Refused(e, "reviewer", Without(s))
    BY DEF Review
  <2> QED
    BY <2>1, <2>2, <2>3
<1>4. /\ tracked' \in [Slot -> Epic \cup {None}] /\ exhausted' \in SUBSET Epic
      /\ TipOK' /\ seen' \in [Epic -> (SUBSET Bead) \cup {None}] /\ UNCHANGED attempted
  BY <1>2 DEF Typed, GateOK, TipOK, gate
<1> QED
  BY <1>2, <1>3, <1>4, CompletingStep

(* What is known of the session that completes.                            *)
LEMMA SessionOf ==
  ASSUME Typed, NEW s \in Slot
  PROVE  /\ SlotsOK /\ BeadsOK /\ TroubleOK /\ slot[s] \in SessionType /\ Duty(slot[s])
         /\ Task(s) = slot[s].task /\ slot[s].at \in Stage
  BY DEF Typed, SlotsOK, SessionType, Task

LEMMA GateStays ==
  ASSUME Typed
  PROVE  /\ UNCHANGED tracked => tracked' \in [Slot -> Epic \cup {None}]
         /\ UNCHANGED exhausted => exhausted' \in SUBSET Epic
         /\ UNCHANGED seen => seen' \in [Epic -> (SUBSET Bead) \cup {None}]
         /\ UNCHANGED tip => TipOK'
         /\ Fine \/ Fault \/ UNCHANGED trouble => TroubleOK' /\ trouble' >= trouble
         /\ UNCHANGED bead =>
              /\ bead' \in [Bead -> Status]
              /\ \A b \in Bead : bead[b] # "absent" => bead'[b] # "absent"
  BY TroubleTyped DEF Typed, GateOK, TipOK, TroubleOK, BeadsOK

LEMMA DropTyped ==
  ASSUME Typed, NEW s \in Slot, Drop(s)
  PROVE  tracked' \in [Slot -> Epic \cup {None}]
  BY DEF Drop, Typed, GateOK

LEMMA CompleteReviewTyped ==
  ASSUME Typed, NEW s \in Slot, CompleteReview(s)
  PROVE  Typed' /\ Harmless /\ UNCHANGED tick
<1>1. /\ SlotsOK /\ slot[s] \in SessionType /\ Duty(slot[s]) /\ slot[s].at = "verdict"
  BY SessionOf DEF CompleteReview
<1>2. /\ tracked' \in [Slot -> Epic \cup {None}]
      /\ UNCHANGED <<bead, plan, verdict, attempted, exhausted, seen, tip, tick, pass, trouble>>
  BY DropTyped DEF CompleteReview, beads
<1>3. SlotsOK' /\ \A t \in Slot : Follows(slot[t], slot'[t])
  <2>1. CASE Finish(s)
    BY <1>1, <2>1, FinishIsWithout, FinishTyped
  <2>2. ASSUME NEW kind \in {"approve", "drift"}, Step(s, kind)
        PROVE  SlotsOK' /\ \A t \in Slot : Follows(slot[t], slot'[t])
    <3>1. Duty(At(slot[s], kind)) /\ kind \in Quiet
      BY <1>1 DEF Duty, At, SessionType, Quiet, Stage
    <3> QED
      BY <1>1, <2>2, <3>1, QuietStep
  <2> QED
    BY <2>1, <2>2 DEF CompleteReview, Verdicts
<1> QED
  BY <1>2, <1>3, GateStays, CompletingStep

LEMMA ApproveTyped ==
  ASSUME Typed, NEW s \in Slot, Approve(s)
  PROVE  Typed' /\ Harmless /\ UNCHANGED tick
<1>1. /\ SlotsOK /\ BeadsOK /\ slot[s] \in SessionType /\ Duty(slot[s]) /\ slot[s].at = "approve"
  BY SessionOf DEF Approve
<1>2. UNCHANGED <<plan, verdict, attempted, tracked, exhausted, seen, tip, tick, pass>>
  BY DEF Approve, gate
<1>3. /\ TroubleOK' /\ trouble' >= trouble /\ bead' \in [Bead -> Status]
      /\ \A b \in Bead : bead[b] # "absent" => bead'[b] # "absent"
  <2>1. "closed" \in Status \ {"absent"}
    BY DEF Status
  <2> QED
    BY <1>1, <2>1, StatusSet, GateStays DEF Approve
<1>4. SlotsOK' /\ \A t \in Slot : Follows(slot[t], slot'[t])
  <2>1. CASE Finish(s)
    BY <1>1, <2>1, FinishIsWithout, FinishTyped
  <2>2. CASE Step(s, "clear")
    <3>1. Duty(At(slot[s], "clear")) /\ "clear" \in Quiet
      BY <1>1 DEF Duty, At, SessionType, Quiet, Stage
    <3> QED
      BY <1>1, <2>2, <3>1, QuietStep
  <2> QED
    BY <2>1, <2>2 DEF Approve
<1> QED
  BY <1>2, <1>3, <1>4, GateStays, CompletingStep

LEMMA CreateDriftFixTyped ==
  ASSUME Typed, NEW s \in Slot, CreateDriftFix(s)
  PROVE  Typed' /\ Harmless /\ UNCHANGED tick
<1>1. UNCHANGED <<plan, verdict, attempted, tracked, exhausted, seen, tip, tick, pass>>
  BY DEF CreateDriftFix, gate
<1>2. /\ TroubleOK' /\ trouble' >= trouble /\ bead' \in [Bead -> Status]
      /\ \A b \in Bead : bead[b] # "absent" => bead'[b] # "absent"
  BY CreateFixTyped, GateStays, SessionOf DEF CreateDriftFix
<1>3. SlotsOK' /\ \A t \in Slot : Follows(slot[t], slot'[t])
  BY SessionOf, FinishIsWithout, FinishTyped DEF CreateDriftFix
<1> QED
  BY <1>1, <1>2, <1>3, GateStays, CompletingStep

LEMMA FallbackRetryTyped ==
  ASSUME Typed, NEW s \in Slot, FallbackRetry(s)
  PROVE  Typed' /\ Harmless /\ UNCHANGED tick
<1> DEFINE again == [Session(Task(s), slot[s].role) EXCEPT !.tried = TRUE]
           x == [slot[s] EXCEPT !.at = "note", !.next = Handle]
<1>1. /\ SlotsOK /\ slot[s] \in SessionType /\ Duty(slot[s]) /\ slot[s].at = "fail"
      /\ Task(s) = slot[s].task
  BY SessionOf DEF FallbackRetry
<1>2. UNCHANGED <<bead, plan, verdict, attempted, tracked, exhausted, seen, tip, tick, pass, trouble>>
  BY DEF FallbackRetry, gate, beads
<1>3. Handle \in Slot /\ slot[Handle].at = "free" /\ Handle # s
  BY <1>1, HandleIsFree DEF FallbackRetry
<1>4. again \in SessionType /\ again.at = "working"
  <2>1. slot[s].task \in Bead /\ slot[s].role \in Role
        /\ (slot[s].role \in {"designer", "reviewer"} => slot[s].task \in Epic)
    BY <1>1 DEF Duty, SessionType
  <2> QED
    BY <1>1, <2>1, SessionTyped
<1>5. \/ /\ slot[s].role = "reviewer"
         /\ slot' = [slot EXCEPT ![Handle] = again, ![s] = x]
      \/ slot' = [Without(s) EXCEPT ![Handle] = again]
  BY <1>3 DEF FallbackRetry
<1> HIDE DEF again
<1>6. Follows(slot[Handle], again)
  BY <1>4, NothingFollows
<1>7. SlotsOK' /\ \A t \in Slot : Follows(slot[t], slot'[t])
  <2>1. CASE slot[s].role = "reviewer" /\ slot' = [slot EXCEPT ![Handle] = again, ![s] = x]
    <3>1. x \in SessionType /\ x.at = "note" /\ x.task = slot[s].task
      BY <1>1, <1>3, <2>1 DEF SessionType, Duty, Stage
    <3> HIDE DEF x
    <3>2. Follows(slot[s], x)
      BY <1>1, <2>1, <3>1 DEF Follows, Charged, Designing
    <3>3. SlotsOK'
      BY <1>1, <1>3, <1>4, <2>1, <3>1 DEF SlotsOK
    <3>4. /\ slot'[s] = x /\ slot'[Handle] = again
          /\ \A t \in Slot : t \notin {s, Handle} => slot'[t] = slot[t]
      BY <1>1, <1>3, <2>1 DEF SlotsOK
    <3> QED
      BY <1>6, <3>2, <3>3, <3>4, SlotsFollow
  <2>2. CASE slot' = [Without(s) EXCEPT ![Handle] = again]
    <3>1. Empty \in SessionType /\ Follows(slot[s], Empty)
      BY EmptyIsSession, NothingFollows DEF Empty
    <3>2. Without(s) = [slot EXCEPT ![s] = Empty] /\ Without(s) \in [Slot -> SessionType]
      BY <1>1, <3>1 DEF Without, SlotsOK
    <3>3. SlotsOK'
      BY <1>4, <2>2, <3>2 DEF SlotsOK
    <3>4. /\ slot'[s] = Empty /\ slot'[Handle] = again
          /\ \A t \in Slot : t \notin {s, Handle} => slot'[t] = slot[t]
      BY <1>1, <1>3, <2>2, <3>2 DEF SlotsOK
    <3> QED
      BY <1>6, <3>1, <3>3, <3>4, SlotsFollow
  <2> QED
    BY <1>5, <2>1, <2>2
<1> QED
  BY <1>2, <1>7, GateStays, CompletingStep

LEMMA FailTyped ==
  ASSUME Typed, NEW s \in Slot, Fail(s)
  PROVE  Typed' /\ Harmless /\ UNCHANGED tick
<1>1. UNCHANGED <<plan, verdict, attempted, exhausted, seen, tip, tick, pass, trouble>>
  BY DEF Fail
<1>2. /\ tracked' \in [Slot -> Epic \cup {None}] /\ bead' \in [Bead -> Status]
      /\ \A b \in Bead : bead[b] # "absent" => bead'[b] # "absent"
  BY DropTyped, Released, GateStays, SessionOf DEF Fail
<1>3. SlotsOK' /\ \A t \in Slot : Follows(slot[t], slot'[t])
  BY SessionOf, FinishIsWithout, FinishTyped DEF Fail
<1> QED
  BY <1>1, <1>2, <1>3, GateStays, CompletingStep

-----------------------------------------------------------------------------
(* The plans: what a designer filed stays, and its children stay filed, so *)
(* that a verdict is about the plan that the beads follow.                 *)

Filed(e) ==
  plan[e] # None =>
    plan[e] \in PlansOf(e) /\ \A b \in DOMAIN plan[e] : bead[b] # "absent"
Complete(s) == Designing(slot[s]) => plan[slot[s].task] # None
Passed(e) == verdict[e] = "pass" => plan[e] # None /\ Workable(plan[e])

PlansKept ==
  /\ \A e \in Epic : Filed(e)
  /\ \A s \in Slot : Complete(s)
  /\ \A e \in Epic : Passed(e)

LEMMA KeptAlong ==
  ASSUME Typed, PlansKept,
         \A e \in Epic : plan[e] # None => plan'[e] = plan[e],
         \A e \in Epic : plan[e] = None /\ plan'[e] # None =>
           plan'[e] \in PlansOf(e) /\ \A b \in DOMAIN plan'[e] : bead'[b] # "absent",
         \A b \in Bead : bead[b] # "absent" => bead'[b] # "absent",
         \A s \in Slot : Designing(slot'[s]) =>
           \/ Designing(slot[s]) /\ slot[s].task = slot'[s].task
           \/ plan'[slot'[s].task] # None,
         \A e \in Epic : verdict'[e] = "pass" =>
           verdict[e] = "pass" \/ (plan[e] # None /\ Workable(plan[e]))
  PROVE  PlansKept'
<1>1. ASSUME NEW e \in Epic PROVE Filed(e)'
  <2>1. CASE plan[e] = None
    BY <2>1 DEF Filed
  <2>2. CASE plan[e] # None
    <3>1. plan'[e] = plan[e] /\ Filed(e)
      BY <2>2 DEF PlansKept
    <3>2. plan[e] \in PlansOf(e) /\ \A b \in DOMAIN plan[e] : b \in Bead /\ bead[b] # "absent"
      BY <2>2, <3>1, TasksAssumption DEF Filed, PlansOf
    <3> QED
      BY <3>1, <3>2 DEF Filed
  <2> QED
    BY <2>1, <2>2
<1>2. ASSUME NEW s \in Slot, Designing(slot'[s]) PROVE plan'[slot'[s].task] # None
  <2>1. CASE Designing(slot[s]) /\ slot[s].task = slot'[s].task
    <3>1. slot[s].task \in Epic
      BY <2>1, SessionOf DEF Designing, Duty
    <3>2. plan[slot[s].task] # None
      BY <2>1 DEF PlansKept, Complete
    <3> QED
      BY <2>1, <3>1, <3>2
  <2> QED
    BY <1>2, <2>1
<1>3. ASSUME NEW e \in Epic PROVE Passed(e)'
  <2>1. CASE verdict'[e] = "pass"
    <3>1. plan[e] # None /\ Workable(plan[e])
      BY <2>1 DEF PlansKept, Passed
    <3>2. plan'[e] = plan[e]
      BY <3>1
    <3> QED
      BY <3>1, <3>2 DEF Passed
  <2> QED
    BY <2>1 DEF Passed
<1> QED
  BY <1>1, <1>2, <1>3 DEF PlansKept, Complete

LEMMA HarmlessKeepsPlans ==
  ASSUME Typed, PlansKept, Harmless
  PROVE  PlansKept'
<1>1. plan' = plan /\ verdict' = verdict
  BY DEF Harmless
<1>2. \A s \in Slot : Designing(slot'[s]) => Designing(slot[s]) /\ slot[s].task = slot'[s].task
  BY DEF Harmless, Follows
<1>3. \A b \in Bead : bead[b] # "absent" => bead'[b] # "absent"
  BY DEF Harmless
<1> QED
  BY <1>1, <1>2, <1>3, KeptAlong

(* A step that leaves plans and beads alone, and puts no designer's        *)
(* session before its verdict.                                             *)
LEMMA KeptAtRest ==
  ASSUME Typed, PlansKept, UNCHANGED <<bead, plan, verdict>>,
         \A s \in Slot : Designing(slot'[s]) => Designing(slot[s]) /\ slot[s].task = slot'[s].task
  PROVE  PlansKept'
  BY KeptAlong

(* The rules, as the gate applies them to the children there are: one that *)
(* the plan does not know breaks a rule of its own.                        *)
LEMMA CheckPassed ==
  ASSUME Typed, NEW e \in Epic, Filed(e), plan[e] # None, Check(DecompChildren(e)) = {}
  PROVE  Workable(plan[e])
<1> DEFINE p == plan[e]
           q == DecompChildren(e)
<1>1. /\ p \in Plans /\ DOMAIN p \subseteq Children(e) /\ IsFiniteSet(DOMAIN p)
      /\ p = [c \in DOMAIN p |-> p[c]]
  <2>1. /\ p \in Plans /\ \A b \in DOMAIN p : Parent[b] = e /\ bead[b] # "absent"
    BY DEF Filed, PlansOf
  <2>2. DOMAIN p \subseteq Bead /\ p \in [DOMAIN p -> Planned] /\ IsFiniteSet(Bead)
    BY <2>1, TasksAssumption
  <2>3. IsFiniteSet(DOMAIN p)
    BY <2>2, FS_Subset
  <2>4. p = [c \in DOMAIN p |-> p[c]]
    BY <2>2
  <2> HIDE DEF p
  <2> QED
    BY <2>1, <2>2, <2>3, <2>4 DEF Children
<1>2. /\ DOMAIN q = Children(e)
      /\ \A c \in Children(e) : q[c] = IF c \in DOMAIN p THEN p[c] ELSE Unsound
  BY DEF DecompChildren
<1> HIDE DEF p, q
<1>3. CASE DOMAIN p = {}
  BY <1>3 DEF Workable, p
<1>4. CASE DOMAIN p # {}
  <2>1. DOMAIN q # {}
    BY <1>1, <1>2, <1>4
  <2>2. CheckGraph(q) = {} /\ UNION {CheckChild(q, c) : c \in DOMAIN q} = {}
    BY <2>1 DEF Check, q
  <2>3. \A c \in DOMAIN q : q[c].sound
    BY <2>2 DEF CheckChild
  <2>4. DOMAIN q \subseteq DOMAIN p
    BY <1>2, <2>3 DEF Unsound
  <2>5. q = p
    <3>1. DOMAIN q = DOMAIN p /\ \A c \in DOMAIN p : q[c] = p[c]
      BY <1>1, <1>2, <2>4
    <3>2. q = [c \in Children(e) |-> q[c]]
      BY DEF q, DecompChildren
    <3> QED
      BY <1>1, <1>2, <3>1, <3>2
  <2>6. /\ \A c \in DOMAIN p : ~InCycle(p, c)
        /\ \A c \in DOMAIN p : p[c].consumes \subseteq AncestorProvides(p, c)
    <3>1. CheckGraph(p) = {}
      BY <2>2, <2>5
    <3> DEFINE cyclic == {c \in DOMAIN p : InCycle(p, c)}
               unprovided == {c \in DOMAIN p : ~(p[c].consumes \subseteq AncestorProvides(p, c))}
    <3>2. unprovided = {}
      BY <3>1 DEF CheckGraph
    <3>3. cyclic = {}
      BY <3>1 DEF CheckGraph
    <3> QED
      BY <3>2, <3>3
  <2>7. Workable(p)
    BY <1>1, <2>6, SoundPlanRuns
  <2> QED
    BY <2>7 DEF p
<1> QED
  BY <1>3, <1>4

-----------------------------------------------------------------------------
(* The budget: what an epic has been charged, and the charges that are on  *)
(* their way.  A charge is added to those only below the budget, or by a   *)
(* fault.                                                                  *)

Charges(e) == {s \in Slot : Charged(slot[s], e)}
Budgeted ==
  \A e \in Epic :
    attempted[e] + Cardinality(Charges(e)) < MaxRetries + Cardinality(Slot) + trouble

LEMMA SlotsCount ==
  ASSUME NEW S \in SUBSET Slot
  PROVE  /\ IsFiniteSet(S) /\ Cardinality(S) \in Nat /\ Cardinality(Slot) \in Nat
         /\ Cardinality(S) <= Cardinality(Slot)
  BY TasksAssumption, FS_Subset, FS_CardinalityType

LEMMA FewerCharges ==
  ASSUME NEW S \in SUBSET Slot, NEW T \in SUBSET S
  PROVE  Cardinality(T) <= Cardinality(S)
  BY SlotsCount, FS_Subset

LEMMA OneMoreCharge ==
  ASSUME NEW S \in SUBSET Slot, NEW s \in Slot, NEW T \in SUBSET (S \cup {s})
  PROVE  Cardinality(T) <= Cardinality(S) + 1
<1>1. Cardinality(T) <= Cardinality(S \cup {s})
  BY FewerCharges
<1>2. Cardinality(S \cup {s}) <= Cardinality(S) + 1
  BY SlotsCount, FS_AddElement
<1> QED
  BY <1>1, <1>2, SlotsCount

LEMMA OneChargeLess ==
  ASSUME NEW S \in SUBSET Slot, NEW s \in S, NEW T \in SUBSET (S \ {s})
  PROVE  Cardinality(T) + 1 <= Cardinality(S)
<1>1. Cardinality(T) <= Cardinality(S \ {s})
  BY FewerCharges
<1>2. Cardinality(S \ {s}) = Cardinality(S) - 1
  BY SlotsCount, FS_RemoveElement
<1> QED
  BY <1>1, <1>2, SlotsCount

(* The four ways in which a step treats the budget of an epic.             *)
Spares(e) == attempted'[e] = attempted[e] /\ Charges(e)' \subseteq Charges(e)
Within(e) == attempted'[e] < MaxRetries
Pays(e) ==
  /\ attempted'[e] = attempted[e] + 1
  /\ \E s \in Charges(e) : Charges(e)' \subseteq Charges(e) \ {s}
Fails(e) ==
  /\ attempted'[e] = attempted[e] /\ trouble' = trouble + 1
  /\ \E s \in Slot : Charges(e)' \subseteq Charges(e) \cup {s}

LEMMA BudgetAlong ==
  ASSUME Typed, Budgeted, Typed', trouble' >= trouble,
         \A e \in Epic : Spares(e) \/ Within(e) \/ Pays(e) \/ Fails(e)
  PROVE  Budgeted'
<1> SUFFICES ASSUME NEW e \in Epic
             PROVE  attempted'[e] + Cardinality(Charges(e)')
                      < MaxRetries + Cardinality(Slot) + trouble'
  BY DEF Budgeted
<1> DEFINE S == Charges(e)
           T == Charges(e)'
           a == attempted[e]
           b == attempted'[e]
<1>1. /\ S \in SUBSET Slot /\ T \in SUBSET Slot /\ a \in Nat /\ b \in Nat
      /\ MaxRetries \in Nat /\ trouble \in Nat /\ trouble' \in Nat
      /\ a + Cardinality(S) < MaxRetries + Cardinality(Slot) + trouble
  BY TasksAssumption DEF Charges, Typed, GateOK, TroubleOK, Budgeted
<1>2. /\ Cardinality(S) \in Nat /\ Cardinality(T) \in Nat /\ Cardinality(Slot) \in Nat
      /\ Cardinality(T) <= Cardinality(Slot)
  BY <1>1, SlotsCount
<1>3. CASE Spares(e)
  <2>1. b = a /\ T \subseteq S
    BY <1>3 DEF Spares
  <2> HIDE DEF S, T, a, b
  <2>2. Cardinality(T) <= Cardinality(S)
    BY <1>1, <2>1, FewerCharges
  <2>3. b + Cardinality(T) < MaxRetries + Cardinality(Slot) + trouble'
    BY <1>1, <1>2, <2>1, <2>2
  <2> QED
    BY <2>3 DEF T, b
<1>4. CASE Within(e)
  <2>1. b < MaxRetries
    BY <1>4 DEF Within
  <2> HIDE DEF S, T, a, b
  <2>2. b + Cardinality(T) < MaxRetries + Cardinality(Slot) + trouble'
    BY <1>1, <1>2, <2>1
  <2> QED
    BY <2>2 DEF T, b
<1>5. CASE Pays(e)
  <2>1. b = a + 1 /\ \E s \in S : T \subseteq S \ {s}
    BY <1>5 DEF Pays
  <2> HIDE DEF S, T, a, b
  <2>2. Cardinality(T) + 1 <= Cardinality(S)
    BY <1>1, <2>1, OneChargeLess
  <2>3. b + Cardinality(T) < MaxRetries + Cardinality(Slot) + trouble'
    BY <1>1, <1>2, <2>1, <2>2
  <2> QED
    BY <2>3 DEF T, b
<1>6. CASE Fails(e)
  <2>1. b = a /\ trouble' = trouble + 1 /\ \E s \in Slot : T \subseteq S \cup {s}
    BY <1>6 DEF Fails
  <2> HIDE DEF S, T, a, b
  <2>2. Cardinality(T) <= Cardinality(S) + 1
    BY <1>1, <2>1, OneMoreCharge
  <2>3. b + Cardinality(T) < MaxRetries + Cardinality(Slot) + trouble'
    BY <1>1, <1>2, <2>1, <2>2
  <2> QED
    BY <2>3 DEF T, b
<1> QED
  BY <1>3, <1>4, <1>5, <1>6

LEMMA SparedBy ==
  ASSUME UNCHANGED attempted, NEW e,
         \A s \in Slot : Charged(slot'[s], e) => Charged(slot[s], e)
  PROVE  Spares(e)
  BY DEF Spares, Charges

LEMMA HarmlessKeepsBudget ==
  ASSUME Typed, Budgeted, Typed', Harmless
  PROVE  Budgeted'
<1>1. trouble' >= trouble
  BY DEF Harmless
<1>2. \A e \in Epic : Spares(e)
  BY SparedBy DEF Harmless, Follows
<1> QED
  BY <1>1, <1>2, BudgetAlong

-----------------------------------------------------------------------------
(* The steps that touch plans, verdicts or the budget.                     *)

LEMMA Elsewhere ==
  ASSUME SlotsOK, NEW s \in Slot, NEW at, Step(s, at) \/ Finish(s)
  PROVE  /\ \A t \in Slot : t # s => slot'[t] = slot[t]
         /\ Finish(s) => slot'[s] = Empty
         /\ Step(s, at) => slot'[s].at = at /\ slot'[s].task = slot[s].task
                           /\ slot'[s].role = slot[s].role
  BY DEF SlotsOK, Step, Finish, SessionType

(* A session that moves on is charged for no epic that it was not, unless  *)
(* it comes to a stage that charges.                                       *)
LEMMA OthersSpared ==
  ASSUME SlotsOK, NEW s \in Slot, NEW e, UNCHANGED attempted,
         \A t \in Slot : t # s => slot'[t] = slot[t],
         Charged(slot'[s], e) => Charged(slot[s], e)
  PROVE  Spares(e)
<1>1. \A t \in Slot : Charged(slot'[t], e) => Charged(slot[t], e)
  OBVIOUS
<1> QED
  BY <1>1, SparedBy

LEMMA ExitKeeps ==
  ASSUME Typed, PlansKept, Budgeted, NEW s \in Slot, Exit(s)
  PROVE  Typed' /\ PlansKept' /\ Budgeted' /\ UNCHANGED tick
<1> DEFINE e == Task(s)
           at == IF slot[s].role = "reviewer" THEN "verdict" ELSE "land"
           Files == /\ slot[s].role = "designer" /\ plan[e] = None
                    /\ \E p \in PlansOf(e) :
                         /\ plan' = [plan EXCEPT ![e] = p]
                         /\ bead' = [b \in Bead |-> IF b \in DOMAIN p THEN "open" ELSE bead[b]]
           Leaves == ~(slot[s].role = "designer" /\ plan[e] = None) /\ UNCHANGED <<plan, bead>>
<1>1. /\ SlotsOK /\ BeadsOK /\ slot[s] \in SessionType /\ Duty(slot[s])
      /\ slot[s].at = "working" /\ e = slot[s].task /\ e \in Bead
      /\ (slot[s].role \in {"designer", "reviewer"} => e \in Epic)
  BY SessionOf DEF Exit, Duty
<1>2. UNCHANGED <<verdict, tracked, attempted, exhausted, seen, tip, tick, pass>>
  BY DEF Exit, gate
<1>3. TroubleOK' /\ trouble' >= trouble
  BY GateStays DEF Exit
<1>4. GateOK' /\ TipOK' /\ TickOK' /\ PassOK'
  BY <1>2 DEF Typed, GateOK, TipOK, TickOK, PassOK
<1>5. \/ Step(s, at) /\ (Files \/ Leaves)
      \/ Step(s, "fail") /\ Fault /\ UNCHANGED <<plan, bead>>
  BY DEF Exit
<1>6. /\ BeadsOK' /\ \A b \in Bead : bead[b] # "absent" => bead'[b] # "absent"
      /\ \A d \in Epic : plan[d] # None => plan'[d] = plan[d]
      /\ \A d \in Epic : plan[d] = None /\ plan'[d] # None =>
           plan'[d] \in PlansOf(d) /\ \A b \in DOMAIN plan'[d] : bead'[b] # "absent"
      /\ Step(s, at) /\ slot[s].role = "designer" => plan'[e] # None
  <2>1. CASE Files
    <3>1. PICK p \in PlansOf(e) :
            /\ plan' = [plan EXCEPT ![e] = p]
            /\ bead' = [b \in Bead |-> IF b \in DOMAIN p THEN "open" ELSE bead[b]]
      BY <2>1
    <3>2. e \in Epic /\ plan[e] = None
      BY <1>1, <2>1
    <3>3. p \in Plans /\ p # None /\ DOMAIN p \subseteq Bead
      BY TasksAssumption DEF PlansOf
    <3> HIDE DEF e
    <3>4. bead' \in [Bead -> Status] /\ \A b \in Bead : bead[b] # "absent" => bead'[b] # "absent"
      BY <1>1, <3>1 DEF BeadsOK, Status
    <3>5. /\ plan' \in [Epic -> Plans \cup {None}] /\ plan'[e] = p
          /\ \A d \in Epic : d # e => plan'[d] = plan[d]
      BY <1>1, <3>1, <3>2, <3>3 DEF BeadsOK
    <3>6. \A b \in DOMAIN p : bead'[b] = "open"
      BY <3>1, <3>3
    <3>7. BeadsOK'
      BY <1>1, <1>2, <3>4, <3>5 DEF BeadsOK
    <3> QED
      BY <3>2, <3>3, <3>4, <3>5, <3>6, <3>7
  <2>2. CASE UNCHANGED <<plan, bead>>
    <3>1. BeadsOK'
      BY <1>1, <1>2, <2>2 DEF BeadsOK
    <3>2. slot[s].role = "designer" /\ plan'[e] = None => ~Step(s, at)
      <4>1. SUFFICES ASSUME slot[s].role = "designer", plan[e] = None, Step(s, at) PROVE FALSE
        BY <2>2
      <4>2. slot'[s].at = "land"
        BY <1>1, <4>1, Elsewhere
      <4>3. ~Step(s, "fail")
        BY <1>1, <4>2, Elsewhere
      <4>4. CASE Files
        <5>1. PICK p \in PlansOf(e) : plan' = [plan EXCEPT ![e] = p]
          BY <4>4
        <5>2. p # None /\ e \in Epic
          BY <1>1, <4>1, TasksAssumption DEF PlansOf
        <5> HIDE DEF e
        <5>3. plan'[e] = p
          BY <1>1, <5>1, <5>2 DEF BeadsOK
        <5> QED
          BY <2>2, <4>1, <5>2, <5>3
      <4>5. CASE Leaves
        BY <4>1, <4>5
      <4> QED
        BY <1>5, <4>3, <4>4, <4>5
    <3> HIDE DEF e, at
    <3> QED
      BY <2>2, <3>1, <3>2
  <2> QED
    BY <1>5, <2>1, <2>2
<1> HIDE DEF Files, Leaves
<1>7. Step(s, at) \/ Step(s, "fail")
  BY <1>5
<1>8. SlotsOK'
  <2>1. CASE Step(s, at)
    <3>1. Duty(At(slot[s], at)) /\ at \in Stage
      BY <1>1 DEF Duty, At, SessionType, Stage
    <3> HIDE DEF at
    <3> QED
      BY <1>1, <2>1, <3>1, StepTyped
  <2>2. CASE Step(s, "fail")
    <3>1. Duty(At(slot[s], "fail")) /\ "fail" \in Stage
      BY <1>1 DEF Duty, At, SessionType, Stage
    <3> QED
      BY <1>1, <2>2, <3>1, StepTyped
  <2> QED
    BY <1>7, <2>1, <2>2
<1>9. Typed'
  BY <1>3, <1>4, <1>6, <1>8 DEF Typed
<1>10. \A t \in Slot : t # s => slot'[t] = slot[t]
  BY <1>1, <1>7, Elsewhere
<1>11. PlansKept'
  <2>1. ASSUME NEW t \in Slot, Designing(slot'[t])
        PROVE  \/ Designing(slot[t]) /\ slot[t].task = slot'[t].task
               \/ plan'[slot'[t].task] # None
    <3>1. CASE t # s
      BY <1>10, <2>1, <3>1
    <3>2. CASE t = s
      <4>1. Step(s, at)
        BY <1>1, <1>7, <2>1, <3>2, Elsewhere DEF Designing
      <4>2. slot[s].role = "designer" /\ slot'[s].task = e
        BY <1>1, <2>1, <3>2, <4>1, Elsewhere DEF Designing
      <4> QED
        BY <1>6, <3>2, <4>1, <4>2
    <3> QED
      BY <3>1, <3>2
  <2> QED
    BY <1>2, <1>6, <2>1, KeptAlong
<1>12. Budgeted'
  <2>1. CASE Step(s, at)
    <3>1. slot'[s].at \in {"verdict", "land"}
      BY <1>1, <2>1, Elsewhere
    <3>2. \A d \in Epic : Spares(d)
      BY <1>1, <1>2, <1>10, <3>1, OthersSpared DEF Charged
    <3> QED
      BY <1>3, <1>9, <3>2, BudgetAlong
  <2>2. CASE Step(s, "fail") /\ trouble' = trouble + 1
    <3>1. ASSUME NEW d \in Epic PROVE Fails(d)
      BY <1>2, <1>10, <2>2 DEF Fails, Charges
    <3> QED
      BY <1>3, <1>9, <3>1, BudgetAlong
  <2> QED
    BY <1>5, <2>1, <2>2 DEF Fault
<1> QED
  BY <1>2, <1>9, <1>11, <1>12

LEMMA DecompositionVerdictKeeps ==
  ASSUME Typed, PlansKept, Budgeted, NEW s \in Slot, DecompositionVerdict(s)
  PROVE  Typed' /\ PlansKept' /\ Budgeted' /\ UNCHANGED tick
<1> DEFINE e == Task(s)
<1>1. /\ SlotsOK /\ BeadsOK /\ slot[s] \in SessionType /\ Duty(slot[s])
      /\ slot[s].at = "plan" /\ e = slot[s].task
  BY SessionOf DEF DecompositionVerdict
<1>2. UNCHANGED <<plan, tracked, attempted, exhausted, seen, tip, tick, pass>>
  BY DEF DecompositionVerdict, gate
<1>3. TroubleOK' /\ trouble' >= trouble
  BY GateStays DEF DecompositionVerdict
<1>4. GateOK' /\ TipOK' /\ TickOK' /\ PassOK'
  BY <1>2 DEF Typed, GateOK, TipOK, TickOK, PassOK
<1>5. e \in Epic /\ Designing(slot[s]) /\ plan[e] # None /\ Filed(e)
  BY <1>1 DEF Duty, Designing, PlansKept, Complete
<1>6. /\ bead' \in [Bead -> Status]
      /\ \A b \in Bead : bead[b] # "absent" => bead'[b] # "absent"
  BY <1>1, CreateFixTyped, GateStays DEF DecompositionVerdict
<1>7. /\ verdict' \in [Epic -> {"none", "pass", "fix"}]
      /\ \A d \in Epic : verdict'[d] = "pass" =>
           verdict[d] = "pass" \/ (plan[d] # None /\ Workable(plan[d]))
  <2>1. CASE Check(DecompChildren(e)) = {} /\ verdict' = [verdict EXCEPT ![e] = "pass"]
    <3>1. Workable(plan[e])
      BY <1>5, <2>1, CheckPassed
    <3> HIDE DEF e
    <3> QED
      BY <1>1, <1>5, <2>1, <3>1 DEF BeadsOK
  <2>2. CASE verdict' = [verdict EXCEPT ![e] = "fix"]
    <3> HIDE DEF e
    <3> QED
      BY <1>1, <1>5, <2>2 DEF BeadsOK
  <2>3. CASE UNCHANGED verdict
    BY <1>1, <2>3 DEF BeadsOK
  <2> QED
    BY <2>1, <2>2, <2>3 DEF DecompositionVerdict
<1>8. BeadsOK'
  BY <1>1, <1>2, <1>6, <1>7 DEF BeadsOK
<1>9. SlotsOK' /\ \A t \in Slot : Follows(slot[t], slot'[t])
  BY <1>1, FinishIsWithout, FinishTyped DEF DecompositionVerdict
<1>10. Typed'
  BY <1>3, <1>4, <1>8, <1>9 DEF Typed
<1>11. PlansKept'
  BY <1>2, <1>6, <1>7, <1>9, KeptAlong DEF Follows
<1>12. Budgeted'
  <2>1. \A d \in Epic : Spares(d)
    BY <1>2, <1>9, SparedBy DEF Follows
  <2> QED
    BY <1>3, <1>10, <2>1, BudgetAlong
<1> QED
  BY <1>2, <1>10, <1>11, <1>12

(* The look at the budget: the one step that lets a review begin.          *)
LEMMA DueClosedKeeps ==
  ASSUME Typed, PlansKept, Budgeted, NEW s \in Slot, DueClosed(s)
  PROVE  Typed' /\ PlansKept' /\ Budgeted' /\ UNCHANGED tick
<1> DEFINE e == Parent[Task(s)]
<1>1. /\ SlotsOK /\ BeadsOK /\ slot[s] \in SessionType /\ Duty(slot[s])
      /\ slot[s].at = "budget" /\ e = Parent[slot[s].task] /\ e \in Epic
  BY SessionOf DEF DueClosed, Duty
<1>2. UNCHANGED <<bead, plan, verdict, tracked, attempted, tip, tick, pass>>
  BY DEF DueClosed, beads
<1>3. TroubleOK' /\ trouble' >= trouble
  BY GateStays DEF DueClosed
<1>4. GateOK'
  <2>1. Due(e) \/ NotDue(e) \/ UNCHANGED <<exhausted, seen>>
    BY DEF DueClosed
  <2> HIDE DEF e
  <2>2. exhausted' \in SUBSET Epic /\ seen' \in [Epic -> (SUBSET Bead) \cup {None}]
    BY <1>1, <2>1, DueTyped, GateStays
  <2> QED
    BY <1>2, <2>2 DEF Typed, GateOK
<1>5. BeadsOK' /\ TipOK' /\ TickOK' /\ PassOK'
  BY <1>2 DEF Typed, BeadsOK, TipOK, TickOK, PassOK
<1>6. (Step(s, "review") /\ attempted[e] < MaxRetries) \/ Finish(s)
  BY DEF DueClosed, Due
<1>7. \A t \in Slot : t # s => slot'[t] = slot[t]
  BY <1>1, <1>6, Elsewhere
<1>8. SlotsOK'
  <2>1. CASE Step(s, "review")
    <3>1. Duty(At(slot[s], "review")) /\ "review" \in Stage
      BY <1>1 DEF Duty, At, SessionType, Stage
    <3> QED
      BY <1>1, <2>1, <3>1, StepTyped
  <2> QED
    BY <1>1, <1>6, <2>1, FinishIsWithout, FinishTyped
<1>9. Typed'
  BY <1>3, <1>4, <1>5, <1>8 DEF Typed
<1>10. slot'[s].at \in {"review", "free"} /\ (slot'[s].at = "review" =>
         attempted[e] < MaxRetries /\ slot'[s].task = slot[s].task)
  BY <1>1, <1>6, Elsewhere DEF Empty
<1>11. PlansKept'
  <2>1. \A t \in Slot : Designing(slot'[t]) => Designing(slot[t]) /\ slot[t].task = slot'[t].task
    BY <1>7, <1>10 DEF Designing
  <2> QED
    BY <1>2, <2>1, KeptAtRest
<1>12. Budgeted'
  <2>1. ASSUME NEW d \in Epic PROVE Spares(d) \/ Within(d)
    <3>1. CASE Charged(slot'[s], d)
      <4>1. slot'[s].at = "review" /\ d = e
        BY <1>1, <1>10, <3>1 DEF Charged
      <4> QED
        BY <1>2, <1>10, <4>1 DEF Within
    <3>2. CASE ~Charged(slot'[s], d)
      BY <1>1, <1>2, <1>7, <3>2, OthersSpared
    <3> QED
      BY <3>1, <3>2
  <2> QED
    BY <1>3, <1>9, <2>1, BudgetAlong
<1> QED
  BY <1>2, <1>9, <1>11, <1>12

(* The charge: what was on its way arrives.                                *)
LEMMA NoteSessionKeeps ==
  ASSUME Typed, PlansKept, Budgeted, NEW s \in Slot, NoteSession(s)
  PROVE  Typed' /\ PlansKept' /\ Budgeted' /\ UNCHANGED tick
<1> DEFINE e == Task(s)
<1>1. /\ SlotsOK /\ slot[s] \in SessionType /\ Duty(slot[s])
      /\ slot[s].at = "note" /\ e = slot[s].task /\ e \in Epic
  BY SessionOf DEF NoteSession, Duty
<1>2. UNCHANGED <<bead, plan, verdict, exhausted, seen, tip, tick, pass, trouble>>
  BY DEF NoteSession, beads
<1>3. /\ attempted' = [attempted EXCEPT ![e] = @ + 1]
      /\ tracked' = [tracked EXCEPT ![slot[s].next] = e] /\ Finish(s)
  BY DEF NoteSession
<1>4. SlotsOK' /\ \A t \in Slot : Follows(slot[t], slot'[t])
  BY <1>1, <1>3, FinishIsWithout, FinishTyped
<1>5. /\ \A t \in Slot : t # s => slot'[t] = slot[t]
      /\ slot'[s] = Empty
  BY <1>1, <1>3, Elsewhere
<1> HIDE DEF e
<1>6. GateOK'
  <2>1. attempted' \in [Epic -> Nat]
    BY <1>1, <1>3 DEF Typed, GateOK
  <2>2. tracked' \in [Slot -> Epic \cup {None}]
    BY <1>1, <1>3 DEF Typed, GateOK
  <2> QED
    BY <1>2, <2>1, <2>2, GateStays DEF GateOK
<1>7. BeadsOK' /\ TipOK' /\ TickOK' /\ PassOK' /\ TroubleOK' /\ trouble' >= trouble
  BY <1>2, GateStays DEF Typed, BeadsOK, TipOK, TickOK, PassOK
<1>8. Typed'
  BY <1>4, <1>6, <1>7 DEF Typed
<1>9. PlansKept'
  BY <1>2, <1>4, KeptAtRest DEF Follows
<1>10. Budgeted'
  <2>1. ASSUME NEW d \in Epic PROVE Spares(d) \/ Pays(d)
    <3>1. Charges(d)' \subseteq Charges(d) \ {s}
      BY <1>4, <1>5 DEF Charges, Follows, Charged, Empty
    <3>2. CASE d = e
      <4>1. attempted'[d] = attempted[d] + 1
        BY <1>1, <1>3, <3>2 DEF Typed, GateOK
      <4>2. s \in Charges(d)
        BY <1>1, <3>2 DEF Charges, Charged
      <4> QED
        BY <3>1, <4>1, <4>2 DEF Pays
    <3>3. CASE d # e
      <4>1. attempted'[d] = attempted[d]
        BY <1>3, <3>3 DEF Typed, GateOK
      <4> QED
        BY <3>1, <4>1 DEF Spares
    <3> QED
      BY <3>2, <3>3
  <2> QED
    BY <1>7, <1>8, <2>1, BudgetAlong
<1> QED
  BY <1>2, <1>8, <1>9, <1>10

LEMMA ClearKeeps ==
  ASSUME Typed, PlansKept, Budgeted, NEW s \in Slot, Clear(s)
  PROVE  Typed' /\ PlansKept' /\ Budgeted' /\ UNCHANGED tick
<1> DEFINE e == Task(s)
<1>1. /\ SlotsOK /\ slot[s] \in SessionType /\ Duty(slot[s])
      /\ slot[s].at = "clear" /\ e = slot[s].task /\ e \in Epic
  BY SessionOf DEF Clear, Duty
<1>2. UNCHANGED <<bead, plan, verdict, tip, tick, pass, trouble>>
  BY DEF Clear, beads
<1>3. /\ attempted' = [attempted EXCEPT ![e] = 0] /\ exhausted' = exhausted \ {e}
      /\ seen' = [seen EXCEPT ![e] = None] /\ Finish(s)
      /\ tracked' = [t \in Slot |-> IF tracked[t] = e THEN None ELSE tracked[t]]
  BY DEF Clear
<1>4. SlotsOK' /\ \A t \in Slot : Follows(slot[t], slot'[t])
  BY <1>1, <1>3, FinishIsWithout, FinishTyped
<1> HIDE DEF e
<1>5. GateOK'
  BY <1>1, <1>3 DEF Typed, GateOK
<1>6. BeadsOK' /\ TipOK' /\ TickOK' /\ PassOK' /\ TroubleOK' /\ trouble' >= trouble
  BY <1>2, GateStays DEF Typed, BeadsOK, TipOK, TickOK, PassOK
<1>7. Typed'
  BY <1>4, <1>5, <1>6 DEF Typed
<1>8. PlansKept'
  BY <1>2, <1>4, KeptAtRest DEF Follows
<1>9. Budgeted'
  <2>1. ASSUME NEW d \in Epic PROVE Spares(d) \/ Within(d)
    <3>1. CASE d = e
      BY <1>1, <1>3, <3>1, TasksAssumption DEF Typed, GateOK, Within
    <3>2. CASE d # e
      BY <1>3, <1>4, <3>2 DEF Typed, GateOK, Spares, Charges, Follows
    <3> QED
      BY <3>1, <3>2
  <2> QED
    BY <1>6, <1>7, <2>1, BudgetAlong
<1> QED
  BY <1>2, <1>7, <1>8, <1>9

LEMMA CrashKeeps ==
  ASSUME Typed, PlansKept, Budgeted, Crash
  PROVE  Typed' /\ PlansKept' /\ Budgeted' /\ FairQueue'
<1>1. /\ UNCHANGED <<bead, plan, verdict, tip>> /\ TroubleOK' /\ trouble' >= trouble
      /\ tick' = NoTick /\ tick'.queue = <<>>
  BY GateStays DEF Crash, beads, NoTick
<1>2. SlotsOK' /\ PassOK' /\ TickOK'
  BY EmptyIsSession DEF Crash, SlotsOK, PassOK, TickOK, NoTick
<1>3. GateOK' /\ BeadsOK' /\ TipOK'
  BY <1>1 DEF Crash, Typed, GateOK, BeadsOK, TipOK
<1>4. Typed'
  BY <1>1, <1>2, <1>3 DEF Typed
<1>5. PlansKept'
  <2>1. \A s \in Slot : ~Designing(slot'[s])
    BY DEF Crash, Empty, Designing
  <2> QED
    BY <1>1, <2>1, KeptAtRest
<1>6. Budgeted'
  <2>1. \A e \in Epic : Within(e)
    BY TasksAssumption DEF Crash, Within
  <2> QED
    BY <1>1, <1>4, <2>1, BudgetAlong
<1>7. FairQueue'
  BY <1>1, EmptyIsFair DEF FairQueue
<1> QED
  BY <1>4, <1>5, <1>6, <1>7

-----------------------------------------------------------------------------
(* The invariant, and the theorems.                                        *)

Sound == Typed /\ PlansKept /\ Budgeted /\ FairQueue

LEMMA SoundInitially == Init => Sound
<1> SUFFICES ASSUME Init PROVE Sound
  OBVIOUS
<1>1. Typed
  BY InitTyped
<1>2. PlansKept
  BY DEF Init, PlansKept, Filed, Complete, Passed, Designing, Empty
<1>3. Budgeted
  <2> SUFFICES ASSUME NEW e \in Epic
               PROVE  attempted[e] + Cardinality(Charges(e))
                        < MaxRetries + Cardinality(Slot) + trouble
    BY DEF Budgeted
  <2>1. Charges(e) = {} /\ attempted[e] = 0 /\ trouble = 0
    BY DEF Init, Charges, Charged, Empty
  <2>2. Cardinality(Charges(e)) = 0 /\ Cardinality(Slot) \in Nat
    BY <2>1, FS_EmptySet, SlotsCount
  <2> QED
    BY <2>1, <2>2, TasksAssumption
<1>4. FairQueue
  BY EmptyIsFair DEF Init, NoTick, FairQueue
<1> QED
  BY <1>1, <1>2, <1>3, <1>4 DEF Sound

LEMMA SoundCompletions ==
  ASSUME Sound, NEW s \in Slot, Completing(s)
  PROVE  Sound'
<1>1. CASE \/ Land(s) \/ Close(s) \/ DueEpic(s) \/ Review(s) \/ CompleteReview(s)
           \/ Approve(s) \/ CreateDriftFix(s) \/ FallbackRetry(s) \/ Fail(s)
  <2>1. Typed' /\ Harmless /\ UNCHANGED tick
    BY <1>1, LandTyped, CloseTyped, DueEpicTyped, ReviewTyped, CompleteReviewTyped,
       ApproveTyped, CreateDriftFixTyped, FallbackRetryTyped, FailTyped DEF Sound
  <2> QED
    BY <2>1, HarmlessKeepsPlans, HarmlessKeepsBudget DEF Sound, FairQueue
<1>2. CASE \/ Exit(s) \/ DecompositionVerdict(s) \/ DueClosed(s) \/ NoteSession(s) \/ Clear(s)
  <2>1. Typed' /\ PlansKept' /\ Budgeted' /\ UNCHANGED tick
    BY <1>2, ExitKeeps, DecompositionVerdictKeeps, DueClosedKeeps, NoteSessionKeeps, ClearKeeps
       DEF Sound
  <2> QED
    BY <2>1 DEF Sound, FairQueue
<1> QED
  BY <1>1, <1>2 DEF Completing

LEMMA SoundSteps == Sound /\ [Next]_vars => Sound'
<1> SUFFICES ASSUME Sound, [Next]_vars PROVE Sound'
  OBVIOUS
<1>1. CASE Ticking
  <2>1. Typed' /\ Harmless /\ FairQueue'
    BY <1>1, TickingTyped DEF Sound
  <2> QED
    BY <2>1, HarmlessKeepsPlans, HarmlessKeepsBudget DEF Sound
<1>2. ASSUME NEW b \in Bead, Dispatch(b) PROVE Sound'
  <2>1. Typed' /\ Harmless /\ UNCHANGED tick
    BY <1>2, DispatchTyped DEF Sound
  <2> QED
    BY <2>1, HarmlessKeepsPlans, HarmlessKeepsBudget DEF Sound, FairQueue
<1>3. ASSUME NEW s \in Slot, Completing(s) PROVE Sound'
  BY <1>3, SoundCompletions
<1>4. CASE Crash
  BY <1>4, CrashKeeps DEF Sound
<1>5. CASE UNCHANGED vars
  <2>1. UNCHANGED <<bead, plan, verdict, tracked, attempted, exhausted, seen, slot, tip, tick,
                    pass, trouble>>
    BY <1>5 DEF vars, beads, gate
  <2>2. Typed'
    BY <2>1 DEF Sound, Typed, BeadsOK, GateOK, SlotsOK, TipOK, TickOK, PassOK, TroubleOK
  <2>3. PlansKept' /\ Budgeted' /\ FairQueue'
    BY <2>1 DEF Sound, PlansKept, Filed, Complete, Passed, Budgeted, Charges, FairQueue
  <2> QED
    BY <2>2, <2>3 DEF Sound
<1> QED
  BY <1>1, <1>2, <1>3, <1>4, <1>5 DEF Next

LEMMA AlwaysSound == Spec => []Sound
  BY SoundInitially, SoundSteps, PTL DEF Spec

(* Every variable keeps its type.                                          *)
THEOREM TasksTyped == Spec => []TypeOK
<1>1. Sound => TypeOK
  BY TypedIsTypeOK DEF Sound
<1> QED
  BY <1>1, AlwaysSound, PTL

(* A decomposition that DecompositionVerdict lets pass can be worked off   *)
(* by the ready queue, and every child finds what it consumes: no group of *)
(* children waits for each other, whatever the rules of a single child     *)
(* are, and through fixes, retries and crashes.                            *)
THEOREM PassedPlansRun == Spec => []PassedPlanRuns
<1>1. Sound => PassedPlanRuns
  BY DEF Sound, PlansKept, Passed, PassedPlanRuns
<1> QED
  BY <1>1, AlwaysSound, PTL

(* dueClosed and NoteSession look at the budget and charge it in steps     *)
(* apart, and a retried review is charged again: an epic is never charged  *)
(* more reviews than the budget, the sessions under way and the faults     *)
(* allow.                                                                  *)
THEOREM ReviewsBounded == Spec => []ReviewBudget
<1>1. Sound => ReviewBudget
  <2> SUFFICES ASSUME Sound, NEW e \in Epic
               PROVE  attempted[e] < MaxRetries + Cardinality(Slot) + MaxTrouble
    BY DEF ReviewBudget
  <2>1. /\ attempted[e] \in Nat /\ trouble \in 0..MaxTrouble
        /\ attempted[e] + Cardinality(Charges(e)) < MaxRetries + Cardinality(Slot) + trouble
    BY DEF Sound, Typed, GateOK, TroubleOK, Budgeted
  <2>2. Charges(e) \in SUBSET Slot
    BY DEF Charges
  <2>3. Cardinality(Charges(e)) \in Nat /\ Cardinality(Slot) \in Nat
    BY <2>2, SlotsCount
  <2> QED
    BY <2>1, <2>3, TasksAssumption
<1> QED
  BY <1>1, AlwaysSound, PTL

(* MergeReady serves the repositories of a priority in turn, and what is   *)
(* more urgent first; the tick takes entries off without changing that.    *)
THEOREM QueueIsFair == Spec => []FairQueue
<1>1. Sound => FairQueue
  BY DEF Sound
<1> QED
  BY <1>1, AlwaysSound, PTL
=============================================================================
