-------------------------------- MODULE Tasks --------------------------------
(***************************************************************************)
(* How work finds its way through the beads of several repositories: the   *)
(* scheduler's tick (internal/dispatch: recovery of orphans, review holds, *)
(* the fair ready queue, the epic pass), the completion of the sessions it *)
(* starts, and the quality gate (internal/gate: due epics, the budget of   *)
(* reviews, verdicts, drift fixes, decomposition verdicts).                *)
(*                                                                         *)
(* The issue tracker, the agents and git are external.  A call on them can *)
(* fail, the daemon can die; trouble counts both, up to MaxTrouble, except *)
(* that the queries of a repository in Broken always fail.                 *)
(* The admission of a session is one step here: Sessions takes it apart.   *)
(***************************************************************************)
EXTENDS Decomp, SequencesExt

CONSTANTS
  Repo, RepoOrder,     \* the registered repositories, as listed
  Broken,              \* repositories whose issue tracker always fails
  Bead, BeadOrder,     \* all beads there can be, as bd lists them
  Epic, DriftFix, DecompFix,  \* what a bead is; the others are plain tasks
  RepoOf, Parent, Priority,   \* attributes of beads
  Plans,               \* the plans designers may leave, each on child beads
  Initially,           \* the beads that are there at the start
  Asked,               \* beads that an operator dispatches
  Ranges,              \* epics whose range of commits is followed
  Slot,                \* room for sessions; bounds those that are under way
  SeatsOf,             \* the number of seats of each role
  MaxRetries,          \* reviews an epic may cost
  MaxTrouble,          \* bounds the faults
  None

Planned ==   \* what a plan says of a child
  [deps : SUBSET Bead, provides : SUBSET STRING, consumes : SUBSET STRING,
   sound : BOOLEAN, recorded : BOOLEAN]

ASSUME TasksAssumption ==
  /\ Broken \subseteq Repo
  /\ RepoOrder \in Seq(Repo) /\ Repo \subseteq ToSet(RepoOrder)
  /\ BeadOrder \in Seq(Bead) /\ Bead \subseteq ToSet(BeadOrder)
  /\ IsFiniteSet(Bead) /\ IsFiniteSet(Slot)
  /\ Epic \cup DriftFix \cup DecompFix \cup Initially \cup Asked \subseteq Bead
  /\ RepoOf \in [Bead -> Repo]
  /\ Parent \in [Bead -> Epic \cup {None}]
  /\ Priority \in [Bead -> Nat]
  /\ \A p \in Plans : DOMAIN p \subseteq Bead /\ p \in [DOMAIN p -> Planned]
  /\ MaxRetries \in Nat \ {0} /\ MaxTrouble \in Nat
  /\ None \notin Bead \cup Slot \cup Plans

VARIABLES
  bead,       \* the status of each bead; "absent" until it is created
  plan,       \* the children a designer planned for each epic, or None
  verdict,    \* what was decided on that plan
  slot,       \* the sessions, in the registry or in OnComplete
  tracked,    \* Gate.tracked: the epic that each session reviews
  attempted,  \* Gate.attempted: the reviews each epic has cost
  exhausted,  \* Gate.exhausted
  tip,        \* the bead whose commit is the last on each integration branch
  seen,       \* Gate.started: the beads landed after an epic's start, or None
  tick,       \* the scheduler's tick: its stage, and what it has read
  pass,       \* the epic pass of each repository
  trouble     \* faults so far

beads == <<bead, plan, verdict>>
gate == <<tracked, attempted, exhausted, seen>>
vars == <<beads, slot, gate, tip, tick, pass, trouble>>

Role == {"implementer", "designer", "repairer", "reviewer"}
Live == {s \in Slot : slot[s].at = "working"}
Empty == [task |-> None, role |-> "implementer", at |-> "free", tried |-> FALSE,
          next |-> None]
NoTick == [at |-> "idle", drift |-> <<>>, found |-> <<>>,
           rework |-> {}, groups |-> {}, queue |-> <<>>]
NoPass == [at |-> "off", epics |-> {}, open |-> {}, whole |-> TRUE]

(* What a tick has read of each repository: some of its beads, or nothing. *)
Reads == {f \in [Repo -> (SUBSET Bead) \cup {None}] :
            \A r \in Repo : f[r] # None => \A b \in f[r] : RepoOf[b] = r}

TypeOK ==
  /\ bead \in [Bead -> {"absent", "open", "in_progress", "closed"}]
  /\ plan \in [Epic -> Plans \cup {None}]
  /\ verdict \in [Epic -> {"none", "pass", "fix"}]
  /\ slot \in [Slot -> [task : Bead \cup {None}, role : Role, tried : BOOLEAN,
                        next : Slot \cup {None},
                        at : {"free", "working", "land", "close", "plan", "due",
                              "budget", "review", "note", "verdict", "approve",
                              "clear", "drift", "fail"}]]
  /\ tracked \in [Slot -> Epic \cup {None}]
  /\ attempted \in [Epic -> Nat]
  /\ exhausted \in SUBSET Epic
  /\ tip \in [Repo -> Bead \cup {None}]
  /\ seen \in [Epic -> (SUBSET Bead) \cup {None}]
  /\ tick \in [at : {"idle", "drift", "progress", "recover", "hold", "merge",
                     "implement", "passes"},
               drift : Reads \cup {<<>>}, found : Reads \cup {<<>>},
               rework : SUBSET Bead, groups : SUBSET Repo, queue : Seq(Bead)]
  /\ tick.at \in {"hold", "merge"} => tick.found \in Reads
  /\ pass \in [Repo -> [at : {"off", "children", "design", "gate"},
                        epics : SUBSET Epic, open : SUBSET Epic, whole : BOOLEAN]]
  /\ trouble \in 0..MaxTrouble

Init ==
  /\ bead = [b \in Bead |-> IF b \in Initially THEN "open" ELSE "absent"]
  /\ plan = [e \in Epic |-> None]
  /\ verdict = [e \in Epic |-> "none"]
  /\ slot = [s \in Slot |-> Empty]
  /\ tracked = [s \in Slot |-> None]
  /\ attempted = [e \in Epic |-> 0]
  /\ exhausted = {}
  /\ tip = [r \in Repo |-> None]
  /\ seen = [e \in Epic |-> None]
  /\ tick = NoTick
  /\ pass = [r \in Repo |-> NoPass]
  /\ trouble = 0

-----------------------------------------------------------------------------
(* The issue tracker.                                                      *)

Fault == trouble < MaxTrouble /\ trouble' = trouble + 1
Fine == UNCHANGED trouble

In(r) == {b \in Bead : RepoOf[b] = r /\ bead[b] # "absent"}
Children(e) == {b \in Bead : Parent[b] = e /\ bead[b] # "absent"}
Unclosed(ids) == {b \in ids : bead[b] # "closed"}

(* The dispatcher's queries leave the closed beads out, the gate's do not. *)
DriftFixTasks(r) == Unclosed(In(r) \cap DriftFix)
GateDriftFixes(r) == In(r) \cap DriftFix
InProgress(r) == {b \in In(r) : bead[b] = "in_progress"}
OpenEpics(r) == {e \in In(r) \cap Epic : bead[e] = "open"}
EpicChildren(e) == Unclosed(Children(e))
EpicOpenChildren(e) == {b \in Children(e) : bead[b] = "open"}

Blockers(b) ==
  LET e == Parent[b]
  IN IF e = None THEN {}
     ELSE IF plan[e] = None THEN {}
     ELSE IF b \in DOMAIN plan[e] THEN plan[e][b].deps ELSE {}

(* bd ready leaves out the epics and whatever a dependency blocks.         *)
Ready(r) ==
  {b \in In(r) \ Epic : bead[b] = "open" /\ Unclosed(Blockers(b)) = {}}

(* What a fan-out may read: None for a query that failed, which is a fault *)
(* unless the item is broken and always fails.                             *)
Answers(results, broken) ==
  {[i \in DOMAIN results |-> IF i \in failed THEN None ELSE results[i]] :
     failed \in {f \in SUBSET DOMAIN results : broken \cap DOMAIN results \subseteq f}}
Paid(answer, broken) ==
  IF {i \in DOMAIN answer : answer[i] = None} \subseteq broken THEN Fine ELSE Fault
BrokenEpics == {e \in Epic : RepoOf[e] \in Broken}

-----------------------------------------------------------------------------
(* Admission, as one step.                                                 *)

RoleCap(role) ==
  IF role \in {"implementer", "designer"} THEN SeatsOf[role] ELSE 1
ActiveCount(role) == Cardinality({s \in Live : slot[s].role = role})

(* A slot is taken again once nothing refers to its last handle.           *)
Room == {s \in Slot : /\ slot[s].at = "free" /\ tracked[s] = None
                      /\ \A t \in Slot : slot[t].next # s}
Handle == CHOOSE s \in Room : TRUE
Admissible(role) == ActiveCount(role) < RoleCap(role) /\ Room # {}

Session(b, role) == [Empty EXCEPT !.task = b, !.role = role, !.at = "working"]

(* spawn starts a session for b, next to the sessions in others: a bead is *)
(* claimed whatever its status, but never for a review.                    *)
Spawned(b, role, others) ==
  /\ Admissible(role)
  /\ slot' = [others EXCEPT ![Handle] = Session(b, role)]
  /\ IF role = "reviewer" THEN UNCHANGED bead
     ELSE bead' = [bead EXCEPT ![b] = "in_progress"]
  /\ Fine

(* At the cap nothing happens; a call that fails refuses the session, and  *)
(* one that fails after the claim gives the bead back.                     *)
Refused(b, role, others) ==
  /\ slot' = others
  /\ \/ ~Admissible(role) /\ Fine /\ UNCHANGED bead
     \/ Admissible(role) /\ Fault /\ UNCHANGED bead
     \/ /\ Admissible(role) /\ Fault /\ role # "reviewer"
        /\ bead' = [bead EXCEPT ![b] = "open"]

Spawn(b, role, others) == Spawned(b, role, others) \/ Refused(b, role, others)

-----------------------------------------------------------------------------
(* The tick.                                                               *)

(* Tick takes tickInFlight; its guards are in Lifecycle.                   *)
Tick ==
  /\ tick.at = "idle"
  /\ tick' = [NoTick EXCEPT !.at = "drift"]
  /\ UNCHANGED <<beads, slot, gate, tip, pass, trouble>>

QueryDrift ==
  /\ tick.at = "drift"
  /\ \E answer \in Answers([r \in Repo |-> DriftFixTasks(r)], Broken) :
       /\ Paid(answer, Broken)
       /\ tick' = [tick EXCEPT !.at = "progress", !.drift = answer]
  /\ UNCHANGED <<beads, slot, gate, tip, pass>>

QueryProgress ==
  /\ tick.at = "progress"
  /\ \E answer \in Answers([r \in Repo |-> InProgress(r)], Broken) :
       /\ Paid(answer, Broken)
       /\ tick' = [tick EXCEPT !.at = "recover", !.found = answer]
  /\ UNCHANGED <<beads, slot, gate, tip, pass>>

Orphans(ids) == ids \ {slot[s].task : s \in Live}

(* Fault: a failed query of one repository ends the recovery of all.       *)
EligibleIfAll(r, found) ==
  IF \E q \in Repo : None \in {tick.drift[q], found[q]} THEN {}
  ELSE IF tick.drift[r] = {} THEN Orphans(found[r])
  ELSE Orphans(found[r]) \cap tick.drift[r]

(* Of a repository with drift fixes only these are recovered.              *)
Eligible(r, found) ==
  IF None \in {tick.drift[r], found[r]} THEN {}
  ELSE IF tick.drift[r] = {} THEN Orphans(found[r])
  ELSE Orphans(found[r]) \cap tick.drift[r]

(* RecoverTasks looks for the sessions after the beads were read, and      *)
(* dispatches what has none.                                               *)
RecoverTasks ==
  /\ tick.at = "recover" /\ tick.found # <<>>
  /\ tick' = [tick EXCEPT !.rework = UNION {Eligible(r, tick.found) : r \in Repo},
                          !.found = <<>>]
  /\ UNCHANGED <<beads, slot, gate, tip, pass, trouble>>

Rework(b) ==
  /\ tick.at = "recover" /\ b \in tick.rework
  /\ Spawn(b, "implementer", slot)
  /\ tick' = [tick EXCEPT !.rework = @ \ {b}]
  /\ UNCHANGED <<plan, verdict, gate, tip, pass>>

QueryReady ==
  /\ tick.at = "recover" /\ tick.found = <<>> /\ tick.rework = {}
  /\ \E answer \in Answers([r \in Repo |-> Ready(r)], Broken) :
       /\ Paid(answer, Broken)
       /\ tick' = [tick EXCEPT !.at = "hold", !.found = answer]
  /\ UNCHANGED <<beads, slot, gate, tip, pass>>

InFlight(r) == \E s \in Slot : tracked[s] # None /\ RepoOf[tracked[s]] = r

(* Gate.Hold, which is asked again and counts closed drift fixes as well.  *)
HoldWith(r) == InFlight(r) \/ GateDriftFixes(r) # {}

(* Fault: a repository that cannot be asked holds all the others.          *)
UnheldIfAll(answer) ==
  {r \in Repo : answer[r] = FALSE /\ \A q \in Repo : None \notin {answer[q], tick.drift[q]}}

(* A repository whose queries fail is held as well.                        *)
Unheld(answer) == {r \in Repo : answer[r] = FALSE /\ tick.drift[r] # None}

(* The hold checks.                                                        *)
Hold ==
  /\ tick.at = "hold"
  /\ \E answer \in Answers([r \in Repo |-> HoldWith(r)], Broken) :
       /\ Paid(answer, Broken)
       /\ tick' = [tick EXCEPT !.at = "merge", !.drift = <<>>,
                               !.groups = Unheld(answer)]
  /\ UNCHANGED <<beads, slot, gate, tip, pass>>

Place(b) == CHOOSE i \in DOMAIN BeadOrder : BeadOrder[i] = b
Group(b) == CHOOSE i \in DOMAIN RepoOrder : RepoOrder[i] = RepoOf[b]
Equals(b, ids) == {c \in ids : RepoOf[c] = RepoOf[b] /\ Priority[c] = Priority[b]}
Turn(b, ids) == Cardinality({c \in Equals(b, ids) : Place(c) < Place(b)})

(* The members of ids in a strict total order, a set of pairs.             *)
Sorted(ids, order) ==
  [i \in 1..Cardinality(ids) |->
     CHOOSE b \in ids : Cardinality({c \in ids : <<c, b>> \in order}) = i - 1]

(* Fault: the queues of the repositories are put one after the other.      *)
MergeInOrder(ids) ==
  Sorted(ids, {p \in ids \X ids :
    \/ Priority[p[1]] < Priority[p[2]]
    \/ /\ Priority[p[1]] = Priority[p[2]]
       /\ \/ Group(p[1]) < Group(p[2])
          \/ Group(p[1]) = Group(p[2]) /\ Place(p[1]) < Place(p[2])})

(* Priorities ascend; within one the repositories take turns.              *)
Before(b, c, ids) ==
  \/ Priority[b] < Priority[c]
  \/ Priority[b] = Priority[c] /\ Turn(b, ids) < Turn(c, ids)
  \/ Priority[b] = Priority[c] /\ Turn(b, ids) = Turn(c, ids) /\ Group(b) < Group(c)
MergeReady(ids) == Sorted(ids, {p \in ids \X ids : Before(p[1], p[2], ids)})

Merge ==
  /\ tick.at = "merge"
  /\ LET ids == UNION {tick.found[r] : r \in {q \in tick.groups : tick.found[q] # None}}
     IN tick' = [tick EXCEPT !.at = "implement", !.groups = {}, !.queue = MergeReady(ids)]
  /\ UNCHANGED <<beads, slot, gate, tip, pass, trouble>>

Implement ==
  /\ tick.at = "implement" /\ tick.queue # <<>>
  /\ Spawn(Head(tick.queue), "implementer", slot)
  /\ tick' = [tick EXCEPT !.queue = Tail(@)]
  /\ UNCHANGED <<plan, verdict, gate, tip, pass>>

(* The open epics of the repositories whose ready query succeeded.         *)
QueryEpics ==
  /\ tick.at = "implement" /\ tick.queue = <<>>
  /\ \E answer \in Answers([r \in {q \in Repo : tick.found[q] # None} |-> OpenEpics(r)], Broken) :
       /\ Paid(answer, Broken)
       /\ pass' = [r \in Repo |->
            IF r \notin DOMAIN answer THEN NoPass
            ELSE IF answer[r] \in {None, {}} THEN NoPass
            ELSE [NoPass EXCEPT !.at = "children", !.epics = answer[r]]]
       /\ tick' = [NoTick EXCEPT !.at = "passes"]
  /\ UNCHANGED <<beads, slot, gate, tip>>

EndTick ==
  /\ tick.at = "passes" /\ \A r \in Repo : pass[r].at = "off"
  /\ tick' = NoTick
  /\ UNCHANGED <<beads, slot, gate, tip, pass, trouble>>

-----------------------------------------------------------------------------
(* The epic pass of one repository.                                        *)

(* An epic none of whose children is open or in progress counts as not     *)
(* decomposed.                                                             *)
QueryChildren(r) ==
  /\ pass[r].at = "children"
  /\ \E answer \in Answers([e \in pass[r].epics |-> EpicChildren(e)], BrokenEpics) :
       /\ Paid(answer, BrokenEpics)
       /\ pass' = [pass EXCEPT ![r] =
            [at |-> "design", epics |-> {e \in DOMAIN answer : answer[e] = {}},
             open |-> {e \in DOMAIN answer : answer[e] \notin {None, {}}},
             whole |-> \A e \in DOMAIN answer : answer[e] # None]]
  /\ UNCHANGED <<beads, slot, gate, tip, tick>>

DecomposeEpic(r, e) ==
  /\ pass[r].at = "design" /\ e \in pass[r].epics
  /\ Spawn(e, "designer", slot)
  /\ pass' = [pass EXCEPT ![r].epics = @ \ {e}]
  /\ UNCHANGED <<plan, verdict, gate, tip, tick>>

QueryOpenChildren(r) ==
  /\ pass[r].at = "design" /\ pass[r].epics = {}
  /\ \E answer \in Answers([e \in pass[r].open |-> EpicOpenChildren(e)], BrokenEpics) :
       /\ Paid(answer, BrokenEpics)
       /\ pass' = [pass EXCEPT ![r] =
            IF pass[r].whole /\ \A e \in DOMAIN answer : answer[e] # None
            THEN [NoPass EXCEPT !.at = "gate",
                    !.epics = {e \in DOMAIN answer : answer[e] = {}}]
            ELSE NoPass]
  /\ UNCHANGED <<beads, slot, gate, tip, tick>>

ChildrenClosed(e) == Children(e) # {} /\ Unclosed(Children(e)) = {}

(* NoteEpicLand: an epic starts one commit before the tip of the branch.   *)
NoteEpicLand(e) ==
  seen' = [seen EXCEPT ![e] = IF @ # None \/ e \notin Ranges THEN @
                              ELSE {tip[RepoOf[e]]} \ {None}]

(* dueClosed, as far as it goes when no review comes of it.                *)
NotDue(e) ==
  /\ \/ InFlight(RepoOf[e]) /\ UNCHANGED exhausted
     \/ /\ ~InFlight(RepoOf[e]) /\ attempted[e] >= MaxRetries
        /\ exhausted' = exhausted \cup {e}
  /\ UNCHANGED seen

Due(e) ==
  /\ ~InFlight(RepoOf[e]) /\ attempted[e] < MaxRetries
  /\ NoteEpicLand(e)
  /\ UNCHANGED exhausted

(* What GateEpic finds due is not reviewed: its answer is not used.        *)
GateEpic(r, e) ==
  /\ pass[r].at = "gate" /\ e \in pass[r].epics
  /\ \/ ~ChildrenClosed(e) /\ Fine /\ UNCHANGED <<exhausted, seen>>
     \/ ChildrenClosed(e) /\ Fine /\ (Due(e) \/ NotDue(e))
     \/ Fault /\ UNCHANGED <<exhausted, seen>>
  /\ pass' = [pass EXCEPT ![r].epics = @ \ {e}]
  /\ UNCHANGED <<beads, slot, tracked, attempted, tip, tick>>

EndPass(r) ==
  /\ pass[r].at = "gate" /\ pass[r].epics = {}
  /\ pass' = [pass EXCEPT ![r] = NoPass]
  /\ UNCHANGED <<beads, slot, gate, tip, tick, trouble>>

-----------------------------------------------------------------------------
(* The sessions: the agent at work, then OnComplete.                       *)

Task(s) == slot[s].task
Step(s, at) == slot' = [slot EXCEPT ![s].at = at]
Finish(s) == slot' = [slot EXCEPT ![s] = Empty]
Without(s) == [slot EXCEPT ![s] = Empty]

(* An operator has a bead worked on, whatever holds its repository.        *)
Dispatch(b) ==
  /\ b \in Asked /\ bead[b] = "open"
  /\ Spawned(b, "implementer", slot)
  /\ UNCHANGED <<plan, verdict, gate, tip, tick, pass>>

(* The process ends, and the session leaves the registry.  A designer has  *)
(* then filed the children of its epic.                                    *)
PlansOf(e) == {p \in Plans : \A b \in DOMAIN p : Parent[b] = e}
Exit(s) ==
  /\ slot[s].at = "working"
  /\ LET e == Task(s)
     IN \/ /\ Step(s, IF slot[s].role = "reviewer" THEN "verdict" ELSE "land")
           /\ \/ /\ slot[s].role = "designer" /\ plan[e] = None
                 /\ \E p \in PlansOf(e) :
                      /\ plan' = [plan EXCEPT ![e] = p]
                      /\ bead' = [b \in Bead |->
                                    IF b \in DOMAIN p THEN "open" ELSE bead[b]]
              \/ /\ ~(slot[s].role = "designer" /\ plan[e] = None)
                 /\ UNCHANGED <<plan, bead>>
           /\ Fine
        \/ /\ Step(s, "fail")
           /\ Fault
           /\ UNCHANGED <<plan, bead>>
  /\ UNCHANGED <<verdict, gate, tip, tick, pass>>

(* A bead is given back whatever its status.                               *)
Release(b) == bead' = [bead EXCEPT ![b] = "open"]

(* The landed commit is the last one, and lies in the range of every epic  *)
(* of the repository that has started.                                     *)
Landed(b) ==
  /\ tip' = IF Ranges = {} THEN tip ELSE [tip EXCEPT ![RepoOf[b]] = b]
  /\ seen' = [e \in Epic |->
       IF seen[e] # None /\ RepoOf[e] = RepoOf[b] THEN seen[e] \cup {b} ELSE seen[e]]

(* landFailure, for a conflict as well: the daemon's lander reports it with *)
(* an error, so that no repairer is started by itself.                     *)
Land(s) ==
  /\ slot[s].at = "land"
  /\ \/ /\ slot[s].role # "designer"
        /\ Landed(Task(s)) /\ Step(s, "close") /\ Fine
        /\ UNCHANGED bead
     \/ /\ slot[s].role = "designer"
        /\ Step(s, "plan") /\ Fine
        /\ UNCHANGED <<tip, seen, bead>>
     \/ /\ Finish(s) /\ Release(Task(s)) /\ Fault
        /\ UNCHANGED <<tip, seen>>
  /\ UNCHANGED <<plan, verdict, tracked, attempted, exhausted, tick, pass>>

(* Close follows the proof that the task landed.                           *)
Close(s) ==
  /\ slot[s].at = "close"
  /\ \/ /\ bead' = [bead EXCEPT ![Task(s)] = "closed"]
        /\ Step(s, "due") /\ Fine
     \/ Finish(s) /\ Release(Task(s)) /\ Fault
  /\ UNCHANGED <<plan, verdict, gate, tip, tick, pass>>

(* The children of an epic as the rules read them; a fix has no schema.    *)
Unsound == [deps |-> {}, provides |-> {}, consumes |-> {}, sound |-> FALSE,
            recorded |-> FALSE]
DecompChildren(e) ==
  [c \in Children(e) |->
     IF plan[e] = None THEN Unsound
     ELSE IF c \in DOMAIN plan[e] THEN plan[e][c] ELSE Unsound]

(* Files a fix below e; the fixes there are bound how many it can be.      *)
CreateFix(e, fixes) ==
  LET absent == {f \in fixes : Parent[f] = e /\ bead[f] = "absent"}
  IN \/ \E f \in absent : bead' = [bead EXCEPT ![f] = "open"]
     \/ absent = {} /\ UNCHANGED bead

DecompositionVerdict(s) ==
  /\ slot[s].at = "plan"
  /\ LET e == Task(s)
     IN \/ /\ Check(DecompChildren(e)) = {}
           /\ verdict' = [verdict EXCEPT ![e] = "pass"]
           /\ UNCHANGED bead /\ Fine
        \/ /\ Check(DecompChildren(e)) # {}
           /\ verdict' = [verdict EXCEPT ![e] = "fix"]
           /\ CreateFix(e, DecompFix) /\ Fine
        \/ UNCHANGED <<verdict, bead>> /\ Fault
  /\ Finish(s)                        \* the epic stays in progress
  /\ UNCHANGED <<plan, gate, tip, tick, pass>>

(* DueEpic asks for the parent and its children...                         *)
DueEpic(s) ==
  /\ slot[s].at = "due"
  /\ LET e == Parent[Task(s)]
     IN \/ /\ e # None /\ ChildrenClosed(e)
           /\ Step(s, "budget") /\ Fine
        \/ /\ e = None \/ ~ChildrenClosed(e)
           /\ Finish(s) /\ Fine
        \/ Finish(s) /\ Fault
  /\ UNCHANGED <<beads, gate, tip, tick, pass>>

(* Fault: reviews are counted, but the budget is not looked at.            *)
DueUnbudgeted(s) ==
  /\ slot[s].at = "budget"
  /\ LET e == Parent[Task(s)]
     IN \/ /\ ~InFlight(RepoOf[e]) /\ NoteEpicLand(e)
           /\ Step(s, "review") /\ UNCHANGED exhausted
        \/ InFlight(RepoOf[e]) /\ Finish(s) /\ UNCHANGED <<exhausted, seen>>
  /\ UNCHANGED <<beads, tracked, attempted, tip, tick, pass, trouble>>

(* ... and then looks at the gate's own state.                             *)
DueClosed(s) ==
  /\ slot[s].at = "budget"
  /\ LET e == Parent[Task(s)]
     IN \/ Due(e) /\ Step(s, "review") /\ Fine
        \/ NotDue(e) /\ Finish(s) /\ Fine
        \/ Finish(s) /\ Fault /\ UNCHANGED <<exhausted, seen>>
  /\ UNCHANGED <<beads, tracked, attempted, tip, tick, pass>>

(* stampedCommits: of a range, the commits whose trailers name a child.     *)
Stamped(range, e) == range \cap Children(e)

(* EpicDiff, what a review is shown: the commits of the epic's children    *)
(* since its start, or else all commits since then. An epic without a      *)
(* start is taken to begin one commit before the tip.                      *)
EpicDiff(e) ==
  LET range == IF seen[e] # None THEN seen[e] ELSE {tip[RepoOf[e]]} \ {None}
  IN IF Stamped(range, e) # {} THEN Stamped(range, e) ELSE range

(* ReviewPlan: the diff and the goal of the epic.                          *)
Review(s) ==
  /\ slot[s].at = "review"
  /\ LET e == Parent[Task(s)]
     IN \/ Spawned(e, "reviewer", [slot EXCEPT ![s].at = "note", ![s].task = e,
                                               ![s].next = Handle])
        \/ Refused(e, "reviewer", Without(s))
  /\ UNCHANGED <<plan, verdict, gate, tip, tick, pass>>

(* The gate learns of the review, which may be over by now.                *)
NoteSession(s) ==
  /\ slot[s].at = "note"
  /\ tracked' = [tracked EXCEPT ![slot[s].next] = Task(s)]
  /\ attempted' = [attempted EXCEPT ![Task(s)] = @ + 1]
  /\ Finish(s)
  /\ UNCHANGED <<beads, exhausted, seen, tip, tick, pass, trouble>>

(* What ParseVerdict finds in a transcript: the marker of an approval, else *)
(* the first marker of a drift, else nothing it understands.               *)
Verdicts == {"approve", "drift", "unparseable"}

Drop(s) == tracked' = [tracked EXCEPT ![s] = None]

(* CompleteReview drops the session and reads its verdict.                 *)
CompleteReview(s) ==
  /\ slot[s].at = "verdict"
  /\ Drop(s)
  /\ \E kind \in Verdicts :
       IF tracked[s] = None \/ kind = "unparseable" THEN Finish(s)
       ELSE Step(s, kind)
  /\ UNCHANGED <<beads, attempted, exhausted, seen, tip, tick, pass, trouble>>

Approve(s) ==
  /\ slot[s].at = "approve"
  /\ \/ /\ bead' = [bead EXCEPT ![Task(s)] = "closed"]
        /\ Step(s, "clear") /\ Fine
     \/ Finish(s) /\ Fault /\ UNCHANGED bead
  /\ UNCHANGED <<plan, verdict, gate, tip, tick, pass>>

Clear(s) ==
  /\ slot[s].at = "clear"
  /\ LET e == Task(s)
     IN /\ attempted' = [attempted EXCEPT ![e] = 0]
        /\ exhausted' = exhausted \ {e}
        /\ seen' = [seen EXCEPT ![e] = None]
        /\ tracked' = [t \in Slot |-> IF tracked[t] = e THEN None ELSE tracked[t]]
  /\ Finish(s)
  /\ UNCHANGED <<beads, tip, tick, pass, trouble>>

CreateDriftFix(s) ==
  /\ slot[s].at = "drift"
  /\ \/ CreateFix(Task(s), DriftFix) /\ Fine
     \/ UNCHANGED bead /\ Fault
  /\ Finish(s)
  /\ UNCHANGED <<plan, verdict, gate, tip, tick, pass>>

(* FallbackRetry: once per task, on the same seat, without a new claim.    *)
(* What the gate tracks for a reviewer that is retried stays tracked.      *)
FallbackRetry(s) ==
  /\ slot[s].at = "fail" /\ ~slot[s].tried /\ Room # {}
  /\ LET again == [Session(Task(s), slot[s].role) EXCEPT !.tried = TRUE]
     IN \/ /\ slot[s].role = "reviewer"
           /\ slot' = [slot EXCEPT ![Handle] = again, ![s].at = "note",
                                   ![s].next = Handle]
        \/ /\ slot[s].role # "reviewer"
           /\ slot' = [Without(s) EXCEPT ![Handle] = again]
  /\ UNCHANGED <<beads, gate, tip, tick, pass, trouble>>

(* No retry: AbortReview, or the bead is given back.                       *)
Fail(s) ==
  /\ slot[s].at = "fail"
  /\ \/ /\ slot[s].role = "reviewer"
        /\ Drop(s) /\ UNCHANGED bead
     \/ /\ slot[s].role # "reviewer"
        /\ Release(Task(s)) /\ UNCHANGED tracked
  /\ Finish(s)
  /\ UNCHANGED <<plan, verdict, attempted, exhausted, seen, tip, tick, pass,
                 trouble>>

(* The daemon dies and is started again; the beads and git are what it     *)
(* finds.                                                                  *)
Crash ==
  /\ Fault
  /\ slot' = [s \in Slot |-> Empty]
  /\ tracked' = [s \in Slot |-> None]
  /\ attempted' = [e \in Epic |-> 0]
  /\ exhausted' = {}
  /\ seen' = [e \in Epic |-> None]
  /\ tick' = NoTick
  /\ pass' = [r \in Repo |-> NoPass]
  /\ UNCHANGED <<beads, tip>>

-----------------------------------------------------------------------------
Ticking ==
  \/ Tick \/ QueryDrift \/ QueryProgress \/ RecoverTasks \/ QueryReady
  \/ Hold \/ Merge \/ Implement \/ QueryEpics \/ EndTick
  \/ \E b \in Bead : Rework(b)
  \/ \E r \in Repo : QueryChildren(r) \/ QueryOpenChildren(r) \/ EndPass(r)
  \/ \E r \in Repo, e \in Epic : DecomposeEpic(r, e) \/ GateEpic(r, e)

Completing(s) ==
  \/ Exit(s) \/ Land(s) \/ Close(s) \/ DecompositionVerdict(s)
  \/ DueEpic(s) \/ DueClosed(s) \/ Review(s) \/ NoteSession(s)
  \/ CompleteReview(s) \/ Approve(s) \/ Clear(s) \/ CreateDriftFix(s)
  \/ FallbackRetry(s) \/ Fail(s)

Next ==
  \/ Ticking
  \/ \E b \in Bead : Dispatch(b)
  \/ \E s \in Slot : Completing(s)
  \/ Crash

(* The scheduler ticks again and again, sessions end, and OnComplete runs. *)
Spec ==
  /\ Init /\ [][Next]_vars
  /\ WF_vars(Ticking)
  /\ \A s \in Slot : WF_vars(Completing(s))

-----------------------------------------------------------------------------
(* No repository is served twice from the ready queue while another one    *)
(* waits with an entry of the same priority, and a more urgent entry is    *)
(* always served first: what MergeReady promises of the queue it builds.   *)
Fair(q) ==
  \A i, j \in DOMAIN q : i < j =>
    /\ Priority[q[i]] <= Priority[q[j]]
    /\ RepoOf[q[i]] = RepoOf[q[j]] /\ Priority[q[i]] = Priority[q[j]] =>
         \A k \in j..Len(q) :
           Priority[q[k]] = Priority[q[i]] /\ RepoOf[q[k]] # RepoOf[q[i]] =>
             \E m \in i..j : RepoOf[q[m]] = RepoOf[q[k]]
FairQueue == Fair(tick.queue)

(* A decomposition that the gate lets pass can be worked off by the ready  *)
(* queue, every child finding what it consumes: CheckGraph's reachability, *)
(* against the meaning of the rules.                                       *)
PassedPlanRuns ==
  \A e \in Epic : verdict[e] = "pass" => Workable(plan[e])

(* The budget of reviews of an epic: its check and its charge are steps    *)
(* apart, so that every completion under way can overdraw it by one, and a *)
(* retried review is charged again; but no epic is reviewed on and on.     *)
ReviewBudget ==
  \A e \in Epic : attempted[e] < MaxRetries + Cardinality(Slot) + MaxTrouble

(* A task that no session works on any more although it is in progress     *)
(* comes back: recovery starts a session for it, unless a drift fix holds  *)
(* the repository or the seats are taken.  Other repositories' failures    *)
(* and a crash do not matter.                                              *)
Orphaned(b) == bead[b] = "in_progress" /\ \A s \in Slot : slot[s].task # b
OrphansReturn ==
  \A b \in Bead :
    Orphaned(b) ~> \/ ~Orphaned(b) \/ ~Admissible("implementer")
                   \/ GateDriftFixes(RepoOf[b]) # {}

(* Work that is ready in a repository the gate does not hold is taken up   *)
(* while there are seats, though the queries of another repository fail.   *)
Waiting(b) == b \in Ready(RepoOf[b])
ReadyServed ==
  \A b \in Bead : RepoOf[b] \notin Broken =>
    (Waiting(b) ~> \/ ~Waiting(b) \/ ~Admissible("implementer")
                   \/ HoldWith(RepoOf[b]))

(* README.md says that the scheduler claims ready non-epic work for        *)
(* implementers; an epic is the designer's and the reviewer's.             *)
EpicsNotImplemented ==
  \A s \in Slot : slot[s].task \in Epic => slot[s].role # "implementer"

(* The comment of NoteEpicLand says that it records the commit before the  *)
(* epic's first land: a review then sees what every closed child landed.   *)
ReviewSeesAll ==
  \A s \in Slot : slot[s].at = "working" /\ slot[s].role = "reviewer" =>
    Children(slot[s].task) \subseteq EpicDiff(slot[s].task)
=============================================================================
