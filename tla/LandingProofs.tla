---------------------------- MODULE LandingProofs ----------------------------
(* Theorems about Landing, for any seats, tasks, bounds, foreign commits,   *)
(* failures of git and deaths of the daemon:                                *)
(*                                                                          *)
(*   SeatsSound         a seat's branch, worktree and landing fit together; *)
(*   MergedAsGated      what is merged is what the gate passed;             *)
(*   NoWorkLost         what an agent wrote on its branch is kept;          *)
(*   ClosedTasksLanded  what is closed is on integration;                   *)
(*   LandingDelivers    Landing implements Delivery.                        *)
(*                                                                          *)
(* GatedAsLanded is a property of one git command, the fast-forward.  What  *)
(* it rests on is a property of every seat (Sound): nobody else moves its   *)
(* branch between the gate and the merge, what the gate is given is stamped *)
(* with the task that is landed, also where a replay is under way, and a    *)
(* branch never starts beyond the tip, so that one that is not behind       *)
(* starts at it.                                                            *)
EXTENDS Landing, TLAPS

Statuses == {"open", "claimed", "closed"}

StampedBy(commits, t) == \A i \in DOMAIN commits : t \in commits[i].stamps

Sound(b, w, j, g, tip) ==
  /\ b.base <= tip /\ j.base <= tip
  /\ IF j.pc = "idle" THEN j.task = {} ELSE \E t \in Task : j.task = {t}
  /\ \A t \in Task : j.task = {t} =>
       /\ j.pc = "replay" => StampedBy(w.loose, t) /\ Len(w.loose) <= Len(b.own)
       /\ j.pc \in {"gate", "merge"} => StampedBy(b.own, t)
  /\ j.pc = "merge" => g = b

IInv ==
  /\ TypeOK
  /\ \A s \in Seat : Sound(branch[s], tree[s], job[s], gated[s], Tip)

LEMMA InitHolds == Init => IInv
<1>. SUFFICES ASSUME Init PROVE IInv  OBVIOUS
<1>1. NoBranch \in Branches /\ NoTree \in Trees /\ Idle \in Jobs
  BY DEF NoBranch, NoTree, Idle, Branches, Trees, Jobs
<1>2. TypeOK
  BY <1>1, LandingAssumption DEF Init, TypeOK
<1>3. Tip = 0
  BY DEF Init, Tip
<1>4. ASSUME NEW s \in Seat PROVE Sound(branch[s], tree[s], job[s], gated[s], Tip)
  BY <1>3 DEF Init, Sound, NoBranch, NoTree, Idle
<1>. QED  BY <1>2, <1>4 DEF IInv

-----------------------------------------------------------------------------
(* Values.                                                                  *)

LEMMA TaskIs ==
  ASSUME NEW s \in Seat, NEW t \in Task, job[s].task = {t}
  PROVE  TaskOf(s) = t
BY DEF TaskOf

LEMMA Nothing == <<>> \in Seq(Commit) /\ Len(<<>>) = 0 /\ {} \in SUBSET Work
OBVIOUS

\* A branch that is cut, moved or rewritten.
LEMMA BranchOwn ==
  ASSUME NEW b \in Branches, NEW own \in Seq(Commit)
  PROVE  /\ [b EXCEPT !.own = own] \in Branches
         /\ [b EXCEPT !.own = own].base = b.base /\ [b EXCEPT !.own = own].own = own
BY DEF Branches

\* A worktree whose HEAD or whose changes are not what they were.
LEMMA TreeValues ==
  ASSUME NEW w \in Trees, NEW loose \in Seq(Commit), NEW dirty \in SUBSET Work,
         NEW head \in {"branch", "detached", "rebasing", "conflict"}
  PROVE  /\ [w EXCEPT !.made = TRUE] \in Trees
         /\ [w EXCEPT !.loose = loose] \in Trees
         /\ [w EXCEPT !.dirty = dirty] \in Trees
         /\ [w EXCEPT !.head = head] \in Trees
         /\ [w EXCEPT !.head = head, !.loose = loose] \in Trees
         /\ [w EXCEPT !.loose = loose, !.dirty = dirty] \in Trees
         /\ [w EXCEPT !.dirty = dirty, !.head = head] \in Trees
         /\ OnBranch(w) \in Trees
         /\ [OnBranch(w) EXCEPT !.dirty = dirty] \in Trees
<1>1. w.made \in BOOLEAN /\ w.dirty \in SUBSET Work
  BY DEF Trees
<1>2. /\ [w EXCEPT !.made = TRUE] \in Trees
      /\ [w EXCEPT !.loose = loose] \in Trees
      /\ [w EXCEPT !.dirty = dirty] \in Trees
  BY DEF Trees
<1>3. /\ [w EXCEPT !.head = head] \in Trees
      /\ [w EXCEPT !.head = head, !.loose = loose] \in Trees
      /\ [w EXCEPT !.loose = loose, !.dirty = dirty] \in Trees
      /\ [w EXCEPT !.dirty = dirty, !.head = head] \in Trees
  BY DEF Trees
<1>4. OnBranch(w) \in Trees
  BY <1>1, Nothing DEF Trees, OnBranch
<1>5. [OnBranch(w) EXCEPT !.dirty = dirty] \in Trees
  BY <1>4 DEF Trees
<1>. QED  BY <1>2, <1>3, <1>4, <1>5

\* What a git command leaves is a branch that starts on integration and a
\* worktree.
Leaves(r) ==
  r.branch \in Branches /\ r.tree \in Trees /\ r.branch.base <= Tip

LEMMA LeftLeaves ==
  ASSUME NEW b \in Branches, NEW w \in Trees, NEW ok \in BOOLEAN, b.base <= Tip
  PROVE  /\ Leaves(Left(b, w, ok))
         /\ Left(b, w, ok).branch = b /\ Left(b, w, ok).tree = w /\ Left(b, w, ok).ok = ok
BY DEF Left, Leaves

LEMMA AbortLeaves ==
  ASSUME NEW b \in Branches, NEW w \in Trees, b.base <= Tip, NEW r \in AbortRebase(b, w)
  PROVE  Leaves(r)
<1>1. [OnBranch(w) EXCEPT !.dirty = {}] \in Trees
  BY TreeValues, Nothing
<1>. QED  BY <1>1, LeftLeaves DEF AbortRebase

LEMMA RebaseLeaves ==
  ASSUME TypeOK, NEW b \in Branches, NEW w \in Trees, b.base <= Tip, NEW r \in Rebase(b, w)
  PROVE  Leaves(r)
<1>1. Tip \in Nat
  BY DEF TypeOK, Tip
<1>2. [b EXCEPT !.base = Tip] \in Branches /\ [b EXCEPT !.base = Tip].base <= Tip
  BY <1>1 DEF Branches
<1>3. OnBranch(w) \in Trees /\ [w EXCEPT !.head = "rebasing", !.loose = <<>>] \in Trees
  BY TreeValues, Nothing
<1>4. CASE r \in AbortRebase(b, w)
  BY <1>4, AbortLeaves
<1>5. CASE r = Left([b EXCEPT !.base = Tip], OnBranch(w), TRUE)
  BY <1>2, <1>3, <1>5, LeftLeaves
<1>6. CASE r \in AbortRebase(b, [w EXCEPT !.head = "rebasing", !.loose = <<>>])
  BY <1>3, <1>6, AbortLeaves
<1>. QED  BY <1>4, <1>5, <1>6 DEF Rebase

LEMMA EnsureLeaves ==
  ASSUME TypeOK, NEW b \in Branches, NEW w \in Trees, b.base <= Tip, NEW r \in Ensure(b, w)
  PROVE  Leaves(r)
<1>1. Tip \in Nat
  BY DEF TypeOK, Tip
<1>. DEFINE cut == IF b.made THEN b ELSE [NoBranch EXCEPT !.made = TRUE, !.base = Tip]
<1>2. cut \in Branches /\ cut.base <= Tip
  <2>1. CASE b.made
    BY <2>1
  <2>2. CASE ~b.made
    <3>1. cut = [made |-> TRUE, base |-> Tip, own |-> <<>>]
      BY <2>2 DEF NoBranch
    <3>2. [made |-> TRUE, base |-> Tip, own |-> <<>>] \in Branches
      BY <1>1, Nothing DEF Branches
    <3>. HIDE DEF cut
    <3>. QED  BY <1>1, <3>1, <3>2
  <2>. QED  BY <2>1, <2>2
<1>3. [w EXCEPT !.made = TRUE] \in Trees
  BY DEF Trees
<1>4. r \in {Left(b, w, TRUE), Left(b, w, FALSE), Left(cut, [w EXCEPT !.made = TRUE], TRUE),
             Left(cut, w, FALSE)}
  BY DEF Ensure, Create
<1>. HIDE DEF cut
<1>. QED  BY <1>2, <1>3, <1>4, LeftLeaves

LEMMA SyncLeaves ==
  ASSUME TypeOK, NEW b \in Branches, NEW w \in Trees, b.base <= Tip, NEW r \in Sync(b, w)
  PROVE  Leaves(r)
<1>1. Tip \in Nat
  BY DEF TypeOK, Tip
<1>. DEFINE c == [b EXCEPT !.base = Tip]
            v == [w EXCEPT !.loose = <<>>]
<1>2. c \in Branches /\ c.base <= Tip
  BY <1>1 DEF Branches
<1>3. v \in Trees
  BY TreeValues, Nothing
<1>4. \/ r \in {Left(b, w, TRUE), Left(b, w, FALSE), Left(c, w, TRUE), Left(b, v, TRUE)}
      \/ r \in Rebase(b, w)
  BY DEF Sync
<1>. HIDE DEF c, v
<1>5. CASE r \in {Left(b, w, TRUE), Left(b, w, FALSE), Left(c, w, TRUE), Left(b, v, TRUE)}
  BY <1>2, <1>3, <1>5, LeftLeaves
<1>. QED  BY <1>4, <1>5, RebaseLeaves

LEMMA RestoreLeaves ==
  ASSUME NEW b \in Branches, NEW w \in Trees, NEW r \in Restore(b, w)
  PROVE  r \in Trees
<1>1. [OnBranch(w) EXCEPT !.dirty = {}] \in Trees
  BY TreeValues, Nothing
<1>. QED  BY <1>1 DEF Restore

-----------------------------------------------------------------------------
(* Steps.                                                                   *)

\* The state of a seat.
LEMMA SeatFacts ==
  ASSUME IInv, NEW s \in Seat
  PROVE  /\ branch[s] \in Branches /\ branch[s].base \in Nat /\ branch[s].own \in Seq(Commit)
         /\ tree[s] \in Trees /\ tree[s].loose \in Seq(Commit) /\ tree[s].dirty \in SUBSET Work
         /\ tree[s].head \in {"branch", "detached", "rebasing", "conflict"}
         /\ job[s] \in Jobs /\ job[s].base \in Nat /\ gated[s] \in Branches
         /\ Tip \in Nat /\ branch[s].base <= Tip /\ job[s].base <= Tip
         /\ Sound(branch[s], tree[s], job[s], gated[s], Tip)
<1>1. /\ branch[s] \in Branches /\ tree[s] \in Trees /\ job[s] \in Jobs /\ gated[s] \in Branches
      /\ Tip \in Nat
  BY DEF IInv, TypeOK, Tip
<1>2. Sound(branch[s], tree[s], job[s], gated[s], Tip)
  BY DEF IInv
<1>. QED  BY <1>1, <1>2 DEF Branches, Trees, Jobs, Sound

\* The session of a busy seat has a task.
LEMMA BusyTask ==
  ASSUME IInv, NEW s \in Seat, job[s].pc # "idle"
  PROVE  TaskOf(s) \in Task /\ job[s].task = {TaskOf(s)}
<1>1. PICK t \in Task : job[s].task = {t}
  BY SeatFacts DEF Sound
<1>. QED  BY <1>1 DEF TaskOf

LEMMA Putting ==
  ASSUME IInv, NEW s \in Seat, NEW r, r.branch \in Branches, r.tree \in Trees, Put(s, r)
  PROVE  /\ branch' \in [Seat -> Branches] /\ branch'[s] = r.branch
         /\ \A o \in Seat \ {s} : branch'[o] = branch[o]
         /\ tree' \in [Seat -> Trees] /\ tree'[s] = r.tree
         /\ \A o \in Seat \ {s} : tree'[o] = tree[o]
BY DEF IInv, TypeOK, Put

PCs == {"idle", "agent", "commit", "rebase", "stamp", "replay", "gate", "merge", "landed"}

LEMMA Going ==
  ASSUME IInv, NEW s \in Seat, NEW pc \in PCs, Goto(s, pc)
  PROVE  /\ job' \in [Seat -> Jobs] /\ \A o \in Seat \ {s} : job'[o] = job[o]
         /\ job'[s].pc = pc /\ job'[s].task = job[s].task /\ job'[s].base = job[s].base
<1>1. [job[s] EXCEPT !.pc = pc] \in Jobs
  BY SeatFacts DEF Jobs, PCs
<1>2. job' = [job EXCEPT ![s] = [job[s] EXCEPT !.pc = pc]] /\ job \in [Seat -> Jobs]
  BY DEF Goto, IInv, TypeOK
<1>3. [job[s] EXCEPT !.pc = pc].pc = pc /\ [job[s] EXCEPT !.pc = pc].task = job[s].task
      /\ [job[s] EXCEPT !.pc = pc].base = job[s].base
  BY SeatFacts DEF Jobs
<1>. QED  BY <1>1, <1>2, <1>3

LEMMA Releasing ==
  ASSUME IInv, NEW s \in Seat, Release(s)
  PROVE  /\ job' \in [Seat -> Jobs] /\ job'[s] = Idle /\ \A o \in Seat \ {s} : job'[o] = job[o]
         /\ status' \in [Task -> Statuses]
<1>1. Idle \in Jobs
  BY DEF Idle, Jobs
<1>2. job' = [job EXCEPT ![s] = Idle] /\ job \in [Seat -> Jobs]
  BY DEF Release, IInv, TypeOK
<1>3. status' \in [Task -> Statuses]
  BY DEF Release, IInv, TypeOK, Statuses
<1>. QED  BY <1>1, <1>2, <1>3

\* A seat between sessions needs little.
LEMMA IdleSound ==
  ASSUME NEW b, NEW w, NEW g, NEW tip \in Nat, b.base <= tip
  PROVE  Sound(b, w, Idle, g, tip)
BY DEF Sound, Idle

\* Nothing of it is lost when integration grows.
LEMMA SoundGrows ==
  ASSUME NEW b, NEW w, NEW j, NEW g, NEW tip \in Nat, NEW grown \in Nat, tip <= grown,
         b.base \in Nat, j.base \in Nat, Sound(b, w, j, g, tip)
  PROVE  Sound(b, w, j, g, grown)
<1>1. b.base <= grown /\ j.base <= grown
  BY DEF Sound
<1>. QED  BY <1>1, Zenon DEF Sound

\* A seat that changes itself alone, while integration does not shrink.
LEMMA SeatMoves ==
  ASSUME IInv, NEW s \in Seat,
         branch' \in [Seat -> Branches], \A o \in Seat \ {s} : branch'[o] = branch[o],
         tree' \in [Seat -> Trees], \A o \in Seat \ {s} : tree'[o] = tree[o],
         job' \in [Seat -> Jobs], \A o \in Seat \ {s} : job'[o] = job[o],
         gated' \in [Seat -> Branches], \A o \in Seat \ {s} : gated'[o] = gated[o],
         integration' \in Seq(Commit), Tip <= Tip',
         status' \in [Task -> Statuses], sessions' \in 0 .. MaxSessions, crashes' = crashes,
         wrought' \subseteq Work, estray' \subseteq wrought', closer' \subseteq Work,
         Sound(branch'[s], tree'[s], job'[s], gated'[s], Tip')
  PROVE  IInv'
<1>1. TypeOK'
  BY DEF IInv, TypeOK, Statuses
<1>2. Tip \in Nat /\ Tip' \in Nat
  BY DEF IInv, TypeOK, Tip
<1>3. ASSUME NEW o \in Seat \ {s} PROVE Sound(branch'[o], tree'[o], job'[o], gated'[o], Tip')
  <2>1. Sound(branch[o], tree[o], job[o], gated[o], Tip)
    BY DEF IInv
  <2>2. branch[o].base \in Nat /\ job[o].base \in Nat
    BY DEF IInv, TypeOK, Branches, Jobs
  <2>. QED  BY <1>2, <2>1, <2>2, SoundGrows
<1>. QED  BY <1>1, <1>3 DEF IInv

\* A step that moves no branch, or moves it where Put would.
LEMMA Staying ==
  ASSUME IInv, NEW s \in Seat, UNCHANGED <<branch, tree>>
  PROVE  Put(s, Left(branch[s], tree[s], TRUE))
BY DEF IInv, TypeOK, Put, Left

LEMMA Rewriting ==
  ASSUME IInv, NEW s \in Seat, NEW b, branch' = [branch EXCEPT ![s] = b], UNCHANGED tree
  PROVE  Put(s, Left(b, tree[s], TRUE))
BY DEF IInv, TypeOK, Put, Left

\* A landing that goes on, and one that ends.
LEMMA GoesOn ==
  ASSUME IInv, NEW s \in Seat, NEW pc \in PCs, Goto(s, pc),
         NEW r, Leaves(r), Put(s, r), UNCHANGED <<integration, status, counters, history>>,
         job[s].pc # "idle", pc \notin {"idle", "merge"},
         pc = "replay" => StampedBy(r.tree.loose, TaskOf(s)) /\ Len(r.tree.loose) <= Len(r.branch.own),
         pc = "gate" => StampedBy(r.branch.own, TaskOf(s))
  PROVE  IInv'
<1>1. /\ job' \in [Seat -> Jobs] /\ \A o \in Seat \ {s} : job'[o] = job[o]
      /\ job'[s].pc = pc /\ job'[s].task = job[s].task /\ job'[s].base = job[s].base
  BY Going
<1>2. /\ branch' \in [Seat -> Branches] /\ branch'[s] = r.branch
      /\ \A o \in Seat \ {s} : branch'[o] = branch[o]
      /\ tree' \in [Seat -> Trees] /\ tree'[s] = r.tree
      /\ \A o \in Seat \ {s} : tree'[o] = tree[o]
  BY Putting DEF Leaves
<1>3. Tip' = Tip /\ Tip \in Nat
  BY DEF Tip, IInv, TypeOK
<1>4. TaskOf(s) \in Task /\ job[s].task = {TaskOf(s)}
  BY BusyTask
<1>5. Sound(branch'[s], tree'[s], job'[s], gated'[s], Tip')
  <2>1. branch'[s].base <= Tip' /\ job'[s].base <= Tip'
    BY <1>1, <1>2, <1>3, SeatFacts DEF Leaves
  <2>2. \A t \in Task : job'[s].task = {t} => t = TaskOf(s)
    BY <1>1, <1>4
  <2>. QED  BY <1>1, <1>2, <1>4, <2>1, <2>2 DEF Sound
<1>. QED
  BY <1>1, <1>2, <1>3, <1>5, SeatMoves DEF IInv, TypeOK, Statuses, counters, history

LEMMA Ends ==
  ASSUME IInv, NEW s \in Seat, Release(s),
         NEW r, Leaves(r), Put(s, r), UNCHANGED <<integration, counters, history>>
  PROVE  IInv'
<1>1. /\ job' \in [Seat -> Jobs] /\ job'[s] = Idle /\ \A o \in Seat \ {s} : job'[o] = job[o]
      /\ status' \in [Task -> Statuses]
  BY Releasing
<1>2. /\ branch' \in [Seat -> Branches] /\ branch'[s] = r.branch
      /\ \A o \in Seat \ {s} : branch'[o] = branch[o]
      /\ tree' \in [Seat -> Trees] /\ tree'[s] = r.tree
      /\ \A o \in Seat \ {s} : tree'[o] = tree[o]
  BY Putting DEF Leaves
<1>3. Tip' = Tip /\ Tip \in Nat
  BY DEF Tip, IInv, TypeOK
<1>4. Sound(branch'[s], tree'[s], job'[s], gated'[s], Tip')
  BY <1>1, <1>2, <1>3, IdleSound DEF Leaves
<1>. QED
  BY <1>1, <1>2, <1>3, <1>4, SeatMoves DEF IInv, TypeOK, counters, history

LEMMA EndsAsItIs ==
  ASSUME IInv, NEW s \in Seat, Unlanded(s), UNCHANGED <<git, counters, history>>
  PROVE  IInv'
<1>1. Put(s, Left(branch[s], tree[s], TRUE))
  BY Staying DEF git
<1>2. Leaves(Left(branch[s], tree[s], TRUE))
  BY SeatFacts, LeftLeaves
<1>. QED  BY <1>1, <1>2, Ends DEF Unlanded, git

-----------------------------------------------------------------------------
(* The actions, one lemma each.                                             *)

LEMMA SeatReadySound ==
  ASSUME IInv, NEW s \in Seat, NEW t \in Task, SeatReady(s, t)
  PROVE  IInv'
<1>1. PICK e \in Ensure(branch[s], tree[s]) :
        \E r \in IF e.ok THEN Sync(e.branch, e.tree) ELSE {e} :
          /\ Put(s, r)
          /\ IF r.ok
               THEN /\ sessions' = sessions + 1
                    /\ job' = [job EXCEPT ![s] = [Idle EXCEPT !.pc = "agent", !.task = {t}]]
                    /\ status' = [status EXCEPT ![t] = "claimed"]
               ELSE UNCHANGED <<job, status, sessions>>
  BY DEF SeatReady
<1>2. PICK r \in IF e.ok THEN Sync(e.branch, e.tree) ELSE {e} :
          /\ Put(s, r)
          /\ IF r.ok
               THEN /\ sessions' = sessions + 1
                    /\ job' = [job EXCEPT ![s] = [Idle EXCEPT !.pc = "agent", !.task = {t}]]
                    /\ status' = [status EXCEPT ![t] = "claimed"]
               ELSE UNCHANGED <<job, status, sessions>>
  BY <1>1
<1>3. TypeOK /\ Leaves(e)
  BY SeatFacts, EnsureLeaves DEF IInv
<1>4. Leaves(r)
  <2>1. CASE r \in Sync(e.branch, e.tree)
    BY <1>3, <2>1, SyncLeaves DEF Leaves
  <2>2. CASE r = e
    BY <1>3, <2>2
  <2>. QED  BY <1>2, <2>1, <2>2
<1>5. /\ branch' \in [Seat -> Branches] /\ branch'[s] = r.branch
      /\ \A o \in Seat \ {s} : branch'[o] = branch[o]
      /\ tree' \in [Seat -> Trees] /\ \A o \in Seat \ {s} : tree'[o] = tree[o]
  BY <1>2, <1>4, Putting DEF Leaves
<1>6. /\ gated' \in [Seat -> Branches] /\ \A o \in Seat \ {s} : gated'[o] = gated[o]
      /\ integration' = integration /\ crashes' = crashes /\ sessions < MaxSessions
      /\ wrought' = wrought /\ estray' = estray /\ closer' = closer
  <2>1. NoBranch \in Branches
    BY Nothing DEF NoBranch, Branches
  <2>. QED  BY <2>1 DEF SeatReady, IInv, TypeOK
<1>7. Tip' = Tip /\ Tip \in Nat /\ sessions \in 0 .. MaxSessions /\ MaxSessions \in Nat
  BY <1>6, LandingAssumption DEF IInv, TypeOK, Tip
<1>8. CASE r.ok
  <2>. DEFINE j == [Idle EXCEPT !.pc = "agent", !.task = {t}]
  <2>1. j \in Jobs /\ j.pc = "agent" /\ j.task = {t} /\ j.base = 0
    BY DEF Idle, Jobs
  <2>2. job' = [job EXCEPT ![s] = j]
    BY <1>2, <1>8
  <2>. HIDE DEF j
  <2>3. job' \in [Seat -> Jobs] /\ job'[s] = j /\ \A o \in Seat \ {s} : job'[o] = job[o]
    BY <2>1, <2>2 DEF IInv, TypeOK
  <2>4. status' \in [Task -> Statuses] /\ sessions' \in 0 .. MaxSessions
    BY <1>2, <1>6, <1>7, <1>8 DEF IInv, TypeOK, Statuses
  <2>5. Sound(branch'[s], tree'[s], job'[s], gated'[s], Tip')
    BY <1>4, <1>5, <1>7, <2>1, <2>3 DEF Sound, Leaves
  <2>. QED  BY <1>5, <1>6, <1>7, <2>3, <2>4, <2>5, SeatMoves DEF IInv, TypeOK
<1>9. CASE ~r.ok
  <2>1. job' = job /\ status' = status /\ sessions' = sessions
    BY <1>2, <1>9
  <2>2. job[s].pc = "idle" /\ job[s].task = {} /\ job[s].base \in Nat /\ job[s].base <= Tip
    BY SeatFacts DEF Sound, SeatReady, Busy
  <2>3. Sound(branch'[s], tree'[s], job'[s], gated'[s], Tip')
    BY <1>4, <1>5, <1>7, <2>1, <2>2 DEF Sound, Leaves
  <2>. QED  BY <1>5, <1>6, <1>7, <2>1, <2>3, SeatMoves DEF IInv, TypeOK, Statuses
<1>. QED  BY <1>8, <1>9

\* The commits of an agent are commits.
LEMMA Committing ==
  ASSUME NEW commits \in Seq(Commit), NEW work \in SUBSET Work, NEW stamps \in SUBSET Task
  PROVE  Append(commits, [work |-> work, stamps |-> stamps]) \in Seq(Commit)
BY DEF Commit

LEMMA AgentSound ==
  ASSUME IInv, NEW s \in Seat, Agent(s)
  PROVE  IInv'
<1>. DEFINE b == branch[s]
            w == tree[s]
            piece == <<s, TaskOf(s)>>
            commits == Append(AtHead(b, w), [work |-> w.dirty \cup {piece}, stamps |-> {}])
<1>1. piece \in Work /\ job[s].pc = "agent"
  BY BusyTask DEF Agent, Busy, Work
<1>2. commits \in Seq(Commit)
  <2>1. AtHead(b, w) \in Seq(Commit)
    BY SeatFacts DEF AtHead
  <2>2. w.dirty \cup {piece} \in SUBSET Work /\ {} \in SUBSET Task
    BY <1>1, SeatFacts
  <2>. QED  BY <2>1, <2>2, Committing
<1>3. PICK r \in {Left(b, [w EXCEPT !.dirty = @ \cup {piece}], TRUE),
                  Left([b EXCEPT !.own = commits], [w EXCEPT !.dirty = {}], TRUE),
                  Left(b, [w EXCEPT !.loose = commits, !.dirty = {}], TRUE)} : Put(s, r)
  <2>1. CASE tree' = [tree EXCEPT ![s].dirty = @ \cup {piece}] /\ UNCHANGED branch
    <3>1. Put(s, Left(b, [w EXCEPT !.dirty = @ \cup {piece}], TRUE))
      BY <2>1 DEF IInv, TypeOK, Put, Left
    <3>. QED  BY <3>1
  <2>2. CASE Put(s, IF w.head = "branch"
                      THEN Left([b EXCEPT !.own = commits], [w EXCEPT !.dirty = {}], TRUE)
                      ELSE Left(b, [w EXCEPT !.loose = commits, !.dirty = {}], TRUE))
    BY <2>2
  <2>. QED  BY <2>1, <2>2 DEF Agent
<1>4. Leaves(r)
  <2>1. w.dirty \cup {piece} \in SUBSET Work
    BY <1>1, SeatFacts
  <2>2. /\ [w EXCEPT !.dirty = @ \cup {piece}] \in Trees /\ [w EXCEPT !.dirty = {}] \in Trees
        /\ [w EXCEPT !.loose = commits, !.dirty = {}] \in Trees
    BY <1>2, <2>1, SeatFacts, TreeValues, Nothing
  <2>3. [b EXCEPT !.own = commits] \in Branches /\ [b EXCEPT !.own = commits].base <= Tip
    <3>1. b \in Branches /\ b.base <= Tip
      BY SeatFacts
    <3>. HIDE DEF b, commits
    <3>. QED  BY <1>2, <3>1, BranchOwn
  <2>4. b \in Branches /\ w \in Trees /\ b.base <= Tip
    BY SeatFacts
  <2>. DEFINE more == [w EXCEPT !.dirty = @ \cup {piece}]
              bare == [w EXCEPT !.dirty = {}]
              stray == [w EXCEPT !.loose = commits, !.dirty = {}]
              c == [b EXCEPT !.own = commits]
  <2>5. more \in Trees /\ bare \in Trees /\ stray \in Trees /\ c \in Branches /\ c.base <= Tip
    BY <2>2, <2>3
  <2>6. r \in {Left(b, more, TRUE), Left(c, bare, TRUE), Left(b, stray, TRUE)}
    BY <1>3
  <2>. HIDE DEF more, bare, stray, c, commits, piece, b, w
  <2>. QED  BY <2>4, <2>5, <2>6, LeftLeaves
<1>5. /\ branch' \in [Seat -> Branches] /\ branch'[s] = r.branch
      /\ \A o \in Seat \ {s} : branch'[o] = branch[o]
      /\ tree' \in [Seat -> Trees] /\ tree'[s] = r.tree
      /\ \A o \in Seat \ {s} : tree'[o] = tree[o]
  BY <1>3, <1>4, Putting DEF Leaves
<1>6. wrought' \subseteq Work /\ estray' \subseteq wrought'
  BY <1>1 DEF Agent, IInv, TypeOK
<1>7. /\ integration' = integration /\ job' = job /\ status' = status /\ gated' = gated
      /\ crashes' = crashes /\ sessions' = sessions /\ closer' = closer
  BY DEF Agent, counters
<1>8. Sound(branch'[s], tree'[s], job'[s], gated'[s], Tip')
  BY <1>1, <1>4, <1>5, <1>7, SeatFacts DEF Sound, Leaves, Tip
<1>9. Tip' = Tip /\ Tip \in Nat
  BY <1>7, SeatFacts DEF Tip
<1>. HIDE DEF b, w, piece, commits
<1>. QED  BY <1>5, <1>6, <1>7, <1>8, <1>9, SeatMoves DEF IInv, TypeOK, Statuses

LEMMA AgentDoneSound ==
  ASSUME IInv, NEW s \in Seat, AgentDone(s)
  PROVE  IInv'
<1>1. Put(s, Left(branch[s], tree[s], TRUE))
  BY Staying DEF AgentDone, git
<1>2. Leaves(Left(branch[s], tree[s], TRUE))
  BY SeatFacts, LeftLeaves
<1>3. "commit" \in PCs /\ job[s].pc # "idle"
  BY DEF PCs, AgentDone, Busy
<1>. QED  BY <1>1, <1>2, <1>3, GoesOn DEF AgentDone, git

LEMMA AgentFailedSound ==
  ASSUME IInv, NEW s \in Seat, AgentFailed(s)
  PROVE  IInv'
BY EndsAsItIs DEF AgentFailed, Unlanded

LEMMA RecordedType ==
  ASSUME NEW b \in Branches, NEW w \in Trees
  PROVE  Recorded(b, w) \in Seq(Commit)
<1>. DEFINE commits == AtHead(b, w)
<1>1. commits \in Seq(Commit) /\ w.dirty \in SUBSET Work /\ {} \in SUBSET Task
  BY DEF AtHead, Branches, Trees
<1>. HIDE DEF commits
<1>2. ASSUME commits # <<>>
      PROVE  [commits EXCEPT ![Len(commits)].work = @ \cup w.dirty] \in Seq(Commit)
  <2>1. Len(commits) \in DOMAIN commits /\ commits[Len(commits)] \in Commit
    BY <1>1, <1>2
  <2>2. [commits[Len(commits)] EXCEPT !.work = @ \cup w.dirty] \in Commit
    BY <1>1, <2>1 DEF Commit
  <2>. QED  BY <1>1, <2>1, <2>2
<1>3. Append(commits, [work |-> w.dirty, stamps |-> {}]) \in Seq(Commit)
  BY <1>1, Committing
<1>. QED  BY <1>1, <1>2, <1>3 DEF Recorded, commits

LEMMA CommitWorkSound ==
  ASSUME IInv, NEW s \in Seat, CommitWork(s)
  PROVE  IInv'
<1>. DEFINE b == branch[s]
            w == tree[s]
            clean == [w EXCEPT !.dirty = {}, !.head = IF @ = "conflict" THEN "detached" ELSE @]
            r == IF w.head = "branch"
                   THEN Left([b EXCEPT !.own = Recorded(b, w)], clean, TRUE)
                   ELSE Left(b, [clean EXCEPT !.loose = Recorded(b, w)], TRUE)
<1>1. b \in Branches /\ w \in Trees /\ b.base <= Tip /\ Recorded(b, w) \in Seq(Commit)
  BY SeatFacts, RecordedType
<1>2. clean \in Trees
  <2>1. (IF w.head = "conflict" THEN "detached" ELSE w.head)
           \in {"branch", "detached", "rebasing", "conflict"}
    BY SeatFacts
  <2>. QED  BY <1>1, <2>1, Nothing, TreeValues
<1>3. Leaves(r)
  <2>1. [b EXCEPT !.own = Recorded(b, w)] \in Branches
        /\ [b EXCEPT !.own = Recorded(b, w)].base <= Tip
    BY <1>1, BranchOwn
  <2>2. [clean EXCEPT !.loose = Recorded(b, w)] \in Trees
    <3>. HIDE DEF clean
    <3>. QED  BY <1>1, <1>2, TreeValues, Nothing
  <2>. HIDE DEF clean, b, w
  <2>. QED  BY <1>1, <1>2, <2>1, <2>2, LeftLeaves
<1>4. job[s].pc = "commit" /\ UNCHANGED <<integration, counters, history>>
  BY DEF CommitWork, Busy
<1>5. CASE Put(s, r) /\ Goto(s, "rebase") /\ UNCHANGED status
  <2>. HIDE DEF r
  <2>1. "rebase" \in PCs  BY DEF PCs
  <2>. QED  BY <1>3, <1>4, <1>5, <2>1, GoesOn
<1>6. CASE Put(s, r) /\ Unlanded(s)
  <2>. HIDE DEF r
  <2>. QED  BY <1>3, <1>4, <1>6, Ends DEF Unlanded
<1>7. CASE Unlanded(s) /\ UNCHANGED <<branch, tree>>
  BY <1>4, <1>7, EndsAsItIs DEF git
<1>. QED  BY <1>5, <1>6, <1>7 DEF CommitWork

LEMMA RebaseOntoSound ==
  ASSUME IInv, NEW s \in Seat, RebaseOnto(s)
  PROVE  IInv'
<1>1. PICK r \in Rebase(branch[s], tree[s]) :
        /\ Put(s, r)
        /\ \/ Goto(s, "stamp") /\ UNCHANGED status
           \/ Unlanded(s)
  BY DEF RebaseOnto
<1>2. Leaves(r)
  BY SeatFacts, RebaseLeaves DEF IInv
<1>3. job[s].pc = "rebase" /\ UNCHANGED <<integration, counters, history>> /\ "stamp" \in PCs
  BY DEF RebaseOnto, Busy, PCs
<1>4. CASE Goto(s, "stamp") /\ UNCHANGED status
  BY <1>1, <1>2, <1>3, <1>4, GoesOn
<1>5. CASE Unlanded(s)
  BY <1>1, <1>2, <1>3, <1>5, Ends DEF Unlanded
<1>. QED  BY <1>1, <1>4, <1>5

LEMMA StampSound ==
  ASSUME IInv, NEW s \in Seat, Stamp(s)
  PROVE  IInv'
<1>. DEFINE b == branch[s]
            w == tree[s]
            t == TaskOf(s)
<1>1. /\ b \in Branches /\ w \in Trees /\ b.base <= Tip /\ b.own \in Seq(Commit)
      /\ t \in Task /\ Leaves(Left(b, w, TRUE)) /\ job[s].pc = "stamp"
      /\ UNCHANGED <<integration, counters, history>>
  BY SeatFacts, BusyTask, LeftLeaves DEF Stamp, Busy
<1>2. CASE ~Changed(b.own, t) /\ Goto(s, "gate") /\ UNCHANGED <<branch, tree, status>>
  <2>1. StampedBy(b.own, t)
    <3>1. ASSUME NEW i \in DOMAIN b.own PROVE t \in b.own[i].stamps
      <4>1. b.own[i] \in Commit /\ b.own[i] = Stamped(b.own[i], t)
        BY <1>1, <1>2, <3>1 DEF Changed
      <4>. QED  BY <4>1 DEF Stamped, Commit
    <3>. QED  BY <3>1 DEF StampedBy
  <2>2. "gate" \in PCs /\ Left(b, w, TRUE).branch = b
    BY DEF PCs, Left
  <2>. HIDE DEF b, w, t
  <2>3. Put(s, Left(b, w, TRUE))
    BY <1>2, Staying DEF b, w
  <2>. QED  BY <1>1, <1>2, <2>1, <2>2, <2>3, GoesOn DEF t
<1>3. CASE /\ Changed(b.own, t) /\ Len(b.own) = 1
           /\ branch' = [branch EXCEPT ![s].own[1] = StampHead(@, t)]
           /\ Goto(s, "gate") /\ UNCHANGED <<tree, status>>
  <2>. DEFINE own == [b.own EXCEPT ![1] = StampHead(b.own[1], t)]
              c == [b EXCEPT !.own = own]
  <2>1. own \in Seq(Commit) /\ StampedBy(own, t)
    <3>1. b.own[1] \in Commit /\ DOMAIN b.own = {1}
      BY <1>1, <1>3
    <3>2. StampHead(b.own[1], t) \in Commit /\ t \in StampHead(b.own[1], t).stamps
      BY <1>1, <3>1 DEF StampHead, Commit
    <3>. QED  BY <1>1, <3>1, <3>2 DEF StampedBy
  <2>2. c \in Branches /\ c.base = b.base /\ c.own = own
    BY <1>1, <2>1, BranchOwn
  <2>3. branch' = [branch EXCEPT ![s] = c] /\ UNCHANGED tree
    BY <1>3
  <2>. HIDE DEF c, own
  <2>4. Put(s, Left(c, w, TRUE))
    BY <2>3, Rewriting
  <2>5. Leaves(Left(c, w, TRUE)) /\ Left(c, w, TRUE).branch = c
    BY <1>1, <2>2, LeftLeaves
  <2>6. "gate" \in PCs
    BY DEF PCs
  <2>. QED  BY <1>1, <1>3, <2>1, <2>2, <2>4, <2>5, <2>6, GoesOn
<1>4. CASE /\ tree' = [tree EXCEPT ![s].head = "detached", ![s].loose = <<>>]
           /\ job' = [job EXCEPT ![s].pc = "replay", ![s].base = Tip]
           /\ UNCHANGED <<branch, status>>
  <2>. DEFINE v == [w EXCEPT !.head = "detached", !.loose = <<>>]
              j == [job[s] EXCEPT !.pc = "replay", !.base = Tip]
  <2>1. v \in Trees /\ v.loose = <<>>
    <3>1. v \in Trees
      BY <1>1, Nothing, TreeValues
    <3>2. v.loose = <<>>
      BY <1>1 DEF Trees
    <3>. QED  BY <3>1, <3>2
  <2>2. tree' = [tree EXCEPT ![s] = v] /\ job' = [job EXCEPT ![s] = j]
    BY <1>4
  <2>3. /\ j \in Jobs /\ j.pc = "replay" /\ j.base = Tip /\ j.task = {t}
    BY <1>1, SeatFacts, BusyTask DEF Jobs
  <2>. HIDE DEF v, j
  <2>4. /\ tree' \in [Seat -> Trees] /\ tree'[s] = v /\ \A o \in Seat \ {s} : tree'[o] = tree[o]
        /\ job' \in [Seat -> Jobs] /\ job'[s] = j /\ \A o \in Seat \ {s} : job'[o] = job[o]
    BY <2>1, <2>2, <2>3 DEF IInv, TypeOK
  <2>5. Tip \in Nat /\ Tip' = Tip
    BY <1>1, SeatFacts DEF Tip
  <2>6. Sound(branch'[s], tree'[s], job'[s], gated'[s], Tip')
    <3>1. branch'[s].base <= Tip' /\ job'[s].base <= Tip' /\ branch'[s] = b
      BY <1>1, <1>4, <2>3, <2>4, <2>5
    <3>2. \A u \in Task : StampedBy(v.loose, u)
      BY <2>1 DEF StampedBy
    <3>3. Len(v.loose) = 0 /\ Len(b.own) \in Nat
      BY <1>1, <2>1
    <3>. QED  BY <1>1, <2>3, <2>4, <3>1, <3>2, <3>3 DEF Sound
  <2>. QED  BY <1>1, <1>4, <2>4, <2>5, <2>6, SeatMoves DEF IInv, TypeOK, Statuses, counters, history
<1>5. CASE Unlanded(s) /\ UNCHANGED <<branch, tree>>
  BY <1>1, <1>5, EndsAsItIs DEF git
<1>. QED  BY <1>2, <1>3, <1>4, <1>5 DEF Stamp

LEMMA GivesUp ==
  ASSUME IInv, NEW s \in Seat, NEW b \in Branches, NEW w \in Trees, b.base <= Tip,
         GiveUp(s, b, w), UNCHANGED <<integration, counters, history>>
  PROVE  IInv'
<1>1. PICK r \in Restore(b, w) : Put(s, Left(b, r, FALSE))
  BY DEF GiveUp
<1>2. Leaves(Left(b, r, FALSE))
  BY RestoreLeaves, LeftLeaves
<1>3. Release(s)
  BY DEF GiveUp, Unlanded
<1>. QED  BY <1>1, <1>2, <1>3, Ends

\* What a replay is given, and what it adds.
LEMMA Replaying ==
  ASSUME IInv, NEW s \in Seat, job[s].pc = "replay"
  PROVE  StampedBy(tree[s].loose, TaskOf(s)) /\ Len(tree[s].loose) <= Len(branch[s].own)
BY SeatFacts, BusyTask DEF Sound

LEMMA StampedAppend ==
  ASSUME NEW commits \in Seq(Commit), NEW commit \in Commit, NEW t \in Task, StampedBy(commits, t)
  PROVE  /\ Append(commits, Stamped(commit, t)) \in Seq(Commit)
         /\ Len(Append(commits, Stamped(commit, t))) = Len(commits) + 1
         /\ StampedBy(Append(commits, Stamped(commit, t)), t)
<1>1. Stamped(commit, t) \in Commit /\ t \in Stamped(commit, t).stamps
  BY DEF Stamped, Commit
<1>. QED  BY <1>1 DEF StampedBy

LEMMA PickSound ==
  ASSUME IInv, NEW s \in Seat, Pick(s)
  PROVE  IInv'
<1>. DEFINE b == branch[s]
            w == tree[s]
            t == TaskOf(s)
            next == b.own[Len(w.loose) + 1]
            picked == [w EXCEPT !.dirty = next.work]
            conflicted == [w EXCEPT !.head = "conflict"]
            loose == Append(w.loose, Stamped(next, t))
            v == [w EXCEPT !.loose = loose]
<1>1. /\ b \in Branches /\ w \in Trees /\ b.base <= Tip /\ b.own \in Seq(Commit)
      /\ w.loose \in Seq(Commit) /\ t \in Task /\ job[s].pc = "replay"
      /\ UNCHANGED <<integration, counters, history>>
  BY SeatFacts, BusyTask DEF Pick, Busy
<1>2. StampedBy(w.loose, t) /\ Len(w.loose) + 1 \in 1 .. Len(b.own)
  <2>1. StampedBy(w.loose, t) /\ Len(w.loose) <= Len(b.own)
    BY <1>1, Replaying
  <2>2. Len(w.loose) # Len(b.own) /\ Len(w.loose) \in Nat /\ Len(b.own) \in Nat
    BY <1>1 DEF Pick, Replayed
  <2>. QED  BY <2>1, <2>2
<1>3. next \in Commit /\ next.work \in SUBSET Work
  <2>1. next \in Commit
    BY <1>1, <1>2
  <2>. HIDE DEF next
  <2>. QED  BY <2>1 DEF Commit
<1>4. picked \in Trees /\ conflicted \in Trees
  <2>. HIDE DEF next
  <2>. QED  BY <1>1, <1>3, TreeValues, Nothing
<1>5. CASE GiveUp(s, b, w) \/ GiveUp(s, b, picked) \/ GiveUp(s, b, conflicted)
  <2>. HIDE DEF b, w, picked, conflicted
  <2>. QED  BY <1>1, <1>4, <1>5, GivesUp
<1>6. CASE tree' = [tree EXCEPT ![s].loose = loose] /\ UNCHANGED <<branch, job, status>>
  <2>1. loose \in Seq(Commit) /\ StampedBy(loose, t) /\ Len(loose) <= Len(b.own)
    <3>. HIDE DEF next, b, w, t
    <3>. QED  BY <1>1, <1>2, <1>3, StampedAppend
  <2>2. v \in Trees /\ v.loose = loose
    <3>1. v \in Trees
      BY <1>1, <2>1, Nothing, TreeValues
    <3>. QED  BY <1>1, <3>1 DEF Trees
  <2>3. tree' = [tree EXCEPT ![s] = v]
    BY <1>6
  <2>. HIDE DEF v, loose
  <2>4. tree' \in [Seat -> Trees] /\ tree'[s] = v /\ \A o \in Seat \ {s} : tree'[o] = tree[o]
    BY <2>2, <2>3 DEF IInv, TypeOK
  <2>5. Tip \in Nat /\ Tip' = Tip /\ branch' = branch /\ job' = job /\ gated' = gated
    BY <1>1, <1>6, SeatFacts DEF Tip, history
  <2>6. Sound(branch'[s], tree'[s], job'[s], gated'[s], Tip')
    <3>1. \A u \in Task : job[s].task = {u} => u = t
      BY <1>1, BusyTask
    <3>2. Sound(b, w, job[s], gated[s], Tip)
      BY SeatFacts
    <3>. QED  BY <1>1, <2>1, <2>2, <2>4, <2>5, <3>1, <3>2 DEF Sound
  <2>. QED  BY <1>1, <1>6, <2>4, <2>5, <2>6, SeatMoves DEF IInv, TypeOK, Statuses, counters, history
<1>. QED  BY <1>5, <1>6 DEF Pick

LEMMA MoveBranchSound ==
  ASSUME IInv, NEW s \in Seat, MoveBranch(s)
  PROVE  IInv'
<1>. DEFINE b == branch[s]
            w == tree[s]
            t == TaskOf(s)
            moved == [b EXCEPT !.base = job[s].base, !.own = w.loose]
            r == Left(moved, OnBranch(w), TRUE)
<1>1. /\ b \in Branches /\ w \in Trees /\ b.base <= Tip /\ w.loose \in Seq(Commit)
      /\ job[s].base \in Nat /\ job[s].base <= Tip /\ job[s].pc = "replay"
      /\ UNCHANGED <<integration, counters, history>>
  BY SeatFacts DEF MoveBranch, Busy
<1>2. moved \in Branches /\ moved.base = job[s].base /\ moved.own = w.loose
  <2>. HIDE DEF b, w
  <2>. QED  BY <1>1 DEF Branches
<1>3. StampedBy(moved.own, t)
  BY <1>1, <1>2, Replaying
<1>4. OnBranch(w) \in Trees
  BY <1>1, TreeValues, Nothing
<1>. HIDE DEF moved
<1>5. Leaves(r) /\ r.branch = moved
  BY <1>1, <1>2, <1>4, LeftLeaves
<1>. HIDE DEF r, b, w, t
<1>6. CASE Put(s, r) /\ Goto(s, "gate") /\ UNCHANGED status
  <2>1. "gate" \in PCs  BY DEF PCs
  <2>. QED  BY <1>1, <1>3, <1>5, <1>6, <2>1, GoesOn DEF t
<1>7. CASE GiveUp(s, b, w) \/ GiveUp(s, moved, w)
  BY <1>1, <1>2, <1>7, GivesUp
<1>. QED  BY <1>6, <1>7 DEF MoveBranch, moved, r, b, w, t

LEMMA GateSound ==
  ASSUME IInv, NEW s \in Seat, Gate(s)
  PROVE  IInv'
<1>1. CASE Unlanded(s) /\ UNCHANGED gated
  BY <1>1, EndsAsItIs DEF Gate, history
<1>2. CASE Goto(s, "merge") /\ UNCHANGED status /\ gated' = [gated EXCEPT ![s] = branch[s]]
  <2>1. "merge" \in PCs  BY DEF PCs
  <2>2. /\ job' \in [Seat -> Jobs] /\ \A o \in Seat \ {s} : job'[o] = job[o]
        /\ job'[s].pc = "merge" /\ job'[s].task = job[s].task /\ job'[s].base = job[s].base
    BY <1>2, <2>1, Going
  <2>3. /\ gated' \in [Seat -> Branches] /\ gated'[s] = branch[s]
        /\ \A o \in Seat \ {s} : gated'[o] = gated[o]
    BY <1>2, SeatFacts DEF IInv, TypeOK
  <2>4. /\ branch' = branch /\ tree' = tree /\ integration' = integration /\ Tip' = Tip
        /\ crashes' = crashes /\ sessions' = sessions
        /\ wrought' = wrought /\ estray' = estray /\ closer' = closer
    BY DEF Gate, git, counters, Tip
  <2>5. job[s].pc = "gate" /\ Tip \in Nat
    BY SeatFacts DEF Gate, Busy
  <2>6. Sound(branch'[s], tree'[s], job'[s], gated'[s], Tip')
    <3>1. Sound(branch[s], tree[s], job[s], gated[s], Tip)
      BY SeatFacts
    <3>. QED  BY <2>2, <2>3, <2>4, <2>5, <3>1 DEF Sound
  <2>. QED  BY <1>2, <2>2, <2>3, <2>4, <2>5, <2>6, SeatMoves DEF IInv, TypeOK, Statuses
<1>. QED  BY <1>1, <1>2 DEF Gate

\* What the fast-forward of a branch with work finds.
LEMMA Merging ==
  ASSUME IInv, NEW s \in Seat, job[s].pc = "merge", ~Behind(branch[s])
  PROVE  /\ gated[s] = branch[s] /\ branch[s].base = Tip
         /\ StampedBy(branch[s].own, TaskOf(s))
<1>1. branch[s].base = Tip
  BY SeatFacts DEF Behind
<1>. QED  BY <1>1, SeatFacts, BusyTask DEF Sound

LEMMA FastForwardSound ==
  ASSUME IInv, NEW s \in Seat, FastForward(s)
  PROVE  IInv'
<1>. DEFINE b == branch[s]
            c == IF b.own = <<>> THEN b ELSE [b EXCEPT !.base = Tip + Len(b.own), !.own = <<>>]
<1>1. /\ b \in Branches /\ b.base \in Nat /\ b.base <= Tip /\ b.own \in Seq(Commit) /\ Tip \in Nat
      /\ integration \in Seq(Commit) /\ job[s].pc = "merge" /\ UNCHANGED <<tree, counters, history>>
  BY SeatFacts DEF FastForward, Busy, IInv, TypeOK
<1>2. CASE /\ integration' = integration \o b.own
           /\ branch' = IF b.own = <<>> THEN branch
                        ELSE [branch EXCEPT ![s].base = Tip + Len(b.own), ![s].own = <<>>]
           /\ Goto(s, "landed") /\ UNCHANGED status
  <2>1. integration' \in Seq(Commit) /\ Tip' \in Nat /\ Tip' = Tip + Len(b.own) /\ Tip <= Tip'
    BY <1>1, <1>2 DEF Tip
  <2>2. c \in Branches /\ c.base <= Tip'
    <3>1. CASE b.own = <<>>
      BY <1>1, <2>1, <3>1
    <3>2. CASE b.own # <<>>
      <4>1. Tip + Len(b.own) \in Nat
        BY <1>1
      <4>2. c = [b EXCEPT !.base = Tip + Len(b.own), !.own = <<>>]
        BY <3>2
      <4>. HIDE DEF c, b
      <4>3. c \in Branches /\ c.base = Tip + Len(b.own)
        BY <1>1, <4>1, <4>2, Nothing DEF Branches
      <4>. QED  BY <2>1, <4>1, <4>3
    <3>. QED  BY <3>1, <3>2
  <2>3. branch' = [branch EXCEPT ![s] = c]
    <3>1. branch \in [Seat -> Branches]
      BY DEF IInv, TypeOK
    <3>. QED  BY <1>2, <3>1
  <2>. HIDE DEF c
  <2>4. /\ branch' \in [Seat -> Branches] /\ branch'[s] = c
        /\ \A o \in Seat \ {s} : branch'[o] = branch[o]
    BY <2>2, <2>3 DEF IInv, TypeOK
  <2>5. /\ job' \in [Seat -> Jobs] /\ \A o \in Seat \ {s} : job'[o] = job[o]
        /\ job'[s].pc = "landed" /\ job'[s].task = job[s].task /\ job'[s].base = job[s].base
    <3>1. "landed" \in PCs  BY DEF PCs
    <3>. QED  BY <1>2, <3>1, Going
  <2>6. Sound(branch'[s], tree'[s], job'[s], gated'[s], Tip')
    <3>1. job'[s].base <= Tip' /\ branch'[s].base <= Tip'
      BY <2>1, <2>2, <2>4, <2>5, SeatFacts
    <3>2. \E t \in Task : job'[s].task = {t}
      BY <1>1, <2>5, BusyTask
    <3>. QED  BY <2>5, <3>1, <3>2 DEF Sound
  <2>. QED  BY <1>1, <1>2, <2>1, <2>4, <2>5, <2>6, SeatMoves DEF IInv, TypeOK, Statuses, counters, history
<1>3. CASE UNCHANGED <<integration, branch>> /\ Unlanded(s)
  BY <1>1, <1>3, EndsAsItIs DEF git
<1>4. CASE /\ UNCHANGED <<integration, branch>>
           /\ job' = [job EXCEPT ![s].pc = "rebase", ![s].again = TRUE] /\ UNCHANGED status
  <2>. DEFINE j == [job[s] EXCEPT !.pc = "rebase", !.again = TRUE]
  <2>1. j \in Jobs /\ j.pc = "rebase" /\ j.task = job[s].task /\ j.base = job[s].base
    BY SeatFacts DEF Jobs
  <2>2. job' = [job EXCEPT ![s] = j]
    BY <1>4
  <2>. HIDE DEF j
  <2>3. job' \in [Seat -> Jobs] /\ job'[s] = j /\ \A o \in Seat \ {s} : job'[o] = job[o]
    BY <2>1, <2>2 DEF IInv, TypeOK
  <2>4. Tip' = Tip /\ branch' = branch /\ tree' = tree /\ gated' = gated
    BY <1>1, <1>4 DEF Tip, history
  <2>5. Sound(branch'[s], tree'[s], job'[s], gated'[s], Tip')
    <3>1. \E t \in Task : j.task = {t}
      BY <1>1, <2>1, BusyTask
    <3>. QED  BY <1>1, <2>1, <2>3, <2>4, <3>1, SeatFacts DEF Sound
  <2>. QED  BY <1>1, <1>4, <2>3, <2>4, <2>5, SeatMoves DEF IInv, TypeOK, Statuses, counters, history
<1>. QED  BY <1>2, <1>3, <1>4 DEF FastForward

LEMMA LandedSound ==
  ASSUME IInv, NEW s \in Seat, Landed(s)
  PROVE  IInv'
<1>1. CASE Release(s) /\ UNCHANGED closer
  BY <1>1, EndsAsItIs DEF Landed, Unlanded, history
<1>2. CASE /\ status' = [status EXCEPT ![TaskOf(s)] = "closed"]
           /\ closer' = closer \cup {<<s, TaskOf(s)>>}
           /\ job' = [job EXCEPT ![s] = Idle]
  <2>1. Idle \in Jobs
    BY DEF Idle, Jobs
  <2>2. job' \in [Seat -> Jobs] /\ job'[s] = Idle /\ \A o \in Seat \ {s} : job'[o] = job[o]
    BY <1>2, <2>1 DEF IInv, TypeOK
  <2>3. status' \in [Task -> Statuses]
    BY <1>2 DEF IInv, TypeOK, Statuses
  <2>4. closer' \subseteq Work
    <3>1. TaskOf(s) \in Task
      BY BusyTask DEF Landed, Busy
    <3>. QED  BY <1>2, <3>1 DEF IInv, TypeOK, Work
  <2>5. /\ branch' = branch /\ tree' = tree /\ integration' = integration /\ Tip' = Tip
        /\ crashes' = crashes /\ sessions' = sessions
        /\ wrought' = wrought /\ estray' = estray /\ gated' = gated
    BY DEF Landed, git, counters, Tip
  <2>6. Sound(branch'[s], tree'[s], job'[s], gated'[s], Tip')
    BY <2>2, <2>5, SeatFacts, IdleSound
  <2>. QED  BY <2>2, <2>3, <2>4, <2>5, <2>6, SeatFacts, SeatMoves DEF IInv, TypeOK, Statuses
<1>. QED  BY <1>1, <1>2 DEF Landed

LEMMA ForeignSound == ASSUME IInv, Foreign PROVE IInv'
<1>1. integration' = Append(integration, [work |-> {}, stamps |-> {}])
      /\ UNCHANGED <<branch, tree, job, status, counters, history>>
  BY DEF Foreign
<1>2. integration' \in Seq(Commit) /\ Tip \in Nat /\ Tip' = Tip + 1
  <2>1. integration \in Seq(Commit) /\ [work |-> {}, stamps |-> {}] \in Commit
    BY DEF IInv, TypeOK, Commit
  <2>. QED  BY <1>1, <2>1 DEF Tip
<1>3. TypeOK'
  BY <1>1, <1>2 DEF IInv, TypeOK, counters, history
<1>4. ASSUME NEW o \in Seat PROVE Sound(branch'[o], tree'[o], job'[o], gated'[o], Tip')
  <2>1. branch[o].base \in Nat /\ job[o].base \in Nat /\ Sound(branch[o], tree[o], job[o], gated[o], Tip)
    BY SeatFacts
  <2>2. Sound(branch[o], tree[o], job[o], gated[o], Tip')
    BY <1>2, <2>1, SoundGrows
  <2>. QED  BY <1>1, <2>2 DEF history
<1>. QED  BY <1>3, <1>4 DEF IInv

LEMMA CrashSound == ASSUME IInv, Crash PROVE IInv'
<1>1. PICK inside \in SUBSET Seat :
        tree' = [s \in Seat |-> IF s \in inside
                                  THEN [tree[s] EXCEPT !.head = "rebasing", !.loose = <<>>]
                                  ELSE tree[s]]
  BY DEF Crash
<1>2. /\ crashes' = crashes + 1 /\ crashes < MaxCrashes /\ job' = [s \in Seat |-> Idle]
      /\ status' = [t \in Task |-> IF status[t] = "claimed" THEN "open" ELSE status[t]]
      /\ UNCHANGED <<integration, branch, sessions, history>>
  BY DEF Crash, RecoveredTasks
<1>3. tree' \in [Seat -> Trees]
  <2>1. ASSUME NEW s \in Seat PROVE [tree[s] EXCEPT !.head = "rebasing", !.loose = <<>>] \in Trees
    BY SeatFacts, TreeValues, Nothing
  <2>. QED  BY <1>1, <2>1, SeatFacts
<1>4. Idle \in Jobs
  BY DEF Idle, Jobs
<1>5. TypeOK'
  BY <1>2, <1>3, <1>4, LandingAssumption DEF IInv, TypeOK, history
<1>6. ASSUME NEW o \in Seat PROVE Sound(branch'[o], tree'[o], job'[o], gated'[o], Tip')
  <2>1. branch[o].base <= Tip /\ Tip \in Nat
    BY SeatFacts
  <2>2. Sound(branch[o], tree'[o], Idle, gated'[o], Tip)
    BY <2>1, IdleSound
  <2>. QED  BY <1>2, <2>2 DEF Tip
<1>. QED  BY <1>5, <1>6 DEF IInv

LEMMA NextSound == IInv /\ [Next]_vars => IInv'
<1>. SUFFICES ASSUME IInv, [Next]_vars PROVE IInv'  OBVIOUS
<1>1. CASE UNCHANGED vars
  <2>1. TypeOK'
    BY <1>1 DEF IInv, TypeOK, vars, git, counters, history
  <2>. QED  BY <1>1, <2>1 DEF IInv, vars, git, history, Tip
<1>2. ASSUME NEW s \in Seat, SeatStep(s) PROVE IInv'
  BY <1>2, SeatReadySound, AgentSound, AgentDoneSound, AgentFailedSound, CommitWorkSound,
     RebaseOntoSound, StampSound, PickSound, MoveBranchSound, GateSound, FastForwardSound,
     LandedSound DEF SeatStep
<1>. QED  BY <1>1, <1>2, ForeignSound, CrashSound DEF Next

\* The branch of a seat starts on integration, a gate and a merge see only
\* commits stamped with the task that is landed, and every variable has its
\* type.
THEOREM SeatsSound == Spec => []IInv
BY InitHolds, NextSound, PTL DEF Spec

-----------------------------------------------------------------------------
(* What agents write is kept.                                               *)

Holds(commits, piece) == \E i \in DOMAIN commits : piece \in commits[i].work

SameWork(loose, own) == \A i \in DOMAIN loose : loose[i].work = own[i].work

Committed == {"rebase", "stamp", "replay", "gate", "merge", "landed"}

Rooted(b, w) == (w.made => b.made) /\ (~b.made => b.own = <<>>)

\* Work that was done on the branch is on integration or on the branch, or
\* waits in the worktree while HEAD is on the branch; a landing past its
\* commit has nothing waiting, and a replay holds the branch's work again.
Keeps(s, b, w, j, landed, done) ==
  /\ Rooted(b, w)
  /\ j.pc # "idle" => w.made
  /\ j.pc \in Committed => w.dirty = {}
  /\ j.pc = "replay" => SameWork(w.loose, b.own)
  /\ \A t \in Task : <<s, t>> \in done =>
       \/ Holds(landed, <<s, t>>) \/ Holds(b.own, <<s, t>>)
       \/ w.head = "branch" /\ <<s, t>> \in w.dirty

Keeping ==
  \A s \in Seat : Keeps(s, branch[s], tree[s], job[s], integration, wrought \ estray)

\* A task has one session at most, and is claimed as long as it has one.
Claims ==
  \A s \in Seat, t \in Task : job[s].task = {t} =>
    /\ status[t] = "claimed"
    /\ \A o \in Seat : job[o].task = {t} => o = s

\* What is closed is on integration.
Closings ==
  /\ \A t \in Task : status[t] = "closed" => TaskLanded(t)
  /\ \A s \in Seat, t \in Task : <<s, t>> \in closer =>
       /\ status[t] = "closed"
       /\ <<s, t>> \in wrought \ estray => Holds(integration, <<s, t>>)

KInv == Keeping /\ Claims /\ Closings


LEMMA InitKeeps == Init => KInv
<1>. SUFFICES ASSUME Init PROVE KInv  OBVIOUS
<1>1. Keeping
  BY DEF Init, Keeping, Keeps, Rooted, NoBranch, NoTree, Idle, Committed
<1>2. Claims /\ Closings
  BY DEF Init, Claims, Closings, Idle
<1>. QED  BY <1>1, <1>2 DEF KInv

LEMMA HoldsIsContents ==
  ASSUME NEW commits, NEW piece
  PROVE  Holds(commits, piece) <=> piece \in Contents(commits)
BY DEF Holds, Contents

LEMMA HoldsAppended ==
  ASSUME NEW commits \in Seq(Commit), NEW commit \in Commit, NEW piece
  PROVE  Holds(Append(commits, commit), piece) <=> Holds(commits, piece) \/ piece \in commit.work
<1>1. /\ Append(commits, commit) \in Seq(Commit)
      /\ DOMAIN Append(commits, commit) = 1 .. Len(commits) + 1 /\ DOMAIN commits = 1 .. Len(commits)
      /\ \A i \in 1 .. Len(commits) : Append(commits, commit)[i] = commits[i]
      /\ Append(commits, commit)[Len(commits) + 1] = commit /\ Len(commits) \in Nat
  OBVIOUS
<1>2. DOMAIN Append(commits, commit) = DOMAIN commits \cup {Len(commits) + 1}
  BY <1>1
<1>. QED  BY <1>1, <1>2, Zenon DEF Holds

LEMMA HoldsJoined ==
  ASSUME NEW commits \in Seq(Commit), NEW more \in Seq(Commit), NEW piece
  PROVE  Holds(commits \o more, piece) <=> Holds(commits, piece) \/ Holds(more, piece)
<1>1. /\ Len(commits) \in Nat /\ Len(more) \in Nat
      /\ DOMAIN commits = 1 .. Len(commits) /\ DOMAIN more = 1 .. Len(more)
      /\ DOMAIN (commits \o more) = 1 .. Len(commits) + Len(more)
      /\ \A i \in 1 .. Len(commits) : (commits \o more)[i] = commits[i]
      /\ \A i \in 1 .. Len(more) : (commits \o more)[Len(commits) + i] = more[i]
  OBVIOUS
<1>2. ASSUME Holds(commits \o more, piece) PROVE Holds(commits, piece) \/ Holds(more, piece)
  <2>1. PICK i \in 1 .. Len(commits) + Len(more) : piece \in (commits \o more)[i].work
    BY <1>1, <1>2 DEF Holds
  <2>2. CASE i \in 1 .. Len(commits)
    BY <1>1, <2>1, <2>2 DEF Holds
  <2>3. CASE i \notin 1 .. Len(commits)
    <3>1. i - Len(commits) \in 1 .. Len(more) /\ Len(commits) + (i - Len(commits)) = i
      BY <1>1, <2>3
    <3>2. (commits \o more)[i] = more[i - Len(commits)]
      BY <1>1, <3>1
    <3>. QED  BY <1>1, <2>1, <3>1, <3>2 DEF Holds
  <2>. QED  BY <2>2, <2>3
<1>3. ASSUME Holds(commits, piece) PROVE Holds(commits \o more, piece)
  <2>1. PICK i \in 1 .. Len(commits) : piece \in commits[i].work
    BY <1>1, <1>3 DEF Holds
  <2>2. i \in 1 .. Len(commits) + Len(more)
    BY <1>1
  <2>. QED  BY <1>1, <2>1, <2>2 DEF Holds
<1>4. ASSUME Holds(more, piece) PROVE Holds(commits \o more, piece)
  <2>1. PICK i \in 1 .. Len(more) : piece \in more[i].work
    BY <1>1, <1>4 DEF Holds
  <2>2. Len(commits) + i \in 1 .. Len(commits) + Len(more)
    BY <1>1
  <2>. QED  BY <1>1, <2>1, <2>2 DEF Holds
<1>. QED  BY <1>2, <1>3, <1>4

\* Pipeline.commit leaves nothing behind.
LEMMA RecordedHolds ==
  ASSUME NEW b \in Branches, NEW w \in Trees, w.head = "branch", NEW piece
  PROVE  Holds(Recorded(b, w), piece) <=> Holds(b.own, piece) \/ piece \in w.dirty
<1>1. AtHead(b, w) = b.own /\ b.own \in Seq(Commit) /\ w.dirty \in SUBSET Work
  BY DEF AtHead, Branches, Trees
<1>2. CASE b.own # <<>>
  <2>. DEFINE last == Len(b.own)
              own == [b.own EXCEPT ![last].work = @ \cup w.dirty]
  <2>1. Recorded(b, w) = own
    BY <1>1, <1>2 DEF Recorded
  <2>2. last \in DOMAIN b.own /\ b.own[last] \in Commit
    BY <1>1, <1>2
  <2>3. DOMAIN own = DOMAIN b.own /\ \A i \in DOMAIN b.own \ {last} : own[i] = b.own[i]
    BY <1>1
  <2>4. own[last].work = b.own[last].work \cup w.dirty
    BY <1>1, <2>2 DEF Commit
  <2>. HIDE DEF own, last
  <2>. QED  BY <2>1, <2>2, <2>3, <2>4, Zenon DEF Holds
<1>3. CASE b.own = <<>>
  <2>1. ~Holds(b.own, piece)
    BY <1>3 DEF Holds
  <2>2. CASE w.dirty = {}
    BY <1>1, <1>3, <2>1, <2>2 DEF Recorded
  <2>3. CASE w.dirty # {}
    <3>. DEFINE commit == [work |-> w.dirty, stamps |-> {}]
    <3>1. Recorded(b, w) = Append(b.own, commit)
      BY <1>1, <1>3, <2>3 DEF Recorded
    <3>2. commit \in Commit /\ commit.work = w.dirty
      BY <1>1 DEF Commit
    <3>. HIDE DEF commit
    <3>. QED  BY <1>1, <2>1, <3>1, <3>2, HoldsAppended
  <2>. QED  BY <2>2, <2>3
<1>. QED  BY <1>2, <1>3

\* A git command that leaves the branch's commits, and changes that are not
\* committed where HEAD is on the branch.
Spares(b, w, r) ==
  /\ Rooted(r.branch, r.tree) /\ (w.made => r.tree.made)
  /\ r.branch.own = b.own
  /\ w.head = "branch" /\ w.dirty # {} => r.tree.head = "branch" /\ r.tree.dirty = w.dirty
  /\ w.dirty = {} => r.tree.dirty = {}

LEMMA SparesAsItIs ==
  ASSUME NEW b, NEW w, Rooted(b, w), NEW ok
  PROVE  Spares(b, w, Left(b, w, ok))
BY DEF Spares, Left

LEMMA OnBranchFields ==
  ASSUME NEW w \in Trees
  PROVE  /\ OnBranch(w).made = w.made /\ OnBranch(w).head = "branch" /\ OnBranch(w).dirty = w.dirty
         /\ [OnBranch(w) EXCEPT !.dirty = {}].made = w.made
         /\ [OnBranch(w) EXCEPT !.dirty = {}].dirty = {}
BY DEF OnBranch, Trees

LEMMA AbortSpares ==
  ASSUME NEW b \in Branches, NEW w \in Trees, Rooted(b, w), NEW r \in AbortRebase(b, w)
  PROVE  Spares(b, w, r)
<1>1. CASE r = Left(b, w, FALSE)
  BY <1>1, SparesAsItIs
<1>2. CASE w.head = "rebasing" /\ r = Left(b, [OnBranch(w) EXCEPT !.dirty = {}], FALSE)
  BY <1>2, OnBranchFields DEF Spares, Left, Rooted
<1>. QED  BY <1>1, <1>2 DEF AbortRebase

LEMMA RebaseSpares ==
  ASSUME NEW b \in Branches, NEW w \in Trees, Rooted(b, w), NEW r \in Rebase(b, w)
  PROVE  Spares(b, w, r)
<1>1. CASE r \in AbortRebase(b, w)
  BY <1>1, AbortSpares
<1>2. CASE ~Dirty(w) /\ r = Left([b EXCEPT !.base = Tip], OnBranch(w), TRUE)
  <2>1. w.dirty = {}
    BY <1>2 DEF Dirty
  <2>2. [b EXCEPT !.base = Tip].own = b.own /\ [b EXCEPT !.base = Tip].made = b.made
    BY DEF Branches
  <2>. QED  BY <1>2, <2>1, <2>2, OnBranchFields DEF Spares, Left, Rooted
<1>3. CASE ~Dirty(w) /\ r \in AbortRebase(b, [w EXCEPT !.head = "rebasing", !.loose = <<>>])
  <2>. DEFINE v == [w EXCEPT !.head = "rebasing", !.loose = <<>>]
  <2>1. w.dirty = {}
    BY <1>3 DEF Dirty
  <2>2. v \in Trees /\ v.made = w.made /\ v.dirty = w.dirty
    <3>1. v \in Trees
      BY TreeValues, Nothing
    <3>. QED  BY <3>1 DEF Trees
  <2>. HIDE DEF v
  <2>3. Rooted(b, v)
    BY <2>2 DEF Rooted
  <2>4. Spares(b, v, r)
    BY <1>3, <2>2, <2>3, AbortSpares DEF v
  <2>. QED  BY <2>1, <2>2, <2>4 DEF Spares
<1>. QED  BY <1>1, <1>2, <1>3 DEF Rebase

LEMMA EnsureSpares ==
  ASSUME NEW b \in Branches, NEW w \in Trees, Rooted(b, w), NEW r \in Ensure(b, w)
  PROVE  Spares(b, w, r) /\ (r.ok => r.tree.made)
<1>. DEFINE cut == IF b.made THEN b ELSE [NoBranch EXCEPT !.made = TRUE, !.base = Tip]
            v == [w EXCEPT !.made = TRUE]
<1>1. cut.made /\ cut.own = b.own
  <2>1. CASE b.made
    BY <2>1
  <2>2. CASE ~b.made
    <3>1. cut = [made |-> TRUE, base |-> Tip, own |-> <<>>]
      BY <2>2 DEF NoBranch
    <3>. QED  BY <2>2, <3>1 DEF Rooted
  <2>. QED  BY <2>1, <2>2
<1>2. v.made /\ v.head = w.head /\ v.dirty = w.dirty
  BY DEF Trees
<1>3. CASE w.made /\ r = Left(b, w, TRUE)
  BY <1>3, SparesAsItIs DEF Left
<1>4. CASE r = Left(b, w, FALSE)
  BY <1>4, SparesAsItIs DEF Left
<1>5. CASE r = Left(cut, v, TRUE) \/ r = Left(cut, w, FALSE)
  <2>. HIDE DEF cut, v
  <2>. QED  BY <1>1, <1>2, <1>5 DEF Spares, Left, Rooted
<1>. QED  BY <1>3, <1>4, <1>5 DEF Ensure, Create, Registered

LEMMA SyncSpares ==
  ASSUME NEW b \in Branches, NEW w \in Trees, Rooted(b, w), NEW r \in Sync(b, w)
  PROVE  Spares(b, w, r)
<1>. DEFINE c == [b EXCEPT !.base = Tip]
            v == [w EXCEPT !.loose = <<>>]
<1>1. CASE r = Left(b, w, TRUE) \/ r = Left(b, w, FALSE)
  BY <1>1, SparesAsItIs
<1>2. CASE r = Left(c, w, TRUE) \/ r = Left(b, v, TRUE)
  <2>1. c.own = b.own /\ c.made = b.made
    BY DEF Branches
  <2>2. v.made = w.made /\ v.head = w.head /\ v.dirty = w.dirty
    BY DEF Trees
  <2>. HIDE DEF c, v
  <2>. QED  BY <1>2, <2>1, <2>2 DEF Spares, Left, Rooted
<1>3. CASE r \in Rebase(b, w)
  BY <1>3, RebaseSpares
<1>. QED  BY <1>1, <1>2, <1>3 DEF Sync

LEMMA SparesAgain ==
  ASSUME NEW b, NEW w, NEW e, NEW r, Spares(b, w, e), Spares(e.branch, e.tree, r)
  PROVE  Spares(b, w, r)
BY DEF Spares

\* A seat moves, and what the others have done stays where it was.
LEMMA SeatKept ==
  ASSUME Keeping, NEW s \in Seat,
         \A o \in Seat \ {s} : branch'[o] = branch[o] /\ tree'[o] = tree[o] /\ job'[o] = job[o],
         \A piece : Holds(integration, piece) => Holds(integration', piece),
         \A o \in Seat \ {s}, t \in Task : <<o, t>> \in wrought' \ estray' => <<o, t>> \in wrought \ estray,
         Keeps(s, branch'[s], tree'[s], job'[s], integration', wrought' \ estray')
  PROVE  Keeping'
<1>1. ASSUME NEW o \in Seat \ {s}
      PROVE  Keeps(o, branch'[o], tree'[o], job'[o], integration', wrought' \ estray')
  <2>1. Keeps(o, branch[o], tree[o], job[o], integration, wrought \ estray)
    BY DEF Keeping
  <2>2. Keeps(o, branch[o], tree[o], job[o], integration', wrought' \ estray')
    BY <2>1, Zenon DEF Keeps
  <2>. QED  BY <2>2
<1>. QED  BY <1>1 DEF Keeping

\* A landing that goes on, or a session that ends, with a worktree that
\* lacks nothing its branch does not hold.
LEMMA KeptOn ==
  ASSUME IInv, Keeping, NEW s \in Seat, NEW pc \in PCs,
         job'[s].pc = pc, \A o \in Seat \ {s} : job'[o] = job[o],
         NEW r, r.branch \in Branches, r.tree \in Trees, Put(s, r),
         UNCHANGED <<integration, wrought, estray>>,
         Spares(branch[s], tree[s], r),
         pc # "idle" => r.tree.made, pc \in Committed => r.tree.dirty = {},
         pc = "replay" => SameWork(r.tree.loose, r.branch.own)
  PROVE  Keeping'
<1>1. /\ branch'[s] = r.branch /\ \A o \in Seat \ {s} : branch'[o] = branch[o]
      /\ tree'[s] = r.tree /\ \A o \in Seat \ {s} : tree'[o] = tree[o]
  BY Putting
<1>2. Keeps(s, branch[s], tree[s], job[s], integration, wrought \ estray)
  BY DEF Keeping
<1>3. Keeps(s, branch'[s], tree'[s], job'[s], integration', wrought' \ estray')
  <2>1. Rooted(r.branch, r.tree)
    BY DEF Spares
  <2>2. ASSUME NEW t \in Task, <<s, t>> \in wrought \ estray
        PROVE  \/ Holds(integration, <<s, t>>) \/ Holds(r.branch.own, <<s, t>>)
               \/ r.tree.head = "branch" /\ <<s, t>> \in r.tree.dirty
    BY <1>2, <2>2 DEF Keeps, Spares
  <2>. QED  BY <1>1, <2>1, <2>2 DEF Keeps
<1>. QED  BY <1>1, <1>3, SeatKept

\* The seat as it is.
LEMMA SeatKeeps ==
  ASSUME Keeping, NEW s \in Seat
  PROVE  /\ Keeps(s, branch[s], tree[s], job[s], integration, wrought \ estray)
         /\ Rooted(branch[s], tree[s])
         /\ job[s].pc # "idle" => tree[s].made
         /\ job[s].pc \in Committed => tree[s].dirty = {}
BY DEF Keeping, Keeps

LEMMA EndsKept ==
  ASSUME IInv, Keeping, NEW s \in Seat, Release(s),
         NEW r, r.branch \in Branches, r.tree \in Trees, Put(s, r),
         UNCHANGED <<integration, wrought, estray>>, Spares(branch[s], tree[s], r)
  PROVE  Keeping'
<1>1. job'[s].pc = "idle" /\ \A o \in Seat \ {s} : job'[o] = job[o]
  BY Releasing DEF Idle
<1>2. "idle" \in PCs /\ "idle" \notin Committed
  BY DEF PCs, Committed
<1>. QED  BY <1>1, <1>2, KeptOn

\* Where git does not move, a session may end, or go on to where nothing is
\* asked of its worktree that was not asked before.
LEMMA StaysKept ==
  ASSUME IInv, Keeping, NEW s \in Seat, UNCHANGED <<git, wrought, estray>>,
         Release(s) \/ \E pc \in PCs \ {"replay"} :
           Goto(s, pc) /\ job[s].pc # "idle" /\ (pc \in Committed => job[s].pc \in Committed)
  PROVE  Keeping'
<1>. DEFINE r == Left(branch[s], tree[s], TRUE)
<1>1. /\ Put(s, r) /\ r.branch = branch[s] /\ r.tree = tree[s]
      /\ branch[s] \in Branches /\ tree[s] \in Trees /\ Spares(branch[s], tree[s], r)
  BY Staying, SeatFacts, SeatKeeps, SparesAsItIs DEF git, Left
<1>. HIDE DEF r
<1>2. CASE Release(s)
  BY <1>1, <1>2, EndsKept DEF git
<1>3. ASSUME NEW pc \in PCs \ {"replay"}, Goto(s, pc), job[s].pc # "idle",
             pc \in Committed => job[s].pc \in Committed
      PROVE  Keeping'
  <2>1. job'[s].pc = pc /\ \A o \in Seat \ {s} : job'[o] = job[o]
    BY <1>3, Going
  <2>2. r.tree.made /\ (pc \in Committed => r.tree.dirty = {})
    BY <1>1, <1>3, SeatKeeps
  <2>. QED  BY <1>1, <1>3, <2>1, <2>2, KeptOn DEF git
<1>. QED  BY <1>2, <1>3

LEMMA SeatReadyKeeps ==
  ASSUME IInv, Keeping, NEW s \in Seat, NEW t \in Task, SeatReady(s, t)
  PROVE  Keeping'
<1>1. PICK e \in Ensure(branch[s], tree[s]) :
        \E r \in IF e.ok THEN Sync(e.branch, e.tree) ELSE {e} :
          /\ Put(s, r)
          /\ IF r.ok
               THEN job' = [job EXCEPT ![s] = [Idle EXCEPT !.pc = "agent", !.task = {t}]]
               ELSE UNCHANGED job
  BY DEF SeatReady
<1>2. PICK r \in IF e.ok THEN Sync(e.branch, e.tree) ELSE {e} :
          /\ Put(s, r)
          /\ IF r.ok
               THEN job' = [job EXCEPT ![s] = [Idle EXCEPT !.pc = "agent", !.task = {t}]]
               ELSE UNCHANGED job
  BY <1>1
<1>3. Leaves(e) /\ Spares(branch[s], tree[s], e) /\ (e.ok => e.tree.made)
  BY SeatFacts, SeatKeeps, EnsureLeaves, EnsureSpares DEF IInv
<1>4. Leaves(r) /\ Spares(branch[s], tree[s], r) /\ (r.ok => r.tree.made)
  <2>1. CASE e.ok /\ r \in Sync(e.branch, e.tree)
    <3>1. Rooted(e.branch, e.tree) /\ e.branch \in Branches /\ e.tree \in Trees
      BY <1>3 DEF Spares, Leaves
    <3>2. Spares(e.branch, e.tree, r) /\ Leaves(r)
      BY <1>3, <2>1, <3>1, SyncSpares, SyncLeaves DEF IInv, Leaves
    <3>. QED  BY <1>3, <2>1, <3>2, SparesAgain DEF Spares
  <2>2. CASE r = e
    BY <1>3, <2>2
  <2>. QED  BY <1>2, <2>1, <2>2
<1>5. UNCHANGED <<integration, wrought, estray>> /\ job[s].pc = "idle"
  BY DEF SeatReady, Busy
<1>6. "idle" \in PCs /\ "agent" \in PCs /\ "idle" \notin Committed /\ "agent" \notin Committed
  BY DEF PCs, Committed
<1>7. CASE r.ok
  <2>. DEFINE j == [Idle EXCEPT !.pc = "agent", !.task = {t}]
  <2>1. j.pc = "agent"
    BY DEF Idle
  <2>2. job' = [job EXCEPT ![s] = j]
    BY <1>2, <1>7
  <2>. HIDE DEF j
  <2>3. job'[s].pc = "agent" /\ \A o \in Seat \ {s} : job'[o] = job[o]
    BY <2>1, <2>2 DEF IInv, TypeOK
  <2>. QED  BY <1>2, <1>4, <1>5, <1>6, <1>7, <2>3, KeptOn DEF Leaves
<1>8. CASE ~r.ok
  BY <1>2, <1>4, <1>5, <1>6, <1>8, KeptOn DEF Leaves
<1>. QED  BY <1>7, <1>8

LEMMA AgentKeeps ==
  ASSUME IInv, Keeping, NEW s \in Seat, Agent(s)
  PROVE  Keeping'
<1>. DEFINE b == branch[s]
            w == tree[s]
            piece == <<s, TaskOf(s)>>
            commit == [work |-> w.dirty \cup {piece}, stamps |-> {}]
            commits == Append(AtHead(b, w), commit)
<1>1. /\ b \in Branches /\ w \in Trees /\ b.own \in Seq(Commit) /\ w.loose \in Seq(Commit)
      /\ piece \in Work /\ job[s].pc = "agent" /\ commit \in Commit
      /\ AtHead(b, w) \in Seq(Commit)
  <2>1. job[s].pc = "agent"
    BY DEF Agent, Busy
  <2>2. /\ b \in Branches /\ w \in Trees /\ b.own \in Seq(Commit) /\ w.loose \in Seq(Commit)
        /\ w.dirty \in SUBSET Work /\ AtHead(b, w) \in Seq(Commit)
    BY SeatFacts DEF AtHead
  <2>3. piece \in Work
    BY <2>1, BusyTask DEF Work
  <2>4. commit \in Commit
    <3>. HIDE DEF piece, w
    <3>. QED  BY <2>2, <2>3 DEF Commit
  <2>. QED  BY <2>1, <2>2, <2>3, <2>4
<1>2. Keeps(s, b, w, job[s], integration, wrought \ estray) /\ Rooted(b, w) /\ w.made
  BY <1>1, SeatKeeps
<1>3. UNCHANGED <<integration, job>> /\ wrought' = wrought \cup {piece}
      /\ estray' = IF w.head = "branch" THEN estray ELSE estray \cup {piece}
  BY DEF Agent
<1>4. \A o \in Seat \ {s}, t \in Task : <<o, t>> \in wrought' \ estray' => <<o, t>> \in wrought \ estray
  BY <1>3
<1>5. ASSUME NEW t \in Task, <<s, t>> \in wrought' \ estray'
      PROVE  \/ Holds(integration, <<s, t>>) \/ Holds(b.own, <<s, t>>)
             \/ w.head = "branch" /\ (<<s, t>> \in w.dirty \/ <<s, t>> = piece)
  <2>1. <<s, t>> \in wrought \ estray \/ (w.head = "branch" /\ <<s, t>> = piece)
    BY <1>3, <1>5
  <2>. HIDE DEF piece, b, w
  <2>. QED  BY <1>2, <2>1 DEF Keeps
<1>6. "agent" \notin Committed  BY DEF Committed
<1>7. CASE tree' = [tree EXCEPT ![s].dirty = @ \cup {piece}] /\ UNCHANGED branch
  <2>. DEFINE v == [w EXCEPT !.dirty = @ \cup {piece}]
  <2>1. v.made = w.made /\ v.head = w.head /\ v.dirty = w.dirty \cup {piece}
    BY <1>1 DEF Trees
  <2>2. tree' = [tree EXCEPT ![s] = v] /\ branch' = branch
    BY <1>7
  <2>. HIDE DEF v
  <2>3. tree'[s] = v /\ \A o \in Seat \ {s} : tree'[o] = tree[o]
    BY <2>2 DEF IInv, TypeOK
  <2>4. Keeps(s, branch'[s], tree'[s], job'[s], integration', wrought' \ estray')
    <3>. HIDE DEF piece
    <3>. QED  BY <1>1, <1>2, <1>3, <1>5, <1>6, <2>1, <2>2, <2>3 DEF Keeps, Rooted
  <2>. QED  BY <1>3, <1>4, <2>2, <2>3, <2>4, SeatKept
<1>8. CASE w.head = "branch" /\ Put(s, Left([b EXCEPT !.own = commits], [w EXCEPT !.dirty = {}], TRUE))
  <2>. DEFINE c == [b EXCEPT !.own = commits]
              v == [w EXCEPT !.dirty = {}]
  <2>1. c.made = b.made /\ c.own = commits /\ v.made = w.made /\ v.dirty = {}
    BY <1>1 DEF Branches, Trees
  <2>2. commits \in Seq(Commit)
    BY <1>1
  <2>3. c \in Branches /\ v \in Trees
    <3>1. v \in Trees  BY <1>1, TreeValues, Nothing
    <3>. HIDE DEF b, w, commits
    <3>. QED  BY <1>1, <2>2, <3>1, BranchOwn
  <2>4. \A p : Holds(commits, p) <=> Holds(b.own, p) \/ p \in w.dirty \cup {piece}
    <3>1. AtHead(b, w) = b.own /\ commit.work = w.dirty \cup {piece}
      BY <1>8 DEF AtHead
    <3>. HIDE DEF commit, b, w, piece
    <3>. QED  BY <1>1, <3>1, HoldsAppended
  <2>. HIDE DEF c, v, commits
  <2>5. /\ branch'[s] = c /\ \A o \in Seat \ {s} : branch'[o] = branch[o]
        /\ tree'[s] = v /\ \A o \in Seat \ {s} : tree'[o] = tree[o]
    BY <1>8, <2>3, Putting DEF c, v, Left
  <2>6. Keeps(s, branch'[s], tree'[s], job'[s], integration', wrought' \ estray')
    <3>1. b.made
      BY <1>2 DEF Rooted
    <3>. HIDE DEF piece, b, w
    <3>. QED  BY <1>1, <1>2, <1>3, <1>5, <1>6, <2>1, <2>4, <2>5, <3>1 DEF Keeps, Rooted
  <2>. QED  BY <1>3, <1>4, <2>5, <2>6, SeatKept
<1>9. CASE w.head # "branch" /\ Put(s, Left(b, [w EXCEPT !.loose = commits, !.dirty = {}], TRUE))
  <2>. DEFINE v == [w EXCEPT !.loose = commits, !.dirty = {}]
  <2>1. v \in Trees /\ v.made = w.made
    <3>1. commits \in Seq(Commit)
      BY <1>1
    <3>. HIDE DEF commits
    <3>2. v \in Trees
      BY <1>1, <3>1, TreeValues, Nothing
    <3>. QED  BY <1>1, <3>2 DEF Trees
  <2>. HIDE DEF v
  <2>2. /\ branch'[s] = b /\ \A o \in Seat \ {s} : branch'[o] = branch[o]
        /\ tree'[s] = v /\ \A o \in Seat \ {s} : tree'[o] = tree[o]
    BY <1>1, <1>9, <2>1, Putting DEF v, Left
  <2>3. Keeps(s, branch'[s], tree'[s], job'[s], integration', wrought' \ estray')
    <3>. HIDE DEF piece, b, w
    <3>. QED  BY <1>1, <1>2, <1>3, <1>5, <1>6, <1>9, <2>1, <2>2 DEF Keeps, Rooted
  <2>. QED  BY <1>3, <1>4, <2>2, <2>3, SeatKept
<1>. QED  BY <1>7, <1>8, <1>9 DEF Agent

LEMMA CommitWorkKeeps ==
  ASSUME IInv, Keeping, NEW s \in Seat, CommitWork(s)
  PROVE  Keeping'
<1>. DEFINE b == branch[s]
            w == tree[s]
            own == Recorded(b, w)
            clean == [w EXCEPT !.dirty = {}, !.head = IF @ = "conflict" THEN "detached" ELSE @]
            c == [b EXCEPT !.own = own]
            v == [clean EXCEPT !.loose = own]
<1>1. /\ b \in Branches /\ w \in Trees /\ own \in Seq(Commit) /\ job[s].pc = "commit"
      /\ Keeps(s, b, w, job[s], integration, wrought \ estray) /\ Rooted(b, w) /\ w.made
      /\ UNCHANGED <<integration, wrought, estray>>
  BY SeatFacts, SeatKeeps, RecordedType DEF CommitWork, Busy, history
<1>2. clean \in Trees /\ clean.made = w.made /\ clean.dirty = {}
  <2>1. clean \in Trees
    <3>1. (IF w.head = "conflict" THEN "detached" ELSE w.head)
             \in {"branch", "detached", "rebasing", "conflict"}
      BY SeatFacts
    <3>. QED  BY <1>1, <3>1, Nothing, TreeValues
  <2>. QED  BY <1>1, <2>1 DEF Trees
<1>3. "rebase" \in PCs /\ "idle" \in PCs /\ "rebase" \notin {"idle", "replay"} /\ "idle" \notin Committed
  BY DEF PCs, Committed
<1>4. ASSUME NEW pc \in {"rebase", "idle"}, job'[s].pc = pc,
             \A o \in Seat \ {s} : job'[o] = job[o],
             Put(s, IF w.head = "branch" THEN Left(c, clean, TRUE) ELSE Left(b, v, TRUE))
      PROVE  Keeping'
  <2>1. CASE w.head = "branch"
    <3>1. c \in Branches /\ c.own = own /\ c.made = b.made
      <4>. HIDE DEF b, own
      <4>. QED  BY <1>1 DEF Branches
    <3>2. \A piece : Holds(own, piece) <=> Holds(b.own, piece) \/ piece \in w.dirty
      <4>. HIDE DEF b, w
      <4>. QED  BY <1>1, <2>1, RecordedHolds DEF b, w
    <3>. HIDE DEF c, clean, own
    <3>3. /\ branch'[s] = c /\ \A o \in Seat \ {s} : branch'[o] = branch[o]
          /\ tree'[s] = clean /\ \A o \in Seat \ {s} : tree'[o] = tree[o]
      BY <1>2, <1>4, <2>1, <3>1, Putting DEF Left
    <3>4. b.made
      BY <1>1 DEF Rooted
    <3>5. Keeps(s, branch'[s], tree'[s], job'[s], integration', wrought' \ estray')
      <4>. HIDE DEF b, w
      <4>. QED  BY <1>1, <1>2, <1>3, <1>4, <3>1, <3>2, <3>3, <3>4 DEF Keeps, Rooted
    <3>. QED  BY <1>1, <1>4, <3>3, <3>5, SeatKept
  <2>2. CASE w.head # "branch"
    <3>1. v \in Trees /\ v.made = w.made /\ v.dirty = {}
      <4>. HIDE DEF clean, own
      <4>1. v \in Trees
        BY <1>1, <1>2, Nothing, TreeValues
      <4>. QED  BY <1>2, <4>1 DEF Trees
    <3>. DEFINE r == Left(b, v, TRUE)
    <3>2. Spares(b, w, r) /\ r.branch = b /\ r.tree = v
      <4>. HIDE DEF v, b, w
      <4>. QED  BY <1>1, <2>2, <3>1 DEF Spares, Left, Rooted
    <3>3. Put(s, r)
      BY <1>4, <2>2
    <3>. HIDE DEF r, v
    <3>. QED  BY <1>1, <1>3, <1>4, <3>1, <3>2, <3>3, KeptOn
  <2>. QED  BY <2>1, <2>2
<1>5. CASE Unlanded(s) /\ UNCHANGED <<branch, tree>>
  BY <1>1, <1>5, StaysKept DEF Unlanded, git
<1>6. ASSUME Put(s, IF w.head = "branch" THEN Left(c, clean, TRUE) ELSE Left(b, v, TRUE)),
             Goto(s, "rebase") \/ Unlanded(s)
      PROVE  Keeping'
  <2>1. CASE Goto(s, "rebase")
    BY <1>3, <1>4, <1>6, <2>1, Going
  <2>2. CASE Unlanded(s)
    <3>1. job'[s].pc = "idle" /\ \A o \in Seat \ {s} : job'[o] = job[o]
      BY <2>2, Releasing DEF Unlanded, Idle
    <3>. QED  BY <1>4, <1>6, <3>1
  <2>. QED  BY <1>6, <2>1, <2>2
<1>. QED  BY <1>5, <1>6 DEF CommitWork

LEMMA RebaseOntoKeeps ==
  ASSUME IInv, Keeping, NEW s \in Seat, RebaseOnto(s)
  PROVE  Keeping'
<1>1. PICK r \in Rebase(branch[s], tree[s]) :
        Put(s, r) /\ (Goto(s, "stamp") \/ Unlanded(s))
  BY DEF RebaseOnto
<1>2. r.branch \in Branches /\ r.tree \in Trees /\ Spares(branch[s], tree[s], r)
  BY SeatFacts, SeatKeeps, RebaseLeaves, RebaseSpares DEF IInv, Leaves
<1>3. job[s].pc = "rebase" /\ UNCHANGED <<integration, wrought, estray>>
  BY DEF RebaseOnto, Busy, history
<1>4. CASE Goto(s, "stamp")
  <2>1. "stamp" \in PCs /\ "stamp" # "replay" /\ "rebase" \in Committed
    BY DEF PCs, Committed
  <2>2. job'[s].pc = "stamp" /\ \A o \in Seat \ {s} : job'[o] = job[o]
    BY <1>4, <2>1, Going
  <2>3. r.tree.made /\ r.tree.dirty = {}
    BY <1>2, <1>3, <2>1, SeatKeeps DEF Spares
  <2>. QED  BY <1>1, <1>2, <1>3, <2>1, <2>2, <2>3, KeptOn
<1>5. CASE Unlanded(s)
  BY <1>1, <1>2, <1>3, <1>5, EndsKept DEF Unlanded
<1>. QED  BY <1>1, <1>4, <1>5

\* A branch whose commits are rewritten and hold the same work, with nothing
\* in the worktree.
LEMMA RewrittenKeeps ==
  ASSUME IInv, Keeping, NEW s \in Seat, job[s].pc \in Committed,
         NEW b \in Branches, NEW w \in Trees, Put(s, Left(b, w, TRUE)), b.made = branch[s].made,
         w.made = tree[s].made,
         \A piece : Holds(branch[s].own, piece) => Holds(b.own, piece),
         NEW pc \in PCs \ {"replay"}, job'[s].pc = pc, \A o \in Seat \ {s} : job'[o] = job[o],
         pc \in Committed => w.dirty = {},
         UNCHANGED <<integration, wrought, estray>>
  PROVE  Keeping'
<1>1. /\ branch'[s] = b /\ \A o \in Seat \ {s} : branch'[o] = branch[o]
      /\ tree'[s] = w /\ \A o \in Seat \ {s} : tree'[o] = tree[o]
  BY Putting DEF Left
<1>2. /\ Keeps(s, branch[s], tree[s], job[s], integration, wrought \ estray)
      /\ tree[s].made /\ branch[s].made /\ tree[s].dirty = {}
  BY SeatKeeps DEF Rooted, Committed
<1>3. Keeps(s, b, w, job'[s], integration', wrought' \ estray')
  BY <1>2 DEF Keeps, Rooted
<1>. QED  BY <1>1, <1>3, SeatKept

LEMMA StampKeeps ==
  ASSUME IInv, Keeping, NEW s \in Seat, Stamp(s)
  PROVE  Keeping'
<1>. DEFINE b == branch[s]
            w == tree[s]
            t == TaskOf(s)
<1>1. /\ b \in Branches /\ w \in Trees /\ b.own \in Seq(Commit) /\ t \in Task
      /\ job[s].pc = "stamp" /\ w.made /\ w.dirty = {} /\ Rooted(b, w)
      /\ UNCHANGED <<integration, wrought, estray>>
  BY SeatFacts, SeatKeeps, BusyTask DEF Stamp, Busy, Committed, history
<1>2. "stamp" \in Committed /\ "gate" \in PCs \ {"replay"} /\ "replay" \in PCs
  BY DEF PCs, Committed
<1>3. CASE Goto(s, "gate") /\ UNCHANGED <<branch, tree>>
  BY <1>1, <1>2, <1>3, StaysKept DEF git
<1>4. CASE /\ Len(b.own) = 1
           /\ branch' = [branch EXCEPT ![s].own[1] = StampHead(@, t)]
           /\ Goto(s, "gate") /\ UNCHANGED tree
  <2>. DEFINE own == [b.own EXCEPT ![1] = StampHead(b.own[1], t)]
              c == [b EXCEPT !.own = own]
  <2>1. own \in Seq(Commit) /\ \A p : Holds(b.own, p) => Holds(own, p)
    <3>1. b.own[1] \in Commit /\ DOMAIN b.own = {1}
      BY <1>1, <1>4
    <3>2. /\ StampHead(b.own[1], t) \in Commit
          /\ StampHead(b.own[1], t).work = b.own[1].work
      BY <1>1, <3>1 DEF StampHead, Commit
    <3>3. own \in Seq(Commit) /\ DOMAIN own = {1} /\ own[1] = StampHead(b.own[1], t)
      BY <1>1, <3>1, <3>2
    <3>. HIDE DEF own
    <3>. QED  BY <3>1, <3>2, <3>3 DEF Holds
  <2>2. c \in Branches /\ c.own = own /\ c.made = b.made
    <3>. HIDE DEF b, own
    <3>. QED  BY <1>1, <2>1 DEF Branches
  <2>3. branch' = [branch EXCEPT ![s] = c] /\ UNCHANGED tree
    BY <1>4
  <2>. HIDE DEF c, own
  <2>4. Put(s, Left(c, w, TRUE))
    BY <2>3, Rewriting
  <2>5. job'[s].pc = "gate" /\ \A o \in Seat \ {s} : job'[o] = job[o]
    BY <1>2, <1>4, Going
  <2>. QED  BY <1>1, <1>2, <2>1, <2>2, <2>4, <2>5, RewrittenKeeps
<1>5. CASE /\ tree' = [tree EXCEPT ![s].head = "detached", ![s].loose = <<>>]
           /\ job' = [job EXCEPT ![s].pc = "replay", ![s].base = Tip]
           /\ UNCHANGED branch
  <2>. DEFINE v == [w EXCEPT !.head = "detached", !.loose = <<>>]
              r == Left(b, v, TRUE)
  <2>1. v \in Trees /\ v.loose = <<>> /\ v.made = w.made /\ v.dirty = w.dirty
    <3>1. v \in Trees
      BY <1>1, TreeValues, Nothing
    <3>. QED  BY <1>1, <3>1 DEF Trees
  <2>2. tree' = [tree EXCEPT ![s] = v] /\ branch' = branch
    BY <1>5
  <2>. HIDE DEF v
  <2>3. Put(s, r)
    BY <2>2 DEF Put, Left, IInv, TypeOK
  <2>4. job'[s].pc = "replay" /\ \A o \in Seat \ {s} : job'[o] = job[o]
    <3>1. [job[s] EXCEPT !.pc = "replay", !.base = Tip].pc = "replay"
      BY SeatFacts DEF Jobs
    <3>. QED  BY <1>5, <3>1 DEF IInv, TypeOK
  <2>5. Spares(b, w, r) /\ r.branch = b /\ r.tree = v /\ SameWork(v.loose, b.own)
    <3>1. SameWork(v.loose, b.own)
      BY <2>1 DEF SameWork
    <3>2. r.branch = b /\ r.tree = v
      BY DEF Left
    <3>. HIDE DEF b, w, r
    <3>3. Spares(b, w, r)
      BY <1>1, <2>1, <3>2 DEF Spares, Rooted
    <3>. QED  BY <3>1, <3>2, <3>3
  <2>. HIDE DEF r
  <2>. QED  BY <1>1, <1>2, <2>1, <2>3, <2>4, <2>5, KeptOn
<1>6. CASE Unlanded(s) /\ UNCHANGED <<branch, tree>>
  BY <1>1, <1>6, StaysKept DEF Unlanded, git
<1>. QED  BY <1>3, <1>4, <1>5, <1>6 DEF Stamp

\* restoreStamp, where the branch has its commits.
LEMMA GivesUpKeeps ==
  ASSUME IInv, Keeping, NEW s \in Seat, job[s].pc \in Committed,
         NEW b \in Branches, NEW w \in Trees, b.made = branch[s].made, w.made = tree[s].made,
         \A piece : Holds(branch[s].own, piece) => Holds(b.own, piece),
         GiveUp(s, b, w), UNCHANGED <<integration, wrought, estray>>
  PROVE  Keeping'
<1>1. PICK v \in Restore(b, w) : Put(s, Left(b, v, FALSE))
  BY DEF GiveUp
<1>2. v \in Trees /\ v.made = w.made
  BY RestoreLeaves, OnBranchFields DEF Restore
<1>3. Put(s, Left(b, v, TRUE))
  BY <1>1 DEF Put, Left
<1>4. job'[s].pc = "idle" /\ \A o \in Seat \ {s} : job'[o] = job[o]
  BY Releasing DEF GiveUp, Unlanded, Idle
<1>5. "idle" \in PCs \ {"replay"} /\ "idle" \notin Committed
  BY DEF PCs, Committed
<1>. QED  BY <1>2, <1>3, <1>4, <1>5, RewrittenKeeps

LEMMA PickKeeps ==
  ASSUME IInv, Keeping, NEW s \in Seat, Pick(s)
  PROVE  Keeping'
<1>. DEFINE b == branch[s]
            w == tree[s]
            t == TaskOf(s)
            next == b.own[Len(w.loose) + 1]
            picked == [w EXCEPT !.dirty = next.work]
            conflicted == [w EXCEPT !.head = "conflict"]
            loose == Append(w.loose, Stamped(next, t))
            v == [w EXCEPT !.loose = loose]
            r == Left(b, v, TRUE)
<1>1. /\ b \in Branches /\ w \in Trees /\ b.own \in Seq(Commit) /\ w.loose \in Seq(Commit)
      /\ t \in Task /\ job[s].pc = "replay" /\ w.made /\ w.dirty = {} /\ Rooted(b, w)
      /\ SameWork(w.loose, b.own) /\ UNCHANGED <<integration, wrought, estray>>
  <2>1. job[s].pc = "replay" /\ UNCHANGED <<integration, wrought, estray>>
    BY DEF Pick, Busy, history
  <2>2. t \in Task
    BY <2>1, BusyTask
  <2>3. w.made /\ w.dirty = {} /\ Rooted(b, w) /\ SameWork(w.loose, b.own)
    BY <2>1, SeatKeeps DEF Keeps, Committed
  <2>. QED  BY <2>1, <2>2, <2>3, SeatFacts
<1>2. "replay" \in Committed /\ "replay" \in PCs
  BY DEF PCs, Committed
<1>3. next \in Commit /\ next.work \in SUBSET Work
  <2>1. Len(w.loose) <= Len(b.own)
    BY <1>1, Replaying
  <2>2. Len(w.loose) # Len(b.own) /\ Len(w.loose) \in Nat /\ Len(b.own) \in Nat
    BY <1>1 DEF Pick, Replayed
  <2>3. Len(w.loose) + 1 \in 1 .. Len(b.own)
    BY <2>1, <2>2
  <2>4. next \in Commit
    BY <1>1, <2>3
  <2>. HIDE DEF next
  <2>. QED  BY <2>4 DEF Commit
<1>4. /\ picked \in Trees /\ picked.made = w.made
      /\ conflicted \in Trees /\ conflicted.made = w.made
  <2>. HIDE DEF next
  <2>1. picked \in Trees /\ conflicted \in Trees
    BY <1>1, <1>3, TreeValues, Nothing
  <2>. QED  BY <1>1, <2>1 DEF Trees
<1>5. CASE GiveUp(s, b, w) \/ GiveUp(s, b, picked) \/ GiveUp(s, b, conflicted)
  <2>. HIDE DEF picked, conflicted
  <2>. QED  BY <1>1, <1>2, <1>4, <1>5, GivesUpKeeps
<1>6. CASE tree' = [tree EXCEPT ![s].loose = loose] /\ UNCHANGED <<branch, job>>
  <2>1. loose \in Seq(Commit) /\ SameWork(loose, b.own)
    <3>1. Stamped(next, t) \in Commit /\ Stamped(next, t).work = next.work
      <4>. HIDE DEF next, t
      <4>. QED  BY <1>1, <1>3 DEF Stamped, Commit
    <3>2. /\ loose \in Seq(Commit) /\ DOMAIN loose = DOMAIN w.loose \cup {Len(w.loose) + 1}
          /\ \A i \in DOMAIN w.loose : loose[i] = w.loose[i]
          /\ loose[Len(w.loose) + 1] = Stamped(next, t)
      <4>1. Stamped(next, t) \in Commit
        BY <3>1
      <4>. DEFINE stamped == Stamped(next, t)
      <4>. HIDE DEF stamped, w
      <4>. QED  BY <1>1, <4>1 DEF stamped
    <3>. HIDE DEF loose
    <3>. QED  BY <1>1, <3>1, <3>2 DEF SameWork
  <2>2. v \in Trees /\ v.loose = loose /\ v.made = w.made /\ v.dirty = w.dirty
    <3>. HIDE DEF loose
    <3>1. v \in Trees
      BY <1>1, <2>1, Nothing, TreeValues
    <3>. QED  BY <1>1, <3>1 DEF Trees
  <2>3. tree' = [tree EXCEPT ![s] = v] /\ branch' = branch /\ job' = job
    BY <1>6
  <2>. HIDE DEF v, loose
  <2>4. Put(s, r)
    BY <2>3 DEF Put, Left, IInv, TypeOK
  <2>5. Spares(b, w, r) /\ r.branch = b /\ r.tree = v
    <3>. HIDE DEF b, w
    <3>. QED  BY <1>1, <2>2 DEF Spares, Left, Rooted
  <2>. HIDE DEF r
  <2>. QED  BY <1>1, <1>2, <2>1, <2>2, <2>3, <2>4, <2>5, KeptOn
<1>. QED  BY <1>5, <1>6 DEF Pick

LEMMA MoveBranchKeeps ==
  ASSUME IInv, Keeping, NEW s \in Seat, MoveBranch(s)
  PROVE  Keeping'
<1>. DEFINE b == branch[s]
            w == tree[s]
            moved == [b EXCEPT !.base = job[s].base, !.own = w.loose]
<1>1. /\ b \in Branches /\ w \in Trees /\ b.own \in Seq(Commit) /\ w.loose \in Seq(Commit)
      /\ job[s].base \in Nat /\ job[s].pc = "replay" /\ w.dirty = {} /\ SameWork(w.loose, b.own)
      /\ UNCHANGED <<integration, wrought, estray>>
  <2>1. job[s].pc = "replay" /\ UNCHANGED <<integration, wrought, estray>>
    BY DEF MoveBranch, Busy, history
  <2>2. w.dirty = {} /\ SameWork(w.loose, b.own)
    BY <2>1, SeatKeeps DEF Keeps, Committed
  <2>. QED  BY <2>1, <2>2, SeatFacts
<1>2. "replay" \in Committed /\ "gate" \in PCs \ {"replay"}
  BY DEF PCs, Committed
<1>3. moved \in Branches /\ moved.own = w.loose /\ moved.made = b.made
  <2>. HIDE DEF b, w
  <2>. QED  BY <1>1 DEF Branches
<1>4. \A piece : Holds(b.own, piece) => Holds(w.loose, piece)
  <2>1. DOMAIN w.loose = DOMAIN b.own
    <3>1. Len(w.loose) = Len(b.own)
      BY DEF MoveBranch, Replayed
    <3>. QED  BY <1>1, <3>1
  <2>. QED  BY <1>1, <2>1 DEF Holds, SameWork
<1>5. OnBranch(w) \in Trees /\ OnBranch(w).made = w.made /\ OnBranch(w).dirty = {}
  BY <1>1, TreeValues, Nothing, OnBranchFields
<1>. HIDE DEF moved
<1>6. CASE Put(s, Left(moved, OnBranch(w), TRUE)) /\ Goto(s, "gate")
  <2>1. job'[s].pc = "gate" /\ \A o \in Seat \ {s} : job'[o] = job[o]
    BY <1>2, <1>6, Going
  <2>. QED  BY <1>1, <1>2, <1>3, <1>4, <1>5, <1>6, <2>1, RewrittenKeeps
<1>7. CASE GiveUp(s, b, w) \/ GiveUp(s, moved, w)
  BY <1>1, <1>2, <1>3, <1>4, <1>7, GivesUpKeeps
<1>. QED  BY <1>6, <1>7 DEF MoveBranch, moved

LEMMA FastForwardKeeps ==
  ASSUME IInv, Keeping, NEW s \in Seat, FastForward(s)
  PROVE  Keeping'
<1>. DEFINE b == branch[s]
            c == IF b.own = <<>> THEN b ELSE [b EXCEPT !.base = Tip + Len(b.own), !.own = <<>>]
<1>1. /\ b \in Branches /\ b.own \in Seq(Commit) /\ integration \in Seq(Commit)
      /\ job[s].pc = "merge" /\ UNCHANGED <<tree, wrought, estray>>
  BY SeatFacts DEF FastForward, Busy, history, IInv, TypeOK
<1>2. "merge" \in Committed /\ {"landed", "rebase"} \subseteq PCs \ {"replay"}
  BY DEF PCs, Committed
<1>3. CASE /\ integration' = integration \o b.own
           /\ branch' = IF b.own = <<>> THEN branch
                        ELSE [branch EXCEPT ![s].base = Tip + Len(b.own), ![s].own = <<>>]
           /\ Goto(s, "landed")
  <2>1. \A piece : Holds(integration', piece) <=> Holds(integration, piece) \/ Holds(b.own, piece)
    BY <1>1, <1>3, HoldsJoined
  <2>2. c.made = b.made
    BY <1>1 DEF Branches
  <2>3. branch' = [branch EXCEPT ![s] = c]
    <3>1. branch \in [Seat -> Branches]
      BY DEF IInv, TypeOK
    <3>. QED  BY <1>3, <3>1
  <2>. HIDE DEF c
  <2>4. /\ branch'[s] = c /\ \A o \in Seat \ {s} : branch'[o] = branch[o] /\ tree'[o] = tree[o]
        /\ tree'[s] = tree[s]
    BY <1>1, <2>3 DEF IInv, TypeOK
  <2>5. job'[s].pc = "landed" /\ \A o \in Seat \ {s} : job'[o] = job[o]
    BY <1>2, <1>3, Going
  <2>6. Keeps(s, branch'[s], tree'[s], job'[s], integration', wrought' \ estray')
    <3>1. /\ Keeps(s, b, tree[s], job[s], integration, wrought \ estray)
          /\ b.made /\ tree[s].made /\ tree[s].dirty = {}
      BY <1>1, <1>2, SeatKeeps DEF Rooted
    <3>. HIDE DEF b
    <3>. QED  BY <1>1, <2>1, <2>2, <2>4, <2>5, <3>1 DEF Keeps, Rooted
  <2>. QED  BY <1>1, <2>1, <2>4, <2>5, <2>6, SeatKept
<1>4. CASE UNCHANGED <<integration, branch>> /\ Unlanded(s)
  BY <1>1, <1>4, StaysKept DEF Unlanded, git
<1>5. CASE /\ UNCHANGED <<integration, branch>>
           /\ job' = [job EXCEPT ![s].pc = "rebase", ![s].again = TRUE]
  <2>1. job'[s].pc = "rebase" /\ \A o \in Seat \ {s} : job'[o] = job[o]
    <3>1. [job[s] EXCEPT !.pc = "rebase", !.again = TRUE].pc = "rebase"
      BY SeatFacts DEF Jobs
    <3>. QED  BY <1>5, <3>1 DEF IInv, TypeOK
  <2>2. Put(s, Left(b, tree[s], TRUE)) /\ tree[s] \in Trees /\ tree[s].dirty = {}
    BY <1>1, <1>2, <1>5, Staying, SeatFacts, SeatKeeps
  <2>. QED  BY <1>1, <1>2, <1>5, <2>1, <2>2, RewrittenKeeps
<1>. QED  BY <1>3, <1>4, <1>5 DEF FastForward

LEMMA CrashKeeps == ASSUME IInv, Keeping, Crash PROVE Keeping'
<1>1. PICK inside \in SUBSET {s \in Seat : Busy(s, "rebase") /\ Behind(branch[s])} :
        tree' = [s \in Seat |-> IF s \in inside
                                  THEN [tree[s] EXCEPT !.head = "rebasing", !.loose = <<>>]
                                  ELSE tree[s]]
  BY DEF Crash
<1>2. job' = [s \in Seat |-> Idle] /\ UNCHANGED <<integration, branch, wrought, estray>>
  BY DEF Crash, history
<1>3. Idle.pc = "idle" /\ "idle" \notin Committed /\ "rebase" \in Committed
  BY DEF Idle, Committed
<1>4. ASSUME NEW s \in Seat
      PROVE  Keeps(s, branch'[s], tree'[s], job'[s], integration', wrought' \ estray')
  <2>1. Keeps(s, branch[s], tree[s], job[s], integration, wrought \ estray)
    BY SeatKeeps
  <2>2. CASE s \notin inside
    BY <1>1, <1>2, <1>3, <2>1, <2>2 DEF Keeps
  <2>3. CASE s \in inside
    <3>1. tree[s].dirty = {} /\ tree[s] \in Trees
      BY <1>1, <1>3, <2>3, SeatKeeps, SeatFacts DEF Busy
    <3>. DEFINE v == [tree[s] EXCEPT !.head = "rebasing", !.loose = <<>>]
    <3>2. v.made = tree[s].made /\ v.dirty = {} /\ tree'[s] = v
      BY <1>1, <2>3, <3>1 DEF Trees
    <3>. HIDE DEF v
    <3>. QED  BY <1>2, <1>3, <2>1, <3>1, <3>2 DEF Keeps, Rooted
  <2>. QED  BY <2>2, <2>3
<1>. QED  BY <1>4 DEF Keeping

LEMMA NextKeeps == ASSUME IInv, Keeping, [Next]_vars PROVE Keeping'
<1>1. CASE UNCHANGED vars
  BY <1>1 DEF Keeping, Keeps, vars, git, history, Holds
<1>2. ASSUME NEW s \in Seat, SeatStep(s) PROVE Keeping'
  <2>1. CASE AgentDone(s)
    <3>1. "commit" \in PCs \ {"replay"} /\ "commit" \notin Committed
      BY DEF PCs, Committed
    <3>. QED  BY <2>1, <3>1, StaysKept DEF AgentDone, Busy, history
  <2>2. CASE AgentFailed(s)
    BY <2>2, StaysKept DEF AgentFailed, history
  <2>3. CASE Gate(s)
    <3>1. "merge" \in PCs \ {"replay"} /\ "gate" \in Committed
      BY DEF PCs, Committed
    <3>. QED  BY <2>3, <3>1, StaysKept DEF Gate, Busy, Unlanded
  <2>4. CASE Landed(s)
    <3>1. CASE Release(s)
      BY <2>4, <3>1, StaysKept DEF Landed
    <3>2. CASE job' = [job EXCEPT ![s] = Idle]
      <4>1. job'[s].pc = "idle" /\ \A o \in Seat \ {s} : job'[o] = job[o]
        BY <3>2 DEF Idle, IInv, TypeOK
      <4>2. "idle" \in PCs \ {"replay"} /\ "idle" \notin Committed /\ "landed" \in Committed
        BY DEF PCs, Committed
      <4>3. UNCHANGED <<git, wrought, estray>> /\ job[s].pc = "landed"
        BY <2>4 DEF Landed, Busy
      <4>4. Put(s, Left(branch[s], tree[s], TRUE)) /\ branch[s] \in Branches /\ tree[s] \in Trees
        BY <4>3, Staying, SeatFacts DEF git
      <4>. QED  BY <4>1, <4>2, <4>3, <4>4, RewrittenKeeps DEF git
    <3>. QED  BY <2>4, <3>1, <3>2 DEF Landed
  <2>. QED
    BY <1>2, <2>1, <2>2, <2>3, <2>4, SeatReadyKeeps, AgentKeeps, CommitWorkKeeps, RebaseOntoKeeps,
       StampKeeps, PickKeeps, MoveBranchKeeps, FastForwardKeeps DEF SeatStep
<1>3. CASE Foreign
  <2>1. integration \in Seq(Commit) /\ [work |-> {}, stamps |-> {}] \in Commit
    BY DEF IInv, TypeOK, Commit
  <2>2. \A piece : Holds(integration, piece) => Holds(integration', piece)
    BY <1>3, <2>1, HoldsAppended DEF Foreign
  <2>3. UNCHANGED <<branch, tree, job, wrought, estray>>
    BY <1>3 DEF Foreign, history
  <2>. QED  BY <2>2, <2>3, Zenon DEF Keeping, Keeps
<1>. QED  BY <1>1, <1>2, <1>3, CrashKeeps DEF Next

-----------------------------------------------------------------------------
(* Tasks and integration, a step at a time.                                 *)

\* A session keeps its task and the task its status, until one of them ends:
\* what a step of a seat does to both.
TasksStay == status' = status /\ \A o \in Seat : job'[o].task = job[o].task

Begins(s, t) ==
  /\ job[s].task = {} /\ status[t] = "open" /\ status' = [status EXCEPT ![t] = "claimed"]
  /\ job'[s].task = {t} /\ \A o \in Seat \ {s} : job'[o].task = job[o].task

Closes(s) ==
  /\ job[s].pc = "landed" /\ branch[s].own = <<>> /\ TaskLanded(TaskOf(s))
  /\ status' = [status EXCEPT ![TaskOf(s)] = "closed"]
  /\ job'[s].task = {} /\ \A o \in Seat \ {s} : job'[o].task = job[o].task
  /\ closer' = closer \cup {<<s, TaskOf(s)>>}

Frees(s) ==
  /\ job[s].pc # "idle" /\ job'[s].task = {} /\ \A o \in Seat \ {s} : job'[o].task = job[o].task
  /\ status' = [status EXCEPT ![TaskOf(s)] = "open"] \/ status' = status

LEMMA Freeing ==
  ASSUME IInv, NEW s \in Seat, Release(s), job[s].pc # "idle"
  PROVE  Frees(s)
BY Releasing DEF Frees, Release, Idle

LEMMA GoingOn ==
  ASSUME IInv, NEW s \in Seat, NEW pc \in PCs, Goto(s, pc), status' = status
  PROVE  TasksStay
<1>1. job'[s].task = job[s].task /\ \A o \in Seat \ {s} : job'[o] = job[o]
  BY Going
<1>. QED  BY <1>1 DEF TasksStay

LEMMA SeatTasks ==
  ASSUME IInv, NEW s \in Seat, SeatStep(s)
  PROVE  \/ closer' = closer /\ (TasksStay \/ Frees(s) \/ \E t \in Task : Begins(s, t))
         \/ Closes(s)
<1>. USE DEF PCs
<1>1. ASSUME NEW t \in Task, SeatReady(s, t)
      PROVE  closer' = closer /\ (TasksStay \/ Begins(s, t))
  <2>1. closer' = closer /\ status[t] = "open" /\ job[s].task = {}
    BY <1>1, SeatFacts DEF SeatReady, Busy, Sound
  <2>2. \/ job' = [job EXCEPT ![s] = [Idle EXCEPT !.pc = "agent", !.task = {t}]]
           /\ status' = [status EXCEPT ![t] = "claimed"]
        \/ UNCHANGED <<job, status>>
    BY <1>1 DEF SeatReady
  <2>3. [Idle EXCEPT !.pc = "agent", !.task = {t}].task = {t}
    BY DEF Idle
  <2>. QED  BY <2>1, <2>2, <2>3 DEF Begins, TasksStay, IInv, TypeOK
<1>2. CASE Agent(s)
  BY <1>2 DEF Agent, TasksStay
<1>3. CASE AgentDone(s)
  BY <1>3, GoingOn DEF AgentDone, history
<1>4. CASE AgentFailed(s)
  BY <1>4, Freeing DEF AgentFailed, Busy, history
<1>5. CASE CommitWork(s)
  <2>1. job[s].pc # "idle" /\ closer' = closer
    BY <1>5 DEF CommitWork, Busy, history
  <2>2. Release(s) \/ (Goto(s, "rebase") /\ status' = status)
    BY <1>5 DEF CommitWork, Unlanded
  <2>. QED  BY <2>1, <2>2, Freeing, GoingOn
<1>6. CASE RebaseOnto(s)
  <2>1. job[s].pc # "idle" /\ closer' = closer
    BY <1>6 DEF RebaseOnto, Busy, history
  <2>2. Release(s) \/ (Goto(s, "stamp") /\ status' = status)
    BY <1>6 DEF RebaseOnto, Unlanded
  <2>. QED  BY <2>1, <2>2, Freeing, GoingOn
<1>7. CASE Stamp(s)
  <2>1. job[s].pc # "idle" /\ closer' = closer
    BY <1>7 DEF Stamp, Busy, history
  <2>2. \/ Release(s) \/ (Goto(s, "gate") /\ status' = status)
        \/ job' = [job EXCEPT ![s].pc = "replay", ![s].base = Tip] /\ status' = status
    BY <1>7 DEF Stamp, Unlanded
  <2>3. [job[s] EXCEPT !.pc = "replay", !.base = Tip].task = job[s].task
    BY SeatFacts DEF Jobs
  <2>4. CASE job' = [job EXCEPT ![s].pc = "replay", ![s].base = Tip] /\ status' = status
    BY <2>1, <2>3, <2>4 DEF TasksStay, IInv, TypeOK
  <2>. QED  BY <2>1, <2>2, <2>4, Freeing, GoingOn
<1>8. CASE Pick(s)
  <2>1. job[s].pc # "idle" /\ closer' = closer
    BY <1>8 DEF Pick, Busy, history
  <2>2. Release(s) \/ UNCHANGED <<job, status>>
    BY <1>8 DEF Pick, GiveUp, Unlanded
  <2>3. CASE UNCHANGED <<job, status>>
    BY <2>1, <2>3 DEF TasksStay
  <2>. QED  BY <2>1, <2>2, <2>3, Freeing
<1>9. CASE MoveBranch(s)
  <2>1. job[s].pc # "idle" /\ closer' = closer
    BY <1>9 DEF MoveBranch, Busy, history
  <2>2. Release(s) \/ (Goto(s, "gate") /\ status' = status)
    BY <1>9 DEF MoveBranch, GiveUp, Unlanded
  <2>. QED  BY <2>1, <2>2, Freeing, GoingOn
<1>10. CASE Gate(s)
  <2>1. job[s].pc # "idle" /\ closer' = closer
    BY <1>10 DEF Gate, Busy
  <2>2. Release(s) \/ (Goto(s, "merge") /\ status' = status)
    BY <1>10 DEF Gate, Unlanded
  <2>. QED  BY <2>1, <2>2, Freeing, GoingOn
<1>11. CASE FastForward(s)
  <2>1. job[s].pc # "idle" /\ closer' = closer
    BY <1>11 DEF FastForward, Busy, history
  <2>2. \/ Release(s) \/ (Goto(s, "landed") /\ status' = status)
        \/ job' = [job EXCEPT ![s].pc = "rebase", ![s].again = TRUE] /\ status' = status
    BY <1>11 DEF FastForward, Unlanded
  <2>3. [job[s] EXCEPT !.pc = "rebase", !.again = TRUE].task = job[s].task
    BY SeatFacts DEF Jobs
  <2>4. CASE job' = [job EXCEPT ![s].pc = "rebase", ![s].again = TRUE] /\ status' = status
    BY <2>1, <2>3, <2>4 DEF TasksStay, IInv, TypeOK
  <2>. QED  BY <2>1, <2>2, <2>4, Freeing, GoingOn
<1>12. CASE Landed(s)
  <2>1. job[s].pc = "landed"
    BY <1>12 DEF Landed, Busy
  <2>2. CASE Release(s) /\ closer' = closer
    BY <2>1, <2>2, Freeing
  <2>3. CASE /\ BranchLanded(s) /\ TaskLanded(TaskOf(s))
             /\ status' = [status EXCEPT ![TaskOf(s)] = "closed"]
             /\ closer' = closer \cup {<<s, TaskOf(s)>>}
             /\ job' = [job EXCEPT ![s] = Idle]
    <3>1. job'[s].task = {} /\ \A o \in Seat \ {s} : job'[o].task = job[o].task
      BY <2>3 DEF Idle, IInv, TypeOK
    <3>. QED  BY <2>1, <2>3, <3>1 DEF Closes, BranchLanded
  <2>. QED  BY <1>12, <2>2, <2>3 DEF Landed
<1>. QED
  BY <1>1, <1>2, <1>3, <1>4, <1>5, <1>6, <1>7, <1>8, <1>9, <1>10, <1>11, <1>12 DEF SeatStep

\* Integration only grows: by a branch, by a commit of others.
LEMMA OnlyGrows ==
  ASSUME IInv, [Next]_vars
  PROVE  \/ integration' = integration
         \/ \E s \in Seat : FastForward(s) /\ ~Behind(branch[s]) /\ branch[s].own # <<>>
                            /\ integration' = integration \o branch[s].own
         \/ integration' = Append(integration, [work |-> {}, stamps |-> {}])
<1>1. CASE UNCHANGED vars
  BY <1>1 DEF vars, git
<1>2. ASSUME NEW s \in Seat, SeatStep(s), ~FastForward(s) PROVE integration' = integration
  BY <1>2 DEF SeatStep, SeatReady, Agent, AgentDone, AgentFailed, CommitWork, RebaseOnto, Stamp, Pick,
     MoveBranch, Gate, Landed, git
<1>3. ASSUME NEW s \in Seat, FastForward(s)
      PROVE  \/ integration' = integration
             \/ ~Behind(branch[s]) /\ branch[s].own # <<>> /\ integration' = integration \o branch[s].own
  <2>1. integration \in Seq(Commit)
    BY DEF IInv, TypeOK
  <2>. QED  BY <1>3, <2>1 DEF FastForward
<1>. QED  BY <1>1, <1>2, <1>3 DEF Next, Foreign, Crash

LEMMA Grown ==
  ASSUME IInv, [Next]_vars
  PROVE  /\ \A piece : Holds(integration, piece) => Holds(integration', piece)
         /\ \A t \in Task : TaskLanded(t) => TaskLanded(t)'
<1>1. /\ DOMAIN integration \subseteq DOMAIN integration'
      /\ \A i \in DOMAIN integration : integration'[i] = integration[i]
  <2>1. integration \in Seq(Commit) /\ [work |-> {}, stamps |-> {}] \in Commit
    BY DEF IInv, TypeOK, Commit
  <2>2. CASE integration' = integration
    BY <2>2
  <2>3. ASSUME NEW more \in Seq(Commit), integration' = integration \o more
        PROVE  /\ DOMAIN integration \subseteq DOMAIN integration'
               /\ \A i \in DOMAIN integration : integration'[i] = integration[i]
    BY <2>1, <2>3
  <2>4. ASSUME NEW commit \in Commit, integration' = Append(integration, commit)
        PROVE  /\ DOMAIN integration \subseteq DOMAIN integration'
               /\ \A i \in DOMAIN integration : integration'[i] = integration[i]
    BY <2>1, <2>4
  <2>5. \A s \in Seat : branch[s].own \in Seq(Commit)
    BY SeatFacts
  <2>. QED  BY <2>1, <2>2, <2>3, <2>4, <2>5, OnlyGrows
<1>2. \A piece : Holds(integration, piece) => Holds(integration', piece)
  BY <1>1 DEF Holds
<1>3. \A t \in Task : TaskLanded(t) => TaskLanded(t)'
  BY <1>1 DEF TaskLanded
<1>. QED  BY <1>2, <1>3

\* Only an agent does work.
LEMMA AgentsWork ==
  ASSUME [Next]_vars
  PROVE  (\E o \in Seat : Agent(o)) \/ (wrought' = wrought /\ estray' = estray)
BY DEF Next, SeatStep, SeatReady, AgentDone, AgentFailed, CommitWork, RebaseOnto, Stamp, Pick,
   MoveBranch, Gate, FastForward, Landed, Foreign, Crash, vars, history

\* What a step adds to the work that was done on branches.
LEMMA DoneGrows ==
  ASSUME IInv, [Next]_vars, NEW s \in Seat, NEW t \in Task,
         <<s, t>> \in wrought' \ estray', <<s, t>> \notin wrought \ estray
  PROVE  job[s].task = {t}
<1>1. PICK o \in Seat : Agent(o)
  BY AgentsWork
<1>2. <<s, t>> = <<o, TaskOf(o)>>
  BY <1>1 DEF Agent
<1>. QED  BY <1>1, <1>2, BusyTask DEF Agent, Busy

LEMMA ClaimsHold == ASSUME IInv, Claims, [Next]_vars PROVE Claims'
<1>1. CASE TasksStay
  BY <1>1 DEF Claims, TasksStay
<1>2. ASSUME NEW s \in Seat, Frees(s) PROVE Claims'
  <2>1. TaskOf(s) \in Task /\ job[s].task = {TaskOf(s)}
    BY <1>2, BusyTask DEF Frees
  <2>2. ASSUME NEW o \in Seat, NEW t \in Task, job'[o].task = {t}
        PROVE  o # s /\ job[o].task = {t} /\ t # TaskOf(s)
    BY <1>2, <2>1, <2>2 DEF Frees, Claims
  <2>3. \A t \in Task \ {TaskOf(s)} : status'[t] = status[t]
    BY <1>2 DEF Frees, IInv, TypeOK
  <2>. QED  BY <2>2, <2>3 DEF Claims
<1>3. ASSUME NEW s \in Seat, Closes(s) PROVE Claims'
  <2>1. TaskOf(s) \in Task /\ job[s].task = {TaskOf(s)}
    BY <1>3, BusyTask DEF Closes
  <2>2. ASSUME NEW o \in Seat, NEW t \in Task, job'[o].task = {t}
        PROVE  o # s /\ job[o].task = {t} /\ t # TaskOf(s)
    BY <1>3, <2>1, <2>2 DEF Closes, Claims
  <2>3. \A t \in Task \ {TaskOf(s)} : status'[t] = status[t]
    BY <1>3 DEF Closes, IInv, TypeOK
  <2>. QED  BY <2>2, <2>3 DEF Claims
<1>4. ASSUME NEW s \in Seat, NEW t \in Task, Begins(s, t) PROVE Claims'
  <2>1. \A o \in Seat : job[o].task # {t}
    BY <1>4 DEF Begins, Claims
  <2>2. /\ status'[t] = "claimed" /\ \A u \in Task \ {t} : status'[u] = status[u]
        /\ job'[s].task = {t} /\ \A o \in Seat \ {s} : job'[o].task = job[o].task
    BY <1>4 DEF Begins, IInv, TypeOK
  <2>3. ASSUME NEW o \in Seat, NEW u \in Task, job'[o].task = {u}
        PROVE  status'[u] = "claimed" /\ \A p \in Seat : job'[p].task = {u} => p = o
    <3>1. CASE u = t
      BY <2>1, <2>2, <2>3, <3>1
    <3>2. CASE u # t
      <4>1. o # s /\ job[o].task = {u}
        BY <2>2, <2>3, <3>2
      <4>2. status[u] = "claimed" /\ \A p \in Seat : job[p].task = {u} => p = o
        BY <4>1 DEF Claims
      <4>3. \A p \in Seat : job'[p].task = {u} => p # s /\ job[p].task = {u}
        BY <2>2, <3>2
      <4>. QED  BY <2>2, <3>2, <4>2, <4>3
    <3>. QED  BY <3>1, <3>2
  <2>. QED  BY <2>3 DEF Claims
<1>5. CASE Crash
  <2>1. \A s \in Seat : job'[s].task = {}
    BY <1>5 DEF Crash, Idle
  <2>. QED  BY <2>1 DEF Claims
<1>6. CASE Foreign \/ UNCHANGED vars
  BY <1>1, <1>6 DEF Foreign, vars, TasksStay
<1>. QED  BY <1>1, <1>2, <1>3, <1>4, <1>5, <1>6, SeatTasks DEF Next

LEMMA ClosingsHold == ASSUME IInv, KInv, [Next]_vars PROVE Closings'
<1>1. /\ \A piece : Holds(integration, piece) => Holds(integration', piece)
      /\ \A t \in Task : TaskLanded(t) => TaskLanded(t)'
  BY Grown
<1>2. ASSUME NEW s \in Seat, NEW t \in Task, <<s, t>> \in wrought' \ estray'
      PROVE  job[s].task = {t} \/ <<s, t>> \in wrought \ estray
  BY <1>2, DoneGrows
<1>3. ASSUME NEW s \in Seat, NEW t \in Task, <<s, t>> \in closer
      PROVE  /\ status[t] = "closed" /\ job[s].task # {t}
             /\ <<s, t>> \in wrought' \ estray' => Holds(integration', <<s, t>>)
  <2>1. status[t] = "closed" /\ (<<s, t>> \in wrought \ estray => Holds(integration, <<s, t>>))
    BY <1>3 DEF KInv, Closings
  <2>2. job[s].task # {t}
    BY <2>1 DEF KInv, Claims
  <2>. QED  BY <1>1, <1>2, <2>1, <2>2
\* A step that closes nothing and opens nothing that is closed.
<1>4. ASSUME closer' = closer, \A t \in Task : status'[t] = "closed" <=> status[t] = "closed"
      PROVE  Closings'
  BY <1>1, <1>3, <1>4 DEF KInv, Closings
<1>5. CASE closer' = closer /\ TasksStay
  BY <1>4, <1>5 DEF TasksStay
<1>6. ASSUME NEW s \in Seat, closer' = closer, Frees(s) PROVE Closings'
  <2>1. TaskOf(s) \in Task /\ status[TaskOf(s)] = "claimed"
    BY <1>6, BusyTask DEF Frees, KInv, Claims
  <2>2. \A t \in Task : status'[t] = "closed" <=> status[t] = "closed"
    BY <1>6, <2>1 DEF Frees, IInv, TypeOK
  <2>. QED  BY <1>4, <1>6, <2>2
<1>7. ASSUME NEW s \in Seat, NEW u \in Task, closer' = closer, Begins(s, u) PROVE Closings'
  <2>1. \A t \in Task : status'[t] = "closed" <=> status[t] = "closed"
    BY <1>7 DEF Begins, IInv, TypeOK
  <2>. QED  BY <1>4, <1>7, <2>1
<1>8. ASSUME NEW s \in Seat, Closes(s) PROVE Closings'
  <2>1. TaskOf(s) \in Task /\ job[s].task = {TaskOf(s)}
    BY <1>8, BusyTask DEF Closes
  <2>2. \A t \in Task : status'[t] = "closed" <=> status[t] = "closed" \/ t = TaskOf(s)
    BY <1>8, <2>1 DEF Closes, IInv, TypeOK
  <2>3. TaskLanded(TaskOf(s))
    BY <1>8 DEF Closes
  <2>4. <<s, TaskOf(s)>> \in wrought \ estray => Holds(integration, <<s, TaskOf(s)>>)
    <3>1. Keeps(s, branch[s], tree[s], job[s], integration, wrought \ estray)
          /\ tree[s].dirty = {} /\ branch[s].own = <<>>
      BY <1>8, SeatKeeps DEF KInv, Closes, Committed
    <3>2. ~Holds(branch[s].own, <<s, TaskOf(s)>>)
      BY <3>1 DEF Holds
    <3>. QED  BY <2>1, <3>1, <3>2 DEF Keeps
  <2>5. wrought' = wrought /\ estray' = estray
    <3>1. job'[s].task # job[s].task
      BY <1>8, <2>1 DEF Closes
    <3>2. \A o \in Seat : ~Agent(o)
      BY <3>1 DEF Agent
    <3>. QED  BY <3>2, AgentsWork
  <2>6. ASSUME NEW o \in Seat, NEW t \in Task, <<o, t>> \in closer'
        PROVE  /\ status'[t] = "closed"
               /\ <<o, t>> \in wrought' \ estray' => Holds(integration', <<o, t>>)
    <3>1. CASE <<o, t>> \in closer
      BY <1>3, <2>2, <3>1
    <3>2. CASE <<o, t>> = <<s, TaskOf(s)>>
      BY <1>1, <2>1, <2>2, <2>4, <2>5, <3>2
    <3>. QED  BY <1>8, <2>6, <3>1, <3>2 DEF Closes
  <2>7. \A t \in Task : status'[t] = "closed" => TaskLanded(t)'
    BY <1>1, <2>1, <2>2, <2>3 DEF KInv, Closings
  <2>. QED  BY <2>6, <2>7 DEF Closings
<1>9. CASE Crash
  <2>1. closer' = closer /\ \A t \in Task : status'[t] = "closed" <=> status[t] = "closed"
    BY <1>9 DEF Crash, RecoveredTasks, history
  <2>. QED  BY <1>4, <2>1
<1>10. CASE Foreign \/ UNCHANGED vars
  <2>1. closer' = closer /\ TasksStay
    BY <1>10 DEF Foreign, vars, history, TasksStay
  <2>. QED  BY <1>5, <2>1
<1>. QED  BY <1>5, <1>6, <1>7, <1>8, <1>9, <1>10, SeatTasks DEF Next

LEMMA NextHolds == IInv /\ KInv /\ [Next]_vars => KInv'
BY NextKeeps, ClaimsHold, ClosingsHold DEF KInv

\* The work kept and the landings, in every state.
LEMMA WorkSound == Spec => []KInv
BY InitKeeps, NextHolds, SeatsSound, PTL DEF Spec

-----------------------------------------------------------------------------
(* Whose work it is: no git command brings a piece to a seat's branch or    *)
(* worktree, so that what is there was written by the seat's own agents.    *)

Within(b, w, mine) ==
  \A piece : Holds(b.own, piece) \/ Holds(w.loose, piece) \/ piece \in w.dirty => piece \in mine

Mine(s) == wrought \cap ({s} \X Task)

Authored == \A s \in Seat : Within(branch[s], tree[s], Mine(s))

LEMMA InitAuthored == Init => Authored
BY DEF Init, Authored, Within, NoBranch, NoTree, Holds

\* What a git command leaves, where each part is as before, or empty.
Less(b, w, r) ==
  /\ r.branch.own \in {b.own, <<>>}
  /\ r.tree.loose \in {w.loose, <<>>} /\ r.tree.dirty \in {w.dirty, {}}

LEMMA WithinLess ==
  ASSUME NEW b, NEW w, NEW r, Less(b, w, r), NEW mine, Within(b, w, mine)
  PROVE  Within(r.branch, r.tree, mine)
<1>1. \A piece : ~Holds(<<>>, piece)
  BY DEF Holds
<1>. QED  BY <1>1 DEF Within, Less

LEMMA OnBranchLess ==
  ASSUME NEW b, NEW w \in Trees, NEW ok
  PROVE  /\ Less(b, w, Left(b, OnBranch(w), ok))
         /\ Less(b, w, Left(b, [OnBranch(w) EXCEPT !.dirty = {}], ok))
<1>1. /\ OnBranch(w).loose = <<>> /\ OnBranch(w).dirty = w.dirty
      /\ [OnBranch(w) EXCEPT !.dirty = {}].loose = <<>>
      /\ [OnBranch(w) EXCEPT !.dirty = {}].dirty = {}
  BY DEF OnBranch, Trees
<1>. QED  BY <1>1 DEF Less, Left

LEMMA AbortLess ==
  ASSUME NEW b \in Branches, NEW w \in Trees, NEW r \in AbortRebase(b, w)
  PROVE  Less(b, w, r)
<1>1. CASE r = Left(b, w, FALSE)
  BY <1>1 DEF Less, Left
<1>2. CASE r = Left(b, [OnBranch(w) EXCEPT !.dirty = {}], FALSE)
  BY <1>2, OnBranchLess
<1>. QED  BY <1>1, <1>2 DEF AbortRebase

LEMMA RebaseLess ==
  ASSUME NEW b \in Branches, NEW w \in Trees, NEW r \in Rebase(b, w)
  PROVE  Less(b, w, r)
<1>. DEFINE v == [w EXCEPT !.head = "rebasing", !.loose = <<>>]
            c == [b EXCEPT !.base = Tip]
<1>1. v \in Trees /\ v.loose = <<>> /\ v.dirty = w.dirty /\ c.own = b.own
  <2>1. v \in Trees
    BY TreeValues, Nothing
  <2>. QED  BY <2>1 DEF Trees, Branches
<1>2. CASE r \in AbortRebase(b, w)
  BY <1>2, AbortLess
<1>3. CASE r = Left(c, OnBranch(w), TRUE)
  BY <1>1, <1>3, OnBranchLess DEF Less, Left
<1>4. CASE r \in AbortRebase(b, v)
  <2>. HIDE DEF v
  <2>1. Less(b, v, r)
    BY <1>1, <1>4, AbortLess
  <2>. QED  BY <1>1, <2>1 DEF Less
<1>. QED  BY <1>2, <1>3, <1>4 DEF Rebase

LEMMA EnsureLess ==
  ASSUME NEW b \in Branches, NEW w \in Trees, NEW r \in Ensure(b, w)
  PROVE  Less(b, w, r)
<1>. DEFINE cut == IF b.made THEN b ELSE [NoBranch EXCEPT !.made = TRUE, !.base = Tip]
            v == [w EXCEPT !.made = TRUE]
<1>1. cut.own \in {b.own, <<>>} /\ v.loose = w.loose /\ v.dirty = w.dirty
  BY DEF NoBranch, Trees
<1>2. \/ r = Left(b, w, TRUE) \/ r = Left(b, w, FALSE)
      \/ r = Left(cut, v, TRUE) \/ r = Left(cut, w, FALSE)
  BY DEF Ensure, Create
<1>. HIDE DEF cut, v
<1>. QED  BY <1>1, <1>2 DEF Less, Left

LEMMA SyncLess ==
  ASSUME NEW b \in Branches, NEW w \in Trees, NEW r \in Sync(b, w)
  PROVE  Less(b, w, r)
<1>. DEFINE c == [b EXCEPT !.base = Tip]
            v == [w EXCEPT !.loose = <<>>]
<1>1. c.own = b.own /\ v.loose = <<>> /\ v.dirty = w.dirty
  BY DEF Branches, Trees
<1>2. \/ r = Left(b, w, TRUE) \/ r = Left(b, w, FALSE)
      \/ r = Left(c, w, TRUE) \/ r = Left(b, v, TRUE)
      \/ r \in Rebase(b, w)
  BY DEF Sync
<1>. HIDE DEF c, v
<1>3. CASE r \in Rebase(b, w)
  BY <1>3, RebaseLess
<1>. QED  BY <1>1, <1>2, <1>3 DEF Less, Left

LEMMA RestoreLess ==
  ASSUME NEW b, NEW w \in Trees, NEW v \in Restore(b, w), NEW ok
  PROVE  Less(b, w, Left(b, v, ok))
BY OnBranchLess DEF Restore, Less, Left

LEMMA RecordedWithin ==
  ASSUME NEW b \in Branches, NEW w \in Trees, NEW mine, Within(b, w, mine), NEW piece,
         Holds(Recorded(b, w), piece)
  PROVE  piece \in mine
<1>. DEFINE commits == AtHead(b, w)
            last == Len(commits)
<1>1. /\ commits \in Seq(Commit) /\ w.dirty \in SUBSET Work
      /\ \A p : Holds(commits, p) \/ p \in w.dirty => p \in mine
  BY DEF AtHead, Branches, Trees, Within
<1>2. CASE b.own # <<>> /\ commits # <<>>
  <2>. DEFINE own == [commits EXCEPT ![last].work = @ \cup w.dirty]
  <2>1. Recorded(b, w) = own
    BY <1>2 DEF Recorded
  <2>2. last \in DOMAIN commits /\ commits[last] \in Commit
    BY <1>1, <1>2
  <2>3. DOMAIN own = DOMAIN commits /\ \A i \in DOMAIN commits \ {last} : own[i] = commits[i]
    BY <1>1
  <2>4. own[last].work = commits[last].work \cup w.dirty
    BY <1>1, <2>2 DEF Commit
  <2>. HIDE DEF own, last, commits
  <2>. QED  BY <1>1, <2>1, <2>2, <2>3, <2>4 DEF Holds
<1>3. CASE ~(b.own # <<>> /\ commits # <<>>)
  <2>. DEFINE commit == [work |-> w.dirty, stamps |-> {}]
  <2>1. Recorded(b, w) = commits \/ Recorded(b, w) = Append(commits, commit)
    BY <1>3 DEF Recorded
  <2>2. commit \in Commit /\ commit.work = w.dirty
    BY <1>1 DEF Commit
  <2>. HIDE DEF commit, commits
  <2>. QED  BY <1>1, <2>1, <2>2, HoldsAppended
<1>. QED  BY <1>2, <1>3

\* A seat moves with what is its own.
LEMMA SeatAuthored ==
  ASSUME IInv, Authored, wrought \subseteq wrought', NEW s \in Seat, NEW r, Put(s, r),
         Within(r.branch, r.tree, Mine(s)')
  PROVE  Authored'
<1>1. /\ branch'[s] = r.branch /\ tree'[s] = r.tree
      /\ \A o \in Seat \ {s} : branch'[o] = branch[o] /\ tree'[o] = tree[o]
  BY DEF Put, IInv, TypeOK
<1>2. ASSUME NEW o \in Seat \ {s} PROVE Within(branch'[o], tree'[o], Mine(o)')
  <2>1. Within(branch[o], tree[o], Mine(o)) /\ Mine(o) \subseteq Mine(o)'
    BY DEF Authored, Mine
  <2>. QED  BY <1>1, <2>1 DEF Within
<1>. QED  BY <1>1, <1>2 DEF Authored

LEMMA SeatOwns ==
  ASSUME IInv, Authored, NEW s \in Seat, wrought' = wrought
  PROVE  /\ Within(branch[s], tree[s], Mine(s)) /\ Mine(s)' = Mine(s)
         /\ branch[s] \in Branches /\ tree[s] \in Trees
BY SeatFacts DEF Authored, Mine

\* A command that leaves what there was, and one that is given up.
LEMMA LessAuthored ==
  ASSUME IInv, Authored, NEW s \in Seat, wrought' = wrought, NEW r, Put(s, r),
         Less(branch[s], tree[s], r)
  PROVE  Authored'
BY SeatOwns, WithinLess, SeatAuthored

LEMMA GivesUpAuthored ==
  ASSUME IInv, Authored, NEW s \in Seat, wrought' = wrought, NEW b, NEW w \in Trees,
         Within(b, w, Mine(s)), GiveUp(s, b, w)
  PROVE  Authored'
<1>1. PICK v \in Restore(b, w) : Put(s, Left(b, v, FALSE))
  BY DEF GiveUp
<1>2. Less(b, w, Left(b, v, FALSE))
  BY RestoreLess
<1>3. Within(Left(b, v, FALSE).branch, Left(b, v, FALSE).tree, Mine(s)')
  BY <1>2, SeatOwns, WithinLess
<1>. QED  BY <1>1, <1>3, SeatAuthored

LEMMA StaysAuthored == ASSUME Authored, UNCHANGED <<branch, tree, wrought>> PROVE Authored'
BY DEF Authored, Mine

LEMMA SeatReadyAuthored ==
  ASSUME IInv, Authored, NEW s \in Seat, NEW t \in Task, SeatReady(s, t)
  PROVE  Authored'
<1>1. PICK e \in Ensure(branch[s], tree[s]) :
        \E r \in IF e.ok THEN Sync(e.branch, e.tree) ELSE {e} : Put(s, r)
  BY DEF SeatReady
<1>2. PICK r \in IF e.ok THEN Sync(e.branch, e.tree) ELSE {e} : Put(s, r)
  BY <1>1
<1>3. Leaves(e) /\ Within(e.branch, e.tree, Mine(s))
  BY SeatFacts, EnsureLeaves, EnsureLess, WithinLess DEF IInv, Authored
<1>4. Within(r.branch, r.tree, Mine(s))
  <2>1. CASE r \in Sync(e.branch, e.tree)
    <3>1. Less(e.branch, e.tree, r)
      BY <1>3, <2>1, SyncLess DEF Leaves
    <3>. QED  BY <1>3, <3>1, WithinLess
  <2>. QED  BY <1>2, <1>3, <2>1
<1>5. wrought' = wrought
  BY DEF SeatReady
<1>6. Within(r.branch, r.tree, Mine(s)')
  BY <1>4, <1>5, SeatOwns
<1>. QED  BY <1>2, <1>5, <1>6, SeatAuthored

LEMMA AgentAuthored ==
  ASSUME IInv, Authored, NEW s \in Seat, Agent(s)
  PROVE  Authored'
<1>. DEFINE b == branch[s]
            w == tree[s]
            piece == <<s, TaskOf(s)>>
            commit == [work |-> w.dirty \cup {piece}, stamps |-> {}]
            commits == Append(AtHead(b, w), commit)
<1>1. /\ b \in Branches /\ w \in Trees /\ w.dirty \in SUBSET Work /\ AtHead(b, w) \in Seq(Commit)
      /\ TaskOf(s) \in Task /\ wrought' = wrought \cup {piece}
  <2>1. job[s].pc # "idle" /\ wrought' = wrought \cup {piece}
    BY DEF Agent, Busy
  <2>. QED  BY <2>1, BusyTask, SeatFacts DEF AtHead
<1>2. piece \in Mine(s)' /\ Mine(s) \subseteq Mine(s)' /\ piece \in Work
  BY <1>1 DEF Mine, Work
<1>3. Within(b, w, Mine(s)')
  BY <1>2 DEF Authored, Within
<1>4. commit \in Commit /\ commit.work = w.dirty \cup {piece}
  <2>. HIDE DEF piece, w
  <2>. QED  BY <1>1, <1>2 DEF Commit
<1>5. commits \in Seq(Commit) /\ \A p : Holds(commits, p) => p \in Mine(s)'
  <2>. HIDE DEF commit, piece
  <2>1. \A p : Holds(AtHead(b, w), p) => p \in Mine(s)'
    BY <1>3 DEF AtHead, Within
  <2>2. \A p : p \in commit.work => p \in Mine(s)'
    BY <1>2, <1>3, <1>4 DEF Within
  <2>. HIDE DEF b, w
  <2>. QED  BY <1>1, <1>4, <2>1, <2>2, HoldsAppended
<1>6. ASSUME NEW r, Put(s, r), r.branch.own \in {b.own, commits},
             r.tree.loose \in {w.loose, commits},
             r.tree.dirty \subseteq w.dirty \cup {piece}
      PROVE  Authored'
  <2>1. Within(r.branch, r.tree, Mine(s)')
    <3>. HIDE DEF commits, piece, b, w
    <3>. QED  BY <1>2, <1>3, <1>5, <1>6 DEF Within
  <2>. QED  BY <1>1, <1>6, <2>1, SeatAuthored
<1>7. CASE tree' = [tree EXCEPT ![s].dirty = @ \cup {piece}] /\ UNCHANGED branch
  <2>. DEFINE r == Left(b, [w EXCEPT !.dirty = @ \cup {piece}], TRUE)
  <2>1. Put(s, r)
    BY <1>7 DEF Put, Left, IInv, TypeOK
  <2>2. r.branch.own = b.own /\ r.tree.loose = w.loose /\ r.tree.dirty = w.dirty \cup {piece}
    BY <1>1 DEF Left, Trees
  <2>. HIDE DEF r, commits
  <2>. QED  BY <1>6, <2>1, <2>2
<1>8. CASE Put(s, Left([b EXCEPT !.own = commits], [w EXCEPT !.dirty = {}], TRUE))
  <2>. DEFINE r == Left([b EXCEPT !.own = commits], [w EXCEPT !.dirty = {}], TRUE)
  <2>1. r.branch.own = commits /\ r.tree.loose = w.loose /\ r.tree.dirty = {}
    <3>. HIDE DEF commits, b, w
    <3>. QED  BY <1>1 DEF Left, Branches, Trees
  <2>2. Put(s, r)
    BY <1>8
  <2>. HIDE DEF r, commits
  <2>. QED  BY <1>6, <2>1, <2>2
<1>9. CASE Put(s, Left(b, [w EXCEPT !.loose = commits, !.dirty = {}], TRUE))
  <2>. DEFINE r == Left(b, [w EXCEPT !.loose = commits, !.dirty = {}], TRUE)
  <2>1. r.branch.own = b.own /\ r.tree.loose = commits /\ r.tree.dirty = {}
    <3>. HIDE DEF commits, b, w
    <3>. QED  BY <1>1 DEF Left, Branches, Trees
  <2>2. Put(s, r)
    BY <1>9
  <2>. HIDE DEF r, commits
  <2>. QED  BY <1>6, <2>1, <2>2
<1>. QED  BY <1>7, <1>8, <1>9 DEF Agent

LEMMA CommitWorkAuthored ==
  ASSUME IInv, Authored, NEW s \in Seat, CommitWork(s)
  PROVE  Authored'
<1>. DEFINE b == branch[s]
            w == tree[s]
            own == Recorded(b, w)
            clean == [w EXCEPT !.dirty = {}, !.head = IF @ = "conflict" THEN "detached" ELSE @]
<1>1. /\ b \in Branches /\ w \in Trees /\ wrought' = wrought
      /\ Within(b, w, Mine(s)) /\ Mine(s)' = Mine(s)
  <2>1. wrought' = wrought
    BY DEF CommitWork, history
  <2>. QED  BY <2>1, SeatOwns
<1>2. \A p : Holds(own, p) => p \in Mine(s)'
  <2>. HIDE DEF b, w
  <2>. QED  BY <1>1, RecordedWithin
<1>3. ASSUME NEW r, Put(s, r), r.branch.own \in {b.own, own}, r.tree.loose \in {w.loose, own},
             r.tree.dirty = {}
      PROVE  Authored'
  <2>1. Within(r.branch, r.tree, Mine(s)')
    <3>. HIDE DEF own, b, w
    <3>. QED  BY <1>1, <1>2, <1>3 DEF Within
  <2>. QED  BY <1>1, <1>3, <2>1, SeatAuthored
<1>4. clean.loose = w.loose /\ clean.dirty = {} /\ [clean EXCEPT !.loose = own].loose = own
      /\ [clean EXCEPT !.loose = own].dirty = {}
  <2>. HIDE DEF own, w
  <2>. QED  BY <1>1 DEF Trees
<1>5. CASE Put(s, Left([b EXCEPT !.own = own], clean, TRUE))
  <2>. DEFINE r == Left([b EXCEPT !.own = own], clean, TRUE)
  <2>1. r.branch.own = own /\ r.tree.loose = w.loose /\ r.tree.dirty = {}
    <3>. HIDE DEF own, clean, b, w
    <3>. QED  BY <1>1, <1>4 DEF Left, Branches
  <2>2. Put(s, r)
    BY <1>5
  <2>. HIDE DEF r, own
  <2>. QED  BY <1>3, <2>1, <2>2
<1>6. CASE Put(s, Left(b, [clean EXCEPT !.loose = own], TRUE))
  <2>. DEFINE r == Left(b, [clean EXCEPT !.loose = own], TRUE)
  <2>1. r.branch.own = b.own /\ r.tree.loose = own /\ r.tree.dirty = {}
    <3>. HIDE DEF own, clean, b, w
    <3>. QED  BY <1>1, <1>4 DEF Left
  <2>2. Put(s, r)
    BY <1>6
  <2>. HIDE DEF r, own
  <2>. QED  BY <1>3, <2>1, <2>2
<1>7. CASE UNCHANGED <<branch, tree>>
  BY <1>1, <1>7, StaysAuthored
<1>. QED  BY <1>5, <1>6, <1>7 DEF CommitWork

LEMMA RebaseOntoAuthored ==
  ASSUME IInv, Authored, NEW s \in Seat, RebaseOnto(s)
  PROVE  Authored'
<1>1. PICK r \in Rebase(branch[s], tree[s]) : Put(s, r)
  BY DEF RebaseOnto
<1>2. wrought' = wrought /\ Less(branch[s], tree[s], r)
  BY SeatFacts, RebaseLess DEF RebaseOnto, history
<1>. QED  BY <1>1, <1>2, LessAuthored

LEMMA StampAuthored ==
  ASSUME IInv, Authored, NEW s \in Seat, Stamp(s)
  PROVE  Authored'
<1>. DEFINE b == branch[s]
            w == tree[s]
            t == TaskOf(s)
<1>1. /\ b \in Branches /\ w \in Trees /\ b.own \in Seq(Commit) /\ wrought' = wrought
      /\ Within(b, w, Mine(s)) /\ Mine(s)' = Mine(s)
  <2>1. wrought' = wrought
    BY DEF Stamp, history
  <2>. QED  BY <2>1, SeatOwns, SeatFacts
<1>2. CASE UNCHANGED <<branch, tree>>
  BY <1>1, <1>2, StaysAuthored
<1>3. CASE /\ Len(b.own) = 1
           /\ branch' = [branch EXCEPT ![s].own[1] = StampHead(@, t)] /\ UNCHANGED tree
  <2>. DEFINE own == [b.own EXCEPT ![1] = StampHead(b.own[1], t)]
              c == [b EXCEPT !.own = own]
  <2>1. \A p : Holds(own, p) => Holds(b.own, p)
    <3>1. DOMAIN own = DOMAIN b.own /\ DOMAIN b.own = {1}
      BY <1>1, <1>3
    <3>2. own[1].work = b.own[1].work
      BY <1>1, <3>1 DEF StampHead, Commit
    <3>. HIDE DEF own
    <3>. QED  BY <3>1, <3>2 DEF Holds
  <2>2. branch' = [branch EXCEPT ![s] = c] /\ UNCHANGED tree
    BY <1>3
  <2>3. c.own = own
    <3>. HIDE DEF own, b
    <3>. QED  BY <1>1 DEF Branches
  <2>. HIDE DEF c, own
  <2>4. Put(s, Left(c, w, TRUE))
    BY <2>2, Rewriting
  <2>5. Within(Left(c, w, TRUE).branch, Left(c, w, TRUE).tree, Mine(s)')
    <3>. HIDE DEF b, w
    <3>. QED  BY <1>1, <2>1, <2>3 DEF Within, Left
  <2>. QED  BY <1>1, <2>4, <2>5, SeatAuthored
<1>4. CASE tree' = [tree EXCEPT ![s].head = "detached", ![s].loose = <<>>] /\ UNCHANGED branch
  <2>. DEFINE r == Left(b, [w EXCEPT !.head = "detached", !.loose = <<>>], TRUE)
  <2>1. Put(s, r)
    BY <1>4 DEF Put, Left, IInv, TypeOK
  <2>2. Less(b, w, r)
    <3>. HIDE DEF b, w
    <3>. QED  BY <1>1 DEF Less, Left, Trees
  <2>. HIDE DEF r
  <2>. QED  BY <1>1, <2>1, <2>2, LessAuthored
<1>. QED  BY <1>2, <1>3, <1>4 DEF Stamp

LEMMA PickAuthored ==
  ASSUME IInv, Authored, NEW s \in Seat, Pick(s)
  PROVE  Authored'
<1>. DEFINE b == branch[s]
            w == tree[s]
            t == TaskOf(s)
            next == b.own[Len(w.loose) + 1]
            picked == [w EXCEPT !.dirty = next.work]
            conflicted == [w EXCEPT !.head = "conflict"]
            loose == Append(w.loose, Stamped(next, t))
            v == [w EXCEPT !.loose = loose]
<1>1. /\ b \in Branches /\ w \in Trees /\ b.own \in Seq(Commit) /\ w.loose \in Seq(Commit)
      /\ t \in Task /\ job[s].pc = "replay" /\ wrought' = wrought
      /\ Within(b, w, Mine(s)) /\ Mine(s)' = Mine(s)
  <2>1. job[s].pc = "replay" /\ wrought' = wrought
    BY DEF Pick, Busy, history
  <2>2. t \in Task
    BY <2>1, BusyTask
  <2>. QED  BY <2>1, <2>2, SeatFacts, SeatOwns
<1>2. next \in Commit /\ next.work \in SUBSET Work /\ \A p \in next.work : p \in Mine(s)
  <2>1. Len(w.loose) <= Len(b.own)
    BY <1>1, Replaying
  <2>2. Len(w.loose) # Len(b.own) /\ Len(w.loose) \in Nat /\ Len(b.own) \in Nat
    BY <1>1 DEF Pick, Replayed
  <2>3. Len(w.loose) + 1 \in DOMAIN b.own
    BY <1>1, <2>1, <2>2
  <2>4. next \in Commit
    BY <1>1, <2>3
  <2>5. \A p \in next.work : Holds(b.own, p)
    BY <2>3 DEF Holds
  <2>. HIDE DEF next
  <2>. QED  BY <1>1, <2>4, <2>5 DEF Commit, Within
<1>3. picked \in Trees /\ conflicted \in Trees /\ v.loose = loose /\ v.dirty = w.dirty
  <2>. HIDE DEF next, loose
  <2>1. picked \in Trees /\ conflicted \in Trees
    BY <1>1, <1>2, TreeValues, Nothing
  <2>. QED  BY <1>1, <2>1 DEF Trees
<1>4. Within(b, picked, Mine(s)) /\ Within(b, conflicted, Mine(s))
  <2>1. /\ picked.loose = w.loose /\ picked.dirty = next.work
        /\ conflicted.loose = w.loose /\ conflicted.dirty = w.dirty
    <3>. HIDE DEF next, w
    <3>. QED  BY <1>1 DEF Trees
  <2>. HIDE DEF picked, conflicted, next, b, w
  <2>. QED  BY <1>1, <1>2, <2>1 DEF Within
<1>5. CASE GiveUp(s, b, w) \/ GiveUp(s, b, picked) \/ GiveUp(s, b, conflicted)
  <2>. HIDE DEF picked, conflicted
  <2>. QED  BY <1>1, <1>3, <1>4, <1>5, GivesUpAuthored
<1>6. CASE tree' = [tree EXCEPT ![s].loose = loose] /\ UNCHANGED branch
  <2>1. \A p : Holds(loose, p) => p \in Mine(s)
    <3>1. Stamped(next, t) \in Commit /\ Stamped(next, t).work = next.work
      <4>. HIDE DEF next, t
      <4>. QED  BY <1>1, <1>2 DEF Stamped, Commit
    <3>. DEFINE stamped == Stamped(next, t)
    <3>2. \A p : Holds(Append(w.loose, stamped), p) => Holds(w.loose, p) \/ p \in stamped.work
      <4>. HIDE DEF stamped, w
      <4>. QED  BY <1>1, <3>1, HoldsAppended DEF stamped
    <3>. HIDE DEF next, b, w, t
    <3>. QED  BY <1>1, <1>2, <3>1, <3>2 DEF Within
  <2>2. tree' = [tree EXCEPT ![s] = v] /\ branch' = branch
    BY <1>6
  <2>. HIDE DEF v, loose
  <2>3. Put(s, Left(b, v, TRUE))
    BY <2>2 DEF Put, Left, IInv, TypeOK
  <2>4. Within(Left(b, v, TRUE).branch, Left(b, v, TRUE).tree, Mine(s)')
    <3>. HIDE DEF b, w
    <3>. QED  BY <1>1, <1>3, <2>1 DEF Within, Left
  <2>. QED  BY <1>1, <2>3, <2>4, SeatAuthored
<1>. QED  BY <1>5, <1>6 DEF Pick

LEMMA MoveBranchAuthored ==
  ASSUME IInv, Authored, NEW s \in Seat, MoveBranch(s)
  PROVE  Authored'
<1>. DEFINE b == branch[s]
            w == tree[s]
            moved == [b EXCEPT !.base = job[s].base, !.own = w.loose]
<1>1. /\ b \in Branches /\ w \in Trees /\ wrought' = wrought
      /\ Within(b, w, Mine(s)) /\ Mine(s)' = Mine(s)
  <2>1. wrought' = wrought
    BY DEF MoveBranch, history
  <2>. QED  BY <2>1, SeatOwns
<1>2. Within(moved, w, Mine(s))
  <2>1. moved.own = w.loose
    <3>. HIDE DEF w
    <3>. QED  BY <1>1 DEF Branches
  <2>. HIDE DEF moved, b, w
  <2>. QED  BY <1>1, <2>1 DEF Within
<1>3. CASE Put(s, Left(moved, OnBranch(w), TRUE))
  <2>1. Less(moved, w, Left(moved, OnBranch(w), TRUE))
    BY <1>1, OnBranchLess
  <2>. HIDE DEF moved
  <2>2. Within(Left(moved, OnBranch(w), TRUE).branch, Left(moved, OnBranch(w), TRUE).tree, Mine(s)')
    BY <1>1, <1>2, <2>1, WithinLess
  <2>. QED  BY <1>1, <1>3, <2>2, SeatAuthored
<1>4. CASE GiveUp(s, b, w) \/ GiveUp(s, moved, w)
  <2>. HIDE DEF moved
  <2>. QED  BY <1>1, <1>2, <1>4, GivesUpAuthored
<1>. QED  BY <1>3, <1>4 DEF MoveBranch

LEMMA FastForwardAuthored ==
  ASSUME IInv, Authored, NEW s \in Seat, FastForward(s)
  PROVE  Authored'
<1>. DEFINE b == branch[s]
            c == [b EXCEPT !.base = Tip + Len(b.own), !.own = <<>>]
<1>1. UNCHANGED <<tree, wrought>> /\ branch[s] \in Branches
  BY SeatFacts DEF FastForward, history
<1>2. CASE UNCHANGED branch
  BY <1>1, <1>2, StaysAuthored
<1>3. CASE branch' = [branch EXCEPT ![s].base = Tip + Len(b.own), ![s].own = <<>>]
  <2>1. c.own = <<>>
    BY <1>1 DEF Branches
  <2>2. branch' = [branch EXCEPT ![s] = c]
    <3>1. branch \in [Seat -> Branches]
      BY DEF IInv, TypeOK
    <3>. QED  BY <1>3, <3>1
  <2>. HIDE DEF c
  <2>3. Put(s, Left(c, tree[s], TRUE))
    BY <1>1, <2>2, Rewriting
  <2>4. Less(b, tree[s], Left(c, tree[s], TRUE))
    BY <2>1 DEF Less, Left
  <2>. QED  BY <1>1, <2>3, <2>4, LessAuthored
<1>. QED  BY <1>2, <1>3 DEF FastForward

LEMMA CrashAuthored == ASSUME IInv, Authored, Crash PROVE Authored'
<1>1. UNCHANGED <<branch, wrought>>
  BY DEF Crash, history
<1>2. ASSUME NEW s \in Seat PROVE Within(branch'[s], tree'[s], Mine(s)')
  <2>1. tree'[s] = tree[s] \/ tree'[s] = [tree[s] EXCEPT !.head = "rebasing", !.loose = <<>>]
    BY DEF Crash
  <2>2. tree'[s].loose \in {tree[s].loose, <<>>} /\ tree'[s].dirty = tree[s].dirty
    BY <2>1, SeatFacts DEF Trees
  <2>3. Less(branch[s], tree[s], Left(branch[s], tree'[s], TRUE))
    BY <2>2 DEF Less, Left
  <2>. QED  BY <1>1, <2>3, SeatOwns, WithinLess DEF Left
<1>. QED  BY <1>2 DEF Authored

LEMMA NextAuthored == ASSUME IInv, Authored, [Next]_vars PROVE Authored'
<1>1. ASSUME NEW s \in Seat, SeatStep(s) PROVE Authored'
  <2>1. CASE AgentDone(s) \/ AgentFailed(s) \/ Gate(s) \/ Landed(s)
    BY <2>1, StaysAuthored DEF AgentDone, AgentFailed, Gate, Landed, git, history
  <2>. QED
    BY <1>1, <2>1, SeatReadyAuthored, AgentAuthored, CommitWorkAuthored, RebaseOntoAuthored,
       StampAuthored, PickAuthored, MoveBranchAuthored, FastForwardAuthored DEF SeatStep
<1>2. CASE Foreign \/ UNCHANGED vars
  BY <1>2, StaysAuthored DEF Foreign, vars, git, history
<1>. QED  BY <1>1, <1>2, CrashAuthored DEF Next

\* Whose the work is, in every state.
LEMMA WorkAuthored == Spec => []Authored
BY InitAuthored, NextAuthored, SeatsSound, PTL DEF Spec

-----------------------------------------------------------------------------
\* Nothing reaches integration that the gate did not pass, on top of what it
\* was merged to, with the stamp of the task that was landed; LandBranch, with
\* its one retry, among other seats and other people's commits.
THEOREM MergedAsGated == Spec => GatedAsLanded
<1>1. ASSUME IInv, [Next]_vars, integration' # integration
      PROVE  \/ integration' = Append(integration, [work |-> {}, stamps |-> {}])
             \/ \E s \in Seat :
                  /\ Busy(s, "merge")
                  /\ gated[s].base = Len(integration)
                  /\ integration' = integration \o gated[s].own
                  /\ \A i \in DOMAIN gated[s].own : TaskOf(s) \in gated[s].own[i].stamps
  <2>1. ASSUME NEW s \in Seat, FastForward(s), ~Behind(branch[s]),
               integration' = integration \o branch[s].own
        PROVE  /\ Busy(s, "merge")
               /\ gated[s].base = Len(integration)
               /\ integration' = integration \o gated[s].own
               /\ \A i \in DOMAIN gated[s].own : TaskOf(s) \in gated[s].own[i].stamps
    BY <1>1, <2>1, Merging DEF FastForward, Busy, Tip, StampedBy
  <2>. QED  BY <1>1, <2>1, OnlyGrows
<1>. QED  BY <1>1, SeatsSound, PTL DEF Spec, GatedAsLanded

\* No landing, sync, replay or death of the daemon loses what an agent wrote
\* on the branch of its seat.
THEOREM NoWorkLost == Spec => []WorkKept
<1>1. IInv /\ KInv => WorkKept
  <2>. SUFFICES ASSUME IInv, KInv, NEW piece \in wrought \ estray PROVE Kept(piece)
    BY DEF WorkKept
  <2>1. PICK s \in Seat, t \in Task : piece = <<s, t>>
    BY DEF IInv, TypeOK, Work
  <2>2. Keeps(s, branch[s], tree[s], job[s], integration, wrought \ estray)
    BY SeatKeeps DEF KInv
  <2>3. Holds(integration, piece) \/ Holds(branch[s].own, piece) \/ piece \in tree[s].dirty
    BY <2>1, <2>2 DEF Keeps
  <2>. QED  BY <2>3, HoldsIsContents DEF Kept
<1>. QED  BY <1>1, SeatsSound, WorkSound, PTL

\* A task that is closed is on integration, with the work of the session that
\* closed it.
THEOREM ClosedTasksLanded == Spec => []ClosedIsLanded
<1>1. IInv /\ KInv => ClosedIsLanded
  <2>. SUFFICES ASSUME IInv, KInv PROVE ClosedIsLanded  OBVIOUS
  <2>1. \A s \in Seat, t \in Task : <<s, t>> \in (closer \cap wrought) \ estray =>
          <<s, t>> \in Contents(integration)
    BY HoldsIsContents DEF KInv, Closings
  <2>. QED  BY <2>1 DEF ClosedIsLanded, KInv, Closings
<1>. QED  BY <1>1, SeatsSound, WorkSound, PTL

-----------------------------------------------------------------------------
(* Landing implements Delivery, whose state it has as these.                *)

Sessions == [s \in Seat |-> job[s].task]
Owed == wrought \ estray
Landings == Contents(integration)
Theirs(s) == {s} \X Task

LEMMA InitDelivers == Init => Delivered!Init
<1>. SUFFICES ASSUME Init PROVE Delivered!Init  OBVIOUS
<1>1. Contents(integration) = {}
  BY DEF Init, Contents
<1>2. Sessions = [s \in Seat |-> {}]
  BY DEF Sessions, Init, Idle
<1>. QED  BY <1>1, <1>2 DEF Init, Sessions, Delivered!Init

\* What a seat owes is on integration or on its branch, once nothing waits
\* in its worktree.
LEMMA OwedHeld ==
  ASSUME KInv, NEW s \in Seat, job[s].pc \in Committed
  PROVE  Owed \cap Theirs(s) \subseteq Landings \cup Contents(branch[s].own)
<1>1. Keeps(s, branch[s], tree[s], job[s], integration, wrought \ estray) /\ tree[s].dirty = {}
  BY SeatKeeps DEF KInv
<1>2. ASSUME NEW t \in Task, <<s, t>> \in Owed
      PROVE  <<s, t>> \in Landings \cup Contents(branch[s].own)
  <2>1. Holds(integration, <<s, t>>) \/ Holds(branch[s].own, <<s, t>>)
    BY <1>1, <1>2 DEF Keeps, Owed
  <2>. QED  BY <2>1, HoldsIsContents DEF Landings
<1>. QED  BY <1>2 DEF Theirs

\* A step that moves no work moves a session and its task as Delivery does,
\* or not at all.
LEMMA TasksDeliver ==
  ASSUME IInv, KInv, NEW s \in Seat, SeatStep(s),
         Landings' = Landings, UNCHANGED <<wrought, estray>>
  PROVE  Delivered!Next \/ UNCHANGED Delivered!deliveryState
<1>1. CASE TasksStay
  <2>1. Sessions' = Sessions /\ status' = status
    BY <1>1 DEF Sessions, TasksStay
  <2>. QED  BY <2>1 DEF Sessions, Landings, Delivered!deliveryState
<1>2. ASSUME NEW t \in Task, Begins(s, t) PROVE Delivered!Next
  <2>1. Sessions' = [Sessions EXCEPT ![s] = {t}] /\ Sessions[s] = {}
    BY <1>2 DEF Sessions, Begins
  <2>2. Delivered!Begin(s, t)
    BY <1>2, <2>1 DEF Sessions, Landings, Begins, Delivered!Begin
  <2>. QED  BY <2>2 DEF Delivered!Next
<1>3. ASSUME Frees(s) PROVE Delivered!Next
  <2>1. PICK t \in Task : TaskOf(s) = t /\ job[s].task = {t} /\ status[t] = "claimed"
    BY <1>3, BusyTask DEF Frees, KInv, Claims
  <2>2. Sessions' = [Sessions EXCEPT ![s] = {}] /\ Sessions[s] = {t}
    BY <1>3, <2>1 DEF Sessions, Frees
  <2>3. status' = [status EXCEPT ![t] = "open"] \/ status' = status
    BY <1>3, <2>1 DEF Frees
  <2>4. Delivered!GiveBack(s, t)
    BY <2>1, <2>2, <2>3 DEF Sessions, Landings, Delivered!GiveBack
  <2>. QED  BY <2>4 DEF Delivered!Next
<1>4. ASSUME Closes(s) PROVE Delivered!Next
  <2>1. PICK t \in Task : TaskOf(s) = t /\ job[s].task = {t} /\ status[t] = "claimed"
    BY <1>4, BusyTask DEF Closes, KInv, Claims
  <2>2. Sessions' = [Sessions EXCEPT ![s] = {}] /\ Sessions[s] = {t}
    BY <1>4, <2>1 DEF Sessions, Closes
  <2>3. status' = [status EXCEPT ![t] = "closed"]
    BY <1>4, <2>1 DEF Closes
  <2>4. Owed \cap Theirs(s) \subseteq Landings
    <3>1. Contents(branch[s].own) = {}
      BY <1>4 DEF Closes, Contents
    <3>. QED  BY <1>4, <3>1, OwedHeld DEF Closes, Committed
  <2>5. Delivered!Close(s, t)
    BY <2>1, <2>2, <2>3, <2>4
       DEF Sessions, Landings, Owed, Theirs, Delivered!Of, Delivered!Close
  <2>. QED  BY <2>5 DEF Delivered!Next
<1>. QED  BY <1>1, <1>2, <1>3, <1>4, SeatTasks

LEMMA AgentDelivers ==
  ASSUME IInv, NEW s \in Seat, Agent(s)
  PROVE  Delivered!Next
<1>. DEFINE piece == <<s, TaskOf(s)>>
<1>1. TaskOf(s) \in Task /\ job[s].task = {TaskOf(s)}
  BY BusyTask DEF Agent, Busy
<1>2. /\ UNCHANGED <<integration, job, status>> /\ wrought' = wrought \cup {piece}
      /\ estray' = estray \/ estray' = estray \cup {piece}
  BY DEF Agent
<1>3. Owed' \in {Owed \cup {piece}, Owed \ {piece}}
  <2>1. CASE piece \in estray'
    BY <1>2, <2>1 DEF Owed
  <2>2. CASE piece \notin estray'
    BY <1>2, <2>2 DEF Owed
  <2>. QED  BY <2>1, <2>2
<1>4. Sessions[s] = {TaskOf(s)} /\ Sessions' = Sessions /\ Landings' = Landings
  BY <1>1, <1>2 DEF Sessions, Landings
<1>5. Delivered!Write(s, TaskOf(s))
  BY <1>2, <1>3, <1>4 DEF Sessions, Landings, Owed, Delivered!Write
<1>. QED  BY <1>1, <1>5 DEF Delivered!Next

LEMMA FastForwardDelivers ==
  ASSUME IInv, KInv, Authored, NEW s \in Seat, FastForward(s),
         integration' = integration \o branch[s].own, branch[s].own # <<>>
  PROVE  Delivered!Next
<1>. DEFINE work == Contents(branch[s].own)
<1>1. /\ job[s].pc = "merge" /\ UNCHANGED <<wrought, estray>>
      /\ branch[s].own \in Seq(Commit) /\ integration \in Seq(Commit)
  BY SeatFacts DEF FastForward, Busy, history, IInv, TypeOK
<1>2. Goto(s, "landed") /\ status' = status
  <2>1. integration' # integration
    BY <1>1
  <2>. QED  BY <2>1 DEF FastForward
<1>3. Sessions' = Sessions /\ Sessions[s] # {}
  <2>1. TasksStay
    BY <1>2, GoingOn DEF PCs
  <2>2. job[s].task = {TaskOf(s)}
    BY <1>1, BusyTask
  <2>. QED  BY <2>1, <2>2 DEF Sessions, TasksStay
<1>4. Landings' = Landings \cup work
  <2>1. \A piece : piece \in Landings' <=> piece \in Landings \/ piece \in work
    BY <1>1, HoldsJoined, HoldsIsContents DEF Landings
  <2>. QED  BY <2>1
<1>5. work \subseteq wrought \cap Theirs(s)
  <2>1. \A piece : Holds(branch[s].own, piece) => piece \in Mine(s)
    BY DEF Authored, Within
  <2>. QED  BY <2>1, HoldsIsContents DEF Mine, Theirs
<1>6. Owed \cap Theirs(s) \subseteq Landings \cup work
  BY <1>1, OwedHeld DEF Committed
<1>7. Delivered!Land(s)
  <2>. HIDE DEF work
  <2>. QED
    BY <1>1, <1>2, <1>3, <1>4, <1>5, <1>6
       DEF Sessions, Landings, Owed, Theirs, Delivered!Of, Delivered!Land
<1>. QED  BY <1>7 DEF Delivered!Next

LEMMA NextDelivers ==
  ASSUME IInv, KInv, Authored, [Next]_vars
  PROVE  Delivered!Next \/ UNCHANGED Delivered!deliveryState
<1>1. ASSUME NEW s \in Seat, SeatStep(s)
      PROVE  Delivered!Next \/ UNCHANGED Delivered!deliveryState
  <2>1. CASE Agent(s)
    BY <2>1, AgentDelivers
  <2>2. CASE FastForward(s) /\ integration' = integration \o branch[s].own /\ branch[s].own # <<>>
    BY <2>2, FastForwardDelivers
  <2>3. CASE ~Agent(s) /\ integration' = integration
    <3>1. UNCHANGED <<wrought, estray>>
      BY <1>1, <2>3 DEF SeatStep, SeatReady, AgentDone, AgentFailed, CommitWork, RebaseOnto, Stamp,
         Pick, MoveBranch, Gate, FastForward, Landed, history
    <3>2. Landings' = Landings
      BY <2>3 DEF Landings, Contents
    <3>. QED  BY <1>1, <3>1, <3>2, TasksDeliver
  <2>4. integration' = integration \/ FastForward(s)
    BY <1>1 DEF SeatStep, SeatReady, Agent, AgentDone, AgentFailed, CommitWork, RebaseOnto, Stamp,
       Pick, MoveBranch, Gate, Landed, git
  <2>5. CASE FastForward(s)
    <3>1. integration' = integration \/ integration' = integration \o branch[s].own
      BY <2>5 DEF FastForward
    <3>2. branch[s].own = <<>> => integration \o branch[s].own = integration
      BY DEF IInv, TypeOK
    <3>. QED  BY <2>1, <2>2, <2>3, <2>5, <3>1, <3>2
  <2>. QED  BY <2>1, <2>3, <2>4, <2>5
<1>2. CASE Foreign
  <2>1. UNCHANGED <<job, status, wrought, estray>>
    BY <1>2 DEF Foreign, history
  <2>2. integration \in Seq(Commit) /\ [work |-> {}, stamps |-> {}] \in Commit
    BY DEF IInv, TypeOK, Commit
  <2>3. \A piece : piece \in Landings' <=> piece \in Landings
    BY <1>2, <2>2, HoldsAppended, HoldsIsContents DEF Foreign, Landings
  <2>. QED  BY <2>1, <2>3 DEF Sessions, Landings, Delivered!deliveryState
<1>3. CASE Crash
  <2>1. /\ UNCHANGED <<integration, wrought, estray>>
        /\ status' = [t \in Task |-> IF status[t] = "claimed" THEN "open" ELSE status[t]]
    BY <1>3 DEF Crash, RecoveredTasks, history
  <2>2. Sessions' = [s \in Seat |-> {}]
    BY <1>3 DEF Crash, Sessions, Idle
  <2>3. Delivered!Crash
    BY <2>1, <2>2 DEF Sessions, Contents, Delivered!Crash
  <2>. QED  BY <2>3 DEF Delivered!Next
<1>4. CASE UNCHANGED vars
  BY <1>4 DEF vars, git, history, Contents, Delivered!deliveryState
<1>. QED  BY <1>1, <1>2, <1>3, <1>4 DEF Next

\* LandBranch, with git that fails, other seats, other people's commits and
\* deaths of the daemon, does what Delivery promises: whatever the seat owes
\* is landed at once, nothing of another seat is, and only then is the task
\* closed.
THEOREM LandingDelivers == Spec => Delivers
<1>1. Init => Delivered!Init
  BY InitDelivers
<1>2. IInv /\ KInv /\ Authored /\ [Next]_vars => [Delivered!Next]_(Delivered!deliveryState)
  BY NextDelivers
<1>. QED
  BY <1>1, <1>2, SeatsSound, WorkSound, WorkAuthored, PTL DEF Spec, Delivers, Delivered!Spec
=============================================================================
