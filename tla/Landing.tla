------------------------------ MODULE Landing -------------------------------
(***************************************************************************)
(* How the work of a seat reaches the integration branch: internal/land,   *)
(* the worktrees of internal/worktree, and the callers of both in          *)
(* internal/dispatch (SeatReady before a session, complete and landed      *)
(* after it).                                                              *)
(*                                                                         *)
(* A commit is the set of pieces of work it holds and the tasks its        *)
(* trailers name.  A seat branch is the integration commit it starts from  *)
(* and its own commits after it, so that the branch is an ancestor of      *)
(* integration when it has none of its own, and a descendant when it       *)
(* starts from the tip.  Every git command may fail, seats land            *)
(* concurrently, and the daemon may die between two commands.  A seat has  *)
(* its next session when its landing is over: that the dispatcher takes a  *)
(* session out of its registry before it lands it (outcome.go), and can    *)
(* give the seat away meanwhile, is in Sessions and not here.              *)
(***************************************************************************)
EXTENDS Naturals, Sequences, FiniteSets

CONSTANTS
  Seat, Task,
  MaxOwn,      \* bound: commits an agent makes on its branch
  MaxForeign,  \* bound: commits others make on the integration branch
  MaxCrashes,  \* bound: deaths of the daemon
  MaxSessions  \* bound: sessions begun

ASSUME LandingAssumption ==
  /\ MaxOwn \in Nat /\ MaxForeign \in Nat
  /\ MaxCrashes \in Nat /\ MaxSessions \in Nat

Work == Seat \X Task
Commit == [work : SUBSET Work, stamps : SUBSET Task]

VARIABLES
  integration,  \* the commits of the integration branch
  branch,       \* the branch of each seat
  tree,         \* its worktree: where HEAD is and what is not committed
  job,          \* the session of the seat and where its landing is
  status,       \* the tasks in bd
  crashes, sessions,
  wrought,      \* history: the work agents have done
  estray,       \* history: the work done while HEAD was off the branch
  gated,        \* history: the branch as the gate last passed it
  closer        \* history: the work on which a task was closed

git == <<integration, branch, tree>>
history == <<wrought, estray, gated, closer>>
counters == <<crashes, sessions>>
vars == <<git, job, status, counters, history>>

NoBranch == [made |-> FALSE, base |-> 0, own |-> <<>>]
NoTree == [made |-> FALSE, head |-> "branch", loose |-> <<>>, dirty |-> {}]
Idle == [pc |-> "idle", task |-> {}, again |-> FALSE, base |-> 0]

Init ==
  /\ integration = <<>>
  /\ branch = [s \in Seat |-> NoBranch]
  /\ tree = [s \in Seat |-> NoTree]
  /\ job = [s \in Seat |-> Idle]
  /\ status = [t \in Task |-> "open"]
  /\ crashes = 0 /\ sessions = 0
  /\ wrought = {} /\ estray = {} /\ closer = {}
  /\ gated = [s \in Seat |-> NoBranch]

Tip == Len(integration)
Behind(b) == b.base < Tip
Contents(commits) == UNION {commits[i].work : i \in DOMAIN commits}

----------------------------------------------------------------------------
(* What a git command may leave: a branch, a worktree and whether it       *)
(* succeeded.                                                              *)

Left(b, w, ok) == [branch |-> b, tree |-> w, ok |-> ok]

OnBranch(w) == [w EXCEPT !.head = "branch", !.loose = <<>>]

\* What `status --porcelain` shows.
Dirty(w) == w.dirty # {} \/ w.head = "conflict"

\* `rebase --abort`, whose failure is only logged.
AbortRebase(b, w) ==
  {Left(b, w, FALSE)} \cup
    (IF w.head = "rebasing" THEN {Left(b, [OnBranch(w) EXCEPT !.dirty = {}], FALSE)}
                            ELSE {})

\* `rebase` onto integration: it checks the branch out first, and refuses
\* while another rebase is in progress or changes are not committed.
Rebase(b, w) ==
  AbortRebase(b, w) \cup
    (IF w.head = "rebasing" \/ Dirty(w) THEN {}
     ELSE {Left([b EXCEPT !.base = Tip], OnBranch(w), TRUE)} \cup
       (IF Behind(b) THEN AbortRebase(b, [w EXCEPT !.head = "rebasing", !.loose = <<>>])
                     ELSE {}))

\* Manager.Create: on a new branch at the tip, or on the branch there is;
\* the branch may be made and the worktree not.
Create(b, w) ==
  LET cut == IF b.made THEN b ELSE [NoBranch EXCEPT !.made = TRUE, !.base = Tip]
  IN  {Left(cut, [w EXCEPT !.made = TRUE], TRUE), Left(cut, w, FALSE), Left(b, w, FALSE)}

Registered(w) == w.made

\* Manager.Ensure: a registered worktree is taken as it is; what else
\* stands at its path is removed only when it is an empty directory.
Ensure(b, w) ==
  IF Registered(w) THEN {Left(b, w, TRUE)} ELSE {Left(b, w, FALSE)} \cup Create(b, w)

\* Fault: the reset does not ask whether the branch holds work.
SyncByReset(b, w) ==
  IF ~Behind(b) THEN {Left(b, w, TRUE)}
  ELSE {Left(b, w, FALSE)} \cup
    (IF w.dirty = {} /\ w.head = "branch"
     THEN {Left([b EXCEPT !.base = Tip, !.own = <<>>], w, TRUE)} ELSE {})

\* Manager.Sync as the daemon's adapter maps it: a branch at the tip is
\* taken without a look at the worktree, a dirty worktree is refused, a
\* branch without work is reset, and one with work is rebased.
Sync(b, w) ==
  IF ~Behind(b) THEN {Left(b, w, TRUE)}
  ELSE {Left(b, w, FALSE)} \cup
    (CASE Dirty(w) -> {}
       [] ~Dirty(w) /\ b.own = <<>> ->
            IF w.head = "branch"
              THEN {Left([b EXCEPT !.base = Tip], w, TRUE)}
              ELSE {Left(b, [w EXCEPT !.loose = <<>>], TRUE)}
       [] OTHER -> Rebase(b, w))

\* restoreStamp after a replay that failed, every status ignored: the
\* checkout is refused while the index holds a conflict, which
\* `cherry-pick --abort` does not undo for a pick without a commit.
Restore(b, w) ==
  {w} \cup (IF w.head = "conflict" THEN {} ELSE {[OnBranch(w) EXCEPT !.dirty = {}]})

\* What a commit at HEAD adds to: the branch, or a detached HEAD.
AtHead(b, w) == IF w.head = "branch" THEN b.own ELSE w.loose

\* Pipeline.commit after `add -A`: amended when the branch has commits of
\* its own, wherever HEAD is.
Recorded(b, w) ==
  LET commits == AtHead(b, w)
      last == Len(commits)
  IN  CASE b.own # <<>> /\ commits # <<>> ->
             [commits EXCEPT ![last].work = @ \cup w.dirty]
        [] OTHER -> IF w.dirty = {} THEN commits
                    ELSE Append(commits, [work |-> w.dirty, stamps |-> {}])

----------------------------------------------------------------------------
Put(s, left) ==
  /\ branch' = [branch EXCEPT ![s] = left.branch]
  /\ tree' = [tree EXCEPT ![s] = left.tree]

Goto(s, pc) == job' = [job EXCEPT ![s].pc = pc]

Busy(s, pc) == job[s].pc = pc
TaskOf(s) == CHOOSE t \in Task : job[s].task = {t}

\* SeatReady and the claim that follows it: the seat is ensured and synced,
\* or refused.
SeatReady(s, t) ==
  /\ Busy(s, "idle") /\ status[t] = "open" /\ sessions < MaxSessions
  /\ \E e \in Ensure(branch[s], tree[s]) :
       \E r \in IF e.ok THEN Sync(e.branch, e.tree) ELSE {e} :
         /\ Put(s, r)
         /\ IF r.ok
              THEN /\ sessions' = sessions + 1
                   /\ job' = [job EXCEPT ![s] = [Idle EXCEPT !.pc = "agent", !.task = {t}]]
                   /\ status' = [status EXCEPT ![t] = "claimed"]
              ELSE UNCHANGED <<job, status, sessions>>
         /\ gated' = [gated EXCEPT ![s] = NoBranch]
  /\ UNCHANGED <<integration, crashes, wrought, estray, closer>>

\* The agent changes files, or commits what it changed.
Agent(s) ==
  LET b == branch[s]
      w == tree[s]
      piece == <<s, TaskOf(s)>>
  IN  /\ Busy(s, "agent")
      /\ wrought' = wrought \cup {piece}
      /\ estray' = IF w.head = "branch" THEN estray ELSE estray \cup {piece}
      /\ \/ /\ tree' = [tree EXCEPT ![s].dirty = @ \cup {piece}]
            /\ UNCHANGED branch
         \/ /\ Len(AtHead(b, w)) < MaxOwn
            /\ LET commits == Append(AtHead(b, w),
                                [work |-> w.dirty \cup {piece}, stamps |-> {}])
               IN  Put(s, IF w.head = "branch"
                            THEN Left([b EXCEPT !.own = commits], [w EXCEPT !.dirty = {}], TRUE)
                            ELSE Left(b, [w EXCEPT !.loose = commits, !.dirty = {}], TRUE))
      /\ UNCHANGED <<integration, job, status, counters, gated, closer>>

\* The session ends: complete asks for the landing, terminalFailure for a
\* release.
AgentDone(s) ==
  /\ Busy(s, "agent") /\ Goto(s, "commit")
  /\ UNCHANGED <<git, status, counters, history>>

\* landFailure and terminalFailure release the task; a release that fails
\* leaves it claimed.
Release(s) ==
  /\ job' = [job EXCEPT ![s] = Idle]
  /\ \/ status' = [status EXCEPT ![TaskOf(s)] = "open"]
     \/ UNCHANGED status

\* What LandBranch does not land: the daemon's adapter passes its outcome on
\* with the error, a conflict and a failed gate as well, and the dispatcher
\* ends it as a failure.
Unlanded(s) == Release(s)

AgentFailed(s) ==
  /\ Busy(s, "agent") /\ Release(s)
  /\ UNCHANGED <<git, counters, history>>

\* Pipeline.commit and verifyBranch.
CommitWork(s) ==
  LET b == branch[s]
      w == tree[s]
      clean == [w EXCEPT !.dirty = {}, !.head = IF @ = "conflict" THEN "detached" ELSE @]
  IN  /\ Busy(s, "commit")
      /\ \/ /\ Put(s, IF w.head = "branch"
                        THEN Left([b EXCEPT !.own = Recorded(b, w)], clean, TRUE)
                        ELSE Left(b, [clean EXCEPT !.loose = Recorded(b, w)], TRUE))
            /\ \/ Goto(s, "rebase") /\ UNCHANGED status
               \/ Unlanded(s)
         \/ Unlanded(s) /\ UNCHANGED <<branch, tree>>
      /\ UNCHANGED <<integration, counters, history>>

\* The rebase of LandBranch, and the one after a fast-forward that diverged.
RebaseOnto(s) ==
  /\ Busy(s, "rebase")
  /\ \E r \in Rebase(branch[s], tree[s]) :
       /\ Put(s, r)
       /\ \/ r.ok /\ Goto(s, "stamp") /\ UNCHANGED status
          \/ Unlanded(s)
  /\ UNCHANGED <<integration, counters, history>>

\* Apply: the trailers of the stamp replace those of the message.
Stamped(commit, t) == [commit EXCEPT !.stamps = {t}]

\* stampHead: `commit --amend --trailer` keeps the trailers there are.
StampHead(commit, t) == [commit EXCEPT !.stamps = @ \cup {t}]

\* replayCommits: whether some message does not have the stamp yet.
Changed(own, t) == \E i \in DOMAIN own : own[i] # Stamped(own[i], t)

\* stampRange: nothing to stamp, one commit amended in place, or several
\* replayed on a detached HEAD.
Stamp(s) ==
  LET b == branch[s]
      t == TaskOf(s)
  IN  /\ Busy(s, "stamp")
      /\ \/ /\ ~Changed(b.own, t)
            /\ Goto(s, "gate") /\ UNCHANGED <<branch, tree, status>>
         \/ /\ Changed(b.own, t) /\ Len(b.own) = 1
            /\ branch' = [branch EXCEPT ![s].own[1] = StampHead(@, t)]
            /\ Goto(s, "gate") /\ UNCHANGED <<tree, status>>
         \/ /\ Changed(b.own, t) /\ Len(b.own) > 1
            /\ tree' = [tree EXCEPT ![s].head = "detached", ![s].loose = <<>>]
            /\ job' = [job EXCEPT ![s].pc = "replay", ![s].base = Tip]
            /\ UNCHANGED <<branch, status>>
         \/ Unlanded(s) /\ UNCHANGED <<branch, tree>>
      /\ UNCHANGED <<integration, counters, history>>

\* Fault: the branch is moved before the last commit is replayed.
ReplayedButLast(s) == Len(tree[s].loose) >= Len(branch[s].own) - 1

Replayed(s) == Len(tree[s].loose) = Len(branch[s].own)

\* restoreStamp, then the end of the landing.
GiveUp(s, b, w) ==
  /\ \E r \in Restore(b, w) : Put(s, Left(b, r, FALSE))
  /\ Unlanded(s)

\* One commit of the replay: a pick conflicts only when integration has
\* moved since the branch was rebased.
Pick(s) ==
  LET b == branch[s]
      w == tree[s]
      next == b.own[Len(w.loose) + 1]
      picked == [w EXCEPT !.dirty = next.work]
  IN  /\ Busy(s, "replay") /\ ~Replayed(s)
      /\ \/ /\ tree' = [tree EXCEPT ![s].loose =
                         Append(@, Stamped(next, TaskOf(s)))]
            /\ UNCHANGED <<branch, job, status>>
         \/ GiveUp(s, b, w)
         \/ GiveUp(s, b, picked)
         \/ /\ job[s].base # b.base
            /\ GiveUp(s, b, [w EXCEPT !.head = "conflict"])
      /\ UNCHANGED <<integration, counters, history>>

\* `branch -f` onto the replayed commits, and its checkout.
MoveBranch(s) ==
  LET b == branch[s]
      w == tree[s]
      moved == [b EXCEPT !.base = job[s].base, !.own = w.loose]
  IN  /\ Busy(s, "replay") /\ Replayed(s)
      /\ \/ Put(s, Left(moved, OnBranch(w), TRUE)) /\ Goto(s, "gate") /\ UNCHANGED status
         \/ GiveUp(s, b, w)
         \/ GiveUp(s, moved, w)
      /\ UNCHANGED <<integration, counters, history>>

\* Fault: the retry after a divergence is not gated again.
GateOnce(s) ==
  /\ Busy(s, "gate")
  /\ \/ /\ Goto(s, "merge") /\ UNCHANGED status
        /\ gated' = IF job[s].again THEN gated ELSE [gated EXCEPT ![s] = branch[s]]
     \/ Unlanded(s) /\ UNCHANGED gated
  /\ UNCHANGED <<git, counters, wrought, estray, closer>>

\* The verification gate runs in the worktree, on its branch by now.
Gate(s) ==
  /\ Busy(s, "gate")
  /\ \/ /\ Goto(s, "merge") /\ UNCHANGED status
        /\ gated' = [gated EXCEPT ![s] = branch[s]]
     \/ Unlanded(s) /\ UNCHANGED gated
  /\ UNCHANGED <<git, counters, wrought, estray, closer>>

\* `merge --ff-only` in the repository's root: an ancestor is up to date, a
\* branch behind has diverged, which is retried once.
FastForward(s) ==
  LET b == branch[s]
  IN  /\ Busy(s, "merge")
      /\ \/ /\ b.own = <<>> \/ ~Behind(b)
            /\ integration' = integration \o b.own
            /\ branch' = IF b.own = <<>> THEN branch
                         ELSE [branch EXCEPT ![s].base = Tip + Len(b.own), ![s].own = <<>>]
            /\ Goto(s, "landed") /\ UNCHANGED status
         \/ /\ b.own # <<>> /\ Behind(b)
            /\ IF job[s].again
                 THEN Unlanded(s)
                 ELSE /\ job' = [job EXCEPT ![s].pc = "rebase", ![s].again = TRUE]
                      /\ UNCHANGED status
            /\ UNCHANGED <<integration, branch>>
         \/ Unlanded(s) /\ UNCHANGED <<integration, branch>>
      /\ UNCHANGED <<tree, counters, history>>

\* Pipeline.Landed: the branch is an ancestor of integration.
BranchLanded(s) == branch[s].own = <<>>

TaskLanded(t) == \E i \in DOMAIN integration : t \in integration[i].stamps

\* Dispatcher.landed: the task is closed when its branch and its stamp are
\* on integration.
Landed(s) ==
  LET t == TaskOf(s)
  IN  /\ Busy(s, "landed")
      /\ \/ /\ BranchLanded(s) /\ TaskLanded(t)
            /\ status' = [status EXCEPT ![t] = "closed"]
            /\ closer' = closer \cup {<<s, t>>}
            /\ job' = [job EXCEPT ![s] = Idle]
         \/ Release(s) /\ UNCHANGED closer
      /\ UNCHANGED <<git, counters, wrought, estray, gated>>

\* Others commit on the integration branch.
Foreign ==
  /\ Cardinality({i \in DOMAIN integration : integration[i].stamps = {}}) < MaxForeign
  /\ integration' = Append(integration, [work |-> {}, stamps |-> {}])
  /\ UNCHANGED <<branch, tree, job, status, counters, history>>

\* Fault: what is closed is opened with it.
RecoveredAll == [t \in Task |-> "open"]

\* RecoverTasks: what is in progress and has no session is open again.
RecoveredTasks == [t \in Task |-> IF status[t] = "claimed" THEN "open" ELSE status[t]]

\* The daemon dies, perhaps inside a rebase; its successor recovers the tasks.
Crash ==
  /\ crashes < MaxCrashes /\ crashes' = crashes + 1
  /\ \E inside \in SUBSET {s \in Seat : Busy(s, "rebase") /\ Behind(branch[s])} :
       tree' = [s \in Seat |-> IF s \in inside
                                 THEN [tree[s] EXCEPT !.head = "rebasing", !.loose = <<>>]
                                 ELSE tree[s]]
  /\ job' = [s \in Seat |-> Idle]
  /\ status' = RecoveredTasks
  /\ UNCHANGED <<integration, branch, sessions, history>>

\* A session of the seat, and then the steps of LandBranch.
SeatStep(s) ==
  \/ \E t \in Task : SeatReady(s, t)
  \/ Agent(s) \/ AgentDone(s) \/ AgentFailed(s)
  \/ CommitWork(s) \/ RebaseOnto(s)
  \/ Stamp(s) \/ Pick(s) \/ MoveBranch(s)
  \/ Gate(s) \/ FastForward(s) \/ Landed(s)

Next == (\E s \in Seat : SeatStep(s)) \/ Foreign \/ Crash

Spec == Init /\ [][Next]_vars

----------------------------------------------------------------------------
Branches == [made : BOOLEAN, base : Nat, own : Seq(Commit)]
Trees == [made : BOOLEAN, head : {"branch", "detached", "rebasing", "conflict"},
          loose : Seq(Commit), dirty : SUBSET Work]
Jobs == [pc : {"idle", "agent", "commit", "rebase", "stamp", "replay", "gate",
               "merge", "landed"},
         task : SUBSET Task, again : BOOLEAN, base : Nat]

\* Every variable holds what its declaration says.
TypeOK ==
  /\ integration \in Seq(Commit)
  /\ branch \in [Seat -> Branches] /\ tree \in [Seat -> Trees]
  /\ job \in [Seat -> Jobs]
  /\ status \in [Task -> {"open", "claimed", "closed"}]
  /\ crashes \in 0 .. MaxCrashes /\ sessions \in 0 .. MaxSessions
  /\ wrought \subseteq Work /\ estray \subseteq wrought /\ closer \subseteq Work
  /\ gated \in [Seat -> Branches]

\* Where a piece of work can still be reached.
Kept(piece) ==
  \/ piece \in Contents(integration)
  \/ \E s \in Seat : piece \in Contents(branch[s].own) \cup tree[s].dirty

\* What an agent wrote on its seat's branch stays in its worktree, on its
\* branch or on integration, through failed landings, syncs for the next
\* task, replays that are given up and deaths of the daemon.
WorkKept == \A piece \in wrought \ estray : Kept(piece)

\* A closed task has its stamp on integration, and the work of the session
\* that closed it.
ClosedIsLanded ==
  \A t \in Task : status[t] = "closed" =>
    /\ TaskLanded(t)
    /\ \A s \in Seat : <<s, t>> \in (closer \cap wrought) \ estray =>
         <<s, t>> \in Contents(integration)

\* Integration only moves by the commits of others, or by exactly the
\* commits the gate passed on top of what integration now holds, each with
\* the stamp of the task being landed.
GatedAsLanded ==
  [][integration' # integration =>
       \/ integration' = Append(integration, [work |-> {}, stamps |-> {}])
       \/ \E s \in Seat :
            /\ Busy(s, "merge")
            /\ gated[s].base = Len(integration)
            /\ integration' = integration \o gated[s].own
            /\ \A i \in DOMAIN gated[s].own : TaskOf(s) \in gated[s].own[i].stamps]_vars

\* A landing as Delivery sees it: the seats' sessions, what they have written
\* and owe, and what is on integration.
Delivered == INSTANCE Delivery
               WITH session <- [s \in Seat |-> job[s].task],
                    written <- wrought,
                    owed <- wrought \ estray,
                    landed <- Contents(integration)

\* A landing that succeeds brings all that its seat owes to integration, and
\* nothing of another seat; nothing there is lost again; a task is closed by a
\* seat that owes nothing, and for good.
Delivers == Delivered!Spec

\* TestStampRangeConflictRestoresBranchAndLogsOnce: a landing whose replay
\* conflicts puts the seat back on its branch.
ConflictRestores == \A s \in Seat : Busy(s, "idle") => tree[s].head # "conflict"
=============================================================================
