------------------------------ MODULE Sessions ------------------------------
(***************************************************************************)
(* The session registry of internal/dispatch: how a task is admitted to a  *)
(* seat under spawnMu, how the agent process of a session ends, and what   *)
(* the completion callback then does (landing, review, fallback retry),    *)
(* while a hard stop hands every live session off.                         *)
(*                                                                         *)
(* The goroutines are the callers (RPC handlers and scheduler ticks) and,  *)
(* for every handle, the adapter goroutine that waits for the process and  *)
(* runs OnComplete.  An action ends where the next access to shared state  *)
(* begins, so all the interleavings of the registry, the beads, the gate   *)
(* and the processes are kept.  LandResult is what the port lets a lander  *)
(* report without an error; the daemon's own (landAdapter) reports every   *)
(* conflict with one, which the dispatcher takes for a failed landing.     *)
(***************************************************************************)
EXTENDS Naturals, Sequences, FiniteSets

CONSTANTS
  Caller,      \* goroutines that ask for a dispatch
  Handle,      \* session handles; bounds the number of agent runs
  Task,        \* beads, tasks and epics alike
  Seat,        \* seat names
  SeatsOf,     \* the configured seats of each role, in order
  Parent,      \* the parent epic of a bead; NoTask when it has none
  LandResult,  \* the results Lander.Land can report to the dispatcher
  Asks,        \* the dispatches callers ask for, as <<role, bead>> pairs
  HardStops,   \* does anybody stop the daemon hard?  bounds the instance
  NoSeat, NoTask, NoHandle, Free

Role == {"implementer", "designer", "repairer", "reviewer"}
Thread == Caller \cup Handle

ASSUME HandleAssumption ==
  /\ IsFiniteSet(Handle)
  /\ Caller \cap Handle = {}
  /\ Free \notin Thread
  /\ NoHandle \notin Handle
ASSUME SeatAssumption ==
  /\ NoSeat \notin Seat
  /\ SeatsOf \in [Role -> Seq(Seat)]
ASSUME TaskAssumption ==
  /\ NoTask \notin Task
  /\ Parent \in [Task -> Task \cup {NoTask}]
  /\ LandResult \subseteq {"ok", "conflict", "failed"}
  /\ Asks \subseteq Role \X Task
  /\ HardStops \in BOOLEAN

VARIABLES
  live,       \* handles in Dispatcher.sessions
  info,       \* what a Session record says of each handle that was run
  run,        \* the agent process behind each handle
  pc,         \* where each goroutine is
  want,       \* the dispatch a goroutine asked for, and its seat and handle
  spawnMu,    \* holder of the admission lock
  bead,       \* status of each bead
  tracked,    \* Gate.tracked: review sessions that hold the repository
  installed,  \* has Start registered the completion callback?
  handoff,    \* progress of HandoffLive over its snapshot
  stranded    \* history: beads whose last owner left without releasing them

vars == <<live, info, run, pc, want, spawnMu, bead, tracked, installed,
          handoff, stranded>>

Section == {"pick", "claim", "run", "add"}            \* inside spawnMu
Stage == Section \cup {"idle", "waiting", "note", "land", "due", "verdict",
                       "approve", "clear", "fail", "retry", "readd", "finish", "done"}

NoRequest == [role |-> "implementer", task |-> NoTask, seat |-> NoSeat,
              handle |-> NoHandle, named |-> FALSE]
NoSession == [task |-> NoTask, role |-> "implementer", seat |-> NoSeat,
              how |-> "free"]

TypeOK ==
  /\ live \in SUBSET Handle
  /\ info \in [Handle -> [task : Task \cup {NoTask}, role : Role,
                          seat : Seat \cup {NoSeat},
                          how : {"free", "named", "retry"}]]
  /\ run \in [Handle -> {"unused", "running", "completed", "failed"}]
  /\ pc \in [Thread -> Stage]
  /\ want \in [Thread -> [role : Role, task : Task \cup {NoTask},
                          seat : Seat \cup {NoSeat},
                          handle : Handle \cup {NoHandle}, named : BOOLEAN]]
  /\ spawnMu \in Thread \cup {Free}
  /\ bead \in [Task -> {"open", "in_progress", "closed"}]
  /\ tracked \in SUBSET Handle
  /\ installed \in BOOLEAN
  /\ handoff \in [Handle -> {"no", "kill", "release", "remove"}]
  /\ stranded \in SUBSET Task

Init ==
  /\ live = {}
  /\ info = [h \in Handle |-> NoSession]
  /\ run = [h \in Handle |-> "unused"]
  /\ pc = [t \in Thread |-> "idle"]
  /\ want = [t \in Thread |-> NoRequest]
  /\ spawnMu = Free
  /\ bead = [t \in Task |-> "open"]
  /\ tracked = {}
  /\ installed = FALSE
  /\ handoff = [h \in Handle |-> "no"]
  /\ stranded = {}

-----------------------------------------------------------------------------
(* The registry's queries.                                                 *)

RoleCap(role) ==
  IF role \in {"implementer", "designer"} THEN Len(SeatsOf[role]) ELSE 1

ActiveCount(role) == Cardinality({h \in live : info[h].role = role})

Occupied == {info[h].seat : h \in live}

(* The first configured seat nobody occupies, as a set of at most one.     *)
FreeSeat(role) ==
  {SeatsOf[role][i] : i \in {k \in DOMAIN SeatsOf[role] :
     /\ SeatsOf[role][k] \notin Occupied
     /\ \A j \in DOMAIN SeatsOf[role] : j < k => SeatsOf[role][j] \in Occupied}}

-----------------------------------------------------------------------------
(* External calls, each of which may fail with nothing changed.            *)

(* The bead t stays as it is: nobody gives it back.                        *)
Strand(t) ==
  /\ stranded' = IF bead[t] = "in_progress" THEN stranded \cup {t} ELSE stranded
  /\ UNCHANGED bead

(* bd update --status open: it does not look at the status it replaces.    *)
Release(t) ==
  \/ /\ bead' = [bead EXCEPT ![t] = "open"]
     /\ stranded' = stranded \ {t}
  \/ Strand(t)

(* A new agent process, under the next handle of the adapter's store.      *)
Launch(h, session) ==
  /\ run[h] = "unused"
  /\ h = CHOOSE g \in Handle : run[g] = "unused"
  /\ run' = [run EXCEPT ![h] = "running"]
  /\ info' = [info EXCEPT ![h] = session]

Goto(t, stage) == pc' = [pc EXCEPT ![t] = stage]

(* The dispatch call of goroutine t returns, and t continues after it.     *)
Return(t) ==
  /\ Goto(t, IF t \in Handle THEN "finish" ELSE "idle")
  /\ want' = [want EXCEPT ![t] = NoRequest]

(* Fault: an early return of spawn keeps the lock.                         *)
RefuseHolding(t) == UNCHANGED spawnMu /\ Return(t)

(* The dispatch is refused: spawn returns "" and drops the lock.           *)
Refuse(t) == spawnMu' = Free /\ Return(t)

-----------------------------------------------------------------------------
(* Admission.                                                              *)

(* An RPC handler or a tick calls Implement, Design, Repair or Review.     *)
(* Core.Dispatch names a repair seat it read before taking the lock.       *)
Request(c, role, t) ==
  /\ pc[c] = "idle"
  /\ <<role, t>> \in Asks
  /\ bead[t] # "closed"
  /\ \E seat \in IF role = "repairer" /\ FreeSeat(role) # {}
                 THEN FreeSeat(role) ELSE {NoSeat} :
       want' = [want EXCEPT ![c] = [role |-> role, task |-> t, seat |-> seat,
                                    handle |-> NoHandle,
                                    named |-> seat # NoSeat]]
  /\ Goto(c, "waiting")
  /\ UNCHANGED <<live, info, run, spawnMu, bead, tracked, installed, handoff,
                 stranded>>

(* Fault: spawn admits without waiting for the lock.                       *)
AdmitUnlocked(t) ==
  /\ pc[t] = "waiting"
  /\ ActiveCount(want[t].role) < RoleCap(want[t].role)
  /\ spawnMu' = t
  /\ Goto(t, "pick")
  /\ UNCHANGED <<live, info, run, want, bead, tracked, installed, handoff,
                 stranded>>

(* Fault: the cap is checked off by one.                                   *)
AdmitOverCap(t) ==
  /\ pc[t] = "waiting"
  /\ spawnMu = Free
  /\ ActiveCount(want[t].role) <= RoleCap(want[t].role)
  /\ spawnMu' = t
  /\ Goto(t, "pick")
  /\ UNCHANGED <<live, info, run, want, bead, tracked, installed, handoff,
                 stranded>>

(* spawn: take spawnMu, then the human-only and role-cap checks.           *)
Admit(t) ==
  /\ pc[t] = "waiting"
  /\ spawnMu = Free
  /\ \/ /\ ActiveCount(want[t].role) < RoleCap(want[t].role)
        /\ spawnMu' = t
        /\ Goto(t, "pick")
        /\ UNCHANGED want
     \/ Refuse(t)
  /\ UNCHANGED <<live, info, run, bead, tracked, installed, handoff,
                 stranded>>

(* A named seat is taken as it is; otherwise the first free one.           *)
PickSeat(t) ==
  /\ pc[t] = "pick"
  /\ \/ /\ want[t].named
        /\ Goto(t, "claim")
        /\ UNCHANGED <<want, spawnMu>>
     \/ /\ ~want[t].named
        /\ \E seat \in FreeSeat(want[t].role) :
             want' = [want EXCEPT ![t].seat = seat]
        /\ Goto(t, "claim")
        /\ UNCHANGED spawnMu
     \/ /\ ~want[t].named
        /\ FreeSeat(want[t].role) = {}
        /\ Refuse(t)
  /\ UNCHANGED <<live, info, run, bead, tracked, installed, handoff, stranded>>

(* SeatReady, then Claim unless the role is reviewer.                      *)
Claim(t) ==
  /\ pc[t] = "claim"
  /\ \/ /\ want[t].role # "reviewer"
        /\ bead' = [bead EXCEPT ![want[t].task] = "in_progress"]
        /\ stranded' = stranded \ {want[t].task}
        /\ Goto(t, "run")
        /\ UNCHANGED <<want, spawnMu>>
     \/ /\ want[t].role = "reviewer"
        /\ Goto(t, "run")
        /\ UNCHANGED <<want, spawnMu, bead, stranded>>
     \/ /\ Refuse(t)
        /\ UNCHANGED <<bead, stranded>>
  /\ UNCHANGED <<live, info, run, tracked, installed, handoff>>

(* spawnSession up to runner.Run; dispatchFailed when it cannot start.     *)
Run(t) ==
  /\ pc[t] = "run"
  /\ \/ \E h \in Handle :
          /\ Launch(h, [task |-> want[t].task, role |-> want[t].role,
                        seat |-> want[t].seat,
                        how |-> IF want[t].named THEN "named" ELSE "free"])
          /\ want' = [want EXCEPT ![t].handle = h]
          /\ Goto(t, "add")
          /\ UNCHANGED <<spawnMu, bead, stranded>>
     \/ /\ Refuse(t)
        /\ \/ want[t].role # "reviewer" /\ Release(want[t].task)
           \/ want[t].role = "reviewer" /\ UNCHANGED <<bead, stranded>>
        /\ UNCHANGED <<info, run>>
  /\ UNCHANGED <<live, tracked, installed, handoff>>

(* Add registers the session, and spawn returns its handle.                *)
Add(t) ==
  /\ pc[t] = "add"
  /\ live' = live \cup {want[t].handle}
  /\ spawnMu' = Free
  /\ \/ want[t].role = "reviewer" /\ Goto(t, "note") /\ UNCHANGED want
     \/ want[t].role # "reviewer" /\ Return(t)
  /\ UNCHANGED <<info, run, bead, tracked, installed, handoff, stranded>>

(* Review and the reviewer's retry tell the gate of a session once it is   *)
(* registered.                                                             *)
NoteSession(t) ==
  /\ pc[t] = "note"
  /\ tracked' = tracked \cup {want[t].handle}
  /\ Return(t)
  /\ UNCHANGED <<live, info, run, spawnMu, bead, installed, handoff,
                 stranded>>

-----------------------------------------------------------------------------
(* Completion.                                                             *)

(* The agent process ends on its own.                                      *)
Exit(h) ==
  /\ run[h] = "running"
  /\ \E status \in {"completed", "failed"} :
       run' = [run EXCEPT ![h] = status]
  /\ UNCHANGED <<live, info, pc, want, spawnMu, bead, tracked, installed,
                 handoff, stranded>>

(* Start installs the completion callback.                                 *)
Install ==
  /\ installed' = TRUE
  /\ UNCHANGED <<live, info, run, pc, want, spawnMu, bead, tracked, handoff,
                 stranded>>

(* The adapter's one notification.  Without a callback, or when the handle *)
(* is not registered, nobody hears of it; otherwise OnComplete takes the   *)
(* session out of the registry and routes it.                              *)
OnComplete(h) ==
  /\ pc[h] = "idle"
  /\ run[h] \in {"completed", "failed"}
  /\ \/ /\ ~(installed /\ h \in live)
        /\ Goto(h, "done")
        /\ UNCHANGED live
     \/ /\ installed /\ h \in live
        /\ live' = live \ {h}
        /\ Goto(h, CASE run[h] = "failed" -> "fail"
                     [] run[h] = "completed" /\ info[h].role = "reviewer" -> "verdict"
                     [] OTHER -> "land")
  /\ UNCHANGED <<info, run, want, spawnMu, bead, tracked, installed, handoff,
                 stranded>>

(* Diff and Land, then for a landed work session the proof of landing and  *)
(* Close.  A designer's bead is neither closed nor released.               *)
Land(h) ==
  /\ pc[h] = "land"
  /\ LET task == info[h].task
     IN \/ /\ Goto(h, "finish")                      \* not landed, or unproven
           /\ Release(task)
           /\ UNCHANGED want
        \/ /\ "ok" \in LandResult
           /\ info[h].role = "designer"
           /\ Goto(h, "finish")
           /\ Strand(task)
           /\ UNCHANGED want
        \/ /\ "ok" \in LandResult
           /\ info[h].role # "designer"
           /\ Goto(h, "due")
           /\ bead' = [bead EXCEPT ![task] = "closed"]
           /\ stranded' = stranded \ {task}
           /\ UNCHANGED want
        \/ /\ "conflict" \in LandResult
           /\ info[h].role # "repairer"
           /\ Goto(h, "waiting")
           /\ want' = [want EXCEPT ![h] = [role |-> "repairer", task |-> task,
                         seat |-> info[h].seat, handle |-> NoHandle,
                         named |-> TRUE]]
           /\ Strand(task)
        \/ /\ "conflict" \in LandResult
           /\ info[h].role = "repairer"
           /\ Goto(h, "finish")
           /\ Strand(task)
           /\ UNCHANGED want
  /\ UNCHANGED <<live, info, run, spawnMu, tracked, installed, handoff>>

(* After a close the gate may name the parent epic as due for review: it   *)
(* never does while a review of the repository is tracked.                 *)
DueEpic(h) ==
  /\ pc[h] = "due"
  /\ \/ /\ tracked = {}
        /\ Parent[info[h].task] # NoTask
        /\ want' = [want EXCEPT ![h] = [role |-> "reviewer",
                      task |-> Parent[info[h].task], seat |-> NoSeat,
                      handle |-> NoHandle, named |-> FALSE]]
        /\ Goto(h, "waiting")
     \/ /\ Goto(h, "finish")
        /\ UNCHANGED want
  /\ UNCHANGED <<live, info, run, spawnMu, bead, tracked, installed, handoff,
                 stranded>>

(* CompleteReview drops the session from the gate and parses the verdict;  *)
(* an untracked session's verdict is ignored, and any other than approval  *)
(* leaves the epic open.                                                   *)
CompleteReview(h) ==
  /\ pc[h] = "verdict"
  /\ tracked' = tracked \ {h}
  /\ \/ h \in tracked /\ Goto(h, "approve")
     \/ Goto(h, "finish")
  /\ UNCHANGED <<live, info, run, want, spawnMu, bead, installed, handoff,
                 stranded>>

(* DispatchVerdict on approval closes the epic; abortReview if it cannot.  *)
Approve(h) ==
  /\ pc[h] = "approve"
  /\ \/ /\ bead' = [bead EXCEPT ![info[h].task] = "closed"]
        /\ stranded' = stranded \ {info[h].task}
        /\ Goto(h, "clear")
        /\ UNCHANGED tracked
     \/ /\ tracked' = tracked \ {h}
        /\ Goto(h, "finish")
        /\ UNCHANGED <<bead, stranded>>
  /\ UNCHANGED <<live, info, run, want, spawnMu, installed, handoff>>

(* clear forgets every session tracked for the approved epic.              *)
ClearEpic(h) ==
  /\ pc[h] = "clear"
  /\ tracked' = {g \in tracked : info[g].task # info[h].task}
  /\ Goto(h, "finish")
  /\ UNCHANGED <<live, info, run, want, spawnMu, bead, installed, handoff,
                 stranded>>

(* Fault: terminalFailure forgets the release.                             *)
GiveUpSilently(h) == Goto(h, "finish") /\ UNCHANGED <<bead, tracked, stranded>>

(* No retry: abortReview for a reviewer, terminalFailure otherwise.        *)
GiveUp(h) ==
  /\ Goto(h, "finish")
  /\ \/ /\ info[h].role = "reviewer"
        /\ tracked' = tracked \ {h}
        /\ UNCHANGED <<bead, stranded>>
     \/ /\ info[h].role # "reviewer"
        /\ Release(info[h].task)
        /\ UNCHANGED tracked

(* Fault: a retry that failed is retried in its turn.                      *)
FailAlways(h) ==
  /\ pc[h] = "fail"
  /\ Goto(h, "retry")
  /\ UNCHANGED <<live, info, run, want, spawnMu, bead, tracked, installed,
                 handoff, stranded>>

(* FallbackRetry's decision: a session that was itself a retry never gets  *)
(* another, and neither does one without a fallback model.                 *)
Fail(h) ==
  /\ pc[h] = "fail"
  /\ \/ /\ info[h].how # "retry"
        /\ Goto(h, "retry")
        /\ UNCHANGED <<bead, tracked, stranded>>
     \/ GiveUp(h)
  /\ UNCHANGED <<live, info, run, want, spawnMu, installed, handoff>>

(* The retry starts on the seat of the failed session, without spawnMu.    *)
Retry(h) ==
  /\ pc[h] = "retry"
  /\ \/ /\ \E g \in Handle :
             /\ Launch(g, [task |-> info[h].task, role |-> info[h].role,
                          seat |-> info[h].seat, how |-> "retry"])
             /\ want' = [want EXCEPT ![h] =
                  [role |-> info[h].role, task |-> info[h].task,
                   seat |-> info[h].seat, handle |-> g, named |-> TRUE]]
        /\ Goto(h, "readd")
        /\ UNCHANGED <<bead, tracked, stranded>>
     \/ GiveUp(h) /\ UNCHANGED <<info, run, want>>
  /\ UNCHANGED <<live, spawnMu, installed, handoff>>

(* Fault: the gate is not told of a reviewer's retry.                      *)
AddRetryUntold(h) ==
  /\ pc[h] = "readd"
  /\ live' = live \cup {want[h].handle}
  /\ Return(h)
  /\ UNCHANGED <<info, run, spawnMu, bead, tracked, installed, handoff,
                 stranded>>

(* The retry is registered in its turn.                                    *)
AddRetry(h) ==
  /\ pc[h] = "readd"
  /\ live' = live \cup {want[h].handle}
  /\ \/ info[h].role = "reviewer" /\ Goto(h, "note") /\ UNCHANGED want
     \/ info[h].role # "reviewer" /\ Return(h)
  /\ UNCHANGED <<info, run, spawnMu, bead, tracked, installed, handoff,
                 stranded>>

(* OnComplete's deferred end: FinishSession, Delete of the ended run, and  *)
(* completeDrain, which the scheduler's module refines.                    *)
Finish(h) ==
  /\ pc[h] = "finish"
  /\ Goto(h, "done")
  /\ UNCHANGED <<live, info, run, want, spawnMu, bead, tracked, installed,
                 handoff, stranded>>

-----------------------------------------------------------------------------
(* HandoffLive: a hard stop works through a snapshot of the registry, one  *)
(* session at a time.                                                      *)

HandoffSnapshot ==
  /\ HardStops
  /\ \A h \in Handle : handoff[h] = "no"
  /\ live # {}
  /\ handoff' = [h \in Handle |-> IF h \in live THEN "kill" ELSE "no"]
  /\ UNCHANGED <<live, info, run, pc, want, spawnMu, bead, tracked, installed,
                 stranded>>

(* Fault: a hard stop removes work sessions without releasing their beads. *)
HandoffKillOnly(h) ==
  /\ handoff[h] = "kill"
  /\ \A g \in Handle : handoff[g] \in {"no", "kill"}
  /\ run' = [run EXCEPT ![h] = IF @ = "running" THEN "failed" ELSE @]
  /\ tracked' = IF info[h].role = "reviewer" THEN tracked \ {h} ELSE tracked
  /\ handoff' = [handoff EXCEPT ![h] = "remove"]
  /\ UNCHANGED <<live, info, pc, want, spawnMu, bead, installed, stranded>>

(* AbortReview for a reviewer, then Delete, which kills the process group  *)
(* and whose error is ignored.                                             *)
HandoffKill(h) ==
  /\ handoff[h] = "kill"
  /\ \A g \in Handle : handoff[g] \in {"no", "kill"}
  /\ run' \in {run, [run EXCEPT ![h] = IF @ = "running" THEN "failed" ELSE @]}
  /\ tracked' = IF info[h].role = "reviewer" THEN tracked \ {h} ELSE tracked
  /\ handoff' = [handoff EXCEPT ![h] =
                   IF info[h].role = "reviewer" THEN "remove" ELSE "release"]
  /\ UNCHANGED <<live, info, pc, want, spawnMu, bead, installed, stranded>>

HandoffRelease(h) ==
  /\ handoff[h] = "release"
  /\ Release(info[h].task)
  /\ handoff' = [handoff EXCEPT ![h] = "remove"]
  /\ UNCHANGED <<live, info, run, pc, want, spawnMu, tracked, installed>>

HandoffRemove(h) ==
  /\ handoff[h] = "remove"
  /\ live' = live \ {h}
  /\ handoff' = [handoff EXCEPT ![h] = "no"]
  /\ UNCHANGED <<info, run, pc, want, spawnMu, bead, tracked, installed,
                 stranded>>

-----------------------------------------------------------------------------

Admission(t) ==
  Admit(t) \/ PickSeat(t) \/ Claim(t) \/ Run(t) \/ Add(t) \/ NoteSession(t)

Completion(h) ==
  \/ OnComplete(h) \/ Land(h) \/ DueEpic(h)
  \/ CompleteReview(h) \/ Approve(h) \/ ClearEpic(h)
  \/ Fail(h) \/ Retry(h) \/ AddRetry(h) \/ Finish(h)

HandoffStep(h) == HandoffKill(h) \/ HandoffRelease(h) \/ HandoffRemove(h)

Next ==
  \/ \E c \in Caller, role \in Role, t \in Task : Request(c, role, t)
  \/ \E t \in Thread : Admission(t)
  \/ \E h \in Handle : Exit(h) \/ Completion(h) \/ HandoffStep(h)
  \/ Install
  \/ HandoffSnapshot

Spec == Init /\ [][Next]_vars

(* Goroutines are scheduled, the admission mutex is starvation free, and   *)
(* no external call hangs.  Agents end sooner or later; nobody need ask    *)
(* for anything, start the daemon or stop it.                              *)
Fairness ==
  /\ \A t \in Thread : WF_vars(Admission(t)) /\ SF_vars(Admit(t))
  /\ \A h \in Handle : WF_vars(Exit(h)) /\ WF_vars(Completion(h))
                       /\ WF_vars(HandoffStep(h))

FairSpec == Spec /\ Fairness

-----------------------------------------------------------------------------
(* Properties.                                                             *)

(* Two sessions whose seats FreeSeat chose under spawnMu never share one,  *)
(* whatever repairs, retries and hard stops happen meanwhile.              *)
ChosenSeatsDistinct ==
  \A g, h \in live : g # h /\ info[g].how = "free" /\ info[h].how = "free"
                       => info[g].seat # info[h].seat

(* Admission keeps every role within its cap, retries aside.               *)
AdmittedWithinCap ==
  \A role \in Role :
    Cardinality({h \in live : info[h].role = role /\ info[h].how # "retry"})
      <= RoleCap(role)

(* Somebody is still going to close or release the bead t.                 *)
Owned(t) ==
  \/ \E h \in live : info[h].task = t /\ info[h].role # "reviewer"
                       /\ handoff[h] # "remove"
  \/ \E h \in Handle : info[h].task = t /\ info[h].role # "reviewer"
                         /\ pc[h] \in {"land", "fail", "retry", "readd"}
  \/ \E u \in Thread : want[u].task = t /\ want[u].role # "reviewer"
                         /\ pc[u] \in {"run", "add"}

(* A claimed bead has an owner, or its last owner tried to give it back    *)
(* and could not (or was a designer, who never does): no interleaving of   *)
(* completion, retry, repair and hard stop silently drops a claim.         *)
ClaimsAccounted ==
  \A t \in Task : bead[t] = "in_progress" => t \in stranded \/ Owned(t)

(* Every fallback retry is paid for by a failed run that was not a retry:  *)
(* a bead is never retried over and over.                                  *)
Used(how) == {h \in Handle : run[h] # "unused" /\ info[h].how \in how}
RetriesPaidFor ==
  \A t \in Task :
    Cardinality({h \in Used({"retry"}) : info[h].task = t})
      <= Cardinality({h \in Used({"free", "named"}) :
                        info[h].task = t /\ run[h] = "failed"})

(* The gate knows of every live review of an epic that is still open, from *)
(* the moment spawn or the retry has told it: while there is one, no tick  *)
(* dispatches other work in the repository.                                *)
ReviewsHold ==
  \A h \in live :
    info[h].role = "reviewer" /\ bead[info[h].task] # "closed" /\ handoff[h] = "no"
      => h \in tracked \/ \E t \in Thread : pc[t] = "note" /\ want[t].handle = h

(* A registered session whose run ends after Start leaves the registry,    *)
(* and its completion ends too, with the repair or the review it asks for  *)
(* behind the one lock: no early return of spawn keeps it.                 *)
SessionsEnd ==
  \A h \in Handle :
    installed /\ h \in live /\ pc[h] = "idle" ~> h \notin live /\ pc[h] = "done"

(* A session nobody will ever complete: it was notified before it was      *)
(* registered, or before a callback was installed.                         *)
Lost(h) == h \in live /\ pc[h] = "done"

(* A claimed bead is closed or given back, unless giving it back failed or *)
(* its session's completion was lost.                                      *)
ClaimsEnd ==
  \A t \in Task : bead[t] = "in_progress" ~>
    bead[t] # "in_progress" \/ t \in stranded \/ \E h \in Handle : Lost(h) /\ info[h].task = t

(* A run as Notification sees it.                                          *)
Agent(h) ==
  CASE run[h] = "unused" -> "unused"
    [] run[h] = "running" -> "running"
    [] OTHER -> "ended"
Heard(h) == IF pc[h] = "idle" THEN "none" ELSE run[h]

Notified == INSTANCE Notification
              WITH Runs <- Handle,
                   agent <- [h \in Handle |-> Agent(h)],
                   heard <- [h \in Handle |-> Heard(h)]

(* Of its runs the dispatcher sees what Notification tells of them, which  *)
(* Runtime implements: each begins and ends once, also under a hard stop,  *)
(* and OnComplete is called at most once, after the end, with a verdict    *)
(* that no retry, repair or handoff changes.                               *)
HearsOnce == Notified!Spec

-----------------------------------------------------------------------------
(* What the code's comments say, and the runs refute.                      *)

(* dispatch/spawn.go: "spawnMu preserves seat exclusivity".                *)
SeatsExclusive ==
  \A g, h \in live : g # h => info[g].seat # info[h].seat

(* What internal/land relies on: no session is given the seat whose work a *)
(* landing rebases, stamps and merges; OnComplete removes the session from *)
(* the registry, where FreeSeat looks, before it lands.                    *)
SeatKeptToLand ==
  \A g \in Handle, h \in live : pc[g] = "land" => info[g].seat # info[h].seat

(* dispatch/outcome.go: OnComplete handles the session's outcome, so that  *)
(* the session of a started daemon leaves the registry in the end.         *)
EverySessionEnds ==
  \A h \in Handle : installed /\ h \in live ~> h \notin live

=============================================================================
