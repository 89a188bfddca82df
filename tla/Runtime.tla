------------------------------ MODULE Runtime ------------------------------
(***************************************************************************)
(* The agent runtime: internal/agent (Runtime, Store), its two adapters    *)
(* (internal/agent/kiro, internal/agent/opencode) and internal/exec, which *)
(* starts an agent as the leader of a process group of its own, streams    *)
(* its output through pipes, waits for it and terminates the group.        *)
(*                                                                         *)
(* Four kinds of goroutine meet at a run: collect, which waits, classifies *)
(* and notifies; the caller of Run, which learns the handle after the      *)
(* agent has started; the callers of Delete (the dispatcher's completion,  *)
(* which runs inside collect's notification, and the handoff of a hard     *)
(* stop); and terminateOnCancel, which watches the context of the launch.  *)
(* What an agent writes is a sequence of lines of four sorts, "limit" and  *)
(* "error" for those the classifiers look for.  A group has a leader and   *)
(* at most one descendant, which may ignore SIGTERM and hold the pipes.    *)
(* Left out: process identifiers used again, and the session identifier    *)
(* that OpenCode's store keeps as an alias of a handle (nobody in the      *)
(* daemon asks by it).                                                     *)
(***************************************************************************)
EXTENDS Naturals, Sequences, SequencesExt

CONSTANTS Handles,    \* handles that Store.Add hands out
          MaxLines,   \* bound: lines an agent writes
          Window      \* lines that TailWindow spans

ASSUME RuntimeAssumption == MaxLines \in Nat /\ Window \in Nat \ {0}

Kinds == {"kiro", "opencode"}
Lines == {"text", "stop", "error", "limit"}
Verdicts == {"completed", "failed", "limited"}
Callers == {"listener", "handoff", "cancel"}

VARIABLES
  launch,   \* the caller of Run: "new", "refused", "started", "owned", "added"
  kind,     \* the adapter of the run
  leader,   \* the leader: "none", "alive", "zero" (exited 0), "other"
  kid,      \* whether a descendant of the agent lives
  written,  \* what the agent has written
  read,     \* how much of it the copying goroutines have taken
  waited,   \* Session.done is closed: cmd.Wait has reaped and closed the pipes
  holder,   \* Session.terminateMu: its holder, or "free"
  collect,  \* "none", "wait", "notify", "listen", "done"
  status,   \* the adapter's run.status
  marked,   \* the adapter's run.done
  stored,   \* the adapter's Store knows the handle
  owned,    \* Runtime.handles knows it
  live,     \* the dispatcher's registry has the session
  told,     \* history: what the listener was notified of
  outcome,  \* what the listener made of it: "none", "early", "landing", "failed"
  call,     \* each caller's place in Delete or Terminate
  signalled \* history: the group has been sent SIGTERM

process == <<leader, kid, written, read, waited, holder, signalled>>
adapter == <<kind, status, marked, stored>>
owner == <<launch, owned, live>>
runtimeVars == <<process, adapter, owner, collect, told, outcome, call>>

Stages == {"idle", "terminate", "grace", "settle", "forget", "back"}

RuntimeTypeOK ==
  /\ launch \in [Handles -> {"new", "refused", "started", "owned", "added"}]
  /\ kind \in [Handles -> Kinds]
  /\ leader \in [Handles -> {"none", "alive", "zero", "other"}]
  /\ written \in [Handles -> Seq(Lines)] /\ read \in [Handles -> Nat]
  /\ \A h \in Handles : read[h] <= Len(written[h]) /\ Len(written[h]) <= MaxLines
  /\ holder \in [Handles -> Callers \cup {"free"}]
  /\ collect \in [Handles -> {"none", "wait", "notify", "listen", "done"}]
  /\ status \in [Handles -> Verdicts \cup {"running"}]
  /\ \A f \in {kid, waited, marked, stored, owned, live, signalled} : f \in [Handles -> BOOLEAN]
  /\ told \in [Handles -> Verdicts \cup {"none"}]
  /\ outcome \in [Handles -> {"none", "early", "landing", "failed"}]
  /\ call \in [Callers -> [Handles -> Stages]]

RuntimeInit ==
  /\ launch = [h \in Handles |-> "new"]
  /\ kind \in [Handles -> Kinds]
  /\ leader = [h \in Handles |-> "none"]
  /\ written = [h \in Handles |-> <<>>]
  /\ read = [h \in Handles |-> 0]
  /\ holder = [h \in Handles |-> "free"]
  /\ collect = [h \in Handles |-> "none"]
  /\ status = [h \in Handles |-> "running"]
  /\ told = [h \in Handles |-> "none"]
  /\ outcome = [h \in Handles |-> "none"]
  /\ call = [c \in Callers |-> [h \in Handles |-> "idle"]]
  /\ kid = [h \in Handles |-> FALSE]
  /\ waited = kid /\ marked = kid /\ stored = kid /\ owned = kid /\ live = kid /\ signalled = kid

Set(f, h, v) == [f EXCEPT ![h] = v]
At(c, h, s) == call' = [call EXCEPT ![c][h] = s]

Alive(h) == leader[h] = "alive"
Ended(h) == leader[h] \in {"zero", "other"}

\* signal 0 still reaches a leader that nobody has reaped.
GroupGone(h) == waited[h] /\ ~kid[h]

(***************************************************************************)
(* Verdicts                                                                *)
(***************************************************************************)

Taken(h) == SubSeq(written[h], 1, read[h])
Tail2k(s) == IF Len(s) <= Window THEN s ELSE SubSeq(s, Len(s) - Window + 1, Len(s))
Says(s, line) == \E i \in DOMAIN s : s[i] = line

LimitedTail(s) == Says(Tail2k(s), "limit")
FailureTail(s) == LimitedTail(s) \/ Says(Tail2k(s), "error")

KiroClassify(h) ==
  CASE LimitedTail(Taken(h)) -> "limited"
    [] /\ leader[h] = "zero"
       /\ Taken(h) # <<>>
       /\ ~FailureTail(Taken(h)) -> "completed"
    [] OTHER -> "failed"

\* The scanner keeps the first failure and any limit, whatever follows.
ScannerStatus(s) ==
  CASE Says(s, "error") -> "failed"
    [] Says(s, "stop") /\ ~Says(s, "error") -> "completed"
    [] OTHER -> "running"

OpencodeClassify(h) ==
  CASE Says(Taken(h), "limit") -> "limited"
    [] ~Says(Taken(h), "limit") /\ ScannerStatus(Taken(h)) = "running" -> "failed"
    [] OTHER -> ScannerStatus(Taken(h))

Classify(h) == IF kind[h] = "kiro" THEN KiroClassify(h) ELSE OpencodeClassify(h)

\* Mutant: the run is declared finished after its listener has returned.
FinishedLate(h) == collect[h] = "done"

Finished(h) == collect[h] \in {"notify", "listen", "done"}

KiroComplete(h) ==
  IF ~stored[h] \/ (~marked[h] /\ waited[h]) THEN "failed" ELSE status[h]

OpencodeComplete(h) ==
  CASE ~stored[h] -> "failed"
    [] stored[h] /\ Finished(h) -> status[h]
    [] OTHER -> "running"

Complete(h) == IF kind[h] = "kiro" THEN KiroComplete(h) ELSE OpencodeComplete(h)

(***************************************************************************)
(* Run                                                                     *)
(***************************************************************************)

StoreAdd(h) == stored' = Set(stored, h, TRUE)
StoreDelete(h) == stored' = Set(stored, h, FALSE)

\* exec.Start: the agent leads a process group, and may start another process.
StartProcess(h) ==
  /\ leader' = Set(leader, h, "alive")
  /\ \E born \in BOOLEAN : kid' = Set(kid, h, born)

\* A spec the adapter rejects, no executable, or a process that does not start.
Refuse(h) ==
  /\ launch[h] = "new"
  /\ launch' = Set(launch, h, "refused")
  /\ UNCHANGED <<process, adapter, collect, owned, live, told, outcome, call>>

AdapterRun(h) ==
  /\ launch[h] = "new"
  /\ launch' = Set(launch, h, "started")
  /\ StartProcess(h)
  /\ StoreAdd(h)
  /\ collect' = Set(collect, h, "wait")
  /\ UNCHANGED <<written, read, waited, holder, signalled, kind, status, marked,
                 owned, live, told, outcome, call>>

\* Runtime.Run records the owner once the adapter has returned.
Own(h) ==
  /\ launch[h] = "started"
  /\ launch' = Set(launch, h, "owned")
  /\ owned' = Set(owned, h, TRUE)
  /\ UNCHANGED <<process, adapter, collect, live, told, outcome, call>>

RegistryAdd(h) ==
  /\ launch[h] = "owned"
  /\ launch' = Set(launch, h, "added")
  /\ live' = Set(live, h, TRUE)
  /\ UNCHANGED <<process, adapter, collect, owned, told, outcome, call>>

(***************************************************************************)
(* The agent, its pipes and cmd.Wait                                       *)
(***************************************************************************)

Write(h, line) ==
  /\ Alive(h) /\ Len(written[h]) < MaxLines
  /\ written' = Set(written, h, Append(written[h], line))
  /\ UNCHANGED <<leader, kid, read, waited, holder, signalled, adapter, owner, collect, told, outcome, call>>

Exit(h, code) ==
  /\ Alive(h)
  /\ leader' = Set(leader, h, code)
  /\ UNCHANGED <<kid, written, read, waited, holder, signalled, adapter, owner, collect, told, outcome, call>>

KidExits(h) ==
  /\ kid[h]
  /\ kid' = Set(kid, h, FALSE)
  /\ UNCHANGED <<leader, written, read, waited, holder, signalled, adapter, owner, collect, told, outcome, call>>

\* A copying goroutine takes a line from the pipe.
Copy(h) ==
  /\ collect[h] = "wait" /\ ~waited[h]
  /\ read[h] < Len(written[h])
  /\ read' = Set(read, h, read[h] + 1)
  /\ UNCHANGED <<leader, kid, written, waited, holder, signalled, adapter, owner, collect, told, outcome, call>>

\* Whoever calls Wait first reaps the leader.  It closes the pipes whatever
\* they still hold and whoever still holds them.
Wait(h) ==
  /\ Ended(h) /\ ~waited[h]
  /\ waited' = Set(waited, h, TRUE)
  /\ UNCHANGED <<leader, kid, written, read, holder, signalled, adapter, owner, collect, told, outcome, call>>

(***************************************************************************)
(* collect                                                                 *)
(***************************************************************************)

\* Mutant: collect takes the end of the output for the end of the agent.
CollectEarly(h) ==
  /\ collect[h] = "wait" /\ (waited[h] \/ read[h] = Len(written[h]))
  /\ status' = Set(status, h, Classify(h))
  /\ marked' = Set(marked, h, TRUE)
  /\ collect' = Set(collect, h, "notify")
  /\ UNCHANGED <<process, kind, stored, owner, told, outcome, call>>

Collect(h) ==
  /\ collect[h] = "wait" /\ waited[h]
  /\ status' = Set(status, h, Classify(h))
  /\ marked' = Set(marked, h, TRUE)
  /\ collect' = Set(collect, h, "notify")
  /\ UNCHANGED <<process, kind, stored, owner, told, outcome, call>>

\* The runtime's notifier passes on the first notification of a handle; the
\* dispatcher's OnComplete takes the session from its registry, or returns.
Notify(h) ==
  /\ collect[h] = "notify"
  /\ told' = Set(told, h, status[h])
  /\ live' = Set(live, h, FALSE)
  /\ collect' = Set(collect, h, IF live[h] THEN "listen" ELSE "done")
  /\ outcome' = IF live[h] THEN outcome ELSE Set(outcome, h, "early")
  /\ UNCHANGED <<process, adapter, launch, owned, call>>

\* What Diff answers: an error for a handle that is not known (any more), for
\* a session that never named itself, and whenever git or the export fails.
Diff(h) ==
  IF owned[h] /\ stored[h] /\ (kind[h] = "opencode" => read[h] > 0)
  THEN {"landing", "failed"}
  ELSE {"failed"}

\* complete or fail, and then the deferred Delete.
Listen(h) ==
  /\ collect[h] = "listen" /\ outcome[h] = "none"
  /\ \E o \in Diff(h) :
       outcome' = Set(outcome, h, IF told[h] = "completed" THEN o ELSE "failed")
  /\ UNCHANGED <<process, adapter, owner, collect, told, call>>

(***************************************************************************)
(* Delete and Terminate                                                    *)
(***************************************************************************)

\* Mutant: a kiro run that is deleted is also marked failed.
DeleteFails(c, h) ==
  /\ call[c][h] = "idle"
  /\ At(c, h, IF owned[h] THEN (IF stored[h] THEN "terminate" ELSE "forget") ELSE "back")
  /\ marked' = Set(marked, h, marked[h] \/ (kind[h] = "kiro" /\ owned[h] /\ stored[h]))
  /\ status' = IF kind[h] = "kiro" THEN Set(status, h, "failed") ELSE status
  /\ UNCHANGED <<process, kind, stored, owner, collect, told, outcome>>

\* A kiro run is marked done before its process is terminated.
DeleteBegins(c, h) ==
  /\ call[c][h] = "idle"
  /\ At(c, h, IF owned[h] THEN (IF stored[h] THEN "terminate" ELSE "forget") ELSE "back")
  /\ marked' = Set(marked, h, marked[h] \/ (kind[h] = "kiro" /\ owned[h] /\ stored[h]))
  /\ UNCHANGED <<process, kind, status, stored, owner, collect, told, outcome>>

ListenerDeletes(h) ==
  /\ collect[h] = "listen" /\ outcome[h] # "none"
  /\ DeleteBegins("listener", h)

ListenerReturns(h) ==
  /\ collect[h] = "listen" /\ call["listener"][h] = "back"
  /\ collect' = Set(collect, h, "done")
  /\ UNCHANGED <<process, adapter, owner, told, outcome, call>>

\* HandoffLive deletes the sessions of its snapshot of the registry; one of
\* them may have been removed since.
HandoffDeletes(h) ==
  /\ launch[h] = "added" /\ (live[h] \/ collect[h] = "listen")
  /\ DeleteBegins("handoff", h)

HandoffReturns(h) ==
  /\ call["handoff"][h] = "back" /\ live[h]
  /\ live' = Set(live, h, FALSE)
  /\ UNCHANGED <<process, adapter, collect, launch, owned, told, outcome, call>>

\* The context of the launch is cancelled before the run has been waited for.
Cancel(h) ==
  /\ launch[h] \notin {"new", "refused"} /\ ~waited[h]
  /\ call["cancel"][h] = "idle"
  /\ At("cancel", h, "terminate")
  /\ UNCHANGED <<process, adapter, owner, collect, told, outcome>>

AfterTerminate(c) == IF c = "cancel" THEN "back" ELSE "forget"

\* Nothing is done to a group whose leader has been waited for.
TerminateNothing(c, h) ==
  /\ call[c][h] = "terminate" /\ waited[h]
  /\ At(c, h, AfterTerminate(c))
  /\ UNCHANGED <<process, adapter, owner, collect, told, outcome>>

Terminate(c, h) ==
  /\ call[c][h] = "terminate" /\ ~waited[h] /\ holder[h] = "free"
  /\ holder' = Set(holder, h, c)
  /\ signalled' = Set(signalled, h, TRUE)
  /\ At(c, h, "grace")
  /\ UNCHANGED <<leader, kid, written, read, waited, adapter, owner, collect, told, outcome>>

Gone(c, h) ==
  /\ call[c][h] \in {"grace", "settle"} /\ GroupGone(h)
  /\ holder' = Set(holder, h, "free")
  /\ At(c, h, AfterTerminate(c))
  /\ UNCHANGED <<leader, kid, written, read, waited, signalled, adapter, owner, collect, told, outcome>>

\* The grace has passed and the group has not gone.
Kill(c, h) ==
  /\ call[c][h] = "grace" /\ ~GroupGone(h)
  /\ leader' = Set(leader, h, IF Alive(h) THEN "other" ELSE leader[h])
  /\ kid' = Set(kid, h, FALSE)
  /\ At(c, h, "settle")
  /\ UNCHANGED <<written, read, waited, holder, signalled, adapter, owner, collect, told, outcome>>

\* The leader has not been reaped in time: Terminate fails, and so does Delete.
Survivor(c, h) ==
  /\ call[c][h] = "settle" /\ ~GroupGone(h)
  /\ holder' = Set(holder, h, "free")
  /\ At(c, h, "back")
  /\ UNCHANGED <<leader, kid, written, read, waited, signalled, adapter, owner, collect, told, outcome>>

\* An OpenCode run is awaited, forgotten, and then deleted by the program
\* itself; the runtime keeps a handle whose deletion failed.
Forget(c, h) ==
  /\ call[c][h] = "forget"
  /\ kind[h] = "opencode" /\ stored[h] => Finished(h)
  /\ StoreDelete(h)
  /\ \E failed \in {FALSE, kind[h] = "opencode" /\ stored[h] /\ read[h] > 0} :
       owned' = Set(owned, h, failed /\ owned[h])
  /\ At(c, h, "back")
  /\ UNCHANGED <<process, kind, status, marked, collect, launch, live, told, outcome>>

(***************************************************************************)
(* Specification                                                           *)
(***************************************************************************)

CallerStep(c, h) ==
  \/ TerminateNothing(c, h) \/ Terminate(c, h) \/ Gone(c, h)
  \/ Kill(c, h) \/ Survivor(c, h) \/ Forget(c, h)

CollectStep(h) ==
  Wait(h) \/ Collect(h) \/ Notify(h) \/ Listen(h) \/ ListenerDeletes(h) \/ ListenerReturns(h)

AgentStep(h) ==
  \/ \E line \in Lines : Write(h, line)
  \/ \E code \in {"zero", "other"} : Exit(h, code)
  \/ KidExits(h)

RuntimeNext ==
  \E h \in Handles :
    \/ Refuse(h) \/ AdapterRun(h) \/ Own(h) \/ RegistryAdd(h)
    \/ AgentStep(h) \/ Copy(h) \/ CollectStep(h)
    \/ HandoffDeletes(h) \/ HandoffReturns(h) \/ Cancel(h)
    \/ \E c \in Callers : CallerStep(c, h)

RuntimeSpec == RuntimeInit /\ [][RuntimeNext]_runtimeVars

\* Goroutines and timers run; nothing makes an agent write, exit or end its
\* descendants, nor anybody stop or cancel.
FairRuntimeSpec ==
  /\ RuntimeSpec
  /\ \A h \in Handles :
       /\ WF_runtimeVars(Own(h)) /\ WF_runtimeVars(RegistryAdd(h))
       /\ WF_runtimeVars(Wait(h)) /\ WF_runtimeVars(Collect(h)) /\ WF_runtimeVars(Notify(h))
       /\ WF_runtimeVars(Listen(h)) /\ WF_runtimeVars(ListenerDeletes(h)) /\ WF_runtimeVars(ListenerReturns(h))
       /\ WF_runtimeVars(HandoffReturns(h))
       /\ \A c \in Callers : WF_runtimeVars(CallerStep(c, h))

(***************************************************************************)
(* Properties                                                              *)
(***************************************************************************)

\* What a listener is told is the run's last word: as long as the adapter
\* keeps the run, Complete reports the same, whoever deletes it meanwhile, and
\* an agent is reported only when it has ended.
OneVerdict ==
  \A h \in Handles :
    told[h] # "none" => Ended(h) /\ (stored[h] => Complete(h) = told[h])

\* A run as Notification sees it: one out of quota is a failed one.
Agent(h) ==
  CASE leader[h] = "none" -> "unused"
    [] Alive(h) -> "running"
    [] OTHER -> "ended"
Heard(h) == IF told[h] = "limited" THEN "failed" ELSE told[h]

Notified == INSTANCE Notification
              WITH Runs <- Handles,
                   agent <- [h \in Handles |-> Agent(h)],
                   heard <- [h \in Handles |-> Heard(h)]

\* To the dispatcher a run is an agent that begins and ends, and one
\* notification, made after the end: whatever descendants, cancellations, Deletes
\* and hard stops do beside it, Runtime implements Notification.
NotifiesOnce == Notified!Spec

\* An agent that has ended is reported, even while a descendant of it holds
\* the pipes; every Delete returns, the one made from inside the notification
\* included; and a group that was told to end does not outlive the grace, also
\* when only a descendant ignored the signal.
RunsEnd ==
  \A h \in Handles :
    /\ Ended(h) ~> told[h] # "none"
    /\ \A c \in Callers : (call[c][h] # "idle") ~> (call[c][h] = "back")
    /\ signalled[h] ~> (~Alive(h) /\ ~kid[h])

\* What the adapters' conformance test expects of its first scenario
\* (conformance.go:83): an agent that writes its result, exits with zero and is
\* not disturbed is reported as completed.  The pipes are closed as soon as the
\* agent is reaped, and what had not been copied is gone.
FinishedIsCompleted ==
  \A h \in Handles :
    told[h] # "none" /\ leader[h] = "zero" /\ ~signalled[h] /\ written[h] = <<"text", "stop">>
      => told[h] = "completed"

=============================================================================
