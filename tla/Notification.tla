---------------------------- MODULE Notification ----------------------------
(***************************************************************************)
(* What the agent runtime promises the dispatcher of a run: it begins at   *)
(* most once, ends at most once, and is notified at most once, after its   *)
(* end, with one verdict.  Runtime implements it with processes, pipes and *)
(* collectors; Sessions relies on it and on nothing else.                  *)
(***************************************************************************)
CONSTANT Runs

VARIABLES
  agent,  \* each run's agent: "unused", "running" or "ended"
  heard   \* what has been notified of it: "none", "completed" or "failed"

runState == <<agent, heard>>

Init ==
  /\ agent = [h \in Runs |-> "unused"]
  /\ heard = [h \in Runs |-> "none"]

Begin(h) ==
  /\ agent[h] = "unused"
  /\ agent' = [agent EXCEPT ![h] = "running"]
  /\ UNCHANGED heard

End(h) ==
  /\ agent[h] = "running"
  /\ agent' = [agent EXCEPT ![h] = "ended"]
  /\ UNCHANGED heard

Tell(h, verdict) ==
  /\ agent[h] = "ended" /\ heard[h] = "none"
  /\ heard' = [heard EXCEPT ![h] = verdict]
  /\ UNCHANGED agent

Next ==
  \E h \in Runs :
    Begin(h) \/ End(h) \/ \E verdict \in {"completed", "failed"} : Tell(h, verdict)

Spec == Init /\ [][Next]_runState
=============================================================================
