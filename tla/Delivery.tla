------------------------------ MODULE Delivery ------------------------------
(***************************************************************************)
(* What landing promises the dispatcher. A task has one session at a time, *)
(* of one seat, and a closed task stays closed. What an agent has written  *)
(* where its seat's landings look for it is owed: a seat that lands brings *)
(* all it owes to integration, and nothing but what its own agents wrote;  *)
(* what is there stays there; and a task is closed only by a seat that     *)
(* owes nothing any more. Landing implements it with git, whose commands   *)
(* fail, among other seats, other people's commits and deaths of the       *)
(* daemon.                                                                 *)
(***************************************************************************)
CONSTANTS Seat, Task

VARIABLES
  status,   \* of each task: "open", "claimed" or "closed"
  session,  \* the task of each seat's session, if it has one
  written,  \* the work of each seat on each task that agents have done
  owed,     \* that which the seat's landings are to bring to integration
  landed    \* the work on integration

deliveryState == <<status, session, written, owed, landed>>

Of(s) == {s} \X Task

Init ==
  /\ status = [t \in Task |-> "open"]
  /\ session = [s \in Seat |-> {}]
  /\ written = {} /\ owed = {} /\ landed = {}

Begin(s, t) ==
  /\ session[s] = {} /\ status[t] = "open"
  /\ session' = [session EXCEPT ![s] = {t}]
  /\ status' = [status EXCEPT ![t] = "claimed"]
  /\ UNCHANGED <<written, owed, landed>>

\* The agent writes on its seat's branch or, when an earlier landing has left
\* the seat elsewhere, where no landing finds it.
Write(s, t) ==
  /\ session[s] = {t}
  /\ written' = written \cup {<<s, t>>}
  /\ owed' \in {owed \cup {<<s, t>>}, owed \ {<<s, t>>}}
  /\ UNCHANGED <<status, session, landed>>

Land(s) ==
  /\ session[s] # {}
  /\ \E work \in SUBSET (written \cap Of(s)) :
       /\ owed \cap Of(s) \subseteq landed \cup work
       /\ landed' = landed \cup work
  /\ UNCHANGED <<status, session, written, owed>>

Close(s, t) ==
  /\ session[s] = {t} /\ status[t] = "claimed"
  /\ owed \cap Of(s) \subseteq landed
  /\ session' = [session EXCEPT ![s] = {}]
  /\ status' = [status EXCEPT ![t] = "closed"]
  /\ UNCHANGED <<written, owed, landed>>

\* A session ends without its task; the release may fail.
GiveBack(s, t) ==
  /\ session[s] = {t} /\ status[t] = "claimed"
  /\ session' = [session EXCEPT ![s] = {}]
  /\ \/ status' = [status EXCEPT ![t] = "open"]
     \/ UNCHANGED status
  /\ UNCHANGED <<written, owed, landed>>

\* The daemon dies, and its successor recovers what is claimed.
Crash ==
  /\ session' = [s \in Seat |-> {}]
  /\ status' = [t \in Task |-> IF status[t] = "claimed" THEN "open" ELSE status[t]]
  /\ UNCHANGED <<written, owed, landed>>

Next ==
  \/ \E s \in Seat :
       Land(s) \/ \E t \in Task : Begin(s, t) \/ Write(s, t) \/ Close(s, t) \/ GiveBack(s, t)
  \/ Crash

Spec == Init /\ [][Next]_deliveryState
=============================================================================
