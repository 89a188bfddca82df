------------------------------ MODULE Controls ------------------------------
(* What the operator may do to the fleet from the cockpit: the Beads tab      *)
(* (beads.go) with its filter, its detail pane and its selection, the         *)
(* dispatch and control flows over one modal action lifecycle (action.go,     *)
(* dispatch.go, controls.go, joined in cockpit.go), the routing of keys and   *)
(* answers through Program.Update and TabRegistry (shell.go, tabview.go), and *)
(* the snapshots that change the list under an open confirmation.             *)
(*                                                                            *)
(* A bead is its place in the display order, a filter is the set of beads it  *)
(* matches, a snapshot says which beads there are and which of them the       *)
(* daemon would dispatch or review.  Bubble Tea handles one message at a      *)
(* time; an RPC runs in a goroutine of its own and its answer comes back as a *)
(* message.  The other tabs stand for one screen.  Left out: wording, the     *)
(* help line, scrolling, the session count in the prompt, quitting.           *)
(* Bound: an action opens while its flow's token is below MaxTokens.          *)
EXTENDS Integers, Sequences, SequencesExt, FiniteSets

CONSTANTS
  Beads,       \* 1..n, in display order (repository, then ID)
  Filters,     \* the sets of beads the typed queries match
  Snapshots,   \* [beads, dispatch, review]: listed beads, those eligible for either action
  Roles,       \* dispatchRoles, a sequence
  MaxTokens

ASSUME DisplayOrder == Beads = 1..Cardinality(Beads)
ASSUME Filtering == Beads \in Filters /\ Filters \subseteq SUBSET Beads
ASSUME Listing == \A s \in Snapshots : s.beads \subseteq Beads /\ (s.dispatch \cup s.review) \subseteq s.beads
ASSUME Vocabulary == Roles \in Seq(STRING) /\ Len(Roles) > 0 /\ "hard-stop" \notin ToSet(Roles) /\ MaxTokens \in Nat

VARIABLES
  screen,      \* Shell.screen: the others are "other"
  snapshot,    \* BeadsView.beads
  filter,      \* BeadsView.query
  mode,        \* who owns the keys: "list", "filter" (focused) or "detail" (open)
  selection,   \* BeadsView.selection: [key, index], index 1 for the first row, 0 for none
  flow,        \* per flow its ActionState: [phase, token, prompt, hard], the bead and the role or kind
  calls        \* RPCs on their way: [flow, token, what, bead]

view == <<screen, snapshot, filter, mode, selection>>
vars == <<view, flow, calls>>

None == 0
Screens == {"dashboard", "beads", "other"}
Flows == {"dispatch", "control"}
Idle == [phase |-> "idle", token |-> 0, prompt |-> <<>>, hard |-> FALSE, bead |-> None, what |-> Roles[1]]
RolePlace(role) == CHOOSE i \in DOMAIN Roles : Roles[i] = role

Init ==
  /\ screen = "dashboard"
  /\ snapshot = [beads |-> {}, dispatch |-> {}, review |-> {}]
  /\ filter = Beads /\ mode = "list"
  /\ selection = [key |-> None, index |-> 0]
  /\ flow = [f \in Flows |-> Idle]
  /\ calls = {}

-----------------------------------------------------------------------------
(* The list: rows in display order, the selection follows its key.            *)

Rows(snap, query) == SetToSortSeq(snap.beads \cap query, <)

\* Fault: the selection keeps its place in the list.
KeepIndex(keys, previous) ==
  IF keys = <<>> THEN [key |-> None, index |-> 0]
  ELSE LET i == IF previous.index < 1 THEN 1 ELSE IF previous.index > Len(keys) THEN Len(keys) ELSE previous.index
       IN [key |-> keys[i], index |-> i]

\* The row of the key if it is still there, else the row at its place.
KeepSelection(keys, previous) ==
  IF previous.key \in ToSet(keys)
  THEN [key |-> previous.key, index |-> CHOOSE i \in DOMAIN keys : keys[i] = previous.key]
  ELSE KeepIndex(keys, previous)

\* SelectedBead: the bead at the selected row.
Selected ==
  LET rows == Rows(snapshot, filter)
  IN IF selection.index \in DOMAIN rows THEN rows[selection.index] ELSE None

SetQuery(query) ==
  /\ filter' = query
  /\ selection' = KeepSelection(Rows(snapshot, query), selection)

\* Tabs follow every snapshot, whatever screen is shown.
Snapshot ==
  /\ \E s \in Snapshots :
       /\ snapshot' = s
       /\ selection' = KeepSelection(Rows(s, filter), selection)
  /\ UNCHANGED <<screen, filter, mode, flow, calls>>

-----------------------------------------------------------------------------
(* The modal action: token, phase and what the confirmation shows.            *)

Begin(f, what, bead, hard) ==
  [f EXCEPT !.phase = "confirm", !.prompt = <<what, bead>>, !.hard = hard, !.what = what, !.bead = bead]

\* Fault: the request names the bead selected now.
SubmitSelected(f, name) ==
  /\ f.phase = "confirm"
  /\ flow' = [flow EXCEPT ![name] = [f EXCEPT !.phase = "pending", !.token = @ + 1]]
  /\ calls' = calls \cup {[flow |-> name, token |-> f.token + 1, what |-> f.what, bead |-> Selected]}

\* Fault: the request carries the token of the request before it.
SubmitEarly(f, name) ==
  /\ f.phase = "confirm"
  /\ flow' = [flow EXCEPT ![name] = [f EXCEPT !.phase = "pending", !.token = @ + 1]]
  /\ calls' = calls \cup {[flow |-> name, token |-> f.token, what |-> f.what, bead |-> f.bead]}

\* Submit and the command it returns.
Submit(f, name) ==
  /\ f.phase = "confirm"
  /\ flow' = [flow EXCEPT ![name] = [f EXCEPT !.phase = "pending", !.token = @ + 1]]
  /\ calls' = calls \cup {[flow |-> name, token |-> f.token + 1, what |-> f.what, bead |-> f.bead]}

\* The answer of a request that was sent before is not taken any more.
Dismissed(f) == [f EXCEPT !.phase = "idle", !.token = @ + 1, !.prompt = <<>>, !.hard = FALSE]

\* Resolve takes only the answer the flow waits for.
Resolve(f, token, ok) ==
  IF f.phase # "pending" \/ token # f.token THEN f ELSE [f EXCEPT !.phase = IF ok THEN "success" ELSE "failure"]

-----------------------------------------------------------------------------
(* Keys on the Beads screen.  cockpitBeadsView gives them to the open flow;   *)
(* with none open d, s, h and r are commands even while the filter is typed   *)
(* or the detail is read.                                                     *)

Busy(name) == flow[name].phase # "idle"
Commands ==
  screen = "beads" /\ ~Busy("dispatch") /\ ~Busy("control")
May(name) == flow[name].token < MaxTokens

\* d opens the role picker on an eligible bead ...
OpenSelected ==
  /\ Commands /\ May("dispatch") /\ Selected \in snapshot.dispatch
  /\ flow' = [flow EXCEPT !["dispatch"] =
       [@ EXCEPT !.phase = "picker", !.prompt = <<>>, !.hard = FALSE, !.bead = Selected, !.what = Roles[1]]]
  /\ UNCHANGED <<view, calls>>

\* ... and drains the fleet on any other; s starts it.  Neither asks.
Immediate(kind) ==
  /\ Commands /\ May("control")
  /\ kind = "drain" => Selected \notin snapshot.dispatch
  /\ Submit(Begin(flow["control"], kind, flow["control"].bead, FALSE), "control")
  /\ UNCHANGED view

HardStop ==
  /\ Commands /\ May("control")
  /\ flow' = [flow EXCEPT !["control"] = Begin(@, "hard-stop", @.bead, TRUE)]
  /\ UNCHANGED <<view, calls>>

OpenReview ==
  /\ Commands /\ May("control") /\ Selected \in snapshot.review
  /\ flow' = [flow EXCEPT !["control"] = Begin(@, "review", Selected, FALSE)]
  /\ UNCHANGED <<view, calls>>

\* j and k in the picker.
PickRole ==
  /\ screen = "beads" /\ flow["dispatch"].phase = "picker"
  /\ \E step \in {1, Len(Roles) - 1} :
       flow' = [flow EXCEPT !["dispatch"].what = Roles[((RolePlace(@) - 1 + step) % Len(Roles)) + 1]]
  /\ UNCHANGED <<view, calls>>

Choose ==
  /\ screen = "beads" /\ flow["dispatch"].phase = "picker"
  /\ flow' = [flow EXCEPT !["dispatch"] = Begin(@, @.what, @.bead, FALSE)]
  /\ UNCHANGED <<view, calls>>

\* The open flow gets the keys, the dispatch flow first.
Owner == IF Busy("dispatch") THEN "dispatch" ELSE "control"

\* c confirms a hard stop, enter everything else.
Confirm(key) ==
  /\ screen = "beads"
  /\ key = IF flow[Owner].hard THEN "c" ELSE "enter"
  /\ Submit(flow[Owner], Owner)
  /\ UNCHANGED view

\* esc: a request on its way cannot be dismissed.
Dismiss ==
  /\ screen = "beads" /\ flow[Owner].phase \notin {"idle", "pending"}
  /\ flow' = [flow EXCEPT ![Owner] = Dismissed(@)]
  /\ UNCHANGED <<view, calls>>

Focus ==
  /\ Commands /\ mode = "list"
  /\ mode' = "filter"
  /\ UNCHANGED <<screen, snapshot, filter, selection, flow, calls>>

Type ==
  /\ Commands /\ mode = "filter"
  /\ \E query \in Filters : SetQuery(query)
  /\ UNCHANGED <<screen, snapshot, mode, flow, calls>>

\* enter keeps the filter, esc clears it.
Unfocus(clear) ==
  /\ Commands /\ mode = "filter"
  /\ mode' = "list"
  /\ IF clear THEN SetQuery(Beads) ELSE UNCHANGED <<filter, selection>>
  /\ UNCHANGED <<screen, snapshot, flow, calls>>

OpenDetail ==
  /\ Commands /\ mode = "list" /\ Selected # None
  /\ mode' = "detail"
  /\ UNCHANGED <<screen, snapshot, filter, selection, flow, calls>>

CloseDetail ==
  /\ Commands /\ mode = "detail"
  /\ mode' = "list"
  /\ UNCHANGED <<screen, snapshot, filter, selection, flow, calls>>

\* j, k, home and end, through Table.MoveBy: the key is given up.
Move ==
  /\ Commands /\ mode = "list"
  /\ LET rows == Rows(snapshot, filter) IN
       \E i \in {selection.index - 1, selection.index + 1, 1, Len(rows)} :
         selection' = KeepSelection(rows, [key |-> None, index |-> i])
  /\ UNCHANGED <<screen, snapshot, filter, mode, flow, calls>>

\* 1 to 5, tab and shift+tab: the key then goes to the screen it opened, where
\* a digit is typed into a filter that has the focus.
Switch ==
  /\ screen' \in Screens \ {screen}
  /\ \/ UNCHANGED <<filter, selection>>
     \/ /\ screen' = "beads" /\ mode = "filter" /\ ~Busy("dispatch") /\ ~Busy("control")
        /\ \E query \in Filters : SetQuery(query)
  /\ UNCHANGED <<snapshot, mode, flow, calls>>

\* The answer is a message: only the screen shown gets it, and there only the
\* open flow.
Answer(call, ok) ==
  /\ call \in calls
  /\ calls' = calls \ {call}
  /\ flow' = IF screen = "beads" /\ Busy(Owner) /\ Owner = call.flow
             THEN [flow EXCEPT ![Owner] = Resolve(@, call.token, ok)] ELSE flow
  /\ UNCHANGED view

Next ==
  \/ Snapshot
  \/ OpenSelected \/ \E kind \in {"start", "drain"} : Immediate(kind)
  \/ HardStop \/ OpenReview
  \/ PickRole \/ Choose \/ \E key \in {"c", "enter"} : Confirm(key)
  \/ Dismiss
  \/ Focus \/ Type \/ \E clear \in BOOLEAN : Unfocus(clear)
  \/ OpenDetail \/ CloseDetail \/ Move
  \/ Switch
  \/ \E call \in calls, ok \in BOOLEAN : Answer(call, ok)

Spec == Init /\ [][Next]_vars

\* An RPC ends, by its answer or by its ten seconds; the operator owes nothing.
FairSpec == Spec /\ WF_vars(\E call \in calls, ok \in BOOLEAN : Answer(call, ok))

-----------------------------------------------------------------------------
Phases == {"idle", "picker", "confirm", "pending", "success", "failure"}
TypeOK ==
  /\ screen \in Screens /\ filter \in Filters /\ mode \in {"list", "filter", "detail"}
  /\ selection \in [key : Beads \cup {None}, index : 0..Cardinality(Beads)]
  /\ \A f \in DOMAIN flow : flow[f].phase \in Phases /\ flow[f].token \in 0..(MaxTokens + 1)
  /\ Cardinality(calls) <= 1

\* What is asked of the daemon is what the operator saw when confirming it:
\* the bead and the role of the prompt, although snapshots, filters and moves
\* change the selection under it; a hard stop only behind its own confirmation;
\* one request at a time over both flows (confirmation, routing and tokens).
SendsWhatItShows ==
  \A c \in calls :
    /\ flow[c.flow].phase = "pending" /\ flow[c.flow].token = c.token
    /\ flow[c.flow].prompt = <<c.what, c.bead>>
    /\ flow[c.flow].hard <=> c.what = "hard-stop"
    /\ calls = {c}

\* When a snapshot or a filter changes the rows, the selected bead stays
\* selected wherever it now stands, as long as it is listed (KeepSelection).
SelectionFollows ==
  [][LET now == Rows(snapshot, filter)
         then == Rows(snapshot', filter')
     IN now # then /\ selection.key \in ToSet(then)
          => selection'.key = selection.key /\ then[selection'.index] = selection.key]_vars

\* An operator who stays on the Beads screen sees how the request ended.
OutcomeShown == calls # {} ~> (screen # "beads" \/ \A f \in DOMAIN flow : flow[f].phase # "pending")

\* Every request is seen to end.  Refuted: its answer is dropped while another
\* screen is shown, the flow stays pending, and pending cannot be dismissed.
PendingEnds == \A f \in Flows : flow[f].phase = "pending" ~> flow[f].phase # "pending"
=============================================================================
