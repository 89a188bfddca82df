--------------------------- MODULE ControlsProofs ---------------------------
(* What the cockpit asks of the daemon is what its operator confirmed.        *)
(*                                                                            *)
(* SendsWhatItShows speaks of requests on their way.  Inductively, a flow     *)
(* that asks for confirmation already shows what it would send (Shown), the   *)
(* two flows are never open together (Modal), so that a flow that opens or is *)
(* confirmed does it with no request on its way, and a request is an image of *)
(* the flow that waits for it (Sent).                                         *)
(* SelectionFollows needs no invariant: a step that changes the rows chooses  *)
(* the selection anew from them (RowsChange), and a key that is still listed  *)
(* is the one chosen (KeyKept).                                               *)
EXTENDS Controls, TLAPS

RoleNames == {Roles[i] : i \in DOMAIN Roles}
Words == RoleNames \cup {"start", "drain", "hard-stop", "review"}
Subjects == Beads \cup {None}
Prompts == {<<>>} \cup (Words \X Subjects)
ActionStates ==
  [phase : Phases, token : Nat, prompt : Prompts, hard : BOOLEAN, bead : Subjects, what : Words]

Listed == snapshot.dispatch \subseteq Beads /\ snapshot.review \subseteq Beads
Typed == flow \in [Flows -> ActionStates] /\ flow["dispatch"].what \in RoleNames
Shows(f) == f.prompt = <<f.what, f.bead>> /\ (f.hard <=> f.what = "hard-stop")
Shown == \A name \in Flows : flow[name].phase \in {"confirm", "pending"} => Shows(flow[name])
Modal == \E name \in Flows : flow[name].phase = "idle"
Sent == \A c \in calls :
  /\ c.flow \in Flows
  /\ flow[c.flow].phase = "pending" /\ flow[c.flow].token = c.token
  /\ flow[c.flow].what = c.what /\ flow[c.flow].bead = c.bead
  /\ calls = {c}
IInv == Listed /\ Typed /\ Shown /\ Modal /\ Sent

\* A step around a ring of n places.
LEMMA Wraps ==
  ASSUME NEW n \in Nat, n > 0, NEW i \in 1 .. n, NEW step \in {1, n - 1}
  PROVE  ((i - 1 + step) % n) + 1 \in 1 .. n
OBVIOUS

\* The picker's words are role names, none of them a hard stop.
LEMMA Picked ==
  /\ Roles[1] \in RoleNames
  /\ \A role \in RoleNames : role # "hard-stop"
  /\ \A role \in RoleNames, step \in {1, Len(Roles) - 1} :
       Roles[((RolePlace(role) - 1 + step) % Len(Roles)) + 1] \in RoleNames
<1>1. Len(Roles) \in Nat /\ Len(Roles) > 0 /\ DOMAIN Roles = 1 .. Len(Roles)
  BY Vocabulary
<1>2. Roles[1] \in RoleNames
  BY <1>1 DEF RoleNames
<1>3. \A role \in RoleNames : role # "hard-stop"
  BY Vocabulary DEF RoleNames, ToSet
<1>4. ASSUME NEW role \in RoleNames, NEW step \in {1, Len(Roles) - 1}
      PROVE  Roles[((RolePlace(role) - 1 + step) % Len(Roles)) + 1] \in RoleNames
  <2>1. RolePlace(role) \in 1 .. Len(Roles)
    BY <1>1 DEF RoleNames, RolePlace
  <2>2. ((RolePlace(role) - 1 + step) % Len(Roles)) + 1 \in DOMAIN Roles
    BY ONLY <1>1, <2>1, step \in {1, Len(Roles) - 1}, Wraps
  <2>. QED  BY <2>2 DEF RoleNames
<1>. QED  BY <1>2, <1>3, <1>4

\* A confirmation shows what it would send, of a hard stop and of anything else.
LEMMA Begun ==
  ASSUME NEW f \in ActionStates, NEW what \in Words, NEW bead \in Subjects, NEW hard \in BOOLEAN
  PROVE  /\ Begin(f, what, bead, hard) \in ActionStates
         /\ Begin(f, what, bead, hard).phase = "confirm"
         /\ Begin(f, what, bead, hard).what = what
         /\ Begin(f, what, bead, hard).prompt
              = <<Begin(f, what, bead, hard).what, Begin(f, what, bead, hard).bead>>
         /\ Begin(f, what, bead, hard).hard = hard
<1>. DEFINE b == [f EXCEPT !.phase = "confirm", !.prompt = <<what, bead>>, !.hard = hard,
                    !.what = what, !.bead = bead]
<1>1. <<what, bead>> \in Prompts /\ "confirm" \in Phases
  BY DEF Prompts, Phases
<1>2. b \in ActionStates
  BY <1>1 DEF ActionStates
<1>3. b.phase = "confirm" /\ b.prompt = <<what, bead>> /\ b.what = what /\ b.bead = bead
  BY DEF ActionStates
<1>4. b.hard = hard
  BY Zenon DEF ActionStates
<1>5. Begin(f, what, bead, hard) = b
  BY DEF Begin
<1>. HIDE DEF b
<1>. QED  BY <1>2, <1>3, <1>4, <1>5

LEMMA BegunHard ==
  ASSUME NEW f \in ActionStates
  PROVE  /\ Begin(f, "hard-stop", f.bead, TRUE) \in ActionStates
         /\ Shows(Begin(f, "hard-stop", f.bead, TRUE))
         /\ Begin(f, "hard-stop", f.bead, TRUE).phase = "confirm"
<1>1. "hard-stop" \in Words /\ f.bead \in Subjects /\ TRUE \in BOOLEAN
  BY DEF Words, ActionStates
<1>. DEFINE b == Begin(f, "hard-stop", f.bead, TRUE)
<1>2. /\ b \in ActionStates /\ b.phase = "confirm" /\ b.what = "hard-stop"
      /\ b.prompt = <<b.what, b.bead>> /\ b.hard = TRUE
  BY <1>1, Begun
<1>. HIDE DEF b
<1>3. Shows(b)
  BY <1>2 DEF Shows
<1>. QED  BY <1>2, <1>3 DEF b

LEMMA BegunSoft ==
  ASSUME NEW f \in ActionStates, NEW what \in Words, NEW bead \in Subjects, what # "hard-stop"
  PROVE  /\ Begin(f, what, bead, FALSE) \in ActionStates
         /\ Shows(Begin(f, what, bead, FALSE))
         /\ Begin(f, what, bead, FALSE).phase = "confirm"
         /\ Begin(f, what, bead, FALSE).what = what
<1>. DEFINE b == Begin(f, what, bead, FALSE)
<1>1. FALSE \in BOOLEAN
  OBVIOUS
<1>2. /\ b \in ActionStates /\ b.phase = "confirm" /\ b.what = what
      /\ b.prompt = <<b.what, b.bead>> /\ b.hard = FALSE
  BY <1>1, Begun
<1>. HIDE DEF b
<1>3. Shows(b)
  BY <1>2 DEF Shows
<1>. QED  BY <1>2, <1>3 DEF b

LEMMA Closed ==
  ASSUME NEW f \in ActionStates
  PROVE  Dismissed(f) \in ActionStates /\ Dismissed(f).phase = "idle" /\ Dismissed(f).what = f.what
<1>1. f.token + 1 \in Nat /\ "idle" \in Phases /\ <<>> \in Prompts
  BY DEF ActionStates, Phases, Prompts
<1>2. Dismissed(f) \in ActionStates
  BY <1>1 DEF Dismissed, ActionStates
<1>3. Dismissed(f).phase = "idle"
  BY DEF Dismissed, ActionStates
<1>4. Dismissed(f).what = f.what
  BY DEF Dismissed, ActionStates
<1>. QED  BY <1>2, <1>3, <1>4

\* Where no flow waits nothing is on its way.
LEMMA Quiet ==
  ASSUME Sent, \A name \in Flows : flow[name].phase # "pending"
  PROVE  calls = {}
BY DEF Sent

LEMMA InitHolds == Init => IInv
<1>. SUFFICES ASSUME Init PROVE IInv  OBVIOUS
<1>1. Listed  BY DEF Init, Listed
<1>2. Idle \in ActionStates /\ Idle.what \in RoleNames /\ Idle.phase = "idle"
  <2>1. Roles[1] \in RoleNames /\ Roles[1] \in Words /\ None \in Subjects /\ "idle" \in Phases
        /\ <<>> \in Prompts /\ 0 \in Nat /\ FALSE \in BOOLEAN
    BY Picked DEF Words, Subjects, Phases, Prompts
  <2>. QED  BY <2>1 DEF Idle, ActionStates
<1>3. flow = [f \in Flows |-> Idle] /\ calls = {}
  BY DEF Init
<1>4. Typed /\ Shown /\ Modal /\ Sent
  BY <1>2, <1>3 DEF Typed, Shown, Modal, Sent, Flows
<1>. QED  BY <1>1, <1>4 DEF IInv

\* A flow that is not waiting changes alone, and nothing is on its way.
LEMMA Turn ==
  ASSUME IInv, Listed', NEW name \in Flows, NEW f \in ActionStates,
         \A other \in Flows \ {name} : flow[other].phase = "idle",
         flow[name].phase # "pending", f.phase # "pending",
         name = "dispatch" => f.what \in RoleNames,
         f.phase = "confirm" => Shows(f),
         flow' = [flow EXCEPT ![name] = f], calls' = calls
  PROVE  IInv'
<1>1. calls = {}
  BY Quiet DEF IInv
<1>2. flow' \in [Flows -> ActionStates] /\ flow'[name] = f
      /\ \A other \in Flows \ {name} : flow'[other] = flow[other]
  BY DEF IInv, Typed
<1>3. Typed'  BY <1>2 DEF IInv, Typed, Flows
<1>4. Shown'  BY <1>2 DEF IInv, Shown, Shows
<1>5. Modal'  BY <1>2 DEF IInv, Modal, Flows
<1>6. Sent'  BY <1>1 DEF Sent
<1>. QED  BY <1>3, <1>4, <1>5, <1>6 DEF IInv

\* A confirmed flow sends the one request there is.
LEMMA Sends ==
  ASSUME IInv, Listed', NEW name \in Flows, NEW f \in ActionStates,
         \A other \in Flows \ {name} : flow[other].phase = "idle",
         flow[name].phase # "pending",
         name = "dispatch" => f.what \in RoleNames,
         Shows(f), Submit(f, name)
  PROVE  IInv'
<1>. DEFINE g == [f EXCEPT !.phase = "pending", !.token = @ + 1]
            call == [flow |-> name, token |-> f.token + 1, what |-> f.what, bead |-> f.bead]
<1>1. calls = {}
  BY Quiet DEF IInv
<1>2. flow' = [flow EXCEPT ![name] = g] /\ calls' = {call}
  BY <1>1 DEF Submit
<1>3. /\ g \in ActionStates /\ g.phase = "pending" /\ g.token = f.token + 1
      /\ g.what = f.what /\ g.bead = f.bead /\ g.prompt = f.prompt /\ g.hard = f.hard
  <2>1. f.token + 1 \in Nat  BY DEF ActionStates
  <2>2. "pending" \in Phases  BY DEF Phases
  <2>3. g \in ActionStates  BY <2>1, <2>2 DEF ActionStates
  <2>4. g.phase = "pending"  BY DEF ActionStates
  <2>5. g.token = f.token + 1  BY DEF ActionStates
  <2>6. g.what = f.what /\ g.bead = f.bead  BY DEF ActionStates
  <2>7. g.prompt = f.prompt  BY DEF ActionStates
  <2>8. g.hard = f.hard  BY Zenon DEF ActionStates
  <2>. QED  BY <2>3, <2>4, <2>5, <2>6, <2>7, <2>8
<1>4. Shows(g)  BY <1>3 DEF Shows
<1>. HIDE DEF g
<1>5. flow' \in [Flows -> ActionStates] /\ flow'[name] = g
      /\ \A other \in Flows \ {name} : flow'[other] = flow[other]
  BY <1>2, <1>3 DEF IInv, Typed
<1>6. Typed'  BY <1>3, <1>5 DEF IInv, Typed, Flows
<1>7. Shown'  BY <1>4, <1>5 DEF IInv, Shown, Shows
<1>8. Modal'  BY <1>5 DEF IInv, Modal, Flows
<1>9. Sent'  BY <1>2, <1>3, <1>5 DEF Sent
<1>. QED  BY <1>6, <1>7, <1>8, <1>9 DEF IInv

\* What an operator and the snapshots do to the list leaves the flows alone.
LEMMA Elsewhere == ASSUME IInv, Listed', UNCHANGED <<flow, calls>> PROVE IInv'
BY DEF IInv, Typed, Shown, Shows, Modal, Sent

LEMMA NextHolds == IInv /\ [Next]_vars => IInv'
<1>. SUFFICES ASSUME IInv, [Next]_vars PROVE IInv'  OBVIOUS
<1>1. Listed'
  <2>1. CASE Snapshot
    BY <2>1, Listing DEF Snapshot, Listed
  <2>2. CASE snapshot' = snapshot
    BY <2>2 DEF IInv, Listed
  <2>. QED
    BY <2>1, <2>2 DEF Next, vars, view, OpenSelected, Immediate, HardStop, OpenReview, PickRole, Choose,
       Confirm, Dismiss, Focus, Type, Unfocus, OpenDetail, CloseDetail, Move, Switch, Answer
<1>2. flow["dispatch"] \in ActionStates /\ flow["control"] \in ActionStates
      /\ flow["dispatch"].what \in RoleNames
  BY DEF IInv, Typed, Flows
<1>3. CASE UNCHANGED vars
  BY <1>1, <1>3, Elsewhere DEF vars
<1>4. CASE Snapshot \/ Focus \/ Type \/ (\E clear \in BOOLEAN : Unfocus(clear))
           \/ OpenDetail \/ CloseDetail \/ Move \/ Switch
  BY <1>1, <1>4, Elsewhere DEF Snapshot, Focus, Type, Unfocus, OpenDetail, CloseDetail, Move, Switch
<1>5. CASE OpenSelected
  <2>. DEFINE f == [flow["dispatch"] EXCEPT !.phase = "picker", !.prompt = <<>>, !.hard = FALSE,
                      !.bead = Selected, !.what = Roles[1]]
  <2>1. Selected \in Beads
    BY <1>5 DEF OpenSelected, IInv, Listed
  <2>2. f \in ActionStates /\ f.phase = "picker" /\ f.what \in RoleNames
    BY <1>2, <2>1, Picked DEF ActionStates, Phases, Subjects, Words, Prompts
  <2>3. flow["dispatch"].phase = "idle" /\ flow["control"].phase = "idle"
    BY <1>5 DEF OpenSelected, Commands, Busy
  <2>4. flow' = [flow EXCEPT !["dispatch"] = f] /\ calls' = calls
    BY <1>5 DEF OpenSelected
  <2>. HIDE DEF f
  <2>. QED  BY <1>1, <2>2, <2>3, <2>4, Turn DEF Flows
<1>6. ASSUME NEW kind \in {"start", "drain"}, Immediate(kind) PROVE IInv'
  <2>. DEFINE f == Begin(flow["control"], kind, flow["control"].bead, FALSE)
  <2>1. f \in ActionStates /\ Shows(f)
    <3>1. flow["control"].bead \in Subjects /\ kind \in Words /\ kind # "hard-stop"
      BY <1>2 DEF ActionStates, Words
    <3>. QED  BY <1>2, <3>1, BegunSoft
  <2>2. flow["dispatch"].phase = "idle" /\ flow["control"].phase = "idle"
    BY <1>6 DEF Immediate, Commands, Busy
  <2>3. Submit(f, "control")
    BY <1>6 DEF Immediate
  <2>. HIDE DEF f
  <2>. QED  BY <1>1, <2>1, <2>2, <2>3, Sends DEF Flows
<1>7. CASE HardStop
  <2>. DEFINE f == Begin(flow["control"], "hard-stop", flow["control"].bead, TRUE)
  <2>1. f \in ActionStates /\ Shows(f) /\ f.phase = "confirm"
    BY <1>2, BegunHard
  <2>2. flow["dispatch"].phase = "idle" /\ flow["control"].phase = "idle"
    BY <1>7 DEF HardStop, Commands, Busy
  <2>3. flow' = [flow EXCEPT !["control"] = f] /\ calls' = calls
    BY <1>7 DEF HardStop
  <2>. HIDE DEF f
  <2>. QED  BY <1>1, <2>1, <2>2, <2>3, Turn DEF Flows
<1>8. CASE OpenReview
  <2>. DEFINE f == Begin(flow["control"], "review", Selected, FALSE)
  <2>1. Selected \in Beads
    BY <1>8 DEF OpenReview, IInv, Listed
  <2>2. f \in ActionStates /\ Shows(f) /\ f.phase = "confirm"
    <3>1. Selected \in Subjects /\ "review" \in Words /\ "review" # "hard-stop"
      BY <2>1 DEF Words, Subjects
    <3>. QED  BY <1>2, <3>1, BegunSoft
  <2>3. flow["dispatch"].phase = "idle" /\ flow["control"].phase = "idle"
    BY <1>8 DEF OpenReview, Commands, Busy
  <2>4. flow' = [flow EXCEPT !["control"] = f] /\ calls' = calls
    BY <1>8 DEF OpenReview
  <2>. HIDE DEF f
  <2>. QED  BY <1>1, <2>2, <2>3, <2>4, Turn DEF Flows
<1>9. CASE PickRole
  <2>1. PICK step \in {1, Len(Roles) - 1} :
          flow' = [flow EXCEPT !["dispatch"].what = Roles[((RolePlace(@) - 1 + step) % Len(Roles)) + 1]]
    BY <1>9 DEF PickRole
  <2>. DEFINE role == Roles[((RolePlace(flow["dispatch"].what) - 1 + step) % Len(Roles)) + 1]
              f == [flow["dispatch"] EXCEPT !.what = role]
  <2>2. role \in RoleNames
    BY <1>2, Picked
  <2>3. flow["dispatch"].phase = "picker"
    BY <1>9 DEF PickRole
  <2>4. flow' = [flow EXCEPT !["dispatch"] = f] /\ calls' = calls
    BY <1>9, <2>1 DEF PickRole
  <2>. HIDE DEF role
  <2>5. f \in ActionStates /\ f.phase = "picker" /\ f.what \in RoleNames
    BY <1>2, <2>2, <2>3 DEF ActionStates, Words
  <2>6. flow["control"].phase = "idle"
    BY <2>3 DEF IInv, Modal, Flows
  <2>. HIDE DEF f
  <2>. QED  BY <1>1, <2>3, <2>4, <2>5, <2>6, Turn DEF Flows
<1>10. CASE Choose
  <2>. DEFINE f == Begin(flow["dispatch"], flow["dispatch"].what, flow["dispatch"].bead, FALSE)
  <2>1. f \in ActionStates /\ Shows(f) /\ f.phase = "confirm" /\ f.what \in RoleNames
    <3>1. flow["dispatch"].bead \in Subjects /\ flow["dispatch"].what \in Words
          /\ flow["dispatch"].what # "hard-stop"
      BY <1>2, Picked DEF ActionStates, Words
    <3>. QED  BY <1>2, <3>1, BegunSoft
  <2>2. flow["dispatch"].phase = "picker" /\ flow["control"].phase = "idle"
    BY <1>10 DEF Choose, IInv, Modal, Flows
  <2>3. flow' = [flow EXCEPT !["dispatch"] = f] /\ calls' = calls
    BY <1>10 DEF Choose
  <2>. HIDE DEF f
  <2>. QED  BY <1>1, <2>1, <2>2, <2>3, Turn DEF Flows
<1>11. Owner \in Flows /\ \A other \in Flows \ {Owner} : flow[other].phase = "idle"
  BY DEF IInv, Modal, Owner, Busy, Flows
<1>12. ASSUME NEW key \in {"c", "enter"}, Confirm(key) PROVE IInv'
  <2>1. Submit(flow[Owner], Owner) /\ flow[Owner].phase = "confirm"
    BY <1>12 DEF Confirm, Submit
  <2>2. flow[Owner] \in ActionStates /\ (Owner = "dispatch" => flow[Owner].what \in RoleNames) /\ Shows(flow[Owner])
    BY <1>2, <1>11, <2>1 DEF IInv, Shown, Flows
  <2>. QED  BY <1>1, <1>11, <2>1, <2>2, Sends
<1>13. CASE Dismiss
  <2>. DEFINE f == Dismissed(flow[Owner])
  <2>1. f \in ActionStates /\ f.phase = "idle" /\ f.what = flow[Owner].what
    <3>1. flow[Owner] \in ActionStates
      BY <1>2, <1>11 DEF Flows
    <3>. QED  BY <3>1, Closed
  <2>2. flow' = [flow EXCEPT ![Owner] = f]
    BY <1>13 DEF Dismiss
  <2>3. calls' = calls /\ flow[Owner].phase # "pending"
    BY <1>13 DEF Dismiss
  <2>. HIDE DEF f
  <2>. QED  BY <1>1, <1>2, <1>11, <2>1, <2>2, <2>3, Turn
<1>14. ASSUME NEW call \in calls, NEW ok \in BOOLEAN, Answer(call, ok) PROVE IInv'
  <2>1. calls' = {} /\ Sent'
    BY <1>14 DEF Answer, IInv, Sent
  <2>2. CASE flow' = flow
    BY <1>1, <2>1, <2>2 DEF IInv, Typed, Shown, Shows, Modal
  <2>3. CASE flow' = [flow EXCEPT ![Owner] = Resolve(@, call.token, ok)]
    <3>. DEFINE f == Resolve(flow[Owner], call.token, ok)
    <3>1. f \in ActionStates /\ f.what = flow[Owner].what
          /\ (f = flow[Owner] \/ f.phase \in {"success", "failure"})
      BY <1>2, <1>11 DEF Resolve, ActionStates, Phases, Flows
    <3>2. flow' = [flow EXCEPT ![Owner] = f]
      BY <2>3
    <3>. HIDE DEF f
    <3>3. flow' \in [Flows -> ActionStates] /\ flow'[Owner] = f
          /\ \A other \in Flows \ {Owner} : flow'[other] = flow[other]
      BY <1>11, <3>1, <3>2 DEF IInv, Typed
    <3>4. Typed'  BY <1>2, <1>11, <3>1, <3>3 DEF Typed, Flows
    <3>5. Shown'  BY <1>11, <3>1, <3>3 DEF IInv, Shown, Shows
    <3>6. Modal'  BY <1>11, <3>1, <3>3 DEF IInv, Modal, Flows
    <3>. QED  BY <1>1, <2>1, <3>4, <3>5, <3>6 DEF IInv
  <2>. QED  BY <1>14, <2>2, <2>3 DEF Answer
<1>. QED
  BY <1>3, <1>4, <1>5, <1>6, <1>7, <1>8, <1>9, <1>10, <1>12, <1>13, <1>14 DEF Next

\* A request on its way is the one its operator confirmed: the bead and the
\* role of the prompt, a hard stop behind its own key, one at a time.
THEOREM ConfirmedIsSent == Spec => []SendsWhatItShows
<1>1. IInv => SendsWhatItShows
  BY DEF IInv, Sent, Shown, Shows, SendsWhatItShows
<1>. QED  BY <1>1, InitHolds, NextHolds, PTL DEF Spec

-----------------------------------------------------------------------------
\* The selection of the list.

\* A key that is listed is kept, at the row where it stands.
LEMMA KeyKept ==
  ASSUME NEW keys, NEW previous, previous.key \in ToSet(keys)
  PROVE  /\ KeepSelection(keys, previous).key = previous.key
         /\ keys[KeepSelection(keys, previous).index] = previous.key
<1>1. \E i \in DOMAIN keys : keys[i] = previous.key
  BY DEF ToSet
<1>. DEFINE i == CHOOSE i \in DOMAIN keys : keys[i] = previous.key
<1>2. keys[i] = previous.key
  BY <1>1
<1>3. KeepSelection(keys, previous) = [key |-> previous.key, index |-> i]
  BY DEF KeepSelection
<1>. HIDE DEF i
<1>. QED  BY <1>2, <1>3

\* A step leaves the rows alone, or chooses the selection anew from them.
LEMMA RowsChange ==
  ASSUME [Next]_vars
  PROVE  \/ UNCHANGED <<snapshot, filter>>
         \/ selection' = KeepSelection(Rows(snapshot', filter'), selection)
<1>1. CASE Snapshot
  BY <1>1 DEF Snapshot
<1>2. CASE Type \/ Switch \/ \E clear \in BOOLEAN : Unfocus(clear)
  BY <1>2 DEF Type, Switch, Unfocus, SetQuery
<1>3. CASE UNCHANGED view \/ UNCHANGED vars
  BY <1>3 DEF view, vars
<1>4. CASE Focus \/ OpenDetail \/ CloseDetail \/ Move
  BY <1>4 DEF Focus, OpenDetail, CloseDetail, Move
<1>5. CASE \/ OpenSelected \/ HardStop \/ OpenReview \/ PickRole \/ Choose \/ Dismiss
           \/ \E kind \in {"start", "drain"} : Immediate(kind)
           \/ \E key \in {"c", "enter"} : Confirm(key)
           \/ \E call \in calls, ok \in BOOLEAN : Answer(call, ok)
  BY <1>3, <1>5 DEF OpenSelected, HardStop, OpenReview, PickRole, Choose, Dismiss, Immediate,
                    Confirm, Answer
<1>. QED  BY <1>1, <1>2, <1>3, <1>4, <1>5 DEF Next

\* While its bead is listed the selection follows it, through snapshots, typed
\* filters and changes of the screen.
THEOREM SelectionStays == Spec => SelectionFollows
<1>1. ASSUME [Next]_vars,
             Rows(snapshot, filter) # Rows(snapshot', filter'),
             selection.key \in ToSet(Rows(snapshot', filter'))
      PROVE  /\ selection'.key = selection.key
             /\ Rows(snapshot', filter')[selection'.index] = selection.key
  <2>1. selection' = KeepSelection(Rows(snapshot', filter'), selection)
    BY <1>1, RowsChange
  <2>. QED  BY <1>1, <2>1, KeyKept
<1>. QED  BY <1>1, PTL DEF Spec, SelectionFollows
=============================================================================
