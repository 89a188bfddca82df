--------------------------- MODULE SessionsProofs ---------------------------
(***************************************************************************)
(* Theorems about Sessions, for every number of callers, handles, beads    *)
(* and seats:                                                              *)
(*                                                                         *)
(*   TypeCorrect         every variable keeps its type;                    *)
(*   SeatsChosenApart    no seat is chosen for two live sessions;          *)
(*   CapRespected        no role has more admitted sessions than its cap;  *)
(*   NoClaimDropped      a claimed bead has somebody who will close or     *)
(*                       release it, or who tried to;                      *)
(*   LiveReviewsTracked  the gate knows of every live review;              *)
(*   RetriesAreBounded   a bead is not retried over and over;              *)
(*   RunsHeardOnce       of a run it hears what Notification says.         *)
(***************************************************************************)
EXTENDS Sessions, FiniteSetTheorems, TLAPS

-----------------------------------------------------------------------------
(* Types.                                                                  *)

(* What TypeOK leaves out and its preservation needs: a goroutine past its *)
(* request names a bead, one that launched a run holds its handle, and     *)
(* every handle in use was launched for a bead.                            *)
Named ==
  /\ \A t \in Thread : pc[t] \in Section \cup {"waiting"} => want[t].task \in Task
  /\ \A t \in Thread : pc[t] \in {"add", "note", "readd"} =>
       want[t].handle \in Handle /\ run[want[t].handle] # "unused"
  /\ \A h \in Handle : run[h] # "unused" => info[h].task \in Task
  /\ \A h \in Handle : pc[h] # "idle" \/ h \in live \/ handoff[h] # "no"
                         => run[h] # "unused"

Typed == TypeOK /\ Named

(* FreeSeat only names configured seats.                                   *)
LEMMA FreeSeatIsSeat ==
  ASSUME NEW role \in Role, NEW seat \in FreeSeat(role)
  PROVE  seat \in Seat
  BY SeatAssumption DEF FreeSeat

LEMMA HandlesAreThreads == Handle \subseteq Thread /\ Caller \subseteq Thread
  BY DEF Thread

LEMMA InitTyped == Init => Typed
<1> SUFFICES ASSUME Init PROVE Typed
  OBVIOUS
<1>1. TypeOK
  BY DEF Init, TypeOK, NoRequest, NoSession, Role, Stage
<1>2. Named
  BY HandlesAreThreads DEF Init, Named, Section
<1> QED
  BY <1>1, <1>2 DEF Typed

LEMMA ReleaseTyped ==
  ASSUME Typed, NEW t \in Task, Release(t)
  PROVE  /\ bead' \in [Task -> {"open", "in_progress", "closed"}]
         /\ stranded' \in SUBSET Task
  BY DEF Release, Strand, Typed, TypeOK

LEMMA RequestTyped ==
  ASSUME Typed, NEW c \in Caller, NEW role \in Role, NEW t \in Task, Request(c, role, t)
  PROVE  Typed'
  BY HandlesAreThreads, FreeSeatIsSeat, HandleAssumption
  DEF Request, Goto, Typed, TypeOK, Named, Section, Stage

(* What a returning goroutine leaves of its request.                       *)
LEMMA ReturnTyped ==
  ASSUME Typed, NEW t \in Thread, Return(t)
  PROVE  /\ pc' \in [Thread -> Stage]
         /\ want' \in [Thread -> [role : Role, task : Task \cup {NoTask},
                                  seat : Seat \cup {NoSeat},
                                  handle : Handle \cup {NoHandle}, named : BOOLEAN]]
         /\ pc'[t] \in {"idle", "finish"}
         /\ t \in Handle => pc'[t] = "finish"
         /\ t \notin Handle => pc'[t] = "idle"
         /\ \A u \in Thread \ {t} : pc'[u] = pc[u] /\ want'[u] = want[u]
<1>1. NoRequest \in [role : Role, task : Task \cup {NoTask}, seat : Seat \cup {NoSeat},
                     handle : Handle \cup {NoHandle}, named : BOOLEAN]
  BY DEF NoRequest, Role
<1> QED
  BY <1>1 DEF Return, Goto, Typed, TypeOK, Stage

(* The variables a step may change besides pc, want and the runs.          *)
SideTyped ==
  /\ spawnMu \in Thread \cup {Free}
  /\ bead \in [Task -> {"open", "in_progress", "closed"}]
  /\ tracked \in SUBSET Handle
  /\ installed \in BOOLEAN
  /\ stranded \in SUBSET Task

(* A step that ends a dispatch call keeps the types.                       *)
LEMMA ReturnStep ==
  ASSUME Typed, NEW t \in Thread, Return(t), pc[t] # "idle",
         UNCHANGED <<info, run, handoff>>, SideTyped',
         \A h \in live' : h \in Handle /\ run[h] # "unused"
  PROVE  Typed'
<1> USE DEF Typed
<1>1. TypeOK'
  BY ReturnTyped DEF TypeOK, SideTyped
<1>2. ASSUME NEW u \in Thread, pc'[u] \in Section \cup {"waiting"}
      PROVE  want'[u].task \in Task
  BY <1>2, ReturnTyped DEF Named, Section
<1>3. ASSUME NEW u \in Thread, pc'[u] \in {"add", "note", "readd"}
      PROVE  want'[u].handle \in Handle /\ run'[want'[u].handle] # "unused"
  BY <1>3, ReturnTyped DEF Named
<1>4. \A h \in Handle : run'[h] # "unused" => info'[h].task \in Task
  BY DEF Named
<1>5. ASSUME NEW h \in Handle, pc'[h] # "idle" \/ h \in live' \/ handoff'[h] # "no"
      PROVE  run'[h] # "unused"
  <2>1. CASE h = t
    BY <2>1 DEF Named
  <2>2. CASE h # t
    BY <1>5, <2>2, ReturnTyped, HandlesAreThreads DEF Named
  <2> QED
    BY <2>1, <2>2
<1> QED
  BY <1>1, <1>2, <1>3, <1>4, <1>5 DEF Named

(* So does one that only moves a goroutine on, within its completion.      *)
LEMMA GotoStep ==
  ASSUME Typed, NEW t \in Thread, pc[t] # "idle",
         NEW stage \in Stage \ (Section \cup {"waiting", "note", "readd"}),
         Goto(t, stage), UNCHANGED <<live, info, run, want, handoff>>, SideTyped'
  PROVE  Typed'
<1> USE DEF Typed
<1>1. TypeOK'
  BY DEF Goto, TypeOK, SideTyped
<1>2. Named'
  BY HandlesAreThreads DEF Goto, Named, TypeOK, Section
<1> QED
  BY <1>1, <1>2

LEMMA AdmitTyped ==
  ASSUME Typed, NEW t \in Thread, Admit(t)
  PROVE  Typed'
<1> USE HandlesAreThreads DEF Typed
<1>1. CASE Refuse(t)
  BY <1>1, ReturnStep DEF Admit, Refuse, TypeOK, Named, SideTyped
<1>2. CASE ~Refuse(t)
  BY <1>2 DEF Admit, Goto, TypeOK, Named, Section, Stage
<1> QED
  BY <1>1, <1>2

LEMMA PickSeatTyped ==
  ASSUME Typed, NEW t \in Thread, PickSeat(t)
  PROVE  Typed'
<1> USE HandlesAreThreads DEF Typed
<1>1. CASE Refuse(t)
  BY <1>1, ReturnStep DEF PickSeat, Refuse, TypeOK, Named, SideTyped
<1>2. CASE UNCHANGED <<want, spawnMu>> /\ Goto(t, "claim")
  BY <1>2 DEF PickSeat, Goto, TypeOK, Named, Section, Stage
<1>3. ASSUME NEW seat \in FreeSeat(want[t].role),
             want' = [want EXCEPT ![t].seat = seat],
             UNCHANGED spawnMu /\ Goto(t, "claim")
      PROVE  Typed'
  <2>1. seat \in Seat
    BY <1>3, FreeSeatIsSeat DEF TypeOK
  <2>2. TypeOK'
    <3>1. want' \in [Thread -> [role : Role, task : Task \cup {NoTask},
                                seat : Seat \cup {NoSeat},
                                handle : Handle \cup {NoHandle}, named : BOOLEAN]]
      <4>1. want[t] \in [role : Role, task : Task \cup {NoTask}, seat : Seat \cup {NoSeat},
                         handle : Handle \cup {NoHandle}, named : BOOLEAN]
        BY DEF TypeOK
      <4>2. [want[t] EXCEPT !.seat = seat]
               \in [role : Role, task : Task \cup {NoTask}, seat : Seat \cup {NoSeat},
                   handle : Handle \cup {NoHandle}, named : BOOLEAN]
        BY <2>1, <4>1
      <4> QED
        BY <1>3, <4>2 DEF TypeOK
    <3> QED
      BY <1>3, <3>1 DEF PickSeat, Goto, TypeOK, Section, Stage
  <2>3. Named'
    BY <1>3 DEF PickSeat, Goto, TypeOK, Named, Section
  <2> QED
    BY <2>2, <2>3
<1> QED
  BY <1>1, <1>2, <1>3 DEF PickSeat

LEMMA ClaimTyped ==
  ASSUME Typed, NEW t \in Thread, Claim(t)
  PROVE  Typed'
<1> USE HandlesAreThreads DEF Typed
<1>1. CASE Refuse(t) /\ UNCHANGED <<bead, stranded>>
  BY <1>1, ReturnStep DEF Claim, Refuse, TypeOK, Named, SideTyped
<1>2. CASE ~(Refuse(t) /\ UNCHANGED <<bead, stranded>>)
  <2>1. want[t].task \in Task
    BY DEF Claim, Named, Section
  <2>2. TypeOK'
    BY <1>2, <2>1 DEF Claim, Goto, TypeOK, Section, Stage
  <2>3. Named'
    BY <1>2 DEF Claim, Goto, TypeOK, Named, Section
  <2> QED
    BY <2>2, <2>3
<1> QED
  BY <1>1, <1>2

(* A new run keeps what is known of the older ones.                        *)
LEMMA LaunchTyped ==
  ASSUME Typed, NEW h \in Handle, NEW session, Launch(h, session),
         session \in [task : Task \cup {NoTask}, role : Role, seat : Seat \cup {NoSeat},
                      how : {"free", "named", "retry"}],
         session.task \in Task
  PROVE  /\ info' \in [Handle -> [task : Task \cup {NoTask}, role : Role,
                          seat : Seat \cup {NoSeat},
                          how : {"free", "named", "retry"}]]
         /\ run' \in [Handle -> {"unused", "running", "completed", "failed"}]
         /\ \A g \in Handle : run[g] # "unused" => run'[g] = run[g] /\ info'[g] = info[g]
         /\ \A g \in Handle : run'[g] # "unused" => info'[g].task \in Task
         /\ run'[h] # "unused"
         /\ info'[h] = session
  BY DEF Launch, Typed, TypeOK, Named

LEMMA RunTyped ==
  ASSUME Typed, NEW t \in Thread, Run(t)
  PROVE  Typed'
<1> USE HandlesAreThreads DEF Typed
<1>1. pc[t] = "run" /\ want[t].task \in Task
  BY DEF Run, Named, Section
<1>2. CASE /\ Refuse(t) /\ UNCHANGED <<info, run>>
           /\ Release(want[t].task) \/ UNCHANGED <<bead, stranded>>
  <2>1. SideTyped'
    BY <1>1, <1>2, ReleaseTyped DEF Run, Refuse, TypeOK, SideTyped
  <2>2. \A h \in live' : h \in Handle /\ run[h] # "unused"
    BY DEF Run, TypeOK, Named
  <2> QED
    BY <1>1, <1>2, <2>1, <2>2, ReturnStep DEF Run, Refuse
<1>3. CASE ~(/\ Refuse(t) /\ UNCHANGED <<info, run>>
             /\ Release(want[t].task) \/ UNCHANGED <<bead, stranded>>)
  <2> DEFINE session == [task |-> want[t].task, role |-> want[t].role,
                         seat |-> want[t].seat,
                         how |-> IF want[t].named THEN "named" ELSE "free"]
  <2>1. PICK h \in Handle : /\ Launch(h, session)
                            /\ want' = [want EXCEPT ![t].handle = h]
                            /\ Goto(t, "add")
                            /\ UNCHANGED <<live, spawnMu, bead, tracked, installed,
                                           handoff, stranded>>
    BY <1>3 DEF Run
  <2>2. /\ session \in [task : Task \cup {NoTask}, role : Role, seat : Seat \cup {NoSeat},
                        how : {"free", "named", "retry"}]
        /\ session.task \in Task
    BY <1>1 DEF TypeOK
  <2> HIDE DEF session
  <2>3. TypeOK'
    <3>1. want' \in [Thread -> [role : Role, task : Task \cup {NoTask},
                                seat : Seat \cup {NoSeat},
                                handle : Handle \cup {NoHandle}, named : BOOLEAN]]
      <4>1. want[t] \in [role : Role, task : Task \cup {NoTask}, seat : Seat \cup {NoSeat},
                         handle : Handle \cup {NoHandle}, named : BOOLEAN]
        BY DEF TypeOK
      <4>2. [want[t] EXCEPT !.handle = h]
               \in [role : Role, task : Task \cup {NoTask}, seat : Seat \cup {NoSeat},
                   handle : Handle \cup {NoHandle}, named : BOOLEAN]
        BY <4>1
      <4> QED
        BY <2>1, <4>2 DEF TypeOK
    <3> QED
      BY <2>1, <2>2, <3>1, LaunchTyped DEF Goto, TypeOK, Section, Stage
  <2>4. Named'
    <3>1. ASSUME NEW u \in Thread, pc'[u] \in Section \cup {"waiting"}
          PROVE  want'[u].task \in Task
      BY <1>1, <2>1, <3>1 DEF Goto, TypeOK, Named, Section
    <3>2. ASSUME NEW u \in Thread, pc'[u] \in {"add", "note", "readd"}
          PROVE  want'[u].handle \in Handle /\ run'[want'[u].handle] # "unused"
      BY <2>1, <2>2, <3>2, LaunchTyped DEF Goto, TypeOK, Named
    <3>3. ASSUME NEW g \in Handle, pc'[g] # "idle" \/ g \in live' \/ handoff'[g] # "no"
          PROVE  run'[g] # "unused"
      BY <1>1, <2>1, <2>2, <3>3, LaunchTyped DEF Goto, TypeOK, Named
    <3> QED
      BY <2>1, <2>2, <3>1, <3>2, <3>3, LaunchTyped DEF Named
  <2> QED
    BY <2>3, <2>4
<1> QED
  BY <1>2, <1>3

LEMMA AddTyped ==
  ASSUME Typed, NEW t \in Thread, Add(t)
  PROVE  Typed'
<1> USE HandlesAreThreads DEF Typed
<1>1. \A h \in live' : h \in Handle /\ run[h] # "unused"
  BY DEF Add, TypeOK, Named
<1>2. CASE Return(t)
  BY <1>1, <1>2, ReturnStep DEF Add, TypeOK, SideTyped
<1>3. CASE UNCHANGED want /\ Goto(t, "note")
  <2>1. TypeOK'
    BY <1>1, <1>3 DEF Add, Goto, TypeOK, Section, Stage
  <2>2. Named'
    BY <1>1, <1>3 DEF Add, Goto, TypeOK, Named, Section
  <2> QED
    BY <2>1, <2>2
<1> QED
  BY <1>2, <1>3 DEF Add

LEMMA NoteSessionTyped ==
  ASSUME Typed, NEW t \in Thread, NoteSession(t)
  PROVE  Typed'
  BY ReturnStep DEF NoteSession, Typed, TypeOK, Named, SideTyped

LEMMA LandTyped ==
  ASSUME Typed, NEW h \in Handle, Land(h)
  PROVE  Typed'
<1> USE HandlesAreThreads DEF Typed
<1>1. pc[h] = "land" /\ info[h].task \in Task
  BY DEF Land, Named
<1>2. SideTyped'
  BY <1>1, ReleaseTyped DEF Land, Strand, TypeOK, SideTyped
<1>3. CASE Goto(h, "finish") /\ UNCHANGED want
  BY <1>1, <1>2, <1>3, GotoStep DEF Land, Stage, Section
<1>4. CASE Goto(h, "due") /\ UNCHANGED want
  BY <1>1, <1>2, <1>4, GotoStep DEF Land, Stage, Section
<1>5. CASE /\ Goto(h, "waiting")
           /\ want' = [want EXCEPT ![h] = [role |-> "repairer", task |-> info[h].task,
                         seat |-> info[h].seat, handle |-> NoHandle,
                         named |-> TRUE]]
  <2>1. TypeOK'
    BY <1>1, <1>2, <1>5 DEF Land, Goto, TypeOK, SideTyped, Stage, Role
  <2>2. Named'
    BY <1>1, <1>5 DEF Land, Goto, TypeOK, Named, Section
  <2> QED
    BY <2>1, <2>2
<1> QED
  BY <1>3, <1>4, <1>5 DEF Land

LEMMA DueEpicTyped ==
  ASSUME Typed, NEW h \in Handle, DueEpic(h)
  PROVE  Typed'
<1> USE HandlesAreThreads DEF Typed
<1>1. pc[h] = "due" /\ info[h].task \in Task
  BY DEF DueEpic, Named
<1>2. CASE Goto(h, "finish") /\ UNCHANGED want
  BY <1>1, <1>2, GotoStep DEF DueEpic, Stage, Section, TypeOK, SideTyped
<1>3. CASE /\ Parent[info[h].task] # NoTask
           /\ want' = [want EXCEPT ![h] = [role |-> "reviewer",
                      task |-> Parent[info[h].task], seat |-> NoSeat,
                      handle |-> NoHandle, named |-> FALSE]]
           /\ Goto(h, "waiting")
  <2>1. Parent[info[h].task] \in Task
    BY <1>1, <1>3, TaskAssumption
  <2>2. TypeOK'
    BY <1>3, <2>1 DEF DueEpic, Goto, TypeOK, Stage, Role
  <2>3. Named'
    BY <1>1, <1>3, <2>1 DEF DueEpic, Goto, TypeOK, Named, Section
  <2> QED
    BY <2>2, <2>3
<1> QED
  BY <1>2, <1>3 DEF DueEpic

LEMMA GiveUpTyped ==
  ASSUME Typed, NEW h \in Handle, pc[h] # "idle", GiveUp(h),
         UNCHANGED <<live, info, run, want, spawnMu, installed, handoff>>
  PROVE  Typed'
<1> USE HandlesAreThreads DEF Typed
<1>1. SideTyped'
  BY ReleaseTyped DEF GiveUp, TypeOK, Named, SideTyped
<1> QED
  BY <1>1, GotoStep DEF GiveUp, Stage, Section

LEMMA FailTyped ==
  ASSUME Typed, NEW h \in Handle, Fail(h)
  PROVE  Typed'
<1> USE HandlesAreThreads DEF Typed
<1>1. CASE GiveUp(h)
  BY <1>1, GiveUpTyped DEF Fail
<1>2. CASE ~GiveUp(h)
  BY <1>2, GotoStep DEF Fail, Stage, Section, TypeOK, SideTyped
<1> QED
  BY <1>1, <1>2

LEMMA RetryTyped ==
  ASSUME Typed, NEW h \in Handle, Retry(h)
  PROVE  Typed'
<1> USE HandlesAreThreads DEF Typed
<1>1. pc[h] = "retry" /\ info[h].task \in Task
  BY DEF Retry, Named
<1>2. CASE GiveUp(h) /\ UNCHANGED <<info, run, want>>
  BY <1>1, <1>2, GiveUpTyped DEF Retry
<1>3. CASE ~(GiveUp(h) /\ UNCHANGED <<info, run, want>>)
  <2> DEFINE session == [task |-> info[h].task, role |-> info[h].role,
                         seat |-> info[h].seat, how |-> "retry"]
  <2>1. PICK g \in Handle :
          /\ Launch(g, session)
          /\ want' = [want EXCEPT ![h] =
               [role |-> info[h].role, task |-> info[h].task,
                seat |-> info[h].seat, handle |-> g, named |-> TRUE]]
          /\ Goto(h, "readd")
          /\ UNCHANGED <<live, spawnMu, bead, tracked, installed, handoff, stranded>>
    BY <1>3 DEF Retry
  <2>2. /\ session \in [task : Task \cup {NoTask}, role : Role, seat : Seat \cup {NoSeat},
                        how : {"free", "named", "retry"}]
        /\ session.task \in Task
    BY <1>1 DEF TypeOK
  <2> HIDE DEF session
  <2>3. TypeOK'
    BY <1>1, <2>1, <2>2, LaunchTyped DEF Goto, TypeOK, Stage
  <2>4. Named'
    <3>1. ASSUME NEW u \in Thread, pc'[u] \in Section \cup {"waiting"}
          PROVE  want'[u].task \in Task
      BY <1>1, <2>1, <3>1 DEF Goto, TypeOK, Named, Section
    <3>2. ASSUME NEW u \in Thread, pc'[u] \in {"add", "note", "readd"}
          PROVE  want'[u].handle \in Handle /\ run'[want'[u].handle] # "unused"
      BY <2>1, <2>2, <3>2, LaunchTyped DEF Goto, TypeOK, Named
    <3>3. ASSUME NEW k \in Handle, pc'[k] # "idle" \/ k \in live' \/ handoff'[k] # "no"
          PROVE  run'[k] # "unused"
      BY <1>1, <2>1, <2>2, <3>3, LaunchTyped DEF Goto, TypeOK, Named
    <3> QED
      BY <2>1, <2>2, <3>1, <3>2, <3>3, LaunchTyped DEF Named
  <2> QED
    BY <2>3, <2>4
<1> QED
  BY <1>2, <1>3

LEMMA AddRetryTyped ==
  ASSUME Typed, NEW h \in Handle, AddRetry(h)
  PROVE  Typed'
<1> USE HandlesAreThreads DEF Typed
<1>1. \A g \in live' : g \in Handle /\ run[g] # "unused"
  BY DEF AddRetry, TypeOK, Named
<1>2. CASE Return(h)
  BY <1>1, <1>2, ReturnStep DEF AddRetry, TypeOK, SideTyped
<1>3. CASE UNCHANGED want /\ Goto(h, "note")
  <2>1. TypeOK'
    BY <1>1, <1>3 DEF AddRetry, Goto, TypeOK, Stage
  <2>2. Named'
    BY <1>1, <1>3 DEF AddRetry, Goto, TypeOK, Named, Section
  <2> QED
    BY <2>1, <2>2
<1> QED
  BY <1>2, <1>3 DEF AddRetry

LEMMA HandoffReleaseTyped ==
  ASSUME Typed, NEW h \in Handle, HandoffRelease(h)
  PROVE  Typed'
<1> USE DEF Typed
<1>1. info[h].task \in Task
  BY DEF HandoffRelease, Named
<1>2. SideTyped'
  BY <1>1, ReleaseTyped DEF HandoffRelease, TypeOK, SideTyped
<1> QED
  BY <1>2 DEF HandoffRelease, TypeOK, Named, SideTyped

(* A handle whose run is launched moves between the stages after a call.   *)
LEMMA StageTyped ==
  ASSUME Typed, NEW h \in Handle, run[h] # "unused",
         NEW stage \in Stage \ (Section \cup {"waiting", "note", "readd"}), Goto(h, stage),
         live' \subseteq live, tracked' \subseteq tracked, stranded' \subseteq stranded,
         bead' \in [Task -> {"open", "in_progress", "closed"}],
         UNCHANGED <<info, run, want, spawnMu, installed, handoff>>
  PROVE  Typed'
<1>1. h \in Thread /\ pc' \in [Thread -> Stage] /\ pc'[h] = stage
      /\ \A t \in Thread \ {h} : pc'[t] = pc[t]
  BY HandlesAreThreads DEF Goto, Typed, TypeOK
<1>2. TypeOK'
  BY <1>1 DEF Typed, TypeOK
<1>3. Named'
  <2>1. ASSUME NEW t \in Thread, pc'[t] \in Section \cup {"waiting"} PROVE want'[t].task \in Task
    BY <1>1, <2>1 DEF Typed, Named
  <2>2. ASSUME NEW t \in Thread, pc'[t] \in {"add", "note", "readd"}
        PROVE  want'[t].handle \in Handle /\ run'[want'[t].handle] # "unused"
    BY <1>1, <2>2 DEF Typed, Named, Section
  <2>3. ASSUME NEW g \in Handle, pc'[g] # "idle" \/ g \in live' \/ handoff'[g] # "no"
        PROVE  run'[g] # "unused"
    BY <1>1, <2>3, HandlesAreThreads DEF Typed, Named
  <2> QED
    BY <2>1, <2>2, <2>3 DEF Typed, Named
<1> QED
  BY <1>2, <1>3 DEF Typed

LEMMA ExitTyped ==
  ASSUME Typed, NEW h \in Handle, Exit(h)
  PROVE  Typed'
  BY HandlesAreThreads DEF Exit, Goto, Typed, TypeOK, Named, Section, Stage

LEMMA OnCompleteTyped ==
  ASSUME Typed, NEW h \in Handle, OnComplete(h)
  PROVE  Typed'
<1>1. PICK stage \in {"done", "fail", "verdict", "land"} : Goto(h, stage)
  BY DEF OnComplete
<1>2. run[h] # "unused" /\ live' \subseteq live
      /\ UNCHANGED <<info, run, want, spawnMu, bead, tracked, installed, handoff, stranded>>
  BY DEF OnComplete
<1>3. bead' \in [Task -> {"open", "in_progress", "closed"}]
  BY <1>2 DEF Typed, TypeOK
<1> QED
  BY <1>1, <1>2, <1>3, StageTyped DEF Stage, Section

LEMMA CompleteReviewTyped ==
  ASSUME Typed, NEW h \in Handle, CompleteReview(h)
  PROVE  Typed'
<1>1. PICK stage \in {"approve", "finish"} : Goto(h, stage)
  BY DEF CompleteReview
<1>2. run[h] # "unused"
  BY DEF CompleteReview, Typed, Named
<1>3. /\ tracked' \subseteq tracked
      /\ UNCHANGED <<live, info, run, want, spawnMu, bead, installed, handoff, stranded>>
  BY DEF CompleteReview
<1>4. bead' \in [Task -> {"open", "in_progress", "closed"}]
  BY <1>3 DEF Typed, TypeOK
<1> QED
  BY <1>1, <1>2, <1>3, <1>4, StageTyped DEF Stage, Section

LEMMA ApproveTyped ==
  ASSUME Typed, NEW h \in Handle, Approve(h)
  PROVE  Typed'
<1>1. PICK stage \in {"clear", "finish"} : Goto(h, stage)
  BY DEF Approve
<1>2. run[h] # "unused"
  BY DEF Approve, Typed, Named
<1>3. /\ tracked' \subseteq tracked /\ stranded' \subseteq stranded
      /\ UNCHANGED <<live, info, run, want, spawnMu, installed, handoff>>
  BY DEF Approve
<1>4. bead' \in [Task -> {"open", "in_progress", "closed"}]
  BY DEF Approve, Typed, TypeOK
<1> QED
  BY <1>1, <1>2, <1>3, <1>4, StageTyped DEF Stage, Section

LEMMA ClearEpicTyped ==
  ASSUME Typed, NEW h \in Handle, ClearEpic(h)
  PROVE  Typed'
<1>1. run[h] # "unused"
  BY DEF ClearEpic, Typed, Named
<1>2. /\ tracked' \subseteq tracked /\ Goto(h, "finish")
      /\ UNCHANGED <<live, info, run, want, spawnMu, bead, installed, handoff, stranded>>
  BY DEF ClearEpic
<1>3. bead' \in [Task -> {"open", "in_progress", "closed"}]
  BY <1>2 DEF Typed, TypeOK
<1> QED
  BY <1>1, <1>2, <1>3, StageTyped DEF Stage, Section

LEMMA FinishTyped ==
  ASSUME Typed, NEW h \in Handle, Finish(h)
  PROVE  Typed'
<1>1. run[h] # "unused"
  BY DEF Finish, Typed, Named
<1>2. /\ Goto(h, "done")
      /\ UNCHANGED <<live, info, run, want, spawnMu, bead, tracked, installed, handoff,
                     stranded>>
  BY DEF Finish
<1>3. bead' \in [Task -> {"open", "in_progress", "closed"}]
  BY <1>2 DEF Typed, TypeOK
<1> QED
  BY <1>1, <1>2, <1>3, StageTyped DEF Stage, Section

LEMMA HandoffKillTyped ==
  ASSUME Typed, NEW h \in Handle, HandoffKill(h)
  PROVE  Typed'
  BY HandlesAreThreads DEF HandoffKill, Goto, Typed, TypeOK, Named, Section, Stage

LEMMA HandoffRemoveTyped ==
  ASSUME Typed, NEW h \in Handle, HandoffRemove(h)
  PROVE  Typed'
  BY HandlesAreThreads DEF HandoffRemove, Goto, Typed, TypeOK, Named, Section, Stage

LEMMA InstallTyped ==
  ASSUME Typed, Install
  PROVE  Typed'
  BY HandlesAreThreads DEF Install, Goto, Typed, TypeOK, Named, Section, Stage

LEMMA HandoffSnapshotTyped ==
  ASSUME Typed, HandoffSnapshot
  PROVE  Typed'
  BY HandlesAreThreads DEF HandoffSnapshot, Goto, Typed, TypeOK, Named, Section, Stage

LEMMA NextTyped ==
  ASSUME Typed, [Next]_vars
  PROVE  Typed'
<1>1. CASE UNCHANGED vars
  BY <1>1 DEF vars, Typed, TypeOK, Named
<1>2. ASSUME NEW t \in Thread, Admission(t)
      PROVE  Typed'
  BY <1>2, AdmitTyped, PickSeatTyped, ClaimTyped, RunTyped, AddTyped, NoteSessionTyped
  DEF Admission
<1>3. ASSUME NEW h \in Handle, Completion(h)
      PROVE  Typed'
  BY <1>3, OnCompleteTyped, LandTyped, DueEpicTyped, CompleteReviewTyped, ApproveTyped,
     ClearEpicTyped, FailTyped, RetryTyped, AddRetryTyped, FinishTyped
  DEF Completion
<1>4. ASSUME NEW h \in Handle, HandoffStep(h)
      PROVE  Typed'
  BY <1>4, HandoffKillTyped, HandoffReleaseTyped, HandoffRemoveTyped DEF HandoffStep
<1> QED
  BY <1>1, <1>2, <1>3, <1>4, RequestTyped, ExitTyped, InstallTyped, HandoffSnapshotTyped
  DEF Next

(* Every behaviour keeps the declared types of the registry, the runs, the *)
(* goroutines and the beads.                                               *)
THEOREM TypeCorrect == Spec => []TypeOK
<1>1. Init => Typed
  BY InitTyped
<1>2. Typed /\ [Next]_vars => Typed'
  BY NextTyped
<1>3. Typed => TypeOK
  BY DEF Typed
<1> QED
  BY <1>1, <1>2, <1>3, PTL DEF Spec

-----------------------------------------------------------------------------
(* Why admission under spawnMu is safe: the lock makes check, choice and   *)
(* registration one step as far as other admissions are concerned, and     *)
(* what happens outside the lock only ever adds retries.                   *)

(* The sessions of registry L, described by I, that admission counts: all  *)
(* but the fallback retries.                                               *)
Counted(L, I, role) == {h \in L : I[h].role = role /\ I[h].how # "retry"}

(* Only the holder of spawnMu is in the admission section.                 *)
Locked == \A t \in Thread : pc[t] \in Section => spawnMu = t

(* A run waiting to be registered is described as its request was.         *)
Matched ==
  \A t \in Thread :
    /\ pc[t] = "add" =>
         /\ info[want[t].handle].role = want[t].role
         /\ info[want[t].handle].seat = want[t].seat
         /\ info[want[t].handle].how = IF want[t].named THEN "named" ELSE "free"
    /\ pc[t] = "readd" => info[want[t].handle].how = "retry"

(* The seat chosen in the section stays free of other chosen sessions.     *)
Reserved ==
  \A t \in Thread : pc[t] \in {"claim", "run", "add"} /\ ~want[t].named =>
    \A h \in live : info[h].how = "free" => info[h].seat # want[t].seat

(* The room found in the section is still there.                           *)
Room ==
  \A t \in Thread : pc[t] \in Section =>
    Cardinality(Counted(live, info, want[t].role)) < RoleCap(want[t].role)

Safe ==
  /\ Locked /\ Matched /\ Reserved /\ Room
  /\ ChosenSeatsDistinct
  /\ AdmittedWithinCap

LEMMA CountedFinite ==
  ASSUME live \subseteq Handle, NEW role
  PROVE  IsFiniteSet(Counted(live, info, role)) /\ Cardinality(Counted(live, info, role)) \in Nat
  BY HandleAssumption, FS_Subset, FS_CardinalityType DEF Counted

LEMMA RoleCapNat ==
  ASSUME NEW role \in Role
  PROVE  RoleCap(role) \in Nat
  BY SeatAssumption DEF RoleCap

LEMMA InitSafe == Init => Safe
<1> SUFFICES ASSUME Init PROVE Safe
  OBVIOUS
<1>1. Locked /\ Matched /\ Reserved /\ Room
  BY DEF Init, Locked, Matched, Reserved, Room, Section
<1>2. ChosenSeatsDistinct
  BY DEF Init, ChosenSeatsDistinct
<1>3. ASSUME NEW role \in Role
      PROVE  Cardinality(Counted(live, info, role)) <= RoleCap(role)
  <2>1. Counted(live, info, role) = {}
    BY DEF Init, Counted
  <2> QED
    BY <2>1, FS_EmptySet, RoleCapNat
<1> QED
  BY <1>1, <1>2, <1>3 DEF Safe, AdmittedWithinCap, Counted

(* A step that registers nobody and rewrites no used record shrinks every  *)
(* count and keeps the registered seats apart.                             *)
LEMMA Shrinks ==
  ASSUME Typed, Safe, live' \subseteq live,
         \A h \in Handle : run[h] # "unused" => info'[h] = info[h]
  PROVE  /\ \A role : Counted(live', info', role) \subseteq Counted(live, info, role)
         /\ \A role : Cardinality(Counted(live', info', role)) <= Cardinality(Counted(live, info, role))
         /\ ChosenSeatsDistinct'
         /\ AdmittedWithinCap'
<1>1. \A h \in live' : h \in live /\ info'[h] = info[h]
  BY DEF Typed, TypeOK, Named
<1>2. \A role : Counted(live', info', role) \subseteq Counted(live, info, role)
  BY <1>1 DEF Counted
<1>3. \A role : Cardinality(Counted(live', info', role)) <= Cardinality(Counted(live, info, role))
  BY <1>2, CountedFinite, FS_Subset DEF Typed, TypeOK
<1>4. ChosenSeatsDistinct'
  BY <1>1 DEF Safe, ChosenSeatsDistinct
<1>5. ASSUME NEW role \in Role
      PROVE  Cardinality(Counted(live', info', role)) <= RoleCap(role)
  <2>1. Cardinality(Counted(live, info, role)) <= RoleCap(role)
    BY DEF Safe, AdmittedWithinCap, Counted
  <2>2. Cardinality(Counted(live, info, role)) \in Nat /\ Cardinality(Counted(live', info', role)) \in Nat
    BY <1>2, CountedFinite, FS_Subset, FS_CardinalityType DEF Typed, TypeOK
  <2> QED
    BY <1>3, <2>1, <2>2, RoleCapNat
<1>6. AdmittedWithinCap'
  BY <1>5 DEF AdmittedWithinCap, Counted
<1> QED
  BY <1>2, <1>3, <1>4, <1>6

(* A goroutine that keeps its place keeps what is known of it.             *)
LEMMA Bystander ==
  ASSUME Typed, Safe, NEW u \in Thread, pc'[u] = pc[u], want'[u] = want[u],
         live' \subseteq live,
         \A h \in Handle : run[h] # "unused" => info'[h] = info[h]
  PROVE  /\ pc'[u] = "add" =>
              /\ info'[want'[u].handle].role = want'[u].role
              /\ info'[want'[u].handle].seat = want'[u].seat
              /\ info'[want'[u].handle].how = IF want'[u].named THEN "named" ELSE "free"
         /\ pc'[u] = "readd" => info'[want'[u].handle].how = "retry"
         /\ pc'[u] \in {"claim", "run", "add"} /\ ~want'[u].named =>
              \A h \in live' : info'[h].how = "free" => info'[h].seat # want'[u].seat
         /\ pc'[u] \in Section =>
              Cardinality(Counted(live', info', want'[u].role)) < RoleCap(want'[u].role)
<1>1. \A h \in live' : h \in live /\ info'[h] = info[h]
  BY DEF Typed, TypeOK, Named
<1>2. pc[u] \in {"add", "readd"} => info'[want[u].handle] = info[want[u].handle]
  BY DEF Typed, Named
<1>3. ASSUME pc[u] \in Section
      PROVE  Cardinality(Counted(live', info', want[u].role)) < RoleCap(want[u].role)
  <2>1. Cardinality(Counted(live, info, want[u].role)) < RoleCap(want[u].role)
    BY <1>3 DEF Safe, Room
  <2>2. /\ Cardinality(Counted(live, info, want[u].role)) \in Nat
        /\ Cardinality(Counted(live', info', want[u].role)) \in Nat
    BY Shrinks, CountedFinite, FS_Subset, FS_CardinalityType DEF Typed, TypeOK
  <2>3. RoleCap(want[u].role) \in Nat
    BY RoleCapNat DEF Typed, TypeOK
  <2> QED
    BY <2>1, <2>2, <2>3, Shrinks
<1>4. /\ pc'[u] = "add" =>
           /\ info'[want'[u].handle].role = want'[u].role
           /\ info'[want'[u].handle].seat = want'[u].seat
           /\ info'[want'[u].handle].how = IF want'[u].named THEN "named" ELSE "free"
      /\ pc'[u] = "readd" => info'[want'[u].handle].how = "retry"
  BY <1>2 DEF Safe, Matched
<1>5. pc'[u] \in {"claim", "run", "add"} /\ ~want'[u].named =>
        \A h \in live' : info'[h].how = "free" => info'[h].seat # want'[u].seat
  BY <1>1 DEF Safe, Reserved
<1>6. pc'[u] \in Section =>
        Cardinality(Counted(live', info', want'[u].role)) < RoleCap(want'[u].role)
  BY <1>3
<1> QED
  BY <1>4, <1>5, <1>6

(* Steps that leave every goroutine where it is.                           *)
LEMMA QuietSafe ==
  ASSUME Typed, Safe, UNCHANGED <<pc, want, spawnMu>>, live' \subseteq live,
         \A h \in Handle : run[h] # "unused" => info'[h] = info[h]
  PROVE  Safe'
<1>1. Locked'
  BY DEF Safe, Locked
<1>2. Matched' /\ Reserved'
  BY Bystander DEF Matched, Reserved
<1>3. Room'
  BY Bystander DEF Room
<1> QED
  BY <1>1, <1>2, <1>3, Shrinks DEF Safe

(* Steps that leave one goroutine outside the section.                     *)
LEMMA OutsideSafe ==
  ASSUME Typed, Safe, NEW t \in Thread,
         \A u \in Thread \ {t} : pc'[u] = pc[u] /\ want'[u] = want[u],
         pc'[t] \notin Section \cup {"readd"},
         live' \subseteq live,
         \A h \in Handle : run[h] # "unused" => info'[h] = info[h],
         spawnMu' = spawnMu \/ pc[t] \in Section
  PROVE  Safe'
<1>1. Locked'
  BY DEF Safe, Locked
<1>2. Matched'
  <2> SUFFICES ASSUME NEW u \in Thread
               PROVE  /\ pc'[u] = "add" =>
                           /\ info'[want'[u].handle].role = want'[u].role
                           /\ info'[want'[u].handle].seat = want'[u].seat
                           /\ info'[want'[u].handle].how =
                                IF want'[u].named THEN "named" ELSE "free"
                      /\ pc'[u] = "readd" => info'[want'[u].handle].how = "retry"
    BY DEF Matched
  <2>1. CASE u = t
    BY <2>1 DEF Section
  <2>2. CASE u # t
    BY <2>2, Bystander
  <2> QED
    BY <2>1, <2>2
<1>3. Reserved'
  <2> SUFFICES ASSUME NEW u \in Thread, pc'[u] \in {"claim", "run", "add"}, ~want'[u].named
               PROVE  \A h \in live' : info'[h].how = "free" => info'[h].seat # want'[u].seat
    BY DEF Reserved
  <2>1. u # t
    BY DEF Section
  <2> QED
    BY <2>1, Bystander
<1>4. Room'
  <2> SUFFICES ASSUME NEW u \in Thread, pc'[u] \in Section
               PROVE  Cardinality(Counted(live', info', want'[u].role)) < RoleCap(want'[u].role)
    BY DEF Room
  <2>1. u # t
    OBVIOUS
  <2> QED
    BY <2>1, Bystander
<1> QED
  BY <1>1, <1>2, <1>3, <1>4, Shrinks DEF Safe

(* Steps within the section, by the goroutine that holds or takes the lock.*)
LEMMA InsideSafe ==
  ASSUME Typed, Safe, NEW t \in Thread,
         \A u \in Thread \ {t} : pc'[u] = pc[u] /\ want'[u] = want[u],
         spawnMu = Free \/ pc[t] \in Section, spawnMu' = t,
         pc'[t] \in Section, live' = live,
         \A h \in Handle : run[h] # "unused" => info'[h] = info[h],
         pc'[t] = "add" =>
           /\ info'[want'[t].handle].role = want'[t].role
           /\ info'[want'[t].handle].seat = want'[t].seat
           /\ info'[want'[t].handle].how = IF want'[t].named THEN "named" ELSE "free",
         pc'[t] \in {"claim", "run", "add"} /\ ~want'[t].named =>
           \A h \in live' : info'[h].how = "free" => info'[h].seat # want'[t].seat,
         Cardinality(Counted(live', info', want'[t].role)) < RoleCap(want'[t].role)
  PROVE  Safe'
<1>1. \A u \in Thread \ {t} : pc[u] \notin Section
  BY HandleAssumption DEF Safe, Locked
<1>2. Locked'
  BY <1>1 DEF Locked
<1>3. Matched'
  <2> SUFFICES ASSUME NEW u \in Thread \ {t}
               PROVE  /\ pc'[u] # "add"
                      /\ pc'[u] = "readd" => info'[want'[u].handle].how = "retry"
    BY DEF Matched, Section
  <2>1. pc'[u] # "add"
    BY <1>1 DEF Section
  <2>2. pc'[u] = "readd" => info'[want'[u].handle].how = "retry"
    BY Bystander
  <2> QED
    BY <2>1, <2>2
<1>4. Reserved' /\ Room'
  BY <1>1 DEF Reserved, Room, Section
<1> QED
  BY <1>2, <1>3, <1>4, Shrinks DEF Safe

LEMMA AdmitSafe ==
  ASSUME Typed, Safe, NEW t \in Thread, Admit(t)
  PROVE  Safe'
<1> USE HandlesAreThreads
<1>1. CASE Refuse(t)
  BY <1>1, ReturnTyped, OutsideSafe DEF Admit, Refuse, Section
<1>2. CASE /\ ActiveCount(want[t].role) < RoleCap(want[t].role)
           /\ spawnMu' = t
           /\ Goto(t, "pick")
           /\ UNCHANGED want
  <2>1. want[t].role \in Role
    BY DEF Typed, TypeOK
  <2>2. Cardinality(Counted(live', info', want'[t].role)) < RoleCap(want'[t].role)
    <3>1. Counted(live, info, want[t].role) \subseteq {h \in live : info[h].role = want[t].role}
      BY DEF Counted
    <3>2. IsFiniteSet({h \in live : info[h].role = want[t].role})
      BY HandleAssumption, FS_Subset DEF Typed, TypeOK
    <3>3. Cardinality(Counted(live, info, want[t].role)) <= ActiveCount(want[t].role)
      BY <3>1, <3>2, FS_Subset DEF ActiveCount
    <3>4. /\ Cardinality(Counted(live, info, want[t].role)) \in Nat
          /\ ActiveCount(want[t].role) \in Nat
          /\ RoleCap(want[t].role) \in Nat
      BY <2>1, <3>2, CountedFinite, RoleCapNat, FS_CardinalityType
      DEF Typed, TypeOK, ActiveCount
    <3> QED
      BY <1>2, <3>3, <3>4 DEF Admit
  <2>3. pc'[t] = "pick" /\ \A u \in Thread \ {t} : pc'[u] = pc[u]
    BY <1>2 DEF Goto, Typed, TypeOK
  <2> QED
    BY <1>2, <2>2, <2>3, InsideSafe DEF Admit, Section
<1> QED
  BY <1>1, <1>2 DEF Admit

LEMMA PickSeatSafe ==
  ASSUME Typed, Safe, NEW t \in Thread, PickSeat(t)
  PROVE  Safe'
<1>1. pc[t] = "pick" /\ spawnMu = t
  BY DEF PickSeat, Safe, Locked, Section
<1>2. CASE Refuse(t)
  BY <1>1, <1>2, ReturnTyped, OutsideSafe DEF PickSeat, Refuse, Section
<1>3. CASE ~Refuse(t)
  <2>1. /\ pc'[t] = "claim" /\ \A u \in Thread \ {t} : pc'[u] = pc[u]
        /\ \A u \in Thread \ {t} : want'[u] = want[u]
        /\ want'[t].role = want[t].role /\ want'[t].named = want[t].named
        /\ spawnMu' = t
    BY <1>1, <1>3 DEF PickSeat, Goto, Typed, TypeOK
  <2>2. Cardinality(Counted(live', info', want'[t].role)) < RoleCap(want'[t].role)
    BY <1>1, <2>1 DEF PickSeat, Safe, Room, Section
  <2>3. ~want'[t].named => \A h \in live' : info'[h].how = "free" => info'[h].seat # want'[t].seat
    <3>1. ASSUME ~want[t].named
          PROVE  want'[t].seat \in FreeSeat(want[t].role)
      BY <1>3, <3>1 DEF PickSeat, Typed, TypeOK
    <3>2. \A seat \in FreeSeat(want[t].role) : seat \notin Occupied
      BY DEF FreeSeat
    <3> QED
      BY <2>1, <3>1, <3>2 DEF PickSeat, Occupied
  <2> QED
    BY <1>1, <2>1, <2>2, <2>3, InsideSafe DEF PickSeat, Section
<1> QED
  BY <1>2, <1>3

LEMMA ClaimSafe ==
  ASSUME Typed, Safe, NEW t \in Thread, Claim(t)
  PROVE  Safe'
<1>1. pc[t] = "claim" /\ spawnMu = t
  BY DEF Claim, Safe, Locked, Section
<1>2. CASE Refuse(t)
  BY <1>1, <1>2, ReturnTyped, OutsideSafe DEF Claim, Refuse, Section
<1>3. CASE ~Refuse(t)
  <2>1. /\ pc'[t] = "run" /\ \A u \in Thread \ {t} : pc'[u] = pc[u]
        /\ want' = want /\ spawnMu' = t
    BY <1>1, <1>3 DEF Claim, Goto, Typed, TypeOK
  <2>2. Cardinality(Counted(live', info', want'[t].role)) < RoleCap(want'[t].role)
    BY <1>1, <2>1 DEF Claim, Safe, Room, Section
  <2>3. ~want'[t].named => \A h \in live' : info'[h].how = "free" => info'[h].seat # want'[t].seat
    BY <1>1, <2>1 DEF Claim, Safe, Reserved
  <2> QED
    BY <1>1, <2>1, <2>2, <2>3, InsideSafe DEF Claim, Section
<1> QED
  BY <1>2, <1>3

LEMMA RunSafe ==
  ASSUME Typed, Safe, NEW t \in Thread, Run(t)
  PROVE  Safe'
<1>1. pc[t] = "run" /\ spawnMu = t
  BY DEF Run, Safe, Locked, Section
<1>2. CASE Refuse(t) /\ UNCHANGED <<info, run>>
  BY <1>1, <1>2, ReturnTyped, OutsideSafe DEF Run, Refuse, Section
<1>3. CASE ~(Refuse(t) /\ UNCHANGED <<info, run>>)
  <2> DEFINE session == [task |-> want[t].task, role |-> want[t].role,
                         seat |-> want[t].seat,
                         how |-> IF want[t].named THEN "named" ELSE "free"]
  <2>1. PICK h \in Handle : /\ Launch(h, session)
                            /\ want' = [want EXCEPT ![t].handle = h]
                            /\ Goto(t, "add")
                            /\ UNCHANGED <<live, spawnMu>>
    BY <1>3 DEF Run
  <2>2. /\ run[h] = "unused" /\ info'[h] = session
        /\ \A g \in Handle \ {h} : info'[g] = info[g]
        /\ \A g \in Handle : run[g] # "unused" => info'[g] = info[g]
    BY <2>1 DEF Launch, Typed, TypeOK
  <2>3. /\ pc'[t] = "add"
        /\ \A u \in Thread \ {t} : pc'[u] = pc[u] /\ want'[u] = want[u]
        /\ want'[t].handle = h /\ want'[t].role = want[t].role
        /\ want'[t].seat = want[t].seat /\ want'[t].named = want[t].named
    BY <2>1 DEF Goto, Typed, TypeOK
  <2>4. \A g \in live : info'[g] = info[g]
    BY <2>2 DEF Typed, TypeOK, Named
  <2>5. Counted(live', info', want'[t].role) = Counted(live, info, want[t].role)
    BY <2>1, <2>3, <2>4 DEF Counted
  <2>6. Cardinality(Counted(live', info', want'[t].role)) < RoleCap(want'[t].role)
    BY <1>1, <2>3, <2>5 DEF Safe, Room, Section
  <2>7. ~want'[t].named => \A g \in live' : info'[g].how = "free" => info'[g].seat # want'[t].seat
    BY <1>1, <2>1, <2>3, <2>4 DEF Safe, Reserved
  <2>8. /\ info'[want'[t].handle].role = want'[t].role
        /\ info'[want'[t].handle].seat = want'[t].seat
        /\ info'[want'[t].handle].how = IF want'[t].named THEN "named" ELSE "free"
    BY <2>2, <2>3
  <2> QED
    BY <1>1, <2>1, <2>2, <2>3, <2>6, <2>7, <2>8, InsideSafe DEF Section
<1> QED
  BY <1>2, <1>3

LEMMA AddSafe ==
  ASSUME Typed, Safe, NEW t \in Thread, Add(t)
  PROVE  Safe'
<1> DEFINE h == want[t].handle
           r == want[t].role
<1>1. pc[t] = "add" /\ spawnMu = t /\ h \in Handle /\ r \in Role
  BY DEF Add, Safe, Locked, Section, Typed, TypeOK, Named
<1>2. /\ info[h].role = r
      /\ info[h].seat = want[t].seat
      /\ info[h].how = IF want[t].named THEN "named" ELSE "free"
  BY <1>1 DEF Safe, Matched
<1>3. \A u \in Thread \ {t} : pc[u] \notin Section
  BY <1>1 DEF Safe, Locked
<1>4. /\ pc'[t] \notin Section \cup {"readd"}
      /\ \A u \in Thread \ {t} : pc'[u] = pc[u] /\ want'[u] = want[u]
  <2>1. CASE Return(t)
    BY <2>1, ReturnTyped DEF Section
  <2>2. CASE Goto(t, "note") /\ UNCHANGED want
    BY <2>2 DEF Goto, Typed, TypeOK, Section
  <2> QED
    BY <2>1, <2>2 DEF Add
<1>5. \A u \in Thread : pc'[u] \notin Section
  BY <1>3, <1>4
<1>6. Locked' /\ Reserved' /\ Room'
  BY <1>5 DEF Locked, Reserved, Room, Section
<1>7. Matched'
  <2> SUFFICES ASSUME NEW u \in Thread, pc'[u] = "readd"
               PROVE  info'[want'[u].handle].how = "retry"
    BY <1>5 DEF Matched, Section
  <2> QED
    BY <1>4 DEF Add, Safe, Matched
<1>8. ChosenSeatsDistinct'
  <2>1. ~want[t].named => \A g \in live : info[g].how = "free" => info[g].seat # want[t].seat
    BY <1>1 DEF Safe, Reserved
  <2> SUFFICES ASSUME NEW f \in live \cup {h}, NEW g \in live \cup {h}, f # g,
                      info[f].how = "free", info[g].how = "free"
               PROVE  info[f].seat # info[g].seat
    BY DEF ChosenSeatsDistinct, Add
  <2>2. CASE f \in live /\ g \in live
    BY <2>2 DEF Safe, ChosenSeatsDistinct
  <2>3. CASE f = h \/ g = h
    BY <1>2, <2>1, <2>3
  <2> QED
    BY <2>2, <2>3
<1>9. AdmittedWithinCap'
  <2> SUFFICES ASSUME NEW role \in Role
               PROVE  Cardinality(Counted(live', info', role)) <= RoleCap(role)
    BY DEF AdmittedWithinCap, Counted
  <2>1. /\ Cardinality(Counted(live, info, role)) <= RoleCap(role)
        /\ Cardinality(Counted(live, info, role)) \in Nat
        /\ IsFiniteSet(Counted(live, info, role))
        /\ RoleCap(role) \in Nat
    BY CountedFinite, RoleCapNat DEF Safe, AdmittedWithinCap, Counted, Typed, TypeOK
  <2>2. CASE role = r
    <3>1. Cardinality(Counted(live, info, role)) < RoleCap(role)
      BY <1>1, <2>2 DEF Safe, Room, Section
    <3>2. Counted(live', info', role) = Counted(live, info, role) \cup {h}
      BY <1>2, <2>2 DEF Counted, Add
    <3>3. Cardinality(Counted(live', info', role)) \in
            {Cardinality(Counted(live, info, role)), Cardinality(Counted(live, info, role)) + 1}
      BY <2>1, <3>2, FS_AddElement
    <3> QED
      BY <2>1, <3>1, <3>3
  <2>3. CASE role # r
    <3>1. Counted(live', info', role) = Counted(live, info, role)
      BY <1>2, <2>3 DEF Counted, Add
    <3> QED
      BY <2>1, <3>1
  <2> QED
    BY <2>2, <2>3
<1> QED
  BY <1>6, <1>7, <1>8, <1>9 DEF Safe

(* Registering a retry: it counts for nobody and chose no seat.            *)
LEMMA AddRetrySafe ==
  ASSUME Typed, Safe, NEW h \in Handle, AddRetry(h)
  PROVE  Safe'
<1> USE HandlesAreThreads
<1> DEFINE g == want[h].handle
<1>1. pc[h] = "readd" /\ info[g].how = "retry" /\ live' = live \cup {g} /\ info' = info
  BY DEF AddRetry, Safe, Matched
<1>2. /\ pc'[h] \notin Section \cup {"readd"}
      /\ \A u \in Thread \ {h} : pc'[u] = pc[u] /\ want'[u] = want[u]
  <2>1. CASE Return(h)
    BY <2>1, ReturnTyped DEF Section
  <2>2. CASE Goto(h, "note") /\ UNCHANGED want
    BY <2>2 DEF Goto, Typed, TypeOK, Section
  <2> QED
    BY <2>1, <2>2 DEF AddRetry
<1>3. \A role : Counted(live', info', role) = Counted(live, info, role)
  BY <1>1 DEF Counted
<1>4. Locked'
  BY <1>2 DEF Safe, Locked, AddRetry
<1>5. Matched'
  BY <1>1, <1>2 DEF Safe, Matched, Section
<1>6. Reserved'
  BY <1>1, <1>2 DEF Safe, Reserved, Section
<1>7. Room'
  BY <1>2, <1>3 DEF Safe, Room
<1>8. ChosenSeatsDistinct'
  BY <1>1 DEF Safe, ChosenSeatsDistinct
<1>9. AdmittedWithinCap'
  BY <1>3 DEF Safe, AdmittedWithinCap, Counted
<1> QED
  BY <1>4, <1>5, <1>6, <1>7, <1>8, <1>9 DEF Safe

LEMMA RetrySafe ==
  ASSUME Typed, Safe, NEW h \in Handle, Retry(h)
  PROVE  Safe'
<1> USE HandlesAreThreads
<1>1. pc[h] = "retry" /\ live' = live /\ spawnMu' = spawnMu
  BY DEF Retry
<1>2. CASE GiveUp(h) /\ UNCHANGED <<info, run, want>>
  <2>1. pc'[h] = "finish" /\ \A u \in Thread \ {h} : pc'[u] = pc[u]
    BY <1>2 DEF GiveUp, Goto, Typed, TypeOK
  <2> QED
    BY <1>1, <1>2, <2>1, OutsideSafe DEF Section
<1>3. CASE ~(GiveUp(h) /\ UNCHANGED <<info, run, want>>)
  <2>1. PICK g \in Handle :
          /\ Launch(g, [task |-> info[h].task, role |-> info[h].role,
                        seat |-> info[h].seat, how |-> "retry"])
          /\ want' = [want EXCEPT ![h] =
               [role |-> info[h].role, task |-> info[h].task,
                seat |-> info[h].seat, handle |-> g, named |-> TRUE]]
          /\ Goto(h, "readd")
    BY <1>3 DEF Retry
  <2>2. /\ info'[g].how = "retry"
        /\ \A k \in Handle : run[k] # "unused" => info'[k] = info[k]
    BY <2>1 DEF Launch, Typed, TypeOK
  <2>3. /\ pc'[h] = "readd" /\ want'[h].handle = g
        /\ \A u \in Thread \ {h} : pc'[u] = pc[u] /\ want'[u] = want[u]
    BY <2>1 DEF Goto, Typed, TypeOK
  <2>4. Locked'
    BY <1>1, <2>3 DEF Safe, Locked, Section
  <2>5. Matched'
    <3> SUFFICES ASSUME NEW u \in Thread \ {h}
                 PROVE  /\ pc'[u] = "add" =>
                             /\ info'[want'[u].handle].role = want'[u].role
                             /\ info'[want'[u].handle].seat = want'[u].seat
                             /\ info'[want'[u].handle].how =
                                  IF want'[u].named THEN "named" ELSE "free"
                        /\ pc'[u] = "readd" => info'[want'[u].handle].how = "retry"
      BY <2>2, <2>3 DEF Matched
    <3> QED
      BY <1>1, <2>2, <2>3, Bystander
  <2>6. Reserved'
    <3> SUFFICES ASSUME NEW u \in Thread, pc'[u] \in {"claim", "run", "add"}, ~want'[u].named
                 PROVE  \A k \in live' : info'[k].how = "free" => info'[k].seat # want'[u].seat
      BY DEF Reserved
    <3>1. u # h
      BY <2>3
    <3> QED
      BY <1>1, <2>2, <2>3, <3>1, Bystander
  <2>7. Room'
    <3> SUFFICES ASSUME NEW u \in Thread, pc'[u] \in Section
                 PROVE  Cardinality(Counted(live', info', want'[u].role)) < RoleCap(want'[u].role)
      BY DEF Room
    <3>1. u # h
      BY <2>3 DEF Section
    <3> QED
      BY <1>1, <2>2, <2>3, <3>1, Bystander
  <2> QED
    BY <1>1, <2>2, <2>4, <2>5, <2>6, <2>7, Shrinks DEF Safe
<1> QED
  BY <1>2, <1>3

(* The completion steps that register nobody.                              *)
LEMMA CompletionSafe ==
  ASSUME Typed, Safe, NEW h \in Handle, Completion(h)
  PROVE  Safe'
<1> USE HandlesAreThreads
<1>1. CASE Retry(h)
  BY <1>1, RetrySafe
<1>2. CASE AddRetry(h)
  BY <1>2, AddRetrySafe
<1>3. CASE OnComplete(h) \/ CompleteReview(h) \/ Approve(h) \/ ClearEpic(h) \/ Finish(h)
  <2>1. /\ pc'[h] \notin Section \cup {"readd"}
        /\ \A u \in Thread \ {h} : pc'[u] = pc[u] /\ want'[u] = want[u]
    BY <1>3 DEF OnComplete, CompleteReview, Approve, ClearEpic, Finish, Goto,
                Typed, TypeOK, Section
  <2>2. live' \subseteq live /\ info' = info /\ spawnMu' = spawnMu
    BY <1>3 DEF OnComplete, CompleteReview, Approve, ClearEpic, Finish
  <2> QED
    BY <2>1, <2>2, OutsideSafe
<1>4. CASE Land(h) \/ DueEpic(h)
  <2>1. /\ pc'[h] \notin Section \cup {"readd"}
        /\ \A u \in Thread \ {h} : pc'[u] = pc[u] /\ want'[u] = want[u]
    BY <1>4 DEF Land, DueEpic, Goto, Typed, TypeOK, Section
  <2>2. live' \subseteq live /\ info' = info /\ spawnMu' = spawnMu
    BY <1>4 DEF Land, DueEpic
  <2> QED
    BY <2>1, <2>2, OutsideSafe
<1>5. CASE Fail(h)
  <2>1. /\ pc'[h] \notin Section \cup {"readd"}
        /\ \A u \in Thread \ {h} : pc'[u] = pc[u] /\ want'[u] = want[u]
    BY <1>5 DEF Fail, GiveUp, Goto, Typed, TypeOK, Section
  <2>2. live' \subseteq live /\ info' = info /\ spawnMu' = spawnMu
    BY <1>5 DEF Fail
  <2> QED
    BY <2>1, <2>2, OutsideSafe
<1> QED
  BY <1>1, <1>2, <1>3, <1>4, <1>5 DEF Completion

LEMMA AdmissionSafe ==
  ASSUME Typed, Safe, NEW t \in Thread, Admission(t)
  PROVE  Safe'
<1>1. CASE NoteSession(t)
  BY <1>1, ReturnTyped, OutsideSafe DEF NoteSession, Section
<1> QED
  BY <1>1, AdmitSafe, PickSeatSafe, ClaimSafe, RunSafe, AddSafe DEF Admission

LEMMA NextSafe ==
  ASSUME Typed, Safe, [Next]_vars
  PROVE  Safe'
<1> USE HandlesAreThreads
<1>1. CASE UNCHANGED vars
  BY <1>1, QuietSafe DEF vars
<1>2. ASSUME NEW c \in Caller, NEW role \in Role, NEW t \in Task, Request(c, role, t)
      PROVE  Safe'
  <2>1. /\ pc'[c] = "waiting"
        /\ \A u \in Thread \ {c} : pc'[u] = pc[u] /\ want'[u] = want[u]
    BY <1>2 DEF Request, Goto, Typed, TypeOK
  <2> QED
    BY <1>2, <2>1, OutsideSafe DEF Request, Section
<1>3. ASSUME NEW h \in Handle, Exit(h) \/ HandoffStep(h)
      PROVE  Safe'
  <2>1. live' \subseteq live /\ UNCHANGED <<pc, want, spawnMu, info>>
    BY <1>3 DEF Exit, HandoffStep, HandoffKill, HandoffRelease, HandoffRemove
  <2> QED
    BY <2>1, QuietSafe
<1>4. CASE Install \/ HandoffSnapshot
  BY <1>4, QuietSafe DEF Install, HandoffSnapshot
<1> QED
  BY <1>1, <1>2, <1>3, <1>4, AdmissionSafe, CompletionSafe DEF Next

LEMMA SpecSafe == Spec => [](Typed /\ Safe)
<1>1. Init => Typed /\ Safe
  BY InitTyped, InitSafe
<1>2. Typed /\ Safe /\ [Next]_vars => (Typed /\ Safe)'
  BY NextTyped, NextSafe
<1> QED
  BY <1>1, <1>2, PTL DEF Spec

(* No interleaving of dispatches, completions, retries, repairs and hard   *)
(* stops gives two sessions the same seat when FreeSeat chose both seats.  *)
THEOREM SeatsChosenApart == Spec => []ChosenSeatsDistinct
<1>1. Safe => ChosenSeatsDistinct
  BY DEF Safe
<1> QED
  BY <1>1, SpecSafe, PTL

(* No interleaving admits more sessions to a role than its cap.            *)
THEOREM CapRespected == Spec => []AdmittedWithinCap
<1>1. Safe => AdmittedWithinCap
  BY DEF Safe
<1> QED
  BY <1>1, SpecSafe, PTL

-----------------------------------------------------------------------------
(* What completion, retry, repair, review and hard stop leave behind, in   *)
(* whatever order they meet.  Everything here but the bound on retries     *)
(* rests on Links: a run is registered by the one goroutine that launched  *)
(* it, for the work it was launched for, and before that nobody completes  *)
(* it or hands it off; afterwards its completion takes the session out of  *)
(* the registry before it does anything else.                              *)

(* The runs waiting to be registered.                                      *)

Holding == {"add", "readd"}

(* A run waiting to be registered does the work of the request, or of the  *)
(* failed run, it was launched for.                                        *)
Linked ==
  /\ \A t \in Thread : pc[t] = "add" =>
       /\ info[want[t].handle].task = want[t].task
       /\ info[want[t].handle].role = want[t].role
  /\ \A h \in Handle : pc[h] = "readd" =>
       /\ info[want[h].handle].task = info[h].task
       /\ info[want[h].handle].role = info[h].role

(* Nobody has registered it, completed it or handed it off, and one        *)
(* goroutine holds it.                                                     *)
Fresh ==
  \A t \in Thread : pc[t] \in Holding =>
    /\ want[t].handle \notin live /\ handoff[want[t].handle] = "no"
    /\ pc[want[t].handle] \in {"idle", "done"}
    /\ \A u \in Thread : pc[u] \in Holding /\ u # t => want[u].handle # want[t].handle

(* The completion of a registered run has not begun, or heard of nothing.  *)
Left == \A h \in live : pc[h] \in {"idle", "done"}

Links == Linked /\ Fresh /\ Left

(* What a run was launched for is not rewritten.                           *)
Recorded == \A h \in Handle : run[h] # "unused" => info'[h] = info[h]

(* Run and Retry write the record of a run that is launched; nothing else  *)
(* writes one.                                                             *)
LEMMA NextRecords ==
  ASSUME Typed, [Next]_vars
  PROVE  Recorded
<1>1. ASSUME NEW t \in Thread, Admission(t) PROVE Recorded
  BY <1>1 DEF Admission, Admit, PickSeat, Claim, Run, Add, NoteSession, Launch, Recorded,
              Typed, TypeOK
<1>2. ASSUME NEW h \in Handle, Completion(h) PROVE Recorded
  BY <1>2 DEF Completion, OnComplete, Land, DueEpic, CompleteReview, Approve, ClearEpic, Fail,
              Retry, AddRetry, Finish, Launch, Recorded, Typed, TypeOK
<1>3. ASSUME NEW h \in Handle, Exit(h) \/ HandoffStep(h) PROVE Recorded
  BY <1>3 DEF Exit, HandoffStep, HandoffKill, HandoffRelease, HandoffRemove, Recorded
<1>4. ASSUME NEW c \in Caller, NEW role \in Role, NEW t \in Task, Request(c, role, t)
      PROVE  Recorded
  BY <1>4 DEF Request, Recorded
<1>5. CASE Install \/ HandoffSnapshot \/ UNCHANGED vars
  BY <1>5 DEF Install, HandoffSnapshot, vars, Recorded
<1> QED
  BY <1>1, <1>2, <1>3, <1>4, <1>5 DEF Next

LEMMA InitLinks == Init => Links
  BY HandlesAreThreads DEF Init, Links, Linked, Fresh, Left, Holding

(* A step that holds no further run and registers none keeps the links.    *)
LEMMA StepLinks ==
  ASSUME Typed, Links, Recorded, live' \subseteq live,
         \A t \in Thread : pc'[t] \in Holding => pc'[t] = pc[t] /\ want'[t] = want[t],
         \A h \in Handle : h \notin live /\ handoff[h] = "no" => handoff'[h] = "no",
         \A h \in Handle : pc[h] \in {"idle", "done"} /\ (h \notin live \/ h \in live')
                             => pc'[h] \in {"idle", "done"}
  PROVE  Links'
<1> USE HandlesAreThreads
<1>1. \A t \in Thread : pc'[t] \in Holding =>
        /\ want[t].handle \in Handle /\ run[want[t].handle] # "unused"
        /\ info'[want[t].handle] = info[want[t].handle]
        /\ want'[t] = want[t] /\ pc'[t] = pc[t]
  BY DEF Typed, Named, Holding, Recorded
<1>2. Linked'
  <2>1. ASSUME NEW t \in Thread, pc'[t] = "add"
        PROVE  /\ info'[want'[t].handle].task = want'[t].task
               /\ info'[want'[t].handle].role = want'[t].role
    BY <1>1, <2>1 DEF Links, Linked, Holding
  <2>2. ASSUME NEW h \in Handle, pc'[h] = "readd"
        PROVE  /\ info'[want'[h].handle].task = info'[h].task
               /\ info'[want'[h].handle].role = info'[h].role
    <3>1. pc[h] = "readd" /\ info'[h] = info[h]
      BY <1>1, <2>2 DEF Typed, Named, Holding, Recorded
    <3> QED
      BY <1>1, <2>2, <3>1 DEF Links, Linked, Holding
  <2> QED
    BY <2>1, <2>2 DEF Linked
<1>3. Fresh'
  <2> SUFFICES ASSUME NEW t \in Thread, pc'[t] \in Holding
               PROVE  /\ want'[t].handle \notin live' /\ handoff'[want'[t].handle] = "no"
                      /\ pc'[want'[t].handle] \in {"idle", "done"}
                      /\ \A u \in Thread : pc'[u] \in Holding /\ u # t
                           => want'[u].handle # want'[t].handle
    BY DEF Fresh
  <2>1. /\ want[t].handle \notin live /\ handoff[want[t].handle] = "no"
        /\ pc[want[t].handle] \in {"idle", "done"}
        /\ \A u \in Thread : pc[u] \in Holding /\ u # t => want[u].handle # want[t].handle
    BY <1>1 DEF Links, Fresh
  <2> QED
    BY <1>1, <2>1
<1>4. Left'
  BY DEF Links, Left, Typed, TypeOK
<1> QED
  BY <1>2, <1>3, <1>4 DEF Links

(* A run that is launched is held by the goroutine that launched it.       *)
LEMMA LaunchLinks ==
  ASSUME Typed, Links, NEW t \in Thread, NEW g \in Handle, run[g] = "unused",
         NEW stage \in Holding, Goto(t, stage), pc[t] \notin {"idle", "done"},
         \A h \in Handle \ {g} : info'[h] = info[h],
         want' = [want EXCEPT ![t] = want'[t]], want'[t].handle = g,
         stage = "add" => info'[g].task = want'[t].task /\ info'[g].role = want'[t].role,
         stage = "readd" => /\ t \in Handle
                            /\ info'[g].task = info[t].task /\ info'[g].role = info[t].role,
         UNCHANGED <<live, handoff>>
  PROVE  Links'
<1> USE HandlesAreThreads
<1>1. /\ pc'[t] = stage /\ \A u \in Thread \ {t} : pc'[u] = pc[u] /\ want'[u] = want[u]
  BY DEF Goto, Typed, TypeOK
<1>2. g \notin live /\ handoff[g] = "no" /\ pc[g] = "idle" /\ g # t
  BY DEF Typed, Named
<1>3. \A u \in Thread \ {t} : pc'[u] \in Holding =>
        /\ want[u].handle \in Handle /\ run[want[u].handle] # "unused" /\ want[u].handle # g
        /\ info'[want[u].handle] = info[want[u].handle]
  BY <1>1 DEF Typed, Named, Holding
<1>4. Linked'
  <2>1. ASSUME NEW u \in Thread, pc'[u] = "add"
        PROVE  /\ info'[want'[u].handle].task = want'[u].task
               /\ info'[want'[u].handle].role = want'[u].role
    <3>1. CASE u = t
      BY <1>1, <2>1, <3>1
    <3>2. CASE u # t
      BY <1>1, <1>3, <2>1, <3>2 DEF Links, Linked, Holding
    <3> QED
      BY <3>1, <3>2
  <2>2. ASSUME NEW h \in Handle, pc'[h] = "readd"
        PROVE  /\ info'[want'[h].handle].task = info'[h].task
               /\ info'[want'[h].handle].role = info'[h].role
    <3>1. h # g /\ info'[h] = info[h]
      BY <1>1, <1>2, <2>2
    <3>2. CASE h = t
      BY <1>1, <2>2, <3>1, <3>2
    <3>3. CASE h # t
      BY <1>1, <1>3, <2>2, <3>1, <3>3 DEF Links, Linked, Holding
    <3> QED
      BY <3>2, <3>3
  <2> QED
    BY <2>1, <2>2 DEF Linked
<1>5. Fresh'
  <2> SUFFICES ASSUME NEW u \in Thread, pc'[u] \in Holding
               PROVE  /\ want'[u].handle \notin live' /\ handoff'[want'[u].handle] = "no"
                      /\ pc'[want'[u].handle] \in {"idle", "done"}
                      /\ \A v \in Thread : pc'[v] \in Holding /\ v # u
                           => want'[v].handle # want'[u].handle
    BY DEF Fresh
  <2>1. CASE u = t
    BY <1>1, <1>2, <1>3, <2>1
  <2>2. CASE u # t
    <3>1. /\ want[u].handle \notin live /\ handoff[want[u].handle] = "no"
          /\ pc[want[u].handle] \in {"idle", "done"}
          /\ \A v \in Thread : pc[v] \in Holding /\ v # u => want[v].handle # want[u].handle
      BY <1>1, <2>2 DEF Links, Fresh
    <3>2. want[u].handle # t /\ want[u].handle # g /\ want[u].handle \in Handle
      BY <1>3, <2>2, <3>1
    <3> QED
      BY <1>1, <2>2, <3>1, <3>2
  <2> QED
    BY <2>1, <2>2
<1>6. Left'
  BY <1>1 DEF Links, Left, Typed, TypeOK
<1> QED
  BY <1>4, <1>5, <1>6 DEF Links

(* A run that is registered is held no more.                               *)
LEMMA RegisterLinks ==
  ASSUME Typed, Links, NEW t \in Thread, pc[t] \in Holding,
         live' = live \cup {want[t].handle}, UNCHANGED <<info, handoff>>,
         pc' = [pc EXCEPT ![t] = pc'[t]], pc'[t] \notin Holding,
         want' = [want EXCEPT ![t] = want'[t]]
  PROVE  Links'
<1> USE HandlesAreThreads
<1>1. \A u \in Thread \ {t} : pc'[u] = pc[u] /\ want'[u] = want[u]
  BY DEF Typed, TypeOK
<1>2. /\ want[t].handle \in Handle
      /\ pc[want[t].handle] \in {"idle", "done"} /\ want[t].handle # t
      /\ \A u \in Thread : pc[u] \in Holding /\ u # t => want[u].handle # want[t].handle
  BY DEF Links, Fresh, Typed, Named, Holding
<1>3. \A u \in Thread : pc'[u] \in Holding => u # t
  OBVIOUS
<1>4. Linked'
  BY <1>1, <1>3 DEF Links, Linked, Holding
<1>5. Fresh'
  <2> SUFFICES ASSUME NEW u \in Thread, pc'[u] \in Holding
               PROVE  /\ want'[u].handle \notin live' /\ handoff'[want'[u].handle] = "no"
                      /\ pc'[want'[u].handle] \in {"idle", "done"}
                      /\ \A v \in Thread : pc'[v] \in Holding /\ v # u
                           => want'[v].handle # want'[u].handle
    BY DEF Fresh
  <2>1. /\ want[u].handle \notin live /\ handoff[want[u].handle] = "no"
        /\ pc[want[u].handle] \in {"idle", "done"}
        /\ \A v \in Thread : pc[v] \in Holding /\ v # u => want[v].handle # want[u].handle
    BY <1>1, <1>3 DEF Links, Fresh
  <2>2. want[u].handle # t /\ want[u].handle # want[t].handle /\ want[u].handle \in Handle
    <3>1. pc[u] \in Holding /\ u # t
      BY <1>1, <1>3
    <3>2. want[u].handle \in Handle
      BY <3>1 DEF Typed, Named, Holding
    <3> QED
      BY <1>2, <2>1, <3>1, <3>2 DEF Holding
  <2> QED
    BY <1>1, <1>2, <1>3, <2>1, <2>2
<1>6. Left'
  BY <1>1, <1>2 DEF Links, Left, Holding, Typed, TypeOK
<1> QED
  BY <1>4, <1>5, <1>6 DEF Links

LEMMA AdmissionLinks ==
  ASSUME Typed, Links, Recorded, NEW t \in Thread, Admission(t)
  PROVE  Links'
<1> USE HandlesAreThreads
<1>1. CASE Admit(t) \/ PickSeat(t) \/ Claim(t) \/ NoteSession(t)
  <2>1. /\ pc[t] \notin {"idle", "done", "add", "readd"}
        /\ pc'[t] \in {"pick", "claim", "run", "idle", "finish"}
        /\ t \in Handle => pc'[t] # "idle"
        /\ \A u \in Thread \ {t} : pc'[u] = pc[u] /\ want'[u] = want[u]
        /\ UNCHANGED <<live, handoff>>
    BY <1>1 DEF Admit, PickSeat, Claim, NoteSession, Refuse, Return, Goto, Typed, TypeOK
  <2> QED
    BY <2>1, StepLinks DEF Holding
<1>2. CASE Run(t)
  <2>1. pc[t] = "run"
    BY <1>2 DEF Run
  <2>2. CASE Refuse(t) /\ UNCHANGED <<live, handoff>>
    <3>1. /\ pc'[t] \in {"idle", "finish"} /\ (t \in Handle => pc'[t] # "idle")
          /\ \A u \in Thread \ {t} : pc'[u] = pc[u] /\ want'[u] = want[u]
      BY <2>2 DEF Refuse, Return, Goto, Typed, TypeOK
    <3> QED
      BY <2>1, <2>2, <3>1, StepLinks DEF Holding
  <2>3. ASSUME NEW h \in Handle,
               Launch(h, [task |-> want[t].task, role |-> want[t].role,
                          seat |-> want[t].seat,
                          how |-> IF want[t].named THEN "named" ELSE "free"]),
               want' = [want EXCEPT ![t].handle = h], Goto(t, "add"),
               UNCHANGED <<live, handoff>>
        PROVE  Links'
    <3>1. /\ run[h] = "unused"
          /\ info'[h].task = want[t].task /\ info'[h].role = want[t].role
          /\ \A g \in Handle \ {h} : info'[g] = info[g]
      BY <2>3 DEF Launch, Typed, TypeOK
    <3>2. /\ want' = [want EXCEPT ![t] = want'[t]] /\ want'[t].handle = h
          /\ want'[t].task = want[t].task /\ want'[t].role = want[t].role
      BY <2>3 DEF Typed, TypeOK
    <3> QED
      BY <2>1, <2>3, <3>1, <3>2, LaunchLinks DEF Holding
  <2> QED
    BY <1>2, <2>2, <2>3 DEF Run
<1>3. CASE Add(t)
  <2>1. /\ pc[t] = "add" /\ live' = live \cup {want[t].handle}
        /\ UNCHANGED <<info, handoff>>
    BY <1>3 DEF Add
  <2>2. /\ pc' = [pc EXCEPT ![t] = pc'[t]] /\ pc'[t] \in {"note", "idle", "finish"}
        /\ want' = [want EXCEPT ![t] = want'[t]]
    BY <1>3 DEF Add, Return, Goto, Typed, TypeOK
  <2> QED
    BY <2>1, <2>2, RegisterLinks DEF Holding
<1> QED
  BY <1>1, <1>2, <1>3 DEF Admission

LEMMA CompletionLinks ==
  ASSUME Typed, Links, Recorded, NEW h \in Handle, Completion(h)
  PROVE  Links'
<1> USE HandlesAreThreads
<1>1. CASE OnComplete(h)
  <2>1. /\ pc'[h] \in {"done", "fail", "verdict", "land"}
        /\ h \notin live' \/ pc'[h] = "done"
        /\ h \notin live => pc'[h] = "done"
        /\ \A u \in Thread \ {h} : pc'[u] = pc[u]
        /\ live' \subseteq live /\ UNCHANGED <<want, handoff>>
    BY <1>1 DEF OnComplete, Goto, Typed, TypeOK
  <2> QED
    BY <2>1, StepLinks DEF Holding
<1>2. CASE Land(h) \/ DueEpic(h) \/ CompleteReview(h) \/ Approve(h) \/ ClearEpic(h) \/ Fail(h)
           \/ Finish(h)
  <2>1. /\ pc[h] \notin {"idle", "done", "add", "readd"}
        /\ pc'[h] \notin {"idle", "add", "readd"}
    BY <1>2 DEF Land, DueEpic, CompleteReview, Approve, ClearEpic, Fail, GiveUp, Finish, Goto,
                Typed, TypeOK
  <2>2. /\ \A u \in Thread \ {h} : pc'[u] = pc[u] /\ want'[u] = want[u]
        /\ UNCHANGED <<live, handoff>>
    BY <1>2 DEF Land, DueEpic, CompleteReview, Approve, ClearEpic, Fail, GiveUp, Finish, Goto,
                Typed, TypeOK
  <2> QED
    BY <2>1, <2>2, StepLinks DEF Holding
<1>3. CASE Retry(h)
  <2>1. pc[h] = "retry" /\ run[h] # "unused"
    BY <1>3 DEF Retry, Typed, Named
  <2>2. CASE GiveUp(h) /\ UNCHANGED <<live, handoff, want>>
    <3>1. pc'[h] = "finish" /\ \A u \in Thread \ {h} : pc'[u] = pc[u]
      BY <2>2 DEF GiveUp, Goto, Typed, TypeOK
    <3> QED
      BY <2>1, <2>2, <3>1, StepLinks DEF Holding
  <2>3. ASSUME NEW g \in Handle,
               Launch(g, [task |-> info[h].task, role |-> info[h].role,
                          seat |-> info[h].seat, how |-> "retry"]),
               want' = [want EXCEPT ![h] = [role |-> info[h].role, task |-> info[h].task,
                          seat |-> info[h].seat, handle |-> g, named |-> TRUE]],
               Goto(h, "readd"), UNCHANGED <<live, handoff>>
        PROVE  Links'
    <3>1. /\ run[g] = "unused"
          /\ info'[g].task = info[h].task /\ info'[g].role = info[h].role
          /\ \A k \in Handle \ {g} : info'[k] = info[k]
      BY <2>3 DEF Launch, Typed, TypeOK
    <3>2. want' = [want EXCEPT ![h] = want'[h]] /\ want'[h].handle = g
      BY <2>3 DEF Typed, TypeOK
    <3> QED
      BY <2>1, <2>3, <3>1, <3>2, LaunchLinks DEF Holding
  <2> QED
    BY <1>3, <2>2, <2>3 DEF Retry
<1>4. CASE AddRetry(h)
  <2>1. /\ pc[h] = "readd" /\ live' = live \cup {want[h].handle}
        /\ UNCHANGED <<info, handoff>>
    BY <1>4 DEF AddRetry
  <2>2. /\ pc' = [pc EXCEPT ![h] = pc'[h]] /\ pc'[h] \in {"note", "finish"}
        /\ want' = [want EXCEPT ![h] = want'[h]]
    BY <1>4 DEF AddRetry, Return, Goto, Typed, TypeOK
  <2> QED
    BY <2>1, <2>2, RegisterLinks DEF Holding
<1> QED
  BY <1>1, <1>2, <1>3, <1>4 DEF Completion

LEMMA NextLinks ==
  ASSUME Typed, Links, [Next]_vars
  PROVE  Links'
<1> USE HandlesAreThreads
<1>1. Recorded
  BY NextRecords
<1>2. ASSUME NEW c \in Caller, NEW role \in Role, NEW t \in Task, Request(c, role, t)
      PROVE  Links'
  <2>1. /\ pc'[c] = "waiting"
        /\ \A u \in Thread \ {c} : pc'[u] = pc[u] /\ want'[u] = want[u]
        /\ UNCHANGED <<live, handoff>>
    BY <1>2 DEF Request, Goto, Typed, TypeOK
  <2>2. c \notin Handle
    BY HandleAssumption
  <2> QED
    BY <1>1, <2>1, <2>2, StepLinks DEF Holding
<1>3. ASSUME NEW h \in Handle, Exit(h) \/ HandoffStep(h)
      PROVE  Links'
  <2>1. UNCHANGED <<pc, want>> /\ live' \subseteq live
    BY <1>3 DEF Exit, HandoffStep, HandoffKill, HandoffRelease, HandoffRemove
  <2>2. \A g \in Handle : handoff[g] = "no" => handoff'[g] = "no"
    BY <1>3 DEF Exit, HandoffStep, HandoffKill, HandoffRelease, HandoffRemove, Typed, TypeOK
  <2> QED
    BY <1>1, <2>1, <2>2, StepLinks
<1>4. CASE HandoffSnapshot
  <2>1. UNCHANGED <<pc, want, live>> /\ \A g \in Handle : g \notin live => handoff'[g] = "no"
    BY <1>4 DEF HandoffSnapshot
  <2> QED
    BY <1>1, <2>1, StepLinks
<1>5. CASE Install \/ UNCHANGED vars
  <2>1. UNCHANGED <<pc, want, live, handoff>>
    BY <1>5 DEF Install, vars
  <2> QED
    BY <1>1, <2>1, StepLinks
<1> QED
  BY <1>1, <1>2, <1>3, <1>4, <1>5, AdmissionLinks, CompletionLinks DEF Next

-----------------------------------------------------------------------------
(* Who is still going to close or release a claimed bead.                  *)

(* A step that leaves every owner of k one keeps k owned.                  *)
LEMMA OwnersStay ==
  ASSUME Typed, Recorded, NEW k \in Task,
         \A h \in live : info[h].task = k /\ info[h].role # "reviewer" /\ handoff[h] # "remove" =>
            \/ h \in live' /\ handoff'[h] # "remove"
            \/ pc'[h] \in {"land", "fail"},
         \A h \in Handle : info[h].task = k /\ info[h].role # "reviewer"
                             /\ pc[h] \in {"land", "fail", "retry", "readd"} =>
            pc'[h] \in {"land", "fail", "retry", "readd"},
         \A u \in Thread : want[u].task = k /\ want[u].role # "reviewer" /\ pc[u] \in {"run", "add"} =>
            /\ pc'[u] \in {"run", "add"}
            /\ want'[u].task = want[u].task /\ want'[u].role = want[u].role
  PROVE  Owned(k) => Owned(k)'
<1>1. ASSUME NEW h \in live, info[h].task = k, info[h].role # "reviewer", handoff[h] # "remove"
      PROVE  Owned(k)'
  <2>1. h \in Handle /\ info'[h] = info[h]
    BY DEF Typed, TypeOK, Named, Recorded
  <2> QED
    BY <1>1, <2>1 DEF Owned
<1>2. ASSUME NEW h \in Handle, info[h].task = k, info[h].role # "reviewer",
             pc[h] \in {"land", "fail", "retry", "readd"}
      PROVE  Owned(k)'
  <2>1. info'[h] = info[h]
    BY <1>2 DEF Typed, Named, Recorded
  <2> QED
    BY <1>2, <2>1 DEF Owned
<1>3. ASSUME NEW u \in Thread, want[u].task = k, want[u].role # "reviewer",
             pc[u] \in {"run", "add"}
      PROVE  Owned(k)'
  BY <1>3 DEF Owned
<1> QED
  BY <1>1, <1>2, <1>3 DEF Owned

(* The step settles the bead k: if it leaves k in progress, k has an owner *)
(* or counts as stranded.                                                  *)
Settled(k) == bead'[k] = "in_progress" => k \in stranded' \/ Owned(k)'

(* The step leaves the bead k, and its owners, as they are.                *)
Aside(k) ==
  /\ bead'[k] = bead[k]
  /\ k \in stranded => k \in stranded'
  /\ Owned(k) => Owned(k)'

LEMMA StepAccounts ==
  ASSUME ClaimsAccounted, \A k \in Task : Settled(k) \/ Aside(k)
  PROVE  ClaimsAccounted'
  BY DEF ClaimsAccounted, Settled, Aside

LEMMA ReleaseSettles ==
  ASSUME Typed, NEW t \in Task, Release(t)
  PROVE  /\ Settled(t)
         /\ \A k \in Task \ {t} : bead'[k] = bead[k] /\ (k \in stranded => k \in stranded')
  BY DEF Release, Strand, Settled, Typed, TypeOK

LEMMA AdmissionAccounts ==
  ASSUME Typed, Links, Recorded, ClaimsAccounted, NEW t \in Thread, Admission(t)
  PROVE  ClaimsAccounted'
<1> USE HandlesAreThreads
<1>1. CASE Admit(t) \/ PickSeat(t) \/ NoteSession(t)
  <2>1. /\ pc[t] \in {"waiting", "pick", "note"}
        /\ \A u \in Thread \ {t} : pc'[u] = pc[u] /\ want'[u] = want[u]
        /\ UNCHANGED <<live, bead, stranded, handoff>>
    BY <1>1 DEF Admit, PickSeat, NoteSession, Refuse, Return, Goto, Typed, TypeOK
  <2>2. ASSUME NEW k \in Task PROVE Aside(k)
    BY <2>1, OwnersStay DEF Aside
  <2> QED
    BY <2>2, StepAccounts
<1>2. CASE Claim(t)
  <2>1. /\ pc[t] = "claim" /\ want[t].task \in Task
        /\ \A u \in Thread \ {t} : pc'[u] = pc[u] /\ want'[u] = want[u]
        /\ UNCHANGED <<live, handoff>>
    BY <1>2 DEF Claim, Refuse, Return, Goto, Typed, TypeOK, Named, Section
  <2>2. ASSUME NEW k \in Task PROVE Owned(k) => Owned(k)'
    BY <2>1, OwnersStay
  <2>3. CASE UNCHANGED <<bead, stranded>>
    BY <2>2, <2>3, StepAccounts DEF Aside
  <2>4. CASE /\ want[t].role # "reviewer" /\ Goto(t, "run") /\ UNCHANGED want
             /\ bead' = [bead EXCEPT ![want[t].task] = "in_progress"]
             /\ stranded' = stranded \ {want[t].task}
    <3>1. pc'[t] = "run"
      BY <2>4 DEF Goto, Typed, TypeOK
    <3>2. Settled(want[t].task)
      BY <2>4, <3>1 DEF Settled, Owned
    <3>3. ASSUME NEW k \in Task, k # want[t].task PROVE Aside(k)
      BY <2>2, <2>4, <3>3 DEF Aside, Typed, TypeOK
    <3> QED
      BY <3>2, <3>3, StepAccounts
  <2> QED
    BY <1>2, <2>3, <2>4 DEF Claim
<1>3. CASE Run(t)
  <2>1. /\ pc[t] = "run" /\ want[t].task \in Task
        /\ \A u \in Thread \ {t} : pc'[u] = pc[u]
        /\ UNCHANGED <<live, handoff>>
    BY <1>3 DEF Run, Refuse, Return, Goto, Typed, TypeOK, Named, Section
  <2>2. ASSUME NEW h \in Handle, want' = [want EXCEPT ![t].handle = h], Goto(t, "add"),
               UNCHANGED <<bead, stranded>>
        PROVE  ClaimsAccounted'
    <3>1. /\ pc'[t] = "add"
          /\ \A u \in Thread : want'[u].task = want[u].task /\ want'[u].role = want[u].role
      BY <2>2 DEF Goto, Typed, TypeOK
    <3>2. ASSUME NEW k \in Task PROVE Aside(k)
      BY <2>1, <2>2, <3>1, OwnersStay DEF Aside
    <3> QED
      BY <3>2, StepAccounts
  <2>3. CASE Refuse(t) /\ want[t].role # "reviewer" /\ Release(want[t].task)
    <3>1. \A u \in Thread \ {t} : want'[u] = want[u]
      BY <2>3 DEF Refuse, Return, Typed, TypeOK
    <3>2. ASSUME NEW k \in Task, k # want[t].task PROVE Owned(k) => Owned(k)'
      BY <2>1, <3>1, <3>2, OwnersStay
    <3> QED
      BY <2>1, <2>3, <3>2, ReleaseSettles, StepAccounts DEF Aside
  <2>4. CASE Refuse(t) /\ want[t].role = "reviewer" /\ UNCHANGED <<bead, stranded>>
    <3>1. \A u \in Thread \ {t} : want'[u] = want[u]
      BY <2>4 DEF Refuse, Return, Typed, TypeOK
    <3>2. ASSUME NEW k \in Task PROVE Aside(k)
      BY <2>1, <2>4, <3>1, OwnersStay DEF Aside
    <3> QED
      BY <3>2, StepAccounts
  <2> QED
    BY <1>3, <2>2, <2>3, <2>4 DEF Run
<1>4. CASE Add(t)
  <2>1. /\ pc[t] = "add" /\ live' = live \cup {want[t].handle}
        /\ \A u \in Thread \ {t} : pc'[u] = pc[u] /\ want'[u] = want[u]
        /\ UNCHANGED <<info, handoff, bead, stranded>>
    BY <1>4 DEF Add, Return, Goto, Typed, TypeOK
  <2>2. /\ info[want[t].handle].task = want[t].task /\ info[want[t].handle].role = want[t].role
        /\ handoff[want[t].handle] = "no"
    BY <2>1 DEF Links, Linked, Fresh, Holding
  <2>3. ASSUME NEW k \in Task PROVE Aside(k)
    <3>1. CASE want[t].task = k /\ want[t].role # "reviewer"
      BY <2>1, <2>2, <3>1 DEF Aside, Owned
    <3>2. CASE ~(want[t].task = k /\ want[t].role # "reviewer")
      BY <2>1, <3>2, OwnersStay DEF Aside
    <3> QED
      BY <3>1, <3>2
  <2> QED
    BY <2>3, StepAccounts
<1> QED
  BY <1>1, <1>2, <1>3, <1>4 DEF Admission

LEMMA GiveUpAccounts ==
  ASSUME Typed, Recorded, ClaimsAccounted, NEW h \in Handle, run[h] # "unused",
         pc[h] \in {"fail", "retry"}, GiveUp(h), UNCHANGED <<live, want, handoff>>
  PROVE  ClaimsAccounted'
<1> USE HandlesAreThreads
<1>1. info[h].task \in Task /\ \A u \in Thread \ {h} : pc'[u] = pc[u]
  BY DEF GiveUp, Goto, Typed, TypeOK, Named
<1>2. ASSUME NEW k \in Task, k # info[h].task \/ info[h].role = "reviewer"
      PROVE  Owned(k) => Owned(k)'
  BY <1>1, <1>2, OwnersStay
<1>3. CASE info[h].role = "reviewer" /\ UNCHANGED <<bead, stranded>>
  BY <1>2, <1>3, StepAccounts DEF Aside
<1>4. CASE Release(info[h].task)
  BY <1>1, <1>2, <1>4, ReleaseSettles, StepAccounts DEF Aside
<1> QED
  BY <1>3, <1>4 DEF GiveUp

LEMMA LandAccounts ==
  ASSUME Typed, Recorded, ClaimsAccounted, NEW h \in Handle, Land(h)
  PROVE  ClaimsAccounted'
<1> USE HandlesAreThreads
<1>1. /\ pc[h] = "land" /\ info[h].task \in Task
      /\ \A u \in Thread \ {h} : pc'[u] = pc[u] /\ want'[u] = want[u]
      /\ UNCHANGED <<live, handoff>>
  BY DEF Land, Goto, Typed, TypeOK, Named
<1>2. ASSUME NEW k \in Task, k # info[h].task PROVE Owned(k) => Owned(k)'
  BY <1>1, <1>2, OwnersStay
<1>3. CASE Release(info[h].task) \/ Strand(info[h].task)
  <2>1. Release(info[h].task)
    BY <1>3 DEF Release
  <2> QED
    BY <1>1, <1>2, <2>1, ReleaseSettles, StepAccounts DEF Aside
<1>4. CASE /\ bead' = [bead EXCEPT ![info[h].task] = "closed"]
           /\ stranded' = stranded \ {info[h].task}
  <2>1. Settled(info[h].task)
    BY <1>1, <1>4 DEF Settled, Typed, TypeOK
  <2>2. ASSUME NEW k \in Task, k # info[h].task PROVE Aside(k)
    BY <1>2, <1>4, <2>2 DEF Aside, Typed, TypeOK
  <2> QED
    BY <2>1, <2>2, StepAccounts
<1> QED
  BY <1>3, <1>4 DEF Land

LEMMA CompletionAccounts ==
  ASSUME Typed, Links, Recorded, ClaimsAccounted, NEW h \in Handle, Completion(h)
  PROVE  ClaimsAccounted'
<1> USE HandlesAreThreads
<1>1. CASE OnComplete(h)
  <2>1. /\ pc[h] = "idle"
        /\ h \in live' \/ h \notin live \/ info[h].role = "reviewer" \/ pc'[h] \in {"land", "fail"}
        /\ \A g \in live : g # h => g \in live'
        /\ \A u \in Thread \ {h} : pc'[u] = pc[u]
        /\ UNCHANGED <<want, handoff, bead, stranded>>
    BY <1>1 DEF OnComplete, Goto, Typed, TypeOK
  <2>2. ASSUME NEW k \in Task PROVE Aside(k)
    BY <2>1, OwnersStay DEF Aside
  <2> QED
    BY <2>2, StepAccounts
<1>2. CASE DueEpic(h) \/ CompleteReview(h) \/ ClearEpic(h) \/ Finish(h)
  <2>1. /\ pc[h] \in {"due", "verdict", "clear", "finish"}
        /\ \A u \in Thread \ {h} : pc'[u] = pc[u] /\ want'[u] = want[u]
        /\ UNCHANGED <<live, handoff, bead, stranded>>
    BY <1>2 DEF DueEpic, CompleteReview, ClearEpic, Finish, Goto, Typed, TypeOK
  <2>2. ASSUME NEW k \in Task PROVE Aside(k)
    BY <2>1, OwnersStay DEF Aside
  <2> QED
    BY <2>2, StepAccounts
<1>3. CASE Approve(h)
  <2>1. /\ pc[h] = "approve" /\ info[h].task \in Task
        /\ \A u \in Thread \ {h} : pc'[u] = pc[u]
        /\ UNCHANGED <<live, handoff, want>>
    BY <1>3 DEF Approve, Goto, Typed, TypeOK, Named
  <2>2. ASSUME NEW k \in Task PROVE Owned(k) => Owned(k)'
    BY <2>1, OwnersStay
  <2>3. CASE UNCHANGED <<bead, stranded>>
    BY <2>2, <2>3, StepAccounts DEF Aside
  <2>4. CASE /\ bead' = [bead EXCEPT ![info[h].task] = "closed"]
             /\ stranded' = stranded \ {info[h].task}
    <3>1. Settled(info[h].task)
      BY <2>1, <2>4 DEF Settled, Typed, TypeOK
    <3>2. ASSUME NEW k \in Task, k # info[h].task PROVE Aside(k)
      BY <2>2, <2>4, <3>2 DEF Aside, Typed, TypeOK
    <3> QED
      BY <3>1, <3>2, StepAccounts
  <2> QED
    BY <1>3, <2>3, <2>4 DEF Approve
<1>4. CASE Land(h)
  BY <1>4, LandAccounts
<1>5. CASE Fail(h)
  <2>1. pc[h] = "fail" /\ run[h] # "unused" /\ UNCHANGED <<live, want, handoff>>
    BY <1>5 DEF Fail, Typed, Named
  <2>2. CASE GiveUp(h)
    BY <2>1, <2>2, GiveUpAccounts
  <2>3. CASE Goto(h, "retry") /\ UNCHANGED <<bead, stranded>>
    <3>1. pc'[h] = "retry" /\ \A u \in Thread \ {h} : pc'[u] = pc[u]
      BY <2>3 DEF Goto, Typed, TypeOK
    <3>2. ASSUME NEW k \in Task PROVE Aside(k)
      BY <2>1, <2>3, <3>1, OwnersStay DEF Aside
    <3> QED
      BY <3>2, StepAccounts
  <2> QED
    BY <1>5, <2>2, <2>3 DEF Fail
<1>6. CASE Retry(h)
  <2>1. pc[h] = "retry" /\ run[h] # "unused" /\ UNCHANGED <<live, handoff>>
    BY <1>6 DEF Retry, Typed, Named
  <2>2. CASE GiveUp(h) /\ UNCHANGED want
    BY <2>1, <2>2, GiveUpAccounts
  <2>3. CASE Goto(h, "readd") /\ UNCHANGED <<bead, stranded>>
    <3>1. /\ pc'[h] = "readd"
          /\ \A u \in Thread \ {h} : pc'[u] = pc[u] /\ want'[u] = want[u]
      BY <1>6, <2>3 DEF Retry, GiveUp, Goto, Typed, TypeOK
    <3>2. ASSUME NEW k \in Task PROVE Aside(k)
      BY <2>1, <2>3, <3>1, OwnersStay DEF Aside
    <3> QED
      BY <3>2, StepAccounts
  <2> QED
    BY <1>6, <2>2, <2>3 DEF Retry
<1>7. CASE AddRetry(h)
  <2>1. /\ pc[h] = "readd" /\ live' = live \cup {want[h].handle}
        /\ \A u \in Thread \ {h} : pc'[u] = pc[u] /\ want'[u] = want[u]
        /\ UNCHANGED <<info, handoff, bead, stranded>>
    BY <1>7 DEF AddRetry, Return, Goto, Typed, TypeOK
  <2>2. /\ info[want[h].handle].task = info[h].task /\ info[want[h].handle].role = info[h].role
        /\ handoff[want[h].handle] = "no"
    BY <2>1 DEF Links, Linked, Fresh, Holding
  <2>3. ASSUME NEW k \in Task PROVE Aside(k)
    <3>1. CASE info[h].task = k /\ info[h].role # "reviewer"
      BY <2>1, <2>2, <3>1 DEF Aside, Owned
    <3>2. CASE ~(info[h].task = k /\ info[h].role # "reviewer")
      BY <2>1, <3>2, OwnersStay DEF Aside
    <3> QED
      BY <3>1, <3>2
  <2> QED
    BY <2>3, StepAccounts
<1> QED
  BY <1>1, <1>2, <1>3, <1>4, <1>5, <1>6, <1>7 DEF Completion

LEMMA HandoffAccounts ==
  ASSUME Typed, Recorded, ClaimsAccounted, NEW h \in Handle, HandoffStep(h)
  PROVE  ClaimsAccounted'
<1>1. UNCHANGED <<pc, want>> /\ \A g \in Handle \ {h} : handoff'[g] = handoff[g]
  BY DEF HandoffStep, HandoffKill, HandoffRelease, HandoffRemove, Typed, TypeOK
<1>2. live \subseteq Handle
  BY DEF Typed, TypeOK
<1>3. CASE HandoffKill(h)
  <2>1. /\ UNCHANGED <<live, bead, stranded>>
        /\ info[h].role # "reviewer" => handoff'[h] # "remove"
    BY <1>3 DEF HandoffKill, Typed, TypeOK
  <2>2. ASSUME NEW k \in Task PROVE Aside(k)
    BY <1>1, <1>2, <2>1, OwnersStay DEF Aside
  <2> QED
    BY <2>2, StepAccounts
<1>4. CASE HandoffRelease(h)
  <2>1. info[h].task \in Task /\ Release(info[h].task) /\ UNCHANGED live
    BY <1>4 DEF HandoffRelease, Typed, Named
  <2>2. ASSUME NEW k \in Task, k # info[h].task PROVE Owned(k) => Owned(k)'
    BY <1>1, <1>2, <2>1, <2>2, OwnersStay
  <2> QED
    BY <2>1, <2>2, ReleaseSettles, StepAccounts DEF Aside
<1>5. CASE HandoffRemove(h)
  <2>1. handoff[h] = "remove" /\ live' = live \ {h} /\ UNCHANGED <<bead, stranded>>
    BY <1>5 DEF HandoffRemove
  <2>2. ASSUME NEW k \in Task PROVE Aside(k)
    BY <1>1, <1>2, <2>1, OwnersStay DEF Aside
  <2> QED
    BY <2>2, StepAccounts
<1> QED
  BY <1>3, <1>4, <1>5 DEF HandoffStep

LEMMA NextAccounts ==
  ASSUME Typed, Links, ClaimsAccounted, [Next]_vars
  PROVE  ClaimsAccounted'
<1> USE HandlesAreThreads
<1>1. Recorded
  BY NextRecords
<1>2. ASSUME NEW c \in Caller, NEW role \in Role, NEW t \in Task, Request(c, role, t)
      PROVE  ClaimsAccounted'
  <2>1. /\ pc[c] = "idle"
        /\ \A u \in Thread \ {c} : pc'[u] = pc[u] /\ want'[u] = want[u]
        /\ UNCHANGED <<live, handoff, bead, stranded>>
    BY <1>2 DEF Request, Goto, Typed, TypeOK
  <2>2. ASSUME NEW k \in Task PROVE Aside(k)
    BY <1>1, <2>1, OwnersStay DEF Aside
  <2> QED
    BY <2>2, StepAccounts
<1>3. CASE \/ \E h \in Handle : Exit(h)
           \/ Install \/ HandoffSnapshot \/ UNCHANGED vars
  <2>1. /\ UNCHANGED <<pc, want, live, bead, stranded>>
        /\ \A h \in Handle : handoff'[h] # "remove" \/ handoff'[h] = handoff[h]
    BY <1>3 DEF Exit, Install, HandoffSnapshot, vars
  <2>2. ASSUME NEW k \in Task PROVE Aside(k)
    BY <1>1, <2>1, OwnersStay DEF Aside, Typed, TypeOK
  <2> QED
    BY <2>2, StepAccounts
<1> QED
  BY <1>1, <1>2, <1>3, AdmissionAccounts, CompletionAccounts, HandoffAccounts DEF Next

(* A bead in progress is being worked on, or its last owner tried to give  *)
(* it back and could not: completion, retry, repair and hard stop, in      *)
(* whatever order, drop no claim.                                          *)
THEOREM NoClaimDropped == Spec => []ClaimsAccounted
<1>1. Init => Typed /\ Links /\ ClaimsAccounted
  <2>1. Init => ClaimsAccounted
    BY DEF Init, ClaimsAccounted
  <2> QED
    BY <2>1, InitTyped, InitLinks
<1>2. Typed /\ Links /\ ClaimsAccounted /\ [Next]_vars => (Typed /\ Links /\ ClaimsAccounted)'
  BY NextTyped, NextLinks, NextAccounts
<1> QED
  BY <1>1, <1>2, PTL DEF Spec

-----------------------------------------------------------------------------
(* The reviews the gate knows of.                                          *)

(* The beads reviews are asked for, and what must hold of the dispatches   *)
(* asked for: nobody is sent to work on a bead that is reviewed.  A bead   *)
(* that is both is closed by its review and claimed again by its worker,   *)
(* and the gate has then forgotten the other reviews of it.                *)
Reviewed == {t \in Task : <<"reviewer", t>> \in Asks \/ \E u \in Task : Parent[u] = t}
ReviewsApart == \A t \in Reviewed, role \in Role \ {"reviewer"} : <<role, t>> \notin Asks

(* Sessions and requests review what is reviewed, and nothing else.        *)
Sorted ==
  /\ \A h \in Handle : run[h] # "unused" => (info[h].role = "reviewer" <=> info[h].task \in Reviewed)
  /\ \A t \in Thread : pc[t] \in Section \cup {"waiting"} =>
       (want[t].role = "reviewer" <=> want[t].task \in Reviewed)

(* Where a session of each role can be.                                    *)
Roles ==
  \A h \in Handle :
    /\ pc[h] \in {"land", "due"} => info[h].role # "reviewer"
    /\ pc[h] \in {"verdict", "approve", "clear"} => info[h].role = "reviewer"
    /\ handoff[h] = "release" => info[h].role # "reviewer"

(* The epic whose reviews the gate is to forget is closed.                 *)
Cleared == \A h \in Handle : pc[h] = "clear" => bead[info[h].task] = "closed"

Reviews == Sorted /\ Roles /\ Cleared

LEMMA InitReviews == Init => Reviews
<1> SUFFICES ASSUME Init PROVE Reviews
  OBVIOUS
<1>1. Sorted
  BY DEF Init, Sorted, Section
<1>2. Roles /\ Cleared
  BY HandlesAreThreads DEF Init, Roles, Cleared
<1> QED
  BY <1>1, <1>2 DEF Reviews

(* A request that is made is of one kind.                                  *)
LEMMA AsksSorted ==
  ASSUME ReviewsApart, NEW role \in Role, NEW t \in Task, <<role, t>> \in Asks
  PROVE  role = "reviewer" <=> t \in Reviewed
  BY DEF ReviewsApart, Reviewed

LEMMA NextSorted ==
  ASSUME ReviewsApart, Typed, Reviews, [Next]_vars
  PROVE  Sorted'
<1> USE HandlesAreThreads
<1> DEFINE Fit(role, t) == role = "reviewer" <=> t \in Reviewed
<1>1. Recorded
  BY NextRecords
<1>2. SUFFICES ASSUME \/ \E h \in Handle : run[h] = "unused" /\ run'[h] # "unused"
                          /\ ~Fit(info'[h].role, info'[h].task)
                      \/ \E t \in Thread : pc'[t] \in Section \cup {"waiting"}
                          /\ ~Fit(want'[t].role, want'[t].task)
               PROVE  FALSE
  BY <1>1 DEF Reviews, Sorted, Recorded
<1>3. ASSUME NEW t \in Thread, Admission(t) PROVE FALSE
  <2>1. /\ pc[t] \in Section \cup {"waiting", "note"}
        /\ \A u \in Thread \ {t} : pc'[u] = pc[u] /\ want'[u] = want[u]
    BY <1>3 DEF Admission, Admit, PickSeat, Claim, Run, Add, NoteSession, Refuse, Return, Goto,
                Section, Typed, TypeOK
  <2>2. pc'[t] \in Section \cup {"waiting"} =>
          pc[t] \in Section \cup {"waiting"} /\ want'[t].role = want[t].role /\ want'[t].task = want[t].task
    BY <1>3 DEF Admission, Admit, PickSeat, Claim, Run, Add, NoteSession, Refuse, Return, Goto,
                Section, Typed, TypeOK
  <2>3. ASSUME NEW h \in Handle, run[h] = "unused", run'[h] # "unused"
        PROVE  /\ pc[t] = "run"
               /\ info'[h].role = want[t].role /\ info'[h].task = want[t].task
    BY <1>3, <2>3 DEF Admission, Admit, PickSeat, Claim, Run, Add, NoteSession, Launch,
                      Typed, TypeOK
  <2> QED
    BY <1>2, <2>1, <2>2, <2>3 DEF Reviews, Sorted, Section
<1>4. ASSUME NEW h \in Handle, Completion(h) PROVE FALSE
  <2>1. run[h] # "unused"
    BY <1>4 DEF Completion, OnComplete, Land, DueEpic, CompleteReview, Approve, ClearEpic, Fail,
                Retry, AddRetry, Finish, Typed, Named
  <2>2. \A u \in Thread \ {h} : pc'[u] = pc[u] /\ want'[u] = want[u]
    BY <1>4 DEF Completion, OnComplete, Land, DueEpic, CompleteReview, Approve, ClearEpic, Fail,
                Retry, AddRetry, Finish, GiveUp, Return, Goto, Typed, TypeOK
  <2>3. pc'[h] \in Section \cup {"waiting"} =>
          \/ pc[h] = "land" /\ want'[h].role = "repairer" /\ want'[h].task = info[h].task
          \/ /\ pc[h] = "due" /\ Parent[info[h].task] # NoTask
             /\ want'[h].role = "reviewer" /\ want'[h].task = Parent[info[h].task]
    <3>1. CASE Land(h)
      BY <3>1 DEF Land, Goto, Section, Typed, TypeOK
    <3>2. CASE DueEpic(h)
      BY <3>2 DEF DueEpic, Goto, Section, Typed, TypeOK
    <3>3. CASE ~Land(h) /\ ~DueEpic(h)
      BY <1>4, <3>3 DEF Completion, OnComplete, CompleteReview, Approve, ClearEpic, Fail,
                Retry, AddRetry, Finish, GiveUp, Return, Goto, Section, Typed, TypeOK
    <3> QED
      BY <3>1, <3>2, <3>3
  <2>4. ASSUME NEW g \in Handle, run[g] = "unused", run'[g] # "unused"
        PROVE  info'[g].role = info[h].role /\ info'[g].task = info[h].task
    BY <1>4, <2>4 DEF Completion, OnComplete, Land, DueEpic, CompleteReview, Approve, ClearEpic,
                      Fail, Retry, AddRetry, Finish, Launch, Typed, TypeOK
  <2>5. pc[h] = "due" /\ Parent[info[h].task] # NoTask => Parent[info[h].task] \in Reviewed
    <3>1. info[h].task \in Task
      BY <2>1 DEF Typed, Named
    <3> QED
      BY <3>1, TaskAssumption DEF Reviewed
  <2> QED
    BY <1>2, <2>1, <2>2, <2>3, <2>4, <2>5 DEF Reviews, Sorted, Roles
<1>5. ASSUME NEW c \in Caller, NEW role \in Role, NEW t \in Task, Request(c, role, t)
      PROVE  FALSE
  <2>1. /\ <<role, t>> \in Asks /\ UNCHANGED run
        /\ want'[c].role = role /\ want'[c].task = t
        /\ \A u \in Thread \ {c} : pc'[u] = pc[u] /\ want'[u] = want[u]
    BY <1>5 DEF Request, Goto, Typed, TypeOK
  <2> QED
    BY <1>2, <2>1, AsksSorted DEF Reviews, Sorted
<1>6. ASSUME NEW h \in Handle, Exit(h) \/ HandoffStep(h) PROVE FALSE
  <2>1. UNCHANGED <<pc, want>> /\ \A g \in Handle : run[g] = "unused" => run'[g] = "unused"
    BY <1>6 DEF Exit, HandoffStep, HandoffKill, HandoffRelease, HandoffRemove, Typed, TypeOK
  <2> QED
    BY <1>2, <2>1 DEF Reviews, Sorted
<1>7. CASE Install \/ HandoffSnapshot \/ UNCHANGED vars
  BY <1>2, <1>7 DEF Install, HandoffSnapshot, vars, Reviews, Sorted
<1> QED
  BY <1>3, <1>4, <1>5, <1>6, <1>7 DEF Next

(* A reviewed bead that is closed stays closed: only its review changes it. *)
LEMMA NextShut ==
  ASSUME Typed, Reviews, [Next]_vars, NEW k \in Reviewed, bead[k] = "closed"
  PROVE  bead'[k] = "closed"
<1> USE HandlesAreThreads
<1>1. k \in Task
  BY DEF Reviewed
<1>2. SUFFICES ASSUME bead' # bead PROVE bead'[k] = "closed"
  OBVIOUS
<1>3. ASSUME NEW t \in Task, t # k, Release(t) PROVE bead'[k] = "closed"
  BY <1>1, <1>3 DEF Release, Strand, Typed, TypeOK
<1>4. ASSUME NEW t \in Thread, Admission(t) PROVE bead'[k] = "closed"
  <2>1. CASE Claim(t)
    <3>1. want[t].role # "reviewer" /\ want[t].task # k /\ want[t].task \in Task
      BY <1>2, <2>1 DEF Claim, Reviews, Sorted, Section, Typed, Named
    <3> QED
      BY <1>1, <2>1, <3>1 DEF Claim, Typed, TypeOK
  <2>2. CASE Run(t)
    <3>1. /\ want[t].role # "reviewer" /\ want[t].task # k /\ want[t].task \in Task
          /\ Release(want[t].task)
      BY <1>2, <2>2 DEF Run, Reviews, Sorted, Section, Typed, Named
    <3> QED
      BY <1>3, <3>1
  <2> QED
    BY <1>2, <1>4, <2>1, <2>2 DEF Admission, Admit, PickSeat, Add, NoteSession
<1>5. ASSUME NEW h \in Handle, Completion(h) PROVE bead'[k] = "closed"
  <2>1. info[h].task \in Task /\ (info[h].role # "reviewer" => info[h].task # k)
    BY <1>5 DEF Completion, OnComplete, Land, DueEpic, CompleteReview, Approve, ClearEpic, Fail,
                Retry, AddRetry, Finish, Reviews, Sorted, Typed, Named
  <2>2. CASE Land(h)
    <3>1. info[h].task # k
      BY <2>1, <2>2 DEF Land, Reviews, Roles
    <3>2. \/ Release(info[h].task)
          \/ bead' = [bead EXCEPT ![info[h].task] = "closed"]
      BY <1>2, <2>2 DEF Land, Strand
    <3> QED
      BY <1>1, <1>3, <2>1, <3>1, <3>2 DEF Typed, TypeOK
  <2>3. CASE Approve(h)
    BY <1>1, <1>2, <2>1, <2>3 DEF Approve, Typed, TypeOK
  <2>4. CASE Fail(h) \/ Retry(h)
    BY <1>2, <1>3, <2>1, <2>4 DEF Fail, Retry, GiveUp
  <2> QED
    BY <1>2, <1>5, <2>2, <2>3, <2>4
    DEF Completion, OnComplete, DueEpic, CompleteReview, ClearEpic, AddRetry, Finish
<1>6. ASSUME NEW h \in Handle, Exit(h) \/ HandoffStep(h) PROVE bead'[k] = "closed"
  <2>1. CASE HandoffRelease(h)
    <3>1. info[h].task \in Task /\ info[h].task # k /\ Release(info[h].task)
      BY <2>1 DEF HandoffRelease, Reviews, Sorted, Roles, Typed, Named
    <3> QED
      BY <1>3, <3>1
  <2> QED
    BY <1>2, <1>6, <2>1 DEF Exit, HandoffStep, HandoffKill, HandoffRemove
<1>7. ~Install /\ ~HandoffSnapshot /\ ~UNCHANGED vars
      /\ \A c \in Caller, role \in Role, t \in Task : ~Request(c, role, t)
  BY <1>2 DEF Install, HandoffSnapshot, Request, vars
<1> QED
  BY <1>4, <1>5, <1>6, <1>7 DEF Next

(* Where a completion goes, and where a session is handed off, depends on  *)
(* its role.                                                               *)
LEMMA NextRoles ==
  ASSUME Typed, Reviews, [Next]_vars
  PROVE  Roles' /\ Cleared'
<1> USE HandlesAreThreads
<1> DEFINE Ends == {"land", "due", "verdict", "approve", "clear"}
<1>1. Recorded
  BY NextRecords
<1>2. SUFFICES
        /\ \A h \in Handle : pc'[h] \in Ends =>
             \/ pc'[h] = pc[h]
             \/ /\ run[h] # "unused"
                /\ info[h].role = "reviewer" <=> pc'[h] \in {"verdict", "approve", "clear"}
                /\ pc'[h] = "clear" => bead'[info[h].task] = "closed"
        /\ \A h \in Handle : handoff'[h] = "release" =>
             handoff[h] = "release" \/ (run[h] # "unused" /\ info[h].role # "reviewer")
  <2>1. ASSUME NEW h \in Handle, pc[h] = "clear"
        PROVE  info'[h] = info[h] /\ info[h].task \in Reviewed /\ bead'[info[h].task] = "closed"
    <3>1. info[h].task \in Reviewed /\ info'[h] = info[h]
      BY <1>1, <2>1 DEF Reviews, Roles, Sorted, Typed, Named, Recorded
    <3> QED
      BY <2>1, <3>1, NextShut DEF Reviews, Cleared
  <2>2. \A h \in Handle : pc[h] # "idle" \/ handoff[h] # "no" \/ run[h] # "unused"
          => info'[h] = info[h]
    BY <1>1 DEF Typed, Named, Recorded
  <2>3. ASSUME NEW h \in Handle, pc'[h] \in Ends
        PROVE  /\ info'[h].role = "reviewer" <=> pc'[h] \in {"verdict", "approve", "clear"}
               /\ pc'[h] = "clear" => bead'[info'[h].task] = "closed"
    <3>1. CASE pc'[h] = pc[h]
      BY <2>1, <2>2, <2>3, <3>1 DEF Reviews, Roles
    <3>2. CASE pc'[h] # pc[h]
      BY <1>2, <2>2, <2>3, <3>2
    <3> QED
      BY <3>1, <3>2
  <2>4. ASSUME NEW h \in Handle, handoff'[h] = "release"
        PROVE  info'[h].role # "reviewer"
    BY <1>2, <2>2, <2>4 DEF Reviews, Roles
  <2> QED
    BY <2>3, <2>4 DEF Roles, Cleared
<1>3. ASSUME NEW t \in Thread, Admission(t)
      PROVE  UNCHANGED handoff /\ \A h \in Handle : pc'[h] \in Ends => pc'[h] = pc[h]
  BY <1>3 DEF Admission, Admit, PickSeat, Claim, Run, Add, NoteSession, Refuse, Return, Goto,
              Typed, TypeOK
<1>4. ASSUME NEW h \in Handle, Completion(h)
      PROVE  /\ UNCHANGED handoff
             /\ \A g \in Handle \ {h} : pc'[g] = pc[g]
             /\ pc'[h] \in Ends =>
                  /\ run[h] # "unused"
                  /\ info[h].role = "reviewer" <=> pc'[h] \in {"verdict", "approve", "clear"}
                  /\ pc'[h] = "clear" => bead'[info[h].task] = "closed"
  <2>1. run[h] # "unused" /\ info[h].task \in Task
    BY <1>4 DEF Completion, OnComplete, Land, DueEpic, CompleteReview, Approve, ClearEpic, Fail,
                Retry, AddRetry, Finish, Typed, Named
  <2>2. /\ UNCHANGED handoff
        /\ \A g \in Handle \ {h} : pc'[g] = pc[g]
    BY <1>4 DEF Completion, OnComplete, Land, DueEpic, CompleteReview, Approve, ClearEpic, Fail,
                Retry, AddRetry, Finish, GiveUp, Return, Goto, Typed, TypeOK
  <2>3. CASE OnComplete(h)
    BY <2>1, <2>2, <2>3 DEF OnComplete, Goto, Typed, TypeOK
  <2>4. CASE Land(h)
    BY <2>1, <2>2, <2>4 DEF Land, Goto, Reviews, Roles, Typed, TypeOK
  <2>5. CASE CompleteReview(h)
    BY <2>1, <2>2, <2>5 DEF CompleteReview, Goto, Reviews, Roles, Typed, TypeOK
  <2>6. CASE Approve(h)
    BY <2>1, <2>2, <2>6 DEF Approve, Goto, Reviews, Roles, Typed, TypeOK
  <2>7. CASE DueEpic(h) \/ ClearEpic(h) \/ Fail(h) \/ Retry(h) \/ AddRetry(h) \/ Finish(h)
    BY <2>2, <2>7 DEF DueEpic, ClearEpic, Fail, Retry, AddRetry, Finish, GiveUp, Return, Goto,
                      Typed, TypeOK
  <2> QED
    BY <1>4, <2>3, <2>4, <2>5, <2>6, <2>7 DEF Completion
<1>5. ASSUME NEW h \in Handle, Exit(h) \/ HandoffStep(h)
      PROVE  /\ UNCHANGED pc
             /\ \A g \in Handle : handoff'[g] = "release" =>
                  handoff[g] = "release" \/ (run[g] # "unused" /\ info[g].role # "reviewer")
  BY <1>5 DEF Exit, HandoffStep, HandoffKill, HandoffRelease, HandoffRemove, Typed, TypeOK, Named
<1>6. ASSUME NEW c \in Caller, NEW role \in Role, NEW t \in Task, Request(c, role, t)
      PROVE  UNCHANGED handoff /\ \A h \in Handle : pc'[h] = pc[h]
  BY <1>6, HandleAssumption DEF Request, Goto, Typed, TypeOK
<1>7. CASE Install \/ HandoffSnapshot \/ UNCHANGED vars
  BY <1>7 DEF Install, HandoffSnapshot, vars
<1> HIDE DEF Ends
<1> QED
  BY <1>3, <1>4, <1>5, <1>6, <1>7 DEF Next

LEMMA NextReviews ==
  ASSUME ReviewsApart, Typed, Reviews, [Next]_vars
  PROVE  Reviews'
  BY NextSorted, NextRoles DEF Reviews

(* A step that registers no session and lets the gate forget none whose    *)
(* epic is still open keeps the reviews held.                              *)
LEMMA StepHolds ==
  ASSUME Typed, Reviews, Recorded, ReviewsHold, live' \subseteq live,
         \A k \in Reviewed : bead[k] = "closed" => bead'[k] = "closed",
         \A h \in live' : handoff'[h] = "no" => handoff[h] = "no",
         \A h \in live' : h \in tracked /\ handoff'[h] = "no"
                             => h \in tracked' \/ bead'[info[h].task] = "closed",
         \A t \in Thread : pc[t] = "note" =>
            \/ pc'[t] = "note" /\ want'[t] = want[t]
            \/ want[t].handle \in tracked'
  PROVE  ReviewsHold'
<1> SUFFICES ASSUME NEW h \in live', info'[h].role = "reviewer", bead'[info'[h].task] # "closed",
                    handoff'[h] = "no"
             PROVE  h \in tracked' \/ \E t \in Thread : pc'[t] = "note" /\ want'[t].handle = h
  BY DEF ReviewsHold
<1>1. h \in live /\ h \in Handle /\ info'[h] = info[h] /\ run[h] # "unused"
  BY DEF Typed, TypeOK, Named, Recorded
<1>2. bead[info[h].task] # "closed"
  BY <1>1 DEF Reviews, Sorted
<1>3. h \in tracked \/ \E t \in Thread : pc[t] = "note" /\ want[t].handle = h
  BY <1>1, <1>2 DEF ReviewsHold
<1> QED
  BY <1>1, <1>3

(* A reviewer's session that is registered is about to be told of.         *)
LEMMA RegisterHolds ==
  ASSUME Typed, Reviews, ReviewsHold, NEW t \in Thread, pc[t] \in {"add", "readd"},
         live' = live \cup {want[t].handle}, UNCHANGED <<info, bead, tracked, handoff>>,
         \A u \in Thread \ {t} : pc'[u] = pc[u] /\ want'[u] = want[u],
         info[want[t].handle].role = "reviewer" => pc'[t] = "note" /\ want'[t] = want[t]
  PROVE  ReviewsHold'
<1> SUFFICES ASSUME NEW h \in live', info[h].role = "reviewer", bead[info[h].task] # "closed",
                    handoff[h] = "no"
             PROVE  h \in tracked \/ \E u \in Thread : pc'[u] = "note" /\ want'[u].handle = h
  BY DEF ReviewsHold
<1>1. CASE h = want[t].handle
  BY <1>1
<1>2. CASE h # want[t].handle
  <2>1. h \in tracked \/ \E u \in Thread : pc[u] = "note" /\ want[u].handle = h
    BY <1>2 DEF ReviewsHold
  <2> QED
    BY <2>1
<1> QED
  BY <1>1, <1>2

LEMMA NextHolds ==
  ASSUME Typed, Links, Reviews, ReviewsHold, [Next]_vars
  PROVE  ReviewsHold'
<1> USE HandlesAreThreads
<1>1. Recorded /\ \A k \in Reviewed : bead[k] = "closed" => bead'[k] = "closed"
  BY NextRecords, NextShut
<1>2. ASSUME NEW t \in Thread, Admission(t) PROVE ReviewsHold'
  <2>1. \A u \in Thread \ {t} : pc'[u] = pc[u] /\ want'[u] = want[u]
    BY <1>2 DEF Admission, Admit, PickSeat, Claim, Run, Add, NoteSession, Refuse, Return, Goto,
                Typed, TypeOK
  <2>2. CASE Add(t)
    <3>1. /\ pc[t] = "add" /\ live' = live \cup {want[t].handle}
          /\ UNCHANGED <<info, bead, tracked, handoff>>
          /\ want[t].role = "reviewer" => pc'[t] = "note" /\ want'[t] = want[t]
      BY <2>2 DEF Add, Goto, Typed, TypeOK
    <3>2. info[want[t].handle].role = want[t].role
      BY <3>1 DEF Links, Linked
    <3> QED
      BY <2>1, <3>1, <3>2, RegisterHolds
  <2>3. CASE NoteSession(t)
    <3>1. /\ pc[t] = "note" /\ tracked' = tracked \cup {want[t].handle}
          /\ UNCHANGED <<live, handoff>>
      BY <2>3 DEF NoteSession
    <3> QED
      BY <1>1, <2>1, <3>1, StepHolds
  <2>4. CASE Admit(t) \/ PickSeat(t) \/ Claim(t) \/ Run(t)
    <3>1. pc[t] # "note" /\ UNCHANGED <<live, tracked, handoff>>
      BY <2>4 DEF Admit, PickSeat, Claim, Run
    <3> QED
      BY <1>1, <2>1, <3>1, StepHolds
  <2> QED
    BY <1>2, <2>2, <2>3, <2>4 DEF Admission
<1>3. ASSUME NEW h \in Handle, Completion(h) PROVE ReviewsHold'
  <2>1. /\ \A u \in Thread \ {h} : pc'[u] = pc[u] /\ want'[u] = want[u]
        /\ UNCHANGED handoff
    BY <1>3 DEF Completion, OnComplete, Land, DueEpic, CompleteReview, Approve, ClearEpic, Fail,
                Retry, AddRetry, Finish, GiveUp, Return, Goto, Typed, TypeOK
  <2>2. CASE AddRetry(h)
    <3>1. /\ pc[h] = "readd" /\ live' = live \cup {want[h].handle}
          /\ UNCHANGED <<info, bead, tracked>>
          /\ info[h].role = "reviewer" => pc'[h] = "note" /\ want'[h] = want[h]
      BY <2>2 DEF AddRetry, Goto, Typed, TypeOK
    <3>2. info[want[h].handle].role = info[h].role
      BY <3>1 DEF Links, Linked
    <3> QED
      BY <2>1, <3>1, <3>2, RegisterHolds
  <2>3. CASE OnComplete(h)
    <3>1. pc[h] = "idle" /\ live' \subseteq live /\ UNCHANGED tracked
      BY <2>3 DEF OnComplete
    <3> QED
      BY <1>1, <2>1, <3>1, StepHolds
  <2>4. CASE Land(h) \/ DueEpic(h) \/ CompleteReview(h) \/ Approve(h) \/ Fail(h) \/ Retry(h) \/ Finish(h)
    <3>1. /\ pc[h] \notin {"idle", "done", "note"}
          /\ tracked \subseteq tracked' \cup {h} /\ UNCHANGED live
      BY <2>4 DEF Land, DueEpic, CompleteReview, Approve, Fail, Retry, Finish, GiveUp
    <3>2. h \notin live
      BY <3>1 DEF Links, Left
    <3> QED
      BY <1>1, <2>1, <3>1, <3>2, StepHolds
  <2>5. CASE ClearEpic(h)
    <3>1. /\ pc[h] = "clear" /\ tracked' = {g \in tracked : info[g].task # info[h].task}
          /\ UNCHANGED <<live, bead>>
      BY <2>5 DEF ClearEpic
    <3>2. bead'[info[h].task] = "closed"
      BY <3>1 DEF Reviews, Cleared
    <3> QED
      BY <1>1, <2>1, <3>1, <3>2, StepHolds
  <2> QED
    BY <1>3, <2>2, <2>3, <2>4, <2>5 DEF Completion
<1>4. ASSUME NEW h \in Handle, Exit(h) \/ HandoffStep(h) PROVE ReviewsHold'
  <2>1. /\ UNCHANGED <<pc, want>> /\ live' \subseteq live
        /\ \A g \in live' : handoff'[g] = "no" => handoff[g] = "no"
        /\ \A g \in live' : g \in tracked /\ handoff'[g] = "no" => g \in tracked'
    BY <1>4 DEF Exit, HandoffStep, HandoffKill, HandoffRelease, HandoffRemove, Typed, TypeOK
  <2> QED
    BY <1>1, <2>1, StepHolds
<1>5. ASSUME NEW c \in Caller, NEW role \in Role, NEW t \in Task, Request(c, role, t)
      PROVE  ReviewsHold'
  <2>1. /\ pc[c] = "idle" /\ UNCHANGED <<live, tracked, handoff>>
        /\ \A u \in Thread \ {c} : pc'[u] = pc[u] /\ want'[u] = want[u]
    BY <1>5 DEF Request, Goto, Typed, TypeOK
  <2> QED
    BY <1>1, <2>1, StepHolds
<1>6. CASE Install \/ HandoffSnapshot \/ UNCHANGED vars
  <2>1. /\ UNCHANGED <<live, tracked, pc, want>>
        /\ \A h \in live' : handoff'[h] = "no" => handoff[h] = "no"
    BY <1>6 DEF Install, HandoffSnapshot, vars, Typed, TypeOK
  <2> QED
    BY <1>1, <2>1, StepHolds
<1> QED
  BY <1>2, <1>3, <1>4, <1>5, <1>6 DEF Next

(* While nobody is sent to work on the beads that are reviewed, the gate   *)
(* knows of every live review of an open epic, from when it has been told: *)
(* no completion, retry, verdict of another review or hard stop makes it   *)
(* forget one.                                                             *)
THEOREM LiveReviewsTracked ==
  ASSUME ReviewsApart
  PROVE  Spec => []ReviewsHold
<1>1. Init => Typed /\ Links /\ Reviews /\ ReviewsHold
  <2>1. Init => ReviewsHold
    BY DEF Init, ReviewsHold
  <2> QED
    BY <2>1, InitTyped, InitLinks, InitReviews
<1>2. Typed /\ Links /\ Reviews /\ ReviewsHold /\ [Next]_vars
        => (Typed /\ Links /\ Reviews /\ ReviewsHold)'
  BY NextTyped, NextLinks, NextReviews, NextHolds
<1> QED
  BY <1>1, <1>2, PTL DEF Spec

-----------------------------------------------------------------------------
(* The retries.                                                            *)
(*                                                                         *)
(* RetriesPaidFor is not inductive: a failed run may have been paid with   *)
(* already.  What is: a bead has no more retries than failed runs whose    *)
(* completion is past the start of its retry.  Only Retry adds a retry,    *)
(* and it takes the completion of a run that is not one there.             *)


Past == {"readd", "note", "finish", "done"}

Retries(t) == {h \in Used({"retry"}) : info[h].task = t}

Payable(t) == {h \in Used({"free", "named"}) : info[h].task = t /\ run[h] = "failed"}

Spent(t) == {h \in Payable(t) : pc[h] \in Past}

Failing ==
  \A h \in Handle :
    /\ pc[h] \in {"fail", "retry"} => run[h] = "failed"
    /\ pc[h] = "retry" => info[h].how # "retry"

Paid == \A t \in Task : Cardinality(Retries(t)) <= Cardinality(Spent(t))

LEMMA SpentIsFinite ==
  ASSUME NEW t \in Task
  PROVE  IsFiniteSet(Retries(t)) /\ IsFiniteSet(Payable(t)) /\ IsFiniteSet(Spent(t))
<1>1. Retries(t) \subseteq Handle /\ Payable(t) \subseteq Handle /\ Spent(t) \subseteq Handle
  BY DEF Retries, Payable, Spent, Used
<1> QED
  BY <1>1, HandleAssumption, FS_Subset

LEMMA InitPaid == Init => Failing /\ Paid
<1> SUFFICES ASSUME Init PROVE Failing /\ Paid
  OBVIOUS
<1>1. Failing
  BY HandlesAreThreads DEF Init, Failing
<1>2. ASSUME NEW t \in Task PROVE Cardinality(Retries(t)) <= Cardinality(Spent(t))
  <2>1. Retries(t) = {} /\ Spent(t) = {}
    BY DEF Init, Retries, Spent, Payable, Used
  <2> QED
    BY <2>1, FS_EmptySet
<1> QED
  BY <1>1, <1>2 DEF Paid

(* A step that starts no retry, keeps what failed and takes no completion  *)
(* back keeps the account.                                                 *)
LEMMA StepPaid ==
  ASSUME Typed, Paid,
         \A h \in Handle : run[h] # "unused" => run'[h] # "unused" /\ info'[h] = info[h],
         \A h \in Handle : run[h] = "failed" => run'[h] = "failed",
         \A h \in Handle : run[h] = "unused" /\ run'[h] # "unused" => info'[h].how # "retry",
         \A h \in Handle : pc[h] \in Past => pc'[h] \in Past
  PROVE  Paid'
<1> SUFFICES ASSUME NEW t \in Task
             PROVE  Cardinality(Retries(t)') <= Cardinality(Spent(t)')
  BY DEF Paid
<1>1. Retries(t)' = Retries(t)
  BY DEF Retries, Used
<1>2. Spent(t) \subseteq Spent(t)'
  BY DEF Spent, Payable, Used
<1>3. IsFiniteSet(Spent(t)') /\ IsFiniteSet(Spent(t)) /\ IsFiniteSet(Retries(t))
  <2>1. Spent(t)' \subseteq Handle
    BY DEF Spent, Payable, Used
  <2> QED
    BY <2>1, HandleAssumption, FS_Subset, SpentIsFinite
<1>4. Cardinality(Spent(t)) <= Cardinality(Spent(t)')
  BY <1>2, <1>3, FS_Subset
<1> QED
  BY <1>1, <1>3, <1>4, FS_CardinalityType DEF Paid

(* No step of a dispatch touches a completion or a run that has begun.     *)
LEMMA AdmissionPaid ==
  ASSUME Typed, Failing, Paid, NEW t \in Thread, Admission(t)
  PROVE  (Failing /\ Paid)'
<1> USE HandlesAreThreads
<1>1. /\ pc[t] \in Section \cup {"waiting", "note"}
      /\ pc'[t] \in Section \cup {"idle", "finish", "note"}
      /\ pc[t] = "note" /\ t \in Handle => pc'[t] = "finish"
      /\ \A u \in Thread \ {t} : pc'[u] = pc[u]
  BY DEF Admission, Admit, PickSeat, Claim, Run, Add, NoteSession, Refuse, Return, Goto,
         Section, Typed, TypeOK
<1>2. /\ \A h \in Handle : run[h] # "unused" => run'[h] = run[h] /\ info'[h] = info[h]
      /\ \A h \in Handle : run[h] = "unused" /\ run'[h] # "unused" => info'[h].how # "retry"
  <2>1. CASE Run(t)
    BY <2>1 DEF Run, Launch, Typed, TypeOK
  <2>2. CASE ~Run(t)
    BY <2>2 DEF Admission, Admit, PickSeat, Claim, Add, NoteSession
  <2> QED
    BY <2>1, <2>2
<1>3. Paid'
  <2>1. \A h \in Handle : pc[h] \in Past => pc'[h] \in Past
    BY <1>1 DEF Past, Section
  <2> QED
    BY <1>2, <2>1, StepPaid
<1>4. Failing'
  <2> SUFFICES ASSUME NEW h \in Handle, pc'[h] \in {"fail", "retry"}
               PROVE  run'[h] = "failed" /\ (pc'[h] = "retry" => info'[h].how # "retry")
    BY DEF Failing
  <2>1. pc'[h] = pc[h]
    BY <1>1 DEF Section
  <2> QED
    BY <1>2, <2>1 DEF Failing
<1> QED
  BY <1>3, <1>4

(* Retry starts at most one retry, of a run that failed and was not one.   *)
LEMMA RetryPaid ==
  ASSUME Typed, Failing, Paid, NEW h \in Handle, Retry(h)
  PROVE  (Failing /\ Paid)'
<1> USE HandlesAreThreads
<1>1. pc[h] = "retry" /\ run[h] = "failed" /\ info[h].how # "retry"
  BY DEF Retry, Failing
<1>2. CASE GiveUp(h) /\ UNCHANGED <<info, run, want>>
  <2>1. pc'[h] = "finish" /\ \A u \in Thread \ {h} : pc'[u] = pc[u]
    BY <1>2 DEF GiveUp, Goto, Typed, TypeOK
  <2>2. Failing'
    BY <1>2, <2>1 DEF Failing
  <2>3. \A k \in Handle : pc[k] \in Past => pc'[k] \in Past
    BY <2>1 DEF Past
  <2> QED
    BY <1>2, <2>2, <2>3, StepPaid
<1>3. ASSUME NEW g \in Handle,
             Launch(g, [task |-> info[h].task, role |-> info[h].role,
                        seat |-> info[h].seat, how |-> "retry"]),
             Goto(h, "readd")
      PROVE  (Failing /\ Paid)'
  <2>1. /\ run[g] = "unused" /\ run'[g] = "running" /\ g # h
        /\ info'[g].how = "retry" /\ info'[g].task = info[h].task
        /\ \A k \in Handle \ {g} : run'[k] = run[k] /\ info'[k] = info[k]
    BY <1>1, <1>3 DEF Launch, Typed, TypeOK
  <2>2. pc'[h] = "readd" /\ \A u \in Thread \ {h} : pc'[u] = pc[u]
    BY <1>3 DEF Goto, Typed, TypeOK
  <2>3. pc[g] = "idle"
    BY <2>1 DEF Typed, Named
  <2>4. Failing'
    BY <2>1, <2>2, <2>3 DEF Failing
  <2>5. ASSUME NEW t \in Task
        PROVE  Cardinality(Retries(t)') <= Cardinality(Spent(t)')
    <3>1. /\ IsFiniteSet(Spent(t)') /\ IsFiniteSet(Spent(t)) /\ IsFiniteSet(Retries(t))
      <4>1. Spent(t)' \subseteq Handle
        BY DEF Spent, Payable, Used
      <4> QED
        BY <4>1, HandleAssumption, FS_Subset, SpentIsFinite
    <3>2. Cardinality(Retries(t)) <= Cardinality(Spent(t))
      BY DEF Paid
    <3>3. Spent(t) \subseteq Spent(t)'
      BY <1>1, <2>1, <2>2 DEF Spent, Payable, Used, Past
    <3>4. CASE t # info[h].task
      <4>1. Retries(t)' = Retries(t)
        BY <2>1, <3>4 DEF Retries, Used
      <4>2. Cardinality(Spent(t)) <= Cardinality(Spent(t)')
        BY <3>1, <3>3, FS_Subset
      <4> QED
        BY <3>1, <3>2, <4>1, <4>2, FS_CardinalityType
    <3>5. CASE t = info[h].task
      <4>1. Retries(t)' = Retries(t) \cup {g} /\ g \notin Retries(t)
        BY <2>1, <3>5 DEF Retries, Used
      <4>2. h \notin Spent(t)
        BY <1>1 DEF Spent, Past
      <4>3. Spent(t) \cup {h} \subseteq Spent(t)'
        <5>1. info[h].how \in {"free", "named"}
          BY <1>1 DEF Typed, TypeOK
        <5>2. h \in Spent(t)'
          BY <1>1, <2>1, <2>2, <3>5, <5>1 DEF Spent, Payable, Used, Past
        <5> QED
          BY <3>3, <5>2
      <4>4. Cardinality(Spent(t) \cup {h}) <= Cardinality(Spent(t)')
        BY <3>1, <4>3, FS_Subset
      <4>5. /\ Cardinality(Spent(t) \cup {h}) = Cardinality(Spent(t)) + 1
            /\ Cardinality(Retries(t) \cup {g}) = Cardinality(Retries(t)) + 1
        BY <3>1, <4>1, <4>2, FS_AddElement
      <4> QED
        BY <3>1, <3>2, <4>1, <4>4, <4>5, FS_CardinalityType
    <3> QED
      BY <3>4, <3>5
  <2> QED
    BY <2>4, <2>5 DEF Paid
<1> QED
  BY <1>2, <1>3 DEF Retry

(* The other steps of a completion only move it on.                        *)
LEMMA CompletionPaid ==
  ASSUME Typed, Failing, Paid, NEW h \in Handle, Completion(h)
  PROVE  (Failing /\ Paid)'
<1> USE HandlesAreThreads
<1>1. CASE Retry(h)
  BY <1>1, RetryPaid
<1>2. CASE ~Retry(h)
  <2>1. /\ UNCHANGED <<info, run>>
        /\ \A u \in Thread \ {h} : pc'[u] = pc[u]
        /\ pc[h] \in Past => pc'[h] \in Past
        /\ pc'[h] \in {"fail", "retry"} => run[h] = "failed"
        /\ pc'[h] = "retry" => info[h].how # "retry"
    <3>1. CASE OnComplete(h)
      BY <3>1 DEF OnComplete, Goto, Past, Typed, TypeOK
    <3>2. CASE Land(h)
      BY <3>2 DEF Land, Goto, Past, Typed, TypeOK
    <3>3. CASE DueEpic(h) \/ CompleteReview(h) \/ Approve(h) \/ ClearEpic(h)
      BY <3>3 DEF DueEpic, CompleteReview, Approve, ClearEpic, Goto, Past, Typed, TypeOK
    <3>4. CASE Fail(h)
      BY <3>4 DEF Fail, GiveUp, Failing, Goto, Past, Typed, TypeOK
    <3>5. CASE AddRetry(h) \/ Finish(h)
      BY <3>5 DEF AddRetry, Finish, Return, Goto, Past, Typed, TypeOK
    <3> QED
      BY <1>2, <3>1, <3>2, <3>3, <3>4, <3>5 DEF Completion
  <2>2. Failing'
    BY <2>1 DEF Failing
  <2>3. Paid'
    BY <2>1, StepPaid
  <2> QED
    BY <2>2, <2>3
<1> QED
  BY <1>1, <1>2

LEMMA NextPaid ==
  ASSUME Typed, Failing, Paid, [Next]_vars
  PROVE  (Failing /\ Paid)'
<1> USE HandlesAreThreads
<1>1. CASE UNCHANGED <<info, run, pc>>
  BY <1>1, StepPaid DEF Failing
<1>2. ASSUME NEW c \in Caller, NEW role \in Role, NEW t \in Task, Request(c, role, t)
      PROVE  (Failing /\ Paid)'
  <2>1. UNCHANGED <<info, run>> /\ \A h \in Handle : pc'[h] = pc[h]
    BY <1>2, HandleAssumption DEF Request, Goto, Typed, TypeOK
  <2> QED
    BY <2>1, StepPaid DEF Failing
<1>3. ASSUME NEW h \in Handle, Exit(h) \/ HandoffStep(h)
      PROVE  (Failing /\ Paid)'
  <2>1. /\ UNCHANGED <<info, pc>>
        /\ \A k \in Handle : run[k] # "unused" => run'[k] # "unused"
        /\ \A k \in Handle : run[k] = "failed" => run'[k] = "failed"
        /\ \A k \in Handle : run[k] = "unused" => run'[k] = "unused"
    BY <1>3 DEF Exit, HandoffStep, HandoffKill, HandoffRelease, HandoffRemove, Typed, TypeOK
  <2> QED
    BY <2>1, StepPaid DEF Failing
<1>4. CASE Install \/ HandoffSnapshot \/ UNCHANGED vars
  BY <1>1, <1>4 DEF Install, HandoffSnapshot, vars
<1> QED
  BY <1>2, <1>3, <1>4, AdmissionPaid, CompletionPaid DEF Next

(* Every retry of a bead is paid for by a failed run that was not a retry, *)
(* whatever dispatches, repairs and hard stops happen meanwhile.           *)
THEOREM RetriesAreBounded == Spec => []RetriesPaidFor
<1>1. Init => Typed /\ Failing /\ Paid
  BY InitTyped, InitPaid
<1>2. Typed /\ Failing /\ Paid /\ [Next]_vars => (Typed /\ Failing /\ Paid)'
  BY NextTyped, NextPaid
<1>3. Typed /\ Failing /\ Paid => RetriesPaidFor
  <2> SUFFICES ASSUME Paid, NEW t \in Task
               PROVE  Cardinality(Retries(t)) <= Cardinality(Payable(t))
    BY DEF RetriesPaidFor, Retries, Payable
  <2>1. Cardinality(Retries(t)) <= Cardinality(Spent(t))
    BY DEF Paid
  <2>2. Cardinality(Spent(t)) <= Cardinality(Payable(t))
    <3>1. Spent(t) \subseteq Payable(t)
      BY DEF Spent
    <3> QED
      BY <3>1, SpentIsFinite, FS_Subset
  <2> QED
    BY <2>1, <2>2, SpentIsFinite, FS_CardinalityType
<1> QED
  BY <1>1, <1>2, <1>3, PTL DEF Spec

-----------------------------------------------------------------------------
(* The dispatcher hears of a run what Notification says.                   *)

(* A completion has begun of runs that ended only.                         *)
Over == \A h \in Handle : pc[h] # "idle" => run[h] \in {"completed", "failed"}

(* A step that neither starts nor ends a run nor begins a completion.      *)
LEMMA UnheardStep ==
  ASSUME Over, run' = run,
         \A h \in Handle : pc'[h] = "idle" <=> pc[h] = "idle"
  PROVE  Over' /\ UNCHANGED Notified!runState
  BY DEF Over, Notified!runState, Agent, Heard

(* A run that is launched has not been heard of.                           *)
Launched(g) == run[g] = "unused" /\ run' = [run EXCEPT ![g] = "running"]

LEMMA LaunchBegins ==
  ASSUME Typed, Over, NEW g \in Handle, Launched(g),
         \A h \in Handle : pc'[h] = "idle" <=> pc[h] = "idle"
  PROVE  Over' /\ Notified!Begin(g)
<1>1. pc[g] = "idle"
  BY DEF Over, Launched
<1>. QED  BY <1>1 DEF Launched, Over, Notified!Begin, Agent, Heard, Typed, TypeOK

(* A run that ends has not been heard of.                                  *)
LEMMA ExitEnds ==
  ASSUME Typed, Over, NEW h \in Handle, run[h] = "running",
         NEW status \in {"completed", "failed"},
         run' = [run EXCEPT ![h] = status], pc' = pc
  PROVE  Over' /\ Notified!End(h)
  BY DEF Over, Notified!End, Agent, Heard, Typed, TypeOK

LEMMA OnCompleteTells ==
  ASSUME Typed, Over, NEW h \in Handle, OnComplete(h)
  PROVE  Over' /\ Notified!Tell(h, run[h])
<1>1. /\ pc[h] = "idle" /\ run[h] \in {"completed", "failed"} /\ run' = run
      /\ pc'[h] # "idle" /\ \A g \in Handle \ {h} : pc'[g] = pc[g]
  BY HandlesAreThreads DEF OnComplete, Goto, Typed, TypeOK
<1>. QED  BY <1>1 DEF Over, Notified!Tell, Agent, Heard, Typed, TypeOK

LEMMA NextHears ==
  ASSUME Typed, Over, [Next]_vars
  PROVE  Over' /\ [Notified!Next]_Notified!runState
<1>. USE HandlesAreThreads
<1>1. ASSUME NEW t \in Thread, Admission(t)
      PROVE  Over' /\ [Notified!Next]_Notified!runState
  <2>1. \A h \in Handle : pc'[h] = "idle" <=> pc[h] = "idle"
    BY <1>1 DEF Admission, Admit, PickSeat, Claim, Run, Add, NoteSession, Refuse, Return, Goto,
                Typed, TypeOK
  <2>2. CASE \E g \in Handle : Launched(g)
    BY <2>1, <2>2, LaunchBegins DEF Notified!Next
  <2>3. CASE run' = run
    BY <2>1, <2>3, UnheardStep
  <2>. QED
    BY <1>1, <2>2, <2>3
    DEF Admission, Admit, PickSeat, Claim, Run, Add, NoteSession, Launch, Launched
<1>2. ASSUME NEW h \in Handle, Completion(h)
      PROVE  Over' /\ [Notified!Next]_Notified!runState
  <2>1. CASE OnComplete(h)
    BY <2>1, OnCompleteTells DEF OnComplete, Notified!Next
  <2>2. ASSUME ~OnComplete(h)
        PROVE  \A g \in Handle : pc'[g] = "idle" <=> pc[g] = "idle"
    BY <1>2, <2>2 DEF Completion, Land, DueEpic, CompleteReview, Approve, ClearEpic, Fail, GiveUp,
       Retry, AddRetry, Finish, Return, Goto, Typed, TypeOK
  <2>3. CASE ~OnComplete(h) /\ \E g \in Handle : Launched(g)
    BY <2>2, <2>3, LaunchBegins DEF Notified!Next
  <2>4. CASE ~OnComplete(h) /\ run' = run
    BY <2>2, <2>4, UnheardStep
  <2>. QED
    BY <1>2, <2>1, <2>3, <2>4 DEF Completion, Land, DueEpic, CompleteReview, Approve, ClearEpic,
       Fail, Retry, AddRetry, Finish, Launch, Launched
<1>3. ASSUME NEW h \in Handle, Exit(h)
      PROVE  Over' /\ [Notified!Next]_Notified!runState
  BY <1>3, ExitEnds DEF Exit, Notified!Next
<1>4. ASSUME NEW h \in Handle, HandoffKill(h)
      PROVE  Over' /\ [Notified!Next]_Notified!runState
  <2>1. CASE run' = run
    BY <1>4, <2>1, UnheardStep DEF HandoffKill
  <2>2. CASE run[h] = "running" /\ run' = [run EXCEPT ![h] = "failed"]
    BY <1>4, <2>2, ExitEnds DEF HandoffKill, Notified!Next
  <2>. QED  BY <1>4, <2>1, <2>2 DEF HandoffKill, Typed, TypeOK
<1>5. ASSUME NEW h \in Handle, HandoffRelease(h) \/ HandoffRemove(h)
      PROVE  Over' /\ [Notified!Next]_Notified!runState
  BY <1>5, UnheardStep DEF HandoffRelease, HandoffRemove
<1>6. ASSUME NEW c \in Caller, NEW role \in Role, NEW t \in Task, Request(c, role, t)
      PROVE  Over' /\ [Notified!Next]_Notified!runState
  <2>1. run' = run /\ \A h \in Handle : pc'[h] = pc[h]
    BY <1>6, HandleAssumption DEF Request, Goto, Typed, TypeOK
  <2>. QED  BY <2>1, UnheardStep
<1>7. CASE Install \/ HandoffSnapshot \/ UNCHANGED vars
  BY <1>7, UnheardStep DEF Install, HandoffSnapshot, vars
<1>. QED
  BY <1>1, <1>2, <1>3, <1>4, <1>5, <1>6, <1>7 DEF Next, HandoffStep

(* Of each run the dispatcher hears once, after its end.                   *)
THEOREM RunsHeardOnce == Spec => HearsOnce
<1>1. ASSUME Init
      PROVE  Over /\ Notified!Init
  <2>1. \A h \in Handle : pc[h] = "idle" /\ run[h] = "unused"
    BY <1>1, HandlesAreThreads DEF Init
  <2>. QED  BY <2>1 DEF Over, Notified!Init, Agent, Heard
<1>2. Typed /\ Over /\ [Next]_vars => Typed' /\ Over' /\ [Notified!Next]_Notified!runState
  BY NextTyped, NextHears
<1>. QED  BY <1>1, <1>2, InitTyped, PTL DEF Spec, HearsOnce, Notified!Spec

=============================================================================
