--------------------------- MODULE LifecycleProofs ---------------------------
(* Theorems about the dispatcher's life (Lifecycle), for any number of     *)
(* operators, sessions and starts, and about the life of the agents it     *)
(* runs (Runtime), for any handles, length of output and window.           *)
EXTENDS Lifecycle, Runtime, TLAPS

\* The stages of a request that holds lifecycleMu.
Holding == {"first", "flags", "haltFlags", "empty", "drain"}

(* Who holds the lock is inside it, and nobody else is.                    *)
Held ==
  /\ \A o \in Operator : pc[o] \in Holding => mu = o
  /\ mu # Free => pc[mu] \in Holding

(* Only contexts that were made are cancelled, tick or are polled; only a  *)
(* running dispatcher has one that is not cancelled, and it is the newest. *)
Contexts ==
  /\ cancelled \subseteq 1 .. gen
  /\ \A g \in Gen : tick[g] # "none" \/ g \in polling => g \in 1 .. gen
  /\ \A g \in 1 .. gen : g \notin cancelled => running /\ g = gen
  /\ running => gen \in Gen /\ gen \notin cancelled

(* The newest context is polled as soon as its Start is done.              *)
Polled ==
  /\ \A o \in Operator : pc[o] = "first" => running
  /\ running /\ (\A o \in Operator : pc[o] # "first") => gen \in polling

Inv == TypeOK /\ Held /\ Contexts /\ Polled

LEMMA InitInv == Init => Inv
<1> SUFFICES ASSUME Init PROVE Inv
  OBVIOUS
<1>1. TypeOK
  <2>1. gen \in 0 .. Starts
    BY StartsAssumption DEF Init
  <2>2. pc \in [Operator -> {"idle", "start", "first", "stop", "halt", "flags",
                          "haltFlags", "empty", "drain", "snapshot", "handoff",
                          "check", "close"}]
    BY DEF Init
  <2> QED
    BY <2>1, <2>2 DEF Init, TypeOK
<1>2. Held /\ Contexts /\ Polled
  BY StartsAssumption DEF Init, Held, Contexts, Polled, Holding, Gen
<1> QED
  BY <1>1, <1>2 DEF Inv

-----------------------------------------------------------------------------
(* Types.                                                                  *)

LEMMA NewestIsMade ==
  ASSUME Inv, running
  PROVE  gen \in Gen
  BY DEF Inv, Contexts

LEMMA LaunchTyped ==
  ASSUME TypeOK, NEW x \in Caller \cup Gen, Launch(x)
  PROVE  /\ session' \in [Handle -> {"none", "launched", "live", "landing", "check",
                                    "close", "done"}]
         /\ proc' \in [Handle -> {"none", "running", "ended", "cut", "notified"}]
         /\ by' \in [Handle -> Caller \cup Gen \cup {Nobody}]
  BY DEF TypeOK, Launch, Become

LEMMA ServeTyped ==
  ASSUME Inv, NEW o \in Operator, Ask(o) \/ Serve(o)
  PROVE  TypeOK'
<1> USE DEF TypeOK, Goto, Become, control, ticking, sessions, drains
<1> TypeOK
  BY DEF Inv
<1>1. CASE AskStart(o)
  BY <1>1 DEF AskStart
<1>2. CASE AskStop(o, TRUE) \/ AskStop(o, FALSE)
  BY <1>2 DEF AskStop
<1>3. CASE Start(o)
  <2>1. CASE ~running /\ gen < Starts
    <3>1. gen + 1 \in Gen /\ gen + 1 \in 0 .. Starts
      BY <2>1, StartsAssumption DEF Gen
    <3> QED
      BY <1>3, <2>1, <3>1, StartsAssumption DEF Start, ClearFreeze
  <2>2. CASE ~(~running /\ gen < Starts)
    BY <1>3, <2>2, StartsAssumption DEF Start
  <2> QED
    BY <2>1, <2>2
<1>4. CASE StartPolling(o)
  <2>1. gen \in Gen
    BY <1>4, NewestIsMade DEF StartPolling, Inv, Polled
  <2> QED
    BY <1>4, <2>1 DEF StartPolling
<1>5. CASE Stop(o)
  BY <1>5, NewestIsMade DEF Stop
<1>6. CASE StopFlags(o) \/ StopEmpty(o) \/ StopDrain(o)
  BY <1>6 DEF StopFlags, StopEmpty, StopDrain, Live
<1>7. CASE HandoffSnapshot(o) \/ HandoffEnd(o) \/ HandoffCheck(o) \/ HandoffClose(o)
  BY <1>7 DEF HandoffSnapshot, HandoffEnd, HandoffCheck, HandoffClose, CloseDrain, Live
<1>8. ASSUME NEW h \in Handle, HandoffKill(o, h) \/ HandoffRemove(o, h)
      PROVE  TypeOK'
  BY <1>8 DEF HandoffKill, HandoffRemove
<1> QED
  BY <1>1, <1>2, <1>3, <1>4, <1>5, <1>6, <1>7, <1>8 DEF Ask, Serve

LEMMA TickTyped ==
  ASSUME Inv, NEW g \in Gen, Fire(g) \/ Poll(g) \/ Tick(g)
  PROVE  TypeOK'
<1> USE DEF TypeOK, control, ticking, sessions, drains
<1> TypeOK
  BY DEF Inv
<1>1. CASE Fire(g) \/ Poll(g)
  BY <1>1 DEF Fire, Poll
<1>2. CASE TickEnter(g) \/ TickLeave(g)
  BY <1>2 DEF TickEnter, TickLeave
<1>3. CASE TickLaunch(g)
  BY <1>3, LaunchTyped DEF TickLaunch
<1> QED
  BY <1>1, <1>2, <1>3 DEF Tick

LEMMA SessionTyped ==
  ASSUME Inv, NEW h \in Handle,
         Add(h) \/ AgentExits(h) \/ TerminateOnCancel(h) \/ Completion(h)
  PROVE  TypeOK'
<1> USE DEF TypeOK, Become, control, ticking, sessions, drains
<1> TypeOK
  BY DEF Inv
<1>1. CASE Add(h)
  BY <1>1 DEF Add
<1>2. CASE AgentExits(h) \/ TerminateOnCancel(h) \/ OnComplete(h) \/ Landed(h)
  BY <1>2 DEF AgentExits, TerminateOnCancel, OnComplete, Landed
<1>3. CASE Check(h) \/ Close(h)
  BY <1>3 DEF Check, Close, CloseDrain
<1> QED
  BY <1>1, <1>2, <1>3 DEF Completion

-----------------------------------------------------------------------------
(* The lock and the contexts.                                              *)

(* Whoever is outside the lock before and after a step, and changes        *)
(* neither the lock nor a context, keeps the invariants of both.           *)
LEMMA OutsideStep ==
  ASSUME Inv, NEW o \in Operator,
         pc[o] \notin Holding, pc' = [pc EXCEPT ![o] = pc'[o]], pc'[o] \notin Holding,
         UNCHANGED <<mu, running, gen, cancelled, polling, tick>>
  PROVE  Held' /\ Contexts' /\ Polled'
  BY DEF Inv, TypeOK, Held, Contexts, Polled, Holding

(* A step that changes no request either keeps them all the more.          *)
LEMMA ControlKept ==
  ASSUME Inv, UNCHANGED <<mu, running, gen, cancelled, polling, tick, pc>>
  PROVE  Held' /\ Contexts' /\ Polled'
  BY DEF Inv, Held, Contexts, Polled, Holding

LEMMA ServeHeld ==
  ASSUME Inv, NEW o \in Operator, Ask(o) \/ Serve(o)
  PROVE  Held' /\ Contexts' /\ Polled'
<1> USE DEF Goto, control, ticking, sessions, drains
<1> TypeOK /\ Held /\ Contexts /\ Polled
  BY DEF Inv
<1>1. CASE AskStart(o) \/ AskStop(o, TRUE) \/ AskStop(o, FALSE)
  BY <1>1, OutsideStep DEF AskStart, AskStop, Holding, TypeOK
<1>2. CASE Start(o)
  <2>1. CASE pc'[o] = "idle" /\ UNCHANGED <<mu, running, gen, tick>>
    BY <1>2, <2>1, OutsideStep DEF Start, Holding, TypeOK
  <2>2. CASE ~running /\ gen < Starts
    <3>1. gen + 1 \in Gen /\ gen' = gen + 1 /\ 1 .. gen' = 1 .. gen \cup {gen'}
          /\ gen' \notin 1 .. gen
      BY <1>2, <2>2, StartsAssumption DEF Start, Gen, TypeOK
    <3>2. 1 .. gen \subseteq cancelled
      BY <2>2 DEF Contexts
    <3>3. Held'
      BY <1>2, <2>2, ActorAssumption DEF Start, Held, Holding, TypeOK
    <3>4. Contexts'
      BY <1>2, <2>2, <3>1, <3>2 DEF Start, Contexts, TypeOK
    <3>5. Polled'
      BY <1>2, <2>2 DEF Start, Polled, TypeOK
    <3> QED
      BY <3>3, <3>4, <3>5
  <2> QED
    BY <1>2, <2>1, <2>2 DEF Start, TypeOK
<1>3. CASE StartPolling(o)
  <2>1. running /\ mu = o /\ gen \in Gen
    BY <1>3, NewestIsMade DEF StartPolling, Held, Holding, Polled
  <2>2. Held'
    BY <1>3, <2>1 DEF StartPolling, Held, Holding, TypeOK
  <2>3. Contexts'
    BY <1>3, <2>1, StartsAssumption DEF StartPolling, Contexts, TypeOK, Gen
  <2>4. Polled'
    BY <1>3, <2>1 DEF StartPolling, Polled, TypeOK
  <2> QED
    BY <2>2, <2>3, <2>4
<1>4. CASE Stop(o)
  <2>1. \A p \in Operator : pc[p] \notin Holding
    BY <1>4, ActorAssumption DEF Stop, Held
  <2>2. Held'
    BY <1>4, <2>1, ActorAssumption DEF Stop, Held, Holding, TypeOK
  <2>3. Contexts'
    BY <1>4, StartsAssumption DEF Stop, Contexts, TypeOK, Gen
  <2>4. Polled'
    BY <1>4, <2>1 DEF Stop, Polled, Holding, TypeOK
  <2> QED
    BY <2>2, <2>3, <2>4
<1>5. CASE StopFlags(o) \/ StopEmpty(o) \/ StopDrain(o)
  <2>1. mu = o
    BY <1>5 DEF StopFlags, StopEmpty, StopDrain, Held, Holding
  <2>2. Held'
    BY <1>5, <2>1 DEF StopFlags, StopEmpty, StopDrain, Held, Holding, TypeOK
  <2>3. Contexts'
    <3>1. UNCHANGED <<running, gen, cancelled, polling, tick>>
      BY <1>5 DEF StopFlags, StopEmpty, StopDrain
    <3> QED
      BY <3>1 DEF Contexts
  <2>4. Polled'
    BY <1>5 DEF StopFlags, StopEmpty, StopDrain, Polled, TypeOK
  <2> QED
    BY <2>2, <2>3, <2>4
<1>6. CASE HandoffSnapshot(o) \/ HandoffEnd(o) \/ HandoffCheck(o) \/ HandoffClose(o)
  BY <1>6, OutsideStep
  DEF HandoffSnapshot, HandoffEnd, HandoffCheck, HandoffClose, Holding, TypeOK
<1>7. ASSUME NEW h \in Handle, HandoffKill(o, h) \/ HandoffRemove(o, h)
      PROVE  Held' /\ Contexts' /\ Polled'
  BY <1>7, ControlKept DEF HandoffKill, HandoffRemove
<1> QED
  BY <1>1, <1>2, <1>3, <1>4, <1>5, <1>6, <1>7 DEF Ask, Serve

LEMMA TickHeld ==
  ASSUME Inv, NEW g \in Gen, Fire(g) \/ Poll(g) \/ Tick(g)
  PROVE  Held' /\ Contexts' /\ Polled'
<1> USE DEF control, ticking, sessions, drains
<1> TypeOK /\ Held /\ Contexts /\ Polled
  BY DEF Inv
<1>1. CASE Fire(g) \/ TickLaunch(g)
  BY <1>1, ControlKept DEF Fire, TickLaunch
<1>2. CASE Poll(g) \/ TickEnter(g) \/ TickLeave(g)
  <2>1. Held'
    BY <1>2 DEF Poll, TickEnter, TickLeave, Held
  <2>2. Contexts'
    <3>1. g \in 1 .. gen
      BY <1>2 DEF Poll, TickEnter, TickLeave, Contexts
    <3>2. UNCHANGED <<running, gen, cancelled>>
      BY <1>2 DEF Poll, TickEnter, TickLeave
    <3>3. polling' \subseteq polling /\ \A f \in Gen : f = g \/ tick'[f] = tick[f]
      BY <1>2 DEF Poll, TickEnter, TickLeave, TypeOK
    <3> QED
      BY <3>1, <3>2, <3>3 DEF Contexts
  <2>3. Polled'
    BY <1>2 DEF Poll, TickEnter, TickLeave, Polled, Contexts
  <2> QED
    BY <2>1, <2>2, <2>3
<1> QED
  BY <1>1, <1>2 DEF Tick

LEMMA SessionHeld ==
  ASSUME Inv, NEW h \in Handle,
         Add(h) \/ AgentExits(h) \/ TerminateOnCancel(h) \/ Completion(h)
  PROVE  Held' /\ Contexts' /\ Polled'
<1> QED
  BY ControlKept
  DEF Add, AgentExits, TerminateOnCancel, Completion, OnComplete, Landed, Check, Close,
      control, ticking, sessions, drains

(* A dispatch touches neither the lock nor the contexts.                   *)
LEMMA DispatchInv ==
  ASSUME Inv, NEW c \in Caller, Dispatch(c)
  PROVE  Inv'
<1>1. TypeOK'
  BY LaunchTyped DEF Inv, TypeOK, Dispatch, control, ticking, drains
<1>2. Held' /\ Contexts' /\ Polled'
  BY ControlKept DEF Dispatch, control, ticking
<1> QED
  BY <1>1, <1>2 DEF Inv

-----------------------------------------------------------------------------

LEMMA NextInv == Inv /\ [Next]_vars => Inv'
<1> SUFFICES ASSUME Inv, [Next]_vars PROVE Inv'
  OBVIOUS
<1>1. ASSUME NEW o \in Operator, Ask(o) \/ Serve(o) PROVE Inv'
  BY <1>1, ServeTyped, ServeHeld DEF Inv
<1>2. ASSUME NEW g \in Gen, Fire(g) \/ Poll(g) \/ Tick(g) PROVE Inv'
  BY <1>2, TickTyped, TickHeld DEF Inv
<1>3. ASSUME NEW h \in Handle,
             Add(h) \/ AgentExits(h) \/ TerminateOnCancel(h) \/ Completion(h)
      PROVE  Inv'
  BY <1>3, SessionTyped, SessionHeld DEF Inv
<1>4. CASE UNCHANGED vars
  BY <1>4 DEF vars, Inv, TypeOK, Held, Contexts, Polled, Holding
<1> QED
  BY <1>1, <1>2, <1>3, <1>4, DispatchInv DEF Next

LEMMA SpecInv == Spec => []Inv
  BY InitInv, NextInv, PTL DEF Spec

(* Every variable keeps its type; in particular the drain channel is never *)
(* closed twice, which would panic.                                        *)
THEOREM LifecycleTyped == Spec => []TypeOK
<1>1. Inv => TypeOK
  BY DEF Inv
<1> QED
  BY <1>1, SpecInv, PTL

(* A running dispatcher between two requests has exactly one context that  *)
(* is not cancelled, and somebody polls it, whatever starts and stops      *)
(* operators race: Start's and Stop's work under lifecycleMu.              *)
THEOREM SchedulerIsUnique == Spec => []OnePoller
<1>1. Inv => OnePoller
  <2> SUFFICES ASSUME Inv, mu = Free
               PROVE  /\ 1 .. gen \ cancelled = IF running THEN {gen} ELSE {}
                      /\ running => gen \in polling
    BY DEF OnePoller
  <2>1. \A o \in Operator : pc[o] # "first"
    BY ActorAssumption DEF Inv, Held, Holding
  <2>2. running => gen \in 1 .. gen /\ gen \notin cancelled
    BY StartsAssumption DEF Inv, TypeOK, Contexts, Gen
  <2> QED
    BY <2>1, <2>2 DEF Inv, Contexts, Polled
<1> QED
  BY <1>1, SpecInv, PTL

(* Two ticks never work under contexts that are both alive.                *)
THEOREM TicksAreSerial == Spec => []OneLiveTick
<1>1. Inv => OneLiveTick
  BY DEF Inv, Contexts, OneLiveTick
<1> QED
  BY <1>1, SpecInv, PTL

(* Only a running dispatcher's tick launches a session.                    *)
THEOREM StopStops == Spec => StoppedStaysStopped
<1>1. Inv /\ [Next]_vars
        => [\A h \in Handle : by[h] = Nobody /\ by'[h] \in Gen => running]_vars
  <2> SUFFICES ASSUME Inv, Next, NEW h \in Handle, by[h] = Nobody, by'[h] \in Gen
               PROVE  running
    BY DEF vars
  <2> USE DEF control, ticking, sessions, drains, Inv, TypeOK, Launch
  <2>1. ASSUME NEW o \in Operator, Ask(o) \/ Serve(o) PROVE running
    BY <2>1, ActorAssumption
    DEF Ask, AskStart, AskStop, Serve, Start, StartPolling, Stop, StopFlags,
        StopEmpty, StopDrain, HandoffSnapshot, HandoffEnd, HandoffCheck, HandoffClose,
        HandoffKill, HandoffRemove
  <2>2. ASSUME NEW g \in Gen, Fire(g) \/ Poll(g) \/ Tick(g) PROVE running
    BY <2>2, ActorAssumption
    DEF Fire, Poll, Tick, TickEnter, TickLaunch, TickLeave, Contexts
  <2>3. ASSUME NEW g \in Handle,
               Add(g) \/ AgentExits(g) \/ TerminateOnCancel(g) \/ Completion(g)
        PROVE  running
    BY <2>3, ActorAssumption
    DEF Add, AgentExits, TerminateOnCancel, Completion, OnComplete, Landed, Check, Close
  <2>4. ASSUME NEW c \in Caller, Dispatch(c) PROVE running
    BY <2>4, ActorAssumption DEF Dispatch
  <2> QED
    BY <2>1, <2>2, <2>3, <2>4 DEF Next
<1> QED
  BY <1>1, SpecInv, PTL DEF Spec, StoppedStaysStopped

-----------------------------------------------------------------------------
(* The agents it runs (Runtime).  The verdict is written by collect alone, *)
(* before anybody is told (Classified); a Delete marks the run, and the    *)
(* marks of a judged run say nothing new.                                  *)

\* The agent has not been started.
Unborn(h) == launch[h] \in {"new", "refused"}
\* collect has judged the run.
Judged(h) == collect[h] \in {"notify", "listen", "done"}

(* RuntimeTypeOK, in the parts that its preservation is proved by.         *)
Places ==
  /\ launch \in [Handles -> {"new", "refused", "started", "owned", "added"}]
  /\ kind \in [Handles -> Kinds]
  /\ leader \in [Handles -> {"none", "alive", "zero", "other"}]
  /\ collect \in [Handles -> {"none", "wait", "notify", "listen", "done"}]
  /\ status \in [Handles -> Verdicts \cup {"running"}]
  /\ told \in [Handles -> Verdicts \cup {"none"}]
  /\ outcome \in [Handles -> {"none", "early", "landing", "failed"}]

Flags ==
  /\ kid \in [Handles -> BOOLEAN] /\ waited \in [Handles -> BOOLEAN]
  /\ marked \in [Handles -> BOOLEAN] /\ stored \in [Handles -> BOOLEAN]
  /\ owned \in [Handles -> BOOLEAN] /\ live \in [Handles -> BOOLEAN]
  /\ signalled \in [Handles -> BOOLEAN]

Output ==
  /\ written \in [Handles -> Seq(Lines)] /\ read \in [Handles -> Nat]
  /\ \A h \in Handles : read[h] <= Len(written[h]) /\ Len(written[h]) <= MaxLines

Calls ==
  /\ holder \in [Handles -> Callers \cup {"free"}]
  /\ call \in [Callers -> [Handles -> Stages]]

(* An agent that was started has a collector, one that was waited for has  *)
(* ended.                                                                  *)
Born == \A h \in Handles :
  /\ leader[h] = "none" <=> Unborn(h)
  /\ collect[h] = "none" <=> Unborn(h)
  /\ waited[h] => Ended(h)

(* A run is judged when its agent has been waited for, and stays judged.   *)
Classified == \A h \in Handles :
  Judged(h) => waited[h] /\ marked[h] /\ status[h] \in Verdicts

(* What the listener was told is what the adapter has recorded.            *)
Final == \A h \in Handles :
  told[h] # "none" => collect[h] \in {"listen", "done"} /\ told[h] = status[h]

RuntimeInv == Places /\ Flags /\ Output /\ Calls /\ Born /\ Classified /\ Final

(* The parts are the type invariant.                                       *)
LEMMA RuntimeParts == RuntimeTypeOK <=> Places /\ Flags /\ Output /\ Calls
<1>1. (\A f \in {kid, waited, marked, stored, owned, live, signalled} :
         f \in [Handles -> BOOLEAN]) <=> Flags
  BY Zenon DEF Flags
<1>. QED  BY <1>1, Zenon DEF RuntimeTypeOK, Places, Output, Calls

(* Both classifiers give a verdict, whatever the output.                   *)
LEMMA Verdict ==
  ASSUME NEW h \in Handles
  PROVE  Classify(h) \in Verdicts
  BY DEF Classify, KiroClassify, OpencodeClassify, ScannerStatus, Verdicts

LEMMA RuntimeStart == RuntimeInit => RuntimeInv
<1>. SUFFICES ASSUME RuntimeInit PROVE RuntimeInv
  OBVIOUS
<1>1. Places /\ Flags /\ Calls
  BY DEF RuntimeInit, Places, Flags, Calls, Verdicts, Stages, Callers, Kinds
<1>2. Output
  BY RuntimeAssumption DEF RuntimeInit, Output
<1>3. Born /\ Classified /\ Final
  BY DEF RuntimeInit, Born, Classified, Final, Unborn, Judged
<1>. QED  BY <1>1, <1>2, <1>3 DEF RuntimeInv

(* What Next does to one handle.                                           *)
RunStep(h) ==
       \/ Refuse(h) \/ AdapterRun(h) \/ Own(h) \/ RegistryAdd(h)
       \/ AgentStep(h) \/ Copy(h) \/ CollectStep(h)
       \/ HandoffDeletes(h) \/ HandoffReturns(h) \/ Cancel(h)
       \/ \E c \in Callers : CallerStep(c, h)

LEMMA StagesKept ==
  ASSUME RuntimeInv, NEW h \in Handles, RunStep(h)
  PROVE  Places'
<1>. USE DEF RuntimeInv, Places, Set
<1>1. CASE Refuse(h) \/ AdapterRun(h) \/ Own(h) \/ RegistryAdd(h) \/ HandoffReturns(h)
  BY <1>1 DEF Refuse, AdapterRun, Own, RegistryAdd, HandoffReturns, StartProcess,
     process, adapter, owner
<1>2. CASE AgentStep(h) \/ Copy(h)
  BY <1>2 DEF AgentStep, Copy, Write, Exit, KidExits, adapter, owner
<1>3. CASE CollectStep(h)
  <2>1. CASE Collect(h)
    BY <2>1, Verdict DEF Collect, process, owner
  <2>2. CASE Notify(h)
    BY <2>2 DEF Notify, Classified, Judged, process, adapter
  <2>3. CASE Listen(h)
    <3>1. PICK o \in Diff(h) :
            outcome' = Set(outcome, h, IF told[h] = "completed" THEN o ELSE "failed")
      BY <2>3 DEF Listen
    <3>2. o \in {"landing", "failed"}
      BY DEF Diff
    <3>. QED  BY <2>3, <3>1, <3>2 DEF Listen, process, adapter, owner
  <2>4. CASE Wait(h) \/ ListenerDeletes(h) \/ ListenerReturns(h)
    BY <2>4 DEF Wait, ListenerDeletes, DeleteBegins, ListenerReturns, process, adapter,
       owner
  <2>. QED  BY <1>3, <2>1, <2>2, <2>3, <2>4 DEF CollectStep
<1>4. CASE HandoffDeletes(h) \/ Cancel(h)
  BY <1>4 DEF HandoffDeletes, DeleteBegins, Cancel, process, adapter, owner
<1>5. CASE \E c \in Callers : CallerStep(c, h)
  BY <1>5 DEF CallerStep, TerminateNothing, Terminate, Gone, Kill, Survivor, Forget,
     process, adapter, owner
<1>. QED  BY <1>1, <1>2, <1>3, <1>4, <1>5 DEF RunStep

LEMMA FlagsKept ==
  ASSUME RuntimeInv, NEW h \in Handles, RunStep(h)
  PROVE  Flags'
<1>. USE DEF RuntimeInv, Flags, Set
<1>1. CASE Refuse(h) \/ AdapterRun(h) \/ Own(h) \/ RegistryAdd(h) \/ HandoffReturns(h)
  BY <1>1 DEF Refuse, AdapterRun, Own, RegistryAdd, HandoffReturns, StartProcess, StoreAdd,
     process, adapter, owner
<1>2. CASE AgentStep(h) \/ Copy(h)
  BY <1>2 DEF AgentStep, Copy, Write, Exit, KidExits, adapter, owner
<1>3. CASE CollectStep(h)
  BY <1>3 DEF CollectStep, Wait, Collect, Notify, Listen, ListenerDeletes, DeleteBegins,
     ListenerReturns, process, adapter, owner
<1>4. CASE HandoffDeletes(h) \/ Cancel(h)
  BY <1>4 DEF HandoffDeletes, DeleteBegins, Cancel, process, adapter, owner
<1>5. CASE \E c \in Callers : CallerStep(c, h)
  BY <1>5 DEF CallerStep, TerminateNothing, Terminate, Gone, Kill, Survivor, Forget,
     StoreDelete, process, adapter, owner
<1>. QED  BY <1>1, <1>2, <1>3, <1>4, <1>5 DEF RunStep

LEMMA OutputKept ==
  ASSUME RuntimeInv, NEW h \in Handles, RunStep(h)
  PROVE  Output'
<1>. USE RuntimeAssumption DEF RuntimeInv, Output, Set
<1>1. CASE UNCHANGED <<written, read>>
  BY <1>1
<1>2. CASE \E line \in Lines : Write(h, line)
  <2>1. PICK line \in Lines : Write(h, line)
    BY <1>2
  <2>2. /\ Append(written[h], line) \in Seq(Lines)
        /\ Len(Append(written[h], line)) = Len(written[h]) + 1
        /\ Len(written[h]) \in Nat
    OBVIOUS
  <2>. QED  BY <2>1, <2>2 DEF Write
<1>3. CASE Copy(h)
  <2>1. \A g \in Handles : Len(written[g]) \in Nat
    OBVIOUS
  <2>. QED  BY <1>3, <2>1 DEF Copy
<1>. QED
  BY <1>1, <1>2, <1>3 DEF RunStep, process, adapter, owner,
   Refuse, AdapterRun, Own, RegistryAdd, HandoffReturns, AgentStep, Exit, KidExits,
   CollectStep, Wait, Collect, Notify, Listen, ListenerDeletes, DeleteBegins,
   ListenerReturns,
   HandoffDeletes, Cancel, CallerStep, TerminateNothing, Terminate, Gone, Kill, Survivor,
   Forget

LEMMA CallsKept ==
  ASSUME RuntimeInv, NEW h \in Handles, RunStep(h)
  PROVE  Calls'
<1>. USE DEF RuntimeInv, Calls, Set
<1>1. CASE UNCHANGED <<holder, call>>
  BY <1>1
<1>2. CASE ListenerDeletes(h) \/ HandoffDeletes(h) \/ Cancel(h)
  BY <1>2 DEF ListenerDeletes, HandoffDeletes, DeleteBegins, Cancel, At, Callers, Stages,
     process
<1>3. CASE \E c \in Callers : CallerStep(c, h)
  BY <1>3 DEF CallerStep, TerminateNothing, Terminate, Gone, Kill, Survivor, Forget, At,
     AfterTerminate, Stages, process
<1>. QED
  BY <1>1, <1>2, <1>3 DEF RunStep, process, adapter, owner,
   Refuse, AdapterRun, Own, RegistryAdd, HandoffReturns, AgentStep, Write, Exit, KidExits,
   Copy,
   CollectStep, Wait, Collect, Notify, Listen, ListenerReturns

LEMMA StateKept ==
  ASSUME RuntimeInv, NEW h \in Handles, RunStep(h)
  PROVE  (Born /\ Classified /\ Final)'
<1>. USE DEF RuntimeInv, Places, Flags, Born, Classified, Final, Unborn, Judged, Ended, Set
<1>1. CASE Refuse(h) \/ AdapterRun(h) \/ Own(h) \/ RegistryAdd(h) \/ HandoffReturns(h)
  BY <1>1 DEF Refuse, AdapterRun, Own, RegistryAdd, HandoffReturns, StartProcess, process,
     adapter, owner
<1>2. CASE AgentStep(h) \/ Copy(h)
  BY <1>2 DEF AgentStep, Copy, Write, Exit, KidExits, Alive, adapter, owner
<1>3. CASE CollectStep(h)
  BY <1>3, Verdict DEF CollectStep, Wait, Collect, Notify, Listen, ListenerDeletes,
     DeleteBegins, ListenerReturns, process, adapter, owner
<1>4. CASE HandoffDeletes(h) \/ Cancel(h)
  BY <1>4 DEF HandoffDeletes, DeleteBegins, Cancel, process, adapter, owner
<1>5. CASE \E c \in Callers : CallerStep(c, h)
  BY <1>5 DEF CallerStep, TerminateNothing, Terminate, Gone, Kill, Survivor, Forget, Alive,
     process, adapter, owner
<1>. QED  BY <1>1, <1>2, <1>3, <1>4, <1>5 DEF RunStep

(* Every step keeps the invariant.                                         *)
LEMMA RuntimeKept == RuntimeInv /\ [RuntimeNext]_runtimeVars => RuntimeInv'
<1>. SUFFICES ASSUME RuntimeInv, [RuntimeNext]_runtimeVars PROVE RuntimeInv'
  OBVIOUS
<1>1. CASE \E h \in Handles : RunStep(h)
  BY <1>1, StagesKept, FlagsKept, OutputKept, CallsKept, StateKept DEF RuntimeInv
<1>2. CASE UNCHANGED runtimeVars
  BY <1>2 DEF RuntimeInv, Places, Flags, Output, Calls, Born, Classified, Final, Unborn,
     Judged,
              Ended, runtimeVars, process, adapter, owner
<1>. QED  BY <1>1, <1>2 DEF RuntimeNext, RunStep

LEMMA RuntimeAlways == RuntimeSpec => []RuntimeInv
  BY RuntimeStart, RuntimeKept, PTL DEF RuntimeSpec

(* Every variable of the runtime keeps its type.                           *)
THEOREM RuntimeTyped == RuntimeSpec => []RuntimeTypeOK
<1>1. RuntimeInv => RuntimeTypeOK
  BY RuntimeParts DEF RuntimeInv
<1>. QED  BY <1>1, RuntimeAlways, PTL

LEMMA FinalIsOneVerdict == RuntimeInv => OneVerdict
<1>. SUFFICES ASSUME RuntimeInv, NEW h \in Handles, told[h] # "none"
              PROVE  Ended(h) /\ (stored[h] => Complete(h) = told[h])
  BY DEF OneVerdict
<1>1. Judged(h) /\ waited[h] /\ marked[h] /\ told[h] = status[h] /\ Ended(h)
  BY DEF RuntimeInv, Born, Classified, Final, Judged
<1>2. stored[h] => Complete(h) = status[h]
  BY <1>1 DEF Complete, KiroComplete, OpencodeComplete, Finished, Judged
<1>. QED  BY <1>1, <1>2

(* What a listener is told of a run, once its agent has ended, is what the *)
(* adapter answers from then on, whoever deletes or terminates the run.    *)
THEOREM VerdictIsFinal == RuntimeSpec => []OneVerdict
  BY RuntimeAlways, FinalIsOneVerdict, PTL

(* An agent starts, ends or is notified of in a step of Notification;      *)
(* nothing else changes what Notification sees.                            *)
LEMMA NotificationStep ==
  RuntimeInv /\ [RuntimeNext]_runtimeVars => [Notified!Next]_Notified!runState
<1>. SUFFICES ASSUME RuntimeInv,
[RuntimeNext]_runtimeVars PROVE [Notified!Next]_Notified!runState
  OBVIOUS
<1>. USE DEF RuntimeInv
<1>1. CASE UNCHANGED <<leader, told>>
  BY <1>1 DEF Notified!runState, Agent, Heard, Alive
<1>2. CASE UNCHANGED runtimeVars
  BY <1>1, <1>2 DEF runtimeVars, process
<1>. SUFFICES ASSUME NEW h \in Handles, RunStep(h)
              PROVE  [Notified!Next]_Notified!runState
  BY <1>2 DEF RuntimeNext, RunStep
<1>3. ASSUME AdapterRun(h)
      PROVE  Notified!Begin(h)
  <2>1. leader[h] = "none" /\ leader' = [leader EXCEPT ![h] = "alive"] /\ told' = told
    BY <1>3 DEF AdapterRun, StartProcess, Set, Born, Unborn
  <2>. QED  BY <2>1 DEF Notified!Begin, Places, Agent, Heard, Alive
<1>4. ASSUME Alive(h), NEW end \in {"zero", "other"},
             leader' = [leader EXCEPT ![h] = end], told' = told
      PROVE  Notified!End(h)
  BY <1>4 DEF Notified!End, Places, Agent, Heard, Alive
<1>5. CASE \E code \in {"zero", "other"} : Exit(h, code)
  BY <1>4, <1>5 DEF Exit, Set, Notified!Next
<1>6. CASE \E c \in Callers : Kill(c, h)
  <2>1. leader' = [leader EXCEPT ![h] = IF Alive(h) THEN "other" ELSE leader[h]] /\ told' = told
    BY <1>6 DEF Kill, Set
  <2>2. CASE ~Alive(h)
    BY <1>1, <2>1, <2>2 DEF Places
  <2>. QED  BY <1>4, <2>1, <2>2 DEF Notified!Next
<1>7. ASSUME Notify(h)
      PROVE  \E verdict \in {"completed", "failed"} : Notified!Tell(h, verdict)
  <2>1. /\ Ended(h) /\ told[h] = "none" /\ status[h] \in Verdicts
        /\ told' = [told EXCEPT ![h] = status[h]] /\ leader' = leader
    BY <1>7 DEF Notify, process, Set, Born, Classified, Final, Judged
  <2>. DEFINE verdict == IF status[h] = "limited" THEN "failed" ELSE status[h]
  <2>2. verdict \in {"completed", "failed"}
    BY <2>1 DEF Verdicts
  <2>3. Notified!Tell(h, verdict)
    BY <2>1 DEF Notified!Tell, Places, Agent, Heard, Alive, Ended
  <2>. QED  BY <2>2, <2>3
<1>8. CASE AdapterRun(h) \/ Notify(h)
  BY <1>3, <1>7, <1>8 DEF Notified!Next
<1>. QED
  BY <1>1, <1>5, <1>6, <1>8 DEF RunStep, process, adapter, owner, Refuse, Own, RegistryAdd,
     HandoffReturns,
     AgentStep, Write, KidExits, Copy, CollectStep, Wait, Collect, Listen, ListenerDeletes,
     DeleteBegins,
     ListenerReturns, HandoffDeletes, Cancel, CallerStep, TerminateNothing, Terminate,
     Gone, Survivor, Forget

(* Each run begins once, ends once and is notified once, after its end.    *)
THEOREM RuntimeNotifies == RuntimeSpec => NotifiesOnce
<1>1. ASSUME RuntimeInit
      PROVE  Notified!Init
  <2>1. \A h \in Handles : Agent(h) = "unused" /\ Heard(h) = "none"
    BY <1>1 DEF RuntimeInit, Agent, Heard, Alive
  <2>. QED  BY <2>1 DEF Notified!Init
<1>. QED  BY <1>1, RuntimeAlways, NotificationStep, PTL DEF RuntimeSpec, NotifiesOnce,
Notified!Spec

=============================================================================
