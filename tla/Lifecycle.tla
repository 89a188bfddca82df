------------------------------ MODULE Lifecycle ------------------------------
(***************************************************************************)
(* The life of the dispatcher of internal/dispatch: operators start it,    *)
(* drain it and stop it hard, each start polls the tracker under a context *)
(* of its own, and sessions come and go under that context or without one. *)
(*                                                                         *)
(* Sessions tells how a session is admitted and completed; here it only    *)
(* matters who launched it, whether it is registered, whether its process  *)
(* runs, and when its completion tests the registry for the drain.         *)
(***************************************************************************)
EXTENDS Naturals, FiniteSets

CONSTANTS
  Operator,  \* goroutines of the requests that start and stop
  Caller,    \* goroutines that dispatch in the background context
  Handle,    \* session handles; bounds the number of agent runs
  Starts,    \* how often the dispatcher starts; bounds the contexts
  HardStops, \* does anybody stop hard?  bounds the instance
  Free, Nobody

Gen == 1 .. Starts

ASSUME StartsAssumption == Starts \in Nat /\ HardStops \in BOOLEAN
ASSUME ActorAssumption ==
  /\ Free \notin Operator
  /\ Nobody \notin Caller \cup Gen /\ Gen \cap Caller = {}

VARIABLES
  mu,         \* holder of lifecycleMu
  running,    \* Dispatcher.running: there is a ticker and a tick context
  draining,   \* Dispatcher.draining
  inFlight,   \* Dispatcher.tickInFlight
  gen,        \* tick contexts made so far; the last one is tickCancel's
  cancelled,  \* tick contexts that were cancelled
  polling,    \* contexts whose poll goroutine runs
  fired,      \* contexts whose ticker channel holds a tick
  tick,       \* what the tick of each context is doing
  pc,         \* where each operator's request is
  todo,       \* the rest of an operator's HandoffLive snapshot
  drain,      \* drainDone: not made, open or closed
  session,    \* what has become of each session
  proc,       \* its agent process
  by,         \* who launched it: a tick or a caller
  owed        \* history: sessions registered when the drain was asked for

vars == <<mu, running, draining, inFlight, gen, cancelled, polling, fired,
          tick, pc, todo, drain, session, proc, by, owed>>

\* What control requests, ticks and sessions change, group by group.
control  == <<mu, running, draining, gen, cancelled, pc, todo>>
ticking  == <<inFlight, polling, fired, tick>>
sessions == <<session, proc, by>>
drains   == <<drain, owed>>

TypeOK ==
  /\ mu \in Operator \cup {Free}
  /\ running \in BOOLEAN /\ draining \in BOOLEAN /\ inFlight \in BOOLEAN
  /\ gen \in 0 .. Starts
  /\ cancelled \in SUBSET Gen
  /\ polling \in SUBSET Gen
  /\ fired \in SUBSET Gen
  /\ tick \in [Gen -> {"none", "enter", "work"}]
  /\ pc \in [Operator -> {"idle", "start", "first", "stop", "halt", "flags",
                          "haltFlags", "empty", "drain", "snapshot", "handoff",
                          "check", "close"}]
  /\ todo \in [Operator -> SUBSET Handle]
  /\ drain \in {"none", "open", "closed"}
  /\ session \in [Handle -> {"none", "launched", "live", "landing", "check",
                             "close", "done"}]
  /\ proc \in [Handle -> {"none", "running", "ended", "cut",
                       "notified"}]
  /\ by \in [Handle -> Caller \cup Gen \cup {Nobody}]
  /\ owed \in SUBSET Handle

Init ==
  /\ mu = Free
  /\ running = FALSE /\ draining = FALSE /\ inFlight = FALSE
  /\ gen = 0
  /\ cancelled = {} /\ polling = {} /\ fired = {}
  /\ tick = [g \in Gen |-> "none"]
  /\ pc = [o \in Operator |-> "idle"]
  /\ todo = [o \in Operator |-> {}]
  /\ drain = "none"
  /\ session = [h \in Handle |-> "none"]
  /\ proc = [h \in Handle |-> "none"]
  /\ by = [h \in Handle |-> Nobody]
  /\ owed = {}

Live == {h \in Handle : session[h] = "live"}
Idle == Live = {}
Launching(x) == \E h \in Handle : session[h] = "launched" /\ by[h] = x

Goto(o, stage) == pc' = [pc EXCEPT ![o] = stage]
Become(h, stage) == session' = [session EXCEPT ![h] = stage]

-----------------------------------------------------------------------------
(* Start.                                                                  *)

AskStart(o) ==
  /\ pc[o] = "idle"
  /\ running \/ gen < Starts
  /\ Goto(o, "start")
  /\ UNCHANGED <<mu, running, draining, gen, cancelled, todo,
                 ticking, drains, sessions>>

\* Fault: ClearFreeze leaves the draining flag of the last stop.
ClearInFlight == inFlight' = FALSE /\ UNCHANGED draining

ClearFreeze == inFlight' = FALSE /\ draining' = FALSE

\* Fault: Start does not look whether the dispatcher runs already.
StartTwice(o) ==
  /\ pc[o] = "start" /\ mu = Free /\ gen < Starts
  /\ mu' = o
  /\ ClearFreeze
  /\ gen' = gen + 1
  /\ running' = TRUE
  /\ tick' = [tick EXCEPT ![gen + 1] = "enter"]
  /\ Goto(o, "first")
  /\ UNCHANGED <<cancelled, todo, polling, fired, drains, sessions>>

\* Fault: Start returns with lifecycleMu locked when it has nothing to do.
StartHolding(o) ==
  /\ pc[o] = "start" /\ mu = Free
  /\ mu' = o
  /\ \/ running /\ Goto(o, "idle")
        /\ UNCHANGED <<running, draining, inFlight, gen, tick>>
     \/ ~running /\ gen < Starts
        /\ ClearFreeze
        /\ gen' = gen + 1
        /\ running' = TRUE
        /\ tick' = [tick EXCEPT ![gen + 1] = "enter"]
        /\ Goto(o, "first")
  /\ UNCHANGED <<cancelled, todo, polling, fired, drains, sessions>>

(* Start under lifecycleMu, up to its first tick.  A request beyond the    *)
(* bound on contexts is not made.                                          *)
Start(o) ==
  /\ pc[o] = "start"
  /\ mu = Free
  /\ \/ /\ running
        /\ Goto(o, "idle")
        /\ UNCHANGED <<mu, running, draining, inFlight, gen, tick>>
     \/ /\ ~running /\ gen < Starts
        /\ mu' = o
        /\ ClearFreeze
        /\ gen' = gen + 1
        /\ running' = TRUE
        /\ tick' = [tick EXCEPT ![gen + 1] = "enter"]
        /\ Goto(o, "first")
     \/ /\ ~running /\ gen = Starts
        /\ Goto(o, "idle")
        /\ UNCHANGED <<mu, running, draining, inFlight, gen, tick>>
  /\ UNCHANGED <<cancelled, todo, polling, fired, drains, sessions>>

(* The first tick is over: Start leaves the rest to poll.                  *)
StartPolling(o) ==
  /\ pc[o] = "first"
  /\ tick[gen] = "none"
  /\ polling' = polling \cup {gen}
  /\ mu' = Free
  /\ Goto(o, "idle")
  /\ UNCHANGED <<running, draining, gen, cancelled, todo,
                 inFlight, fired, tick, drains, sessions>>

-----------------------------------------------------------------------------
(* poll and Tick, for the context g.                                       *)

\* The ticker fires; its channel holds one tick.
Fire(g) ==
  /\ running /\ g = gen
  /\ fired' = fired \cup {g}
  /\ UNCHANGED <<control, inFlight, polling, tick, drains, sessions>>

\* A select that is ready for both takes either.
Poll(g) ==
  /\ g \in polling
  /\ tick[g] = "none"
  /\ \/ /\ g \in cancelled
        /\ polling' = polling \ {g}
        /\ UNCHANGED <<fired, tick>>
     \/ /\ g \in fired
        /\ fired' = fired \ {g}
        /\ tick' = [tick EXCEPT ![g] = "enter"]
        /\ UNCHANGED polling
  /\ UNCHANGED <<control, inFlight, drains, sessions>>

TickEnter(g) ==
  /\ tick[g] = "enter"
  /\ \/ /\ draining \/ inFlight
        /\ tick' = [tick EXCEPT ![g] = "none"]
        /\ UNCHANGED inFlight
     \/ /\ ~draining /\ ~inFlight
        /\ tick' = [tick EXCEPT ![g] = "work"]
        /\ inFlight' = TRUE
  /\ UNCHANGED <<control, polling, fired, drains, sessions>>

(* An agent process is started for x under a handle that was never used.   *)
Launch(x) ==
  \E h \in Handle :
    /\ session[h] = "none"
    /\ Become(h, "launched")
    /\ proc' = [proc EXCEPT ![h] = "running"]
    /\ by' = [by EXCEPT ![h] = x]

(* Recovery, ready work or an epic pass; exec.Start refuses a context that *)
(* is cancelled.                                                           *)
TickLaunch(g) ==
  /\ tick[g] = "work"
  /\ ~Launching(g)
  /\ g \notin cancelled
  /\ Launch(g)
  /\ UNCHANGED <<control, ticking, drains>>

\* The deferred end of Tick clears the flag whoever set it last.
TickLeave(g) ==
  /\ tick[g] = "work"
  /\ ~Launching(g)
  /\ tick' = [tick EXCEPT ![g] = "none"]
  /\ inFlight' = FALSE
  /\ UNCHANGED <<control, polling, fired, drains, sessions>>

-----------------------------------------------------------------------------
(* Stop.                                                                   *)

AskStop(o, isHard) ==
  /\ pc[o] = "idle"
  /\ Goto(o, IF isHard THEN "halt" ELSE "stop")
  /\ isHard => HardStops
  /\ UNCHANGED <<mu, running, draining, gen, cancelled, todo,
                 ticking, drains, sessions>>

\* Fault: the tick context outlives the ticker.
StopTicker(o) ==
  /\ pc[o] \in {"stop", "halt"}
  /\ mu = Free
  /\ mu' = o
  /\ running' = FALSE
  /\ Goto(o, IF pc[o] = "stop" THEN "flags" ELSE "haltFlags")
  /\ UNCHANGED <<draining, gen, cancelled, todo, ticking, drains,
                 sessions>>

Stop(o) ==
  /\ pc[o] \in {"stop", "halt"}
  /\ mu = Free
  /\ mu' = o
  /\ cancelled' = IF running THEN cancelled \cup {gen} ELSE cancelled
  /\ running' = FALSE
  /\ Goto(o, IF pc[o] = "stop" THEN "flags" ELSE "haltFlags")
  /\ UNCHANGED <<draining, gen, todo, ticking, drains, sessions>>

StopFlags(o) ==
  /\ inFlight' = FALSE
  /\ \/ /\ pc[o] = "flags"
        /\ Goto(o, "empty")
        /\ UNCHANGED <<mu, draining>>
     \/ /\ pc[o] = "haltFlags"
        /\ draining' = TRUE
        /\ mu' = Free
        /\ Goto(o, "snapshot")
  /\ UNCHANGED <<running, gen, cancelled, todo, polling, fired,
                 tick, drains, sessions>>

(* A soft stop of an idle dispatcher is drained at once.                   *)
StopEmpty(o) ==
  /\ pc[o] = "empty"
  /\ \/ Idle /\ mu' = Free /\ Goto(o, "idle")
     \/ ~Idle /\ UNCHANGED mu /\ Goto(o, "drain")
  /\ UNCHANGED <<running, draining, gen, cancelled, todo,
                 ticking, drains, sessions>>

StopDrain(o) ==
  /\ pc[o] = "drain"
  /\ draining' = TRUE
  /\ drain' = "open"
  /\ owed' = Live \cup (IF drain = "open" THEN owed ELSE {})
  /\ mu' = Free
  /\ Goto(o, "idle")
  /\ UNCHANGED <<running, gen, cancelled, todo, ticking, sessions>>

(* HandoffLive, for each session of a snapshot: Delete, then Remove.       *)
HandoffSnapshot(o) ==
  /\ pc[o] = "snapshot"
  /\ todo' = [todo EXCEPT ![o] = Live]
  /\ Goto(o, "handoff")
  /\ UNCHANGED <<mu, running, draining, gen, cancelled, ticking,
                 drains, sessions>>

HandoffKill(o, h) ==
  /\ pc[o] = "handoff"
  /\ h \in todo[o]
  /\ proc[h] = "running"
  /\ proc' = [proc EXCEPT ![h] = "ended"]
  /\ UNCHANGED <<control, ticking, drains, session, by>>

HandoffRemove(o, h) ==
  /\ pc[o] = "handoff"
  /\ h \in todo[o]
  /\ proc[h] # "running"
  /\ todo' = [todo EXCEPT ![o] = @ \ {h}]
  /\ session' = IF session[h] = "live" THEN [session EXCEPT ![h] = "done"]
                ELSE session
  /\ UNCHANGED <<mu, running, draining, gen, cancelled, pc,
                 ticking, drains, proc, by>>

HandoffEnd(o) ==
  /\ pc[o] = "handoff"
  /\ todo[o] = {}
  /\ Goto(o, "check")
  /\ UNCHANGED <<mu, running, draining, gen, cancelled, todo,
                 ticking, drains, sessions>>

-----------------------------------------------------------------------------
(* completeDrain: Idle is tested first, lifecycleMu taken afterwards.      *)

CloseDrain == drain' = IF drain = "open" THEN "closed" ELSE drain

HandoffCheck(o) ==
  /\ pc[o] = "check"
  /\ Goto(o, IF Idle THEN "close" ELSE "idle")
  /\ UNCHANGED <<mu, running, draining, gen, cancelled, todo, ticking,
                 drains, sessions>>

HandoffClose(o) ==
  /\ pc[o] = "close"
  /\ mu = Free
  /\ CloseDrain
  /\ Goto(o, "idle")
  /\ UNCHANGED <<mu, running, draining, gen, cancelled, todo, owed,
                 ticking, sessions>>

\* Fault: completeDrain looks for a drain before it takes lifecycleMu.
CheckOpen(h) ==
  /\ session[h] = "check"
  /\ Become(h, IF Idle /\ drain = "open" THEN "close" ELSE "done")
  /\ UNCHANGED <<control, ticking, drains, proc, by>>

Check(h) ==
  /\ session[h] = "check"
  /\ Become(h, IF Idle THEN "close" ELSE "done")
  /\ UNCHANGED <<control, ticking, drains, proc, by>>

Close(h) ==
  /\ session[h] = "close"
  /\ mu = Free
  /\ CloseDrain
  /\ Become(h, "done")
  /\ UNCHANGED <<control, ticking, owed, proc, by>>

-----------------------------------------------------------------------------
(* Sessions.                                                               *)

(* A dispatch request, or a completion that starts a retry, a repair or a  *)
(* review: the context is nobody's to cancel, the dispatcher's state does  *)
(* not matter.  That a completion waits here before it tests the drain is  *)
(* left out; a request beside it can do the same.                          *)
Dispatch(c) ==
  /\ ~Launching(c)
  /\ Launch(c)
  /\ UNCHANGED <<control, ticking, drains>>

Add(h) ==
  /\ session[h] = "launched"
  /\ Become(h, "live")
  /\ UNCHANGED <<control, ticking, drains, proc, by>>

\* The agent is done.
AgentExits(h) ==
  /\ proc[h] = "running"
  /\ proc' = [proc EXCEPT ![h] = "ended"]
  /\ UNCHANGED <<control, ticking, drains, session, by>>

(* terminateOnCancel: the context of the launching tick ends the process.  *)
TerminateOnCancel(h) ==
  /\ proc[h] = "running"
  /\ by[h] \in cancelled
  /\ proc' = [proc EXCEPT ![h] = "cut"]
  /\ UNCHANGED <<control, ticking, drains, session, by>>

(* The one notification of a run.  The first Start installs the callback;  *)
(* OnComplete returns at once for a session that is not registered.        *)
OnComplete(h) ==
  /\ proc[h] \in {"ended", "cut"}
  /\ proc' = [proc EXCEPT ![h] = "notified"]
  /\ session' = IF gen > 0 /\ session[h] = "live"
                THEN [session EXCEPT ![h] = "landing"] ELSE session
  /\ UNCHANGED <<control, ticking, drains, by>>

Landed(h) ==
  /\ session[h] = "landing"
  /\ Become(h, "check")
  /\ UNCHANGED <<control, ticking, drains, proc, by>>

-----------------------------------------------------------------------------

Ask(o) == AskStart(o) \/ AskStop(o, TRUE) \/ AskStop(o, FALSE)

Serve(o) ==
  \/ Start(o) \/ StartPolling(o) \/ Stop(o) \/ StopFlags(o) \/ StopEmpty(o)
  \/ StopDrain(o) \/ HandoffSnapshot(o) \/ HandoffEnd(o) \/ HandoffCheck(o)
  \/ HandoffClose(o)
  \/ \E h \in Handle : HandoffKill(o, h) \/ HandoffRemove(o, h)

Tick(g) == TickEnter(g) \/ TickLaunch(g) \/ TickLeave(g)

Completion(h) == OnComplete(h) \/ Landed(h) \/ Check(h) \/ Close(h)

Next ==
  \/ \E o \in Operator : Ask(o) \/ Serve(o)
  \/ \E g \in Gen : Fire(g) \/ Poll(g) \/ Tick(g)
  \/ \E c \in Caller : Dispatch(c)
  \/ \E h \in Handle : Add(h) \/ AgentExits(h) \/ TerminateOnCancel(h) \/ Completion(h)

Spec == Init /\ [][Next]_vars

(* lifecycleMu is starvation free, ticks and completions end because their *)
(* external calls do, agents end, and the clock goes on.                   *)
Fairness ==
  /\ \A o \in Operator : /\ WF_vars(Serve(o))
                         /\ SF_vars(Start(o) \/ Stop(o) \/ HandoffClose(o))
  /\ \A g \in Gen : /\ WF_vars(Fire(g)) /\ WF_vars(Poll(g))
                    /\ WF_vars(TickEnter(g) \/ TickLeave(g))
  /\ \A h \in Handle : /\ WF_vars(Add(h) \/ AgentExits(h) \/ Completion(h))
                       /\ SF_vars(Close(h))

FairSpec == Spec /\ Fairness

-----------------------------------------------------------------------------
(* Properties.                                                             *)

(* Between control requests a running dispatcher has exactly one context   *)
(* that is not cancelled, the newest, and somebody polls it; a stopped one *)
(* has none.  Two starts never leave two schedulers, nor none.             *)
OnePoller ==
  mu = Free => /\ 1 .. gen \ cancelled = IF running THEN {gen} ELSE {}
               /\ running => gen \in polling

(* At most one tick works under a context that is not cancelled, whatever  *)
(* stopped or restarted meanwhile: older ticks can launch nothing.         *)
OneLiveTick ==
  \A f, g \in Gen : tick[f] = "work" /\ tick[g] = "work"
                      /\ f \notin cancelled /\ g \notin cancelled => f = g

(* No scheduler is at work for a stopped dispatcher: whatever stops and    *)
(* starts went before, only a running dispatcher's tick launches sessions. *)
StoppedStaysStopped ==
  [][\A h \in Handle : by[h] = Nobody /\ by'[h] \in Gen => running]_vars

(* A session nobody will complete: see Sessions.                           *)
Lost(h) == session[h] = "live" /\ proc[h] = "notified"

(* Whoever waits for a drain is told, unless a session's completion was    *)
(* lost: no wakeup is missed between Stop's look at the registry and the   *)
(* last completion's.                                                      *)
DrainEnds == drain = "open" ~> drain = "closed" \/ \E h \in Handle : Lost(h)

(* Start and Stop return, although Start holds lifecycleMu for a whole     *)
(* tick.                                                                   *)
RequestsReturn == \A o \in Operator : pc[o] # "idle" ~> pc[o] = "idle"

(* A restarted dispatcher picks up work again, whatever flags the stop and *)
(* the ticks of the past have left.                                        *)
RestartWorks ==
  \A g \in Gen : running /\ gen = g ~> g \in cancelled \/ tick[g] = "work"

-----------------------------------------------------------------------------
(* What the code's comments say, and the runs refute.                      *)

(* dispatch/lifecycle.go: Stop "reports when its live sessions are gone".  *)
DrainCovers == drain = "closed" => owed \cap Live = {}

(* dispatch/lifecycle.go: "A soft stop waits for owned sessions; a hard    *)
(* stop kills them": where nobody stops hard, no session is cut short.     *)
SoftStopWaits == ~HardStops => \A h \in Handle : proc[h] # "cut"

=============================================================================
