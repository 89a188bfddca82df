# A verification of magicite's dispatcher

magicite is a daemon that keeps a fleet of coding agents at work. It reads
issue trackers (`bd`), admits tasks to *seats*, starts one agent process per
session in the seat's git worktree, lands what the agent committed, has epics
designed and reviewed by other agents, and shows all of it to terminal front
ends over a Unix socket.

This directory holds TLA+ models of its core logic, TLC instances that check
them, and TLAPS proofs of the invariants that matter most. Paths are relative
to `src/`; `PROJECT.json` maps every definition to its lines, and lists the
parts of the program, the hazards, the runs, the faults each property catches
and the theorems.

1. The system
2. The modules
3. What is checked
4. What the code does otherwise than it says
5. What is proved
6. What is not modelled, and the plan

## 1. The system

| part | source | state | operations | what makes it hard | what makes it correct |
|---|---|---|---|---|---|
| session registry and admission | `internal/dispatch/{registry,spawn}.go` | `sessions`, the process-wide `spawnMu` | `Implement`, `Design`, `Repair`, `Review`, `spawn`, `spawnSession`, `Add`, `Remove`, `FreeSeat`, `RoleCap` | RPC handlers, ticks and completions admit at once; claim and launch are external calls under the lock | seats apart, caps kept, the lock always given back |
| completion and fallback | `internal/dispatch/{outcome,fallback}.go` | the session, its bead, the gate | `OnComplete`, `complete`, `landed`, `fail`, `landConflict`, `FallbackRetry` | runs in the adapter's goroutine, before or after registration; starts further sessions outside the lock | every claim is closed, released or owned; a run is retried once |
| lifecycle and scheduler | `internal/dispatch/{lifecycle,tick}.go` | `lifecycleMu`, `running`, `draining`, `drainDone`, the tick context | `Start`, `Stop`, `poll`, `Tick`, `HandoffLive`, `completeDrain` | operators, ticks, completions and contexts race | one scheduler when running, none when stopped; drains are reported |
| recovery, epics, ready queue | `internal/dispatch/{recover,epics,fanout,ready}.go` | what a tick has read | `RecoverTasks`, `EpicPass`, `DecomposeEpic`, `MergeReady` | several repositories, any query of which may fail | orphans come back, ready work is served fairly |
| gate and decomposition rules | `internal/{gate,decomp}` | `tracked`, `attempted`, `exhausted`, `started` | `GateEpic`, `CompleteReview`, `DispatchVerdict`, `ApplyDriftFixes`, `AbortReview`, `Hold`, `Check` | budget, verdicts and plans are checked steps before they are used | a passed plan can be worked off, no endless reviews |
| landing and worktrees | `internal/{land,worktree,stamp}` | git refs, worktrees | `Land`, `replay`, `Ensure`, `Sync` | a row of git commands, each of which may fail, on several seats | no work lost, what is closed is landed, only what was gated is merged |
| agent runtime and adapters | `internal/agent`, `internal/exec` | handles, process groups, pipes | `Run`, `collect`, `Delete`, `Terminate`, `Wait` | processes end on their own, are killed or cancelled, leave descendants | one final verdict a run, every kill ends |
| event bus | `internal/server/bus.go` | ring, cursor, subscriptions | `Publish`, `Subscribe`, `Close` | any number of publishers and receivers, bounded channels, a ring that turns | nothing lost uncounted, repeated or reordered |
| stream server, client and tail | `internal/server/server.go`, `internal/client`, `internal/cli/tail.go` | connections, position, retry budget | `Serve`, `stream`, `shutdown`, `Client.Stream`, `Tail.Run` | slow clients, shutdown, reconnection to a daemon that may be another one | misses are reported, streams end |
| requests, core, snapshots | `internal/server/router.go`, `internal/daemon`, `internal/repo` | registry, cache, flights, `core.running` | every command; `Latest`, `Accept`, `Invalidate`, `Refresh` | callers share flights, entries expire and are invalidated under them | pollers end up with the truth |
| cockpit: data | `internal/tui/{refresh,model,shell,events}.go`, `internal/tui/transport` | poll and stream loops, message channel, model, event ring | `refreshLoop`, `eventLoop`, `Update`, `applySnapshot`, `applyEvent` | readers reorder messages, streams gap, daemons restart | nothing older replaces newer, everything is repaired |
| cockpit: control | `internal/tui/{beads,action,dispatch,controls,cockpit,tabview}.go` | selection, filter, two modal flows | every key of the Beads screen | the list changes under an open confirmation, answers come late | what is sent is what was confirmed |
| config, state, logging, metrics, layout | the rest of `internal` | little or none | parsing, lookups, text | I/O | unit tests |

**How they interact.** A *control request* reaches `daemon.core`, which calls
the dispatcher directly: `Start` and `Stop` take `lifecycleMu`, a dispatch goes
through `spawn` under `spawnMu`. A *tick* does what the requests do, under a
context that `Stop` cancels. `spawn` calls the tracker (claim), the runtime
(run) and the registry (add), then tells the gate of a review. When the agent
ends, its adapter's goroutine calls `OnComplete`, which lands, releases,
retries, reviews, and at last tests the drain. Every part logs; the log is
projected onto the bus, whose subscribers are the stream handlers. The cockpit
polls snapshots, follows one stream, and sends the operator's requests.

## 2. The modules

| module | models | who interleaves |
|---|---|---|
| `Sessions` | admission, completion, landing routes, review gate, retry, hard-stop handoff | callers (RPC or tick), a completion goroutine for each run, the handoff loop |
| `Lifecycle` | start, drain, hard stop, polling and ticks | control requests, a poll goroutine for each context, runs and their completions |
| `Tasks` | the tick over several repositories, the ways of a bead, the gate, the epic pass | the tick, the passes of the repositories, completions, operators, faults |
| `Decomp` | the rules a decomposition must pass (pure) | |
| `Landing` | land and worktrees over refs | seats, foreign commits, failures of git, deaths of the daemon |
| `Delivery` | what landing promises the dispatcher: a seat that lands brings all it owes and nothing of another's, and only one that owes nothing closes its task | seats, deaths of the daemon |
| `Runtime` | runtime, adapters and process groups | collector, launcher, listener, hard stop, cancellation, agent, descendant |
| `Notification` | what the runtime promises of a run: it begins, ends and is notified at most once, in that order, with one verdict | runs |
| `EventLog` | what the bus promises: the last `Capacity` events, counted from one | publishers, receivers, closers |
| `EventBus` | the bus with its ring; it implements `EventLog` | the same |
| `EventStream` | one stream: handler, connection, client, tail, and a daemon that stops, crashes and restarts | handler, `Serve`, tail, publishers |
| `Console` | requests, the core's answers, cache and flights | connections, flights, bd, shutdown |
| `Cockpit` | the cockpit's data plane | polls, stream, relay, readers, the daemon |
| `Controls` | the Beads screen and its two flows | operator, snapshots, RPCs |
| `MC…` | the instances TLC checks | |
| `SessionsProofs`, `LifecycleProofs`, `TasksProofs`, `LandingProofs`, `EventBusProofs`, `EventStreamProofs`, `CockpitProofs`, `ControlsProofs` | theorems about the module each is named after; those of `Runtime` are in `LifecycleProofs` (an agent's life beside the dispatcher's), those of `Console` in `CockpitProofs` (the other end of the socket) | |

**Composition.** `Tasks` extends `Decomp`. `EventStream` uses `EventLog`
(INSTANCE) and not the ring, since `EventBus` is proved to implement it. The
other modules meet at named boundaries: `Lifecycle` keeps of a session only
what matters to the lifecycle, and `Sessions` has the rest; the admission that
`Sessions` takes apart is one step in `Tasks`; `Landing` begins where
`Sessions` says "land", and implements `Delivery`, where a landing is one step; `Runtime` implements `Notification`, and what `Sessions`
sees of its runs (`Launch`, `Exit`, `OnComplete`) is a behaviour of
`Notification`, which is all it relies on (`HearsOnce`, a theorem and no run's
property, since it says of `Sessions` what it assumes of `Runtime`); `Console` shows the dispatcher's running
flag and seats only, `Cockpit` a daemon only as its client sees it.

An action ends where the code next touches state that another goroutine can
reach. Calls under one mutex are one action when nothing else reads their
state in between, else one action per call with the holder in the state.

### Sessions

| state | code |
|---|---|
| `live`, `info` | `Dispatcher.sessions` and the `Session` records |
| `run` | the agent process behind a handle, as the runtime sees it |
| `pc`, `want` | where each goroutine is, and the request it carries |
| `spawnMu` | the package's lock, `Free` or its holder |
| `bead`, `tracked` | tracker status of each bead (external), `Gate.tracked` |
| `installed` | whether the first `Start` has installed `OnComplete` |
| `handoff` | the snapshot of `HandoffLive` and its progress in it |
| `stranded` | history: beads whose last owner left without giving them back |

`Request`, `Admit`, `PickSeat`, `Claim`, `Run`, `Add` and `NoteSession` are the
stages of `spawn`, each early return a `Refuse` that gives the lock back.
`Launch` takes the next handle, so runs differ only in what happens to them.
`Exit` is the end of the process; `OnComplete` starts the completion, and
`Land`, `DueEpic`, `CompleteReview`, `Approve`, `ClearEpic`, `Fail`, `Retry`,
`AddRetry`, `Finish` are its routes. A completion that dispatches a repair or
a review goes through admission itself (it is a `Thread` as callers are).
`FallbackRetry` starts its run outside `spawnMu`, as the code does. External
calls may fail wherever the code checks for it.

`land.Result` reaches the dispatcher through `landAdapter`, which turns a
conflict into an error with no conflict class: the dispatcher's conflict route
is modelled as written, with `LandResult` saying which results there are.

### Lifecycle

`gen` counts the tick contexts, `cancelled` says which `Stop` has cancelled,
`polling`, `fired` and `tick` where each context's goroutine, ticker and tick
are, `session`, `proc` and `by` what has become of a session, its process, and
who launched it: a tick, or a `Caller` (a dispatch request, or a completion's
retry, repair or review), whose context no stop cancels. `Start` keeps `lifecycleMu` through its first tick. `Stop` is
four steps (cancel, flags, the test of the registry, the drain channel), and
`HandoffLive` works through its snapshot one session at a time outside the
lock. `Check` and `Close` are `completeDrain`: `Idle` first, the lock after.
`TerminateOnCancel` is the goroutine in `exec` that ends a process whose
context is cancelled, which is how a soft stop reaches the tick's sessions.

### Tasks and Decomp

`bead`, `plan` and `verdict` are what `bd` holds of each bead; `slot` is a
session with its place in `OnComplete` (`at`); `tracked`, `attempted`,
`exhausted` and `seen` are the gate's maps; `tick` holds the phase of the
scheduler's tick and what it has read so far, `pass` the epic pass of each
repository. The phases of `Tick` are `QueryDrift`, `QueryProgress`,
`RecoverTasks` with `Rework`, `QueryReady`, `Hold`, `Implement`, `QueryEpics`
and the passes (`QueryChildren`, `DecomposeEpic`, `QueryOpenChildren`,
`GateEpic`, `EndPass`); each reads what others change before the next phase
uses it. A fan-out answers for every repository or leaves out those that failed
(`Answers`). Roles complete as in the code: an implementer's bead is landed,
closed and may make its epic due, a designer's plan is put to `Check`, a
reviewer's transcript gives approval, drift fixes or nothing. A crash empties
the daemon's memory and leaves the beads.

`Decomp` has the rules over a plan (its children, their dependencies, the
symbols they provide and consume): `CheckGraph`, the budget, the waves and
their median. `Workable` is the reference they are checked against:
whether the ready queue can work the plan off.

### Landing

A commit is the set of pieces of work and of trailers it holds, a branch the
integration commit it starts from and its own commits. `job` says which git
command of `Land` a seat is at: commit, rebase, stamp, replay, gate, merge and,
once, again when the fast-forward was refused. `Ensure` and `SyncForTask`
prepare the seat of the next session, and may put its work aside or reset it.
`wrought`, `estray`, `gated` and `closer` are histories. Seen as `Delivery`, a
seat owes what was wrought and is not astray, and `FastForward` is the landing:
every git command before it changes nothing that is promised.

### Runtime

`launch` is the caller of `Run`, `collect` the adapter's goroutine, `call` the
three that may end a process (a completed run's `Delete`, the handoff of a
hard stop, `terminateOnCancel`), `holder` the mutex of `Terminate` with its
grace and kill. A group has a leader and at most one descendant, which may
ignore SIGTERM and hold the pipes; `cmd.Wait` ends when the leader has, and
the pipes are closed after their delay. What an agent writes is a sequence of
four sorts of lines, which `KiroClassify` and `OpencodeClassify` judge.

### EventLog, EventBus, EventStream

Both buses have the subscriptions (`subs`, `chan`, `events`, `size`, `dropped`,
`missed`) and the counter `next`. `EventBus` has `ring`, `head`, `count` as in
the code and computes the replay slot by slot; `EventLog` has an interval.
An event is its sequence number. In `EventBus`, a send to a closed channel or
a second close makes the channel `"panic"`.

In `EventStream` the handler's place `at` runs through `stream`: the position
(`ReadSince`), `Subscribe`, `Bus.Last` (`ReadLast`), `Track`, the loop (`Take`,
`Send`, `Leave`), and the deferred `Unsubscribe`, `Untrack`, `Remove`. `Send`
waits for room in the connection, which holds `PipeCap` frames, and fails when
it has ended. `Shutdown`, `Grace` and `Exit` are `daemon.shutdown`; `Crash` ends
the process at any point, `Restart` begins another with a new bus. One handler
at a time suffices: a tail returns from `Stream` only when its connection has
ended, which the server does last, or exits (`DialAlone`, proved).

### Console

A repository is the version of its beads. `cache` is the record with its age,
invalidation and last good values, `active` the flight new callers join,
`flight` the outcomes of those somebody still waits for. `Ask` is a request at
the router, with its checks and codes; `pc` and `req` are its handler. Reads go
to the cache or a flight (`Fly` is one `bd` run), controls to the dispatcher
and then to the core's own flag. `Expire` is the cache's age, `Stop` the daemon's
context, which every request shares.

### Cockpit

`poll` is `refreshLoop`, `sub` and `relay` the subscription and its relay,
`messages` and `readers` the program's channel and the commands that wait on
it: each key leaves one more reader, and readers post in any order. `dash`,
`tabs` and `rows` are what the dashboard, the other tabs and the Events tab
show; `dash` keeps the generation and the cursor that decide what is refused.
`daemon` changes its version and publishes, answers from its cache, from its
last good records or with nothing, fails, restarts, or returns speaking another
schema.

### Controls

`flow` has the two `ActionState`s (idle, picker, confirm, pending, success,
failure) with their token and what they show; `calls` are the RPCs on their
way; `screen`, `mode`, `filter` and `selection` say who owns the keys and what
is selected. Each key is an action with the guards of the view that gets it, and
`Answer` is routed as `TabRegistry` routes it: to the screen shown.

## 3. What is checked

Twelve runs, each within three minutes on two cores.

| run | question | bounds | states |
|---|---|---|---|
| `Sessions_fleet` | Do callers, repairs, reviews, retries and a hard stop keep seats apart, caps kept, claims accounted for and the gate told? | 2 callers, 2 runs, 1 task under 1 epic, 2+1+1+1 seats, all landing results | 5.9 million |
| `Sessions_progress` | Are retries paid for, does every session leave, every completion get through, every claim end? (liveness) | 1 caller, 3 runs, one seat a role | 107 thousand |
| `Lifecycle` | One scheduler, one working tick; do drains report, requests return, stopped dispatchers stay stopped, restarted ones work? (liveness) | 1 operator, 1 caller, 2 starts, 1 run, both stops | 138 thousand |
| `Tasks` | Can a plan the rules pass be worked off, and does the review budget hold? | 1 repository, an epic with two children, two kinds of fix, 2 slots, 1 fault or crash | 2.1 million |
| `Tasks_progress` | Is the queue fair, do orphans return, is ready work served? (liveness) | 3 repositories, one of which always fails, 3 tasks, 2 slots, 1 fault or crash | 67 thousand |
| `Landing` | Is work kept, what is closed landed, only what was gated merged, all that a seat owes and nothing else landed? | 2 seats, 2 tasks, 2 own commits, 1 foreign, 3 sessions, 1 death, any git failure | 2.8 million |
| `Runtime` | Is a verdict final, is a run notified once and after its end, is every end reported, does every kill end? (liveness) | 1 run of either adapter, 2 lines, a window of one | 175 thousand |
| `EventBus` | Is the ring bus a log, with order and accounts kept? | capacity 3, buffer 1, 2 subscribers, cursors 0, 2, 4, 6 events | 403 thousand |
| `EventStream` | Are losses reported and real, do streams deliver and end, does shutdown? (with liveness) | capacity 2, buffer 1, a connection of 1 frame, 3 events per daemon, 1 restart, 1 retry | 334 thousand |
| `Console` | Are flights shared, and does a poller end up with the truth? (liveness) | 2 repositories, a poller and an operator, 1 change of each repository, 2 failures, 1 request, shutdown | 0.8 million |
| `Cockpit` | Does the dashboard never go back, are events in order, is everything repaired? (liveness) | 1 change of 2 events, 1 fault, 1 key, a channel of one message | 1.4 million |
| `Controls` | Is what was confirmed sent, does the selection follow its bead, is the outcome shown? (liveness) | 3 beads, 3 filters, 4 snapshots, 2 roles, tokens to 3 | 1.0 million |

**Why the bounds are enough.** *Sessions*: two implementer seats with two
callers, the least that race; three runs are a run, its retry and a session
admitted in between, or a repair of a repair. Nobody designs an epic while it
is reviewed in `Sessions_fleet`: `ReviewsHold` says of the epics reviewed that
the gate knows it, and two roles at once on one epic, which only an operator
can ask for, make it false. *Lifecycle*: two starts give an old and a new
context; what older ones do is what one old one does. One operator is what TLC
can do with liveness, the theorems cover any number. *Tasks*: every role, verdict
and route is taken, and the fault comes at any step; two repositories with work
and one broken are the least for fairness among the rest. *Landing*: two
seats race for one branch, a foreign commit makes every fast-forward stale once
and a third session meets what an earlier landing left. *Runtime*: runs share
nothing but a map under its own mutex. *EventBus*: the ring turns
twice in six events, a cursor lies before, within and beyond it, a buffer of one
makes both a replay bigger than the buffer and a full channel happen. *Console*:
one change under a shared flight, an invalidation during it and a failure after
it. *Cockpit*: after each change, fault and key a tick of the cadence follows;
two readers are enough to swap two messages.

Every property was also checked to fail under a plausible fault of the code
(the `mutants` of `PROJECT.json`; a comment marks each faulty operator).

**Deadlock** is checked only where a system cannot stop (`Tasks`,
`Controls`, whose operator can always ask or look elsewhere). The others come to rest
when nobody asks for anything, when bounded runs or events are used up, or when
the daemon has stopped; that nobody waits for ever is what their liveness
properties say.

**Fairness.** *Sessions*: weak fairness of every goroutine, since none waits on
anything but the lock and external calls that return; strong fairness of
`Admit`, as Go's `sync.Mutex` hands over to a waiter starved for a millisecond;
weak fairness of `Exit`: agents end. That is an assumption about agents, the code
has no time limit for them; one that runs on keeps its seat until a hard stop.
*Lifecycle*: the same, strong fairness wherever `lifecycleMu` is taken, and a
clock that fires. *Tasks*: the tick goes on, completions go on; agents owe
nothing. *Runtime*: every goroutine of the daemon goes on, and the kernel
delivers; agents owe nothing. *EventStream*: handler and shutdown run, the tail
runs while its output is taken. *Console*: handlers and flights go on, pollers
poll, entries age. *Cockpit*: polls, cadence, stream, relay and `Update` go on.
*Controls*: an RPC ends, by its answer or its ten seconds. Nobody is assumed to
ask, start, stop, publish or crash. `Landing` and `EventBus` state safety only.

## 4. What the code does otherwise than it says

Met while modelling. The definitions in brackets state what the quoted text
says; they stand at the end of their modules, are false of the code, and are in
no run.

*Dispatch*
- `spawn.go:14` says that `spawnMu` preserves seat exclusivity
  (`SeatsExclusive`). A completion removes its session before `FallbackRetry`
  starts the retry on the same seat without the lock; an admission in between
  gets that seat. The same removal comes before `Land`, so that a seat can get
  a session whose landing is under way (`SeatKeptToLand`).
- A run that ends between launch and `Add` is notified while nobody knows its
  handle; it is then registered and never completed (`EverySessionEnds`).
- `completeDrain` tests `Idle` outside `lifecycleMu`: its answer can be about
  an earlier stop when it closes the channel of a later one (`DrainCovers`,
  `lifecycle.go:13`).
- `lifecycle.go:126` says that a soft stop waits for sessions; it cancels the
  context under which the tick has launched them, and `exec` ends them
  (`SoftStopWaits`).
- A hard stop does not reach a session that is launched but not registered.
- `README.md:146` has implementers take non-epic work (`EpicsNotImplemented`):
  the epic of a designer that has finished stays in progress, and recovery gives
  it to an implementer. Recovery also claims again what is being landed or
  has been closed since it was read.
- `EpicPass` decomposes again an epic whose children are all closed, and
  discards what `GateEpic` returns.

*Gate*
- `diff.go:15` says that the commit before an epic's first land is noted
  (`ReviewSeesAll`); it is noted when the epic is due, after the last
  land, and the review sees that land only.
- `DriftFixTasks` counts closed fixes too (`due.go:16` says open): a repository
  that ever had one is held for good, and the tick does not dispatch open ones.
- A transcript that quotes its instructions counts as approval (`verdict.go:35`).

*Landing and runtime*
- A replay that conflicts twice leaves the seat off its branch
  (`ConflictRestores`, `land/replay_test.go:124`); the next `SyncForTask` does
  not know of it.
- `conformance.go:83` calls completions exact (`FinishedIsCompleted`): a limit line
  in the middle of a run that then completed is reported as limited.
- `runnerAdapter.OnComplete` reports every status but completed as limited, so that
  a failed run is always retried on the fallback model.
- Descendants of an agent that exited by itself are not terminated; when
  `opencode session delete` fails, the handle stays owned.

*Stream and tail*
- A tail that reconnects to a daemon that has started again drops every event
  up to its old position, live ones included (`ReconnectRenders`, `tail.go:88`,
  `src/README.md:13`).
- A finite stream takes `Bus.Last` after `Subscribe` (`server.go:157`): an event
  in between that finds its channel full is the one the stream waits for.
  `FiniteEnds` names this exception (`GoalDropped`). One cut short by shutdown
  exits with success.

*Daemon*
- `payload.go` calls a snapshot coherent (`Coherent`): sessions, seats and beads
  are read one after the other.
- `core` sets its running flag after the dispatcher's own lock (`RunningTold`).
- Every bead is laid out with empty workflow facts, so none is ever eligible
  for the cockpit's dispatch and review. A repository that cannot be probed at
  the start stays out; two flights of one epoch can put an older registry back.

*Cockpit*
- After a restart the dashboard refuses snapshots until generations catch up,
  while the other tabs show them; a bare snapshot empties the tabs only
  (`TabsAgree`). The event that reveals a gap is never shown on the dashboard.
- An answer that arrives while another screen is shown is lost: its flow stays
  pending, and pending cannot be dismissed (`PendingEnds`).
- `d`, `s`, `h`, `r` act before the filter that has the focus sees them.

## 5. What is proved

For every value of the constants that satisfies the named assumptions of the
modules: finite handles, slots, beads, callers and repositories, disjoint actors, seats, repositories
and beads listed as sequences, plans and attributes of the types the code
gives them, a positive capacity and budget, bounds that are numbers, a
vocabulary without the word for a hard stop. One theorem has a hypothesis of its
own (`LiveReviewsTracked`, below).

| theorem | states |
|---|---|
| `SessionsProofs!TypeCorrect` | `Spec => []TypeOK` |
| `SessionsProofs!SeatsChosenApart` | seats chosen under `spawnMu` are never shared |
| `SessionsProofs!CapRespected` | admitted sessions stay within each role's cap |
| `SessionsProofs!NoClaimDropped` | a claimed bead has an owner, or one who tried to give it back |
| `SessionsProofs!LiveReviewsTracked` | the gate knows of every live review of an open epic |
| `SessionsProofs!RetriesAreBounded` | each retry of a bead is paid for by a failed run that was none |
| `SessionsProofs!RunsHeardOnce` | each run is heard of once, after its end: the dispatcher sees a `Notification` |
| `LifecycleProofs!LifecycleTyped` | types; the drain channel is closed once |
| `LifecycleProofs!SchedulerIsUnique` | one polled context when running, none when stopped |
| `LifecycleProofs!TicksAreSerial` | one working tick under a live context |
| `LifecycleProofs!StopStops` | no tick launches for a stopped dispatcher |
| `LifecycleProofs!RuntimeTyped` | types of the agent runtime |
| `LifecycleProofs!VerdictIsFinal` | an adapter goes on answering what was notified, of agents that ended |
| `LifecycleProofs!RuntimeNotifies` | `Runtime` implements `Notification` |
| `TasksProofs!TasksTyped` | `Spec => []TypeOK` |
| `TasksProofs!PassedPlansRun` | a plan the rules let pass can be worked off |
| `TasksProofs!ReviewsBounded` | charged reviews stay below budget, slots and faults together |
| `TasksProofs!QueueIsFair` | urgent first, repositories of a priority in turn |
| `LandingProofs!SeatsSound` | types; branch, worktree and landing of a seat fit together |
| `LandingProofs!MergedAsGated` | only what the gate passed is merged, stamped, on top of what it was gated on |
| `LandingProofs!NoWorkLost` | what an agent wrote on its branch is kept |
| `LandingProofs!ClosedTasksLanded` | a closed task is on integration with its work |
| `LandingProofs!LandingDelivers` | `Landing` implements `Delivery` |
| `EventBusProofs!BusTyped` | no channel is closed twice or sent to when closed |
| `EventBusProofs!BusAccounts` | received + queued + dropped is what was published |
| `EventBusProofs!BusInOrder` | a subscription's events strictly increase |
| `EventBusProofs!BusImplementsLog` | `EventBus` implements `EventLog` |
| `EventStreamProofs!HandlersCleanUp` | no subscription stays registered without a handler |
| `EventStreamProofs!NothingLostSilently` | a tail has rendered or reported what it has passed |
| `EventStreamProofs!FramesInOrder` | the client refuses no frame as out of order |
| `CockpitProofs!EventsOnceInOrder` | the screen's events come once and in order |
| `CockpitProofs!DashboardForward` | the screen never goes back to an older fleet |
| `CockpitProofs!ConsoleTyped` | types of the request side; a new flight always finds a slot |
| `CockpitProofs!FlightsAreShared` | the repositories are read by one flight at a time |
| `ControlsProofs!ConfirmedIsSent` | a request is the one its operator confirmed |
| `ControlsProofs!SelectionStays` | the selection follows its bead for as long as it is listed |

Each module has one inductive invariant, a conjunction of named parts; TLC
checked the parts on the module's run before they were proved. A theorem is
the invariant's three facts (initially, through every action, and that it
implies the property) and one temporal step.

**Sessions.** `TypeOK` is not inductive: a goroutine past its request must
have named a bead and hold a handle that was run (`Named`). The safety of
admission rests on `Locked` (only the holder of `spawnMu` is in the section),
`Matched` (a run waiting to be registered is described as its request was),
`Reserved` (the seat chosen stays free of other chosen sessions while its
chooser is in the section) and `Room` (so does the room under the cap). Steps
outside the lock only shrink the registry or add retries, which neither
property counts (`Shrinks`, `Bystander`): that is the boundary beyond which
`SeatsExclusive` fails.

For claims, `Links`: a run that waits for `Add` does the work of the request or
of the failed run it was launched for (`Linked`), one goroutine holds it and
neither registry, completion nor handoff knows it (`Fresh`), and a registered
run is not being completed (`Left`). So every step either hands a bead's owner
on (`Settled`) or leaves its owners as they are (`Aside`).

For reviews, `Reviews`: which beads reviewers are sent to (`Sorted`), where a
session of each role can be (`Roles`), and that an epic is closed when the gate
is told to forget it (`Cleared`). The theorem assumes `ReviewsApart`: no
dispatch asks that a bead that is reviewed be worked on. Every run's `Asks` obeys it;
without it the property is false, since the epic that one review closes can be
claimed again while another review of it goes on, of which the gate has
forgotten.

For retries, `Failing` says that a completion about to retry is of a failed
run that was no retry itself, and `Paid` that a bead has no more retries than
failed runs of that kind whose completion is past the point where its retry
starts; each start of a retry moves one completion past that point, and
nothing moves back.

For what is heard of a run, `Over`: a run with a completion has ended with a
verdict. A launch is `Begin`, an end `End`, `OnComplete` `Tell`; every other
step, a hard stop's included, leaves the run's agent and verdict alone.

**Lifecycle.** `Held` (who holds `lifecycleMu`), `Contexts` (only the newest
context may be live, and only when running) and `Polled` (it is polled as
soon as its `Start` is done).

**Runtime.** `Born` (an agent that was started has a collector, one that was
waited for has ended), `Classified` (only a run whose agent was waited for is
judged, and it stays judged) and `Final` (what the listener was told is what is
recorded, and the collector is past the point where it records). `Final` is `OneVerdict` as soon
as `Complete` of both adapters is seen to answer from the record. In the
refinement `Wait`, `Copy` and every kill are stutters or the `End` of an agent;
`Notify` is the only step that tells.

**Tasks.** The invariant is `Typed` (with `Duty`: what a session at each stage
works on), `PlansKept`, `Budgeted` and `FairQueue`. Most steps touch neither
plans nor budget (`Harmless`); the five that do have a lemma each.

- *Plans.* What a designer filed stays, with its children (`PlansKept`), so the
  plan a verdict is about is the one the beads follow. `CheckPassed`: a plan
  without violations covers every child, since one it does not know breaks a
  rule of its own. `SoundPlanRuns`: without a cycle in the sense of the code's
  visit, and with every symbol provided below, no group waits for itself.
  Here induction is needed, which the provers do not have; it is done by
  smallest counterexamples. `Visited` is the least closed set that holds the
  known dependencies: closed because its sets cannot grow more than
  `Cardinality` times (`VisitedInSteps`). In a group that waits for itself, take
  a child from which the fewest are visited: one it depends on in the group
  visits no more, hence the same, hence itself.
- *Budget.* `Budgeted` counts what an epic has been charged and the charges on
  their way (sessions between the check and the charge, and failed reviewers,
  which may be retried): the sum is below budget, slots and faults so far. It
  grows only by a check that passes, where what was charged is below the
  budget, or by a fault.
- *Queue.* `Sorted` of a strict total order is a queue in that order
  (`RankOnto`: every place is taken, by counting). `Before` is such an order,
  and the k-th entry of a repository has turn k, with all earlier turns taken
  (`EarlierTurn`); the first entry of another repository has turn zero, which
  comes before any second entry.

**Landing.** `Sound` of every seat, its branch, worktree, landing and gate
against the tip: a branch starts on integration, what the gate and the merge
see is stamped, also in a replay, and nobody else touches it in between.
`GatedAsLanded` is then a fact about `FastForward`. `Keeping` says where the
work of a seat is: on integration, on its branch, or in a worktree whose HEAD is
on the branch (`Keeps`; a replay holds the branch's work again). `Claims`: a
task has one session, and is claimed as long as it has one. `Closings`: what is
closed is on integration, with the work of the session that closed it. For
the refinement, `Authored`: what a seat's branch and worktree hold was written
by its own agents. No git command adds to it (`Less`), neither does a replay. A
fast-forward then lands work of that seat only, and by `Keeps` all it owes,
since past the commit nothing waits in the worktree.

**EventBus.** `Shape` (the ring fills before its head moves), `Holds` (from its
head on it holds the last `count` sequences in order), `Registered` (the open
channels are those of registered subscriptions) and `Published`. From `Holds`,
a replay is an interval (`Replayed`), which gives both the refinement and the
order; that the ring keeps `Holds` is `Appended`, with `%` eliminated in `Turn`.

**EventStream.** `Owns` says where in its code a handler may be registered with
the bus and with the daemon, `Alone` that a handler whose connection is gone is
one that shutdown waits for; no new one starts beside it. For what a tail is
told, `Coming` is what it can still get of its stream: the connection, the
frame the handler holds, the channel. `InOrder` says that these rise, in that
order, above what the tail has passed; `Gapless` that an event that comes
leaves none behind except those the stream has lost, and that a registered
subscription leaves none that was published.

**Cockpit.** Events need the dashboard's cursor only (`Ordered`). Snapshots need
both checks of a generation: `Answered` (of two answers on their way the one
asked for later shows the later fleet, unless it shows none), `Recorded` (what
the daemon's cache can answer with) and `Kept` (what is shown is no later than
what is on its way and not outdated).

**Console.** `Landed`: a flight that somebody waits for and that is not the
active one has read every repository, so of flights that read there is the
active one only. It is kept because what was read stays read (`Inside`: nothing
outside the registry is read) and because a flight starts in a vacant slot.
That there is one is `SlotLeft`, by the pigeonhole principle: there are as many
slots as callers, who hold a slot only while they wait (`Flying`), and the caller
that starts a flight does not.

**Controls.** `Shown` (a flow that asks already shows what it would send),
`Modal` (one of the two flows is idle) and `Sent` (a request is an image of the
flow that waits for it). By `Modal` a flow opens, asks or sends only when
nothing is on its way (`Quiet`), which leaves two kinds of steps: a flow that
changes (`Turn`) and one that sends (`Sends`). `SelectionFollows` rests on no
invariant: every step that changes the rows chooses the selection anew from
them (`RowsChange`), and a key still listed is kept (`KeyKept`).

**Only model-checked.** All liveness (it needs ENABLED); every safety property
of a run is a theorem. Of `Decomp` the rules that no property is about: width
and count of a plan, with `Depth`, `Waves` and `MedianTwice`.

## 6. What is not modelled, and the plan

Not modelled, because it is text, layout or plain I/O: rendering, argument
building, JSON framing, configuration, logging, metrics, state paths, and the
tests' doubles. Abstracted in the modules: labels of a session (status, phase);
panics; the words of commits, plans and transcripts; several streams at once
(they share only the bus, whose subscribers are independent in `EventBus`); the
socket file, where two daemons that start together can each take the other's
for stale; reuse of process identifiers; the other tabs' cursors.

Next, in order:

1. `Delivery` under `Sessions`: the landing route of a completion relies on no
   more than it promises, as `RunsHeardOnce` says of `Notification`.
2. The socket file of `server/listen.go`, with two daemons.
