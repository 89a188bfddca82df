------------------------------- MODULE Console -------------------------------
(***************************************************************************)
(* The request side of the daemon: internal/server routes what operators   *)
(* and their cockpits ask to the core of internal/daemon, which answers    *)
(* from the dispatcher, from bd and from a snapshot of every repository    *)
(* that is cached for a second, read again by one flight that its callers  *)
(* share, and kept where a repository cannot be read.                      *)
(*                                                                         *)
(* The registry is read once, when the daemon is assembled: a repository   *)
(* whose probe fails then is not there for as long as the daemon runs.     *)
(* A repository is the version of its beads. The dispatcher is its running *)
(* flag and its busy seats (Lifecycle and Sessions have the rest). The     *)
(* cache's generation and the cursor of a snapshot matter to its readers   *)
(* only and are in Cockpit. The program gives every request the context of *)
(* the daemon: a client that hangs up does not stop what it asked for.     *)
(***************************************************************************)
EXTENDS Naturals, FiniteSets

CONSTANTS
  Repos,      \* repositories of the configuration
  Callers,    \* connections that ask, one request at a time
  Pollers,    \* those of cockpits, which ask for a snapshot for ever
  Seats,      \* seats of the fleet
  Prefix,     \* length of a repository's prefix in the bead that operators name
  Here,       \* the repository of the daemon's directory, or None
  MaxWrites,  \* bounds the changes of each repository's beads
  MaxFails,   \* bounds the runs of bd that fail
  MaxAsks,    \* bounds the requests of operators
  MayStop,    \* can the daemon be told to stop?
  None, ReadFailed

ASSUME ConsoleAssumption ==
  /\ IsFiniteSet(Callers) /\ IsFiniteSet(Repos)
  /\ MaxWrites \in Nat /\ MaxFails \in Nat /\ MaxAsks \in Nat
  /\ MayStop \in BOOLEAN
  /\ Prefix \in [Repos -> Nat] /\ Here \in Repos \cup {None}
  /\ Pollers \subseteq Callers
  /\ None # ReadFailed /\ None \notin Nat \cup Repos /\ ReadFailed \notin Nat

Version == 0 .. MaxWrites
Value == Version \cup {None}       \* what is known of a repository
Outcome == Value \cup {ReadFailed}     \* None: not read yet
Slots == 1 .. Cardinality(Callers) \* flights that somebody still looks at

VARIABLES
  repos,     \* the records of the registry
  beads,     \* what bd holds of each repository
  fails,     \* runs of bd that failed so far
  seated,    \* Dispatcher: seats with a session
  started,   \* Dispatcher.running
  running,   \* core.running
  down,      \* has the daemon's context been cancelled?
  cache,     \* snapshotCache
  active,    \* snapshotRefresher.active
  flight,    \* the outcomes of the flights
  asks,      \* requests of operators so far
  pc,        \* what the handler of each connection does
  req,       \* the request it handles
  joined,    \* the flight it waits for, whose outcomes it takes
  ans        \* the answer it makes, and has made once it is idle

fleet   == <<repos, beads, seated, started, running>>
caching == <<cache, active, flight>>
handler == <<req, joined>>
consoleVars == <<fleet, fails, down, caching, asks, pc, handler, ans>>

Unknown == [r \in Repos |-> None]
Empty == [told |-> Unknown, errors |-> {}, fresh |-> FALSE, stale |-> FALSE,
          running |-> FALSE, sessions |-> {}, seats |-> {}, code |-> "none"]

Reads == {"snapshot", "status", "seats", "tasks", "repos", "metrics"}
Controls == {"start", "drain", "halt", "dispatch", "review"}
Codes == {"none", "ok", "bad_request", "schema_mismatch", "unknown_command",
          "not_found", "conflict", "unavailable", "internal"}

\* What the core makes of a run of bd that failed.
BdCodes == {"not_found", "unavailable", "internal"}

\* A request: what it asks, and the repository it names, if any.
Located == {"dispatch", "review", "tasks"}
NoRequest == [cmd |-> "none", repo |-> None]
Requests ==
  [cmd : Located, repo : Repos \cup {None}]
    \cup [cmd : (Reads \cup Controls \cup {"other"}) \ Located, repo : {None}]

ConsoleTypeOK ==
  /\ repos \in SUBSET Repos
  /\ beads \in [Repos -> Version] /\ fails \in 0 .. MaxFails
  /\ seated \in SUBSET Seats
  /\ started \in BOOLEAN /\ running \in BOOLEAN /\ down \in BOOLEAN
  /\ cache \in [fresh : BOOLEAN, expired : BOOLEAN,
                told : [Repos -> Value], errors : SUBSET Repos]
  /\ active \in Slots \cup {None}
  /\ flight \in [Slots -> [Repos -> Outcome]]
  /\ asks \in 0 .. MaxAsks
  /\ pc \in [Callers -> {"idle", "fresh", "refresh", "wait",
                         "accept", "reread", "status", "seats", "tasks",
                         "metrics", "repos",
                         "dispatcher", "mark", "show", "launch", "capacity",
                         "gate", "invalidate"}]
  /\ req \in [Callers -> Requests \cup {NoRequest}]
  /\ joined \in [Callers -> Slots \cup {None}]
  /\ ans \in [Callers -> [told : [Repos -> Value], errors : SUBSET Repos,
                          fresh : BOOLEAN, stale : BOOLEAN, running : BOOLEAN,
                          sessions : SUBSET Seats, seats : SUBSET Seats,
                          code : Codes]]

\* List and Refresh: the directories that are admitted as roots. The list is
\* valid from then on, nothing in the daemon invalidates it.
Admitted == SUBSET Repos

ConsoleInit ==
  /\ repos \in Admitted
  /\ beads = [r \in Repos |-> 0] /\ fails = 0
  /\ seated = {} /\ started = FALSE /\ running = FALSE /\ down = FALSE
  /\ cache = [fresh |-> FALSE, expired |-> FALSE, told |-> Unknown,
              errors |-> {}]
  /\ active = None
  /\ flight = [f \in Slots |-> Unknown]
  /\ asks = 0
  /\ pc = [c \in Callers |-> "idle"]
  /\ req = [c \in Callers |-> NoRequest]
  /\ joined = [c \in Callers |-> None]
  /\ ans = [c \in Callers |-> Empty]

Goto(c, stage) == pc' = [pc EXCEPT ![c] = stage]

\* The handler returns: what it held is dropped, and an operator's answer read.
Done(c) ==
  /\ Goto(c, "idle")
  /\ req' = [req EXCEPT ![c] = NoRequest]
  /\ joined' = [joined EXCEPT ![c] = None]

Refuse(c, code) ==
  /\ ans' = [ans EXCEPT ![c] = [Empty EXCEPT !.code = code]]
  /\ Done(c)

\* A run of bd fails: it does not start, ends with an error or prints no JSON.
RunFails == fails < MaxFails /\ fails' = fails + 1

\* The handler ends with what went wrong in bd.
Fails(c) == RunFails /\ \E code \in BdCodes : Refuse(c, code)

\* bd creates or updates a bead of a repository: its version is another.
Write(r) ==
  /\ r \in repos /\ beads[r] < MaxWrites
  /\ beads' = [beads EXCEPT ![r] = @ + 1]

-----------------------------------------------------------------------------
(* Requests.                                                               *)

FirstStage(cmd) ==
  CASE cmd = "snapshot" -> "fresh"
    [] cmd = "status" -> "status"
    [] cmd = "seats" -> "seats"
    [] cmd \in {"tasks", "metrics", "repos"} -> cmd
    [] cmd \in {"start", "drain", "halt"} -> "dispatcher"
    [] cmd = "dispatch" -> "show"
    [] cmd = "review" -> "gate"

\* GetIn: a repository by its name; CurrentIn: the one of the daemon's directory.
Named(name) == IF name \in repos THEN name ELSE None
CurrentIn == IF Here \in repos THEN Here ELSE None

\* The repository that owns a bead: the one with the longest prefix of its name.
Owners ==
  {r \in repos : Prefix[r] > 0 /\ \A s \in repos : Prefix[s] <= Prefix[r]}
RepoOf(name) ==
  IF name # None THEN Named(name)
  ELSE IF Owners # {} THEN CHOOSE r \in Owners : TRUE ELSE CurrentIn

\* The repositories that Tasks reads: the one named, or all.
Asked(name) == IF name = None THEN repos ELSE {name} \cap repos

\* A request for a repository that is not there.
Nowhere(q) ==
  \/ q.cmd \in {"dispatch", "review"} /\ RepoOf(q.repo) = None
  \/ q.cmd = "tasks" /\ q.repo # None /\ Named(q.repo) = None

\* A cockpit asks for a snapshot, an operator for anything. The router refuses
\* what has no handler, the handler what does not decode, and the core what is
\* nowhere.
Ask(c, q) ==
  /\ pc[c] = "idle" /\ ~down
  /\ IF c \in Pollers THEN q.cmd = "snapshot" /\ UNCHANGED asks
                      ELSE asks < MaxAsks /\ asks' = asks + 1
  /\ IF q.cmd = "other"
     THEN \E code \in {"schema_mismatch", "unknown_command", "bad_request"} :
            Refuse(c, code)
     ELSE IF Nowhere(q) THEN Refuse(c, "not_found")
     ELSE /\ req' = [req EXCEPT ![c] = [q EXCEPT !.repo =
                       IF q.cmd \in {"dispatch", "review"} THEN RepoOf(q.repo)
                       ELSE @]]
          /\ ans' = [ans EXCEPT ![c] = Empty]
          /\ Goto(c, FirstStage(q.cmd))
          /\ UNCHANGED joined
  /\ UNCHANGED <<fleet, fails, down, caching>>

-----------------------------------------------------------------------------
(* The snapshot.                                                           *)

\* Fault: Fresh does not look at the clock.
FreshForEver(c) ==
  /\ pc[c] = "fresh"
  /\ IF cache.fresh
     THEN /\ ans' = [ans EXCEPT ![c].told = cache.told,
                                ![c].errors = cache.errors, ![c].fresh = TRUE]
          /\ Goto(c, "status")
          /\ UNCHANGED cache
     ELSE Goto(c, "refresh") /\ UNCHANGED <<cache, ans>>
  /\ UNCHANGED <<fleet, fails, down, active, flight, asks, handler>>

Fresh(c) ==
  /\ pc[c] = "fresh"
  /\ IF cache.fresh /\ ~cache.expired
     THEN /\ ans' = [ans EXCEPT ![c].told = cache.told,
                                ![c].errors = cache.errors, ![c].fresh = TRUE]
          /\ Goto(c, "status")
          /\ UNCHANGED cache
     ELSE /\ cache' = [cache EXCEPT !.fresh = FALSE]
          /\ Goto(c, "refresh")
          /\ UNCHANGED ans
  /\ UNCHANGED <<fleet, fails, down, active, flight, asks, handler>>

\* A slot nobody looks at any more.
Vacant(f) == f # active /\ \A c \in Callers : joined[c] # f

\* Join the active flight, or start one in a slot of its own.
Refresh(c) ==
  /\ pc[c] = "refresh" /\ ~down
  /\ \/ /\ active # None
        /\ joined' = [joined EXCEPT ![c] = active]
        /\ UNCHANGED <<active, flight>>
     \/ /\ active = None
        /\ LET f == CHOOSE g \in Slots : Vacant(g) IN
             /\ active' = f
             /\ flight' = [flight EXCEPT ![f] = Unknown]
             /\ joined' = [joined EXCEPT ![c] = f]
  /\ Goto(c, "wait")
  /\ UNCHANGED <<fleet, fails, down, cache, asks, req, ans>>

Reading(f) == \E r \in repos : flight[f][r] = None
InFlight == {f \in Slots : ~Vacant(f) /\ Reading(f)}

\* A worker reads one repository; a read that panics has failed.
ReadRepo(f, r) ==
  /\ f \in InFlight /\ flight[f][r] = None
  /\ \/ flight' = [flight EXCEPT ![f][r] = beads[r]] /\ UNCHANGED fails
     \/ flight' = [flight EXCEPT ![f][r] = ReadFailed] /\ RunFails
  /\ UNCHANGED <<fleet, down, cache, active, asks, pc, handler, ans>>

\* Fault: the flight gives its place away at the first outcome.
LandEarly(f) ==
  /\ active = f /\ \E r \in repos : flight[f][r] # None
  /\ active' = None
  /\ UNCHANGED <<fleet, fails, down, cache, flight, asks, pc, handler, ans>>

\* Every repository has been read: the next caller starts a flight.
Land(f) ==
  /\ active = f /\ ~Reading(f)
  /\ active' = None
  /\ UNCHANGED <<fleet, fails, down, cache, flight, asks, pc, handler, ans>>

\* The daemon stops; its callers do not wait for the flight, which goes on.
GiveUp(c) ==
  /\ pc[c] \in {"refresh", "wait"} /\ down
  /\ Refuse(c, "unavailable")
  /\ UNCHANGED <<fleet, fails, down, caching, asks>>

Complete(values) == \A r \in repos : values[r] # None

\* Has a state been accepted? One that was has something read in it.
HasPrevious == \E r \in repos : cache.told[r] # None

\* The flight is done: keep the last good value of what could not be read, and
\* say so. Where nothing was read a complete last state is to be stale.
Merge(c) ==
  /\ pc[c] = "wait" /\ joined[c] # active /\ ~Reading(joined[c])
  /\ LET got == flight[joined[c]]
         lost == {r \in repos : got[r] = ReadFailed} IN
       ans' = [ans EXCEPT
         ![c].told = [r \in Repos |-> IF r \in lost THEN cache.told[r] ELSE got[r]],
         ![c].errors = lost,
         ![c].stale = /\ lost = repos
                      /\ HasPrevious /\ Complete(cache.told)]
  /\ joined' = [joined EXCEPT ![c] = None]
  /\ flight' = [f \in Slots |->
                  IF f = joined[c] /\ \A d \in Callers \ {c} : joined[d] # f
                  THEN Unknown ELSE flight[f]]
  /\ Goto(c, "accept")
  /\ UNCHANGED <<fleet, fails, down, cache, active, asks, req>>

\* Something was read: it is the fresh state, and starts its second of life.
Accept(c) ==
  /\ pc[c] = "accept" /\ ans[c].errors # repos
  /\ cache' = [fresh |-> TRUE, expired |-> FALSE, told |-> ans[c].told,
               errors |-> ans[c].errors]
  /\ Goto(c, "reread")
  /\ UNCHANGED <<fleet, fails, down, active, flight, asks, handler, ans>>

\* What is answered is what the cache has by then.
Reread(c) ==
  /\ pc[c] = "reread"
  /\ ans' = [ans EXCEPT ![c].told = cache.told, ![c].errors = cache.errors,
                        ![c].fresh = TRUE]
  /\ Goto(c, "status")
  /\ UNCHANGED <<fleet, fails, down, caching, asks, handler>>

\* Nothing was read: the last state if it is complete, said to be stale.
KeepLast(c) ==
  /\ pc[c] = "accept" /\ ans[c].errors = repos
  /\ cache' = [cache EXCEPT !.fresh = @ /\ ~ans[c].stale]
  /\ Goto(c, "status")
  /\ UNCHANGED <<fleet, fails, down, active, flight, asks, handler, ans>>

\* An operator's answer is read and gone; a cockpit shows its own until the next.
Answer(c, a) ==
  /\ ans' = [ans EXCEPT ![c] = IF c \in Pollers THEN [a EXCEPT !.code = "ok"]
                               ELSE [Empty EXCEPT !.code = "ok"]]
  /\ Done(c)

\* Status: the flag of the core and the sessions of the dispatcher.
Status(c) ==
  /\ pc[c] = "status"
  /\ LET told == [ans[c] EXCEPT !.running = running, !.sessions = seated] IN
       IF req[c].cmd = "snapshot"
       THEN /\ ans' = [ans EXCEPT ![c] = told]
            /\ Goto(c, "seats") /\ UNCHANGED handler
       ELSE Answer(c, told)
  /\ UNCHANGED <<fleet, fails, down, caching, asks>>

\* Snapshot: what the cache, the status and the seats said, put together.
Compose(c) == [ans[c] EXCEPT !.seats = seated]

\* Seats: the busy ones, from the dispatcher's sessions as they are by then.
SeatView(c) ==
  /\ pc[c] = "seats"
  /\ Answer(c, Compose(c))
  /\ UNCHANGED <<fleet, fails, down, caching, asks>>

\* Tasks reads one repository after the other and ends with the first failure.
Tasks(c) ==
  /\ pc[c] = "tasks"
  /\ \/ Asked(req[c].repo) # {} /\ Fails(c)
     \/ Answer(c, ans[c]) /\ UNCHANGED fails
  /\ UNCHANGED <<fleet, down, caching, asks>>

\* Sample reads them all at once and leaves out those that fail: how many do.
Sample == {lost \in SUBSET repos : fails + Cardinality(lost) <= MaxFails}

Metrics(c) ==
  /\ pc[c] = "metrics"
  /\ \E lost \in Sample : fails' = fails + Cardinality(lost)
  /\ Answer(c, ans[c])
  /\ UNCHANGED <<fleet, down, caching, asks>>

Repositories(c) ==
  /\ pc[c] = "repos"
  /\ Answer(c, ans[c])
  /\ UNCHANGED <<fleet, fails, down, caching, asks>>

-----------------------------------------------------------------------------
(* Control.                                                                *)

\* Start and Stop of the dispatcher, a hard stop with the sessions it ends.
Dispatcher(c) ==
  /\ pc[c] = "dispatcher"
  /\ started' = (req[c].cmd = "start")
  /\ seated' = IF req[c].cmd = "halt" THEN {} ELSE seated
  /\ Goto(c, "mark")
  /\ UNCHANGED <<repos, beads, running, fails, down, caching, asks, handler, ans>>

\* The core notes it in a flag of its own, under a lock of its own.
Mark(c) ==
  /\ pc[c] = "mark"
  /\ running' = (req[c].cmd = "start")
  /\ Goto(c, "invalidate")
  /\ UNCHANGED <<repos, beads, seated, started, fails, down, caching, asks,
                 handler, ans>>

\* Dispatch looks the bead up in its repository.
Show(c) ==
  /\ pc[c] = "show"
  /\ \/ Fails(c)
     \/ Goto(c, "launch") /\ UNCHANGED <<fails, handler, ans>>
  /\ UNCHANGED <<fleet, down, caching, asks>>

\* Review asks the gate, which holds the epic's repository when it is ready.
Gate(c) ==
  /\ pc[c] = "gate"
  /\ \/ Fails(c) /\ UNCHANGED beads
     \/ Refuse(c, "conflict") /\ UNCHANGED <<beads, fails>>
     \/ /\ Write(req[c].repo) /\ Goto(c, "launch")
        /\ UNCHANGED <<fails, handler, ans>>
  /\ UNCHANGED <<repos, seated, started, running, down, caching, asks>>

\* A session is launched: a seat and a claim; or it is not, for whatever reason.
Launch(c) ==
  /\ pc[c] = "launch"
  /\ \/ /\ \E s \in Seats \ seated : seated' = seated \cup {s}
        /\ Write(req[c].repo)
        /\ Goto(c, "invalidate")
        /\ UNCHANGED <<handler, ans>>
     \/ /\ IF req[c].cmd = "review" THEN Refuse(c, "unavailable")
           ELSE Goto(c, "capacity") /\ UNCHANGED <<handler, ans>>
        /\ UNCHANGED <<beads, seated>>
  /\ UNCHANGED <<repos, started, running, fails, down, caching, asks>>

\* Why not, as far as the dispatcher can tell by then.
Capacity(c) ==
  /\ pc[c] = "capacity"
  /\ Refuse(c, IF Seats \subseteq seated THEN "conflict" ELSE "unavailable")
  /\ UNCHANGED <<fleet, fails, down, caching, asks>>

Invalidate(c) ==
  /\ pc[c] = "invalidate"
  /\ cache' = [cache EXCEPT !.fresh = FALSE]
  /\ IF req[c].cmd = "start" THEN Goto(c, "status") /\ UNCHANGED <<handler, ans>>
     ELSE Answer(c, ans[c])
  /\ UNCHANGED <<fleet, fails, down, active, flight, asks>>

-----------------------------------------------------------------------------
(* What happens meanwhile.                                                 *)

\* The second of a snapshot is over.
Expire ==
  /\ cache.fresh /\ ~cache.expired
  /\ cache' = [cache EXCEPT !.expired = TRUE]
  /\ UNCHANGED <<fleet, fails, down, active, flight, asks, pc, handler, ans>>

\* The dispatcher's tick changes beads, and sessions end.
Work(r) ==
  /\ ~down /\ Write(r)
  /\ UNCHANGED <<repos, seated, started, running, fails, down, caching, asks,
                 pc, handler, ans>>

SessionEnds(s) ==
  /\ s \in seated /\ seated' = seated \ {s}
  /\ UNCHANGED <<repos, beads, started, running, fails, down, caching, asks,
                 pc, handler, ans>>

Stop ==
  /\ MayStop /\ ~down /\ down' = TRUE
  /\ UNCHANGED <<fleet, fails, caching, asks, pc, handler, ans>>

Step(c) ==
  \/ Fresh(c) \/ Refresh(c) \/ GiveUp(c) \/ Merge(c)
  \/ Accept(c) \/ Reread(c) \/ KeepLast(c) \/ Status(c) \/ SeatView(c)
  \/ Tasks(c) \/ Metrics(c) \/ Repositories(c)
  \/ Dispatcher(c) \/ Mark(c) \/ Show(c) \/ Gate(c)
  \/ Launch(c) \/ Capacity(c) \/ Invalidate(c)

Fly(f) == Land(f) \/ \E r \in repos : ReadRepo(f, r)

ConsoleNext ==
  \/ \E c \in Callers : Step(c) \/ \E q \in Requests : Ask(c, q)
  \/ \E f \in Slots : Fly(f)
  \/ Expire \/ Stop
  \/ \E r \in Repos : Work(r)
  \/ \E s \in Seats : SessionEnds(s)

ConsoleSpec == ConsoleInit /\ [][ConsoleNext]_consoleVars

\* Goroutines run, bd ends, time passes, and a cockpit polls every five seconds.
FairConsoleSpec ==
  /\ ConsoleSpec
  /\ \A c \in Callers : WF_consoleVars(Step(c))
  /\ \A c \in Pollers : WF_consoleVars(\E q \in Requests : Ask(c, q))
  /\ \A f \in Slots : WF_consoleVars(Fly(f))
  /\ WF_consoleVars(Expire)

-----------------------------------------------------------------------------
(* What a reader of the daemon relies on.                                  *)

\* Callers that find the cache too old at the same time share one read of the
\* repositories: no two flights run bd at once (snapshot_refresh.go).
OneFlight == \A f, g \in InFlight : f = g

\* Once the beads, the sessions and bd's failures settle, a cockpit that polls
\* is answered with what is the case, said to be fresh if there is a repository,
\* however invalidations, expiries, late callers and retained values crossed
\* before (snapshot.go).
Told(c) ==
  pc[c] = "idle" => /\ \A r \in repos : ans[c].told[r] = beads[r]
                    /\ ans[c].errors = {} /\ ~ans[c].stale
                    /\ ans[c].fresh = (repos # {})
                    /\ ans[c].sessions = seated /\ ans[c].seats = seated
Converges == []~down => \A c \in Pollers : <>[]Told(c)

\* Refuted: "SnapshotResult is one coherent daemon-owned fleet snapshot"
\* (payload.go): its seats are those of its sessions.
Coherent ==
  \A c \in Pollers : pc[c] = "idle" => ans[c].sessions = ans[c].seats

\* Refuted: with no control request under way, status says of the dispatcher
\* what it is; the core sets its flag after, and outside, the dispatcher's lock.
RunningTold ==
  (\A c \in Callers : req[c].cmd \notin {"start", "drain", "halt"})
    => running = started
=============================================================================
