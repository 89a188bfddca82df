---------------------------- MODULE EventStream -----------------------------
(***************************************************************************)
(* One event stream from the bus to a terminal: the server's handler of a  *)
(* subscribe request, the connection, Client.Stream and the tail command,  *)
(* with the daemon stopping, crashing and starting again underneath.       *)
(*                                                                         *)
(* The bus is EventLog with one subscriber: a tail has one connection at a *)
(* time and the server one handler for it. A daemon that starts again has  *)
(* a new bus, whose sequences start from one again.                        *)
(***************************************************************************)
EXTENDS Naturals, Sequences

CONSTANTS
  Capacity, Buffer, MaxEvents, \* of the bus, as in EventLog
  Sinces,      \* what --since may be given
  PipeCap,     \* frames a connection holds before a write blocks
  Reconnect,   \* --reconnect: dials that may fail in a row
  MaxRestarts  \* bounds how often the daemon starts again

ASSUME StreamAssumption ==
  /\ Sinces \subseteq Nat
  /\ {Capacity, Buffer, MaxEvents, PipeCap, Reconnect, MaxRestarts} \subseteq Nat

Sub == "tail"

VARIABLES
  next, closed, subs, chan, events, size, dropped, missed, \* the bus
  daemon,   \* Serve: up, stopping, waiting, closing, down
  tracked,  \* is the subscription in daemon.subscriptions?
  restarts, \* how often the daemon has started again
  at,       \* where the handler is
  since, goal, event, \* stream's since and last, and the event it writes
  conn,     \* the connection: none, open, ended by the server, cut by the tail
  asked,    \* has the subscribe request been written?
  pipe,     \* frames written to the connection and not yet read
  tail,     \* where Tail.Run is: dial, ask, read, exit; or broken
  stalled,  \* is whoever reads the tail's output not reading?
  follow, position, live, hadEvent, attempts, \* of Tail.Run
  highest,  \* of Client.Stream
  first,    \* history: the position the output starts after
  seen,     \* history: events rendered
  told,     \* history: events reported as missed
  lost,     \* history: events the stream's channel or the ring had no room for
  swallowed \* history: events received and neither rendered nor reported

busVars == <<next, closed, subs, chan, events, size, dropped, missed>>
daemonVars == <<daemon, restarts>>
streamVars == <<at, tracked, since, goal, event>>
connVars == <<conn, asked, pipe>>
tailVars == <<tail, stalled, follow, position, live, hadEvent, attempts,
              highest>>
output == <<first, seen, told, swallowed>>
vars == <<busVars, daemonVars, streamVars, connVars, tailVars, output, lost>>

Bus == INSTANCE EventLog WITH Subscriber <- {Sub}, Cursors <- Nat

\* Serve publishes an event before it accepts the first connection.
Init ==
  /\ next = 1 /\ closed = FALSE /\ subs = {}
  /\ chan = [s \in {Sub} |-> "none"]
  /\ events = [s \in {Sub} |-> <<>>] /\ size = [s \in {Sub} |-> 0]
  /\ dropped = [s \in {Sub} |-> 0] /\ missed = [s \in {Sub} |-> 0]
  /\ daemon = "up" /\ restarts = 0
  /\ at = "none" /\ tracked = FALSE /\ since = 0 /\ goal = 0 /\ event = 0
  /\ conn = "none" /\ asked = FALSE /\ pipe = <<>>
  /\ tail = "dial" /\ stalled = FALSE
  /\ follow \in BOOLEAN /\ live \in BOOLEAN
  /\ position \in IF live THEN {0} ELSE Sinces
  /\ hadEvent = FALSE /\ attempts = 0 /\ highest = 0
  /\ first = position /\ seen = {} /\ told = {} /\ swallowed = {}
  /\ lost = {}

-----------------------------------------------------------------------------
(* The daemon.                                                             *)

\* The variables of a handler that is gone.
Forget == since' = 0 /\ goal' = 0 /\ event' = 0

\* Other goroutines publish while the daemon has not exited.
Publish ==
  /\ daemon # "down"
  /\ Bus!Publish
  /\ lost' = IF Sub \in subs /\ ~Bus!HasRoom(Sub) THEN lost \cup {next + 1}
                                                  ELSE lost
  /\ UNCHANGED <<daemonVars, streamVars, connVars, tailVars, output>>

\* A signal cancels the context of Serve and of its handlers.
Cancel ==
  /\ daemon = "up"
  /\ daemon' = "stopping"
  /\ UNCHANGED <<busVars, restarts, streamVars, connVars, tailVars, output,
                 lost>>

\* The listener is closed; shutdown closes the subscriptions it knows of.
Shutdown ==
  /\ daemon = "stopping"
  /\ daemon' = "waiting"
  /\ IF tracked /\ Sub \in subs THEN Bus!CloseSub(Sub) ELSE UNCHANGED busVars
  /\ UNCHANGED <<restarts, streamVars, connVars, tailVars, output, lost>>

\* Fault: shutdown waits on for handlers whose clients read nothing.
GraceWaits ==
  /\ daemon = "waiting" /\ at # "none"
  /\ daemon' = "closing"
  /\ UNCHANGED <<busVars, restarts, streamVars, connVars, tailVars, output,
                 lost>>

\* The grace period is over: shutdown closes the connections left.
Grace ==
  /\ daemon = "waiting" /\ at # "none"
  /\ daemon' = "closing"
  /\ conn' = IF conn = "open" THEN "ended" ELSE conn
  /\ UNCHANGED <<busVars, restarts, streamVars, asked, pipe, tailVars, output,
                 lost>>

Exit ==
  /\ daemon \in {"waiting", "closing"} /\ at = "none"
  /\ daemon' = "down"
  /\ UNCHANGED <<busVars, restarts, streamVars, connVars, tailVars, output,
                 lost>>

\* The process ends at any time; what it has written can still be read.
Crash ==
  /\ daemon # "down"
  /\ daemon' = "down"
  /\ at' = "none" /\ tracked' = FALSE
  /\ subs' = {}
  /\ conn' = IF conn = "open" THEN "ended" ELSE conn
  /\ Forget
  /\ UNCHANGED <<next, closed, chan, events, size, dropped, missed, restarts,
                 asked, pipe, tailVars, output, lost>>

\* A new process: a new bus, and the event that Serve publishes.
Restart ==
  /\ daemon = "down" /\ restarts < MaxRestarts
  /\ daemon' = "up" /\ restarts' = restarts + 1
  /\ next' = 1 /\ closed' = FALSE /\ subs' = {}
  /\ chan' = [s \in {Sub} |-> "none"]
  /\ events' = [s \in {Sub} |-> <<>>] /\ size' = [s \in {Sub} |-> 0]
  /\ dropped' = [s \in {Sub} |-> 0] /\ missed' = [s \in {Sub} |-> 0]
  /\ seen' = {} /\ told' = {} /\ lost' = {}
  /\ UNCHANGED <<streamVars, connVars, tailVars, first, swallowed>>

-----------------------------------------------------------------------------
(* The handler of the subscribe request: handle and stream.                *)

Goto(place) == at' = place

\* Without a since the stream starts from the current end of the bus.
ReadSince ==
  /\ at = "request" /\ asked
  /\ since' = IF live THEN next ELSE position
  /\ Goto("subscribe")
  /\ UNCHANGED <<busVars, daemonVars, tracked, goal, event, connVars,
                 tailVars, output, lost>>

\* The connection ends before a request came.
RequestEnds ==
  /\ at = "request" /\ ~asked /\ conn # "open"
  /\ Goto("remove")
  /\ UNCHANGED <<busVars, daemonVars, tracked, since, goal, event, connVars,
                 tailVars, output, lost>>

\* Fault: the position is read again, and the replay skips what came before.
SubscribeLate ==
  /\ at = "subscribe"
  /\ Bus!Subscribe(Sub, next)
  /\ Goto("last")
  /\ UNCHANGED <<daemonVars, tracked, since, goal, event, connVars, tailVars,
                 output, lost>>

Subscribe ==
  /\ at = "subscribe"
  /\ Bus!Subscribe(Sub, since)
  /\ lost' = lost \cup (since + 1 .. Bus!Gone)
  /\ Goto("last")
  /\ UNCHANGED <<daemonVars, tracked, since, goal, event, connVars, tailVars,
                 output>>

ReadLast ==
  /\ at = "last"
  /\ goal' = next
  /\ Goto("track")
  /\ UNCHANGED <<busVars, daemonVars, tracked, since, event, connVars,
                 tailVars, output, lost>>

Track ==
  /\ at = "track"
  /\ tracked' = TRUE
  /\ Goto(IF ~follow /\ goal <= since THEN "unsubscribe" ELSE "loop")
  /\ UNCHANGED <<busVars, daemonVars, since, goal, event, connVars, tailVars,
                 output, lost>>

Take ==
  /\ at = "loop"
  /\ Bus!Receive(Sub)
  /\ event' = Head(events[Sub])
  /\ Goto("send")
  /\ UNCHANGED <<daemonVars, tracked, since, goal, connVars, tailVars, output,
                 lost>>

\* The channel is closed and empty, the context is done, or readRequests
\* met the end of the connection.
Leave ==
  /\ at = "loop"
  /\ \/ chan[Sub] = "closed" /\ events[Sub] = <<>>
     \/ daemon # "up"
     \/ conn # "open"
  /\ Goto("unsubscribe")
  /\ UNCHANGED <<busVars, daemonVars, tracked, since, goal, event, connVars,
                 tailVars, output, lost>>

\* Fault: a finite stream goes on after its last event.
SendPast ==
  /\ at = "send"
  /\ \/ /\ conn = "open" /\ Len(pipe) < PipeCap
        /\ pipe' = Append(pipe, event)
        /\ Goto(IF ~follow /\ event > goal THEN "unsubscribe" ELSE "loop")
     \/ /\ conn # "open"
        /\ Goto("unsubscribe")
        /\ UNCHANGED pipe
  /\ UNCHANGED <<busVars, daemonVars, tracked, since, goal, event, conn, asked,
                 tailVars, output, lost>>

\* The write waits for room in the connection and fails when it has ended.
Send ==
  /\ at = "send"
  /\ \/ /\ conn = "open" /\ Len(pipe) < PipeCap
        /\ pipe' = Append(pipe, event)
        /\ Goto(IF ~follow /\ event >= goal THEN "unsubscribe" ELSE "loop")
     \/ /\ conn # "open"
        /\ Goto("unsubscribe")
        /\ UNCHANGED pipe
  /\ UNCHANGED <<busVars, daemonVars, tracked, since, goal, event, conn, asked,
                 tailVars, output, lost>>

\* The deferred calls, in their order.
Unsubscribe ==
  /\ at = "unsubscribe"
  /\ IF Sub \in subs THEN Bus!CloseSub(Sub) ELSE UNCHANGED busVars
  /\ Goto("untrack")
  /\ UNCHANGED <<daemonVars, tracked, since, goal, event, connVars, tailVars,
                 output, lost>>

Untrack ==
  /\ at = "untrack"
  /\ tracked' = FALSE
  /\ Goto("remove")
  /\ UNCHANGED <<busVars, daemonVars, since, goal, event, connVars, tailVars,
                 output, lost>>

Remove ==
  /\ at = "remove"
  /\ Goto("none")
  /\ Forget
  /\ conn' = IF conn = "open" THEN "ended" ELSE conn
  /\ UNCHANGED <<busVars, daemonVars, tracked, asked, pipe, tailVars, output,
                 lost>>

Handler ==
  \/ ReadSince \/ RequestEnds \/ Subscribe \/ ReadLast \/ Track
  \/ Take \/ Leave \/ Send \/ Unsubscribe \/ Untrack \/ Remove

-----------------------------------------------------------------------------
(* The tail: Client.Stream and Tail.Run.                                   *)

\* Stream has returned, with no error when ok: end, give up or dial again.
Return(ok) ==
  LET failed == IF ok \/ hadEvent THEN 0 ELSE attempts
      again  == follow /\ failed < Reconnect
  IN /\ tail' = IF again THEN "dial" ELSE "exit"
     /\ attempts' = IF again THEN failed + 1 ELSE failed
     /\ conn' = "none" /\ asked' = FALSE /\ pipe' = <<>>
     /\ hadEvent' = FALSE
     /\ UNCHANGED <<stalled, follow, position, live, highest, output>>

Dial ==
  /\ tail = "dial" /\ daemon \in {"up", "stopping"}
  /\ tail' = "ask" /\ highest' = 0
  /\ conn' = "open" /\ Goto("request")
  /\ UNCHANGED <<busVars, daemonVars, tracked, since, goal, event, asked, pipe,
                 stalled, follow, position, live, hadEvent, attempts, output,
                 lost>>

DialFails ==
  /\ tail = "dial" /\ daemon \notin {"up", "stopping"}
  /\ Return(FALSE)
  /\ UNCHANGED <<busVars, daemonVars, streamVars, lost>>

Ask ==
  /\ tail = "ask"
  /\ \/ /\ conn = "open"
        /\ asked' = TRUE /\ tail' = "read"
        /\ UNCHANGED <<conn, pipe, stalled, follow, position, live, hadEvent,
                       attempts, highest, output>>
     \/ /\ conn # "open"
        /\ Return(FALSE)
  /\ UNCHANGED <<busVars, daemonVars, streamVars, lost>>

\* Fault: a gap in the sequences is not reported.
RenderUntold(seq) ==
  \/ /\ ~live /\ seq <= position
     /\ swallowed' = swallowed \cup {seq}
     /\ UNCHANGED <<position, live, hadEvent, first, seen, told>>
  \/ /\ live \/ seq > position
     /\ seen' = seen \cup {seq}
     /\ first' = IF live THEN seq - 1 ELSE first
     /\ position' = seq /\ live' = FALSE /\ hadEvent' = TRUE
     /\ UNCHANGED <<swallowed, told>>

\* What Tail.Run does with an event.
Render(seq) ==
  \/ /\ ~live /\ seq <= position
     /\ swallowed' = swallowed \cup {seq}
     /\ UNCHANGED <<position, live, hadEvent, first, seen, told>>
  \/ /\ live \/ seq > position
     /\ told' = IF live THEN told ELSE told \cup (position + 1 .. seq - 1)
     /\ seen' = seen \cup {seq}
     /\ first' = IF live THEN seq - 1 ELSE first
     /\ position' = seq /\ live' = FALSE /\ hadEvent' = TRUE
     /\ UNCHANGED swallowed

Read ==
  /\ tail = "read" /\ pipe # <<>>
  /\ pipe' = Tail(pipe)
  /\ \/ /\ Head(pipe) > highest
        /\ highest' = Head(pipe)
        /\ Render(Head(pipe))
        /\ UNCHANGED tail
     \/ /\ Head(pipe) <= highest
        /\ tail' = "broken"
        /\ UNCHANGED <<highest, position, live, hadEvent, output>>
  /\ UNCHANGED <<busVars, daemonVars, streamVars, conn, asked, stalled, follow,
                 attempts, lost>>

Eof ==
  /\ tail = "read" /\ pipe = <<>> /\ conn = "ended"
  /\ Return(TRUE)
  /\ UNCHANGED <<busVars, daemonVars, streamVars, lost>>

TailStep == ~stalled /\ (Dial \/ DialFails \/ Ask \/ Read \/ Eof)

\* The output is taken no longer, as by a pager that is left open. Output
\* that is only taken late is a tail that takes its steps late.
Stall ==
  /\ tail # "exit" /\ ~stalled
  /\ stalled' = TRUE
  /\ UNCHANGED <<busVars, daemonVars, streamVars, connVars, tail, follow,
                 position, live, hadEvent, attempts, highest, output, lost>>

\* The tail is interrupted.
Quit ==
  /\ tail # "exit"
  /\ tail' = "exit"
  /\ conn' = IF conn = "open" THEN "cut" ELSE "none"
  /\ pipe' = <<>>
  /\ UNCHANGED <<busVars, daemonVars, streamVars, asked, stalled, follow,
                 position, live, hadEvent, attempts, highest, output, lost>>

-----------------------------------------------------------------------------
Next ==
  \/ Publish \/ Cancel \/ Shutdown \/ Grace \/ Exit \/ Crash \/ Restart
  \/ Handler \/ TailStep \/ Stall \/ Quit

\* The handler and shutdown are goroutines that run; the tail runs while its
\* output is taken. Nothing makes anybody publish, stop or start the daemon.
Fairness ==
  /\ WF_vars(Shutdown) /\ WF_vars(Grace) /\ WF_vars(Exit)
  /\ WF_vars(Handler) /\ WF_vars(TailStep)

Spec == Init /\ [][Next]_vars /\ Fairness

-----------------------------------------------------------------------------
(* Properties.                                                             *)

(* A tail dials no more often in a row than its budget, and its client     *)
(* never refuses a frame as out of order.                                  *)
TypeOK ==
  /\ next \in 1 .. MaxEvents /\ subs \subseteq {Sub}
  /\ chan[Sub] \in {"none", "open", "closed"}
  /\ daemon \in {"up", "stopping", "waiting", "closing", "down"}
  /\ at \in {"none", "request", "subscribe", "last", "track", "loop", "send",
             "unsubscribe", "untrack", "remove"}
  /\ conn \in {"none", "open", "ended", "cut"}
  /\ pipe \in Seq(1 .. MaxEvents) /\ Len(pipe) <= PipeCap
  /\ tail \in {"dial", "ask", "read", "exit"}
  /\ attempts \in 0 .. Reconnect /\ restarts \in 0 .. MaxRestarts
  /\ seen \cup told \cup lost \cup swallowed \subseteq 1 .. MaxEvents

(* What a tail has passed it has rendered or reported as missed, never     *)
(* both, and what it reports as missed the stream really could not have:   *)
(* the ring had dropped it or the channel had no room. This is said of one *)
(* run of the daemon.                                                      *)
NoSilentLoss ==
  restarts = 0 =>
    /\ seen \cup told = first + 1 .. position
    /\ seen \cap told = {}
    /\ told \subseteq lost

(* A handler that has returned leaves no subscription behind to which the  *)
(* bus would go on offering events.                                        *)
NoLeak == at \in {"none", "request"} => subs = {} /\ ~tracked

(* A daemon that is told to stop does, whoever does not read what its      *)
(* handlers are writing.                                                   *)
ShutdownEnds == daemon = "stopping" ~> daemon = "down"

\* The event a finite stream waits for was published between its Subscribe
\* and its Last, and found its channel full.
GoalDropped == at = "loop" /\ goal \in lost

(* A tail that does not follow ends, unless the event it is to end with    *)
(* never reached its channel.                                              *)
FiniteEnds ==
  ~follow ~> (tail = "exit" \/ stalled \/ GoalDropped)

(* Every event published while a tail follows is rendered, or the channel  *)
(* had no room for it, unless the daemon stops or the tail does.           *)
Delivered ==
  \A n \in 1 .. MaxEvents :
    (follow /\ restarts = 0 /\ at = "loop" /\ since < n /\ n <= next)
      ~> (n \in seen \cup lost \/ stalled \/ tail = "exit" \/ daemon # "up")

(* README.md: "Stream ordered daemon events with resume and reconnect      *)
(* support." A tail that has reconnected renders what it receives.         *)
ReconnectRenders == restarts > 0 => swallowed \subseteq 1 .. first
=============================================================================
