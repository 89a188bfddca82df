------------------------------- MODULE Cockpit -------------------------------
(* How the cockpit keeps up with its daemon: internal/tui/refresh.go polls    *)
(* snapshots and owns one event subscription (internal/tui/transport), both   *)
(* post into Program.messages, Bubble Tea reads that channel through commands *)
(* and hands each message to Program.Update, and the root model (model.go)    *)
(* and the tabs (tabview.go) decide what the operator sees.                   *)
(*                                                                            *)
(* Update answers every message with nextMessage(), so each key press leaves  *)
(* one more reader on the channel, and readers post what they took in any     *)
(* order.  Everything the model rejects as old is rejected because of that.   *)
(*                                                                            *)
(* The fleet is a version number: a change gives it the next version and      *)
(* publishes Burst events.  The daemon behind the socket is only what a       *)
(* client sees of it (Console models its inside): it accepts snapshots under  *)
(* a growing generation, answers from its cache, from its last-good records   *)
(* or with nothing, fails, restarts from generation and sequence zero, or     *)
(* comes back speaking another schema.  A poll's request and answer are one   *)
(* moment.  Left out: metrics, selections, wording, quitting.                 *)
(* Bounds: MaxChanges changes, MaxFaults faults (a restart, a failed poll, a  *)
(* break or a gap of the stream), MaxKeys keys, a channel of Cap messages     *)
(* besides those its readers hold.  After each of these one tick of the       *)
(* cadence follows at least; more of them repeat it.                          *)
EXTENDS Integers, Sequences, SequencesExt, FiniteSetsExt

CONSTANTS MaxChanges, MaxFaults, MaxKeys, Cap, Burst

ASSUME Bounds == {MaxChanges, MaxFaults, MaxKeys} \subseteq Nat /\ Cap \in Nat /\ Burst \in Nat \ {0}

VARIABLES
  daemon,    \* [version, seq, gen, held, whole, again, other]: the fleet, the bus, the snapshot cache,
             \* whether it was restarted, whether it speaks another schema
  poll,      \* refreshLoop: [gen, msg], msg the result it is posting or <<>>
  due,       \* RefreshCoordinator.causes is not empty
  cursor,    \* RefreshCoordinator.cursor
  sub,       \* the subscription: [at |-> "off" | "on" | "cut" | "closed", pos, high, started, told]
  relay,     \* what relaySubscription is posting: <<>> or <<[msg, last]>>
  messages,  \* Program.messages, after the messages its readers hold: up to one each, the first
  readers,   \* nextMessage commands that wait for a message or hold one
  seen,      \* Program.generation
  dash,      \* ModelState: [has, gen, version, cursor, conn, fresh, events, dead]
  tabs,      \* the version the other tabs show, 0 for none
  rows,      \* EventsView.ring
  left       \* [changes, faults, keys, ticks] still to come

link == <<poll, due, cursor, sub, relay>>
screen == <<seen, dash, tabs, rows>>
vars == <<daemon, link, messages, readers, screen, left>>

Notices == {"eof", "gap", "miss", "unavailable", "schema"}
Off == [at |-> "off", pos |-> 0, high |-> 0, started |-> FALSE, told |-> 0]

Init ==
  /\ daemon = [version |-> 1, seq |-> 0, gen |-> 0, held |-> 0, whole |-> FALSE,
               again |-> FALSE, other |-> FALSE]
  /\ poll = [gen |-> 0, msg |-> <<>>]
  /\ due = TRUE /\ cursor = 0 /\ sub = Off /\ relay = <<>>
  /\ messages = <<>> /\ readers = 1
  /\ seen = 0 /\ tabs = 0 /\ rows = <<>>
  /\ dash = [has |-> FALSE, gen |-> 0, version |-> 0, cursor |-> 0, conn |-> "loading",
             fresh |-> FALSE, events |-> <<>>, dead |-> FALSE]
  /\ left = [changes |-> MaxChanges, faults |-> MaxFaults, keys |-> MaxKeys, ticks |-> 0]

Spend(what) == left[what] > 0 /\ left' = [left EXCEPT ![what] = @ - 1, !.ticks = 1]
Room == Len(messages) < Cap + readers
Larger(a, b) == IF a > b THEN a ELSE b

-----------------------------------------------------------------------------
(* The daemon as its client sees it.                                          *)

Change ==
  /\ Spend("changes")
  /\ daemon' = [daemon EXCEPT !.version = @ + 1, !.seq = @ + Burst]
  /\ UNCHANGED <<link, messages, readers, screen>>

\* Generations and sequences are kept in memory only.
Restart(other) ==
  /\ Spend("faults")
  /\ daemon' = [daemon EXCEPT !.seq = 0, !.gen = 0, !.held = 0, !.whole = FALSE, !.again = TRUE,
                             !.other = other]
  /\ sub' = IF sub.at = "on" THEN [sub EXCEPT !.at = "cut"] ELSE sub
  /\ UNCHANGED <<poll, due, cursor, relay, messages, readers, screen>>

Result(err, gen, version, fresh, at) ==
  [kind |-> "result", gen |-> poll.gen + 1, err |-> err, dgen |-> gen, version |-> version, fresh |-> fresh, cursor |-> at]
Snapshot(gen, version, fresh) == Result("", gen, version, fresh, daemon.seq)

\* The answer waits to be posted; a good one moves the cursor forward.
Got(result) ==
  /\ poll' = [gen |-> poll.gen + 1, msg |-> <<result>>]
  /\ cursor' = IF result.err = "" THEN Larger(cursor, result.cursor) ELSE cursor

\* Repositories were read.
Accepted ==
  \E whole \in {daemon.whole, TRUE} :
    /\ Got(Snapshot(daemon.gen + 1, daemon.version, TRUE))
    /\ daemon' = [daemon EXCEPT !.gen = @ + 1, !.held = daemon.version, !.whole = whole]
    /\ UNCHANGED left

Cached ==
  /\ daemon.held > 0 /\ (daemon.held = daemon.version \/ left.ticks > 0)
  /\ Got(Snapshot(daemon.gen, daemon.held, TRUE))
  /\ UNCHANGED <<daemon, left>>

\* No repository could be read: the last complete state, or nothing at all
\* under generation zero while some repository was never read.
Unread ==
  /\ Spend("faults")
  /\ Got(IF daemon.whole THEN Snapshot(daemon.gen, daemon.held, FALSE) ELSE Snapshot(0, 0, FALSE))
  /\ UNCHANGED daemon

Failed ==
  /\ Spend("faults")
  /\ Got(Result("unavailable", 0, 0, FALSE, 0))
  /\ UNCHANGED daemon

Mismatch == Got(Result("schema", 0, 0, FALSE, 0)) /\ UNCHANGED <<daemon, left>>

-----------------------------------------------------------------------------
(* RefreshCoordinator: one poll at a time, one subscription at a time.        *)

\* takeRequest, the request and its answer, computed at one moment: the daemon
\* moves on before the answer is posted as it does before it is given.
Poll ==
  /\ poll.msg = <<>> /\ due
  /\ due' = FALSE
  /\ IF daemon.other THEN Mismatch ELSE Accepted \/ Cached \/ Unread \/ Failed
  /\ UNCHANGED <<sub, relay, messages, readers, screen>>

\* deliver blocks while the channel is full.
PostResult ==
  /\ poll.msg # <<>> /\ Room
  /\ messages' = messages \o poll.msg
  /\ poll' = [poll EXCEPT !.msg = <<>>]
  /\ UNCHANGED <<daemon, due, cursor, sub, relay, readers, screen, left>>

Cadence ==
  /\ ~due /\ left.ticks > 0
  /\ left' = [left EXCEPT !.ticks = @ - 1]
  /\ due' = TRUE
  /\ UNCHANGED <<daemon, poll, cursor, sub, relay, messages, readers, screen>>

\* The backoff delay is over: the bus replays what it retains after the cursor.
Subscribe ==
  /\ sub.at = "off"
  /\ sub' = [at |-> "on", pos |-> IF cursor <= daemon.seq THEN cursor ELSE daemon.seq,
             high |-> cursor, started |-> FALSE, told |-> 0]
  /\ UNCHANGED <<daemon, poll, due, cursor, relay, messages, readers, screen, left>>

Notice(what, at) == [kind |-> "notice", gen |-> poll.gen, what |-> what, cursor |-> at]
Event(k) == [kind |-> "event", gen |-> poll.gen, seq |-> k]

\* The next event arrives; if events before it are gone the notice goes first.
StreamEvent ==
  /\ sub.at = "on" /\ relay = <<>> /\ sub.pos < daemon.seq
  /\ \E k \in (sub.pos + 1)..daemon.seq :
       /\ sub.told > 0 => k = sub.told
       /\ IF k > sub.high + 1 /\ sub.told = 0
          THEN /\ Spend("faults")
               /\ sub' = [sub EXCEPT !.told = k]
               /\ relay' = <<[msg |-> Notice(IF sub.started THEN "gap" ELSE "miss", k), last |-> FALSE]>>
               /\ UNCHANGED cursor
          ELSE /\ k > sub.pos + 1 => sub.told = k
               /\ sub' = [sub EXCEPT !.pos = k, !.high = k, !.started = TRUE, !.told = 0]
               /\ cursor' = Larger(cursor, k)
               /\ relay' = <<[msg |-> Event(k), last |-> FALSE]>>
               /\ UNCHANGED left
  /\ UNCHANGED <<daemon, poll, due, messages, readers, screen>>

\* The connection ends: the daemon closed it, it broke, or a frame made no
\* sense.  A restart has cut it, and the other schema shows at once.
StreamEnd ==
  /\ sub.at \in {"on", "cut"} /\ relay = <<>>
  /\ \E what \in Notices \ {"miss"} :
       /\ (what = "schema") <=> (sub.at = "on" /\ daemon.other)
       /\ IF sub.at = "cut" \/ daemon.other THEN UNCHANGED left ELSE Spend("faults")
       /\ relay' = <<[msg |-> Notice(what, sub.high), last |-> TRUE]>>
  /\ UNCHANGED <<daemon, poll, due, cursor, sub, messages, readers, screen>>

\* relaySubscription: the notice is posted first, the repair requested after.
Relay ==
  /\ relay # <<>> /\ Room
  /\ LET m == Head(relay).msg IN
       /\ messages' = Append(messages, m)
       /\ due' = (due \/ (m.kind = "notice" /\ m.what # "schema"))
       /\ sub' = IF ~Head(relay).last THEN sub
                 ELSE IF m.what = "schema" THEN [sub EXCEPT !.at = "closed"] ELSE Off
  /\ relay' = <<>>
  /\ UNCHANGED <<daemon, poll, cursor, readers, screen, left>>

-----------------------------------------------------------------------------
(* Program: commands read the channel, Update runs for one message at a time. *)

Offline(d) == [d EXCEPT !.conn = "offline", !.fresh = FALSE]
Terminal(d) == [d EXCEPT !.conn = "schema_mismatch", !.fresh = FALSE, !.dead = TRUE]

\* Fault: the last answer wins, whatever its generation.
LastSnapshotWins(d, m) ==
  IF d.dead THEN d
  ELSE IF m.err = "schema" THEN Terminal(d)
  ELSE IF m.err # "" THEN Offline(d)
  ELSE [d EXCEPT !.has = TRUE, !.gen = m.dgen, !.version = m.version, !.cursor = Larger(@, m.cursor),
                 !.conn = "online", !.fresh = m.fresh]

\* Fault: a snapshot of the generation already shown is ignored too.
NewerSnapshot(d, m) ==
  IF d.dead THEN d
  ELSE IF m.err = "schema" THEN Terminal(d)
  ELSE IF m.err # "" THEN Offline(d)
  ELSE IF d.has /\ m.dgen <= d.gen THEN d
  ELSE [d EXCEPT !.has = TRUE, !.gen = m.dgen, !.version = m.version, !.cursor = Larger(@, m.cursor),
                 !.conn = "online", !.fresh = m.fresh]

\* Model.Update on a snapshot.
WithSnapshot(d, m) ==
  IF d.dead THEN d
  ELSE IF m.err = "schema" THEN Terminal(d)
  ELSE IF m.err # "" THEN Offline(d)
  ELSE IF d.has /\ m.dgen < d.gen THEN d
  ELSE [d EXCEPT !.has = TRUE, !.gen = m.dgen, !.version = m.version, !.cursor = Larger(@, m.cursor),
                 !.conn = "online", !.fresh = m.fresh]

\* Fault: every event that arrives is shown.
EveryEvent(d, m) == IF d.dead THEN d ELSE [d EXCEPT !.events = Append(@, m.seq), !.cursor = Larger(@, m.seq)]

\* Model.Update on an event: at or below the cursor it is old.
WithEvent(d, m) ==
  IF d.dead \/ m.seq <= d.cursor THEN d
  ELSE [d EXCEPT !.events = Append(@, m.seq), !.cursor = m.seq]

\* The Events tab keeps them in arrival order.
WithRow(r, m) == Append(r, m.seq)

\* Model.Update on a stream notice.
WithNotice(d, m) ==
  IF d.dead \/ m.cursor < d.cursor THEN d
  ELSE LET e == [d EXCEPT !.cursor = m.cursor] IN IF m.what = "schema" THEN Terminal(e) ELSE Offline(e)

\* Program.Update on what the coordinator sent: anything from before the last
\* result it handled is dropped, and the tabs follow every good snapshot.
Handle(m) ==
  IF m.gen < seen THEN UNCHANGED screen
  ELSE CASE m.kind = "result" ->
              /\ seen' = m.gen
              /\ dash' = WithSnapshot(dash, m)
              /\ tabs' = IF m.err = "" THEN m.version ELSE tabs
              /\ UNCHANGED rows
         [] m.kind = "event" ->
              dash' = WithEvent(dash, m) /\ rows' = WithRow(rows, m) /\ UNCHANGED <<seen, tabs>>
         [] m.kind = "notice" ->
              dash' = WithNotice(dash, m) /\ UNCHANGED <<seen, tabs, rows>>

\* The readers hold the first messages, and any of them may hand over first.
Update ==
  /\ \E i \in DOMAIN messages : i <= readers /\ Handle(messages[i]) /\ messages' = RemoveAt(messages, i)
  /\ UNCHANGED <<daemon, link, readers, left>>

\* A key or a resize: r refreshes, another screen or size asks for a repair
\* (as a tick does, and counted as one), and every one of them starts one more
\* reader.
Key(asks) ==
  /\ left.keys > 0 /\ (asks => left.ticks > 0)
  /\ left' = [left EXCEPT !.keys = @ - 1, !.ticks = IF asks THEN @ - 1 ELSE @]
  /\ readers' = readers + 1
  /\ due' = (due \/ asks)
  /\ UNCHANGED <<daemon, poll, cursor, sub, relay, messages, screen>>

Cut == (sub.at = "cut" \/ daemon.other) /\ StreamEnd
Next ==
  \/ Change
  \/ \E other \in BOOLEAN : Restart(other)
  \/ Poll \/ PostResult \/ Cadence \/ Subscribe \/ StreamEvent \/ StreamEnd \/ Relay
  \/ Update
  \/ \E asks \in BOOLEAN : Key(asks)

Spec == Init /\ [][Next]_vars

\* Every goroutine runs, timers fire, the daemon answers; nothing makes the
\* fleet change, a connection break or the operator press a key.
FairSpec ==
  /\ Spec
  /\ WF_vars(Poll) /\ WF_vars(PostResult) /\ WF_vars(Cadence)
  /\ WF_vars(Subscribe) /\ WF_vars(StreamEvent) /\ WF_vars(Cut) /\ WF_vars(Relay) /\ WF_vars(Update)

-----------------------------------------------------------------------------
TypeOK ==
  /\ daemon \in [version : 1..(MaxChanges + 1), seq : Nat, gen : Nat, held : 0..(MaxChanges + 1),
                 whole : BOOLEAN, again : BOOLEAN, other : BOOLEAN]
  /\ poll.gen \in Nat /\ Len(poll.msg) <= 1
  /\ due \in BOOLEAN /\ cursor \in Nat /\ sub.at \in {"off", "on", "cut", "closed"}
  /\ Len(relay) <= 1 /\ Len(messages) <= Cap + readers
  /\ seen \in 0..poll.gen
  /\ dash.conn \in {"loading", "online", "offline", "schema_mismatch"} /\ tabs \in Nat

\* Events reach the dashboard oldest first and once each, although readers
\* reorder them and a new subscription replays them (applyEvent's cursor).
EventsInOrder == \A i, j \in DOMAIN dash.events : i < j => dash.events[i] < dash.events[j]

\* Once the dashboard shows a state of the fleet it never shows an older one
\* or none: not when results pass each other, not when the daemon lost its
\* records and answers with nothing (the two generation checks together).
NeverBack == [][dash.has => dash'.version >= dash.version]_vars

\* Once the daemon is quiet and no restart hides its generations, dashboard
\* and tabs end up with the current fleet, online and fresh: whatever a broken
\* stream or a failed poll left behind is repaired.
Current == dash.conn = "online" /\ dash.fresh /\ dash.version = daemon.version /\ tabs = daemon.version
Settles == <>[](daemon.again \/ Current)

\* Dashboard and tabs show the same snapshot.  Refuted: a snapshot without
\* records, or one of a restarted daemon, is refused by the dashboard as old
\* and shown by the tabs.
TabsAgree == dash.has => tabs = dash.version
=============================================================================
