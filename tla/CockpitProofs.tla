--------------------------- MODULE CockpitProofs ----------------------------
(***************************************************************************)
(* Both ends of the daemon's socket. What a cockpit shows only moves       *)
(* forward, for every number of changes, faults, keys and readers and any  *)
(* room in the channel:                                                    *)
(*                                                                         *)
(*   EventsOnceInOrder  the dashboard lists events oldest first and once   *)
(*                      each, however readers and replays reorder them;    *)
(*   DashboardForward   and once it shows a fleet it never shows an older  *)
(*                      one, through restarts and late answers as well.    *)
(*                                                                         *)
(* The first needs no more than the cursor. The second needs both checks   *)
(* of a generation: the program's, of the polls, orders the answers of     *)
(* daemons before and after a restart; the dashboard's, of the snapshots,  *)
(* keeps out an answer that has nothing to show.                           *)
(*                                                                         *)
(* And the daemon that answers (Console), for any finite number of callers *)
(* and repositories:                                                       *)
(*                                                                         *)
(*   FlightsAreShared   never reads the repositories twice at once.        *)
(*                                                                         *)
(* It needs that a flight leaves its place only when it has read them all, *)
(* and that there is always a slot for one that nobody waits on.           *)
(***************************************************************************)
EXTENDS Cockpit, Console, FiniteSetTheorems, TLAPS

(* What the link carries: answers to polls, and what the stream tells.     *)
StreamMessage ==
  [kind : {"notice"}, gen : Nat, what : Notices, cursor : Nat]
    \cup [kind : {"event"}, gen : Nat, seq : Nat]
Message ==
  [kind : {"result"}, gen : Nat, err : {"", "unavailable", "schema"}, dgen : Nat,
   version : Nat, fresh : BOOLEAN, cursor : Nat]
    \cup StreamMessage

Serving ==
  daemon \in [version : Nat, seq : Nat, gen : Nat, held : Nat, whole : BOOLEAN,
              again : BOOLEAN, other : BOOLEAN]
Linking ==
  /\ poll.gen \in Nat /\ poll.msg \in Seq(Message) /\ cursor \in Nat
  /\ sub \in [at : {"off", "on", "cut", "closed"}, pos : Nat, high : Nat,
              started : BOOLEAN, told : Nat]
  /\ relay \in Seq([msg : StreamMessage, last : BOOLEAN])
Posted == messages \in Seq(Message) /\ readers \in Nat
Shown ==
  /\ seen \in Nat
  /\ dash \in [has : BOOLEAN, gen : Nat, version : Nat, cursor : Nat,
               conn : {"loading", "online", "offline", "schema_mismatch"},
               fresh : BOOLEAN, events : Seq(Nat), dead : BOOLEAN]
Typed == Serving /\ Linking /\ Posted /\ Shown

(* The dashboard has shown nothing beyond its cursor.                      *)
Passed == \A i \in DOMAIN dash.events : dash.events[i] <= dash.cursor
Ordered == EventsInOrder /\ Passed

(* The daemon has a record exactly under a generation, and never one of    *)
(* the future.                                                             *)
Recorded ==
  /\ daemon.held > 0 <=> daemon.gen > 0
  /\ daemon.whole => daemon.gen > 0
  /\ daemon.held <= daemon.version /\ daemon.version > 0

(* The answers that are on their way to Update and carry a snapshot.       *)
Good(m) == m.kind = "result" /\ m.err = ""
Answers == {m \in ToSet(messages) \cup ToSet(poll.msg) : Good(m)}

(* No answer given from now on shows an older fleet than this, if it shows *)
(* any.                                                                    *)
Newest == IF daemon.held > 0 THEN daemon.held ELSE daemon.version

(* Of two answers the one asked for later shows the later fleet, unless it *)
(* shows none; generation zero shows none.                                 *)
Answered ==
  /\ \A m \in Answers : m.gen <= poll.gen /\ m.version <= Newest
  /\ \A m \in Answers : m.dgen = 0 => m.version = 0
  /\ \A m, n \in Answers : m.gen <= n.gen /\ n.dgen > 0 => m.version <= n.version

(* What is shown is no later than what is on its way and not yet outdated. *)
Kept ==
  dash.has =>
    /\ dash.gen = 0 => dash.version = 0
    /\ dash.version <= Newest
    /\ \A m \in Answers : m.gen >= seen /\ m.dgen > 0 => dash.version <= m.version
Forward == Recorded /\ Answered /\ Kept

-----------------------------------------------------------------------------
(* Sequences of messages.                                                  *)

LEMMA ShortSeq ==
  /\ ToSet(<<>>) = {}
  /\ \A m : ToSet(<<m>>) = {m}
  BY DEF ToSet

LEMMA HeadSeq ==
  ASSUME NEW S, NEW s \in Seq(S), s # <<>>
  PROVE  Head(s) \in S
  OBVIOUS

LEMMA PostSeq ==
  ASSUME NEW S, NEW s \in Seq(S), NEW m \in S
  PROVE  Append(s, m) \in Seq(S) /\ ToSet(Append(s, m)) = ToSet(s) \cup {m}
  <1>1. /\ Append(s, m) \in Seq(S) /\ Len(s) \in Nat /\ DOMAIN s = 1 .. Len(s)
        /\ DOMAIN Append(s, m) = 1 .. Len(s) + 1
        /\ \A i \in 1 .. Len(s) : Append(s, m)[i] = s[i]
        /\ Append(s, m)[Len(s) + 1] = m
    OBVIOUS
  <1>2. \A i \in DOMAIN Append(s, m) : i \in DOMAIN s \/ i = Len(s) + 1
    BY <1>1
  <1>3. \A i \in DOMAIN Append(s, m) : Append(s, m)[i] \in ToSet(s) \cup {m}
    BY <1>1, <1>2 DEF ToSet
  <1>4. ToSet(s) \subseteq ToSet(Append(s, m)) /\ m \in ToSet(Append(s, m))
    BY <1>1 DEF ToSet
  <1>5. ToSet(Append(s, m)) \subseteq ToSet(s) \cup {m}
    BY <1>3 DEF ToSet
  <1> QED BY <1>1, <1>4, <1>5

LEMMA JoinSeq ==
  ASSUME NEW S, NEW s \in Seq(S), NEW t \in Seq(S)
  PROVE  s \o t \in Seq(S) /\ ToSet(s \o t) = ToSet(s) \cup ToSet(t)
  <1>1. /\ Len(s) \in Nat /\ Len(t) \in Nat /\ s \o t \in Seq(S)
        /\ DOMAIN s = 1 .. Len(s) /\ DOMAIN t = 1 .. Len(t)
        /\ DOMAIN (s \o t) = 1 .. Len(s) + Len(t)
        /\ \A i \in 1 .. Len(s) : (s \o t)[i] = s[i]
        /\ \A i \in 1 .. Len(t) : (s \o t)[Len(s) + i] = t[i]
    OBVIOUS
  <1>2. ToSet(s \o t) \subseteq ToSet(s) \cup ToSet(t)
    <2> SUFFICES ASSUME NEW k \in 1 .. Len(s) + Len(t)
                 PROVE  (s \o t)[k] \in ToSet(s) \cup ToSet(t)
      BY <1>1 DEF ToSet
    <2>1. CASE k <= Len(s)
      BY <1>1, <2>1 DEF ToSet
    <2>2. CASE k > Len(s)
      <3>1. k - Len(s) \in 1 .. Len(t) /\ Len(s) + (k - Len(s)) = k
        BY <1>1, <2>2
      <3> QED BY <1>1, <3>1 DEF ToSet
    <2> QED BY <1>1, <2>1, <2>2
  <1>3. ToSet(s) \subseteq ToSet(s \o t)
    BY <1>1 DEF ToSet
  <1>4. ToSet(t) \subseteq ToSet(s \o t)
    <2> SUFFICES ASSUME NEW k \in 1 .. Len(t) PROVE t[k] \in ToSet(s \o t)
      BY <1>1 DEF ToSet
    <2>1. Len(s) + k \in 1 .. Len(s) + Len(t)
      BY <1>1
    <2> QED BY <1>1, <2>1 DEF ToSet
  <1> QED BY <1>1, <1>2, <1>3, <1>4

LEMMA RemoveSeq ==
  ASSUME NEW S, NEW s \in Seq(S), NEW i \in DOMAIN s
  PROVE  /\ RemoveAt(s, i) \in Seq(S) /\ ToSet(RemoveAt(s, i)) \subseteq ToSet(s)
         /\ s[i] \in ToSet(s) /\ s[i] \in S
  <1>1. Len(s) \in Nat /\ i \in 1 .. Len(s) /\ DOMAIN s = 1 .. Len(s)
    OBVIOUS
  <1>2. /\ s[i] \in ToSet(s) /\ s[i] \in S
        /\ \A k \in 1 .. Len(s) : s[k] \in ToSet(s)
    BY <1>1 DEF ToSet
  <1>3. ASSUME NEW m \in 1 .. Len(s) + 1, NEW n \in 0 .. Len(s)
        PROVE  SubSeq(s, m, n) \in Seq(S) /\ ToSet(SubSeq(s, m, n)) \subseteq ToSet(s)
    <2>1. SubSeq(s, m, n) \in Seq(S)
      BY <1>1
    <2>2. \A v \in ToSet(SubSeq(s, m, n)) : \E k \in 1 .. Len(s) : v = s[k]
      BY <1>1 DEF ToSet
    <2> QED BY <1>2, <2>1, <2>2
  <1>4. /\ 1 \in 1 .. Len(s) + 1 /\ i - 1 \in 0 .. Len(s)
        /\ i + 1 \in 1 .. Len(s) + 1 /\ Len(s) \in 0 .. Len(s)
    BY <1>1
  <1> DEFINE before == SubSeq(s, 1, i - 1)
             after == SubSeq(s, i + 1, Len(s))
  <1>5. /\ before \in Seq(S) /\ ToSet(before) \subseteq ToSet(s)
        /\ after \in Seq(S) /\ ToSet(after) \subseteq ToSet(s)
    BY <1>3, <1>4
  <1> HIDE DEF before, after
  <1>6. before \o after \in Seq(S) /\ ToSet(before \o after) \subseteq ToSet(s)
    BY <1>5, JoinSeq
  <1>7. RemoveAt(s, i) = before \o after
    BY DEF RemoveAt, before, after
  <1> QED BY <1>2, <1>6, <1>7

-----------------------------------------------------------------------------
(* The steps of the daemon and of the link.                                *)

(* Every answer to a poll is numbered next and comes to the link alone.    *)
LEMMA Polled ==
  ASSUME Typed, Recorded, Poll
  PROVE  \E r \in Message :
           /\ poll' = [gen |-> poll.gen + 1, msg |-> <<r>>] /\ poll.msg = <<>>
           /\ r.kind = "result" /\ r.gen = poll.gen + 1
           /\ Good(r) /\ r.dgen > 0 => r.version = Newest'
           /\ Good(r) /\ r.dgen = 0 => r.version = 0
           /\ Serving' /\ Recorded' /\ Newest <= Newest' /\ cursor' \in Nat
  <1> USE DEF Result, Snapshot, Got, Larger
  <1>1. /\ poll.gen \in Nat /\ cursor \in Nat /\ daemon.gen \in Nat /\ daemon.version \in Nat
        /\ daemon.held \in Nat /\ daemon.seq \in Nat /\ daemon.whole \in BOOLEAN /\ poll.gen + 1 \in Nat
        /\ daemon.gen + 1 \in Nat
    BY DEF Typed, Linking, Serving
  <1>2. poll.msg = <<>>
    BY DEF Poll
  <1>7. daemon' = daemon => Serving' /\ Recorded' /\ Newest' = Newest /\ Newest <= Newest'
    <2>1. Newest \in Nat
      BY <1>1 DEF Newest
    <2>2. daemon' = daemon => Newest' = Newest
      BY DEF Newest
    <2>3. daemon' = daemon => Serving'
      BY DEF Typed, Serving
    <2>4. daemon' = daemon => Recorded'
      BY DEF Recorded
    <2> QED BY <2>1, <2>2, <2>3, <2>4
  <1>3. CASE Accepted
    <2>1. PICK whole \in {daemon.whole, TRUE} :
            /\ Got(Snapshot(daemon.gen + 1, daemon.version, TRUE))
            /\ daemon' = [daemon EXCEPT !.gen = @ + 1, !.held = daemon.version, !.whole = whole]
      BY <1>3 DEF Accepted
    <2> DEFINE r == Snapshot(daemon.gen + 1, daemon.version, TRUE)
    <2>2. r \in Message
      BY <1>1 DEF Message
    <2>3. /\ daemon'.gen = daemon.gen + 1 /\ daemon'.held = daemon.version
          /\ daemon'.version = daemon.version /\ daemon'.whole \in BOOLEAN /\ Serving'
      BY <1>1, <2>1 DEF Typed, Serving
    <2>4. Recorded' /\ Newest' = daemon.version /\ Newest <= daemon.version /\ daemon'.held > 0
      BY <1>1, <2>3 DEF Recorded, Newest
    <2>5. poll' = [gen |-> poll.gen + 1, msg |-> <<r>>] /\ cursor' \in Nat
      BY <1>1, <2>1
    <2>6. r.kind = "result" /\ r.gen = poll.gen + 1 /\ r.dgen # 0 /\ r.version = daemon.version
      BY <1>1
    <2> HIDE DEF r
    <2> WITNESS r \in Message
    <2> QED BY <1>2, <2>2, <2>3, <2>4, <2>5, <2>6
  <1>4. CASE Cached
    <2> DEFINE r == Snapshot(daemon.gen, daemon.held, TRUE)
    <2>1. Got(r) /\ daemon' = daemon /\ daemon.held > 0
      BY <1>4 DEF Cached
    <2>2. r \in Message
      BY <1>1 DEF Message
    <2>3. Serving' /\ Recorded' /\ Newest <= Newest' /\ Newest' = daemon.held /\ daemon'.held > 0
      BY <1>1, <1>7, <2>1 DEF Newest
    <2>5. poll' = [gen |-> poll.gen + 1, msg |-> <<r>>] /\ cursor' \in Nat
      BY <1>1, <2>1
    <2>6. r.kind = "result" /\ r.gen = poll.gen + 1 /\ r.dgen # 0 /\ r.version = daemon.held
      <3>1. daemon.held > 0
        BY <1>4 DEF Cached
      <3>2. daemon.gen # 0
        BY <1>1, <3>1 DEF Recorded
      <3> QED BY <3>2
    <2> HIDE DEF r
    <2> WITNESS r \in Message
    <2> QED BY <1>2, <2>2, <2>3, <2>5, <2>6
  <1>5. CASE Unread
    <2> DEFINE r == IF daemon.whole THEN Snapshot(daemon.gen, daemon.held, FALSE)
                                    ELSE Snapshot(0, 0, FALSE)
    <2>1. Got(r) /\ daemon' = daemon
      BY <1>5 DEF Unread
    <2>2. r \in Message
      BY <1>1 DEF Message
    <2>3. Serving' /\ Recorded' /\ Newest' = Newest /\ Newest <= Newest'
      BY <1>1, <1>7, <2>1
    <2>4. daemon.whole => daemon.gen > 0 /\ daemon.held > 0 /\ Newest = daemon.held
      BY <1>1 DEF Recorded, Newest
    <2>5. poll' = [gen |-> poll.gen + 1, msg |-> <<r>>] /\ cursor' \in Nat
      BY <1>1, <2>1
    <2>6. /\ r.kind = "result" /\ r.gen = poll.gen + 1
          /\ r.dgen = IF daemon.whole THEN daemon.gen ELSE 0
          /\ r.version = IF daemon.whole THEN daemon.held ELSE 0
      BY <1>1
    <2> HIDE DEF r
    <2>7. /\ r.dgen > 0 => r.version = Newest'
          /\ r.dgen = 0 => r.version = 0
      BY <1>1, <2>3, <2>4, <2>6
    <2> WITNESS r \in Message
    <2> QED BY <1>2, <2>3, <2>5, <2>6, <2>7
  <1>6. CASE Failed \/ Mismatch
    <2>1. PICK err \in {"unavailable", "schema"} :
            Got(Result(err, 0, 0, FALSE, 0)) /\ daemon' = daemon
      BY <1>6 DEF Failed, Mismatch
    <2> DEFINE r == Result(err, 0, 0, FALSE, 0)
    <2>2. r \in Message
      BY <1>1 DEF Message
    <2>3. Serving' /\ Recorded' /\ Newest' = Newest /\ Newest <= Newest'
      BY <1>1, <1>7, <2>1
    <2>5. poll' = [gen |-> poll.gen + 1, msg |-> <<r>>] /\ cursor' \in Nat
      BY <1>1, <2>1
    <2>6. r.kind = "result" /\ r.gen = poll.gen + 1 /\ ~Good(r)
      BY <1>1 DEF Good
    <2> HIDE DEF r
    <2> WITNESS r \in Message
    <2> QED BY <1>2, <2>2, <2>3, <2>5, <2>6
  <1> QED BY <1>3, <1>4, <1>5, <1>6 DEF Poll

(* A restart or a change of the fleet.                                     *)
LEMMA Moved ==
  ASSUME Typed, Recorded, Change \/ \E other \in BOOLEAN : Restart(other)
  PROVE  Serving' /\ Recorded' /\ Newest <= Newest'
  <1>1. /\ daemon.gen \in Nat /\ daemon.version \in Nat /\ daemon.held \in Nat /\ daemon.seq \in Nat
        /\ daemon.version + 1 \in Nat /\ daemon.seq + Burst \in Nat
    BY Bounds DEF Typed, Serving
  <1>2. CASE Change
    <2>1. daemon' = [daemon EXCEPT !.version = @ + 1, !.seq = @ + Burst]
      BY <1>2 DEF Change
    <2>2. /\ daemon'.version = daemon.version + 1 /\ daemon'.held = daemon.held
          /\ daemon'.gen = daemon.gen /\ daemon'.whole = daemon.whole /\ Serving'
      BY <1>1, <2>1 DEF Typed, Serving
    <2> QED BY <1>1, <2>2 DEF Recorded, Newest
  <1>3. CASE \E other \in BOOLEAN : Restart(other)
    <2>1. PICK other \in BOOLEAN :
            daemon' = [daemon EXCEPT !.seq = 0, !.gen = 0, !.held = 0, !.whole = FALSE,
                                     !.again = TRUE, !.other = other]
      BY <1>3 DEF Restart
    <2>2. /\ daemon'.version = daemon.version /\ daemon'.held = 0
          /\ daemon'.gen = 0 /\ daemon'.whole = FALSE /\ Serving'
      BY <1>1, <2>1 DEF Typed, Serving
    <2> QED BY <1>1, <2>2 DEF Recorded, Newest
  <1> QED BY <1>2, <1>3

(* The subscription passes on what is well formed.                         *)
LEMMA Streamed ==
  ASSUME Typed, Subscribe \/ StreamEvent \/ StreamEnd \/ Relay \/ Cadence \/ PostResult
                \/ (\E other \in BOOLEAN : Restart(other)) \/ Change
  PROVE  Linking'
  <1> DEFINE Line == [msg : StreamMessage, last : BOOLEAN]
             Sub == [at : {"off", "on", "cut", "closed"}, pos : Nat, high : Nat,
                     started : BOOLEAN, told : Nat]
  <1>1. poll.gen \in Nat /\ cursor \in Nat /\ daemon.seq \in Nat /\ sub.high \in Nat /\ sub.pos \in Nat
    BY DEF Typed, Linking, Serving
  <1>0. /\ poll.msg \in Seq(Message) /\ sub \in Sub /\ relay \in Seq(Line)
    BY DEF Typed, Linking
  <1> DEFINE Linked(p, c, s, l) ==
        p.gen \in Nat /\ p.msg \in Seq(Message) /\ c \in Nat /\ s \in Sub /\ l \in Seq(Line)
  <1>13. Linked(poll, cursor, sub, relay)' => Linking'
    BY DEF Linking
  <1>2. <<>> \in Seq(Line) /\ <<>> \in Seq(Message)
    OBVIOUS
  <1>3. \A what \in Notices, at \in Nat : Notice(what, at) \in StreamMessage
    BY <1>1 DEF Notice, StreamMessage
  <1>4. \A k \in Nat : Event(k) \in StreamMessage
    BY <1>1 DEF Event, StreamMessage
  <1>5. \A m \in StreamMessage, last \in BOOLEAN : <<[msg |-> m, last |-> last]>> \in Seq(Line)
    OBVIOUS
  <1>6. CASE Subscribe
    <2>1. sub' \in Sub
      BY <1>1, <1>6 DEF Subscribe
    <2> QED BY <1>0, <1>1, <1>6, <1>13, <2>1 DEF Subscribe
  <1>7. CASE StreamEvent
    <2>1. PICK k \in (sub.pos + 1) .. daemon.seq :
            \/ /\ sub' = [sub EXCEPT !.told = k] /\ UNCHANGED cursor
               /\ relay' = <<[msg |-> Notice(IF sub.started THEN "gap" ELSE "miss", k), last |-> FALSE]>>
            \/ /\ sub' = [sub EXCEPT !.pos = k, !.high = k, !.started = TRUE, !.told = 0]
               /\ cursor' = Larger(cursor, k)
               /\ relay' = <<[msg |-> Event(k), last |-> FALSE]>>
      BY <1>7 DEF StreamEvent
    <2>2. k \in Nat
      BY <1>1
    <2>6. UNCHANGED poll
      BY <1>7 DEF StreamEvent
    <2>7. Notice(IF sub.started THEN "gap" ELSE "miss", k) \in StreamMessage
      BY <1>3, <2>2 DEF Notices
    <2>3. relay' \in Seq(Line)
      BY <1>4, <1>5, <2>1, <2>2, <2>7
    <2>4. cursor' \in Nat
      BY <1>1, <2>1, <2>2 DEF Larger
    <2>8. /\ [sub EXCEPT !.told = k] \in Sub
          /\ [sub EXCEPT !.pos = k, !.high = k, !.started = TRUE, !.told = 0] \in Sub
      BY <1>0, <2>2
    <2> HIDE DEF Sub
    <2>5. sub' \in Sub
      BY <2>1, <2>8
    <2> QED BY <1>0, <1>1, <1>13, <2>3, <2>4, <2>5, <2>6
  <1>8. CASE StreamEnd
    <2>1. PICK what \in Notices : relay' = <<[msg |-> Notice(what, sub.high), last |-> TRUE]>>
      BY <1>8 DEF StreamEnd
    <2>2. relay' \in Seq(Line)
      BY <1>1, <1>3, <1>5, <2>1
    <2> QED BY <1>0, <1>1, <1>8, <1>13, <2>2 DEF StreamEnd
  <1>9. CASE Relay
    <2>1. /\ relay' = <<>> /\ UNCHANGED <<poll, cursor>>
          /\ sub' \in {sub, [sub EXCEPT !.at = "closed"], Off}
      BY <1>9 DEF Relay
    <2>2. Off \in Sub
      BY DEF Off
    <2>3. sub' \in Sub
      BY <1>0, <2>1, <2>2
    <2> QED BY <1>0, <1>1, <1>2, <1>13, <2>1, <2>3
  <1>10. CASE Cadence
    BY <1>0, <1>1, <1>10, <1>13 DEF Cadence
  <1>11. CASE PostResult
    <2>1. poll'.gen = poll.gen /\ poll'.msg = <<>>
      BY <1>11 DEF PostResult
    <2> QED BY <1>0, <1>1, <1>2, <1>11, <1>13, <2>1 DEF PostResult
  <1>12. CASE (\E other \in BOOLEAN : Restart(other)) \/ Change
    <2>1. UNCHANGED <<poll, cursor, relay>>
      BY <1>12 DEF Restart, Change, link
    <2>4. sub' = sub \/ sub' = [sub EXCEPT !.at = "cut"]
      BY <1>12 DEF Restart, Change, link
    <2>3. [sub EXCEPT !.at = "cut"] \in Sub
      BY <1>0
    <2> HIDE DEF Sub
    <2>2. sub' \in Sub
      BY <1>0, <2>3, <2>4
    <2> QED BY <1>0, <1>1, <1>13, <2>1, <2>2
  <1> QED BY <1>6, <1>7, <1>8, <1>9, <1>10, <1>11, <1>12

-----------------------------------------------------------------------------
(* The screen.                                                             *)

(* A message that Update takes is one of the queue, and leaves the rest.   *)
LEMMA Taken ==
  ASSUME Typed, Update
  PROVE  /\ messages' \in Seq(Message) /\ ToSet(messages') \subseteq ToSet(messages)
         /\ \E m \in ToSet(messages) \cap Message : Handle(m)
         /\ UNCHANGED <<daemon, poll, due, cursor, sub, relay, readers, left>>
  <1>1. PICK i \in DOMAIN messages : Handle(messages[i]) /\ messages' = RemoveAt(messages, i)
    BY DEF Update
  <1>2. messages \in Seq(Message)
    BY DEF Typed, Posted
  <1> QED BY <1>1, <1>2, RemoveSeq DEF Update, link

(* What a message does to the dashboard: it shows another fleet, lists an  *)
(* event, or moves no more than the cursor, and that forward.              *)
Shows(m) ==
  /\ m.kind = "result" /\ Good(m) /\ (dash.has => m.dgen >= dash.gen)
  /\ dash'.has = TRUE /\ dash'.gen = m.dgen /\ dash'.version = m.version
  /\ dash'.cursor >= dash.cursor /\ dash'.events = dash.events
Lists(m) ==
  /\ m.kind = "event" /\ m.seq > dash.cursor
  /\ dash'.has = dash.has /\ dash'.gen = dash.gen /\ dash'.version = dash.version
  /\ dash'.cursor = m.seq /\ dash'.events = Append(dash.events, m.seq)
Marks ==
  /\ dash'.has = dash.has /\ dash'.gen = dash.gen /\ dash'.version = dash.version
  /\ dash'.cursor >= dash.cursor /\ dash'.events = dash.events

Dash == [has : BOOLEAN, gen : Nat, version : Nat, cursor : Nat,
         conn : {"loading", "online", "offline", "schema_mismatch"},
         fresh : BOOLEAN, events : Seq(Nat), dead : BOOLEAN]

LEMMA DashTyped ==
  ASSUME Typed
  PROVE  /\ dash \in Dash /\ dash.gen \in Nat /\ dash.version \in Nat /\ dash.cursor \in Nat
         /\ dash.events \in Seq(Nat) /\ seen \in Nat
         /\ Offline(dash) \in Dash /\ Terminal(dash) \in Dash
  BY DEF Typed, Shown, Dash, Offline, Terminal

LEMMA MessageTyped ==
  ASSUME NEW m \in Message
  PROVE  /\ m.gen \in Nat
         /\ m.kind = "result" => /\ m.dgen \in Nat /\ m.version \in Nat /\ m.cursor \in Nat
                                 /\ m.fresh \in BOOLEAN
         /\ m.kind = "notice" => m.cursor \in Nat
         /\ m.kind = "event" => m.seq \in Nat
         /\ m.kind \in {"result", "notice", "event"}
  BY DEF Message, StreamMessage

LEMMA SnapshotWays ==
  ASSUME Typed, NEW m \in Message, m.kind = "result", dash' = WithSnapshot(dash, m)
  PROVE  dash' \in Dash /\ (Shows(m) \/ Marks)
  <1> DEFINE new == [dash EXCEPT !.has = TRUE, !.gen = m.dgen, !.version = m.version,
                       !.cursor = Larger(@, m.cursor), !.conn = "online", !.fresh = m.fresh]
  <1>1. /\ dash \in Dash /\ dash.gen \in Nat /\ dash.cursor \in Nat
        /\ m.dgen \in Nat /\ m.version \in Nat /\ m.cursor \in Nat /\ m.fresh \in BOOLEAN
    BY DashTyped, MessageTyped
  <1>2. \/ dash' \in {dash, Offline(dash), Terminal(dash)}
        \/ dash' = new /\ Good(m) /\ ~(dash.has /\ m.dgen < dash.gen)
    BY DEF WithSnapshot, Good
  <1>3. CASE dash' \in {dash, Offline(dash), Terminal(dash)}
    <2>1. dash' \in Dash
      BY <1>1, <1>3, DashTyped
    <2>2. \A d \in {dash, Offline(dash), Terminal(dash)} :
            /\ d.has = dash.has /\ d.gen = dash.gen /\ d.version = dash.version
            /\ d.cursor = dash.cursor /\ d.events = dash.events
      BY <1>1 DEF Offline, Terminal, Dash
    <2>3. Marks
      BY <1>1, <1>3, <2>2 DEF Marks
    <2> QED BY <2>1, <2>3
  <1>4. CASE dash' = new /\ Good(m) /\ ~(dash.has /\ m.dgen < dash.gen)
    <2>1. Larger(dash.cursor, m.cursor) \in Nat /\ Larger(dash.cursor, m.cursor) >= dash.cursor
      BY <1>1 DEF Larger
    <2>2. new \in Dash
      BY <1>1, <2>1 DEF Dash
    <2>3. /\ new.has = TRUE /\ new.gen = m.dgen /\ new.version = m.version /\ new.events = dash.events
          /\ new.cursor = Larger(dash.cursor, m.cursor)
      BY <1>1 DEF Dash
    <2> HIDE DEF new
    <2>5. dash.has => m.dgen >= dash.gen
      <3>1. ~(m.dgen < dash.gen) => m.dgen >= dash.gen
        BY <1>1
      <3>2. dash.has => ~(m.dgen < dash.gen)
        BY <1>4, Zenon
      <3> QED BY <3>1, <3>2, Zenon
    <2>4. Shows(m)
      BY <1>4, <2>1, <2>3, <2>5 DEF Shows
    <2> QED BY <1>4, <2>2, <2>4
  <1> QED BY <1>2, <1>3, <1>4

LEMMA EventWays ==
  ASSUME Typed, NEW m \in Message, m.kind = "event", dash' = WithEvent(dash, m)
  PROVE  dash' \in Dash /\ (Lists(m) \/ Marks)
  <1> DEFINE new == [dash EXCEPT !.events = Append(@, m.seq), !.cursor = m.seq]
  <1>1. dash \in Dash /\ dash.cursor \in Nat /\ dash.events \in Seq(Nat) /\ m.seq \in Nat
    BY DashTyped, MessageTyped
  <1>2. dash' = dash \/ (dash' = new /\ ~(m.seq <= dash.cursor))
    BY DEF WithEvent
  <1>3. CASE dash' = dash
    BY <1>1, <1>3 DEF Marks
  <1>4. CASE dash' = new /\ ~(m.seq <= dash.cursor)
    <2>1. Append(dash.events, m.seq) \in Seq(Nat)
      BY <1>1
    <2>2. new \in Dash
      BY <1>1, <2>1 DEF Dash
    <2>3. /\ new.has = dash.has /\ new.gen = dash.gen /\ new.version = dash.version
          /\ new.cursor = m.seq /\ new.events = Append(dash.events, m.seq)
      BY <1>1 DEF Dash
    <2> QED BY <1>1, <1>4, <2>2, <2>3 DEF Lists
  <1> QED BY <1>2, <1>3, <1>4

LEMMA NoticeWays ==
  ASSUME Typed, NEW m \in Message, m.kind = "notice", dash' = WithNotice(dash, m)
  PROVE  dash' \in Dash /\ Marks
  <1> DEFINE e == [dash EXCEPT !.cursor = m.cursor]
  <1>1. dash \in Dash /\ dash.cursor \in Nat /\ m.cursor \in Nat
    BY DashTyped, MessageTyped
  <1>2. dash' = dash \/ (dash' \in {Terminal(e), Offline(e)} /\ ~(m.cursor < dash.cursor))
    BY DEF WithNotice
  <1>3. CASE dash' = dash
    BY <1>1, <1>3 DEF Marks
  <1>4. CASE dash' \in {Terminal(e), Offline(e)} /\ ~(m.cursor < dash.cursor)
    <2>1. /\ e \in Dash /\ e.has = dash.has /\ e.gen = dash.gen /\ e.version = dash.version
          /\ e.cursor = m.cursor /\ e.events = dash.events
      BY <1>1 DEF Dash
    <2> HIDE DEF e
    <2>2. dash' \in Dash
      BY <1>4, <2>1 DEF Dash, Terminal, Offline
    <2>3. /\ dash'.has = e.has /\ dash'.gen = e.gen /\ dash'.version = e.version
          /\ dash'.cursor = e.cursor /\ dash'.events = e.events
      BY <1>4, <2>1 DEF Dash, Terminal, Offline
    <2> QED BY <1>1, <1>4, <2>1, <2>2, <2>3 DEF Marks
  <1> QED BY <1>2, <1>3, <1>4

LEMMA HandleWays ==
  ASSUME Typed, NEW m \in Message, Handle(m)
  PROVE  /\ Shown'
         /\ \/ UNCHANGED <<seen, dash>>
            \/ /\ m.gen >= seen /\ (m.kind = "result" => seen' = m.gen)
               /\ m.kind # "result" => seen' = seen
               /\ Shows(m) \/ Lists(m) \/ Marks
  <1>1. m.gen \in Nat /\ seen \in Nat /\ dash \in Dash /\ m.kind \in {"result", "notice", "event"}
    BY DashTyped, MessageTyped
  <1>2. seen' \in Nat /\ dash' \in Dash => Shown'
    BY DEF Shown, Dash
  <1>3. CASE m.gen < seen
    BY <1>1, <1>2, <1>3 DEF Handle, screen
  <1>4. CASE ~(m.gen < seen) /\ m.kind = "result"
    <2>1. dash' = WithSnapshot(dash, m) /\ seen' = m.gen
      BY <1>4 DEF Handle
    <2> QED BY <1>1, <1>2, <1>4, <2>1, SnapshotWays
  <1>5. CASE ~(m.gen < seen) /\ m.kind = "event"
    <2>1. dash' = WithEvent(dash, m) /\ seen' = seen
      BY <1>5 DEF Handle
    <2> QED BY <1>1, <1>2, <1>5, <2>1, EventWays
  <1>6. CASE ~(m.gen < seen) /\ m.kind = "notice"
    <2>1. dash' = WithNotice(dash, m) /\ seen' = seen
      BY <1>6 DEF Handle
    <2> QED BY <1>1, <1>2, <1>6, <2>1, NoticeWays
  <1> QED BY <1>1, <1>3, <1>4, <1>5, <1>6

-----------------------------------------------------------------------------
(* Types, and events in order.                                             *)

LEMMA InitTyped == Init => Typed /\ Ordered /\ Forward
  <1> SUFFICES ASSUME Init PROVE Typed /\ Ordered /\ Forward
    OBVIOUS
  <1>1. Serving /\ Linking /\ Posted /\ Shown
    BY DEF Init, Serving, Linking, Posted, Shown, Off
  <1>2. Ordered
    BY DEF Init, Ordered, EventsInOrder, Passed
  <1>3. Recorded /\ Kept
    BY DEF Init, Recorded, Kept
  <1>4. Answers = {}
    BY DEF Init, Answers, ToSet
  <1> QED BY <1>1, <1>2, <1>3, <1>4 DEF Typed, Forward, Answered

(* The queue of messages, which grows by what is posted.                   *)
LEMMA NextPosted ==
  ASSUME Typed, Next
  PROVE  Posted'
  <1>1. /\ messages \in Seq(Message) /\ readers \in Nat /\ poll.msg \in Seq(Message)
        /\ relay \in Seq([msg : StreamMessage, last : BOOLEAN])
    BY DEF Typed, Posted, Linking
  <1>2. CASE Change \/ Poll \/ Cadence \/ Subscribe \/ StreamEvent \/ StreamEnd
             \/ \E other \in BOOLEAN : Restart(other)
    BY <1>1, <1>2 DEF Change, Poll, Cadence, Subscribe, StreamEvent, StreamEnd, Restart, Posted
  <1>3. CASE PostResult
    BY <1>1, <1>3, JoinSeq DEF PostResult, Posted
  <1>4. CASE Relay
    <2>3. relay # <<>>
      BY <1>4 DEF Relay
    <2>5. Head(relay) \in [msg : StreamMessage, last : BOOLEAN]
      BY <1>1, <2>3, HeadSeq, Zenon
    <2>1. Head(relay).msg \in Message
      BY <2>5 DEF Message
    <2>2. messages' = Append(messages, Head(relay).msg) /\ readers' = readers
      BY <1>4 DEF Relay
    <2> QED BY <1>1, <2>1, <2>2 DEF Posted
  <1>5. CASE Update
    BY <1>1, <1>5, Taken DEF Posted
  <1>6. CASE \E again \in BOOLEAN : Key(again)
    <2>1. readers' = readers + 1 /\ messages' = messages
      BY <1>6 DEF Key
    <2> QED BY <1>1, <2>1 DEF Posted
  <1> QED BY <1>2, <1>3, <1>4, <1>5, <1>6 DEF Next

(* Only Update changes the screen.                                         *)
LEMMA Unseen ==
  ASSUME Next, ~Update
  PROVE  UNCHANGED screen
  BY DEF Next, Change, Restart, Poll, PostResult, Cadence, Subscribe, StreamEvent, StreamEnd, Relay, Key

LEMMA ScreenStays ==
  ASSUME UNCHANGED screen
  PROVE  (Shown => Shown') /\ (Ordered => Ordered') /\ UNCHANGED <<seen, dash>>
  <1>1. UNCHANGED <<seen, dash>>
    BY DEF screen
  <1> QED BY <1>1 DEF Shown, Ordered, EventsInOrder, Passed

LEMMA NextTyped ==
  ASSUME Typed, Recorded, Next
  PROVE  Typed' /\ Recorded'
  <1>1. Posted'
    BY NextPosted
  <1>2. Shown'
    <2>1. CASE Update
      BY <2>1, Taken, HandleWays
    <2>2. CASE ~Update
      BY <2>2, Unseen, ScreenStays DEF Typed
    <2> QED BY <2>1, <2>2
  <1>3. CASE Change \/ \E other \in BOOLEAN : Restart(other)
    BY <1>1, <1>2, <1>3, Moved, Streamed DEF Typed
  <1>4. CASE Poll
    <2>1. PICK r \in Message :
            /\ poll' = [gen |-> poll.gen + 1, msg |-> <<r>>]
            /\ Serving' /\ Recorded' /\ cursor' \in Nat
      BY <1>4, Polled
    <2>2. poll'.gen = poll.gen + 1 /\ poll'.msg = <<r>> /\ UNCHANGED <<sub, relay>>
      BY <1>4, <2>1 DEF Poll
    <2>3. poll.gen + 1 \in Nat /\ <<r>> \in Seq(Message)
      BY DEF Typed, Linking
    <2>4. Linking'
      BY <2>1, <2>2, <2>3 DEF Typed, Linking
    <2> QED BY <1>1, <1>2, <2>1, <2>4 DEF Typed
  <1>5. CASE UNCHANGED daemon
    <2>1. Serving' /\ Recorded'
      BY <1>5 DEF Typed, Serving, Recorded
    <2>2. CASE Subscribe \/ StreamEvent \/ StreamEnd \/ Relay \/ Cadence \/ PostResult
      BY <1>1, <1>2, <2>1, <2>2, Streamed DEF Typed
    <2>3. CASE Update \/ \E again \in BOOLEAN : Key(again)
      <3>1. UNCHANGED <<poll, cursor, sub, relay>>
        BY <2>3 DEF Update, Key, link
      <3>2. Linking'
        BY <3>1 DEF Typed, Linking
      <3> QED BY <1>1, <1>2, <2>1, <3>2 DEF Typed
    <2> QED BY <1>3, <1>4, <2>2, <2>3 DEF Next
  <1>6. \/ Change \/ \E other \in BOOLEAN : Restart(other)
        \/ Poll
        \/ UNCHANGED daemon
    BY DEF Next, PostResult, Cadence, Subscribe, StreamEvent, StreamEnd, Relay, Update, Key
  <1> QED BY <1>3, <1>4, <1>5, <1>6

LEMMA AppendOrdered ==
  ASSUME Ordered, Typed, NEW m \in Message, Lists(m)
  PROVE  Ordered'
  <1>1. /\ dash.events \in Seq(Nat) /\ dash.cursor \in Nat /\ m.seq \in Nat
        /\ m.seq > dash.cursor /\ dash'.cursor = m.seq /\ dash'.events = Append(dash.events, m.seq)
    BY DashTyped, MessageTyped DEF Lists
  <1> DEFINE q == dash.events
             k == Len(q)
  <1>2. /\ k \in Nat /\ DOMAIN q = 1 .. k /\ DOMAIN dash'.events = 1 .. k + 1
        /\ \A i \in 1 .. k : dash'.events[i] = q[i] /\ q[i] \in Nat
        /\ dash'.events[k + 1] = m.seq
    BY <1>1
  <1>3. /\ \A i, j \in 1 .. k : i < j => q[i] < q[j]
        /\ \A i \in 1 .. k : q[i] <= dash.cursor
    BY <1>2 DEF Ordered, EventsInOrder, Passed
  <1> HIDE DEF q, k
  <1>4. Passed'
    <2> SUFFICES ASSUME NEW i \in 1 .. k + 1 PROVE dash'.events[i] <= m.seq
      BY <1>1, <1>2 DEF Passed
    <2>1. i \in 1 .. k \/ i = k + 1
      BY <1>2
    <2>2. CASE i \in 1 .. k
      <3>1. dash'.events[i] = q[i] /\ q[i] \in Nat /\ q[i] <= dash.cursor
        BY <1>2, <1>3, <2>2
      <3> QED BY <1>1, <3>1
    <2>3. CASE i = k + 1
      BY <1>1, <1>2, <2>3
    <2> QED BY <2>1, <2>2, <2>3
  <1>5. EventsInOrder'
    <2> SUFFICES ASSUME NEW i \in 1 .. k + 1, NEW j \in 1 .. k + 1, i < j
                 PROVE  dash'.events[i] < dash'.events[j]
      BY <1>2 DEF EventsInOrder
    <2>1. i \in 1 .. k /\ (j \in 1 .. k \/ j = k + 1)
      BY <1>2
    <2>2. CASE j \in 1 .. k
      BY <1>2, <1>3, <2>1, <2>2
    <2>3. CASE j = k + 1
      <3>1. dash'.events[i] = q[i] /\ q[i] \in Nat /\ q[i] <= dash.cursor
        BY <1>2, <1>3, <2>1
      <3> QED BY <1>1, <1>2, <2>3, <3>1
    <2> QED BY <2>1, <2>2, <2>3
  <1> QED BY <1>4, <1>5 DEF Ordered

LEMMA NextOrdered ==
  ASSUME Typed, Ordered, Next
  PROVE  Ordered'
  <1>1. CASE ~Update
    BY <1>1, Unseen, ScreenStays
  <1>2. CASE Update
    <2>1. PICK m \in Message : Handle(m)
      BY <1>2, Taken
    <2>2. CASE UNCHANGED <<seen, dash>>
      BY <2>2 DEF Ordered, EventsInOrder, Passed
    <2>3. CASE Lists(m)
      BY <2>3, AppendOrdered
    <2>4. CASE Shows(m) \/ Marks
      <3>1. dash'.cursor >= dash.cursor /\ dash'.events = dash.events
        BY <2>4 DEF Shows, Marks
      <3>2. dash.cursor \in Nat /\ dash'.cursor \in Nat /\ \A i \in DOMAIN dash.events : dash.events[i] \in Nat
        <4>1. Shown'
          BY <2>1, HandleWays
        <4> QED BY <4>1, DashTyped DEF Shown
      <3> QED BY <3>1, <3>2 DEF Ordered, EventsInOrder, Passed
    <2> QED BY <2>1, <2>2, <2>3, <2>4, HandleWays
  <1> QED BY <1>1, <1>2

-----------------------------------------------------------------------------
(* The fleet that is shown.                                                *)

LEMMA AnswerTyped ==
  ASSUME Typed, NEW m \in Answers
  PROVE  /\ m \in Message /\ m.kind = "result" /\ Good(m)
         /\ m.gen \in Nat /\ m.dgen \in Nat /\ m.version \in Nat
  <1>1. messages \in Seq(Message) /\ poll.msg \in Seq(Message)
    BY DEF Typed, Linking, Posted
  <1>2. \A q \in Seq(Message) : ToSet(q) \subseteq Message
    BY DEF ToSet
  <1>3. m \in Message /\ Good(m)
    BY <1>1, <1>2 DEF Answers
  <1>4. m.kind = "result"
    BY <1>3 DEF Good
  <1> QED BY <1>3, <1>4, MessageTyped

LEMMA NumbersTyped ==
  ASSUME Typed, Typed'
  PROVE  /\ poll.gen \in Nat /\ poll'.gen \in Nat /\ Newest \in Nat /\ Newest' \in Nat
         /\ seen \in Nat /\ dash.version \in Nat /\ dash.gen \in Nat
  <1>1. Newest \in Nat
    BY DEF Typed, Serving, Newest
  <1>2. Newest' \in Nat
    BY DEF Typed, Serving, Newest
  <1>3. poll.gen \in Nat /\ poll'.gen \in Nat
    BY DEF Typed, Linking
  <1> QED BY <1>1, <1>2, <1>3, DashTyped

(* Whatever does not poll or show brings no answers, and lets Newest grow. *)
LEMMA Waiting ==
  ASSUME Typed, Forward, Typed', Recorded', Answers' \subseteq Answers, Newest <= Newest',
         poll'.gen >= poll.gen, UNCHANGED <<seen, dash>>
  PROVE  Forward'
  <1>1. /\ poll.gen \in Nat /\ poll'.gen \in Nat /\ Newest \in Nat /\ Newest' \in Nat
        /\ dash.version \in Nat
    BY NumbersTyped
  <1>2. \A m \in Answers : m.gen \in Nat /\ m.version \in Nat
    BY AnswerTyped
  <1>3. Answered'
    BY <1>1, <1>2 DEF Forward, Answered
  <1>4. Kept'
    BY <1>1, <1>2 DEF Forward, Kept
  <1> QED BY <1>3, <1>4 DEF Forward

(* A poll's answer is the latest of all.                                   *)
LEMMA PollForward ==
  ASSUME Typed, Forward, Typed', Poll
  PROVE  Forward'
  <1>1. PICK r \in Message :
           /\ poll' = [gen |-> poll.gen + 1, msg |-> <<r>>] /\ poll.msg = <<>>
           /\ r.kind = "result" /\ r.gen = poll.gen + 1
           /\ Good(r) /\ r.dgen > 0 => r.version = Newest'
           /\ Good(r) /\ r.dgen = 0 => r.version = 0
           /\ Recorded' /\ Newest <= Newest'
    BY Polled DEF Forward
  <1>2. UNCHANGED <<messages, seen, dash>>
    BY DEF Poll, screen
  <1>3. Answers' \subseteq Answers \cup {r} /\ (r \in Answers' => Good(r))
    <2>1. poll'.msg = <<r>>
      BY <1>1
    <2>2. ToSet(poll'.msg) = {r}
      BY <2>1, ShortSeq
    <2> QED BY <1>2, <2>2 DEF Answers
  <1>4. /\ poll.gen \in Nat /\ Newest \in Nat /\ Newest' \in Nat /\ dash.version \in Nat
        /\ seen \in Nat /\ poll'.gen = poll.gen + 1
    BY <1>1, NumbersTyped
  <1>5. \A m \in Answers : m.gen \in Nat /\ m.version \in Nat /\ m.dgen \in Nat
    BY AnswerTyped
  <1>6. r.gen \in Nat /\ r.version \in Nat /\ r.dgen \in Nat
    BY <1>1, MessageTyped
  <1>11. /\ r.gen = poll.gen + 1 /\ Newest <= Newest'
         /\ Good(r) => (r.dgen > 0 => r.version = Newest') /\ (r.dgen = 0 => r.version = 0)
    BY <1>1
  <1>12. \A m \in Answers : m.gen <= poll.gen /\ m.version <= Newest
    BY DEF Forward, Answered
  <1>13. poll'.gen = poll.gen + 1 /\ r.gen = poll.gen + 1
    BY <1>4, <1>11
  <1>14. Newest <= Newest' /\ Newest \in Nat /\ Newest' \in Nat
    BY <1>4, <1>11
  <1>7. ASSUME NEW m \in Answers
        PROVE  m.gen < r.gen /\ m.gen <= poll'.gen /\ m.version <= Newest'
    <2>1. m.gen \in Nat /\ m.gen <= poll.gen /\ poll.gen \in Nat
      BY <1>4, <1>5, <1>12
    <2>2. m.version \in Nat /\ m.version <= Newest
      BY <1>5, <1>12
    <2>3. m.version <= Newest'
      BY <1>14, <2>2
    <2> QED BY <1>13, <2>1, <2>3
  <1>8. r \in Answers' => r.gen <= poll'.gen /\ r.version <= Newest'
    <2> SUFFICES ASSUME Good(r) PROVE r.gen <= poll'.gen /\ r.version <= Newest'
      BY <1>3
    <2>1. r.version = Newest' \/ r.version = 0
      BY <1>6, <1>11
    <2>2. r.version <= Newest'
      BY <1>14, <2>1
    <2> QED BY <1>4, <1>13, <2>2
  <1>9. Answered'
    <2>1. \A m \in Answers' : m.gen <= poll'.gen /\ m.version <= Newest'
      BY <1>3, <1>7, <1>8
    <2>2. \A m \in Answers' : m.dgen = 0 => m.version = 0
      BY <1>1, <1>3 DEF Forward, Answered
    <2>3. ASSUME NEW m \in Answers', NEW n \in Answers', m.gen <= n.gen, n.dgen > 0
          PROVE  m.version <= n.version
      <3>1. CASE n = r
        BY <1>3, <1>7, <1>8, <1>11, <2>3, <3>1
      <3>2. CASE n # r /\ m = r
        BY <1>3, <1>5, <1>6, <1>7, <2>3, <3>2
      <3>3. CASE n # r /\ m # r
        BY <1>3, <2>3, <3>3 DEF Forward, Answered
      <3> QED BY <3>1, <3>2, <3>3
    <2> QED BY <2>1, <2>2, <2>3 DEF Answered
  <1>10. Kept'
    <2> SUFFICES ASSUME dash.has
                 PROVE  /\ dash.gen = 0 => dash.version = 0
                        /\ dash.version <= Newest'
                        /\ \A m \in Answers' : m.gen >= seen /\ m.dgen > 0 => dash.version <= m.version
      BY <1>2 DEF Kept
    <2>1. /\ dash.gen = 0 => dash.version = 0
          /\ dash.version <= Newest
          /\ \A m \in Answers : m.gen >= seen /\ m.dgen > 0 => dash.version <= m.version
      BY DEF Forward, Kept
    <2>2. dash.version <= Newest'
      BY <1>4, <1>11, <2>1
    <2>3. r \in Answers' /\ r.dgen > 0 => dash.version <= r.version
      BY <1>3, <1>11, <2>2
    <2> QED BY <1>3, <2>1, <2>2, <2>3
  <1> QED BY <1>1, <1>9, <1>10 DEF Forward

(* What is shown instead is no older, and what follows it is no older      *)
(* either.                                                                 *)
LEMMA ShowForward ==
  ASSUME Typed, Forward, Typed', NEW m \in Answers, m.gen >= seen, Shows(m), seen' = m.gen,
         Answers' \subseteq Answers, UNCHANGED <<daemon, poll>>
  PROVE  Forward' /\ (dash.has => dash'.version >= dash.version)
  <1>1. /\ Newest' = Newest /\ Newest \in Nat /\ seen \in Nat /\ dash.version \in Nat /\ dash.gen \in Nat
    BY NumbersTyped DEF Newest
  <1>2. \A n \in Answers : n.gen \in Nat /\ n.version \in Nat /\ n.dgen \in Nat
    BY AnswerTyped
  <1>3. dash'.gen = m.dgen /\ dash'.version = m.version /\ (dash.has => m.dgen >= dash.gen)
    BY DEF Shows
  <1>4. Answered /\ (m.dgen = 0 => m.version = 0) /\ m.version <= Newest
    BY DEF Forward, Answered
  <1>5. dash.has => dash'.version >= dash.version
    <2>1. CASE m.dgen = 0
      BY <1>1, <1>2, <1>3, <1>4, <2>1 DEF Forward, Kept
    <2>2. CASE m.dgen > 0
      BY <1>1, <1>2, <1>3, <2>2 DEF Forward, Kept
    <2> QED BY <1>2, <2>1, <2>2
  <1>6. Answered'
    BY <1>1, <1>4 DEF Answered
  <1>7. \A n \in Answers : n.gen >= m.gen /\ n.dgen > 0 => m.version <= n.version
    BY <1>2, <1>4 DEF Answered
  <1>8. Kept'
    BY <1>1, <1>3, <1>4, <1>7 DEF Kept
  <1>9. Recorded'
    BY DEF Forward, Recorded
  <1> QED BY <1>5, <1>6, <1>8, <1>9 DEF Forward

LEMMA UpdateForward ==
  ASSUME Typed, Forward, Typed', Update
  PROVE  Forward' /\ (dash.has => dash'.version >= dash.version)
  <1>1. PICK m \in ToSet(messages) \cap Message : Handle(m)
    BY Taken
  <1>2. /\ Answers' \subseteq Answers /\ UNCHANGED <<daemon, poll>>
    BY Taken DEF Answers
  <1>3. /\ Newest' = Newest /\ Newest \in Nat /\ seen \in Nat /\ dash.version \in Nat /\ poll.gen \in Nat
        /\ Recorded' /\ m.gen \in Nat
    <2>1. Newest' = Newest
      BY <1>2 DEF Newest
    <2>2. Recorded'
      BY <1>2 DEF Forward, Recorded
    <2> QED BY <2>1, <2>2, NumbersTyped, MessageTyped
  <1>4. CASE UNCHANGED <<seen, dash>>
    BY <1>2, <1>3, <1>4, Waiting
  <1>5. CASE m.gen >= seen /\ m.kind = "result" /\ seen' = m.gen /\ Shows(m)
    <2>1. m \in Answers
      BY <1>5 DEF Shows, Answers
    <2> QED BY <1>2, <1>5, <2>1, ShowForward
  <1>6. CASE /\ m.gen >= seen /\ seen' \in {seen, m.gen}
             /\ dash'.has = dash.has /\ dash'.gen = dash.gen /\ dash'.version = dash.version
    <2>1. \A n \in Answers : n.gen \in Nat
      BY AnswerTyped
    <2>2. seen' \in Nat /\ seen' >= seen
      BY <1>3, <1>6
    <2>3. Answered'
      BY <1>2, <1>3 DEF Forward, Answered
    <2>4. \A n \in Answers : n.gen >= seen' => n.gen >= seen
      BY <1>3, <2>1, <2>2
    <2>5. Kept'
      BY <1>2, <1>3, <1>6, <2>4 DEF Forward, Kept
    <2> QED BY <1>3, <1>6, <2>3, <2>5 DEF Forward
  <1> QED BY <1>1, <1>4, <1>5, <1>6, HandleWays DEF Shows, Lists, Marks

LEMMA NextForward ==
  ASSUME Typed, Forward, Typed', Recorded', [Next]_vars
  PROVE  Forward' /\ (dash.has => dash'.version >= dash.version)
  <1>1. dash.version \in Nat /\ Newest \in Nat /\ poll.gen \in Nat
    BY NumbersTyped
  <1>2. CASE Update
    BY <1>2, UpdateForward
  <1>3. CASE Poll
    <2>1. UNCHANGED dash
      BY <1>3 DEF Poll, screen
    <2> QED BY <1>1, <1>3, <2>1, PollForward
  <1>4. CASE Change \/ \E other \in BOOLEAN : Restart(other)
    <2>1. UNCHANGED <<poll, messages, seen, dash>>
      BY <1>4 DEF Change, Restart, link, screen
    <2>2. Answers' = Answers
      BY <2>1 DEF Answers
    <2> QED BY <1>1, <1>4, <2>1, <2>2, Moved, Waiting DEF Forward
  <1>5. CASE /\ UNCHANGED <<daemon, seen, dash>>
             /\ poll'.gen = poll.gen /\ Answers' \subseteq Answers
    <2>1. Newest' = Newest
      BY <1>5 DEF Newest
    <2> QED BY <1>1, <1>5, <2>1, Waiting
  <1>6. CASE Cadence \/ Subscribe \/ StreamEvent \/ StreamEnd \/ (\E again \in BOOLEAN : Key(again)) \/ UNCHANGED vars
    <2>1. UNCHANGED <<daemon, poll, messages, seen, dash>>
      BY <1>6 DEF Cadence, Subscribe, StreamEvent, StreamEnd, Key, vars, link, screen
    <2>2. Answers' = Answers
      BY <2>1 DEF Answers
    <2> QED BY <1>5, <2>1, <2>2
  <1>7. CASE PostResult
    <2>1. /\ UNCHANGED <<daemon, seen, dash>> /\ messages' = messages \o poll.msg
          /\ poll'.gen = poll.gen /\ poll'.msg = <<>>
      BY <1>7 DEF PostResult, screen, Typed, Linking
    <2>4. messages \in Seq(Message) /\ poll.msg \in Seq(Message)
      BY DEF Typed, Linking, Posted
    <2>5. ToSet(messages \o poll.msg) = ToSet(messages) \cup ToSet(poll.msg)
      BY <2>4, JoinSeq
    <2>2. ToSet(messages') = ToSet(messages) \cup ToSet(poll.msg) /\ ToSet(poll'.msg) = {}
      BY <2>1, <2>5, ShortSeq
    <2>3. Answers' \subseteq Answers
      BY <2>2 DEF Answers
    <2> QED BY <1>5, <2>1, <2>3
  <1>8. CASE Relay
    <2> DEFINE line == Head(relay).msg
    <2>1. messages' = Append(messages, line) /\ UNCHANGED <<daemon, poll, seen, dash>> /\ relay # <<>>
      BY <1>8 DEF Relay, screen
    <2>2. messages \in Seq(Message) /\ relay \in Seq([msg : StreamMessage, last : BOOLEAN])
      BY DEF Typed, Linking, Posted
    <2>3. Head(relay) \in [msg : StreamMessage, last : BOOLEAN]
      BY <2>1, <2>2, HeadSeq, Zenon
    <2>4. line \in Message /\ line.kind # "result"
      BY <2>3 DEF Message, StreamMessage
    <2> HIDE DEF line
    <2>8. ToSet(Append(messages, line)) = ToSet(messages) \cup {line}
      <3>1. messages \in Seq(Message)
        BY <2>2
      <3>2. line \in Message
        BY <2>4
      <3> QED BY <3>1, <3>2, PostSeq
    <2>5. ToSet(messages') = ToSet(messages) \cup {line}
      BY <2>1, <2>8
    <2>7. ~Good(line)
      BY <2>4 DEF Good
    <2>6. Answers' \subseteq Answers
      BY <2>1, <2>5, <2>7 DEF Answers
    <2> QED BY <1>5, <2>1, <2>6
  <1> QED BY <1>2, <1>3, <1>4, <1>6, <1>7, <1>8 DEF Next

-----------------------------------------------------------------------------
(* The theorems.                                                           *)

LEMMA AllHold == Spec => [](Typed /\ Ordered /\ Forward)
  <1>1. Init => Typed /\ Ordered /\ Forward
    BY InitTyped
  <1>2. Typed /\ Ordered /\ Forward /\ [Next]_vars => (Typed /\ Ordered /\ Forward)'
    <2> SUFFICES ASSUME Typed, Ordered, Forward, [Next]_vars PROVE Typed' /\ Ordered' /\ Forward'
      OBVIOUS
    <2>1. CASE Next
      BY <2>1, NextTyped, NextOrdered, NextForward DEF Forward
    <2>2. CASE UNCHANGED vars
      <3> USE <2>2 DEF vars, link, screen
      <3>1. Serving' /\ Linking' /\ Posted' /\ Shown'
        BY DEF Typed, Serving, Linking, Posted, Shown
      <3>2. Recorded' /\ Ordered'
        BY DEF Recorded, Ordered, EventsInOrder, Passed, Forward
      <3>3. Typed'
        BY <3>1 DEF Typed
      <3> HIDE DEF vars, link, screen
      <3> QED BY <2>2, <3>2, <3>3, NextForward
    <2> QED BY <2>1, <2>2
  <1> QED BY <1>1, <1>2, PTL DEF Spec

(* Events reach the dashboard oldest first and once each, with any number  *)
(* of readers that overtake each other and of subscriptions that replay.   *)
THEOREM EventsOnceInOrder == Spec => []EventsInOrder
  <1>1. Typed /\ Ordered /\ Forward => EventsInOrder
    BY DEF Ordered
  <1> QED BY <1>1, AllHold, PTL

(* Once the dashboard shows a state of the fleet it never shows an older   *)
(* one or none, whatever results pass each other and however often the     *)
(* daemon starts again and loses its records.                              *)
THEOREM DashboardForward == Spec => NeverBack
  <1>1. /\ Typed /\ Ordered /\ Forward /\ (Typed /\ Ordered /\ Forward)' /\ [Next]_vars
        => [dash.has => dash'.version >= dash.version]_vars
    BY NextForward DEF Forward
  <1>2. Spec => [][Next]_vars
    BY PTL DEF Spec
  <1> QED BY <1>1, <1>2, AllHold, PTL DEF NeverBack

-----------------------------------------------------------------------------
(* The other end of the socket: the request side of the daemon.            *)

(* Where a handler of the daemon can be, and what it can answer.           *)
Places ==
  {"idle", "fresh", "refresh", "wait", "accept", "reread", "status", "seats", "tasks",
   "metrics", "repos", "dispatcher", "mark", "show", "launch", "capacity", "gate",
   "invalidate"}
Replies ==
  [told : [Repos -> Value], errors : SUBSET Repos, fresh : BOOLEAN, stale : BOOLEAN,
   running : BOOLEAN, sessions : SUBSET Seats, seats : SUBSET Seats, code : Codes]

(* The types of the request side, one part of the state at a time.         *)
DaemonTyped ==
  /\ repos \in SUBSET Repos
  /\ beads \in [Repos -> Version]
  /\ seated \in SUBSET Seats
  /\ started \in BOOLEAN /\ running \in BOOLEAN /\ down \in BOOLEAN
BoundsTyped == fails \in 0 .. MaxFails /\ asks \in 0 .. MaxAsks
CacheTyped ==
  cache \in [fresh : BOOLEAN, expired : BOOLEAN, told : [Repos -> Value],
             errors : SUBSET Repos]
FlightsTyped ==
  /\ active \in Slots \cup {None}
  /\ flight \in [Slots -> [Repos -> Outcome]]
HandlersTyped ==
  /\ pc \in [Callers -> Places]
  /\ req \in [Callers -> Requests \cup {NoRequest}]
  /\ joined \in [Callers -> Slots \cup {None}]
AnswersTyped == ans \in [Callers -> Replies]

(* A handler holds a flight exactly while it waits for it; a flight reads  *)
(* the repositories of the registry only; and a flight that has given its  *)
(* place away, and that somebody still waits for, has read them all.       *)
Flying == \A c \in Callers : joined[c] \in Slots <=> pc[c] = "wait"
Inside == \A f \in Slots, r \in Repos \ repos : flight[f][r] = None
Landed == \A c \in Callers : joined[c] \in Slots /\ joined[c] # active => ~Reading(joined[c])

(* The parts are the type of the whole.                                    *)
LEMMA TypeParts ==
  ConsoleTypeOK <=> /\ DaemonTyped /\ BoundsTyped /\ CacheTyped /\ FlightsTyped
                    /\ HandlersTyped /\ AnswersTyped
  BY DEF ConsoleTypeOK, DaemonTyped, BoundsTyped, CacheTyped, FlightsTyped, HandlersTyped,
     AnswersTyped, Places, Replies

(* What holds between any two steps of the handlers and their flights.     *)
ConsoleInv ==
  /\ DaemonTyped /\ BoundsTyped /\ CacheTyped /\ FlightsTyped /\ HandlersTyped /\ AnswersTyped
  /\ Flying /\ Inside /\ Landed

(* The constants that stand for nothing stand for nothing else.            *)
LEMMA NoneIsNoSlot == None \notin Slots /\ None \notin Version /\ ReadFailed \notin Value
  BY ConsoleAssumption, FS_CardinalityType DEF Slots, Version, Value

(* A caller that has not joined a flight leaves a slot for its own.        *)
LEMMA SlotLeft ==
  ASSUME HandlersTyped, NEW c \in Callers, joined[c] \notin Slots, active \notin Slots
  PROVE  \E f \in Slots : Vacant(f)
<1>. SUFFICES ASSUME \A f \in Slots : ~Vacant(f) PROVE FALSE
  OBVIOUS
<1>. DEFINE T == Callers \ {c}
<1>1. /\ IsFiniteSet(Callers) /\ Cardinality(Callers) \in Nat /\ IsFiniteSet(T)
      /\ Cardinality(T) = Cardinality(Callers) - 1
  BY ConsoleAssumption, FS_CardinalityType, FS_RemoveElement
<1>2. IsFiniteSet(Slots) /\ Cardinality(Slots) = Cardinality(Callers)
  BY <1>1, FS_Interval DEF Slots
<1>3. \A f \in Slots : \E d \in T : joined[d] = f
  BY DEF Vacant
<1>. DEFINE owner == [f \in Slots |-> CHOOSE d \in T : joined[d] = f]
<1>4. owner \in [Slots -> T] /\ \A f \in Slots : joined[owner[f]] = f
  BY <1>3
<1>. HIDE DEF owner, T
<1>5. \E f, g \in Slots : f # g /\ owner[f] = owner[g]
  BY <1>1, <1>2, <1>4, FS_PigeonHole
<1>. QED  BY <1>4, <1>5

(* A flight that starts has read nothing, which is an outcome.             *)
LEMMA UnknownTyped == Unknown \in [Repos -> Value] /\ Unknown \in [Repos -> Outcome]
  BY DEF Unknown, Value, Outcome

(* An answer without content is one, whatever its code.                    *)
LEMMA EmptyAnswer ==
  Empty \in Replies /\ \A code \in Codes : [Empty EXCEPT !.code = code] \in Replies
<1>1. "none" \in Codes
  BY DEF Codes
<1>2. Empty \in Replies
  BY <1>1, UnknownTyped DEF Empty, Replies
<1>. QED  BY <1>2 DEF Replies

(* The daemon starts with nobody in it.                                    *)
LEMMA ConsoleStart == ConsoleInit => ConsoleInv
<1>. SUFFICES ASSUME ConsoleInit PROVE ConsoleInv
  OBVIOUS
<1>. USE NoneIsNoSlot, ConsoleAssumption DEF ConsoleInit
<1>0. 0 \in 0 .. MaxWrites /\ 0 \in 0 .. MaxFails /\ 0 \in 0 .. MaxAsks
  OBVIOUS
<1>1. DaemonTyped /\ BoundsTyped
  BY <1>0, Zenon DEF DaemonTyped, BoundsTyped, Admitted, Version
<1>3. CacheTyped /\ FlightsTyped
  BY UnknownTyped DEF CacheTyped, FlightsTyped
<1>4. HandlersTyped
  BY DEF HandlersTyped, Places
<1>5. AnswersTyped
  BY EmptyAnswer DEF AnswersTyped
<1>6. Flying /\ Inside /\ Landed
  BY DEF Flying, Inside, Landed, Unknown
<1>. QED  BY <1>1, <1>3, <1>4, <1>5, <1>6 DEF ConsoleInv

(* Every action but those that change beads, seats and flags.              *)
LEMMA DaemonKept ==
  ASSUME ConsoleInv, [ConsoleNext]_consoleVars
  PROVE  DaemonTyped' /\ repos' = repos
<1>. USE DEF ConsoleInv, DaemonTyped
<1>1. CASE UNCHANGED <<fleet, down>>
  BY <1>1 DEF fleet
<1>2. ASSUME NEW r \in Repos, Write(r), UNCHANGED repos
      PROVE  beads' \in [Repos -> Version]
  BY <1>2, ConsoleAssumption DEF Write, Version
<1>3. ASSUME NEW r \in Repos, Work(r) PROVE DaemonTyped' /\ repos' = repos
  BY <1>2, <1>3 DEF Work
<1>4. CASE (\E s \in Seats : SessionEnds(s)) \/ Stop
  BY <1>4 DEF SessionEnds, Stop, fleet
<1>5. ASSUME NEW c \in Callers, Step(c)
      PROVE  DaemonTyped' /\ repos' = repos
  <2>1. CASE Dispatcher(c) \/ Mark(c)
    BY <2>1 DEF Dispatcher, Mark
  <2>2. CASE Gate(c)
    <3>1. CASE Write(req[c].repo)
      <4>1. req[c].repo \in Repos
        BY <3>1 DEF Write
      <4>. QED  BY <1>2, <2>2, <3>1, <4>1 DEF Gate
    <3>. QED  BY <2>2, <3>1 DEF Gate
  <2>3. CASE Launch(c)
    <3>1. CASE Write(req[c].repo)
      <4>1. req[c].repo \in Repos
        BY <3>1 DEF Write
      <4>. QED  BY <1>2, <2>3, <3>1, <4>1 DEF Launch
    <3>. QED  BY <2>3, <3>1 DEF Launch
  <2>. QED
    BY <1>1, <1>5, <2>1, <2>2, <2>3 DEF Step, Fresh, Refresh, GiveUp, Merge, Accept, Reread,
       KeepLast, Status, SeatView, Tasks, Metrics, Repositories, Show, Capacity, Invalidate
<1>6. CASE UNCHANGED consoleVars
  BY <1>1, <1>6 DEF consoleVars
<1>. QED
  BY <1>1, <1>3, <1>4, <1>5, <1>6 DEF ConsoleNext, Ask, Fly, Land, ReadRepo, Expire

(* Failures of bd and requests of operators stay within their bounds.      *)
LEMMA BoundsKept ==
  ASSUME ConsoleInv, [ConsoleNext]_consoleVars
  PROVE  BoundsTyped'
<1>. USE ConsoleAssumption DEF ConsoleInv, BoundsTyped
<1>1. CASE UNCHANGED <<fails, asks>>
  BY <1>1
<1>2. CASE RunFails /\ UNCHANGED asks
  BY <1>2 DEF RunFails
<1>3. ASSUME NEW c \in Callers, NEW q \in Requests, Ask(c, q)
      PROVE  BoundsTyped'
  BY <1>3 DEF Ask
<1>4. ASSUME NEW c \in Callers, Metrics(c)
      PROVE  BoundsTyped'
  <2>1. PICK lost \in Sample : fails' = fails + Cardinality(lost)
    BY <1>4 DEF Metrics
  <2>2. Cardinality(lost) \in Nat
    <3>1. IsFiniteSet(lost)
      BY FS_Subset DEF Sample, DaemonTyped
    <3>. QED  BY <3>1, FS_CardinalityType
  <2>. QED  BY <1>4, <2>1, <2>2 DEF Sample, Metrics
<1>5. ASSUME NEW c \in Callers, Step(c)
      PROVE  BoundsTyped'
  BY <1>1, <1>2, <1>4, <1>5 DEF Step, Fresh, Refresh, GiveUp, Merge, Accept, Reread,
     KeepLast, Status, SeatView, Tasks, Fails, Repositories, Dispatcher, Mark, Show, Gate,
     Launch, Capacity, Invalidate
<1>6. CASE UNCHANGED consoleVars
  BY <1>1, <1>6 DEF consoleVars
<1>. QED
  BY <1>1, <1>2, <1>3, <1>5, <1>6 DEF ConsoleNext, Fly, Land, ReadRepo, Expire, Work,
     SessionEnds, Stop

(* The cache holds what was answered, an age and whether it is fresh.      *)
LEMMA CacheKept ==
  ASSUME ConsoleInv, [ConsoleNext]_consoleVars
  PROVE  CacheTyped'
<1>. USE DEF ConsoleInv, CacheTyped
<1>1. CASE UNCHANGED cache
  BY <1>1
<1>2. CASE Expire
  BY <1>2 DEF Expire
<1>3. ASSUME NEW c \in Callers, Fresh(c) \/ Invalidate(c)
      PROVE  CacheTyped'
  BY <1>3 DEF Fresh, Invalidate
<1>4. ASSUME NEW c \in Callers, Accept(c)
      PROVE  CacheTyped'
  BY <1>4 DEF Accept, AnswersTyped, Replies
<1>5. ASSUME NEW c \in Callers, KeepLast(c)
      PROVE  CacheTyped'
  BY <1>5 DEF KeepLast, AnswersTyped, Replies
<1>6. ASSUME NEW c \in Callers, Step(c)
      PROVE  CacheTyped'
  BY <1>1, <1>3, <1>4, <1>5, <1>6 DEF Step, caching, Refresh, GiveUp, Merge, Reread,
     Status, SeatView, Tasks, Metrics, Repositories, Dispatcher, Mark, Show, Gate, Launch,
     Capacity
<1>7. CASE UNCHANGED consoleVars
  BY <1>1, <1>7 DEF consoleVars, caching
<1>. QED
  BY <1>1, <1>2, <1>6, <1>7 DEF ConsoleNext, caching, Ask, Fly, Land, ReadRepo, Work,
     SessionEnds, Stop

(* A flight starts in a slot that is vacant, and ends where it was.        *)
LEMMA FlightsKept ==
  ASSUME ConsoleInv, [ConsoleNext]_consoleVars
  PROVE  FlightsTyped'
<1>. USE DEF ConsoleInv, FlightsTyped
<1>1. CASE UNCHANGED <<active, flight>>
  BY <1>1
<1>2. ASSUME NEW c \in Callers, Refresh(c)
      PROVE  FlightsTyped'
  <2>1. CASE active = None
    <3>. DEFINE f == CHOOSE g \in Slots : Vacant(g)
    <3>1. joined[c] \notin Slots /\ active \notin Slots
      BY <1>2, <2>1, NoneIsNoSlot DEF Refresh, Flying
    <3>2. f \in Slots
      BY <3>1, SlotLeft
    <3>3. active' = f /\ flight' = [flight EXCEPT ![f] = Unknown]
      BY <1>2, <2>1 DEF Refresh
    <3>. HIDE DEF f
    <3>. QED  BY <3>2, <3>3, UnknownTyped
  <2>. QED  BY <1>1, <1>2, <2>1 DEF Refresh
<1>3. ASSUME NEW c \in Callers, Merge(c)
      PROVE  FlightsTyped'
  BY <1>3, UnknownTyped DEF Merge
<1>4. ASSUME NEW c \in Callers, Step(c)
      PROVE  FlightsTyped'
  BY <1>1, <1>2, <1>3, <1>4 DEF Step, caching, Fresh, GiveUp, Accept, Reread, KeepLast,
     Status, SeatView, Tasks, Metrics, Repositories, Dispatcher, Mark, Show, Gate, Launch,
     Capacity, Invalidate
<1>5. ASSUME NEW f \in Slots, Land(f)
      PROVE  FlightsTyped'
  BY <1>5 DEF Land
<1>6. ASSUME NEW f \in Slots, NEW r \in repos, ReadRepo(f, r)
      PROVE  FlightsTyped'
  <2>1. r \in Repos /\ beads[r] \in Outcome /\ ReadFailed \in Outcome
    BY DEF DaemonTyped, Outcome, Value
  <2>2. \E v \in Outcome : flight' = [flight EXCEPT ![f][r] = v]
    BY <1>6, <2>1 DEF ReadRepo
  <2>3. active' = active
    BY <1>6 DEF ReadRepo
  <2>. QED  BY <2>1, <2>2, <2>3
<1>7. CASE UNCHANGED consoleVars
  BY <1>1, <1>7 DEF consoleVars, caching
<1>. QED
  BY <1>1, <1>4, <1>5, <1>6, <1>7 DEF ConsoleNext, caching, Ask, Fly, Expire, Work,
     SessionEnds, Stop

(* What a handler does with its place: it starts, waits, returns or goes on. *)
GoesOn(c) ==
  /\ pc[c] # "wait" /\ UNCHANGED handler
  /\ \E stage \in Places \ {"wait"} : Goto(c, stage)

LEMMA HandlerMoves ==
  ASSUME NEW c \in Callers, Step(c)
  PROVE  Refresh(c) \/ Merge(c) \/ Done(c) \/ GoesOn(c)
<1>. USE DEF GoesOn, Places
<1>1. CASE Fresh(c) \/ Accept(c) \/ Reread(c) \/ KeepLast(c) \/ Dispatcher(c) \/ Mark(c)
  BY <1>1 DEF Fresh, Accept, Reread, KeepLast, Dispatcher, Mark
<1>2. CASE GiveUp(c) \/ SeatView(c) \/ Tasks(c) \/ Metrics(c) \/ Repositories(c) \/ Capacity(c)
  BY <1>2 DEF GiveUp, SeatView, Tasks, Metrics, Repositories, Capacity, Refuse, Answer,
     Fails
<1>3. CASE Status(c) \/ Show(c) \/ Gate(c) \/ Launch(c) \/ Invalidate(c)
  BY <1>3 DEF Status, Show, Gate, Launch, Invalidate, Refuse, Answer, Fails
<1>. QED  BY <1>1, <1>2, <1>3 DEF Step

(* A request is refused at once, or its handler enters its first stage.    *)
LEMMA AskBegins ==
  ASSUME DaemonTyped, NEW c \in Callers, NEW q \in Requests, Ask(c, q)
  PROVE  \/ Done(c) /\ \E code \in Codes : Refuse(c, code)
         \/ /\ pc[c] = "idle" /\ UNCHANGED joined
            /\ \E p \in Requests : req' = [req EXCEPT ![c] = p]
            /\ \E stage \in Places \ {"wait"} : Goto(c, stage)
            /\ ans' = [ans EXCEPT ![c] = Empty]
<1>1. CASE q.cmd = "other" \/ Nowhere(q)
  BY <1>1 DEF Ask, Refuse, Codes
<1>2. CASE q.cmd # "other" /\ ~Nowhere(q)
  <2>. DEFINE p == [q EXCEPT !.repo = IF q.cmd \in {"dispatch", "review"}
                                      THEN RepoOf(q.repo) ELSE @]
  <2>1. /\ pc[c] = "idle" /\ UNCHANGED joined
        /\ req' = [req EXCEPT ![c] = p] /\ Goto(c, FirstStage(q.cmd))
        /\ ans' = [ans EXCEPT ![c] = Empty]
    BY <1>2 DEF Ask
  <2>2. p \in Requests
    <3>1. RepoOf(q.repo) \in Repos \cup {None}
      BY DEF RepoOf, Named, Owners, CurrentIn, DaemonTyped
    <3>2. CASE q \in [cmd : Located, repo : Repos \cup {None}]
      BY <3>1, <3>2 DEF Requests
    <3>3. CASE q \in [cmd : (Reads \cup Controls \cup {"other"}) \ Located, repo : {None}]
      BY <3>3 DEF Requests, Located
    <3>. QED  BY <3>2, <3>3 DEF Requests
  <2>3. q.cmd \in Reads \cup Controls
    BY <1>2 DEF Requests, Located, Reads, Controls
  <2>4. FirstStage(q.cmd) \in Places \ {"wait"}
    BY <2>3 DEF FirstStage, Places, Reads, Controls
  <2>. QED  BY <2>1, <2>2, <2>4
<1>. QED  BY <1>1, <1>2

(* Handlers stay in their places, and wait exactly with a flight.          *)
LEMMA HandlersKept ==
  ASSUME ConsoleInv, [ConsoleNext]_consoleVars
  PROVE  HandlersTyped' /\ Flying'
<1>. USE DEF ConsoleInv, HandlersTyped, Flying
<1>0. Slots' = Slots /\ "wait" \in Places /\ "idle" \in Places /\ "accept" \in Places
  BY DEF Slots, Places
<1>1. CASE UNCHANGED <<pc, req, joined>>
  BY <1>1, <1>0
<1>2. ASSUME NEW c \in Callers, Done(c)
      PROVE  HandlersTyped' /\ Flying'
  BY <1>0, <1>2, NoneIsNoSlot DEF Done, Goto
<1>3. ASSUME NEW c \in Callers, GoesOn(c)
      PROVE  HandlersTyped' /\ Flying'
  BY <1>0, <1>3 DEF GoesOn, Goto, handler
<1>4. ASSUME NEW c \in Callers, Refresh(c)
      PROVE  HandlersTyped' /\ Flying'
  <2>1. \E f \in Slots : joined' = [joined EXCEPT ![c] = f]
    <3>1. CASE active # None
      BY <1>4, <3>1 DEF Refresh, FlightsTyped
    <3>2. CASE active = None
      <4>1. joined[c] \notin Slots /\ active \notin Slots
        BY <1>4, <3>2, NoneIsNoSlot DEF Refresh
      <4>. QED  BY <1>4, <3>2, <4>1, SlotLeft DEF Refresh
    <3>. QED  BY <3>1, <3>2
  <2>2. pc' = [pc EXCEPT ![c] = "wait"] /\ req' = req
    BY <1>4 DEF Refresh, Goto
  <2>. QED  BY <1>0, <2>1, <2>2
<1>5. ASSUME NEW c \in Callers, Merge(c)
      PROVE  HandlersTyped' /\ Flying'
  BY <1>0, <1>5, NoneIsNoSlot DEF Merge, Goto
<1>6. ASSUME NEW c \in Callers, NEW q \in Requests, Ask(c, q)
      PROVE  HandlersTyped' /\ Flying'
  <2>1. CASE Done(c)
    BY <1>2, <2>1
  <2>2. CASE ~Done(c)
    BY <1>0, <1>6, <2>2, AskBegins DEF Goto
  <2>. QED  BY <2>1, <2>2
<1>7. CASE UNCHANGED consoleVars
  BY <1>1, <1>7 DEF consoleVars, handler
<1>. QED
  BY <1>1, <1>2, <1>3, <1>4, <1>5, <1>6, <1>7, HandlerMoves DEF ConsoleNext, handler, Fly,
     Land, ReadRepo, Expire, Work, SessionEnds, Stop

(* Whatever is answered is an answer: what a merge keeps of a repository   *)
(* is a value, since what could not be read is taken from the cache.       *)
LEMMA AnswersKept ==
  ASSUME ConsoleInv, [ConsoleNext]_consoleVars
  PROVE  AnswersTyped'
<1>. USE DEF ConsoleInv, AnswersTyped
<1>0. \A c \in Callers : ans[c] \in Replies
  OBVIOUS
<1>1. CASE UNCHANGED ans
  BY <1>1 DEF Replies
<1>2. ASSUME NEW c \in Callers, NEW a \in Replies, ans' = [ans EXCEPT ![c] = a]
      PROVE  AnswersTyped'
  BY <1>2 DEF Replies
<1>3. ASSUME NEW c \in Callers, NEW code \in Codes, Refuse(c, code)
      PROVE  AnswersTyped'
  BY <1>2, <1>3, EmptyAnswer DEF Refuse
<1>4. ASSUME NEW c \in Callers, NEW a \in Replies, Answer(c, a)
      PROVE  AnswersTyped'
  <2>1. "ok" \in Codes
    BY DEF Codes
  <2>2. [a EXCEPT !.code = "ok"] \in Replies /\ [Empty EXCEPT !.code = "ok"] \in Replies
    BY <2>1, EmptyAnswer DEF Replies
  <2>. QED  BY <1>2, <1>4, <2>2 DEF Answer
<1>5. ASSUME NEW c \in Callers, Fails(c)
      PROVE  AnswersTyped'
  BY <1>3, <1>5 DEF Fails, BdCodes, Codes
<1>6. ASSUME NEW c \in Callers, Fresh(c) \/ Reread(c)
      PROVE  AnswersTyped'
  <2>1. cache.told \in [Repos -> Value] /\ cache.errors \in SUBSET Repos
    BY DEF CacheTyped
  <2>. DEFINE told == [ans[c] EXCEPT !.told = cache.told, !.errors = cache.errors,
                                     !.fresh = TRUE]
  <2>2. told \in Replies
    BY <1>0, <2>1 DEF Replies
  <2>3. UNCHANGED ans \/ ans' = [ans EXCEPT ![c] = told]
    BY <1>6 DEF Fresh, Reread
  <2>. HIDE DEF told
  <2>. QED  BY <1>1, <1>2, <2>2, <2>3
<1>7. ASSUME NEW c \in Callers, Merge(c)
      PROVE  AnswersTyped'
  <2>. DEFINE got == flight[joined[c]]
              lost == {r \in repos : got[r] = ReadFailed}
              told == [r \in Repos |-> IF r \in lost THEN cache.told[r] ELSE got[r]]
              stale == lost = repos /\ HasPrevious /\ Complete(cache.told)
  <2>1. joined[c] \in Slots
    BY <1>7 DEF Merge, Flying
  <2>2. told \in [Repos -> Value]
    <3>. SUFFICES ASSUME NEW r \in Repos, r \notin lost PROVE got[r] \in Value
      BY DEF CacheTyped
    <3>1. got[r] \in Outcome /\ got[r] # ReadFailed
      BY <2>1, NoneIsNoSlot, ConsoleAssumption DEF FlightsTyped, Inside
    <3>. QED  BY <3>1 DEF Outcome
  <2>3. lost \in SUBSET Repos
    BY DEF DaemonTyped
  <2>4. ans' = [ans EXCEPT ![c] = [ans[c] EXCEPT !.told = told, !.errors = lost,
                                                 !.stale = stale]]
    BY <1>7 DEF Merge
  <2>5. stale \in BOOLEAN
    OBVIOUS
  <2>. HIDE DEF got, lost, told, stale
  <2>6. [ans[c] EXCEPT !.told = told, !.errors = lost, !.stale = stale] \in Replies
    BY <1>0, <2>2, <2>3, <2>5 DEF Replies
  <2>. QED  BY <1>2, <2>4, <2>6
<1>8. ASSUME NEW c \in Callers, Status(c) \/ SeatView(c)
      PROVE  AnswersTyped'
  <2>. DEFINE told == [ans[c] EXCEPT !.running = running, !.sessions = seated]
  <2>1. told \in Replies /\ Compose(c) \in Replies
    BY <1>0 DEF DaemonTyped, Compose, Replies
  <2>2. ans' = [ans EXCEPT ![c] = told] \/ Answer(c, told) \/ Answer(c, Compose(c))
    BY <1>8 DEF Status, SeatView
  <2>. HIDE DEF told
  <2>. QED  BY <1>2, <1>4, <2>1, <2>2
<1>9. ASSUME NEW c \in Callers, Step(c)
      PROVE  AnswersTyped'
  <2>1. CASE GiveUp(c) \/ Capacity(c) \/ Launch(c) \/ Gate(c) \/ Show(c)
    <3>1. "unavailable" \in Codes /\ "conflict" \in Codes
      BY DEF Codes
    <3>. QED  BY <1>1, <1>3, <1>5, <2>1, <3>1 DEF GiveUp, Capacity, Launch, Gate, Show
  <2>2. CASE Tasks(c) \/ Metrics(c) \/ Repositories(c) \/ Invalidate(c)
    BY <1>0, <1>1, <1>4, <1>5, <2>2 DEF Tasks, Metrics, Repositories, Invalidate
  <2>3. CASE Refresh(c) \/ Accept(c) \/ KeepLast(c) \/ Dispatcher(c) \/ Mark(c)
    BY <1>1, <2>3 DEF Refresh, Accept, KeepLast, Dispatcher, Mark
  <2>. QED  BY <1>6, <1>7, <1>8, <1>9, <2>1, <2>2, <2>3 DEF Step
<1>10. ASSUME NEW c \in Callers, NEW q \in Requests, Ask(c, q)
       PROVE  AnswersTyped'
  BY <1>2, <1>3, <1>10, AskBegins, EmptyAnswer
<1>11. CASE UNCHANGED consoleVars
  BY <1>1, <1>11 DEF consoleVars
<1>. QED
  BY <1>1, <1>9, <1>10, <1>11 DEF ConsoleNext, Fly, Land, ReadRepo, Expire, Work,
     SessionEnds, Stop

(* What the slots hold, action by action: a new flight, an outcome, a slot reset. *)
LEMMA InsideKept ==
  ASSUME ConsoleInv, [ConsoleNext]_consoleVars
  PROVE  Inside'
<1>. USE DEF ConsoleInv, Inside
<1>0. repos' = repos
  BY DaemonKept
<1>1. CASE UNCHANGED flight
  BY <1>0, <1>1 DEF Slots
<1>2. CASE \A f \in Slots, r \in Repos \ repos : flight'[f][r] \in {None, flight[f][r]}
  BY <1>0, <1>2 DEF Slots
<1>3. ASSUME NEW c \in Callers, Refresh(c) \/ Merge(c)
      PROVE  Inside'
  <2>1. ASSUME NEW f \in Slots, NEW r \in Repos \ repos
        PROVE  flight'[f][r] \in {None, flight[f][r]}
    <3>1. \/ flight' = flight
          \/ flight' = [flight EXCEPT ![CHOOSE g \in Slots : Vacant(g)] = Unknown]
          \/ flight'[f] \in {Unknown, flight[f]}
      BY <1>3 DEF Refresh, Merge
    <3>2. flight'[f] \in {Unknown, flight[f]}
      BY <3>1 DEF FlightsTyped
    <3>. QED  BY <3>2 DEF Unknown
  <2>. QED  BY <1>2, <2>1
<1>4. ASSUME NEW f \in Slots, NEW r \in repos, ReadRepo(f, r)
      PROVE  Inside'
  <2>1. \E v : flight' = [flight EXCEPT ![f][r] = v]
    BY <1>4 DEF ReadRepo
  <2>. QED  BY <1>2, <2>1 DEF FlightsTyped
<1>5. ASSUME NEW c \in Callers, Step(c)
      PROVE  Inside'
  BY <1>1, <1>3, <1>5 DEF Step, caching, Fresh, GiveUp, Accept, Reread, KeepLast,
     Status, SeatView, Tasks, Metrics, Repositories, Dispatcher, Mark, Show, Gate, Launch,
     Capacity, Invalidate
<1>. QED
  BY <1>1, <1>4, <1>5 DEF ConsoleNext, consoleVars, caching, Ask, Fly, Land, Expire, Work,
     SessionEnds, Stop

(* A flight gives its place away when all has been read. What was read     *)
(* stays read, and no other flight is started in a slot that is waited on. *)
LEMMA LandedKept ==
  ASSUME ConsoleInv, [ConsoleNext]_consoleVars
  PROVE  Landed'
<1>. USE NoneIsNoSlot DEF ConsoleInv, Landed, HandlersTyped
<1>0. repos' = repos /\ Slots' = Slots
  BY DaemonKept DEF Slots
<1>1. ASSUME \A d \in Callers : joined'[d] \in Slots => joined'[d] = joined[d],
             UNCHANGED <<active, flight>>
      PROVE  Landed'
  BY <1>0, <1>1 DEF Reading
<1>2. ASSUME NEW c \in Callers, Refresh(c)
      PROVE  Landed'
  <2>1. CASE active # None
    <3>1. joined' = [joined EXCEPT ![c] = active] /\ UNCHANGED <<active, flight>>
      BY <1>2, <2>1 DEF Refresh
    <3>. QED  BY <1>0, <3>1 DEF Reading
  <2>2. CASE active = None
    <3>. DEFINE f == CHOOSE g \in Slots : Vacant(g)
    <3>1. joined[c] \notin Slots /\ active \notin Slots
      BY <1>2, <2>2 DEF Refresh, Flying
    <3>2. f \in Slots /\ Vacant(f)
      BY <3>1, SlotLeft
    <3>3. /\ active' = f /\ flight' = [flight EXCEPT ![f] = Unknown]
          /\ joined' = [joined EXCEPT ![c] = f]
      BY <1>2, <2>2 DEF Refresh
    <3>. HIDE DEF f
    <3>. SUFFICES ASSUME NEW d \in Callers, joined'[d] \in Slots, joined'[d] # active'
                  PROVE  ~Reading(joined[d])'
      BY <1>0
    <3>4. d # c /\ joined'[d] = joined[d] /\ joined[d] # f
      BY <3>2, <3>3 DEF Vacant
    <3>5. ~Reading(joined[d])
      BY <2>2, <3>4
    <3>6. flight'[joined[d]] = flight[joined[d]]
      BY <3>3, <3>4 DEF FlightsTyped
    <3>. QED  BY <1>0, <3>4, <3>5, <3>6 DEF Reading
  <2>. QED  BY <2>1, <2>2
<1>3. ASSUME NEW c \in Callers, Merge(c)
      PROVE  Landed'
  <2>. SUFFICES ASSUME NEW d \in Callers, joined'[d] \in Slots, joined'[d] # active'
                PROVE  ~Reading(joined[d])'
    BY <1>0
  <2>1. joined' = [joined EXCEPT ![c] = None] /\ active' = active
    BY <1>3 DEF Merge
  <2>2. d # c /\ joined'[d] = joined[d]
    BY <2>1
  <2>3. flight'[joined[d]] = flight[joined[d]]
    BY <1>3, <2>2 DEF Merge
  <2>. QED  BY <1>0, <2>1, <2>2, <2>3 DEF Reading
<1>4. ASSUME NEW c \in Callers, Step(c)
      PROVE  Landed'
  <2>1. CASE Refresh(c) \/ Merge(c)
    BY <1>2, <1>3, <2>1
  <2>2. CASE ~(Refresh(c) \/ Merge(c))
    <3>1. Done(c) \/ UNCHANGED joined
      BY <1>4, <2>2, HandlerMoves DEF GoesOn, handler
    <3>2. UNCHANGED <<active, flight>>
      BY <1>4, <2>2 DEF Step, caching, Fresh, GiveUp, Accept, Reread, KeepLast,
         Status, SeatView, Tasks, Metrics, Repositories, Dispatcher, Mark, Show, Gate,
         Launch, Capacity, Invalidate
    <3>. QED  BY <1>1, <3>1, <3>2 DEF Done
  <2>. QED  BY <2>1, <2>2
<1>5. ASSUME NEW f \in Slots, Land(f)
      PROVE  Landed'
  BY <1>0, <1>5 DEF Land, Reading, handler
<1>6. ASSUME NEW f \in Slots, NEW r \in repos, ReadRepo(f, r)
      PROVE  Landed'
  <2>1. \E v : v # None /\ flight' = [flight EXCEPT ![f][r] = v]
    BY <1>6, ConsoleAssumption DEF ReadRepo, DaemonTyped, Version
  <2>2. UNCHANGED <<active, joined>>
    BY <1>6 DEF ReadRepo, handler
  <2>. QED  BY <1>0, <2>1, <2>2 DEF Reading, FlightsTyped, DaemonTyped
<1>7. ASSUME NEW c \in Callers, NEW q \in Requests, Ask(c, q)
      PROVE  Landed'
  <2>1. UNCHANGED <<active, flight>>
    BY <1>7 DEF Ask, caching
  <2>2. Done(c) \/ UNCHANGED joined
    BY <1>7, AskBegins
  <2>. QED  BY <1>1, <2>1, <2>2 DEF Done
<1>. QED
  BY <1>1, <1>4, <1>5, <1>6, <1>7 DEF ConsoleNext, consoleVars, caching, handler, Fly,
     Expire, Work, SessionEnds, Stop

(* All of it holds always.                                                 *)
LEMMA ConsoleAlways == ConsoleSpec => []ConsoleInv
<1>1. ConsoleInv /\ [ConsoleNext]_consoleVars => ConsoleInv'
  BY DaemonKept, BoundsKept, CacheKept, FlightsKept, HandlersKept, AnswersKept, InsideKept,
     LandedKept DEF ConsoleInv
<1>. QED  BY <1>1, ConsoleStart, PTL DEF ConsoleSpec

(* Every state of the request side is of the type that Console gives it.   *)
THEOREM ConsoleTyped == ConsoleSpec => []ConsoleTypeOK
<1>1. ConsoleInv => ConsoleTypeOK
  BY TypeParts DEF ConsoleInv
<1>. QED  BY <1>1, ConsoleAlways, PTL

(* However callers join, give up, fail and come late, no two flights read  *)
(* the repositories at once: one that reads is the active one, which every *)
(* caller that finds the cache too old joins (snapshot_refresh.go).        *)
THEOREM FlightsAreShared == ConsoleSpec => []OneFlight
<1>1. ConsoleInv => OneFlight
  <2>. SUFFICES ASSUME ConsoleInv, NEW f \in InFlight PROVE f = active
    BY DEF OneFlight
  <2>. QED  BY DEF InFlight, Vacant, ConsoleInv, Landed
<1>. QED  BY <1>1, ConsoleAlways, PTL
=============================================================================
