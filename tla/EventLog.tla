------------------------------ MODULE EventLog ------------------------------
(***************************************************************************)
(* What the event bus of internal/server promises: it numbers events from  *)
(* one, retains the last Capacity of them, replays those newer than a      *)
(* subscriber's cursor and then offers every later event without waiting.  *)
(*                                                                         *)
(* There is no ring here: what is retained is an interval of sequences.    *)
(* EventBus is the code's bus and implements this; EventStream uses it.    *)
(***************************************************************************)
EXTENDS Naturals, Sequences

CONSTANTS
  Capacity,   \* events retained
  Buffer,     \* room the stream handler asks for; 64 in server.go
  Subscriber, \* subscriptions; a closed one may be replaced by a new one
  Cursors,    \* cursors that subscribers start from
  MaxEvents   \* bounds the events of one bus

VARIABLES
  next,    \* the last sequence assigned
  closed,  \* is the bus closed?
  subs,    \* the registered subscriptions
  chan,    \* each subscription's channel: none yet, open or closed
  events,  \* what the channel holds
  size,    \* what it can hold
  dropped, \* offers it had no room for
  missed   \* last sequence that was no longer retained; 0 when none was

logVars == <<next, closed, subs, chan, events, size, dropped, missed>>

Init ==
  /\ next = 0 /\ closed = FALSE /\ subs = {}
  /\ chan = [s \in Subscriber |-> "none"]
  /\ events = [s \in Subscriber |-> <<>>]
  /\ size = [s \in Subscriber |-> 0]
  /\ dropped = [s \in Subscriber |-> 0]
  /\ missed = [s \in Subscriber |-> 0]

\* The last sequence that is no longer retained.
Gone == IF next > Capacity THEN next - Capacity ELSE 0

\* The sequences after from, up to the last one.
After(from) == IF from < next THEN [i \in 1 .. next - from |-> from + i]
                              ELSE <<>>

HasRoom(s) == Len(events[s]) < size[s]

Publish ==
  /\ ~closed
  /\ next < MaxEvents
  /\ next' = next + 1
  /\ events' = [s \in Subscriber |-> IF s \in subs /\ HasRoom(s)
                                     THEN Append(events[s], next + 1)
                                     ELSE events[s]]
  /\ dropped' = [s \in Subscriber |-> IF s \in subs /\ ~HasRoom(s)
                                      THEN dropped[s] + 1
                                      ELSE dropped[s]]
  /\ UNCHANGED <<closed, subs, chan, size, missed>>

Subscribe(s, since) ==
  LET lost   == IF since < Gone THEN Gone ELSE 0
      replay == After(IF since < Gone THEN Gone ELSE since)
  IN /\ chan[s] # "open"
     /\ events' = [events EXCEPT ![s] = replay]
     /\ size' = [size EXCEPT ![s] =
                   IF Len(replay) > Buffer THEN Len(replay) ELSE Buffer]
     /\ dropped' = [dropped EXCEPT ![s] = 0]
     /\ missed' = [missed EXCEPT ![s] = lost]
     /\ subs' = IF closed THEN subs ELSE subs \cup {s}
     /\ chan' = [chan EXCEPT ![s] = IF closed THEN "closed" ELSE "open"]
     /\ UNCHANGED <<next, closed>>

Receive(s) ==
  /\ events[s] # <<>>
  /\ events' = [events EXCEPT ![s] = Tail(@)]
  /\ UNCHANGED <<next, closed, subs, chan, size, dropped, missed>>

CloseSub(s) ==
  /\ s \in subs
  /\ subs' = subs \ {s}
  /\ chan' = [chan EXCEPT ![s] = "closed"]
  /\ UNCHANGED <<next, closed, events, size, dropped, missed>>

Close ==
  /\ ~closed
  /\ closed' = TRUE
  /\ chan' = [s \in Subscriber |-> IF s \in subs THEN "closed" ELSE chan[s]]
  /\ subs' = {}
  /\ UNCHANGED <<next, events, size, dropped, missed>>

Next ==
  \/ Publish
  \/ Close
  \/ \E s \in Subscriber : \/ \E since \in Cursors : Subscribe(s, since)
                           \/ Receive(s)
                           \/ CloseSub(s)

Spec == Init /\ [][Next]_logVars
=============================================================================
