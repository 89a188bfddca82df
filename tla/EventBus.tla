------------------------------ MODULE EventBus ------------------------------
(***************************************************************************)
(* The event bus of internal/server/bus.go: a ring of the last events, and *)
(* subscriptions whose channels are filled from it and then from every     *)
(* publication, all under the mutex of the bus.                            *)
(***************************************************************************)
EXTENDS Naturals, Sequences, FiniteSets

CONSTANTS Capacity, Buffer, Subscriber, Cursors, MaxEvents

ASSUME BusAssumption ==
  /\ Capacity \in Nat \ {0} /\ Buffer \in Nat
  /\ Cursors \subseteq Nat
  /\ MaxEvents \in Nat

VARIABLES
  ring, head, count,  \* Bus.ring, Bus.head, Bus.count
  next, closed, subs, chan, events, size, dropped, missed, \* as in EventLog
  base,   \* history: the cursor a subscription really starts from
  taken,  \* history: how many events it has received
  last    \* history: the last of them; base before the first

ringVars == <<ring, head, count>>
history == <<base, taken, last>>
vars == <<ringVars, next, closed, subs, chan, events, size, dropped, missed,
          history>>

Init ==
  /\ ring = [i \in 0 .. Capacity - 1 |-> 0] /\ head = 0 /\ count = 0
  /\ next = 0 /\ closed = FALSE /\ subs = {}
  /\ chan = [s \in Subscriber |-> "none"]
  /\ events = [s \in Subscriber |-> <<>>]
  /\ size = [s \in Subscriber |-> 0]
  /\ dropped = [s \in Subscriber |-> 0]
  /\ missed = [s \in Subscriber |-> 0]
  /\ base = [s \in Subscriber |-> 0]
  /\ taken = [s \in Subscriber |-> 0]
  /\ last = [s \in Subscriber |-> 0]

\* Where the ring keeps its o-th oldest event, counting from zero.
Slot(o) == (head + o) % Capacity

\* Fault: a full ring overwrites its oldest event and keeps its head.
AppendInPlace(event) ==
  \/ /\ count < Capacity
     /\ ring' = [ring EXCEPT ![Slot(count)] = event]
     /\ count' = count + 1
     /\ UNCHANGED head
  \/ /\ count >= Capacity
     /\ ring' = [ring EXCEPT ![head] = event]
     /\ UNCHANGED <<count, head>>

AppendLocked(event) ==
  \/ /\ count < Capacity
     /\ ring' = [ring EXCEPT ![Slot(count)] = event]
     /\ count' = count + 1
     /\ UNCHANGED head
  \/ /\ count >= Capacity
     /\ ring' = [ring EXCEPT ![head] = event]
     /\ head' = (head + 1) % Capacity
     /\ UNCHANGED count

Missed(since) ==
  IF count > 0 /\ since < ring[head] - 1 THEN ring[head] - 1 ELSE 0

\* Fault: the replay goes through the ring from its first slot.
ReplayFromZero(start) ==
  LET kept   == {o \in 0 .. count - 1 : ring[o] > start}
      nth(i) == CHOOSE o \in kept : Cardinality({p \in kept : p < o}) = i - 1
  IN [i \in 1 .. Cardinality(kept) |-> ring[nth(i)]]

\* The retained events after start, in the order of the ring.
ReplayLocked(start) ==
  LET kept   == {o \in 0 .. count - 1 : ring[Slot(o)] > start}
      nth(i) == CHOOSE o \in kept : Cardinality({p \in kept : p < o}) = i - 1
  IN [i \in 1 .. Cardinality(kept) |-> ring[Slot(nth(i))]]

HasRoom(s) == Len(events[s]) < size[s]

\* A send to a closed channel panics, and so does a second close of it.
Send(S) == chan' = [s \in Subscriber |->
                      IF s \in S /\ chan[s] # "open" THEN "panic" ELSE chan[s]]
CloseAll(S) == chan' = [s \in Subscriber |->
                          IF s \notin S THEN chan[s]
                          ELSE IF chan[s] = "open" THEN "closed" ELSE "panic"]

\* Fault: an offer that finds no room waits for nobody and counts nothing.
OfferUncounted(event) ==
  /\ events' = [s \in Subscriber |-> IF s \in subs /\ HasRoom(s)
                                     THEN Append(events[s], event)
                                     ELSE events[s]]
  /\ Send({s \in subs : HasRoom(s)})
  /\ UNCHANGED dropped

Offer(event) ==
  /\ events' = [s \in Subscriber |-> IF s \in subs /\ HasRoom(s)
                                     THEN Append(events[s], event)
                                     ELSE events[s]]
  /\ dropped' = [s \in Subscriber |-> IF s \in subs /\ ~HasRoom(s)
                                      THEN dropped[s] + 1
                                      ELSE dropped[s]]
  /\ Send({s \in subs : HasRoom(s)})

Publish ==
  /\ ~closed
  /\ next < MaxEvents
  /\ next' = next + 1
  /\ AppendLocked(next + 1)
  /\ Offer(next + 1)
  /\ UNCHANGED <<closed, subs, size, missed, history>>

Subscribe(s, since) ==
  LET lost   == Missed(since)
      start  == IF lost > 0 THEN lost ELSE since
      replay == ReplayLocked(start)
      from   == IF start < next THEN start ELSE next
  IN /\ chan[s] # "open"
     /\ events' = [events EXCEPT ![s] = replay]
     /\ size' = [size EXCEPT ![s] =
                   IF Len(replay) > Buffer THEN Len(replay) ELSE Buffer]
     /\ dropped' = [dropped EXCEPT ![s] = 0]
     /\ missed' = [missed EXCEPT ![s] = lost]
     /\ subs' = IF closed THEN subs ELSE subs \cup {s}
     /\ chan' = [chan EXCEPT ![s] = IF closed THEN "closed" ELSE "open"]
     /\ base' = [base EXCEPT ![s] = from]
     /\ taken' = [taken EXCEPT ![s] = 0]
     /\ last' = [last EXCEPT ![s] = from]
     /\ UNCHANGED <<ringVars, next, closed>>

Receive(s) ==
  /\ events[s] # <<>>
  /\ events' = [events EXCEPT ![s] = Tail(@)]
  /\ taken' = [taken EXCEPT ![s] = @ + 1]
  /\ last' = [last EXCEPT ![s] = Head(events[s])]
  /\ UNCHANGED <<ringVars, next, closed, subs, chan, size, dropped, missed,
                 base>>

CloseSub(s) ==
  /\ s \in subs
  /\ subs' = subs \ {s}
  /\ CloseAll({s})
  /\ UNCHANGED <<ringVars, next, closed, events, size, dropped, missed,
                 history>>

Close ==
  /\ ~closed
  /\ closed' = TRUE
  /\ subs' = {}
  /\ CloseAll(subs)
  /\ UNCHANGED <<ringVars, next, events, size, dropped, missed, history>>

Next ==
  \/ Publish
  \/ Close
  \/ \E s \in Subscriber : \/ \E since \in Cursors : Subscribe(s, since)
                           \/ Receive(s)
                           \/ CloseSub(s)

Spec == Init /\ [][Next]_vars

-----------------------------------------------------------------------------
(* Properties.                                                             *)

(* Every channel is closed at most once and never sent to afterwards,      *)
(* whoever closes first, the subscriber or the bus.                        *)
TypeOK ==
  /\ ring \in [0 .. Capacity - 1 -> Nat]
  /\ head \in 0 .. Capacity - 1 /\ count \in 0 .. Capacity
  /\ next \in Nat /\ closed \in BOOLEAN
  /\ subs \subseteq Subscriber
  /\ chan \in [Subscriber -> {"none", "open", "closed"}]
  /\ events \in [Subscriber -> Seq(Nat)]
  /\ \A f \in {size, dropped, missed, base, taken, last} :
       f \in [Subscriber -> Nat]

(* While a subscription is registered, every event after its start has     *)
(* been received, is queued for it, or was counted as dropped: the bus     *)
(* loses nothing silently between the replay and the live events.          *)
Accounted ==
  \A s \in subs : taken[s] + Len(events[s]) + dropped[s] = next - base[s]

(* What a subscription receives and has queued is in strictly increasing   *)
(* order, newer than its start, and nothing comes twice.                   *)
InOrder ==
  \A s \in Subscriber :
    /\ base[s] <= last[s]
    /\ \A i \in 1 .. Len(events[s]) :
         /\ events[s][i] \in 1 .. next
         /\ last[s] < events[s][i]
         /\ \A j \in 1 .. i - 1 : events[s][j] < events[s][i]

(* The bus with its ring is a log that retains the last Capacity events.   *)
Log == INSTANCE EventLog
LogSpec == Log!Spec
=============================================================================
