--------------------------- MODULE EventBusProofs ---------------------------
(***************************************************************************)
(* The bus with its ring keeps its invariants and implements EventLog, for *)
(* every capacity, buffer, set of subscribers and of cursors.              *)
(*                                                                         *)
(* The argument: the ring holds the last count events from head on         *)
(* (Holds), so a replay is the interval EventLog takes it from (Replayed); *)
(* the registered subscriptions are those whose channels are open, so no   *)
(* send or close meets a closed channel.                                   *)
(***************************************************************************)
EXTENDS EventBus, TLAPS, FiniteSetTheorems

-----------------------------------------------------------------------------
(* The inductive invariant.                                                *)

Types ==
  /\ ring \in [0 .. Capacity - 1 -> Nat]
  /\ head \in 0 .. Capacity - 1 /\ count \in 0 .. Capacity
  /\ next \in Nat /\ closed \in BOOLEAN
  /\ subs \subseteq Subscriber
  /\ chan \in [Subscriber -> {"none", "open", "closed"}]
  /\ events \in [Subscriber -> Seq(Nat)]
  /\ size \in [Subscriber -> Nat] /\ dropped \in [Subscriber -> Nat]
  /\ missed \in [Subscriber -> Nat] /\ base \in [Subscriber -> Nat]
  /\ taken \in [Subscriber -> Nat] /\ last \in [Subscriber -> Nat]

\* The ring fills up before its head moves.
Shape ==
  /\ count = IF next < Capacity THEN next ELSE Capacity
  /\ count < Capacity => head = 0

\* From its head on it holds the last count events in order.
Holds == \A o \in 0 .. count - 1 : ring[Slot(o)] = next - count + 1 + o

\* Registered subscriptions are those with an open channel.
Registered ==
  /\ \A s \in Subscriber : s \in subs <=> chan[s] = "open"
  /\ closed => subs = {}

\* Nobody has received an event that was not published.
Published == \A s \in Subscriber : last[s] <= next

Inv == Types /\ Shape /\ Holds /\ Registered /\ Published
         /\ Accounted /\ InOrder

-----------------------------------------------------------------------------
(* The ring.                                                               *)

\* Slot without its division.
At(h, o) == IF h + o < Capacity THEN h + o ELSE h + o - Capacity

LEMMA Turn ==
  \A h \in 0 .. Capacity - 1, o \in 0 .. Capacity :
    (h + o) % Capacity = At(h, o)
  <1> USE BusAssumption
  <1> SUFFICES ASSUME NEW h \in 0 .. Capacity - 1, NEW o \in 0 .. Capacity
               PROVE  (h + o) % Capacity = At(h, o)
    OBVIOUS
  <1>1. h + o \in Nat /\ h + o < Capacity + Capacity
    OBVIOUS
  <1>2. CASE h + o < Capacity   BY <1>1, <1>2 DEF At
  <1>3. CASE Capacity <= h + o  BY <1>1, <1>3 DEF At
  <1>4. QED BY <1>1, <1>2, <1>3

LEMMA SlotAt ==
  ASSUME head \in 0 .. Capacity - 1
  PROVE  \A o \in 0 .. Capacity : Slot(o) = At(head, o)
  BY Turn DEF Slot

LEMMA NextSlotAt ==
  ASSUME head' \in 0 .. Capacity - 1
  PROVE  \A o \in 0 .. Capacity : Slot(o)' = At(head', o)
  BY Turn DEF Slot

(* What the code computes from the slot at head is Gone of EventLog.       *)
LEMMA MissedValue ==
  ASSUME Types, Shape, Holds, NEW since \in Nat
  PROVE  Missed(since) = IF since < next - count THEN next - count ELSE 0
  <1>1. CASE count = 0
    BY <1>1, BusAssumption DEF Types, Shape, Missed
  <1>2. CASE count > 0
    <2>1. Slot(0) = head
      BY SlotAt, BusAssumption DEF At, Types
    <2>2. ring[Slot(0)] = next - count + 1
      BY <1>2 DEF Holds, Types
    <2>3. next - count \in Nat
      BY BusAssumption DEF Types, Shape
    <2>4. ring[head] - 1 = next - count
      BY <2>1, <2>2, <2>3 DEF Types
    <2>5. QED BY <1>2, <2>3, <2>4 DEF Missed, Types
  <1>3. QED BY <1>1, <1>2 DEF Types

(* A replay from a cursor the ring still covers is an interval.            *)
LEMMA Replayed ==
  ASSUME Types, Shape, Holds, NEW start \in Nat, next - count <= start
  PROVE  ReplayLocked(start) =
           IF start < next THEN [i \in 1 .. next - start |-> start + i]
                           ELSE <<>>
  <1> DEFINE kept == {o \in 0 .. count - 1 : ring[Slot(o)] > start}
             k == start - (next - count)
             nth(i) == CHOOSE o \in kept :
                         Cardinality({p \in kept : p < o}) = i - 1
  <1>1. k \in Nat /\ count \in Nat /\ next \in Nat /\ next - count \in Nat
    BY BusAssumption DEF Types, Shape
  <1>2. kept = k .. count - 1
    <2>1. \A o \in 0 .. count - 1 : ring[Slot(o)] > start <=> o >= k
      BY <1>1 DEF Holds
    <2>2. QED BY <1>1, <2>1
  <1>3. Cardinality(kept) = IF start < next THEN next - start ELSE 0
    <2> HIDE DEF kept
    <2>1. Cardinality(k .. count - 1) =
            IF k > count - 1 THEN 0 ELSE count - 1 - k + 1
      BY <1>1, FS_Interval
    <2>2. QED BY <1>1, <1>2, <2>1
  <1>4. ASSUME NEW i \in 1 .. Cardinality(kept) PROVE nth(i) = k + i - 1
    <2>1. start < next /\ i \in 1 .. next - start
      BY <1>1, <1>3, <1>4
    <2>2. ASSUME NEW o \in kept
          PROVE  Cardinality({p \in kept : p < o}) = o - k
      <3>1. o \in Nat /\ k <= o /\ o <= count - 1
        BY <1>1, <1>2, <2>2
      <3>2. {p \in kept : p < o} = k .. o - 1
        BY <1>1, <1>2, <3>1
      <3> HIDE DEF kept, k
      <3>3. Cardinality(k .. o - 1) = IF k > o - 1 THEN 0 ELSE o - 1 - k + 1
        BY <1>1, <3>1, FS_Interval
      <3>4. (IF k > o - 1 THEN 0 ELSE o - 1 - k + 1) = o - k
        BY <1>1, <3>1
      <3>5. QED BY <3>2, <3>3, <3>4
    <2>3. k + i - 1 \in kept
      BY <1>1, <1>2, <2>1
    <2>4. \A o \in kept : Cardinality({p \in kept : p < o}) = i - 1
                            <=> o = k + i - 1
      <3> HIDE DEF kept
      <3>1. kept \subseteq Nat
        BY <1>1, <1>2
      <3>2. QED BY <1>1, <2>1, <2>2, <3>1
    <2> HIDE DEF kept, k
    <2>5. QED BY <2>3, <2>4
  <1>5. ASSUME NEW i \in 1 .. Cardinality(kept)
        PROVE  ring[Slot(nth(i))] = start + i
    <2>1. i \in 1 .. next - start /\ k + i - 1 \in 0 .. count - 1
      BY <1>1, <1>3
    <2>2. ring[Slot(k + i - 1)] = next - count + 1 + (k + i - 1)
      BY <2>1 DEF Holds
    <2>3. next - count + 1 + (k + i - 1) = start + i
      BY <1>1, <2>1
    <2> HIDE DEF k, kept, nth
    <2>4. QED BY <1>4, <2>2, <2>3
  <1>6. ReplayLocked(start)
          = [i \in 1 .. Cardinality(kept) |-> ring[Slot(nth(i))]]
    BY DEF ReplayLocked
  <1> HIDE DEF kept, k, nth
  <1>7. ReplayLocked(start) = [i \in 1 .. Cardinality(kept) |-> start + i]
    BY <1>5, <1>6
  <1>8. CASE start < next
    BY <1>3, <1>7, <1>8
  <1>9. CASE ~(start < next)
    BY <1>3, <1>7, <1>9
  <1>10. QED BY <1>8, <1>9

(* An event more, and the ring holds the last events still.                *)
LEMMA Appended ==
  ASSUME Types, Shape, Holds, AppendLocked(next + 1), next' = next + 1
  PROVE  /\ ring' \in [0 .. Capacity - 1 -> Nat]
         /\ head' \in 0 .. Capacity - 1 /\ count' \in 0 .. Capacity
         /\ Shape' /\ Holds'
  <1> USE BusAssumption
  <1>1. CASE count < Capacity
    <2>1. head = 0 /\ count = next /\ count' = count + 1 /\ head' = head
      BY <1>1 DEF Shape, AppendLocked, Types
    <2>2. \A o \in 0 .. count : Slot(o) = o
      BY <1>1, <2>1, SlotAt DEF At, Types
    <2>3. ring' = [ring EXCEPT ![count] = next + 1]
      BY <1>1, <2>2 DEF AppendLocked, Types
    <2>4. ASSUME NEW o \in 0 .. count - 1 PROVE ring[o] = o + 1
      <3>1. ring[Slot(o)] = next - count + 1 + o
        BY DEF Holds
      <3>2. Slot(o) = o
        BY <2>2 DEF Types
      <3>3. next - count + 1 + o = o + 1
        BY <2>1 DEF Types
      <3>4. QED BY <3>1, <3>2, <3>3
    <2>5. \A o \in 0 .. count' - 1 : ring'[o] = o + 1
      BY <1>1, <2>1, <2>3, <2>4 DEF Types
    <2>6. \A o \in 0 .. count' - 1 : Slot(o)' = o
      BY <1>1, <2>1, NextSlotAt DEF At, Types
    <2>7. Holds'
      BY <1>1, <2>1, <2>5, <2>6 DEF Holds, Types
    <2>8. QED BY <1>1, <2>1, <2>3, <2>7 DEF Shape, Types
  <1>2. CASE count = Capacity
    <2>1. /\ ring' = [ring EXCEPT ![head] = next + 1]
          /\ head' = (head + 1) % Capacity /\ count' = count
          /\ Capacity <= next
      BY <1>2 DEF AppendLocked, Types, Shape
    <2>2. head' = At(head, 1)
      BY <2>1, Turn DEF Types
    <2>3. head' \in 0 .. Capacity - 1
      BY <2>2 DEF At, Types
    <2>4. ASSUME NEW o \in 0 .. Capacity - 1
          PROVE  ring'[Slot(o)'] = next' - count' + 1 + o
      <3>1. Slot(o)' = At(head', o)
        BY <2>3, NextSlotAt
      <3>2. CASE o < Capacity - 1
        <4>1. o + 1 \in 0 .. Capacity - 1
          BY <3>2
        <4>2. Slot(o + 1) = At(head, o + 1)
          BY <4>1, SlotAt DEF Types
        <4>3. At(head', o) = At(head, o + 1)
          BY <2>2, <4>1 DEF At, Types
        <4>4. /\ At(head, o + 1) # head
              /\ At(head, o + 1) \in 0 .. Capacity - 1
          BY <4>1 DEF At, Types
        <4>5. ring[Slot(o + 1)] = next - count + 1 + (o + 1)
          BY <1>2, <4>1 DEF Holds
        <4>6. ring'[Slot(o)'] = ring[Slot(o + 1)]
          BY <2>1, <3>1, <4>2, <4>3, <4>4 DEF Types
        <4>7. QED BY <1>2, <2>1, <4>5, <4>6 DEF Types
      <3>3. CASE o = Capacity - 1
        <4>1. At(head', o) = head
          BY <2>2, <3>3 DEF At, Types
        <4>2. ring'[Slot(o)'] = next + 1
          BY <2>1, <3>1, <4>1 DEF Types
        <4>3. QED BY <1>2, <2>1, <3>3, <4>2 DEF Types
      <3>4. QED BY <3>2, <3>3
    <2>5. Holds'
      BY <1>2, <2>1, <2>4 DEF Holds
    <2>6. QED BY <1>2, <2>1, <2>3, <2>5 DEF Shape, Types
  <1>3. QED BY <1>1, <1>2 DEF Types

-----------------------------------------------------------------------------
(* Init and every action keep the invariant.                               *)

LEMMA InvInit == Init => Inv
  <1> SUFFICES ASSUME Init PROVE Inv
    OBVIOUS
  <1> USE BusAssumption DEF Init
  <1>1. events \in [Subscriber -> Seq(Nat)]
    <2>1. <<>> \in Seq(Nat)
      OBVIOUS
    <2>2. QED BY <2>1
  <1>2. Types /\ Shape
    <2>1. ring \in [0 .. Capacity - 1 -> Nat]
      OBVIOUS
    <2>2. head \in 0 .. Capacity - 1 /\ count \in 0 .. Capacity
      OBVIOUS
    <2>3. chan \in [Subscriber -> {"none", "open", "closed"}]
      OBVIOUS
    <2>4. /\ closed \in BOOLEAN /\ subs \subseteq Subscriber /\ next \in Nat
          /\ \A n \in Nat : [s \in Subscriber |-> n] \in [Subscriber -> Nat]
      OBVIOUS
    <2>5. Types
      BY <1>1, <2>1, <2>2, <2>3, <2>4 DEF Types
    <2>6. Shape
      BY DEF Shape
    <2>7. QED BY <2>5, <2>6
  <1>3. Holds /\ Registered /\ Published
    BY DEF Holds, Registered, Published
  <1>4. Accounted /\ InOrder
    BY DEF Accounted, InOrder
  <1>5. QED BY <1>2, <1>3, <1>4 DEF Inv

LEMMA PublishKeeps == Inv /\ Publish => Inv'
  <1> SUFFICES ASSUME Inv, Publish PROVE Inv'
    OBVIOUS
  <1> USE BusAssumption
  <1>1. Types /\ Shape /\ Holds /\ Registered /\ Published
          /\ Accounted /\ InOrder
    BY DEF Inv
  <1>2. /\ ring' \in [0 .. Capacity - 1 -> Nat]
        /\ head' \in 0 .. Capacity - 1 /\ count' \in 0 .. Capacity
        /\ Shape' /\ Holds'
    BY <1>1, Appended DEF Publish
  <1>3. next' = next + 1 /\ next' \in Nat
    BY <1>1 DEF Publish, Types
  <1>4. chan' = chan
    BY <1>1 DEF Publish, Offer, Send, Types, Registered
  <1>5. ASSUME NEW s \in Subscriber
        PROVE  /\ events'[s] \in Seq(Nat) /\ dropped'[s] \in Nat
               /\ s \in subs => Len(events'[s]) + dropped'[s]
                                 = Len(events[s]) + dropped[s] + 1
               /\ \/ events'[s] = events[s]
                  \/ events'[s] = Append(events[s], next + 1)
    <2>1. /\ events[s] \in Seq(Nat) /\ dropped[s] \in Nat /\ next + 1 \in Nat
          /\ Len(events[s]) \in Nat
      BY <1>1 DEF Types
    <2>2. /\ events'[s] = IF s \in subs /\ HasRoom(s)
                          THEN Append(events[s], next + 1) ELSE events[s]
          /\ dropped'[s] = IF s \in subs /\ ~HasRoom(s)
                           THEN dropped[s] + 1 ELSE dropped[s]
      BY DEF Publish, Offer
    <2>3. CASE s \in subs /\ HasRoom(s)
      <3>1. /\ events'[s] = Append(events[s], next + 1)
            /\ dropped'[s] = dropped[s]
        BY <2>2, <2>3
      <3>2. Len(Append(events[s], next + 1)) = Len(events[s]) + 1
        BY <2>1
      <3>3. Append(events[s], next + 1) \in Seq(Nat)
        BY <2>1
      <3>4. QED BY <2>1, <3>1, <3>2, <3>3
    <2>4. CASE ~(s \in subs /\ HasRoom(s))
      <3>1. events'[s] = events[s] /\ dropped'[s] \in Nat
        BY <2>1, <2>2, <2>4
      <3>2. s \in subs => dropped'[s] = dropped[s] + 1
        BY <2>2, <2>4
      <3>3. s \in subs => Len(events'[s]) + dropped'[s]
                            = Len(events[s]) + dropped[s] + 1
        <4> DEFINE l == Len(events[s])
                   l1 == Len(events'[s])
                   d == dropped[s]
                   d1 == dropped'[s]
        <4>1. l \in Nat /\ d \in Nat /\ l1 = l
          BY <2>1, <3>1
        <4>2. s \in subs => d1 = d + 1
          BY <3>2
        <4> HIDE DEF l, l1, d, d1
        <4>3. s \in subs => l1 + d1 = l + d + 1
          BY <4>1, <4>2
        <4>4. QED BY <4>3 DEF l, l1, d, d1
      <3>4. QED BY <2>1, <3>1, <3>3
    <2>5. QED BY <2>3, <2>4
  <1>6. Types'
    BY <1>1, <1>2, <1>3, <1>4, <1>5 DEF Types, Publish, Offer, history
  <1>7. Registered'
    BY <1>1, <1>4 DEF Registered, Publish
  <1>8. Published'
    BY <1>1, <1>3 DEF Published, Publish, history, Types
  <1>9. Accounted'
    <2> SUFFICES ASSUME NEW s \in subs
                 PROVE  taken[s] + Len(events'[s]) + dropped'[s]
                          = next' - base[s]
      BY DEF Accounted, Publish, history
    <2> DEFINE l == Len(events[s])
               l1 == Len(events'[s])
               d == dropped[s]
               d1 == dropped'[s]
               t == taken[s]
               b == base[s]
    <2>1. t + l + d = next - b
      BY <1>1 DEF Accounted
    <2>2. /\ t \in Nat /\ b \in Nat /\ l \in Nat /\ d \in Nat
          /\ l1 \in Nat /\ d1 \in Nat /\ next \in Nat
      BY <1>1, <1>5 DEF Types
    <2>3. l1 + d1 = l + d + 1
      BY <1>1, <1>5 DEF Types
    <2> HIDE DEF l, l1, d, d1, t, b
    <2>4. t + l1 + d1 = next' - b
      BY <1>3, <2>1, <2>2, <2>3
    <2>5. QED BY <2>4 DEF l1, d1, t, b
  <1>10. InOrder'
    <2> SUFFICES ASSUME NEW s \in Subscriber
                 PROVE  /\ base[s] <= last[s]
                        /\ \A i \in 1 .. Len(events'[s]) :
                             /\ events'[s][i] \in 1 .. next'
                             /\ last[s] < events'[s][i]
                             /\ \A j \in 1 .. i - 1 :
                                  events'[s][j] < events'[s][i]
      BY DEF InOrder, Publish, history
    <2>1. /\ base[s] <= last[s] /\ last[s] <= next
          /\ last[s] \in Nat /\ next \in Nat /\ events[s] \in Seq(Nat)
      BY <1>1 DEF InOrder, Published, Types
    <2>2. \A i \in 1 .. Len(events[s]) :
            /\ events[s][i] \in 1 .. next
            /\ last[s] < events[s][i]
            /\ \A j \in 1 .. i - 1 : events[s][j] < events[s][i]
      BY <1>1 DEF InOrder
    <2>3. CASE events'[s] = events[s]
      BY <1>3, <2>1, <2>2, <2>3
    <2>4. CASE events'[s] = Append(events[s], next + 1)
      <3>1. Len(events'[s]) = Len(events[s]) + 1
        BY <2>1, <2>4
      <3>2. \A i \in 1 .. Len(events[s]) : events'[s][i] = events[s][i]
        BY <2>1, <2>4
      <3>3. events'[s][Len(events[s]) + 1] = next + 1
        BY <2>1, <2>4
      <3>4. ASSUME NEW i \in 1 .. Len(events'[s])
            PROVE  /\ events'[s][i] \in 1 .. next'
                   /\ last[s] < events'[s][i]
                   /\ \A j \in 1 .. i - 1 : events'[s][j] < events'[s][i]
        <4>1. CASE i <= Len(events[s])
          <5>1. i \in 1 .. Len(events[s]) /\ events'[s][i] = events[s][i]
            BY <2>1, <3>2, <4>1
          <5>2. \A j \in 1 .. i - 1 : events'[s][j] = events[s][j]
            BY <2>1, <3>2, <4>1
          <5>3. QED BY <1>3, <2>1, <2>2, <5>1, <5>2
        <4>2. CASE i = Len(events[s]) + 1
          <5>1. \A j \in 1 .. i - 1 : events'[s][j] \in 1 .. next
            BY <2>1, <2>2, <3>2, <4>2
          <5>2. events'[s][i] = next + 1
            BY <3>3, <4>2
          <5>3. QED BY <1>3, <2>1, <5>1, <5>2
        <4>3. QED BY <2>1, <3>1, <4>1, <4>2
      <3>5. QED BY <2>1, <3>4
    <2>5. QED BY <1>5, <2>3, <2>4
  <1>11. QED BY <1>2, <1>6, <1>7, <1>8, <1>9, <1>10 DEF Inv

(* What a new subscription is given, in the terms of EventLog.             *)
LEMMA SubscribeValue ==
  ASSUME Inv, NEW s \in Subscriber, NEW since \in Nat, Subscribe(s, since)
  PROVE  \E from \in 0 .. next :
           /\ events' = [events EXCEPT ![s] = [i \in 1 .. next - from |-> from + i]]
           /\ base' = [base EXCEPT ![s] = from]
           /\ last' = [last EXCEPT ![s] = from]
           /\ size' \in [Subscriber -> Nat] /\ missed' \in [Subscriber -> Nat]
  <1> DEFINE start == IF Missed(since) > 0 THEN Missed(since) ELSE since
             from == IF start < next THEN start ELSE next
             replay == ReplayLocked(start)
  <1> USE BusAssumption
  <1>1. Types /\ Shape /\ Holds
    BY DEF Inv
  <1>2. next - count \in Nat /\ next \in Nat
    BY <1>1 DEF Types, Shape
  <1>3. Missed(since) = IF since < next - count THEN next - count ELSE 0
    BY <1>1, MissedValue
  <1>4. start \in Nat /\ next - count <= start /\ Missed(since) \in Nat
    BY <1>2, <1>3
  <1>5. from \in 0 .. next
    BY <1>2, <1>4
  <1> HIDE DEF start
  <1>6. replay = IF start < next THEN [i \in 1 .. next - start |-> start + i]
                                 ELSE <<>>
    BY <1>1, <1>4, Replayed
  <1>7. replay = [i \in 1 .. next - from |-> from + i]
    BY <1>2, <1>4, <1>6
  <1>8. Len(replay) \in Nat
    BY <1>2, <1>5, <1>7
  <1>9. /\ events' = [events EXCEPT ![s] = replay]
        /\ base' = [base EXCEPT ![s] = from]
        /\ last' = [last EXCEPT ![s] = from]
        /\ size' = [size EXCEPT ![s] =
                      IF Len(replay) > Buffer THEN Len(replay) ELSE Buffer]
        /\ missed' = [missed EXCEPT ![s] = Missed(since)]
    BY DEF Subscribe, start
  <1>10. size' \in [Subscriber -> Nat] /\ missed' \in [Subscriber -> Nat]
    BY <1>1, <1>4, <1>8, <1>9 DEF Types
  <1>11. QED BY <1>5, <1>7, <1>9, <1>10

(* What an interval of sequences is as a queue.                            *)
LEMMA Interval ==
  ASSUME NEW from \in Nat, NEW n \in Nat, from <= n,
         NEW q, q = [i \in 1 .. n - from |-> from + i]
  PROVE  /\ q \in Seq(Nat) /\ Len(q) = n - from
         /\ \A i \in 1 .. Len(q) : q[i] = from + i
  <1>1. n - from \in Nat
    OBVIOUS
  <1>2. q \in [1 .. n - from -> Nat]
    OBVIOUS
  <1>3. q \in Seq(Nat) /\ Len(q) = n - from
    BY <1>1, <1>2
  <1>4. QED BY <1>3

LEMMA SubscribeKeeps ==
  ASSUME Inv, NEW s \in Subscriber, NEW since \in Cursors, Subscribe(s, since)
  PROVE  Inv'
  <1> USE BusAssumption
  <1>1. Types /\ Shape /\ Holds /\ Registered /\ Published
          /\ Accounted /\ InOrder
    BY DEF Inv
  <1>2. since \in Nat
    OBVIOUS
  <1>3. PICK from \in 0 .. next :
          /\ events' = [events EXCEPT ![s] = [i \in 1 .. next - from |-> from + i]]
          /\ base' = [base EXCEPT ![s] = from]
          /\ last' = [last EXCEPT ![s] = from]
          /\ size' \in [Subscriber -> Nat] /\ missed' \in [Subscriber -> Nat]
    BY <1>2, SubscribeValue
  <1>4. /\ taken' = [taken EXCEPT ![s] = 0]
        /\ dropped' = [dropped EXCEPT ![s] = 0]
        /\ subs' = IF closed THEN subs ELSE subs \cup {s}
        /\ chan' = [chan EXCEPT ![s] = IF closed THEN "closed" ELSE "open"]
        /\ chan[s] # "open"
        /\ UNCHANGED <<ring, head, count, next, closed>>
    BY DEF Subscribe, ringVars
  <1>5. next \in Nat /\ from \in Nat /\ from <= next
    BY <1>1, <1>3 DEF Types
  <1>6. /\ events'[s] \in Seq(Nat) /\ Len(events'[s]) = next - from
        /\ \A i \in 1 .. Len(events'[s]) : events'[s][i] = from + i
    <2>1. events'[s] = [i \in 1 .. next - from |-> from + i]
      BY <1>1, <1>3 DEF Types
    <2>2. QED BY <1>5, <2>1, Interval
  <1>7. \A t \in Subscriber \ {s} :
          /\ events'[t] = events[t] /\ base'[t] = base[t] /\ last'[t] = last[t]
          /\ taken'[t] = taken[t] /\ dropped'[t] = dropped[t]
    BY <1>1, <1>3, <1>4 DEF Types
  <1>8. base'[s] = from /\ last'[s] = from /\ taken'[s] = 0 /\ dropped'[s] = 0
    BY <1>1, <1>3, <1>4 DEF Types
  <1>9. Types'
    <2>1. events' \in [Subscriber -> Seq(Nat)]
      BY <1>1, <1>3, <1>6 DEF Types
    <2>2. QED BY <1>1, <1>3, <1>4, <1>5, <2>1 DEF Types
  <1>10. Shape' /\ Holds' /\ Registered'
    BY <1>1, <1>4 DEF Shape, Holds, Slot, Registered, Types
  <1>11. Published'
    BY <1>1, <1>4, <1>5, <1>7, <1>8 DEF Published
  <1>12. Accounted'
    <2> SUFFICES ASSUME NEW t \in subs'
                 PROVE  taken'[t] + Len(events'[t]) + dropped'[t]
                          = next - base'[t]
      BY <1>4 DEF Accounted
    <2>1. CASE t = s
      <3>1. 0 + (next - from) + 0 = next - from
        BY <1>5
      <3>2. /\ taken'[t] = 0 /\ Len(events'[t]) = next - from
            /\ dropped'[t] = 0 /\ base'[t] = from
        BY <1>6, <1>8, <2>1
      <3>3. QED BY <3>1, <3>2
    <2>2. CASE t # s
      <3>1. t \in subs /\ t \in Subscriber \ {s}
        BY <1>1, <1>4, <2>2 DEF Types
      <3>2. taken[t] + Len(events[t]) + dropped[t] = next - base[t]
        BY <1>1, <3>1 DEF Accounted
      <3>3. QED BY <1>7, <3>1, <3>2
    <2>3. QED BY <2>1, <2>2
  <1>13. InOrder'
    <2> SUFFICES ASSUME NEW t \in Subscriber
                 PROVE  /\ base'[t] <= last'[t]
                        /\ \A i \in 1 .. Len(events'[t]) :
                             /\ events'[t][i] \in 1 .. next
                             /\ last'[t] < events'[t][i]
                             /\ \A j \in 1 .. i - 1 :
                                  events'[t][j] < events'[t][i]
      BY <1>4 DEF InOrder
    <2>1. CASE t = s
      <3>1. base'[t] <= last'[t]
        BY <1>5, <1>8, <2>1
      <3>2. ASSUME NEW i \in 1 .. Len(events'[s])
            PROVE  /\ events'[s][i] \in 1 .. next
                   /\ last'[s] < events'[s][i]
                   /\ \A j \in 1 .. i - 1 : events'[s][j] < events'[s][i]
        <4>1. i \in 1 .. next - from /\ events'[s][i] = from + i
          BY <1>6
        <4>2. \A j \in 1 .. i - 1 : events'[s][j] = from + j
          <5>1. next - from \in Nat
            BY <1>5
          <5>2. \A j \in 1 .. i - 1 : j \in 1 .. next - from
            BY <4>1, <5>1
          <5>3. QED BY <1>6, <5>2
        <4>3. from + i \in 1 .. next /\ from < from + i
          BY <1>5, <4>1
        <4>4. \A j \in 1 .. i - 1 : from + j < from + i
          BY <1>5, <4>1
        <4>5. QED BY <1>8, <4>1, <4>2, <4>3, <4>4
      <3>3. QED BY <2>1, <3>1, <3>2
    <2>2. CASE t # s
      BY <1>1, <1>7, <2>2 DEF InOrder
    <2>3. QED BY <2>1, <2>2
  <1>14. QED BY <1>9, <1>10, <1>11, <1>12, <1>13 DEF Inv

LEMMA ReceiveKeeps ==
  ASSUME Inv, NEW s \in Subscriber, Receive(s)
  PROVE  Inv'
  <1> USE BusAssumption
  <1>1. Types /\ Shape /\ Holds /\ Registered /\ Published
          /\ Accounted /\ InOrder
    BY DEF Inv
  <1>2. /\ events[s] # <<>>
        /\ events' = [events EXCEPT ![s] = Tail(events[s])]
        /\ taken' = [taken EXCEPT ![s] = taken[s] + 1]
        /\ last' = [last EXCEPT ![s] = Head(events[s])]
        /\ UNCHANGED <<ring, head, count, next, closed, subs, chan, size,
                       dropped, missed, base>>
    BY DEF Receive, ringVars
  <1>3. /\ events[s] \in Seq(Nat) /\ next \in Nat /\ last[s] \in Nat
        /\ Len(events[s]) \in Nat \ {0}
    BY <1>1, <1>2 DEF Types
  <1>4. /\ events'[s] = Tail(events[s]) /\ taken'[s] = taken[s] + 1
        /\ last'[s] = events[s][1]
    BY <1>1, <1>2, <1>3 DEF Types
  <1>5. /\ Len(events'[s]) = Len(events[s]) - 1 /\ events'[s] \in Seq(Nat)
        /\ \A i \in 1 .. Len(events'[s]) : events'[s][i] = events[s][i + 1]
    BY <1>3, <1>4
  <1>6. \A t \in Subscriber \ {s} :
          events'[t] = events[t] /\ last'[t] = last[t] /\ taken'[t] = taken[t]
    BY <1>1, <1>2 DEF Types
  <1>7. /\ events[s][1] \in 1 .. next /\ last[s] < events[s][1]
        /\ base[s] <= last[s] /\ base[s] \in Nat
    BY <1>1, <1>3 DEF InOrder, Types
  <1>8. Types'
    <2>1. events' \in [Subscriber -> Seq(Nat)]
      BY <1>1, <1>2, <1>4, <1>5 DEF Types
    <2>2. taken' \in [Subscriber -> Nat] /\ last' \in [Subscriber -> Nat]
      <3>1. Head(events[s]) \in Nat
        BY <1>3
      <3>2. taken[s] + 1 \in Nat
        BY <1>1 DEF Types
      <3>3. QED BY <1>1, <1>2, <3>1, <3>2 DEF Types
    <2>3. QED BY <1>1, <1>2, <2>1, <2>2 DEF Types
  <1>9. Shape' /\ Holds' /\ Registered'
    BY <1>1, <1>2 DEF Shape, Holds, Slot, Registered
  <1>10. Published'
    BY <1>1, <1>2, <1>4, <1>6, <1>7 DEF Published
  <1>11. Accounted'
    <2> SUFFICES ASSUME NEW t \in subs
                 PROVE  taken'[t] + Len(events'[t]) + dropped[t]
                          = next - base[t]
      BY <1>2 DEF Accounted
    <2>1. taken[t] + Len(events[t]) + dropped[t] = next - base[t]
      BY <1>1 DEF Accounted
    <2>2. CASE t # s
      BY <1>1, <1>6, <2>1, <2>2 DEF Types
    <2>3. CASE t = s
      <3> DEFINE l == Len(events[s])
                 l1 == Len(events'[s])
                 d == dropped[s]
                 k == taken[s]
                 k1 == taken'[s]
                 b == base[s]
      <3>1. k + l + d = next - b
        BY <2>1, <2>3
      <3>2. /\ k \in Nat /\ l \in Nat /\ d \in Nat /\ b \in Nat
            /\ l1 = l - 1 /\ k1 = k + 1
        BY <1>1, <1>3, <1>4, <1>5 DEF Types
      <3> HIDE DEF l, l1, d, k, k1, b
      <3>3. k1 + l1 + d = next - b
        BY <1>3, <3>1, <3>2
      <3>4. QED BY <2>3, <3>3 DEF l1, d, k1, b
    <2>4. QED BY <2>2, <2>3
  <1>12. InOrder'
    <2> SUFFICES ASSUME NEW t \in Subscriber
                 PROVE  /\ base[t] <= last'[t]
                        /\ \A i \in 1 .. Len(events'[t]) :
                             /\ events'[t][i] \in 1 .. next
                             /\ last'[t] < events'[t][i]
                             /\ \A j \in 1 .. i - 1 :
                                  events'[t][j] < events'[t][i]
      BY <1>2 DEF InOrder
    <2>1. CASE t # s
      BY <1>1, <1>6, <2>1 DEF InOrder
    <2>2. CASE t = s
      <3>1. base[s] <= last'[s]
        BY <1>3, <1>4, <1>7
      <3>2. ASSUME NEW i \in 1 .. Len(events'[s])
            PROVE  /\ events'[s][i] \in 1 .. next
                   /\ last'[s] < events'[s][i]
                   /\ \A j \in 1 .. i - 1 : events'[s][j] < events'[s][i]
        <4> DEFINE n == Len(events[s])
                   m == Len(events'[s])
        <4>0. n \in Nat \ {0} /\ m = n - 1 /\ i \in 1 .. m
          BY <1>3, <1>5
        <4>1. i + 1 \in 1 .. Len(events[s]) /\ events'[s][i] = events[s][i + 1]
          <5>1. events'[s][i] = events[s][i + 1]
            BY <1>5
          <5> HIDE DEF n, m
          <5>2. i + 1 \in 1 .. n
            BY <4>0
          <5>3. QED BY <5>1, <5>2 DEF n
        <4>2. /\ events[s][i + 1] \in 1 .. next
              /\ \A j \in 1 .. (i + 1) - 1 : events[s][j] < events[s][i + 1]
          BY <1>1, <4>1 DEF InOrder
        <4>3. last'[s] < events'[s][i]
          BY <1>4, <4>1, <4>2
        <4>4. ASSUME NEW j \in 1 .. i - 1
              PROVE  events'[s][j] < events'[s][i]
          <5>1. /\ j + 1 \in 1 .. (i + 1) - 1
                /\ events'[s][j] = events[s][j + 1]
            <6> HIDE DEF n, m
            <6>1. j \in 1 .. m /\ j + 1 \in 1 .. (i + 1) - 1
              BY <4>0, <4>4
            <6>2. QED BY <1>5, <6>1 DEF m
          <5>2. QED BY <4>1, <4>2, <5>1
        <4>5. QED BY <4>1, <4>2, <4>3, <4>4
      <3>3. QED BY <2>2, <3>1, <3>2
    <2>3. QED BY <2>1, <2>2
  <1>13. QED BY <1>8, <1>9, <1>10, <1>11, <1>12 DEF Inv

(* Nobody closes a channel that is not open.                               *)
LEMMA ClosedOnce ==
  ASSUME Types, Registered, NEW S \in SUBSET subs, CloseAll(S)
  PROVE  chan' = [s \in Subscriber |-> IF s \in S THEN "closed" ELSE chan[s]]
  <1>1. \A s \in S : s \in Subscriber /\ chan[s] = "open"
    BY DEF Types, Registered
  <1>2. QED BY <1>1 DEF CloseAll

LEMMA CloseSubKeeps ==
  ASSUME Inv, NEW s \in Subscriber, CloseSub(s)
  PROVE  Inv'
  <1> USE DEF CloseSub, ringVars, history
  <1>1. Types /\ Registered
    BY DEF Inv
  <1>2. chan' = [t \in Subscriber |-> IF t \in {s} THEN "closed" ELSE chan[t]]
    BY <1>1, ClosedOnce
  <1>3. Types' /\ Registered'
    BY <1>1, <1>2 DEF Types, Registered
  <1>4. Shape' /\ Holds' /\ Published'
    BY DEF Inv, Shape, Holds, Slot, Published
  <1>5. Accounted' /\ InOrder'
    BY DEF Inv, Accounted, InOrder
  <1>6. QED BY <1>3, <1>4, <1>5 DEF Inv

LEMMA CloseKeeps ==
  ASSUME Inv, Close
  PROVE  Inv'
  <1> USE DEF Close, ringVars, history
  <1>1. Types /\ Registered
    BY DEF Inv
  <1>2. chan' = [t \in Subscriber |-> IF t \in subs THEN "closed" ELSE chan[t]]
    BY <1>1, ClosedOnce
  <1>3. Types' /\ Registered'
    BY <1>1, <1>2 DEF Types, Registered
  <1>4. Shape' /\ Holds' /\ Published'
    BY DEF Inv, Shape, Holds, Slot, Published
  <1>5. Accounted' /\ InOrder'
    BY DEF Inv, Accounted, InOrder
  <1>6. QED BY <1>3, <1>4, <1>5 DEF Inv

LEMMA StutterKeeps == Inv /\ UNCHANGED vars => Inv'
  BY DEF Inv, vars, ringVars, history, Types, Shape, Holds, Slot, Registered,
         Published, Accounted, InOrder

LEMMA StepKeeps == Inv /\ [Next]_vars => Inv'
  <1> SUFFICES ASSUME Inv, [Next]_vars PROVE Inv'
    OBVIOUS
  <1>1. CASE Publish
    BY <1>1, PublishKeeps
  <1>2. CASE Close
    BY <1>2, CloseKeeps
  <1>3. ASSUME NEW s \in Subscriber, NEW since \in Cursors,
               Subscribe(s, since)
        PROVE  Inv'
    BY <1>3, SubscribeKeeps
  <1>4. ASSUME NEW s \in Subscriber, Receive(s) PROVE Inv'
    BY <1>4, ReceiveKeeps
  <1>5. ASSUME NEW s \in Subscriber, CloseSub(s) PROVE Inv'
    BY <1>5, CloseSubKeeps
  <1>6. CASE UNCHANGED vars
    BY <1>6, StutterKeeps
  <1>7. QED BY <1>1, <1>2, <1>3, <1>4, <1>5, <1>6 DEF Next

-----------------------------------------------------------------------------
(* The theorems.                                                           *)

LEMMA Invariance == Spec => []Inv
  <1>1. Init => Inv
    BY InvInit
  <1>2. Inv /\ [Next]_vars => Inv'
    BY StepKeeps
  <1>3. QED BY <1>1, <1>2, PTL DEF Spec

(* No channel is closed twice or sent to after it was closed, however many *)
(* subscribers come and go and whenever the bus is closed.                 *)
THEOREM BusTyped == Spec => []TypeOK
  <1>1. Inv => TypeOK
    BY DEF Inv, Types, TypeOK
  <1>2. QED BY <1>1, Invariance, PTL

(* Every event after a subscription's start is received, queued or counted *)
(* as dropped, at any publication rate and for any size of the channel.    *)
THEOREM BusAccounts == Spec => []Accounted
  <1>1. Inv => Accounted
    BY DEF Inv
  <1>2. QED BY <1>1, Invariance, PTL

(* A subscription's events increase strictly, through the seam between the *)
(* replay and the live events and through every turn of the ring.          *)
THEOREM BusInOrder == Spec => []InOrder
  <1>1. Inv => InOrder
    BY DEF Inv
  <1>2. QED BY <1>1, Invariance, PTL

LEMMA LogInit == Init => Log!Init
  BY DEF Init, Log!Init

LEMMA LogStep == Inv /\ [Next]_vars => [Log!Next]_Log!logVars
  <1> SUFFICES ASSUME Inv, [Next]_vars PROVE [Log!Next]_Log!logVars
    OBVIOUS
  <1> USE BusAssumption
  <1>1. Types /\ Shape /\ Holds /\ Registered
    BY DEF Inv
  <1>2. CASE Publish
    <2>1. chan' = chan
      BY <1>1, <1>2 DEF Publish, Offer, Send, Types, Registered
    <2>2. Log!Publish
      BY <1>2, <2>1 DEF Publish, Offer, Log!Publish, HasRoom, Log!HasRoom
    <2>3. QED BY <2>2 DEF Log!Next
  <1>3. CASE Close
    <2>1. chan' = [t \in Subscriber |-> IF t \in subs THEN "closed" ELSE chan[t]]
      BY <1>1, <1>3, ClosedOnce DEF Close
    <2>2. Log!Close
      BY <1>3, <2>1 DEF Close, Log!Close
    <2>3. QED BY <2>2 DEF Log!Next
  <1>4. ASSUME NEW s \in Subscriber, NEW since \in Cursors,
               Subscribe(s, since)
        PROVE  Log!Subscribe(s, since)
    <2>1. next \in Nat /\ next - count \in Nat /\ since \in Nat
      BY <1>1 DEF Types, Shape
    <2>2. Log!Gone = next - count
      BY <1>1 DEF Log!Gone, Types, Shape
    <2>3. Missed(since) = IF since < Log!Gone THEN Log!Gone ELSE 0
      BY <1>1, <2>1, <2>2, MissedValue
    <2> DEFINE start == IF since < Log!Gone THEN Log!Gone ELSE since
    <2>4. start = IF Missed(since) > 0 THEN Missed(since) ELSE since
      BY <2>1, <2>2, <2>3
    <2>5. start \in Nat /\ next - count <= start
      BY <2>1, <2>2
    <2>6. ReplayLocked(start) = Log!After(start)
      <3> HIDE DEF start
      <3>1. QED BY <1>1, <2>5, Replayed DEF Log!After
    <2> HIDE DEF start
    <2>7. /\ chan[s] # "open"
          /\ events' = [events EXCEPT ![s] = Log!After(start)]
          /\ size' = [size EXCEPT ![s] =
                        IF Len(Log!After(start)) > Buffer
                        THEN Len(Log!After(start)) ELSE Buffer]
          /\ dropped' = [dropped EXCEPT ![s] = 0]
          /\ missed' = [missed EXCEPT ![s] =
                          IF since < Log!Gone THEN Log!Gone ELSE 0]
          /\ subs' = IF closed THEN subs ELSE subs \cup {s}
          /\ chan' = [chan EXCEPT ![s] = IF closed THEN "closed" ELSE "open"]
          /\ UNCHANGED <<next, closed>>
      BY <1>4, <2>3, <2>4, <2>6 DEF Subscribe
    <2>8. QED BY <2>7 DEF Log!Subscribe, start
  <1>5. ASSUME NEW s \in Subscriber, Receive(s) PROVE Log!Receive(s)
    BY <1>5 DEF Receive, Log!Receive
  <1>6. ASSUME NEW s \in Subscriber, CloseSub(s) PROVE Log!CloseSub(s)
    <2>1. chan' = [t \in Subscriber |-> IF t \in {s} THEN "closed" ELSE chan[t]]
      BY <1>1, <1>6, ClosedOnce DEF CloseSub
    <2>2. chan' = [chan EXCEPT ![s] = "closed"]
      BY <1>1, <2>1 DEF Types
    <2>3. QED BY <1>6, <2>2 DEF CloseSub, Log!CloseSub
  <1>7. CASE UNCHANGED vars
    BY <1>7 DEF vars, Log!logVars
  <1>8. QED BY <1>2, <1>3, <1>4, <1>5, <1>6, <1>7 DEF Next, Log!Next

(* The ring bus implements the log that retains the last Capacity events:  *)
(* what it replays and reports as missed is what EventLog says.            *)
THEOREM BusImplementsLog == Spec => LogSpec
  <1>1. Inv /\ [Next]_vars => [Log!Next]_Log!logVars
    BY LogStep
  <1>2. QED BY LogInit, <1>1, Invariance, PTL DEF Spec, LogSpec, Log!Spec
=============================================================================
