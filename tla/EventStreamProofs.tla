------------------------- MODULE EventStreamProofs --------------------------
(***************************************************************************)
(* A stream handler cleans up after itself, wherever it ends, and there is *)
(* one at a time; a tail is told of what it missed, and its frames come in *)
(* order: for all buffers, cursors, retry budgets and numbers of restarts. *)
(***************************************************************************)
EXTENDS EventStream, TLAPS

(* Where a handler may be registered with the bus and with the daemon: the *)
(* deferred calls undo the two in the reverse order.                       *)
Owns ==
  /\ subs \subseteq {Sub}
  /\ subs # {} => at \in {"last", "track", "loop", "send", "unsubscribe"}
  /\ tracked => at \in {"loop", "send", "unsubscribe", "untrack"}

(* What the bus does to the set of subscriptions.                          *)
LEMMA BusSubs ==
  /\ Bus!Publish => subs' = subs
  /\ Bus!Receive(Sub) => subs' = subs
  /\ Bus!CloseSub(Sub) => subs' = subs \ {Sub}
  /\ \A from : Bus!Subscribe(Sub, from) => subs' \subseteq subs \cup {Sub}
  BY DEF Bus!Publish, Bus!Receive, Bus!CloseSub, Bus!Subscribe

(* The daemon's own steps touch a handler's registrations only to undo     *)
(* them.                                                                   *)
LEMMA DaemonOwns ==
  ASSUME Owns,
         Publish \/ Cancel \/ Shutdown \/ Grace \/ Exit \/ Crash \/ Restart
  PROVE  Owns'
  <1> USE DEF Owns, streamVars, busVars
  <1>1. CASE Publish
    BY <1>1, BusSubs DEF Publish
  <1>2. CASE Cancel
    BY <1>2 DEF Cancel
  <1>3. CASE Shutdown
    BY <1>3, BusSubs DEF Shutdown
  <1>4. CASE Grace
    BY <1>4 DEF Grace
  <1>5. CASE Exit
    BY <1>5 DEF Exit
  <1>6. CASE Crash
    BY <1>6 DEF Crash
  <1>7. CASE Restart
    BY <1>7 DEF Restart
  <1>8. QED BY <1>1, <1>2, <1>3, <1>4, <1>5, <1>6, <1>7

(* A handler's steps lead from one place to the next.                      *)
LEMMA HandlerOwns ==
  ASSUME Owns, Handler
  PROVE  Owns'
  <1> USE DEF Owns, busVars, Goto
  <1>1. CASE ReadSince
    BY <1>1 DEF ReadSince
  <1>2. CASE RequestEnds
    BY <1>2 DEF RequestEnds
  <1>3. CASE Subscribe
    BY <1>3, BusSubs DEF Subscribe
  <1>4. CASE ReadLast
    BY <1>4 DEF ReadLast
  <1>5. CASE Track
    BY <1>5 DEF Track
  <1>6. CASE Take
    BY <1>6, BusSubs DEF Take
  <1>7. CASE Leave
    BY <1>7 DEF Leave
  <1>8. CASE Send
    BY <1>8 DEF Send
  <1>9. CASE Unsubscribe
    BY <1>9, BusSubs DEF Unsubscribe
  <1>10. CASE Untrack
    BY <1>10 DEF Untrack
  <1>11. CASE Remove
    BY <1>11 DEF Remove
  <1>12. QED BY <1>1, <1>2, <1>3, <1>4, <1>5, <1>6, <1>7, <1>8, <1>9, <1>10,
                <1>11 DEF Handler

(* A tail's steps touch no registration; its dial finds no handler.        *)
LEMMA TailOwns ==
  ASSUME Owns, at = "none" \/ ~Dial, TailStep \/ Stall \/ Quit
  PROVE  Owns'
  <1> USE DEF Owns, busVars, streamVars
  <1>1. CASE Dial
    BY <1>1 DEF Dial, Goto
  <1>2. CASE DialFails
    BY <1>2 DEF DialFails
  <1>3. CASE Ask
    BY <1>3 DEF Ask
  <1>4. CASE Read
    BY <1>4 DEF Read
  <1>5. CASE Eof
    BY <1>5 DEF Eof
  <1>6. CASE Stall
    BY <1>6 DEF Stall
  <1>7. CASE Quit
    BY <1>7 DEF Quit
  <1>8. QED BY <1>1, <1>2, <1>3, <1>4, <1>5, <1>6, <1>7 DEF TailStep

-----------------------------------------------------------------------------
(* There is one handler at a time.                                         *)

(* A handler whose connection the tail has given up is one that shutdown   *)
(* waits for, and then nobody dials.                                       *)
Alone ==
  /\ tail = "dial" => conn = "none"
  /\ conn = "cut" => tail = "exit"
  /\ at # "none" /\ conn \notin {"open", "cut"} => daemon = "closing"
  /\ daemon = "down" => at = "none"

LEMMA DialAlone ==
  ASSUME Alone, Dial
  PROVE  at = "none"
  BY DEF Alone, Dial

LEMMA DaemonAlone ==
  ASSUME Alone,
         Publish \/ Cancel \/ Shutdown \/ Grace \/ Exit \/ Crash \/ Restart
  PROVE  Alone'
  <1> USE DEF Alone, daemonVars, streamVars, connVars, tailVars
  <1>1. CASE Publish
    BY <1>1 DEF Publish
  <1>2. CASE Cancel
    BY <1>2 DEF Cancel
  <1>3. CASE Shutdown
    BY <1>3 DEF Shutdown
  <1>4. CASE Grace
    BY <1>4 DEF Grace
  <1>5. CASE Exit
    BY <1>5 DEF Exit
  <1>6. CASE Crash
    BY <1>6 DEF Crash
  <1>7. CASE Restart
    BY <1>7 DEF Restart
  <1>8. QED BY <1>1, <1>2, <1>3, <1>4, <1>5, <1>6, <1>7

LEMMA HandlerAlone ==
  ASSUME Alone, Handler
  PROVE  Alone'
  <1> USE DEF Alone, Goto, daemonVars, connVars, tailVars
  <1>1. CASE Remove
    BY <1>1 DEF Remove
  <1>2. CASE Send
    BY <1>2 DEF Send
  <1>3. CASE ReadSince \/ RequestEnds \/ Subscribe \/ ReadLast \/ Track
    BY <1>3 DEF ReadSince, RequestEnds, Subscribe, ReadLast, Track
  <1>4. CASE Take \/ Leave \/ Unsubscribe \/ Untrack
    BY <1>4 DEF Take, Leave, Unsubscribe, Untrack
  <1>5. QED BY <1>1, <1>2, <1>3, <1>4 DEF Handler

LEMMA TailAlone ==
  ASSUME Alone, TailStep \/ Stall \/ Quit
  PROVE  Alone'
  <1> USE DEF Alone, daemonVars, streamVars, connVars
  <1>1. CASE Dial
    BY <1>1 DEF Dial
  <1>2. CASE DialFails
    BY <1>2 DEF DialFails, Return
  <1>3. CASE Ask
    BY <1>3 DEF Ask, Return
  <1>4. CASE Read
    BY <1>4 DEF Read
  <1>5. CASE Eof
    BY <1>5 DEF Eof, Return
  <1>6. CASE Stall
    BY <1>6 DEF Stall
  <1>7. CASE Quit
    BY <1>7 DEF Quit
  <1>8. QED BY <1>1, <1>2, <1>3, <1>4, <1>5, <1>6, <1>7 DEF TailStep

-----------------------------------------------------------------------------

LEMMA NextAlone ==
  ASSUME Alone, [Next]_vars
  PROVE  Alone'
  <1>1. CASE Publish \/ Cancel \/ Shutdown \/ Grace \/ Exit \/ Crash \/ Restart
    BY <1>1, DaemonAlone
  <1>2. CASE Handler
    BY <1>2, HandlerAlone
  <1>3. CASE TailStep \/ Stall \/ Quit
    BY <1>3, TailAlone
  <1>4. CASE UNCHANGED vars
    BY <1>4 DEF vars, daemonVars, streamVars, connVars, tailVars, Alone
  <1>5. QED BY <1>1, <1>2, <1>3, <1>4 DEF Next

LEMMA StepOwns == Alone /\ Owns /\ [Next]_vars => Alone' /\ Owns'
  <1> SUFFICES ASSUME Alone, Owns, [Next]_vars PROVE Alone' /\ Owns'
    OBVIOUS
  <1>1. CASE Publish \/ Cancel \/ Shutdown \/ Grace \/ Exit \/ Crash \/ Restart
    BY <1>1, DaemonAlone, DaemonOwns
  <1>2. CASE Handler
    BY <1>2, HandlerAlone, HandlerOwns
  <1>3. CASE TailStep \/ Stall \/ Quit
    BY <1>3, TailAlone, TailOwns, DialAlone
  <1>4. CASE UNCHANGED vars
    BY <1>4 DEF vars, busVars, daemonVars, streamVars, connVars, tailVars,
                Alone, Owns
  <1>5. QED BY <1>1, <1>2, <1>3, <1>4 DEF Next

(* Whatever ends a stream - its end, the client, a full connection that    *)
(* shutdown closes, a crash - no subscription stays registered without a   *)
(* handler, with any buffers, retries and restarts.                        *)
THEOREM HandlersCleanUp == Spec => []NoLeak
  <1>1. Init => Alone /\ Owns
    BY DEF Init, Alone, Owns
  <1>2. Alone /\ Owns /\ [Next]_vars => Alone' /\ Owns'
    BY StepOwns
  <1>3. Owns => NoLeak
    BY DEF Owns, NoLeak
  <1>4. QED BY <1>1, <1>2, <1>3, PTL DEF Spec

-----------------------------------------------------------------------------
(* What is still on its way to the tail, and that nothing is missing from  *)
(* it unnoticed.                                                           *)

Sent(q) == {q[i] : i \in DOMAIN q}
Rising(q) == \A i, j \in DOMAIN q : i < j => q[i] < q[j]

Streaming == {"last", "track", "loop", "send"}

(* What a tail that goes on reading can still get of its stream.           *)
Coming ==
  Sent(pipe) \cup (IF at = "send" THEN {event} ELSE {})
             \cup (IF at \in Streaming THEN Sent(events[Sub]) ELSE {})

(* Each variable that counts is a number, or a sequence of them.           *)
Numbers ==
  /\ next \in Nat /\ events \in [{Sub} -> Seq(Nat)]
  /\ restarts \in Nat /\ since \in Nat /\ event \in Nat /\ pipe \in Seq(Nat)
  /\ position \in Nat /\ highest \in Nat /\ first \in Nat /\ live \in BOOLEAN

(* Frames come in the order of their sequences, all the way to the tail.   *)
ChannelRises ==
  Rising(pipe) /\ Rising(events[Sub]) /\ \A n \in Sent(events[Sub]) : n <= next
StreamRises ==
  at \in Streaming =>
    /\ \A m \in Sent(pipe), n \in Sent(events[Sub]) : m < n
    /\ \A n \in Sent(pipe) : n <= next
    /\ highest <= next
WriteRises ==
  at = "send" =>
    /\ \A m \in Sent(pipe) : m < event
    /\ \A n \in Sent(events[Sub]) : event < n
    /\ event <= next
ReadRises == tail = "read" => \A n \in Coming : highest < n

InOrder == ChannelRises /\ StreamRises /\ WriteRises /\ ReadRises

(* Before a handler subscribes nothing is on its way, and it subscribes    *)
(* from the position the tail is still at.                                 *)
Early ==
  /\ tail = "dial" => conn = "none" /\ ~asked /\ pipe = <<>>
  /\ tail = "ask" => ~asked /\ pipe = <<>> /\ at \in {"none", "request", "remove"}
  /\ at \in {"request", "subscribe"} => pipe = <<>> /\ highest = 0
  /\ at = "subscribe" /\ tail = "read" /\ ~live => since = position

(* The sequences the output is to account for from now on.                 *)
Behind(n) == IF live THEN \E k \in Coming : k < n ELSE position < n

(* An event that comes leaves none behind but those the stream has lost,   *)
(* and a subscription that is registered none that has been published.     *)
Gapless ==
  tail = "read" /\ restarts = 0 =>
    /\ \A m \in Coming, n \in Nat : n < m /\ Behind(n) => n \in lost \cup Coming
    /\ Sub \in subs /\ at \in Streaming =>
         \A n \in Nat : n <= next /\ Behind(n) => n \in lost \cup Coming

(* The output begins with the first event of a live stream.                *)
Begins == restarts = 0 => first <= position /\ (live => seen = {} /\ told = {})

Flows == Numbers /\ InOrder /\ Early /\ Gapless /\ Begins /\ NoSilentLoss

LEMMA SentNumbers ==
  ASSUME Numbers
  PROVE  /\ Sent(pipe) \subseteq Nat /\ Sent(events[Sub]) \subseteq Nat
         /\ Coming \subseteq Nat
         /\ next \in Nat /\ highest \in Nat /\ position \in Nat /\ event \in Nat
  <1>1. pipe \in Seq(Nat) /\ events[Sub] \in Seq(Nat)
    BY DEF Numbers
  <1>2. \A q \in Seq(Nat) : Sent(q) \subseteq Nat
    BY DEF Sent
  <1> QED BY <1>1, <1>2 DEF Coming, Numbers

LEMMA SentAppend ==
  ASSUME NEW q \in Seq(Nat), NEW n \in Nat, Rising(q), \A m \in Sent(q) : m < n
  PROVE  /\ Append(q, n) \in Seq(Nat) /\ Rising(Append(q, n))
         /\ Sent(Append(q, n)) = Sent(q) \cup {n}
  <1>1. /\ Append(q, n) \in Seq(Nat) /\ DOMAIN Append(q, n) = 1 .. Len(q) + 1
        /\ DOMAIN q = 1 .. Len(q) /\ Len(q) \in Nat
        /\ \A i \in 1 .. Len(q) : Append(q, n)[i] = q[i]
        /\ Append(q, n)[Len(q) + 1] = n
    OBVIOUS
  <1>2. Sent(Append(q, n)) = Sent(q) \cup {n}
    BY <1>1 DEF Sent
  <1>3. ASSUME NEW i \in 1 .. Len(q) + 1, NEW j \in 1 .. Len(q) + 1, i < j
        PROVE  Append(q, n)[i] < Append(q, n)[j]
    <2>1. CASE j = Len(q) + 1
      <3>1. i \in 1 .. Len(q) /\ q[i] \in Sent(q)
        BY <1>1, <1>3, <2>1 DEF Sent
      <3> QED BY <1>1, <2>1, <3>1
    <2>2. CASE j # Len(q) + 1
      BY <1>1, <1>3, <2>2 DEF Rising
    <2> QED BY <2>1, <2>2
  <1> QED BY <1>1, <1>2, <1>3 DEF Rising

LEMMA SentTail ==
  ASSUME NEW q \in Seq(Nat), q # <<>>, Rising(q)
  PROVE  /\ Head(q) \in Nat /\ Tail(q) \in Seq(Nat) /\ Rising(Tail(q))
         /\ Sent(q) = {Head(q)} \cup Sent(Tail(q))
         /\ \A n \in Sent(Tail(q)) : Head(q) < n
  <1>1. /\ Len(q) \in Nat \ {0} /\ DOMAIN q = 1 .. Len(q) /\ Head(q) = q[1]
        /\ Tail(q) \in Seq(Nat) /\ DOMAIN Tail(q) = 1 .. Len(q) - 1
        /\ \A i \in 1 .. Len(q) - 1 : Tail(q)[i] = q[i + 1]
    OBVIOUS
  <1>2. Head(q) \in Nat
    BY <1>1
  <1>3. Rising(Tail(q)) /\ \A n \in Sent(Tail(q)) : Head(q) < n
    <2>1. \A i \in 1 .. Len(q) - 1 : i + 1 \in 1 .. Len(q) /\ q[1] < q[i + 1]
      BY <1>1 DEF Rising
    <2>2. \A i, j \in 1 .. Len(q) - 1 : i < j => q[i + 1] < q[j + 1]
      BY <1>1, <2>1 DEF Rising
    <2>3. Rising(Tail(q))
      BY <1>1, <2>2 DEF Rising
    <2>4. \A n \in Sent(Tail(q)) : \E i \in 1 .. Len(q) - 1 : n = q[i + 1]
      BY <1>1 DEF Sent
    <2> QED BY <1>1, <2>1, <2>3, <2>4
  <1>4. \A i \in 1 .. Len(q) : i = 1 \/ (i - 1 \in 1 .. Len(q) - 1 /\ q[i] = Tail(q)[i - 1])
    BY <1>1
  <1>5. Sent(q) = {Head(q)} \cup Sent(Tail(q))
    <2>1. ASSUME NEW i \in 1 .. Len(q) PROVE q[i] \in {Head(q)} \cup Sent(Tail(q))
      <3>1. CASE i = 1
        BY <1>1, <3>1
      <3>2. CASE i # 1
        <4>1. i - 1 \in DOMAIN Tail(q) /\ q[i] = Tail(q)[i - 1]
          BY <1>1, <1>4, <3>2
        <4> QED BY <4>1 DEF Sent
      <3> QED BY <3>1, <3>2
    <2>2. \A n \in {Head(q)} \cup Sent(Tail(q)) : n \in Sent(q)
      <3>1. \A i \in 1 .. Len(q) - 1 : i + 1 \in 1 .. Len(q)
        BY <1>1
      <3> QED BY <1>1, <3>1 DEF Sent
    <2>3. \A n \in Sent(q) : \E i \in 1 .. Len(q) : n = q[i]
      BY <1>1 DEF Sent
    <2> QED BY <2>1, <2>2, <2>3
  <1> QED BY <1>1, <1>2, <1>3, <1>5

LEMMA SentEmpty == Sent(<<>>) = {} /\ Rising(<<>>) /\ <<>> \in Seq(Nat)
  BY DEF Sent, Rising

LEMMA SentAfter ==
  ASSUME next \in Nat, NEW from \in Nat
  PROVE  /\ Bus!After(from) \in Seq(Nat) /\ Rising(Bus!After(from))
         /\ Sent(Bus!After(from)) = from + 1 .. next
  <1>1. CASE from < next
    <2>1. Bus!After(from) = [i \in 1 .. next - from |-> from + i] /\ next - from \in Nat
      BY <1>1 DEF Bus!After
    <2>2. Bus!After(from) \in Seq(Nat) /\ Rising(Bus!After(from))
      BY <2>1 DEF Rising
    <2>3. \A n \in from + 1 .. next : n - from \in 1 .. next - from /\ n = from + (n - from)
      OBVIOUS
    <2>4. \A i \in 1 .. next - from : from + i \in from + 1 .. next
      BY <2>1
    <2>5. Sent(Bus!After(from)) = {from + i : i \in 1 .. next - from}
      BY <2>1 DEF Sent
    <2>6. Sent(Bus!After(from)) = from + 1 .. next
      BY <2>3, <2>4, <2>5
    <2> QED BY <2>2, <2>6
  <1>2. CASE ~(from < next)
    <2>1. Bus!After(from) = <<>> /\ from + 1 .. next = {}
      BY <1>2 DEF Bus!After
    <2> QED BY <2>1, SentEmpty
  <1> QED BY <1>1, <1>2

LEMMA InitFlows == Init => Flows
  <1> SUFFICES ASSUME Init PROVE Flows
    OBVIOUS
  <1>1. Numbers
    BY StreamAssumption, SentEmpty DEF Init, Numbers
  <1>2. InOrder
    BY SentEmpty DEF Init, InOrder, ChannelRises, StreamRises, WriteRises, ReadRises, Streaming
  <1>3. Early /\ Gapless /\ Begins
    BY <1>1 DEF Init, Early, Gapless, Begins, Numbers
  <1>4. NoSilentLoss
    BY <1>1 DEF Init, NoSilentLoss, Numbers
  <1> QED BY <1>1, <1>2, <1>3, <1>4 DEF Flows

(* What the bus does to the channel of the stream.                         *)
LEMMA BusEvents ==
  ASSUME Numbers
  PROVE  /\ Bus!Publish =>
              /\ next' = next + 1 /\ subs' = subs
              /\ \/ Sub \in subs /\ Bus!HasRoom(Sub)
                    /\ events' = [s \in {Sub} |-> Append(events[Sub], next + 1)]
                 \/ ~(Sub \in subs /\ Bus!HasRoom(Sub)) /\ events' = events
         /\ Bus!CloseSub(Sub) => subs' = subs \ {Sub} /\ UNCHANGED <<next, events>>
         /\ Bus!Receive(Sub) =>
              /\ events[Sub] # <<>> /\ events' = [s \in {Sub} |-> Tail(events[Sub])]
              /\ UNCHANGED <<next, subs>>
  BY DEF Bus!Publish, Bus!CloseSub, Bus!Receive, Numbers

LEMMA SubscribeEvents ==
  ASSUME Numbers, NEW from \in Nat, Bus!Subscribe(Sub, from)
  PROVE  /\ next' = next
         /\ \E start \in Nat :
              /\ start = (IF from < Bus!Gone THEN Bus!Gone ELSE from)
              /\ events' = [s \in {Sub} |-> Bus!After(start)]
  <1>1. Bus!Gone \in Nat
    BY StreamAssumption DEF Bus!Gone, Numbers
  <1>2. events' = [events EXCEPT ![Sub] = Bus!After(IF from < Bus!Gone THEN Bus!Gone ELSE from)]
        /\ next' = next
    BY DEF Bus!Subscribe
  <1> QED BY <1>1, <1>2 DEF Numbers

(* The steps of the daemon, of the handler before it writes and of the     *)
(* tail where it does not read, which move nothing along the stream: they  *)
(* only begin or end it.                                                   *)
Still ==
  /\ UNCHANGED <<next, events, restarts, pipe, position, first, live, seen, told, lost>>
  /\ subs' \subseteq subs
  /\ at' \in Streaming => at \in Streaming /\ (at' = "send" <=> at = "send") /\ event' = event
  /\ tail' = "read" => \/ tail = "read" /\ highest' = highest
                       \/ at' \notin Streaming /\ pipe = <<>>
  /\ at' \in Streaming => highest' = highest

LEMMA StillComing ==
  ASSUME Still, event \in Nat
  PROVE  /\ at' \in Streaming => Coming' = Coming
         /\ at' \notin Streaming => Coming' = Sent(pipe)
         /\ Sent(pipe) \subseteq Coming
  BY DEF Still, Coming, Streaming

LEMMA StillFlows ==
  ASSUME Flows, Still
  PROVE  InOrder' /\ Gapless' /\ Begins' /\ NoSilentLoss'
  <1>1. Coming' \subseteq Coming /\ (at' \in Streaming => Coming' = Coming)
    BY StillComing DEF Flows, Numbers
  <1>2. at' \notin Streaming /\ pipe = <<>> => Coming' = {}
    BY StillComing, SentEmpty DEF Flows, Numbers
  <1>3. InOrder'
    <2>1. ChannelRises'
      BY DEF Still, Flows, InOrder, ChannelRises
    <2>2. StreamRises'
      BY DEF Still, Flows, InOrder, StreamRises
    <2>3. WriteRises'
      BY DEF Still, Flows, InOrder, WriteRises, Streaming
    <2>4. ReadRises'
      BY <1>1, <1>2 DEF Still, Flows, InOrder, ReadRises
    <2> QED BY <2>1, <2>2, <2>3, <2>4 DEF InOrder
  <1>4. ASSUME tail' = "read", restarts' = 0
        PROVE  /\ \A m \in Coming', n \in Nat : n < m /\ Behind(n)' => n \in lost' \cup Coming'
               /\ Sub \in subs' /\ at' \in Streaming =>
                    \A n \in Nat : n <= next' /\ Behind(n)' => n \in lost' \cup Coming'
    <2>1. CASE Coming' = {} /\ at' \notin Streaming
      BY <2>1
    <2>2. CASE tail = "read"
      <3>1. restarts = 0 /\ \A n \in Nat : Behind(n)' => Behind(n)
        BY <1>1, <1>4 DEF Still, Behind
      <3>2. ASSUME NEW m \in Coming', NEW n \in Nat, n < m, Behind(n)'
            PROVE  n \in lost' \cup Coming'
        <4>1. n \in lost \cup Coming
          BY <1>1, <2>2, <3>1, <3>2 DEF Flows, Gapless
        <4>2. CASE at' \in Streaming
          BY <1>1, <4>1, <4>2 DEF Still
        <4>3. CASE at' \notin Streaming /\ n \in Coming
          <5>1. m \in Sent(pipe) /\ Coming' = Sent(pipe) /\ m \in Nat
            BY <3>2, <4>3, StillComing DEF Flows, Numbers, Sent
          <5>2. n \in Sent(pipe)
            <6>1. ~(at = "send" /\ n = event)
              BY <3>2, <5>1 DEF Flows, InOrder, WriteRises, Numbers
            <6>2. ~(at \in Streaming /\ n \in Sent(events[Sub]))
              BY <3>2, <5>1 DEF Flows, InOrder, StreamRises
            <6> QED BY <4>3, <6>1, <6>2 DEF Coming
          <5> QED BY <5>1, <5>2
        <4> QED BY <4>1, <4>2, <4>3 DEF Still
      <3>3. ASSUME Sub \in subs', at' \in Streaming, NEW n \in Nat, n <= next', Behind(n)'
            PROVE  n \in lost' \cup Coming'
        BY <1>1, <2>2, <3>1, <3>3 DEF Still, Flows, Gapless
      <3> QED BY <3>2, <3>3
    <2> QED BY <1>2, <1>4, <2>1, <2>2 DEF Still
  <1>5. Begins' /\ NoSilentLoss'
    BY DEF Still, Flows, Begins, NoSilentLoss
  <1> QED BY <1>3, <1>4, <1>5 DEF Gapless

LEMMA PublishFlows ==
  ASSUME Flows, Numbers', Publish
  PROVE  InOrder' /\ Gapless' /\ Begins' /\ NoSilentLoss'
  <1> USE DEF daemonVars, streamVars, connVars, tailVars, output
  <1>1. /\ next' = next + 1 /\ subs' = subs /\ lost \subseteq lost'
        /\ \/ /\ Sub \in subs /\ events'[Sub] = Append(events[Sub], next + 1)
           \/ /\ events'[Sub] = events[Sub]
              /\ Sub \in subs => next + 1 \in lost'
        /\ UNCHANGED <<restarts, at, event, pipe, tail, position, live, highest, first, seen, told>>
    BY BusEvents DEF Publish, Flows, Numbers
  <1>0. /\ Sent(pipe) \subseteq Nat /\ Sent(events[Sub]) \subseteq Nat /\ Coming \subseteq Nat
        /\ next \in Nat /\ highest \in Nat /\ event \in Nat
    BY SentNumbers DEF Flows
  <1>2. /\ Rising(events'[Sub]) /\ Sent(events[Sub]) \subseteq Sent(events'[Sub])
        /\ Sent(events'[Sub]) \subseteq Sent(events[Sub]) \cup {next + 1}
        /\ Sub \in subs => next + 1 \in lost' \cup Sent(events'[Sub])
    <2>1. \A m \in Sent(events[Sub]) : m < next + 1
      BY <1>0 DEF Flows, InOrder, ChannelRises
    <2>2. events[Sub] \in Seq(Nat) /\ next + 1 \in Nat /\ Rising(events[Sub])
      BY DEF Flows, InOrder, ChannelRises, Numbers
    <2>3. CASE Sub \in subs /\ events'[Sub] = Append(events[Sub], next + 1)
      BY <2>1, <2>2, <2>3, SentAppend
    <2>4. CASE events'[Sub] = events[Sub] /\ (Sub \in subs => next + 1 \in lost')
      BY <2>2, <2>4
    <2> QED BY <1>1, <2>3, <2>4
  <1>3. /\ Coming \subseteq Coming' /\ Coming' \subseteq Coming \cup {next + 1}
        /\ Sub \in subs /\ at \in Streaming => next + 1 \in lost' \cup Coming'
        /\ at \notin Streaming => Coming' = Coming
    BY <1>1, <1>2 DEF Coming, Streaming
  <1>4. at \in Streaming => \A n \in Coming : n <= next
    BY DEF Coming, Flows, InOrder, ChannelRises, StreamRises, WriteRises
  <1>5. InOrder'
    <2>1. ChannelRises'
      <3>1. \A n \in Sent(events'[Sub]) : n <= next'
        BY <1>0, <1>1, <1>2 DEF Flows, InOrder, ChannelRises
      <3> QED BY <1>1, <1>2, <3>1 DEF Flows, InOrder, ChannelRises
    <2>2. StreamRises'
      <3>1. ASSUME at' \in Streaming, NEW m \in Sent(pipe) PROVE m < next + 1 /\ m <= next'
        <4>1. m <= next /\ m \in Nat
          BY <1>0, <1>1, <3>1 DEF Flows, InOrder, StreamRises
        <4> QED BY <1>0, <1>1, <4>1
      <3>2. ASSUME at' \in Streaming PROVE highest <= next'
        <4>1. highest <= next
          BY <1>0, <1>1, <3>2 DEF Flows, InOrder, StreamRises
        <4> QED BY <1>0, <1>1, <4>1
      <3> QED BY <1>1, <1>2, <3>1, <3>2 DEF Flows, InOrder, StreamRises
    <2>3. WriteRises'
      <3>1. ASSUME at = "send" PROVE event < next + 1 /\ event <= next'
        <4>1. event <= next
          BY <3>1 DEF Flows, InOrder, WriteRises
        <4> QED BY <1>0, <1>1, <4>1
      <3> QED BY <1>1, <1>2, <3>1 DEF Flows, InOrder, WriteRises
    <2>4. ReadRises'
      <3>1. ASSUME at \in Streaming PROVE highest < next + 1
        <4>1. highest <= next
          BY <1>0, <3>1 DEF Flows, InOrder, StreamRises
        <4> QED BY <1>0, <4>1
      <3> QED BY <1>1, <1>3, <3>1 DEF Flows, InOrder, ReadRises
    <2> QED BY <2>1, <2>2, <2>3, <2>4 DEF InOrder
  <1>6. ASSUME tail' = "read", restarts' = 0
        PROVE  /\ \A m \in Coming', n \in Nat : n < m /\ Behind(n)' => n \in lost' \cup Coming'
               /\ Sub \in subs' /\ at' \in Streaming =>
                    \A n \in Nat : n <= next' /\ Behind(n)' => n \in lost' \cup Coming'
    <2>1. ASSUME NEW n \in Nat, n <= next, Behind(n)', at \in Streaming
          PROVE  Behind(n)
      <3>1. \A k \in Coming' : k < n => k \in Coming
        BY <1>0, <1>3, <2>1
      <3> QED BY <1>1, <2>1, <3>1 DEF Behind
    <2>2. ASSUME NEW n \in Nat, Behind(n)', at \notin Streaming
          PROVE  Behind(n)
      BY <1>1, <1>3, <2>2 DEF Behind
    <2>3. CASE at \notin Streaming
      <3>1. Coming' = Coming
        BY <1>3, <2>3
      <3> QED BY <1>1, <1>6, <2>2, <2>3, <3>1 DEF Flows, Gapless
    <2>4. CASE at \in Streaming
      <3>1. ASSUME NEW m \in Coming', NEW n \in Nat, n < m, Behind(n)'
            PROVE  n \in lost' \cup Coming'
        <4>1. CASE m \in Coming
          <5>1. n <= next
            BY <1>0, <1>4, <2>4, <3>1, <4>1
          <5> QED BY <1>1, <1>3, <1>6, <2>1, <2>4, <3>1, <4>1, <5>1 DEF Flows, Gapless
        <4>2. CASE m \notin Coming
          <5>1. m = next + 1 /\ n <= next /\ Sub \in subs
            <6>1. m = next + 1
              BY <1>3, <4>2
            <6>2. Sub \in subs
              BY <1>1, <3>1, <4>2 DEF Coming
            <6> QED BY <1>0, <3>1, <6>1, <6>2
          <5>2. n \in lost \cup Coming
            BY <1>1, <1>6, <2>1, <2>4, <3>1, <5>1 DEF Flows, Gapless
          <5> QED BY <1>1, <1>3, <5>2
        <4> QED BY <4>1, <4>2
      <3>2. ASSUME Sub \in subs, NEW n \in Nat, n <= next + 1, Behind(n)'
            PROVE  n \in lost' \cup Coming'
        <4>1. CASE n = next + 1
          BY <1>3, <2>4, <3>2, <4>1
        <4>2. CASE n # next + 1
          <5>1. n <= next
            BY <1>0, <3>2, <4>2
          <5> QED BY <1>1, <1>3, <1>6, <2>1, <2>4, <3>2, <5>1 DEF Flows, Gapless
        <4> QED BY <4>1, <4>2
      <3> QED BY <1>1, <3>1, <3>2
    <2> QED BY <2>3, <2>4
  <1>7. Begins' /\ NoSilentLoss'
    BY <1>1 DEF Flows, Begins, NoSilentLoss
  <1> QED BY <1>5, <1>6, <1>7 DEF Gapless

(* A new bus: the stream of the old one has ended.                         *)
LEMMA RestartFlows ==
  ASSUME Flows, Alone, Restart
  PROVE  InOrder' /\ Gapless' /\ Begins' /\ NoSilentLoss'
  <1> USE DEF streamVars, connVars, tailVars
  <1>1. /\ at = "none" /\ restarts' # 0 /\ events' = [s \in {Sub} |-> <<>>]
        /\ UNCHANGED <<at, event, pipe, tail, highest>>
    BY DEF Restart, Alone, Flows, Numbers
  <1>2. Coming' = Sent(pipe) /\ Coming = Sent(pipe)
    BY <1>1 DEF Coming, Streaming
  <1>3. ChannelRises'
    <2>1. events'[Sub] = <<>>
      BY <1>1
    <2> QED BY <1>1, <2>1, SentEmpty DEF ChannelRises, Flows, InOrder
  <1>4. StreamRises' /\ WriteRises'
    BY <1>1 DEF StreamRises, WriteRises, Streaming
  <1>5. ReadRises'
    BY <1>1, <1>2 DEF ReadRises, Flows, InOrder
  <1> QED BY <1>1, <1>3, <1>4, <1>5 DEF InOrder, Gapless, Begins, NoSilentLoss

(* Subscribe puts all that is retained after the cursor on its way, and    *)
(* what is not retained counts as lost.                                    *)
LEMMA SubscribeFlows ==
  ASSUME Flows, Subscribe
  PROVE  InOrder' /\ Gapless' /\ Begins' /\ NoSilentLoss'
  <1> USE DEF daemonVars, connVars, tailVars, output, Goto
  <1>1. /\ at = "subscribe" /\ at' = "last" /\ lost' = lost \cup (since + 1 .. Bus!Gone)
        /\ UNCHANGED <<next, restarts, pipe, tail, position, live, highest, first, seen, told>>
    BY SubscribeEvents DEF Subscribe, Flows, Numbers
  <1>2. PICK start \in Nat : /\ start = (IF since < Bus!Gone THEN Bus!Gone ELSE since)
                             /\ events' = [s \in {Sub} |-> Bus!After(start)]
    BY SubscribeEvents DEF Subscribe, Flows, Numbers
  <1>3. next \in Nat /\ since \in Nat /\ Bus!Gone \in Nat /\ position \in Nat
    BY StreamAssumption DEF Bus!Gone, Flows, Numbers
  <1>4. Sent(events'[Sub]) = start + 1 .. next /\ Rising(events'[Sub])
    BY <1>2, <1>3, SentAfter
  <1>5. pipe = <<>> /\ Sent(pipe) = {} /\ highest = 0
    BY <1>1, SentEmpty DEF Flows, Early
  <1>6. Coming' = start + 1 .. next
    BY <1>1, <1>4, <1>5 DEF Coming, Streaming
  <1>7. InOrder'
    <2>1. ChannelRises'
      BY <1>1, <1>3, <1>4, <1>5, SentEmpty DEF ChannelRises
    <2>2. StreamRises' /\ WriteRises'
      BY <1>1, <1>3, <1>5 DEF StreamRises, WriteRises
    <2>3. ReadRises'
      BY <1>1, <1>3, <1>5, <1>6 DEF ReadRises
    <2> QED BY <2>1, <2>2, <2>3 DEF InOrder
  <1>8. ASSUME tail' = "read", NEW n \in Nat, n <= next, Behind(n)'
        PROVE  n \in lost' \cup Coming'
    <2>1. since < n
      <3>1. CASE live
        <4>1. PICK k \in Coming' : k < n
          BY <1>1, <1>8, <3>1 DEF Behind
        <4> QED BY <1>2, <1>3, <1>6, <4>1
      <3>2. CASE ~live
        BY <1>1, <1>8, <3>2 DEF Behind, Flows, Early
      <3> QED BY <3>1, <3>2
    <2> QED BY <1>1, <1>2, <1>3, <1>6, <1>8, <2>1
  <1>9. Gapless'
    <2>1. ASSUME tail' = "read", NEW m \in Coming', NEW n \in Nat, n < m, Behind(n)'
          PROVE  n \in lost' \cup Coming'
      <3>1. n <= next
        BY <1>3, <1>6, <2>1
      <3> QED BY <1>8, <2>1, <3>1
    <2> QED BY <1>1, <1>8, <2>1 DEF Gapless
  <1>10. Begins' /\ NoSilentLoss'
    BY <1>1 DEF Flows, Begins, NoSilentLoss
  <1> QED BY <1>7, <1>9, <1>10

(* A step that takes an event one stage on leaves the same ones on their   *)
(* way, in the same order.                                                 *)
LEMMA TakeFlows ==
  ASSUME Flows, Take
  PROVE  InOrder' /\ Gapless' /\ Begins' /\ NoSilentLoss'
  <1> USE DEF daemonVars, connVars, tailVars, output, Goto
  <1>1. /\ at = "loop" /\ at' = "send" /\ event' = Head(events[Sub])
        /\ events[Sub] # <<>> /\ events'[Sub] = Tail(events[Sub])
        /\ UNCHANGED <<next, subs, restarts, pipe, tail, position, live, highest, first, seen, told,
                       lost>>
    BY BusEvents DEF Take, Flows, Numbers
  <1>2. /\ Rising(events'[Sub]) /\ Sent(events[Sub]) = {event'} \cup Sent(events'[Sub])
        /\ \A n \in Sent(events'[Sub]) : event' < n
    BY <1>1, SentTail DEF Flows, Numbers, InOrder, ChannelRises
  <1>3. Coming' = Coming
    BY <1>1, <1>2 DEF Coming, Streaming
  <1>4. InOrder'
    <2>1. ChannelRises'
      BY <1>1, <1>2 DEF Flows, InOrder, ChannelRises
    <2>2. StreamRises'
      BY <1>1, <1>2 DEF Flows, InOrder, StreamRises, Streaming
    <2>3. WriteRises'
      BY <1>1, <1>2 DEF Flows, InOrder, ChannelRises, StreamRises, WriteRises, Streaming
    <2>4. ReadRises'
      BY <1>1, <1>3 DEF Flows, InOrder, ReadRises
    <2> QED BY <2>1, <2>2, <2>3, <2>4 DEF InOrder
  <1>5. Gapless'
    <2>1. \A n \in Nat : Behind(n)' <=> Behind(n)
      BY <1>1, <1>3 DEF Behind
    <2> QED BY <1>1, <1>3, <2>1 DEF Flows, Gapless, Streaming
  <1>6. Begins' /\ NoSilentLoss'
    BY <1>1 DEF Flows, Begins, NoSilentLoss
  <1> QED BY <1>4, <1>5, <1>6

LEMMA SendFlows ==
  ASSUME Flows, Send
  PROVE  InOrder' /\ Gapless' /\ Begins' /\ NoSilentLoss'
  <1> USE DEF busVars, daemonVars, tailVars, output, Goto
  <1>1. CASE conn # "open" /\ at' = "unsubscribe" /\ UNCHANGED pipe
    <2>1. Still
      BY <1>1 DEF Send, Still, Streaming
    <2> QED BY <2>1, StillFlows
  <1>2. CASE /\ pipe' = Append(pipe, event)
             /\ at' = IF ~follow /\ event >= goal THEN "unsubscribe" ELSE "loop"
    <2>1. /\ at = "send" /\ at' \in {"unsubscribe", "loop"}
          /\ UNCHANGED <<next, subs, events, restarts, tail, position, live, highest, first, seen,
                         told, lost>>
      BY <1>2 DEF Send
    <2>2. /\ Sent(pipe) \subseteq Nat /\ Sent(events[Sub]) \subseteq Nat /\ event \in Nat /\ next \in Nat
      BY SentNumbers DEF Flows
    <2>3. /\ \A m \in Sent(pipe) : m < event
          /\ \A n \in Sent(events[Sub]) : event < n
          /\ event <= next
      BY <2>1 DEF Flows, InOrder, WriteRises
    <2>4. Rising(pipe') /\ Sent(pipe') = Sent(pipe) \cup {event}
      BY <1>2, <2>2, <2>3, SentAppend DEF Flows, InOrder, ChannelRises, Numbers
    <2>5. /\ Coming = Sent(pipe) \cup {event} \cup Sent(events[Sub])
          /\ at' = "loop" => Coming' = Coming
          /\ at' = "unsubscribe" => Coming' = Sent(pipe) \cup {event}
      BY <2>1, <2>4 DEF Coming, Streaming
    <2>6. InOrder'
      <3>1. ChannelRises'
        BY <2>1, <2>4 DEF Flows, InOrder, ChannelRises
      <3>2. StreamRises'
        BY <2>1, <2>3, <2>4 DEF Flows, InOrder, StreamRises, Streaming
      <3>3. WriteRises'
        BY <2>1 DEF WriteRises
      <3>4. ReadRises'
        BY <2>1, <2>5 DEF Flows, InOrder, ReadRises
      <3> QED BY <3>1, <3>2, <3>3, <3>4 DEF InOrder
    <2>7. ASSUME tail' = "read", restarts' = 0
          PROVE  /\ \A m \in Coming', n \in Nat : n < m /\ Behind(n)' => n \in lost' \cup Coming'
                 /\ Sub \in subs' /\ at' \in Streaming =>
                      \A n \in Nat : n <= next' /\ Behind(n)' => n \in lost' \cup Coming'
      <3>1. \A n \in Nat : Behind(n)' => Behind(n)
        BY <2>1, <2>5 DEF Behind
      <3>2. CASE at' = "loop"
        BY <2>1, <2>5, <2>7, <3>1, <3>2 DEF Flows, Gapless, Streaming
      <3>3. CASE at' = "unsubscribe"
        <4>1. ASSUME NEW m \in Coming', NEW n \in Nat, n < m, Behind(n)'
              PROVE  n \in lost' \cup Coming'
          <5>1. n \in lost \cup Coming
            BY <2>1, <2>5, <2>7, <3>1, <3>3, <4>1 DEF Flows, Gapless
          <5>2. n \notin Sent(events[Sub])
            BY <2>2, <2>3, <2>5, <3>3, <4>1
          <5> QED BY <2>1, <2>5, <3>3, <5>1, <5>2
        <4> QED BY <3>3, <4>1 DEF Streaming
      <3> QED BY <2>1, <3>2, <3>3
    <2>8. Begins' /\ NoSilentLoss'
      BY <2>1 DEF Flows, Begins, NoSilentLoss
    <2> QED BY <2>6, <2>7, <2>8 DEF Gapless
  <1> QED BY <1>1, <1>2 DEF Send

(* The tail gets the least of what is on its way: what it skips was lost.  *)
LEMMA ReadFlows ==
  ASSUME Flows, Read
  PROVE  InOrder' /\ Gapless' /\ Begins' /\ NoSilentLoss' /\ tail' = "read"
  <1> USE DEF busVars, daemonVars, streamVars, output
  <1> DEFINE h == Head(pipe)
  <1>1. /\ tail = "read" /\ pipe # <<>> /\ pipe' = Tail(pipe)
        /\ UNCHANGED <<next, subs, events, restarts, at, event, lost>>
    BY DEF Read
  <1>2. /\ h \in Nat /\ Rising(pipe') /\ Sent(pipe) = {h} \cup Sent(pipe')
        /\ \A n \in Sent(pipe') : h < n
    BY <1>1, SentTail DEF Flows, InOrder, ChannelRises, Numbers
  <1>3. Coming = {h} \cup Coming' /\ \A n \in Coming' : h < n
    <2>1. Coming = {h} \cup Coming'
      BY <1>1, <1>2 DEF Coming
    <2>2. at = "send" => h < event
      BY <1>2 DEF Flows, InOrder, WriteRises
    <2>3. at \in Streaming => \A n \in Sent(events[Sub]) : h < n
      BY <1>2 DEF Flows, InOrder, StreamRises
    <2> QED BY <1>1, <1>2, <2>1, <2>2, <2>3 DEF Coming
  <1>4. highest < h
    BY <1>1, <1>3 DEF Flows, InOrder, ReadRises
  <1>5. highest' = h /\ Render(h) /\ tail' = tail
    <2>1. highest \in Nat
      BY DEF Flows, Numbers
    <2> QED BY <1>2, <1>4, <2>1 DEF Read
  <1>6. /\ next \in Nat /\ position \in Nat /\ first \in Nat /\ live \in BOOLEAN /\ Coming \subseteq Nat
    BY SentNumbers DEF Flows, Numbers
  <1> HIDE DEF h
  <1>7. InOrder'
    <2>1. ChannelRises'
      BY <1>1, <1>2 DEF Flows, InOrder, ChannelRises
    <2>2. StreamRises'
      BY <1>1, <1>2, <1>5 DEF Flows, InOrder, StreamRises
    <2>3. WriteRises'
      BY <1>1, <1>2 DEF Flows, InOrder, WriteRises
    <2>4. ReadRises'
      BY <1>3, <1>5 DEF ReadRises
    <2> QED BY <2>1, <2>2, <2>3, <2>4 DEF InOrder
  <1>8. CASE ~live /\ h <= position /\ UNCHANGED <<position, live, first, seen, told>>
    <2>1. \A n \in Nat : Behind(n)' => Behind(n) /\ n # h
      BY <1>2, <1>6, <1>8 DEF Behind
    <2>2. Gapless'
      BY <1>1, <1>3, <1>5, <2>1 DEF Flows, Gapless
    <2> QED BY <1>1, <1>5, <1>7, <1>8, <2>2 DEF Flows, Begins, NoSilentLoss
  <1>9. CASE /\ live \/ h > position
             /\ told' = IF live THEN told ELSE told \cup (position + 1 .. h - 1)
             /\ seen' = seen \cup {h}
             /\ first' = IF live THEN h - 1 ELSE first
             /\ position' = h /\ live' = FALSE
    <2>1. \A n \in Nat : Behind(n)' => Behind(n) /\ n # h
      BY <1>2, <1>3, <1>6, <1>9 DEF Behind
    <2>2. Gapless'
      BY <1>1, <1>3, <1>5, <2>1 DEF Flows, Gapless
    <2>3. ASSUME restarts = 0, ~live, NEW n \in position + 1 .. h - 1
          PROVE  n \in lost
      <3>1. n \in Nat /\ n < h /\ Behind(n) /\ h \in Coming
        BY <1>2, <1>3, <1>6, <2>3 DEF Behind
      <3>2. n \in lost \cup Coming
        BY <1>1, <2>3, <3>1 DEF Flows, Gapless
      <3>3. n \notin Coming
        BY <1>2, <1>3, <1>6, <3>1
      <3> QED BY <3>2, <3>3
    <2>4. ASSUME restarts = 0
          PROVE  Begins' /\ NoSilentLoss'
      <3>1. CASE live
        <4>1. h # 0
          BY <1>2, <1>4 DEF Flows, Numbers
        <4>2. h - 1 + 1 .. h = {h} /\ h - 1 <= h
          BY <1>2, <4>1
        <4>3. seen' = {h} /\ told' = {} /\ first' = h - 1 /\ position' = h
          BY <1>9, <2>4, <3>1 DEF Flows, Begins
        <4> QED BY <1>9, <4>2, <4>3 DEF Begins, NoSilentLoss
      <3>2. CASE ~live
        <4>1. first <= position /\ position < h
          BY <1>2, <1>6, <1>9, <2>4, <3>2 DEF Flows, Begins
        <4>2. seen \cup told = first + 1 .. position /\ seen \cap told = {} /\ told \subseteq lost
          BY <2>4 DEF Flows, NoSilentLoss
        <4>3. told' = told \cup (position + 1 .. h - 1) /\ seen' = seen \cup {h} /\ first' = first
          BY <1>9, <3>2
        <4>4. first + 1 .. h = (first + 1 .. position) \cup (position + 1 .. h - 1) \cup {h}
          BY <1>2, <1>6, <4>1
        <4>5. seen' \cup told' = first' + 1 .. position'
          BY <1>9, <4>2, <4>3, <4>4
        <4>6. seen' \cap told' = {}
          BY <1>2, <1>6, <4>1, <4>2, <4>3
        <4>7. told' \subseteq lost'
          BY <1>1, <2>3, <2>4, <3>2, <4>2, <4>3
        <4>8. first' <= position'
          BY <1>2, <1>6, <1>9, <4>1, <4>3
        <4> QED BY <1>9, <4>5, <4>6, <4>7, <4>8 DEF Begins, NoSilentLoss
      <3> QED BY <1>6, <3>1, <3>2
    <2>5. Begins' /\ NoSilentLoss'
      BY <1>1, <2>4 DEF Begins, NoSilentLoss
    <2> QED BY <1>1, <1>5, <1>7, <2>2, <2>5
  <1> QED BY <1>5, <1>8, <1>9 DEF Render

LEMMA QuitFlows ==
  ASSUME Flows, Quit
  PROVE  InOrder' /\ Gapless' /\ Begins' /\ NoSilentLoss'
  <1> USE DEF busVars, daemonVars, streamVars, output
  <1>1. /\ tail' = "exit" /\ pipe' = <<>>
        /\ UNCHANGED <<next, events, restarts, at, event, position, first, live, highest, seen, told,
                       lost>>
    BY DEF Quit
  <1>2. ChannelRises'
    BY <1>1, SentEmpty DEF Flows, InOrder, ChannelRises
  <1>3. StreamRises' /\ WriteRises'
    BY <1>1, SentEmpty DEF Flows, InOrder, StreamRises, WriteRises
  <1>4. ReadRises' /\ Gapless'
    BY <1>1 DEF ReadRises, Gapless
  <1>5. Begins' /\ NoSilentLoss'
    BY <1>1 DEF Flows, Begins, NoSilentLoss
  <1> QED BY <1>2, <1>3, <1>4, <1>5 DEF InOrder

(* The steps that move nothing along the stream.                           *)
LEMMA StillSteps ==
  ASSUME Flows, Alone,
         \/ Cancel \/ Shutdown \/ Grace \/ Exit \/ Crash
         \/ ReadSince \/ RequestEnds \/ ReadLast \/ Track \/ Leave
         \/ Unsubscribe \/ Untrack \/ Remove
         \/ Dial \/ DialFails \/ Ask \/ Eof \/ Stall \/ UNCHANGED vars
  PROVE  Still
  <1> USE DEF Still, Streaming, Goto, busVars, daemonVars, streamVars, connVars, tailVars, output
  <1>1. CASE Cancel \/ Grace \/ Exit \/ Crash
    BY <1>1 DEF Cancel, Grace, Exit, Crash, Forget
  <1>2. CASE Shutdown
    BY <1>2, BusEvents DEF Shutdown, Flows
  <1>3. CASE ReadSince \/ RequestEnds \/ ReadLast \/ Track \/ Leave
    BY <1>3 DEF ReadSince, RequestEnds, ReadLast, Track, Leave
  <1>4. CASE Unsubscribe
    BY <1>4, BusEvents DEF Unsubscribe, Flows
  <1>5. CASE Untrack \/ Remove
    BY <1>5 DEF Untrack, Remove, Forget
  <1>6. CASE Dial
    BY <1>6, DialAlone DEF Dial
  <1>7. CASE DialFails \/ Eof
    <2>1. pipe = <<>>
      BY <1>7 DEF DialFails, Eof, Flows, Early
    <2> QED BY <1>7, <2>1 DEF DialFails, Eof, Return
  <1>8. CASE Ask
    <2>1. pipe = <<>> /\ at \in {"none", "request", "remove"}
      BY <1>8 DEF Ask, Flows, Early
    <2> QED BY <1>8, <2>1 DEF Ask, Return
  <1>9. CASE Stall \/ UNCHANGED vars
    BY <1>9 DEF Stall, vars
  <1> QED BY <1>1, <1>2, <1>3, <1>4, <1>5, <1>6, <1>7, <1>8, <1>9

LEMMA NextNumbers ==
  ASSUME Flows, Alone, [Next]_vars
  PROVE  Numbers'
  <1> USE DEF Streaming, Goto, busVars, daemonVars, streamVars, connVars, tailVars, output
  <1>1. /\ Numbers /\ Rising(events[Sub]) /\ Rising(pipe)
        /\ events[Sub] \in Seq(Nat) /\ pipe \in Seq(Nat) /\ next \in Nat /\ event \in Nat
    BY DEF Flows, InOrder, ChannelRises, Numbers
  <1>2. CASE Publish
    <2>1. Append(events[Sub], next + 1) \in Seq(Nat) /\ next + 1 \in Nat
      BY <1>1
    <2>2. events' \in [{Sub} -> Seq(Nat)] /\ next' \in Nat
      BY <1>1, <1>2, <2>1, BusEvents DEF Publish, Numbers
    <2> QED BY <1>1, <1>2, <2>2 DEF Publish, Numbers
  <1>3. CASE Cancel \/ Grace \/ Exit \/ Crash
    BY <1>1, <1>3 DEF Cancel, Grace, Exit, Crash, Forget, Numbers
  <1>4. CASE Shutdown
    BY <1>1, <1>4, BusEvents DEF Shutdown, Numbers
  <1>5. CASE Restart
    <2>1. events' \in [{Sub} -> Seq(Nat)] /\ next' \in Nat /\ restarts' \in Nat
      BY <1>1, <1>5, SentEmpty DEF Restart, Numbers
    <2> QED BY <1>1, <1>5, <2>1 DEF Restart, Numbers
  <1>6. CASE ReadSince \/ RequestEnds \/ ReadLast \/ Track \/ Leave \/ Untrack \/ Remove
    <2>1. CASE ReadSince
      BY <1>1, <2>1 DEF ReadSince, Numbers
    <2>2. CASE RequestEnds \/ ReadLast \/ Track
      BY <1>1, <2>2 DEF RequestEnds, ReadLast, Track, Numbers
    <2>3. CASE Leave \/ Untrack
      BY <1>1, <2>3 DEF Leave, Untrack, Numbers
    <2>4. CASE Remove
      BY <1>1, <2>4 DEF Remove, Forget, Numbers
    <2> QED BY <1>6, <2>1, <2>2, <2>3, <2>4
  <1>7. CASE Unsubscribe
    BY <1>1, <1>7, BusEvents DEF Unsubscribe, Numbers
  <1>8. CASE Subscribe
    <2>1. PICK start \in Nat : events' = [s \in {Sub} |-> Bus!After(start)] /\ next' = next
      BY <1>1, <1>8, SubscribeEvents DEF Subscribe, Numbers
    <2>2. events' \in [{Sub} -> Seq(Nat)]
      BY <1>1, <2>1, SentAfter
    <2> QED BY <1>1, <1>8, <2>1, <2>2 DEF Subscribe, Numbers
  <1>9. CASE Take
    <2>1. /\ events[Sub] # <<>> /\ next' = next
          /\ events' = [s \in {Sub} |-> Tail(events[Sub])]
      BY <1>1, <1>9, BusEvents DEF Take
    <2>2. Head(events[Sub]) \in Nat /\ Tail(events[Sub]) \in Seq(Nat)
      BY <1>1, <2>1, SentTail
    <2>3. events' \in [{Sub} -> Seq(Nat)]
      BY <2>1, <2>2
    <2> QED BY <1>1, <1>9, <2>1, <2>2, <2>3 DEF Take, Numbers
  <1>10. CASE Send
    <2>1. pipe' \in Seq(Nat)
      BY <1>1, <1>10 DEF Send
    <2> QED BY <1>1, <1>10, <2>1 DEF Send, Numbers
  <1>11. CASE Dial \/ DialFails \/ Ask \/ Eof \/ Stall \/ Quit
    <2>1. CASE Dial
      BY <1>1, <2>1 DEF Dial, Numbers
    <2>2. CASE DialFails \/ Eof
      BY <1>1, <2>2, SentEmpty DEF DialFails, Eof, Return, Numbers
    <2>3. CASE Ask
      BY <1>1, <2>3, SentEmpty DEF Ask, Return, Numbers
    <2>4. CASE Stall \/ Quit
      BY <1>1, <2>4, SentEmpty DEF Stall, Quit, Numbers
    <2> QED BY <1>11, <2>1, <2>2, <2>3, <2>4
  <1>12. CASE Read
    <2>1. Head(pipe) \in Nat /\ pipe' \in Seq(Nat)
      BY <1>1, <1>12, SentTail DEF Read
    <2>2. highest' \in Nat
      BY <1>1, <1>12, <2>1 DEF Read, Numbers
    <2>3. position' \in Nat /\ first' \in Nat /\ live' \in BOOLEAN
      <3>1. CASE UNCHANGED <<position, first, live>>
        BY <1>1, <3>1 DEF Numbers
      <3>2. CASE /\ Head(pipe) > highest
                 /\ first' = IF live THEN Head(pipe) - 1 ELSE first
                 /\ position' = Head(pipe) /\ live' = FALSE
        <4>1. Head(pipe) - 1 \in Nat
          BY <1>1, <2>1, <3>2 DEF Numbers
        <4> QED BY <1>1, <2>1, <3>2, <4>1 DEF Numbers
      <3> QED BY <1>12, <3>1, <3>2 DEF Read, Render
    <2> QED BY <1>1, <1>12, <2>1, <2>2, <2>3 DEF Read, Numbers
  <1>13. CASE UNCHANGED vars
    BY <1>1, <1>13 DEF vars, Numbers
  <1> QED BY <1>2, <1>3, <1>4, <1>5, <1>6, <1>7, <1>8, <1>9, <1>10, <1>11, <1>12, <1>13
          DEF Next, Handler, TailStep

LEMMA NextEarly ==
  ASSUME Flows, Alone, [Next]_vars
  PROVE  Early'
  <1> USE DEF Goto, busVars, daemonVars, streamVars, connVars, tailVars, output
  <1>1. Early
    BY DEF Flows
  <1>2. CASE Publish \/ Cancel \/ Grace \/ Exit \/ Crash \/ Shutdown \/ Restart
    BY <1>1, <1>2 DEF Publish, Cancel, Grace, Exit, Crash, Shutdown, Restart, Forget, Early
  <1>3. CASE ReadSince \/ RequestEnds
    BY <1>1, <1>3 DEF ReadSince, RequestEnds, Early
  <1>4. CASE Subscribe \/ ReadLast \/ Track \/ Leave \/ Unsubscribe \/ Untrack \/ Take
    BY <1>1, <1>4 DEF Subscribe, ReadLast, Track, Leave, Unsubscribe, Untrack, Take, Early
  <1>5. CASE Send
    BY <1>1, <1>5 DEF Send, Early
  <1>6. CASE Remove
    BY <1>1, <1>6 DEF Remove, Forget, Early
  <1>7. CASE Dial
    BY <1>1, <1>7 DEF Dial, Early
  <1>8. CASE DialFails \/ Eof
    BY <1>1, <1>8 DEF DialFails, Eof, Return, Early
  <1>9. CASE Ask
    BY <1>1, <1>9 DEF Ask, Return, Early
  <1>10. CASE Read
    <2>1. tail' = "read" /\ pipe # <<>> /\ at' = at
      BY <1>10, ReadFlows DEF Read
    <2> QED BY <1>1, <2>1 DEF Early
  <1>11. CASE Stall \/ Quit
    BY <1>1, <1>11 DEF Stall, Quit, Early
  <1>12. CASE UNCHANGED vars
    BY <1>1, <1>12 DEF vars, Early
  <1> QED BY <1>2, <1>3, <1>4, <1>5, <1>6, <1>7, <1>8, <1>9, <1>10, <1>11, <1>12
          DEF Next, Handler, TailStep

LEMMA NextFlows ==
  ASSUME Flows, Alone, [Next]_vars
  PROVE  Flows'
  <1>1. Numbers' /\ Early'
    BY NextNumbers, NextEarly
  <1>2. CASE Publish \/ Restart \/ Subscribe \/ Take \/ Send \/ Read \/ Quit
    BY <1>1, <1>2, PublishFlows, RestartFlows, SubscribeFlows, TakeFlows, SendFlows, ReadFlows,
       QuitFlows DEF Flows
  <1>3. CASE Still
    BY <1>1, <1>3, StillFlows DEF Flows
  <1> QED BY <1>2, <1>3, StillSteps DEF Next, Handler, TailStep

LEMMA FlowsHold == Spec => [](Alone /\ Flows)
  <1>1. Init => Alone /\ Flows
    BY InitFlows DEF Init, Alone
  <1>2. Alone /\ Flows /\ [Next]_vars => Alone' /\ Flows'
    <2> SUFFICES ASSUME Alone, Flows, [Next]_vars PROVE Alone' /\ Flows'
      OBVIOUS
    <2>1. Alone'
      BY NextAlone
    <2> QED BY <2>1, NextFlows
  <1> QED BY <1>1, <1>2, PTL DEF Spec

(* In one run of the daemon, what a tail has passed it has rendered or     *)
(* reported as missed, never both, and what it reports the stream really   *)
(* could not have: with any buffers and cursors, and through any number of *)
(* reconnections.                                                          *)
THEOREM NothingLostSilently == Spec => []NoSilentLoss
  <1>1. Alone /\ Flows => NoSilentLoss
    BY DEF Flows
  <1> QED BY <1>1, FlowsHold, PTL

FramesRise == tail # "broken"

(* The sequences of a connection rise: Client.Stream never refuses a frame *)
(* of the daemon as out of order, across restarts either.                  *)
THEOREM FramesInOrder == Spec => []FramesRise
  <1>1. Init => FramesRise
    BY DEF Init, FramesRise
  <1>2. (Alone /\ Flows) /\ FramesRise /\ [Next]_vars => FramesRise'
    <2> SUFFICES ASSUME Flows, FramesRise, [Next]_vars PROVE FramesRise'
      OBVIOUS
    <2> USE DEF FramesRise, tailVars
    <2>1. CASE Read
      BY <2>1, ReadFlows
    <2>2. CASE Publish \/ Cancel \/ Shutdown \/ Grace \/ Exit \/ Crash \/ Restart
      BY <2>2 DEF Publish, Cancel, Shutdown, Grace, Exit, Crash, Restart
    <2>3. CASE Handler
      BY <2>3 DEF Handler, ReadSince, RequestEnds, Subscribe, ReadLast, Track, Take, Leave, Send,
                  Unsubscribe, Untrack, Remove
    <2>4. CASE Dial \/ DialFails \/ Ask \/ Eof \/ Stall \/ Quit
      BY <2>4 DEF Dial, DialFails, Ask, Eof, Return, Stall, Quit
    <2>5. CASE UNCHANGED vars
      BY <2>5 DEF vars
    <2> QED BY <2>1, <2>2, <2>3, <2>4, <2>5 DEF Next, TailStep
  <1> QED BY <1>1, <1>2, FlowsHold, PTL DEF Spec
=============================================================================
