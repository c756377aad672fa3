------------------------ MODULE EventStreams_proofs ------------------------
(***************************************************************************)
(* What holds of the two event streams of the server process, for any       *)
(* number of streams and messages: PokerStream, with any bound of its       *)
(* deque, and SprintStream, with its slot.  Both implement EventFeed.       *)
(***************************************************************************)
EXTENDS PokerStream, SprintStream, SequenceTheorems, TLAPS

-----------------------------------------------------------------------------
(* The deque *)

\* The messages that the deque has dropped.
Dropped == published - Len(sse_message_queue)

\* q holds the newest of the messages up to n, and has dropped none before it
\* was full.
Newest(q, n) ==
    /\ q \in Seq(Nat)
    /\ Len(q) <= MaxLen /\ Len(q) <= n
    /\ Len(q) < MaxLen => Len(q) = n
    /\ \A k \in 1..Len(q) : q[k] = n - Len(q) + k

DequeInv == published \in 0..MaxMessages /\ Newest(sse_message_queue, published)

LEMMA AppendAt ==
    ASSUME NEW q \in Seq(Nat), NEW x \in Nat, NEW a, a = Append(q, x)
    PROVE  /\ a \in Seq(Nat) /\ Len(a) = Len(q) + 1
           /\ \A i \in 1..Len(q) : a[i] = q[i]
           /\ a[Len(q) + 1] = x
  BY AppendProperties

\* A deque with room grows.
LEMMA Grown ==
    ASSUME NEW q \in Seq(Nat), NEW n \in Nat, NEW a \in Seq(Nat), Len(q) = n,
           a = Append(q, n + 1), \A k \in 1..Len(q) : q[k] = n - Len(q) + k
    PROVE  Len(a) = n + 1 /\ \A k \in 1..Len(a) : a[k] = n + 1 - Len(a) + k
  <1>1. /\ Len(a) = n + 1 /\ a[n + 1] = n + 1
        /\ \A k \in 1..Len(q) : a[k] = q[k]
    BY AppendAt
  <1>2. \A k \in 1..Len(a) : a[k] = k
    BY <1>1
  <1> QED
    BY <1>1, <1>2

\* A full deque loses its oldest message.
LEMMA Shifted ==
    ASSUME NEW q \in Seq(Nat), NEW n \in Nat, NEW a \in Seq(Nat), Len(q) > 0,
           a = Append(Tail(q), n + 1), \A k \in 1..Len(q) : q[k] = n - Len(q) + k
    PROVE  Len(a) = Len(q) /\ \A k \in 1..Len(a) : a[k] = n + 1 - Len(a) + k
  <1> DEFINE t == Tail(q)
  <1>1. /\ t \in Seq(Nat) /\ Len(t) = Len(q) - 1
        /\ \A k \in 1..Len(t) : t[k] = q[k + 1]
    BY HeadTailProperties
  <1> HIDE DEF t
  <1>2. a = Append(t, n + 1)
    BY DEF t
  <1>3. /\ Len(a) = Len(t) + 1 /\ a[Len(t) + 1] = n + 1
        /\ \A k \in 1..Len(t) : a[k] = t[k]
    BY <1>1, <1>2, AppendAt
  <1>4. Len(q) \in Nat /\ Len(a) = Len(q) /\ a[Len(q)] = n + 1
    BY <1>1, <1>3
  <1>5. ASSUME NEW k \in 1..Len(a), k # Len(q)
        PROVE  a[k] = n + 1 - Len(a) + k
    <2>1. k \in 1..Len(t) /\ k + 1 \in 1..Len(q)
      BY <1>1, <1>4, <1>5
    <2>2. a[k] = n - Len(q) + (k + 1)
      BY <1>1, <1>3, <2>1
    <2> QED BY <1>4, <2>1, <2>2
  <1>6. a[Len(q)] = n + 1 - Len(a) + Len(q)
    BY <1>4
  <1>7. ASSUME NEW k \in 1..Len(a) PROVE a[k] = n + 1 - Len(a) + k
    BY <1>5, <1>6
  <1> QED
    BY <1>4, <1>7

\* What an append does to a deque that holds the newest messages up to n.
LEMMA AppendedNewest ==
    ASSUME NEW q, NEW n \in Nat, NEW m, m = n + 1, NEW a, a = Appended(q, m), Newest(q, n)
    PROVE  /\ Newest(a, m)
           /\ Len(q) \in Nat /\ Len(a) \in Nat
           /\ Len(q) <= Len(a) /\ n - Len(q) <= m - Len(a)
  <1>1. Len(q) \in Nat /\ MaxLen \in Nat /\ MaxLen > 0 /\ q \in Seq(Nat)
    BY MaxLenAssumption DEF Newest
  <1>2. \A k \in 1..Len(q) : q[k] = n - Len(q) + k
    BY DEF Newest
  <1>3. CASE Len(q) < MaxLen
    <2>1. a = Append(q, n + 1) /\ Len(q) = n
      BY <1>3 DEF Appended, Newest
    <2>2. a \in Seq(Nat)
      BY <1>1, <2>1, AppendAt
    <2>3. Len(a) = n + 1 /\ \A k \in 1..Len(a) : a[k] = n + 1 - Len(a) + k
      BY <1>1, <1>2, <2>1, <2>2, Grown
    <2> QED BY <1>1, <1>3, <2>1, <2>2, <2>3 DEF Newest
  <1>4. CASE Len(q) = MaxLen
    <2>1. a = Append(Tail(q), n + 1) /\ Len(q) > 0
      BY <1>1, <1>4 DEF Appended
    <2>2. q # << >>
      BY <2>1
    <2>3. Tail(q) \in Seq(Nat)
      BY <1>1, <2>2, HeadTailProperties
    <2>4. a \in Seq(Nat)
      <3> DEFINE t == Tail(q)
      <3>1. t \in Seq(Nat) /\ a = Append(t, n + 1) /\ n + 1 \in Nat
        BY <2>1, <2>3
      <3> HIDE DEF t
      <3> QED BY <3>1, AppendAt
    <2>5. Len(a) = Len(q) /\ \A k \in 1..Len(a) : a[k] = n + 1 - Len(a) + k
      BY <1>1, <1>2, <2>1, <2>4, Shifted
    <2>6. Len(q) <= n
      BY DEF Newest
    <2> QED BY <1>1, <1>4, <2>4, <2>5, <2>6 DEF Newest
  <1> QED
    BY <1>1, <1>3, <1>4 DEF Newest

-----------------------------------------------------------------------------
(* The generators *)

\* How many messages the generator of s has yielded.
Yielded(s) ==
    IF pc[s] \in {"sent", "closed"} THEN last_sent_index[s] + 1 ELSE last_sent_index[s]

\* The inductive strengthening of FeedSpec and GaplessUntilFull.  A generator
\* that has yielded n messages has come past the first n places of the deque,
\* so it has got nothing newer than what stands at the n-th place now: when
\* the deque drops a message, that place moves on to a newer one.
StreamsInv ==
    /\ last_sent_index \in [Streams -> 0..MaxLen]
    /\ pc \in [Streams -> Places]
    /\ received \in [Streams -> Seq(Nat)]
    /\ \A s \in Streams :
         /\ pc[s] = "fetch" => last_sent_index[s] < Len(sse_message_queue)
         /\ Len(received[s]) = Yielded(s)
         /\ Yielded(s) <= Len(sse_message_queue)
         /\ \A i \in DOMAIN received[s] :
              received[s][i] \in 1..published /\ received[s][i] <= Dropped + Yielded(s)

\* Nothing was skipped before the deque dropped a message.
Gapless ==
    Dropped = 0 => \A s \in Streams : \A i \in DOMAIN received[s] : received[s][i] = i

SInv == DequeInv /\ StreamsInv /\ Gapless

LEMMA InitSInv == Init => SInv
  BY MaxLenAssumption, MaxMessagesAssumption
  DEF Init, SInv, DequeInv, Newest, StreamsInv, Gapless, Dropped, Yielded, Places

LEMMA InitFeed == Init => Feed!Init
  BY DEF Init, Feed!Init

\* A new message moves the deque under the generators.
LEMMA MessageStep ==
    ASSUME SInv, send_sse_message
    PROVE  SInv' /\ Feed!Publish
  <1>1. published \in Nat /\ published' = published + 1
    BY MaxMessagesAssumption DEF send_sse_message, SInv, DequeInv, Newest
  <1>2. DequeInv' /\ Dropped' >= Dropped /\ Len(sse_message_queue') >= Len(sse_message_queue)
    <2>1. published + 1 \in 0..MaxMessages
      BY <1>1, MaxMessagesAssumption DEF send_sse_message
    <2>2. sse_message_queue' = Appended(sse_message_queue, published')
      BY <1>1 DEF send_sse_message
    <2>3. /\ Newest(sse_message_queue', published')
          /\ Len(sse_message_queue) \in Nat /\ Len(sse_message_queue') \in Nat
          /\ Len(sse_message_queue) <= Len(sse_message_queue')
          /\ published - Len(sse_message_queue) <= published' - Len(sse_message_queue')
      BY <1>1, <2>2, AppendedNewest DEF SInv, DequeInv
    <2> QED BY <1>1, <2>1, <2>3 DEF DequeInv, Dropped
  <1>3. UNCHANGED <<last_sent_index, pc, received>>
    BY DEF send_sse_message
  <1>4. \A s \in Streams : Yielded(s)' = Yielded(s) /\ Yielded(s) \in Nat
    BY <1>3, MaxLenAssumption DEF Yielded, SInv, StreamsInv
  <1>5. /\ Dropped \in Nat /\ Dropped' \in Nat
        /\ Len(sse_message_queue) \in Nat /\ Len(sse_message_queue') \in Nat
    BY <1>1, <1>2 DEF Dropped, SInv, DequeInv, Newest
  <1>6. StreamsInv'
    <2> HIDE DEF Dropped, Yielded
    <2>1. \A s \in Streams : \A i \in DOMAIN received[s] :
            /\ received[s][i] \in 1..published'
            /\ received[s][i] <= Dropped' + Yielded(s)
      BY <1>1, <1>2, <1>4, <1>5 DEF SInv, StreamsInv
    <2>2. \A s \in Streams :
            /\ pc[s] = "fetch" => last_sent_index[s] < Len(sse_message_queue')
            /\ Yielded(s) <= Len(sse_message_queue')
      BY <1>2, <1>4, <1>5, MaxLenAssumption DEF SInv, StreamsInv
    <2> QED BY <1>3, <1>4, <2>1, <2>2 DEF SInv, StreamsInv
  <1>7. Gapless'
    BY <1>2, <1>3, <1>5 DEF SInv, Gapless
  <1> QED
    BY <1>1, <1>2, <1>3, <1>6, <1>7 DEF SInv, Feed!Publish

\* The generator of s moves within its loop without yielding.
LEMMA LoopStep ==
    ASSUME SInv, NEW s \in Streams,
           sse_notifications(s) \/ Look(s) \/ Advance(s) \/ Disconnect(s)
    PROVE  SInv' /\ UNCHANGED <<published, received>>
  <1>1. UNCHANGED <<published, sse_message_queue, received>>
    BY DEF sse_notifications, Look, Advance, Disconnect
  <1>2. DequeInv' /\ Gapless' /\ Dropped' = Dropped
    BY <1>1 DEF SInv, DequeInv, Newest, Gapless, Dropped
  <1>3. last_sent_index[s] \in Nat /\ Len(sse_message_queue) \in Nat /\ MaxLen \in Nat
    BY MaxLenAssumption DEF SInv, StreamsInv, DequeInv, Newest
  <1>4. last_sent_index' \in [Streams -> 0..MaxLen] /\ pc' \in [Streams -> Places]
    <2>1. pc' \in [Streams -> Places]
      BY DEF sse_notifications, Look, Advance, Disconnect, Goto, Places, SInv, StreamsInv
    <2>2. CASE Advance(s)
      <3>1. last_sent_index[s] + 1 <= Len(sse_message_queue)
        BY <2>2 DEF Advance, Goto, SInv, StreamsInv, Yielded
      <3>2. last_sent_index[s] + 1 \in 0..MaxLen
        BY <1>3, <3>1 DEF SInv, DequeInv, Newest
      <3> QED BY <2>1, <2>2, <3>2 DEF Advance, SInv, StreamsInv
    <2>3. CASE ~Advance(s)
      BY <2>1, <2>3 DEF sse_notifications, Look, Disconnect, SInv, StreamsInv
    <2> QED BY <2>2, <2>3
  <1>5. \A t \in Streams : Yielded(t)' = Yielded(t)
    BY <1>3 DEF sse_notifications, Look, Advance, Disconnect, Goto, SInv, StreamsInv, Yielded
  <1>6. \A t \in Streams : pc'[t] = "fetch" => last_sent_index'[t] < Len(sse_message_queue)
    BY <1>3 DEF sse_notifications, Look, Advance, Disconnect, Goto, SInv, StreamsInv
  <1> QED
    BY <1>1, <1>2, <1>4, <1>5, <1>6 DEF SInv, StreamsInv

LEMMA SendStep ==
    ASSUME SInv, NEW s \in Streams, Send(s)
    PROVE  SInv' /\ Feed!Receive(s)
  <1> DEFINE n == last_sent_index[s]
             m == sse_message_queue[n + 1]
  <1>1. /\ UNCHANGED <<published, sse_message_queue, last_sent_index>>
        /\ pc[s] = "fetch" /\ pc' = [pc EXCEPT ![s] = "sent"]
        /\ received' = [received EXCEPT ![s] = Append(received[s], m)]
    BY DEF Send, Goto
  <1>2. /\ n \in Nat /\ n < Len(sse_message_queue) /\ Yielded(s) = n
        /\ Len(received[s]) = n /\ received[s] \in Seq(Nat)
        /\ Len(sse_message_queue) \in Nat /\ published \in Nat /\ Dropped \in Nat
    <2>1. n \in Nat /\ n < Len(sse_message_queue) /\ Yielded(s) = n
      BY <1>1, MaxLenAssumption DEF SInv, StreamsInv, Yielded
    <2>2. Len(received[s]) = n /\ received[s] \in Seq(Nat)
      BY <2>1 DEF SInv, StreamsInv
    <2>3. Len(sse_message_queue) \in Nat /\ published \in Nat /\ Dropped \in Nat
      BY MaxMessagesAssumption DEF SInv, DequeInv, Newest, Dropped
    <2> QED BY <2>1, <2>2, <2>3
  <1>3. m = Dropped + n + 1 /\ m \in 1..published
    <2>1. n + 1 \in 1..Len(sse_message_queue)
      BY <1>2
    <2>2. m = Dropped + (n + 1)
      BY <2>1 DEF SInv, DequeInv, Newest, Dropped
    <2> QED BY <1>2, <2>2 DEF Dropped
  <1>4. \A i \in DOMAIN received[s] : received[s][i] \in 1..published /\ received[s][i] < m
    BY <1>2, <1>3 DEF SInv, StreamsInv
  <1> HIDE DEF m
  <1>5. /\ received' \in [Streams -> Seq(Nat)]
        /\ Len(received'[s]) = n + 1
        /\ \A i \in 1..(n + 1) : received'[s][i] = IF i = n + 1 THEN m ELSE received[s][i]
        /\ DOMAIN received'[s] = 1..(n + 1) /\ DOMAIN received[s] = 1..n
        /\ \A t \in Streams \ {s} : received'[t] = received[t]
    BY <1>1, <1>2, <1>3 DEF SInv, StreamsInv
  <1>6. DequeInv' /\ Dropped' = Dropped
    BY <1>1 DEF SInv, DequeInv, Newest, Dropped
  <1>7. /\ pc' \in [Streams -> Places] /\ pc'[s] = "sent"
        /\ \A t \in Streams \ {s} : pc'[t] = pc[t]
    BY <1>1 DEF SInv, StreamsInv, Places
  <1>8. Yielded(s)' = n + 1 /\ \A t \in Streams \ {s} : Yielded(t)' = Yielded(t)
    BY <1>1, <1>7 DEF Yielded
  <1>9. StreamsInv'
    <2>1. ASSUME NEW t \in Streams \ {s}
          PROVE  /\ pc'[t] = "fetch" => last_sent_index'[t] < Len(sse_message_queue')
                 /\ Len(received'[t]) = Yielded(t)'
                 /\ Yielded(t)' <= Len(sse_message_queue')
                 /\ \A i \in DOMAIN received'[t] :
                      /\ received'[t][i] \in 1..published'
                      /\ received'[t][i] <= Dropped' + Yielded(t)'
      BY <1>1, <1>5, <1>6, <1>7, <1>8 DEF SInv, StreamsInv
    <2>2. \A i \in DOMAIN received'[s] :
            received'[s][i] \in 1..published' /\ received'[s][i] <= Dropped' + Yielded(s)'
      BY <1>1, <1>2, <1>3, <1>4, <1>5, <1>6, <1>8
    <2> QED BY <1>1, <1>2, <1>5, <1>7, <1>8, <2>1, <2>2 DEF SInv, StreamsInv
  <1>10. Gapless'
    <2>1. Dropped = 0 => \A i \in DOMAIN received'[s] : received'[s][i] = i
      BY <1>2, <1>3, <1>5 DEF SInv, Gapless
    <2> QED BY <1>5, <1>6, <2>1 DEF SInv, Gapless
  <1>11. Feed!Receive(s)
    BY <1>1, <1>3, <1>4 DEF Feed!Receive
  <1> QED
    BY <1>6, <1>9, <1>10, <1>11 DEF SInv

LEMMA StreamStep == SInv /\ [Next]_vars => SInv' /\ [Feed!Next]_(Feed!vars)
  <1> SUFFICES ASSUME SInv, [Next]_vars
               PROVE  SInv' /\ [Feed!Next]_(Feed!vars)
    OBVIOUS
  <1>1. CASE send_sse_message
    BY <1>1, MessageStep DEF Feed!Next
  <1>2. ASSUME NEW s \in Streams, Send(s)
        PROVE  SInv' /\ [Feed!Next]_(Feed!vars)
    BY <1>2, SendStep DEF Feed!Next
  <1>3. ASSUME NEW s \in Streams,
               sse_notifications(s) \/ Look(s) \/ Advance(s) \/ Disconnect(s)
        PROVE  SInv' /\ [Feed!Next]_(Feed!vars)
    BY <1>3, LoopStep DEF Feed!vars
  <1>4. CASE UNCHANGED vars
    BY <1>4 DEF vars, Feed!vars, SInv, DequeInv, Newest, StreamsInv, Gapless, Dropped, Yielded
  <1> QED
    BY <1>1, <1>2, <1>3, <1>4 DEF Next, event_stream

LEMMA StreamInvariant == Spec => []SInv
  BY InitSInv, StreamStep, PTL DEF Spec

-----------------------------------------------------------------------------
(* The theorems *)

\* The types hold, and the deque never exceeds its bound.
THEOREM StreamTypeCorrect == Spec => []TypeOK
  <1>1. SInv => TypeOK
    <2> SUFFICES ASSUME SInv PROVE TypeOK
      OBVIOUS
    <2>1. sse_message_queue \in Seq(1..published)
      <3>1. published \in Nat /\ Len(sse_message_queue) \in Nat /\ Dropped \in Nat
        BY MaxMessagesAssumption DEF SInv, DequeInv, Newest, Dropped
      <3>2. \A k \in 1..Len(sse_message_queue) : sse_message_queue[k] \in 1..published
        BY <3>1 DEF SInv, DequeInv, Newest, Dropped
      <3> QED BY <3>2 DEF SInv, DequeInv, Newest
    <2>2. received \in [Streams -> Seq(1..published)]
      <3>1. ASSUME NEW s \in Streams PROVE received[s] \in Seq(1..published)
        <4>1. received[s] \in Seq(Nat)
          BY DEF SInv, StreamsInv
        <4>2. \A i \in 1..Len(received[s]) : received[s][i] \in 1..published
          BY <4>1 DEF SInv, StreamsInv
        <4>3. received[s] \in [1..Len(received[s]) -> 1..published] /\ Len(received[s]) \in Nat
          BY <4>1, <4>2
        <4> QED BY <4>3, SeqDef
      <3> QED BY <3>1 DEF SInv, StreamsInv
    <2> QED BY <2>1, <2>2 DEF TypeOK, SInv, DequeInv, Newest, StreamsInv, Places
  <1> QED
    BY <1>1, StreamInvariant, PTL

\* However the deque moves under a generator, a subscriber gets no message
\* twice and none after a newer one.
THEOREM FeedHolds == Spec => FeedSpec
  BY InitSInv, InitFeed, StreamStep, PTL DEF Spec, FeedSpec, Feed!Spec

\* Until the deque first drops a message, nobody misses one.
THEOREM GaplessHolds == Spec => []GaplessUntilFull
  <1>1. SInv => GaplessUntilFull
    BY MaxLenAssumption, MaxMessagesAssumption
    DEF SInv, DequeInv, Newest, Gapless, GaplessUntilFull, Dropped
  <1> QED
    BY <1>1, StreamInvariant, PTL


-----------------------------------------------------------------------------
(* The events of sprint execution: one slot where Planning Poker has a deque *)

SlotType ==
    /\ published \in 0..MaxEvents
    /\ latest_event \in 0..published
    /\ pc \in [Streams -> Places]
    /\ received \in [Streams -> Seq(1..published)]
    /\ gotNone \subseteq Streams

\* A generator that has not just sent something has sent nothing as new as the
\* slot: it has emptied the slot itself since.
SlotNewer ==
    \A s \in Streams : pc[s] \notin {"sent", "closed"} /\ latest_event # 0 =>
        \A i \in DOMAIN received[s] : received[s][i] < latest_event

\* Only another generator empties the slot between a test and its sending.
SlotAlone ==
    \A s \in Streams :
        (pc[s] = "fetch" /\ latest_event = 0) \/ s \in gotNone =>
            \E t \in Streams \ {s} : pc[t] # "unopened"

SlotInv == SlotType /\ SlotNewer /\ SlotAlone

LEMMA InitSlot == SlotInit => SlotInv /\ Feed!Init
  BY MaxEventsAssumption
  DEF SlotInit, None, SlotInv, SlotType, SlotNewer, SlotAlone, Feed!Init, Places

\* Numbers up to n are numbers up to m.
LEMMA SeqWider ==
    ASSUME NEW n \in Nat, NEW m \in Nat, n <= m, NEW q \in Seq(1..n)
    PROVE  q \in Seq(1..m)
  <1>1. Len(q) \in Nat /\ q \in [1..Len(q) -> 1..n]
    BY LenProperties
  <1>2. q \in [1..Len(q) -> 1..m]
    BY <1>1
  <1> QED
    BY <1>1, <1>2, SeqDef

LEMMA SlotMessage ==
    ASSUME SlotInv, publish
    PROVE  SlotInv' /\ Feed!Publish
  <1>1. /\ published \in Nat /\ published < MaxEvents /\ published' = published + 1
        /\ latest_event' = published + 1 /\ UNCHANGED <<pc, received, gotNone>>
    BY MaxEventsAssumption DEF publish, SlotInv, SlotType
  <1>2. SlotType'
    <2>1. ASSUME NEW s \in Streams PROVE received[s] \in Seq(1..published')
      BY <1>1, SeqWider DEF SlotInv, SlotType
    <2>2. published' \in 0..MaxEvents /\ latest_event' \in 0..published'
      BY <1>1, MaxEventsAssumption
    <2> QED
      BY <1>1, <2>1, <2>2 DEF SlotInv, SlotType
  <1>3. SlotNewer'
    <2>1. \A s \in Streams : \A i \in DOMAIN received[s] : received[s][i] < published + 1
      <3> SUFFICES ASSUME NEW s \in Streams, NEW i \in DOMAIN received[s]
                   PROVE  received[s][i] < published + 1
        OBVIOUS
      <3>1. received[s] \in Seq(1..published)
        BY DEF SlotInv, SlotType
      <3>2. received[s][i] \in 1..published
        BY <3>1, LenProperties
      <3> QED
        BY <1>1, <3>2
    <2> QED
      BY <1>1, <2>1 DEF SlotNewer
  <1>4. SlotAlone'
    BY <1>1 DEF SlotInv, SlotAlone
  <1> QED
    BY <1>1, <1>2, <1>3, <1>4 DEF SlotInv, Feed!Publish

\* A generator goes on without sending anything.
LEMMA SlotLoop ==
    ASSUME SlotInv, NEW s \in Streams,
           \/ task_event_stream(s) \/ LookAtSlot(s)
           \/ Reset(s) \/ Leave(s)
    PROVE  SlotInv' /\ UNCHANGED <<published, received>>
  <1> USE DEF task_event_stream, LookAtSlot, Reset, Leave,
              Goto, None
  <1>1. UNCHANGED <<published, received, gotNone>>
    OBVIOUS
  <1>2. /\ pc' \in [Streams -> Places] /\ pc'[s] # "unopened"
        /\ \A t \in Streams \ {s} : pc'[t] = pc[t]
    BY DEF SlotInv, SlotType, Places
  <1>3. SlotType'
    BY <1>1, <1>2, MaxEventsAssumption DEF SlotInv, SlotType
  <1>4. SlotNewer'
    <2>1. CASE latest_event' = 0
      BY <2>1 DEF SlotNewer
    <2>2. CASE latest_event' = latest_event /\ pc[s] # "sent"
      BY <1>1, <1>2, <2>2 DEF SlotInv, SlotNewer
    <2>3. CASE latest_event' = latest_event /\ pc'[s] = "closed"
      BY <1>1, <1>2, <2>3 DEF SlotInv, SlotNewer
    <2> QED
      BY <2>1, <2>2, <2>3 DEF SlotInv, SlotType
  <1>5. SlotAlone'
    <2> SUFFICES ASSUME NEW t \in Streams,
                        (pc'[t] = "fetch" /\ latest_event' = 0) \/ t \in gotNone
                 PROVE  \E u \in Streams \ {t} : pc'[u] # "unopened"
      BY <1>1 DEF SlotAlone
    <2>1. CASE \E u \in Streams \ {t} : pc[u] # "unopened"
      BY <1>2, <2>1
    <2>2. CASE ~(pc[t] = "fetch" /\ latest_event = 0) /\ t \notin gotNone
      <3>1. t # s
        BY <2>2 DEF SlotInv, SlotType
      <3> QED
        BY <1>2, <3>1
    <2> QED
      BY <2>1, <2>2 DEF SlotInv, SlotAlone
  <1> QED
    BY <1>1, <1>3, <1>4, <1>5 DEF SlotInv

\* What is sent is the newest event, and newer than all that was sent before.
LEMMA SlotSend ==
    ASSUME SlotInv, NEW s \in Streams, SendSlot(s)
    PROVE  SlotInv' /\ (Feed!Receive(s) \/ UNCHANGED <<published, received>>)
  <1>1. /\ UNCHANGED <<published, latest_event>>
        /\ pc[s] = "fetch" /\ pc' = [pc EXCEPT ![s] = "sent"]
    BY DEF SendSlot, Goto
  <1>2. /\ pc' \in [Streams -> Places] /\ pc'[s] = "sent"
        /\ \A t \in Streams \ {s} : pc'[t] = pc[t]
    BY <1>1 DEF SlotInv, SlotType, Places
  <1>3. CASE latest_event = 0
    <2>1. received' = received /\ gotNone' = gotNone \cup {s}
      BY <1>3 DEF SendSlot, None
    <2>2. SlotType' /\ SlotNewer'
      BY <1>1, <1>2, <1>3, <2>1 DEF SlotInv, SlotType, SlotNewer
    <2>3. SlotAlone'
      BY <1>1, <1>2, <1>3, <2>1 DEF SlotInv, SlotAlone
    <2> QED
      BY <1>1, <2>1, <2>2, <2>3 DEF SlotInv
  <1>4. CASE latest_event # 0
    <2>1. /\ received' = [received EXCEPT ![s] = Append(received[s], latest_event)]
          /\ gotNone' = gotNone
      BY <1>4 DEF SendSlot, None
    <2>2. latest_event \in 1..published /\ received[s] \in Seq(1..published)
      BY <1>4, MaxEventsAssumption DEF SlotInv, SlotType
    <2>3. Append(received[s], latest_event) \in Seq(1..published)
      BY <2>2
    <2>4. SlotType'
      BY <1>1, <1>2, <2>1, <2>3 DEF SlotInv, SlotType
    <2>5. \A t \in Streams \ {s} : received'[t] = received[t]
      BY <2>1 DEF SlotInv, SlotType
    <2>6. SlotNewer'
      BY <1>1, <1>2, <2>5 DEF SlotInv, SlotNewer
    <2>7. SlotAlone'
      BY <1>1, <1>2, <2>1 DEF SlotInv, SlotAlone
    <2>8. \A i \in DOMAIN received[s] : received[s][i] < latest_event
      BY <1>1, <1>4 DEF SlotInv, SlotNewer
    <2>9. Feed!Receive(s)
      BY <1>1, <2>1, <2>2, <2>8 DEF Feed!Receive
    <2> QED
      BY <2>4, <2>6, <2>7, <2>9 DEF SlotInv
  <1> QED
    BY <1>3, <1>4

LEMMA SlotStep ==
    SlotInv /\ [SlotNext]_slotVars => SlotInv' /\ [Feed!Next]_(Feed!vars)
  <1> SUFFICES ASSUME SlotInv, [SlotNext]_slotVars
               PROVE  SlotInv' /\ [Feed!Next]_(Feed!vars)
    OBVIOUS
  <1>1. CASE publish
    BY <1>1, SlotMessage DEF Feed!Next
  <1>2. ASSUME NEW s \in Streams, SendSlot(s)
        PROVE  SlotInv' /\ [Feed!Next]_(Feed!vars)
    BY <1>2, SlotSend DEF Feed!Next, Feed!vars
  <1>3. ASSUME NEW s \in Streams,
               \/ task_event_stream(s) \/ LookAtSlot(s)
               \/ Reset(s) \/ Leave(s)
        PROVE  SlotInv' /\ [Feed!Next]_(Feed!vars)
    BY <1>3, SlotLoop DEF Feed!vars
  <1>4. CASE UNCHANGED slotVars
    BY <1>4 DEF slotVars, Feed!vars, SlotInv, SlotType, SlotNewer, SlotAlone
  <1> QED
    BY <1>1, <1>2, <1>3, <1>4 DEF SlotNext, sse_event_generator

LEMMA SlotInvariant == SlotSpec => []SlotInv
  BY InitSlot, SlotStep, PTL DEF SlotSpec

\* The slot holds nothing but an event that was published, whoever empties it.
THEOREM SlotTypeCorrect == SlotSpec => []SlotTypeOK
  <1>1. SlotInv => SlotTypeOK
    BY DEF SlotInv, SlotType, SlotTypeOK, None, Places
  <1> QED
    BY <1>1, SlotInvariant, PTL

\* However many generators share the slot and empty it for each other, a
\* subscriber gets no event twice and none after a newer one
\* (sse_event_generator of sprint_execution/sse.py).
THEOREM SlotFeedHolds == SlotSpec => FeedSpec
  BY InitSlot, SlotStep, PTL DEF SlotSpec, FeedSpec, Feed!Spec

\* "data: None" takes a second generator that has been opened.
THEOREM NoneNeedsTwoHolds == SlotSpec => []NoneNeedsTwo
  <1>1. SlotInv => NoneNeedsTwo
    BY DEF SlotInv, SlotType, SlotAlone, NoneNeedsTwo
  <1> QED
    BY <1>1, SlotInvariant, PTL
=============================================================================
