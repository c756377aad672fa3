----------------------------- MODULE PokerStream -----------------------------
(***************************************************************************)
(* The notifications of Planning Poker (planning_poker/views.py): a deque   *)
(* of the server process, which the voting handlers append to, and one      *)
(* generator per open stream, which remembers how far into the deque it has *)
(* come.  A full deque drops its oldest message to take a new one, so what  *)
(* stands at an index changes under the generators.                         *)
(***************************************************************************)
EXTENDS Generators

CONSTANTS
    MaxLen,         \* maxlen of sse_message_queue; 100 in the code
    MaxMessages     \* bound on the calls of send_sse_message

ASSUME MaxLenAssumption == MaxLen \in Nat \ {0}
ASSUME MaxMessagesAssumption == MaxMessages \in Nat

VARIABLES
    sse_message_queue,  \* the deque, oldest message first
    last_sent_index     \* last_sent_index[s]: of the generator of s

vars == <<published, sse_message_queue, last_sent_index, pc, received>>

Init ==
    /\ published = 0
    /\ sse_message_queue = <<>>
    /\ last_sent_index = [s \in Streams |-> 0]
    /\ pc = [s \in Streams |-> "unopened"]
    /\ received = [s \in Streams |-> <<>>]

\* Faulty variant: the deque has no bound.
AppendedUnbounded(q, m) == Append(q, m)

\* What a bounded deque holds after an append.
Appended(q, m) == Append(IF Len(q) < MaxLen THEN q ELSE Tail(q), m)

send_sse_message ==
    /\ published < MaxMessages
    /\ published' = published + 1
    /\ sse_message_queue' = Appended(sse_message_queue, published + 1)
    /\ UNCHANGED <<last_sent_index, pc, received>>

sse_notifications(s) ==
    /\ Goto(s, "unopened", "asleep")
    /\ UNCHANGED <<published, sse_message_queue, last_sent_index, received>>

\* Faulty variant: the last message of the deque does not count.
LookBeyondNext(s) ==
    /\ Len(sse_message_queue) > last_sent_index[s] + 1
    /\ Goto(s, "asleep", "fetch")
    /\ UNCHANGED <<published, sse_message_queue, last_sent_index, received>>

\* The generator finds that there is something to send; when there is not, it
\* goes back to sleep.
Look(s) ==
    /\ Len(sse_message_queue) > last_sent_index[s]
    /\ Goto(s, "asleep", "fetch")
    /\ UNCHANGED <<published, sse_message_queue, last_sent_index, received>>

\* Faulty variant: the newest message is sent, whatever the position.
SendNewest(s) ==
    /\ Goto(s, "fetch", "sent")
    /\ received' = [received EXCEPT
         ![s] = Append(@, sse_message_queue[Len(sse_message_queue)])]
    /\ UNCHANGED <<published, sse_message_queue, last_sent_index>>

Send(s) ==
    /\ Goto(s, "fetch", "sent")
    /\ received' = [received EXCEPT
         ![s] = Append(@, sse_message_queue[last_sent_index[s] + 1])]
    /\ UNCHANGED <<published, sse_message_queue, last_sent_index>>

\* Faulty variant: the position does not move.
AdvanceNot(s) ==
    /\ Goto(s, "sent", "asleep")
    /\ UNCHANGED <<published, sse_message_queue, last_sent_index, received>>

Advance(s) ==
    /\ Goto(s, "sent", "asleep")
    /\ last_sent_index' = [last_sent_index EXCEPT ![s] = @ + 1]
    /\ UNCHANGED <<published, sse_message_queue, received>>

\* The subscriber goes away; the generator is closed where it yields.
Disconnect(s) ==
    /\ Goto(s, "sent", "closed")
    /\ UNCHANGED <<published, sse_message_queue, last_sent_index, received>>

event_stream(s) == Look(s) \/ Send(s) \/ Advance(s)

Next ==
    \/ send_sse_message
    \/ \E s \in Streams : sse_notifications(s) \/ event_stream(s) \/ Disconnect(s)

\* A generator loops for ever, so it keeps taking its steps.
Spec == Init /\ [][Next]_vars /\ \A s \in Streams : WF_vars(event_stream(s))

-----------------------------------------------------------------------------
(* Properties *)

TypeOK ==
    /\ published \in 0..MaxMessages
    /\ sse_message_queue \in Seq(1..published)
    /\ Len(sse_message_queue) <= MaxLen
    /\ last_sent_index \in [Streams -> 0..MaxLen]
    /\ pc \in [Streams -> Places]
    /\ received \in [Streams -> Seq(1..published)]

\* Until the deque first drops a message, a subscriber has got a gapless prefix
\* of all messages, whenever it opened its stream.
GaplessUntilFull ==
    published <= MaxLen =>
        \A s \in Streams : \A i \in DOMAIN received[s] : received[s][i] = i

\* Every subscriber that stays gets as far as the first MaxLen messages: it
\* receives each of them or, when it fell behind the deque, a newer one.
GetsToTheLimit ==
    \A s \in Streams, m \in 1..MaxLen :
        pc[s] # "unopened" /\ m <= published
            ~> pc[s] = "closed" \/ \E i \in DOMAIN received[s] : received[s][i] >= m

\* "Endpoint SSE para notificaciones de Planning Poker" (views.py:667): a
\* subscriber that stays is notified of every message, or of a newer one.
KeepsNotifying ==
    \A s \in Streams, m \in 1..MaxMessages :
        pc[s] # "unopened" /\ m <= published
            ~> pc[s] = "closed" \/ \E i \in DOMAIN received[s] : received[s][i] >= m

=============================================================================
