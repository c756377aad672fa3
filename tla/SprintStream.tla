---------------------------- MODULE SprintStream ----------------------------
(***************************************************************************)
(* The events of sprint execution (sprint_execution/sse.py): one slot of    *)
(* the server process, which the views overwrite and which every open       *)
(* generator sends and then empties.  The names that PokerStream has too     *)
(* speak of the slot here, so that one module can extend both.              *)
(***************************************************************************)
EXTENDS Generators

CONSTANT MaxEvents  \* bound on the calls of publish

ASSUME MaxEventsAssumption == MaxEvents \in Nat

\* Events are numbered from 1.
None == 0

VARIABLES
    latest_event,   \* the slot: an event, or None
    gotNone         \* the streams whose subscriber got "data: None" instead

slotVars == <<published, latest_event, pc, received, gotNone>>

\* Faulty variant: the slot starts with something in it.
SlotInitFull ==
    /\ published = 0
    /\ latest_event = 1
    /\ pc = [s \in Streams |-> "unopened"]
    /\ received = [s \in Streams |-> <<>>]
    /\ gotNone = {}

SlotInit ==
    /\ published = 0
    /\ latest_event = None
    /\ pc = [s \in Streams |-> "unopened"]
    /\ received = [s \in Streams |-> <<>>]
    /\ gotNone = {}

publish ==
    /\ published < MaxEvents
    /\ published' = published + 1
    /\ latest_event' = published + 1
    /\ UNCHANGED <<pc, received, gotNone>>

task_event_stream(s) ==
    /\ Goto(s, "unopened", "asleep")
    /\ UNCHANGED <<published, latest_event, received, gotNone>>

\* Faulty variant: the test of the slot is inverted.
LookForNone(s) ==
    /\ latest_event = None
    /\ Goto(s, "asleep", "fetch")
    /\ UNCHANGED <<published, latest_event, received, gotNone>>

\* Faulty variant: the slot is emptied as it is tested.
LookTakes(s) ==
    /\ latest_event # None
    /\ latest_event' = None
    /\ Goto(s, "asleep", "fetch")
    /\ UNCHANGED <<published, received, gotNone>>

LookAtSlot(s) ==
    /\ latest_event # None
    /\ Goto(s, "asleep", "fetch")
    /\ UNCHANGED <<published, latest_event, received, gotNone>>

\* The slot is read again to be sent: it may hold a newer event by now, or
\* None when another generator has emptied it.
SendSlot(s) ==
    /\ Goto(s, "fetch", "sent")
    /\ IF latest_event = None
       THEN gotNone' = gotNone \cup {s} /\ received' = received
       ELSE /\ received' = [received EXCEPT ![s] = Append(@, latest_event)]
            /\ gotNone' = gotNone
    /\ UNCHANGED <<published, latest_event>>

\* Faulty variant: the slot keeps the event.
ResetNot(s) ==
    /\ Goto(s, "sent", "asleep")
    /\ UNCHANGED <<published, latest_event, received, gotNone>>

Reset(s) ==
    /\ Goto(s, "sent", "asleep")
    /\ latest_event' = None
    /\ UNCHANGED <<published, received, gotNone>>

\* The subscriber goes away; the generator is closed where it yields, and the
\* slot keeps the event.
Leave(s) ==
    /\ Goto(s, "sent", "closed")
    /\ UNCHANGED <<published, latest_event, received, gotNone>>

sse_event_generator(s) == LookAtSlot(s) \/ SendSlot(s) \/ Reset(s)

SlotNext ==
    \/ publish
    \/ \E s \in Streams : task_event_stream(s) \/ sse_event_generator(s) \/ Leave(s)

\* A generator loops for ever, so it keeps taking its steps.
SlotSpec ==
    SlotInit /\ [][SlotNext]_slotVars /\ \A s \in Streams : WF_slotVars(sse_event_generator(s))

-----------------------------------------------------------------------------
(* Properties *)

SlotTypeOK ==
    /\ published \in 0..MaxEvents
    /\ latest_event \in None..published
    /\ pc \in [Streams -> Places]
    /\ received \in [Streams -> Seq(1..published)]
    /\ gotNone \subseteq Streams

\* Event m was just published while some stream is open and no generator is
\* about to empty the slot.
WellTimed(m) ==
    /\ published = m /\ latest_event = m
    /\ \E s \in Streams : pc[s] \in {"asleep", "fetch"}
    /\ \A s \in Streams : pc[s] # "sent"

Delivered(m) == \E s \in Streams : \E i \in DOMAIN received[s] : received[s][i] = m

\* An event is lost only to a newer one or to a generator that was about to
\* empty the slot when it came: a well-timed event reaches some subscriber
\* unless a newer one is published.
LastEventArrives ==
    \A m \in 1..MaxEvents : WellTimed(m) ~> Delivered(m) \/ published > m

\* "data: None" reaches a subscriber only when another one shares the slot: on
\* its own, a generator sends what its test found, or something newer.
NoneNeedsTwo ==
    \A s \in gotNone : \E t \in Streams \ {s} : pc[t] # "unopened"

=============================================================================
