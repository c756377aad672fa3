----------------------------- MODULE Generators -----------------------------
(***************************************************************************)
(* What the two server-sent-event streams of Scrint have in common: one     *)
(* server process with a generator per open stream, and the subscribers     *)
(* that get what the generators yield.  The threads of the development      *)
(* server (README.md:71) share the state of the stream; a generator is one  *)
(* of them, with one action per access to that state.                       *)
(***************************************************************************)
EXTENDS Integers, Sequences

CONSTANT Streams    \* the requests that open a stream

VARIABLES
    published,  \* how many messages were published; a message is its number
    pc,         \* pc[s]: where the generator of s is
    received    \* received[s]: the messages that the subscriber of s got

Places == {"unopened", "asleep", "fetch", "sent", "closed"}

Goto(s, from, to) ==
    /\ pc[s] = from
    /\ pc' = [pc EXCEPT ![s] = to]

\* However the shared state changes between the look, the fetch and the last
\* step of a generator, a subscriber gets no message twice and none after a
\* newer one.
Feed == INSTANCE EventFeed
FeedSpec == Feed!Spec
=============================================================================
