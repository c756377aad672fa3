------------------------------ MODULE EventFeed ------------------------------
(***************************************************************************)
(* What both server-sent-event streams of Scrint promise a subscriber: the  *)
(* messages it receives are messages that were published, each at most      *)
(* once and in the order of publication.  Nothing says that it receives     *)
(* them all.                                                                *)
(***************************************************************************)
EXTENDS Naturals, Sequences

CONSTANT Streams    \* the event streams that subscribers open

VARIABLES
    published,  \* how many messages were published; a message is its number
    received    \* received[s]: what the subscriber of s got, in order

vars == <<published, received>>

Init ==
    /\ published = 0
    /\ received = [s \in Streams |-> <<>>]

Publish ==
    /\ published' = published + 1
    /\ UNCHANGED received

(* Some message newer than all that s has got. *)
Receive(s) ==
    /\ \E m \in 1..published :
         /\ \A i \in DOMAIN received[s] : received[s][i] < m
         /\ received' = [received EXCEPT ![s] = Append(@, m)]
    /\ UNCHANGED published

Next == Publish \/ \E s \in Streams : Receive(s)

Spec == Init /\ [][Next]_vars

=============================================================================
