--------------------------- MODULE ConsensusBoard ---------------------------
(***************************************************************************)
(* What Planning Poker promises its audience, whatever happens to the       *)
(* requests, the membership and the workers behind it: a consensus that is  *)
(* announced is one the board really showed.                                *)
(*                                                                         *)
(* The board holds at most one vote per user.  Somebody who looks at it     *)
(* while every vote on it is the same value may announce that value, at     *)
(* once or later, and nobody else announces anything.                       *)
(***************************************************************************)
CONSTANTS
    Users,      \* who may have a vote on the board
    Values,     \* the cards
    NoVote      \* the place of a user without a vote

VARIABLES
    votes,      \* votes[u]: the card of u, or NoVote
    seen,       \* values somebody saw unanimous and has not announced yet
    announced   \* values announced as the consensus

vars == <<votes, seen, announced>>

TypeOK ==
    /\ votes \in [Users -> Values \cup {NoVote}]
    /\ seen \subseteq Values
    /\ announced \subseteq Values

CardsShown == {votes[u] : u \in Users} \ {NoVote}

Init ==
    /\ votes = [u \in Users |-> NoVote]
    /\ seen = {}
    /\ announced = {}

(* One user's vote appears, changes or is withdrawn. *)
Cast(u) ==
    /\ \E c \in Values \cup {NoVote} : votes' = [votes EXCEPT ![u] = c]
    /\ UNCHANGED <<seen, announced>>

(* The vote of u is handed to w, whose own vote it replaces if there is one. *)
Move(u, w) ==
    /\ votes[u] # NoVote
    /\ \E c \in Values : votes' = [votes EXCEPT ![u] = NoVote, ![w] = c]
    /\ UNCHANGED <<seen, announced>>

(* Somebody looks while every card shown is v. *)
See(v) ==
    /\ CardsShown = {v}
    /\ seen' = seen \cup {v}
    /\ UNCHANGED <<votes, announced>>

(* Somebody who saw v announces it; others may still be about to. *)
Announce(v) ==
    /\ v \in seen
    /\ announced' = announced \cup {v}
    /\ seen' \in {seen, seen \ {v}}
    /\ UNCHANGED votes

(* Somebody who saw v goes away without a word. *)
Forget(v) ==
    /\ v \in seen
    /\ seen' = seen \ {v}
    /\ UNCHANGED <<votes, announced>>

Next ==
    \/ \E u \in Users : Cast(u)
    \/ \E u, w \in Users : Move(u, w)
    \/ \E v \in Values : See(v) \/ Announce(v) \/ Forget(v)

Spec == Init /\ [][Next]_vars

=============================================================================
