---------------------------- MODULE MCRetroVoting ----------------------------
(* Small instances of RetroVoting for TLC. *)
EXTENDS RetroVoting, TLC

\* The Scrum Master posts one item, and later a list where another one has
\* taken its index.
TwoLists == {<<"slow">>, <<"late", "slow">>}

\* Vote ids are interchangeable, and so are members.
VoteSymmetry == Permutations(Requests) \cup Permutations(Members)
=============================================================================
