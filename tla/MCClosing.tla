----------------------------- MODULE MCClosing -----------------------------
(* A small instance of Closing for TLC. *)
EXTENDS Closing, TLC

\* Tasks, stories, sprints and requests are interchangeable.
ClosingSymmetry == Permutations(Tasks) \cup Permutations(Stories)
                       \cup Permutations(Sprints) \cup Permutations(Requests)
=============================================================================
