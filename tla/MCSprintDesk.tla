---------------------------- MODULE MCSprintDesk ----------------------------
(* SprintDesk with interchangeable requests, tasks and stories. *)
EXTENDS SprintDesk, TLC
DeskSymmetry ==
    Permutations(Requests) \cup Permutations(Tasks) \cup Permutations(Stories)
        \cup Permutations(Questions)
=============================================================================
