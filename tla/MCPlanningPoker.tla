--------------------------- MODULE MCPlanningPoker ---------------------------
(* Small instances of PlanningPoker for TLC. *)
EXTENDS PlanningPoker, TLC

\* Request ids are interchangeable (used for safety only).
RequestSymmetry == Permutations(Requests)
=============================================================================
