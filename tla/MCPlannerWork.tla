--------------------------- MODULE MCPlannerWork ---------------------------
(* Instances of PlannerWork: two tasks and two branch names.  With a single *)
(* window a task has one preview at a time.                                 *)
EXTENDS PlannerWork, TLC

CONSTANTS t1, t2, b1, b2

TwoTasks == {t1, t2}
TwoNames == {b1, b2}
Symmetry == Permutations(TwoTasks) \cup Permutations(TwoNames)
=============================================================================
