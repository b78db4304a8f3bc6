--------------------------- MODULE MCBranchChange ---------------------------
(* Instances of BranchChange: one or two sessions, two branches.            *)
EXTENDS BranchChange, TLC

CONSTANTS s1, s2, c1, c2, main, target

OneSession == {s1}
TwoSessions == {s1, s2}
Symmetry == Permutations(Branches) \cup Permutations(Changes)
=============================================================================
