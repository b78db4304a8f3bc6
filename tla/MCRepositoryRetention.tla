----------------------- MODULE MCRepositoryRetention -----------------------
(* Instances of RepositoryRetention. *)
EXTENDS RepositoryRetention, TLC

CONSTANTS r1, r2

OneRepo == {r1}
TwoRepos == {r1, r2}
Symmetry == Permutations(TwoRepos)
=============================================================================
