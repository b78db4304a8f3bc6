-------------------------- MODULE MCRepositoryRun --------------------------
(* Instances of RepositoryRun: three starts, two repositories, two steps.   *)
EXTENDS RepositoryRun

CONSTANTS r1, r2, r3

ThreeRuns == {r1, r2, r3}
TwoRuns == {r1, r2}
OneHeld == {r1}
=============================================================================
