-------------------------- MODULE MCRemoteTransfer --------------------------
(* Instance of RemoteTransfer: two endpoints, a branch and a tag, and three *)
(* calls, so that two retries of one result can meet.                       *)
EXTENDS RemoteTransfer, TLC

CONSTANTS c1, c2, c3, e1, e2

ThreeCalls == {c1, c2, c3}
TwoEndpoints == {e1, e2}
Symmetry == Permutations(ThreeCalls) \cup Permutations(TwoEndpoints)
=============================================================================
