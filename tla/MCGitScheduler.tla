--------------------------- MODULE MCGitScheduler ---------------------------
(***************************************************************************)
(* Instances of GitScheduler for TLC.  With MaxConcurrentReads = 2 and     *)
(* MaxBackgroundReads = 1 three calls fill the read lane, overflow it and  *)
(* meet the background limit.                                              *)
(***************************************************************************)
EXTENDS GitScheduler, TLC

\* Calls and keys are interchangeable: no property names one of them.
Symmetry == Permutations(Jobs) \cup Permutations(Keys)
=============================================================================
