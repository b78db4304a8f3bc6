---------------------------- MODULE MCAutoCommit ----------------------------
(* Instance of AutoCommit: two groups, the first possibly staged by the    *)
(* user beforehand.                                                        *)
EXTENDS AutoCommit

MCGroups == 1 .. 2
=============================================================================
