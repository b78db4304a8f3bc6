----------------------- MODULE MCRepositoryPublication -----------------------
(* Instance of RepositoryPublication: two names, so that an undecided       *)
(* request and a later choice of another name can meet.                     *)
EXTENDS RepositoryPublication
=============================================================================
