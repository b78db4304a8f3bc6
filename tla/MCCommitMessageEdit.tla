------------------------ MODULE MCCommitMessageEdit ------------------------
(* Instance of CommitMessageEdit: an edit, and a second one that runs beside *)
(* or after what the first has left.                                        *)
EXTENDS CommitMessageEdit

CONSTANTS e1, e2

TwoEdits == {e1, e2}
=============================================================================
