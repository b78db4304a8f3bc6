---------------------- MODULE CommitMessageEditAtomic ----------------------
(***************************************************************************)
(* What editing a commit message promises, without files, locks or         *)
(* crashes: an edit replaces the head of the branch by one that contains   *)
(* the same work, and keeps the replaced head until the user lets it go.   *)
(***************************************************************************)
EXTENDS Naturals

CONSTANTS Edits, None, MaxCommits

VARIABLES branch, backup

Init ==
  /\ branch = [own |-> 0, edits |-> {}]
  /\ backup = [e \in Edits |-> None]

Edit(e) ==
  /\ e \notin branch.edits
  /\ branch' = [branch EXCEPT !.edits = @ \cup {e}]
  /\ backup' = [backup EXCEPT ![e] = branch]

UserCommits ==
  /\ branch.own < MaxCommits
  /\ branch' = [branch EXCEPT !.own = @ + 1]
  /\ UNCHANGED backup

Forget(e) ==
  /\ backup[e] # None
  /\ backup' = [backup EXCEPT ![e] = None]
  /\ UNCHANGED branch

Next == (\E e \in Edits : Edit(e) \/ Forget(e)) \/ UserCommits

Spec == Init /\ [][Next]_<<branch, backup>>
=============================================================================
