---------------------- MODULE CommitMessageEdit_proofs ----------------------
(***************************************************************************)
(* Proofs, for any edits, faults and commits of the user, of what          *)
(* CommitMessageEdit promises: an edit is one step on the branch, reported *)
(* truthfully, never replayed, and nobody else's lock is removed.          *)
(***************************************************************************)
EXTENDS CommitMessageEdit, TLAPS

Building == {"mkdir", "owner", "journal"}
Working == PreparingSteps \cup PublishingSteps \cup {"unlock"}

\* The edit op has its journal and has not ended.
Underway == pc \in Working \/ (pc \in CleaningSteps /\ target = op)

Types ==
  /\ branch \in Commits
  /\ backup \in [Edits -> Commits \cup {None}]
  /\ lock \in [Locks -> Edits \cup {None, "foreign", "torn"}]
  /\ journal \in [Edits -> {"none", "preparing", "published", "cleaned"}]
  /\ oldHead \in [Edits -> Commits \cup {None}]
  /\ pc \in {"idle"} \cup EarlySteps \cup Working \cup CleaningSteps
  /\ op \in Edits \cup {None}
  /\ snap \in Commits \cup {None}
  /\ completed \in BOOLEAN
  /\ result \in [Edits -> {"none", "ok", "failed", "refused", "unknown"}]

\* What the running job knows at each of its steps.
Control ==
  /\ pc = "idle" => op = None
  /\ pc \in {"removeBackup", "removeJournal"} =>
       op = None /\ target \in Edits /\ journal[target] = "cleaned"
  /\ pc \in {"inspect"} \cup Building \cup Working => op \in Edits
  /\ pc \in CleaningSteps => target \in Edits
  /\ pc \in Building \cup PreparingSteps \cup PublishingSteps => snap \in Commits
  /\ completed => pc \in {"mark", "unlock"} \/ (pc \in CleaningSteps /\ target = op)
  /\ pc = "mark" => completed
  /\ op # None => result[op] = "none"

\* A half-written lock file is the one that is being written.
Torn ==
  /\ pc = "fillHead" => lock["HEAD.lock"] = "torn"
  /\ pc = "fillIndex" => lock["index.lock"] = "torn"

\* An edit that has not begun to write has left nothing.
Untouched(e) == journal[e] = "none" /\ backup[e] = None /\ e \notin branch.edits
Fresh == \A e \in Edits : result[e] = "none" /\ ~(Underway /\ e = op) => Untouched(e)

\* The edit underway is in the branch if and only if it remembers publishing;
\* what is being cleaned up has a pending journal.
Remembered ==
  /\ Underway =>
       /\ Pending(op)
       /\ completed <=> op \in branch.edits
       /\ pc \in PreparingSteps \cup PublishingSteps => oldHead[op] = snap
  /\ pc \in CleaningSteps => Pending(target)

\* Steps that disturb the same things: preparation, the two looks at the
\* remotes, taking and releasing the locks, cleanup, errors, and what the user
\* does without moving the branch.
Writing == MakeRoot \/ WriteOwner \/ Rewrite
Looking ==
  \/ FetchCheckRefs("check", "dropCheck") \/ DropCheckRefs("dropCheck", "rewrite")
  \/ FetchCheckRefs("recheck", "dropRecheck") \/ DropCheckRefs("dropRecheck", "createHead")
Locking ==
  \/ CreateLock("HEAD.lock", "createHead", "fillHead")
  \/ FillLock("HEAD.lock", "fillHead", "createIndex")
  \/ CreateLock("index.lock", "createIndex", "fillIndex")
  \/ FillLock("index.lock", "fillIndex", "compare")
Releasing == Unlock \/ CleanLocks
Clearing == RemoveWorktree \/ RemoveRoot \/ RemoveCheckRefs
Breaking == RefuseRoot \/ FailEarly \/ FailCleaning \/ RemovePartly \/ Crash
UserTouches == UserStages \/ UserSwitches \/ \E n \in Locks : UserLocks(n) \/ UserUnlocks(n)

IInv ==
  Types /\ Control /\ Torn /\ Fresh /\ Remembered /\ BackupMeansPublished /\ OutcomeIsTrue

\* The reference transaction succeeds only on the head that was inspected.
LEMMA PublishMovesBranch ==
  ASSUME Types, Control, Publish
  PROVE  /\ pc = "publish" /\ op \in Edits /\ op' = op
         /\ UNCHANGED <<lock, journal, oldHead, target, snap, result>>
         /\ \/ /\ branch = snap /\ branch' \in Commits
               /\ branch'.edits = branch.edits \cup {op}
               /\ backup' = [backup EXCEPT ![op] = branch]
               /\ completed' = TRUE /\ pc' = "mark"
            \/ /\ UNCHANGED <<branch, backup, completed>>
               /\ pc' = "unlock"
         /\ \A e \in Edits : e # op =>
              backup'[e] = backup[e] /\ (e \in branch'.edits <=> e \in branch.edits)
<1>1. pc = "publish" /\ op \in Edits /\ op' = op
  BY DEF Publish, Control, Working, PublishingSteps
<1>2. UNCHANGED <<lock, journal, oldHead, target, snap, result>>
  BY DEF Publish, workspaceVars
<1>3. CASE branch = snap
  <2>1. branch' = [branch EXCEPT !.edits = @ \cup {op}] /\ branch \in Commits
    BY <1>3 DEF Publish, Types
  <2>2. branch' \in Commits /\ branch'.edits = branch.edits \cup {op}
    BY <1>1, <2>1 DEF Commits
  <2>3. backup' = [backup EXCEPT ![op] = branch] /\ completed' = TRUE /\ pc' = "mark"
    BY <1>3 DEF Publish
  <2>4. \A e \in Edits : e # op =>
          backup'[e] = backup[e] /\ (e \in branch'.edits <=> e \in branch.edits)
    BY <1>1, <2>2, <2>3 DEF Types
  <2> QED BY <1>1, <1>2, <1>3, <2>2, <2>3, <2>4
<1>4. CASE branch # snap
  BY <1>1, <1>2, <1>4 DEF Publish
<1> QED BY <1>3, <1>4

\* A commit of the user adds to the branch and keeps the edits in it.
LEMMA UserAdds ==
  ASSUME Types, branch' = [branch EXCEPT !.own = @ + 1], branch.own < MaxCommits
  PROVE  branch' \in Commits /\ branch'.edits = branch.edits
BY BoundsAssumption DEF Types, Commits

\* Types of the repository, the journals and the running job.
LEMMA NextTypes ==
  ASSUME Types, Control, [Next]_vars
  PROVE  Types'
<1> USE EditsAssumption, NoneAssumption, BoundsAssumption DEF Types, Control,
       repositoryVars, workspaceVars, requestVars, Steps, Ends, EarlySteps,
       PreparingSteps, PublishingSteps, CleaningSteps, Working, Building, Locks,
       Released, Verdict
<1>1. ASSUME NEW e \in Edits, StartReword(e) PROVE Types'
  BY <1>1 DEF StartReword
<1>2. ASSUME NEW e \in Edits, StartRemoval(e) PROVE Types'
  BY <1>2 DEF StartRemoval
<1>3. CASE StartRecovery
  BY <1>3 DEF StartRecovery
<1>4. ASSUME NEW e \in Edits, RecoverNext(e) PROVE Types'
  BY <1>4 DEF RecoverNext
<1>5. CASE RecoverDone
  BY <1>5 DEF RecoverDone
<1>6. CASE Inspect
  BY <1>6 DEF Inspect
<1>7. CASE Writing
  BY <1>7 DEF Writing, MakeRoot, WriteOwner, Rewrite
<1>8. CASE WriteJournal
  BY <1>8 DEF WriteJournal
<1>9. CASE Looking
  BY <1>9 DEF Looking, FetchCheckRefs, DropCheckRefs
<1>10. CASE Locking
  BY <1>10 DEF Locking, CreateLock, FillLock
<1>11. CASE Compare
  BY <1>11 DEF Compare
<1>12. CASE Publish
  <2>1. /\ op \in Edits
        /\ branch \in Commits /\ branch' \in Commits
        /\ backup' \in {backup, [backup EXCEPT ![op] = branch]}
        /\ pc' \in Working /\ completed' \in BOOLEAN
        /\ UNCHANGED <<lock, journal, oldHead, op, snap, result>>
    BY <1>12, PublishMovesBranch
  <2> QED BY <2>1
<1>13. CASE MarkPublished
  BY <1>13 DEF MarkPublished
<1>14. CASE Releasing
  BY <1>14 DEF Releasing, Unlock, CleanLocks
<1>15. CASE Clearing
  BY <1>15 DEF Clearing, RemoveWorktree, RemoveRoot, RemoveCheckRefs
<1>16. CASE MarkCleaned
  BY <1>16 DEF MarkCleaned
<1>17. CASE RemoveBackup
  BY <1>17 DEF RemoveBackup
<1>18. CASE RemoveJournal
  BY <1>18 DEF RemoveJournal
<1>19. CASE FailPreparing
  BY <1>19 DEF FailPreparing
<1>20. CASE FailPublishing
  BY <1>20 DEF FailPublishing
<1>21. CASE Breaking
  BY <1>21 DEF Breaking, RefuseRoot, FailEarly, FailCleaning, RemovePartly, Crash,
        CleanupFails
<1>22. CASE UserCommits \/ UserMovesBranch
  BY <1>22, UserAdds DEF UserCommits, UserMovesBranch, UserOnly
<1>23. CASE UserTouches
  BY <1>23 DEF UserTouches, UserStages, UserSwitches, UserLocks, UserUnlocks, UserOnly
<1>24. CASE UNCHANGED vars
  BY <1>24 DEF vars, repositoryVars, workspaceVars, requestVars
<1> QED BY <1>1, <1>2, <1>3, <1>4, <1>5, <1>6, <1>7, <1>8, <1>9, <1>10, <1>11,
       <1>12, <1>13, <1>14, <1>15, <1>16, <1>17, <1>18, <1>19, <1>20, <1>21,
       <1>22, <1>23, <1>24
     DEF Next, Call, Step, Fault, User, Writing, Looking, Locking, Releasing,
         Clearing, Breaking, UserTouches

\* The running job keeps knowing what its step presupposes.
LEMMA NextControl ==
  ASSUME Types, Control, Fresh, [Next]_vars
  PROVE  Control'
<1> USE EditsAssumption, NoneAssumption DEF Types, Control, Fresh, Untouched,
       Underway, Pending, repositoryVars, workspaceVars, requestVars, Steps,
       Ends, EarlySteps, PreparingSteps, PublishingSteps, CleaningSteps,
       Working, Building, Verdict
<1>1. ASSUME NEW e \in Edits, StartReword(e) PROVE Control'
  BY <1>1 DEF StartReword
<1>2. ASSUME NEW e \in Edits, StartRemoval(e) PROVE Control'
  BY <1>2 DEF StartRemoval
<1>3. CASE StartRecovery
  BY <1>3 DEF StartRecovery
<1>4. ASSUME NEW e \in Edits, RecoverNext(e) PROVE Control'
  BY <1>4 DEF RecoverNext
<1>5. CASE RecoverDone
  BY <1>5 DEF RecoverDone
<1>6. CASE Inspect
  BY <1>6 DEF Inspect
<1>7. CASE Writing
  BY <1>7 DEF Writing, MakeRoot, WriteOwner, Rewrite
<1>8. CASE WriteJournal
  BY <1>8 DEF WriteJournal
<1>9. CASE Looking
  BY <1>9 DEF Looking, FetchCheckRefs, DropCheckRefs
<1>10. CASE Locking
  BY <1>10 DEF Locking, CreateLock, FillLock
<1>11. CASE Compare
  BY <1>11 DEF Compare
<1>12. CASE Publish
  BY <1>12 DEF Publish
<1>13. CASE MarkPublished
  BY <1>13 DEF MarkPublished
<1>14. CASE Releasing
  BY <1>14 DEF Releasing, Unlock, CleanLocks
<1>15. CASE Clearing
  BY <1>15 DEF Clearing, RemoveWorktree, RemoveRoot, RemoveCheckRefs
<1>16. CASE MarkCleaned
  BY <1>16 DEF MarkCleaned
<1>17. CASE RemoveBackup
  BY <1>17 DEF RemoveBackup
<1>18. CASE RemoveJournal
  BY <1>18 DEF RemoveJournal
<1>19. CASE FailPreparing
  BY <1>19 DEF FailPreparing
<1>20. CASE FailPublishing
  BY <1>20 DEF FailPublishing
<1>21. CASE Breaking
  BY <1>21 DEF Breaking, RefuseRoot, FailEarly, FailCleaning, RemovePartly, Crash,
        CleanupFails
<1>22. CASE UserCommits \/ UserMovesBranch
  BY <1>22 DEF UserCommits, UserMovesBranch, UserOnly
<1>23. CASE UserTouches
  BY <1>23 DEF UserTouches, UserStages, UserSwitches, UserLocks, UserUnlocks, UserOnly
<1>24. CASE UNCHANGED vars
  BY <1>24 DEF vars, repositoryVars, workspaceVars, requestVars
<1> QED BY <1>1, <1>2, <1>3, <1>4, <1>5, <1>6, <1>7, <1>8, <1>9, <1>10, <1>11,
       <1>12, <1>13, <1>14, <1>15, <1>16, <1>17, <1>18, <1>19, <1>20, <1>21,
       <1>22, <1>23, <1>24
     DEF Next, Call, Step, Fault, User, Writing, Looking, Locking, Releasing,
         Clearing, Breaking, UserTouches

\* Nobody else touches a lock file that is being written.
LEMMA NextTorn ==
  ASSUME Types, Control, Torn, [Next]_vars
  PROVE  Torn'
<1> USE EditsAssumption, NoneAssumption DEF Types, Torn, repositoryVars,
       workspaceVars, requestVars, Steps, Ends, EarlySteps, PreparingSteps,
       PublishingSteps, CleaningSteps, Working, Building, Locks
<1>1. ASSUME NEW e \in Edits, StartReword(e) PROVE Torn'
  BY <1>1 DEF StartReword
<1>2. ASSUME NEW e \in Edits, StartRemoval(e) PROVE Torn'
  BY <1>2 DEF StartRemoval
<1>3. CASE StartRecovery
  BY <1>3 DEF StartRecovery
<1>4. ASSUME NEW e \in Edits, RecoverNext(e) PROVE Torn'
  BY <1>4 DEF RecoverNext
<1>5. CASE RecoverDone
  BY <1>5 DEF RecoverDone
<1>6. CASE Inspect
  BY <1>6 DEF Inspect
<1>7. CASE Writing
  BY <1>7 DEF Writing, MakeRoot, WriteOwner, Rewrite
<1>8. CASE WriteJournal
  BY <1>8 DEF WriteJournal
<1>9. CASE Looking
  BY <1>9 DEF Looking, FetchCheckRefs, DropCheckRefs
<1>10. CASE Locking
  BY <1>10 DEF Locking, CreateLock, FillLock
<1>11. CASE Compare
  BY <1>11 DEF Compare
<1>12. CASE Publish
  BY <1>12 DEF Publish
<1>13. CASE MarkPublished
  BY <1>13 DEF MarkPublished
<1>14. CASE Releasing
  BY <1>14 DEF Releasing, Unlock, CleanLocks
<1>15. CASE Clearing
  BY <1>15 DEF Clearing, RemoveWorktree, RemoveRoot, RemoveCheckRefs
<1>16. CASE MarkCleaned
  BY <1>16 DEF MarkCleaned
<1>17. CASE RemoveBackup
  BY <1>17 DEF RemoveBackup
<1>18. CASE RemoveJournal
  BY <1>18 DEF RemoveJournal
<1>19. CASE FailPreparing
  BY <1>19 DEF FailPreparing
<1>20. CASE FailPublishing
  BY <1>20 DEF FailPublishing
<1>21. CASE Breaking
  BY <1>21 DEF Breaking, RefuseRoot, FailEarly, FailCleaning, RemovePartly, Crash,
        CleanupFails
<1>22. CASE UserCommits \/ UserMovesBranch
  BY <1>22 DEF UserCommits, UserMovesBranch, UserOnly
<1>23. CASE UserTouches
  <2>1. /\ pc' = pc
        /\ \A n \in Locks : lock[n] = "torn" /\ pc # "idle" => lock'[n] = "torn"
    BY <1>23, NoneAssumption DEF UserTouches, UserStages, UserSwitches,
       UserLocks, UserUnlocks, UserOnly, Free
  <2> QED BY <2>1
<1>24. CASE UNCHANGED vars
  BY <1>24 DEF vars, repositoryVars, workspaceVars, requestVars
<1> QED BY <1>1, <1>2, <1>3, <1>4, <1>5, <1>6, <1>7, <1>8, <1>9, <1>10, <1>11,
       <1>12, <1>13, <1>14, <1>15, <1>16, <1>17, <1>18, <1>19, <1>20, <1>21,
       <1>22, <1>23, <1>24
     DEF Next, Call, Step, Fault, User, Writing, Looking, Locking, Releasing,
         Clearing, Breaking, UserTouches

\* Only an edit underway leaves anything.
LEMMA NextFresh ==
  ASSUME Types, Control, Fresh, Remembered, [Next]_vars
  PROVE  Fresh'
<1> USE EditsAssumption, NoneAssumption DEF Types, Control, Fresh, Remembered,
       Untouched, Underway, Pending, repositoryVars, workspaceVars, requestVars,
       Steps, Ends, EarlySteps, PreparingSteps, PublishingSteps, CleaningSteps,
       Working, Building, Verdict
<1>1. ASSUME NEW e \in Edits, StartReword(e) PROVE Fresh'
  BY <1>1 DEF StartReword
<1>2. ASSUME NEW e \in Edits, StartRemoval(e) PROVE Fresh'
  BY <1>2 DEF StartRemoval
<1>3. CASE StartRecovery
  BY <1>3 DEF StartRecovery
<1>4. ASSUME NEW e \in Edits, RecoverNext(e) PROVE Fresh'
  BY <1>4 DEF RecoverNext
<1>5. CASE RecoverDone
  BY <1>5 DEF RecoverDone
<1>6. CASE Inspect
  BY <1>6 DEF Inspect
<1>7. CASE Writing
  BY <1>7 DEF Writing, MakeRoot, WriteOwner, Rewrite
<1>8. CASE WriteJournal
  BY <1>8 DEF WriteJournal
<1>9. CASE Looking
  BY <1>9 DEF Looking, FetchCheckRefs, DropCheckRefs
<1>10. CASE Locking
  BY <1>10 DEF Locking, CreateLock, FillLock
<1>11. CASE Compare
  BY <1>11 DEF Compare
<1>12. CASE Publish
  <2>1. op' = op /\ Underway' /\ journal' = journal /\ result' = result
    BY <1>12, PublishMovesBranch
  <2>2. ASSUME NEW e \in Edits, e # op, result[e] = "none" PROVE Untouched(e)'
    BY <1>12, <2>1, <2>2, PublishMovesBranch
  <2> QED BY <2>1, <2>2
<1>13. CASE MarkPublished
  BY <1>13 DEF MarkPublished
<1>14. CASE Releasing
  BY <1>14 DEF Releasing, Unlock, CleanLocks
<1>15. CASE Clearing
  BY <1>15 DEF Clearing, RemoveWorktree, RemoveRoot, RemoveCheckRefs
<1>16. CASE MarkCleaned
  BY <1>16 DEF MarkCleaned
<1>17. CASE RemoveBackup
  BY <1>17 DEF RemoveBackup
<1>18. CASE RemoveJournal
  BY <1>18 DEF RemoveJournal
<1>19. CASE FailPreparing
  BY <1>19 DEF FailPreparing
<1>20. CASE FailPublishing
  BY <1>20 DEF FailPublishing
<1>21. CASE Breaking
  BY <1>21 DEF Breaking, RefuseRoot, FailEarly, FailCleaning, RemovePartly, Crash,
        CleanupFails
<1>22. CASE UserCommits \/ UserMovesBranch
  BY <1>22, UserAdds DEF UserCommits, UserMovesBranch, UserOnly
<1>23. CASE UserTouches
  BY <1>23 DEF UserTouches, UserStages, UserSwitches, UserLocks, UserUnlocks, UserOnly
<1>24. CASE UNCHANGED vars
  BY <1>24 DEF vars, repositoryVars, workspaceVars, requestVars
<1> QED BY <1>1, <1>2, <1>3, <1>4, <1>5, <1>6, <1>7, <1>8, <1>9, <1>10, <1>11,
       <1>12, <1>13, <1>14, <1>15, <1>16, <1>17, <1>18, <1>19, <1>20, <1>21,
       <1>22, <1>23, <1>24
     DEF Next, Call, Step, Fault, User, Writing, Looking, Locking, Releasing,
         Clearing, Breaking, UserTouches

\* A running edit knows whether it has published.
LEMMA NextRemembered ==
  ASSUME Types, Control, Fresh, Remembered, [Next]_vars
  PROVE  Remembered'
<1> USE EditsAssumption, NoneAssumption DEF Types, Control, Fresh, Untouched,
       Remembered, Underway, Pending, repositoryVars, workspaceVars,
       requestVars, Steps, Ends, EarlySteps, PreparingSteps, PublishingSteps,
       CleaningSteps, Working, Building, Verdict
<1>1. ASSUME NEW e \in Edits, StartReword(e) PROVE Remembered'
  BY <1>1 DEF StartReword
<1>2. ASSUME NEW e \in Edits, StartRemoval(e) PROVE Remembered'
  BY <1>2 DEF StartRemoval
<1>3. CASE StartRecovery
  BY <1>3 DEF StartRecovery
<1>4. ASSUME NEW e \in Edits, RecoverNext(e) PROVE Remembered'
  BY <1>4 DEF RecoverNext
<1>5. CASE RecoverDone
  BY <1>5 DEF RecoverDone
<1>6. CASE Inspect
  BY <1>6 DEF Inspect
<1>7. CASE Writing
  BY <1>7 DEF Writing, MakeRoot, WriteOwner, Rewrite
<1>8. CASE WriteJournal
  BY <1>8 DEF WriteJournal
<1>9. CASE Looking
  BY <1>9 DEF Looking, FetchCheckRefs, DropCheckRefs
<1>10. CASE Locking
  BY <1>10 DEF Locking, CreateLock, FillLock
<1>11. CASE Compare
  BY <1>11 DEF Compare
<1>12. CASE Publish
  <2>1. /\ Pending(op) /\ op \notin branch.edits /\ ~completed
        /\ op' = op /\ journal' = journal /\ pc' \in {"mark", "unlock"}
        /\ oldHead' = oldHead /\ oldHead[op] = snap /\ snap' = snap
    BY <1>12, PublishMovesBranch
  <2>2. completed' <=> op \in branch'.edits
    <3>1. CASE pc' = "mark"
      BY <1>12, <2>1, <3>1, PublishMovesBranch
    <3>2. CASE pc' = "unlock"
      BY <1>12, <2>1, <3>2, PublishMovesBranch
    <3> QED BY <2>1, <3>1, <3>2
  <2> QED BY <2>1, <2>2
<1>13. CASE MarkPublished
  BY <1>13 DEF MarkPublished
<1>14. CASE Releasing
  BY <1>14 DEF Releasing, Unlock, CleanLocks
<1>15. CASE Clearing
  BY <1>15 DEF Clearing, RemoveWorktree, RemoveRoot, RemoveCheckRefs
<1>16. CASE MarkCleaned
  BY <1>16 DEF MarkCleaned
<1>17. CASE RemoveBackup
  BY <1>17 DEF RemoveBackup
<1>18. CASE RemoveJournal
  BY <1>18 DEF RemoveJournal
<1>19. CASE FailPreparing
  BY <1>19 DEF FailPreparing
<1>20. CASE FailPublishing
  BY <1>20 DEF FailPublishing
<1>21. CASE Breaking
  BY <1>21 DEF Breaking, RefuseRoot, FailEarly, FailCleaning, RemovePartly, Crash,
        CleanupFails
<1>22. CASE UserCommits \/ UserMovesBranch
  BY <1>22, UserAdds DEF UserCommits, UserMovesBranch, UserOnly
<1>23. CASE UserTouches
  BY <1>23 DEF UserTouches, UserStages, UserSwitches, UserLocks, UserUnlocks, UserOnly
<1>24. CASE UNCHANGED vars
  BY <1>24 DEF vars, repositoryVars, workspaceVars, requestVars
<1> QED BY <1>1, <1>2, <1>3, <1>4, <1>5, <1>6, <1>7, <1>8, <1>9, <1>10, <1>11,
       <1>12, <1>13, <1>14, <1>15, <1>16, <1>17, <1>18, <1>19, <1>20, <1>21,
       <1>22, <1>23, <1>24
     DEF Next, Call, Step, Fault, User, Writing, Looking, Locking, Releasing,
         Clearing, Breaking, UserTouches

\* Backups are created with the publication and removed after the cleanup.
LEMMA NextBackup ==
  ASSUME Types, Control, Fresh, Remembered, BackupMeansPublished, [Next]_vars
  PROVE  BackupMeansPublished'
<1> USE EditsAssumption, NoneAssumption DEF Types, Control, Fresh, Untouched,
       Remembered, Underway, Pending, BackupMeansPublished, repositoryVars,
       workspaceVars, requestVars, Steps, Ends, EarlySteps, PreparingSteps,
       PublishingSteps, CleaningSteps, Working, Building, Verdict
<1>1. ASSUME NEW e \in Edits, StartReword(e) PROVE BackupMeansPublished'
  BY <1>1 DEF StartReword
<1>2. ASSUME NEW e \in Edits, StartRemoval(e) PROVE BackupMeansPublished'
  BY <1>2 DEF StartRemoval
<1>3. CASE StartRecovery
  BY <1>3 DEF StartRecovery
<1>4. ASSUME NEW e \in Edits, RecoverNext(e) PROVE BackupMeansPublished'
  BY <1>4 DEF RecoverNext
<1>5. CASE RecoverDone
  BY <1>5 DEF RecoverDone
<1>6. CASE Inspect
  BY <1>6 DEF Inspect
<1>7. CASE Writing
  BY <1>7 DEF Writing, MakeRoot, WriteOwner, Rewrite
<1>8. CASE WriteJournal
  BY <1>8 DEF WriteJournal
<1>9. CASE Looking
  BY <1>9 DEF Looking, FetchCheckRefs, DropCheckRefs
<1>10. CASE Locking
  BY <1>10 DEF Locking, CreateLock, FillLock
<1>11. CASE Compare
  BY <1>11 DEF Compare
<1>12. CASE Publish
  <2>1. /\ op \in Edits /\ branch \in Commits /\ branch # None
        /\ journal' = journal /\ oldHead' = oldHead /\ oldHead[op] = snap
    BY <1>12, PublishMovesBranch
  <2>2. CASE UNCHANGED <<branch, backup>>
    BY <2>1, <2>2
  <2>3. CASE /\ branch = snap /\ branch'.edits = branch.edits \cup {op}
             /\ backup' = [backup EXCEPT ![op] = branch]
    <3>1. backup'[op] = branch /\ op \in branch'.edits
      BY <2>1, <2>3
    <3> QED BY <1>12, <2>1, <2>3, <3>1, PublishMovesBranch
  <2> QED BY <1>12, <2>2, <2>3, PublishMovesBranch
<1>13. CASE MarkPublished
  BY <1>13 DEF MarkPublished
<1>14. CASE Releasing
  BY <1>14 DEF Releasing, Unlock, CleanLocks
<1>15. CASE Clearing
  BY <1>15 DEF Clearing, RemoveWorktree, RemoveRoot, RemoveCheckRefs
<1>16. CASE MarkCleaned
  BY <1>16 DEF MarkCleaned
<1>17. CASE RemoveBackup
  BY <1>17 DEF RemoveBackup
<1>18. CASE RemoveJournal
  BY <1>18 DEF RemoveJournal
<1>19. CASE FailPreparing
  BY <1>19 DEF FailPreparing
<1>20. CASE FailPublishing
  BY <1>20 DEF FailPublishing
<1>21. CASE Breaking
  BY <1>21 DEF Breaking, RefuseRoot, FailEarly, FailCleaning, RemovePartly, Crash,
        CleanupFails
<1>22. CASE UserCommits \/ UserMovesBranch
  BY <1>22, UserAdds DEF UserCommits, UserMovesBranch, UserOnly
<1>23. CASE UserTouches
  BY <1>23 DEF UserTouches, UserStages, UserSwitches, UserLocks, UserUnlocks, UserOnly
<1>24. CASE UNCHANGED vars
  BY <1>24 DEF vars, repositoryVars, workspaceVars, requestVars
<1> QED BY <1>1, <1>2, <1>3, <1>4, <1>5, <1>6, <1>7, <1>8, <1>9, <1>10, <1>11,
       <1>12, <1>13, <1>14, <1>15, <1>16, <1>17, <1>18, <1>19, <1>20, <1>21,
       <1>22, <1>23, <1>24
     DEF Next, Call, Step, Fault, User, Writing, Looking, Locking, Releasing,
         Clearing, Breaking, UserTouches

\* An edit ends with what it remembers, and a call that never wrote is refused.
LEMMA NextOutcome ==
  ASSUME Types, Control, Fresh, Remembered, OutcomeIsTrue, [Next]_vars
  PROVE  OutcomeIsTrue'
<1> USE EditsAssumption, NoneAssumption DEF Types, Control, Fresh, Untouched,
       Remembered, Underway, OutcomeIsTrue, repositoryVars, workspaceVars,
       requestVars, Steps, Ends, EarlySteps, PreparingSteps, PublishingSteps,
       CleaningSteps, Working, Building, Verdict
<1>1. ASSUME NEW e \in Edits, StartReword(e) PROVE OutcomeIsTrue'
  BY <1>1 DEF StartReword
<1>2. ASSUME NEW e \in Edits, StartRemoval(e) PROVE OutcomeIsTrue'
  BY <1>2 DEF StartRemoval
<1>3. CASE StartRecovery
  BY <1>3 DEF StartRecovery
<1>4. ASSUME NEW e \in Edits, RecoverNext(e) PROVE OutcomeIsTrue'
  BY <1>4 DEF RecoverNext
<1>5. CASE RecoverDone
  BY <1>5 DEF RecoverDone
<1>6. CASE Inspect
  BY <1>6 DEF Inspect
<1>7. CASE Writing
  BY <1>7 DEF Writing, MakeRoot, WriteOwner, Rewrite
<1>8. CASE WriteJournal
  BY <1>8 DEF WriteJournal
<1>9. CASE Looking
  BY <1>9 DEF Looking, FetchCheckRefs, DropCheckRefs
<1>10. CASE Locking
  BY <1>10 DEF Locking, CreateLock, FillLock
<1>11. CASE Compare
  BY <1>11 DEF Compare
<1>12. CASE Publish
  <2>1. op \in Edits /\ result[op] = "none" /\ result' = result
    BY <1>12, PublishMovesBranch
  <2>2. \A e \in Edits : e # op => (e \in branch'.edits <=> e \in branch.edits)
    BY <1>12, PublishMovesBranch
  <2> QED BY <2>1, <2>2
<1>13. CASE MarkPublished
  BY <1>13 DEF MarkPublished
<1>14. CASE Releasing
  BY <1>14 DEF Releasing, Unlock, CleanLocks
<1>15. CASE Clearing
  BY <1>15 DEF Clearing, RemoveWorktree, RemoveRoot, RemoveCheckRefs
<1>16. CASE MarkCleaned
  BY <1>16 DEF MarkCleaned
<1>17. CASE RemoveBackup
  BY <1>17 DEF RemoveBackup
<1>18. CASE RemoveJournal
  BY <1>18 DEF RemoveJournal
<1>19. CASE FailPreparing
  BY <1>19 DEF FailPreparing
<1>20. CASE FailPublishing
  BY <1>20 DEF FailPublishing
<1>21. CASE Breaking
  BY <1>21 DEF Breaking, RefuseRoot, FailEarly, FailCleaning, RemovePartly, Crash,
        CleanupFails
<1>22. CASE UserCommits \/ UserMovesBranch
  BY <1>22, UserAdds DEF UserCommits, UserMovesBranch, UserOnly
<1>23. CASE UserTouches
  BY <1>23 DEF UserTouches, UserStages, UserSwitches, UserLocks, UserUnlocks, UserOnly
<1>24. CASE UNCHANGED vars
  BY <1>24 DEF vars, repositoryVars, workspaceVars, requestVars
<1> QED BY <1>1, <1>2, <1>3, <1>4, <1>5, <1>6, <1>7, <1>8, <1>9, <1>10, <1>11,
       <1>12, <1>13, <1>14, <1>15, <1>16, <1>17, <1>18, <1>19, <1>20, <1>21,
       <1>22, <1>23, <1>24
     DEF Next, Call, Step, Fault, User, Writing, Looking, Locking, Releasing,
         Clearing, Breaking, UserTouches

LEMMA InitInv == Init => IInv
<1> SUFFICES ASSUME Init PROVE IInv
  OBVIOUS
<1>1. branch \in Commits /\ branch.edits = {}
  BY BoundsAssumption DEF Init, Commits
<1>2. Types
  BY <1>1, EditsAssumption DEF Init, Types
<1>3. Control /\ Torn /\ Remembered
  BY DEF Init, Control, Torn, Remembered, Underway, EarlySteps, PreparingSteps,
         PublishingSteps, CleaningSteps, Working, Building
<1>4. Fresh /\ BackupMeansPublished /\ OutcomeIsTrue
  BY <1>1 DEF Init, Fresh, Untouched, BackupMeansPublished, OutcomeIsTrue
<1> QED BY <1>2, <1>3, <1>4 DEF IInv

LEMMA NextInv == IInv /\ [Next]_vars => IInv'
<1> SUFFICES ASSUME IInv, [Next]_vars PROVE IInv'
  OBVIOUS
<1>1. Types' /\ Control' /\ Torn'
  BY NextTypes, NextControl, NextTorn DEF IInv
<1>2. Fresh' /\ Remembered'
  BY NextFresh, NextRemembered DEF IInv
<1>3. BackupMeansPublished' /\ OutcomeIsTrue'
  BY NextBackup, NextOutcome DEF IInv
<1> QED BY <1>1, <1>2, <1>3 DEF IInv

LEMMA Inductive == Spec => []IInv
BY InitInv, NextInv, PTL DEF Spec

\* All steps but these leave the edits on the branch and the backups alone.
LEMMA OnlyThese ==
  ASSUME IInv, [Next]_vars
  PROVE  \/ branch'.edits = branch.edits /\ backup' = backup /\ branch' = branch
         \/ Publish
         \/ pc = "removeBackup" /\ RemoveBackup
         \/ /\ branch.own < MaxCommits /\ backup' = backup
            /\ branch' = [branch EXCEPT !.own = @ + 1]
<1> USE DEF repositoryVars, workspaceVars, requestVars, Steps
<1>1. CASE Call \/ StartRecovery
  BY <1>1 DEF Call, StartReword, StartRemoval, StartRecovery
<1>2. CASE Step
  BY <1>2 DEF Step, RecoverNext, RecoverDone, Inspect, MakeRoot, WriteOwner, WriteJournal,
     FetchCheckRefs, DropCheckRefs, Rewrite, CreateLock, FillLock, Compare, MarkPublished,
     Unlock, CleanLocks, RemoveWorktree, RefuseRoot, RemoveRoot, RemoveCheckRefs,
     MarkCleaned, RemoveBackup, RemoveJournal
<1>3. CASE Fault
  BY <1>3 DEF Fault, FailEarly, FailPreparing, FailPublishing, FailCleaning, RemovePartly,
     Crash
<1>4. CASE User
  BY <1>4 DEF User, UserCommits, UserMovesBranch, UserTouches, UserStages, UserSwitches,
     UserLocks, UserUnlocks, UserOnly
<1>5. CASE UNCHANGED vars
  BY <1>5 DEF vars
<1> QED BY <1>1, <1>2, <1>3, <1>4, <1>5 DEF Next

\* A publication adds the edit that is underway, which nobody was told of yet.
LEMMA PublishIsFirst ==
  ASSUME IInv, Publish
  PROVE  op \in Edits /\ op \notin branch.edits /\ result[op] = "none"
<1>1. pc = "publish" /\ op \in Edits
  BY PublishMovesBranch DEF IInv
<1>2. result[op] = "none"
  BY <1>1, EditsAssumption DEF IInv, Control
<1>3. op \notin branch.edits
  BY <1>1 DEF IInv, Control, Remembered, Underway, Working, PublishingSteps, CleaningSteps
<1> QED BY <1>1, <1>2, <1>3

\* "Its backup proves that the commit happened": while a journal is pending,
\* its backup reference exists if and only if the branch was moved.
THEOREM BackupsProvePublication == Spec => []BackupMeansPublished
<1>1. IInv => BackupMeansPublished
  BY DEF IInv
<1> QED BY <1>1, Inductive, PTL

\* What reword() answers is what happened to the branch, after any failure of
\* the publication or of the cleanup.
THEOREM OutcomesAreTrue == Spec => []OutcomeIsTrue
<1>1. IInv => OutcomeIsTrue
  BY DEF IInv
<1> QED BY <1>1, Inductive, PTL

\* Once a call is over, by an answer or a crash, no later call and no recovery
\* publishes its edit or takes it back.
THEOREM NothingIsReplayed == Spec => NoLatePublication
<1>1. ASSUME IInv, [Next]_vars, NEW e \in Edits, result[e] # "none"
      PROVE  e \in branch'.edits <=> e \in branch.edits
  <2>1. CASE Publish
    BY <1>1, <2>1, PublishIsFirst, PublishMovesBranch DEF IInv
  <2>2. CASE RemoveBackup
    BY <2>2 DEF RemoveBackup
  <2>3. CASE branch'.edits = branch.edits
    BY <2>3
  <2>4. CASE branch.own < MaxCommits /\ branch' = [branch EXCEPT !.own = @ + 1]
    BY <1>1, <2>4, UserAdds DEF IInv
  <2> QED BY <1>1, <2>1, <2>2, <2>3, <2>4, OnlyThese
<1>2. IInv /\ [Next]_vars =>
        [\A e \in Edits : result[e] # "none" =>
           (e \in branch'.edits <=> e \in branch.edits)]_vars
  BY <1>1
<1> QED BY <1>2, Inductive, PTL DEF Spec, NoLatePublication

\* A lock file of another Git process is removed by that process or the user,
\* never by an edit that gives up nor by recovery.
THEOREM LocksOfOthersStay == Spec => ForeignLocksAreKept
<1>1. ASSUME IInv, [Next]_vars, NEW n \in Locks, lock[n] = "foreign", lock'[n] # "foreign"
      PROVE  UserUnlocks(n)
  <2> USE DEF Steps, IInv, Types, workspaceVars, repositoryVars
  <2>1. lock' # lock
    BY <1>1
  <2>2. ASSUME NEW m \in Locks, NEW from, NEW to, CreateLock(m, from, to) PROVE FALSE
    BY <1>1, <2>2, NoneAssumption DEF CreateLock
  <2>3. ASSUME \/ FillLock("HEAD.lock", "fillHead", "createIndex")
               \/ FillLock("index.lock", "fillIndex", "compare")
        PROVE  FALSE
    BY <1>1, <2>3 DEF FillLock, Torn, Locks
  <2>4. ASSUME Unlock \/ CleanLocks PROVE FALSE
    <3>1. PICK e \in Edits : lock' = Released(e)
      BY <1>1, <2>4 DEF Unlock, CleanLocks, Control, Working, CleaningSteps
    <3> QED BY <1>1, <3>1, EditsAssumption DEF Released
  <2>5. ASSUME NEW m \in Locks, UserLocks(m) PROVE FALSE
    BY <1>1, <2>5, NoneAssumption DEF UserLocks, Free
  <2>6. ASSUME NEW m \in Locks, UserUnlocks(m) PROVE UserUnlocks(n)
    BY <1>1, <2>6 DEF UserUnlocks
  <2>7. ~(Call \/ StartRecovery)
    BY <2>1 DEF Call, StartReword, StartRemoval, StartRecovery
  <2>8. Step => Locking \/ Unlock \/ CleanLocks
    BY <2>1 DEF Step, RecoverNext, RecoverDone, Inspect, MakeRoot, WriteOwner, WriteJournal,
       FetchCheckRefs, DropCheckRefs, Rewrite, Compare, Publish, MarkPublished, Locking,
       RemoveWorktree, RefuseRoot, RemoveRoot, RemoveCheckRefs, MarkCleaned, RemoveBackup,
       RemoveJournal
  <2>9. ~Fault
    BY <2>1 DEF Fault, FailEarly, FailPreparing, FailPublishing, FailCleaning,
       RemovePartly, Crash
  <2>10. User => \E m \in Locks : UserLocks(m) \/ UserUnlocks(m)
    BY <2>1 DEF User, UserCommits, UserMovesBranch, UserStages, UserSwitches
  <2>11. ~Locking
    BY <2>2, <2>3 DEF Locking, Locks
  <2>12. ~UNCHANGED vars
    BY <2>1 DEF vars
  <2> QED BY <1>1, <2>4, <2>5, <2>6, <2>7, <2>8, <2>9, <2>10, <2>11, <2>12 DEF Next
<1>2. IInv /\ [Next]_vars =>
        [\A n \in Locks : lock[n] = "foreign" /\ lock'[n] # "foreign" => UserUnlocks(n)]_vars
  BY <1>1
<1> QED BY <1>2, Inductive, PTL DEF Spec, ForeignLocksAreKept

\* CommitMessageEdit implements CommitMessageEditAtomic: whatever crashes, fails
\* or is committed meanwhile, an edit is one step on the head of the branch
\* that keeps the replaced head under its backup reference.
THEOREM EditsAreAtomic == Spec => ImplementsAtomicEdit
<1>1. Init => AtomicEdit!Init
  BY DEF Init, AtomicEdit!Init
<1>2. ASSUME IInv, [Next]_vars PROVE [AtomicEdit!Next]_<<branch, backup>>
  <2>1. CASE Publish
    <3>1. CASE pc' = "mark"
      <4>1. /\ branch' = [branch EXCEPT !.edits = @ \cup {op}]
            /\ backup' = [backup EXCEPT ![op] = branch]
        BY <1>2, <2>1, <3>1, PublishMovesBranch DEF Publish, IInv
      <4>2. AtomicEdit!Edit(op)
        BY <1>2, <2>1, <4>1, PublishIsFirst DEF AtomicEdit!Edit
      <4> QED BY <1>2, <2>1, <4>2, PublishIsFirst DEF AtomicEdit!Next
    <3>2. CASE pc' = "unlock"
      BY <1>2, <2>1, <3>2, PublishMovesBranch DEF IInv
    <3> QED BY <1>2, <2>1, <3>1, <3>2, PublishMovesBranch DEF IInv
  <2>2. CASE pc = "removeBackup" /\ RemoveBackup
    <3>1. target \in Edits /\ branch' = branch /\ backup' = [backup EXCEPT ![target] = None]
      BY <1>2, <2>2 DEF RemoveBackup, IInv, Control
    <3>2. CASE backup[target] = None
      BY <1>2, <3>1, <3>2 DEF IInv, Types
    <3>3. CASE backup[target] # None
      BY <3>1, <3>3 DEF AtomicEdit!Next, AtomicEdit!Forget
    <3> QED BY <3>2, <3>3
  <2>3. CASE /\ branch.own < MaxCommits /\ backup' = backup
             /\ branch' = [branch EXCEPT !.own = @ + 1]
    BY <2>3 DEF AtomicEdit!Next, AtomicEdit!UserCommits
  <2>4. CASE branch' = branch /\ backup' = backup
    BY <2>4
  <2> QED BY <1>2, <2>1, <2>2, <2>3, <2>4, OnlyThese
<1> QED BY <1>1, <1>2, Inductive, PTL DEF Spec, ImplementsAtomicEdit, AtomicEdit!Spec
=============================================================================
