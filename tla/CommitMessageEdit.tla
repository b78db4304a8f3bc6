------------------------- MODULE CommitMessageEdit -------------------------
(***************************************************************************)
(* Rewording a commit that is not the newest one rewrites the branch:      *)
(* electron/git/CommitMessageEditService.ts and its commitMessageEdit*.ts. *)
(*                                                                         *)
(* An edit inspects the branch, builds the rewritten commits in a private  *)
(* worktree, takes Git's own HEAD.lock and index.lock, looks again, and    *)
(* then moves the branch and creates a backup reference in one reference   *)
(* transaction.  A journal in the repository lets the next call clean up   *)
(* what a crash left behind.                                               *)
(*                                                                         *)
(* The application runs one edit, recovery or removal at a time: each is   *)
(* one job in the write lane (GitScheduler).  The user's Git commands run  *)
(* at any time and respect Git's locks.  The application may die between   *)
(* any two of its steps; what is on disk survives.                         *)
(*                                                                         *)
(* A commit is abstracted to the work it contains: how many commits of the *)
(* user, and which edits.  The branch only moves forward, so within one    *)
(* behaviour two equal values are one commit.                              *)
(***************************************************************************)
EXTENDS Naturals

CONSTANTS
  Edits,       \* identities of edits (randomUUID)
  None,        \* no edit, no lock, no commit
  FaultKinds,  \* what may go wrong: see Fail, Crash and RemovePartly
  MaxFaults,   \* bound: how often
  MaxCommits   \* bound: commits the user makes

ASSUME EditsAssumption == {None, "foreign"} \cap Edits = {}
ASSUME FaultsAssumption == FaultKinds \subseteq {"error", "crash", "partial"}
ASSUME BoundsAssumption == MaxFaults \in Nat /\ MaxCommits \in Nat

Locks == {"HEAD.lock", "index.lock"}
Commits == [own : 0 .. MaxCommits, edits : SUBSET Edits]

ASSUME NoneAssumption == None \notin Commits /\ None \notin {"foreign", "torn"}

VARIABLES
  \* the repository
  branch,     \* the commit the branch points to
  backup,     \* edit -> commit its backup reference keeps, or None
  attached,   \* HEAD is on the branch
  staged,     \* the index differs from HEAD
  lock,       \* owner of a Git lock file: an edit, "foreign", "torn" or None
  checkRefs,  \* edits with references fetched to look at the remotes
  worktrees,  \* edits whose private worktree is registered
  \* files of the application
  journal,    \* edit -> state of its journal, "none" without one
  oldHead,    \* edit -> oldHead of its journal
  root,       \* edit -> private directory: "absent", "bare" or "owned"
  \* the running process
  pc,         \* next step of the job that holds the write lane
  op,         \* edit that was asked for
  target,     \* edit that is being cleaned up or removed
  snap,       \* head of the first inspection
  completed,  \* the transaction has succeeded
  result,     \* edit -> what its caller was told; "unknown" after a crash
  faults      \* number of faults so far (bounds the model)

repositoryVars == <<branch, backup, attached, staged>>
workspaceVars == <<checkRefs, worktrees, journal, oldHead, root>>
requestVars == <<op, snap, completed, result>>
vars == <<repositoryVars, lock, workspaceVars, pc, target, requestVars, faults>>

Init ==
  /\ branch = [own |-> 0, edits |-> {}]
  /\ backup = [e \in Edits |-> None]
  /\ attached = TRUE
  /\ staged \in BOOLEAN
  /\ lock = [n \in Locks |-> None]
  /\ checkRefs = {}
  /\ worktrees = {}
  /\ journal = [e \in Edits |-> "none"]
  /\ oldHead = [e \in Edits |-> None]
  /\ root = [e \in Edits |-> "absent"]
  /\ pc = "idle"
  /\ op = None
  /\ target = None
  /\ snap = None
  /\ completed = FALSE
  /\ result = [e \in Edits |-> "none"]
  /\ faults = 0

Pending_Unpublished(e) == journal[e] = "preparing"  \* fault: not a published one
Pending(e) == journal[e] \in {"preparing", "published"}

\* The job ends; an edit's caller is told r.
Ends(r) ==
  /\ pc' = "idle"
  /\ op' = None
  /\ target' = None
  /\ snap' = None
  /\ completed' = FALSE
  /\ result' = IF op = None THEN result ELSE [result EXCEPT ![op] = r]

Steps(next) == pc' = next /\ UNCHANGED <<target, requestVars>>

\* What an edit reports at the end of its cleanup, successful or not.
Verdict == IF completed THEN "ok" ELSE "failed"

-----------------------------------------------------------------------------
(***************************************************************************)
(* Calls.  inspect(), reword() and backups() first recover what an earlier *)
(* process left.                                                           *)
(***************************************************************************)

StartReword(e) ==
  /\ pc = "idle"
  /\ result[e] = "none"
  /\ op' = e
  /\ pc' = "recover"
  /\ UNCHANGED <<repositoryVars, lock, workspaceVars, target, snap, completed, result, faults>>

StartRecovery ==
  /\ pc = "idle"
  /\ \E e \in Edits : Pending(e)
  /\ pc' = "recover"
  /\ UNCHANGED <<repositoryVars, lock, workspaceVars, target, requestVars, faults>>

\* recover() takes the pending journals one after the other.  It reads the
\* backup reference but nothing it learns from it survives the cleanup.
RecoverNext_Replays(e) ==              \* fault: an interrupted edit is resumed
  /\ pc = "recover"
  /\ Pending(e)
  /\ target' = e
  /\ pc' = "cleanLocks"
  /\ IF branch = oldHead[e]
     THEN /\ branch' = [branch EXCEPT !.edits = @ \cup {e}]
          /\ backup' = [backup EXCEPT ![e] = branch]
     ELSE UNCHANGED <<branch, backup>>
  /\ UNCHANGED <<attached, staged, lock, workspaceVars, requestVars, faults>>
RecoverNext(e) ==
  /\ pc = "recover"
  /\ Pending(e)
  /\ target' = e
  /\ pc' = "cleanLocks"
  /\ UNCHANGED <<repositoryVars, lock, workspaceVars, requestVars, faults>>

RecoverDone ==
  /\ pc = "recover"
  /\ \A e \in Edits : ~Pending(e)
  /\ IF op = None THEN Ends("none") ELSE Steps("inspect")
  /\ UNCHANGED <<repositoryVars, lock, workspaceVars, faults>>

-----------------------------------------------------------------------------
(***************************************************************************)
(* The edit.                                                               *)
(***************************************************************************)

\* inspectSnapshot(): clean, on a branch, no operation in progress.
Quiet == attached /\ ~staged

Inspect ==
  /\ pc = "inspect"
  /\ IF Quiet
     THEN /\ snap' = branch
          /\ pc' = "mkdir"
          /\ UNCHANGED <<op, target, completed, result>>
     ELSE Ends("refused")
  /\ UNCHANGED <<repositoryVars, lock, workspaceVars, faults>>

\* createEditWorkspace(): directory, owner.json, journal.
MakeRoot ==
  /\ pc = "mkdir"
  /\ root' = [root EXCEPT ![op] = "bare"]
  /\ Steps("owner")
  /\ UNCHANGED <<repositoryVars, lock, checkRefs, worktrees, journal, oldHead, faults>>

WriteOwner ==
  /\ pc = "owner"
  /\ root' = [root EXCEPT ![op] = "owned"]
  /\ Steps("journal")
  /\ UNCHANGED <<repositoryVars, lock, checkRefs, worktrees, journal, oldHead, faults>>

WriteJournal ==
  /\ pc = "journal"
  /\ journal' = [journal EXCEPT ![op] = "preparing"]
  /\ oldHead' = [oldHead EXCEPT ![op] = snap]
  /\ Steps("check")
  /\ UNCHANGED <<repositoryVars, lock, checkRefs, worktrees, root, faults>>

\* verifyUnpublished(): fetch into private references, look, remove them.
FetchCheckRefs(from, to) ==
  /\ pc = from
  /\ checkRefs' = checkRefs \cup {op}
  /\ Steps(to)
  /\ UNCHANGED <<repositoryVars, lock, worktrees, journal, oldHead, root, faults>>
DropCheckRefs(from, to) ==
  /\ pc = from
  /\ checkRefs' = checkRefs \ {op}
  /\ Steps(to)
  /\ UNCHANGED <<repositoryVars, lock, worktrees, journal, oldHead, root, faults>>

\* prepareRewrite() and verifyRewrite()
Rewrite ==
  /\ pc = "rewrite"
  /\ worktrees' = worktrees \cup {op}
  /\ Steps("recheck")
  /\ UNCHANGED <<repositoryVars, lock, checkRefs, journal, oldHead, root, faults>>

\* publishRewrite() creates each lock file ("wx") and then fills it.
CreateLock(n, from, to) ==
  /\ pc = from
  /\ IF lock[n] = None
     THEN /\ lock' = [lock EXCEPT ![n] = "torn"]
          /\ Steps(to)
     ELSE /\ Steps("unlock")
          /\ UNCHANGED lock
  /\ UNCHANGED <<repositoryVars, workspaceVars, faults>>
FillLock(n, from, to) ==
  /\ pc = from
  /\ lock' = [lock EXCEPT ![n] = op]
  /\ Steps(to)
  /\ UNCHANGED <<repositoryVars, workspaceVars, faults>>

\* The second inspection, under the locks.
Unchanged == Quiet /\ branch = snap
Compare ==
  /\ pc = "compare"
  /\ Steps(IF Unchanged THEN "publish" ELSE "unlock")
  /\ UNCHANGED <<repositoryVars, lock, workspaceVars, faults>>

\* "Publication is the commit point": one transaction that creates the backup
\* of the old head and moves the branch, if it still is at the old head.
Publish_Unconditional ==                       \* fault: no expected old value
  /\ pc = "publish"
  /\ branch' = [snap EXCEPT !.edits = @ \cup {op}]
  /\ backup' = [backup EXCEPT ![op] = snap]
  /\ completed' = TRUE
  /\ pc' = "mark"
  /\ UNCHANGED <<attached, staged, lock, workspaceVars, op, snap, result, target, faults>>
Publish_TwoStages ==            \* fault: the backup goes first, on its own
  /\ pc = "publish"
  /\ backup' = [backup EXCEPT ![op] = snap]
  /\ IF branch = snap
     THEN /\ branch' = [snap EXCEPT !.edits = @ \cup {op}]
          /\ completed' = TRUE
          /\ pc' = "mark"
     ELSE /\ pc' = "unlock"
          /\ UNCHANGED <<branch, completed>>
  /\ UNCHANGED <<attached, staged, lock, workspaceVars, op, snap, result, target, faults>>
Publish ==
  /\ pc = "publish"
  /\ IF branch = snap
     THEN /\ branch' = [snap EXCEPT !.edits = @ \cup {op}]
          /\ backup' = [backup EXCEPT ![op] = snap]
          /\ completed' = TRUE
          /\ pc' = "mark"
     ELSE /\ pc' = "unlock"
          /\ UNCHANGED <<branch, backup, completed>>
  /\ UNCHANGED <<attached, staged, lock, workspaceVars, op, snap, result, target, faults>>

MarkPublished ==
  /\ pc = "mark"
  /\ journal' = [journal EXCEPT ![op] = "published"]
  /\ Steps("unlock")
  /\ UNCHANGED <<repositoryVars, lock, checkRefs, worktrees, oldHead, root, faults>>

\* releaseEditLocks(): only files with this edit's contents.
Released_Any(e) == [n \in Locks |-> None]              \* fault: whoever's it is
Released(e) == [n \in Locks |-> IF lock[n] = e THEN None ELSE lock[n]]

\* The finally blocks: locks first, then the workspace.
Unlock ==
  /\ pc = "unlock"
  /\ lock' = Released(op)
  /\ target' = op
  /\ pc' = "cleanLocks"
  /\ UNCHANGED <<repositoryVars, workspaceVars, requestVars, faults>>

-----------------------------------------------------------------------------
(***************************************************************************)
(* cleanupEditWorkspace(), of an edit's own workspace or in recovery.      *)
(***************************************************************************)

CleanLocks ==
  /\ pc = "cleanLocks"
  /\ lock' = Released(target)
  /\ Steps("cleanTree")
  /\ UNCHANGED <<repositoryVars, workspaceVars, faults>>

\* A failing cleanup of its own workspace does not change what an edit reports;
\* a failing recovery is the end of the call that started it.
CleanupFails_Reported ==              \* fault: the finally block throws
  IF target = op THEN Ends("failed") ELSE Ends("refused")
CleanupFails ==
  IF target = op THEN Ends(Verdict) ELSE Ends("refused")

\* A private directory is only touched if owner.json says whose it is.
RemoveWorktree ==
  /\ pc = "cleanTree"
  /\ root[target] # "bare"
  /\ worktrees' = worktrees \ {target}
  /\ Steps("cleanRoot")
  /\ UNCHANGED <<repositoryVars, lock, checkRefs, journal, oldHead, root, faults>>

RefuseRoot ==
  /\ pc = "cleanTree"
  /\ root[target] = "bare"
  /\ CleanupFails
  /\ UNCHANGED <<repositoryVars, lock, workspaceVars, faults>>

RemoveRoot ==
  /\ pc = "cleanRoot"
  /\ root' = [root EXCEPT ![target] = "absent"]
  /\ Steps("cleanRefs")
  /\ UNCHANGED <<repositoryVars, lock, checkRefs, worktrees, journal, oldHead, faults>>

RemoveCheckRefs ==
  /\ pc = "cleanRefs"
  /\ checkRefs' = checkRefs \ {target}
  /\ Steps("cleanJournal")
  /\ UNCHANGED <<repositoryVars, lock, worktrees, journal, oldHead, root, faults>>

MarkCleaned ==
  /\ pc = "cleanJournal"
  /\ journal' = [journal EXCEPT ![target] = "cleaned"]
  /\ IF target = op THEN Ends(Verdict)
     ELSE pc' = "recover" /\ target' = None /\ UNCHANGED requestVars
  /\ UNCHANGED <<repositoryVars, lock, checkRefs, worktrees, oldHead, root, faults>>

-----------------------------------------------------------------------------
(***************************************************************************)
(* removeCompletedBackups(): on request, the backup reference of a cleaned *)
(* edit is deleted (if it still is what the journal says), then its journal*)
(***************************************************************************)

StartRemoval(e) ==
  /\ pc = "idle"
  /\ journal[e] = "cleaned"
  /\ backup[e] \in {None, oldHead[e]}
  /\ target' = e
  /\ pc' = "removeBackup"
  /\ UNCHANGED <<repositoryVars, lock, workspaceVars, requestVars, faults>>

RemoveBackup ==
  /\ pc = "removeBackup"
  /\ backup' = [backup EXCEPT ![target] = None]
  /\ Steps("removeJournal")
  /\ UNCHANGED <<branch, attached, staged, lock, workspaceVars, faults>>

RemoveJournal ==
  /\ pc = "removeJournal"
  /\ journal' = [journal EXCEPT ![target] = "none"]
  /\ Ends("none")
  /\ UNCHANGED <<repositoryVars, lock, checkRefs, worktrees, oldHead, root, faults>>

-----------------------------------------------------------------------------
(***************************************************************************)
(* Faults.  An error is anything that makes a step throw: a failing Git    *)
(* command or file operation, the remote timeout, or the caller's signal,  *)
(* which ensureActive() and every interruptible command look at.           *)
(***************************************************************************)

Faulty(what) ==
  /\ what \in FaultKinds
  /\ faults < MaxFaults
  /\ faults' = faults + 1

EarlySteps == {"recover", "inspect", "mkdir", "owner", "journal",
               "removeBackup", "removeJournal"}
PreparingSteps == {"check", "dropCheck", "rewrite", "recheck", "dropRecheck"}
PublishingSteps == {"createHead", "fillHead", "createIndex", "fillIndex",
                    "compare", "publish", "mark"}
CleaningSteps == {"cleanLocks", "cleanTree", "cleanRoot", "cleanRefs", "cleanJournal"}

\* Before there is a journal the call just fails, whatever exists by then.
FailEarly ==
  /\ pc \in EarlySteps
  /\ Faulty("error")
  /\ Ends("refused")
  /\ UNCHANGED <<repositoryVars, lock, workspaceVars>>

\* While preparing, or releasing the locks, cleanup follows; a failed rewrite
\* may have left a registered worktree.
FailPreparing ==
  /\ pc \in PreparingSteps \cup {"unlock"}
  /\ Faulty("error")
  /\ target' = op
  /\ pc' = "cleanLocks"
  /\ worktrees' \in {worktrees} \cup (IF pc = "rewrite" THEN {worktrees \cup {op}} ELSE {})
  /\ UNCHANGED <<repositoryVars, lock, checkRefs, journal, oldHead, root, requestVars>>

\* From the first lock on the locks are released first.  Failing to record the
\* publication is ignored.
FailPublishing ==
  /\ pc \in PublishingSteps
  /\ Faulty("error")
  /\ Steps("unlock")
  /\ UNCHANGED <<repositoryVars, lock, workspaceVars>>

FailCleaning ==
  /\ pc \in CleaningSteps
  /\ Faulty("error")
  /\ CleanupFails
  /\ UNCHANGED <<repositoryVars, lock, workspaceVars>>

\* fs.rmSync() removes entry by entry: it may stop, by an error or a crash,
\* when owner.json is gone and the directory is not.
RemovePartly ==
  /\ pc = "cleanRoot"
  /\ Faulty("partial")
  /\ root' = [root EXCEPT ![target] = "bare"]
  /\ CleanupFails
  /\ UNCHANGED <<repositoryVars, lock, checkRefs, worktrees, journal, oldHead>>

Crash ==
  /\ pc # "idle"
  /\ Faulty("crash")
  /\ Ends("unknown")
  /\ UNCHANGED <<repositoryVars, lock, workspaceVars>>

-----------------------------------------------------------------------------
(***************************************************************************)
(* The user's Git commands.                                                *)
(***************************************************************************)

UserOnly == UNCHANGED <<workspaceVars, pc, target, requestVars, faults>>
Free(n) == lock[n] = None

UserCommits ==
  /\ \A n \in Locks : Free(n)
  /\ attached
  /\ branch.own < MaxCommits
  /\ branch' = [branch EXCEPT !.own = @ + 1]
  /\ staged' = FALSE
  /\ UNCHANGED <<backup, attached, lock>>
  /\ UserOnly

\* From another worktree, or with update-ref: neither lock is needed, and the
\* index falls behind if HEAD is on the branch.
UserMovesBranch ==
  /\ branch.own < MaxCommits
  /\ branch' = [branch EXCEPT !.own = @ + 1]
  /\ staged' = (staged \/ attached)
  /\ UNCHANGED <<backup, attached, lock>>
  /\ UserOnly

UserStages ==
  /\ Free("index.lock")
  /\ staged' = ~staged
  /\ UNCHANGED <<branch, backup, attached, lock>>
  /\ UserOnly

UserSwitches ==
  /\ \A n \in Locks : Free(n)
  /\ attached' = ~attached
  /\ UNCHANGED <<branch, backup, staged, lock>>
  /\ UserOnly

\* A running Git command holds one of its locks for a while.
UserLocks(n) ==
  /\ Free(n)
  /\ lock' = [lock EXCEPT ![n] = "foreign"]
  /\ UNCHANGED repositoryVars
  /\ UserOnly
\* It ends; or the user deletes a lock file that nobody holds, as Git advises.
UserUnlocks(n) ==
  /\ lock[n] = "foreign" \/ (lock[n] = "torn" /\ pc = "idle")
  /\ lock' = [lock EXCEPT ![n] = None]
  /\ UNCHANGED repositoryVars
  /\ UserOnly

-----------------------------------------------------------------------------
Call == \E e \in Edits : StartReword(e) \/ StartRemoval(e)

Step ==
  \/ \E e \in Edits : RecoverNext(e)
  \/ RecoverDone
  \/ Inspect \/ MakeRoot \/ WriteOwner \/ WriteJournal
  \/ FetchCheckRefs("check", "dropCheck") \/ DropCheckRefs("dropCheck", "rewrite")
  \/ Rewrite
  \/ FetchCheckRefs("recheck", "dropRecheck") \/ DropCheckRefs("dropRecheck", "createHead")
  \/ CreateLock("HEAD.lock", "createHead", "fillHead")
  \/ FillLock("HEAD.lock", "fillHead", "createIndex")
  \/ CreateLock("index.lock", "createIndex", "fillIndex")
  \/ FillLock("index.lock", "fillIndex", "compare")
  \/ Compare \/ Publish \/ MarkPublished \/ Unlock
  \/ CleanLocks \/ RemoveWorktree \/ RefuseRoot \/ RemoveRoot
  \/ RemoveCheckRefs \/ MarkCleaned
  \/ RemoveBackup \/ RemoveJournal

Fault ==
  \/ FailEarly \/ FailPreparing \/ FailPublishing \/ FailCleaning
  \/ RemovePartly \/ Crash

User ==
  \/ UserCommits \/ UserMovesBranch \/ UserStages \/ UserSwitches
  \/ \E n \in Locks : UserLocks(n) \/ UserUnlocks(n)

Next == Call \/ StartRecovery \/ Step \/ Fault \/ User

Spec == Init /\ [][Next]_vars

\* Every command and file operation ends, and the commit editor or the list of
\* backups is opened again as long as a journal is pending.
FairSpec == Spec /\ WF_vars(Step) /\ WF_vars(StartRecovery)

-----------------------------------------------------------------------------
TypeOK ==
  /\ branch \in Commits
  /\ backup \in [Edits -> Commits \cup {None}]
  /\ attached \in BOOLEAN
  /\ staged \in BOOLEAN
  /\ lock \in [Locks -> Edits \cup {None, "foreign", "torn"}]
  /\ checkRefs \subseteq Edits
  /\ worktrees \subseteq Edits
  /\ journal \in [Edits -> {"none", "preparing", "published", "cleaned"}]
  /\ oldHead \in [Edits -> Commits \cup {None}]
  /\ root \in [Edits -> {"absent", "bare", "owned"}]
  /\ pc \in {"idle", "unlock"} \cup EarlySteps \cup PreparingSteps
            \cup PublishingSteps \cup CleaningSteps
  /\ op \in Edits \cup {None}
  /\ target \in Edits \cup {None}
  /\ snap \in Commits \cup {None}
  /\ completed \in BOOLEAN
  /\ result \in [Edits -> {"none", "ok", "failed", "refused", "unknown"}]
  /\ faults \in 0 .. MaxFaults

\* An edit is one atomic step on the head of the branch, whatever crashes,
\* fails or is committed while it is prepared: no work of the user is lost,
\* and the head it replaced is kept under its backup reference.
AtomicEdit == INSTANCE CommitMessageEditAtomic
ImplementsAtomicEdit == AtomicEdit!Spec

\* "Its backup proves that the commit happened": recovery may conclude from a
\* backup reference that the edit was published, and from its absence that it
\* was not, as long as the journal is pending.
BackupMeansPublished ==
  \A e \in Edits :
    /\ backup[e] # None => e \in branch.edits /\ backup[e] = oldHead[e]
    /\ e \in branch.edits /\ Pending(e) => backup[e] # None

\* What the caller is told is what happened to the branch, also when the
\* cleanup fails or the signal fires after the commit point.
OutcomeIsTrue ==
  \A e \in Edits :
    /\ result[e] = "ok" => e \in branch.edits
    /\ result[e] \in {"failed", "refused"} => e \notin branch.edits

\* "Never repeat a ref update on restart": once the call is over, by a return
\* or a crash, its edit is published if it was and never if it was not.
NoLatePublication ==
  [][\A e \in Edits : result[e] # "none" =>
       (e \in branch'.edits <=> e \in branch.edits)]_vars

\* A lock of another Git process is never removed, neither by an edit that
\* gives up nor by recovery.
ForeignLocksAreKept ==
  [][\A n \in Locks : lock[n] = "foreign" /\ lock'[n] # "foreign" => UserUnlocks(n)]_vars

\* An interrupted edit is cleaned up in the end, unless the removal of some
\* workspace has stopped halfway: a directory without owner.json beside a
\* pending journal makes every later recovery give up there.
HalfRemoved == \E e \in Edits : root[e] = "bare" /\ Pending(e)
RecoveryCompletes ==
  \A e \in Edits : journal[e] \in {"preparing", "published"}
                     ~> journal[e] \notin {"preparing", "published"} \/ HalfRemoved
=============================================================================
