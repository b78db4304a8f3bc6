----------------------------- MODULE AutoCommit -----------------------------
(***************************************************************************)
(* AI auto commit: electron/ai/AiAutoCommitIndexTransaction.ts with        *)
(* AutoCommitJournal.ts and AutoCommitRefRecovery.ts.                      *)
(*                                                                         *)
(* A run captures the changes as groups and commits one group after the    *)
(* other.  For each it takes Git's index.lock, prepares there the index    *)
(* that fits the new HEAD, writes a journal, lets Git commit from a        *)
(* private index, verifies what Git and the hooks made, and renames the    *)
(* lock over the index.  On failure it rolls the branch back by the unique *)
(* reflog action of the attempt; after a crash the journal decides.        *)
(*                                                                         *)
(* The application's own writes are excluded by the write lane, so one run *)
(* or recovery is in progress.  The user's Git commands are not: they move *)
(* the branch at any time and change the index under index.lock.  HEAD     *)
(* keeps its branch while the lock is held (git switch needs the lock).    *)
(*                                                                         *)
(* A commit is its history: the sequence of what was committed, with the   *)
(* reflog action it was committed under.                                   *)
(***************************************************************************)
EXTENDS Naturals, Sequences, SequencesExt

CONSTANTS
  Groups,       \* groups of the plan, committed in this order: 1 .. n
  None,
  Torn,         \* a journal that was created and not written
  FaultKinds,   \* what may go wrong
  MaxFaults,    \* bound: how often
  MaxForeign,   \* bound: changes the user makes meanwhile
  MaxAttempts   \* bound: attempts to commit a group

\* AutoCommitPlanValidator refuses a plan without groups.
ASSUME GroupsAssumption == Groups \subseteq Nat \ {0} /\ 1 \in Groups
ASSUME BoundsAssumption == {MaxFaults, MaxForeign, MaxAttempts} \subseteq Nat

AllFaults == {"crash", "error", "hook", "chain"}
ASSUME FaultsAssumption == FaultKinds \subseteq AllFaults

User == 0    \* the "reflog action" of commits that are not the program's
Hooked == 0  \* a tree that a hook made
Index == [groups : SUBSET Groups, user : SUBSET (1 .. MaxForeign), stat : 0 .. MaxForeign]
Contents == Groups \cup {Hooked} \cup (1 .. MaxForeign)
Commit == [action : 0 .. MaxAttempts, what : Contents]
Journals == [head : Seq(Commit), tree : Groups, action : 1 .. MaxAttempts,
             original : Index, prepared : Index]
NoLock == [owner |-> "none", index |-> None]

ASSUME JournalsAssumption == None # Torn /\ None \notin Journals /\ Torn \notin Journals

VARIABLES
  \* on disk
  log,        \* history of the branch
  index,      \* the index: groups and work of the user it contains, stat data
  lock,       \* index.lock: its owner and what the file contains
  journal,    \* ogc-ai-autocommit.json
  \* the running application
  pc,         \* next step
  expHead,    \* expectedHead
  expIndex,   \* expectedRealIndexFingerprint
  group,      \* group being committed
  attempt,    \* number of the reflog action
  rollback,   \* value of the ref the rollback has read, and where it goes
  \* history and bounds
  staged,     \* groups the user had staged before
  doubtful,   \* what no rollback accounts for (HookAdds, ReadFailsUnborn)
  told,       \* group -> what the caller was told
  foreign,    \* changes the user made
  faults      \* faults so far

disk == <<log, index, lock, journal>>
run == <<expHead, expIndex, group, attempt, rollback>>
history == <<staged, doubtful, told, foreign, faults>>
vars == <<disk, pc, run, history>>

Own(a, c) == c.action = a /\ a # User
CommittedOf(s) == {s[i].what : i \in {j \in DOMAIN s : s[j].action # User}}
Committed == CommittedOf(log)
Fingerprint(ix) == [ix EXCEPT !.stat = 0]   \* entries and flags, not stat data

Init ==
  /\ log = <<>>
  /\ staged \in {{}, {1}} /\ doubtful = {}
  /\ index = [groups |-> staged, user |-> {}, stat |-> 0]
  /\ lock = NoLock
  /\ journal = None
  /\ pc = "idle"
  /\ expHead = None /\ expIndex = None /\ group = None /\ attempt = 0 /\ rollback = None
  /\ told = [g \in Groups |-> "none"]
  /\ foreign = 0
  /\ faults = <<>>

Fault(kind) ==
  /\ kind \in FaultKinds
  /\ Len(faults) < MaxFaults
  /\ faults' = Append(faults, kind)

Step(from, to) == pc = from /\ pc' = to

-----------------------------------------------------------------------------
(***************************************************************************)
(* initialize(): HEAD and index are read, the snapshot is taken, and both  *)
(* are read again.  A journal is recovered first and ends the run.         *)
(* A commit that was left without its index would look like changes the    *)
(* user has staged: after one the model starts no further run.             *)
(***************************************************************************)
Capture ==
  /\ Step("idle", "captured")
  /\ journal = None /\ doubtful = {}
  /\ attempt < MaxAttempts
  /\ Groups \ Committed # {}
  /\ expHead' = log
  /\ expIndex' = Fingerprint(index)
  /\ UNCHANGED <<disk, group, attempt, rollback, history>>

Captured ==
  /\ pc = "captured"
  /\ pc' = IF log = expHead /\ Fingerprint(index) = expIndex THEN "ready" ELSE "idle"
  /\ UNCHANGED <<disk, run, history>>

\* commit() and the beginning of publishBatch(), up to the lock.
NextGroup == CHOOSE g \in Groups \ Committed : \A h \in Groups \ Committed : g <= h

CheckHead == pc = "ready" /\ Groups \ Committed # {} /\ log = expHead

Begin ==
  /\ CheckHead
  /\ attempt < MaxAttempts
  /\ lock = NoLock                     \* open(index.lock, "wx")
  /\ lock' = [owner |-> "app", index |-> None]
  /\ group' = NextGroup
  /\ attempt' = attempt + 1
  /\ pc' = "seed"
  /\ told' = [told EXCEPT ![NextGroup] = "none"]
  /\ UNCHANGED <<log, index, journal, expHead, expIndex, rollback, staged, doubtful, foreign, faults>>

EndRun ==   \* the plan is done, a check above failed, or the run is cancelled
  /\ Step("ready", "idle")
  /\ UNCHANGED <<disk, run, history>>

\* seedLockedIndex(), the two comparisons, and the update of the copy
Seed ==
  /\ pc = "seed"
  /\ IF Fingerprint(index) = expIndex
     THEN /\ lock' = [lock EXCEPT !.index = [index EXCEPT !.groups = @ \cup {group}]]
          /\ pc' = "prepare"
     ELSE UNCHANGED lock /\ pc' = "clear"
  /\ UNCHANGED <<log, index, journal, run, history>>

\* The second look at HEAD and AutoCommitJournal.prepare(): the file is
\* created exclusively ("torn") and then written.
Prepare ==
  /\ pc = "prepare"
  /\ IF log = expHead /\ journal = None
     THEN journal' = Torn /\ pc' = "write"
     ELSE UNCHANGED journal /\ pc' = "clear"
  /\ UNCHANGED <<log, index, lock, run, history>>

WriteJournal ==
  /\ Step("write", "commit")
  /\ journal' = [head |-> expHead, tree |-> group, action |-> attempt,
                 original |-> index, prepared |-> lock.index]
  /\ UNCHANGED <<log, index, lock, run, history>>

-----------------------------------------------------------------------------
(***************************************************************************)
(* git commit, with hooks that refuse, change the tree or commit again: a  *)
(* Git process of its own, so that others may move the branch before it.   *)
(* When a command is killed or fails it may have moved the branch.         *)
(***************************************************************************)
Mine(what) == [action |-> attempt, what |-> what]

GitCommits ==
  /\ Step("commit", "verify")
  /\ log' = Append(log, Mine(group))
  /\ UNCHANGED <<index, lock, journal, run, history>>

GitCommitsWithHooks ==
  /\ pc = "commit"
  /\ \/ Fault("hook") /\ log' = Append(log, Mine(Hooked)) /\ pc' = "verify"
     \/ Fault("chain") /\ log' = Append(log, Mine(group)) /\ pc' = "hook"
  /\ UNCHANGED <<index, lock, journal, run, staged, doubtful, told, foreign>>

\* When somebody else has committed in between, the first commit of the attempt
\* is below a foreign one, where no rollback looks for it.
HookAdds ==
  /\ log' = Append(log, Mine(Hooked))
  /\ doubtful' = IF Own(attempt, Last(log)) THEN doubtful ELSE doubtful \cup {group}

HookCommits ==
  /\ Step("hook", "verify")
  /\ HookAdds
  /\ UNCHANGED <<index, lock, journal, run, staged, told, foreign, faults>>

GitFails ==
  /\ pc \in {"commit", "hook"} /\ pc' = "rollback"
  /\ Fault("error")
  /\ \/ UNCHANGED <<log, doubtful>>
     \/ pc = "commit" /\ log' = Append(log, Mine(group)) /\ UNCHANGED doubtful
     \/ pc = "hook" /\ HookAdds
  /\ UNCHANGED <<index, lock, journal, run, staged, told, foreign>>

\* HEAD, its parents and its tree are those of the expected commit.
Verified_Moved == log # expHead   \* fault: tree and parents not compared
Verified == log = Append(expHead, Mine(group))

Verify ==
  /\ pc = "verify"
  /\ pc' = IF Verified THEN "promote" ELSE "rollback"
  /\ UNCHANGED <<disk, run, history>>

Promote ==   \* rename(index.lock, index), and the expectations of the next group
  /\ Step("promote", "clear")
  /\ index' = lock.index
  /\ lock' = NoLock
  /\ expHead' = Append(expHead, Mine(group))
  /\ expIndex' = Fingerprint(lock.index)
  /\ told' = [told EXCEPT ![group] = "committed"]
  /\ UNCHANGED <<log, journal, group, attempt, rollback, staged, doubtful, foreign, faults>>

\* rollbackAutoCommitRef(): the commits on top that carry the attempt's action
\* are taken off; anything else on top makes it unsafe.
OwnSuffix(s) == {i \in DOMAIN s : \A j \in i .. Len(s) : Own(attempt, s[j])}
WithoutOwn(s) == SubSeq(s, 1, CHOOSE n \in 0 .. Len(s) : OwnSuffix(s) = n + 1 .. Len(s))

ReadRollback ==
  /\ pc = "rollback"
  /\ IF log = expHead
     THEN pc' = "clear" /\ UNCHANGED <<rollback, told>>
     ELSE IF OwnSuffix(log) = {}
     THEN pc' = "unlock" /\ told' = [told EXCEPT ![group] = "unsafe"] /\ UNCHANGED rollback
     ELSE /\ rollback' = [from |-> log, to |-> WithoutOwn(log)]
          /\ pc' = "updateRef"
          /\ UNCHANGED told
  /\ UNCHANGED <<disk, expHead, expIndex, group, attempt, staged, doubtful, foreign, faults>>

\* git update-ref <ref> <to> <from>
UpdateRef_Blind ==                     \* fault: without the old value
  /\ Step("updateRef", "clear")
  /\ log' = rollback.to
  /\ rollback' = None
  /\ UNCHANGED <<index, lock, journal, expHead, expIndex, group, attempt, history>>
UpdateRef ==
  /\ pc = "updateRef"
  /\ IF log = rollback.from
     THEN log' = rollback.to /\ pc' = "clear" /\ UNCHANGED told
     ELSE UNCHANGED log /\ pc' = "unlock" /\ told' = [told EXCEPT ![group] = "unsafe"]
  /\ rollback' = None
  /\ UNCHANGED <<index, lock, journal, expHead, expIndex, group, attempt, staged, doubtful, foreign, faults>>

\* The finally block.  The lock file is removed whoever owns it.
Clear ==
  /\ Step("clear", "unlock")
  /\ journal' = None
  /\ UNCHANGED <<log, index, lock, run, history>>

Unlock ==
  /\ pc = "unlock"
  /\ lock' = NoLock
  /\ pc' = IF told[group] = "committed" THEN "ready" ELSE "idle"
  /\ told' = [told EXCEPT ![group] = IF @ = "none" THEN "failed" ELSE @]
  /\ group' = None
  /\ UNCHANGED <<log, index, journal, expHead, expIndex, attempt, rollback, staged, doubtful, foreign, faults>>

\* An exception, a failing command or a cancellation at a step.
Guarded == {"seed", "prepare", "write", "verify", "promote", "rollback", "updateRef", "clear"}
Caught_Early ==                        \* fault: no rollback
  [step \in Guarded |-> IF step = "clear" THEN "unlock" ELSE "clear"]
Caught ==
  [step \in Guarded |->
     IF step \in {"seed", "prepare", "write"} THEN "clear"
     ELSE IF step \in {"verify", "promote"} THEN "rollback" ELSE "unlock"]

Error ==
  /\ pc \in Guarded
  /\ Fault("error")
  /\ pc' = Caught[pc]
  /\ told' = IF pc \in {"rollback", "updateRef"} THEN [told EXCEPT ![group] = "unsafe"] ELSE told
  /\ rollback' = None
  /\ UNCHANGED <<disk, expHead, expIndex, group, attempt, staged, doubtful, foreign>>

\* A branch that cannot be read counts as missing, which is what is expected of
\* a branch without commits: a commit of the attempt on it goes unnoticed.
ReadFailsUnborn ==
  /\ Step("rollback", "clear")
  /\ expHead = <<>>
  /\ Fault("error")
  /\ doubtful' = doubtful \cup Committed
  /\ UNCHANGED <<disk, run, staged, told, foreign>>

Crash ==
  /\ pc \notin {"idle", "down"}
  /\ Fault("crash")
  /\ pc' = "down"
  /\ expHead' = None /\ expIndex' = None /\ group' = None /\ rollback' = None
  /\ UNCHANGED <<disk, attempt, staged, doubtful, told, foreign>>

Restart ==
  /\ Step("down", "idle")
  /\ UNCHANGED <<disk, run, history>>

-----------------------------------------------------------------------------
(***************************************************************************)
(* AutoCommitJournal.recover(), called when a repository is opened and by  *)
(* initialize().  Whatever it does not recognise stays as it is.           *)
(***************************************************************************)
OwnsLock_Original == lock.owner = "app" /\ lock.index = journal.original  \* fault
OwnsLock == lock.owner = "app" /\ lock.index = journal.prepared
Readable == journal # None /\ journal # Torn

RecoverUncommitted ==
  /\ pc = "idle"
  /\ Readable
  /\ log = journal.head
  /\ index = journal.original
  /\ lock = NoLock \/ OwnsLock
  /\ lock' = NoLock
  /\ pc' = "recovered"
  /\ UNCHANGED <<log, index, journal, run, history>>

Recognised == log = Append(journal.head, [action |-> journal.action, what |-> journal.tree])

RecoverCommitted ==
  /\ pc = "idle"
  /\ Readable
  /\ Recognised
  /\ \/ OwnsLock /\ index = journal.original /\ index' = lock.index /\ lock' = NoLock
     \/ lock = NoLock /\ index = journal.prepared /\ UNCHANGED <<index, lock>>
  /\ pc' = "recovered"
  /\ UNCHANGED <<log, journal, run, history>>

RecoverClear ==
  /\ Step("recovered", "idle")
  /\ journal' = None
  /\ UNCHANGED <<log, index, lock, run, history>>

-----------------------------------------------------------------------------
(***************************************************************************)
(* The user's Git commands.                                                *)
(***************************************************************************)
Moves == foreign < MaxForeign /\ foreign' = foreign + 1
ByUser == UNCHANGED <<journal, pc, run, staged, doubtful, told, faults>>

UserMovesBranch ==   \* update-ref, push into the repository: no index.lock
  /\ Moves
  /\ log' = Append(log, [action |-> User, what |-> foreign'])
  /\ UNCHANGED <<index, lock>>
  /\ ByUser

UserLocks ==
  /\ lock = NoLock
  /\ lock' = [owner |-> "user", index |-> None]
  /\ UNCHANGED <<log, index, foreign>>
  /\ ByUser

UserUnlocks ==       \* git add, git commit, git status
  /\ lock.owner = "user"
  /\ lock' = NoLock
  /\ \/ Moves /\ index' = [index EXCEPT !.user = @ \cup {foreign'}] /\ UNCHANGED log
     \/ Moves /\ index' = [index EXCEPT !.stat = foreign'] /\ UNCHANGED log
     \/ Moves /\ log' = Append(log, [action |-> User, what |-> foreign']) /\ UNCHANGED index
     \/ UNCHANGED <<log, index, foreign>>
  /\ ByUser

UserRemovesStaleLock ==   \* as Git advises
  /\ pc = "down"
  /\ lock.owner = "app"
  /\ Moves
  /\ lock' = NoLock
  /\ UNCHANGED <<log, index>>
  /\ ByUser

Publish == Captured \/ Begin \/ Seed \/ Prepare \/ WriteJournal \/ GitCommits \/ HookCommits
           \/ Verify \/ Promote \/ ReadRollback \/ UpdateRef \/ Clear \/ Unlock
Recover == RecoverUncommitted \/ RecoverCommitted \/ RecoverClear
UserStep == UserMovesBranch \/ UserLocks \/ UserUnlocks \/ UserRemovesStaleLock

Next ==
  \/ Capture \/ EndRun \/ Publish
  \/ GitCommitsWithHooks \/ GitFails \/ Error \/ ReadFailsUnborn \/ Crash \/ Restart
  \/ Recover
  \/ UserStep

\* Commands end, those of the user too, and the repository is opened again
\* after a crash and whenever the recovery found it locked.
Fairness ==
  WF_vars(Publish) /\ WF_vars(Restart) /\ SF_vars(Recover) /\ WF_vars(UserUnlocks)

Spec == Init /\ [][Next]_vars /\ Fairness

-----------------------------------------------------------------------------
TypeOK ==
  /\ log \in Seq(Commit)
  /\ index \in Index
  /\ lock \in [owner : {"none", "user", "app"}, index : Index \cup {None}]
  /\ journal \in {None, Torn} \cup Journals
  /\ pc \in Guarded \cup {"idle", "captured", "ready", "commit", "hook", "unlock", "down", "recovered"}
  /\ told \in [Groups -> {"none", "committed", "failed", "unsafe"}]
  /\ attempt \in 0 .. MaxAttempts
  /\ doubtful \subseteq Contents

\* Unless a journal says otherwise, the index contains exactly what the program
\* committed, next to what the user had staged: a commit never comes without
\* its index (the next commit of the user would revert it), nor an index
\* without its commit.  Excepted are the commits publishBatch() loses: one that a
\* foreign commit separated from the commit a hook added, and one on a branch
\* that was empty before and could not be read afterwards.
IndexFollowsHead ==
  journal = None => index.groups \ doubtful = (staged \cup Committed) \ doubtful

\* A group reported as committed is on the branch and in the index; one
\* reported as failed is not on the branch, with the same exceptions.
OutcomeIsTrue ==
  \A g \in Groups :
    /\ told[g] = "committed" => g \in Committed /\ g \in index.groups
    /\ told[g] = "failed" => g \notin Committed \ doubtful

UserCommits == {log[i].what : i \in {j \in DOMAIN log : log[j].action = User}}

\* No step of the program takes a commit of the user off the branch or
\* something the user staged out of the index.
ForeignWorkIsKept == [][UserCommits \subseteq UserCommits' /\ index.user \subseteq index'.user]_vars

\* An interruption alone never needs the user: as long as nobody else changed
\* the repository, a written journal is resolved when it is opened again.
RecoveryCompletes ==
  (Readable /\ pc = "down" /\ foreign = 0 /\ ToSet(faults) = {"crash"})
    ~> (journal = None \/ foreign > 0 \/ ToSet(faults) # {"crash"})

=============================================================================
