# Verification of Open-Git-Control

TLA+ modules, TLC configurations and TLAPS proofs for the parts of
Open-Git-Control that change a user's repository or what the program keeps
about it: the scheduler every Git process passes through, and the services that
rewrite history, switch branches, commit, push, publish, run commands, assign
task branches and clean up. Each definition is translated from the source named
in `PROJECT.json` under `map`; paths below are relative to `src/`.

## 1. Inventory

Open-Git-Control is an Electron program. The main process (`electron/`) owns
the repositories: it starts Git processes, keeps journals and settings on disk
and talks to hosting services. The window (`src/`) shows state and asks for
operations over IPC. A recovery program in Rust (`recovery/`) replaces a broken
installation. JavaScript runs one callback at a time, so what interleaves are
`await`s, ends of processes, timers, cancellations, other programs on the same
repository, and crashes.

| Component | State | Operations | Hard part | Correct when |
|---|---|---|---|---|
| **Git job scheduler** `electron/GitScheduler.ts` | per repository: sorted queue, read lane, write lane, network lane, coalescing map | `schedule`, abort, end of a process, `close` | aborted jobs still run; preemption; starvation; shutdown | writes are alone, nothing accepted is lost or stalls, order is kept |
| **Repository keys** `GitScheduler.ts`, `git/RepositoryCommonDirectory.ts` | cache path → key | `canonicalRepoKey`, `isRepositoryBusy` | symlinks, linked worktrees, directories that become repositories later | one repository has one queue; a busy one is seen busy |
| **Commit message editing** `git/CommitMessageEditService.ts`, `git/commitMessageEdit*.ts` | journal, private worktree, Git locks, backup references | `inspect`, `reword`, `recover`, `removeCompletedBackups` | crash between any two steps; user commits meanwhile | an edit is atomic, reported truthfully, cleaned up |
| **Branch change** `main-process/BranchChangeService.ts`, `branchChangeGit.ts` | previews, journal of sessions, stashes | `inspect`, `execute`, `list`, `restore`, `cancel` | crash between stash, switch, apply and drop; others renumber the stack | no change is lost, applied twice unseen, or orphaned |
| **Run workflows** `main-process/RepositoryRunService.ts` | active run, child process, timers, output buffer | `start`, `stop`, events of the process, `isRepositoryBusy` | two awaits before a start; processes that do not die; held streams | one command at a time, stops complete |
| **AI auto commit** `ai/AiAutoCommitIndexTransaction.ts`, `AutoCommitJournal.ts`, `AutoCommitRefRecovery.ts` | private index, journal, index.lock | `initialize`, `commit`, `dispose`, recovery | hooks change the tree; crash between commit and index | own commits are rolled back exactly, foreign ones never |
| **Repository publication** `hosting/RepositoryPublication*.ts` | stored record with a stage | `prepare`, `connect`, `finish` | the answer to a creation is lost | no second repository unasked, no adoption of a foreign one |
| **Remote transfers** `git/RemoteTransferService.ts` and its helpers | reviewed plan, leases, active plans | `planPush`, `executePush`, `retryPush` | partial success, retry, others push meanwhile | only reviewed commits are replaced, results are true |
| **Planner and task work** `main-process/PlannerWork*.ts` | planning document per branch, registry, journal of starts | `inspect`, `start`, `recover`, `update`, archiving | the document changes with every checkout; checkout done, assignment not | a started branch is assigned or offered, work is not cleaned away |
| **Maintenance** `StorageMaintenanceService.ts`, `storageMetadata.ts`, `MaintenanceScheduler.ts`, `repoStore.ts` | list of repositories, return tickets, observations | `perform`, list changes, restore | awaits between look and deletion; two files written one after the other | nothing in use is taken out or deleted |
| Job registry `repoJobRegistry.ts`, `RepositoryCommitProtection.ts` | active jobs, generation | `begin`, `complete`, `cancelForRepoChange` | cancellation of work that cannot be interrupted | a left repository gets no late changes |
| Runner, index-lock recovery, secret scan, updater, stores, watchers, caches of the window, hosting providers, branch cleanup, untracking, IPC and UI | see `PROJECT.json` | | | |

How they interact: every service calls `GitRunner`, which schedules one job per
Git command, or holds the write lane for a whole operation
(`withExclusiveWrite`). Commit message editing, branch change, auto commit and
starting a task are such operations, so within the program they exclude each
other and all other writes; their models therefore let one operation run at a
time, and take this from `GitScheduler` (`WriteRunsAlone`) and `RepositoryKeys`
(`RepositoryWritesExclusive`). The user's own Git commands are under no
scheduler and interleave with every step. Starting a task calls
`BranchChangeService.executeLocked` within its own write lane. Maintenance asks
`isRepositoryBusy` of the scheduler, the registry and the run service; its
model has the answer as the set `busy`.

The hazards, each at its line and with the properties that cover it, are listed
in `PROJECT.json`.

## 2. Modules

| Module | Models | Role |
|---|---|---|
| `GitScheduler` | `GitScheduler.ts` for one repository | detailed specification |
| `RepositoryLock` | what the write lane promises | abstract; `GitScheduler` implements it |
| `RepositoryKeys` | which queue a path gets | detailed |
| `CommitMessageEdit` | the rewording of an older commit and its recovery | detailed |
| `CommitMessageEditAtomic` | an edit as one step on the branch | abstract; `CommitMessageEdit` implements it |
| `BranchChange` | stash, switch, restore, and their journal | detailed |
| `RepositoryRun` | workflows of shell commands | detailed |
| `AutoCommit` | the transaction of each group, rollback, recovery | detailed |
| `RepositoryPublication` | creation, connection and confirmation of a remote repository | detailed |
| `RemoteTransfer` | a push plan, its execution and its retries | detailed |
| `PlannerWork` | task branches, the planning document and what makes up for it | detailed |
| `RepositoryRetention` | the repository list and the deletion of metadata | detailed |
| `*_proofs` | | theorems about the module they are named after (section 4) |
| `MC*` | instances for TLC | |

In every module an operator whose name ends in a suffix (`FetchVictims_Manual`)
and whose comment begins with *fault* is the following definition with a
plausible bug. Nothing uses them; `PROJECT.json` pairs each with a property
that notices it.

### GitScheduler

State: `queue` with `ahead` (the entries in front of each entry; together they
are the sorted array), the lanes `reads`, `write`, `network`, the map
`coalesced`, and per call its kind, key, signal and outcome. Actions:
`Schedule` (with preemption, insertion and the trailing `pump`), `Join`
(coalescing), `Refuse` (after `close`), `Abort` (the listener of the caller's
signal), `Finish` (the continuation of `execute`), `Close` and `Closed`.
`Pump(W, R, X, N, ord, kd)` describes the result of the loop in `pump()`: first
the network lane, then the write lane, then reads under the two limits.
A call's identity can be used again once its promise settled, so behaviours
are infinite without counters.

### RepositoryKeys

A path leads to a directory; a directory is missing, plain, a repository or a
linked worktree (`common`). The key comes from the common directory, the real
path, or the spelling, and stays in `cache`. The user creates directories,
repositories and worktrees at any time, and the program may use any path before
it leads to a repository: `early` is the history of those paths. What the
comment of `canonicalRepoKey()` promises (`AliasesShareOneQueue`) fails for them;
the other properties except exactly them.

### CommitMessageEdit

One step of `reword`, `recover` or `removeCompletedBackups` is one action named
for what it does on disk (`MakeRoot`, `WriteOwner`, `WriteJournal`,
`CreateLock`, `FillLock`, `Publish`, `MarkPublished`, ...). A commit is the work
it contains. The fault actions cover an error at every step, a crash at every
step, and a removal that stops halfway. A failing reference transaction is taken
to have changed nothing, which is what Git guarantees. Locks are files with an
owner: an edit, another Git process, or nobody yet ("torn").

### BranchChange

The working tree is a set of changes; the stash stack is a sequence of entries
with the session they are tagged with, a number for their object id, and what
they saved. One action per step that touches the disk or re-reads it:
`Prepare`, `Push`, `Record`, `Check`, `Switch`, `Switched`, `Catch` for
`executeWork`; `Ready`, `Apply`/`Collide`, `Conflict`, `Applied`, `Confirm`,
`Latest`, `Ref`, `Drop`, `Forget`, `Retain` for `applyLocked`. `Fail` is an
exception at a step and goes where the code's `try` blocks lead it; cancellation
is such an exception. `PushHalfway`, `SwitchInterrupted` and
`DropReportedFailed` are commands that had an effect and reported an error.
`Listed` is the clean-up `list()` performs on every call. `made`, `attempted`
and `taken` are history: what the user wants kept, which stashes were applied,
and which the user removed himself.

Assumption `QuietRemoval`: from the last verification of the restored work to
`stash drop` (steps "latest", "ref" and "drop") nobody throws work away or drops
a stash, for then the work the code has verified may be gone when it drops its
own copy. In the last gap, between `rev-parse stash@{n}` and
`stash drop stash@{n}`, nobody pushes or pops either: Git offers no way to drop
a stash by object id, so the code cannot close that gap. Pushes and pops of
others between the reading of the stack and the check of the reference are in
the model, and renumber it; everything before is unrestricted.

### RepositoryRun

A `start()` call passes two awaits with a check before, between and after. A
process goes from alive to exited to closed, the last only when no descendant
holds its streams (`HeldStreams`). `Stop` sets the grace timer, `Escalate` the
force-stop timer, `GiveUp` ends the run and remembers the process in
`unconfirmed`. The system may refuse a signal to a living process (`Refused`, at
most `MaxRefused` of them): the code then ends the run as if the process had
never started. `refused` is the history of these runs.

### AutoCommit

A commit is its history, `log`: what was committed and under which reflog
action (0 is the user). The index is the set of groups and of the user's work
it contains, and a stat counter that `git status` may advance. `Capture` and
`Captured` are the two reads of `initialize()`; `Begin` to `Promote` are the
steps of `publishBatch()`: take `index.lock`, seed and prepare the new index in
it, write the journal, let Git commit, verify, rename the lock over the index.
A hook changes the tree of the commit or commits once more; the second is a step
of its own ("hook", `HookCommits`), for it is another Git process and a commit of
somebody else may land between the two. `GitFails` reports failure with or
without a commit. `ReadRollback`, `UpdateRef`, `Clear` and `Unlock` are the catch
and finally blocks; `Caught` says where an error leads from each step. After
`Crash`, `Restart` leads to one of the three recoveries of the journal. The user
moves the branch at any time and changes the index under `index.lock`.

The history variable `doubtful` holds what no rollback accounts for: a commit
that a foreign one separates from the hook's commit above it (the rollback stops
at the first foreign entry of the reflog, takes back the hook's commit only and
clears the journal), and the commits of a branch that had none before and could
not be read (a failed read looks like the expected unborn branch,
`ReadFailsUnborn`). The properties except exactly these commits.

### RepositoryPublication

A call works on a copy of the stored record (`rec`) and saves it where the code
does (`Save`); `Fails` saves the copy, `Crash` loses it. Repositories are
numbered as they come into being. A creation request is answered (`Created`),
refused (`Refused`) or neither (`Unanswered`): then it is `inFlight` and takes
effect at any later time (`LateEffect`) or never. `mine` are the repositories
that came from such requests, `confirmed` those the user was shown, `asked` the
calls that asked for a repetition. Others create and delete repositories under
the same names; the user removes the remote.

### RemoteTransfer

A plan holds the commits to publish and, if forced, a lease per endpoint. Each
call of `executePush()` or `retryPush()` has its record in `call`: the claim on
the plan (`active`), authorisation, the validation, one round per endpoint or
one for a group, and its `results`. `Push` fixes the argument of
`--force-with-lease` (`LeaseArgument`) from the plan; Git compares the endpoint
with that argument and nothing else (`Accepts`). `Pushed` lets any part of the
references Git would accept arrive, with a report of each or with none;
`PushResult` translates the report. `seen` records which references were ever at
the captured commit, `landed` which were set by which call, `reviewed` what each
endpoint held when the plan was made. Meanwhile the endpoints,
the repository, the policy of the secret scan and the user's mind change.

### PlannerWork

The planning document is a file of the working tree, so `docs` holds one
version per branch, unless the file is untracked (`shared`). `job` is what holds
the write lane, with its next step. A start writes record, pointer and index
(`WriteRecord`, `WritePointer`, `WriteIndex`), checks out the branch, confirms,
carries the assignment into the document of that branch (`Carry`), registers it
and drops its journal. `Caught` and `Fails` are its catch blocks; `Caught` may
fail to read HEAD, which the code takes for "not switched" and drops the journal.
`Unindex` may fail to read the index, which the code takes for an empty one and
writes back without anybody's entry. The history variables `unread` (branches
given up that way), `unlisted` (an index was lost that way) and `untold` (tasks
some save of which never reached the registry) name what the properties except.
`Recover`, `Archive`, `AssignBranch` and `Edit` change the document; `CleanUp` is
the branch cleanup with its question to the registry (`Protected`); `Switch` and
`DeleteBranch` are a terminal.

### RepositoryRetention

The list (`registry`) and the maintenance state are two files, the state saved
first (`Change`). A pass (`pass`) starts one worker per listed repository; a
worker probes, looks for a copy elsewhere, probes again and takes the entry out
(`Probe`, `AfterRecovery`, `Reappeared`, `TakeOut`); after all of them
`CleanMetadata` deletes what belongs to nobody, and `Finish` saves. A worker
whose removal fails ends its pass; the other one goes on by itself (`late`), into
the next pass if need be. Days pass, repositories go missing and return, jobs
and plans begin and end between all steps. The model dates a pass, and list changes during it, by the day it
started. `missed`, `seen` and `left` are history.

## 3. Runs

Deadlock is checked where the system never stops: both scheduler runs, keys,
edits and branch changes. The other configurations say `CHECK_DEADLOCK FALSE`:
their bounds on calls, starts, faults or days use up what can happen, and their
last state is one where the user does nothing more.

| Run | Question | Bounds | States |
|---|---|---|---|
| `scheduler_safety` | lanes, queue, coalescing, preemption, shutdown; implements `RepositoryLock` | 4 calls, 2 keys, all 8 kinds, read limit 2, background limit 1, symmetry | 43 496 |
| `scheduler_service` | writes and pure remote reads are served, shutdown completes | 3 calls of 4 kinds, reused for ever | 6 379 |
| `keys` | one repository, one queue; busy is seen; paths used early excepted | 4 paths on 3 directories: symlink, worktree, fresh directory; any path used early | 37 312 |
| `keys_early` | do aliases always share one queue, as the comment at `GitScheduler.ts:174` says? | the same | violated |
| `edit` | atomicity, truth, no replay, foreign locks, clean-up; implements `CommitMessageEditAtomic` | 2 edits, 2 faults of all kinds, 1 user commit | 660 503 |
| `workflow` | one command, busy, stops; commands that refused a signal excepted | 3 starts, 2 steps, 2 repositories, streams closed, 1 refused signal | 472 472 |
| `branch_change` | nothing lost, orphaned, applied twice or misreported | 1 session, 2 changes, 2 branches, 1 foreign stash, 2 previews, 1 fault, symmetry | 1 303 183 |
| `auto_commit` | index and branch agree, results are true, foreign work stays, recovery completes | 2 groups, 3 attempts, 2 faults of all kinds, 2 changes of the user | 261 096 |
| `publication` | creations are repeated only on request, nothing foreign is adopted, stages are true | 2 names, primary or not, 3 repositories, 4 calls of `connect`, 2 faults, 1 foreign change | 1 494 166 |
| `transfer` | runs do not overlap, results are true, nothing unreviewed is replaced | 3 calls, 2 endpoints, 2 references, 1 foreign push, 1 changed context, 1 fault, symmetry | 2 140 721 |
| `planner` | a started branch is found, work is protected; what two misread files and unregistered saves lose excepted | 2 tasks, 2 names, 1 window, 2 starts, 2 saves, 1 fault, 1 command in a terminal, symmetry | 905 931 |
| `maintenance` | an entry leaves the list, and metadata the disk, only when that is due | 1 repository, periods of 2 days, 4 days, 1 fault | 1 686 068 |

All of them hold but `keys_early`, whose counterexample is the finding in
`PROJECT.json`: a directory is used before `git init`, keeps the key of a plain
directory, and after that a write through it and one through a symlink to it run
at once.

Why the bounds are enough. Scheduler: three calls fill the read lane, overflow
it and meet the background limit; the fourth waits behind them, so every pair
of lane contents meets every kind of newcomer. The service run needs one waiting
job and two that overtake it in turn; one mutating network kind stands for both
(they share a lane and its guard), and reads of the foreground for all reads.
Keys: an alias and a worktree are the two ways to share a repository, and a
directory without a repository gets a key that differs from both. Edits: the
second edit exists to be blocked by, or to run after, the leftovers of the
first; two faults crash a recovery of a crash. Branch change: operations are
exclusive and a session is touched only by operations on it, so one session,
used again after it is gone, meets its own past; the other owner of stashes is
the foreign one. Two changes let a file be added between preview and stash. Two
previews let one go stale while another is used. Workflow: two calls race for
the start, the third comes after a run was given up or was forgotten with a
process that refused its signal. Auto commit: the second group has an
expectation left by the first; a third attempt follows a failed
and a rolled-back one; two faults make the rollback or the recovery fail too.
Publication: one call that loses its answer, one that resumes, one that repeats
and one that confirms; three repositories are the one made late, the one made on
repetition, and a stranger's. Transfer: a second endpoint fails or succeeds on
its own, a second reference is accepted or rejected on its own, and a retry of a
retry has results of both kinds. Planner: the second task competes for a branch
name, the second branch carries the older document, and the second save makes
the registry older or newer than it; with a second fault the instance has
4 381 307 states and no error, but takes too long to be run each time.
Maintenance: the steps concern one repository at a time and share only the state
file; two-day periods distinguish the day before, the day on which, and the day
after. Two workers of one pass need two repositories: they are left to the
theorems.

### Fairness

`scheduler_service`: Git processes end (the runners kill them on abort) and the
promise of `close()` resumes. Nothing is assumed of calls and signals.
`edit`: commands end, and the editor or the list of backups is opened
again while a journal is pending; each of them recovers first. `workflow`:
timers fire, and the streams of an exited process are closed unless held. A
process is not assumed to exit: a development server runs until it is stopped.
`auto_commit`: the program's and the user's commands end, the program is started
again after a crash (weak fairness), and the repository is opened until its
recovery gets through, although others take `index.lock` in between (strong
fairness of `Recover`).

### Observations

Seen while modelling, by reading or in the runs. Where a run reaches them its
properties except exactly the case named.

- Keys: a path used before `git init` keeps the key of the plain directory,
  while its aliases get the key of the new repository (`GitScheduler.ts:184`):
  two queues (run `keys_early`). The properties of `keys` except pairs with a
  path in `early`.
- Edits: clean-up needs `owner.json` in a directory it deletes recursively
  (`commitMessageEditJournal.ts:94`); when the removal stops in between, every
  later recovery throws. A lock is created and filled in two steps
  (`commitMessageEditPublication.ts:21`); a crash in between leaves a lock that
  recovery takes for a foreign one. Both are in the run; `RecoveryCompletes`
  excepts the first (`HalfRemoved`).
- Workflows: a refused signal is taken for a failed start
  (`RepositoryRunService.ts:227`), the run ends and the next workflow starts
  beside it; the properties except the command concerned (`refused`). With held streams `blockNewRunsUntilExit` waits for
  an event that has passed.
- Branch change: `applyLocked` is returned without `await`
  (`BranchChangeService.ts:224`), so its early errors escape the `catch` that
  reports `switched: true`; the changes are safe, but the caller gets only an
  error. A session left in phase `preparing` without a stash is offered for ever.
- Auto commit: `index.lock` is removed by name after `journal.clear()`, when it
  may be another process's; a torn journal blocks later runs until it is
  removed; a commit orphaned by a crash may finish after the recovery; a refresh
  of stat data alone makes recovery ask the user. A foreign commit between the
  program's and the one of its hook leaves the first on the branch, reported as
  rolled back and without its index (`AutoCommitRefRecovery.ts:27`), and a failed
  read of a branch that was empty passes for "unchanged" (line 15): `doubtful`.
- Publication: a call with `retryCreation` that fails before it sends leaves
  `prepared`, and the next plain call sends a second request, which
  `RetriesAreAsked` counts as asked for. A crash between `git remote add` and
  the binding blocks the publication until the remote is removed by hand.
- Transfer: a push that landed and is followed by a failing `ensureActive()` is
  reported as failed, and `ResultIsTrue` says nothing of "failed"; a grouped push does not look at the URLs again between
  `get-url` and `push`.
- Planner: an edit on the base branch can drop the assignment of a task whose
  branch another checkout still works on, and a crash between
  `PlannerWorkService.ts:224` and 225 leaves the registry without an assignment
  that is in the document; the cleanup then knows nothing of the branch and
  deletes it (`untold`). A failed read of the index empties it for all tasks
  (`PlannerWorkRecovery.ts:33`, `unlisted`), and a failed read of HEAD drops the
  journal of a branch that may be checked out (`PlannerWorkService.ts:230`,
  `unread`). Two tasks may come to share a
  branch through recovery; a stale preview in a second window overwrites the
  pointer of a pending start; a crash between preparation and checkout leaves a
  record that `inspect()` refuses over.
- Maintenance: a pass overwrites `known` at its end
  (`StorageMaintenanceService.ts:475`), which loses the return ticket of a list
  change that failed to be written while it ran; a worker past its last check
  takes out an entry that was restored and vanished again; adding a repository
  again does not reset its missing observation, restoring it does.

## 4. Theorems

Eight modules of proofs, all checked by `tlapm`. Each states an inductive
invariant, with one lemma per conjunct or per action, and derives its theorems
from it. Two of them hold the theorems of a second component as well:
`GitScheduler_proofs` those of `RepositoryKeys`, whose keys are what the
scheduler queues by, and `RepositoryRetention_proofs` those of `RepositoryRun`,
whose busy repositories maintenance must not touch. For that reason the
definitions of these two components carry a prefix (`KeysSpec`, `RunTypeOK`).

The theorems hold for any sets of calls, edits, runs, sessions, tasks,
endpoints, names and paths and for any bounds; the runs show the same properties
on their instances. They rest on the assumptions the modules make of their
constants (`None` and the like are none of the values they stand in for, bounds
are numbers, lane limits are at least one, a plan has a group) and on two more,
which are hypotheses of single theorems:

- `QuietRemoval` (branch change): nobody interferes with the removal of a stash
  after its last verification (section 2);
- `OneWindow` (planner): the program has one window, which is what
  `singleInstance.ts` and `windowFactory.ts` see to.

| Module | Theorem | States |
|---|---|---|
| `GitScheduler_proofs` | `SchedulerTypeCorrect`, `EveryEntryHasOnePlace`, `WritesRunAlone`, `PollsAreCoalesced`, `AcceptedJobsKeep`, `QueueNeverStalls`, `SchedulerImplementsLock` | all safety properties of the run `scheduler_safety`, and that the scheduler implements `RepositoryLock` |
| | `AliasesShareTheQueue`, `BusyUnderEveryPath` | `RepositoryWritesExclusive`, `BusyIsSeen` |
| `CommitMessageEdit_proofs` | `BackupsProvePublication`, `OutcomesAreTrue`, `NothingIsReplayed`, `LocksOfOthersStay`, `EditsAreAtomic` | all safety properties of the run `edit`, and that it implements `CommitMessageEditAtomic` |
| `BranchChange_proofs` | `TypeCorrect`, `OutcomesAreTrue`, `NeverReapplied` | `TypeOK`, `OutcomeIsTrue`, `NoBlindReapply` |
| | `ChangesAreKept`, `StashesAreListed`, `DropsAreRestored` | `NothingLost`, `ParkedIsListed`, `DropsOnlyRestored`, if `QuietRemoval` |
| `AutoCommit_proofs` | `TypeCorrect`, `IndexNeverLags`, `OutcomesAreTrue`, `UserWorkIsKept` | `TypeOK`, `IndexFollowsHead`, `OutcomeIsTrue`, `ForeignWorkIsKept` |
| `RepositoryPublication_proofs` | `CreationsAreNotRepeated`, `NothingForeignIsAdopted`, `StagesAreTrue` | all properties of the run `publication` |
| `RemoteTransfer_proofs` | `TransferTypeCorrect`, `RunsDoNotOverlap`, `ResultsAreTrue`, `NothingUnreviewedIsReplaced` | `TypeOK` and all properties of the run `transfer` |
| `PlannerWork_proofs` | `TypeCorrect`, `WorkedOnIsSpared` | `TypeOK`, `WorkIsProtected` |
| | `StartsAreFound` | `StartedIsFound`, if `OneWindow` |
| `RepositoryRetention_proofs` | `TypeCorrect`, `OnlyAbandonedIsTakenOut`, `ReturnIsPossible` | `TypeOK`, `TakenOutIsAbandoned`, `MetadataOutlivesReturn` |
| | `RunTypeCorrect`, `OneWorkflowAtATime`, `LivingCommandsAreBusy` | `RunTypeOK`, `OneWorkflow`, `AliveIsBusy` |

The arguments.

- Scheduler. `IInv == TypeOK /\ OnePlace /\ WriteRunsAlone /\ JoinedIsPending`.
  A write is started when the read and network lanes are seen empty, which says
  something about processes only if no entry is in two lanes (`OnePlace`), and a
  settlement keeps `OnePlace` only if calls that joined an entry are pending as
  long as it is (`JoinedIsPending`). All handlers call `pump()`, so its effect
  is a lemma of its own, `PumpFillsLanes`. The refinement adds `PumpGrants`: a
  pump starts the first waiting write alone, or other jobs where no write runs.
  The promises add that only polls have a coalescing key. That the queue never
  stalls needs more of it: it is sorted and finite, so of every kind of job that
  waits there is a first one, and that one is held back only by a job that runs.
- Keys. A cached key of a path that is not in `early` is that of its common Git
  directory (`CachedIsCommon`), so two such paths of one repository cannot have
  two keys.
- Workflows. That the command of an earlier run is dead when the next starts
  follows from what `CanStart` reads only if `activeRun` and `unconfirmed`
  account for every living command that never refused a signal
  (`AliveIsKnown`).
- Edits. The running edit remembers in `completed` whether the branch contains
  it (`Remembered`), an edit that has not begun to write has left nothing
  (`Fresh`), and what is cleaned up has a pending journal. So the transaction is
  the first and only one of its edit, backups are removed only after the
  journal is `cleaned`, and every answer is what `completed` says. For the
  refinement the only steps on branch and backups are the transaction, the
  removal of a backup and the user's commits (`OnlyThese`).
- Branch change. The invariant says where the stash of a session is in the stack
  and that its number is unique (`Stacked`), what an operation knows at each of
  its steps (`Operating`), that what the session saved is in the tree or in its
  stash (`Backing`), and that the journal names the session as long as there is
  something to name (`Journalled`). Under `QuietRemoval` what was verified stays
  so up to the drop (`Undisturbed`). `DropsOnlyRestored` asks that what the
  dropped stash saved is in the tree or in another stash, for the user may push
  the restored work into a stash of his own between two checks.
- Auto commit. Of the commits of an attempt all but those in `doubtful` lie
  together (`SplitOf`), and the index fits what the other commits contain until
  it is promoted, at once for all of them (`Prepared`). So rollback and
  recovery can tell from the branch, the journal and the lock alone which of the
  two states to establish. A plan has at least one group (`GroupsAssumption`):
  `AiAutoCommitPlanValidator` refuses an empty one.
- Publication. Beyond the saved record the invariant says what a running call
  knows at each step (`Staged`, `Holding`), how many requests are covered by
  those asked for (`Counted`) and where its repository comes from (`Owned`).
- Transfer. `ResultIsTrue` is not inductive: an answer that waits to be
  reported (`Answers`), a reference that a retry leaves out and an endpoint
  whose turn has not come (`ToDo`) must agree with what the endpoints have held.
  `ForeignIsKept` rests on `LeaseInv`: the plan keeps what was reviewed through
  every retry, and a push under way was given exactly that, although other calls,
  foreign pushes and changes of the endpoints come between the making of the
  argument and the comparison Git makes with it.
- Planner. A branch that a start created is in its own version of the document
  or in the journal; while a job is about to write or to drop the journal of a
  task, every branch of that task is in its document (`Traceable`, `Switched`,
  `Secured`). This holds because a pending start excludes a second one of the
  same task (`Exclusive`), for which a window may not keep a preview of a task
  that is pending: hence `OneWindow`. If all branches share one document, a
  recovery replaces the task in it, so the journal must name every branch of the
  task (`Covering`). A start given up because HEAD could not be read is left out
  of these (`unread`); after a lost index the task's pointer still leads to the
  start, but nothing lists it (`unlisted`). For the cleanup, of a task all of
  whose saves reached the registry no version in a document is newer than what
  the registry holds or is about to be told (`Settled`), so recording the
  document that happens to be checked out tells it nothing wrong.
- Maintenance. Tickets and claims, in memory and in the file alike, are not
  older than the last departure they speak of (`Claims`), the days on which an
  entry counts as observed missing are days it was missing (`Observing`), and a
  worker is convinced only of what the days bear out (`Convinced`). So neither a
  crash, which falls back to the file, nor a failed save brings an older
  departure back. Without faults passes run one after another (`Orderly`).

Only model-checked: the liveness properties (`WritesAreServed`,
`RemoteReadsAreServed`, `ShutdownCompletes`, `RecoveryCompletes` of edits and of
auto commit, `StopCompletes`), since the prover does not reason about fairness.
Every other property of the runs is stated by a theorem.

## 5. Not modelled

- Text: formats, diffs, search, scanning for secrets, commit messages, and what
  the AI provider plans. Translation of HTTP and IPC. Presentation, which is
  most of the source by lines; so the share of lines the map names is small.
- The components with status `not_modelled` in `PROJECT.json`, each with its
  reason.
- Of the modelled components: the output buffer, approvals and prerequisites of
  workflows; more than one worktree or window, the cancellation map and the
  limits of 200 previews and 500 sessions of branch changes; what remotes contain
  and what hooks do in message edits; switches of HEAD while an auto commit
  runs (Git refuses them under `index.lock`); more than one publication at a
  time and changes of the local references during one; fetch, pull, editing of
  remotes and LFS uploads; renaming of task branches, detached HEAD, completion
  by pull requests and carried changes of the planner, whose base is the branch
  checked out at a start and whose documents are committed before a switch
  unless the file is untracked; relocation, unreadable state, pins and the
  caches of each category of maintenance.
- A save of a file happens or does not (`atomicFile.ts` replaces files by
  renaming).
