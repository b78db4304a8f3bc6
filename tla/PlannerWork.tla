---------------------------- MODULE PlannerWork ----------------------------
(***************************************************************************)
(* Task branches of the planner: electron/main-process/                    *)
(* PlannerWorkService.ts with PlannerWorkRecovery.ts, PlannerWorkStore.ts, *)
(* PlannerWorkRegistry.ts and PlannerWorkAssignments.ts.                   *)
(*                                                                         *)
(* Starting a task checks out a branch and assigns it to the task in the   *)
(* planning document, which is a file of the working tree: each branch may *)
(* carry another version of it.  Two files outside of the repository make  *)
(* up for that: the registry knows the assignments last seen of each task, *)
(* and a journal (record, pointer per task, index) keeps a start that did  *)
(* not reach the document.                                                 *)
(*                                                                         *)
(* start() and update() hold the exclusive write lane; inspect(), edits of *)
(* the document and Git in a terminal do not.                              *)
(***************************************************************************)
EXTENDS Naturals, FiniteSets

CONSTANTS
  Tasks,
  Names,      \* of task branches
  Base,       \* the branch that is always there
  None,
  Windows,    \* each shows one preview per task
  MaxStarts,  \* bound: starts that reach the journal
  MaxSaves,   \* bound: saves of the planning document
  MaxFaults,  \* bound: failures and crashes
  MaxForeign  \* bound: Git commands in a terminal

ASSUME NamesAssumption == Base \notin Names /\ None \notin Names \cup {Base}
ASSUME BoundsAssumption == {MaxStarts, MaxSaves, MaxFaults, MaxForeign} \subseteq Nat

Places == Names \cup {Base}
Ids == 1 .. MaxStarts
\* What matters of a task: its branches, the active one, and updatedAt, which
\* stands for its revision.
Items == [branches : SUBSET Names, active : Names \cup {None}, at : 0 .. MaxSaves]
Document == [Tasks -> Items]
Records == [task : Tasks, branch : Names, item : Items]   \* WorkRecovery

ASSUME NoneAssumption == None \notin Ids \cup Records
ASSUME TasksAssumption == None \notin Tasks

VARIABLES
  head, branches,   \* the branch checked out; the task branches
  shared,           \* the document is not tracked: one for all branches
  docs,             \* branch -> its planning document
  registry,         \* task -> its item as last recorded
  record,           \* id -> journal record, or None
  pointer, index,   \* task -> id of its pending start; the indexed tasks
  \* the process
  previews,         \* window -> task -> preview
  job,              \* what holds the write lane
  offered,          \* recoveries that a window knows of
  \* history and bounds
  startedFor,       \* branch -> the task whose start created it
  moved,            \* a terminal moved HEAD while a job was running
  untold,           \* tasks saved in some document without the registry's knowledge
  unread,           \* branches whose start was given up with HEAD unread
  unlisted,         \* the index was lost: it could not be read and was rewritten
  used, clock, faults, foreign

repository == <<head, branches, shared, startedFor, moved, unread, foreign>>
journal == <<record, pointer, index, unlisted, used>>
vars == <<repository, docs, clock, untold, registry, journal, previews, job, offered, faults>>

NoItem == [branches |-> {}, active |-> None, at |-> 0]
NoPreviews == [w \in Windows |-> [t \in Tasks |-> None]]
NoJob == [kind |-> "none"]

Init ==
  /\ head = Base /\ branches = {} /\ shared \in BOOLEAN
  /\ docs = [p \in Places |-> [t \in Tasks |-> NoItem]]
  /\ registry = [t \in Tasks |-> NoItem]
  /\ record = [i \in Ids |-> None]
  /\ pointer = [t \in Tasks |-> None] /\ index = {}
  /\ previews = NoPreviews
  /\ job = NoJob /\ offered = {}
  /\ startedFor = [b \in Names |-> None] /\ moved = FALSE
  /\ untold = {} /\ unread = {} /\ unlisted = FALSE
  /\ used = 0 /\ clock = 0 /\ faults = 0 /\ foreign = 0

Place == IF shared THEN Base ELSE head
Item(t) == docs[Place][t]
Idle == job = NoJob
Fault == faults < MaxFaults /\ faults' = faults + 1
NoFault == UNCHANGED faults
Keeps == UNCHANGED <<repository, docs, clock, untold>>

\* saveWorkItem() and carryWorkItem(): updatedAt grows with every save.
Saved(item) == [item EXCEPT !.at = clock + 1]
Save(t, item) ==
  /\ clock < MaxSaves /\ clock' = clock + 1
  /\ docs' = [docs EXCEPT ![Place][t] = Saved(item)]

\* PlannerWorkRegistry.record(): older versions do not replace newer ones.
Recorded_Latest(t, item) == item      \* fault: updatedAt not compared
Recorded(t, item) == IF item.at >= registry[t].at THEN item ELSE registry[t]

\* assertAvailable(): no other task has or had the branch.
Available(t, name) == \A u \in Tasks \ {t} : name \notin registry[u].branches

\* PlannerWorkRecovery.read(): the pending start of a task.
Pending(t) == pointer[t] # None /\ record[pointer[t]] # None /\ record[pointer[t]].task = t

-----------------------------------------------------------------------------
\* inspect(): a pending start is all there is to see of its task, and only on
\* its branch; otherwise the document is recorded and the preview kept.  A
\* window waits for the start it has asked for.
InspectPending(t) ==
  /\ Pending(t) /\ record[pointer[t]].branch = head
  /\ offered' = offered \cup {pointer[t]}
  /\ Keeps /\ NoFault /\ UNCHANGED <<registry, journal, previews, job>>

Waits(w) == ~Idle /\ job.kind = "start" /\ job.window = w

Inspect(w, t) ==
  /\ ~Waits(w)
  /\ ~Pending(t)
  /\ registry' = [u \in Tasks |-> Recorded(u, Item(u))]
  /\ previews' = [previews EXCEPT ![w][t] = [doc |-> docs[Place], head |-> head]]
  /\ Keeps /\ NoFault /\ UNCHANGED <<journal, job, offered>>

\* recoveries(): those the index leads to and whose branch is checked out.
ListRecoveries ==
  /\ offered' = offered \cup {pointer[t] : t \in {u \in index : Pending(u) /\ record[pointer[u]].branch = head}}
  /\ Keeps /\ NoFault /\ UNCHANGED <<registry, journal, previews, job>>

\* start(): what was reviewed must still hold, the name be free or the task's.
Reviewed(t, preview) == Item(t) = preview.doc[t] /\ head = preview.head

NameFits(t, name, preview) ==
  /\ \A u \in Tasks \ {t} : preview.doc[u].active # name
  /\ Available(t, name)
  /\ IF preview.doc[t].active = None
     THEN name \notin branches
     ELSE name = preview.doc[t].active /\ name \in branches

Start(w, t, name) ==
  /\ Idle /\ previews[w][t] # None
  /\ previews' = [previews EXCEPT ![w][t] = None]
  /\ LET preview == previews[w][t]
         before == preview.doc[t]
     IN IF Reviewed(t, preview) /\ NameFits(t, name, preview) /\ used < MaxStarts
        THEN /\ used' = used + 1
             /\ job' = [kind |-> "start", window |-> w, step |-> "record", task |-> t, name |-> name, id |-> used',
                        preview |-> preview, changed |-> FALSE,
                        item |-> [before EXCEPT !.branches = @ \cup {name}, !.active = name]]
        ELSE UNCHANGED <<used, job>>
  /\ Keeps /\ NoFault /\ UNCHANGED <<registry, record, pointer, index, unlisted, offered>>

At(step) == ~Idle /\ job.step = step
Goto(step) == job' = [job EXCEPT !.step = step]

\* PlannerWorkRecovery.prepare()
WriteRecord ==
  /\ At("record")
  /\ record' = [record EXCEPT ![job.id] =
       [task |-> job.task, branch |-> job.name, item |-> job.item]]
  /\ Goto("pointer")
  /\ Keeps /\ NoFault /\ UNCHANGED <<registry, pointer, index, unlisted, used, previews, offered>>

WritePointer ==
  /\ At("pointer")
  /\ pointer' = [pointer EXCEPT ![job.task] = job.id]
  /\ Goto("index")
  /\ Keeps /\ NoFault /\ UNCHANGED <<registry, record, index, unlisted, used, previews, offered>>

WriteIndex ==
  /\ At("index")
  /\ index' = index \cup {job.task}
  /\ Goto("checkout")
  /\ Keeps /\ NoFault /\ UNCHANGED <<registry, record, pointer, unlisted, used, previews, offered>>

\* A failing write takes back what was written.
PrepareFails ==
  /\ \E step \in {"record", "pointer", "index"} : At(step)
  /\ Fault
  /\ record' = [record EXCEPT ![job.id] = None]
  /\ pointer' = IF At("record") THEN pointer ELSE [pointer EXCEPT ![job.task] = None]
  /\ job' = NoJob
  /\ Keeps /\ UNCHANGED <<registry, index, unlisted, used, previews, offered>>

-----------------------------------------------------------------------------
CheckoutWorks ==
  IF job.preview.doc[job.task].active = None THEN job.name \notin branches ELSE job.name \in branches

\* revalidateStart() and git switch, which may create the branch and fail
\* nevertheless (post-checkout hook).
Checkout ==
  /\ At("checkout")
  /\ IF Reviewed(job.task, job.preview) /\ CheckoutWorks
     THEN /\ branches' = branches \cup {job.name}
          /\ head' = job.name
          /\ IF job.name \in branches
             THEN UNCHANGED <<docs, startedFor, unread>>
             ELSE /\ docs' = [docs EXCEPT ![job.name] = docs[head]]
                  /\ startedFor' = [startedFor EXCEPT ![job.name] = job.task]
                  /\ unread' = unread \ {job.name}
          /\ \/ NoFault /\ job' = [job EXCEPT !.step = "confirm", !.changed = TRUE]
             \/ Fault /\ Goto("caught")
     ELSE Goto("caught") /\ NoFault /\ UNCHANGED <<head, branches, docs, startedFor, unread>>
  /\ UNCHANGED <<shared, moved, untold, foreign, clock, registry, journal, previews, offered>>

Confirm ==
  /\ At("confirm") /\ head = job.name
  /\ Goto("carry")
  /\ Keeps /\ NoFault /\ UNCHANGED <<registry, journal, previews, offered>>

\* carryWorkItem(): the task must still be the version that was reviewed.
Carries == Item(job.task) = job.preview.doc[job.task]

Carry ==
  /\ At("carry") /\ Carries
  /\ Save(job.task, job.item)
  /\ job' = [job EXCEPT !.step = "register", !.item = Saved(job.item)]
  /\ NoFault /\ UNCHANGED <<repository, untold, registry, journal, previews, offered>>

\* Any step up to the assignment may fail, HEAD may not be the branch and the
\* task not the version that was reviewed.
Fails ==
  /\ \/ \E step \in {"checkout", "confirm", "carry"} : At(step) /\ Fault
     \/ At("confirm") /\ head # job.name /\ NoFault
     \/ At("carry") /\ ~Carries /\ NoFault
  /\ Goto("caught")
  /\ Keeps /\ UNCHANGED <<registry, journal, previews, offered>>

\* The catch block of start(): a branch that was checked out keeps its journal,
\* and the caller is told of it; otherwise the journal is removed.  A failed
\* read of HEAD is taken for another branch.
OnBranch_FlagOnly == job.changed    \* fault: HEAD is not looked at
OnBranch == job.changed \/ head = job.name

Caught ==
  /\ At("caught")
  /\ \/ /\ OnBranch
        /\ job' = NoJob /\ offered' = offered \cup {job.id}
        /\ NoFault /\ UNCHANGED unread
     \/ /\ ~OnBranch
        /\ Goto("drop")
        /\ NoFault /\ UNCHANGED <<offered, unread>>
     \/ /\ ~job.changed /\ Fault
        /\ Goto("drop")
        /\ unread' = IF head = job.name THEN unread \cup {job.name} ELSE unread
        /\ UNCHANGED offered
  /\ UNCHANGED <<head, branches, shared, startedFor, moved, foreign, docs, clock, untold, registry, journal, previews>>

\* The saved item goes to the registry; a start or a recovery then drops its
\* journal, a plain save is done.
Register ==
  /\ At("register")
  /\ registry' = [registry EXCEPT ![job.task] = Recorded(job.task, job.item)]
  /\ IF job.kind = "save" THEN job' = NoJob ELSE Goto("drop")
  /\ Keeps /\ NoFault /\ UNCHANGED <<journal, previews, offered>>

\* A save of the job in progress that the registry is never told of.
Untold == IF At("register") THEN untold \cup {job.task} ELSE untold

\* The registry or the journal cannot be written.
FailsSaved ==
  /\ At("register") \/ At("drop")
  /\ Fault
  /\ job' = NoJob
  /\ offered' = IF job.kind = "start" /\ job.changed THEN offered \cup {job.id} ELSE offered
  /\ untold' = Untold
  /\ UNCHANGED <<repository, docs, clock, registry, journal, previews>>

\* complete(): the record; then pointer and index, whose failures are ignored.
\* An index that cannot be read is taken for an empty one and written back.
Drop ==
  /\ At("drop")
  /\ record' = [record EXCEPT ![job.id] = None]
  /\ Goto("unindex")
  /\ Keeps /\ NoFault /\ UNCHANGED <<registry, pointer, index, unlisted, used, previews, offered>>

Unindex ==
  /\ At("unindex")
  /\ \/ /\ pointer' = [pointer EXCEPT ![job.task] = None] /\ index' = index \ {job.task}
        /\ NoFault /\ UNCHANGED unlisted
     \/ /\ Fault
        /\ pointer' \in {pointer, [pointer EXCEPT ![job.task] = None]}
        /\ \/ index' \in {index, index \ {job.task}} /\ UNCHANGED unlisted
           \/ index' = {} /\ unlisted' = TRUE
  /\ job' = NoJob
  /\ Keeps /\ UNCHANGED <<registry, record, used, previews, offered>>

-----------------------------------------------------------------------------
\* update(): recovering an interrupted start on its branch, archiving, and
\* assigning another branch.  The caller has seen the current revision.
Recover(id) ==
  /\ Idle /\ id \in offered
  /\ record[id] # None /\ head = record[id].branch
  /\ Save(record[id].task, record[id].item)
  /\ job' = [kind |-> "recover", step |-> "register", task |-> record[id].task, id |-> id,
             item |-> Saved(record[id].item)]
  /\ NoFault /\ UNCHANGED <<repository, untold, registry, journal, previews, offered>>

Update(t, item) ==
  /\ Save(t, item)
  /\ job' = [kind |-> "save", step |-> "register", task |-> t, item |-> Saved(item)]
  /\ NoFault /\ UNCHANGED <<head, branches, shared, moved, unread, untold, foreign, registry, journal, previews, offered>>

Archive(t) ==
  /\ Idle /\ Item(t).active # None
  /\ Update(t, [Item(t) EXCEPT !.active = None])
  /\ UNCHANGED startedFor

Assignable(t, name) == name \in branches /\ Available(t, name)

AssignBranch(t, name) ==
  /\ Idle /\ Item(t).active # None /\ name # Item(t).active
  /\ Assignable(t, name)
  /\ Update(t, [Item(t) EXCEPT !.active = name, !.branches = (@ \ {Item(t).active}) \cup {name}])
  /\ startedFor' = [b \in Names |-> IF b = Item(t).active THEN None ELSE startedFor[b]]

-----------------------------------------------------------------------------
\* The user edits a task in the planner, which does not tell the registry.
Edit(t) ==
  /\ Save(t, Item(t))
  /\ untold' = untold \cup {t}
  /\ NoFault /\ UNCHANGED <<repository, registry, journal, previews, job, offered>>

\* The branch cleanup deletes what protectedBranches() does not name.
Protected(seen) == {seen[t].active : t \in Tasks}

CleanUp(b) ==
  /\ Idle /\ b \in branches \ {head}
  /\ registry' = [t \in Tasks |-> Recorded(t, Item(t))]
  /\ b \notin Protected(registry')
  /\ branches' = branches \ {b}
  /\ startedFor' = [startedFor EXCEPT ![b] = None]
  /\ docs' = [docs EXCEPT ![b] = [t \in Tasks |-> NoItem]]
  /\ NoFault /\ UNCHANGED <<head, shared, moved, unread, untold, foreign, clock, journal, previews, job, offered>>

\* In the application (between two jobs) or in a terminal.
Switch(b) ==
  /\ b \in (branches \cup {Base}) \ {head}
  /\ head' = b
  /\ \/ Idle /\ UNCHANGED <<moved, foreign>>
     \/ ~Idle /\ foreign < MaxForeign /\ foreign' = foreign + 1 /\ moved' = TRUE
  /\ NoFault /\ UNCHANGED <<branches, shared, startedFor, unread, untold, docs, clock, registry, journal, previews, job, offered>>

DeleteBranch(b) ==
  /\ b \in branches \ {head}
  /\ foreign < MaxForeign /\ foreign' = foreign + 1
  /\ branches' = branches \ {b}
  /\ startedFor' = [startedFor EXCEPT ![b] = None]
  /\ docs' = [docs EXCEPT ![b] = [t \in Tasks |-> NoItem]]
  /\ NoFault /\ UNCHANGED <<head, shared, moved, unread, untold, clock, registry, journal, previews, job, offered>>

Crash ==
  /\ Fault
  /\ job' = NoJob /\ previews' = NoPreviews /\ offered' = {}
  /\ untold' = Untold
  /\ UNCHANGED <<repository, docs, clock, registry, journal>>

Next ==
  \/ \E t \in Tasks :
       \/ InspectPending(t) \/ Archive(t) \/ Edit(t)
       \/ \E w \in Windows : Inspect(w, t) \/ \E name \in Names : Start(w, t, name)
       \/ \E name \in Names : AssignBranch(t, name)
  \/ ListRecoveries \/ \E id \in Ids : Recover(id)
  \/ WriteRecord \/ WritePointer \/ WriteIndex \/ PrepareFails
  \/ Checkout \/ Confirm \/ Carry \/ Fails \/ Caught \/ Register \/ FailsSaved \/ Drop \/ Unindex
  \/ \E b \in Names : CleanUp(b) \/ DeleteBranch(b)
  \/ \E b \in Places : Switch(b)
  \/ Crash

Spec == Init /\ [][Next]_vars

-----------------------------------------------------------------------------
TypeOK ==
  /\ head \in branches \cup {Base}
  /\ branches \subseteq Names
  /\ docs \in [Places -> Document]
  /\ registry \in Document
  /\ record \in [Ids -> Records \cup {None}]
  /\ pointer \in [Tasks -> Ids \cup {None}] /\ index \subseteq Tasks

\* A branch that a start created is accounted for when no job is running: some
\* version of the planning document assigns it to the task, or the journal leads
\* to the start, from the task's pointer and from the index.  Two failed reads,
\* which the code takes for an answer, are excepted: the start of a branch of
\* "unread" was given up because HEAD could not be read, and once the index was
\* "unlisted" only its task leads to a pending start.  Nothing is said once a
\* terminal has moved HEAD away during a job.
Assigned(t, b) == \E p \in branches \cup {Base} : b \in docs[p][t].branches
Discoverable(t, b) ==
  Pending(t) /\ record[pointer[t]].branch = b /\ (t \in index \/ unlisted)
StartedIsFound ==
  Idle /\ ~moved =>
    \A b \in branches \ unread : LET t == startedFor[b] IN
      t # None => Assigned(t, b) \/ Discoverable(t, b)

\* The cleanup spares the branch on which a task is being worked, whatever is
\* checked out and whatever failed before, unless the registry knows a newer
\* version of the task.  Tasks of which some version was saved without reaching
\* the registry are excepted: those the user edited, and those whose save the
\* process survived no longer, or recorded in vain.
Deletes(b) == b \in branches /\ b \notin branches' /\ foreign' = foreign
WorkIsProtected ==
  [][\A b \in Names, t \in Tasks \ untold :
       Deletes(b) /\ docs[b][t].active = b => registry'[t].at > docs[b][t].at]_vars
=============================================================================
