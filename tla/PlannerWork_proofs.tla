------------------------- MODULE PlannerWork_proofs -------------------------
(***************************************************************************)
(* Proofs, for any tasks and branches, that a started branch is found and  *)
(* that the cleanup spares the branches that are worked on.                *)
(*                                                                         *)
(* The first holds for one window: a second one may keep the preview of a  *)
(* task while its start is pending, and start it once more over the        *)
(* journal.                                                                *)
(***************************************************************************)
EXTENDS PlannerWork, TLAPS

OneWindow == \A v, w \in Windows : v = w

Previews == [doc : Document, head : Places]
StartSteps == {"record", "pointer", "index", "checkout", "confirm", "carry", "caught", "register", "drop", "unindex"}
StartJobs == [kind : {"start"}, window : Windows, step : StartSteps, task : Tasks, name : Names, id : Ids,
              preview : Previews, changed : BOOLEAN, item : Items]
RecoverJobs == [kind : {"recover"}, step : {"register", "drop", "unindex"}, task : Tasks, id : Ids, item : Items]
SaveJobs == [kind : {"save"}, step : {"register"}, task : Tasks, item : Items]

Typed ==
  /\ TypeOK
  /\ shared \in BOOLEAN /\ moved \in BOOLEAN /\ unlisted \in BOOLEAN
  /\ untold \subseteq Tasks /\ unread \subseteq Names
  /\ startedFor \in [Names -> Tasks \cup {None}]
  /\ previews \in [Windows -> [Tasks -> Previews \cup {None}]]
  /\ offered \subseteq Ids
  /\ used \in 0 .. MaxStarts /\ clock \in 0 .. MaxSaves /\ faults \in 0 .. MaxFaults /\ foreign \in 0 .. MaxForeign
  /\ job \in StartJobs \cup RecoverJobs \cup SaveJobs \cup {NoJob}

Starting(steps) == job.kind = "start" /\ job.step \in steps
Recovering(steps) == job.kind = "recover" /\ job.step \in steps

\* The journal names every start once.
Numbered ==
  /\ \A i \in Ids : record[i] # None => i <= used /\ record[i].branch \in record[i].item.branches
  /\ \A t \in Tasks : pointer[t] # None => pointer[t] <= used
  /\ \A i \in offered : i <= used
\* What a window can recover is pending, and what is pending cannot be started.
Exclusive ==
  /\ \A i \in offered : record[i] # None => pointer[record[i].task] = i
  /\ \A w \in Windows, t \in Tasks : previews[w][t] # None => ~Pending(t)
\* How far the job in progress has written its journal.
Recording ==
  /\ job.kind = "start" =>
       /\ job.id = used /\ \A w \in Windows : previews[w][job.task] = None
       /\ job.item.branches = job.preview.doc[job.task].branches \cup {job.name}
  /\ Starting({"record", "pointer"}) =>
       /\ job.id \notin offered /\ \A t \in Tasks : pointer[t] # job.id
       /\ ~Pending(job.task)
  /\ Starting({"record"}) => record[job.id] = None
  /\ Starting(StartSteps \ {"record", "unindex"}) =>
       /\ record[job.id] # None /\ record[job.id].task = job.task /\ record[job.id].branch = job.name
       /\ record[job.id].item.branches = job.item.branches
  /\ Starting(StartSteps \ {"record", "pointer"}) => pointer[job.task] = job.id
  /\ Starting(StartSteps \ {"record", "pointer", "index", "unindex"}) => job.task \in index
  /\ Starting({"confirm", "carry"}) => job.changed
  /\ Recovering({"register", "drop"}) => record[job.id] # None /\ record[job.id].task = job.task
  /\ job.kind = "recover" => pointer[job.task] = job.id
  /\ job.kind \in {"start", "recover"} /\ job.step = "unindex" => record[job.id] = None

\* The version of the document that belongs to a branch.
DocumentOf(b) == IF shared THEN Base ELSE b
Kept(t, b) == b \in docs[DocumentOf(b)][t].branches
Mine(t) == {b \in branches \ unread : startedFor[b] = t}

\* A branch is assigned in its own document or found by the journal; while its
\* task has a job, and the journal does not count, it is assigned.
Traceable ==
  \A b \in branches \ unread : startedFor[b] # None => Kept(startedFor[b], b) \/ Discoverable(startedFor[b], b)
Switched ==
  /\ Starting({"confirm", "carry", "caught"}) =>
       \A b \in Mine(job.task) : (b = job.name /\ head = job.name) \/ Kept(job.task, b)
  /\ Starting({"confirm", "carry"}) => head = job.name
Secured == Starting(StartSteps \ {"confirm", "carry", "caught"}) \/ job.kind = "recover" =>
  \A b \in Mine(job.task) : Kept(job.task, b)
Found == Traceable /\ Switched /\ Secured
\* One document for all branches: a recovery replaces the task by the item of
\* the journal, which has every branch started before.
Covering == shared =>
  /\ \A t \in Tasks : Pending(t) => Mine(t) \subseteq record[pointer[t]].item.branches
  /\ Starting({"record", "pointer"}) => Mine(job.task) \subseteq job.item.branches

\* The registry knows the latest version of a task, unless it is about to be told.
Newer(a, b) == a.at < b.at \/ a = b
Blank(item) == item.at = 0 => item = NoItem
Registers == ~Idle /\ job.step = "register"
Registering(t) == Registers /\ job.task = t
Versions ==
  /\ \A p \in Places, t \in Tasks : docs[p][t].at <= clock /\ Blank(docs[p][t])
  /\ \A t \in Tasks : registry[t].at <= clock /\ Blank(registry[t])
  /\ Registers => job.item.at \in 1 .. clock
Settled == \A t \in Tasks \ untold :
  /\ \A p \in Places : Newer(docs[p][t], registry[t]) \/ (Registering(t) /\ docs[p][t] = job.item)
  /\ Registering(t) => Newer(registry[t], job.item)

Journal == Numbered /\ Exclusive /\ Recording
IInv == Typed /\ Journal /\ (~moved => Found /\ Covering)

-----------------------------------------------------------------------------
LEMMA Bounds == MaxStarts \in Nat /\ MaxSaves \in Nat /\ MaxFaults \in Nat /\ MaxForeign \in Nat
  BY BoundsAssumption

\* A saved item is the item with a new version.
LEMMA SavedItems ==
  ASSUME clock \in Nat, clock < MaxSaves, NEW item \in Items
  PROVE  /\ Saved(item) \in Items
         /\ Saved(item).branches = item.branches /\ Saved(item).active = item.active
         /\ Saved(item).at = clock + 1
  BY Bounds DEF Saved, Items

\* A job is known by its kind, and its kind by its step.
LEMMA JobKinds ==
  ASSUME job \in StartJobs \cup RecoverJobs \cup SaveJobs \cup {NoJob}
  PROVE  /\ job.kind = "start" => job \in StartJobs
         /\ job.kind = "recover" => job \in RecoverJobs
         /\ job.kind = "save" => job \in SaveJobs
         /\ Idle <=> job.kind = "none"
         /\ ~Idle => job.kind \in {"start", "recover", "save"}
         /\ ~Idle /\ job.step \in StartSteps \ {"register", "drop", "unindex"} => job.kind = "start"
         /\ ~Idle /\ job.step \in {"drop", "unindex"} => job.kind \in {"start", "recover"}
  BY DEF StartJobs, RecoverJobs, SaveJobs, NoJob, Idle, StartSteps

LEMMA NextSteps ==
  ASSUME job \in StartJobs \cup RecoverJobs \cup SaveJobs \cup {NoJob},
         NEW step \in StartSteps
  PROVE  /\ job.kind = "start" => [job EXCEPT !.step = step] \in StartJobs
         /\ job.kind = "recover" /\ step \in {"register", "drop", "unindex"}
              => [job EXCEPT !.step = step] \in RecoverJobs
  BY JobKinds DEF StartJobs, RecoverJobs

LEMMA TypedInit == Init => Typed
<1> SUFFICES ASSUME Init PROVE Typed
  OBVIOUS
<1> USE Bounds, NamesAssumption, NoneAssumption
<1>1. NoItem \in Items
  BY DEF NoItem, Items
<1>2. docs \in [Places -> Document] /\ registry \in Document
  BY <1>1 DEF Init, Document
<1>3. TypeOK
  BY <1>2 DEF Init, TypeOK
<1>4. previews \in [Windows -> [Tasks -> Previews \cup {None}]]
  BY DEF Init, NoPreviews
<1>5. moved \in BOOLEAN /\ unlisted \in BOOLEAN /\ untold = {} /\ unread = {}
  BY DEF Init
<1>. QED
  BY <1>3, <1>4, <1>5 DEF Init, Typed

LEMMA DocumentTypes ==
  ASSUME Typed
  PROVE  /\ Place \in Places /\ head \in Places
         /\ \A p \in Places, t \in Tasks : docs[p][t] \in Items
         /\ docs[Place] \in Document /\ \A t \in Tasks : Item(t) \in Items
         /\ \A t \in Tasks : registry[t] \in Items
         /\ NoItem \in Items
<1>1. Place \in Places /\ head \in Places
  BY DEF Typed, TypeOK, Place, Places
<1>2. \A p \in Places, t \in Tasks : docs[p][t] \in Items
  BY DEF Typed, TypeOK, Document
<1>3. docs[Place] \in Document /\ \A t \in Tasks : Item(t) \in Items
  BY <1>1, <1>2 DEF Typed, TypeOK, Document, Item
<1>4. \A t \in Tasks : registry[t] \in Items
  BY DEF Typed, TypeOK, Document
<1>5. NoItem \in Items
  BY Bounds DEF NoItem, Items
<1>. QED
  BY <1>1, <1>2, <1>3, <1>4, <1>5

LEMMA TypedNext == Typed /\ [Next]_vars => Typed'
<1> SUFFICES ASSUME Typed, [Next]_vars PROVE Typed'
  OBVIOUS
<1> USE Bounds, NamesAssumption, NoneAssumption, DocumentTypes
<1>k. /\ job.kind = "start" => job \in StartJobs
      /\ job.kind = "recover" => job \in RecoverJobs
      /\ job.kind = "save" => job \in SaveJobs
      /\ Idle <=> job.kind = "none"
      /\ ~Idle => job.kind \in {"start", "recover", "save"}
      /\ ~Idle /\ job.step \in StartSteps \ {"register", "drop", "unindex"} => job.kind = "start"
      /\ ~Idle /\ job.step \in {"drop", "unindex"} => job.kind \in {"start", "recover"}
  BY JobKinds DEF Typed
<1>n. \A step \in StartSteps :
        /\ job.kind = "start" => [job EXCEPT !.step = step] \in StartJobs
        /\ job.kind = "recover" /\ step \in {"register", "drop", "unindex"}
             => [job EXCEPT !.step = step] \in RecoverJobs
  BY NextSteps DEF Typed
<1>s. clock < MaxSaves => \A item \in Items : Saved(item) \in Items
  BY SavedItems DEF Typed
<1>j. ~Idle /\ job.kind = "start" =>
        /\ job.id \in Ids /\ job.task \in Tasks /\ job.name \in Names /\ job.item \in Items
        /\ job.preview \in Previews
  BY <1>k DEF StartJobs
<1>r. ~Idle /\ job.kind = "recover" => job.id \in Ids /\ job.task \in Tasks /\ job.item \in Items
  BY <1>k DEF RecoverJobs
<1>v. ~Idle /\ job.kind = "save" => job.task \in Tasks /\ job.item \in Items
  BY <1>k DEF SaveJobs
<1>1. CASE UNCHANGED vars
  BY <1>1 DEF Typed, TypeOK, vars, repository, journal
<1>2. ASSUME NEW t \in Tasks, InspectPending(t) PROVE Typed'
  BY <1>2 DEF Typed, TypeOK, InspectPending, Pending, Keeps, NoFault, repository, journal
<1>3. ASSUME NEW t \in Tasks, NEW item \in Items, Idle, Update(t, item),
             startedFor' \in [Names -> Tasks \cup {None}]
      PROVE Typed'
  <2>1. job' \in SaveJobs /\ docs' \in [Places -> Document] /\ clock' \in 0 .. MaxSaves
    BY <1>3, <1>s DEF Update, Save, SaveJobs, Typed, TypeOK, Document
  <2>. QED
    BY <1>3, <2>1 DEF Update, Save, Typed, TypeOK, NoFault, journal
<1>4. ASSUME NEW t \in Tasks, Archive(t) PROVE Typed'
  <2>1. [Item(t) EXCEPT !.active = None] \in Items
    BY DEF Items
  <2>. QED
    BY <1>3, <1>4, <2>1 DEF Archive, Typed
<1>5. ASSUME NEW t \in Tasks, NEW name \in Names, AssignBranch(t, name) PROVE Typed'
  <2>1. [Item(t) EXCEPT !.active = name, !.branches = (@ \ {Item(t).active}) \cup {name}] \in Items
    BY DEF Items
  <2>. QED
    BY <1>3, <1>5, <2>1 DEF AssignBranch, Typed
<1>6. ASSUME NEW t \in Tasks, Edit(t) PROVE Typed'
  <2>1. docs' \in [Places -> Document] /\ clock' \in 0 .. MaxSaves
    BY <1>6, <1>s DEF Edit, Save, Typed, TypeOK, Document
  <2>. QED
    BY <1>6, <2>1 DEF Edit, Save, Typed, TypeOK, NoFault, repository, journal
<1>7. ASSUME NEW w \in Windows, NEW t \in Tasks, Inspect(w, t) PROVE Typed'
  <2>1. registry' \in Document
    BY <1>7 DEF Inspect, Recorded, Document
  <2>2. [doc |-> docs[Place], head |-> head] \in Previews
    BY DEF Previews
  <2>3. previews' \in [Windows -> [Tasks -> Previews \cup {None}]]
    BY <1>7, <2>2 DEF Inspect, Typed
  <2>. QED
    BY <1>7, <2>1, <2>3 DEF Inspect, Typed, TypeOK, Keeps, NoFault, repository, journal
<1>8. ASSUME NEW w \in Windows, NEW t \in Tasks, NEW name \in Names, Start(w, t, name) PROVE Typed'
  <2>1. previews[w][t] \in Previews
    BY <1>8 DEF Start, Typed
  <2>2. previews[w][t].doc[t] \in Items
    BY <2>1 DEF Previews, Document
  <2>3. [previews[w][t].doc[t] EXCEPT !.branches = @ \cup {name}, !.active = name] \in Items
    BY <2>2 DEF Items
  <2>4. used < MaxStarts => used + 1 \in Ids
    BY DEF Typed, Ids
  <2>5. previews' \in [Windows -> [Tasks -> Previews \cup {None}]]
    BY <1>8 DEF Start, Typed
  <2>6. ASSUME used < MaxStarts
        PROVE  [kind |-> "start", window |-> w, step |-> "record", task |-> t, name |-> name, id |-> used + 1,
                preview |-> previews[w][t], changed |-> FALSE,
                item |-> [previews[w][t].doc[t] EXCEPT !.branches = @ \cup {name}, !.active = name]]
               \in StartJobs
    BY <2>1, <2>3, <2>4, <2>6 DEF StartJobs, StartSteps
  <2>. DEFINE Fine == used' \in 0 .. MaxStarts /\ job' \in StartJobs \cup RecoverJobs \cup SaveJobs \cup {NoJob}
  <2>7. ASSUME Reviewed(t, previews[w][t]) /\ NameFits(t, name, previews[w][t]) /\ used < MaxStarts
        PROVE Fine
    <3>1. used' = used + 1
      BY <1>8, <2>7 DEF Start
    <3>2. job' = [kind |-> "start", window |-> w, step |-> "record", task |-> t, name |-> name, id |-> used',
                  preview |-> previews[w][t], changed |-> FALSE,
                  item |-> [previews[w][t].doc[t] EXCEPT !.branches = @ \cup {name}, !.active = name]]
      BY <1>8, <2>7 DEF Start
    <3>. QED
      BY <2>6, <2>7, <3>1, <3>2 DEF Typed
  <2>8. ASSUME ~(Reviewed(t, previews[w][t]) /\ NameFits(t, name, previews[w][t]) /\ used < MaxStarts)
        PROVE Fine
    BY <1>8, <2>8 DEF Start, Typed
  <2>9. Fine
    BY <2>7, <2>8
  <2>. QED
    BY <1>8, <2>5, <2>9 DEF Start, Typed, TypeOK, Keeps, NoFault, repository
<1>9. CASE ListRecoveries
  <2>1. offered' \subseteq Ids
    BY <1>9 DEF ListRecoveries, Pending, Typed, TypeOK
  <2>. QED
    BY <1>9, <2>1 DEF ListRecoveries, Typed, TypeOK, Keeps, NoFault, repository, journal
<1>10. ASSUME NEW id \in Ids, Recover(id) PROVE Typed'
  <2>1. record[id] \in Records
    BY <1>10 DEF Recover, Typed, TypeOK
  <2>2. record[id].task \in Tasks /\ record[id].item \in Items
    BY <2>1 DEF Records
  <2>3. job' \in RecoverJobs /\ docs' \in [Places -> Document] /\ clock' \in 0 .. MaxSaves
    BY <1>10, <1>s, <2>2 DEF Recover, Save, RecoverJobs, Typed, TypeOK, Document
  <2>. QED
    BY <1>10, <2>3 DEF Recover, Save, Typed, TypeOK, NoFault, repository, journal
<1>11. CASE WriteRecord
  <2>1. job \in StartJobs /\ [job EXCEPT !.step = "pointer"] \in StartJobs
    BY <1>11, <1>k, <1>n DEF WriteRecord, At, StartSteps
  <2>2. [task |-> job.task, branch |-> job.name, item |-> job.item] \in Records
    BY <2>1 DEF StartJobs, Records
  <2>. QED
    BY <1>11, <2>1, <2>2 DEF WriteRecord, Goto, Typed, TypeOK, Keeps, NoFault, repository
<1>12. CASE WritePointer
  <2>1. job.id \in Ids /\ job.task \in Tasks /\ [job EXCEPT !.step = "index"] \in StartJobs
    BY <1>12, <1>k, <1>n, <1>j DEF WritePointer, At, StartSteps
  <2>. QED
    BY <1>12, <2>1 DEF WritePointer, Goto, Typed, TypeOK, Keeps, NoFault, repository
<1>26. CASE WriteIndex
  <2>1. job.task \in Tasks /\ [job EXCEPT !.step = "checkout"] \in StartJobs
    BY <1>26, <1>k, <1>n, <1>j DEF WriteIndex, At, StartSteps
  <2>. QED
    BY <1>26, <2>1 DEF WriteIndex, Goto, Typed, TypeOK, Keeps, NoFault, repository
<1>13. CASE PrepareFails
  <2>1. pointer' \in [Tasks -> Ids \cup {None}]
    BY <1>13 DEF PrepareFails, Typed, TypeOK
  <2>2. record' \in [Ids -> Records \cup {None}]
    BY <1>13 DEF PrepareFails, Typed, TypeOK
  <2>3. faults' \in 0 .. MaxFaults
    BY <1>13 DEF PrepareFails, Fault, Typed
  <2>. QED
    BY <1>13, <2>1, <2>2, <2>3 DEF PrepareFails, Typed, TypeOK, Keeps, repository
<1>14. CASE Checkout
  <2>1. /\ job \in StartJobs /\ job.name \in Names /\ job.task \in Tasks
        /\ [job EXCEPT !.step = "caught"] \in StartJobs
    BY <1>14, <1>k, <1>n, <1>j DEF Checkout, At, StartSteps
  <2>2. [job EXCEPT !.step = "confirm", !.changed = TRUE] \in StartJobs
    BY <2>1 DEF StartJobs, StartSteps
  <2>3. job' \in StartJobs /\ faults' \in 0 .. MaxFaults
    BY <1>14, <2>1, <2>2 DEF Checkout, Goto, Fault, NoFault, Typed
  <2>4. /\ docs' \in [Places -> Document] /\ startedFor' \in [Names -> Tasks \cup {None}]
        /\ branches' \subseteq Names /\ head' \in branches' \cup {Base} /\ unread' \subseteq Names
    BY <1>14, <2>1 DEF Checkout, Typed, TypeOK, Places
  <2>. QED
    BY <1>14, <2>3, <2>4 DEF Checkout, Typed, TypeOK, journal
<1>15. CASE Fails
  <2>1. job' \in StartJobs
    BY <1>15, <1>k, <1>n DEF Fails, At, Goto, StartSteps
  <2>. QED
    BY <1>15, <2>1 DEF Fails, Fault, Typed, TypeOK, Keeps, NoFault, repository, journal
<1>27. CASE Caught
  <2>1. job.id \in Ids /\ job.name \in Names /\ [job EXCEPT !.step = "drop"] \in StartJobs
    BY <1>27, <1>k, <1>n, <1>j DEF Caught, At, StartSteps
  <2>2. /\ job' \in StartJobs \cup {NoJob} /\ offered' \subseteq Ids
        /\ unread' \subseteq Names /\ faults' \in 0 .. MaxFaults
    BY <1>27, <2>1 DEF Caught, Goto, Fault, NoFault, Typed
  <2>. QED
    BY <1>27, <2>2 DEF Caught, Typed, TypeOK, journal
<1>16. CASE Confirm
  <2>1. [job EXCEPT !.step = "carry"] \in StartJobs
    BY <1>16, <1>k, <1>n DEF Confirm, At, StartSteps
  <2>. QED
    BY <1>16, <2>1 DEF Confirm, Goto, Typed, TypeOK, Keeps, NoFault, repository, journal
<1>17. CASE Carry
  <2>1. job \in StartJobs /\ job.task \in Tasks /\ job.item \in Items
    BY <1>17, <1>k, <1>j DEF Carry, At, StartSteps
  <2>2. [job EXCEPT !.step = "register", !.item = Saved(job.item)] \in StartJobs
    BY <1>17, <1>s, <2>1 DEF Carry, Save, StartJobs, StartSteps
  <2>3. /\ clock < MaxSaves /\ clock' = clock + 1 /\ Saved(job.item) \in Items
        /\ docs' = [docs EXCEPT ![Place][job.task] = Saved(job.item)]
    BY <1>17, <1>s, <2>1 DEF Carry, Save
  <2>4. docs' \in [Places -> Document] /\ clock' \in 0 .. MaxSaves
    BY <2>1, <2>3 DEF Typed, TypeOK, Document
  <2>. QED
    BY <1>17, <2>2, <2>4 DEF Carry, Typed, TypeOK, NoFault, repository, journal
<1>18. CASE Register
  <2>1. job.task \in Tasks /\ job.item \in Items
    BY <1>18, <1>k, <1>j, <1>r, <1>v DEF Register, At
  <2>2. registry' \in Document
    BY <1>18, <2>1 DEF Register, Recorded, Typed, TypeOK, Document
  <2>3. job' \in StartJobs \cup RecoverJobs \cup {NoJob}
    BY <1>18, <1>k, <1>n DEF Register, At, Goto, StartSteps
  <2>. QED
    BY <1>18, <2>2, <2>3 DEF Register, Typed, TypeOK, Keeps, NoFault, repository, journal
<1>19. CASE FailsSaved
  <2>1. offered' \subseteq Ids /\ untold' \subseteq Tasks
    BY <1>19, <1>k, <1>j, <1>r, <1>v DEF FailsSaved, Untold, At, Typed
  <2>. QED
    BY <1>19, <2>1 DEF FailsSaved, Fault, Typed, TypeOK, repository, journal
<1>20. CASE Drop
  <2>1. job' \in StartJobs \cup RecoverJobs
    BY <1>20, <1>k, <1>n DEF Drop, At, Goto, StartSteps
  <2>. QED
    BY <1>20, <2>1 DEF Drop, Typed, TypeOK, Keeps, NoFault, repository
<1>21. CASE Unindex
  <2>1. pointer' \in [Tasks -> Ids \cup {None}] /\ index' \subseteq Tasks /\ unlisted' \in BOOLEAN
    BY <1>21 DEF Unindex, Typed, TypeOK
  <2>. QED
    BY <1>21, <2>1 DEF Unindex, Fault, Typed, TypeOK, Keeps, NoFault, repository
<1>22. ASSUME NEW b \in Names, CleanUp(b) PROVE Typed'
  <2>1. registry' \in Document
    BY <1>22 DEF CleanUp, Recorded, Document
  <2>2. [t \in Tasks |-> NoItem] \in Document
    BY DEF Document
  <2>3. docs' \in [Places -> Document]
    BY <1>22, <2>2 DEF CleanUp, Typed, TypeOK
  <2>. QED
    BY <1>22, <2>1, <2>3 DEF CleanUp, Typed, TypeOK, NoFault, journal
<1>23. ASSUME NEW b \in Names, DeleteBranch(b) PROVE Typed'
  <2>1. [t \in Tasks |-> NoItem] \in Document
    BY DEF Document
  <2>2. docs' \in [Places -> Document]
    BY <1>23, <2>1 DEF DeleteBranch, Typed, TypeOK
  <2>. QED
    BY <1>23, <2>2 DEF DeleteBranch, Typed, TypeOK, NoFault, journal
<1>24. ASSUME NEW b \in Places, Switch(b) PROVE Typed'
  <2>1. moved' \in BOOLEAN
    BY <1>24 DEF Switch, Typed
  <2>2. foreign' \in 0 .. MaxForeign
    BY <1>24 DEF Switch, Typed
  <2>. QED
    BY <1>24, <2>1, <2>2 DEF Switch, Typed, TypeOK, NoFault, journal
<1>25. CASE Crash
  <2>1. untold' \subseteq Tasks
    BY <1>25, <1>k, <1>j, <1>r, <1>v DEF Crash, Untold, At, Typed
  <2>. QED
    BY <1>25, <2>1 DEF Crash, Fault, NoPreviews, Typed, TypeOK, repository, journal
<1>. QED
  BY <1>1, <1>2, <1>4, <1>5, <1>6, <1>7, <1>8, <1>9, <1>10, <1>11, <1>12, <1>13, <1>14, <1>15,
     <1>16, <1>17, <1>18, <1>19, <1>20, <1>21, <1>22, <1>23, <1>24, <1>25, <1>26, <1>27 DEF Next

\* The state of the planner keeps its types.
THEOREM TypeCorrect == Spec => []TypeOK
<1>1. Typed => TypeOK
  BY DEF Typed
<1>. QED
  BY TypedInit, TypedNext, <1>1, PTL DEF Spec


-----------------------------------------------------------------------------
\* Versions are compared by their number; of two that are told apart by
\* nothing else the later one is the newer one.
LEMMA NewerTrans ==
  ASSUME NEW a \in Items, NEW b \in Items, NEW c \in Items, Newer(a, b), Newer(b, c)
  PROVE  Newer(a, c)
  BY Bounds DEF Newer, Items

LEMMA VersionsInit == Init => Versions /\ Settled
  BY NamesAssumption DEF Init, Versions, Settled, NoItem, NoJob, Idle, Registers, Registering, Newer, Blank

\* The documents and the registry stay, and no save is under way or its task is
\* left to the untold ones.
LEMMA SettledStays ==
  ASSUME Versions, Settled, UNCHANGED <<docs, registry, clock>>, untold \subseteq untold',
         \/ job' = job
         \/ ~Registers' /\ (Registers => job.task \in untold')
  PROVE  Versions' /\ Settled'
<1>1. Versions'
  BY DEF Versions, Registers, Idle, NoJob
<1>2. CASE job' = job
  BY <1>1, <1>2 DEF Settled, Registering, Registers, Idle, NoJob
<1>3. CASE ~Registers' /\ (Registers => job.task \in untold')
  BY <1>1, <1>3 DEF Settled, Registering
<1>. QED
  BY <1>2, <1>3

\* A save makes the newest version of its task.
LEMMA SettledSaved ==
  ASSUME Typed, Versions, Settled, ~Registers, UNCHANGED <<registry, untold>>,
         NEW t \in Tasks, NEW item \in Items, Save(t, item),
         Registers', job'.task = t, job'.item = Saved(item)
  PROVE  Versions' /\ Settled'
<1> USE Bounds, DocumentTypes
<1>1. /\ Saved(item) \in Items /\ Saved(item).at = clock' /\ clock' = clock + 1 /\ clock \in Nat
      /\ docs' = [docs EXCEPT ![Place][t] = Saved(item)]
  BY SavedItems DEF Save, Typed
<1>2. \A p \in Places, u \in Tasks : docs'[p][u] = IF p = Place /\ u = t THEN Saved(item) ELSE docs[p][u]
  BY <1>1 DEF Typed, TypeOK, Document
<1>3. \A p \in Places, u \in Tasks : docs[p][u].at \in Nat /\ registry[u].at \in Nat
  BY DEF Items
<1>4. Versions'
  BY <1>1, <1>2, <1>3 DEF Versions, Blank
<1>5. ASSUME NEW u \in Tasks \ untold, NEW p \in Places
      PROVE  Newer(docs'[p][u], registry[u]) \/ (u = t /\ docs'[p][u] = Saved(item))
  BY <1>2, <1>5 DEF Settled, Registering
<1>6. Newer(registry[t], Saved(item))
  BY <1>1, <1>3 DEF Versions, Newer
<1>. QED
  BY <1>4, <1>5, <1>6 DEF Settled, Registering

\* Recording the document that is checked out tells the registry nothing that
\* it does not know, except for the task that is being saved.
LEMMA SettledRecorded ==
  ASSUME Typed, Versions, Settled, registry' = [u \in Tasks |-> Recorded(u, Item(u))]
  PROVE  /\ \A u \in Tasks : registry'[u].at <= clock /\ Blank(registry'[u])
         /\ \A u \in Tasks \ untold :
              /\ ~Registering(u) => registry'[u] = registry[u]
              /\ Registering(u) => registry'[u] \in {registry[u], job.item}
<1> USE Bounds, DocumentTypes
<1>1. \A p \in Places, u \in Tasks : docs[p][u].at \in Nat /\ registry[u].at \in Nat
  BY DEF Items
<1>2. \A u \in Tasks : registry'[u] = IF Item(u).at >= registry[u].at THEN Item(u) ELSE registry[u]
  BY DEF Recorded
<1>3. \A u \in Tasks : registry'[u].at <= clock /\ Blank(registry'[u])
  BY <1>2 DEF Versions, Item
<1>4. ASSUME NEW u \in Tasks \ untold
      PROVE  /\ ~Registering(u) => registry'[u] = registry[u]
             /\ Registering(u) => registry'[u] \in {registry[u], job.item}
  <2>1. Newer(Item(u), registry[u]) \/ (Registering(u) /\ Item(u) = job.item)
    BY <1>4 DEF Settled, Item
  <2>2. Newer(Item(u), registry[u]) => registry'[u] = registry[u]
    BY <1>1, <1>2 DEF Newer, Item
  <2>. QED
    BY <1>2, <2>1, <2>2
<1>. QED
  BY <1>3, <1>4

LEMMA SettledNext == Typed /\ Versions /\ Settled /\ [Next]_vars => Versions' /\ Settled'
<1> SUFFICES ASSUME Typed, Versions, Settled, [Next]_vars PROVE Versions' /\ Settled'
  OBVIOUS
<1> USE Bounds, NamesAssumption, DocumentTypes
<1>k. /\ ~Idle => job.kind \in {"start", "recover", "save"}
      /\ job.kind = "start" => job \in StartJobs
      /\ job.kind = "recover" => job \in RecoverJobs
      /\ job.kind = "save" => job \in SaveJobs
      /\ ~Idle /\ job.step \in StartSteps \ {"register", "drop", "unindex"} => job.kind = "start"
      /\ ~Idle /\ job.step \in {"drop", "unindex"} => job.kind \in {"start", "recover"}
  BY JobKinds DEF Typed
<1>i. ~Idle => job.task \in Tasks /\ job.item \in Items
  BY <1>k DEF StartJobs, RecoverJobs, SaveJobs
<1>o. \A step \in StartSteps \ {"register"} : job' = [job EXCEPT !.step = step] /\ ~Idle => ~Registers'
  BY <1>k DEF Registers, StartJobs, RecoverJobs, SaveJobs
<1>1. CASE UNCHANGED vars
  BY <1>1, SettledStays DEF vars, repository
<1>2. ASSUME NEW t \in Tasks, InspectPending(t) PROVE Versions' /\ Settled'
  BY <1>2, SettledStays DEF InspectPending, Keeps, NoFault, repository
<1>3. ASSUME NEW t \in Tasks, NEW item \in Items, Idle, Update(t, item) PROVE Versions' /\ Settled'
  <2>1. ~Registers /\ Registers' /\ job'.task = t /\ job'.item = Saved(item)
    BY <1>3 DEF Update, Registers, Idle, NoJob
  <2>. QED
    BY <1>3, <2>1, SettledSaved DEF Update, NoFault
<1>4. ASSUME NEW t \in Tasks, Archive(t) PROVE Versions' /\ Settled'
  <2>1. [Item(t) EXCEPT !.active = None] \in Items
    BY DEF Items
  <2>. QED
    BY <1>3, <1>4, <2>1 DEF Archive
<1>5. ASSUME NEW t \in Tasks, NEW name \in Names, AssignBranch(t, name) PROVE Versions' /\ Settled'
  <2>1. [Item(t) EXCEPT !.active = name, !.branches = (@ \ {Item(t).active}) \cup {name}] \in Items
    BY DEF Items
  <2>. QED
    BY <1>3, <1>5, <2>1 DEF AssignBranch
<1>6. ASSUME NEW t \in Tasks, Edit(t) PROVE Versions' /\ Settled'
  <2>1. /\ Saved(Item(t)) \in Items /\ Saved(Item(t)).at = clock' /\ clock' = clock + 1 /\ clock \in Nat
        /\ docs' = [docs EXCEPT ![Place][t] = Saved(Item(t))]
    BY <1>6, SavedItems DEF Edit, Save, Typed
  <2>2. \A p \in Places, u \in Tasks : docs'[p][u] = IF p = Place /\ u = t THEN Saved(Item(t)) ELSE docs[p][u]
    BY <2>1 DEF Typed, TypeOK, Document
  <2>3. \A p \in Places, u \in Tasks : docs[p][u].at \in Nat /\ registry[u].at \in Nat
    BY DEF Items
  <2>4. Registers' = Registers /\ job' = job /\ registry' = registry /\ untold' = untold \cup {t}
    BY <1>6 DEF Edit, NoFault, Registers, Idle, NoJob
  <2>5. Versions'
    BY <2>1, <2>2, <2>3, <2>4, <1>i DEF Versions, Blank, Registers, Items
  <2>6. \A u \in Tasks \ untold' : \A p \in Places : docs'[p][u] = docs[p][u]
    BY <2>2, <2>4
  <2>7. Settled'
    BY <2>4, <2>6 DEF Settled, Registering
  <2>. QED
    BY <2>5, <2>7
<1>7. ASSUME NEW w \in Windows, NEW t \in Tasks, Inspect(w, t) PROVE Versions' /\ Settled'
  <2>1. /\ registry' = [u \in Tasks |-> Recorded(u, Item(u))]
        /\ UNCHANGED <<docs, clock, untold, job>>
    BY <1>7 DEF Inspect, Keeps, NoFault, repository
  <2>2. Registers' = Registers
    BY <2>1 DEF Registers, Idle, NoJob
  <2>3. Versions'
    BY <2>1, <2>2, SettledRecorded DEF Versions
  <2>4. ASSUME NEW u \in Tasks \ untold
        PROVE  /\ \A p \in Places : Newer(docs[p][u], registry'[u]) \/ (Registering(u) /\ docs[p][u] = job.item)
               /\ Registering(u) => Newer(registry'[u], job.item)
    <3>1. CASE registry'[u] = registry[u]
      BY <2>4, <3>1 DEF Settled
    <3>2. CASE Registering(u) /\ registry'[u] = job.item
      <4>1. \A p \in Places : Newer(docs[p][u], job.item) \/ docs[p][u] = job.item
        BY <2>4, <3>2, <1>i, NewerTrans DEF Settled, Registering, Registers
      <4>2. Newer(job.item, job.item)
        BY DEF Newer
      <4>. QED
        BY <3>2, <4>1, <4>2
    <3>. QED
      BY <2>1, <2>4, <3>1, <3>2, SettledRecorded
  <2>5. Settled'
    BY <2>1, <2>2, <2>4 DEF Settled, Registering
  <2>. QED
    BY <2>3, <2>5
<1>8. ASSUME NEW w \in Windows, NEW t \in Tasks, NEW name \in Names, Start(w, t, name) PROVE Versions' /\ Settled'
  <2>1. ~Registers /\ (job' = job \/ job'.step = "record")
    BY <1>8 DEF Start, Registers
  <2>. QED
    BY <1>8, <2>1, SettledStays DEF Start, Registers, Keeps, NoFault, repository
<1>9. CASE ListRecoveries
  BY <1>9, SettledStays DEF ListRecoveries, Keeps, NoFault, repository
<1>10. ASSUME NEW id \in Ids, Recover(id) PROVE Versions' /\ Settled'
  <2>1. record[id].task \in Tasks /\ record[id].item \in Items
    BY <1>10 DEF Recover, Typed, TypeOK, Records
  <2>2. ~Registers /\ Registers' /\ job'.task = record[id].task /\ job'.item = Saved(record[id].item)
    BY <1>10 DEF Recover, Registers, Idle, NoJob
  <2>. QED
    BY <1>10, <2>1, <2>2, SettledSaved DEF Recover, NoFault, repository
<1>11. CASE WriteRecord \/ WritePointer \/ WriteIndex \/ Confirm \/ Fails \/ Drop
  <2>1. ~Registers
    BY <1>11 DEF WriteRecord, WritePointer, WriteIndex, Confirm, Fails, Drop, At, Registers
  <2>2. ~Registers'
    BY <1>11, <1>o DEF WriteRecord, WritePointer, WriteIndex, Confirm, Fails, Drop, At, Goto, StartSteps
  <2>. QED
    BY <1>11, <2>1, <2>2, SettledStays DEF WriteRecord, WritePointer, WriteIndex, Confirm, Fails, Drop, Keeps, repository
<1>12. CASE FailsSaved \/ Crash
  <2>1. ~Registers' /\ (Registers => job.task \in untold') /\ untold \subseteq untold'
    BY <1>12 DEF FailsSaved, Crash, Untold, At, Registers, Idle
  <2>. QED
    BY <1>12, <2>1, SettledStays DEF FailsSaved, Crash
<1>13. CASE PrepareFails \/ Unindex
  <2>1. ~Registers /\ ~Registers'
    BY <1>13 DEF PrepareFails, Unindex, At, Registers, Idle
  <2>. QED
    BY <1>13, <2>1, SettledStays DEF PrepareFails, Unindex, Keeps
<1>14. ASSUME NEW b \in Places, Switch(b) PROVE Versions' /\ Settled'
  BY <1>14, SettledStays DEF Switch, NoFault
<1>15. CASE Caught
  <2>1. ~Registers /\ ~Registers'
    BY <1>15, <1>o DEF Caught, At, Goto, Registers, Idle, StartSteps
  <2>. QED
    BY <1>15, <2>1, SettledStays DEF Caught
<1>16. CASE Carry
  <2>1. ~Registers /\ ~Idle
    BY <1>16 DEF Carry, At, Registers
  <2>2. Registers' /\ job'.task = job.task /\ job'.item = Saved(job.item)
    BY <1>16, <1>k, <2>1 DEF Carry, At, Registers, Idle, NoJob, StartJobs, StartSteps
  <2>. QED
    BY <1>16, <1>i, <2>1, <2>2, SettledSaved DEF Carry
<1>17. CASE Register
  <2>1. Registers /\ job.task \in Tasks /\ job.item \in Items
    BY <1>17, <1>i DEF Register, At, Registers
  <2>2. /\ registry' = [registry EXCEPT ![job.task] = Recorded(job.task, job.item)]
        /\ UNCHANGED <<docs, clock, untold>>
    BY <1>17 DEF Register, Keeps, NoFault, repository
  <2>3. ~Registers'
    BY <1>17, <1>o, <2>1 DEF Register, Goto, Registers, Idle, StartSteps
  <2>4. \A u \in Tasks : registry'[u] = IF u = job.task THEN Recorded(u, job.item) ELSE registry[u]
    BY <2>1, <2>2 DEF Typed, TypeOK, Document
  <2>5. job.item.at \in 1 .. clock /\ clock \in Nat
    BY <2>1 DEF Versions, Typed
  <2>6. Versions'
    BY <2>2, <2>3, <2>4, <2>5 DEF Versions, Recorded, Blank
  <2>7. ASSUME NEW u \in Tasks \ untold, NEW p \in Places
        PROVE  Newer(docs[p][u], registry'[u])
    <3>1. CASE u = job.task
      <4>1. Newer(registry[u], job.item)
        BY <2>1, <2>7, <3>1 DEF Settled, Registering
      <4>2. registry'[u] = job.item
        BY <2>4, <2>1, <3>1, <4>1 DEF Recorded, Newer, Items
      <4>3. Newer(docs[p][u], registry[u]) \/ docs[p][u] = job.item
        BY <2>7 DEF Settled
      <4>. QED
        BY <2>1, <4>1, <4>2, <4>3, NewerTrans DEF Newer
    <3>2. CASE u # job.task
      BY <2>4, <2>7, <3>2 DEF Settled, Registering
    <3>. QED
      BY <3>1, <3>2
  <2>8. Settled'
    BY <2>2, <2>3, <2>7 DEF Settled, Registering
  <2>. QED
    BY <2>6, <2>8
<1>18. CASE Checkout
  <2>1. ~Registers /\ ~Registers'
    <3>1. ~Idle /\ ~Registers
      BY <1>18 DEF Checkout, At, Registers
    <3>2. [job EXCEPT !.step = "confirm", !.changed = TRUE].step = "confirm"
      BY <1>18, <1>k DEF Checkout, At, StartJobs, StartSteps
    <3>. QED
      BY <1>18, <1>o, <3>1, <3>2 DEF Checkout, Goto, Registers, StartSteps
  <2>2. UNCHANGED <<registry, clock, untold>>
    BY <1>18 DEF Checkout
  <2>3. job.name \in Names
    BY <1>18, <1>k DEF Checkout, At, StartJobs, StartSteps
  <2>4. \A p \in Places : \E q \in Places : docs'[p] = docs[q]
    BY <1>18, <2>3 DEF Checkout, Typed, TypeOK, Places
  <2>5. Versions'
    BY <2>1, <2>2, <2>4 DEF Versions
  <2>6. Settled'
    BY <2>1, <2>2, <2>4 DEF Settled, Registering
  <2>. QED
    BY <2>5, <2>6
<1>e. ASSUME NEW b \in Names, docs' = [docs EXCEPT ![b] = [t \in Tasks |-> NoItem]]
      PROVE  \A p \in Places, u \in Tasks : docs'[p][u] \in {docs[p][u], NoItem}
  BY <1>e DEF Typed, TypeOK
<1>b. NoItem.at = 0 /\ Blank(NoItem)
  BY DEF NoItem, Blank
<1>h. \A u \in Tasks : Blank(registry[u]) => Newer(NoItem, registry[u])
  BY <1>b DEF Blank, Newer, Items
<1>19. ASSUME NEW b \in Names, CleanUp(b) PROVE Versions' /\ Settled'
  <2>1. /\ registry' = [u \in Tasks |-> Recorded(u, Item(u))]
        /\ UNCHANGED <<clock, untold, job>> /\ Idle
        /\ docs' = [docs EXCEPT ![b] = [t \in Tasks |-> NoItem]]
    BY <1>19 DEF CleanUp, NoFault
  <2>2. ~Registers /\ ~Registers'
    BY <2>1 DEF Registers, Idle, NoJob
  <2>3. clock \in Nat
    BY DEF Typed
  <2>4. Versions'
    BY <1>e, <1>b, <2>1, <2>2, <2>3, SettledRecorded DEF Versions
  <2>5. Settled'
    BY <1>e, <1>h, <2>1, <2>2, SettledRecorded DEF Settled, Registering, Versions
  <2>. QED
    BY <2>4, <2>5
<1>20. ASSUME NEW b \in Names, DeleteBranch(b) PROVE Versions' /\ Settled'
  <2>1. /\ UNCHANGED <<clock, untold, job, registry>>
        /\ docs' = [docs EXCEPT ![b] = [t \in Tasks |-> NoItem]]
    BY <1>20 DEF DeleteBranch, NoFault
  <2>2. Registers' = Registers
    BY <2>1 DEF Registers, Idle, NoJob
  <2>3. clock \in Nat
    BY DEF Typed
  <2>4. Versions'
    BY <1>e, <1>b, <2>1, <2>2, <2>3 DEF Versions
  <2>5. Settled'
    BY <1>e, <1>h, <2>1, <2>2 DEF Settled, Registering, Versions
  <2>. QED
    BY <2>4, <2>5
<1>. QED
  BY <1>1, <1>2, <1>4, <1>5, <1>6, <1>7, <1>8, <1>9, <1>10, <1>11, <1>12, <1>13, <1>14, <1>15,
     <1>16, <1>17, <1>18, <1>19, <1>20 DEF Next

\* No other action takes a branch away.
LEMMA OnlyDeletes ==
  ASSUME Next
  PROVE  branches \subseteq branches' \/ \E c \in Names : CleanUp(c) \/ DeleteBranch(c)
<1>1. ASSUME NEW t \in Tasks, InspectPending(t) \/ Archive(t) \/ Edit(t) PROVE branches' = branches
  BY <1>1 DEF InspectPending, Archive, Update, Edit, Keeps, repository
<1>2. ASSUME NEW w \in Windows, NEW t \in Tasks, Inspect(w, t) PROVE branches' = branches
  BY <1>2 DEF Inspect, Keeps, repository
<1>3. ASSUME NEW w \in Windows, NEW t \in Tasks, NEW name \in Names, Start(w, t, name)
      PROVE  branches' = branches
  BY <1>3 DEF Start, Keeps, repository
<1>4. ASSUME NEW t \in Tasks, NEW name \in Names, AssignBranch(t, name) PROVE branches' = branches
  BY <1>4 DEF AssignBranch, Update
<1>5. ASSUME NEW id \in Ids, Recover(id) PROVE branches' = branches
  BY <1>5 DEF Recover, repository
<1>6. CASE WriteRecord \/ WritePointer \/ WriteIndex \/ PrepareFails \/ ListRecoveries
  BY <1>6 DEF WriteRecord, WritePointer, WriteIndex, PrepareFails, ListRecoveries, Keeps, repository
<1>7. CASE Confirm \/ Carry \/ Fails \/ Caught \/ Register
  BY <1>7 DEF Confirm, Carry, Fails, Caught, Register, Keeps, repository
<1>8. CASE FailsSaved \/ Drop \/ Unindex \/ Crash
  BY <1>8 DEF FailsSaved, Drop, Unindex, Crash, Keeps, repository
<1>9. CASE Checkout
  BY <1>9 DEF Checkout
<1>10. ASSUME NEW b \in Places, Switch(b) PROVE branches' = branches
  BY <1>10 DEF Switch
<1>. QED
  BY <1>1, <1>2, <1>3, <1>4, <1>5, <1>6, <1>7, <1>8, <1>9, <1>10 DEF Next

\* The cleanup deletes no branch on which a task is being worked, whatever
\* failed before, if every version of the task was told to the registry.
THEOREM WorkedOnIsSpared == Spec => WorkIsProtected
<1> DEFINE Protects == \A b \in Names, t \in Tasks \ untold :
                 Deletes(b) /\ docs[b][t].active = b => registry'[t].at > docs[b][t].at
<1>1. Init => Typed /\ Versions /\ Settled
  BY TypedInit, VersionsInit
<1>2. Typed /\ Versions /\ Settled /\ [Next]_vars => (Typed /\ Versions /\ Settled)'
  BY TypedNext, SettledNext
<1>3. ASSUME Typed, Versions, Settled, Next PROVE Protects
  <2> SUFFICES ASSUME NEW b \in Names, NEW t \in Tasks \ untold,
                      Deletes(b), docs[b][t].active = b
               PROVE  registry'[t].at > docs[b][t].at
    OBVIOUS
  <2>1. foreign \in Nat
    BY Bounds, <1>3 DEF Typed
  <2>2. PICK c \in Names : CleanUp(c)
    BY <1>3, <2>1, OnlyDeletes DEF Deletes, DeleteBranch
  <2>3. c = b /\ Idle /\ b \notin Protected(registry') /\ registry' = [u \in Tasks |-> Recorded(u, Item(u))]
    BY <2>2 DEF CleanUp, Deletes
  <2>4. ~Registering(t)
    BY <2>3 DEF Registering, Registers
  <2>5. registry'[t] = registry[t]
    BY <1>3, <2>3, <2>4, SettledRecorded
  <2>6. b \in Places /\ Newer(docs[b][t], registry[t])
    BY <1>3, <2>4 DEF Settled, Places
  <2>7. docs[b][t] # registry[t]
    BY <2>3, <2>5 DEF Protected
  <2>8. docs[b][t] \in Items /\ registry[t] \in Items
    BY <1>3, <2>6, DocumentTypes
  <2>. QED
    BY Bounds, <2>5, <2>6, <2>7, <2>8 DEF Newer, Items
<1>4. Typed /\ Versions /\ Settled /\ [Next]_vars => [Protects]_vars
  BY <1>3
<1>. QED
  BY <1>1, <1>2, <1>4, PTL DEF Spec, WorkIsProtected

-----------------------------------------------------------------------------
\* What is known of a start or a recovery in progress.
LEMMA JobTypes ==
  ASSUME Typed
  PROVE  /\ ~Idle => job.task \in Tasks /\ job.item \in Items /\ job.kind \in {"start", "recover", "save"}
         /\ job.kind = "start" => ~Idle /\ job \in StartJobs /\ job.id \in Ids /\ job.name \in Names /\ job.window \in Windows
         /\ job.kind = "recover" => ~Idle /\ job \in RecoverJobs /\ job.id \in Ids
         /\ ~Idle /\ job.step \in StartSteps \ {"register", "drop", "unindex"} => job.kind = "start"
         /\ ~Idle /\ job.step \in {"drop", "unindex"} => job.kind \in {"start", "recover"}
         /\ job.kind = "save" => job.step = "register"
  BY JobKinds DEF Typed, StartJobs, RecoverJobs, SaveJobs

\* One step of the job leaves the rest of it.
LEMMA StepsOn ==
  ASSUME Typed, ~Idle, NEW step \in StartSteps, job' = [job EXCEPT !.step = step]
  PROVE  /\ job'.kind = job.kind /\ job'.task = job.task /\ job'.item = job.item /\ job'.step = step
         /\ job.kind \in {"start", "recover"} => job'.id = job.id
         /\ job.kind = "start" => /\ job'.name = job.name /\ job'.preview = job.preview
                                 /\ job'.changed = job.changed /\ job'.window = job.window
  BY JobTypes, JobKinds DEF Typed, StartJobs, RecoverJobs, SaveJobs

LEMMA JournalInit == Init => Journal
  BY NoneAssumption DEF Init, NoPreviews, NoJob, Journal, Numbered, Exclusive, Recording, Starting, Recovering, Pending

LEMMA JournalNext == OneWindow /\ Typed /\ Typed' /\ Journal /\ [Next]_vars => Journal'
<1> SUFFICES ASSUME OneWindow, Typed, Typed', Journal, [Next]_vars PROVE Journal'
  OBVIOUS
<1> USE Bounds, NoneAssumption, JobTypes
<1>t. /\ record \in [Ids -> Records \cup {None}] /\ pointer \in [Tasks -> Ids \cup {None}]
      /\ index \subseteq Tasks /\ offered \subseteq Ids /\ used \in Nat
  BY DEF Typed, TypeOK
<1>r. /\ \A i \in Ids : record[i] # None => record[i].task \in Tasks /\ record[i].item \in Items
      /\ Ids \subseteq Nat
  BY <1>t DEF Records, Ids
<1>n. NoJob.kind = "none"
  BY DEF NoJob
<1>d. Idle => job.kind = "none"
  BY <1>n DEF Idle
\* Nothing that the journal tells apart changes.
<1>1. ASSUME UNCHANGED <<journal, previews, job, offered>> PROVE Journal'
  BY <1>1 DEF journal, Journal, Numbered, Exclusive, Recording, Starting, Recovering, Pending
\* A window learns of pending starts.
<1>2. ASSUME UNCHANGED <<journal, previews, job>>,
             \A i \in offered' \ offered : \E t \in Tasks : Pending(t) /\ i = pointer[t]
      PROVE  Journal'
  <2>1. \A i \in offered' : i \in offered \/ \E t \in Tasks : Pending(t) /\ i = pointer[t]
    BY <1>2
  <2>2. Numbered'
    BY <1>2, <2>1 DEF journal, Journal, Numbered, Pending
  <2>3. Exclusive'
    BY <1>2, <2>1 DEF journal, Journal, Exclusive, Pending
  <2>4. Recording'
    BY <1>2, <2>1 DEF journal, Journal, Recording, Starting, Recovering, Pending
  <2>. QED
    BY <2>2, <2>3, <2>4 DEF Journal
\* The job ends or another one than a start begins.
<1>3. ASSUME UNCHANGED <<journal, previews, offered>>, job'.kind \in {"none", "save"}
      PROVE  Journal'
  BY <1>3 DEF journal, Journal, Numbered, Exclusive, Recording, Starting, Recovering, Pending
<1>4. CASE UNCHANGED vars
  BY <1>1, <1>4 DEF vars
<1>5. ASSUME NEW t \in Tasks, InspectPending(t) PROVE Journal'
  BY <1>2, <1>5 DEF InspectPending
<1>6. ASSUME NEW t \in Tasks, Archive(t) PROVE Journal'
  BY <1>3, <1>6 DEF Archive, Update
<1>7. ASSUME NEW t \in Tasks, NEW name \in Names, AssignBranch(t, name) PROVE Journal'
  BY <1>3, <1>7 DEF AssignBranch, Update
<1>8. ASSUME NEW t \in Tasks, Edit(t) PROVE Journal'
  BY <1>1, <1>8 DEF Edit, repository
<1>9. ASSUME NEW w \in Windows, NEW t \in Tasks, Inspect(w, t) PROVE Journal'
  <2>1. job.kind # "start" /\ ~Pending(t) /\ UNCHANGED <<journal, job, offered>>
    BY <1>9 DEF Inspect, Waits, OneWindow
  <2>2. \A v \in Windows, u \in Tasks : previews'[v][u] # None => u = t \/ previews[v][u] # None
    BY <1>9 DEF Inspect, Typed
  <2>3. Exclusive'
    BY <2>1, <2>2 DEF journal, Journal, Exclusive, Pending
  <2>. QED
    BY <2>1, <2>3 DEF journal, Journal, Numbered, Recording, Starting, Recovering, Pending
<1>10. ASSUME NEW w \in Windows, NEW t \in Tasks, NEW name \in Names, Start(w, t, name) PROVE Journal'
  <2>1. /\ Idle /\ previews[w][t] # None /\ previews' = [previews EXCEPT ![w][t] = None]
        /\ UNCHANGED <<record, pointer, index, offered>>
    BY <1>10 DEF Start
  <2>2. \A v \in Windows, u \in Tasks : previews'[v][u] = IF u = t THEN None ELSE previews[v][u]
    BY <2>1 DEF OneWindow, Typed
  <2> DEFINE item == [previews[w][t].doc[t] EXCEPT !.branches = @ \cup {name}, !.active = name]
             Begins == /\ used' = used + 1 /\ used' \in Ids
                       /\ job' = [kind |-> "start", window |-> w, step |-> "record", task |-> t, name |-> name, id |-> used',
                                  preview |-> previews[w][t], changed |-> FALSE, item |-> item]
  <2>3. UNCHANGED <<used, job>> \/ Begins
    BY <1>10, <1>t DEF Start, Ids
  <2>4. previews[w][t].doc[t] \in Items
    BY <2>1 DEF Typed, Previews, Document
  <2>5. Numbered' /\ Exclusive'
    <3>1. used' \in Nat /\ used' >= used
      BY <2>3, <1>t
    <3>. QED
      BY <2>1, <2>2, <3>1, <1>t, <1>r DEF Journal, Numbered, Exclusive, Pending
  <2>6. CASE UNCHANGED <<used, job>>
    <3>1. job'.kind = "none"
      BY <2>1, <2>6, <1>d
    <3>. QED
      BY <2>5, <3>1 DEF Journal, Recording, Starting, Recovering
  <2>7. CASE Begins
    <3>1. /\ used' = used + 1 /\ used' \in Ids
          /\ job'.kind = "start" /\ job'.step = "record" /\ job'.task = t /\ job'.id = used' /\ job'.name = name
          /\ job'.preview = previews[w][t]
          /\ job'.item.branches = previews[w][t].doc[t].branches \cup {name}
      <4>1. item.branches = previews[w][t].doc[t].branches \cup {name}
        BY <2>4 DEF Items
      <4>. HIDE DEF item
      <4>. QED
        BY <2>7, <4>1
    <3>2. \A i \in offered' : i # used'
      BY <2>1, <3>1, <1>t, <1>r DEF Journal, Numbered
    <3>3. \A u \in Tasks : pointer'[u] # used'
      BY <2>1, <3>1, <1>t, <1>r DEF Journal, Numbered
    <3>4. record'[used'] = None
      BY <2>1, <3>1, <1>t, <1>r DEF Journal, Numbered
    <3>5. ~Pending(t)'
      BY <2>1 DEF Journal, Exclusive, Pending
    <3>6. Recording'
      BY <2>2, <3>1, <3>2, <3>3, <3>4, <3>5 DEF Recording, Starting, Recovering, StartSteps
    <3>. QED
      BY <2>5, <3>6 DEF Journal
  <2>. QED
    BY <2>3, <2>6, <2>7
<1>11. CASE ListRecoveries
  BY <1>2, <1>11, <1>t DEF ListRecoveries
<1>12. ASSUME NEW id \in Ids, Recover(id) PROVE Journal'
  <2>1. /\ job'.kind = "recover" /\ job'.step = "register" /\ job'.task = record[id].task /\ job'.id = id
        /\ UNCHANGED <<journal, previews, offered>> /\ record[id] # None /\ id \in offered
    BY <1>12 DEF Recover
  <2>2. pointer[record[id].task] = id
    BY <2>1 DEF Journal, Exclusive
  <2>. QED
    BY <2>1, <2>2 DEF journal, Journal, Numbered, Exclusive, Recording, Starting, Recovering, Pending
<1>13. CASE WriteRecord
  <2>1. /\ ~Idle /\ job.step = "record" /\ job.kind = "start" /\ job' = [job EXCEPT !.step = "pointer"]
        /\ record' = [record EXCEPT ![job.id] = [task |-> job.task, branch |-> job.name, item |-> job.item]]
        /\ UNCHANGED <<pointer, index, used, previews, offered>>
    BY <1>13 DEF WriteRecord, At, Goto, StartSteps
  <2>2. /\ job'.kind = "start" /\ job'.step = "pointer" /\ job'.task = job.task /\ job'.id = job.id
        /\ job'.name = job.name /\ job'.item = job.item /\ job'.preview = job.preview
    BY <2>1, StepsOn DEF StartSteps
  <2>3. \A i \in Ids : record'[i] = IF i = job.id THEN [task |-> job.task, branch |-> job.name, item |-> job.item] ELSE record[i]
    BY <2>1, <1>t
  <2>4. /\ job.id = used /\ job.id \notin offered /\ \A t \in Tasks : pointer[t] # job.id
        /\ ~Pending(job.task) /\ job.name \in job.item.branches
    BY <2>1 DEF Journal, Recording, Starting
  <2>5. \A t \in Tasks : Pending(t)' <=> Pending(t)
    BY <2>1, <2>3, <2>4, <1>t DEF Pending
  <2>6. [task |-> job.task, branch |-> job.name, item |-> job.item] # None
    BY <2>1 DEF Records
  <2>7. Numbered'
    BY <2>1, <2>3, <2>4, <1>t, <1>r DEF Journal, Numbered
  <2>8. Exclusive'
    BY <2>1, <2>3, <2>4, <2>5 DEF Journal, Exclusive
  <2>9. Recording'
    BY <2>1, <2>2, <2>3, <2>4, <2>5, <2>6 DEF Journal, Recording, Starting, Recovering, StartSteps
  <2>. QED
    BY <2>7, <2>8, <2>9 DEF Journal
<1>14. CASE WritePointer
  <2>1. /\ ~Idle /\ job.step = "pointer" /\ job.kind = "start" /\ job' = [job EXCEPT !.step = "index"]
        /\ pointer' = [pointer EXCEPT ![job.task] = job.id]
        /\ UNCHANGED <<record, index, used, previews, offered>>
    BY <1>14 DEF WritePointer, At, Goto, StartSteps
  <2>2. /\ job'.kind = "start" /\ job'.step = "index" /\ job'.task = job.task /\ job'.id = job.id
        /\ job'.name = job.name /\ job'.item = job.item /\ job'.preview = job.preview
    BY <2>1, StepsOn DEF StartSteps
  <2>3. \A t \in Tasks : pointer'[t] = IF t = job.task THEN job.id ELSE pointer[t]
    BY <2>1, <1>t
  <2>4. /\ job.id = used /\ job.id \notin offered /\ \A t \in Tasks : pointer[t] # job.id
        /\ ~Pending(job.task) /\ \A w \in Windows : previews[w][job.task] = None
        /\ record[job.id] # None /\ record[job.id].task = job.task /\ record[job.id].branch = job.name
        /\ record[job.id].item.branches = job.item.branches
        /\ job.item.branches = job.preview.doc[job.task].branches \cup {job.name}
    BY <2>1 DEF Journal, Recording, Starting, StartSteps
  <2>5. \A i \in offered : record[i] # None => record[i].task # job.task
    BY <2>1, <2>4, <1>t DEF Journal, Exclusive, Pending
  <2>6. Numbered'
    BY <2>1, <2>3, <2>4, <1>t, <1>r DEF Journal, Numbered
  <2>7. Exclusive'
    BY <2>1, <2>3, <2>4, <2>5, <1>t, <1>r DEF Journal, Exclusive, Pending
  <2>8. Recording'
    BY <2>1, <2>2, <2>3, <2>4 DEF Recording, Starting, Recovering, StartSteps
  <2>. QED
    BY <2>6, <2>7, <2>8 DEF Journal
<1>15. CASE WriteIndex
  <2>1. /\ ~Idle /\ job.step = "index" /\ job.kind = "start" /\ job' = [job EXCEPT !.step = "checkout"]
        /\ index' = index \cup {job.task}
        /\ UNCHANGED <<record, pointer, used, previews, offered>>
    BY <1>15 DEF WriteIndex, At, Goto, StartSteps
  <2>2. /\ job'.kind = "start" /\ job'.step = "checkout" /\ job'.task = job.task /\ job'.id = job.id
        /\ job'.name = job.name /\ job'.item = job.item /\ job'.preview = job.preview
    BY <2>1, StepsOn DEF StartSteps
  <2>3. Numbered' /\ Exclusive'
    BY <2>1 DEF Journal, Numbered, Exclusive, Pending
  <2>4. Recording'
    BY <2>1, <2>2 DEF Journal, Recording, Starting, Recovering, StartSteps
  <2>. QED
    BY <2>3, <2>4 DEF Journal
<1>16. CASE PrepareFails
  <2>1. /\ ~Idle /\ job.step \in {"record", "pointer", "index"} /\ job.kind = "start" /\ job'.kind = "none"
        /\ record' = [record EXCEPT ![job.id] = None]
        /\ pointer' \in {pointer, [pointer EXCEPT ![job.task] = None]}
        /\ UNCHANGED <<index, used, previews, offered>>
    BY <1>16, <1>n DEF PrepareFails, At, StartSteps
  <2>2. /\ \A i \in Ids : record'[i] = IF i = job.id THEN None ELSE record[i]
        /\ \A t \in Tasks : pointer'[t] \in {None, pointer[t]} /\ (t # job.task => pointer'[t] = pointer[t])
    BY <2>1, <1>t
  <2>3. \A i \in offered : record'[i] # None => record[i].task # job.task
    BY <2>1, <2>2, <1>t DEF Journal, Exclusive, Recording, Starting, Pending, StartSteps
  <2>4. Numbered'
    BY <2>1, <2>2, <1>t DEF Journal, Numbered
  <2>5. Exclusive'
    BY <2>1, <2>2, <2>3, <1>t, <1>r DEF Journal, Exclusive, Pending
  <2>6. Recording'
    BY <2>1 DEF Recording, Starting, Recovering
  <2>. QED
    BY <2>4, <2>5, <2>6 DEF Journal
<1> DEFINE Later == {"checkout", "confirm", "carry", "caught", "register", "drop"}
\* The start goes on, its journal written.
<1>17. ASSUME UNCHANGED <<journal, previews, offered>>, ~Idle, job.kind = "start", job.step \in Later,
              job'.kind = "start", job'.step \in Later, job'.step \in {"confirm", "carry"} => job'.changed,
              job'.task = job.task, job'.id = job.id, job'.name = job.name, job'.preview = job.preview,
              job'.item.branches = job.item.branches
       PROVE  Journal'
  <2>1. Numbered' /\ Exclusive'
    BY <1>17 DEF journal, Journal, Numbered, Exclusive, Pending
  <2>2. Recording'
    BY <1>17 DEF journal, Journal, Recording, Starting, Recovering, StartSteps
  <2>. QED
    BY <2>1, <2>2 DEF Journal
\* The start is interrupted, its journal written: the caller is told.
<1>18. ASSUME UNCHANGED <<journal, previews>>, job.kind = "start", job.step \in Later,
              job' = NoJob, offered' = offered \cup {job.id}
       PROVE  Journal'
  <2>1. /\ pointer[job.task] = job.id /\ (record[job.id] # None => record[job.id].task = job.task)
        /\ job.id = used
    BY <1>18 DEF Journal, Recording, Starting, StartSteps
  <2>2. Numbered' /\ Exclusive'
    BY <1>18, <2>1, <1>t DEF journal, Journal, Numbered, Exclusive, Pending
  <2>3. Recording'
    BY <1>18, <1>n DEF Recording, Starting, Recovering
  <2>. QED
    BY <2>2, <2>3 DEF Journal
<1>19. CASE Caught
  <2>1. /\ ~Idle /\ job.step = "caught" /\ job.kind = "start" /\ UNCHANGED <<journal, previews>>
        /\ \/ job' = NoJob /\ offered' = offered \cup {job.id}
           \/ job' = [job EXCEPT !.step = "drop"] /\ UNCHANGED offered
    BY <1>19 DEF Caught, At, Goto, StartSteps
  <2>2. CASE job' = NoJob /\ offered' = offered \cup {job.id}
    BY <1>18, <2>1, <2>2
  <2>3. CASE job' = [job EXCEPT !.step = "drop"] /\ UNCHANGED offered
    BY <1>17, <2>1, <2>3, StepsOn DEF StartSteps
  <2>. QED
    BY <2>1, <2>2, <2>3
<1>20. CASE Checkout
  <2>1. ~Idle /\ job.step = "checkout" /\ job.kind = "start" /\ UNCHANGED <<journal, previews, offered>>
    BY <1>20 DEF Checkout, At, StartSteps
  <2>2. CASE job' = [job EXCEPT !.step = "caught"]
    BY <1>17, <2>1, <2>2, StepsOn DEF StartSteps
  <2>3. CASE job' = [job EXCEPT !.step = "confirm", !.changed = TRUE]
    <3>1. /\ job'.kind = "start" /\ job'.step = "confirm" /\ job'.changed
          /\ job'.task = job.task /\ job'.id = job.id /\ job'.name = job.name /\ job'.preview = job.preview
          /\ job'.item = job.item
      BY <2>1, <2>3 DEF StartJobs
    <3>. QED
      BY <1>17, <2>1, <3>1
  <2>. QED
    BY <1>20, <2>2, <2>3 DEF Checkout, Goto
<1>21. CASE Fails
  <2>1. /\ ~Idle /\ job.step \in {"checkout", "confirm", "carry"} /\ job.kind = "start"
        /\ job' = [job EXCEPT !.step = "caught"] /\ UNCHANGED <<journal, previews, offered>>
    BY <1>21 DEF Fails, At, Goto, StartSteps
  <2>. QED
    BY <1>17, <2>1, StepsOn DEF StartSteps
<1>22. CASE Confirm
  <2>1. /\ ~Idle /\ job.step = "confirm" /\ job.kind = "start" /\ job' = [job EXCEPT !.step = "carry"]
        /\ UNCHANGED <<journal, previews, offered>>
    BY <1>22 DEF Confirm, At, Goto, StartSteps
  <2>2. job.changed
    BY <2>1 DEF Journal, Recording, Starting
  <2>. QED
    BY <1>17, <2>1, <2>2, StepsOn DEF StartSteps
<1>23. CASE Carry
  <2>1. /\ ~Idle /\ job.step = "carry" /\ job.kind = "start" /\ UNCHANGED <<journal, previews, offered>>
        /\ job' = [job EXCEPT !.step = "register", !.item = Saved(job.item)]
        /\ clock < MaxSaves /\ clock \in Nat
    BY <1>23 DEF Carry, At, Save, StartSteps, Typed
  <2>2. Saved(job.item).branches = job.item.branches
    BY <2>1, SavedItems
  <2>3. /\ job'.kind = "start" /\ job'.step = "register" /\ job'.item = Saved(job.item)
        /\ job'.task = job.task /\ job'.id = job.id /\ job'.name = job.name /\ job'.preview = job.preview
    BY <2>1 DEF StartJobs
  <2>. QED
    BY <1>17, <2>1, <2>2, <2>3
\* A recovery goes on.
<1>24. ASSUME UNCHANGED <<journal, previews, offered>>, job.kind = "recover", job.step = "register",
              job'.kind = "recover", job'.step = "drop", job'.task = job.task, job'.id = job.id
       PROVE  Journal'
  BY <1>24 DEF journal, Journal, Numbered, Exclusive, Recording, Starting, Recovering, Pending
<1>25. CASE Register
  <2>1. ~Idle /\ job.step = "register" /\ UNCHANGED <<journal, previews, offered>>
    BY <1>25 DEF Register, At
  <2>2. CASE job.kind = "save"
    BY <1>3, <1>25, <1>n, <2>1, <2>2 DEF Register
  <2>3. CASE job.kind # "save"
    <3>1. job' = [job EXCEPT !.step = "drop"]
      BY <1>25, <2>3 DEF Register, Goto
    <3>. QED
      BY <1>17, <1>24, <2>1, <2>3, <3>1, StepsOn DEF StartSteps
  <2>. QED
    BY <2>2, <2>3
<1>26. CASE FailsSaved
  <2>1. /\ ~Idle /\ job.step \in {"register", "drop"} /\ UNCHANGED <<journal, previews>> /\ job' = NoJob
        /\ \/ UNCHANGED offered
           \/ job.kind = "start" /\ offered' = offered \cup {job.id}
    BY <1>26 DEF FailsSaved, At
  <2>. QED
    BY <1>3, <1>18, <1>n, <2>1
\* What belongs to the job in progress, once its record is dropped.
<1>27. CASE Drop
  <2>1. /\ ~Idle /\ job.step = "drop" /\ job.kind \in {"start", "recover"} /\ job' = [job EXCEPT !.step = "unindex"]
        /\ record' = [record EXCEPT ![job.id] = None]
        /\ UNCHANGED <<pointer, index, used, previews, offered>>
    BY <1>27 DEF Drop, At, Goto
  <2>2. /\ job'.kind = job.kind /\ job'.step = "unindex" /\ job'.task = job.task /\ job'.id = job.id
        /\ job'.item = job.item
        /\ job.kind = "start" => job'.name = job.name /\ job'.preview = job.preview
    BY <2>1, StepsOn DEF StartSteps
  <2>3. \A i \in Ids : record'[i] = IF i = job.id THEN None ELSE record[i]
    BY <2>1, <1>t
  <2>4. Numbered'
    BY <2>1, <2>3, <1>t DEF Journal, Numbered
  <2>5. Exclusive'
    BY <2>1, <2>3, <1>t DEF Journal, Exclusive, Pending
  <2>6. Recording'
    BY <2>1, <2>2, <2>3 DEF Journal, Recording, Starting, Recovering, StartSteps
  <2>. QED
    BY <2>4, <2>5, <2>6 DEF Journal
<1>28. CASE Unindex
  <2>1. /\ ~Idle /\ job.step = "unindex" /\ job.kind \in {"start", "recover"} /\ job'.kind = "none"
        /\ pointer' \in {pointer, [pointer EXCEPT ![job.task] = None]}
        /\ UNCHANGED <<record, used, previews, offered>>
    BY <1>28, <1>n DEF Unindex, At
  <2>2. /\ \A t \in Tasks : pointer'[t] \in {None, pointer[t]} /\ (t # job.task => pointer'[t] = pointer[t])
    BY <2>1, <1>t
  <2>3. pointer[job.task] = job.id /\ record[job.id] = None
    BY <2>1 DEF Journal, Recording, Starting, StartSteps
  <2>4. Numbered'
    BY <2>1, <2>2, <1>t DEF Journal, Numbered
  <2>5. Exclusive'
    BY <2>1, <2>2, <2>3, <1>t, <1>r DEF Journal, Exclusive, Pending
  <2>6. Recording'
    BY <2>1 DEF Recording, Starting, Recovering
  <2>. QED
    BY <2>4, <2>5, <2>6 DEF Journal
<1>29. ASSUME NEW b \in Names, CleanUp(b) \/ DeleteBranch(b) PROVE Journal'
  BY <1>1, <1>29 DEF CleanUp, DeleteBranch
<1>30. ASSUME NEW b \in Places, Switch(b) PROVE Journal'
  BY <1>1, <1>30 DEF Switch
<1>31. CASE Crash
  <2>1. job'.kind = "none" /\ offered' = {} /\ UNCHANGED journal
    BY <1>31, <1>n DEF Crash
  <2>2. \A w \in Windows, t \in Tasks : previews'[w][t] = None
    BY <1>31 DEF Crash, NoPreviews
  <2>. QED
    BY <2>1, <2>2 DEF journal, Journal, Numbered, Exclusive, Recording, Starting, Recovering, Pending
<1>. QED
  BY <1>4, <1>5, <1>6, <1>7, <1>8, <1>9, <1>10, <1>11, <1>12, <1>13, <1>14, <1>15, <1>16, <1>19, <1>20, <1>21,
     <1>22, <1>23, <1>25, <1>26, <1>27, <1>28, <1>29, <1>30, <1>31 DEF Next

-----------------------------------------------------------------------------
LEMMA FoundInit == Init => Found /\ Covering
  BY NoneAssumption DEF Init, NoJob, Found, Traceable, Switched, Secured, Covering, Starting, Mine, Pending

\* A save replaces the branches of one task in the document of the branch that
\* is checked out.
LEMMA KeptSaved ==
  ASSUME Typed, NEW t \in Tasks, NEW item \in Items, Save(t, item), UNCHANGED shared
  PROVE  \A u \in Tasks, b \in Names :
           Kept(u, b)' <=> IF u = t /\ DocumentOf(b) = Place THEN b \in item.branches ELSE Kept(u, b)
<1>1. docs' = [docs EXCEPT ![Place][t] = Saved(item)] /\ Saved(item).branches = item.branches
  BY SavedItems DEF Save, Typed
<1>2. \A p \in Places, u \in Tasks : docs'[p][u] = IF p = Place /\ u = t THEN Saved(item) ELSE docs[p][u]
  BY <1>1, DocumentTypes DEF Typed, TypeOK, Document
<1>3. \A b \in Names : DocumentOf(b) \in Places /\ DocumentOf(b)' = DocumentOf(b)
  BY DEF DocumentOf, Places
<1>. QED
  BY <1>1, <1>2, <1>3 DEF Kept

\* Steps that write no journal and forget no branch of a task.
LEMMA FoundStays ==
  ASSUME Typed, Found, Covering, UNCHANGED <<shared, unread, journal>>,
         \A b \in branches' : b \in branches /\ startedFor'[b] \in {startedFor[b], None},
         \A b \in branches', t \in Tasks : startedFor'[b] = t /\ Kept(t, b) => Kept(t, b)',
         \/ job' = job /\ head' = head
         \/ job'.kind \in {"none", "save"}
         \/ /\ job.kind = "start" /\ job'.kind = "start" /\ job'.task = job.task /\ job'.name = job.name
            /\ \/ head' = head /\ job.step \in {"confirm", "carry"} /\ job'.step \in {"confirm", "carry", "caught"}
               \/ {job.step, job'.step} \subseteq {"checkout", "register", "drop", "unindex"}
               \/ job.step = "checkout" /\ job'.step = "caught"
         \/ job.kind = "recover" /\ job'.kind = "recover" /\ job'.task = job.task
  PROVE  Found' /\ Covering'
<1> USE NoneAssumption, TasksAssumption
<1>0. /\ record' = record /\ pointer' = pointer /\ index' = index /\ unlisted' = unlisted /\ shared' = shared
  BY DEF journal
<1>1. \A t \in Tasks : Pending(t)' = Pending(t) /\ \A b : Discoverable(t, b)' = Discoverable(t, b)
  BY <1>0 DEF Pending, Discoverable
<1>2. \A t \in Tasks : Mine(t)' \subseteq Mine(t) /\ \A b \in Mine(t)' : Kept(t, b) => Kept(t, b)'
  BY DEF Mine
<1>3. \A b \in branches : startedFor[b] \in Tasks \cup {None}
  BY DEF Typed, TypeOK
<1>4. Traceable'
  BY <1>1, <1>3 DEF Found, Traceable
<1>5. job.kind \in {"start", "recover"} => job.task \in Tasks
  BY JobTypes
<1>6. Switched'
  BY <1>2, <1>5 DEF Found, Switched, Secured, Starting, StartSteps
<1>7. Secured'
  BY <1>2, <1>5 DEF Found, Secured, Starting, StartSteps
<1>8. Covering'
  BY <1>0, <1>1, <1>2, <1>5 DEF Covering, Starting
<1>. QED
  BY <1>4, <1>6, <1>7, <1>8 DEF Found

LEMMA FoundNext ==
  OneWindow /\ Typed /\ Typed' /\ Journal /\ Journal' /\ (~moved => Found /\ Covering) /\ [Next]_vars
    => (~moved' => Found' /\ Covering')
<1> SUFFICES ASSUME OneWindow, Typed, Typed', Journal, Journal', ~moved => Found /\ Covering, [Next]_vars, ~moved'
             PROVE  Found' /\ Covering'
  OBVIOUS
<1> USE NamesAssumption, NoneAssumption, TasksAssumption, JobTypes, DocumentTypes
<1>t. /\ record \in [Ids -> Records \cup {None}] /\ pointer \in [Tasks -> Ids \cup {None}]
      /\ index \subseteq Tasks /\ offered \subseteq Ids
      /\ branches \subseteq Names /\ startedFor \in [Names -> Tasks \cup {None}]
  BY DEF Typed, TypeOK
<1>r. \A i \in Ids : record[i] # None => record[i] \in Records /\ record[i].task \in Tasks /\ record[i].item \in Items
  BY <1>t DEF Records
<1>n. NoJob.kind = "none"
  BY DEF NoJob
<1>d. Idle => job.kind = "none"
  BY <1>n DEF Idle
<1>u. \A b \in branches : startedFor[b] = None \/ startedFor[b] \in Tasks
  BY <1>t
\* Nothing that matters changes.
<1>1. ASSUME UNCHANGED <<branches, startedFor, unread, shared, moved, journal, docs>>,
             (job' = job /\ head' = head) \/ job'.kind \in {"none", "save"}
      PROVE  Found' /\ Covering'
  BY <1>1, FoundStays DEF Kept, DocumentOf
<1>2. CASE UNCHANGED vars
  BY <1>1, <1>2 DEF vars, repository
<1>3. ASSUME NEW t \in Tasks, InspectPending(t) PROVE Found' /\ Covering'
  BY <1>1, <1>3 DEF InspectPending, Keeps, repository
<1>4. CASE ListRecoveries
  BY <1>1, <1>4 DEF ListRecoveries, Keeps, repository
<1>5. ASSUME NEW w \in Windows, NEW t \in Tasks, Inspect(w, t) PROVE Found' /\ Covering'
  BY <1>1, <1>5 DEF Inspect, Keeps, repository
<1>6. ASSUME NEW t \in Tasks, Edit(t) PROVE Found' /\ Covering'
  <2>1. Save(t, Item(t)) /\ UNCHANGED <<branches, startedFor, unread, shared, moved, journal, job, head>>
    BY <1>6 DEF Edit, repository
  <2>2. \A u \in Tasks, b \in Names : Kept(u, b)' <=> Kept(u, b)
    BY <2>1, KeptSaved DEF Kept, Item
  <2>. QED
    BY <1>t, <1>u, <2>1, <2>2, FoundStays
<1>7. ASSUME NEW t \in Tasks, Archive(t) PROVE Found' /\ Covering'
  <2> DEFINE item == [Item(t) EXCEPT !.active = None]
  <2>1. item \in Items /\ item.branches = Item(t).branches
    BY DEF Items
  <2>2. Save(t, item) /\ UNCHANGED <<branches, startedFor, unread, shared, moved, journal>> /\ job'.kind = "save"
    BY <1>7 DEF Archive, Update
  <2>. HIDE DEF item
  <2>3. \A u \in Tasks, b \in Names : Kept(u, b)' <=> Kept(u, b)
    BY <2>1, <2>2, KeptSaved DEF Kept, Item
  <2>. QED
    BY <1>t, <1>u, <2>2, <2>3, FoundStays
<1>8. ASSUME NEW t \in Tasks, NEW name \in Names, AssignBranch(t, name) PROVE Found' /\ Covering'
  <2> DEFINE item == [Item(t) EXCEPT !.active = name, !.branches = (@ \ {Item(t).active}) \cup {name}]
  <2>1. item \in Items /\ item.branches = (Item(t).branches \ {Item(t).active}) \cup {name}
    BY DEF Items
  <2>2. /\ Save(t, item) /\ UNCHANGED <<branches, unread, shared, moved, journal>> /\ job'.kind = "save"
        /\ startedFor' = [b \in Names |-> IF b = Item(t).active THEN None ELSE startedFor[b]]
    BY <1>8 DEF AssignBranch, Update
  <2>. HIDE DEF item
  <2>3. \A u \in Tasks, b \in Names : b # Item(t).active /\ Kept(u, b) => Kept(u, b)'
    BY <2>1, <2>2, KeptSaved DEF Kept, Item
  <2>. QED
    BY <1>t, <1>u, <2>2, <2>3, FoundStays
<1>9. ASSUME NEW w \in Windows, NEW t \in Tasks, NEW name \in Names, Start(w, t, name) PROVE Found' /\ Covering'
  <2>1. /\ Idle /\ previews[w][t] # None /\ previews[w][t] \in Previews
        /\ UNCHANGED <<branches, startedFor, unread, shared, moved, record, pointer, index, unlisted, docs, head>>
    BY <1>9 DEF Start, Typed, Keeps, repository
  <2> DEFINE item == [previews[w][t].doc[t] EXCEPT !.branches = @ \cup {name}, !.active = name]
             Begins == /\ Reviewed(t, previews[w][t])
                       /\ job' = [kind |-> "start", window |-> w, step |-> "record", task |-> t, name |-> name, id |-> used',
                                  preview |-> previews[w][t], changed |-> FALSE, item |-> item]
  <2>2. UNCHANGED <<used, job>> \/ Begins
    BY <1>9 DEF Start
  <2>3. CASE UNCHANGED <<used, job>>
    BY <1>1, <2>1, <2>3 DEF journal
  <2>4. CASE Begins
    <3>1. item.branches = previews[w][t].doc[t].branches \cup {name}
      BY <2>1 DEF Previews, Document, Items
    <3>2. previews[w][t].doc[t] = Item(t)
      BY <2>4 DEF Reviewed
    <3>. HIDE DEF item
    <3>3. job'.kind = "start" /\ job'.step = "record" /\ job'.task = t /\ job'.name = name /\ job'.item = item
      BY <2>4
    <3>4. ~Pending(t) /\ \A u \in Tasks : Pending(u)' = Pending(u) /\ \A b : Discoverable(u, b)' = Discoverable(u, b)
      BY <2>1 DEF Journal, Exclusive, Pending, Discoverable
    <3>5. \A u \in Tasks : Mine(u)' = Mine(u) /\ \A b : Kept(u, b)' = Kept(u, b)
      BY <2>1 DEF Mine, Kept, DocumentOf
    <3>6. Traceable'
      BY <1>u, <2>1, <3>4, <3>5 DEF Found, Traceable
    <3>7. \A b \in Mine(t) : Kept(t, b)
      BY <2>1, <3>4 DEF Found, Traceable, Mine, Discoverable
    <3>8. Switched' /\ Secured'
      BY <3>3, <3>5, <3>7 DEF Switched, Secured, Starting
    <3>9. Covering'
      BY <2>1, <3>1, <3>2, <3>3, <3>4, <3>5, <3>7 DEF Covering, Starting, Kept, DocumentOf, Item, Place
    <3>. QED
      BY <3>6, <3>8, <3>9 DEF Found
  <2>. QED
    BY <2>2, <2>3, <2>4
<1>10. ASSUME NEW id \in Ids, Recover(id) PROVE Found' /\ Covering'
  <2>0. PICK t \in Tasks, item \in Items : t = record[id].task /\ item = record[id].item
    BY <1>10, <1>r DEF Recover
  <2>1. /\ Save(t, item) /\ UNCHANGED <<branches, startedFor, unread, shared, moved, journal, head>>
        /\ job'.kind = "recover" /\ job'.task = t /\ id \in offered /\ record[id] # None /\ head = record[id].branch
    BY <1>10, <2>0 DEF Recover, repository
  <2>3. pointer[t] = id /\ Pending(t) /\ head \in item.branches
    BY <2>0, <2>1, <1>t DEF Journal, Exclusive, Numbered, Pending
  <2>4. \A u \in Tasks, b \in Names :
          Kept(u, b)' <=> IF u = t /\ DocumentOf(b) = Place THEN b \in item.branches ELSE Kept(u, b)
    BY <2>1, KeptSaved
  <2>5. ASSUME NEW b \in Mine(t) PROVE Kept(t, b)'
    <3>1. b \in Names /\ b \in branches \ unread /\ startedFor[b] = t
      BY <1>t DEF Mine
    <3>2. CASE shared
      <4>1. b \in item.branches
        BY <2>1, <2>3, <2>5, <3>2, <2>0 DEF Covering
      <4>. QED
        BY <2>4, <3>1, <3>2, <4>1 DEF DocumentOf, Place
    <3>3. CASE ~shared /\ b = head
      BY <2>3, <2>4, <3>1, <3>3 DEF DocumentOf, Place
    <3>4. CASE ~shared /\ b # head
      <4>1. ~Discoverable(t, b)
        BY <2>1, <2>3, <3>4 DEF Discoverable
      <4>2. Kept(t, b)
        BY <2>1, <3>1, <4>1 DEF Found, Traceable
      <4>. QED
        BY <2>4, <3>1, <3>4, <4>2 DEF DocumentOf, Place
    <3>. QED
      BY <3>2, <3>3, <3>4
  <2>6. /\ \A u \in Tasks : Pending(u)' = Pending(u) /\ \A b : Discoverable(u, b)' = Discoverable(u, b)
        /\ \A u \in Tasks : Mine(u)' = Mine(u)
    BY <2>1 DEF journal, Pending, Discoverable, Mine
  <2>7. Traceable'
    BY <1>t, <1>u, <2>1, <2>4, <2>5, <2>6 DEF Found, Traceable, Mine
  <2>8. Switched' /\ Secured'
    BY <2>1, <2>5, <2>6 DEF Switched, Secured, Starting
  <2>9. Covering'
    BY <2>1, <2>6 DEF Covering, Starting, journal
  <2>. QED
    BY <2>7, <2>8, <2>9 DEF Found
\* Steps that write the journal and leave the repository and the documents.
<1>w. ASSUME UNCHANGED <<branches, startedFor, unread, shared, moved, docs, head>>
      PROVE  /\ Found /\ Covering
             /\ \A u \in Tasks : Mine(u)' = Mine(u) /\ \A b : Kept(u, b)' = Kept(u, b)
  BY <1>w DEF Mine, Kept, DocumentOf
<1>11. CASE WriteRecord
  <2>1. /\ ~Idle /\ job.step = "record" /\ job.kind = "start" /\ job' = [job EXCEPT !.step = "pointer"]
        /\ record' = [record EXCEPT ![job.id] = [task |-> job.task, branch |-> job.name, item |-> job.item]]
        /\ UNCHANGED <<branches, startedFor, unread, shared, moved, docs, head, pointer, index, unlisted>>
    BY <1>11 DEF WriteRecord, At, Goto, StartSteps, Keeps, repository
  <2>2. job'.kind = "start" /\ job'.step = "pointer" /\ job'.task = job.task /\ job'.item = job.item
    BY <2>1, StepsOn DEF StartSteps
  <2>3. \A t \in Tasks : pointer[t] # job.id
    BY <2>1 DEF Journal, Recording, Starting
  <2>4. \A t \in Tasks : pointer[t] # None => record'[pointer[t]] = record[pointer[t]]
    BY <1>t, <2>1, <2>3
  <2>5. \A t \in Tasks : Pending(t)' = Pending(t) /\ \A b : Discoverable(t, b)' = Discoverable(t, b)
    BY <2>1, <2>4 DEF Pending, Discoverable
  <2>6. Traceable'
    BY <1>u, <1>w, <2>1, <2>5 DEF Found, Traceable
  <2>7. Switched' /\ Secured'
    BY <1>w, <2>1, <2>2 DEF Found, Switched, Secured, Starting, StartSteps
  <2>8. Covering'
    BY <1>w, <2>1, <2>2, <2>4, <2>5 DEF Covering, Starting, Pending
  <2>. QED
    BY <2>6, <2>7, <2>8 DEF Found
<1>12. CASE WritePointer
  <2>1. /\ ~Idle /\ job.step = "pointer" /\ job.kind = "start" /\ job' = [job EXCEPT !.step = "index"]
        /\ pointer' = [pointer EXCEPT ![job.task] = job.id]
        /\ UNCHANGED <<branches, startedFor, unread, shared, moved, docs, head, record, index, unlisted>>
    BY <1>12 DEF WritePointer, At, Goto, StartSteps, Keeps, repository
  <2>2. job'.kind = "start" /\ job'.step = "index" /\ job'.task = job.task /\ job'.item = job.item
    BY <2>1, StepsOn DEF StartSteps
  <2>3. \A t \in Tasks : pointer'[t] = IF t = job.task THEN job.id ELSE pointer[t]
    BY <1>t, <2>1
  <2>4. record[job.id].item.branches = job.item.branches
    BY <2>1 DEF Journal, Recording, Starting, StartSteps
  <2>5. \A t \in Tasks \ {job.task} : Pending(t)' = Pending(t) /\ \A b : Discoverable(t, b)' = Discoverable(t, b)
    BY <2>1, <2>3 DEF Pending, Discoverable
  <2>6. \A b \in Mine(job.task) : Kept(job.task, b)
    BY <1>w, <2>1 DEF Found, Secured, Starting, StartSteps
  <2>7. Traceable'
    BY <1>t, <1>u, <1>w, <2>1, <2>5, <2>6 DEF Found, Traceable, Mine
  <2>8. Switched' /\ Secured'
    BY <1>w, <2>1, <2>2, <2>6 DEF Switched, Secured, Starting, StartSteps
  <2>9. Covering'
    BY <1>w, <2>1, <2>2, <2>3, <2>4, <2>5 DEF Covering, Starting
  <2>. QED
    BY <2>7, <2>8, <2>9 DEF Found
<1>13. CASE WriteIndex
  <2>1. /\ ~Idle /\ job.step = "index" /\ job.kind = "start" /\ job' = [job EXCEPT !.step = "checkout"]
        /\ index' = index \cup {job.task}
        /\ UNCHANGED <<branches, startedFor, unread, shared, moved, docs, head, record, pointer, unlisted>>
    BY <1>13 DEF WriteIndex, At, Goto, StartSteps, Keeps, repository
  <2>2. job'.kind = "start" /\ job'.step = "checkout" /\ job'.task = job.task
    BY <2>1, StepsOn DEF StartSteps
  <2>3. \A t \in Tasks : Pending(t)' = Pending(t) /\ \A b : Discoverable(t, b) => Discoverable(t, b)'
    BY <2>1 DEF Pending, Discoverable
  <2>4. Traceable'
    BY <1>u, <1>w, <2>1, <2>3 DEF Found, Traceable
  <2>5. Switched' /\ Secured'
    BY <1>w, <2>1, <2>2 DEF Found, Switched, Secured, Starting, StartSteps
  <2>6. Covering'
    BY <1>w, <2>1, <2>2, <2>3 DEF Covering, Starting
  <2>. QED
    BY <2>4, <2>5, <2>6 DEF Found
\* A step of the job takes its own record or pointer away: its task does not
\* need them any more.
<1>14. ASSUME job.kind \in {"start", "recover"}, ~Idle, \A b \in Mine(job.task) : Kept(job.task, b),
              UNCHANGED <<branches, startedFor, unread, shared, moved, docs, head>>,
              \A t \in Tasks \ {job.task} : Pending(t) =>
                 Pending(t)' /\ pointer'[t] = pointer[t] /\ record'[pointer[t]] = record[pointer[t]],
              unlisted => unlisted',
              \A t \in Tasks \ {job.task} : t \in index => t \in index' \/ unlisted',
              \A t \in Tasks \ {job.task} : Pending(t)' => Pending(t),
              \A t \in {job.task} : Pending(t)' => Pending(t) /\ record'[pointer'[t]] = record[pointer[t]],
              \/ job'.kind = "none"
              \/ job'.kind = job.kind /\ job'.task = job.task /\ job'.step = "unindex"
       PROVE  Found' /\ Covering'
  <2>1. Traceable'
    BY <1>t, <1>u, <1>w, <1>14 DEF Found, Traceable, Mine, Discoverable
  <2>2. Switched' /\ Secured'
    BY <1>w, <1>14 DEF Switched, Secured, Starting
  <2>3. Covering'
    BY <1>w, <1>14 DEF Covering, Starting
  <2>. QED
    BY <2>1, <2>2, <2>3 DEF Found
<1>15. CASE PrepareFails
  <2>1. /\ ~Idle /\ job.step \in {"record", "pointer", "index"} /\ job.kind = "start" /\ job'.kind = "none"
        /\ record' = [record EXCEPT ![job.id] = None]
        /\ pointer' = IF job.step = "record" THEN pointer ELSE [pointer EXCEPT ![job.task] = None]
        /\ UNCHANGED <<branches, startedFor, unread, shared, moved, docs, head, index, unlisted>>
    BY <1>15, <1>n DEF PrepareFails, At, StartSteps, Keeps, repository
  <2>2. /\ \A i \in Ids : record'[i] = IF i = job.id THEN None ELSE record[i]
        /\ \A t \in Tasks : pointer'[t] \in {None, pointer[t]} /\ (t # job.task => pointer'[t] = pointer[t])
    BY <1>t, <2>1
  <2>3. \A t \in Tasks : t # job.task /\ Pending(t) => pointer[t] # job.id
    BY <2>1 DEF Journal, Recording, Starting, StartSteps, Pending
  <2>4. /\ \A t \in Tasks \ {job.task} : Pending(t) =>
             Pending(t)' /\ pointer'[t] = pointer[t] /\ record'[pointer[t]] = record[pointer[t]]
        /\ \A t \in Tasks \ {job.task} : Pending(t)' => Pending(t)
    BY <1>t, <2>2, <2>3 DEF Pending
  <2>5. \A t \in {job.task} : ~Pending(t)'
    BY <1>t, <2>1, <2>2 DEF Journal, Recording, Starting, StartSteps, Pending
  <2>6. \A b \in Mine(job.task) : Kept(job.task, b)
    BY <1>w, <2>1 DEF Found, Secured, Starting, StartSteps
  <2>. QED
    BY <1>14, <2>1, <2>2, <2>4, <2>5, <2>6
<1>16. CASE Drop
  <2>1. /\ ~Idle /\ job.step = "drop" /\ job.kind \in {"start", "recover"} /\ job' = [job EXCEPT !.step = "unindex"]
        /\ record' = [record EXCEPT ![job.id] = None]
        /\ UNCHANGED <<branches, startedFor, unread, shared, moved, docs, head, pointer, index, unlisted>>
    BY <1>16 DEF Drop, At, Goto, Keeps, repository
  <2>2. job'.kind = job.kind /\ job'.step = "unindex" /\ job'.task = job.task
    BY <2>1, StepsOn DEF StartSteps
  <2>3. \A i \in Ids : record'[i] = IF i = job.id THEN None ELSE record[i]
    BY <1>t, <2>1
  <2>4. pointer[job.task] = job.id /\ record[job.id].task = job.task
    BY <2>1 DEF Journal, Recording, Starting, Recovering, StartSteps
  <2>5. /\ \A t \in Tasks \ {job.task} : Pending(t) =>
             Pending(t)' /\ pointer'[t] = pointer[t] /\ record'[pointer[t]] = record[pointer[t]]
        /\ \A t \in Tasks \ {job.task} : Pending(t)' => Pending(t)
    BY <1>t, <2>1, <2>3, <2>4 DEF Pending
  <2>6. \A t \in {job.task} : ~Pending(t)'
    BY <1>t, <2>1, <2>3, <2>4 DEF Pending
  <2>7. \A b \in Mine(job.task) : Kept(job.task, b)
    BY <1>w, <2>1 DEF Found, Secured, Starting, StartSteps
  <2>. QED
    BY <1>14, <2>1, <2>2, <2>5, <2>6, <2>7
<1>17. CASE Unindex
  <2>1. /\ ~Idle /\ job.step = "unindex" /\ job.kind \in {"start", "recover"} /\ job'.kind = "none"
        /\ pointer' \in {pointer, [pointer EXCEPT ![job.task] = None]}
        /\ unlisted => unlisted'
        /\ index' \in {index, index \ {job.task}} \/ unlisted'
        /\ UNCHANGED <<branches, startedFor, unread, shared, moved, docs, head, record>>
    BY <1>17, <1>n DEF Unindex, At, Keeps, repository
  <2>2. \A t \in Tasks : pointer'[t] \in {None, pointer[t]} /\ (t # job.task => pointer'[t] = pointer[t])
    BY <1>t, <2>1
  <2>3. record[job.id] = None /\ pointer[job.task] = job.id
    BY <2>1 DEF Journal, Recording, Starting, StartSteps
  <2>4. \A t \in Tasks \ {job.task} : Pending(t)' = Pending(t)
    BY <2>1, <2>2 DEF Pending
  <2>5. \A t \in {job.task} : ~Pending(t)'
    BY <2>1, <2>2, <2>3 DEF Pending
  <2>6. \A b \in Mine(job.task) : Kept(job.task, b)
    BY <1>w, <2>1 DEF Found, Secured, Starting, StartSteps
  <2>. QED
    BY <1>14, <2>1, <2>2, <2>4, <2>5, <2>6
<1>18. CASE Fails
  <2>1. /\ ~Idle /\ job.step \in {"checkout", "confirm", "carry"} /\ job.kind = "start"
        /\ job' = [job EXCEPT !.step = "caught"]
        /\ UNCHANGED <<branches, startedFor, unread, shared, moved, docs, head, journal>>
    BY <1>18 DEF Fails, At, Goto, StartSteps, Keeps, repository
  <2>2. job'.kind = "start" /\ job'.step = "caught" /\ job'.task = job.task /\ job'.name = job.name
    BY <2>1, StepsOn DEF StartSteps
  <2>. QED
    BY <1>t, <1>u, <1>w, <2>1, <2>2, FoundStays
\* A start that failed: its branch keeps the journal or has HEAD elsewhere, or
\* its reading failed.
<1>19. CASE Caught
  <2>1. /\ ~Idle /\ job.step = "caught" /\ job.kind = "start"
        /\ UNCHANGED <<branches, startedFor, shared, moved, docs, head, journal>>
    BY <1>19 DEF Caught, At, StartSteps
  <2>2. CASE job' = NoJob /\ UNCHANGED unread
    BY <1>1, <1>n, <2>1, <2>2
  <2>3. CASE /\ job' = [job EXCEPT !.step = "drop"]
             /\ \/ head # job.name /\ UNCHANGED unread
                \/ unread' = IF head = job.name THEN unread \cup {job.name} ELSE unread
    <3>1. job'.kind = "start" /\ job'.step = "drop" /\ job'.task = job.task /\ job'.name = job.name
      BY <2>1, <2>3, StepsOn DEF StartSteps
    <3>2. Found /\ Covering /\ unread \subseteq unread' /\ (head = job.name => job.name \in unread')
      BY <2>1, <2>3
    <3>3. \A u \in Tasks : Pending(u)' = Pending(u) /\ \A b : Discoverable(u, b)' = Discoverable(u, b)
      BY <2>1 DEF journal, Pending, Discoverable
    <3>4. \A u \in Tasks : Mine(u)' \subseteq Mine(u) /\ \A b : Kept(u, b)' = Kept(u, b)
      BY <2>1, <3>2 DEF Mine, Kept, DocumentOf
    <3>5. Traceable'
      BY <1>u, <2>1, <3>2, <3>3, <3>4 DEF Found, Traceable
    <3>6. \A t \in Tasks : \A b \in Mine(t)' : b \in Mine(t) /\ b \notin unread'
      BY <3>2, <2>1 DEF Mine
    <3>7. \A t \in {job.task} : \A b \in Mine(t)' : Kept(t, b)
      BY <2>1, <3>2, <3>6 DEF Found, Switched, Starting
    <3>8. Switched' /\ Secured'
      BY <2>1, <3>1, <3>4, <3>7 DEF Switched, Secured, Starting
    <3>9. Covering'
      BY <2>1, <3>1, <3>2, <3>3, <3>4 DEF Covering, Starting, journal
    <3>. QED
      BY <3>5, <3>8, <3>9 DEF Found
  <2>. QED
    BY <1>19, <2>2, <2>3 DEF Caught, OnBranch, Goto
<1>20. CASE Checkout
  <2>1. ~Idle /\ job.step = "checkout" /\ job.kind = "start" /\ UNCHANGED <<shared, moved, journal>>
    BY <1>20 DEF Checkout, At, StartSteps
  <2>2. CASE job' = [job EXCEPT !.step = "caught"] /\ UNCHANGED <<branches, startedFor, unread, docs, head>>
    <3>1. job'.kind = "start" /\ job'.step = "caught" /\ job'.task = job.task /\ job'.name = job.name
      BY <2>1, <2>2, StepsOn DEF StartSteps
    <3>. QED
      BY <1>t, <1>u, <1>w, <2>1, <2>2, <3>1, FoundStays
  <2>3. CASE /\ branches' = branches \cup {job.name} /\ head' = job.name
             /\ docs' = IF job.name \in branches THEN docs ELSE [docs EXCEPT ![job.name] = docs[head]]
             /\ startedFor' = IF job.name \in branches THEN startedFor ELSE [startedFor EXCEPT ![job.name] = job.task]
             /\ unread' = IF job.name \in branches THEN unread ELSE unread \ {job.name}
             /\ job' \in {[job EXCEPT !.step = "confirm", !.changed = TRUE], [job EXCEPT !.step = "caught"]}
    <3>1. /\ job'.kind = "start" /\ job'.step \in {"confirm", "caught"} /\ job'.task = job.task /\ job'.name = job.name
      <4>1. [job EXCEPT !.step = "confirm", !.changed = TRUE].kind = "start"
        BY <2>1 DEF StartJobs
      <4>. QED
        BY <2>1, <2>3 DEF StartJobs
    <3>2. \A u \in Tasks, b \in branches : b # job.name => /\ startedFor'[b] = startedFor[b]
                                                       /\ Kept(u, b)' = Kept(u, b)
      BY <1>t, <2>1, <2>3 DEF Kept, DocumentOf, Typed, TypeOK, Places
    <3>3. job.name \in branches => UNCHANGED <<startedFor, docs, branches, unread>>
      BY <2>3
    <3>4. job.name \notin branches => startedFor'[job.name] = job.task
      BY <1>t, <2>1, <2>3
    <3>5. \A u \in Tasks : Pending(u)' = Pending(u) /\ \A b : Discoverable(u, b)' = Discoverable(u, b)
      BY <2>1 DEF journal, Pending, Discoverable
    <3>6. /\ Discoverable(job.task, job.name) /\ Pending(job.task)
          /\ record[pointer[job.task]].item.branches = job.item.branches /\ job.name \in job.item.branches
      BY <1>t, <2>1 DEF Journal, Recording, Starting, StartSteps, Discoverable, Pending
    <3>7. Found
      BY <2>1
    <3>8. \A b \in Mine(job.task) : Kept(job.task, b)
      BY <2>1, <3>7 DEF Found, Secured, Starting, StartSteps
    <3>9. Traceable'
      <4> SUFFICES ASSUME NEW b \in branches' \ unread', NEW t \in Tasks, startedFor'[b] = t
                   PROVE  Kept(t, b)' \/ Discoverable(t, b)'
        BY DEF Traceable, Typed, TypeOK
      <4>1. CASE b # job.name
        BY <1>u, <2>3, <3>2, <3>5, <3>7, <4>1 DEF Found, Traceable
      <4>2. CASE b = job.name /\ job.name \notin branches
        BY <2>1, <3>4, <3>5, <3>6, <4>2
      <4>3. CASE b = job.name /\ job.name \in branches
        BY <1>u, <2>1, <3>3, <3>5, <3>7, <4>3 DEF Found, Traceable, Kept, DocumentOf
      <4>. QED
        BY <4>1, <4>2, <4>3
    <3>10. \A u \in Tasks : Mine(u)' \subseteq Mine(u) \cup {job.name}
      BY <2>3, <3>2 DEF Mine
    <3>11. Switched'
      BY <2>1, <2>3, <3>1, <3>2, <3>8, <3>10 DEF Switched, Starting, Mine
    <3>12. Secured'
      BY <3>1 DEF Secured, Starting
    <3>13. \A u \in Tasks : u # job.task => Mine(u)' \subseteq Mine(u)
      BY <2>3, <3>2, <3>3, <3>4 DEF Mine
    <3>14. Covering'
      BY <2>1, <3>1, <3>5, <3>6, <3>10, <3>13 DEF Covering, Starting, journal
    <3>. QED
      BY <3>9, <3>11, <3>12, <3>14 DEF Found
  <2>. QED
    BY <1>20, <2>2, <2>3 DEF Checkout, Goto
<1>21. CASE Confirm
  <2>1. /\ ~Idle /\ job.step = "confirm" /\ job.kind = "start" /\ job' = [job EXCEPT !.step = "carry"]
        /\ UNCHANGED <<branches, startedFor, unread, shared, moved, docs, head, journal>>
    BY <1>21 DEF Confirm, At, Goto, StartSteps, Keeps, repository
  <2>2. job'.kind = "start" /\ job'.step = "carry" /\ job'.task = job.task /\ job'.name = job.name
    BY <2>1, StepsOn DEF StartSteps
  <2>. QED
    BY <1>t, <1>u, <1>w, <2>1, <2>2, FoundStays
<1>22. CASE Carry
  <2>1. ~Idle /\ job.step = "carry" /\ job.kind = "start" /\ UNCHANGED <<repository, journal>>
    BY <1>22 DEF Carry, At, StartSteps
  <2>2. Carries /\ Save(job.task, job.item) /\ job' = [job EXCEPT !.step = "register", !.item = Saved(job.item)]
    BY <1>22 DEF Carry
  <2>3. job'.kind = "start" /\ job'.step = "register" /\ job'.task = job.task /\ job'.name = job.name
    BY <2>1, <2>2 DEF StartJobs
  <2>4. UNCHANGED <<branches, startedFor, unread, shared, moved, head>> /\ Found /\ Covering
    BY <2>1 DEF repository
  <2>5. \A u \in Tasks, b \in Names : Kept(u, b)' <=>
          IF u = job.task /\ DocumentOf(b) = Place THEN b \in job.item.branches ELSE Kept(u, b)
    BY <2>1, <2>2, <2>4, KeptSaved
  <2>6. job.item.branches = Item(job.task).branches \cup {job.name}
    BY <2>1, <2>2 DEF Journal, Recording, Carries
  <2>7. \A u \in Tasks, b \in Names : Kept(u, b) => Kept(u, b)'
    BY <2>5, <2>6 DEF Kept, Item
  <2>8. head = job.name /\ \A b \in Mine(job.task) : b = job.name \/ Kept(job.task, b)
    BY <2>1, <2>4 DEF Found, Switched, Starting
  <2>9. \A t \in {job.task}, b \in {job.name} : Kept(t, b)'
    BY <2>1, <2>5, <2>6, <2>8 DEF DocumentOf, Place
  <2>10. \A u \in Tasks : /\ Pending(u)' = Pending(u)
                        /\ \A b : Discoverable(u, b)' = Discoverable(u, b)
                        /\ Mine(u)' = Mine(u)
    BY <2>1, <2>4 DEF journal, Pending, Discoverable, Mine
  <2>11. Traceable'
    BY <1>t, <1>u, <2>4, <2>7, <2>10 DEF Found, Traceable
  <2>12. \A b \in Mine(job.task) : \A t \in {job.task} : Kept(t, b)'
    BY <1>t, <2>1, <2>7, <2>8, <2>9 DEF Mine
  <2>13. Switched' /\ Secured'
    BY <2>1, <2>3, <2>10, <2>12 DEF Switched, Secured, Starting
  <2>14. Covering'
    BY <2>1, <2>3, <2>4, <2>10 DEF Covering, Starting, journal
  <2>. QED
    BY <2>11, <2>13, <2>14 DEF Found
<1>23. CASE Register
  <2>1. ~Idle /\ job.step = "register" /\ UNCHANGED <<branches, startedFor, unread, shared, moved, docs, head, journal>>
    BY <1>23 DEF Register, At, Keeps, repository
  <2>2. CASE job.kind = "save"
    BY <1>1, <1>23, <1>n, <2>1, <2>2 DEF Register
  <2>3. CASE job.kind # "save"
    <3>1. job' = [job EXCEPT !.step = "drop"] /\ job.kind \in {"start", "recover"}
      BY <1>23, <2>1, <2>3 DEF Register, Goto
    <3>2. /\ job'.kind = job.kind /\ job'.step = "drop" /\ job'.task = job.task
          /\ job.kind = "start" => job'.name = job.name
      BY <2>1, <3>1, StepsOn DEF StartSteps
    <3>. QED
      BY <1>t, <1>u, <1>w, <2>1, <3>1, <3>2, FoundStays
  <2>. QED
    BY <2>2, <2>3
<1>24. CASE FailsSaved \/ Crash
  BY <1>1, <1>24, <1>n DEF FailsSaved, Crash, Keeps, repository
<1>25. ASSUME NEW b \in Names, CleanUp(b) \/ DeleteBranch(b) PROVE Found' /\ Covering'
  <2>1. /\ UNCHANGED <<unread, shared, moved, head, journal, job>> /\ branches' = branches \ {b}
        /\ startedFor' = [startedFor EXCEPT ![b] = None]
        /\ docs' = [docs EXCEPT ![b] = [t \in Tasks |-> NoItem]]
    BY <1>25 DEF CleanUp, DeleteBranch
  <2>2. \A u \in Tasks, c \in branches' : Kept(u, c)' = Kept(u, c) /\ startedFor'[c] = startedFor[c]
    BY <1>t, <2>1 DEF Kept, DocumentOf, Typed, TypeOK, Places
  <2>. QED
    BY <1>t, <1>u, <2>1, <2>2, FoundStays
<1>26. ASSUME NEW b \in Places, Switch(b) PROVE Found' /\ Covering'
  <2>1. Idle /\ UNCHANGED <<moved, branches, startedFor, unread, shared, docs, journal, job>>
    BY <1>26 DEF Switch
  <2>. QED
    BY <1>1, <1>d, <2>1
<1>. QED
  BY <1>2, <1>3, <1>4, <1>5, <1>6, <1>7, <1>8, <1>9, <1>10, <1>11, <1>12, <1>13, <1>15, <1>16, <1>17,
     <1>18, <1>19, <1>20, <1>21, <1>22, <1>23, <1>24, <1>25, <1>26 DEF Next

\* With one window, a branch that a start created is found whenever no job is
\* running: in the document of the branch itself or through the journal, as far
\* as failed reads of HEAD and of the index were not taken for an answer.
THEOREM StartsAreFound == ASSUME OneWindow PROVE Spec => []StartedIsFound
<1>1. Init => IInv
  BY TypedInit, JournalInit, FoundInit DEF IInv
<1>2. IInv /\ [Next]_vars => IInv'
  BY OneWindow, TypedNext, JournalNext, FoundNext DEF IInv
<1>3. ASSUME IInv PROVE StartedIsFound
  <2> SUFFICES ASSUME ~moved, NEW b \in branches \ unread, startedFor[b] # None
               PROVE  Assigned(startedFor[b], b) \/ Discoverable(startedFor[b], b)
    BY DEF StartedIsFound
  <2>1. Kept(startedFor[b], b) => Assigned(startedFor[b], b)
    BY DEF Kept, Assigned, DocumentOf
  <2>. QED
    BY <1>3, <2>1 DEF IInv, Found, Traceable
<1>. QED
  BY <1>1, <1>2, <1>3, PTL DEF Spec
=============================================================================
