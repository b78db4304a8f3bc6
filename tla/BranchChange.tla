---------------------------- MODULE BranchChange ----------------------------
(***************************************************************************)
(* electron/main-process/BranchChangeService.ts with branchChangeGit.ts    *)
(* and BranchChangeStore.ts: switching branches with local changes. The    *)
(* changes are saved in a stash tagged with a session, the branch is       *)
(* switched, and the stash is applied again at once (carry) or by a later  *)
(* restore (park). The journal of sessions survives a crash.               *)
(*                                                                         *)
(* Both operations hold the repository's write lane, so one runs at a      *)
(* time; the user's editor and other Git programs interleave with every    *)
(* step. A working tree is the set of changes in it. A session makes one   *)
(* stash, so the session and a number stand for the object id of a stash.  *)
(***************************************************************************)
EXTENDS Naturals, Sequences, SequencesExt, FiniteSets

CONSTANTS
  Sessions,      \* identities of saved sessions
  Changes,       \* changes a user can make
  Branches,      \* branches that can be checked out
  None,          \* no session
  MaxForeign,    \* bound on the stashes of other programs
  MaxPlans,      \* bound on the previews that are open at once
  MaxFaults,     \* bound on failures and crashes
  QuietRemoval   \* TRUE if nobody throws work away or drops a stash between the
                 \* last verification and "stash drop", or renumbers the stack
                 \* just before it: Git cannot drop a stash by its object id

ASSUME NoneAssumption == None \notin Sessions
ASSUME BoundAssumption == {MaxForeign, MaxPlans, MaxFaults} \subseteq Nat
ASSUME QuietAssumption == QuietRemoval \in BOOLEAN

VARIABLES
  branch,     \* what HEAD names
  work,       \* changes in the working tree
  stack,      \* the stash stack, newest first
  journal,    \* phase of each session in the journal
  plans,      \* the reviewed previews
  op,         \* the operation that holds the write lane
  result,     \* what the last operation returned, or NoResult
  made,       \* changes the user made and did not give up
  attempted,  \* sessions whose stash has been applied, or tried to
  taken,      \* sessions whose stash the user removed himself
  faults      \* number of faults so far

repository == <<branch, work, stack>>
user == <<made, taken>>
vars == <<repository, journal, plans, op, result, user, attempted, faults>>

Reviewed == {"applying", "conflict", "applied"}
Phases == {"absent", "preparing", "stashed", "switched"} \cup Reviewed
Steps == {"idle", "prepare", "push", "record", "check", "switch", "switched", "catch",
          "ready", "apply", "conflict", "applied", "confirm", "latest", "ref", "drop",
          "remove", "retain"}

\* A preview of a switch to a target has no session.
NewPlan == [session |-> None, phase |-> "absent", reviewed |-> FALSE,
            target |-> None, branch |-> branch, work |-> work]
NoResult == [session |-> None, thrown |-> FALSE, switched |-> FALSE,
             restored |-> FALSE, moved |-> FALSE]
Idle == [pc |-> "idle", session |-> None, carry |-> FALSE, reviewed |-> FALSE,
         target |-> None, from |-> None, saw |-> {}, phase |-> "absent",
         moved |-> FALSE, switched |-> FALSE, head |-> None, stack |-> <<>>,
         saved |-> {}, at |-> 0]

Init ==
  /\ branch \in Branches
  /\ work = {}
  /\ stack = <<>>
  /\ journal = [s \in Sessions |-> "absent"]
  /\ plans = {}
  /\ op = Idle
  /\ result = NoResult
  /\ made = {}
  /\ attempted = {}
  /\ taken = {}
  /\ faults = 0

\* Entries of session s, and every change that a tree or a stash still holds.
Own(s, st) == {i \in DOMAIN st : st[i].session = s}
Kept(w, st) == w \cup UNION {st[i].saved : i \in DOMAIN st}

-----------------------------------------------------------------------------
(***************************************************************************)
(* The user and other programs.                                            *)
(***************************************************************************)

Outside == UNCHANGED <<journal, plans, op, result, attempted, faults>>

QuietWork == QuietRemoval => op.pc \notin {"latest", "ref", "drop"}
QuietStack == QuietRemoval => op.pc # "drop"

Edit(c) ==
  /\ c \notin Kept(work, stack)
  /\ work' = work \cup {c}
  /\ made' = made \cup {c}
  /\ UNCHANGED <<branch, stack, taken>> /\ Outside

\* Throwing a change away gives it up, unless a stash still holds it.
Discard(c) ==
  /\ c \in work
  /\ QuietWork
  /\ work' = work \ {c}
  /\ made' = made \cap Kept(work', stack)
  /\ UNCHANGED <<branch, stack, taken>> /\ Outside

\* A new stash object is none of those that are, or were, in the stack.
ObjectsSeen == {e.object : e \in Range(stack) \cup Range(op.stack)}
NewObject == CHOOSE n \in 1 .. 2 * MaxForeign + 1 : n \notin ObjectsSeen

ForeignPush ==
  /\ QuietStack
  /\ work # {}
  /\ Cardinality(Own(None, stack)) < MaxForeign
  /\ stack' = <<[session |-> None, object |-> NewObject, saved |-> work]>> \o stack
  /\ work' = {}
  /\ UNCHANGED <<branch, user>> /\ Outside

ForeignPop(i) ==
  /\ QuietStack
  /\ work = {}
  /\ work' = stack[i].saved
  /\ stack' = RemoveAt(stack, i)
  /\ taken' = taken \cup ({stack[i].session} \ {None})
  /\ UNCHANGED <<branch, made>> /\ Outside

ForeignDrop(i) ==
  /\ QuietWork
  /\ stack' = RemoveAt(stack, i)
  /\ made' = made \cap Kept(work, stack')
  /\ taken' = taken \cup ({stack[i].session} \ {None})
  /\ UNCHANGED <<branch, work>> /\ Outside

ForeignSwitch(b) ==
  /\ b # branch
  /\ branch' = b
  /\ UNCHANGED <<work, stack, user>> /\ Outside

-----------------------------------------------------------------------------
(***************************************************************************)
(* list and inspect.                                                       *)
(***************************************************************************)

\* The journal without the sessions whose stash is gone.
Listed ==
  [s \in Sessions |->
     IF journal[s] # "preparing" /\ Own(s, stack) = {} THEN "absent" ELSE journal[s]]

\* The phase list() presents of a session whose stash it found.
Presented(s) == IF journal[s] = "preparing" THEN "stashed" ELSE journal[s]

List ==
  /\ op.pc = "idle"
  /\ journal' = Listed
  /\ UNCHANGED <<repository, plans, op, result, user, attempted, faults>>

\* Bound: the preview of a switch is not open beside another.
Open(p) ==
  /\ Cardinality(plans) < MaxPlans
  /\ \A q \in plans : q.session # None /\ p.session # None
  /\ plans' = plans \cup {p}

\* A preview expires after fifteen minutes.
Expire(p) ==
  /\ plans' = plans \ {p}
  /\ UNCHANGED <<repository, journal, op, result, user, attempted, faults>>

\* A preview taken during an operation holds later only if nothing changed, so
\* it is the same as one taken after the operation.
InspectTarget(b) ==
  /\ op.pc = "idle"
  /\ b # branch
  /\ Open([NewPlan EXCEPT !.target = b])
  /\ UNCHANGED <<repository, journal, op, result, user, attempted, faults>>

\* Only a preview without blocks can be used.
InspectSession(s, reviewed) ==
  /\ op.pc = "idle"
  /\ work = {}
  /\ journal[s] # "absent" /\ Own(s, stack) # {}
  /\ journal[s] \in Reviewed => reviewed
  /\ journal' = Listed
  /\ Open([NewPlan EXCEPT !.session = s, !.phase = Presented(s), !.reviewed = reviewed])
  /\ UNCHANGED <<repository, op, result, user, attempted, faults>>

-----------------------------------------------------------------------------
(***************************************************************************)
(* execute().                                                              *)
(***************************************************************************)

\* The re-check of the preview in the write lane.
PlanHolds(p) == p.branch = branch /\ p.work = work

Execute(p, carry, s) ==
  /\ op.pc = "idle"
  /\ PlanHolds(p) /\ p.session = None
  /\ IF work = {} THEN s = None
     ELSE s \in Sessions /\ journal[s] = "absent" /\ Own(s, stack) = {}
  /\ op' = [Idle EXCEPT !.pc = IF s = None THEN "check" ELSE "prepare", !.session = s,
              !.carry = carry, !.target = p.target, !.from = branch, !.saw = work,
              !.phase = "preparing"]
  /\ plans' = plans \ {p}
  /\ result' = NoResult
  /\ attempted' = attempted \ {s}
  /\ taken' = taken \ {s}
  /\ UNCHANGED <<repository, journal, made, faults>>

At(pc) == op.pc = pc
Goto(pc) == op' = [op EXCEPT !.pc = pc]
Save(phase) == journal' = [journal EXCEPT ![op.session] = phase]

Return(switched, restored) ==
  /\ op' = Idle
  /\ result' = [session |-> op.session, thrown |-> FALSE, switched |-> switched,
                restored |-> restored, moved |-> op.moved /\ branch # op.from]
Throw ==
  /\ op' = Idle
  /\ result' = [session |-> op.session, thrown |-> TRUE, switched |-> FALSE,
                restored |-> FALSE, moved |-> op.moved /\ branch # op.from]

\* The catch block of executeWork handles errors once there is a session.
Caught ==
  IF op.session = None THEN Throw ELSE Goto("catch") /\ UNCHANGED result

Prepare_NotSaved ==                  \* fault: the journal comes later
  /\ At("prepare")
  /\ Goto("push")
  /\ UNCHANGED <<repository, journal, plans, result, user, attempted, faults>>
Prepare ==
  /\ At("prepare")
  /\ Save("preparing")
  /\ Goto("push")
  /\ UNCHANGED <<repository, plans, result, user, attempted, faults>>

\* "stash push" saves what is there now; a late failure leaves both copies.
Pushed == <<[session |-> op.session, object |-> 0, saved |-> work]>> \o stack

Push ==
  /\ At("push")
  /\ IF work = {}
     THEN Goto("catch") /\ UNCHANGED <<work, stack>>
     ELSE Goto("record") /\ stack' = Pushed /\ work' = {}
  /\ UNCHANGED <<branch, journal, plans, result, user, attempted, faults>>

PushHalfway ==
  /\ At("push") /\ work # {}
  /\ faults < MaxFaults
  /\ faults' = faults + 1
  /\ stack' = Pushed
  /\ Goto("catch")
  /\ UNCHANGED <<branch, work, journal, plans, result, user, attempted>>

\* The stash must hold what was reviewed.
StashIsReviewed(saved) == saved = op.saw

Record ==
  /\ At("record")
  /\ IF Own(op.session, stack) = {}
     THEN Goto("catch") /\ UNCHANGED journal
     ELSE \E i \in Own(op.session, stack) :
            /\ Save("stashed")
            /\ op' = [op EXCEPT !.phase = "stashed", !.saw = {},
                        !.pc = IF StashIsReviewed(stack[i].saved) THEN "check" ELSE "catch"]
  /\ UNCHANGED <<repository, plans, result, user, attempted, faults>>

ReadyToSwitch == work = {} /\ branch = op.from

Check ==
  /\ At("check")
  /\ IF ReadyToSwitch THEN Goto("switch") /\ UNCHANGED result ELSE Caught
  /\ UNCHANGED <<repository, journal, plans, user, attempted, faults>>

Switch ==
  /\ At("switch")
  /\ branch' = op.target
  /\ op' = [op EXCEPT !.pc = "switched", !.moved = TRUE, !.switched = TRUE,
              !.phase = "switched"]
  /\ UNCHANGED <<work, stack, journal, plans, result, user, attempted, faults>>

\* The checkout happened although its command reported an error.
SwitchInterrupted ==
  /\ At("switch") /\ op.session # None
  /\ faults < MaxFaults
  /\ faults' = faults + 1
  /\ branch' = op.target
  /\ op' = [op EXCEPT !.pc = "catch", !.moved = TRUE]
  /\ UNCHANGED <<work, stack, journal, plans, result, user, attempted>>

Switched ==
  /\ At("switched")
  /\ IF op.session = None
     THEN /\ IF branch = op.target THEN Return(TRUE, TRUE) ELSE Throw
          /\ UNCHANGED journal
     ELSE /\ Save("switched")
          /\ IF branch # op.target
             THEN Goto("catch") /\ UNCHANGED result
             ELSE IF op.carry
             THEN Goto("ready") /\ UNCHANGED result
             ELSE Return(TRUE, FALSE)
  /\ UNCHANGED <<repository, plans, user, attempted, faults>>

\* The catch block looks at HEAD itself.
SwitchSeen_FlagOnly == op.switched          \* fault: HEAD is not looked at
SwitchSeen == op.switched \/ branch # op.from

Catch ==
  /\ At("catch")
  /\ Save(op.phase)
  /\ Return(SwitchSeen, FALSE)
  /\ UNCHANGED <<repository, plans, user, attempted, faults>>

-----------------------------------------------------------------------------
(***************************************************************************)
(* restore() and applyLocked().                                            *)
(***************************************************************************)

\* The session is still the reviewed one.
ReviewHolds_AnyPhase(p, s) == Listed[s] # "absent" /\ Own(s, stack) # {}  \* fault
ReviewHolds(p, s) ==
  /\ Listed[s] # "absent" /\ Own(s, stack) # {}
  /\ Presented(s) = p.phase
  /\ Presented(s) \in Reviewed => p.reviewed

Restore(p, s) ==
  /\ op.pc = "idle"
  /\ PlanHolds(p) /\ p.session = s
  /\ plans' = plans \ {p}
  /\ journal' = Listed
  /\ IF ReviewHolds(p, s)
     THEN op' = [Idle EXCEPT !.pc = "ready", !.session = s, !.phase = Presented(s),
                             !.reviewed = p.reviewed]
     ELSE UNCHANGED op
  /\ result' = NoResult
  /\ UNCHANGED <<repository, user, attempted, faults>>

\* An error here leaves applyLocked: nothing in executeWork awaits it.
Ready ==
  /\ At("ready")
  /\ IF work # {} \/ Own(op.session, stack) = {}
     THEN Throw /\ UNCHANGED journal
     ELSE \E i \in Own(op.session, stack) :
            /\ Save("applying")
            /\ op' = [op EXCEPT !.pc = "apply", !.phase = "applying", !.head = branch,
                        !.stack = stack, !.saved = stack[i].saved]
            /\ UNCHANGED result
  /\ UNCHANGED <<repository, plans, user, attempted, faults>>

Apply ==
  /\ At("apply")
  /\ work' = work \cup op.saved
  /\ attempted' = attempted \cup {op.session}
  /\ Goto("applied")
  /\ UNCHANGED <<branch, stack, journal, plans, result, user, faults>>

\* A conflict leaves any part of the changes in the working tree.
Collide ==
  /\ At("apply")
  /\ \E part \in SUBSET op.saved : work' = work \cup part
  /\ attempted' = attempted \cup {op.session}
  /\ Goto("conflict")
  /\ UNCHANGED <<branch, stack, journal, plans, result, user, faults>>

Conflict ==
  /\ At("conflict")
  /\ Save("conflict")
  /\ Return(op.switched, FALSE)
  /\ UNCHANGED <<repository, plans, user, attempted, faults>>

Applied ==
  /\ At("applied")
  /\ Save("applied")
  /\ Goto("confirm")
  /\ UNCHANGED <<repository, plans, result, user, attempted, faults>>

-----------------------------------------------------------------------------
(***************************************************************************)
(* Removal of the backup. Any failure keeps it.                            *)
(***************************************************************************)

\* verifyRestoredChange()
Restored_NotVerified == branch = op.head             \* fault: only HEAD
Restored == branch = op.head /\ op.saved \subseteq work

Confirm ==
  /\ At("confirm")
  /\ Goto(IF Restored THEN "latest" ELSE "retain")
  /\ UNCHANGED <<repository, journal, plans, result, user, attempted, faults>>

SameStack == stack = op.stack /\ Cardinality(Own(op.session, stack)) = 1

Latest ==
  /\ At("latest")
  /\ IF SameStack
     THEN \E i \in Own(op.session, stack) : op' = [op EXCEPT !.pc = "ref", !.at = i]
     ELSE Goto("retain")
  /\ UNCHANGED <<repository, journal, plans, result, user, attempted, faults>>

\* The reference, which is an index, still resolves to the object.
RefResolves_Trusted == op.at \in DOMAIN stack         \* fault: not compared
RefResolves == op.at \in Own(op.session, stack)

Ref ==
  /\ At("ref")
  /\ Goto(IF RefResolves THEN "drop" ELSE "retain")
  /\ UNCHANGED <<repository, journal, plans, result, user, attempted, faults>>

Drop(next) ==
  /\ At("drop")
  /\ IF op.at \in DOMAIN stack
     THEN stack' = RemoveAt(stack, op.at) /\ Goto(next)
     ELSE UNCHANGED stack /\ Goto("retain")
  /\ UNCHANGED <<branch, work, journal, plans, result, user, attempted>>

Forget ==
  /\ At("remove")
  /\ Save("absent")
  /\ Return(op.switched, TRUE)
  /\ UNCHANGED <<repository, plans, user, attempted, faults>>

Retain ==
  /\ At("retain")
  /\ Save("applied")
  /\ Return(op.switched, TRUE)
  /\ UNCHANGED <<repository, plans, user, attempted, faults>>

-----------------------------------------------------------------------------
(***************************************************************************)
(* Faults: a Git command or a save fails without effect, the user cancels, *)
(* or the process dies.                                                    *)
(***************************************************************************)

Failed ==
  CASE op.pc \in {"confirm", "latest", "ref", "drop", "remove"} ->
         Goto("retain") /\ UNCHANGED result
    [] op.pc \in {"prepare", "push", "record", "check", "switch", "switched"} -> Caught
    [] OTHER -> Throw

Fail ==
  /\ op.pc \notin {"idle", "apply"}
  /\ faults < MaxFaults
  /\ faults' = faults + 1
  /\ Failed
  /\ UNCHANGED <<repository, journal, plans, user, attempted>>

DropReportedFailed ==
  /\ faults < MaxFaults
  /\ faults' = faults + 1
  /\ Drop("retain")

Crash ==
  /\ op.pc # "idle"
  /\ faults < MaxFaults
  /\ faults' = faults + 1
  /\ op' = Idle
  /\ plans' = {}
  /\ result' = NoResult
  /\ UNCHANGED <<repository, journal, user, attempted>>

-----------------------------------------------------------------------------
UserStep ==
  \/ \E c \in Changes : Edit(c) \/ Discard(c)
  \/ ForeignPush
  \/ \E i \in DOMAIN stack : ForeignPop(i) \/ ForeignDrop(i)
  \/ \E b \in Branches : ForeignSwitch(b)

Review ==
  \/ List
  \/ \E p \in plans : Expire(p)
  \/ \E b \in Branches : InspectTarget(b)
  \/ \E s \in Sessions, reviewed \in BOOLEAN : InspectSession(s, reviewed)

Operation ==
  \/ \E p \in plans, carry \in BOOLEAN, s \in Sessions \cup {None} : Execute(p, carry, s)
  \/ \E p \in plans, s \in Sessions : Restore(p, s)
  \/ Prepare \/ Push \/ Record \/ Check \/ Switch \/ Switched \/ Catch
  \/ Ready \/ Apply \/ Collide \/ Conflict \/ Applied
  \/ Confirm \/ Latest \/ Ref \/ (Drop("remove") /\ UNCHANGED faults) \/ Forget \/ Retain

Fault == Fail \/ Crash \/ PushHalfway \/ SwitchInterrupted \/ DropReportedFailed

Next == UserStep \/ Review \/ Operation \/ Fault

Spec == Init /\ [][Next]_vars

-----------------------------------------------------------------------------
Plans == [session : Sessions \cup {None},
          phase : {"absent", "stashed", "switched"} \cup Reviewed, reviewed : BOOLEAN,
          target : Branches \cup {None}, branch : Branches, work : SUBSET Changes]
Entries == [session : Sessions \cup {None}, object : 0 .. 2 * MaxForeign + 1,
            saved : SUBSET Changes]

TypeOK ==
  /\ branch \in Branches
  /\ work \subseteq Changes /\ made \subseteq Changes
  /\ stack \in Seq(Entries)
  /\ journal \in [Sessions -> Phases]
  /\ plans \subseteq Plans
  /\ op.pc \in Steps /\ (op.pc = "idle" <=> op = Idle)
  /\ op.session \in Sessions \cup {None} /\ op.phase \in Phases
  /\ result.session \in Sessions \cup {None}
  /\ attempted \subseteq Sessions /\ taken \subseteq Sessions
  /\ faults \in 0 .. MaxFaults

\* No change of the user is lost: what he did not give up himself is in the
\* working tree or in a stash, whatever fails, dies or interferes.
NothingLost == made \subseteq Kept(work, stack)

\* Every stash the service made can be found again: its session is in the
\* journal from before the stash exists until after it is removed.
ParkedIsListed ==
  \A i \in DOMAIN stack : stack[i].session # None => journal[stack[i].session] # "absent"

\* What execute and restore report is what happened: HEAD moved, the changes
\* were applied, or their backup still exists unless the user removed it.
OutcomeIsTrue ==
  LET s == result.session IN
  (s # None /\ ~result.thrown) =>
    /\ result.moved => result.switched
    /\ result.restored => s \in attempted
    /\ (~result.restored /\ (result.moved \/ s \in attempted)) =>
         Own(s, stack) # {} \/ s \in taken

\* "never retries": a stash that was applied, even in part or just before a
\* crash, is applied again only after the user reviewed that.
NoBlindReapply ==
  [][(At("apply") /\ op'.pc \in {"applied", "conflict"} /\ op.session \in attempted)
       => op.reviewed]_vars

\* The service removes no stash but its own, although others renumber the
\* stack, and what that stash saved stays in the working tree or, if the user
\* has put it away again meanwhile, in another stash.
DropsOnlyRestored ==
  [][(At("drop") /\ stack' # stack /\ op' # op)
       => /\ stack[op.at].session = op.session
          /\ stack[op.at].saved \subseteq Kept(work', stack')]_vars
=============================================================================
