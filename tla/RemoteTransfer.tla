--------------------------- MODULE RemoteTransfer ---------------------------
(***************************************************************************)
(* Pushing to several endpoints: electron/git/RemoteTransferService.ts     *)
(* with createPushPlan.ts, remotePushResults.ts and groupedRemotePush.ts.  *)
(*                                                                         *)
(* A plan captures the commits of a branch and its tags and, for a forced  *)
(* push, what every endpoint holds.  executePush() carries it out once;    *)
(* retryPush() takes a result and repeats the endpoints that are not       *)
(* published.  A push is not atomic: Git reports on every ref by itself,   *)
(* and when the connection breaks some refs may have arrived, unreported.  *)
(* Endpoints that an old Git cannot address one by one are pushed as a     *)
(* group and looked at afterwards.                                         *)
(*                                                                         *)
(* Meanwhile others push, the repository, its configuration and the        *)
(* policy of the secret scan change, and the user cancels.                 *)
(***************************************************************************)
EXTENDS Naturals, FiniteSets

CONSTANTS
  Calls,       \* calls of executePush() and retryPush() with the plan
  Endpoints,   \* push URLs
  Refs,        \* captured references: the branch and tags
  Branch,
  None,
  MaxForeign,  \* bound: changes of the endpoints by others
  MaxChanges,  \* bound: changes of what the plan was reviewed against
  MaxFaults    \* bound: failures, lost answers and cancellations

ASSUME RefsAssumption == Branch \in Refs
ASSUME BoundsAssumption == {MaxForeign, MaxChanges, MaxFaults} \subseteq Nat

\* What a reference of an endpoint points to: "captured" is what the plan is to
\* publish, "old" an earlier commit of the branch (a forced push rewrites it).
Commits == {"none", "old", "captured", "other"}
Published == {"success", "up-to-date"}
Statuses == Published \cup {"rejected", "failed", "unknown", "skipped"}
BatchStates == {"cancelled", "success", "incomplete"}
RunningSteps == {"authorize", "revalidate", "next", "advertise", "push", "pushing", "settle", "verify"}
Plans == [force : BOOLEAN, grouped : BOOLEAN, executed : BOOLEAN, lease : [Endpoints -> Commits]]

\* None is none of the values it stands in for.
ASSUME NoneAssumption ==
  None \notin Calls /\ None \notin BOOLEAN /\ None \notin Statuses /\ None \notin BatchStates /\ None \notin Plans
  /\ None \notin Commits

VARIABLES
  remote,    \* endpoint -> reference -> commit
  plan,      \* the stored plan
  active,    \* activePlans holds the plan
  context,   \* "reviewed", "changed" (validatePlan fails), "inactive" (ensureActive fails)
  policy,    \* policy of the secret scan
  call,      \* call -> its local variables and its batch
  \* history and bounds
  reviewed,  \* endpoint -> what its branch held when the plan was made
  seen,      \* endpoints and references that held the captured commit
  landed,    \* call -> endpoints and references its pushes have set
  foreign, changes, faults

environment == <<context, policy>>
bounds == <<foreign, changes, faults>>
vars == <<remote, plan, active, environment, call, reviewed, seen, landed, bounds>>

Idle ==
  [pc |-> "idle", from |-> None, selected |-> {}, approved |-> None, aborted |-> FALSE,
   cancelled |-> FALSE, todo |-> {}, at |-> {}, send |-> {}, answer |-> None,
   lease |-> [e \in Endpoints |-> None],
   results |-> [e \in Endpoints |-> None], state |-> None]

Init ==
  /\ remote = [e \in Endpoints |-> [r \in Refs |-> IF r = Branch THEN "old" ELSE "none"]]
  /\ plan = None
  /\ active = FALSE
  /\ context = "reviewed" /\ policy = FALSE
  /\ call = [c \in Calls |-> Idle]
  /\ reviewed = [e \in Endpoints |-> "none"]
  /\ seen = {} /\ landed = [c \in Calls |-> {}]
  /\ foreign = 0 /\ changes = 0 /\ faults = 0

Fault == faults < MaxFaults /\ faults' = faults + 1
NoFault == UNCHANGED faults
Still == UNCHANGED <<remote, plan, environment, reviewed, seen, landed, foreign, changes>>
Running(c) == call[c].pc \in RunningSteps
Captured == "captured"

\* context.ensureActive() and validatePlan().
EnsureActive(c) ==
  /\ ~call[c].aborted
  /\ context # "inactive"
  /\ call[c].approved \in {None, policy}
Valid(c) == EnsureActive(c) /\ context = "reviewed"

-----------------------------------------------------------------------------
\* planPush(): a grouped push cannot carry leases.
PlanPush(force, grouped) ==
  /\ plan = None
  /\ ~(force /\ grouped)
  /\ plan' = [force |-> force, grouped |-> grouped, executed |-> FALSE,
              lease |-> [e \in Endpoints |-> IF force THEN remote[e][Branch] ELSE "none"]]
  /\ reviewed' = [e \in Endpoints |-> remote[e][Branch]]
  /\ UNCHANGED <<remote, active, environment, call, seen, landed, bounds>>

\* The checks behind the first validation are synchronous, up to
\* activePlans.add(): a call that fails one of them changes nothing.
Claims_Unasked == TRUE     \* fault: the set of active plans is not asked
Claims == ~active

ExecutePush(c) ==
  /\ plan # None /\ call[c].pc = "idle"
  /\ Valid(c) /\ Claims /\ ~plan.executed
  /\ active' = TRUE
  /\ call' = [call EXCEPT ![c].pc = "authorize", ![c].selected = Endpoints]
  /\ NoFault /\ Still

RetryPush(c, from, targets) ==
  /\ call[c].pc = "idle" /\ call[from].state # None
  /\ Valid(c) /\ Claims /\ ~plan.grouped
  /\ LET selected == {e \in targets : call[from].results[e] \notin Published}
     IN /\ selected # {}
        /\ call' = [call EXCEPT ![c].pc = "authorize", ![c].from = from, ![c].selected = selected]
  /\ active' = TRUE
  /\ NoFault /\ Still

\* The call throws before its batch, and may be made again.
Leave(c) == active' = FALSE /\ call' = [call EXCEPT ![c] = Idle]

\* authorizePush(): the scan, under a policy that must still hold at its end.
Authorize(c) ==
  /\ call[c].pc = "authorize"
  /\ \/ NoFault /\ UNCHANGED active
        /\ call' = [call EXCEPT ![c].pc = "revalidate", ![c].approved = policy]
     \/ Fault /\ Leave(c)
  /\ Still

Revalidate(c) ==
  /\ call[c].pc = "revalidate"
  /\ IF Valid(c)
     THEN /\ plan' = IF call[c].from = None THEN [plan EXCEPT !.executed = TRUE] ELSE plan
          /\ call' = [call EXCEPT ![c].pc = "next", ![c].todo = Endpoints]
          /\ UNCHANGED active
     ELSE Leave(c) /\ UNCHANGED plan
  /\ NoFault /\ UNCHANGED <<remote, environment, reviewed, seen, landed, foreign, changes>>

-----------------------------------------------------------------------------
\* runBatch(): E are the endpoints of this round, reported with status.
Reports(c, E, status, cancel) ==
  call' = [call EXCEPT ![c].pc = "next", ![c].todo = @ \ E, ![c].at = {}, ![c].send = {}, ![c].answer = None,
    ![c].lease = Idle.lease, ![c].cancelled = cancel,
    ![c].results = [e \in Endpoints |-> IF e \in E THEN status[e] ELSE @[e]]]

All(E, status) == [e \in E |-> status]

\* The catch block around an endpoint whose validation had succeeded.
Throws(c, error) ==
  Reports(c, call[c].at,
    All(call[c].at, IF call[c].aborted \/ error = "AbortError" THEN "unknown" ELSE "failed"),
    call[c].aborted)

Round(e) == IF plan.grouped THEN Endpoints ELSE {e}

NextTarget(c, e) ==
  /\ call[c].pc = "next" /\ e \in call[c].todo
  /\ IF e \notin call[c].selected
     THEN Reports(c, {e}, All({e}, call[call[c].from].results[e]), call[c].cancelled)
     ELSE IF call[c].cancelled \/ call[c].aborted
     THEN Reports(c, {e}, All({e}, "skipped"), TRUE)
     ELSE IF ~Valid(c)
     THEN Reports(c, Round(e), All(Round(e), "skipped"), TRUE)
     ELSE call' = [call EXCEPT ![c].pc = IF call[c].from = None THEN "push" ELSE "advertise",
                               ![c].at = Round(e), ![c].send = Refs]
  /\ UNCHANGED active /\ NoFault /\ Still

\* A retry first asks the endpoint what it holds, and leaves that out.
Missing(e) == {r \in Refs : remote[e][r] # Captured}

Advertise(c) ==
  /\ call[c].pc = "advertise"
  /\ \E e \in call[c].at :
       IF ~EnsureActive(c)
       THEN Throws(c, "Error")
       ELSE IF plan.force /\ Branch \in Missing(e) /\ remote[e][Branch] # plan.lease[e]
       THEN Reports(c, {e}, All({e}, "rejected"), call[c].cancelled)
       ELSE call' = [call EXCEPT ![c].pc = "push", ![c].send = Missing(e)]
  /\ UNCHANGED active /\ NoFault /\ Still

\* The argument of --force-with-lease: the commit of the plan.
LeaseArgument_Anew(e) ==    \* fault: what the endpoint holds now
  IF plan.force THEN remote[e][Branch] ELSE None
LeaseArgument(e) == IF plan.force THEN plan.lease[e] ELSE None

\* The credentials, the effective URL, the LFS objects, and then git push.
Push(c) ==
  /\ call[c].pc = "push"
  /\ IF ~EnsureActive(c)
     THEN Throws(c, "Error")
     ELSE IF call[c].send = {}
     THEN Reports(c, call[c].at, All(call[c].at, "up-to-date"), call[c].cancelled)
     ELSE call' = [call EXCEPT ![c].pc = "pushing",
                               ![c].lease = [e \in Endpoints |-> LeaseArgument(e)]]
  /\ UNCHANGED active /\ NoFault /\ Still

\* A command before the push fails, or the hosting session ends.
FailsBefore(c) ==
  /\ call[c].pc \in {"advertise", "push"}
  /\ Fault
  /\ \E error \in {"Error", "AbortError"} : Throws(c, error)
  /\ UNCHANGED active /\ Still

-----------------------------------------------------------------------------
(***************************************************************************)
(* git push --porcelain.  With --force-with-lease the branch is set where  *)
(* it is what the argument says, else where the push is a fast-forward; a  *)
(* tag only where it is missing.  Other references of the same push are    *)
(* set nevertheless.                                                       *)
(***************************************************************************)
Accepts(c, e, r) ==
  IF r = Branch
  THEN IF call[c].lease[e] # None THEN remote[e][r] = call[c].lease[e] ELSE remote[e][r] \in {"none", "old"}
  ELSE remote[e][r] = "none"

Acceptable(c, e) == {r \in call[c].send : remote[e][r] # Captured /\ Accepts(c, e, r)}

\* The pairs of land are set on the endpoints.
Land(c, land) ==
  /\ remote' = [e \in Endpoints |-> [r \in Refs |->
       IF <<e, r>> \in land THEN Captured ELSE remote[e][r]]]
  /\ seen' = seen \cup land
  /\ landed' = [landed EXCEPT ![c] = @ \cup land]

Sent(c) == UNION {{<<e, r>> : r \in Acceptable(c, e)} : e \in call[c].at}

\* The status column of every reference line.
Lines(c, land) ==
  {IF remote[p[1]][p[2]] = Captured THEN "up-to-date"
   ELSE IF p \in land THEN "success" ELSE "rejected" : p \in call[c].at \X call[c].send}

\* pushResult()
PushResult_RejectedFirst(lines, exit) ==   \* fault: a partial success counts as rejected
  IF "rejected" \in lines THEN "rejected"
  ELSE IF exit # 0 \/ lines = {} THEN "unknown"
  ELSE IF "success" \in lines THEN "success" ELSE "up-to-date"
PushResult(lines, exit) ==
  IF {"rejected", "success"} \subseteq lines THEN "unknown"
  ELSE IF "rejected" \in lines THEN "rejected"
  ELSE IF exit # 0 \/ lines = {} THEN "unknown"
  ELSE IF "success" \in lines THEN "success" ELSE "up-to-date"

Answered(c, land, lines, exit) ==
  /\ Land(c, land)
  /\ call' = [call EXCEPT ![c].pc = "settle", ![c].answer = PushResult(lines, exit)]

Pushed(c) ==
  /\ call[c].pc = "pushing"
  /\ \/ /\ NoFault                        \* everything acceptable arrives
        /\ LET lines == Lines(c, Sent(c))
           IN Answered(c, Sent(c), lines, IF "rejected" \in lines THEN 1 ELSE 0)
     \/ /\ Fault                          \* a hook refuses, the connection breaks
        /\ \E land \in SUBSET Sent(c) :
             \/ Answered(c, land, Lines(c, land), 1)
             \/ Answered(c, land, {}, 1)
     \/ /\ NoFault                        \* the process is killed
        /\ call[c].aborted
        /\ \E land \in SUBSET Sent(c) : Land(c, land)
        /\ Throws(c, "AbortError")
  /\ UNCHANGED <<plan, active, environment, reviewed, foreign, changes>>

\* What has happened since is looked at before the answer is.
Settle(c) ==
  /\ call[c].pc = "settle"
  /\ IF plan.grouped
     THEN call' = [call EXCEPT ![c].pc = "verify"]
     ELSE IF EnsureActive(c)
     THEN Reports(c, call[c].at, All(call[c].at, call[c].answer), call[c].cancelled)
     ELSE Throws(c, "Error")
  /\ UNCHANGED active /\ NoFault /\ Still

\* A group is believed only what ls-remote shows afterwards, endpoint by endpoint.
Confirmed(e) == Missing(e) = {}
GroupStatus(c, e) ==
  IF EnsureActive(c) /\ Confirmed(e)
  THEN IF call[c].answer = "success" THEN "success" ELSE "up-to-date"
  ELSE "unknown"

VerifyGroup(c, e) ==
  /\ call[c].pc = "verify" /\ e \in call[c].at
  /\ \E status \in {GroupStatus(c, e), "unknown"} :
       /\ status # GroupStatus(c, e) => Fault         \* ls-remote fails
       /\ status = GroupStatus(c, e) => NoFault
       /\ call' = [call EXCEPT ![c].at = @ \ {e}, ![c].todo = @ \ {e}, ![c].results[e] = status,
                               ![c].pc = IF call[c].at = {e} THEN "next" ELSE "verify"]
  /\ UNCHANGED active /\ Still

\* batchState() (what is not complete is "partial" or "failed" by the results of
\* single references, which are not kept), and the finally block.
BatchState(c) ==
  LET results == call[c].results
      done == {e \in Endpoints : results[e] \in Published}
  IN IF call[c].cancelled \/ call[c].aborted THEN "cancelled"
     ELSE IF done = Endpoints THEN "success" ELSE "incomplete"

Finish(c) ==
  /\ call[c].pc = "next" /\ call[c].todo = {}
  /\ call' = [call EXCEPT ![c].pc = "ended", ![c].state = BatchState(c), ![c].approved = None,
                          ![c].aborted = FALSE, ![c].cancelled = FALSE]
  /\ active' = FALSE
  /\ NoFault /\ Still

-----------------------------------------------------------------------------
Cancel(c) ==
  /\ Running(c) /\ ~call[c].aborted
  /\ Fault
  /\ call' = [call EXCEPT ![c].aborted = TRUE]
  /\ UNCHANGED active /\ Still

\* Others push, rewrite or delete.
OtherPushes(e, r, commit) ==
  /\ foreign < MaxForeign /\ foreign' = foreign + 1
  /\ remote[e][r] # commit
  /\ remote' = [remote EXCEPT ![e][r] = commit]
  /\ seen' = IF commit = Captured THEN seen \cup {<<e, r>>} ELSE seen
  /\ UNCHANGED <<plan, active, environment, call, reviewed, landed, changes, faults>>

Changes ==
  /\ changes < MaxChanges /\ changes' = changes + 1
  /\ UNCHANGED <<remote, plan, active, call, reviewed, seen, landed, foreign, faults>>
ContextChanges(new) == context # new /\ context' = new /\ UNCHANGED policy /\ Changes
PolicyChanges == policy' = ~policy /\ UNCHANGED context /\ Changes

Next ==
  \/ \E force, grouped \in BOOLEAN : PlanPush(force, grouped)
  \/ \E c \in Calls :
       \/ ExecutePush(c)
       \/ \E from \in Calls, targets \in SUBSET Endpoints : RetryPush(c, from, targets)
       \/ Authorize(c) \/ Revalidate(c)
       \/ \E e \in Endpoints : NextTarget(c, e) \/ VerifyGroup(c, e)
       \/ Advertise(c) \/ Push(c) \/ FailsBefore(c) \/ Pushed(c) \/ Settle(c) \/ Finish(c)
       \/ Cancel(c)
  \/ \E e \in Endpoints, r \in Refs, commit \in Commits : OtherPushes(e, r, commit)
  \/ \E new \in {"reviewed", "changed", "inactive"} : ContextChanges(new)
  \/ PolicyChanges

Spec == Init /\ [][Next]_vars

-----------------------------------------------------------------------------
CallType ==
  [pc : {"idle", "ended"} \cup RunningSteps, from : Calls \cup {None},
   selected : SUBSET Endpoints, approved : BOOLEAN \cup {None},
   aborted : BOOLEAN, cancelled : BOOLEAN,
   todo : SUBSET Endpoints, at : SUBSET Endpoints, send : SUBSET Refs,
   answer : Statuses \cup {None}, lease : [Endpoints -> Commits \cup {None}],
   results : [Endpoints -> Statuses \cup {None}],
   state : BatchStates \cup {None}]

TypeOK ==
  /\ remote \in [Endpoints -> [Refs -> Commits]]
  /\ plan \in {None} \cup Plans
  /\ active \in BOOLEAN
  /\ context \in {"reviewed", "changed", "inactive"} /\ policy \in BOOLEAN
  /\ call \in [Calls -> CallType]
  /\ reviewed \in [Endpoints -> Commits]
  /\ seen \subseteq Endpoints \X Refs
  /\ landed \in [Calls -> SUBSET (Endpoints \X Refs)]

\* The set of active plans serialises the calls: at most one runs, and the
\* entry is there exactly as long as it does, however the call ends.
OneRun ==
  /\ \A c, d \in Calls : Running(c) /\ Running(d) => c = d
  /\ active <=> \E c \in Calls : Running(c)

\* What a result says of an endpoint is true: all references were there when it
\* says they are; a call whose result is "rejected" or "skipped" has set none of
\* them, although a broken push may have set any; and only a result that calls
\* itself cancelled leaves out an endpoint.
ResultIsTrue ==
  \A c \in Calls, e \in Endpoints :
    LET status == call[c].results[e] IN
    /\ status \in Published => {e} \X Refs \subseteq seen
    /\ status \in {"rejected", "skipped"} /\ e \in call[c].selected
         => landed[c] \cap ({e} \X Refs) = {}
    /\ status = "skipped" /\ e \in call[c].selected
         => call[c].state \in {None, "cancelled"}

\* However late it runs, as the first execution or as a retry, and whatever
\* others pushed since: a push replaces a missing reference, an ancestor of what
\* it publishes or, with a forced plan, the commit the branch of that endpoint
\* held when the plan was made, which is what the user has reviewed.
ForeignIsKept ==
  [][foreign' = foreign =>
       \A e \in Endpoints, r \in Refs : remote'[e][r] # remote[e][r] =>
         \/ remote[e][r] = "none"
         \/ r = Branch /\ ~plan.force /\ remote[e][r] = "old"
         \/ r = Branch /\ plan.force /\ remote[e][r] = reviewed[e]]_vars
=============================================================================
