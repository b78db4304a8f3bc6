------------------------ MODULE RemoteTransfer_proofs ------------------------
(***************************************************************************)
(* Proofs, for any calls, endpoints and references, that runs of one plan  *)
(* never overlap (OneRun), that a push replaces only what was reviewed     *)
(* (ForeignIsKept) and that results are true (ResultIsTrue).               *)
(***************************************************************************)
EXTENDS RemoteTransfer, TLAPS

BatchSteps == {"next", "advertise", "push", "pushing", "settle", "verify"}
TargetSteps == {"advertise", "push", "pushing", "settle", "verify"}

\* What is captured was seen.
SeenIsKept == \A e \in Endpoints, r \in Refs : remote[e][r] = Captured => <<e, r>> \in seen

\* A first execution takes all endpoints, a retry has the results of a call
\* that ended, and there is no retry of a group.
Origin(c) ==
  call[c].pc # "idle" =>
    /\ plan # None
    /\ call[c].from = None => call[c].selected = Endpoints
    /\ call[c].from # None => call[call[c].from].state # None /\ ~plan.grouped

Begins(c) == call[c].pc = "idle" => call[c].from = None

\* Only calls that ended have a state.
Ends(c) == call[c].state # None <=> call[c].pc = "ended"

\* Endpoints that are still to do were not pushed to, those of this round are
\* among them, and a group is one round.
ToDo(c) ==
  /\ call[c].pc \notin BatchSteps \cup {"ended"} => landed[c] = {} /\ \A e \in Endpoints : call[c].results[e] = None
  /\ call[c].pc \in BatchSteps => \A e \in call[c].todo : call[c].results[e] = None
  /\ call[c].pc \in BatchSteps \ {"settle", "verify"} => landed[c] \cap (call[c].todo \X Refs) = {}
  /\ call[c].pc \in {"settle", "verify"} => landed[c] \cap ((call[c].todo \ call[c].at) \X Refs) = {}
  /\ call[c].pc \in TargetSteps => call[c].at \subseteq call[c].todo /\ ~call[c].cancelled
  /\ call[c].pc \in TargetSteps /\ plan.grouped => call[c].at = call[c].todo
  /\ call[c].pc \in TargetSteps /\ ~plan.grouped => \E e \in Endpoints : call[c].at = {e}
  /\ call[c].pc = "next" /\ plan.grouped => call[c].todo \in {{}, Endpoints} \/ call[c].cancelled
  /\ call[c].pc = "advertise" => call[c].from # None
  /\ call[c].pc = "verify" => plan.grouped

\* References left out of a push were there, and an answer says what has
\* become of those that were sent.
Answers(c) ==
  /\ call[c].pc \in {"push", "pushing"} => \A e \in call[c].at, r \in Refs \ call[c].send : <<e, r>> \in seen
  /\ call[c].pc = "settle" =>
       /\ call[c].answer # None
       /\ call[c].answer \in Published => call[c].at \X Refs \subseteq seen
       /\ call[c].answer = "rejected" => landed[c] \cap (call[c].at \X Refs) = {}
       /\ call[c].answer # "skipped"
  /\ call[c].pc = "verify" => call[c].answer # None

\* The parts of ResultIsTrue, and that a skipped endpoint cancels the batch.
Results(c) ==
  \A e \in Endpoints :
    LET status == call[c].results[e] IN
    /\ status \in Published => {e} \X Refs \subseteq seen
    /\ status \in {"rejected", "skipped"} /\ e \in call[c].selected => landed[c] \cap ({e} \X Refs) = {}
    /\ status = "skipped" /\ e \in call[c].selected =>
         IF call[c].pc = "ended" THEN call[c].state = "cancelled" ELSE call[c].cancelled

CallInv(c) == Begins(c) /\ Origin(c) /\ Ends(c) /\ ToDo(c) /\ Answers(c) /\ Results(c)

\* ResultIsTrue alone is not inductive: an answer that waits to be reported, a
\* reference that a retry leaves out and an endpoint whose turn has not come
\* must all agree with what the endpoints have held.
IInv == TypeOK /\ OneRun /\ SeenIsKept /\ \A c \in Calls : CallInv(c)

-----------------------------------------------------------------------------
LEMMA NoneIsNoStatus == None \notin Statuses \cup Published \cup {"rejected", "skipped"}
  BY NoneAssumption DEF Statuses, Published

\* Calls come and go one at a time: a call runs and goes on or ends, or none
\* runs and it begins.
LEMMA RunsFollowTheSet ==
  ASSUME OneRun, NEW c \in Calls,
         \A d \in Calls \ {c} : call'[d] = call[d],
         Running(c) \/ ~active, active' <=> Running(c)'
  PROVE  OneRun'
<1>1. \A d \in Calls \ {c} : Running(d)' <=> Running(d)
  BY DEF Running
<1>2. \A d \in Calls \ {c} : ~Running(d)
  BY DEF OneRun
<1> QED BY <1>1, <1>2 DEF OneRun

LEMMA TypeUnchanged ==
  ASSUME TypeOK, UNCHANGED <<remote, plan, active, context, policy, call, reviewed, seen, landed>>
  PROVE  TypeOK'
  BY DEF TypeOK

\* What must not change for a call that takes no part in a step.
Kept(c) ==
  /\ seen \subseteq seen'
  /\ plan # None => plan' # None /\ plan'.grouped = plan.grouped
  /\ \A d \in Calls \ {c} : call'[d] = call[d] /\ landed'[d] = landed[d]
  /\ c \in Calls => (call[c].state # None => call'[c].state # None)

LEMMA OthersKeepTheirInvariant ==
  ASSUME TypeOK, NEW c, Kept(c), NEW d \in Calls \ {c}, CallInv(d)
  PROVE  CallInv(d)'
<1>1. call'[d] = call[d] /\ landed'[d] = landed[d] /\ seen \subseteq seen'
  BY DEF Kept
<1>2. call[d] \in CallType
  BY DEF TypeOK
<1>3. CASE call[d].pc = "idle"
  BY <1>1, <1>2, <1>3 DEF CallInv, Begins, Origin, Ends, ToDo, Answers, Results, BatchSteps, TargetSteps
<1>4. CASE call[d].pc # "idle"
  <2>1. plan # None /\ plan' # None /\ plan'.grouped = plan.grouped
    BY <1>4 DEF CallInv, Origin, Kept
  <2>2. Origin(d)'
    BY <1>1, <1>2, <1>4, <2>1 DEF CallInv, Origin, Kept, CallType
  <2>3. Begins(d)' /\ Ends(d)' /\ ToDo(d)'
    BY <1>1, <2>1 DEF CallInv, Begins, Ends, ToDo
  <2>4. Answers(d)' /\ Results(d)'
    BY <1>1 DEF CallInv, Answers, Results
  <2> QED BY <2>2, <2>3, <2>4 DEF CallInv
<1> QED BY <1>3, <1>4

\* A step of a call, from its effect on that call alone.
LEMMA CallStep ==
  ASSUME IInv, NEW c \in Calls, Kept(c),
         TypeOK', SeenIsKept', CallInv(c)',
         Running(c) \/ ~active, active' <=> Running(c)'
  PROVE  IInv'
<1>1. OneRun'
  BY RunsFollowTheSet DEF IInv, Kept
<1>2. \A d \in Calls \ {c} : CallInv(d)'
  BY OthersKeepTheirInvariant DEF IInv
<1> QED BY <1>1, <1>2 DEF IInv

-----------------------------------------------------------------------------
\* What a round of the batch leaves: the endpoints of E are reported.
LEMMA Reported ==
  ASSUME IInv, NEW c \in Calls, NEW E, NEW status, NEW cancel \in BOOLEAN,
         call[c].pc \in BatchSteps, E \subseteq call[c].todo,
         Reports(c, E, status, cancel), UNCHANGED <<plan, active, reviewed>>,
         TypeOK => /\ remote' \in [Endpoints -> [Refs -> Commits]]
                   /\ context' \in {"reviewed", "changed", "inactive"} /\ policy' \in BOOLEAN
                   /\ seen' \subseteq Endpoints \X Refs
                   /\ landed' \in [Calls -> SUBSET (Endpoints \X Refs)],
         SeenIsKept', seen \subseteq seen',
         \A d \in Calls \ {c} : landed'[d] = landed[d],
         landed'[c] \subseteq landed[c] \cup (call[c].at \X Refs),
         landed'[c] \cap ((call[c].todo \ E) \X Refs) = {},
         \A e \in Endpoints \ call[c].todo : landed'[c] \cap ({e} \X Refs) = landed[c] \cap ({e} \X Refs),
         call[c].cancelled => cancel,
         plan.grouped => E = call[c].todo \/ cancel,
         \A e \in E :
           /\ status[e] \in Statuses \cup {None}
           /\ status[e] \in Published => {e} \X Refs \subseteq seen'
           /\ status[e] \in {"rejected", "skipped"} /\ e \in call[c].selected => landed'[c] \cap ({e} \X Refs) = {}
           /\ status[e] = "skipped" /\ e \in call[c].selected => cancel
  PROVE  IInv'
<1>1. TypeOK /\ CallInv(c) /\ call[c] \in CallType
  BY DEF IInv, TypeOK
<1>2. call' = [call EXCEPT ![c] = call'[c]]
  BY <1>1 DEF Reports, TypeOK
<1>3. /\ call'[c].pc = "next" /\ call'[c].from = call[c].from /\ call'[c].selected = call[c].selected
      /\ call'[c].todo = call[c].todo \ E /\ call'[c].cancelled = cancel /\ call'[c].state = call[c].state
      /\ call'[c].results = [e \in Endpoints |-> IF e \in E THEN status[e] ELSE call[c].results[e]]
      /\ call'[c] \in CallType
  <2> DEFINE new == [call[c] EXCEPT !.pc = "next", !.todo = @ \ E, !.at = {}, !.send = {}, !.answer = None,
                       !.lease = Idle.lease, !.cancelled = cancel,
                       !.results = [e \in Endpoints |-> IF e \in E THEN status[e] ELSE @[e]]]
  <2>1. call'[c] = new
    BY <1>1 DEF Reports, TypeOK
  <2>2. [e \in Endpoints |-> IF e \in E THEN status[e] ELSE call[c].results[e]]
           \in [Endpoints -> Statuses \cup {None}]
    BY <1>1 DEF CallType
  <2>3. Idle.lease \in [Endpoints -> Commits \cup {None}]
    BY DEF Idle
  <2>4. new \in CallType
    BY <1>1, <2>2, <2>3 DEF CallType, RunningSteps
  <2> QED BY <1>1, <2>1, <2>4 DEF CallType
<1>4. Kept(c)
  BY <1>1, <1>2, <1>3 DEF Kept, TypeOK
<1>5. TypeOK'
  BY <1>1, <1>2, <1>3 DEF TypeOK
<1>6. call[c].pc # "idle" /\ call[c].pc # "ended"
  BY DEF BatchSteps
<1>7. Origin(c)'
  <2>1. CASE call[c].from = None
    BY <1>1, <1>3, <1>6, <2>1 DEF CallInv, Origin
  <2>2. CASE call[c].from # None
    <3>1. call[c].from # c
      BY <1>1, <1>6, <2>2 DEF CallInv, Origin, Ends
    <3> QED BY <1>1, <1>2, <1>3, <1>6, <2>2, <3>1 DEF CallInv, Origin, CallType, TypeOK
  <2> QED BY <2>1, <2>2
<1>8. Begins(c)' /\ Ends(c)'
  BY <1>1, <1>3, <1>6 DEF CallInv, Begins, Ends
<1>9. ToDo(c)'
  BY <1>1, <1>3 DEF CallInv, ToDo, BatchSteps, TargetSteps, CallType
<1>10. Answers(c)'
  BY <1>3 DEF Answers
<1>11. Results(c)'
  <2> SUFFICES ASSUME NEW e \in Endpoints
               PROVE  LET status2 == call'[c].results[e] IN
                 /\ status2 \in Published => {e} \X Refs \subseteq seen'
                 /\ status2 \in {"rejected", "skipped"} /\ e \in call'[c].selected => landed'[c] \cap ({e} \X Refs) = {}
                 /\ status2 = "skipped" /\ e \in call'[c].selected => call'[c].cancelled
    BY <1>3 DEF Results, Published
  <2>1. CASE e \in E
    BY <1>3, <2>1
  <2>2. CASE e \in call[c].todo \ E
    BY <1>1, <1>3, <2>2, NoneIsNoStatus DEF CallInv, ToDo
  <2>3. CASE e \notin call[c].todo
    BY <1>1, <1>3, <1>6, <2>3 DEF CallInv, Results
  <2> QED BY <2>1, <2>2, <2>3
<1>12. Running(c) /\ Running(c)'
  BY <1>3 DEF Running, RunningSteps, BatchSteps
<1>13. active /\ active'
  BY <1>12 DEF IInv, OneRun
<1> QED BY <1>4, <1>5, <1>7, <1>8, <1>9, <1>10, <1>11, <1>12, <1>13, CallStep DEF CallInv

-----------------------------------------------------------------------------
\* Steps that no call takes.
LEMMA OutsideStep ==
  ASSUME IInv, UNCHANGED <<call, active, landed>>, seen \subseteq seen', TypeOK', SeenIsKept',
         plan # None => plan' # None /\ plan'.grouped = plan.grouped
  PROVE  IInv'
<1>1. None \notin Calls /\ Kept(None)
  BY NoneAssumption DEF Kept
<1>2. \A d \in Calls : CallInv(d)'
  BY <1>1, OthersKeepTheirInvariant DEF IInv
<1>3. OneRun'
  BY DEF IInv, OneRun, Running
<1> QED BY <1>2, <1>3 DEF IInv

LEMMA PlanPushStep ==
  ASSUME IInv, NEW force \in BOOLEAN, NEW grouped \in BOOLEAN, PlanPush(force, grouped)
  PROVE  IInv'
<1>1. TypeOK /\ SeenIsKept
  BY DEF IInv
<1>2. [e \in Endpoints |-> IF force THEN remote[e][Branch] ELSE "none"] \in [Endpoints -> Commits]
  BY <1>1, RefsAssumption DEF TypeOK, Commits
<1>3. plan' \in Plans
  BY <1>2 DEF PlanPush, Plans
<1>4. TypeOK'
  <2>1. reviewed' \in [Endpoints -> Commits]
    BY <1>1, RefsAssumption DEF PlanPush, TypeOK
  <2> QED BY <1>1, <1>3, <2>1 DEF PlanPush, TypeOK, environment
<1>5. SeenIsKept'
  BY <1>1 DEF PlanPush, SeenIsKept
<1> QED BY <1>4, <1>5, OutsideStep DEF PlanPush

LEMMA OthersStep ==
  ASSUME IInv, NEW e \in Endpoints, NEW r \in Refs, NEW commit \in Commits, OtherPushes(e, r, commit)
  PROVE  IInv'
<1>1. TypeOK /\ SeenIsKept
  BY DEF IInv
<1>2. TypeOK'
  BY <1>1 DEF OtherPushes, TypeOK, environment
<1>3. SeenIsKept'
  BY <1>1 DEF OtherPushes, SeenIsKept, TypeOK
<1> QED BY <1>2, <1>3, OutsideStep DEF OtherPushes

LEMMA ChangeStep ==
  ASSUME IInv, PolicyChanges \/ \E new \in {"reviewed", "changed", "inactive"} : ContextChanges(new)
  PROVE  IInv'
<1>1. UNCHANGED <<remote, plan, active, call, reviewed, seen, landed>>
  BY DEF PolicyChanges, ContextChanges, Changes
<1>2. TypeOK /\ SeenIsKept
  BY DEF IInv
<1>3. context' \in {"reviewed", "changed", "inactive"} /\ policy' \in BOOLEAN
  BY <1>2 DEF PolicyChanges, ContextChanges, TypeOK
<1>4. TypeOK' /\ SeenIsKept'
  BY <1>1, <1>2, <1>3 DEF TypeOK, SeenIsKept
<1> QED BY <1>1, <1>4, OutsideStep

-----------------------------------------------------------------------------
\* Steps of a call that touch no endpoint.
LEMMA LocalStep ==
  ASSUME IInv, NEW c \in Calls, NEW new \in CallType,
         call' = [call EXCEPT ![c] = new],
         plan' \in Plans /\ plan'.grouped = plan.grouped,
         UNCHANGED <<remote, environment, reviewed, seen, landed>>,
         call[c].state = None, CallInv(c)', active' \in BOOLEAN,
         Running(c) \/ ~active, active' <=> new.pc \in RunningSteps
  PROVE  IInv'
<1>1. TypeOK /\ SeenIsKept
  BY DEF IInv
<1>2. call'[c] = new /\ \A d \in Calls \ {c} : call'[d] = call[d]
  BY <1>1 DEF TypeOK
<1>3. Kept(c)
  BY <1>1, <1>2, NoneAssumption DEF Kept
<1>4. TypeOK' /\ SeenIsKept'
  BY <1>1, <1>2 DEF TypeOK, environment, SeenIsKept
<1>5. active' <=> Running(c)'
  BY <1>2 DEF Running
<1> QED BY <1>3, <1>4, <1>5, CallStep

\* What the invariant says of a call.
LEMMA Own ==
  ASSUME IInv, NEW c \in Calls
  PROVE  /\ TypeOK /\ SeenIsKept /\ CallInv(c) /\ call[c] \in CallType
         /\ call[c].pc = "idle" =>
              /\ call[c].from = None /\ call[c].state = None /\ landed[c] = {}
              /\ \A e \in Endpoints : call[c].results[e] = None
         /\ Running(c) => call[c].state = None /\ active /\ plan \in Plans
<1>1. TypeOK /\ OneRun /\ SeenIsKept /\ CallInv(c)
  BY DEF IInv
<1>2. call[c] \in CallType
  BY <1>1 DEF TypeOK
<1>3. Running(c) => call[c].pc # "idle" /\ call[c].pc # "ended"
  BY DEF Running, RunningSteps
<1>4. call[c].pc = "idle" =>
        /\ call[c].from = None /\ call[c].state = None /\ landed[c] = {}
        /\ \A e \in Endpoints : call[c].results[e] = None
  BY <1>1 DEF CallInv, Begins, Ends, ToDo, BatchSteps
<1>5. Running(c) => call[c].state = None /\ active /\ plan \in Plans
  BY <1>1, <1>3 DEF CallInv, Origin, Ends, OneRun, TypeOK
<1> QED BY <1>1, <1>2, <1>4, <1>5

LEMMA IdleIsFresh ==
  /\ Idle \in CallType
  /\ Idle.pc = "idle" /\ Idle.from = None /\ Idle.state = None
  /\ \A e \in Endpoints : Idle.results[e] = None
  BY DEF Idle, CallType

\* Without results, nothing is to be said of them.
LEMMA Fresh ==
  ASSUME NEW c, \A e \in Endpoints : call[c].results[e] = None
  PROVE  Results(c)
  BY NoneIsNoStatus DEF Results

LEMMA ExecutePushStep ==
  ASSUME IInv, NEW c \in Calls, ExecutePush(c)
  PROVE  IInv'
<1> DEFINE new == [call[c] EXCEPT !.pc = "authorize", !.selected = Endpoints]
<1>1. call' = [call EXCEPT ![c] = new] /\ call[c].pc = "idle" /\ plan # None /\ ~active
  BY DEF ExecutePush, Claims
<1>2. new \in CallType /\ call[c] \in CallType /\ call'[c] = new /\ plan \in Plans
  <2>1. TypeOK /\ call[c] \in CallType
    BY Own
  <2>2. new \in CallType
    BY <2>1 DEF CallType, RunningSteps
  <2>3. call'[c] = new /\ plan \in Plans
    BY <1>1, <2>1 DEF TypeOK
  <2> QED BY <2>1, <2>2, <2>3
<1>3. /\ new.pc = "authorize" /\ new.selected = Endpoints /\ new.from = None /\ new.state = None
      /\ new.results = call[c].results
  BY <1>1, <1>2, Own DEF CallType
<1>4. UNCHANGED <<remote, plan, environment, reviewed, seen, landed>> /\ active'
  BY DEF ExecutePush, Still
<1>5. (\A e \in Endpoints : call'[c].results[e] = None) /\ landed'[c] = {}
  BY <1>1, <1>2, <1>3, <1>4, Own
<1>6. Results(c)'
  BY <1>5, NoneIsNoStatus DEF Results
<1>7. CallInv(c)'
  BY <1>1, <1>2, <1>3, <1>4, <1>5, <1>6 DEF CallInv, Begins, Origin, Ends, ToDo, Answers, BatchSteps, TargetSteps
<1> HIDE DEF new
<1> QED BY <1>1, <1>2, <1>3, <1>4, <1>7, LocalStep, Own DEF RunningSteps

LEMMA RetryPushStep ==
  ASSUME IInv, NEW c \in Calls, NEW from \in Calls, NEW targets \in SUBSET Endpoints,
         RetryPush(c, from, targets)
  PROVE  IInv'
<1> DEFINE selected == {e \in targets : call[from].results[e] \notin Published}
           new == [call[c] EXCEPT !.pc = "authorize", !.from = from, !.selected = selected]
<1>1. /\ call' = [call EXCEPT ![c] = new] /\ call[c].pc = "idle" /\ call[from].state # None
      /\ ~active /\ ~plan.grouped
  BY DEF RetryPush, Claims
<1>2. from # c /\ call[from].pc # "idle"
  BY <1>1, Own
<1>3. plan # None
  BY <1>2, Own DEF CallInv, Origin
<1>4. new \in CallType /\ call[c] \in CallType /\ call'[c] = new /\ plan \in Plans /\ call'[from] = call[from]
  <2>1. TypeOK /\ call[c] \in CallType
    BY Own
  <2>2. new \in CallType
    BY <2>1 DEF CallType, RunningSteps
  <2>3. call'[c] = new /\ plan \in Plans /\ call'[from] = call[from]
    BY <1>1, <1>2, <1>3, <2>1 DEF TypeOK
  <2> QED BY <2>1, <2>2, <2>3
<1>5. /\ new.pc = "authorize" /\ new.from = from /\ new.state = None /\ from # None
      /\ new.results = call[c].results
  BY <1>1, <1>4, Own, NoneAssumption DEF CallType
<1>6. UNCHANGED <<remote, plan, environment, reviewed, seen, landed>> /\ active'
  BY DEF RetryPush, Still
<1>7. (\A e \in Endpoints : call'[c].results[e] = None) /\ landed'[c] = {}
  BY <1>1, <1>4, <1>5, <1>6, Own
<1>8. Results(c)'
  BY <1>7, NoneIsNoStatus DEF Results
<1> HIDE DEF new
<1>9. CallInv(c)'
  BY <1>1, <1>3, <1>4, <1>5, <1>6, <1>7, <1>8 DEF CallInv, Begins, Origin, Ends, ToDo, Answers, BatchSteps, TargetSteps
<1> QED BY <1>1, <1>4, <1>5, <1>6, <1>9, LocalStep, Own DEF RunningSteps

\* A call that leaves before its batch has set nothing.
LEMMA LeaveStep ==
  ASSUME IInv, NEW c \in Calls, call[c].pc \in {"authorize", "revalidate"},
         Leave(c), UNCHANGED <<remote, plan, environment, reviewed, seen, landed>>
  PROVE  IInv'
<1>1. Running(c)
  BY DEF Running, RunningSteps
<1>2. call' = [call EXCEPT ![c] = Idle] /\ ~active' /\ active' \in BOOLEAN
  BY DEF Leave
<1>3. call'[c] = Idle /\ plan \in Plans /\ landed'[c] = {}
  BY <1>1, <1>2, Own DEF TypeOK, CallInv, ToDo, BatchSteps
<1>4. Results(c)'
  BY <1>3, IdleIsFresh, NoneIsNoStatus DEF Results
<1>5. CallInv(c)'
  BY <1>3, <1>4, IdleIsFresh DEF CallInv, Begins, Origin, Ends, ToDo, Answers, BatchSteps, TargetSteps
<1> QED BY <1>1, <1>2, <1>3, <1>5, IdleIsFresh, Own, LocalStep DEF RunningSteps

LEMMA AuthorizeStep ==
  ASSUME IInv, NEW c \in Calls, Authorize(c)
  PROVE  IInv'
<1>1. /\ Running(c) /\ call[c].pc = "authorize"
      /\ UNCHANGED <<remote, plan, environment, reviewed, seen, landed>>
  BY DEF Authorize, Running, RunningSteps, Still
<1>2. CASE Leave(c)
  BY <1>1, <1>2, LeaveStep
<1>3. CASE UNCHANGED active /\ call' = [call EXCEPT ![c].pc = "revalidate", ![c].approved = policy]
  <2> DEFINE new == [call[c] EXCEPT !.pc = "revalidate", !.approved = policy]
  <2>1. call' = [call EXCEPT ![c] = new]
    BY <1>3
  <2>2. new \in CallType
    <3>1. call[c] \in CallType /\ policy \in BOOLEAN
      BY Own DEF TypeOK
    <3> QED BY <3>1 DEF CallType, RunningSteps
  <2>3. call'[c] = new
    BY <2>1, Own DEF TypeOK
  <2>4. /\ new.pc = "revalidate" /\ new.from = call[c].from /\ new.selected = call[c].selected
        /\ new.state = call[c].state /\ new.results = call[c].results
    BY Own DEF CallType
  <2> HIDE DEF new
  <2>5. CallInv(c) /\ (call[c].from # None => call[c].from # c)
    BY <1>1, Own DEF CallInv, Origin
  <2>6. \A d \in Calls \ {c} : call'[d] = call[d]
    BY <2>1, Own DEF TypeOK
  <2>7. Origin(c)'
    BY <1>1, <2>3, <2>4, <2>5, <2>6, Own DEF CallInv, Origin, CallType
  <2>8. ToDo(c) /\ call[c].pc \notin BatchSteps \cup {"ended"}
    BY <1>1, Own DEF CallInv, BatchSteps
  <2>9. (\A e \in Endpoints : call'[c].results[e] = None) /\ landed'[c] = {}
    BY <1>1, <2>3, <2>4, <2>8 DEF ToDo
  <2>10. Results(c)'
    BY <2>9, NoneIsNoStatus DEF Results
  <2>11. Begins(c)' /\ Ends(c)' /\ ToDo(c)' /\ Answers(c)'
    BY <1>1, <2>3, <2>4, <2>9, Own DEF Begins, Ends, ToDo, Answers, BatchSteps, TargetSteps
  <2> QED BY <1>1, <1>3, <2>1, <2>2, <2>4, <2>7, <2>10, <2>11, LocalStep, Own DEF CallInv, RunningSteps, TypeOK
<1> QED BY <1>2, <1>3 DEF Authorize

LEMMA RevalidateStep ==
  ASSUME IInv, NEW c \in Calls, Revalidate(c)
  PROVE  IInv'
<1>1. /\ Running(c) /\ call[c].pc = "revalidate"
      /\ UNCHANGED <<remote, environment, reviewed, seen, landed>>
  BY DEF Revalidate, Running, RunningSteps
<1>2. CASE ~Valid(c)
  <2>1. Leave(c) /\ UNCHANGED plan
    BY <1>2 DEF Revalidate
  <2> QED BY <1>1, <2>1, LeaveStep
<1>3. CASE Valid(c)
  <2> DEFINE new == [call[c] EXCEPT !.pc = "next", !.todo = Endpoints]
  <2>1. call' = [call EXCEPT ![c] = new] /\ UNCHANGED active
    BY <1>3 DEF Revalidate
  <2>2. new \in CallType
    <3>1. call[c] \in CallType
      BY Own
    <3> QED BY <3>1 DEF CallType, RunningSteps
  <2>3. call'[c] = new /\ \A d \in Calls \ {c} : call'[d] = call[d]
    BY <2>1, Own DEF TypeOK
  <2>4. /\ new.pc = "next" /\ new.from = call[c].from /\ new.selected = call[c].selected
        /\ new.state = call[c].state /\ new.results = call[c].results /\ new.todo = Endpoints
    BY Own DEF CallType
  <2> HIDE DEF new
  <2>5. plan' \in Plans /\ plan'.grouped = plan.grouped /\ plan' # None
    <3>1. plan \in Plans
      BY <1>1, Own
    <3>2. plan' = plan \/ plan' = [plan EXCEPT !.executed = TRUE]
      BY <1>3 DEF Revalidate
    <3>3. plan' \in Plans /\ plan'.grouped = plan.grouped
      BY <3>1, <3>2 DEF Plans
    <3> QED BY <3>3, NoneAssumption
  <2>6. Origin(c)'
    BY <1>1, <2>3, <2>4, <2>5, Own DEF CallInv, Origin, CallType
  <2>7. ToDo(c) /\ call[c].pc \notin BatchSteps \cup {"ended"}
    BY <1>1, Own DEF CallInv, BatchSteps
  <2>8. (\A e \in Endpoints : call'[c].results[e] = None) /\ landed'[c] = {}
    BY <1>1, <2>3, <2>4, <2>7 DEF ToDo
  <2>9. Results(c)'
    BY <2>8, NoneIsNoStatus DEF Results
  <2>10. Begins(c)' /\ Ends(c)' /\ ToDo(c)' /\ Answers(c)'
    BY <1>1, <2>3, <2>4, <2>8, Own DEF Begins, Ends, ToDo, Answers, BatchSteps, TargetSteps
  <2> QED BY <1>1, <2>1, <2>2, <2>4, <2>5, <2>6, <2>9, <2>10, LocalStep, Own DEF CallInv, RunningSteps, TypeOK
<1> QED BY <1>2, <1>3

\* A round that is reported without any push of its own.
LEMMA ReportedUnsent ==
  ASSUME IInv, NEW c \in Calls, NEW E, NEW status, NEW cancel \in BOOLEAN,
         call[c].pc \in BatchSteps \ {"settle", "verify"}, E \subseteq call[c].todo,
         Reports(c, E, status, cancel), UNCHANGED active, Still,
         call[c].cancelled => cancel,
         plan.grouped => E = call[c].todo \/ cancel,
         \A e \in E :
           /\ status[e] \in Statuses \cup {None}
           /\ status[e] \in Published => {e} \X Refs \subseteq seen
           /\ status[e] = "skipped" /\ e \in call[c].selected => cancel
  PROVE  IInv'
<1>1. UNCHANGED <<plan, active, reviewed>> /\ seen \subseteq seen' /\ landed' = landed /\ seen' = seen
  BY DEF Still
<1>2. TypeOK => /\ remote' \in [Endpoints -> [Refs -> Commits]]
                /\ context' \in {"reviewed", "changed", "inactive"} /\ policy' \in BOOLEAN
                /\ seen' \subseteq Endpoints \X Refs
                /\ landed' \in [Calls -> SUBSET (Endpoints \X Refs)]
  BY DEF TypeOK, Still, environment
<1>3. SeenIsKept'
  BY Own DEF SeenIsKept, Still
<1>4. landed[c] \cap (call[c].todo \X Refs) = {}
  BY Own DEF CallInv, ToDo
<1>5. /\ landed'[c] \cap ((call[c].todo \ E) \X Refs) = {}
      /\ \A e \in E : landed'[c] \cap ({e} \X Refs) = {}
  BY <1>1, <1>4
<1>6. \A e \in E :
         /\ status[e] \in Statuses \cup {None}
         /\ status[e] \in Published => {e} \X Refs \subseteq seen'
         /\ status[e] \in {"rejected", "skipped"} /\ e \in call[c].selected => landed'[c] \cap ({e} \X Refs) = {}
         /\ status[e] = "skipped" /\ e \in call[c].selected => cancel
  BY <1>1, <1>5
<1> QED BY <1>1, <1>2, <1>3, <1>5, <1>6, Reported

-----------------------------------------------------------------------------
\* What is set on the endpoints is seen, and is this call's.
LEMMA LandEffect ==
  ASSUME IInv, NEW c \in Calls, NEW land \in SUBSET (Endpoints \X Refs), Land(c, land), UNCHANGED environment
  PROVE  /\ TypeOK => /\ remote' \in [Endpoints -> [Refs -> Commits]]
                      /\ context' \in {"reviewed", "changed", "inactive"} /\ policy' \in BOOLEAN
                      /\ seen' \subseteq Endpoints \X Refs
                      /\ landed' \in [Calls -> SUBSET (Endpoints \X Refs)]
         /\ SeenIsKept' /\ seen' = seen \cup land
         /\ \A d \in Calls \ {c} : landed'[d] = landed[d]
         /\ landed'[c] = landed[c] \cup land
<1>1. TypeOK /\ SeenIsKept
  BY Own
<1>2. remote' \in [Endpoints -> [Refs -> Commits]]
  BY <1>1 DEF Land, TypeOK, Commits, Captured
<1>3. context' \in {"reviewed", "changed", "inactive"} /\ policy' \in BOOLEAN
  BY <1>1 DEF TypeOK, environment
<1>4. seen' = seen \cup land /\ seen' \subseteq Endpoints \X Refs
  BY <1>1 DEF Land, TypeOK
<1>5. /\ landed' \in [Calls -> SUBSET (Endpoints \X Refs)]
      /\ \A d \in Calls \ {c} : landed'[d] = landed[d]
      /\ landed'[c] = landed[c] \cup land
  BY <1>1 DEF Land, TypeOK
<1>6. SeenIsKept'
  BY <1>1, <1>4 DEF Land, SeenIsKept, Captured
<1> QED BY <1>2, <1>3, <1>4, <1>5, <1>6

LEMMA StillLandsNothing ==
  ASSUME IInv, NEW c \in Calls, Still
  PROVE  Land(c, {})
<1>1. /\ remote \in [Endpoints -> [Refs -> Commits]]
      /\ landed \in [Calls -> SUBSET (Endpoints \X Refs)]
  BY Own DEF TypeOK
<1>2. remote = [e \in Endpoints |-> [r \in Refs |-> remote[e][r]]]
  BY <1>1
<1>3. landed = [landed EXCEPT ![c] = @ \cup {}]
  BY <1>1
<1> QED BY <1>2, <1>3 DEF Still, Land

\* The endpoints of a round are reported, after a push that set land.
LEMMA ReportedRound ==
  ASSUME IInv, NEW c \in Calls, NEW land \in SUBSET (call[c].at \X Refs), NEW status, NEW cancel \in BOOLEAN,
         call[c].pc \in TargetSteps \ {"verify"},
         Reports(c, call[c].at, status, cancel), UNCHANGED <<plan, active, environment, reviewed>>, Land(c, land),
         \A e \in call[c].at :
           /\ status[e] \in Statuses \cup {None} /\ status[e] # "skipped"
           /\ status[e] \in Published => {e} \X Refs \subseteq seen'
           /\ status[e] = "rejected" => landed'[c] \cap ({e} \X Refs) = {}
  PROVE  IInv'
<1>1. /\ call[c].at \subseteq call[c].todo /\ ~call[c].cancelled
      /\ plan.grouped => call[c].at = call[c].todo
      /\ landed[c] \cap ((call[c].todo \ call[c].at) \X Refs) = {}
  BY Own DEF CallInv, ToDo, TargetSteps, BatchSteps
<1>2. call[c].pc \in BatchSteps
  BY DEF TargetSteps, BatchSteps
<1>3. land \in SUBSET (Endpoints \X Refs)
  BY Own DEF CallType
<1>4. /\ TypeOK => /\ remote' \in [Endpoints -> [Refs -> Commits]]
                   /\ context' \in {"reviewed", "changed", "inactive"} /\ policy' \in BOOLEAN
                   /\ seen' \subseteq Endpoints \X Refs
                   /\ landed' \in [Calls -> SUBSET (Endpoints \X Refs)]
      /\ SeenIsKept' /\ seen \subseteq seen'
      /\ \A d \in Calls \ {c} : landed'[d] = landed[d]
      /\ landed'[c] = landed[c] \cup land
  BY <1>3, LandEffect
<1>5. /\ landed'[c] \subseteq landed[c] \cup (call[c].at \X Refs)
      /\ landed'[c] \cap ((call[c].todo \ call[c].at) \X Refs) = {}
      /\ \A e \in Endpoints \ call[c].todo : landed'[c] \cap ({e} \X Refs) = landed[c] \cap ({e} \X Refs)
  BY <1>1, <1>4
<1>6. \A e \in call[c].at :
         /\ status[e] \in Statuses \cup {None}
         /\ status[e] \in Published => {e} \X Refs \subseteq seen'
         /\ status[e] \in {"rejected", "skipped"} /\ e \in call[c].selected => landed'[c] \cap ({e} \X Refs) = {}
         /\ status[e] = "skipped" /\ e \in call[c].selected => cancel
  OBVIOUS
<1> QED BY <1>1, <1>2, <1>4, <1>5, <1>6, Reported

LEMMA ThrowsStep ==
  ASSUME IInv, NEW c \in Calls, NEW land \in SUBSET (call[c].at \X Refs), NEW error,
         call[c].pc \in TargetSteps \ {"verify"},
         Throws(c, error), UNCHANGED <<plan, active, environment, reviewed>>, Land(c, land)
  PROVE  IInv'
<1> DEFINE status == All(call[c].at, IF call[c].aborted \/ error = "AbortError" THEN "unknown" ELSE "failed")
<1>1. Reports(c, call[c].at, status, call[c].aborted)
  BY DEF Throws
<1>2. \A e \in call[c].at : status[e] \in {"unknown", "failed"}
  BY DEF All
<1>3. call[c].aborted \in BOOLEAN
  BY Own DEF CallType
<1>4. \A e \in call[c].at :
         /\ status[e] \in Statuses \cup {None} /\ status[e] # "skipped"
         /\ status[e] \in Published => {e} \X Refs \subseteq seen'
         /\ status[e] = "rejected" => landed'[c] \cap ({e} \X Refs) = {}
  BY <1>2 DEF Statuses, Published
<1> HIDE DEF status
<1> QED BY <1>1, <1>3, <1>4, ReportedRound

-----------------------------------------------------------------------------
\* A call that goes on to the next step of its round, without any result.
LEMMA GoesOn ==
  ASSUME IInv, NEW c \in Calls, NEW new \in CallType, call[c].pc \in BatchSteps,
         call' = [call EXCEPT ![c] = new], UNCHANGED active, Still,
         new.pc \in BatchSteps,
         new.from = call[c].from, new.selected = call[c].selected, new.state = call[c].state,
         new.results = call[c].results, new.cancelled = call[c].cancelled,
         new.todo = call[c].todo,
         new.pc \in {"settle", "verify"} => call[c].pc \in {"settle", "verify"} /\ new.at = call[c].at,
         call[c].pc \in {"settle", "verify"} => new.pc \in {"settle", "verify"},
         new.pc \in TargetSteps =>
           /\ new.at \subseteq call[c].todo /\ ~call[c].cancelled
           /\ plan.grouped => new.at = call[c].todo
           /\ ~plan.grouped => \E e \in Endpoints : new.at = {e},
         new.pc # "next",
         new.pc = "advertise" => call[c].from # None,
         new.pc = "verify" => plan.grouped /\ new.answer # None,
         new.pc # "settle",
         new.pc \in {"push", "pushing"} => \A e \in new.at, r \in Refs \ new.send : <<e, r>> \in seen
  PROVE  IInv'
<1>1. Running(c) /\ plan \in Plans /\ call[c].state = None /\ active
  BY Own DEF Running, RunningSteps, BatchSteps
<1>2. call'[c] = new /\ \A d \in Calls \ {c} : call'[d] = call[d]
  BY Own DEF TypeOK
<1>3. CallInv(c) /\ call[c].pc # "idle" /\ call[c].pc # "ended" /\ call[c] \in CallType
  BY Own DEF BatchSteps
<1>4. UNCHANGED <<remote, plan, environment, reviewed, seen, landed>>
  BY DEF Still
<1>5. new.pc # "idle" /\ new.pc # "ended" /\ new.pc \in RunningSteps
  BY DEF BatchSteps, RunningSteps
<1>6. Origin(c)'
  BY <1>2, <1>3, <1>4, <1>5 DEF CallInv, Origin, CallType
<1>7. Begins(c)' /\ Ends(c)'
  BY <1>2, <1>3, <1>5 DEF CallInv, Begins, Ends
<1>8. ToDo(c)'
  BY <1>2, <1>3, <1>4, <1>5 DEF CallInv, ToDo
<1>9. Answers(c)'
  BY <1>2, <1>4 DEF Answers
<1>10. Results(c)'
  BY <1>2, <1>3, <1>4, <1>5 DEF CallInv, Results
<1> QED BY <1>1, <1>4, <1>5, <1>6, <1>7, <1>8, <1>9, <1>10, LocalStep, Own DEF CallInv, TypeOK

LEMMA NextTargetStep ==
  ASSUME IInv, NEW c \in Calls, NEW e \in Endpoints, NextTarget(c, e)
  PROVE  IInv'
<1>1. /\ call[c].pc = "next" /\ e \in call[c].todo /\ UNCHANGED active /\ Still
      /\ call[c].pc \in BatchSteps \ {"settle", "verify"} /\ call[c] \in CallType
      /\ CallInv(c) /\ {e} \subseteq call[c].todo /\ call[c].cancelled \in BOOLEAN
  BY Own DEF NextTarget, BatchSteps, CallType
<1>2. CASE e \notin call[c].selected
  <2> DEFINE from == call[c].from
             status == All({e}, call[from].results[e])
  <2>1. Reports(c, {e}, status, call[c].cancelled)
    BY <1>2 DEF NextTarget
  <2>2. from \in Calls /\ ~plan.grouped
    BY <1>1, <1>2 DEF CallInv, Origin, CallType
  <2>3. call[from] \in CallType /\ Results(from)
    BY <2>2, Own DEF CallInv
  <2>4. /\ call[from].results[e] \in Statuses \cup {None}
        /\ call[from].results[e] \in Published => {e} \X Refs \subseteq seen
    BY <2>3 DEF CallType, Results
  <2>5. \A d \in {e} :
          /\ status[d] \in Statuses \cup {None}
          /\ status[d] \in Published => {d} \X Refs \subseteq seen
          /\ status[d] = "skipped" /\ d \in call[c].selected => call[c].cancelled
    BY <1>2, <2>4 DEF All
  <2> HIDE DEF status
  <2> QED BY <1>1, <2>1, <2>2, <2>5, ReportedUnsent
<1>3. CASE e \in call[c].selected /\ (call[c].cancelled \/ call[c].aborted \/ ~Valid(c))
  <2>1. PICK E : Reports(c, E, All(E, "skipped"), TRUE) /\ E \subseteq call[c].todo
    <3>1. CASE call[c].cancelled \/ call[c].aborted
      BY <1>1, <1>3, <3>1 DEF NextTarget
    <3>2. CASE ~(call[c].cancelled \/ call[c].aborted)
      <4>1. Round(e) \subseteq call[c].todo
        BY <1>1, <3>2 DEF Round, CallInv, ToDo
      <4> QED BY <1>3, <3>2, <4>1 DEF NextTarget
    <3> QED BY <3>1, <3>2
  <2>2. \A d \in E :
          /\ All(E, "skipped")[d] \in Statuses \cup {None}
          /\ All(E, "skipped")[d] \in Published => {d} \X Refs \subseteq seen
          /\ All(E, "skipped")[d] = "skipped" /\ d \in call[c].selected => TRUE
    BY DEF All, Statuses, Published
  <2> QED BY <1>1, <2>1, <2>2, ReportedUnsent
<1>4. CASE e \in call[c].selected /\ ~(call[c].cancelled \/ call[c].aborted \/ ~Valid(c))
  <2> DEFINE pc == IF call[c].from = None THEN "push" ELSE "advertise"
             new == [call[c] EXCEPT !.pc = pc, !.at = Round(e), !.send = Refs]
  <2>1. call' = [call EXCEPT ![c] = new]
    BY <1>4 DEF NextTarget
  <2>2. Round(e) \subseteq call[c].todo /\ (plan.grouped => Round(e) = call[c].todo)
      /\ (~plan.grouped => Round(e) = {e})
    BY <1>1, <1>4 DEF Round, CallInv, ToDo
  <2>3. new \in CallType
    BY <1>1, <2>2 DEF CallType, RunningSteps
  <2>4. /\ new.pc = pc /\ new.at = Round(e) /\ new.send = Refs /\ new.todo = call[c].todo
        /\ new.from = call[c].from /\ new.selected = call[c].selected /\ new.state = call[c].state
        /\ new.results = call[c].results /\ new.cancelled = call[c].cancelled
    BY <1>1 DEF CallType
  <2> HIDE DEF new
  <2>5. pc \in {"push", "advertise"} /\ (pc = "advertise" => call[c].from # None) /\ pc \in BatchSteps
    BY DEF BatchSteps
  <2> HIDE DEF pc
  <2> QED BY <1>1, <1>4, <2>1, <2>2, <2>3, <2>4, <2>5, GoesOn
<1> QED BY <1>2, <1>3, <1>4

LEMMA AdvertiseStep ==
  ASSUME IInv, NEW c \in Calls, Advertise(c)
  PROVE  IInv'
<1>1. /\ call[c].pc = "advertise" /\ UNCHANGED <<plan, active, environment, reviewed>> /\ Still
      /\ call[c].pc \in TargetSteps \ {"verify"} /\ call[c].pc \in BatchSteps \ {"settle", "verify"}
      /\ call[c] \in CallType /\ CallInv(c) /\ Land(c, {})
  BY Own, StillLandsNothing DEF Advertise, TargetSteps, BatchSteps, Still
<1>2. PICK e \in call[c].at :
        IF ~EnsureActive(c)
        THEN Throws(c, "Error")
        ELSE IF plan.force /\ Branch \in Missing(e) /\ remote[e][Branch] # plan.lease[e]
        THEN Reports(c, {e}, All({e}, "rejected"), call[c].cancelled)
        ELSE call' = [call EXCEPT ![c].pc = "push", ![c].send = Missing(e)]
  BY DEF Advertise
<1>3. call[c].from # None /\ ~plan.grouped /\ call[c].at \subseteq call[c].todo /\ ~call[c].cancelled
  BY <1>1 DEF CallInv, ToDo, Origin, TargetSteps
<1>4. CASE Throws(c, "Error")
  BY <1>1, <1>4, ThrowsStep
<1>5. CASE Reports(c, {e}, All({e}, "rejected"), call[c].cancelled)
  <2>1. \A d \in {e} :
          /\ All({e}, "rejected")[d] \in Statuses \cup {None}
          /\ All({e}, "rejected")[d] \in Published => {d} \X Refs \subseteq seen
          /\ All({e}, "rejected")[d] = "skipped" /\ d \in call[c].selected => call[c].cancelled
    BY DEF All, Statuses, Published
  <2>2. call[c].cancelled \in BOOLEAN /\ {e} \subseteq call[c].todo
    BY <1>1, <1>3 DEF CallType
  <2> QED BY <1>1, <1>3, <1>5, <2>1, <2>2, ReportedUnsent
<1>6. CASE call' = [call EXCEPT ![c].pc = "push", ![c].send = Missing(e)]
  <2> DEFINE new == [call[c] EXCEPT !.pc = "push", !.send = Missing(e)]
  <2>1. call' = [call EXCEPT ![c] = new]
    BY <1>6
  <2>2. new \in CallType
    BY <1>1 DEF CallType, RunningSteps, Missing
  <2>3. /\ new.pc = "push" /\ new.at = call[c].at /\ new.send = Missing(e) /\ new.todo = call[c].todo
        /\ new.from = call[c].from /\ new.selected = call[c].selected /\ new.state = call[c].state
        /\ new.results = call[c].results /\ new.cancelled = call[c].cancelled
    BY <1>1 DEF CallType
  <2>4. \E d \in Endpoints : call[c].at = {d}
    BY <1>1, <1>3 DEF CallInv, ToDo, TargetSteps
  <2>5. \A d \in call[c].at, r \in Refs \ Missing(e) : <<d, r>> \in seen
    BY <1>1, <2>4, Own DEF Missing, SeenIsKept, CallType
  <2> HIDE DEF new
  <2>6. new.pc \in BatchSteps /\ new.pc \notin {"settle", "verify", "next", "advertise"}
    BY <2>3 DEF BatchSteps
  <2> QED BY <1>1, <1>3, <2>1, <2>2, <2>3, <2>4, <2>5, <2>6, GoesOn
<1> QED BY <1>2, <1>4, <1>5, <1>6

LEMMA PushStep ==
  ASSUME IInv, NEW c \in Calls, Push(c)
  PROVE  IInv'
<1>1. /\ call[c].pc = "push" /\ UNCHANGED <<plan, active, environment, reviewed>> /\ Still
      /\ call[c].pc \in TargetSteps \ {"verify"} /\ call[c].pc \in BatchSteps
      /\ call[c] \in CallType /\ CallInv(c) /\ Land(c, {})
  BY Own, StillLandsNothing DEF Push, TargetSteps, BatchSteps, Still
<1>2. CASE Throws(c, "Error")
  BY <1>1, <1>2, ThrowsStep
<1>3. CASE /\ call[c].send = {}
           /\ Reports(c, call[c].at, All(call[c].at, "up-to-date"), call[c].cancelled)
  <2>1. \A e \in call[c].at : {e} \X Refs \subseteq seen'
    BY <1>1, <1>3 DEF CallInv, Answers, Still
  <2>2. \A e \in call[c].at :
          /\ All(call[c].at, "up-to-date")[e] \in Statuses \cup {None}
          /\ All(call[c].at, "up-to-date")[e] # "skipped"
          /\ All(call[c].at, "up-to-date")[e] \in Published => {e} \X Refs \subseteq seen'
          /\ All(call[c].at, "up-to-date")[e] = "rejected" => landed'[c] \cap ({e} \X Refs) = {}
    BY <2>1 DEF All, Statuses, Published
  <2>3. call[c].cancelled \in BOOLEAN
    BY <1>1 DEF CallType
  <2> QED BY <1>1, <1>3, <2>2, <2>3, ReportedRound
<1>4. CASE call' = [call EXCEPT ![c].pc = "pushing", ![c].lease = [e \in Endpoints |-> LeaseArgument(e)]]
  <2> DEFINE argument == [e \in Endpoints |-> LeaseArgument(e)]
             new == [call[c] EXCEPT !.pc = "pushing", !.lease = argument]
  <2>1. call' = [call EXCEPT ![c] = new]
    BY <1>4
  <2>2. new \in CallType
    <3>1. plan \in Plans
      BY <1>1, Own DEF Running, RunningSteps
    <3>2. argument \in [Endpoints -> Commits \cup {None}]
      BY <3>1 DEF LeaseArgument, Plans
    <3> HIDE DEF argument
    <3> QED BY <1>1, <3>2 DEF CallType, RunningSteps
  <2>3. /\ new.pc = "pushing" /\ new.at = call[c].at /\ new.send = call[c].send /\ new.todo = call[c].todo
        /\ new.from = call[c].from /\ new.selected = call[c].selected /\ new.state = call[c].state
        /\ new.results = call[c].results /\ new.cancelled = call[c].cancelled
    BY <1>1 DEF CallType
  <2> HIDE DEF new
  <2>4. new.pc \in BatchSteps /\ new.pc \notin {"settle", "verify", "next", "advertise"}
    BY <2>3 DEF BatchSteps
  <2>5. /\ new.at \subseteq call[c].todo /\ ~call[c].cancelled
        /\ plan.grouped => new.at = call[c].todo
        /\ ~plan.grouped => \E e \in Endpoints : new.at = {e}
    BY <1>1, <2>3 DEF CallInv, ToDo
  <2>6. \A e \in new.at, r \in Refs \ new.send : <<e, r>> \in seen
    BY <1>1, <2>3 DEF CallInv, Answers
  <2> QED BY <1>1, <2>1, <2>2, <2>3, <2>4, <2>5, <2>6, GoesOn
<1> QED BY <1>2, <1>3, <1>4 DEF Push

LEMMA FailsBeforeStep ==
  ASSUME IInv, NEW c \in Calls, FailsBefore(c)
  PROVE  IInv'
<1>1. /\ UNCHANGED <<plan, active, environment, reviewed>> /\ call[c].pc \in TargetSteps \ {"verify"} /\ Land(c, {})
  BY StillLandsNothing DEF FailsBefore, TargetSteps, Still
<1>2. PICK error : Throws(c, error)
  BY DEF FailsBefore
<1> QED BY <1>1, <1>2, ThrowsStep

-----------------------------------------------------------------------------
\* What pushResult() makes of the status columns.
LEMMA PushResultReads ==
  ASSUME NEW lines, NEW exit
  PROVE  /\ PushResult(lines, exit) \in Statuses \ {"skipped"}
         /\ PushResult(lines, exit) \in Published => "rejected" \notin lines /\ lines # {}
         /\ PushResult(lines, exit) = "rejected" => "success" \notin lines
  BY DEF PushResult, Statuses, Published

\* The answer to a push, its lines lost or complete, agrees with what was set.
LEMMA AnsweredStep ==
  ASSUME IInv, NEW c \in Calls, call[c].pc = "pushing", NEW land \in SUBSET Sent(c), NEW lines, NEW exit,
         Answered(c, land, lines, exit), UNCHANGED <<plan, active, environment, reviewed>>,
         lines = Lines(c, land) \/ (lines = {} /\ exit = 1)
  PROVE  IInv'
<1> DEFINE answer == PushResult(lines, exit)
           new == [call[c] EXCEPT !.pc = "settle", !.answer = answer]
<1>1. TypeOK /\ SeenIsKept /\ CallInv(c) /\ call[c] \in CallType /\ Running(c) /\ active /\ plan \in Plans
  BY Own DEF Running, RunningSteps
<1>2. call' = [call EXCEPT ![c] = new]
  BY DEF Answered
<1>3. answer \in Statuses \ {"skipped"}
  BY PushResultReads
<1>4. new \in CallType
  BY <1>1, <1>3 DEF CallType, RunningSteps
<1>5. call'[c] = new /\ \A d \in Calls \ {c} : call'[d] = call[d]
  BY <1>1, <1>2 DEF TypeOK
<1>6. /\ new.pc = "settle" /\ new.at = call[c].at /\ new.send = call[c].send /\ new.todo = call[c].todo
      /\ new.from = call[c].from /\ new.selected = call[c].selected /\ new.state = call[c].state
      /\ new.results = call[c].results /\ new.cancelled = call[c].cancelled /\ new.answer = answer
  BY <1>1 DEF CallType
<1>7. land \subseteq call[c].at \X call[c].send /\ land \in SUBSET (Endpoints \X Refs)
  BY <1>1 DEF Sent, Acceptable, CallType
<1>8. \A p \in land : remote[p[1]][p[2]] # Captured
  BY DEF Sent, Acceptable
<1>9. /\ TypeOK => /\ remote' \in [Endpoints -> [Refs -> Commits]]
                   /\ context' \in {"reviewed", "changed", "inactive"} /\ policy' \in BOOLEAN
                   /\ seen' \subseteq Endpoints \X Refs
                   /\ landed' \in [Calls -> SUBSET (Endpoints \X Refs)]
      /\ SeenIsKept' /\ seen' = seen \cup land
      /\ \A d \in Calls \ {c} : landed'[d] = landed[d]
      /\ landed'[c] = landed[c] \cup land
  BY <1>7, LandEffect DEF Answered
<1>10. /\ call[c].at \subseteq call[c].todo /\ ~call[c].cancelled
       /\ landed[c] \cap (call[c].todo \X Refs) = {}
       /\ plan.grouped => call[c].at = call[c].todo
       /\ ~plan.grouped => \E e \in Endpoints : call[c].at = {e}
       /\ \A e \in call[c].todo : call[c].results[e] = None
       /\ \A e \in call[c].at, r \in Refs \ call[c].send : <<e, r>> \in seen
  BY <1>1 DEF CallInv, ToDo, Answers, TargetSteps, BatchSteps
<1>11. ASSUME answer \in Published PROVE call[c].at \X Refs \subseteq seen'
  <2>1. lines = Lines(c, land) /\ "rejected" \notin lines
    BY <1>11, PushResultReads
  <2>2. ASSUME NEW e \in call[c].at, NEW r \in call[c].send PROVE <<e, r>> \in seen'
    <3>1. <<e, r>> \in call[c].at \X call[c].send /\ <<e, r>>[1] = e /\ <<e, r>>[2] = r
      OBVIOUS
    <3>2. remote[e][r] = Captured \/ <<e, r>> \in land
      BY <2>1, <3>1 DEF Lines
    <3>3. e \in Endpoints /\ r \in Refs
      BY <1>1 DEF CallType
    <3> QED BY <1>1, <1>9, <3>2, <3>3 DEF SeenIsKept
  <2> QED BY <1>9, <1>10, <2>2
<1>12. ASSUME answer = "rejected" PROVE land = {}
  <2>1. lines = Lines(c, land) /\ "success" \notin lines
    BY <1>12, PushResultReads DEF PushResult
  <2>2. ASSUME NEW p \in land PROVE FALSE
    BY <1>7, <1>8, <2>1, <2>2 DEF Lines
  <2> QED BY <2>2
<1> HIDE DEF new, answer
<1>13. Origin(c)' /\ Begins(c)' /\ Ends(c)'
  BY <1>1, <1>5, <1>6, NoneAssumption DEF CallInv, Origin, Begins, Ends, CallType
<1>14. ToDo(c)'
  <2>1. landed'[c] \cap ((call[c].todo \ call[c].at) \X Refs) = {}
    BY <1>7, <1>9, <1>10
  <2> QED BY <1>5, <1>6, <1>10, <2>1 DEF ToDo, BatchSteps, TargetSteps
<1>15. answer = "rejected" => landed'[c] \cap (call[c].at \X Refs) = {}
  BY <1>9, <1>10, <1>12
<1>16. Answers(c)'
  BY <1>3, <1>5, <1>6, <1>11, <1>15, NoneIsNoStatus DEF Answers
<1>17. Results(c)'
  <2> SUFFICES ASSUME NEW e \in Endpoints, call[c].results[e] # None
               PROVE  landed'[c] \cap ({e} \X Refs) = landed[c] \cap ({e} \X Refs)
    BY <1>1, <1>5, <1>6, <1>9, NoneIsNoStatus DEF CallInv, Results, Published
  <2> QED BY <1>7, <1>9, <1>10
<1>18. Kept(c)
  BY <1>1, <1>5, <1>6, <1>9 DEF Kept
<1>19. TypeOK'
  BY <1>1, <1>2, <1>4, <1>9 DEF TypeOK
<1>20. Running(c)'
  BY <1>5, <1>6 DEF Running, RunningSteps
<1> QED BY <1>1, <1>9, <1>13, <1>14, <1>16, <1>17, <1>18, <1>19, <1>20, CallStep DEF CallInv

LEMMA PushedStep ==
  ASSUME IInv, NEW c \in Calls, Pushed(c)
  PROVE  IInv'
<1>1. /\ call[c].pc = "pushing" /\ UNCHANGED <<plan, active, environment, reviewed>>
      /\ call[c].pc \in TargetSteps \ {"verify"}
  BY DEF Pushed, TargetSteps
<1>2. Sent(c) \subseteq call[c].at \X Refs
  BY Own DEF Sent, Acceptable, CallType
<1>3. CASE \E land \in SUBSET Sent(c) :
             \/ \E exit \in {0, 1} : Answered(c, land, Lines(c, land), exit)
             \/ Answered(c, land, {}, 1)
  BY <1>1, <1>3, AnsweredStep
<1>4. CASE \E land \in SUBSET Sent(c) : Land(c, land) /\ Throws(c, "AbortError")
  BY <1>1, <1>2, <1>4, ThrowsStep
<1> QED BY <1>3, <1>4 DEF Pushed

LEMMA SettleStep ==
  ASSUME IInv, NEW c \in Calls, Settle(c)
  PROVE  IInv'
<1>1. /\ call[c].pc = "settle" /\ UNCHANGED <<plan, active, environment, reviewed>> /\ Still
      /\ call[c].pc \in TargetSteps \ {"verify"} /\ call[c].pc \in BatchSteps
      /\ call[c] \in CallType /\ CallInv(c) /\ Land(c, {})
  BY Own, StillLandsNothing DEF Settle, TargetSteps, BatchSteps, Still
<1>2. CASE Throws(c, "Error")
  BY <1>1, <1>2, ThrowsStep
<1>3. CASE Reports(c, call[c].at, All(call[c].at, call[c].answer), call[c].cancelled)
  <2>1. /\ call[c].answer \in Statuses \ {"skipped"}
        /\ call[c].answer \in Published => call[c].at \X Refs \subseteq seen'
        /\ call[c].answer = "rejected" => landed'[c] \cap (call[c].at \X Refs) = {}
    BY <1>1 DEF CallInv, Answers, CallType, Still
  <2>2. \A e \in call[c].at :
          /\ All(call[c].at, call[c].answer)[e] \in Statuses \cup {None}
          /\ All(call[c].at, call[c].answer)[e] # "skipped"
          /\ All(call[c].at, call[c].answer)[e] \in Published => {e} \X Refs \subseteq seen'
          /\ All(call[c].at, call[c].answer)[e] = "rejected" => landed'[c] \cap ({e} \X Refs) = {}
    BY <2>1 DEF All
  <2>3. call[c].cancelled \in BOOLEAN
    BY <1>1 DEF CallType
  <2> QED BY <1>1, <1>3, <2>2, <2>3, ReportedRound
<1>4. CASE plan.grouped /\ call' = [call EXCEPT ![c].pc = "verify"]
  <2> DEFINE new == [call[c] EXCEPT !.pc = "verify"]
  <2>1. call' = [call EXCEPT ![c] = new]
    BY <1>4
  <2>2. new \in CallType
    BY <1>1 DEF CallType, RunningSteps
  <2>3. /\ new.pc = "verify" /\ new.at = call[c].at /\ new.send = call[c].send /\ new.todo = call[c].todo
        /\ new.from = call[c].from /\ new.selected = call[c].selected /\ new.state = call[c].state
        /\ new.results = call[c].results /\ new.cancelled = call[c].cancelled /\ new.answer = call[c].answer
    BY <1>1 DEF CallType
  <2> HIDE DEF new
  <2>4. new.pc \in BatchSteps
    BY <2>3 DEF BatchSteps
  <2>5. /\ new.at \subseteq call[c].todo /\ ~call[c].cancelled
        /\ plan.grouped => new.at = call[c].todo
        /\ ~plan.grouped => \E e \in Endpoints : new.at = {e}
    BY <1>1, <2>3 DEF CallInv, ToDo
  <2>6. new.answer # None
    BY <1>1, <2>3 DEF CallInv, Answers
  <2> QED BY <1>1, <1>4, <2>1, <2>2, <2>3, <2>4, <2>5, <2>6, GoesOn
<1> QED BY <1>2, <1>3, <1>4 DEF Settle

LEMMA VerifyGroupStep ==
  ASSUME IInv, NEW c \in Calls, NEW e \in Endpoints, VerifyGroup(c, e)
  PROVE  IInv'
<1>1. /\ call[c].pc = "verify" /\ e \in call[c].at /\ UNCHANGED active
      /\ UNCHANGED <<remote, plan, environment, reviewed, seen, landed>>
      /\ TypeOK /\ SeenIsKept /\ CallInv(c) /\ call[c] \in CallType
      /\ Running(c) /\ call[c].state = None /\ active /\ plan \in Plans
  BY Own DEF VerifyGroup, Still, Running, RunningSteps
<1>2. PICK status \in {GroupStatus(c, e), "unknown"} :
        call' = [call EXCEPT ![c].at = @ \ {e}, ![c].todo = @ \ {e}, ![c].results[e] = status,
                             ![c].pc = IF call[c].at = {e} THEN "next" ELSE "verify"]
  BY DEF VerifyGroup
<1>3. status \in Statuses \ {"rejected", "skipped"} /\ (status \in Published => {e} \X Refs \subseteq seen)
  BY <1>1 DEF GroupStatus, Confirmed, Missing, Statuses, Published, SeenIsKept
<1> DEFINE pc == IF call[c].at = {e} THEN "next" ELSE "verify"
           new == [call[c] EXCEPT !.at = @ \ {e}, !.todo = @ \ {e}, !.results[e] = status, !.pc = pc]
<1>4. call' = [call EXCEPT ![c] = new]
  BY <1>2
<1>5. [call[c].results EXCEPT ![e] = status] \in [Endpoints -> Statuses \cup {None}]
  BY <1>1, <1>3 DEF CallType
<1>6. /\ new \in CallType
      /\ new.pc = pc /\ new.at = call[c].at \ {e} /\ new.todo = call[c].todo \ {e}
      /\ new.from = call[c].from /\ new.selected = call[c].selected /\ new.state = call[c].state
      /\ new.results = [call[c].results EXCEPT ![e] = status]
      /\ new.cancelled = call[c].cancelled /\ new.answer = call[c].answer
  BY <1>1, <1>5 DEF CallType, RunningSteps
<1>7. call'[c] = new /\ \A d \in Calls \ {c} : call'[d] = call[d]
  BY <1>1, <1>4 DEF TypeOK
<1>8. call[c].results \in [Endpoints -> Statuses \cup {None}]
  BY <1>1 DEF CallType
<1> HIDE DEF new
<1>9. /\ pc \in {"next", "verify"} /\ (pc = "next" => call[c].at = {e})
      /\ plan.grouped /\ call[c].at = call[c].todo /\ ~call[c].cancelled /\ call[c].answer # None
  BY <1>1 DEF CallInv, ToDo, Answers, TargetSteps
<1> HIDE DEF pc
<1>10. Origin(c)' /\ Begins(c)' /\ Ends(c)'
  BY <1>1, <1>6, <1>7, <1>9 DEF CallInv, Origin, Begins, Ends, CallType
<1>11. ToDo(c)'
  <2>1. /\ call'[c].todo = call'[c].at /\ (call'[c].pc = "next" => call'[c].todo = {})
        /\ call'[c].pc \in {"next", "verify"} /\ ~call'[c].cancelled /\ plan'.grouped
    BY <1>1, <1>6, <1>7, <1>9
  <2>2. \A d \in call'[c].todo : call'[c].results[d] = None
    <3>1. \A d \in call[c].todo : call[c].results[d] = None
      BY <1>1 DEF CallInv, ToDo, BatchSteps
    <3> QED BY <1>6, <1>7, <1>8, <3>1, <1>1 DEF CallType
  <2> QED BY <2>1, <2>2 DEF ToDo, BatchSteps, TargetSteps
<1>12. Answers(c)'
  BY <1>6, <1>7, <1>9 DEF Answers
<1>13. Results(c)'
  <2> SUFFICES ASSUME NEW d \in Endpoints
               PROVE  LET result == call'[c].results[d] IN
                 /\ result \in Published => {d} \X Refs \subseteq seen
                 /\ result \in {"rejected", "skipped"} /\ d \in call[c].selected => landed[c] \cap ({d} \X Refs) = {}
                 /\ result = "skipped" /\ d \in call[c].selected => call[c].cancelled
    BY <1>1, <1>6, <1>7, <1>9 DEF Results
  <2>1. CASE d = e
    BY <1>3, <1>6, <1>7, <1>8, <2>1
  <2>2. CASE d # e
    BY <1>1, <1>6, <1>7, <1>8, <2>2 DEF CallInv, Results
  <2> QED BY <2>1, <2>2
<1>14. new.pc \in RunningSteps
  BY <1>6, <1>9 DEF RunningSteps
<1> QED BY <1>1, <1>4, <1>6, <1>10, <1>11, <1>12, <1>13, <1>14, LocalStep DEF CallInv, TypeOK

LEMMA FinishStep ==
  ASSUME IInv, NEW c \in Calls, Finish(c)
  PROVE  IInv'
<1> DEFINE new == [call[c] EXCEPT !.pc = "ended", !.state = BatchState(c), !.approved = None,
                                  !.aborted = FALSE, !.cancelled = FALSE]
<1>1. /\ call[c].pc = "next" /\ ~active' /\ active' \in BOOLEAN
      /\ UNCHANGED <<remote, plan, environment, reviewed, seen, landed>>
      /\ TypeOK /\ CallInv(c) /\ call[c] \in CallType
      /\ Running(c) /\ call[c].state = None /\ plan \in Plans
  BY Own DEF Finish, Still, Running, RunningSteps
<1>2. call' = [call EXCEPT ![c] = new]
  BY DEF Finish
<1>3. BatchState(c) \in BatchStates /\ BatchState(c) # None
  BY NoneAssumption DEF BatchState, BatchStates
<1>4. new \in CallType
  BY <1>1, <1>3 DEF CallType
<1>5. /\ new.pc = "ended" /\ new.state = BatchState(c) /\ new.from = call[c].from
      /\ new.selected = call[c].selected /\ new.results = call[c].results
  BY <1>1 DEF CallType
<1>6. call'[c] = new /\ \A d \in Calls \ {c} : call'[d] = call[d]
  BY <1>1, <1>2 DEF TypeOK
<1> HIDE DEF new
<1>7. Origin(c)' /\ Begins(c)' /\ Ends(c)'
  BY <1>1, <1>3, <1>5, <1>6 DEF CallInv, Origin, Begins, Ends, CallType
<1>8. ToDo(c)' /\ Answers(c)'
  BY <1>5, <1>6 DEF ToDo, Answers, BatchSteps, TargetSteps
<1>9. call[c].cancelled => BatchState(c) = "cancelled"
  BY DEF BatchState
<1>10. Results(c)'
  BY <1>1, <1>5, <1>6, <1>9 DEF CallInv, Results
<1> QED BY <1>1, <1>2, <1>4, <1>5, <1>7, <1>8, <1>10, LocalStep DEF CallInv, RunningSteps

LEMMA CancelStep ==
  ASSUME IInv, NEW c \in Calls, Cancel(c)
  PROVE  IInv'
<1> DEFINE new == [call[c] EXCEPT !.aborted = TRUE]
<1>1. /\ UNCHANGED <<remote, plan, active, environment, reviewed, seen, landed>>
      /\ TypeOK /\ CallInv(c) /\ call[c] \in CallType
      /\ Running(c) /\ call[c].state = None /\ active /\ plan \in Plans
  BY Own DEF Cancel, Still
<1>2. call' = [call EXCEPT ![c] = new]
  BY DEF Cancel
<1>3. new \in CallType
  BY <1>1 DEF CallType
<1>4. /\ new.pc = call[c].pc /\ new.state = call[c].state /\ new.from = call[c].from
      /\ new.selected = call[c].selected /\ new.results = call[c].results
      /\ new.cancelled = call[c].cancelled /\ new.todo = call[c].todo /\ new.at = call[c].at
      /\ new.send = call[c].send /\ new.answer = call[c].answer
  BY <1>1 DEF CallType
<1>5. call'[c] = new /\ \A d \in Calls \ {c} : call'[d] = call[d]
  BY <1>1, <1>2 DEF TypeOK
<1> HIDE DEF new
<1>6. call[c].pc # "idle" /\ call[c].pc # "ended"
  BY <1>1 DEF Running, RunningSteps
<1>7. Origin(c)' /\ Begins(c)' /\ Ends(c)'
  BY <1>1, <1>4, <1>5, <1>6 DEF CallInv, Origin, Begins, Ends, CallType
<1>8. ToDo(c)'
  BY <1>1, <1>4, <1>5 DEF CallInv, ToDo
<1>9. Answers(c)' /\ Results(c)'
  BY <1>1, <1>4, <1>5 DEF CallInv, Answers, Results
<1> QED BY <1>1, <1>2, <1>3, <1>4, <1>7, <1>8, <1>9, LocalStep DEF CallInv, Running, TypeOK

-----------------------------------------------------------------------------
LEMMA InitInv == Init => IInv
<1> SUFFICES ASSUME Init PROVE IInv
  OBVIOUS
<1>1. \A c \in Calls : call[c] = Idle /\ landed[c] = {}
  BY DEF Init
<1>2. TypeOK
  BY IdleIsFresh DEF Init, TypeOK, Commits
<1>3. OneRun
  BY <1>1, IdleIsFresh DEF Init, OneRun, Running, RunningSteps
<1>4. SeenIsKept
  BY DEF Init, SeenIsKept, Captured
<1>5. ASSUME NEW c \in Calls PROVE CallInv(c)
  <2>1. Results(c)
    BY <1>1, IdleIsFresh, Fresh
  <2> QED BY <1>1, <2>1, IdleIsFresh DEF CallInv, Begins, Origin, Ends, ToDo, Answers, BatchSteps, TargetSteps
<1> QED BY <1>2, <1>3, <1>4, <1>5 DEF IInv

LEMMA NextInv == IInv /\ [Next]_vars => IInv'
<1> SUFFICES ASSUME IInv, [Next]_vars PROVE IInv'
  OBVIOUS
<1>1. ASSUME NEW force \in BOOLEAN, NEW grouped \in BOOLEAN, PlanPush(force, grouped) PROVE IInv'
  BY <1>1, PlanPushStep
<1>2. ASSUME NEW c \in Calls, ExecutePush(c) PROVE IInv'
  BY <1>2, ExecutePushStep
<1>3. ASSUME NEW c \in Calls, NEW from \in Calls, NEW targets \in SUBSET Endpoints, RetryPush(c, from, targets)
      PROVE  IInv'
  BY <1>3, RetryPushStep
<1>4. ASSUME NEW c \in Calls, Authorize(c) \/ Revalidate(c) PROVE IInv'
  BY <1>4, AuthorizeStep, RevalidateStep
<1>5. ASSUME NEW c \in Calls, NEW e \in Endpoints, NextTarget(c, e) \/ VerifyGroup(c, e) PROVE IInv'
  BY <1>5, NextTargetStep, VerifyGroupStep
<1>6. ASSUME NEW c \in Calls, Advertise(c) \/ Push(c) \/ FailsBefore(c) PROVE IInv'
  BY <1>6, AdvertiseStep, PushStep, FailsBeforeStep
<1>7. ASSUME NEW c \in Calls, Pushed(c) \/ Settle(c) \/ Finish(c) \/ Cancel(c) PROVE IInv'
  BY <1>7, PushedStep, SettleStep, FinishStep, CancelStep
<1>8. ASSUME NEW e \in Endpoints, NEW r \in Refs, NEW commit \in Commits, OtherPushes(e, r, commit) PROVE IInv'
  BY <1>8, OthersStep
<1>9. ASSUME PolicyChanges \/ \E new \in {"reviewed", "changed", "inactive"} : ContextChanges(new) PROVE IInv'
  BY <1>9, ChangeStep
<1>10. CASE UNCHANGED vars
  <2>1. UNCHANGED <<remote, plan, active, context, policy, call, reviewed, seen, landed>>
    BY <1>10 DEF vars, environment
  <2>2. TypeOK' /\ SeenIsKept'
    BY <2>1, TypeUnchanged DEF IInv, SeenIsKept
  <2> QED BY <2>1, <2>2, OutsideStep
<1> QED BY <1>1, <1>2, <1>3, <1>4, <1>5, <1>6, <1>7, <1>8, <1>9, <1>10 DEF Next

LEMMA Inductive == Spec => []IInv
  BY InitInv, NextInv, PTL DEF Spec

\* Every variable keeps its type.
THEOREM TransferTypeCorrect == Spec => []TypeOK
<1>1. IInv => TypeOK
  BY DEF IInv
<1> QED BY <1>1, Inductive, PTL

\* executePush() and retryPush() of one plan never overlap, and the entry in
\* activePlans is there exactly while one of them runs.
THEOREM RunsDoNotOverlap == Spec => []OneRun
<1>1. IInv => OneRun
  BY DEF IInv
<1> QED BY <1>1, Inductive, PTL

\* What a result of executePush() or retryPush() says of an endpoint is true.
THEOREM ResultsAreTrue == Spec => []ResultIsTrue
<1>1. IInv => ResultIsTrue
  <2> SUFFICES ASSUME IInv, NEW c \in Calls PROVE
        \A e \in Endpoints :
          LET status == call[c].results[e] IN
          /\ status \in Published => {e} \X Refs \subseteq seen
          /\ status \in {"rejected", "skipped"} /\ e \in call[c].selected => landed[c] \cap ({e} \X Refs) = {}
          /\ status = "skipped" /\ e \in call[c].selected => call[c].state \in {None, "cancelled"}
    BY DEF ResultIsTrue
  <2>1. Results(c) /\ Ends(c) /\ call[c] \in CallType
    BY Own DEF CallInv
  <2> QED BY <2>1 DEF Results, Ends
<1> QED BY <1>1, Inductive, PTL

-----------------------------------------------------------------------------
\* Only a push and others change the endpoints, and only others are counted.
LEMMA WhoSetsReferences ==
  ASSUME [Next]_vars
  PROVE  \/ UNCHANGED <<remote, foreign>>
         \/ UNCHANGED foreign /\ \E c \in Calls : Pushed(c)
         \/ foreign' = foreign + 1
<1>1. CASE \E force, grouped \in BOOLEAN : PlanPush(force, grouped)
  BY <1>1 DEF PlanPush, bounds
<1>2. CASE \E c \in Calls : ExecutePush(c) \/ Authorize(c) \/ Cancel(c) \/ Finish(c)
  BY <1>2 DEF ExecutePush, Authorize, Cancel, Finish, Still
<1>3. CASE \E c, from \in Calls, targets \in SUBSET Endpoints : RetryPush(c, from, targets)
  BY <1>3 DEF RetryPush, Still
<1>4. CASE \E c \in Calls : Revalidate(c)
  BY <1>4 DEF Revalidate
<1>5. CASE \E c \in Calls, e \in Endpoints : NextTarget(c, e) \/ VerifyGroup(c, e)
  <2>1. Still
    <3>1. ASSUME NEW c \in Calls, NEW e \in Endpoints, NextTarget(c, e) PROVE Still
      BY <3>1 DEF NextTarget
    <3>2. ASSUME NEW c \in Calls, NEW e \in Endpoints, VerifyGroup(c, e) PROVE Still
      BY <3>2 DEF VerifyGroup
    <3> QED BY <1>5, <3>1, <3>2
  <2> QED BY <2>1 DEF Still
<1>6. CASE \E c \in Calls : Advertise(c) \/ Push(c) \/ FailsBefore(c) \/ Settle(c)
  BY <1>6 DEF Advertise, Push, FailsBefore, Settle, Still
<1>7. CASE \E c \in Calls : Pushed(c)
  BY <1>7 DEF Pushed
<1>8. CASE \E e \in Endpoints, r \in Refs, commit \in Commits : OtherPushes(e, r, commit)
  BY <1>8 DEF OtherPushes
<1>9. CASE PolicyChanges \/ \E new \in {"reviewed", "changed", "inactive"} : ContextChanges(new)
  BY <1>9 DEF PolicyChanges, ContextChanges, Changes
<1>10. CASE UNCHANGED vars
  BY <1>10 DEF vars, bounds
<1> QED BY <1>1, <1>2, <1>3, <1>4, <1>5, <1>6, <1>7, <1>8, <1>9, <1>10 DEF Next

LEMMA ForeignIsCounted == Spec => [](foreign \in Nat)
<1>1. Init => foreign \in Nat
  BY DEF Init
<1>2. foreign \in Nat /\ [Next]_vars => (foreign \in Nat)'
  <2> SUFFICES ASSUME foreign \in Nat, [Next]_vars PROVE foreign' \in Nat
    OBVIOUS
  <2>1. UNCHANGED foreign \/ foreign' = foreign + 1
    BY WhoSetsReferences
  <2> QED BY <2>1
<1> QED BY <1>1, <1>2, PTL DEF Spec

-----------------------------------------------------------------------------
\* A forced plan keeps the commits that were reviewed, and a push that is under
\* way was given them: the argument was built steps before the push arrives.
LeaseInv ==
  /\ plan # None /\ plan.force => \A e \in Endpoints : plan.lease[e] = reviewed[e]
  /\ \A c \in Calls : call[c].pc = "pushing" =>
       /\ plan # None
       /\ \A e \in Endpoints : call[c].lease[e] = IF plan.force THEN plan.lease[e] ELSE None

\* A step that changes neither the plan nor the arguments of a push under way.
LEMMA LeaseStays ==
  ASSUME LeaseInv, UNCHANGED reviewed,
         plan # None => plan' # None /\ plan'.force = plan.force /\ plan'.lease = plan.lease,
         plan = None => plan' = None,
         \A d \in Calls : call'[d].pc = "pushing" => call[d].pc = "pushing" /\ call'[d].lease = call[d].lease
  PROVE  LeaseInv'
  BY DEF LeaseInv

\* A step of a call that does not lead to a push.
LEMMA LeaseOfOthers ==
  ASSUME IInv, LeaseInv, NEW c \in Calls, UNCHANGED <<plan, reviewed>>,
         \A d \in Calls \ {c} : call'[d] = call[d], call'[c].pc # "pushing" \/ call'[c] = call[c]
  PROVE  LeaseInv'
  BY LeaseStays

LEMMA ReportsIsNoPush ==
  ASSUME IInv, NEW c \in Calls, NEW E, NEW status, NEW cancel, Reports(c, E, status, cancel)
  PROVE  call'[c].pc = "next" /\ \A d \in Calls \ {c} : call'[d] = call[d]
  BY Own DEF Reports, TypeOK, CallType

LEMMA ThrowsIsNoPush ==
  ASSUME IInv, NEW c \in Calls, NEW error, Throws(c, error)
  PROVE  call'[c].pc = "next" /\ \A d \in Calls \ {c} : call'[d] = call[d]
  BY ReportsIsNoPush DEF Throws

LEMMA LeaveIsNoPush ==
  ASSUME IInv, NEW c \in Calls, Leave(c)
  PROVE  call'[c].pc = "idle" /\ \A d \in Calls \ {c} : call'[d] = call[d]
  BY Own DEF Leave, TypeOK, Idle

LEMMA LeaseOfPush ==
  ASSUME IInv, LeaseInv, NEW c \in Calls, Push(c)
  PROVE  LeaseInv'
<1>1. UNCHANGED <<plan, reviewed>> /\ TypeOK /\ call[c] \in CallType /\ call[c].pc = "push"
  BY Own DEF Push, Still
<1>2. plan # None
  BY <1>1, Own, NoneAssumption DEF Running, RunningSteps
<1>3. CASE call' = [call EXCEPT ![c].pc = "pushing", ![c].lease = [e \in Endpoints |-> LeaseArgument(e)]]
  <2>1. \A d \in Calls \ {c} : call'[d] = call[d]
    BY <1>1, <1>3 DEF TypeOK
  <2>2. call'[c].lease = [e \in Endpoints |-> LeaseArgument(e)]
    BY <1>1, <1>3 DEF TypeOK, CallType
  <2>3. \A e \in Endpoints : call'[c].lease[e] = IF plan.force THEN plan.lease[e] ELSE None
    BY <2>2 DEF LeaseArgument
  <2> QED BY <1>1, <1>2, <2>1, <2>3 DEF LeaseInv
<1>4. CASE Throws(c, "Error")
  BY <1>1, <1>4, ThrowsIsNoPush, LeaseOfOthers
<1>5. CASE Reports(c, call[c].at, All(call[c].at, "up-to-date"), call[c].cancelled)
  BY <1>1, <1>5, ReportsIsNoPush, LeaseOfOthers
<1> QED BY <1>3, <1>4, <1>5 DEF Push

LEMMA LeaseOfPlan ==
  ASSUME IInv, LeaseInv, NEW force \in BOOLEAN, NEW grouped \in BOOLEAN, PlanPush(force, grouped)
  PROVE  LeaseInv'
<1>1. /\ plan = None /\ UNCHANGED call
      /\ reviewed' = [e \in Endpoints |-> remote[e][Branch]]
      /\ plan'.force = force
      /\ plan'.lease = [e \in Endpoints |-> IF force THEN remote[e][Branch] ELSE "none"]
  BY DEF PlanPush
<1>2. \A c \in Calls : call'[c].pc # "pushing"
  BY <1>1 DEF LeaseInv
<1>3. plan'.force => \A e \in Endpoints : plan'.lease[e] = reviewed'[e]
  BY <1>1
<1> QED BY <1>2, <1>3 DEF LeaseInv

LEMMA LeaseOfRevalidate ==
  ASSUME IInv, LeaseInv, NEW c \in Calls, Revalidate(c)
  PROVE  LeaseInv'
<1>1. UNCHANGED reviewed /\ call[c].pc = "revalidate" /\ TypeOK /\ call[c] \in CallType
  BY Own DEF Revalidate
<1>2. plan \in Plans /\ plan # None
  BY <1>1, Own, NoneAssumption DEF Running, RunningSteps
<1>3. plan' \in {plan, [plan EXCEPT !.executed = TRUE]}
  BY DEF Revalidate
<1>4. plan' # None /\ plan'.force = plan.force /\ plan'.lease = plan.lease
  <2>1. plan' \in Plans
    BY <1>2, <1>3 DEF Plans
  <2>2. plan'.force = plan.force /\ plan'.lease = plan.lease
    BY <1>2, <1>3 DEF Plans
  <2> QED BY <2>1, <2>2, NoneAssumption
<1>5. call'[c].pc # "pushing" /\ \A d \in Calls \ {c} : call'[d] = call[d]
  <2>1. CASE Leave(c)
    BY <2>1, LeaveIsNoPush
  <2>2. CASE call' = [call EXCEPT ![c].pc = "next", ![c].todo = Endpoints]
    BY <1>1, <2>2 DEF TypeOK, CallType
  <2> QED BY <2>1, <2>2 DEF Revalidate
<1> QED BY <1>1, <1>2, <1>4, <1>5, LeaseStays

LEMMA LeaseOfCall ==
  ASSUME IInv, LeaseInv, NEW c \in Calls,
         \/ ExecutePush(c) \/ Authorize(c) \/ Advertise(c) \/ FailsBefore(c) \/ Settle(c)
         \/ Finish(c) \/ Cancel(c) \/ Pushed(c)
         \/ \E from \in Calls, targets \in SUBSET Endpoints : RetryPush(c, from, targets)
         \/ \E e \in Endpoints : NextTarget(c, e) \/ VerifyGroup(c, e)
  PROVE  LeaseInv'
<1>1. TypeOK /\ call[c] \in CallType
  BY Own
<1>2. CASE Cancel(c)
  <2>1. UNCHANGED <<plan, reviewed>>
    BY <1>2 DEF Cancel, Still
  <2>2. \A d \in Calls : call'[d].pc = call[d].pc /\ call'[d].lease = call[d].lease
    BY <1>1, <1>2 DEF Cancel, TypeOK, CallType
  <2> QED BY <2>1, <2>2, LeaseStays
<1>3. ASSUME ~Cancel(c)
      PROVE  /\ UNCHANGED <<plan, reviewed>> /\ call'[c].pc # "pushing"
             /\ \A d \in Calls \ {c} : call'[d] = call[d]
  <2>1. CASE ExecutePush(c)
    BY <1>1, <2>1 DEF ExecutePush, Still, TypeOK, CallType
  <2>2. CASE Authorize(c)
    <3>1. UNCHANGED <<plan, reviewed>>
      BY <2>2 DEF Authorize, Still
    <3>2. CASE Leave(c)
      BY <3>1, <3>2, LeaveIsNoPush
    <3>3. CASE call' = [call EXCEPT ![c].pc = "revalidate", ![c].approved = policy]
      BY <1>1, <3>1, <3>3 DEF TypeOK, CallType
    <3> QED BY <2>2, <3>2, <3>3 DEF Authorize
  <2>3. CASE Advertise(c)
    <3>1. UNCHANGED <<plan, reviewed>>
      BY <2>3 DEF Advertise, Still
    <3>2. PICK e \in call[c].at :
             \/ Throws(c, "Error")
             \/ Reports(c, {e}, All({e}, "rejected"), call[c].cancelled)
             \/ call' = [call EXCEPT ![c].pc = "push", ![c].send = Missing(e)]
      BY <2>3 DEF Advertise
    <3>3. CASE call' = [call EXCEPT ![c].pc = "push", ![c].send = Missing(e)]
      BY <1>1, <3>1, <3>3 DEF TypeOK, CallType
    <3> QED BY <3>1, <3>2, <3>3, ThrowsIsNoPush, ReportsIsNoPush
  <2>4. CASE FailsBefore(c)
    BY <2>4, ThrowsIsNoPush DEF FailsBefore, Still
  <2>5. CASE Settle(c)
    <3>1. UNCHANGED <<plan, reviewed>>
      BY <2>5 DEF Settle, Still
    <3>2. CASE call' = [call EXCEPT ![c].pc = "verify"]
      BY <1>1, <3>1, <3>2 DEF TypeOK, CallType
    <3> QED BY <2>5, <3>1, <3>2, ThrowsIsNoPush, ReportsIsNoPush DEF Settle
  <2>6. CASE Finish(c)
    BY <1>1, <2>6 DEF Finish, Still, TypeOK, CallType
  <2>7. CASE Pushed(c)
    <3>1. UNCHANGED <<plan, reviewed>>
      BY <2>7 DEF Pushed
    <3>2. CASE \E land, lines, exit : Answered(c, land, lines, exit)
      <4>1. PICK answer : call' = [call EXCEPT ![c].pc = "settle", ![c].answer = answer]
        BY <3>2 DEF Answered
      <4> QED BY <1>1, <3>1, <4>1 DEF TypeOK, CallType
    <3>3. (\E land, lines, exit : Answered(c, land, lines, exit)) \/ Throws(c, "AbortError")
      BY <2>7 DEF Pushed
    <3> QED BY <3>1, <3>2, <3>3, ThrowsIsNoPush
  <2>8. ASSUME NEW from \in Calls, NEW targets \in SUBSET Endpoints, RetryPush(c, from, targets)
        PROVE  /\ UNCHANGED <<plan, reviewed>> /\ call'[c].pc # "pushing"
               /\ \A d \in Calls \ {c} : call'[d] = call[d]
    <3>1. UNCHANGED <<plan, reviewed>>
      BY <2>8 DEF RetryPush, Still
    <3>2. PICK selected : call' = [call EXCEPT ![c].pc = "authorize", ![c].from = from, ![c].selected = selected]
      BY <2>8 DEF RetryPush
    <3> QED BY <1>1, <3>1, <3>2 DEF TypeOK, CallType
  <2>9. ASSUME NEW e \in Endpoints, NextTarget(c, e)
        PROVE  /\ UNCHANGED <<plan, reviewed>> /\ call'[c].pc # "pushing"
               /\ \A d \in Calls \ {c} : call'[d] = call[d]
    <3>1. UNCHANGED <<plan, reviewed>>
      BY <2>9 DEF NextTarget, Still
    <3>2. \/ \E E, status, cancel : Reports(c, E, status, cancel)
          \/ \E step \in {"push", "advertise"} :
               call' = [call EXCEPT ![c].pc = step, ![c].at = Round(e), ![c].send = Refs]
      BY <2>9 DEF NextTarget
    <3>3. ASSUME NEW step \in {"push", "advertise"},
                 call' = [call EXCEPT ![c].pc = step, ![c].at = Round(e), ![c].send = Refs]
          PROVE  call'[c].pc # "pushing" /\ \A d \in Calls \ {c} : call'[d] = call[d]
      BY <1>1, <3>3 DEF TypeOK, CallType
    <3> QED BY <3>1, <3>2, <3>3, ReportsIsNoPush
  <2>10. ASSUME NEW e \in Endpoints, VerifyGroup(c, e)
         PROVE  /\ UNCHANGED <<plan, reviewed>> /\ call'[c].pc # "pushing"
                /\ \A d \in Calls \ {c} : call'[d] = call[d]
    <3>1. UNCHANGED <<plan, reviewed>>
      BY <2>10 DEF VerifyGroup, Still
    <3> DEFINE step == IF call[c].at = {e} THEN "next" ELSE "verify"
    <3>2. PICK status :
             call' = [call EXCEPT ![c].at = @ \ {e}, ![c].todo = @ \ {e}, ![c].results[e] = status, ![c].pc = step]
      BY <2>10 DEF VerifyGroup
    <3> QED BY <1>1, <3>1, <3>2 DEF TypeOK, CallType
  <2> QED BY <1>3, <2>1, <2>2, <2>3, <2>4, <2>5, <2>6, <2>7, <2>8, <2>9, <2>10
<1> QED BY <1>2, <1>3, LeaseOfOthers

LEMMA LeaseNext == IInv /\ LeaseInv /\ [Next]_vars => LeaseInv'
<1> SUFFICES ASSUME IInv, LeaseInv, [Next]_vars PROVE LeaseInv'
  OBVIOUS
<1>1. CASE \E force, grouped \in BOOLEAN : PlanPush(force, grouped)
  BY <1>1, LeaseOfPlan
<1>2. CASE \E c \in Calls : Push(c)
  BY <1>2, LeaseOfPush
<1>3. CASE \E c \in Calls : Revalidate(c)
  BY <1>3, LeaseOfRevalidate
<1>4. CASE UNCHANGED <<plan, call, reviewed>>
  BY <1>4, LeaseStays
<1>5. CASE \E e \in Endpoints, r \in Refs, commit \in Commits : OtherPushes(e, r, commit)
  BY <1>4, <1>5 DEF OtherPushes
<1>6. CASE PolicyChanges \/ \E new \in {"reviewed", "changed", "inactive"} : ContextChanges(new)
  BY <1>4, <1>6 DEF PolicyChanges, ContextChanges, Changes
<1>7. CASE UNCHANGED vars
  BY <1>4, <1>7 DEF vars
<1> QED BY <1>1, <1>2, <1>3, <1>5, <1>6, <1>7, LeaseOfCall DEF Next

LEMMA LeaseIsReviewed == Spec => []LeaseInv
<1>1. Init => LeaseInv
  <2>1. Idle.pc # "pushing"
    BY IdleIsFresh
  <2> QED BY <2>1 DEF Init, LeaseInv
<1> QED BY <1>1, Inductive, LeaseNext, PTL DEF Spec

\* Only what was reviewed is replaced, by a first execution or a retry, whatever
\* others push in between: what git push sets was missing, an ancestor, or the
\* commit the branch of the endpoint held when the plan was made.
THEOREM NothingUnreviewedIsReplaced == Spec => ForeignIsKept
<1> DEFINE Reviewed ==
      \A e \in Endpoints, r \in Refs : remote'[e][r] # remote[e][r] =>
        \/ remote[e][r] = "none"
        \/ r = Branch /\ ~plan.force /\ remote[e][r] = "old"
        \/ r = Branch /\ plan.force /\ remote[e][r] = reviewed[e]
<1>1. ASSUME IInv, LeaseInv, NEW c \in Calls, Pushed(c) PROVE Reviewed
  <2>1. PICK land \in SUBSET Sent(c) : Land(c, land)
    BY <1>1 DEF Pushed, Answered
  <2>2. /\ plan \in Plans /\ plan # None
        /\ \A e \in Endpoints : call[c].lease[e] = IF plan.force THEN reviewed[e] ELSE None
    <3>1. call[c].pc = "pushing"
      BY <1>1 DEF Pushed
    <3>2. plan \in Plans
      BY <1>1, <3>1, Own DEF Running, RunningSteps
    <3> QED BY <1>1, <3>1, <3>2 DEF LeaseInv
  <2>3. \A e \in Endpoints : reviewed[e] # None
    BY <1>1, NoneAssumption DEF IInv, TypeOK
  <2>4. ASSUME NEW e \in Endpoints, NEW r \in Refs, remote'[e][r] # remote[e][r]
        PROVE  Accepts(c, e, r)
    <3>1. <<e, r>> \in land
      BY <2>1, <2>4 DEF Land
    <3> QED BY <3>1 DEF Sent, Acceptable
  <2>5. ASSUME NEW e \in Endpoints, NEW r \in Refs, Accepts(c, e, r)
        PROVE  \/ remote[e][r] = "none"
               \/ r = Branch /\ ~plan.force /\ remote[e][r] = "old"
               \/ r = Branch /\ plan.force /\ remote[e][r] = reviewed[e]
    BY <2>2, <2>3, <2>5 DEF Accepts
  <2> QED BY <2>4, <2>5
<1>2. ASSUME foreign \in Nat, [Next]_vars PROVE UNCHANGED remote \/ foreign' # foreign \/ \E c \in Calls : Pushed(c)
  BY <1>2, WhoSetsReferences
<1>3. IInv /\ LeaseInv /\ foreign \in Nat /\ [Next]_vars => [foreign' = foreign => Reviewed]_vars
  BY <1>1, <1>2
<1> QED BY <1>3, Inductive, LeaseIsReviewed, ForeignIsCounted, PTL DEF Spec, ForeignIsKept

=============================================================================
