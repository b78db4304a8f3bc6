--------------------------- MODULE RepositoryRun ---------------------------
(***************************************************************************)
(* electron/main-process/RepositoryRunService.ts: one workflow of shell    *)
(* commands at a time, started after two awaits (prerequisite check and    *)
(* approval dialog), stopped by a signal, then by force, then given up.    *)
(*                                                                         *)
(* A step's process first exits ("exit") and then, when its output streams *)
(* are closed by every descendant that inherited them, closes ("close").   *)
(* Event handlers and the continuations they resume run without            *)
(* interleaving, so each event is one action.                              *)
(*                                                                         *)
(* The names of the specification are prefixed, so that its proofs can     *)
(* stand beside those of RepositoryRetention.                              *)
(***************************************************************************)
EXTENDS Naturals, FiniteSets

CONSTANTS
  Runs,         \* identities of start() calls
  Repositories,
  NoRun,
  Steps,        \* number of steps of a workflow
  HeldStreams,  \* runs with a descendant that never closes the streams
  MaxRefused    \* bound: runs whose process refuses a signal

ASSUME StepsAssumption == Steps \in Nat \ {0}
ASSUME RunsAssumption == NoRun \notin Runs /\ HeldStreams \subseteq Runs
ASSUME BoundAssumption == MaxRefused \in Nat

VARIABLES
  phase,       \* where the start() call is
  repo,        \* repository of the call
  status,      \* run.status, "none" before it is a run
  step,        \* run.activeStepIndex
  child,       \* process of the current step
  cancelled,   \* runs that were stopped
  hardKill,    \* runs that were force-stopped
  stopTimer,   \* runs with a pending grace timer
  forceTimer,  \* runs with a pending force-stop timer
  activeRun,   \* this.activeRun
  unconfirmed, \* run of this.terminationUnconfirmedChild, or None
  \* history
  refused      \* runs whose living process the system refused to signal

callVars == <<phase, repo>>
commandVars == <<status, step, child>>
stopVars == <<cancelled, hardKill, stopTimer, forceTimer, refused>>
runVars == <<callVars, commandVars, stopVars, activeRun, unconfirmed>>

Phases == {"none", "checking", "approving", "refused", "started"}
Statuses == {"none", "running", "succeeded", "failed", "cancelled"}
Processes == {"none", "failed", "alive", "exited", "closed"}

RunInit ==
  /\ phase = [r \in Runs |-> "none"]
  /\ repo \in [Runs -> Repositories]
  /\ status = [r \in Runs |-> "none"]
  /\ step = [r \in Runs |-> 0]
  /\ child = [r \in Runs |-> "none"]
  /\ cancelled = {}
  /\ hardKill = {}
  /\ stopTimer = {}
  /\ forceTimer = {}
  /\ refused = {}
  /\ activeRun = NoRun
  /\ unconfirmed = NoRun

Running(r) == status[r] = "running"

\* assertCanStart()
CanStart_StatusOnly == activeRun # NoRun => ~Running(activeRun)  \* fault
CanStart ==
  /\ activeRun # NoRun => ~Running(activeRun)
  /\ unconfirmed = NoRun

\* isRepositoryBusy()
Busy_RunningOnly(d) ==                    \* fault: a run that was given up
  activeRun # NoRun /\ repo[activeRun] = d /\ Running(activeRun)
Busy(d) ==
  activeRun # NoRun /\ repo[activeRun] = d /\ (Running(activeRun) \/ unconfirmed # NoRun)

-----------------------------------------------------------------------------
(***************************************************************************)
(* start(): checks before, between and after its awaits.                   *)
(***************************************************************************)

Advance(r, from, to) ==
  /\ phase[r] = from
  /\ phase' = [phase EXCEPT ![r] = IF CanStart THEN to ELSE "refused"]
  /\ UNCHANGED <<repo, commandVars, stopVars, activeRun, unconfirmed>>

\* A missing program or a declined approval.
Refuse(r) ==
  /\ phase[r] \in {"checking", "approving"}
  /\ phase' = [phase EXCEPT ![r] = "refused"]
  /\ UNCHANGED <<repo, commandVars, stopVars, activeRun, unconfirmed>>

\* A spawned process lives, or could not be started and will emit "error".
Spawned == {"alive", "failed"}

\* The run starts when approved, or after the check if nobody has to approve.
Launch(r) ==
  /\ phase[r] \in {"checking", "approving"}
  /\ CanStart
  /\ phase' = [phase EXCEPT ![r] = "started"]
  /\ status' = [status EXCEPT ![r] = "running"]
  /\ step' = [step EXCEPT ![r] = 1]
  /\ \E p \in Spawned : child' = [child EXCEPT ![r] = p]
  /\ activeRun' = r
  /\ UNCHANGED <<repo, stopVars, unconfirmed>>

-----------------------------------------------------------------------------
(***************************************************************************)
(* Events of the process.                                                  *)
(***************************************************************************)

\* execute()'s finally block: the run has a final status and no timers.
EndRun(r, s) ==
  /\ status' = [status EXCEPT ![r] = s]
  /\ stopTimer' = stopTimer \ {r}
  /\ forceTimer' = forceTimer \ {r}

\* blockNewRunsUntilExit(): either event releases the block.
Released(r) == IF unconfirmed = r THEN NoRun ELSE unconfirmed

Exit(r) ==
  /\ child[r] = "alive"
  /\ child' = [child EXCEPT ![r] = "exited"]
  /\ unconfirmed' = Released(r)
  /\ UNCHANGED <<callVars, status, step, stopVars, activeRun>>

\* The continuation of a step that closed with exit code zero or not.
Continues(r, ok) == ok /\ step[r] < Steps /\ r \notin cancelled
FinalStatus(r, ok) ==
  CASE r \in cancelled -> "cancelled"
    [] r \notin cancelled /\ ok -> "succeeded"
    [] OTHER -> "failed"

Close(r, ok) ==
  /\ child[r] = "exited"
  /\ r \notin HeldStreams
  /\ unconfirmed' = Released(r)
  /\ IF ~Running(r)
     THEN /\ child' = [child EXCEPT ![r] = "closed"]
          /\ UNCHANGED <<status, step, stopTimer, forceTimer>>
     ELSE IF Continues(r, ok)
     THEN /\ step' = [step EXCEPT ![r] = @ + 1]
          /\ \E p \in Spawned : child' = [child EXCEPT ![r] = p]
          /\ stopTimer' = stopTimer \ {r}
          /\ forceTimer' = forceTimer \ {r}
          /\ UNCHANGED status
     ELSE /\ child' = [child EXCEPT ![r] = "closed"]
          /\ EndRun(r, FinalStatus(r, ok))
          /\ UNCHANGED step
  /\ UNCHANGED <<callVars, cancelled, hardKill, refused, activeRun>>

\* The "error" event rejects the step, whatever it was emitted for.
OnError(r, stopped) == EndRun(r, IF stopped THEN "cancelled" ELSE "failed")

SpawnError(r) ==
  /\ child[r] = "failed"
  /\ child' = [child EXCEPT ![r] = "closed"]
  /\ IF Running(r) THEN OnError(r, r \in cancelled)
     ELSE UNCHANGED <<status, stopTimer, forceTimer>>
  /\ UNCHANGED <<callVars, step, cancelled, hardKill, refused, activeRun, unconfirmed>>

-----------------------------------------------------------------------------
(***************************************************************************)
(* stop(), its timers, and the failure of taskkill.                        *)
(***************************************************************************)

\* A signal the system refuses makes child.kill() emit "error" at once.
Refused(r) ==
  /\ child[r] = "alive"
  /\ refused' = refused \cup {r} /\ Cardinality(refused') <= MaxRefused

Stop(r) ==
  /\ activeRun = r
  /\ Running(r)
  /\ cancelled' = cancelled \cup {r}
  /\ IF child[r] = "failed"
     THEN EndRun(r, "cancelled") /\ UNCHANGED refused
     ELSE \/ /\ stopTimer' = IF r \in hardKill THEN stopTimer ELSE stopTimer \cup {r}
             /\ UNCHANGED <<status, forceTimer, refused>>
          \/ Refused(r) /\ OnError(r, TRUE)
  /\ UNCHANGED <<callVars, step, child, hardKill, activeRun, unconfirmed>>

\* escalateStop(), by the grace timer or because taskkill failed.
Escalate_NoTimer(r) ==               \* fault: nobody waits for the force-stop
  /\ r \in stopTimer
  /\ Running(r) /\ r \in cancelled /\ r \notin hardKill
  /\ hardKill' = hardKill \cup {r}
  /\ stopTimer' = stopTimer \ {r}
  /\ UNCHANGED <<callVars, commandVars, cancelled, forceTimer, refused, activeRun, unconfirmed>>
Escalate(r) ==
  /\ r \in stopTimer
  /\ Running(r) /\ r \in cancelled /\ r \notin hardKill
  /\ hardKill' = hardKill \cup {r}
  /\ \/ /\ stopTimer' = stopTimer \ {r}
        /\ forceTimer' = forceTimer \cup {r}
        /\ UNCHANGED <<status, refused>>
     \/ Refused(r) /\ OnError(r, TRUE)
  /\ UNCHANGED <<callVars, step, child, cancelled, activeRun, unconfirmed>>

\* The force-stop timer gives the run up and remembers its process.
GiveUp_Forgets(r) ==                        \* fault: the process is forgotten
  /\ r \in forceTimer
  /\ Running(r) /\ r \in cancelled
  /\ EndRun(r, "cancelled")
  /\ UNCHANGED <<callVars, step, child, cancelled, hardKill, refused, activeRun, unconfirmed>>
GiveUp(r) ==
  /\ r \in forceTimer
  /\ Running(r) /\ r \in cancelled
  /\ unconfirmed' = r
  /\ EndRun(r, "cancelled")
  /\ UNCHANGED <<callVars, step, child, cancelled, hardKill, refused, activeRun>>

-----------------------------------------------------------------------------
Start(r) == Advance(r, "none", "checking") \/ Advance(r, "checking", "approving")

RunNext == \E r \in Runs :
  \/ Start(r) \/ Refuse(r) \/ Launch(r)
  \/ Exit(r) \/ SpawnError(r)
  \/ \E ok \in BOOLEAN : Close(r, ok)
  \/ Stop(r) \/ Escalate(r) \/ GiveUp(r)

RunSpec == RunInit /\ [][RunNext]_runVars

\* Timers fire and the streams of an exited process are closed, unless held.
\* A process need not exit: a development server runs until it is stopped.
RunFairness == \A r \in Runs :
  /\ WF_runVars(Escalate(r))
  /\ WF_runVars(GiveUp(r))
  /\ WF_runVars(\E ok \in BOOLEAN : Close(r, ok))
  /\ WF_runVars(SpawnError(r))
RunFairSpec == RunSpec /\ RunFairness

-----------------------------------------------------------------------------
RunTypeOK ==
  /\ phase \in [Runs -> Phases]
  /\ repo \in [Runs -> Repositories]
  /\ status \in [Runs -> Statuses]
  /\ step \in [Runs -> 0 .. Steps]
  /\ child \in [Runs -> Processes]
  /\ cancelled \subseteq Runs /\ hardKill \subseteq cancelled
  /\ stopTimer \subseteq Runs /\ forceTimer \subseteq Runs /\ refused \subseteq Runs
  /\ activeRun \in Runs \cup {NoRun}
  /\ unconfirmed \in Runs \cup {NoRun}

\* "Only one workflow runs at a time": two commands are never alive together,
\* also when one was given up or another start() waited in its dialog.  Only a
\* command that could not even be signalled is forgotten.
OneWorkflow ==
  Cardinality({r \in Runs : child[r] = "alive"} \ refused) <= 1

\* While a command is alive its repository is reported busy: maintenance and
\* removal of the repository rely on it.
AliveIsBusy ==
  \A r \in Runs \ refused : child[r] = "alive" => Busy(repo[r])

\* A stop always comes to an end, whatever the process does.
StopCompletes ==
  \A r \in Runs : (r \in cancelled) ~> ~Running(r)

=============================================================================
