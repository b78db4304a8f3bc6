------------------------ MODULE RepositoryRetention ------------------------
(***************************************************************************)
(* The maintenance of the repository list and of what is kept about each   *)
(* repository: electron/main-process/StorageMaintenanceService.ts with     *)
(* storageMetadata.ts, MaintenanceScheduler.ts and the writes of           *)
(* repoStore.ts.                                                           *)
(*                                                                         *)
(* Two files: the list (repos.json) and the maintenance state, saved before *)
(* the list whenever an entry comes or goes.  A pass probes each listed    *)
(* repository, takes out of the list those that are gone for good, and     *)
(* deletes the metadata of those that left the list long ago.  It awaits   *)
(* between its steps, so that users, jobs and other workers act there; the *)
(* process may die and writes may fail anywhere.  Unreadable state and     *)
(* metadata, which switch every deletion off, and relocation are left out. *)
(***************************************************************************)
EXTENDS Naturals, FiniteSets

CONSTANTS
  Repos,
  None,
  MissingPeriod,  \* days without the repository before it leaves the list (90)
  ObservedDays,   \* on which it was looked for (3)
  ReturnPeriod,   \* days for which a removed repository can return (30)
  MaxDay,         \* bound: days that pass
  MaxFaults       \* bound: crashes and failed writes

ASSUME PeriodsAssumption == {MissingPeriod, ObservedDays, ReturnPeriod} \subseteq Nat \ {0}
ASSUME BoundsAssumption == {MaxDay, MaxFaults} \subseteq Nat

Days == 0 .. MaxDay
Healths == {"there", "missing"}   \* unreachable, invalid and without Git count as there
Files == {"remotes", "icon"}   \* that hold metadata of a repository
Observations == [since : Days, days : SUBSET Days]
States == [observed : [Repos -> Observations \cup {None}], removed : [Repos -> Days \cup {None}],
           orphan : [Repos -> Days \cup {None}], known : SUBSET Repos]
Workers == [repo : Repos, step : {"probe", "recovery", "again"}, started : Days, cleans : BOOLEAN,
            active : Repos \cup {None}, spared : BOOLEAN, late : BOOLEAN]   \* late: its pass has failed
Passes == [step : {"check", "clean", "finish"}, started : Days, cleans : BOOLEAN]
ASSUME NoneAssumption == None \notin Days \cup Observations \cup Passes

VARIABLES
  day,
  registry, active,    \* repos.json: the listed repositories, the open one
  health,              \* what a probe would find
  busy, plans,         \* repositories with jobs; those that records refer to
  metadata,            \* repository -> the files that tell of it
  memory, file,        \* the maintenance state, and what of it is saved
  pass, workers,       \* perform() and its checks of repositories
  missed, seen, left,  \* history, see the properties
  faults

world == <<day, health, busy, plans>>
history == <<missed, seen>>
list == <<registry, active, left>>
calls == <<pass, workers>>
vars == <<world, history, list, metadata, memory, file, calls, faults>>

TypeOK ==
  /\ day \in Days /\ registry \subseteq Repos /\ active \in Repos \cup {None}
  /\ health \in [Repos -> Healths] /\ busy \subseteq Repos /\ plans \subseteq Repos
  /\ metadata \in [Repos -> SUBSET Files]
  /\ memory \in States /\ file \in States
  /\ pass \in Passes \cup {None} /\ workers \subseteq Workers
  /\ missed \in [Repos -> SUBSET Days] /\ {seen, left} \subseteq [Repos -> Days]
  /\ faults \in 0 .. MaxFaults

\* The state file of a former session may know nothing yet; metadata of
\* unlisted repositories may be left from before there was maintenance.
Nothing(known) == [observed |-> [r \in Repos |-> None], removed |-> [r \in Repos |-> None],
                   orphan |-> [r \in Repos |-> None], known |-> known]

Init ==
  /\ day = 0 /\ registry \in SUBSET Repos /\ active = None
  /\ health = [r \in Repos |-> "there"] /\ busy = {} /\ plans = {}
  /\ metadata = [r \in Repos |-> Files]
  /\ memory = Nothing({}) /\ file = memory
  /\ pass = None /\ workers = {}
  /\ missed = [r \in Repos |-> {}] /\ seen = [r \in Repos |-> 0] /\ left = [r \in Repos |-> 0]
  /\ faults = 0

Fault == faults < MaxFaults /\ faults' = faults + 1
Outcomes == {"done", "unsaved", "unwritten"}

\* beforeRegistryChange(): what leaves the list gets a return ticket, what is
\* in it needs none and has an owner.
Ticketed_KeepsOrphans(state, before, after) ==   \* fault: an old claim stays
  [state EXCEPT !.removed = [r \in Repos |-> IF r \in after THEN None ELSE IF r \in before THEN day ELSE @[r]],
                !.known = after]
Ticketed(state, before, after) ==
  [state EXCEPT !.removed = [r \in Repos |-> IF r \in after THEN None ELSE IF r \in before THEN day ELSE @[r]],
                !.orphan = [r \in Repos |-> IF r \in after THEN None ELSE @[r]],
                !.known = after]

\* The history dates all of a pass, and what happens meanwhile, from its start.
Dated == IF pass = None THEN day ELSE pass.started

\* writeStoreData(): the state is saved first, and only then the list.
Change(after, open, outcome) ==
  /\ memory' = Ticketed(memory, registry, after)
  /\ file' = IF outcome = "unsaved" THEN file ELSE memory'
  /\ IF outcome = "done"
     THEN /\ registry' = after /\ active' = open
          /\ left' = [r \in Repos |-> IF r \in registry \ after THEN Dated ELSE left[r]]
          /\ UNCHANGED faults
     ELSE Fault /\ UNCHANGED list

-----------------------------------------------------------------------------
\* mutateRepositoryStore(): add, remove and activate.
Add(r) ==
  /\ r \notin registry /\ health[r] = "there"
  /\ \E outcome \in Outcomes : Change(registry \cup {r}, active, outcome)
  /\ UNCHANGED <<world, history, metadata, calls>>

Remove(r) ==
  /\ r \in registry
  /\ \E outcome \in Outcomes : Change(registry \ {r}, IF active = r THEN None ELSE active, outcome)
  /\ UNCHANGED <<world, history, metadata, calls>>

Activate(r) ==
  /\ r \in registry => health[r] = "there"
  /\ r \in registry \cup {None} /\ r # active
  /\ Change(registry, r, "done")
  /\ UNCHANGED <<world, history, metadata, calls>>

\* restore(): the ticket is read again after the probe, during which a pass
\* may begin.
Restored(state, r) == [state EXCEPT !.removed[r] = None, !.observed[r] = None]

Restore(r) ==
  /\ memory.removed[r] # None /\ day < memory.removed[r] + ReturnPeriod /\ health[r] = "there"
  /\ memory' = Restored(IF r \in registry THEN memory ELSE Ticketed(memory, registry, registry \cup {r}), r)
  /\ file' = memory'
  /\ registry' = registry \cup {r}
  /\ UNCHANGED <<world, history, active, left, metadata, calls, faults>>

-----------------------------------------------------------------------------
\* MaintenanceScheduler.perform() and perform(): one pass at a time.  It first
\* makes up for changes of the list that failed between the two files.
Begin(cleans) ==
  /\ pass = None
  /\ memory' = Ticketed(memory, memory.known, registry)
  /\ \/ /\ file' = memory'
        /\ pass' = [step |-> "check", started |-> day, cleans |-> cleans]
        /\ workers' = workers \cup
             {[repo |-> r, step |-> "probe", started |-> day, cleans |-> cleans, active |-> None,
              spared |-> r \in plans, late |-> FALSE] : r \in registry}
        /\ UNCHANGED faults
     \/ Fault /\ UNCHANGED <<file, pass, workers>>
  /\ UNCHANGED <<world, history, list, metadata>>

Continue(w, new) == workers' = (workers \ {w}) \cup new
Sighted(w) == seen' = [seen EXCEPT ![w.repo] = w.started]

\* checkRepositories(): the observation of a probe.
Observed_KeepsSince(before, w) ==   \* fault: a sighting does not end the absence
  IF before = None THEN [since |-> w.started, days |-> {w.started}]
  ELSE [since |-> before.since, days |-> before.days \cup {w.started}]
Observed(before, w) ==
  IF health[w.repo] # "missing" THEN None
  ELSE IF before = None THEN [since |-> w.started, days |-> {w.started}]
  ELSE [since |-> before.since, days |-> before.days \cup {w.started}]

Gone(w, observation) ==
  /\ w.cleans /\ observation # None
  /\ observation.since + MissingPeriod <= w.started
  /\ Cardinality(observation.days) >= ObservedDays

Probe(w) ==
  /\ w \in workers /\ w.step = "probe"
  /\ LET observation == Observed(memory.observed[w.repo], w)
     IN /\ memory' = [memory EXCEPT !.observed[w.repo] = observation]
        /\ Continue(w, IF Gone(w, observation) THEN {[w EXCEPT !.step = "recovery", !.active = active]} ELSE {})
  /\ IF health[w.repo] = "missing"
     THEN missed' = [missed EXCEPT ![w.repo] = @ \cup {w.started}] /\ UNCHANGED seen
     ELSE Sighted(w) /\ UNCHANGED missed
  /\ UNCHANGED <<world, list, metadata, file, pass, faults>>

\* The inventory of recoveries may name the repository.
AfterRecovery(w) ==
  /\ w \in workers /\ w.step = "recovery"
  /\ \E named \in BOOLEAN :
       Continue(w, IF named \/ w.spared \/ w.active = w.repo \/ w.repo \in busy THEN {} ELSE {[w EXCEPT !.step = "again"]})
  /\ UNCHANGED <<world, history, list, metadata, memory, file, pass, faults>>

Reappeared(w) ==
  /\ w \in workers /\ w.step = "again" /\ health[w.repo] # "missing"
  /\ memory' = [memory EXCEPT !.observed[w.repo] = None]
  /\ Continue(w, {}) /\ Sighted(w)
  /\ UNCHANGED <<world, missed, list, metadata, file, pass, faults>>

Unused(w) == w.repo \notin busy \cup plans /\ active # w.repo

\* A failure ends the pass of the worker; the other worker goes on by itself.
PassEnds(w) ==
  IF w.late THEN Continue(w, {}) /\ UNCHANGED pass
  ELSE pass' = None /\ workers' = {[v EXCEPT !.late = TRUE] : v \in workers \ {w}}

TakeOut(w) ==
  /\ w \in workers /\ w.step = "again" /\ health[w.repo] = "missing"
  /\ IF Unused(w) /\ w.repo \in registry
     THEN \E outcome \in Outcomes :
            /\ Change(registry \ {w.repo}, active, outcome)
            /\ IF outcome = "done" THEN Continue(w, {}) /\ UNCHANGED pass ELSE PassEnds(w)
     ELSE Continue(w, {}) /\ UNCHANGED <<list, memory, file, pass, faults>>
  /\ UNCHANGED <<world, history, metadata>>

-----------------------------------------------------------------------------
\* Metadata without a listed owner is claimed by nobody from now on.
Unclaimed(r) == metadata[r] # {} /\ r \notin registry /\ memory.removed[r] = None /\ memory.orphan[r] = None
Orphaned == [memory EXCEPT !.orphan = [r \in Repos |-> IF Unclaimed(r) THEN pass.started ELSE @[r]]]

AllChecked ==
  /\ pass # None /\ pass.step = "check"
  /\ \A w \in workers : w.late
  /\ memory' = Orphaned
  /\ pass' = [pass EXCEPT !.step = IF pass.cleans THEN "clean" ELSE "finish"]
  /\ UNCHANGED <<world, history, list, metadata, file, workers, faults>>

\* cleanMetadata(): tickets and claims that ran out when the pass began.
Elapsed(since) == since # None /\ since + ReturnPeriod <= pass.started
Expired(state, kept) ==
  {r \in Repos \ (registry \cup {active} \cup plans \cup busy \cup kept) : Elapsed(state.removed[r]) \/ Elapsed(state.orphan[r])}
Forget(state, expired) ==
  [state EXCEPT !.removed = [r \in Repos |-> IF r \in expired THEN None ELSE @[r]],
                !.orphan = [r \in Repos |-> IF r \in expired THEN None ELSE @[r]],
                !.observed = [r \in Repos |-> IF r \in expired THEN None ELSE @[r]]]
Claimed(state) == [state EXCEPT !.orphan = [r \in Repos |-> IF r \in registry \cup {active} \/ metadata[r] = {} THEN None ELSE @[r]]]

CleanMetadata ==
  /\ pass # None /\ pass.step = "clean"
  /\ pass' = [pass EXCEPT !.step = "finish"]
  /\ LET claims == Claimed(Orphaned)
     IN \E kept \in SUBSET Repos :
          \/ /\ metadata' = [r \in Repos |-> IF r \in Expired(claims, kept) THEN {} ELSE metadata[r]]
             /\ memory' = Forget(claims, Expired(claims, kept))
             /\ UNCHANGED faults
          \/ /\ Fault      \* a file cannot be written: those before it are
             /\ metadata' = [r \in Repos |-> metadata[r] \ (IF r \in Expired(claims, kept) THEN {"remotes"} ELSE {})]
             /\ memory' = claims
  /\ UNCHANGED <<world, history, list, file, workers>>

\* The end of perform(): observations of repositories nobody knows are
\* dropped, and the state is saved.
Finish ==
  /\ pass # None /\ pass.step = "finish" /\ pass' = None
  /\ memory' = [memory EXCEPT !.known = registry,
                  !.observed = [r \in Repos |-> IF r \in registry \/ memory.removed[r] # None THEN @[r] ELSE None]]
  /\ \/ file' = memory' /\ UNCHANGED faults
     \/ Fault /\ UNCHANGED file
  /\ UNCHANGED <<world, history, list, metadata, workers>>

-----------------------------------------------------------------------------
\* The process is started again with the saved state.
Crash ==
  /\ Fault
  /\ memory' = file /\ pass' = None /\ workers' = {} /\ busy' = {}
  /\ UNCHANGED <<day, health, plans, history, list, metadata, file>>

\* Drives come and go, jobs and plans begin and end, days pass.
Drive(r, h) == health' = [health EXCEPT ![r] = h] /\ health[r] # h /\ UNCHANGED <<day, busy, plans, metadata>>
Job(r) ==
  /\ r \in busy \/ (r \in registry /\ health[r] # "missing")
  /\ busy' = IF r \in busy THEN busy \ {r} ELSE busy \cup {r}
  /\ UNCHANGED <<day, health, plans, metadata>>
Plan(r) ==
  /\ plans' = IF r \in plans THEN plans \ {r} ELSE plans \cup {r}
  /\ UNCHANGED <<day, health, busy, metadata>>
Describe(r) ==
  /\ r \in registry /\ metadata' = [metadata EXCEPT ![r] = Files] /\ metadata[r] # Files
  /\ UNCHANGED <<day, health, busy, plans>>
Tomorrow == day < MaxDay /\ day' = day + 1 /\ UNCHANGED <<health, busy, plans, metadata>>

World ==
  /\ \/ \E r \in Repos : Job(r) \/ Plan(r) \/ Describe(r) \/ \E h \in Healths : Drive(r, h)
     \/ Tomorrow
  /\ UNCHANGED <<history, list, memory, file, calls, faults>>

Maintain ==
  \/ \E cleans \in BOOLEAN : Begin(cleans)
  \/ \E w \in workers : Probe(w) \/ AfterRecovery(w) \/ Reappeared(w) \/ TakeOut(w)
  \/ AllChecked \/ CleanMetadata \/ Finish

Next ==
  \/ \E r \in Repos : Add(r) \/ Remove(r) \/ Restore(r)
  \/ \E r \in Repos \cup {None} : Activate(r)
  \/ Maintain \/ Crash \/ World

Spec == Init /\ [][Next]_vars

-----------------------------------------------------------------------------
\* Maintenance takes a repository out of the list only when it was found
\* missing on enough days, the first one long enough ago and after whatever
\* else was seen of it, and when at that moment it is still missing and nobody
\* uses or refers to it: each may have changed while checkRepositories()
\* awaited, and a crash may have lost what was observed in between.
Abandoned(r) ==
  /\ \E first \in missed[r] :
       /\ first + MissingPeriod <= day
       /\ Cardinality({d \in missed[r] : d >= first}) >= ObservedDays
       /\ faults = 0 => seen[r] <= first
  /\ health[r] = "missing" /\ r \notin busy \cup plans /\ active # r

TakenOutIsAbandoned == [][\A w \in workers : TakeOut(w) => \A r \in registry \ registry' : Abandoned(r)]_vars

\* What is known of a repository outlives the period in which it may return,
\* counted from the day on which it last left the list, however often it came
\* and went and whichever writes failed.
MetadataOutlivesReturn ==
  [][\A r \in Repos : ~ (metadata[r] \subseteq metadata'[r]) =>
       /\ r \notin registry \cup busy \cup plans
       /\ left[r] + ReturnPeriod <= day]_vars
=============================================================================
