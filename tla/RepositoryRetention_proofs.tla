--------------------- MODULE RepositoryRetention_proofs ---------------------
(***************************************************************************)
(* Proofs, for any repositories and periods, that maintenance takes out of *)
(* the list only what was abandoned, and keeps what is known of a          *)
(* repository for as long as it may return; and that the workflows of      *)
(* RepositoryRun keep their repository busy.                               *)
(*                                                                         *)
(* The first two arguments are about the dates in the maintenance state,   *)
(* in memory and in the file alike: a ticket or claim is never older than  *)
(* the last departure of its repository, and an observation has only days  *)
(* on which the repository was looked for and missed.                      *)
(***************************************************************************)
EXTENDS RepositoryRetention, RepositoryRun, FiniteSetTheorems, WellFoundedInduction, TLAPS

\* Tickets and claims date from the last departure or later.
Claims(state) ==
  \A r \in Repos :
    IF r \in registry THEN state.orphan[r] = None
    ELSE /\ state.removed[r] # None => left[r] <= state.removed[r]
         /\ state.orphan[r] # None => left[r] <= state.orphan[r]

\* Observed days are days on which the repository was missed.
Observing(state) ==
  \A r \in Repos : state.observed[r] # None =>
    state.observed[r].since \in missed[r] /\ state.observed[r].days \subseteq missed[r]

\* No departure, and no worker, is later than the pass in progress or today.
Timely ==
  /\ \A r \in Repos : left[r] <= Dated /\ left[r] <= day
  /\ pass # None => pass.started <= day
  /\ \A w \in workers : w.started <= day

\* A worker past its probe has found the repository gone for good.
Missing(r, at) ==
  \E first \in missed[r] :
    /\ first + MissingPeriod <= at
    /\ Cardinality({d \in missed[r] : d >= first}) >= ObservedDays
    /\ faults = 0 => seen[r] <= first
Convinced == \A w \in workers : w.step # "probe" => Missing(w.repo, w.started)

\* As long as nothing failed there is one worker per repository, of the pass
\* in progress, and an observation is later than any sighting.
Orderly == faults = 0 =>
  /\ \A w \in workers : pass # None /\ pass.step = "check" /\ w.started = pass.started /\ ~w.late
  /\ \A v, w \in workers : v.repo = w.repo => v = w
  /\ \A r \in Repos : seen[r] <= Dated
  /\ \A r \in Repos : memory.observed[r] # None =>
       /\ seen[r] <= memory.observed[r].since /\ memory.observed[r].since <= Dated
       /\ \A d \in memory.observed[r].days : memory.observed[r].since <= d

IInv ==
  /\ TypeOK /\ Timely /\ Claims(memory) /\ Claims(file)
  /\ Observing(memory) /\ Observing(file) /\ Convinced /\ Orderly

-----------------------------------------------------------------------------
LEMMA Numbers ==
  /\ MissingPeriod \in Nat \ {0} /\ ObservedDays \in Nat \ {0} /\ ReturnPeriod \in Nat \ {0}
  /\ MaxDay \in Nat /\ MaxFaults \in Nat /\ Days \subseteq Nat
BY PeriodsAssumption, BoundsAssumption DEF Days

LEMMA DaysAreFinite == IsFiniteSet(Days)
<1>1. 0 \in Int /\ MaxDay \in Int
  BY Numbers
<1> QED BY <1>1, FS_Interval DEF Days

LEMMA LeastElement ==
  ASSUME NEW T \in SUBSET Nat, T # {}
  PROVE  \E m \in T : \A n \in T : m <= n
<1>1. PICK m \in T : \A n \in T : ~ (<<n, m>> \in OpToRel(<, Nat))
  BY NatLessThanWellFounded, WFMin
<1>2. \A n \in T : ~ (n < m)
  BY <1>1 DEF OpToRel
<1> QED BY <1>2

LEMMA TicketedFields ==
  ASSUME TypeOK, NEW state \in States, NEW before, NEW after \in SUBSET Repos
  PROVE  /\ Ticketed(state, before, after) \in States
         /\ Ticketed(state, before, after).observed = state.observed
         /\ Ticketed(state, before, after).known = after
         /\ \A r \in Repos :
              /\ Ticketed(state, before, after).removed[r] =
                   IF r \in after THEN None ELSE IF r \in before THEN day ELSE state.removed[r]
              /\ Ticketed(state, before, after).orphan[r] =
                   IF r \in after THEN None ELSE state.orphan[r]
BY DEF Ticketed, States, TypeOK

\* More days on which a repository was missed do not make it less gone.
LEMMA MissingStays ==
  ASSUME TypeOK, NEW r \in Repos, NEW at \in Days, Missing(r, at),
         missed' \in [Repos -> SUBSET Days], missed[r] \subseteq missed'[r],
         faults' = 0 => faults = 0 /\ seen'[r] = seen[r]
  PROVE  Missing(r, at)'
<1>1. PICK first \in missed[r] :
        /\ first + MissingPeriod <= at
        /\ Cardinality({d \in missed[r] : d >= first}) >= ObservedDays
        /\ faults = 0 => seen[r] <= first
  BY DEF Missing
<1>2. IsFiniteSet(Days)
  BY DaysAreFinite
<1> DEFINE old == {d \in missed[r] : d >= first}
           new == {d \in missed'[r] : d >= first}
<1>3. old \subseteq new /\ new \subseteq Days
  OBVIOUS
<1>4. /\ Cardinality(old) \in Nat /\ Cardinality(new) \in Nat
      /\ Cardinality(old) <= Cardinality(new)
  BY <1>2, <1>3, FS_Subset, FS_CardinalityType
<1>5. Cardinality(new) >= ObservedDays
  BY <1>1, <1>4, Numbers
<1> QED BY <1>1, <1>5 DEF Missing

\* The list changes after its tickets are saved, or not at all.
LEMMA ChangeStep ==
  ASSUME IInv, NEW after \in SUBSET Repos, NEW open \in Repos \cup {None}, NEW outcome \in Outcomes,
         Change(after, open, outcome),
         UNCHANGED <<world, history, metadata>>,
         pass' \in {pass, None}, outcome = "done" => workers' \subseteq workers /\ pass' = pass,
         workers' \subseteq Workers,
         \A u \in workers' : \E v \in workers : v.repo = u.repo /\ v.step = u.step /\ v.started = u.started
  PROVE  IInv'
<1> DEFINE new == Ticketed(memory, registry, after)
<1>1. /\ new \in States /\ new.observed = memory.observed
      /\ \A r \in Repos :
           /\ new.removed[r] = IF r \in after THEN None ELSE IF r \in registry THEN day ELSE memory.removed[r]
           /\ new.orphan[r] = IF r \in after THEN None ELSE memory.orphan[r]
  BY TicketedFields DEF IInv, TypeOK
<1> HIDE DEF new
<1>2. memory' = new /\ file' \in {file, new}
  BY DEF Change, new
<1>3. \/ /\ outcome = "done" /\ registry' = after /\ active' = open /\ pass' = pass /\ faults' = faults
         /\ left' = [r \in Repos |-> IF r \in registry \ after THEN Dated ELSE left[r]] /\ file' = new
      \/ /\ outcome # "done" /\ UNCHANGED list /\ faults' = faults + 1 /\ faults < MaxFaults
  BY DEF Change, Fault, new
<1>4. faults \in Nat /\ Dated \in Days /\ Dated <= day /\ day \in Days
  BY Numbers DEF IInv, TypeOK, Timely, Dated, Passes
<1>5. TypeOK'
  BY <1>1, <1>2, <1>3, <1>4, Numbers DEF IInv, TypeOK, world, history, list
<1>6. Timely'
  <2>1. Dated' \in {Dated, day} /\ day' = day
    BY DEF Dated, world
  <2>2. \A r \in Repos : left'[r] \in {Dated, left[r]}
    BY <1>3 DEF IInv, TypeOK, list
  <2> QED BY <1>4, <2>1, <2>2, Numbers DEF IInv, TypeOK, Timely, Passes
<1>7. Claims(memory)'
  BY <1>1, <1>2, <1>3, <1>4, Numbers DEF IInv, TypeOK, Timely, Claims, list
<1>8. Claims(file)'
  BY <1>2, <1>3, <1>7, Numbers DEF IInv, Claims, list
<1>9. Observing(memory)' /\ Observing(file)'
  BY <1>1, <1>2 DEF IInv, Observing, history
<1>10. Convinced'
  <2>1. (faults' = 0 => faults = 0) /\ missed' = missed /\ seen' = seen
    BY <1>3, <1>4 DEF history
  <2> SUFFICES ASSUME NEW u \in workers', u.step # "probe" PROVE Missing(u.repo, u.started)'
    BY DEF Convinced
  <2>2. PICK v \in workers : v.repo = u.repo /\ v.step = u.step /\ v.started = u.started
    OBVIOUS
  <2>3. Missing(u.repo, u.started)
    BY <2>2 DEF IInv, Convinced
  <2> QED BY <2>1, <2>3 DEF Missing
<1>11. Orderly'
  BY <1>1, <1>2, <1>3, <1>4 DEF IInv, Orderly, Dated, history, world
<1> QED BY <1>5, <1>6, <1>7, <1>8, <1>9, <1>10, <1>11 DEF IInv

\* The same for the steps that change neither the list nor the file.
LEMMA RestoreStep ==
  ASSUME IInv, NEW r \in Repos, Restore(r)
  PROVE  IInv'
<1> DEFINE after == registry \cup {r}
           base == IF r \in registry THEN memory ELSE Ticketed(memory, registry, after)
<1>1. /\ memory' = Restored(base, r) /\ file' = memory' /\ registry' = after
      /\ UNCHANGED <<world, history, active, left, metadata, calls, faults>>
  BY DEF Restore
<1>2. /\ base \in States /\ base.observed = memory.observed
      /\ \A q \in Repos : q \in after => base.orphan[q] = None
      /\ \A q \in Repos : q \notin after => base.orphan[q] = memory.orphan[q] /\ base.removed[q] = memory.removed[q]
  <2>1. CASE r \in registry
    BY <2>1 DEF IInv, TypeOK, Claims
  <2>2. CASE r \notin registry
    BY <2>2, TicketedFields DEF IInv, TypeOK
  <2> QED BY <2>1, <2>2
<1> HIDE DEF base
<1>3. /\ memory' \in States
      /\ \A q \in Repos : memory'.observed[q] = IF q = r THEN None ELSE memory.observed[q]
      /\ \A q \in Repos : memory'.orphan[q] = base.orphan[q]
      /\ \A q \in Repos : q # r => memory'.removed[q] = base.removed[q]
  BY <1>1, <1>2 DEF Restored, States
<1>4. TypeOK'
  BY <1>1, <1>3 DEF IInv, TypeOK, world, history, calls
<1>5. Timely'
  BY <1>1 DEF IInv, Timely, Dated, world, calls
<1>6. Claims(memory)' /\ Claims(file)'
  BY <1>1, <1>2, <1>3 DEF IInv, Claims
<1>7. Observing(memory)' /\ Observing(file)'
  BY <1>1, <1>3 DEF IInv, Observing, history
<1>8. Convinced'
  BY <1>1 DEF IInv, Convinced, Missing, history, calls
<1>9. Orderly'
  BY <1>1, <1>3 DEF IInv, Orderly, Dated, history, world, calls
<1> QED BY <1>4, <1>5, <1>6, <1>7, <1>8, <1>9 DEF IInv

LEMMA BeginStep ==
  ASSUME IInv, NEW cleans \in BOOLEAN, Begin(cleans)
  PROVE  IInv'
<1> DEFINE new == Ticketed(memory, memory.known, registry)
           fresh == {[repo |-> r, step |-> "probe", started |-> day, cleans |-> cleans, active |-> None,
                      spared |-> r \in plans, late |-> FALSE] : r \in registry}
<1>1. /\ new \in States /\ new.observed = memory.observed
      /\ \A r \in Repos :
           /\ new.removed[r] = IF r \in registry THEN None ELSE IF r \in memory.known THEN day ELSE memory.removed[r]
           /\ new.orphan[r] = IF r \in registry THEN None ELSE memory.orphan[r]
  BY TicketedFields DEF IInv, TypeOK
<1> HIDE DEF new
<1>2. /\ pass = None /\ memory' = new
      /\ \/ /\ file' = new /\ pass' = [step |-> "check", started |-> day, cleans |-> cleans]
            /\ workers' = workers \cup fresh /\ faults' = faults
         \/ faults' = faults + 1 /\ faults < MaxFaults /\ UNCHANGED <<file, pass, workers>>
      /\ UNCHANGED <<world, history, list, metadata>>
  BY DEF Begin, Fault, new
<1>3. /\ \A w \in fresh : w \in Workers /\ w.started = day /\ w.step = "probe" /\ ~w.late
      /\ \A v, w \in fresh : v.repo = w.repo => v = w
  <2>1. ASSUME NEW w \in fresh PROVE w \in Workers /\ w.started = day /\ w.step = "probe" /\ ~w.late
    <3>1. PICK r \in registry : w = [repo |-> r, step |-> "probe", started |-> day, cleans |-> cleans,
                                     active |-> None, spared |-> r \in plans, late |-> FALSE]
      OBVIOUS
    <3>2. r \in Repos /\ day \in Days /\ (r \in plans) \in BOOLEAN
      BY DEF IInv, TypeOK
    <3> QED BY <3>1, <3>2 DEF Workers
  <2>2. ASSUME NEW v \in fresh, NEW w \in fresh, v.repo = w.repo PROVE v = w
    <3> DEFINE worker(r) == [repo |-> r, step |-> "probe", started |-> day, cleans |-> cleans,
                             active |-> None, spared |-> r \in plans, late |-> FALSE]
    <3>1. PICK q \in registry : v = worker(q)
      OBVIOUS
    <3>2. PICK r \in registry : w = worker(r)
      OBVIOUS
    <3>3. q = r
      BY <2>2, <3>1, <3>2
    <3> QED BY <3>1, <3>2, <3>3
  <2> QED BY <2>1, <2>2
<1> HIDE DEF fresh
<1>4. faults \in Nat /\ day \in Days /\ Dated = day /\ Dated' = day
  BY <1>2, Numbers DEF IInv, TypeOK, Dated, world
<1>5. TypeOK'
  BY <1>1, <1>2, <1>3, <1>4, Numbers DEF IInv, TypeOK, Passes, world, history, list
<1>6. Timely'
  BY <1>2, <1>3, <1>4, Numbers DEF IInv, Timely, world, list
<1>7. Claims(memory)'
  BY <1>1, <1>2, <1>4 DEF IInv, Timely, Claims, list
<1>8. Claims(file)'
  BY <1>2, <1>7 DEF IInv, Claims, list
<1>9. Observing(memory)' /\ Observing(file)'
  BY <1>1, <1>2 DEF IInv, Observing, history
<1>10. Convinced'
  <2>1. \A w \in workers' : w.step # "probe" => w \in workers
    BY <1>2, <1>3
  <2>2. missed' = missed /\ seen' = seen /\ (faults' = 0 => faults = 0)
    BY <1>2, <1>4 DEF history
  <2> QED BY <2>1, <2>2 DEF IInv, Convinced, Missing
<1>11. Orderly'
  <2> SUFFICES ASSUME faults' = 0 PROVE Orderly'
    BY DEF Orderly
  <2>1. /\ faults = 0 /\ workers' = workers \cup fresh
        /\ pass' = [step |-> "check", started |-> day, cleans |-> cleans]
    BY <1>2, <1>4
  <2>2. workers = {}
    BY <1>2, <2>1 DEF IInv, Orderly
  <2>3. pass' # None
    BY <1>4, <2>1, NoneAssumption DEF Passes
  <2> QED BY <1>1, <1>2, <1>3, <1>4, <2>1, <2>2, <2>3 DEF IInv, Orderly, history
<1> QED BY <1>5, <1>6, <1>7, <1>8, <1>9, <1>10, <1>11 DEF IInv

\* A probe that finds the repository gone for good has the days to show.
LEMMA GoneIsMissing ==
  ASSUME IInv, NEW w \in workers, NEW observation \in Observations, Gone(w, observation),
         observation.since \in missed'[w.repo], observation.days \subseteq missed'[w.repo],
         missed' \in [Repos -> SUBSET Days], faults' = faults,
         faults = 0 => /\ seen'[w.repo] <= observation.since
                       /\ \A d \in observation.days : observation.since <= d
  PROVE  Missing(w.repo, w.started)'
<1> DEFINE dates == observation.days \cup {observation.since}
<1>1. w.repo \in Repos /\ w.started \in Days /\ dates \subseteq Days /\ dates \subseteq missed'[w.repo]
  BY DEF IInv, TypeOK, Workers, Observations
<1>2. PICK first \in dates : \A d \in dates : first <= d
  BY <1>1, Numbers, LeastElement
<1>3. first + MissingPeriod <= w.started
  <2>1. observation.since + MissingPeriod <= w.started
    BY DEF Gone
  <2>2. first <= observation.since /\ first \in Nat /\ observation.since \in Nat /\ w.started \in Nat
    BY <1>1, <1>2, Numbers
  <2> HIDE DEF dates
  <2> QED BY ONLY <2>1, <2>2, Numbers
<1> DEFINE seenDays == {d \in missed'[w.repo] : d >= first}
<1>4. observation.days \subseteq seenDays /\ seenDays \subseteq Days
  BY <1>1, <1>2, Numbers
<1>5. IsFiniteSet(Days)
  BY DaysAreFinite
<1>6. /\ Cardinality(observation.days) \in Nat /\ Cardinality(seenDays) \in Nat
      /\ Cardinality(observation.days) <= Cardinality(seenDays)
  BY <1>4, <1>5, FS_Subset, FS_CardinalityType
<1>7. Cardinality(seenDays) >= ObservedDays
  BY <1>6, Numbers DEF Gone
<1>8. faults = 0 => seen'[w.repo] <= first
  <2> SUFFICES ASSUME faults = 0 PROVE seen'[w.repo] <= first
    OBVIOUS
  <2>1. first \in Nat /\ observation.since \in Nat /\ first <= observation.since
    BY <1>1, <1>2, Numbers
  <2>2. observation.since <= first
    BY <1>2, <2>1
  <2>3. first = observation.since
    BY ONLY <2>1, <2>2
  <2> QED BY <2>3
<1> QED BY <1>1, <1>2, <1>3, <1>7, <1>8 DEF Missing

LEMMA ProbeStep ==
  ASSUME IInv, NEW w \in workers, Probe(w)
  PROVE  IInv'
<1> DEFINE r == w.repo
           observation == Observed(memory.observed[r], w)
           next == [w EXCEPT !.step = "recovery", !.active = active]
<1>1. /\ w.step = "probe" /\ memory' = [memory EXCEPT !.observed[r] = observation]
      /\ workers' \subseteq (workers \ {w}) \cup {next}
      /\ next \in workers' \ workers => Gone(w, observation)
      /\ UNCHANGED <<world, list, metadata, file, pass, faults>>
  <2>1. /\ w.step = "probe" /\ memory' = [memory EXCEPT !.observed[r] = observation]
        /\ Continue(w, IF Gone(w, observation) THEN {next} ELSE {})
        /\ UNCHANGED <<world, list, metadata, file, pass, faults>>
    BY DEF Probe
  <2>2. Gone(w, observation) \in BOOLEAN
    BY DEF Gone
  <2> HIDE DEF observation, next
  <2>3. workers' = (workers \ {w}) \cup (IF Gone(w, observation) THEN {next} ELSE {})
    BY <2>1 DEF Continue
  <2> QED BY <2>1, <2>3
<1>2. /\ r \in Repos /\ w \in Workers /\ w.started \in Days /\ w.started <= day
      /\ next \in Workers /\ next.repo = r /\ next.started = w.started /\ next.late = w.late
  BY DEF IInv, TypeOK, Timely, Workers
<1>3. \/ health[r] = "missing" /\ missed' = [missed EXCEPT ![r] = @ \cup {w.started}] /\ seen' = seen
      \/ health[r] # "missing" /\ missed' = missed /\ seen' = [seen EXCEPT ![r] = w.started]
  BY DEF Probe, Sighted
<1>4. /\ missed' \in [Repos -> SUBSET Days] /\ \A q \in Repos : missed[q] \subseteq missed'[q]
      /\ \A q \in Repos : q # r => seen'[q] = seen[q]
  BY <1>2, <1>3 DEF IInv, TypeOK
<1>5. observation # None =>
        /\ observation \in Observations /\ health[r] = "missing"
        /\ observation.since \in missed'[r] /\ observation.days \subseteq missed'[r]
        /\ \/ observation.since = w.started /\ observation.days = {w.started}
           \/ /\ memory.observed[r] # None /\ observation.since = memory.observed[r].since
              /\ observation.days = memory.observed[r].days \cup {w.started}
  <2> SUFFICES ASSUME observation # None
               PROVE  /\ observation \in Observations /\ health[r] = "missing"
                      /\ observation.since \in missed'[r] /\ observation.days \subseteq missed'[r]
                      /\ \/ observation.since = w.started /\ observation.days = {w.started}
                         \/ /\ memory.observed[r] # None /\ observation.since = memory.observed[r].since
                            /\ observation.days = memory.observed[r].days \cup {w.started}
    OBVIOUS
  <2>1. health[r] = "missing"
    BY DEF Observed
  <2>2. missed'[r] = missed[r] \cup {w.started}
    BY <1>2, <1>3, <2>1 DEF IInv, TypeOK
  <2>3. CASE memory.observed[r] = None
    BY <1>2, <2>1, <2>2, <2>3 DEF Observed, Observations
  <2>4. CASE memory.observed[r] # None
    <3>1. /\ memory.observed[r] \in Observations
          /\ memory.observed[r].since \in missed[r] /\ memory.observed[r].days \subseteq missed[r]
      BY <1>2, <2>4 DEF IInv, TypeOK, States, Observing
    <3> QED BY <1>2, <2>1, <2>2, <2>4, <3>1 DEF Observed, Observations
  <2> QED BY <2>3, <2>4
<1>6. observation \in Observations \cup {None} /\ (health[r] # "missing" => observation = None)
  BY <1>5 DEF Observed
<1> HIDE DEF observation, next
<1>7. /\ memory' \in States
      /\ \A q \in Repos : memory'.observed[q] = IF q = r THEN observation ELSE memory.observed[q]
      /\ \A q \in Repos : memory'.orphan[q] = memory.orphan[q] /\ memory'.removed[q] = memory.removed[q]
  BY <1>1, <1>2, <1>6 DEF IInv, TypeOK, States
<1>8. TypeOK'
  <2>1. {seen', left'} \subseteq [Repos -> Days]
    BY <1>1, <1>2, <1>3 DEF IInv, TypeOK, list
  <2> QED BY <1>1, <1>2, <1>4, <1>7, <2>1 DEF IInv, TypeOK, world, list
<1>9. Timely'
  BY <1>1, <1>2 DEF IInv, Timely, Dated, world, list
<1>10. Claims(memory)' /\ Claims(file)'
  BY <1>1, <1>7 DEF IInv, Claims, list
<1>11. Observing(memory)' /\ Observing(file)'
  BY <1>1, <1>4, <1>5, <1>7 DEF IInv, Observing
<1>12. faults = 0 =>
         /\ pass # None /\ Dated = w.started /\ Dated' = Dated /\ w.started \in Nat
         /\ \A v \in workers : v.repo = r => v = w
         /\ observation # None => /\ seen'[r] <= observation.since /\ observation.since <= Dated
                                  /\ \A d \in observation.days : observation.since <= d
  <2> SUFFICES ASSUME faults = 0
               PROVE  /\ pass # None /\ Dated = w.started /\ Dated' = Dated /\ w.started \in Nat
                      /\ \A v \in workers : v.repo = r => v = w
                      /\ observation # None => /\ seen'[r] <= observation.since /\ observation.since <= Dated
                                               /\ \A d \in observation.days : observation.since <= d
    OBVIOUS
  <2>1. pass # None /\ Dated = w.started /\ Dated' = Dated /\ \A v \in workers : v.repo = r => v = w
    BY <1>1 DEF IInv, Orderly, Dated, world
  <2>2. w.started \in Nat
    BY <1>2, Numbers
  <2>3. ASSUME observation # None
        PROVE  /\ seen'[r] <= observation.since /\ observation.since <= Dated
               /\ \A d \in observation.days : observation.since <= d
    <3>1. seen' = seen /\ seen[r] <= Dated
      BY <1>2, <1>3, <1>5, <2>3 DEF IInv, Orderly
    <3>2. CASE observation.since = w.started /\ observation.days = {w.started}
      BY <2>1, <2>2, <3>1, <3>2
    <3>3. CASE /\ memory.observed[r] # None /\ observation.since = memory.observed[r].since
               /\ observation.days = memory.observed[r].days \cup {w.started}
      BY <1>2, <2>1, <2>2, <3>1, <3>3 DEF IInv, Orderly
    <3> QED BY <1>5, <2>3, <3>2, <3>3
  <2> QED BY <2>1, <2>2, <2>3
<1>13. Convinced'
  <2> SUFFICES ASSUME NEW v \in workers', v.step # "probe" PROVE Missing(v.repo, v.started)'
    BY DEF Convinced
  <2>1. CASE v \notin workers
    <3>0. v = next
      BY <1>1, <2>1
    <3>1. Gone(w, observation) /\ observation # None
      BY <1>1, <2>1, <3>0 DEF Gone
    <3> QED BY <1>1, <1>2, <1>4, <1>5, <1>6, <1>12, <3>0, <3>1, GoneIsMissing
  <2>2. CASE v \in workers
    <3>1. v \in workers /\ v # w /\ v.repo \in Repos /\ v.started \in Days
      BY <1>1, <2>2 DEF IInv, TypeOK, Workers
    <3>2. Missing(v.repo, v.started) /\ TypeOK
      BY <3>1 DEF IInv, Convinced
    <3>3. faults' = 0 => faults = 0 /\ seen'[v.repo] = seen[v.repo]
      BY <1>1, <1>4, <1>12, <3>1
    <3> QED BY <1>4, <3>1, <3>2, <3>3, MissingStays
  <2> QED BY <2>1, <2>2
<1>14. Orderly'
  <2> SUFFICES ASSUME faults' = 0 PROVE Orderly'
    BY DEF Orderly
  <2>0. faults = 0
    BY <1>1
  <2>1. \A v \in workers' : pass' # None /\ pass'.step = "check" /\ v.started = pass'.started /\ ~v.late
    BY <1>1, <1>2, <2>0 DEF IInv, Orderly
  <2>2. \A u, v \in workers' : u.repo = v.repo => u = v
    BY <1>1, <1>2, <1>12, <2>0 DEF IInv, Orderly
  <2>3. \A q \in Repos : seen'[q] <= Dated'
    BY <1>2, <1>3, <1>4, <1>12, <2>0 DEF IInv, TypeOK, Orderly
  <2>4. \A q \in Repos : memory'.observed[q] # None =>
          /\ seen'[q] <= memory'.observed[q].since /\ memory'.observed[q].since <= Dated'
          /\ \A d \in memory'.observed[q].days : memory'.observed[q].since <= d
    BY <1>4, <1>7, <1>12, <2>0 DEF IInv, Orderly
  <2> QED BY <2>1, <2>2, <2>3, <2>4 DEF Orderly
<1> QED BY <1>8, <1>9, <1>10, <1>11, <1>13, <1>14 DEF IInv

LEMMA AfterRecoveryStep ==
  ASSUME IInv, NEW w \in workers, AfterRecovery(w)
  PROVE  IInv'
<1> DEFINE next == [w EXCEPT !.step = "again"]
<1>1. /\ w.step = "recovery" /\ workers' \subseteq (workers \ {w}) \cup {next}
      /\ UNCHANGED <<world, history, list, metadata, memory, file, pass, faults>>
  BY DEF AfterRecovery, Continue
<1>2. /\ w \in Workers /\ next \in Workers /\ next.repo = w.repo /\ next.started = w.started /\ next.late = w.late
      /\ \A v \in workers' : v.step # "probe" /\ v \notin workers => v = next
  BY <1>1 DEF IInv, TypeOK, Workers
<1> HIDE DEF next
<1>3. TypeOK'
  BY <1>1, <1>2 DEF IInv, TypeOK, world, history, list
<1>4. Timely'
  BY <1>1, <1>2 DEF IInv, Timely, Dated, world, list
<1>5. Claims(memory)' /\ Claims(file)' /\ Observing(memory)' /\ Observing(file)'
  BY <1>1 DEF IInv, Claims, Observing, list, history
<1>6. Convinced'
  BY <1>1, <1>2 DEF IInv, Convinced, Missing, history
<1>7. Orderly'
  BY <1>1, <1>2 DEF IInv, Orderly, Dated, history, world
<1> QED BY <1>3, <1>4, <1>5, <1>6, <1>7 DEF IInv

LEMMA ReappearedStep ==
  ASSUME IInv, NEW w \in workers, Reappeared(w)
  PROVE  IInv'
<1>1. /\ memory' = [memory EXCEPT !.observed[w.repo] = None] /\ workers' = workers \ {w}
      /\ seen' = [seen EXCEPT ![w.repo] = w.started]
      /\ UNCHANGED <<world, missed, list, metadata, file, pass, faults>>
  BY DEF Reappeared, Continue, Sighted
<1>2. w.repo \in Repos /\ w.started \in Days /\ w.started <= day
  BY DEF IInv, TypeOK, Workers, Timely
<1>3. /\ memory' \in States
      /\ \A q \in Repos : memory'.observed[q] = IF q = w.repo THEN None ELSE memory.observed[q]
      /\ \A q \in Repos : memory'.orphan[q] = memory.orphan[q] /\ memory'.removed[q] = memory.removed[q]
      /\ seen' \in [Repos -> Days] /\ \A q \in Repos : q # w.repo => seen'[q] = seen[q]
  BY <1>1, <1>2 DEF IInv, TypeOK, States
<1>4. TypeOK'
  BY <1>1, <1>3 DEF IInv, TypeOK, world, list
<1>5. Timely'
  BY <1>1 DEF IInv, Timely, Dated, world, list
<1>6. Claims(memory)' /\ Claims(file)' /\ Observing(memory)' /\ Observing(file)'
  BY <1>1, <1>3 DEF IInv, Claims, Observing, list
<1>7. Convinced'
  <2> SUFFICES ASSUME NEW v \in workers', v.step # "probe" PROVE Missing(v.repo, v.started)'
    BY DEF Convinced
  <2>1. v \in workers /\ v # w /\ Missing(v.repo, v.started) /\ v.repo \in Repos
    BY <1>1 DEF IInv, Convinced, TypeOK, Workers
  <2>2. faults = 0 => seen'[v.repo] = seen[v.repo]
    BY <1>3, <2>1 DEF IInv, Orderly
  <2> QED BY <1>1, <2>1, <2>2 DEF Missing
<1>8. Orderly'
  <2> SUFFICES ASSUME faults' = 0 PROVE Orderly'
    BY DEF Orderly
  <2>1. /\ faults = 0 /\ Dated' = Dated /\ Dated = w.started /\ w.started \in Nat
        /\ UNCHANGED <<day, pass>>
    BY <1>1, <1>2, Numbers DEF IInv, Orderly, Dated, world
  <2>2. \A q \in Repos : seen'[q] <= Dated
    BY <1>1, <1>2, <2>1 DEF IInv, TypeOK, Orderly
  <2> QED BY <1>1, <1>3, <2>1, <2>2 DEF IInv, Orderly
<1> QED BY <1>4, <1>5, <1>6, <1>7, <1>8 DEF IInv

LEMMA TakeOutStep ==
  ASSUME IInv, NEW w \in workers, TakeOut(w)
  PROVE  IInv'
<1>1. UNCHANGED <<world, history, metadata>>
  BY DEF TakeOut
<1>2. CASE Unused(w) /\ w.repo \in registry
  <2>1. PICK outcome \in Outcomes :
          /\ Change(registry \ {w.repo}, active, outcome)
          /\ IF outcome = "done" THEN Continue(w, {}) /\ UNCHANGED pass ELSE PassEnds(w)
    BY <1>2 DEF TakeOut
  <2>2. registry \ {w.repo} \in SUBSET Repos /\ active \in Repos \cup {None}
    BY DEF IInv, TypeOK
  <2>3. /\ pass' \in {pass, None}
        /\ outcome = "done" => workers' \subseteq workers /\ pass' = pass
    BY <2>1 DEF PassEnds, Continue
  <2>4. /\ workers' \subseteq Workers
        /\ \A u \in workers' : \E v \in workers : v.repo = u.repo /\ v.step = u.step /\ v.started = u.started
    <3>1. CASE workers' = workers \ {w}
      BY <3>1 DEF IInv, TypeOK
    <3>2. CASE workers' = {[v EXCEPT !.late = TRUE] : v \in workers \ {w}}
      <4> SUFFICES ASSUME NEW u \in workers'
                   PROVE  /\ u \in Workers
                          /\ \E v \in workers : v.repo = u.repo /\ v.step = u.step /\ v.started = u.started
        OBVIOUS
      <4>1. PICK v \in workers : u = [v EXCEPT !.late = TRUE]
        BY <3>2
      <4>2. v \in Workers
        BY DEF IInv, TypeOK
      <4> QED BY <4>1, <4>2 DEF Workers
    <3> QED BY <2>1, <3>1, <3>2 DEF PassEnds, Continue
  <2> QED BY <1>1, <2>1, <2>2, <2>3, <2>4, ChangeStep
<1>3. CASE ~ (Unused(w) /\ w.repo \in registry)
  <2>1. workers' = workers \ {w} /\ UNCHANGED <<list, memory, file, pass, faults>>
    BY <1>3 DEF TakeOut, Continue
  <2>2. TypeOK' /\ Timely' /\ Claims(memory)' /\ Claims(file)' /\ Observing(memory)' /\ Observing(file)'
    BY <1>1, <2>1 DEF IInv, TypeOK, Timely, Claims, Observing, Dated, world, history, list
  <2>3. Convinced' /\ Orderly'
    BY <1>1, <2>1 DEF IInv, Convinced, Missing, Orderly, Dated, world, history
  <2> QED BY <2>2, <2>3 DEF IInv
<1> QED BY <1>2, <1>3

\* New claims are dated by the pass, and so not before any departure.
LEMMA OrphanedFields ==
  ASSUME IInv, pass # None
  PROVE  /\ Orphaned \in States /\ Claims(Orphaned)
         /\ Orphaned.observed = memory.observed
         /\ \A r \in Repos : Orphaned.removed[r] = memory.removed[r]
         /\ \A r \in Repos : Orphaned.orphan[r] \in {memory.orphan[r], pass.started}
<1>1. pass.started \in Days /\ \A r \in Repos : left[r] <= pass.started
  BY DEF IInv, TypeOK, Passes, Timely, Dated
<1>2. /\ Orphaned \in States /\ Orphaned.observed = memory.observed
      /\ \A r \in Repos : Orphaned.removed[r] = memory.removed[r]
      /\ \A r \in Repos : Orphaned.orphan[r] = IF Unclaimed(r) THEN pass.started ELSE memory.orphan[r]
  BY <1>1 DEF IInv, TypeOK, Orphaned, States
<1>3. Claims(Orphaned)
  BY <1>1, <1>2 DEF IInv, Claims, Unclaimed
<1> QED BY <1>2, <1>3

\* Without a fault no worker is left once the pass went on.
LEMMA NoneLeft ==
  ASSUME IInv, pass # None, pass.step # "check" \/ \A w \in workers : w.late
  PROVE  faults = 0 => workers = {}
BY DEF IInv, Orderly

\* Steps that change the state in memory, and the pass, but not the list.
LEMMA StateStep ==
  ASSUME IInv, memory' \in States, Claims(memory)', file' \in {file, memory'},
         \A r \in Repos : memory'.observed[r] \in {memory.observed[r], None},
         UNCHANGED <<world, history, list, workers>>, metadata' \in [Repos -> SUBSET Files],
         faults' = faults \/ (faults' = faults + 1 /\ faults < MaxFaults),
         pass' = None \/ (pass' \in Passes /\ pass # None /\ pass'.started = pass.started),
         faults = 0 => workers = {}
  PROVE  IInv'
<1>1. faults \in Nat /\ Dated' \in {Dated, day} /\ Dated <= day
  BY Numbers DEF IInv, TypeOK, Dated, Timely, world, Passes
<1>2. TypeOK'
  BY <1>1, Numbers DEF IInv, TypeOK, world, history, list
<1>3. Timely'
  BY <1>1 DEF IInv, Timely, world, list
<1>4. Claims(file)'
  BY DEF IInv, Claims, list
<1>5. Observing(memory)' /\ Observing(file)'
  BY DEF IInv, Observing, history
<1>6. Convinced'
  BY <1>1 DEF IInv, Convinced, Missing, history
<1>7. Orderly'
  <2> SUFFICES ASSUME faults' = 0 PROVE Orderly'
    BY DEF Orderly
  <2>1. faults = 0 /\ workers' = {} /\ seen' = seen /\ faults \in Nat
    BY <1>1 DEF history
  <2>2. day \in Nat /\ Dated \in Nat
    BY Numbers DEF IInv, TypeOK, Dated, Passes
  <2>3. Dated' \in Nat /\ Dated <= Dated'
    BY <1>1, <2>2
  <2>4. \A r \in Repos : seen[r] \in Nat /\ seen[r] <= Dated
    BY <2>1, Numbers DEF IInv, TypeOK, Orderly
  <2>5. \A r \in Repos : memory.observed[r] # None =>
          /\ seen[r] <= memory.observed[r].since /\ memory.observed[r].since <= Dated
          /\ \A d \in memory.observed[r].days : memory.observed[r].since <= d
          /\ memory.observed[r].since \in Nat
    BY <2>1, Numbers DEF IInv, TypeOK, States, Observations, Orderly
  <2> QED BY <2>1, <2>2, <2>3, <2>4, <2>5 DEF Orderly
<1> QED BY <1>2, <1>3, <1>4, <1>5, <1>6, <1>7 DEF IInv

LEMMA AllCheckedStep ==
  ASSUME IInv, AllChecked
  PROVE  IInv'
<1>1. /\ pass # None /\ memory' = Orphaned /\ (faults = 0 => workers = {})
      /\ UNCHANGED <<world, history, list, metadata, file, workers, faults>>
  BY NoneLeft DEF AllChecked
<1>2. pass' \in Passes /\ pass'.started = pass.started
  BY DEF AllChecked, IInv, TypeOK, Passes
<1>3. Claims(memory)' /\ metadata' \in [Repos -> SUBSET Files]
  BY <1>1, OrphanedFields DEF Claims, list, IInv, TypeOK
<1> QED BY <1>1, <1>2, <1>3, OrphanedFields, StateStep

LEMMA CleanMetadataStep ==
  ASSUME IInv, CleanMetadata
  PROVE  IInv'
<1> DEFINE claims == Claimed(Orphaned)
<1>1. /\ pass # None /\ (faults = 0 => workers = {})
      /\ UNCHANGED <<world, history, list, file, workers>>
  BY NoneLeft DEF CleanMetadata
<1>2. pass' \in Passes /\ pass'.started = pass.started
  BY DEF CleanMetadata, IInv, TypeOK, Passes
<1>3. /\ claims \in States /\ claims.observed = memory.observed
      /\ \A r \in Repos : claims.removed[r] = Orphaned.removed[r] /\ claims.orphan[r] \in {Orphaned.orphan[r], None}
  BY <1>1, OrphanedFields DEF Claimed, States
<1>4. Claims(claims)
  BY <1>1, <1>3, OrphanedFields DEF Claims
<1> HIDE DEF claims
<1>5. PICK kept \in SUBSET Repos :
        \/ /\ metadata' = [r \in Repos |-> IF r \in Expired(claims, kept) THEN {} ELSE metadata[r]]
           /\ memory' = Forget(claims, Expired(claims, kept))
           /\ UNCHANGED faults
        \/ /\ Fault
           /\ metadata' = [r \in Repos |-> metadata[r] \ (IF r \in Expired(claims, kept) THEN {"remotes"} ELSE {})]
           /\ memory' = claims
  BY DEF CleanMetadata, claims
<1>6. metadata' \in [Repos -> SUBSET Files] /\ (faults' = faults \/ (faults' = faults + 1 /\ faults < MaxFaults))
  BY <1>5 DEF IInv, TypeOK, Fault
<1>7. /\ memory' \in States
      /\ \A r \in Repos : /\ memory'.observed[r] \in {claims.observed[r], None}
                          /\ memory'.removed[r] \in {claims.removed[r], None}
                          /\ memory'.orphan[r] \in {claims.orphan[r], None}
  <2>1. CASE memory' = claims
    BY <1>3, <2>1
  <2>2. CASE memory' = Forget(claims, Expired(claims, kept))
    BY <1>3, <2>2 DEF Forget, States
  <2> QED BY <1>5, <2>1, <2>2
<1>8. Claims(memory)'
  BY <1>1, <1>4, <1>7 DEF Claims, list
<1> QED BY <1>1, <1>2, <1>3, <1>6, <1>7, <1>8, StateStep

LEMMA FinishStep ==
  ASSUME IInv, Finish
  PROVE  IInv'
<1>1. /\ pass # None /\ pass' = None /\ (faults = 0 => workers = {})
      /\ file' \in {file, memory'} /\ (faults' = faults \/ (faults' = faults + 1 /\ faults < MaxFaults))
      /\ UNCHANGED <<world, history, list, metadata, workers>>
  BY NoneLeft DEF Finish, Fault
<1>2. /\ memory' \in States /\ memory'.removed = memory.removed /\ memory'.orphan = memory.orphan
      /\ \A r \in Repos : memory'.observed[r] \in {memory.observed[r], None}
  BY DEF Finish, IInv, TypeOK, States
<1>3. Claims(memory)' /\ metadata' \in [Repos -> SUBSET Files]
  BY <1>1, <1>2 DEF IInv, TypeOK, Claims, list
<1> QED BY <1>1, <1>2, <1>3, StateStep

LEMMA CrashStep ==
  ASSUME IInv, Crash
  PROVE  IInv'
<1>1. /\ faults' = faults + 1 /\ faults < MaxFaults /\ faults \in Nat
      /\ memory' = file /\ pass' = None /\ workers' = {} /\ busy' = {}
      /\ UNCHANGED <<day, health, plans, history, list, metadata, file>>
  BY Numbers DEF Crash, Fault, IInv, TypeOK
<1>2. TypeOK'
  BY <1>1, Numbers DEF IInv, TypeOK, history, list
<1>3. Timely' /\ Claims(memory)' /\ Claims(file)'
  BY <1>1 DEF IInv, Timely, Claims, Dated, list
<1>4. Observing(memory)' /\ Observing(file)' /\ Convinced' /\ Orderly'
  BY <1>1 DEF IInv, Observing, Convinced, Orderly, history
<1> QED BY <1>2, <1>3, <1>4 DEF IInv

LEMMA WorldStep ==
  ASSUME IInv, World
  PROVE  IInv'
<1>1. /\ day' \in Days /\ day' >= day /\ health' \in [Repos -> Healths] /\ busy' \subseteq Repos /\ plans' \subseteq Repos
      /\ metadata' \in [Repos -> SUBSET Files]
      /\ UNCHANGED <<history, list, memory, file, calls, faults>>
  <2>1. ASSUME NEW r \in Repos, Job(r) \/ Plan(r) \/ Describe(r) \/ \E h \in Healths : Drive(r, h)
        PROVE  /\ day' = day /\ health' \in [Repos -> Healths] /\ busy' \subseteq Repos /\ plans' \subseteq Repos
               /\ metadata' \in [Repos -> SUBSET Files]
    BY <2>1 DEF IInv, TypeOK, Job, Plan, Describe, Drive
  <2>2. ASSUME Tomorrow
        PROVE  /\ day' \in Days /\ day' >= day /\ UNCHANGED <<health, busy, plans, metadata>>
    BY <2>2, Numbers DEF IInv, TypeOK, Tomorrow, Days
  <2> QED BY <2>1, <2>2, Numbers DEF World, IInv, TypeOK
<1>2. /\ day \in Nat /\ day' \in Nat /\ day' >= day
      /\ Dated \in Nat /\ Dated' \in Nat /\ Dated' >= Dated
  <2>1. day \in Nat /\ day' \in Nat /\ day' >= day
    BY <1>1, Numbers DEF IInv, TypeOK
  <2>2. pass # None => pass.started \in Nat
    BY Numbers DEF IInv, TypeOK, Passes
  <2>3. Dated = (IF pass = None THEN day ELSE pass.started) /\ Dated' = (IF pass = None THEN day' ELSE pass.started)
    BY <1>1 DEF Dated, calls
  <2> QED BY <2>1, <2>2, <2>3
<1>3. TypeOK'
  BY <1>1 DEF IInv, TypeOK, history, list, calls
<1>4. Timely'
  <2>1. \A r \in Repos : left[r] \in Nat /\ left'[r] = left[r]
    BY <1>1, Numbers DEF IInv, TypeOK, list
  <2>2. \A w \in workers : w.started \in Nat
    BY Numbers DEF IInv, TypeOK, Workers
  <2>3. pass # None => pass.started \in Nat
    BY Numbers DEF IInv, TypeOK, Passes
  <2>4. \A r \in Repos : left[r] <= Dated /\ left[r] <= day
    BY DEF IInv, Timely
  <2>5. \A r \in Repos : left'[r] <= Dated' /\ left'[r] <= day'
    BY <1>2, <2>1, <2>4
  <2>6. (pass' # None => pass'.started <= day') /\ \A w \in workers' : w.started <= day'
    BY <1>1, <1>2, <2>2, <2>3 DEF IInv, Timely, calls
  <2> QED BY <2>5, <2>6 DEF Timely
<1>5. Claims(memory)' /\ Claims(file)' /\ Observing(memory)' /\ Observing(file)'
  BY <1>1 DEF IInv, Claims, Observing, list, history
<1>6. Convinced'
  BY <1>1 DEF IInv, Convinced, Missing, history, calls
<1>7. Orderly'
  <2>1. \A r \in Repos : seen[r] \in Nat
    BY Numbers DEF IInv, TypeOK
  <2>2. \A r \in Repos : memory.observed[r] # None => memory.observed[r].since \in Nat
    BY Numbers DEF IInv, TypeOK, States, Observations
  <2>3. faults' = faults /\ memory' = memory /\ seen' = seen /\ pass' = pass /\ workers' = workers
    BY <1>1 DEF history, calls
  <2> QED BY <1>2, <2>1, <2>2, <2>3 DEF IInv, Orderly
<1> QED BY <1>3, <1>4, <1>5, <1>6, <1>7 DEF IInv

-----------------------------------------------------------------------------
LEMMA InitIInv == Init => IInv
<1> SUFFICES ASSUME Init PROVE IInv
  OBVIOUS
<1>1. 0 \in Days /\ 0 \in 0 .. MaxFaults
  BY Numbers DEF Days
<1>2. /\ memory \in States /\ file = memory
      /\ \A r \in Repos : memory.observed[r] = None /\ memory.removed[r] = None /\ memory.orphan[r] = None
  BY DEF Init, Nothing, States
<1>3. TypeOK
  BY <1>1, <1>2 DEF Init, TypeOK, Healths, Files
<1>4. Timely /\ Claims(memory) /\ Claims(file)
  BY <1>2 DEF Init, Timely, Claims, Dated
<1>5. Observing(memory) /\ Observing(file) /\ Convinced /\ Orderly
  BY <1>2 DEF Init, Observing, Convinced, Orderly, Dated
<1> QED BY <1>3, <1>4, <1>5 DEF IInv

LEMMA NextIInv == IInv /\ [Next]_vars => IInv'
<1> SUFFICES ASSUME IInv, [Next]_vars PROVE IInv'
  OBVIOUS
<1>1. ASSUME NEW r \in Repos, Add(r) PROVE IInv'
  <2>1. PICK outcome \in Outcomes : Change(registry \cup {r}, active, outcome)
    BY <1>1 DEF Add
  <2>2. /\ registry \cup {r} \in SUBSET Repos /\ active \in Repos \cup {None}
        /\ UNCHANGED <<world, history, metadata>> /\ workers' = workers /\ workers' \subseteq Workers /\ pass' = pass
    BY <1>1 DEF IInv, TypeOK, Add, calls
  <2> QED BY <2>1, <2>2, ChangeStep
<1>2. ASSUME NEW r \in Repos, Remove(r) PROVE IInv'
  <2> DEFINE open == IF active = r THEN None ELSE active
  <2>1. PICK outcome \in Outcomes : Change(registry \ {r}, open, outcome)
    BY <1>2 DEF Remove
  <2>2. /\ registry \ {r} \in SUBSET Repos /\ open \in Repos \cup {None}
        /\ UNCHANGED <<world, history, metadata>> /\ workers' = workers /\ workers' \subseteq Workers /\ pass' = pass
    BY <1>2 DEF IInv, TypeOK, Remove, calls
  <2> QED BY <2>1, <2>2, ChangeStep
<1>3. ASSUME NEW r \in Repos \cup {None}, Activate(r) PROVE IInv'
  <2>1. /\ Change(registry, r, "done") /\ "done" \in Outcomes /\ registry \in SUBSET Repos
        /\ UNCHANGED <<world, history, metadata>> /\ workers' = workers /\ workers' \subseteq Workers /\ pass' = pass
    BY <1>3 DEF IInv, TypeOK, Activate, Outcomes, calls
  <2> QED BY <2>1, ChangeStep
<1>4. CASE UNCHANGED vars
  <2>1. UNCHANGED <<world, history, list, metadata, memory, file, calls, faults>>
    BY <1>4 DEF vars
  <2>2. TypeOK' /\ Timely' /\ Claims(memory)' /\ Claims(file)' /\ Observing(memory)' /\ Observing(file)'
    BY <2>1 DEF IInv, TypeOK, Timely, Claims, Observing, Dated, world, history, list, calls
  <2>3. Convinced' /\ Orderly'
    BY <2>1 DEF IInv, Convinced, Missing, Orderly, Dated, world, history, calls
  <2> QED BY <2>2, <2>3 DEF IInv
<1> QED BY <1>1, <1>2, <1>3, <1>4, RestoreStep, BeginStep, ProbeStep, AfterRecoveryStep, ReappearedStep,
           TakeOutStep, AllCheckedStep, CleanMetadataStep, FinishStep, CrashStep, WorldStep DEF Next, Maintain

LEMMA Invariant == Spec => []IInv
BY InitIInv, NextIInv, PTL DEF Spec
\* Every variable of the maintenance keeps its type: in particular a ticket, a
\* claim or an observation, in memory or saved, is always dated by a day that
\* passed within the bounds.
THEOREM TypeCorrect == Spec => []TypeOK
BY Invariant, PTL DEF IInv

\* checkRepositories() takes a repository out of the list only if it was found
\* missing for the whole period and on enough days, and if nothing refers to it
\* then, whatever happened between its awaits and whichever crash lost days.
THEOREM OnlyAbandonedIsTakenOut == Spec => TakenOutIsAbandoned
<1>1. ASSUME IInv, NEW w \in workers, TakeOut(w), NEW r \in registry \ registry' PROVE Abandoned(r)
  <2>1. Unused(w) /\ w.repo \in registry
    BY <1>1 DEF TakeOut, list
  <2>2. r = w.repo /\ w.step = "again"
    BY <1>1, <2>1 DEF TakeOut, Change, list
  <2>3. Missing(r, w.started)
    BY <1>1, <2>2 DEF IInv, Convinced
  <2>4. PICK first \in missed[r] :
          /\ first + MissingPeriod <= w.started
          /\ Cardinality({d \in missed[r] : d >= first}) >= ObservedDays
          /\ faults = 0 => seen[r] <= first
    BY <2>3 DEF Missing
  <2>5. w.started \in Nat /\ day \in Nat /\ w.started <= day /\ first \in Nat
    BY <1>1, <2>4, Numbers DEF IInv, TypeOK, Workers, Timely
  <2>6. first + MissingPeriod <= day
    BY <2>4, <2>5, Numbers
  <2>7. health[r] = "missing"
    BY <1>1, <2>2 DEF TakeOut
  <2> QED BY <2>1, <2>2, <2>4, <2>6, <2>7 DEF Abandoned, Unused
<1>2. IInv /\ [Next]_vars => [\A w \in workers : TakeOut(w) => \A r \in registry \ registry' : Abandoned(r)]_vars
  BY <1>1
<1> QED BY <1>2, Invariant, PTL DEF Spec, TakenOutIsAbandoned

\* Only cleanMetadata() takes metadata away, and only of what expired.
LEMMA OnlyCleaningForgets ==
  ASSUME IInv, Next, NEW r \in Repos, ~ (metadata[r] \subseteq metadata'[r])
  PROVE  CleanMetadata
<1>1. ASSUME NEW q \in Repos, Add(q) \/ Remove(q) \/ Restore(q) PROVE FALSE
  BY <1>1 DEF Add, Remove, Restore
<1>2. ASSUME NEW q \in Repos \cup {None}, Activate(q) PROVE FALSE
  BY <1>2 DEF Activate
<1>3. ASSUME NEW w \in workers, Probe(w) \/ AfterRecovery(w) \/ Reappeared(w) \/ TakeOut(w) PROVE FALSE
  BY <1>3 DEF Probe, AfterRecovery, Reappeared, TakeOut
<1>4. ASSUME (\E cleans \in BOOLEAN : Begin(cleans)) \/ AllChecked \/ Finish \/ Crash PROVE FALSE
  BY <1>4 DEF Begin, AllChecked, Finish, Crash
<1>5. ASSUME World PROVE FALSE
  BY <1>5 DEF World, IInv, TypeOK, Job, Plan, Describe, Drive, Tomorrow
<1> QED BY <1>1, <1>2, <1>3, <1>4, <1>5 DEF Next, Maintain

\* What is kept about a repository goes only when it is not listed, nothing
\* refers to it, and the period in which it can return is over since the last
\* time it left the list: no failed write or crash makes a ticket or claim older.
THEOREM ReturnIsPossible == Spec => MetadataOutlivesReturn
<1>1. ASSUME IInv, Next, NEW r \in Repos, ~ (metadata[r] \subseteq metadata'[r])
      PROVE  r \notin registry \cup busy \cup plans /\ left[r] + ReturnPeriod <= day
  <2> DEFINE claims == Claimed(Orphaned)
  <2>1. CleanMetadata
    BY <1>1, OnlyCleaningForgets
  <2>2. pass # None /\ pass.started \in Nat /\ pass.started <= day /\ day \in Nat /\ left[r] \in Nat
    BY <1>1, <2>1, Numbers DEF CleanMetadata, IInv, TypeOK, Passes, Timely
  <2>3. /\ claims \in States
        /\ claims.removed[r] = Orphaned.removed[r] /\ claims.orphan[r] \in {Orphaned.orphan[r], None}
        /\ Claims(Orphaned)
    BY <1>1, <2>2, OrphanedFields DEF Claimed, States
  <2> HIDE DEF claims
  <2>4. \E kept \in SUBSET Repos : r \in Expired(claims, kept)
    <3> SUFFICES ASSUME \A kept \in SUBSET Repos : r \notin Expired(claims, kept) PROVE FALSE
      OBVIOUS
    <3>1. metadata'[r] = metadata[r]
      BY <1>1, <2>1 DEF CleanMetadata, claims
    <3> QED BY <1>1, <3>1
  <2>5. PICK kept \in SUBSET Repos : r \in Expired(claims, kept)
    BY <2>4
  <2>6. r \notin registry \cup busy \cup plans /\ (Elapsed(claims.removed[r]) \/ Elapsed(claims.orphan[r]))
    BY <2>5 DEF Expired
  <2>7. PICK since \in Days : left[r] <= since /\ since + ReturnPeriod <= pass.started
    BY <1>1, <2>3, <2>6 DEF Elapsed, Claims, States
  <2> QED BY <2>2, <2>6, <2>7, Numbers
<1>2. IInv /\ [Next]_vars =>
        [\A r \in Repos : ~ (metadata[r] \subseteq metadata'[r]) =>
           /\ r \notin registry \cup busy \cup plans
           /\ left[r] + ReturnPeriod <= day]_vars
  BY <1>1
<1> QED BY <1>2, Invariant, PTL DEF Spec, MetadataOutlivesReturn

-----------------------------------------------------------------------------
\* What maintenance must not disturb is what RepositoryRun does: at most one
\* command of a workflow is alive, and its repository is busy.  A run ends with
\* a living command only by the force-stop timer, which remembers the run, or
\* when the system refuses a signal.

\* Only the active run runs.
RunningIsActive == \A r \in Runs : Running(r) => activeRun = r

\* Only the active run can be the one that was given up.
UnconfirmedIsActive == unconfirmed # NoRun => unconfirmed = activeRun

\* A living command belongs to a run that runs, was given up or refused a signal.
AliveIsKnown == \A r \in Runs \ refused : child[r] = "alive" => Running(r) \/ unconfirmed = r

\* OneWorkflow is not inductive: that the command of an earlier run is dead when
\* the next one starts follows from what CanStart reads, activeRun and
\* unconfirmed, only if these account for every living command.
RunIInv == RunTypeOK /\ RunningIsActive /\ UnconfirmedIsActive /\ AliveIsKnown

LEMMA InitRunIInv == RunInit => RunIInv
<1> SUFFICES ASSUME RunInit PROVE RunIInv
  OBVIOUS
<1>1. RunTypeOK
  BY StepsAssumption DEF RunInit, RunTypeOK, Phases, Statuses, Processes
<1>2. RunningIsActive /\ UnconfirmedIsActive /\ AliveIsKnown
  BY DEF RunInit, RunningIsActive, UnconfirmedIsActive, AliveIsKnown, Running
<1> QED BY <1>1, <1>2 DEF RunIInv

\* One lemma for each action that can disturb the invariant.
LEMMA LaunchStep ==
  ASSUME RunIInv, NEW r \in Runs, Launch(r)
  PROVE  RunIInv'
<1>1. activeRun # NoRun => ~Running(activeRun)
  BY DEF Launch, CanStart
<1>2. unconfirmed = NoRun /\ activeRun' = r /\ UNCHANGED <<unconfirmed, repo, stopVars>>
  BY DEF Launch, CanStart
<1>3. \A q \in Runs : ~Running(q) /\ (child[q] # "alive" \/ q \in refused)
  BY <1>1, <1>2, RunsAssumption DEF RunIInv, RunningIsActive, AliveIsKnown
<1>4. RunTypeOK'
  BY <1>2, StepsAssumption DEF RunIInv, Launch, RunTypeOK, Phases, Statuses, Processes, Spawned, stopVars
<1>5. /\ status'[r] = "running"
      /\ \A q \in Runs \ {r} : status'[q] = status[q] /\ child'[q] = child[q]
  BY DEF RunIInv, Launch, RunTypeOK
<1>6. RunningIsActive' /\ UnconfirmedIsActive'
  BY <1>2, <1>3, <1>5 DEF RunningIsActive, UnconfirmedIsActive, Running
<1>7. AliveIsKnown'
  <2> SUFFICES ASSUME NEW q \in Runs \ refused', child'[q] = "alive"
               PROVE  Running(q)' \/ unconfirmed' = q
    BY DEF AliveIsKnown
  <2>1. q \notin refused
    BY <1>2 DEF stopVars
  <2>2. q = r
    BY <1>3, <1>5, <2>1
  <2> QED BY <1>5, <2>2 DEF Running
<1> QED BY <1>4, <1>6, <1>7 DEF RunIInv

LEMMA ExitStep ==
  ASSUME RunIInv, NEW r \in Runs, Exit(r)
  PROVE  RunIInv'
<1>1. UNCHANGED <<callVars, status, step, stopVars, activeRun>> /\ unconfirmed' \in {unconfirmed, NoRun}
  BY DEF Exit, Released
<1>2. RunTypeOK'
  BY <1>1 DEF RunIInv, Exit, RunTypeOK, Processes, callVars, stopVars
<1>3. RunningIsActive' /\ UnconfirmedIsActive'
  BY <1>1 DEF RunIInv, RunningIsActive, UnconfirmedIsActive, Running
<1>4. AliveIsKnown'
  <2>1. child'[r] = "exited" /\ \A q \in Runs \ {r} : child'[q] = child[q]
    BY DEF RunIInv, Exit, RunTypeOK
  <2>2. \A q \in Runs \ {r} : unconfirmed = q => unconfirmed' = q
    BY DEF Exit, Released
  <2>3. UNCHANGED <<status, refused>>
    BY <1>1 DEF stopVars
  <2> SUFFICES ASSUME NEW q \in Runs \ refused', child'[q] = "alive"
               PROVE  Running(q)' \/ unconfirmed' = q
    BY DEF AliveIsKnown
  <2>4. q # r /\ q \notin refused /\ child[q] = "alive"
    BY <2>1, <2>3
  <2>5. Running(q) \/ unconfirmed = q
    BY <2>4 DEF RunIInv, AliveIsKnown
  <2> QED BY <2>2, <2>3, <2>4, <2>5 DEF Running
<1> QED BY <1>2, <1>3, <1>4 DEF RunIInv

LEMMA CloseStep ==
  ASSUME RunIInv, NEW r \in Runs, NEW ok \in BOOLEAN, Close(r, ok)
  PROVE  RunIInv'
<1>1. UNCHANGED <<callVars, cancelled, hardKill, refused, activeRun>> /\ unconfirmed' \in {unconfirmed, NoRun}
  BY DEF Close, Released
<1>2. /\ stopTimer' \in {stopTimer, stopTimer \ {r}} /\ forceTimer' \in {forceTimer, forceTimer \ {r}}
      /\ step' \in {step, [step EXCEPT ![r] = @ + 1]} /\ (step' # step => step[r] < Steps)
  BY DEF Close, EndRun, Continues
<1>3. \E s \in Statuses \ {"running"} : status' \in {status, [status EXCEPT ![r] = s]}
  BY DEF Close, EndRun, FinalStatus, Statuses
<1>4. \E p \in Processes : /\ child' = [child EXCEPT ![r] = p]
                           /\ p = "alive" => Running(r) /\ UNCHANGED status
  BY DEF Close, Spawned, Processes
<1>5. step' \in [Runs -> 0 .. Steps]
  BY <1>2, StepsAssumption DEF RunIInv, RunTypeOK
<1>6. RunTypeOK'
  <2>1. status' \in [Runs -> Statuses] /\ child' \in [Runs -> Processes]
    BY <1>3, <1>4 DEF RunIInv, RunTypeOK
  <2>2. stopTimer' \subseteq Runs /\ forceTimer' \subseteq Runs
    BY <1>2 DEF RunIInv, RunTypeOK
  <2>3. unconfirmed' \in Runs \cup {NoRun}
    BY <1>1 DEF RunIInv, RunTypeOK
  <2> QED BY <1>1, <1>5, <2>1, <2>2, <2>3 DEF RunIInv, RunTypeOK, callVars
<1>7. RunningIsActive'
  BY <1>1, <1>3 DEF RunIInv, RunTypeOK, RunningIsActive, Running
<1>8. UnconfirmedIsActive'
  BY <1>1 DEF RunIInv, UnconfirmedIsActive
<1>9. AliveIsKnown'
  <2>1. \A q \in Runs \ {r} : child'[q] = child[q] /\ status'[q] = status[q]
    BY <1>3, <1>4 DEF RunIInv, RunTypeOK
  <2>2. \A q \in Runs \ {r} : unconfirmed = q => unconfirmed' = q
    BY DEF Close, Released
  <2>3. child'[r] = "alive" => Running(r) /\ UNCHANGED status
    BY <1>4 DEF RunIInv, RunTypeOK
  <2> SUFFICES ASSUME NEW q \in Runs \ refused', child'[q] = "alive"
               PROVE  Running(q)' \/ unconfirmed' = q
    BY DEF AliveIsKnown
  <2>4. CASE q = r
    BY <2>3, <2>4 DEF Running
  <2>5. CASE q # r
    <3>1. q \notin refused /\ child[q] = "alive"
      BY <1>1, <2>1, <2>5
    <3>2. Running(q) \/ unconfirmed = q
      BY <3>1 DEF RunIInv, AliveIsKnown
    <3> QED BY <2>1, <2>2, <2>5, <3>2 DEF Running
  <2> QED BY <2>4, <2>5
<1> QED BY <1>6, <1>7, <1>8, <1>9 DEF RunIInv

\* A step that spawns nothing, releases nothing and ends a run only when its
\* command is dead or is remembered.
LEMMA QuietStep ==
  ASSUME RunIInv, NEW r \in Runs, UNCHANGED <<repo, step, activeRun>>,
         phase' = phase \/ \E to \in Phases : phase' = [phase EXCEPT ![r] = to],
         child' = child \/ child' = [child EXCEPT ![r] = "closed"],
         status' = status \/ \E s \in Statuses \ {"running"} : status' = [status EXCEPT ![r] = s],
         cancelled' \subseteq Runs, hardKill' \subseteq cancelled',
         stopTimer' \subseteq Runs, forceTimer' \subseteq Runs,
         unconfirmed' = unconfirmed \/ (unconfirmed' = r /\ Running(r)),
         refused \subseteq refused', refused' \subseteq Runs,
         status' = status \/ child[r] # "alive" \/ unconfirmed' = r \/ r \in refused'
  PROVE  RunIInv'
<1>1. RunTypeOK'
  BY DEF RunIInv, RunTypeOK, Processes
<1>2. \A q \in Runs : Running(q)' => Running(q)
  BY DEF RunIInv, RunTypeOK, Running, Statuses
<1>3. RunningIsActive'
  BY <1>2 DEF RunIInv, RunningIsActive
<1>4. UnconfirmedIsActive'
  BY DEF RunIInv, UnconfirmedIsActive, RunningIsActive
<1>5. AliveIsKnown'
  <2>1. unconfirmed' = r => unconfirmed \in {NoRun, r}
    BY RunsAssumption DEF RunIInv, UnconfirmedIsActive, RunningIsActive, RunTypeOK
  <2>2. \A q \in Runs : child'[q] = "alive" => child[q] = "alive"
    BY DEF RunIInv, RunTypeOK
  <2>3. \A q \in Runs \ {r} : status'[q] = status[q]
    BY DEF RunIInv, RunTypeOK
  <2>4. ASSUME NEW q \in Runs \ refused', child'[q] = "alive" PROVE Running(q)' \/ unconfirmed' = q
    <3>1. Running(q) \/ unconfirmed = q
      BY <2>2, <2>4 DEF RunIInv, AliveIsKnown
    <3>2. CASE q = r
      BY <2>2, <2>4, <3>1, <3>2 DEF Running
    <3>3. CASE q # r
      BY <2>1, <2>3, <3>1, <3>3, RunsAssumption DEF Running
    <3> QED BY <3>2, <3>3
  <2> QED BY <2>4 DEF AliveIsKnown
<1> QED BY <1>1, <1>3, <1>4, <1>5 DEF RunIInv

LEMMA CallStep ==
  ASSUME RunIInv, NEW r \in Runs, Start(r) \/ Refuse(r)
  PROVE  RunIInv'
<1>1. UNCHANGED <<repo, commandVars, stopVars, activeRun, unconfirmed>>
  BY DEF Start, Advance, Refuse
<1>2. \E to \in Phases : phase' = [phase EXCEPT ![r] = to]
  BY DEF Start, Advance, Refuse, Phases
<1> QED BY <1>1, <1>2, QuietStep DEF commandVars, stopVars, RunIInv, RunTypeOK

LEMMA SpawnErrorStep ==
  ASSUME RunIInv, NEW r \in Runs, SpawnError(r)
  PROVE  RunIInv'
<1>1. /\ child[r] # "alive" /\ child' = [child EXCEPT ![r] = "closed"]
      /\ UNCHANGED <<callVars, step, cancelled, hardKill, refused, activeRun, unconfirmed>>
  BY DEF SpawnError
<1>2. /\ status' = status \/ \E s \in Statuses \ {"running"} : status' = [status EXCEPT ![r] = s]
      /\ stopTimer' \in {stopTimer, stopTimer \ {r}} /\ forceTimer' \in {forceTimer, forceTimer \ {r}}
  BY DEF SpawnError, OnError, EndRun, Statuses
<1> QED BY <1>1, <1>2, QuietStep DEF callVars, RunIInv, RunTypeOK

LEMMA StopStep ==
  ASSUME RunIInv, NEW r \in Runs, Stop(r)
  PROVE  RunIInv'
<1>1. /\ cancelled' = cancelled \cup {r}
      /\ UNCHANGED <<callVars, step, child, hardKill, activeRun, unconfirmed>>
  BY DEF Stop
<1>2. /\ \/ status' = status
         \/ /\ child[r] # "alive" \/ r \in refused'
            /\ \E s \in Statuses \ {"running"} : status' = [status EXCEPT ![r] = s]
      /\ stopTimer' \in {stopTimer, stopTimer \cup {r}, stopTimer \ {r}}
      /\ forceTimer' \in {forceTimer, forceTimer \ {r}}
      /\ refused' \in {refused, refused \cup {r}}
  BY DEF Stop, Refused, OnError, EndRun, Statuses
<1> QED BY <1>1, <1>2, QuietStep DEF callVars, RunIInv, RunTypeOK

LEMMA EscalateStep ==
  ASSUME RunIInv, NEW r \in Runs, Escalate(r)
  PROVE  RunIInv'
<1>1. /\ hardKill' = hardKill \cup {r} /\ r \in cancelled
      /\ UNCHANGED <<callVars, step, child, cancelled, activeRun, unconfirmed>>
  BY DEF Escalate
<1>2. /\ \/ status' = status
         \/ /\ r \in refused'
            /\ \E s \in Statuses \ {"running"} : status' = [status EXCEPT ![r] = s]
      /\ stopTimer' = stopTimer \ {r} /\ forceTimer' \in {forceTimer \cup {r}, forceTimer \ {r}}
      /\ refused' \in {refused, refused \cup {r}}
  BY DEF Escalate, Refused, OnError, EndRun, Statuses
<1> QED BY <1>1, <1>2, QuietStep DEF callVars, RunIInv, RunTypeOK

LEMMA GiveUpStep ==
  ASSUME RunIInv, NEW r \in Runs, GiveUp(r)
  PROVE  RunIInv'
<1>1. /\ Running(r) /\ unconfirmed' = r
      /\ \E s \in Statuses \ {"running"} : status' = [status EXCEPT ![r] = s]
      /\ stopTimer' = stopTimer \ {r} /\ forceTimer' = forceTimer \ {r}
      /\ UNCHANGED <<callVars, step, child, cancelled, hardKill, refused, activeRun>>
  BY DEF GiveUp, EndRun, Statuses
<1> QED BY <1>1, QuietStep DEF callVars, RunIInv, RunTypeOK

LEMMA NextRunIInv == RunIInv /\ [RunNext]_runVars => RunIInv'
<1> SUFFICES ASSUME RunIInv, [RunNext]_runVars PROVE RunIInv'
  OBVIOUS
<1>1. ASSUME NEW r \in Runs, Start(r) \/ Refuse(r) PROVE RunIInv'
  BY <1>1, CallStep
<1>2. ASSUME NEW r \in Runs, Launch(r) PROVE RunIInv'
  BY <1>2, LaunchStep
<1>3. ASSUME NEW r \in Runs, Exit(r) \/ SpawnError(r) PROVE RunIInv'
  BY <1>3, ExitStep, SpawnErrorStep
<1>4. ASSUME NEW r \in Runs, NEW ok \in BOOLEAN, Close(r, ok) PROVE RunIInv'
  BY <1>4, CloseStep
<1>5. ASSUME NEW r \in Runs, Stop(r) \/ Escalate(r) \/ GiveUp(r) PROVE RunIInv'
  BY <1>5, StopStep, EscalateStep, GiveUpStep
<1>6. CASE UNCHANGED runVars
  BY <1>6 DEF runVars, callVars, commandVars, stopVars, RunIInv, RunTypeOK, RunningIsActive, UnconfirmedIsActive,
              AliveIsKnown, Running
<1> QED BY <1>1, <1>2, <1>3, <1>4, <1>5, <1>6 DEF RunNext

LEMMA RunInductive == RunSpec => []RunIInv
  BY InitRunIInv, NextRunIInv, PTL DEF RunSpec

\* Every variable of RepositoryRunService keeps its type.
THEOREM RunTypeCorrect == RunSpec => []RunTypeOK
<1>1. RunIInv => RunTypeOK
  BY DEF RunIInv
<1> QED BY <1>1, RunInductive, PTL

\* However start() calls, dialogs, stops, timers and refused signals interleave,
\* two workflow commands are never alive together, but for those that refused.
THEOREM OneWorkflowAtATime == RunSpec => []OneWorkflow
<1>1. ASSUME RunIInv PROVE OneWorkflow
  <2> DEFINE alive == {r \in Runs : child[r] = "alive"} \ refused
  <2>1. alive \subseteq {activeRun}
    BY <1>1, RunsAssumption DEF RunIInv, RunningIsActive, UnconfirmedIsActive, AliveIsKnown
  <2>2. IsFiniteSet({activeRun}) /\ Cardinality({activeRun}) = 1
    BY FS_Singleton
  <2>3. IsFiniteSet(alive) /\ Cardinality(alive) <= 1
    BY <2>1, <2>2, FS_Subset
  <2> QED BY <2>3 DEF OneWorkflow
<1>2. RunIInv => OneWorkflow
  BY <1>1
<1> QED BY <1>2, RunInductive, PTL

\* isRepositoryBusy() is true of the repository of every living command, also
\* of one that was given up, unless it refused a signal.
THEOREM LivingCommandsAreBusy == RunSpec => []AliveIsBusy
<1>1. RunIInv => AliveIsBusy
  BY RunsAssumption DEF RunIInv, RunningIsActive, UnconfirmedIsActive, AliveIsKnown, AliveIsBusy, Busy
<1> QED BY <1>1, RunInductive, PTL
=============================================================================
