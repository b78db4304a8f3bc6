---------------------------- MODULE GitScheduler ----------------------------
(***************************************************************************)
(* The per-repository job scheduler of electron/GitScheduler.ts.           *)
(*                                                                         *)
(* Every Git process the application starts for a repository is a job that *)
(* passes through one RepoState: a queue sorted by priority and three      *)
(* lanes.  At most one write runs, alone except for a pure remote read;    *)
(* at most one network job runs; up to MaxConcurrentReads local reads run. *)
(* Overlapping polls with the same key share one promise.  close() refuses *)
(* new calls and waits for the accepted ones.                              *)
(*                                                                         *)
(* JavaScript runs schedule(), the abort listener and the continuation of  *)
(* execute() each to its end without interleaving, so each is one action   *)
(* here, the trailing pump() included.  What interleaves is the arrival of *)
(* calls, the callers' abort signals, the ends of the Git processes, and   *)
(* close().                                                                *)
(*                                                                         *)
(* A call is a member of Jobs; its identity may be used again once its     *)
(* promise has settled, so behaviours are unbounded although Jobs is not.  *)
(***************************************************************************)
EXTENDS Naturals, FiniteSets

CONSTANTS
  Jobs,                \* identities of concurrently pending schedule() calls
  Keys,                \* coalescing keys of polls
  CallKinds,           \* the kinds of jobs the callers ask for
  RunResults,          \* the ways in which the jobs' runs end
  NoJob,               \* "null" in the lanes and in the coalescing map
  MaxConcurrentReads,  \* MAX_CONCURRENT_READS
  MaxBackgroundReads   \* MAX_BACKGROUND_READS

Kinds == {"write", "interactive", "polling", "background", "preflight",
          "network", "network-read", "background-fetch"}

ASSUME CallKindsAssumption == CallKinds \subseteq Kinds
Results == {"value", "error", "aborted"}

ASSUME RunResultsAssumption == RunResults \subseteq Results
ASSUME NoJobAssumption == NoJob \notin Jobs /\ NoJob \notin Keys
ASSUME LimitAssumption ==
  /\ MaxConcurrentReads \in Nat \ {0}
  /\ MaxBackgroundReads \in Nat \ {0}
  /\ MaxBackgroundReads <= MaxConcurrentReads
ASSUME JobsAssumption == IsFiniteSet(Jobs)

\* The sort order of the queue; smaller runs first.
Priority == [k \in Kinds |->
  CASE k = "write" -> 0
    [] k = "interactive" -> 1
    [] k = "polling" -> 2
    [] k \in {"background", "preflight"} -> 3
    [] k \in {"network", "network-read"} -> 4
    [] k = "background-fetch" -> 5]

BackgroundKinds == {"background", "preflight"}

ForegroundReadKinds_WithRemote ==    \* fault: the loop starts an ls-remote too
  {"interactive", "polling", "network-read"}
ForegroundReadKinds == {"interactive", "polling"}
\* Fetch and push change refs; only ls-remote ("network-read") does not.
MutatingNetworkKinds == {"network", "background-fetch"}

Signals == {"live", "aborted", "preempted"}
Outcomes == {"none", "pending", "value", "error", "aborted", "preempted"}

VARIABLES
  kind,       \* kind of a pending entry ("none" once its promise settled)
  key,        \* coalesceKey of a pending entry, NoJob when it has none
  queue,      \* the waiting entries, as a set ...
  ahead,      \* ... and, for each, the entries before it in the array
  reads,      \* activeReads
  write,      \* activeWrite
  network,    \* activeNetwork
  coalesced,  \* the coalescing map: key -> entry whose promise is shared
  signal,     \* state and reason of an entry's AbortController
  cancelled,  \* calls whose own options.signal has fired
  joined,     \* for a coalesced call, the entry whose promise it was given
  outcome,    \* what the call's promise settled with, if it did
  closing,    \* this.closing: "open", then "draining", then "closed"
  draining    \* the promises close() waits for

entryVars == <<kind, key, signal>>
laneVars == <<queue, ahead, reads, write, network, coalesced>>
callVars == <<cancelled, joined, outcome>>
closeVars == <<closing, draining>>
vars == <<entryVars, laneVars, callVars, closeVars>>

Init ==
  /\ kind = [j \in Jobs |-> "none"]
  /\ key = [j \in Jobs |-> NoJob]
  /\ signal = [j \in Jobs |-> "live"]
  /\ queue = {}
  /\ ahead = [j \in Jobs |-> {}]
  /\ reads = {}
  /\ write = NoJob
  /\ network = NoJob
  /\ coalesced = [k \in Keys |-> NoJob]
  /\ cancelled = {}
  /\ joined = [j \in Jobs |-> NoJob]
  /\ outcome = [j \in Jobs |-> "none"]
  /\ closing = "open"
  /\ draining = {}

Lanes == reads \cup ({write, network} \ {NoJob})
OfKind(S, kinds, kd) == {j \in S : kd[j] \in kinds}

-----------------------------------------------------------------------------
(***************************************************************************)
(* pump(): fill the lanes from the waiting entries W in their order ord.   *)
(* R, X and N are the lanes before, kd the kinds of the entries.  No entry *)
(* of W is aborted: the callers have dropped those (see Schedule, Abort).  *)
(***************************************************************************)

\* The first n members of S in the order of the queue.
FirstN(S, n, ord) == {j \in S : Cardinality(ord[j] \cap S) < n}

\* The first member of S in the order of the queue, as a set.
First(S, ord) == {j \in S : ord[j] \cap S = {}}

\* A running or waiting write holds fetch and push back.
NetworkHeld(W, X, kd) == X # NoJob \/ OfKind(W, {"write"}, kd) # {}

\* An ls-remote goes before all other network jobs.
NetworkChoice_MutatingFirst(pure, mutating) ==        \* fault: behind them
  IF mutating # {} THEN mutating ELSE pure
NetworkChoice(pure, mutating) == IF pure # {} THEN pure ELSE mutating

NetworkStart(W, X, N, ord, kd) ==
  IF N # NoJob THEN {}
  ELSE First(NetworkChoice(OfKind(W, {"network-read"}, kd),
                           IF NetworkHeld(W, X, kd) THEN {}
                           ELSE OfKind(W, MutatingNetworkKinds, kd)), ord)

\* A fetch or push owns the lane until its process has ended, aborted or not.
MutatingActive_ManualOnly(N, kd) ==        \* fault: a preempted one is ignored
  N # NoJob /\ kd[N] = "network"
MutatingActive(N, kd) == N # NoJob /\ kd[N] \in MutatingNetworkKinds

\* The first write, once no read and no fetch or push runs.
WriteStart(W, R, X, N, ord, kd) ==
  IF X # NoJob \/ R # {} \/ MutatingActive(N, kd) THEN {}
  ELSE First(OfKind(W, {"write"}, kd), ord)

\* A waiting write that only needs the reads to drain closes the read lane.
ReadsHeld_Never(W, N, kd) == FALSE                  \* fault: reads go on starting
ReadsHeld(W, N, kd) == OfKind(W, {"write"}, kd) # {} /\ ~MutatingActive(N, kd)

InteractiveActive(R, fore, kd) == OfKind(R \cup fore, {"interactive"}, kd) # {}

BackgroundBudget_OneTooFew(R, kd) ==                      \* fault: off by one
  MaxBackgroundReads - Cardinality(OfKind(R, BackgroundKinds, kd)) - 1
BackgroundBudget(R, kd) ==
  MaxBackgroundReads - Cardinality(OfKind(R, BackgroundKinds, kd))

\* The read loop takes the first entry it may start until the lane is full;
\* the queue is sorted, so it takes interactive reads and polls first (fore),
\* then background reads if no interactive read is active by then.
ReadStart(W, R, X, N, ord, kd) ==
  LET fore == FirstN(OfKind(W, ForegroundReadKinds, kd),
                     MaxConcurrentReads - Cardinality(R), ord)
      slots == MaxConcurrentReads - Cardinality(R \cup fore)
      budget == BackgroundBudget(R, kd)
      back == IF InteractiveActive(R, fore, kd) THEN {}
              ELSE FirstN(OfKind(W, BackgroundKinds, kd),
                          IF slots < budget THEN slots ELSE budget, ord)
  IN  IF X # NoJob \/ ReadsHeld(W, N, kd) THEN {} ELSE fore \cup back

Only(S) == IF S = {} THEN NoJob ELSE CHOOSE j \in S : TRUE
Or(S, j) == IF S = {} THEN j ELSE Only(S)

Pump(W, R, X, N, ord, kd) ==
  LET net == NetworkStart(W, X, N, ord, kd)
      N1 == Or(net, N)
      W1 == W \ {N1}
      wr == WriteStart(W1, R, X, N1, ord, kd)
      X1 == Or(wr, X)
      W2 == W1 \ {X1}
      rd == ReadStart(W2, R, X1, N1, ord, kd)
  IN  /\ network' = N1
      /\ write' = X1
      /\ reads' = R \cup rd
      /\ queue' = W2 \ rd
      /\ ahead' = [j \in Jobs |-> IF j \in W2 \ rd THEN ord[j] \cap (W2 \ rd)
                                  ELSE {}]

-----------------------------------------------------------------------------
(***************************************************************************)
(* Promises.  A coalesced call has the promise of the entry it joined.     *)
(***************************************************************************)

Entry(j) == IF joined[j] = NoJob THEN j ELSE joined[j]

\* The calls whose promise settles when the entries in S settle.
Settled_ForgetsFetch(S) ==               \* fault: a dropped fetch is forgotten
  {j \in Jobs : outcome[j] = "pending" /\ Entry(j) \in S
                /\ kind[j] # "background-fetch"}
Settled(S) == {j \in Jobs : outcome[j] = "pending" /\ Entry(j) \in S}

\* finishCoalesced(): forget the entries in S, and only those.
Uncoalesced_Kept(S) == coalesced         \* fault: the settled promise stays
Uncoalesced(S) ==
  [k \in Keys |-> IF coalesced[k] \in S THEN NoJob ELSE coalesced[k]]

\* A settled call keeps only its outcome.
Kept(f, S, blank) == [j \in Jobs |-> IF j \in S THEN blank ELSE f[j]]

-----------------------------------------------------------------------------
(***************************************************************************)
(* schedule() by call j of kind k; ck is the coalescing key of a poll; pre *)
(* says that the caller's signal was already aborted.                      *)
(***************************************************************************)

\* abortBackground(): the kinds a new job of kind k aborts.
BackgroundVictims(k) ==
  CASE k = "write" -> {"background", "preflight"}
    [] k = "interactive" -> {"background"}
    [] OTHER -> {}

\* preemptBackgroundFetch()
FetchVictims_Manual(k) ==                  \* fault: the user's transfers too
  IF k \in {"write", "network", "network-read"} THEN MutatingNetworkKinds ELSE {}
FetchVictims(k) ==
  IF k \in {"write", "network", "network-read"} THEN {"background-fetch"} ELSE {}

\* The outcome of a victim of kind v.
VictimOutcome(v) == IF v = "background-fetch" THEN "preempted" ELSE "aborted"

\* push() and the stable sort put a new entry of kind k behind the waiting
\* entries that its priority does not precede.
Before_NotStable(stay, k) ==                        \* fault: the sort swaps equals
  {i \in stay : Priority[kind[i]] < Priority[k]}
Before(stay, k) == {i \in stay : Priority[kind[i]] <= Priority[k]}

Schedule(j, k, ck, pre) ==
  LET victims == BackgroundVictims(k) \cup FetchVictims(k)
      dropped == OfKind(queue, victims, kind)
      interrupted == OfKind(reads, BackgroundVictims(k), kind)
                     \cup OfKind({network} \ {NoJob}, FetchVictims(k), kind)
      stay == queue \ dropped
      W == IF pre THEN stay ELSE stay \cup {j}
      before == Before(stay, k)
      ord == [i \in Jobs |->
                IF i = j THEN before
                ELSE IF i \in stay \ before /\ ~pre
                THEN (ahead[i] \cap stay) \cup {j}
                ELSE ahead[i] \cap stay]
      gone == Settled(dropped)
      blank == gone \cup (IF pre THEN {j} ELSE {})
      entered == [kind EXCEPT ![j] = k]
  IN  /\ closing = "open"
      /\ outcome[j] # "pending"
      /\ k = "polling" => coalesced[ck] = NoJob
      /\ Pump(W, reads, write, network, ord, entered)
      /\ kind' = Kept(entered, blank, "none")
      /\ key' = Kept([key EXCEPT ![j] = IF k = "polling" THEN ck ELSE NoJob],
                     blank, NoJob)
      /\ signal' = [i \in Jobs |->
           IF i \in interrupted /\ signal[i] = "live" THEN VictimOutcome(kind[i])
           ELSE IF i = j \/ i \in gone THEN "live"
           ELSE signal[i]]
      /\ coalesced' = IF k = "polling" /\ ~pre
                      THEN [coalesced EXCEPT ![ck] = j]
                      ELSE coalesced
      /\ outcome' = [i \in Jobs |->
           IF i \in gone THEN VictimOutcome(kind[i])
           ELSE IF i = j THEN (IF pre THEN "aborted" ELSE "pending")
           ELSE outcome[i]]
      /\ cancelled' = cancelled \ ({j} \cup gone)
      /\ joined' = Kept(joined, gone, NoJob)
      /\ UNCHANGED closeVars

\* A poll whose key is already being polled gets that entry's promise; its
\* own signal is not attached to anything.
Join(j, ck) ==
  /\ closing = "open"
  /\ outcome[j] # "pending"
  /\ coalesced[ck] # NoJob
  /\ joined' = [joined EXCEPT ![j] = coalesced[ck]]
  /\ outcome' = [outcome EXCEPT ![j] = "pending"]
  /\ UNCHANGED <<entryVars, laneVars, cancelled, closeVars>>

\* After close() every call is rejected before it touches a queue.
Refuse(j) ==
  /\ closing # "open"
  /\ outcome[j] # "pending"
  /\ outcome' = [outcome EXCEPT ![j] = "aborted"]
  /\ UNCHANGED <<entryVars, laneVars, cancelled, joined, closeVars>>

(***************************************************************************)
(* The caller's AbortSignal fires: the listener aborts the controller and  *)
(* calls rejectIfQueued().  It does not pump.                              *)
(***************************************************************************)
Abort(j) ==
  LET gone == Settled({j}) IN
  /\ outcome[j] = "pending"
  /\ joined[j] = NoJob
  /\ j \notin cancelled
  /\ IF j \in queue
     THEN /\ queue' = queue \ {j}
          /\ ahead' = [i \in Jobs |-> IF i = j THEN {} ELSE ahead[i] \ {j}]
          /\ coalesced' = Uncoalesced({j})
          /\ outcome' = [i \in Jobs |->
                           IF i \in gone THEN "aborted" ELSE outcome[i]]
          /\ joined' = Kept(joined, gone, NoJob)
          /\ kind' = [kind EXCEPT ![j] = "none"]
          /\ key' = [key EXCEPT ![j] = NoJob]
          /\ UNCHANGED <<signal, cancelled>>
     ELSE /\ cancelled' = cancelled \cup {j}
          /\ signal' = [signal EXCEPT ![j] = IF @ = "live" THEN "aborted" ELSE @]
          /\ UNCHANGED <<queue, ahead, coalesced, outcome, joined, kind, key>>
  /\ UNCHANGED <<reads, write, network, closeVars>>

(***************************************************************************)
(* The Git process of an active job ends with a value, an error or an      *)
(* AbortError of its own; execute() settles the promise, frees the lane,   *)
(* forgets the coalescing entry and pumps.  A run may return a value after *)
(* its signal was aborted; a background fetch is then rejected all the     *)
(* same.                                                                   *)
(***************************************************************************)
FinishOutcome_ReasonOnly(j, result) ==    \* fault: the reason of a live signal
  IF result = "value" THEN "value" ELSE signal[j]
FinishOutcome(j, result) ==
  CASE signal[j] = "live" -> result
    [] result = "value" /\ kind[j] # "background-fetch" -> "value"
    [] OTHER -> signal[j]

Finish(j, result) ==
  LET gone == Settled({j}) IN
  /\ j \in Lanes
  /\ kind' = [kind EXCEPT ![j] = "none"]
  /\ outcome' = [i \in Jobs |->
                   IF i \in gone THEN FinishOutcome(j, result) ELSE outcome[i]]
  /\ joined' = Kept(joined, gone, NoJob)
  /\ coalesced' = Uncoalesced({j})
  /\ key' = [key EXCEPT ![j] = NoJob]
  /\ signal' = [signal EXCEPT ![j] = "live"]
  /\ cancelled' = cancelled \ {j}
  /\ Pump(queue, reads \ {j},
          IF write = j THEN NoJob ELSE write,
          IF network = j THEN NoJob ELSE network, ahead, kind)
  /\ UNCHANGED closeVars

(***************************************************************************)
(* close() collects the promises of all queued and active entries; the     *)
(* promise it returns is fulfilled when they have settled.                 *)
(***************************************************************************)
Awaited == queue \cup Lanes

Close ==
  /\ closing = "open"
  /\ closing' = "draining"
  /\ draining' = Awaited
  /\ UNCHANGED <<entryVars, laneVars, callVars>>

Closed ==
  /\ closing = "draining"
  /\ \A j \in draining : outcome[j] # "pending"
  /\ closing' = "closed"
  /\ UNCHANGED <<entryVars, laneVars, callVars, draining>>

-----------------------------------------------------------------------------
Next ==
  \/ \E j \in Jobs, k \in CallKinds, ck \in Keys, pre \in BOOLEAN :
       Schedule(j, k, ck, pre)
  \/ \E j \in Jobs, ck \in Keys : Join(j, ck)
  \/ \E j \in Jobs : Refuse(j)
  \/ \E j \in Jobs : Abort(j)
  \/ \E j \in Jobs, result \in RunResults : Finish(j, result)
  \/ Close
  \/ Closed

\* The scheduler promises nothing about jobs that never end: a Git process is
\* assumed to exit at some time (the runners kill it on abort), and settled
\* promises to resume close().  Nothing is assumed of calls and signals.
Fairness ==
  /\ \A j \in Jobs : WF_vars(\E result \in RunResults : Finish(j, result))
  /\ WF_vars(Closed)

Spec == Init /\ [][Next]_vars
FairSpec == Spec /\ Fairness

-----------------------------------------------------------------------------
(***************************************************************************)
(* Properties                                                              *)
(***************************************************************************)

TypeOK ==
  /\ kind \in [Jobs -> Kinds \cup {"none"}]
  /\ key \in [Jobs -> Keys \cup {NoJob}]
  /\ signal \in [Jobs -> Signals]
  /\ queue \subseteq Jobs
  /\ ahead \in [Jobs -> SUBSET Jobs]
  /\ reads \subseteq Jobs
  /\ write \in Jobs \cup {NoJob}
  /\ network \in Jobs \cup {NoJob}
  /\ coalesced \in [Keys -> Jobs \cup {NoJob}]
  /\ cancelled \subseteq Jobs
  /\ joined \in [Jobs -> Jobs \cup {NoJob}]
  /\ outcome \in [Jobs -> Outcomes]
  /\ closing \in {"open", "draining", "closed"}
  /\ draining \subseteq Jobs

\* A write runs with no local read and no fetch or push beside it, also while
\* an aborted read or a preempted fetch has not yet exited ("Never release a
\* write merely because abort() was requested").
WriteRunsAlone ==
  write # NoJob =>
    /\ reads = {}
    /\ network # NoJob => kind[network] = "network-read"

\* Every pending entry waits in the queue or holds the lane of its kind, once;
\* nothing else does.  A promise can neither be lost nor settle while its
\* process still runs.
OnePlace ==
  /\ \A j \in Jobs : (outcome[j] = "pending" /\ joined[j] = NoJob)
                     <=> j \in queue \cup Lanes
  /\ queue \cap Lanes = {}
  /\ write \notin reads /\ network \notin reads
  /\ write = network => write = NoJob
  /\ \A j \in reads : kind[j] \in {"interactive", "polling", "background", "preflight"}
  /\ write # NoJob => kind[write] = "write"
  /\ network # NoJob => kind[network] \in MutatingNetworkKinds \cup {"network-read"}

\* A coalescing key leads to a live entry of that key, and an entry of a key
\* is the one the key leads to: a later poll is never handed a promise that
\* settled before it was asked, and two polls of a key never run at once.
CoalescedIsLive ==
  /\ \A k \in Keys : coalesced[k] # NoJob =>
       /\ coalesced[k] \in queue \cup Lanes
       /\ key[coalesced[k]] = k
  /\ \A j \in queue \cup Lanes : key[j] # NoJob => coalesced[key[j]] = j
  /\ \A j \in Jobs : joined[j] # NoJob =>
       /\ outcome[j] = "pending"
       /\ joined[j] \in queue \cup Lanes

\* A job never waits for nothing: while anything is queued some process runs
\* whose end pumps the queue again.
NoStall == queue # {} => Lanes # {}

\* The signal of a job other than background work and background fetches is
\* never touched for another job's sake: accepted writes are not interrupted,
\* and what waits in the queue was not given up.
Durable == {"write", "interactive", "polling", "network", "network-read"}
AcceptedJobsAreKept ==
  /\ \A j \in Lanes : kind[j] \in Durable /\ signal[j] # "live" => j \in cancelled
  /\ \A j \in queue : signal[j] = "live" /\ j \notin cancelled

\* The scheduler is a first-come-first-served write lock that reads, fetches
\* and pushes share: a write holds the repository alone, and two writes get it
\* in the order in which schedule() accepted them.
WaitingWrites == OfKind(queue, {"write"}, kind)
Lock == INSTANCE RepositoryLock WITH
  Clients <- Jobs,
  Nobody <- NoJob,
  line <- WaitingWrites,
  before <- [j \in Jobs |-> IF j \in WaitingWrites THEN ahead[j] \cap WaitingWrites
                           ELSE {}],
  holder <- write,
  sharers <- reads \cup OfKind({network} \ {NoJob}, {"network", "background-fetch"}, kind)
ImplementsLock == Lock!Spec

\* Every accepted write runs to an end or is given up by its caller, and so
\* does every pure remote read, whatever else keeps arriving.  (Background
\* work, reads, and fetches have no such promise: writes overtake them.)
WritesAreServed ==
  \A j \in Jobs : (j \in queue /\ kind[j] = "write") ~> (outcome[j] # "pending")
RemoteReadsAreServed ==
  \A j \in Jobs : (j \in queue /\ kind[j] = "network-read") ~> (outcome[j] # "pending")

\* A requested shutdown completes, and with it every accepted job.
ShutdownCompletes == (closing = "draining") ~> (closing = "closed")
=============================================================================
