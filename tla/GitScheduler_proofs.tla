------------------------ MODULE GitScheduler_proofs ------------------------
(***************************************************************************)
(* Proofs about electron/GitScheduler.ts, for any set of calls, keys and   *)
(* limits.  In this order:                                                 *)
(*                                                                         *)
(*   - the lanes exclude each other.  Only pump() fills lanes, so one      *)
(*     lemma about Pump carries every action that pumps; the others only   *)
(*     empty the queue or touch no lane;                                   *)
(*   - promises are kept: a coalesced poll is pending and an accepted job  *)
(*     is not forgotten;                                                   *)
(*   - seen from its writes and from what shares the repository with them, *)
(*     the scheduler implements RepositoryLock;                            *)
(*   - the queue never stalls: pump() starts what nothing keeps from       *)
(*     starting, because its first entry of each kind can start;           *)
(*   - RepositoryKeys: aliases of a repository share one scheduler.        *)
(***************************************************************************)
EXTENDS GitScheduler, RepositoryKeys, FiniteSetTheorems, WellFoundedInduction, TLAPS

Busy(R, X, N) == R \cup ({X, N} \ {NoJob})

\* OnePlace and WriteRunsAlone of lanes that need not be the current ones.
Placed(W, R, X, N, kd) ==
  /\ W \cap Busy(R, X, N) = {}
  /\ X \notin R /\ N \notin R
  /\ X = N => X = NoJob
  /\ \A j \in R : kd[j] \in {"interactive", "polling", "background", "preflight"}
  /\ X # NoJob => kd[X] = "write"
  /\ N # NoJob => kd[N] \in MutatingNetworkKinds \cup {"network-read"}

Alone(R, X, N, kd) ==
  X # NoJob => R = {} /\ (N # NoJob => kd[N] = "network-read")

\* pump() moves entries from the queue to free lanes of their kind, loses and
\* invents none, and never puts a write beside a read, a fetch or a push.
LEMMA PumpFillsLanes ==
  ASSUME NEW W \in SUBSET Jobs, NEW R \in SUBSET Jobs,
         NEW X \in Jobs \cup {NoJob}, NEW N \in Jobs \cup {NoJob},
         NEW ord \in [Jobs -> SUBSET Jobs],
         NEW kd \in [Jobs -> Kinds \cup {"none"}],
         Placed(W, R, X, N, kd), Alone(R, X, N, kd),
         Pump(W, R, X, N, ord, kd)
  PROVE  /\ queue' \subseteq Jobs /\ reads' \subseteq Jobs
         /\ write' \in Jobs \cup {NoJob} /\ network' \in Jobs \cup {NoJob}
         /\ ahead' \in [Jobs -> SUBSET Jobs]
         /\ Placed(queue', reads', write', network', kd)
         /\ Alone(reads', write', network', kd)
         /\ queue' \cup Busy(reads', write', network') = W \cup Busy(R, X, N)
<1> DEFINE net == NetworkStart(W, X, N, ord, kd)
           N1 == Or(net, N)
           W1 == W \ {N1}
           wr == WriteStart(W1, R, X, N1, ord, kd)
           X1 == Or(wr, X)
           W2 == W1 \ {X1}
           rd == ReadStart(W2, R, X1, N1, ord, kd)
<1>1. /\ network' = N1 /\ write' = X1 /\ reads' = R \cup rd
      /\ queue' = W2 \ rd
      /\ ahead' = [j \in Jobs |-> IF j \in W2 \ rd THEN ord[j] \cap (W2 \ rd)
                                  ELSE {}]
  BY DEF Pump
<1>2. ASSUME NEW S, NEW j
      PROVE  \/ S = {} /\ Or(S, j) = j
             \/ Or(S, j) \in S
  BY DEF Or, Only
<1>3. \/ net = {} /\ N1 = N
      \/ /\ N = NoJob /\ N1 \in W
         /\ \/ kd[N1] = "network-read"
            \/ kd[N1] \in MutatingNetworkKinds /\ X = NoJob
  BY <1>2 DEF NetworkStart, NetworkChoice, NetworkHeld, First, OfKind
<1>4. \/ wr = {} /\ X1 = X
      \/ /\ X = NoJob /\ R = {} /\ X1 \in W1 /\ kd[X1] = "write"
         /\ N1 # NoJob => kd[N1] \notin MutatingNetworkKinds
  BY <1>2 DEF WriteStart, MutatingActive, First, OfKind
<1>5. /\ rd \subseteq W2
      /\ rd # {} => X1 = NoJob
      /\ \A j \in rd : kd[j] \in {"interactive", "polling", "background", "preflight"}
  BY DEF ReadStart, FirstN, OfKind, ForegroundReadKinds,
         BackgroundKinds
<1>6. N1 # NoJob => kd[N1] \in MutatingNetworkKinds \cup {"network-read"}
  BY <1>3 DEF Placed
<1>7. X1 # NoJob => kd[X1] = "write"
  BY <1>4 DEF Placed
<1>8. Alone(reads', write', network', kd)
  <2>1. CASE X1 = X
    <3>1. N1 # NoJob /\ X # NoJob => kd[N1] = "network-read"
      BY <1>3 DEF Alone, Placed
    <3> QED BY <1>1, <1>5, <2>1, <3>1 DEF Alone
  <2>2. CASE X1 # X
    BY <1>1, <1>4, <1>5, <1>6, <2>2 DEF Alone
  <2> QED BY <2>1, <2>2
<1>9. Placed(queue', reads', write', network', kd)
  <2>1. N1 \notin R /\ X1 \notin R
    BY <1>3, <1>4, NoJobAssumption DEF Placed, Busy
  <2>2. X1 = N1 => X1 = NoJob
    BY <1>3, <1>4, <1>6, <1>7 DEF Placed, MutatingNetworkKinds
  <2>3. W2 \cap Busy(R, X1, N1) = {}
    BY <1>3, <1>4 DEF Placed, Busy
  <2> QED BY <1>1, <1>5, <1>6, <1>7, <2>1, <2>2, <2>3 DEF Placed, Busy
<1>10. queue' \cup Busy(reads', write', network') = W \cup Busy(R, X, N)
  <2>1. W1 \cup Busy(R, X, N1) = W \cup Busy(R, X, N)
    BY <1>3, NoJobAssumption DEF Busy
  <2>2. W2 \cup Busy(R, X1, N1) = W1 \cup Busy(R, X, N1)
    BY <1>4, NoJobAssumption DEF Busy
  <2>3. (W2 \ rd) \cup Busy(R \cup rd, X1, N1) = W2 \cup Busy(R, X1, N1)
    BY <1>5 DEF Busy
  <2> QED BY <1>1, <2>1, <2>2, <2>3
<1> QED BY <1>1, <1>3, <1>4, <1>5, <1>8, <1>9, <1>10

-----------------------------------------------------------------------------
\* Only entries have a place of their own; a call that joined one is pending.
JoinedIsPending == \A j \in Jobs : joined[j] # NoJob => outcome[j] = "pending"

\* The inductive invariant.  WriteRunsAlone alone is not inductive: schedule()
\* gives a free identity a new kind and settlement takes the kind away, so one
\* has to know that neither happens to an entry that holds a lane (OnePlace),
\* and for that, that a joined call never looks like an entry.
IInv == TypeOK /\ OnePlace /\ WriteRunsAlone /\ JoinedIsPending

LEMMA InvariantParts ==
  /\ OnePlace <=> /\ \A j \in Jobs : (outcome[j] = "pending" /\ joined[j] = NoJob)
                                    <=> j \in queue \cup Busy(reads, write, network)
                  /\ Placed(queue, reads, write, network, kind)
  /\ WriteRunsAlone <=> Alone(reads, write, network, kind)
BY DEF OnePlace, Placed, WriteRunsAlone, Alone, Lanes, Busy

\* Both invariants only look at the kinds of the entries in the lanes.
LEMMA KindsOutsideLanesAreFree ==
  ASSUME NEW W \in SUBSET Jobs, NEW R \in SUBSET Jobs,
         NEW X \in Jobs \cup {NoJob}, NEW N \in Jobs \cup {NoJob},
         NEW kd, NEW kd2, \A j \in Busy(R, X, N) : kd2[j] = kd[j],
         Placed(W, R, X, N, kd), Alone(R, X, N, kd)
  PROVE  Placed(W, R, X, N, kd2) /\ Alone(R, X, N, kd2)
BY DEF Placed, Alone, Busy

LEMMA InitIInv == Init => IInv
<1> SUFFICES ASSUME Init PROVE IInv
  OBVIOUS
<1>1. TypeOK
  BY DEF Init, TypeOK, Signals, Outcomes
<1>2. OnePlace
  BY NoJobAssumption DEF Init, OnePlace, Lanes
<1>3. WriteRunsAlone /\ JoinedIsPending
  BY DEF Init, WriteRunsAlone, JoinedIsPending
<1> QED BY <1>1, <1>2, <1>3 DEF IInv

LEMMA ScheduleIInv ==
  ASSUME IInv, NEW j \in Jobs, NEW k \in CallKinds, NEW ck \in Keys,
         NEW pre \in BOOLEAN, Schedule(j, k, ck, pre)
  PROVE  IInv'
<1> DEFINE victims == BackgroundVictims(k) \cup FetchVictims(k)
           dropped == OfKind(queue, victims, kind)
           interrupted == OfKind(reads, BackgroundVictims(k), kind)
                     \cup OfKind({network} \ {NoJob}, FetchVictims(k), kind)
           stay == queue \ dropped
           W == IF pre THEN stay ELSE stay \cup {j}
           before == Before(stay, k)
           ord == [i \in Jobs |->
                IF i = j THEN before
                ELSE IF i \in stay \ before /\ ~pre
                THEN (ahead[i] \cap stay) \cup {j}
                ELSE ahead[i] \cap stay]
           gone == Settled(dropped)
           blank == gone \cup (IF pre THEN {j} ELSE {})
           entered == [kind EXCEPT ![j] = k]
<1> USE DEF IInv
<1>1. /\ outcome[j] # "pending"
      /\ Pump(W, reads, write, network, ord, entered)
      /\ kind' = Kept(entered, blank, "none")
      /\ key' = Kept([key EXCEPT ![j] = IF k = "polling" THEN ck ELSE NoJob],
                     blank, NoJob)
      /\ signal' = [i \in Jobs |->
           IF i \in interrupted /\ signal[i] = "live" THEN VictimOutcome(kind[i])
           ELSE IF i = j \/ i \in gone THEN "live"
           ELSE signal[i]]
      /\ coalesced' = IF k = "polling" /\ ~pre
                      THEN [coalesced EXCEPT ![ck] = j]
                      ELSE coalesced
      /\ outcome' = [i \in Jobs |->
           IF i \in gone THEN VictimOutcome(kind[i])
           ELSE IF i = j THEN (IF pre THEN "aborted" ELSE "pending")
           ELSE outcome[i]]
      /\ cancelled' = cancelled \ ({j} \cup gone)
      /\ joined' = Kept(joined, gone, NoJob)
      /\ UNCHANGED closeVars
  BY DEF Schedule
<1>2. /\ \A i \in Jobs : (outcome[i] = "pending" /\ joined[i] = NoJob)
                        <=> i \in queue \cup Busy(reads, write, network)
      /\ Placed(queue, reads, write, network, kind)
      /\ Alone(reads, write, network, kind)
  BY InvariantParts
<1>3. k \in Kinds /\ joined[j] = NoJob
  BY <1>1, CallKindsAssumption DEF JoinedIsPending
<1>4. j \notin queue \cup Busy(reads, write, network)
  BY <1>1, <1>2
<1>5. stay \subseteq queue /\ W \subseteq Jobs /\ before \subseteq stay
  BY DEF TypeOK, Before
<1>6. /\ entered \in [Jobs -> Kinds \cup {"none"}]
      /\ ord \in [Jobs -> SUBSET Jobs]
  BY <1>3, <1>5 DEF TypeOK
<1>7. Placed(W, reads, write, network, entered) /\ Alone(reads, write, network, entered)
  <2>1. \A i \in Busy(reads, write, network) : entered[i] = kind[i]
    BY <1>4 DEF TypeOK, Busy
  <2>2. Placed(queue, reads, write, network, entered)
        /\ Alone(reads, write, network, entered)
    BY <1>2, <2>1, KindsOutsideLanesAreFree DEF TypeOK
  <2> QED BY <2>2, <1>4, <1>5 DEF Placed
<1>8. /\ queue' \subseteq Jobs /\ reads' \subseteq Jobs
      /\ write' \in Jobs \cup {NoJob} /\ network' \in Jobs \cup {NoJob}
      /\ ahead' \in [Jobs -> SUBSET Jobs]
      /\ Placed(queue', reads', write', network', entered)
      /\ Alone(reads', write', network', entered)
      /\ queue' \cup Busy(reads', write', network') = W \cup Busy(reads, write, network)
  <2> HIDE DEF W, ord, entered
  <2> QED BY <1>1, <1>5, <1>6, <1>7, PumpFillsLanes DEF TypeOK
<1>9. gone = dropped
        \cup {c \in Jobs : outcome[c] = "pending" /\ joined[c] # NoJob /\ joined[c] \in dropped}
  BY <1>2 DEF Settled, Entry, OfKind, TypeOK
<1>10. blank \cap (W \cup Busy(reads, write, network)) = {}
  <2>1. dropped \cap (W \cup Busy(reads, write, network)) = {}
    BY <1>2, <1>4 DEF Placed, OfKind
  <2>2. \A c \in gone : joined[c] # NoJob =>
           c \notin W \cup Busy(reads, write, network)
    BY <1>2, <1>3, <1>5 DEF Settled
  <2>3. j \notin gone
    BY <1>1 DEF Settled
  <2> QED BY <1>4, <1>5, <1>9, <2>1, <2>2, <2>3
<1>11. TypeOK'
  <2>1. kind' \in [Jobs -> Kinds \cup {"none"}] /\ key' \in [Jobs -> Keys \cup {NoJob}]
    BY <1>1, <1>6 DEF TypeOK, Kept
  <2>2. signal' \in [Jobs -> Signals] /\ outcome' \in [Jobs -> Outcomes]
    BY <1>1 DEF TypeOK, VictimOutcome, Signals, Outcomes
  <2>3. coalesced' \in [Keys -> Jobs \cup {NoJob}]
    BY <1>1 DEF TypeOK
  <2>4. cancelled' \subseteq Jobs /\ joined' \in [Jobs -> Jobs \cup {NoJob}]
    BY <1>1 DEF TypeOK, Kept
  <2>5. closing' \in {"open", "draining", "closed"} /\ draining' \subseteq Jobs
    BY <1>1 DEF TypeOK, closeVars
  <2> QED BY <1>8, <2>1, <2>2, <2>3, <2>4, <2>5 DEF TypeOK
<1>12. Placed(queue', reads', write', network', kind')
       /\ Alone(reads', write', network', kind')
  <2>1. \A i \in Busy(reads', write', network') : kind'[i] = entered[i]
    <3>1. \A i \in Busy(reads', write', network') : i \in Jobs /\ i \notin blank
      BY <1>8, <1>10 DEF Busy
    <3> QED BY <1>1, <3>1 DEF Kept
  <2> HIDE DEF entered
  <2> QED BY <1>8, <2>1, KindsOutsideLanesAreFree
<1>13. \A i \in Jobs : (outcome'[i] = "pending" /\ joined'[i] = NoJob)
                     <=> i \in queue' \cup Busy(reads', write', network')
  <2> SUFFICES ASSUME NEW i \in Jobs
               PROVE  (outcome'[i] = "pending" /\ joined'[i] = NoJob)
                        <=> i \in W \cup Busy(reads, write, network)
    BY <1>8
  <2>1. CASE i \in gone
    <3>1. outcome'[i] # "pending"
      BY <1>1, <2>1 DEF VictimOutcome
    <3> QED BY <2>1, <3>1, <1>10
  <2>2. CASE i \notin gone /\ i = j
    <3>1. joined'[i] = NoJob
      BY <1>1, <1>3, <2>2 DEF Kept
    <3>2. outcome'[i] = "pending" <=> ~pre
      BY <1>1, <2>2
    <3> QED BY <2>2, <3>1, <3>2, <1>4, <1>5
  <2>3. CASE i \notin gone /\ i # j
    <3>1. outcome'[i] = outcome[i] /\ joined'[i] = joined[i]
      BY <1>1, <2>3 DEF Kept
    <3>2. i \notin dropped
      BY <1>9, <2>3
    <3> QED BY <2>3, <3>1, <3>2, <1>2
  <2> QED BY <2>1, <2>2, <2>3
<1>14. JoinedIsPending'
  BY <1>1, <1>3 DEF JoinedIsPending, Kept, TypeOK
<1>15. OnePlace' /\ WriteRunsAlone'
  BY <1>12, <1>13 DEF OnePlace, Placed, WriteRunsAlone, Alone, Lanes, Busy
<1> QED BY <1>11, <1>14, <1>15

\* An entry that settles takes the calls that joined it with it, and nobody
\* else: afterwards exactly the entries outside S are pending entries.
LEMMA SettlingOne ==
  ASSUME TypeOK, JoinedIsPending, NEW j \in Jobs,
         outcome[j] = "pending", joined[j] = NoJob,
         NEW result \in Outcomes \ {"pending"},
         outcome' = [i \in Jobs |->
                       IF i \in Settled({j}) THEN result ELSE outcome[i]],
         joined' = Kept(joined, Settled({j}), NoJob)
  PROVE  /\ outcome' \in [Jobs -> Outcomes] /\ joined' \in [Jobs -> Jobs \cup {NoJob}]
         /\ JoinedIsPending'
         /\ \A i \in Jobs : (outcome'[i] = "pending" /\ joined'[i] = NoJob)
              <=> (i # j /\ outcome[i] = "pending" /\ joined[i] = NoJob)
<1>1. outcome' \in [Jobs -> Outcomes] /\ joined' \in [Jobs -> Jobs \cup {NoJob}]
  BY DEF TypeOK, Kept
<1>2. JoinedIsPending'
  BY DEF JoinedIsPending, Kept, TypeOK
<1>3. j \in Settled({j})
  BY DEF Settled, Entry
<1>4. ASSUME NEW i \in Jobs
      PROVE  (outcome'[i] = "pending" /\ joined'[i] = NoJob)
               <=> (i # j /\ outcome[i] = "pending" /\ joined[i] = NoJob)
  <2>1. CASE i \in Settled({j})
    BY <1>3, <2>1 DEF Settled, Entry
  <2>2. CASE i \notin Settled({j})
    BY <1>3, <2>2 DEF Kept
  <2> QED BY <2>1, <2>2
<1> QED BY <1>1, <1>2, <1>4

LEMMA FinishIInv ==
  ASSUME IInv, NEW j \in Jobs, NEW result \in RunResults, Finish(j, result)
  PROVE  IInv'
<1> DEFINE R == reads \ {j}
           X == IF write = j THEN NoJob ELSE write
           N == IF network = j THEN NoJob ELSE network
<1> USE DEF IInv
<1>1. /\ \A i \in Jobs : (outcome[i] = "pending" /\ joined[i] = NoJob)
                        <=> i \in queue \cup Busy(reads, write, network)
      /\ Placed(queue, reads, write, network, kind)
      /\ Alone(reads, write, network, kind)
  BY InvariantParts
<1>2. j \in Busy(reads, write, network) /\ j \notin queue
  BY <1>1 DEF Finish, Lanes, Busy, Placed
<1>3. /\ R \in SUBSET Jobs /\ X \in Jobs \cup {NoJob} /\ N \in Jobs \cup {NoJob}
      /\ Placed(queue, R, X, N, kind) /\ Alone(R, X, N, kind)
      /\ queue \cup Busy(R, X, N) = (queue \cup Busy(reads, write, network)) \ {j}
  <2>1. R \in SUBSET Jobs /\ X \in Jobs \cup {NoJob} /\ N \in Jobs \cup {NoJob}
    BY DEF TypeOK
  <2>2. Placed(queue, R, X, N, kind) /\ Alone(R, X, N, kind)
    BY <1>1 DEF Placed, Alone, Busy
  <2>3. Busy(R, X, N) = Busy(reads, write, network) \ {j}
    BY NoJobAssumption DEF Busy
  <2> QED BY <1>2, <2>1, <2>2, <2>3
<1>4. /\ queue' \subseteq Jobs /\ reads' \subseteq Jobs
      /\ write' \in Jobs \cup {NoJob} /\ network' \in Jobs \cup {NoJob}
      /\ ahead' \in [Jobs -> SUBSET Jobs]
      /\ Placed(queue', reads', write', network', kind)
      /\ Alone(reads', write', network', kind)
      /\ queue' \cup Busy(reads', write', network') = queue \cup Busy(R, X, N)
  <2>1. Pump(queue, R, X, N, ahead, kind)
    BY DEF Finish
  <2>2. queue \in SUBSET Jobs /\ ahead \in [Jobs -> SUBSET Jobs] /\ kind \in [Jobs -> Kinds \cup {"none"}]
    BY DEF TypeOK
  <2> HIDE DEF R, X, N, IInv
  <2> QED BY <1>3, <2>1, <2>2, PumpFillsLanes
<1>5. FinishOutcome(j, result) \in Outcomes \ {"pending"}
  BY RunResultsAssumption DEF FinishOutcome, Results, TypeOK, Signals, Outcomes
<1>6. outcome[j] = "pending" /\ joined[j] = NoJob
  BY <1>1, <1>2
<1>7. /\ outcome' \in [Jobs -> Outcomes] /\ joined' \in [Jobs -> Jobs \cup {NoJob}]
      /\ JoinedIsPending'
      /\ \A i \in Jobs : (outcome'[i] = "pending" /\ joined'[i] = NoJob)
           <=> (i # j /\ outcome[i] = "pending" /\ joined[i] = NoJob)
  <2>1. /\ outcome' = [i \in Jobs |-> IF i \in Settled({j})
                                     THEN FinishOutcome(j, result) ELSE outcome[i]]
        /\ joined' = Kept(joined, Settled({j}), NoJob)
    BY DEF Finish
  <2> QED BY <1>5, <1>6, <2>1, SettlingOne
<1>8. TypeOK'
  <2>1. kind' \in [Jobs -> Kinds \cup {"none"}] /\ key' \in [Jobs -> Keys \cup {NoJob}]
    BY DEF TypeOK, Finish
  <2>2. signal' \in [Jobs -> Signals] /\ coalesced' \in [Keys -> Jobs \cup {NoJob}]
    BY DEF TypeOK, Finish, Uncoalesced, Signals
  <2>3. /\ cancelled' \subseteq Jobs /\ draining' \subseteq Jobs
        /\ closing' \in {"open", "draining", "closed"}
    BY DEF TypeOK, Finish, closeVars
  <2> QED BY <1>4, <1>7, <2>1, <2>2, <2>3 DEF TypeOK
<1>9. Placed(queue', reads', write', network', kind')
      /\ Alone(reads', write', network', kind')
  <2>1. \A i \in Busy(reads', write', network') : kind'[i] = kind[i]
    <3>1. \A i \in Busy(reads', write', network') : i \in Jobs /\ i # j
      BY <1>3, <1>4 DEF Busy
    <3> QED BY <3>1 DEF Finish, TypeOK
  <2> QED BY <1>4, <2>1, KindsOutsideLanesAreFree
<1>10. \A i \in Jobs : (outcome'[i] = "pending" /\ joined'[i] = NoJob)
                     <=> i \in queue' \cup Busy(reads', write', network')
  BY <1>1, <1>3, <1>4, <1>7
<1>11. OnePlace' /\ WriteRunsAlone'
  BY <1>9, <1>10 DEF OnePlace, Placed, WriteRunsAlone, Alone, Lanes, Busy
<1> QED BY <1>7, <1>8, <1>11

LEMMA AbortIInv ==
  ASSUME IInv, NEW j \in Jobs, Abort(j)
  PROVE  IInv'
<1> USE DEF IInv
<1>1. CASE j \in queue
  <2>1. /\ queue' = queue \ {j}
        /\ ahead' = [i \in Jobs |-> IF i = j THEN {} ELSE ahead[i] \ {j}]
        /\ coalesced' = Uncoalesced({j})
        /\ outcome' = [i \in Jobs |->
                         IF i \in Settled({j}) THEN "aborted" ELSE outcome[i]]
        /\ joined' = Kept(joined, Settled({j}), NoJob)
        /\ kind' = [kind EXCEPT ![j] = "none"]
        /\ key' = [key EXCEPT ![j] = NoJob]
        /\ UNCHANGED <<signal, cancelled, reads, write, network, closing, draining>>
        /\ outcome[j] = "pending" /\ joined[j] = NoJob
    BY <1>1 DEF Abort, closeVars
  <2>2. /\ outcome' \in [Jobs -> Outcomes] /\ joined' \in [Jobs -> Jobs \cup {NoJob}]
        /\ JoinedIsPending'
        /\ \A i \in Jobs : (outcome'[i] = "pending" /\ joined'[i] = NoJob)
             <=> (i # j /\ outcome[i] = "pending" /\ joined[i] = NoJob)
    <3>1. "aborted" \in Outcomes \ {"pending"}
      BY DEF Outcomes
    <3> QED BY <2>1, <3>1, SettlingOne
  <2>3. TypeOK'
    BY <2>1, <2>2 DEF TypeOK, Uncoalesced
  <2>4. j \notin Lanes
    BY <1>1 DEF OnePlace
  <2>5. Lanes' = Lanes
    BY <2>1 DEF Lanes
  <2>6. \A i \in Lanes : kind'[i] = kind[i]
    BY <2>1, <2>4 DEF Lanes, TypeOK
  <2>7. OnePlace'
    <3>1. \A i \in Jobs : (outcome'[i] = "pending" /\ joined'[i] = NoJob)
                        <=> i \in queue' \cup Lanes'
      BY <2>1, <2>2, <2>4, <2>5 DEF OnePlace
    <3>2. Placed(queue', reads', write', network', kind')
      BY <2>1, <2>6 DEF OnePlace, Placed, Lanes, Busy
    <3> QED BY <3>1, <3>2 DEF OnePlace, Placed, Lanes, Busy
  <2>8. WriteRunsAlone'
    BY <2>1, <2>6 DEF WriteRunsAlone, Lanes
  <2> QED BY <2>2, <2>3, <2>7, <2>8
<1>2. CASE j \notin queue
  <2>1. /\ UNCHANGED <<queue, ahead, coalesced, outcome, joined, kind, key,
                      reads, write, network, closing, draining>>
        /\ cancelled' = cancelled \cup {j}
        /\ signal' = [signal EXCEPT ![j] = IF @ = "live" THEN "aborted" ELSE @]
    BY <1>2 DEF Abort, closeVars
  <2>2. TypeOK'
    BY <2>1 DEF TypeOK, Signals
  <2>3. OnePlace' /\ WriteRunsAlone' /\ JoinedIsPending'
    BY <2>1 DEF OnePlace, WriteRunsAlone, JoinedIsPending, Lanes
  <2> QED BY <2>2, <2>3
<1> QED BY <1>1, <1>2

\* The calls that never reach a queue, and close(), touch no lane.
LEMMA OtherStepsIInv ==
  ASSUME IInv,
         \/ \E j \in Jobs, ck \in Keys : Join(j, ck)
         \/ \E j \in Jobs : Refuse(j)
         \/ Close
         \/ Closed
         \/ UNCHANGED vars
  PROVE  IInv'
<1> USE DEF IInv
<1>1. ASSUME NEW j \in Jobs, NEW ck \in Keys, Join(j, ck) PROVE IInv'
  <2>1. /\ outcome[j] # "pending" /\ coalesced[ck] # NoJob
        /\ joined' = [joined EXCEPT ![j] = coalesced[ck]]
        /\ outcome' = [outcome EXCEPT ![j] = "pending"]
        /\ UNCHANGED <<kind, key, signal, queue, ahead, reads, write, network,
                      coalesced, cancelled, closing, draining>>
    BY <1>1 DEF Join, entryVars, laneVars, closeVars
  <2>2. TypeOK' /\ JoinedIsPending'
    BY <2>1 DEF TypeOK, JoinedIsPending, Outcomes
  <2>3. OnePlace' /\ WriteRunsAlone'
    BY <2>1 DEF OnePlace, WriteRunsAlone, Lanes, TypeOK
  <2> QED BY <2>2, <2>3
<1>2. ASSUME NEW j \in Jobs, Refuse(j) PROVE IInv'
  <2>1. /\ outcome[j] # "pending"
        /\ outcome' = [outcome EXCEPT ![j] = "aborted"]
        /\ UNCHANGED <<kind, key, signal, queue, ahead, reads, write, network,
                      coalesced, cancelled, joined, closing, draining>>
    BY <1>2 DEF Refuse, entryVars, laneVars, closeVars
  <2>2. TypeOK' /\ JoinedIsPending'
    BY <2>1 DEF TypeOK, JoinedIsPending, Outcomes
  <2>3. OnePlace' /\ WriteRunsAlone'
    BY <2>1 DEF OnePlace, WriteRunsAlone, Lanes, TypeOK
  <2> QED BY <2>2, <2>3
<1>3. ASSUME Close \/ Closed \/ UNCHANGED vars PROVE IInv'
  <2>1. /\ UNCHANGED <<kind, key, signal, queue, ahead, reads, write, network,
                      coalesced, cancelled, joined, outcome>>
        /\ closing' \in {"open", "draining", "closed"} /\ draining' \subseteq Jobs
    BY <1>3 DEF Close, Closed, Awaited, vars, entryVars, laneVars, callVars, closeVars,
                TypeOK, Lanes
  <2>2. TypeOK'
    BY <2>1 DEF TypeOK
  <2>3. OnePlace' /\ WriteRunsAlone' /\ JoinedIsPending'
    BY <2>1 DEF OnePlace, WriteRunsAlone, JoinedIsPending, Lanes
  <2> QED BY <2>2, <2>3
<1> QED BY <1>1, <1>2, <1>3

LEMMA NextIInv == IInv /\ [Next]_vars => IInv'
<1> SUFFICES ASSUME IInv, [Next]_vars PROVE IInv'
  OBVIOUS
<1>1. ASSUME NEW j \in Jobs, NEW k \in CallKinds, NEW ck \in Keys,
             NEW pre \in BOOLEAN, Schedule(j, k, ck, pre)
      PROVE  IInv'
  BY <1>1, ScheduleIInv
<1>2. ASSUME NEW j \in Jobs, Abort(j) PROVE IInv'
  BY <1>2, AbortIInv
<1>3. ASSUME NEW j \in Jobs, NEW result \in RunResults, Finish(j, result)
      PROVE  IInv'
  BY <1>3, FinishIInv
<1>4. CASE \/ \E j \in Jobs, ck \in Keys : Join(j, ck)
           \/ \E j \in Jobs : Refuse(j)
           \/ Close
           \/ Closed
           \/ UNCHANGED vars
  BY <1>4, OtherStepsIInv
<1> QED BY <1>1, <1>2, <1>3, <1>4 DEF Next

\* The lanes, the queue and the promises of the scheduler stay consistent.
THEOREM SpecIInv == Spec => []IInv
BY InitIInv, NextIInv, PTL DEF Spec

-----------------------------------------------------------------------------
\* Type correctness, for any set of calls and keys and any lane limits.
THEOREM SchedulerTypeCorrect == Spec => []TypeOK
<1>1. IInv => TypeOK
  BY DEF IInv
<1> QED BY <1>1, SpecIInv, PTL

\* Every pending entry is in the queue or in the lane of its kind, once, and
\* nothing else is: pump(), the aborts and the settlements lose no promise.
THEOREM EveryEntryHasOnePlace == Spec => []OnePlace
<1>1. IInv => OnePlace
  BY DEF IInv
<1> QED BY <1>1, SpecIInv, PTL

\* No local read, fetch or push ever runs beside a write of the repository.
THEOREM WritesRunAlone == Spec => []WriteRunsAlone
<1>1. IInv => WriteRunsAlone
  BY DEF IInv
<1> QED BY <1>1, SpecIInv, PTL

-----------------------------------------------------------------------------
(***************************************************************************)
(* Proofs, for any calls, keys and limits, that a coalescing key leads to  *)
(* the one live poll of that key (CoalescedIsLive), and that nobody's      *)
(* signal is touched but those of background work and of callers who gave  *)
(* up (AcceptedJobsAreKept).  Both rest on the invariant of                *)
(* the lanes, which says which identities are pending entries.             *)
(***************************************************************************)

Entries == queue \cup Lanes

\* Only polls have a coalescing key, so no entry that another job drops has one.
KeyedIsPoll == \A j \in Entries : key[j] # NoJob => kind[j] = "polling"

Promises == CoalescedIsLive /\ KeyedIsPoll /\ AcceptedJobsAreKept

LEMMA EntriesArePending ==
  ASSUME IInv
  PROVE  /\ Entries \subseteq Jobs
         /\ \A j \in Jobs : j \in Entries <=> outcome[j] = "pending" /\ joined[j] = NoJob
  BY NoJobAssumption DEF IInv, OnePlace, TypeOK, Entries, Lanes

\* What waits after a pump waited before.
LEMMA PumpEmptiesTheQueue ==
  ASSUME NEW W, NEW R, NEW X, NEW N, NEW ord, NEW kd, Pump(W, R, X, N, ord, kd)
  PROVE  queue' \subseteq W
  BY DEF Pump

\* An entry of a set that settles is gone with the calls that joined it.
LEMMA GoneEntries ==
  ASSUME IInv, NEW S \in SUBSET Entries
  PROVE  /\ \A i \in Entries : i \in Settled(S) <=> i \in S
         /\ \A i \in Jobs : joined[i] # NoJob /\ i \notin Settled(S) => joined[i] \notin S
  BY EntriesArePending DEF Settled, Entry, IInv, JoinedIsPending

LEMMA SchedulePromises ==
  ASSUME IInv, IInv', Promises, NEW j \in Jobs, NEW k \in CallKinds, NEW ck \in Keys,
         NEW pre \in BOOLEAN, Schedule(j, k, ck, pre)
  PROVE  Promises'
<1> DEFINE victims == BackgroundVictims(k) \cup FetchVictims(k)
           dropped == OfKind(queue, victims, kind)
           interrupted == OfKind(reads, BackgroundVictims(k), kind)
                     \cup OfKind({network} \ {NoJob}, FetchVictims(k), kind)
           stay == queue \ dropped
           W == IF pre THEN stay ELSE stay \cup {j}
           gone == Settled(dropped)
           blank == gone \cup (IF pre THEN {j} ELSE {})
           entered == [kind EXCEPT ![j] = k]
<1>1. /\ outcome[j] # "pending"
      /\ k = "polling" => coalesced[ck] = NoJob
      /\ queue' \subseteq W
      /\ kind' = Kept(entered, blank, "none")
      /\ key' = Kept([key EXCEPT ![j] = IF k = "polling" THEN ck ELSE NoJob], blank, NoJob)
      /\ signal' = [i \in Jobs |->
           IF i \in interrupted /\ signal[i] = "live" THEN VictimOutcome(kind[i])
           ELSE IF i = j \/ i \in gone THEN "live"
           ELSE signal[i]]
      /\ coalesced' = IF k = "polling" /\ ~pre THEN [coalesced EXCEPT ![ck] = j] ELSE coalesced
      /\ outcome' = [i \in Jobs |->
           IF i \in gone THEN VictimOutcome(kind[i])
           ELSE IF i = j THEN (IF pre THEN "aborted" ELSE "pending")
           ELSE outcome[i]]
      /\ cancelled' = cancelled \ ({j} \cup gone)
      /\ joined' = Kept(joined, gone, NoJob)
  BY PumpEmptiesTheQueue DEF Schedule
<1>2. /\ TypeOK /\ Entries \subseteq Jobs /\ Entries' \subseteq Jobs
      /\ \A i \in Jobs : i \in Entries <=> outcome[i] = "pending" /\ joined[i] = NoJob
      /\ \A i \in Jobs : i \in Entries' <=> outcome'[i] = "pending" /\ joined'[i] = NoJob
      /\ dropped \subseteq Entries
  <2>1. \A i \in Jobs : i \in Entries' <=> outcome'[i] = "pending" /\ joined'[i] = NoJob
    BY NoJobAssumption DEF IInv, OnePlace, TypeOK, Entries, Lanes
  <2>2. Entries' \subseteq Jobs
    BY NoJobAssumption DEF IInv, TypeOK, Entries, Lanes
  <2> QED BY <2>1, <2>2, EntriesArePending DEF IInv, Entries, OfKind
<1>3. /\ j \notin Entries /\ j \notin gone /\ joined[j] = NoJob
      /\ \A i \in Entries : i \in gone <=> i \in dropped
      /\ \A i \in Jobs : joined[i] # NoJob /\ i \notin gone => joined[i] \notin dropped
  <2>1. joined[j] = NoJob
    BY <1>1 DEF IInv, JoinedIsPending
  <2>2. /\ \A i \in Entries : i \in gone <=> i \in dropped
        /\ \A i \in Jobs : joined[i] # NoJob /\ i \notin gone => joined[i] \notin dropped
    <3> HIDE DEF dropped
    <3> QED BY <1>2, GoneEntries
  <2>3. j \notin Entries /\ j \notin gone
    BY <1>1, <1>2 DEF Settled
  <2> QED BY <2>1, <2>2, <2>3
<1> HIDE DEF gone
<1>4. /\ \A i \in dropped : kind[i] \in {"background", "preflight", "background-fetch"}
      /\ \A i \in interrupted : i \in Lanes /\ kind[i] \in {"background", "preflight", "background-fetch"}
  BY DEF OfKind, BackgroundVictims, FetchVictims, Lanes
<1> HIDE DEF dropped, interrupted
<1>5. \A i \in Jobs : i \in Entries' <=> (i = j /\ ~pre) \/ (i \in Entries /\ i \notin dropped)
  <2> SUFFICES ASSUME NEW i \in Jobs
               PROVE  i \in Entries' <=> (i = j /\ ~pre) \/ (i \in Entries /\ i \notin dropped)
    OBVIOUS
  <2>1. CASE i \in gone
    <3>1. outcome'[i] # "pending" /\ i # j
      BY <1>1, <1>3, <2>1 DEF VictimOutcome
    <3> QED BY <1>2, <1>3, <2>1, <3>1
  <2>2. CASE i \notin gone
    BY <1>1, <1>2, <1>3, <2>2 DEF Kept
  <2> QED BY <2>1, <2>2
<1>6. \A i \in Entries' : i # j => i \notin blank /\ kind'[i] = kind[i] /\ key'[i] = key[i]
  BY <1>1, <1>2, <1>3, <1>5 DEF Kept, TypeOK
<1>7. ~pre => /\ kind'[j] = k /\ key'[j] = (IF k = "polling" THEN ck ELSE NoJob)
  BY <1>1, <1>2, <1>3 DEF Kept, TypeOK
<1>8. KeyedIsPoll'
  BY <1>2, <1>3, <1>5, <1>6, <1>7 DEF Promises, KeyedIsPoll
<1>9. CoalescedIsLive'
  <2>1. ASSUME NEW c \in Keys, coalesced'[c] # NoJob
        PROVE  coalesced'[c] \in Entries' /\ key'[coalesced'[c]] = c
    <3>1. CASE k = "polling" /\ ~pre /\ c = ck
      <4>1. coalesced'[c] = j
        BY <1>1, <1>2, <3>1 DEF TypeOK
      <4> QED BY <1>5, <1>7, <3>1, <4>1
    <3>2. CASE ~(k = "polling" /\ ~pre /\ c = ck)
      <4>1. coalesced'[c] = coalesced[c]
        BY <1>1, <1>2, <3>2 DEF TypeOK
      <4>2. coalesced[c] \in Entries /\ key[coalesced[c]] = c
        BY <2>1, <4>1 DEF Promises, CoalescedIsLive, Entries
      <4>3. c # NoJob => kind[coalesced[c]] = "polling"
        BY <4>2 DEF Promises, KeyedIsPoll
      <4>4. coalesced[c] \notin dropped
        BY <1>4, <4>2, <4>3, NoJobAssumption
      <4>5. coalesced[c] \in Entries' /\ coalesced[c] # j
        BY <1>2, <1>3, <1>5, <4>2, <4>4
      <4> QED BY <1>6, <4>1, <4>2, <4>5
    <3> QED BY <3>1, <3>2
  <2>2. ASSUME NEW i \in Entries', key'[i] # NoJob PROVE coalesced'[key'[i]] = i
    <3>1. CASE i = j
      <4>1. ~pre /\ k = "polling" /\ key'[i] = ck
        BY <1>2, <1>3, <1>5, <1>7, <2>2, <3>1
      <4> QED BY <1>1, <1>2, <3>1, <4>1 DEF TypeOK
    <3>2. CASE i # j
      <4>1. i \in Entries /\ key'[i] = key[i] /\ key[i] \in Keys /\ i # NoJob
        BY <1>2, <1>5, <1>6, <2>2, <3>2, NoJobAssumption DEF TypeOK
      <4>2. coalesced[key[i]] = i
        BY <2>2, <4>1 DEF Promises, CoalescedIsLive, Entries
      <4> QED BY <1>1, <1>2, <4>1, <4>2 DEF TypeOK
    <3> QED BY <3>1, <3>2
  <2>3. ASSUME NEW i \in Jobs, joined'[i] # NoJob PROVE outcome'[i] = "pending" /\ joined'[i] \in Entries'
    <3>1. i \notin gone /\ joined'[i] = joined[i] /\ i # j
      BY <1>1, <1>3, <2>3 DEF Kept
    <3>2. outcome[i] = "pending" /\ joined[i] \in Entries
      BY <2>3, <3>1 DEF Promises, CoalescedIsLive, Entries
    <3> QED BY <1>1, <1>2, <1>3, <1>5, <2>3, <3>1, <3>2
  <2> QED BY <2>1, <2>2, <2>3 DEF CoalescedIsLive, Entries
<1>10. AcceptedJobsAreKept'
  <2>1. ASSUME NEW i \in Lanes', kind'[i] \in Durable, signal'[i] # "live" PROVE i \in cancelled'
    <3>1. i \in Entries' /\ i \in Jobs
      BY <1>2 DEF Entries
    <3>2. i # j
      BY <1>1, <1>3, <1>4, <2>1 DEF Entries
    <3>3. i \in Entries /\ i \notin gone /\ kind'[i] = kind[i]
      BY <1>3, <1>5, <1>6, <3>1, <3>2
    <3>4. i \notin interrupted
      BY <1>4, <2>1, <3>3 DEF Durable
    <3>5. signal'[i] = signal[i]
      BY <1>1, <3>1, <3>2, <3>3, <3>4
    <3> QED BY <1>1, <2>1, <3>2, <3>3, <3>5 DEF Promises, AcceptedJobsAreKept, Entries
  <2>2. ASSUME NEW i \in queue' PROVE signal'[i] = "live" /\ i \notin cancelled'
    <3>1. i \in Jobs /\ i \notin interrupted
      BY <1>1, <1>2, <1>3, <1>4 DEF Entries, IInv, OnePlace
    <3>2. i = j \/ (i \in queue /\ signal[i] = "live" /\ i \notin cancelled)
      BY <1>1 DEF Promises, AcceptedJobsAreKept
    <3> QED BY <1>1, <3>1, <3>2
  <2> QED BY <2>1, <2>2 DEF AcceptedJobsAreKept
<1> QED BY <1>8, <1>9, <1>10 DEF Promises

\* Entry j settles with the calls that joined it: the key it held leads nowhere.
LEMMA SettlingPromises ==
  ASSUME IInv, IInv', Promises, NEW j \in Entries,
         joined' = Kept(joined, Settled({j}), NoJob),
         \A i \in Jobs : i \notin Settled({j}) => outcome'[i] = outcome[i],
         \A i \in Settled({j}) : outcome'[i] # "pending",
         coalesced' = Uncoalesced({j}),
         kind' = [kind EXCEPT ![j] = "none"],
         key' = [key EXCEPT ![j] = NoJob]
  PROVE  /\ Entries' = Entries \ {j}
         /\ \A i \in Entries' : kind'[i] = kind[i]
         /\ CoalescedIsLive' /\ KeyedIsPoll'
<1>1. /\ TypeOK /\ Entries \subseteq Jobs /\ j # NoJob
      /\ \A i \in Jobs : i \in Entries <=> outcome[i] = "pending" /\ joined[i] = NoJob
      /\ \A i \in Jobs : i \in Entries' <=> outcome'[i] = "pending" /\ joined'[i] = NoJob
      /\ Entries' \subseteq Jobs
  <2>1. \A i \in Jobs : i \in Entries' <=> outcome'[i] = "pending" /\ joined'[i] = NoJob
    BY NoJobAssumption DEF IInv, OnePlace, TypeOK, Entries, Lanes
  <2>2. Entries' \subseteq Jobs
    BY NoJobAssumption DEF IInv, TypeOK, Entries, Lanes
  <2> QED BY <2>1, <2>2, EntriesArePending, NoJobAssumption DEF IInv
<1>2. /\ \A i \in Entries : i \in Settled({j}) <=> i = j
      /\ \A i \in Jobs : joined[i] # NoJob /\ i \notin Settled({j}) => joined[i] # j
  BY GoneEntries
<1>3. Entries' = Entries \ {j}
  <2>1. ASSUME NEW i \in Jobs PROVE i \in Entries' <=> i \in Entries /\ i # j
    <3>1. CASE i \in Settled({j})
      BY <1>1, <1>2, <3>1
    <3>2. CASE i \notin Settled({j})
      BY <1>1, <1>2, <3>2 DEF Kept
    <3> QED BY <3>1, <3>2
  <2> QED BY <1>1, <2>1
<1>4. \A i \in Entries' : i \in Entries /\ i # j /\ kind'[i] = kind[i] /\ key'[i] = key[i]
  BY <1>1, <1>3 DEF TypeOK
<1>5. KeyedIsPoll'
  BY <1>4 DEF Promises, KeyedIsPoll
<1>6. ASSUME NEW c \in Keys, coalesced'[c] # NoJob
      PROVE  coalesced'[c] \in Entries' /\ key'[coalesced'[c]] = c
  <2>1. coalesced'[c] = coalesced[c] /\ coalesced[c] # j
    BY <1>1, <1>6 DEF Uncoalesced
  <2>2. coalesced[c] \in Entries /\ key[coalesced[c]] = c
    BY <1>6, <2>1 DEF Promises, CoalescedIsLive, Entries
  <2> QED BY <1>3, <1>4, <2>1, <2>2
<1>7. ASSUME NEW i \in Entries', key'[i] # NoJob PROVE coalesced'[key'[i]] = i
  <2>1. coalesced[key[i]] = i /\ key[i] \in Keys
    BY <1>1, <1>4, <1>7 DEF Promises, CoalescedIsLive, Entries, TypeOK
  <2> QED BY <1>4, <2>1 DEF Uncoalesced
<1>8. ASSUME NEW i \in Jobs, joined'[i] # NoJob
      PROVE  outcome'[i] = "pending" /\ joined'[i] \in Entries'
  <2>1. i \notin Settled({j}) /\ joined'[i] = joined[i]
    BY <1>8 DEF Kept
  <2>2. outcome[i] = "pending" /\ joined[i] \in Entries
    BY <1>8, <2>1 DEF Promises, CoalescedIsLive, Entries
  <2> QED BY <1>2, <1>3, <1>8, <2>1, <2>2
<1> QED BY <1>3, <1>4, <1>5, <1>6, <1>7, <1>8 DEF CoalescedIsLive, Entries

LEMMA FinishPromises ==
  ASSUME IInv, IInv', Promises, NEW j \in Jobs, NEW result \in RunResults, Finish(j, result)
  PROVE  Promises'
<1>1. /\ j \in Lanes /\ j \notin queue /\ j \in Entries
      /\ queue' \subseteq queue
      /\ signal' = [signal EXCEPT ![j] = "live"]
      /\ cancelled' = cancelled \ {j}
  BY PumpEmptiesTheQueue DEF Finish, IInv, OnePlace, Entries
<1>2. FinishOutcome(j, result) # "pending"
  BY RunResultsAssumption DEF FinishOutcome, Results, IInv, TypeOK, Signals
<1>3. /\ Entries' = Entries \ {j}
      /\ \A i \in Entries' : kind'[i] = kind[i]
      /\ CoalescedIsLive' /\ KeyedIsPoll'
  <2>1. /\ joined' = Kept(joined, Settled({j}), NoJob)
        /\ \A i \in Jobs : i \notin Settled({j}) => outcome'[i] = outcome[i]
        /\ \A i \in Settled({j}) : outcome'[i] # "pending"
    BY <1>2 DEF Finish, Settled
  <2>2. /\ coalesced' = Uncoalesced({j})
        /\ kind' = [kind EXCEPT ![j] = "none"]
        /\ key' = [key EXCEPT ![j] = NoJob]
    BY DEF Finish
  <2> QED BY <1>1, <2>1, <2>2, SettlingPromises
<1>4. \A i \in Entries' : i \in Jobs /\ i # j /\ kind'[i] = kind[i] /\ signal'[i] = signal[i]
                          /\ (i \in cancelled' <=> i \in cancelled)
  BY <1>1, <1>3, EntriesArePending DEF IInv, TypeOK
<1>5. AcceptedJobsAreKept'
  <2>1. ASSUME NEW i \in Lanes', kind'[i] \in Durable, signal'[i] # "live" PROVE i \in cancelled'
    <3>1. i \in Entries' /\ i \in queue \cup Lanes
      BY <1>3 DEF Entries
    <3> QED BY <1>4, <2>1, <3>1 DEF Promises, AcceptedJobsAreKept
  <2>2. ASSUME NEW i \in queue' PROVE signal'[i] = "live" /\ i \notin cancelled'
    BY <1>1, <1>4, <2>2 DEF Entries, Promises, AcceptedJobsAreKept
  <2> QED BY <2>1, <2>2 DEF AcceptedJobsAreKept
<1> QED BY <1>3, <1>5 DEF Promises

LEMMA AbortPromises ==
  ASSUME IInv, IInv', Promises, NEW j \in Jobs, Abort(j)
  PROVE  Promises'
<1>1. CASE j \in queue
  <2>1. /\ queue' = queue \ {j} /\ j \in Entries
        /\ UNCHANGED <<signal, cancelled, reads, write, network>>
    BY <1>1 DEF Abort, Entries
  <2>2. /\ Entries' = Entries \ {j}
        /\ \A i \in Entries' : kind'[i] = kind[i]
        /\ CoalescedIsLive' /\ KeyedIsPoll'
    <3>1. /\ joined' = Kept(joined, Settled({j}), NoJob)
          /\ \A i \in Jobs : i \notin Settled({j}) => outcome'[i] = outcome[i]
          /\ \A i \in Settled({j}) : outcome'[i] # "pending"
      BY <1>1 DEF Abort, Settled
    <3>2. /\ coalesced' = Uncoalesced({j})
          /\ kind' = [kind EXCEPT ![j] = "none"]
          /\ key' = [key EXCEPT ![j] = NoJob]
      BY <1>1 DEF Abort
    <3> QED BY <2>1, <3>1, <3>2, SettlingPromises
  <2>3. Lanes' = Lanes
    BY <2>1 DEF Lanes
  <2>4. AcceptedJobsAreKept'
    BY <2>1, <2>2, <2>3 DEF Promises, AcceptedJobsAreKept, Entries
  <2> QED BY <2>2, <2>4 DEF Promises
<1>2. CASE j \notin queue
  <2>1. /\ UNCHANGED <<queue, coalesced, outcome, joined, kind, key, reads, write, network>>
        /\ cancelled' = cancelled \cup {j}
        /\ signal' = [signal EXCEPT ![j] = IF @ = "live" THEN "aborted" ELSE @]
    BY <1>2 DEF Abort
  <2>2. Lanes' = Lanes /\ Lanes \subseteq Jobs
    BY <2>1 DEF Lanes, IInv, TypeOK
  <2>3. CoalescedIsLive' /\ KeyedIsPoll'
    BY <2>1, <2>2 DEF Promises, CoalescedIsLive, KeyedIsPoll, Entries
  <2>4. \A i \in Jobs : i # j => signal'[i] = signal[i]
    BY <2>1 DEF IInv, TypeOK
  <2>5. AcceptedJobsAreKept'
    BY <1>2, <2>1, <2>2, <2>4 DEF Promises, AcceptedJobsAreKept, IInv, TypeOK
  <2> QED BY <2>3, <2>5 DEF Promises
<1> QED BY <1>1, <1>2

LEMMA JoinPromises ==
  ASSUME IInv, Promises, NEW j \in Jobs, NEW ck \in Keys, Join(j, ck)
  PROVE  Promises'
<1>1. /\ coalesced[ck] # NoJob
      /\ joined' = [joined EXCEPT ![j] = coalesced[ck]]
      /\ outcome' = [outcome EXCEPT ![j] = "pending"]
      /\ UNCHANGED <<kind, key, signal, queue, reads, write, network, coalesced, cancelled>>
  BY DEF Join, entryVars, laneVars
<1>2. Lanes' = Lanes
  BY <1>1 DEF Lanes
<1>3. KeyedIsPoll' /\ AcceptedJobsAreKept'
  BY <1>1, <1>2 DEF Promises, KeyedIsPoll, AcceptedJobsAreKept, Entries
<1>4. CoalescedIsLive'
  <2>1. ASSUME NEW i \in Jobs, joined'[i] # NoJob
        PROVE  outcome'[i] = "pending" /\ joined'[i] \in queue \cup Lanes
    <3>1. CASE i = j
      BY <1>1, <3>1 DEF Promises, CoalescedIsLive, IInv, TypeOK
    <3>2. CASE i # j
      BY <1>1, <2>1, <3>2 DEF Promises, CoalescedIsLive, IInv, TypeOK
    <3> QED BY <3>1, <3>2
  <2> QED BY <1>1, <1>2, <2>1 DEF Promises, CoalescedIsLive
<1> QED BY <1>3, <1>4 DEF Promises

LEMMA OtherStepsPromises ==
  ASSUME IInv, Promises,
         (\E j \in Jobs : Refuse(j)) \/ Close \/ Closed \/ UNCHANGED vars
  PROVE  Promises'
<1>1. /\ UNCHANGED <<kind, key, signal, queue, reads, write, network, coalesced,
                    cancelled, joined>>
      /\ \A i \in Jobs : outcome[i] = "pending" => outcome'[i] = "pending"
  BY DEF Refuse, Close, Closed, vars, entryVars, laneVars, callVars, IInv, TypeOK
<1>2. Lanes' = Lanes
  BY <1>1 DEF Lanes
<1> QED BY <1>1, <1>2 DEF Promises, CoalescedIsLive, KeyedIsPoll, AcceptedJobsAreKept, Entries

LEMMA NextPromises == IInv /\ IInv' /\ Promises /\ [Next]_vars => Promises'
<1> SUFFICES ASSUME IInv, IInv', Promises, [Next]_vars PROVE Promises'
  OBVIOUS
<1>1. ASSUME NEW j \in Jobs, NEW k \in CallKinds, NEW ck \in Keys,
             NEW pre \in BOOLEAN, Schedule(j, k, ck, pre)
      PROVE  Promises'
  BY <1>1, SchedulePromises
<1>2. ASSUME NEW j \in Jobs, NEW ck \in Keys, Join(j, ck) PROVE Promises'
  BY <1>2, JoinPromises
<1>3. ASSUME NEW j \in Jobs, Abort(j) PROVE Promises'
  BY <1>3, AbortPromises
<1>4. ASSUME NEW j \in Jobs, NEW result \in RunResults, Finish(j, result) PROVE Promises'
  BY <1>4, FinishPromises
<1>5. CASE (\E j \in Jobs : Refuse(j)) \/ Close \/ Closed \/ UNCHANGED vars
  BY <1>5, OtherStepsPromises
<1> QED BY <1>1, <1>2, <1>3, <1>4, <1>5 DEF Next

LEMMA InitPromises == Init => Promises
<1> SUFFICES ASSUME Init PROVE Promises
  OBVIOUS
<1>1. queue = {} /\ Lanes = {}
  BY DEF Init, Lanes
<1>2. /\ \A k \in Keys : coalesced[k] = NoJob
      /\ \A j \in Jobs : joined[j] = NoJob
  BY DEF Init
<1> QED BY <1>1, <1>2 DEF Promises, CoalescedIsLive, KeyedIsPoll, AcceptedJobsAreKept, Entries

\* The promises hold in every state schedule(), the aborts and the ends of jobs reach.
THEOREM SpecPromises == Spec => []Promises
BY InitPromises, NextPromises, SpecIInv, PTL DEF Spec

-----------------------------------------------------------------------------
\* A poll is handed only a promise that was pending when it asked, that of the
\* one live entry of its key.
THEOREM PollsAreCoalesced == Spec => []CoalescedIsLive
<1>1. Promises => CoalescedIsLive
  BY DEF Promises
<1> QED BY <1>1, SpecPromises, PTL

\* No accepted write, transfer, poll or interactive read is interrupted or
\* taken from the queue for another job's sake, only by its own caller.
THEOREM AcceptedJobsKeep == Spec => []AcceptedJobsAreKept
<1>1. Promises => AcceptedJobsAreKept
  BY DEF Promises
<1> QED BY <1>1, SpecPromises, PTL

-----------------------------------------------------------------------------
(***************************************************************************)
(* The proof that GitScheduler implements RepositoryLock, for any calls,   *)
(* keys and limits: each step of the scheduler is a step of the lock or    *)
(* changes nothing of it.  As for the lanes one lemma about                *)
(* pump() carries it: a pump either starts the first waiting write alone,  *)
(* or starts other jobs where no write runs.                               *)
(***************************************************************************)

\* The lock's state for queue Q, lanes R and N, order ord and kinds kd.
Writes(Q, kd) == OfKind(Q, {"write"}, kd)
Sharing(R, N, kd) == R \cup OfKind({N} \ {NoJob}, {"network", "background-fetch"}, kd)
Earlier(Q, ord, kd) == [j \in Jobs |-> IF j \in Writes(Q, kd) THEN ord[j] \cap Writes(Q, kd) ELSE {}]

\* RepositoryLock's Grant, of that state, in the line L.
Granted(L, ord, S, H, L2, b2, S2) ==
  \/ /\ H = NoJob /\ S = {} /\ S2 = {}
     /\ \E w \in L : ord[w] \cap L = {} /\ write' = w /\ L2 = L \ {w}
     /\ b2 = [j \in Jobs |-> IF j \in L2 THEN ord[j] \cap L2 ELSE {}]
  \/ /\ write' = H /\ L2 = L
     /\ S \subseteq S2 /\ S2 \subseteq Jobs
     /\ S2 # S => H = NoJob
     /\ b2 = [j \in Jobs |-> IF j \in L2 THEN ord[j] \cap L2 ELSE {}]

LEMMA PumpGrants ==
  ASSUME NEW W \in SUBSET Jobs, NEW R \in SUBSET Jobs,
         NEW X \in Jobs \cup {NoJob}, NEW N \in Jobs \cup {NoJob},
         NEW ord \in [Jobs -> SUBSET Jobs],
         NEW kd \in [Jobs -> Kinds \cup {"none"}],
         Placed(W, R, X, N, kd), Alone(R, X, N, kd),
         Pump(W, R, X, N, ord, kd)
  PROVE  Granted(Writes(W, kd), ord, Sharing(R, N, kd), X,
                 Writes(queue', kd), Earlier(queue', ahead', kd), Sharing(reads', network', kd))
<1> DEFINE net == NetworkStart(W, X, N, ord, kd)
           N1 == Or(net, N)
           W1 == W \ {N1}
           wr == WriteStart(W1, R, X, N1, ord, kd)
           X1 == Or(wr, X)
           W2 == W1 \ {X1}
           rd == ReadStart(W2, R, X1, N1, ord, kd)
           L == Writes(W, kd)
           S == Sharing(R, N, kd)
           L2 == Writes(queue', kd)
           S2 == Sharing(reads', network', kd)
<1>1. /\ network' = N1 /\ write' = X1 /\ reads' = R \cup rd
      /\ queue' = W2 \ rd
      /\ ahead' = [j \in Jobs |-> IF j \in W2 \ rd THEN ord[j] \cap (W2 \ rd)
                                  ELSE {}]
  BY DEF Pump
<1>2. ASSUME NEW T, NEW j
      PROVE  (T = {} /\ Or(T, j) = j) \/ Or(T, j) \in T
  BY DEF Or, Only
<1>3. \/ net = {} /\ N1 = N
      \/ /\ N = NoJob /\ N1 \in W
         /\ \/ kd[N1] = "network-read"
            \/ kd[N1] \in MutatingNetworkKinds /\ X = NoJob /\ L = {}
  BY <1>2 DEF NetworkStart, NetworkChoice, NetworkHeld, First, OfKind, Writes
<1>4. \/ wr = {} /\ X1 = X
      \/ /\ X = NoJob /\ R = {} /\ X1 \in Writes(W1, kd) /\ ord[X1] \cap Writes(W1, kd) = {}
         /\ N1 # NoJob => kd[N1] \notin MutatingNetworkKinds
  BY <1>2 DEF WriteStart, MutatingActive, First, OfKind, Writes
<1>5. /\ rd \subseteq W2
      /\ rd # {} => X1 = NoJob
      /\ \A j \in rd : kd[j] \in {"interactive", "polling", "background", "preflight"}
  BY DEF ReadStart, FirstN, OfKind, ForegroundReadKinds, BackgroundKinds
<1>6. Earlier(queue', ahead', kd) = [j \in Jobs |-> IF j \in L2 THEN ord[j] \cap L2 ELSE {}]
  BY <1>1 DEF Earlier, Writes, OfKind
<1>7. NoJob \notin W
  BY NoJobAssumption
<1>8. Writes(W1, kd) = L
  <2>1. N1 \notin L
    BY <1>3, <1>7 DEF Placed, Busy, Writes, OfKind, MutatingNetworkKinds
  <2> QED BY <2>1 DEF Writes, OfKind
<1> HIDE DEF net, N1, wr, rd
<1>9. CASE X1 = X
  <2>1. L2 = L
    <3>1. X \notin L
      BY <1>7 DEF Placed, Busy, Writes, OfKind
    <3> QED BY <1>1, <1>5, <1>8, <1>9, <3>1 DEF Writes, OfKind
  <2>2. S \subseteq S2 /\ S2 \subseteq Jobs
    BY <1>1, <1>3, <1>5 DEF Sharing, OfKind
  <2>3. S2 # S => X = NoJob
    BY <1>1, <1>3, <1>5, <1>9 DEF Sharing, OfKind, MutatingNetworkKinds
  <2> QED BY <1>1, <1>6, <1>9, <2>1, <2>2, <2>3 DEF Granted
<1>10. CASE X1 # X
  <2>1. /\ X = NoJob /\ R = {} /\ X1 \in L /\ ord[X1] \cap L = {}
        /\ N1 # NoJob => kd[N1] \notin MutatingNetworkKinds
    BY <1>4, <1>8, <1>10
  <2>2. X1 # NoJob /\ rd = {}
    BY <1>5, <1>7, <2>1 DEF Writes, OfKind
  <2>3. L2 = L \ {X1}
    BY <1>1, <1>8, <2>2 DEF Writes, OfKind
  <2>4. S2 = {}
    BY <1>1, <2>1, <2>2 DEF Sharing, OfKind, MutatingNetworkKinds
  <2>5. S = {}
    BY <1>3, <2>1 DEF Sharing, OfKind, MutatingNetworkKinds
  <2> QED BY <1>1, <1>6, <2>1, <2>3, <2>4, <2>5 DEF Granted
<1> QED BY <1>9, <1>10

-----------------------------------------------------------------------------
\* The state of the lock, as the refinement mapping gives it.
line == WaitingWrites
before == [j \in Jobs |-> IF j \in WaitingWrites THEN ahead[j] \cap WaitingWrites ELSE {}]
sharers == reads \cup OfKind({network} \ {NoJob}, {"network", "background-fetch"}, kind)

\* RepositoryLock's Grant of that state.
LockGrant(L, b, S, H) ==
  \/ /\ H = NoJob /\ S = {} /\ sharers' = {}
     /\ \E w \in L : b[w] \cap L = {} /\ write' = w /\ line' = L \ {w}
     /\ before' = [j \in Jobs |-> IF j \in line' THEN b[j] \cap line' ELSE {}]
  \/ /\ write' = H /\ line' = L
     /\ S \subseteq sharers' /\ sharers' \subseteq Jobs
     /\ sharers' # S => H = NoJob
     /\ before' = [j \in Jobs |-> IF j \in L THEN b[j] \cap L ELSE {}]

\* Pumping with kinds that are those of the jobs still pending is a Grant.
LEMMA PumpIsGrant ==
  ASSUME NEW W \in SUBSET Jobs, NEW R \in SUBSET Jobs,
         NEW X \in Jobs \cup {NoJob}, NEW N \in Jobs \cup {NoJob},
         NEW ord \in [Jobs -> SUBSET Jobs],
         NEW kd \in [Jobs -> Kinds \cup {"none"}],
         Placed(W, R, X, N, kd), Alone(R, X, N, kd),
         Pump(W, R, X, N, ord, kd),
         \A j \in queue' \cup Lanes' : kind'[j] = kd[j],
         NEW b, \A w \in Writes(W, kd) : b[w] \cap Writes(W, kd) = ord[w] \cap Writes(W, kd)
  PROVE  LockGrant(Writes(W, kd), b, Sharing(R, N, kd), X)
<1> DEFINE L == Writes(W, kd)
           S == Sharing(R, N, kd)
<1>1. Granted(L, ord, S, X, Writes(queue', kd), Earlier(queue', ahead', kd), Sharing(reads', network', kd))
  BY PumpGrants
<1>2. line' = Writes(queue', kd)
  BY DEF line, WaitingWrites, Writes, OfKind
<1>3. sharers' = Sharing(reads', network', kd)
  BY DEF sharers, Sharing, OfKind, Lanes
<1>4. before' = Earlier(queue', ahead', kd)
  BY <1>2 DEF before, line, Earlier
<1>5. ASSUME NEW L2 \in SUBSET L
      PROVE  [j \in Jobs |-> IF j \in L2 THEN ord[j] \cap L2 ELSE {}]
               = [j \in Jobs |-> IF j \in L2 THEN b[j] \cap L2 ELSE {}]
  <2>1. \A j \in L2 : ord[j] \cap L2 = b[j] \cap L2
    OBVIOUS
  <2> QED BY <2>1
<1>6. \A w \in L : b[w] \cap L = ord[w] \cap L
  OBVIOUS
<1> HIDE DEF L, S
<1>7. LockGrant(L, b, S, X)
  <2>1. CASE /\ X = NoJob /\ S = {} /\ sharers' = {}
             /\ \E w \in L : ord[w] \cap L = {} /\ write' = w /\ line' = L \ {w}
             /\ before' = [j \in Jobs |-> IF j \in line' THEN ord[j] \cap line' ELSE {}]
    <3>1. line' \in SUBSET L
      BY <2>1
    <3>2. before' = [j \in Jobs |-> IF j \in line' THEN b[j] \cap line' ELSE {}]
      BY <1>5, <2>1, <3>1
    <3> QED BY <1>6, <2>1, <3>2 DEF LockGrant
  <2>2. CASE /\ write' = X /\ line' = L
             /\ S \subseteq sharers' /\ sharers' \subseteq Jobs
             /\ sharers' # S => X = NoJob
             /\ before' = [j \in Jobs |-> IF j \in line' THEN ord[j] \cap line' ELSE {}]
    <3>1. before' = [j \in Jobs |-> IF j \in L THEN b[j] \cap L ELSE {}]
      BY <1>5, <2>2
    <3> QED BY <2>2, <3>1 DEF LockGrant
  <2> QED BY <1>1, <1>2, <1>3, <1>4, <2>1, <2>2 DEF Granted
<1> QED BY <1>7 DEF L, S

\* No kind goes before a write in the queue.
LEMMA WritesGoFirst ==
  ASSUME NEW k \in Kinds
  PROVE  Priority["write"] <= Priority[k]
  BY DEF Priority, Kinds

LEMMA ScheduleImplements ==
  ASSUME IInv, IInv', NEW j \in Jobs, NEW k \in CallKinds, NEW ck \in Keys,
         NEW pre \in BOOLEAN, Schedule(j, k, ck, pre)
  PROVE  Lock!Request(j) \/ Lock!Share
<1> DEFINE victims == BackgroundVictims(k) \cup FetchVictims(k)
           dropped == OfKind(queue, victims, kind)
           stay == queue \ dropped
           W == IF pre THEN stay ELSE stay \cup {j}
           Bef == Before(stay, k)
           ord == [i \in Jobs |->
                IF i = j THEN Bef
                ELSE IF i \in stay \ Bef /\ ~pre
                THEN (ahead[i] \cap stay) \cup {j}
                ELSE ahead[i] \cap stay]
           gone == Settled(dropped)
           blank == gone \cup (IF pre THEN {j} ELSE {})
           entered == [kind EXCEPT ![j] = k]
<1>1. /\ outcome[j] # "pending"
      /\ Pump(W, reads, write, network, ord, entered)
      /\ kind' = Kept(entered, blank, "none")
      /\ outcome' = [i \in Jobs |->
           IF i \in gone THEN VictimOutcome(kind[i])
           ELSE IF i = j THEN (IF pre THEN "aborted" ELSE "pending")
           ELSE outcome[i]]
  BY DEF Schedule
<1>2. /\ TypeOK
      /\ \A i \in Jobs : (outcome[i] = "pending" /\ joined[i] = NoJob)
                        <=> i \in queue \cup Busy(reads, write, network)
      /\ Placed(queue, reads, write, network, kind)
      /\ Alone(reads, write, network, kind)
  BY InvariantParts DEF IInv
<1>3. k \in Kinds /\ j \notin queue \cup Busy(reads, write, network)
  BY <1>1, <1>2, CallKindsAssumption
<1>4. W \in SUBSET Jobs /\ ord \in [Jobs -> SUBSET Jobs] /\ entered \in [Jobs -> Kinds \cup {"none"}]
  BY <1>2, <1>3 DEF TypeOK, Before
<1>5. Placed(W, reads, write, network, entered) /\ Alone(reads, write, network, entered)
  <2>1. \A i \in Busy(reads, write, network) : entered[i] = kind[i]
    BY <1>2, <1>3 DEF TypeOK, Busy
  <2>2. Placed(queue, reads, write, network, entered) /\ Alone(reads, write, network, entered)
    BY <1>2, <2>1, KindsOutsideLanesAreFree DEF TypeOK
  <2> QED BY <2>2, <1>3 DEF Placed
<1>6. ASSUME NEW i \in queue' \cup Lanes' PROVE kind'[i] = entered[i]
  <2>1. i \in Jobs /\ outcome'[i] = "pending"
    BY NoJobAssumption DEF IInv, TypeOK, OnePlace, Lanes
  <2>2. i \notin blank
    BY <1>1, <2>1 DEF VictimOutcome, Settled
  <2> QED BY <1>1, <2>1, <2>2 DEF Kept
<1>7. Writes(stay, kind) = line /\ line \subseteq stay /\ line \subseteq Jobs
  BY <1>2 DEF Writes, OfKind, WaitingWrites, line, BackgroundVictims, FetchVictims, TypeOK
<1>8. \A w \in line : w # j /\ kind[w] = "write" /\ entered[w] = "write"
  BY <1>2, <1>3, <1>7 DEF line, WaitingWrites, OfKind, TypeOK
<1>9. \A w \in line : ord[w] = ahead[w] \cap stay
  <2>1. \A w \in line : w \in Bef
    BY <1>3, <1>7, <1>8, WritesGoFirst DEF Before
  <2> QED BY <1>7, <1>8, <2>1
<1>10. Sharing(reads, network, entered) = sharers
  BY <1>2, <1>3 DEF Sharing, sharers, OfKind, Busy, TypeOK
<1> HIDE DEF ord, W, entered, stay, Bef
<1>11. CASE k = "write" /\ ~pre
  <2> DEFINE b == [before EXCEPT ![j] = line]
  <2>1. Writes(W, entered) = line \cup {j}
    BY <1>2, <1>3, <1>7, <1>8, <1>11 DEF W, Writes, OfKind, entered, stay, TypeOK
  <2>2. \A w \in line : b[w] \cap (line \cup {j}) = ord[w] \cap (line \cup {j})
    <3>1. j \notin stay
      BY <1>3 DEF stay
    <3>2. \A w \in line : b[w] = ahead[w] \cap line
      BY <1>7, <1>8 DEF before, line
    <3> QED BY <1>7, <1>9, <3>1, <3>2
  <2>3. b[j] \cap (line \cup {j}) = ord[j] \cap (line \cup {j})
    <3>1. ord[j] = Bef /\ j \notin Bef /\ line \subseteq Bef
      BY <1>3, <1>7, <1>8, <1>11 DEF ord, Bef, Before, stay, Priority, Kinds
    <3>2. b[j] = line
      BY DEF before
    <3> QED BY <3>1, <3>2, <1>8
  <2>4. LockGrant(line \cup {j}, b, sharers, write)
    <3> HIDE DEF b
    <3>1. \A w \in Writes(W, entered) : b[w] \cap Writes(W, entered) = ord[w] \cap Writes(W, entered)
      BY <2>1, <2>2, <2>3
    <3>2. /\ reads \in SUBSET Jobs /\ write \in Jobs \cup {NoJob} /\ network \in Jobs \cup {NoJob}
      BY <1>2 DEF TypeOK
    <3>3. LockGrant(Writes(W, entered), b, Sharing(reads, network, entered), write)
      BY <1>1, <1>4, <1>5, <1>6, <3>1, <3>2, PumpIsGrant
    <3> QED BY <1>10, <2>1, <3>3
  <2>5. j \notin line /\ j # write /\ j \notin sharers
    BY <1>3, <1>8, NoJobAssumption DEF sharers, Busy, OfKind
  <2> QED BY <2>4, <2>5 DEF LockGrant, Lock!Request, Lock!Grant, Lock!Behind, line, before, sharers
<1>12. CASE k # "write" \/ pre
  <2>1. Writes(W, entered) = line
    <3>1. j \notin stay /\ \A w \in stay : entered[w] = kind[w]
      BY <1>2, <1>3 DEF entered, stay, TypeOK
    <3>2. Writes(stay, entered) = line
      BY <1>7, <3>1 DEF Writes, OfKind
    <3>3. CASE pre
      BY <3>2, <3>3 DEF W
    <3>4. CASE ~pre
      <4>1. entered[j] # "write"
        BY <1>2, <1>12, <3>4 DEF entered, TypeOK
      <4> QED BY <3>2, <3>4, <4>1 DEF W, Writes, OfKind
    <3> QED BY <3>3, <3>4
  <2>2. \A w \in line : before[w] \cap line = ord[w] \cap line
    BY <1>7, <1>9 DEF before, line
  <2>3. LockGrant(line, before, sharers, write)
    <3>1. /\ reads \in SUBSET Jobs /\ write \in Jobs \cup {NoJob} /\ network \in Jobs \cup {NoJob}
      BY <1>2 DEF TypeOK
    <3>2. \A w \in Writes(W, entered) : before[w] \cap Writes(W, entered) = ord[w] \cap Writes(W, entered)
      BY <2>1, <2>2
    <3>3. LockGrant(Writes(W, entered), before, Sharing(reads, network, entered), write)
      BY <1>1, <1>4, <1>5, <1>6, <3>1, <3>2, PumpIsGrant
    <3> QED BY <1>10, <2>1, <3>3
  <2> QED BY <2>3 DEF LockGrant, Lock!Share, Lock!Grant, Lock!Behind, line, before, sharers
<1> QED BY <1>11, <1>12

LEMMA FinishImplements ==
  ASSUME IInv, IInv', NEW j \in Jobs, NEW result \in RunResults, Finish(j, result)
  PROVE  Lock!Release(j) \/ Lock!Share
<1> DEFINE R == reads \ {j}
           X == IF write = j THEN NoJob ELSE write
           N == IF network = j THEN NoJob ELSE network
<1>1. /\ TypeOK
      /\ \A i \in Jobs : (outcome[i] = "pending" /\ joined[i] = NoJob)
                        <=> i \in queue \cup Busy(reads, write, network)
      /\ Placed(queue, reads, write, network, kind)
      /\ Alone(reads, write, network, kind)
  BY InvariantParts DEF IInv
<1>2. /\ j \in Busy(reads, write, network) /\ j \notin queue
      /\ Pump(queue, R, X, N, ahead, kind)
      /\ kind' = [kind EXCEPT ![j] = "none"]
      /\ outcome'[j] # "pending"
  <2>1. j \in Busy(reads, write, network) /\ j \notin queue
    BY <1>1 DEF Finish, Lanes, Busy, Placed
  <2>2. j \in Settled({j})
    BY <1>1, <2>1 DEF Settled, Entry
  <2>3. FinishOutcome(j, result) # "pending"
    BY <1>1, RunResultsAssumption DEF FinishOutcome, Results, TypeOK, Signals
  <2> QED BY <2>1, <2>2, <2>3 DEF Finish
<1>3. /\ queue \in SUBSET Jobs /\ R \in SUBSET Jobs /\ X \in Jobs \cup {NoJob} /\ N \in Jobs \cup {NoJob}
      /\ ahead \in [Jobs -> SUBSET Jobs] /\ kind \in [Jobs -> Kinds \cup {"none"}]
      /\ Placed(queue, R, X, N, kind) /\ Alone(R, X, N, kind)
  <2>1. /\ queue \in SUBSET Jobs /\ R \in SUBSET Jobs /\ X \in Jobs \cup {NoJob} /\ N \in Jobs \cup {NoJob}
        /\ ahead \in [Jobs -> SUBSET Jobs] /\ kind \in [Jobs -> Kinds \cup {"none"}]
    BY <1>1 DEF TypeOK
  <2>2. Placed(queue, R, X, N, kind) /\ Alone(R, X, N, kind)
    BY <1>1 DEF Placed, Alone, Busy
  <2> QED BY <2>1, <2>2
<1>4. ASSUME NEW i \in queue' \cup Lanes' PROVE kind'[i] = kind[i]
  <2>1. i \in Jobs /\ outcome'[i] = "pending"
    BY NoJobAssumption DEF IInv, TypeOK, OnePlace, Lanes
  <2> QED BY <1>2, <1>3, <2>1
<1>5. Writes(queue, kind) = line
  BY DEF Writes, line, WaitingWrites
<1>6. \A w \in Writes(queue, kind) : before[w] \cap Writes(queue, kind) = ahead[w] \cap Writes(queue, kind)
  BY <1>3, <1>5 DEF before, line, Writes, OfKind
<1>7. Sharing(R, N, kind) = sharers \ {j}
  BY <1>1, <1>2, NoJobAssumption DEF Sharing, sharers, OfKind, Placed
<1> HIDE DEF R, X, N
<1>8. LockGrant(Writes(queue, kind), before, Sharing(R, N, kind), X)
  BY <1>2, <1>3, <1>4, <1>6, PumpIsGrant
<1>9. LockGrant(line, before, sharers \ {j}, IF write = j THEN NoJob ELSE write)
  BY <1>5, <1>7, <1>8 DEF X
<1>10. CASE j = write \/ j \in sharers
  BY <1>9, <1>10 DEF LockGrant, Lock!Release, Lock!Grant, Lock!Behind, line, before, sharers
<1>11. CASE j # write /\ j \notin sharers
  <2>1. LockGrant(line, before, sharers, write)
    <3>1. sharers \ {j} = sharers
      BY <1>11
    <3> QED BY <1>9, <1>11, <3>1
  <2> QED BY <2>1 DEF LockGrant, Lock!Share, Lock!Grant, Lock!Behind, line, before, sharers
<1> QED BY <1>10, <1>11

\* The state of the lock, unchanged.
LockStutters == UNCHANGED <<line, before, write, sharers>>

LEMMA AbortImplements ==
  ASSUME IInv, NEW j \in Jobs, Abort(j)
  PROVE  Lock!GiveUp(j) \/ LockStutters
<1>1. TypeOK /\ OnePlace
  BY DEF IInv
<1>2. CASE j \notin queue
  BY <1>2 DEF Abort, LockStutters, line, before, sharers, WaitingWrites, OfKind
<1>3. CASE j \in queue
  <2>1. /\ queue' = queue \ {j}
        /\ ahead' = [i \in Jobs |-> IF i = j THEN {} ELSE ahead[i] \ {j}]
        /\ kind' = [kind EXCEPT ![j] = "none"]
        /\ UNCHANGED <<reads, write, network>>
    BY <1>3 DEF Abort
  <2>2. \A i \in Jobs \ {j} : kind'[i] = kind[i]
    BY <1>1, <2>1 DEF TypeOK
  <2>3. line' = line \ {j}
    BY <1>1, <2>1, <2>2 DEF line, WaitingWrites, OfKind, TypeOK
  <2>4. sharers' = sharers
    <3>1. j # network
      BY <1>1, <1>3, NoJobAssumption DEF OnePlace, Lanes
    <3>2. network # NoJob => network \in Jobs \ {j}
      BY <1>1, <3>1 DEF TypeOK
    <3> QED BY <2>1, <2>2, <3>2 DEF sharers, OfKind
  <2>5. before' = [i \in Jobs |-> IF i \in line \ {j} THEN ahead[i] \cap (line \ {j}) ELSE {}]
    BY <1>1, <2>1, <2>3 DEF before, line, TypeOK
  <2>6. before' = [i \in Jobs |-> IF i \in line' THEN before[i] \cap line' ELSE {}]
    BY <2>3, <2>5 DEF before, line, WaitingWrites, OfKind
  <2>7. CASE j \in line
    BY <2>1, <2>3, <2>4, <2>6, <2>7 DEF Lock!GiveUp, Lock!Behind, line, before, sharers
  <2>8. CASE j \notin line
    <3>1. line' = line
      BY <2>3, <2>8
    <3>2. before' = before
      BY <2>6, <3>1 DEF before, line
    <3> QED BY <2>1, <2>4, <3>1, <3>2 DEF LockStutters
  <2> QED BY <2>7, <2>8
<1> QED BY <1>2, <1>3

\* Joining, refusing and closing leave the lanes and the queue alone.
LEMMA OtherStepsStutter ==
  ASSUME \/ \E j \in Jobs, ck \in Keys : Join(j, ck)
         \/ \E j \in Jobs : Refuse(j)
         \/ Close
         \/ Closed
         \/ UNCHANGED vars
  PROVE  LockStutters
<1>1. UNCHANGED <<kind, queue, ahead, reads, write, network>>
  BY DEF Join, Refuse, Close, Closed, vars, entryVars, laneVars
<1> QED BY <1>1 DEF LockStutters, line, before, sharers, WaitingWrites, OfKind

LEMMA InitImplements == Init => Lock!Init
<1> SUFFICES ASSUME Init PROVE Lock!Init
  OBVIOUS
<1>1. WaitingWrites = {}
  BY DEF Init, WaitingWrites, OfKind
<1>2. sharers = {} /\ write = NoJob
  BY DEF Init, sharers, OfKind
<1>3. before = [j \in Jobs |-> {}]
  BY <1>1 DEF before
<1> QED BY <1>1, <1>2, <1>3 DEF Lock!Init, sharers, before

LEMMA NextImplements == IInv /\ IInv' /\ [Next]_vars => [Lock!Next]_(Lock!vars)
<1> SUFFICES ASSUME IInv, IInv', [Next]_vars PROVE [Lock!Next]_(Lock!vars)
  OBVIOUS
<1>1. ASSUME NEW j \in Jobs, NEW k \in CallKinds, NEW ck \in Keys,
             NEW pre \in BOOLEAN, Schedule(j, k, ck, pre)
      PROVE  Lock!Next
  BY <1>1, ScheduleImplements DEF Lock!Next
<1>2. ASSUME NEW j \in Jobs, NEW result \in RunResults, Finish(j, result)
      PROVE  Lock!Next
  BY <1>2, FinishImplements DEF Lock!Next
<1>3. LockStutters => UNCHANGED Lock!vars
  BY DEF LockStutters, Lock!vars, line, before, sharers
<1>4. ASSUME NEW j \in Jobs, Abort(j) PROVE Lock!Next \/ UNCHANGED Lock!vars
  BY <1>3, <1>4, AbortImplements DEF Lock!Next
<1>5. CASE \/ \E j \in Jobs, ck \in Keys : Join(j, ck)
           \/ \E j \in Jobs : Refuse(j)
           \/ Close
           \/ Closed
           \/ UNCHANGED vars
  BY <1>3, <1>5, OtherStepsStutter
<1> QED BY <1>1, <1>2, <1>4, <1>5 DEF Next

\* Writes of a repository hold it alone and get it in the order in which
\* schedule() accepted them, whatever is aborted, preempted or coalesced.
THEOREM SchedulerImplementsLock == Spec => ImplementsLock
<1>1. IInv /\ IInv' /\ [Next]_vars => [Lock!Next]_(Lock!vars)
  BY NextImplements
<1> QED BY <1>1, InitImplements, SpecIInv, PTL DEF Spec, ImplementsLock, Lock!Spec

-----------------------------------------------------------------------------
(***************************************************************************)
(* The proof that the queue never waits for nothing (NoStall).  The queue  *)
(* is finite and sorted, so some entry of every kind that waits is the     *)
(* first one; as the limits are at least one, a pump with free lanes       *)
(* starts it.                                                              *)
(***************************************************************************)

\* The queue Q in the order ord: a linear order that the priorities follow.
Sorted(Q, ord, kd) ==
  /\ \A i \in Q : kd[i] \in Kinds /\ i \notin ord[i]
  /\ \A i, l \in Q : l = i \/ l \in ord[i] \/ i \in ord[l]
  /\ \A i, l \in Q : l \in ord[i] => Priority[kd[l]] <= Priority[kd[i]]
  /\ \A i, l, m \in Q : m \in ord[l] /\ l \in ord[i] => m \in ord[i]

Moving == Sorted(queue, ahead, kind) /\ NoStall

LEMMA LeastElement ==
  ASSUME NEW T \in SUBSET Nat, T # {}
  PROVE  \E m \in T : \A n \in T : m <= n
<1>1. PICK m \in T : \A n \in T : ~ (<<n, m>> \in OpToRel(<, Nat))
  BY NatLessThanWellFounded, WFMin
<1>2. \A n \in T : ~ (n < m)
  BY <1>1 DEF OpToRel
<1> QED BY <1>2

LEMMA FirstExists ==
  ASSUME NEW S \in SUBSET Jobs, S # {}, NEW ord,
         \A i \in S : i \notin ord[i],
         \A i, l, m \in S : m \in ord[l] /\ l \in ord[i] => m \in ord[i]
  PROVE  First(S, ord) # {}
<1> DEFINE rank(i) == Cardinality(ord[i] \cap S)
           ranks == {rank(i) : i \in S}
<1>1. \A U \in SUBSET S : IsFiniteSet(U) /\ Cardinality(U) \in Nat
  BY JobsAssumption, FS_Subset, FS_CardinalityType
<1>2. PICK i \in S : \A l \in S : rank(i) <= rank(l)
  <2>1. \A i \in S : rank(i) \in Nat
    BY <1>1
  <2> HIDE DEF rank
  <2>2. ranks \in SUBSET Nat /\ ranks # {}
    BY <2>1
  <2>3. PICK n \in ranks : \A m \in ranks : n <= m
    <3> HIDE DEF ranks
    <3> QED BY <2>2, LeastElement
  <2>4. PICK i \in S : n = rank(i)
    OBVIOUS
  <2> QED BY <2>3, <2>4
<1>3. ord[i] \cap S = {}
  <2> SUFFICES ASSUME NEW l \in ord[i] \cap S PROVE FALSE
    OBVIOUS
  <2>1. ord[l] \cap S \subseteq ord[i] \cap S /\ ord[l] \cap S # ord[i] \cap S
    OBVIOUS
  <2>2. rank(l) < rank(i)
    BY <1>1, <2>1, FS_Subset
  <2>3. rank(i) \in Nat /\ rank(l) \in Nat
    BY <1>1
  <2> QED BY <1>2, <2>2, <2>3
<1> QED BY <1>3 DEF First

\* The sort order of a queue does not depend on what left it.
LEMMA SortedSubset ==
  ASSUME NEW W, NEW Q \in SUBSET W, NEW ord, NEW ord2, NEW kd, NEW kd2, Sorted(W, ord, kd),
         \A i \in Q : kd2[i] = kd[i] /\ ord2[i] \cap Q = ord[i] \cap Q
  PROVE  Sorted(Q, ord2, kd2)
<1>1. \A i, l \in Q : l \in ord2[i] <=> l \in ord[i]
  OBVIOUS
<1> QED BY <1>1 DEF Sorted

\* The first n > 0 of a set are some.
LEMMA FirstNSome ==
  ASSUME NEW S \in SUBSET Jobs, NEW ord, NEW n \in Nat \ {0}, First(S, ord) # {}
  PROVE  FirstN(S, n, ord) # {}
<1>1. PICK i \in S : ord[i] \cap S = {}
  BY DEF First
<1>2. Cardinality(ord[i] \cap S) = 0
  BY <1>1, FS_EmptySet
<1> QED BY <1>2 DEF FirstN

\* pump() with free lanes starts something when anything waits.
LEMMA PumpNeverStalls ==
  ASSUME NEW W \in SUBSET Jobs, NEW R, NEW X, NEW N, NEW ord, NEW kd,
         Sorted(W, ord, kd), Pump(W, R, X, N, ord, kd)
  PROVE  queue' # {} => Busy(reads', write', network') # {}
<1> DEFINE net == NetworkStart(W, X, N, ord, kd)
           N1 == Or(net, N)
           W1 == W \ {N1}
           wr == WriteStart(W1, R, X, N1, ord, kd)
           X1 == Or(wr, X)
           W2 == W1 \ {X1}
           rd == ReadStart(W2, R, X1, N1, ord, kd)
<1>1. network' = N1 /\ write' = X1 /\ reads' = R \cup rd /\ queue' = W2 \ rd
  BY DEF Pump
<1> SUFFICES ASSUME queue' # {}, Busy(reads', write', network') = {} PROVE FALSE
  OBVIOUS
<1>2. reads' = {} /\ write' = NoJob /\ network' = NoJob
  BY DEF Busy
<1>3. ASSUME NEW S \in SUBSET W, NEW j, Or(First(S, ord), j) = NoJob
      PROVE  S = {}
  <2> SUFFICES ASSUME S # {} PROVE FALSE
    OBVIOUS
  <2>1. First(S, ord) # {}
    BY FirstExists DEF Sorted
  <2>2. Or(First(S, ord), j) \in S
    BY <2>1 DEF Or, Only, First
  <2> QED BY <1>3, <2>2, NoJobAssumption
<1>4. ASSUME NEW S, NEW j PROVE Or(S, j) = j \/ Or(S, j) \in S
  BY DEF Or, Only
<1>5. N = NoJob /\ X = NoJob /\ R = {}
  <2>1. N = NoJob
    BY <1>1, <1>2 DEF NetworkStart, Or
  <2>2. X = NoJob
    BY <1>1, <1>2 DEF WriteStart, Or
  <2> QED BY <1>1, <1>2, <2>1, <2>2
<1>6. W1 = W /\ W2 = W /\ rd = {}
  BY <1>1, <1>2, NoJobAssumption
<1>7. OfKind(W, {"network-read"}, kd) = {}
  BY <1>1, <1>2, <1>3, <1>5 DEF NetworkStart, NetworkChoice, OfKind
<1>8. OfKind(W, {"write"}, kd) = {}
  <2>1. WriteStart(W, R, X, NoJob, ord, kd) = First(OfKind(W, {"write"}, kd), ord)
    BY <1>5 DEF WriteStart, MutatingActive
  <2>2. Or(First(OfKind(W, {"write"}, kd), ord), X) = NoJob
    BY <1>1, <1>2, <1>6, <2>1
  <2> QED BY <1>3, <2>2 DEF OfKind
<1>9. OfKind(W, MutatingNetworkKinds, kd) = {}
  <2>1. net = First(OfKind(W, MutatingNetworkKinds, kd), ord)
    BY <1>5, <1>7, <1>8 DEF NetworkStart, NetworkChoice, NetworkHeld
  <2>2. Or(First(OfKind(W, MutatingNetworkKinds, kd), ord), N) = NoJob
    BY <1>1, <1>2, <2>1
  <2> QED BY <1>3, <2>2 DEF OfKind
<1> DEFINE fore == FirstN(OfKind(W, ForegroundReadKinds, kd), MaxConcurrentReads - Cardinality(R), ord)
           slots == MaxConcurrentReads - Cardinality(R \cup fore)
           budget == BackgroundBudget(R, kd)
           least == IF slots < budget THEN slots ELSE budget
<1>10. Cardinality({}) = 0
  BY FS_EmptySet
<1>11. fore = {} /\ (InteractiveActive(R, fore, kd) \/ FirstN(OfKind(W, BackgroundKinds, kd), least, ord) = {})
  <2>1. ~ (X1 # NoJob \/ ReadsHeld(W2, N1, kd))
    BY <1>1, <1>2, <1>6, <1>8 DEF ReadsHeld
  <2> QED BY <1>1, <1>2, <1>6, <2>1 DEF ReadStart
<1>12. OfKind(W, ForegroundReadKinds, kd) = {}
  <2> DEFINE S == OfKind(W, ForegroundReadKinds, kd)
  <2> SUFFICES ASSUME S # {} PROVE FALSE
    OBVIOUS
  <2>1. S \in SUBSET W
    BY DEF OfKind
  <2>2. First(S, ord) # {}
    BY <2>1, FirstExists DEF Sorted
  <2>3. MaxConcurrentReads - Cardinality(R) \in Nat \ {0}
    BY <1>5, <1>10, LimitAssumption
  <2> QED BY <1>11, <2>1, <2>2, <2>3, FirstNSome
<1>13. OfKind(W, BackgroundKinds, kd) = {}
  <2> DEFINE S == OfKind(W, BackgroundKinds, kd)
  <2> SUFFICES ASSUME S # {} PROVE FALSE
    OBVIOUS
  <2>1. S \in SUBSET W
    BY DEF OfKind
  <2>2. First(S, ord) # {}
    BY <2>1, FirstExists DEF Sorted
  <2>3. OfKind(R, BackgroundKinds, kd) = {} /\ R \cup fore = {}
    BY <1>5, <1>11 DEF OfKind
  <2>4. least \in Nat \ {0}
    <3>1. slots = MaxConcurrentReads - 0 /\ budget = MaxBackgroundReads - 0
      BY <1>10, <2>3 DEF BackgroundBudget
    <3> HIDE DEF slots, budget
    <3> QED BY <3>1, LimitAssumption
  <2>5. ~ InteractiveActive(R, fore, kd)
    BY <2>3 DEF InteractiveActive, OfKind
  <2> HIDE DEF least, S
  <2> QED BY <1>11, <2>1, <2>2, <2>4, <2>5, FirstNSome DEF S
<1>14. \A i \in W : kd[i] \in Kinds
  BY DEF Sorted
<1>15. W = {}
  BY <1>7, <1>8, <1>9, <1>12, <1>13, <1>14
     DEF OfKind, Kinds, MutatingNetworkKinds, ForegroundReadKinds, BackgroundKinds
<1> QED BY <1>1, <1>6, <1>15

\* What pump() leaves in the queue stays in its order, and something runs.
LEMMA PumpMoves ==
  ASSUME NEW W \in SUBSET Jobs, NEW R, NEW X, NEW N, NEW ord, NEW kd,
         Sorted(W, ord, kd), Pump(W, R, X, N, ord, kd),
         \A i \in queue' : kind'[i] = kd[i]
  PROVE  Moving'
<1>1. /\ queue' \subseteq W
      /\ \A i \in queue' : ahead'[i] = ord[i] \cap queue'
  BY DEF Pump
<1>2. Sorted(queue', ahead', kind')
  BY <1>1, SortedSubset
<1>3. NoStall'
  BY PumpNeverStalls DEF NoStall, Lanes, Busy
<1> QED BY <1>2, <1>3 DEF Moving

LEMMA ScheduleMoves ==
  ASSUME IInv, IInv', Moving, NEW j \in Jobs, NEW k \in CallKinds, NEW ck \in Keys,
         NEW pre \in BOOLEAN, Schedule(j, k, ck, pre)
  PROVE  Moving'
<1> DEFINE victims == BackgroundVictims(k) \cup FetchVictims(k)
           dropped == OfKind(queue, victims, kind)
           stay == queue \ dropped
           W == IF pre THEN stay ELSE stay \cup {j}
           bef == Before(stay, k)
           ord == [i \in Jobs |->
                IF i = j THEN bef
                ELSE IF i \in stay \ bef /\ ~pre
                THEN (ahead[i] \cap stay) \cup {j}
                ELSE ahead[i] \cap stay]
           gone == Settled(dropped)
           blank == gone \cup (IF pre THEN {j} ELSE {})
           entered == [kind EXCEPT ![j] = k]
<1>1. /\ outcome[j] # "pending"
      /\ Pump(W, reads, write, network, ord, entered)
      /\ kind' = Kept(entered, blank, "none")
      /\ outcome' = [i \in Jobs |->
           IF i \in gone THEN VictimOutcome(kind[i])
           ELSE IF i = j THEN (IF pre THEN "aborted" ELSE "pending")
           ELSE outcome[i]]
  BY DEF Schedule
<1>2. TypeOK /\ k \in Kinds /\ j \notin queue
  BY <1>1, CallKindsAssumption DEF IInv, OnePlace
<1>3. stay \subseteq queue /\ queue \subseteq Jobs /\ W \in SUBSET Jobs /\ bef \subseteq stay /\ j \notin stay
  BY <1>2 DEF TypeOK, Before
<1>4. \A i \in queue' : kind'[i] = entered[i]
  <2> SUFFICES ASSUME NEW i \in queue' PROVE kind'[i] = entered[i]
    OBVIOUS
  <2>1. i \in Jobs /\ outcome'[i] = "pending"
    BY DEF IInv, TypeOK, OnePlace
  <2>2. i \notin blank
    BY <1>1, <2>1 DEF VictimOutcome, Settled
  <2> QED BY <1>1, <2>1, <2>2 DEF Kept
<1>5. Sorted(stay, ord, entered)
  <2>1. Sorted(queue, ahead, kind)
    BY DEF Moving
  <2>2. \A i \in stay : entered[i] = kind[i] /\ ord[i] \cap stay = ahead[i] \cap stay
    BY <1>2, <1>3 DEF TypeOK
  <2> HIDE DEF stay, ord, entered
  <2> QED BY <1>3, <2>1, <2>2, SortedSubset
<1>6. Sorted(W, ord, entered)
  <2>1. CASE pre
    BY <1>5, <2>1
  <2>2. CASE ~pre
    <3>1. W = stay \cup {j} /\ j \notin stay /\ ord[j] = bef /\ bef \subseteq stay /\ entered[j] = k
      BY <1>2, <1>3, <2>2 DEF TypeOK
    <3>2. \A i \in stay : (j \in ord[i] <=> i \notin bef) /\ entered[i] = kind[i]
      BY <1>2, <1>3, <2>2 DEF TypeOK
    <3>3. \A i \in stay : i \in bef <=> Priority[entered[i]] <= Priority[k]
      BY <3>2 DEF Before
    <3>4. \A x \in Kinds : Priority[x] \in Nat
      BY DEF Priority, Kinds
    <3> HIDE DEF W, ord, entered, bef, stay
    <3>5. \A i \in W : entered[i] \in Kinds /\ Priority[entered[i]] \in Nat
      BY <1>2, <1>5, <3>1, <3>4 DEF Sorted
    <3>6. \A i \in W : entered[i] \in Kinds /\ i \notin ord[i]
      BY <1>5, <3>1, <3>5 DEF Sorted
    <3>7. \A i, l \in W : l = i \/ l \in ord[i] \/ i \in ord[l]
      BY <1>5, <3>1, <3>2 DEF Sorted
    <3>8. \A i, l \in W : l \in ord[i] => Priority[entered[l]] <= Priority[entered[i]]
      BY <1>2, <1>5, <3>1, <3>2, <3>3, <3>4, <3>5 DEF Sorted
    <3>9. ASSUME NEW i \in W, NEW l \in W, NEW m \in W, m \in ord[l], l \in ord[i]
          PROVE  m \in ord[i]
      <4>1. CASE i = j
        BY <1>2, <1>5, <3>1, <3>2, <3>3, <3>4, <3>5, <3>9, <4>1 DEF Sorted
      <4>2. CASE l = j
        <5>1. i \in stay /\ i \notin bef /\ m \in bef
          BY <3>1, <3>2, <3>9, <4>2
        <5>2. ~ (i \in ord[m]) /\ i # m
          BY <1>2, <3>1, <3>3, <3>4, <3>5, <3>8, <5>1
        <5> QED BY <3>7, <5>2
      <4>3. CASE m = j
        BY <1>2, <1>5, <3>1, <3>2, <3>3, <3>4, <3>5, <3>8, <3>9, <4>3 DEF Sorted
      <4>4. CASE i # j /\ l # j /\ m # j
        BY <1>5, <3>1, <3>9, <4>4 DEF Sorted
      <4> QED BY <4>1, <4>2, <4>3, <4>4
    <3> QED BY <3>6, <3>7, <3>8, <3>9 DEF Sorted
  <2> QED BY <2>1, <2>2
<1> HIDE DEF W, ord, entered
<1> QED BY <1>1, <1>3, <1>4, <1>6, PumpMoves

LEMMA FinishMoves ==
  ASSUME IInv, IInv', Moving, NEW j \in Jobs, NEW result \in RunResults, Finish(j, result)
  PROVE  Moving'
<1>1. /\ j \in Lanes /\ kind' = [kind EXCEPT ![j] = "none"]
      /\ Pump(queue, reads \ {j}, IF write = j THEN NoJob ELSE write,
              IF network = j THEN NoJob ELSE network, ahead, kind)
  BY DEF Finish
<1>2. queue' \subseteq queue /\ j \notin queue /\ queue \in SUBSET Jobs /\ TypeOK
  BY <1>1, PumpEmptiesTheQueue DEF IInv, OnePlace, TypeOK
<1>3. \A i \in queue' : kind'[i] = kind[i]
  BY <1>1, <1>2 DEF TypeOK
<1>4. Sorted(queue, ahead, kind)
  BY DEF Moving
<1> QED BY <1>1, <1>2, <1>3, <1>4, PumpMoves

LEMMA AbortMoves ==
  ASSUME IInv, Moving, NEW j \in Jobs, Abort(j)
  PROVE  Moving'
<1>1. Lanes' = Lanes /\ queue' \subseteq queue /\ queue \subseteq Jobs
  BY DEF Abort, Lanes, IInv, TypeOK
<1>2. \A i \in queue' : kind'[i] = kind[i] /\ ahead'[i] \cap queue' = ahead[i] \cap queue'
  BY <1>1 DEF Abort, IInv, TypeOK
<1>3. Sorted(queue', ahead', kind')
  BY <1>1, <1>2, SortedSubset DEF Moving
<1> QED BY <1>1, <1>3 DEF Moving, NoStall

LEMMA NextMoves == IInv /\ IInv' /\ Moving /\ [Next]_vars => Moving'
<1> SUFFICES ASSUME IInv, IInv', Moving, [Next]_vars PROVE Moving'
  OBVIOUS
<1>1. ASSUME NEW j \in Jobs, NEW k \in CallKinds, NEW ck \in Keys,
             NEW pre \in BOOLEAN, Schedule(j, k, ck, pre)
      PROVE  Moving'
  BY <1>1, ScheduleMoves
<1>2. ASSUME NEW j \in Jobs, NEW result \in RunResults, Finish(j, result) PROVE Moving'
  BY <1>2, FinishMoves
<1>3. ASSUME NEW j \in Jobs, Abort(j) PROVE Moving'
  BY <1>3, AbortMoves
<1>4. CASE \/ \E j \in Jobs, ck \in Keys : Join(j, ck)
           \/ \E j \in Jobs : Refuse(j)
           \/ Close
           \/ Closed
           \/ UNCHANGED vars
  <2>1. UNCHANGED <<kind, queue, ahead, reads, write, network>>
    BY <1>4 DEF Join, Refuse, Close, Closed, vars, entryVars, laneVars
  <2> QED BY <2>1 DEF Moving, Sorted, NoStall, Lanes
<1> QED BY <1>1, <1>2, <1>3, <1>4 DEF Next

\* While anything is queued a Git process runs whose end pumps the queue again:
\* no order of calls, aborts and ends leaves accepted jobs behind.
THEOREM QueueNeverStalls == Spec => []NoStall
<1>1. Init => Moving
  BY DEF Init, Moving, Sorted, NoStall
<1>2. Moving => NoStall
  BY DEF Moving
<1> QED BY <1>1, <1>2, NextMoves, SpecIInv, PTL DEF Spec

-----------------------------------------------------------------------------
\* schedule() finds the lanes of a repository by the key of a path, see
\* RepositoryKeys.  Aliases of a repository share its lanes because a key, once
\* computed and cached for ever, stays the one the common Git directory gives.
\* That fails for the paths of early, and only for them.

\* A directory is its own repository or a linked worktree, and it exists.
CommonIsLinked ==
  /\ \A d \in Directories : common[d] # None =>
       d \in exists /\ (common[d] = d \/ <<d, common[d]>> \in Linkable)
  /\ \A p \in initing : dirOf[p] \in exists

\* The cached key of any other path is that of its common Git directory.
CachedIsCommon ==
  \A p \in Paths \ early : cache[p] # None =>
    common[dirOf[p]] # None /\ cache[p] = RepoKey("common", common[dirOf[p]])

\* Every running write has its key to itself.
RunningIsKeyed ==
  /\ \A p \in running : cache[p] # None
  /\ \A p, q \in running : p # q => cache[p] # cache[q]

KeysIInv == KeysTypeOK /\ CommonIsLinked /\ CachedIsCommon /\ RunningIsKeyed

LEMMA KeyTypes ==
  ASSUME KeysTypeOK, NEW p \in Paths
  PROVE  /\ dirOf[p] \in Directories /\ common[dirOf[p]] \in Directories \cup {None}
         /\ CanonicalKey(p) \in RepoKeys
<1>1. dirOf[p] \in Directories /\ common[dirOf[p]] \in Directories \cup {None}
  BY DirAssumption DEF KeysTypeOK
<1>2. ResolvedKey(p) \in RepoKeys
  BY <1>1 DEF ResolvedKey, CommonDirectory, RepoKeys
<1> QED BY <1>1, <1>2 DEF CanonicalKey, KeysTypeOK

\* What a newly cached key is.
LEMMA CanonicalIsCommon ==
  ASSUME KeysIInv, NEW p \in Paths \ early, common[dirOf[p]] # None
  PROVE  CanonicalKey(p) = RepoKey("common", common[dirOf[p]])
  BY DEF KeysIInv, CachedIsCommon, CanonicalKey, ResolvedKey, CommonDirectory

LEMMA InitKeysIInv == KeysInit => KeysIInv
  BY DEF KeysInit, KeysIInv, KeysTypeOK, CommonIsLinked, CachedIsCommon, RunningIsKeyed

\* The key of a path is cached: from then on the path is early, or its key is
\* that of its common Git directory.
LEMMA CacheKeyed ==
  ASSUME KeysIInv, NEW p \in Paths, CacheKey(p), UNCHANGED <<exists, common>>
  PROVE  /\ cache'[p] = CanonicalKey(p) /\ CanonicalKey(p) \in RepoKeys /\ CanonicalKey(p) # None
         /\ \A q \in Paths \ {p} : cache'[q] = cache[q]
         /\ cache' \in [Paths -> RepoKeys \cup {None}] /\ early' \subseteq Paths
         /\ CachedIsCommon'
<1>1. CanonicalKey(p) \in RepoKeys /\ CanonicalKey(p) # None
  BY KeyTypes, NoneAssumption DEF KeysIInv
<1>2. /\ cache'[p] = CanonicalKey(p) /\ \A q \in Paths \ {p} : cache'[q] = cache[q]
      /\ early \subseteq early' /\ early' \subseteq Paths
  BY DEF KeysIInv, KeysTypeOK, CacheKey
<1>3. cache' \in [Paths -> RepoKeys \cup {None}]
  BY <1>1 DEF KeysIInv, KeysTypeOK, CacheKey
<1>4. p \notin early' => common[dirOf[p]] # None
  BY DEF KeysIInv, CachedIsCommon, CacheKey
<1>5. CachedIsCommon'
  BY <1>2, <1>4, CanonicalIsCommon DEF KeysIInv, CachedIsCommon
<1> QED BY <1>1, <1>2, <1>3, <1>5

\* A write, or the initialisation of a repository, starts under a free key.
LEMMA StartKeyed ==
  ASSUME KeysIInv, NEW p \in Paths,
         CanonicalKey(p) \notin ActiveKeys, CacheKey(p),
         running' = running \cup {p}, p \notin running,
         initing' = initing \/ (initing' = initing \cup {p} /\ dirOf[p] \in exists),
         UNCHANGED <<exists, common>>
  PROVE  KeysIInv'
<1>1. /\ cache'[p] = CanonicalKey(p) /\ CanonicalKey(p) # None
      /\ \A q \in Paths \ {p} : cache'[q] = cache[q]
      /\ cache' \in [Paths -> RepoKeys \cup {None}] /\ early' \subseteq Paths
      /\ CachedIsCommon'
  BY CacheKeyed
<1>2. KeysTypeOK'
  BY <1>1 DEF KeysIInv, KeysTypeOK
<1>3. CommonIsLinked'
  BY DEF KeysIInv, CommonIsLinked
<1>4. \A q \in running : cache[q] # CanonicalKey(p)
  BY DEF ActiveKeys
<1>5. RunningIsKeyed'
  BY <1>1, <1>4 DEF KeysIInv, KeysTypeOK, RunningIsKeyed
<1> QED BY <1>1, <1>2, <1>3, <1>5 DEF KeysIInv

LEMMA ResolveKeyed ==
  ASSUME KeysIInv, NEW p \in Paths, Resolve(p)
  PROVE  KeysIInv'
<1>1. /\ \A q \in Paths \ {p} : cache'[q] = cache[q]
      /\ cache' \in [Paths -> RepoKeys \cup {None}] /\ early' \subseteq Paths
      /\ CachedIsCommon'
  BY CacheKeyed DEF Resolve
<1>2. p \notin running /\ UNCHANGED <<exists, common, running, initing>>
  BY DEF KeysIInv, Resolve, RunningIsKeyed
<1>3. KeysTypeOK'
  BY <1>1, <1>2 DEF KeysIInv, KeysTypeOK
<1>4. CommonIsLinked' /\ RunningIsKeyed'
  BY <1>1, <1>2 DEF KeysIInv, KeysTypeOK, CommonIsLinked, RunningIsKeyed
<1> QED BY <1>1, <1>3, <1>4 DEF KeysIInv

\* A directory without a repository gets one; a directory that has one keeps it.
LEMMA RepositoryAppears ==
  ASSUME KeysIInv, NEW d \in Directories, NEW main \in Directories,
         common[d] = None, common' = [common EXCEPT ![d] = main],
         main = d \/ <<d, main>> \in Linkable,
         exists \subseteq exists', exists' \subseteq Directories, d \in exists', running' \subseteq running, initing' \subseteq running',
         initing' \subseteq initing, UNCHANGED <<cache, early>>
  PROVE  KeysIInv'
<1>1. KeysTypeOK'
  BY DEF KeysIInv, KeysTypeOK
<1>2. CommonIsLinked'
  BY DEF KeysIInv, KeysTypeOK, CommonIsLinked
<1>3. CachedIsCommon'
  <2>1. \A p \in Paths : dirOf[p] \in Directories
    BY DirAssumption
  <2> QED BY <2>1 DEF KeysIInv, KeysTypeOK, CachedIsCommon
<1>4. RunningIsKeyed'
  BY DEF KeysIInv, RunningIsKeyed
<1> QED BY <1>1, <1>2, <1>3, <1>4 DEF KeysIInv

LEMMA EndWriteKeyed ==
  ASSUME KeysIInv, NEW p \in Paths, EndWrite(p)
  PROVE  KeysIInv'
<1>1. /\ running' = running \ {p} /\ initing' = initing \ {p} /\ initing' \subseteq running'
      /\ UNCHANGED <<exists, cache, early>>
  BY DEF EndWrite, KeysIInv, KeysTypeOK
<1>2. CASE common' = common
  BY <1>1, <1>2 DEF KeysIInv, KeysTypeOK, CommonIsLinked, CachedIsCommon, RunningIsKeyed
<1>3. CASE p \in initing /\ common[dirOf[p]] = None /\ common' = [common EXCEPT ![dirOf[p]] = dirOf[p]]
  <2>1. dirOf[p] \in Directories /\ exists' \subseteq Directories
    BY <1>1, DirAssumption DEF KeysIInv, KeysTypeOK
  <2>2. exists \subseteq exists' /\ dirOf[p] \in exists'
    BY <1>1, <1>3 DEF KeysIInv, CommonIsLinked
  <2> QED BY <1>1, <1>3, <2>1, <2>2, RepositoryAppears
<1> QED BY <1>2, <1>3 DEF EndWrite

LEMMA NextKeysIInv == KeysIInv /\ [KeysNext]_keysVars => KeysIInv'
<1> SUFFICES ASSUME KeysIInv, [KeysNext]_keysVars PROVE KeysIInv'
  OBVIOUS
<1>1. ASSUME NEW p \in Paths, StartWrite(p) PROVE KeysIInv'
  BY <1>1, StartKeyed DEF StartWrite
<1>2. ASSUME NEW p \in Paths, StartInit(p) PROVE KeysIInv'
  BY <1>2, StartKeyed DEF StartInit
<1>3. ASSUME NEW p \in Paths, EndWrite(p) \/ Resolve(p) PROVE KeysIInv'
  BY <1>3, EndWriteKeyed, ResolveKeyed
<1>4. ASSUME NEW d \in Directories, MakeDirectory(d) PROVE KeysIInv'
  BY <1>4 DEF MakeDirectory, KeysIInv, KeysTypeOK, CommonIsLinked, CachedIsCommon, RunningIsKeyed
<1>5. ASSUME NEW d \in Directories, InitOutside(d) PROVE KeysIInv'
  BY <1>5, RepositoryAppears DEF InitOutside, KeysIInv, KeysTypeOK
<1>6. ASSUME NEW d \in Directories, NEW main \in Directories, AddWorktree(d, main) PROVE KeysIInv'
  BY <1>6, RepositoryAppears DEF AddWorktree, KeysIInv, KeysTypeOK
<1>7. CASE UNCHANGED keysVars
  BY <1>7 DEF keysVars, KeysIInv, KeysTypeOK, CommonIsLinked, CachedIsCommon, RunningIsKeyed
<1> QED BY <1>1, <1>2, <1>3, <1>4, <1>5, <1>6, <1>7 DEF KeysNext

LEMMA KeysInductive == KeysSpec => []KeysIInv
  BY InitKeysIInv, NextKeysIInv, PTL DEF KeysSpec

\* The exclusive lanes of schedule() hold for all aliases of a repository, on any
\* disk and with any order of uses, but for paths used before it existed.
THEOREM AliasesShareTheQueue == KeysSpec => []RepositoryWritesExclusive
<1>1. ASSUME KeysIInv PROVE RepositoryWritesExclusive
  <2> SUFFICES ASSUME NEW p \in running, NEW q \in running, p # q, p \notin early, q \notin early,
                      dirOf[p] = dirOf[q] \/ common[dirOf[p]] = common[dirOf[q]]
               PROVE  FALSE
    BY DEF RepositoryWritesExclusive
  <2>1. p \in Paths /\ q \in Paths /\ cache[p] # None /\ cache[q] # None /\ cache[p] # cache[q]
    BY <1>1 DEF KeysIInv, KeysTypeOK, RunningIsKeyed
  <2> QED BY <1>1, <2>1 DEF KeysIInv, CachedIsCommon
<1>2. KeysIInv => RepositoryWritesExclusive
  BY <1>1
<1> QED BY <1>2, KeysInductive, PTL

\* isRepositoryBusy() sees the jobs of a repository under each of its paths, but
\* for paths used before it existed.
THEOREM BusyUnderEveryPath == KeysSpec => []BusyIsSeen
<1>1. ASSUME KeysIInv PROVE BusyIsSeen
  <2> SUFFICES ASSUME NEW p \in running, NEW q \in Paths,
                      common[dirOf[q]] # None, common[dirOf[p]] = common[dirOf[q]],
                      p = q \/ (p \notin early /\ q \notin early)
               PROVE  RepositoryBusy(q)
    BY DEF BusyIsSeen
  <2>1. p \in Paths /\ cache[p] # None /\ cache[p] \in ActiveKeys
    BY <1>1 DEF KeysIInv, KeysTypeOK, RunningIsKeyed, ActiveKeys
  <2>2. CASE p = q
    BY <2>1, <2>2 DEF RepositoryBusy, BusyKey
  <2>3. CASE p \notin early /\ q \notin early
    <3>1. cache[p] = RepoKey("common", common[dirOf[q]])
      BY <1>1, <2>1, <2>3 DEF KeysIInv, CachedIsCommon
    <3>2. BusyKey(q, CommonDirectory(q)) = RepoKey("common", common[dirOf[q]])
      BY <1>1, <2>3 DEF KeysIInv, CachedIsCommon, BusyKey, CommonDirectory
    <3> QED BY <2>1, <3>1, <3>2 DEF RepositoryBusy
  <2> QED BY <2>2, <2>3
<1>2. KeysIInv => BusyIsSeen
  BY <1>1
<1> QED BY <1>2, KeysInductive, PTL
=============================================================================
