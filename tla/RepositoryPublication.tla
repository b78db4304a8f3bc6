------------------------ MODULE RepositoryPublication ------------------------
(***************************************************************************)
(* Publishing a local repository: electron/hosting/                        *)
(* RepositoryPublicationService.ts, RepositoryPublicationGit.ts and        *)
(* RepositoryPublicationStore.ts.                                          *)
(*                                                                         *)
(* prepare() records what to create, connect() creates the repository at   *)
(* the hosting service and adds it as a Git remote, finish() confirms the  *)
(* upload and makes the remote the primary one.  Every call works on a     *)
(* copy of the stored record and saves it at some points; a call that      *)
(* fails saves its copy, one that dies does not.  The lock of the service  *)
(* admits one call at a time.                                              *)
(*                                                                         *)
(* A creation request whose answer is lost stays "in flight": it may take  *)
(* effect at any later time, or never.  Others create and delete           *)
(* repositories under the same names, and the user edits the remotes.      *)
(***************************************************************************)
EXTENDS Integers, FiniteSets

CONSTANTS
  Names,        \* repository names to choose from
  None,
  MaxMade,      \* bound: repositories that come into being
  MaxCalls,     \* bound: calls of connect()
  MaxFaults,    \* bound: lost answers, failed requests, cancellations, crashes
  MaxForeign    \* bound: deletions at the service, edits of the remotes

ASSUME BoundsAssumption == {MaxMade, MaxCalls, MaxFaults, MaxForeign} \subseteq Nat

Repositories == 1 .. MaxMade     \* identities, in the order of creation
NoRepository == 0
Stages == {"prepared", "creating", "uncertain", "created", "connected",
           "uploaded", "setup-pending", "complete"}
Linked == {"connected", "uploaded", "setup-pending", "complete"}

VARIABLES
  stored,     \* repository-publications.json: the record
  rec,        \* the copy of the running call
  pc,         \* next step of the running call
  input,      \* confirmCandidate and retryCreation of the call
  config,     \* the publication's remote, its account binding, primary or not
  server,     \* name -> repository at the hosting service
  inFlight,   \* name -> creation requests that are undecided
  uploaded,   \* repositories that received the refs
  \* history and bounds
  made, mine, \* repositories so far; those that came from requests of ours
  confirmed,  \* repositories the user was shown and confirmed
  sent,       \* creation requests, without those the service refused
  asked,      \* calls that asked to retry the creation
  calls, faults, foreign

call == <<rec, pc, input>>
service == <<server, inFlight, uploaded, made, mine>>
history == <<confirmed, sent, asked, calls>>
vars == <<stored, call, config, service, history, faults, foreign>>

\* makePrimary also stands for !initialRemoteCount: the first remote is primary.
Record == [stage : Stages, name : Names, makePrimary : BOOLEAN, repository : 0 .. MaxMade, candidate : 0 .. MaxMade,
           fingerprint : [remote : Names \cup {None}, bound : 0 .. MaxMade, primary : BOOLEAN]]
\* None is none of the values it stands in for.
ASSUME NoneAssumption == None \notin Names /\ None \notin Record

Init ==
  /\ stored = None
  /\ rec = None /\ pc = "idle" /\ input = {}
  /\ config = [remote |-> None, bound |-> NoRepository, primary |-> FALSE]
  /\ server = [n \in Names |-> NoRepository]
  /\ inFlight = [n \in Names |-> 0] /\ uploaded = {} /\ made = 0 /\ mine = {}
  /\ confirmed = {} /\ sent = 0 /\ asked = 0 /\ calls = 0 /\ faults = 0 /\ foreign = 0

Go(next, r) == pc' = next /\ rec' = r
Return == pc' = "idle" /\ rec' = None
Save(r) == stored' = r
End(r) == Save(r) /\ Return                \* the record is saved and the call returns
Unsaved(next, r) == Go(next, r) /\ UNCHANGED stored
Saved(next, r) == Go(next, r) /\ Save(r)

\* verifyConnected(record, required): the remote and its binding are the record's.
IsLinked(r) == config.remote = r.name /\ config.bound = r.repository
Undecided == \E name \in Names : inFlight[name] > 0
Fault == faults < MaxFaults /\ faults' = faults + 1
NoFault == UNCHANGED faults
Local == UNCHANGED <<service, history, foreign, input>>

-----------------------------------------------------------------------------
Prepare(name, primary) ==
  /\ pc = "idle"
  /\ IF stored = None \/ stored.repository = NoRepository
     THEN config.remote = None
     ELSE config.remote = None \/ IsLinked(stored)
  /\ stored # None => /\ stored.stage # "complete"
                      /\ stored.stage # "prepared" => name = stored.name
  /\ stored' = IF stored = None
               THEN [stage |-> "prepared", name |-> name, makePrimary |-> primary, repository |-> NoRepository,
                     candidate |-> NoRepository, fingerprint |-> config]
               ELSE [stored EXCEPT !.name = name, !.makePrimary = primary, !.fingerprint = config]
  /\ UNCHANGED <<call, config, service, history, faults, foreign>>

\* connect(): it resumes where the record stands.
Connect(flags) ==
  /\ pc = "idle" /\ calls < MaxCalls
  /\ stored # None
  /\ config = stored.fingerprint
  /\ pc' = CASE stored.stage \in {"creating", "uncertain"} -> "lookup"
             [] stored.stage = "prepared" -> "absent"
             [] OTHER -> "verify"
  /\ rec' = stored
  /\ input' = flags
  /\ calls' = calls + 1
  /\ asked' = IF "retry" \in flags THEN asked + 1 ELSE asked
  /\ confirmed' = IF "confirm" \in flags THEN confirmed \cup {stored.candidate} ELSE confirmed
  /\ UNCHANGED <<stored, config, service, sent, faults, foreign>>

\* The name is looked up after an interruption: a candidate must have been
\* confirmed, an absence be answered by an explicit retry.
Adopts_Unreviewed(existing) == "confirm" \in input   \* fault: identity not compared
Adopts(existing) == "confirm" \in input /\ existing = rec.candidate

Lookup ==
  /\ pc = "lookup"
  /\ LET existing == server[rec.name]
         seen == [rec EXCEPT !.stage = "uncertain", !.candidate = existing]
     IN IF existing # NoRepository
        THEN IF Adopts(existing)
             THEN Unsaved("verify", [seen EXCEPT !.repository = existing, !.stage = "created",
                                                 !.candidate = NoRepository])
             ELSE End(seen)
        ELSE IF "retry" \in input
             THEN Unsaved("absent", [seen EXCEPT !.stage = "prepared"])
             ELSE End(seen)
  /\ NoFault /\ UNCHANGED config /\ Local

\* An unused name and an unchanged configuration: the request goes out after
\* stage "creating" was saved.
Send ==
  /\ pc = "absent"
  /\ IF server[rec.name] = NoRepository /\ config = rec.fingerprint
     THEN /\ Saved("answer", [rec EXCEPT !.stage = "creating"])
          /\ inFlight' = [inFlight EXCEPT ![rec.name] = @ + 1]
          /\ sent' = sent + 1
     ELSE End(rec) /\ UNCHANGED <<inFlight, sent>>
  /\ NoFault
  /\ UNCHANGED <<config, server, uploaded, made, mine, confirmed, asked, calls, foreign, input>>

NewRepository(name) ==
  /\ server[name] = NoRepository /\ made < MaxMade
  /\ made' = made + 1
  /\ server' = [server EXCEPT ![name] = made']

StageWithoutAnswer_Prepared == "prepared"  \* fault: every error counts as a refusal
StageWithoutAnswer == "uncertain"

Created ==    \* the service creates the repository and answers
  /\ pc = "answer"
  /\ NewRepository(rec.name)
  /\ mine' = mine \cup {made'}
  /\ inFlight' = [inFlight EXCEPT ![rec.name] = @ - 1]
  /\ \/ Saved("verify", [rec EXCEPT !.repository = made', !.stage = "created"]) /\ NoFault
     \/ End([rec EXCEPT !.repository = made', !.stage = StageWithoutAnswer]) /\ Fault  \* the save failed
  /\ UNCHANGED <<config, uploaded, history, foreign, input>>

Refused ==    \* 400, 401, 403, 404, 409 or 422: nothing was created
  /\ pc = "answer"
  /\ server[rec.name] = NoRepository => Fault
  /\ server[rec.name] # NoRepository => NoFault
  /\ End([rec EXCEPT !.stage = "prepared"])
  /\ inFlight' = [inFlight EXCEPT ![rec.name] = @ - 1]
  /\ sent' = sent - 1
  /\ UNCHANGED <<config, server, uploaded, made, mine, confirmed, asked, calls, foreign, input>>

Unanswered == \* any other error: the request stays in flight
  /\ pc = "answer"
  /\ Fault
  /\ End([rec EXCEPT !.stage = StageWithoutAnswer])
  /\ UNCHANGED config /\ Local

\* The repository is read by its identity, and its URL must lead back to it.
Verify ==
  /\ pc = "verify"
  /\ IF server[rec.name] = rec.repository
     THEN Saved("link", rec)
     ELSE End(rec)
  /\ NoFault /\ UNCHANGED config /\ Local

Link ==
  /\ pc = "link"
  /\ \/ /\ rec.stage # "created"            \* was connected before
        /\ Return /\ UNCHANGED config
        /\ stored' = rec
     \/ /\ rec.stage = "created" /\ IsLinked(rec)
        /\ End([rec EXCEPT !.stage = "connected", !.fingerprint = config])
        /\ UNCHANGED config
     \/ /\ rec.stage = "created" /\ ~IsLinked(rec)
        /\ IF config.remote = None /\ config = rec.fingerprint
           THEN Unsaved("bind", rec) /\ config' = [config EXCEPT !.remote = rec.name]
           ELSE End(rec) /\ UNCHANGED config
  /\ NoFault /\ Local

\* The account binding, without which the remote is taken out again.
Bind ==
  /\ pc = "bind"
  /\ \/ /\ NoFault
        /\ config' = [config EXCEPT !.bound = rec.repository]
        /\ Unsaved("connected", [rec EXCEPT !.fingerprint = config'])
     \/ /\ Fault
        /\ config' = [config EXCEPT !.remote = None]
        /\ End(rec)
  /\ Local

Connected ==
  /\ pc = "connected"
  /\ End([rec EXCEPT !.stage = "connected"])
  /\ NoFault /\ UNCHANGED config /\ Local

-----------------------------------------------------------------------------
\* The upload itself is a transfer to the remote's URL.
Upload ==
  /\ pc = "idle"
  /\ config.remote # None /\ config.bound # NoRepository
  /\ server[config.remote] # NoRepository
  /\ uploaded' = uploaded \cup {server[config.remote]}
  /\ UNCHANGED <<stored, call, config, server, inFlight, made, mine, history, faults, foreign>>

\* finish(): ls-remote must show every ref, then the settings be unchanged.
Confirms_Any(r) == TRUE                \* fault: advertised refs not compared
Confirms(r) == server[r.name] \in uploaded
Finish ==
  /\ pc = "idle"
  /\ stored # None
  /\ stored.stage \in Linked \ {"complete"}
  /\ IsLinked(stored)
  /\ IF Confirms(stored)
     THEN IF config = stored.fingerprint
          THEN Saved("setup", [stored EXCEPT !.stage = "uploaded"])
          ELSE stored' = [stored EXCEPT !.stage = "setup-pending"] /\ UNCHANGED <<rec, pc>>
     ELSE UNCHANGED <<stored, rec, pc>>
  /\ NoFault /\ UNCHANGED config /\ Local

\* Default branch, then under the write lane the tracking and the primary remote,
\* unless other remotes exist and the user left them in their place.
Setup ==
  /\ pc = "setup"
  /\ IF IsLinked(rec) /\ config = rec.fingerprint
     THEN /\ config' = [config EXCEPT !.primary = @ \/ rec.makePrimary]
          /\ Unsaved("complete", [rec EXCEPT !.fingerprint = config'])
     ELSE End([rec EXCEPT !.stage = "setup-pending"]) /\ UNCHANGED config
  /\ NoFault /\ Local

Complete ==
  /\ pc = "complete"
  /\ End([rec EXCEPT !.stage = "complete"])
  /\ NoFault /\ UNCHANGED config /\ Local

\* A request, a command or the save fails, or the user cancels: the catch block
\* saves the copy as it stands.
Fails ==
  /\ pc \in {"lookup", "absent", "verify", "link", "setup", "complete"}
  /\ Fault
  /\ End(IF rec.stage = "uploaded" THEN [rec EXCEPT !.stage = "setup-pending"] ELSE rec)
  /\ UNCHANGED config /\ Local

Crash ==
  /\ pc # "idle"
  /\ Fault
  /\ Return
  /\ UNCHANGED <<stored, config>> /\ Local

-----------------------------------------------------------------------------
\* A request of which nobody knows takes effect, or is refused unseen.
LateEffect(name) ==
  /\ inFlight[name] > IF pc = "answer" /\ rec.name = name THEN 1 ELSE 0
  /\ inFlight' = [inFlight EXCEPT ![name] = @ - 1]
  /\ IF server[name] = NoRepository
     THEN NewRepository(name) /\ mine' = mine \cup {made'}
     ELSE UNCHANGED <<server, made, mine>>
  /\ UNCHANGED <<stored, call, config, uploaded, history, faults, foreign>>

OtherCreates(name) ==
  /\ NewRepository(name)
  /\ UNCHANGED <<stored, call, config, inFlight, uploaded, mine, history, faults, foreign>>

Foreign == foreign < MaxForeign /\ foreign' = foreign + 1

OtherDeletes(name) ==
  /\ server[name] # NoRepository
  /\ Foreign
  /\ server' = [server EXCEPT ![name] = NoRepository]
  /\ UNCHANGED <<stored, call, config, inFlight, uploaded, made, mine, history, faults>>

UserRemovesRemote ==
  /\ config.remote # None
  /\ Foreign
  /\ config' = [config EXCEPT !.remote = None]
  /\ UNCHANGED <<stored, call, service, history, faults>>

Next ==
  \/ \E name \in Names, primary \in BOOLEAN : Prepare(name, primary)
  \/ \E flags \in {{}, {"confirm"}, {"retry"}} : Connect(flags)
  \/ Lookup \/ Send \/ Created \/ Refused \/ Unanswered \/ Verify \/ Link \/ Bind \/ Connected
  \/ Upload \/ Finish \/ Setup \/ Complete
  \/ Fails \/ Crash
  \/ \E name \in Names : LateEffect(name) \/ OtherCreates(name) \/ OtherDeletes(name)
  \/ UserRemovesRemote

Spec == Init /\ [][Next]_vars

-----------------------------------------------------------------------------
TypeOK ==
  /\ stored \in Record \cup {None}
  /\ rec \in Record \cup {None}
  /\ pc \in {"idle", "lookup", "absent", "answer", "verify", "link", "bind", "connected", "setup", "complete"}
  /\ pc = "idle" <=> rec = None
  /\ server \in [Names -> 0 .. MaxMade]
  /\ mine \subseteq 1 .. made

\* Interrupted creations are repeated only on request: of the requests that
\* were not refused, all but the first were asked for by a retry.
RetriesAreAsked == sent <= 1 + asked

\* The publication belongs to a repository that answered one of its own
\* requests, or to one whose identity the user was shown and confirmed.
OnlyOwnOrConfirmed ==
  stored # None => stored.repository \in {NoRepository} \cup mine \cup confirmed

\* A stage promises what the disk and the server hold: a linked publication has
\* its remote bound to its repository, one that waits for its setup or is
\* complete has been uploaded to it, and a complete one was made primary if that
\* was to be (as long as nobody removed the remote or replaced the repository).
StageIsTrue ==
  stored # None /\ foreign = 0 =>
    /\ stored.stage \in Linked => IsLinked(stored)
    /\ stored.stage \in {"uploaded", "setup-pending", "complete"} => stored.repository \in uploaded
    /\ stored.stage = "complete" /\ stored.makePrimary => config.primary

=============================================================================
