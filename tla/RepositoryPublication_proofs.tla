---------------------- MODULE RepositoryPublication_proofs ----------------------
(***************************************************************************)
(* Proofs, for any names and any number of calls, faults and changes by    *)
(* others, of what RepositoryPublication promises: creations are repeated  *)
(* only on request, the publication belongs to a repository of its own or  *)
(* a confirmed one, and a stage says what disk and server hold.            *)
(***************************************************************************)
EXTENDS RepositoryPublication, TLAPS

Configs == [remote : Names \cup {None}, bound : 0 .. MaxMade, primary : BOOLEAN]

Types ==
  /\ stored \in Record \cup {None}
  /\ rec \in Record \cup {None}
  /\ pc \in {"idle", "lookup", "absent", "answer", "verify", "link", "bind", "connected", "setup", "complete"}
  /\ pc = "idle" <=> rec = None
  /\ stored = None => rec = None
  /\ config \in Configs
  /\ server \in [Names -> 0 .. MaxMade]
  /\ inFlight \in [Names -> Int]
  /\ made \in 0 .. MaxMade
  /\ mine \subseteq 1 .. made
  /\ sent \in Int /\ asked \in Nat /\ foreign \in Nat

LEMMA BoundsAreNumbers ==
  /\ MaxMade \in Nat /\ MaxCalls \in Nat /\ MaxFaults \in Nat /\ MaxForeign \in Nat
  /\ 0 \in 0 .. MaxMade
BY BoundsAssumption

\* Types of the records, of the configuration and of the counters.
LEMMA NextTypes ==
  ASSUME Types, [Next]_vars
  PROVE  Types'
<1> USE DEF Go, Return, Save, Local, NoFault, call, service, history,
            Types, Configs, Record, Stages, Repositories, NoRepository
<1>1. ASSUME NEW name \in Names, NEW primary \in BOOLEAN, Prepare(name, primary) PROVE Types'
  BY <1>1, NoneAssumption, BoundsAreNumbers DEF Prepare
<1>2. ASSUME NEW flags \in {{}, {"confirm"}, {"retry"}}, Connect(flags) PROVE Types'
  BY <1>2, NoneAssumption, BoundsAreNumbers DEF Connect
<1>3. CASE Lookup
  <2> DEFINE existing == server[rec.name]
             seen == [rec EXCEPT !.stage = "uncertain", !.candidate = existing]
             adopted == [seen EXCEPT !.repository = existing, !.stage = "created", !.candidate = NoRepository]
             retried == [seen EXCEPT !.stage = "prepared"]
  <2>1. rec \in Record /\ existing \in 0 .. MaxMade
    BY <1>3, NoneAssumption DEF Lookup
  <2>2. seen \in Record
    BY <2>1
  <2>3. adopted \in Record /\ retried \in Record
    BY <2>1, <2>2, BoundsAreNumbers
  <2>4. \/ pc' = "verify" /\ rec' = adopted /\ stored' = stored
        \/ pc' = "absent" /\ rec' = retried /\ stored' = stored
        \/ pc' = "idle" /\ rec' = None /\ stored' = seen
    BY <1>3 DEF Lookup, Unsaved, End
  <2>5. UNCHANGED <<config, server, inFlight, made, mine, sent, asked, foreign>>
    BY <1>3 DEF Lookup
  <2> HIDE DEF adopted, retried, seen
  <2> QED BY <1>3, <2>1, <2>2, <2>3, <2>4, <2>5, NoneAssumption DEF Lookup
<1>4. CASE Send
  BY <1>4, NoneAssumption, BoundsAreNumbers DEF Send, Saved, End
<1>5. CASE Created
  <2> DEFINE answered(s) == [rec EXCEPT !.repository = made', !.stage = s]
  <2>1. rec \in Record /\ made' \in 1 .. MaxMade /\ made' = made + 1
    BY <1>5, NoneAssumption, BoundsAreNumbers DEF Created, NewRepository
  <2>2. answered("created") \in Record /\ answered("uncertain") \in Record
    <3>1. made' \in 0 .. MaxMade
      BY <2>1, BoundsAreNumbers
    <3>2. ASSUME NEW s \in Stages PROVE answered(s) \in Record
      BY <2>1, <3>1
    <3> QED BY <3>2
  <2>3. \/ pc' = "verify" /\ rec' = answered("created") /\ stored' = answered("created")
        \/ pc' = "idle" /\ rec' = None /\ stored' = answered("uncertain")
    BY <1>5 DEF Created, Saved, End, StageWithoutAnswer
  <2>4. /\ server' \in [Names -> 0 .. MaxMade] /\ mine' \subseteq 1 .. made'
        /\ inFlight' \in [Names -> Int]
        /\ UNCHANGED <<config, sent, asked, foreign>>
    BY <1>5, <2>1, BoundsAreNumbers DEF Created, NewRepository
  <2> HIDE DEF answered
  <2> QED BY <2>1, <2>2, <2>3, <2>4, NoneAssumption
<1>6. CASE Refused
  BY <1>6, NoneAssumption, BoundsAreNumbers DEF Refused, End
<1>7. CASE Unanswered
  BY <1>7, NoneAssumption, BoundsAreNumbers DEF Unanswered, End, StageWithoutAnswer
<1>8. CASE Verify
  BY <1>8, NoneAssumption, BoundsAreNumbers DEF Verify, Saved, End
<1>9. CASE Link
  <2>1. rec \in Record
    BY <1>9, NoneAssumption DEF Link
  <2>2. [rec EXCEPT !.stage = "connected", !.fingerprint = config] \in Record
    BY <2>1
  <2>3. /\ \/ pc' = "idle" /\ rec' = None
           \/ pc' = "bind" /\ rec' = rec
        /\ stored' \in {stored, rec, [rec EXCEPT !.stage = "connected", !.fingerprint = config]}
        /\ stored' = stored => stored' # None \/ pc' = "idle"
    BY <1>9, <2>1, NoneAssumption DEF Link, Unsaved, End
  <2>4. config' \in Configs
    BY <1>9, <2>1 DEF Link
  <2>5. UNCHANGED <<server, inFlight, made, mine, sent, asked, foreign>>
    BY <1>9 DEF Link
  <2> QED BY <1>9, <2>1, <2>2, <2>3, <2>4, <2>5, NoneAssumption
<1>10. CASE Bind
  BY <1>10, NoneAssumption, BoundsAreNumbers DEF Bind, Unsaved, End
<1>11. CASE Connected
  BY <1>11, NoneAssumption, BoundsAreNumbers DEF Connected, End
<1>12. CASE Upload
  BY <1>12, NoneAssumption, BoundsAreNumbers DEF Upload
<1>13. CASE Finish
  BY <1>13, NoneAssumption, BoundsAreNumbers DEF Finish, Saved
<1>14. CASE Setup
  <2> DEFINE settled == [config EXCEPT !.primary = @ \/ rec.makePrimary]
  <2>1. rec \in Record /\ settled \in Configs
    BY <1>14, NoneAssumption DEF Setup
  <2>2. /\ [rec EXCEPT !.fingerprint = settled] \in Record
        /\ [rec EXCEPT !.stage = "setup-pending"] \in Record
    BY <2>1
  <2>3. \/ /\ config' = settled /\ pc' = "complete" /\ stored' = stored
           /\ rec' = [rec EXCEPT !.fingerprint = settled]
        \/ /\ config' = config /\ pc' = "idle" /\ rec' = None
           /\ stored' = [rec EXCEPT !.stage = "setup-pending"]
    BY <1>14 DEF Setup, Unsaved, End
  <2>4. UNCHANGED <<server, inFlight, made, mine, sent, asked, foreign>>
    BY <1>14 DEF Setup
  <2> HIDE DEF settled
  <2> QED BY <1>14, <2>1, <2>2, <2>3, <2>4, NoneAssumption DEF Setup
<1>15. CASE Complete
  BY <1>15, NoneAssumption, BoundsAreNumbers DEF Complete, End
<1>16. CASE Fails
  BY <1>16, NoneAssumption, BoundsAreNumbers DEF Fails, End
<1>17. CASE Crash
  BY <1>17, NoneAssumption, BoundsAreNumbers DEF Crash
<1>18. ASSUME NEW name \in Names, LateEffect(name) PROVE Types'
  <2>1. /\ inFlight' \in [Names -> Int]
        /\ UNCHANGED <<stored, rec, pc, config, sent, asked, foreign>>
    BY <1>18 DEF LateEffect
  <2>2. CASE server[name] = NoRepository
    <3>1. /\ made < MaxMade /\ made' = made + 1 /\ mine' = mine \cup {made'}
          /\ server' = [server EXCEPT ![name] = made']
      BY <1>18, <2>2 DEF LateEffect, NewRepository
    <3>2. made' \in 0 .. MaxMade /\ mine' \subseteq 1 .. made'
      BY <3>1, BoundsAreNumbers
    <3> QED BY <2>1, <3>1, <3>2
  <2>3. CASE server[name] # NoRepository
    BY <1>18, <2>1, <2>3 DEF LateEffect
  <2> QED BY <2>2, <2>3
<1>19. ASSUME NEW name \in Names, OtherCreates(name) PROVE Types'
  BY <1>19, NoneAssumption, BoundsAreNumbers DEF OtherCreates, NewRepository
<1>20. ASSUME NEW name \in Names, OtherDeletes(name) PROVE Types'
  BY <1>20, NoneAssumption, BoundsAreNumbers DEF OtherDeletes, Foreign
<1>21. CASE UserRemovesRemote
  BY <1>21, NoneAssumption, BoundsAreNumbers DEF UserRemovesRemote, Foreign
<1>22. CASE UNCHANGED vars
  BY <1>22 DEF vars
<1> QED BY <1>1, <1>2, <1>3, <1>4, <1>5, <1>6, <1>7, <1>8, <1>9, <1>10, <1>11,
          <1>12, <1>13, <1>14, <1>15, <1>16, <1>17, <1>18, <1>19, <1>20, <1>21, <1>22 DEF Next

-----------------------------------------------------------------------------
\* What the three longest actions do to the fields of the records.
LEMMA PrepareEffect ==
  ASSUME Types, NEW name \in Names, NEW primary \in BOOLEAN, Prepare(name, primary)
  PROVE  /\ pc = "idle" /\ rec = None /\ stored' \in Record
         /\ UNCHANGED <<pc, rec, input, config, server, uploaded, mine, confirmed, sent, asked, foreign>>
         /\ \/ stored = None /\ stored'.stage = "prepared" /\ stored'.repository = NoRepository
            \/ /\ stored \in Record /\ stored.stage # "complete"
               /\ stored'.stage = stored.stage /\ stored'.repository = stored.repository
               /\ stored.stage # "prepared" => stored'.name = stored.name
<1>1. /\ pc = "idle" /\ rec = None
      /\ UNCHANGED <<pc, rec, input, config, server, uploaded, mine, confirmed, sent, asked, foreign>>
  BY DEF Prepare, Types, call, service, history
<1>2. CASE stored = None
  BY <1>1, <1>2, BoundsAreNumbers DEF Prepare, Types, Record, Stages, NoRepository, Configs
<1>3. CASE stored # None
  <2>1. stored \in Record
    BY <1>3 DEF Types
  <2>2. stored' = [stored EXCEPT !.name = name, !.makePrimary = primary, !.fingerprint = config]
    BY <1>3 DEF Prepare
  <2>3. stored.stage # "complete" /\ (stored.stage # "prepared" => name = stored.name)
    BY <1>3 DEF Prepare
  <2> QED BY <1>1, <2>1, <2>2, <2>3 DEF Types, Record, Configs
<1> QED BY <1>2, <1>3

LEMMA LookupEffect ==
  ASSUME Types, Lookup
  PROVE  /\ pc = "lookup" /\ rec \in Record
         /\ UNCHANGED <<input, config, server, uploaded, mine, confirmed, sent, asked, foreign>>
         /\ \/ /\ pc' = "verify" /\ stored' = stored /\ rec' \in Record
               /\ rec'.stage = "created" /\ rec'.name = rec.name
               /\ rec'.repository = server[rec.name] /\ server[rec.name] # NoRepository
               /\ "confirm" \in input /\ server[rec.name] = rec.candidate
            \/ /\ pc' = "absent" /\ stored' = stored /\ rec' \in Record
               /\ rec'.stage = "prepared" /\ rec'.repository = rec.repository
               /\ "retry" \in input
            \/ /\ pc' = "idle" /\ rec' = None /\ stored' \in Record
               /\ stored'.stage = "uncertain" /\ stored'.repository = rec.repository
<1> DEFINE existing == server[rec.name]
           seen == [rec EXCEPT !.stage = "uncertain", !.candidate = existing]
           adopted == [seen EXCEPT !.repository = existing, !.stage = "created", !.candidate = NoRepository]
           retried == [seen EXCEPT !.stage = "prepared"]
<1>1. /\ pc = "lookup" /\ rec \in Record /\ existing \in 0 .. MaxMade
      /\ UNCHANGED <<input, config, server, uploaded, mine, confirmed, sent, asked, foreign>>
  BY NoneAssumption DEF Lookup, Types, Local, service, history, Record
<1>2. \/ /\ pc' = "verify" /\ rec' = adopted /\ stored' = stored
         /\ existing # NoRepository /\ "confirm" \in input /\ existing = rec.candidate
      \/ pc' = "absent" /\ rec' = retried /\ stored' = stored /\ "retry" \in input
      \/ pc' = "idle" /\ rec' = None /\ stored' = seen
  BY DEF Lookup, Adopts, Unsaved, End, Go, Return, Save
<1>3. /\ seen \in Record /\ seen.stage = "uncertain"
      /\ seen.repository = rec.repository /\ seen.name = rec.name
  <2> HIDE DEF existing
  <2> QED BY <1>1 DEF Record, Stages
<1>4. /\ adopted \in Record /\ adopted.stage = "created" /\ adopted.name = rec.name
      /\ adopted.repository = existing
  <2> HIDE DEF existing, seen
  <2> QED BY <1>1, <1>3, BoundsAreNumbers DEF Record, Stages, NoRepository
<1>5. retried \in Record /\ retried.stage = "prepared" /\ retried.repository = rec.repository
  <2> HIDE DEF existing, seen
  <2> QED BY <1>3 DEF Record, Stages
<1> HIDE DEF adopted, retried, seen
<1> QED BY <1>1, <1>2, <1>3, <1>4, <1>5

LEMMA LinkEffect ==
  ASSUME Types, Link
  PROVE  /\ pc = "link" /\ rec \in Record
         /\ UNCHANGED <<input, server, uploaded, mine, confirmed, sent, asked, foreign>>
         /\ \/ /\ pc' = "idle" /\ rec' = None /\ config' = config /\ stored' \in Record
               /\ stored'.name = rec.name /\ stored'.repository = rec.repository /\ stored'.makePrimary = rec.makePrimary
               /\ \/ stored'.stage = rec.stage
                  \/ stored'.stage = "connected" /\ rec.stage = "created" /\ IsLinked(rec)
            \/ /\ pc' = "bind" /\ rec' = rec /\ stored' = stored /\ rec.stage = "created"
               /\ config' = [config EXCEPT !.remote = rec.name]
<1>1. /\ pc = "link" /\ rec \in Record
      /\ UNCHANGED <<input, server, uploaded, mine, confirmed, sent, asked, foreign>>
  BY NoneAssumption DEF Link, Types, Local, service, history
<1>2. CASE pc' = "idle" /\ rec' = None /\ config' = config /\ stored' = rec
  BY <1>1, <1>2
<1>3. CASE /\ pc' = "idle" /\ rec' = None /\ config' = config /\ rec.stage = "created" /\ IsLinked(rec)
           /\ stored' = [rec EXCEPT !.stage = "connected", !.fingerprint = config]
  <2>1. config \in Configs
    BY DEF Types
  <2>2. /\ stored' \in Record /\ stored'.stage = "connected"
        /\ stored'.name = rec.name /\ stored'.repository = rec.repository
    BY <1>1, <1>3, <2>1 DEF Record, Stages, Configs
  <2> QED BY <1>1, <1>3, <2>2
<1>4. CASE /\ pc' = "bind" /\ rec' = rec /\ stored' = stored /\ rec.stage = "created"
           /\ config' = [config EXCEPT !.remote = rec.name]
  BY <1>1, <1>4
<1> QED BY <1>2, <1>3, <1>4 DEF Link, Unsaved, End, Go, Return, Save

-----------------------------------------------------------------------------
\* Where a call stands tells the stage of its copy of the record.
Staged ==
  /\ pc = "lookup" => rec.stage \in {"creating", "uncertain"}
  /\ pc = "absent" => rec.stage = "prepared"
  /\ pc = "answer" => rec.stage = "creating"
  /\ pc \in {"verify", "link"} => rec.stage \in Linked \cup {"created"}
  /\ pc \in {"bind", "connected"} => rec.stage = "created"
  /\ pc \in {"setup", "complete"} => rec.stage = "uploaded"

\* RetriesAreAsked is inductive with this: while the record says that nothing
\* was created, or a retry was asked for, one request more is allowed.
Spare == sent <= asked
Counted ==
  /\ RetriesAreAsked
  /\ stored = None => Spare
  /\ stored # None /\ stored.stage = "prepared" => Spare
  /\ pc = "absent" => Spare
  /\ pc = "lookup" /\ "retry" \in input => Spare

\* Every step of a call sets the stage that goes with the next one.
LEMMA NextStaged ==
  ASSUME Types, Types', Staged, [Next]_vars
  PROVE  Staged'
<1> USE DEF Go, Return, Save, Local, NoFault, call, service, history,
            Types, Record, Stages, Linked, Staged
<1>1. ASSUME NEW name \in Names, NEW primary \in BOOLEAN, Prepare(name, primary) PROVE Staged'
  BY <1>1, PrepareEffect, NoneAssumption
<1>2. ASSUME NEW flags \in {{}, {"confirm"}, {"retry"}}, Connect(flags) PROVE Staged'
  BY <1>2, NoneAssumption DEF Connect
<1>3. CASE Lookup
  BY <1>3, LookupEffect, NoneAssumption
<1>4. CASE Send
  BY <1>4, NoneAssumption DEF Send, Saved, End
<1>5. CASE Created
  BY <1>5, NoneAssumption DEF Created, Saved, End, NewRepository, StageWithoutAnswer
<1>6. CASE Refused
  BY <1>6, NoneAssumption DEF Refused, End
<1>7. CASE Unanswered
  BY <1>7, NoneAssumption DEF Unanswered, End, StageWithoutAnswer
<1>8. CASE Verify
  BY <1>8, NoneAssumption DEF Verify, Saved, End
<1>9. CASE Link
  BY <1>9, LinkEffect, NoneAssumption
<1>10. CASE Bind
  BY <1>10, NoneAssumption DEF Bind, Unsaved, End
<1>11. CASE Connected
  BY <1>11, NoneAssumption DEF Connected, End
<1>12. CASE Upload
  BY <1>12, NoneAssumption DEF Upload
<1>13. CASE Finish
  BY <1>13, NoneAssumption DEF Finish, Saved
<1>14. CASE Setup
  BY <1>14, NoneAssumption DEF Setup, Unsaved, End
<1>15. CASE Complete
  BY <1>15, NoneAssumption DEF Complete, End
<1>16. CASE Fails
  BY <1>16, NoneAssumption DEF Fails, End
<1>17. CASE Crash
  BY <1>17, NoneAssumption DEF Crash
<1>18. ASSUME NEW name \in Names, LateEffect(name) PROVE Staged'
  BY <1>18, NoneAssumption DEF LateEffect, NewRepository
<1>19. ASSUME NEW name \in Names, OtherCreates(name) PROVE Staged'
  BY <1>19, NoneAssumption DEF OtherCreates, NewRepository
<1>20. ASSUME NEW name \in Names, OtherDeletes(name) PROVE Staged'
  BY <1>20, NoneAssumption DEF OtherDeletes, Foreign
<1>21. CASE UserRemovesRemote
  BY <1>21, NoneAssumption DEF UserRemovesRemote, Foreign
<1>22. CASE UNCHANGED vars
  BY <1>22 DEF vars
<1> QED BY <1>1, <1>2, <1>3, <1>4, <1>5, <1>6, <1>7, <1>8, <1>9, <1>10, <1>11,
          <1>12, <1>13, <1>14, <1>15, <1>16, <1>17, <1>18, <1>19, <1>20, <1>21, <1>22 DEF Next

\* Requests are counted against the calls that asked for one.
LEMMA NextCounted ==
  ASSUME Types, Types', Staged, Counted, [Next]_vars
  PROVE  Counted'
<1> USE DEF Go, Return, Save, Local, NoFault, call, service, history,
            Types, Record, Stages, Linked, Staged, Spare, Counted, RetriesAreAsked
<1>1. ASSUME NEW name \in Names, NEW primary \in BOOLEAN, Prepare(name, primary) PROVE Counted'
  <2>1. /\ UNCHANGED <<pc, input, sent, asked>> /\ stored' # None
        /\ stored'.stage = "prepared" => stored = None \/ (stored # None /\ stored.stage = "prepared")
    BY <1>1, PrepareEffect, NoneAssumption
  <2> QED BY ONLY <2>1, Counted DEF Counted, Spare, RetriesAreAsked
<1>2. ASSUME NEW flags \in {{}, {"confirm"}, {"retry"}}, Connect(flags) PROVE Counted'
  BY <1>2, NoneAssumption DEF Connect
<1>3. CASE Lookup
  BY <1>3, LookupEffect, NoneAssumption
<1>4. CASE Send
  BY <1>4, NoneAssumption DEF Send, Saved, End
<1>5. CASE Created
  <2>1. /\ pc' \in {"verify", "idle"} /\ UNCHANGED <<sent, asked>>
        /\ stored' # None /\ stored'.stage \in {"created", "uncertain"}
    BY <1>5, NoneAssumption DEF Created, Saved, End, StageWithoutAnswer
  <2> QED BY ONLY <2>1, Counted DEF Counted, Spare, RetriesAreAsked
<1>6. CASE Refused
  <2>1. /\ pc' = "idle" /\ rec' = None /\ UNCHANGED <<input, asked>>
        /\ stored' # None /\ sent' = sent - 1
    BY <1>6, NoneAssumption DEF Refused, End
  <2>2. sent \in Int /\ asked \in Nat /\ sent <= 1 + asked
    OBVIOUS
  <2> QED BY ONLY <2>1, <2>2 DEF Counted, Spare, RetriesAreAsked
<1>7. CASE Unanswered
  BY <1>7, NoneAssumption DEF Unanswered, End, StageWithoutAnswer
<1>8. CASE Verify
  BY <1>8, NoneAssumption DEF Verify, Saved, End
<1>9. CASE Link
  BY <1>9, LinkEffect, NoneAssumption
<1>10. CASE Bind
  BY <1>10, NoneAssumption DEF Bind, Unsaved, End
<1>11. CASE Connected
  BY <1>11, NoneAssumption DEF Connected, End
<1>12. CASE Upload
  BY <1>12, NoneAssumption DEF Upload
<1>13. CASE Finish
  BY <1>13, NoneAssumption DEF Finish, Saved
<1>14. CASE Setup
  BY <1>14, NoneAssumption DEF Setup, Unsaved, End
<1>15. CASE Complete
  BY <1>15, NoneAssumption DEF Complete, End
<1>16. CASE Fails
  BY <1>16, NoneAssumption DEF Fails, End
<1>17. CASE Crash
  BY <1>17, NoneAssumption DEF Crash
<1>18. ASSUME NEW name \in Names, LateEffect(name) PROVE Counted'
  BY <1>18, NoneAssumption DEF LateEffect, NewRepository
<1>19. ASSUME NEW name \in Names, OtherCreates(name) PROVE Counted'
  BY <1>19, NoneAssumption DEF OtherCreates, NewRepository
<1>20. ASSUME NEW name \in Names, OtherDeletes(name) PROVE Counted'
  BY <1>20, NoneAssumption DEF OtherDeletes, Foreign
<1>21. CASE UserRemovesRemote
  BY <1>21, NoneAssumption DEF UserRemovesRemote, Foreign
<1>22. CASE UNCHANGED vars
  BY <1>22 DEF vars
<1> QED BY <1>1, <1>2, <1>3, <1>4, <1>5, <1>6, <1>7, <1>8, <1>9, <1>10, <1>11,
          <1>12, <1>13, <1>14, <1>15, <1>16, <1>17, <1>18, <1>19, <1>20, <1>21, <1>22 DEF Next

-----------------------------------------------------------------------------
\* The repository of a record is none, one of its own, or a confirmed one; what
\* a call is about to adopt is what the user confirmed.
Own == {NoRepository} \cup mine \cup confirmed
Owned ==
  /\ stored # None => stored.repository \in Own
  /\ rec # None => rec.repository \in Own
  /\ pc = "lookup" /\ "confirm" \in input => rec.candidate \in confirmed

\* Only answers and confirmed candidates become the repository of a record.
LEMMA NextOwned ==
  ASSUME Types, Types', Owned, [Next]_vars
  PROVE  Owned'
<1> USE DEF Go, Return, Save, Local, NoFault, call, service, history,
            Types, Record, Own, Owned
<1>1. ASSUME NEW name \in Names, NEW primary \in BOOLEAN, Prepare(name, primary) PROVE Owned'
  BY <1>1, PrepareEffect, NoneAssumption
<1>2. ASSUME NEW flags \in {{}, {"confirm"}, {"retry"}}, Connect(flags) PROVE Owned'
  BY <1>2, NoneAssumption DEF Connect
<1>3. CASE Lookup
  BY <1>3, LookupEffect, NoneAssumption
<1>4. CASE Send
  BY <1>4, NoneAssumption DEF Send, Saved, End
<1>5. CASE Created
  BY <1>5, NoneAssumption DEF Created, Saved, End, NewRepository, StageWithoutAnswer
<1>6. CASE Refused
  BY <1>6, NoneAssumption DEF Refused, End
<1>7. CASE Unanswered
  BY <1>7, NoneAssumption DEF Unanswered, End, StageWithoutAnswer
<1>8. CASE Verify
  BY <1>8, NoneAssumption DEF Verify, Saved, End
<1>9. CASE Link
  BY <1>9, LinkEffect, NoneAssumption
<1>10. CASE Bind
  BY <1>10, NoneAssumption DEF Bind, Unsaved, End
<1>11. CASE Connected
  BY <1>11, NoneAssumption DEF Connected, End
<1>12. CASE Upload
  BY <1>12, NoneAssumption DEF Upload
<1>13. CASE Finish
  BY <1>13, NoneAssumption DEF Finish, Saved
<1>14. CASE Setup
  BY <1>14, NoneAssumption DEF Setup, Unsaved, End
<1>15. CASE Complete
  BY <1>15, NoneAssumption DEF Complete, End
<1>16. CASE Fails
  BY <1>16, NoneAssumption DEF Fails, End
<1>17. CASE Crash
  BY <1>17, NoneAssumption DEF Crash
<1>18. ASSUME NEW name \in Names, LateEffect(name) PROVE Owned'
  BY <1>18, NoneAssumption DEF LateEffect, NewRepository
<1>19. ASSUME NEW name \in Names, OtherCreates(name) PROVE Owned'
  BY <1>19, NoneAssumption DEF OtherCreates, NewRepository
<1>20. ASSUME NEW name \in Names, OtherDeletes(name) PROVE Owned'
  BY <1>20, NoneAssumption DEF OtherDeletes, Foreign
<1>21. CASE UserRemovesRemote
  BY <1>21, NoneAssumption DEF UserRemovesRemote, Foreign
<1>22. CASE UNCHANGED vars
  BY <1>22 DEF vars
<1> QED BY <1>1, <1>2, <1>3, <1>4, <1>5, <1>6, <1>7, <1>8, <1>9, <1>10, <1>11,
          <1>12, <1>13, <1>14, <1>15, <1>16, <1>17, <1>18, <1>19, <1>20, <1>21, <1>22 DEF Next

-----------------------------------------------------------------------------
\* What a record says, as long as nobody else removed the remote or deleted a
\* repository.  A call knows it of its own copy before the stage is saved: the
\* remote is set at "bind", bound at "connected", and so on.
Holds(r) ==
  /\ r.stage \in Linked \cup {"created"} =>
       r.repository # NoRepository /\ server[r.name] = r.repository
  /\ r.stage \in Linked => IsLinked(r)
  /\ r.stage \in {"uploaded", "setup-pending", "complete"} => r.repository \in uploaded
  /\ r.stage = "complete" /\ r.makePrimary => config.primary
Holding ==
  foreign = 0 =>
    /\ stored # None => Holds(stored)
    /\ rec # None => Holds(rec)
    /\ rec # None /\ stored.stage \in Linked => rec.stage \in Linked
    /\ pc = "bind" => config.remote = rec.name
    /\ pc = "connected" => IsLinked(rec)
    /\ pc \in {"setup", "complete"} => rec.repository \in uploaded
    /\ pc = "complete" /\ rec.makePrimary => config.primary

\* A stage is saved only after what it says was done, and nothing undoes it.
LEMMA NextHolding ==
  ASSUME Types, Types', Staged, Holding, [Next]_vars
  PROVE  Holding'
<1> USE DEF Go, Return, Save, Local, NoFault, call, service, history,
            Types, Record, Configs, Stages, Linked, Staged, NoRepository, IsLinked, Holds, Holding
<1>1. ASSUME NEW name \in Names, NEW primary \in BOOLEAN, Prepare(name, primary) PROVE Holding'
  BY <1>1, PrepareEffect, NoneAssumption
<1>2. ASSUME NEW flags \in {{}, {"confirm"}, {"retry"}}, Connect(flags) PROVE Holding'
  BY <1>2, NoneAssumption DEF Connect
<1>3. CASE Lookup
  BY <1>3, LookupEffect, NoneAssumption
<1>4. CASE Send
  BY <1>4, NoneAssumption DEF Send, Saved, End
<1>5. CASE Created
  <2>1. /\ pc = "answer" /\ rec \in Record /\ rec.name \in Names
        /\ made' # NoRepository /\ server' = [server EXCEPT ![rec.name] = made']
        /\ UNCHANGED <<config, uploaded, foreign>>
    BY <1>5, NoneAssumption, BoundsAreNumbers DEF Created, NewRepository
  <2>2. server'[rec.name] = made'
    BY <2>1
  <2>3. CASE /\ pc' = "verify" /\ stored' = [rec EXCEPT !.repository = made', !.stage = "created"]
             /\ rec' = stored'
    <3>1. stored'.stage = "created" /\ stored'.name = rec.name /\ stored'.repository = made'
      BY <2>1, <2>3
    <3> QED BY <2>1, <2>2, <2>3, <3>1
  <2>4. CASE /\ pc' = "idle" /\ rec' = None
             /\ stored' = [rec EXCEPT !.repository = made', !.stage = "uncertain"]
    <3>1. stored'.stage = "uncertain"
      BY <2>1, <2>4
    <3> QED BY <2>1, <2>4, <3>1
  <2> QED BY <1>5, <2>3, <2>4 DEF Created, Saved, End, StageWithoutAnswer
<1>6. CASE Refused
  BY <1>6, NoneAssumption DEF Refused, End
<1>7. CASE Unanswered
  BY <1>7, NoneAssumption DEF Unanswered, End, StageWithoutAnswer
<1>8. CASE Verify
  <2>1. /\ rec \in Record /\ stored' = rec /\ (rec' = rec \/ rec' = None)
        /\ pc' \in {"link", "idle"} /\ UNCHANGED <<config, server, uploaded, foreign>>
    BY <1>8, NoneAssumption DEF Verify, Saved, End
  <2>2. foreign = 0 => Holds(rec)
    BY <2>1, NoneAssumption
  <2>3. foreign' = 0 => Holds(stored)' /\ (rec' # None => Holds(rec)')
    BY <2>1, <2>2
  <2> QED BY ONLY <2>1, <2>3, NoneAssumption DEF Holding
<1>9. CASE Link
  BY <1>9, LinkEffect, NoneAssumption
<1>10. CASE Bind
  BY <1>10, NoneAssumption DEF Bind, Unsaved, End
<1>11. CASE Connected
  BY <1>11, NoneAssumption DEF Connected, End
<1>12. CASE Upload
  BY <1>12, NoneAssumption DEF Upload
<1>13. CASE Finish
  <2>1. /\ pc = "idle" /\ rec = None /\ stored \in Record /\ stored # None
        /\ stored.stage \in Linked \ {"complete"} /\ IsLinked(stored)
        /\ UNCHANGED <<config, server, uploaded, foreign>>
    BY <1>13 DEF Finish
  <2>2. foreign = 0 => stored.repository # NoRepository /\ server[stored.name] = stored.repository
    <3>1. foreign = 0 => Holds(stored)
      BY <2>1
    <3> QED BY <2>1, <3>1
  <2>3. CASE /\ Confirms(stored) /\ pc' = "setup"
             /\ stored' = [stored EXCEPT !.stage = "uploaded"] /\ rec' = stored'
    <3>1. /\ stored'.stage = "uploaded" /\ stored'.name = stored.name
          /\ stored'.repository = stored.repository
      BY <2>1, <2>3
    <3>2. foreign = 0 => stored.repository \in uploaded
      BY <2>2, <2>3 DEF Confirms
    <3> QED BY <2>1, <2>2, <2>3, <3>1, <3>2
  <2>4. CASE /\ Confirms(stored) /\ UNCHANGED <<rec, pc>>
             /\ stored' = [stored EXCEPT !.stage = "setup-pending"]
    <3>1. /\ stored'.stage = "setup-pending" /\ stored'.name = stored.name
          /\ stored'.repository = stored.repository
      BY <2>1, <2>4
    <3>2. foreign = 0 => stored.repository \in uploaded
      BY <2>2, <2>4 DEF Confirms
    <3> QED BY <2>1, <2>2, <2>4, <3>1, <3>2
  <2>5. CASE UNCHANGED <<stored, rec, pc>>
    BY <2>1, <2>5
  <2> QED BY <1>13, <2>3, <2>4, <2>5 DEF Finish, Saved
<1>14. CASE Setup
  BY <1>14, NoneAssumption DEF Setup, Unsaved, End
<1>15. CASE Complete
  BY <1>15, NoneAssumption DEF Complete, End
<1>16. CASE Fails
  BY <1>16, NoneAssumption DEF Fails, End
<1>17. CASE Crash
  BY <1>17, NoneAssumption DEF Crash
<1>18. ASSUME NEW name \in Names, LateEffect(name) PROVE Holding'
  BY <1>18, NoneAssumption DEF LateEffect, NewRepository
<1>19. ASSUME NEW name \in Names, OtherCreates(name) PROVE Holding'
  BY <1>19, NoneAssumption DEF OtherCreates, NewRepository
<1>20. ASSUME NEW name \in Names, OtherDeletes(name) PROVE Holding'
  BY <1>20, NoneAssumption DEF OtherDeletes, Foreign
<1>21. CASE UserRemovesRemote
  BY <1>21, NoneAssumption DEF UserRemovesRemote, Foreign
<1>22. CASE UNCHANGED vars
  BY <1>22 DEF vars
<1> QED BY <1>1, <1>2, <1>3, <1>4, <1>5, <1>6, <1>7, <1>8, <1>9, <1>10, <1>11,
          <1>12, <1>13, <1>14, <1>15, <1>16, <1>17, <1>18, <1>19, <1>20, <1>21, <1>22 DEF Next

-----------------------------------------------------------------------------
\* The inductive invariant: three properties that follow from it, with what a
\* running call knows beyond the record it saved.
IInv == Types /\ Staged /\ Counted /\ Owned /\ Holding

LEMMA InitInv == Init => IInv
<1> SUFFICES ASSUME Init PROVE IInv
  OBVIOUS
<1>1. Types
  BY BoundsAreNumbers DEF Init, Types, Configs, NoRepository
<1>2. Staged /\ Counted
  BY DEF Init, Staged, Counted, Spare, RetriesAreAsked
<1>3. Owned /\ Holding
  BY DEF Init, Owned, Holding
<1> QED BY <1>1, <1>2, <1>3 DEF IInv

LEMMA NextInv == IInv /\ [Next]_vars => IInv'
<1> SUFFICES ASSUME IInv, [Next]_vars PROVE IInv'
  OBVIOUS
<1>1. Types'
  BY NextTypes DEF IInv
<1>2. Staged'
  BY <1>1, NextStaged DEF IInv
<1>3. Counted'
  BY <1>1, NextCounted DEF IInv
<1>4. Owned'
  BY <1>1, NextOwned DEF IInv
<1>5. Holding'
  BY <1>1, NextHolding DEF IInv
<1> QED BY <1>1, <1>2, <1>3, <1>4, <1>5 DEF IInv

LEMMA Inductive == Spec => []IInv
BY InitInv, NextInv, PTL DEF Spec

\* Of the creation requests that were not refused, all but the first were
\* asked for by a call with retryCreation, whatever answers were lost.
THEOREM CreationsAreNotRepeated == Spec => []RetriesAreAsked
<1>1. IInv => RetriesAreAsked
  BY DEF IInv, Counted
<1> QED BY <1>1, Inductive, PTL

\* connect() never makes a repository the publication's that it neither created
\* nor had confirmed.
THEOREM NothingForeignIsAdopted == Spec => []OnlyOwnOrConfirmed
<1>1. IInv => OnlyOwnOrConfirmed
  BY DEF IInv, Owned, Own, OnlyOwnOrConfirmed
<1> QED BY <1>1, Inductive, PTL

\* The stage a publication was saved with is true of its remote, its account
\* binding and the upload, after any crash or failure.
THEOREM StagesAreTrue == Spec => []StageIsTrue
<1>1. IInv => StageIsTrue
  BY DEF IInv, Holding, Holds, StageIsTrue
<1> QED BY <1>1, Inductive, PTL
=============================================================================
