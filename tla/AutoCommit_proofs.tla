-------------------------- MODULE AutoCommit_proofs --------------------------
(***************************************************************************)
(* Proofs, for any groups, kinds of faults and bounds, that the index      *)
(* follows HEAD, that the caller is told what happened, and that work of   *)
(* the user is kept.                                                       *)
(*                                                                         *)
(* The argument is about the commits an attempt finds on the branch.  They *)
(* do not change while the attempt lasts, and the index fits them until it *)
(* is promoted.  The commits of the attempt itself lie together on top of  *)
(* them, unless somebody else commits before a hook does: a rollback takes *)
(* off all of them but those below such a commit, and nothing else.        *)
(***************************************************************************)
EXTENDS AutoCommit, SequenceTheorems, WellFoundedInduction, TLAPS

\* What the commits other than those of attempt a and the user's contain.
Before(a, s) == {s[i].what : i \in {j \in DOMAIN s : s[j].action \notin {User, a}}}
Without(a, s) == \A i \in DOMAIN s : s[i].action # a
\* Commits of attempt a below a commit of somebody else below one of a.
Below(a, s, i) ==
  /\ s[i].action = a
  /\ \E j, k \in DOMAIN s : i < j /\ j < k /\ s[j].action # a /\ s[k].action = a
SplitOf(a, s) == {s[i].what : i \in {j \in DOMAIN s : Below(a, s, j)}}
\* The only commit of attempt a is that of group g.
Single(a, g, s) ==
  \E i \in DOMAIN s : s[i].what = g /\ \A j \in DOMAIN s : s[j].action = a <=> j = i
UpTo(a, s) == \A i \in DOMAIN s : s[i].action <= a
OfUser(s) == {s[i].what : i \in {j \in DOMAIN s : s[j].action = User}}

Attempting == {"seed", "prepare", "write", "commit", "hook", "verify", "promote", "rollback", "updateRef"}
Untouched == {"seed", "prepare", "write", "commit"}       \* Git has not been called
Locked == {"prepare", "write", "commit", "hook", "verify", "promote"}  \* the lock holds the new index
Noted == {"write", "commit", "hook", "verify", "promote", "rollback", "updateRef"}
Settled == {"captured", "ready", "clear", "recovered"}

With(ix, g) == [ix EXCEPT !.groups = @ \cup {g}]
Agree(S, T) == S \ doubtful = T \ doubtful
Fits == Agree(index.groups, staged \cup Committed)

\* What an attempt knows of the branch and of its caller, ...
Attempted ==
  pc \in Attempting =>
    /\ group \in Groups /\ group \notin Before(attempt, log)
    /\ attempt \in Nat \ {0}
    /\ told[group] = "none"
    /\ \A g \in Groups : told[g] = "committed" => g \in Before(attempt, log)
    /\ expHead \in Seq(Commit) /\ Without(attempt, expHead)
    /\ SplitOf(attempt, log) \subseteq doubtful
    /\ pc = "hook" => Single(attempt, group, log)
    /\ pc \in Untouched => Without(attempt, log)
    /\ pc = "promote" => Committed = Before(attempt, log) \cup {group}
    /\ pc = "updateRef" =>
         /\ rollback.to \in Seq(Commit) /\ UpTo(attempt, rollback.to)
         /\ CommittedOf(rollback.to) \subseteq Before(attempt, rollback.from) \cup doubtful
         /\ Before(attempt, rollback.from) \subseteq CommittedOf(rollback.to)
         /\ OfUser(rollback.to) = OfUser(rollback.from)

\* ... of the index and its lock, ...
Prepared ==
  pc \in Attempting =>
    /\ Agree(index.groups, staged \cup Before(attempt, log))
    /\ lock.owner = "app"
    /\ pc \in Locked => lock.index = With(index, group)

\* ... and of the journal.
Recorded ==
  /\ pc \in Noted => journal # None
  /\ pc = "write" => journal = Torn /\ CommittedOf(expHead) = Committed
  /\ journal \in Journals =>
       /\ journal.prepared = With(journal.original, journal.tree)
       /\ Agree(journal.original.groups, staged \cup CommittedOf(journal.head))

\* Between attempts.
Resting ==
  /\ pc \in Settled => Fits
  /\ pc \in {"clear", "unlock"} => group \in Groups
  /\ pc \in {"clear", "unlock"} /\ told[group] = "none" => group \notin Committed \ doubtful
  /\ pc = "unlock" /\ told[group] = "committed" => Fits

Typed ==
  /\ TypeOK
  /\ staged \subseteq Groups /\ foreign \in 0 .. MaxForeign
  /\ UpTo(attempt, log)

IInv ==
  Typed /\ Attempted /\ Prepared /\ Recorded /\ Resting /\ IndexFollowsHead /\ OutcomeIsTrue

-----------------------------------------------------------------------------
(***************************************************************************)
(* Histories: what a commit on top changes, and what a rollback leaves.    *)
(***************************************************************************)
LEMMA AppendIndex ==
  ASSUME NEW s \in Seq(Commit), NEW c \in Commit, NEW new, new = Append(s, c)
  PROVE  /\ new \in Seq(Commit) /\ Len(s) \in Nat
         /\ DOMAIN s = 1 .. Len(s) /\ DOMAIN new = 1 .. Len(s) + 1
         /\ \A i \in DOMAIN s : i \in DOMAIN new /\ new[i] = s[i]
         /\ \A i \in DOMAIN new : i \in DOMAIN s \/ (i = Len(s) + 1 /\ new[i] = c)
         /\ Len(s) + 1 \in DOMAIN new /\ new[Len(s) + 1] = c
<1>1. /\ new \in Seq(Commit) /\ Len(s) \in Nat /\ Len(new) = Len(s) + 1
      /\ \A i \in 1 .. Len(s) : new[i] = s[i]
      /\ new[Len(s) + 1] = c
  BY AppendProperties, LenProperties
<1>2. DOMAIN s = 1 .. Len(s) /\ DOMAIN new = 1 .. Len(s) + 1
  BY <1>1, LenProperties
<1> QED BY <1>1, <1>2

LEMMA ActionsTyped ==
  ASSUME NEW s \in Seq(Commit), NEW i \in DOMAIN s
  PROVE  s[i].action \in Nat /\ s[i] \in Commit
<1>1. s[i] \in Commit
  BY LenProperties, ElementOfSeq
<1> QED BY <1>1, BoundsAssumption DEF Commit

\* A commit of the user changes nothing an attempt looks at.
LEMMA UserOnTop ==
  ASSUME NEW s \in Seq(Commit), NEW c \in Commit, NEW new, new = Append(s, c), c.action = User
  PROVE  /\ new \in Seq(Commit)
         /\ \A a : Before(a, new) = Before(a, s)
         /\ CommittedOf(new) = CommittedOf(s)
         /\ OfUser(s) \subseteq OfUser(new)
         /\ \A a : a # User /\ Without(a, s) => Without(a, new)
         /\ \A a : a # User => SplitOf(a, new) = SplitOf(a, s)
         /\ \A a, g : a # User /\ Single(a, g, s) => Single(a, g, new)
         /\ \A a \in Nat : UpTo(a, s) => UpTo(a, new)
<1>1. /\ new \in Seq(Commit) /\ Len(s) \in Nat
      /\ DOMAIN s = 1 .. Len(s) /\ DOMAIN new = 1 .. Len(s) + 1
      /\ \A i \in DOMAIN s : i \in DOMAIN new /\ new[i] = s[i]
      /\ \A i \in DOMAIN new : i \in DOMAIN s \/ (i = Len(s) + 1 /\ new[i] = c)
  BY AppendIndex
<1>2. \A a : Before(a, new) = Before(a, s)
  BY <1>1 DEF Before
<1>3. CommittedOf(new) = CommittedOf(s)
  BY <1>1 DEF CommittedOf
<1>4. OfUser(s) \subseteq OfUser(new)
  BY <1>1 DEF OfUser
<1>5. \A a : a # User /\ Without(a, s) => Without(a, new)
  BY <1>1 DEF Without
<1>6. ASSUME NEW a, a # User PROVE SplitOf(a, new) = SplitOf(a, s)
  <2>1. \A i \in DOMAIN s : Below(a, new, i) <=> Below(a, s, i)
    BY <1>1, <1>6 DEF Below
  <2>2. \A i \in DOMAIN new : Below(a, new, i) => i \in DOMAIN s
    BY <1>1, <1>6 DEF Below
  <2> QED BY <1>1, <2>1, <2>2 DEF SplitOf
<1>8. \A a, g : a # User /\ Single(a, g, s) => Single(a, g, new)
  BY <1>1 DEF Single
<1>7. \A a \in Nat : UpTo(a, s) => UpTo(a, new)
  BY <1>1 DEF UpTo, User
<1> QED BY <1>1, <1>2, <1>3, <1>4, <1>5, <1>6, <1>7, <1>8

\* The commits of attempt a start above the first n.
OnTop(a, n, s) == \A i \in DOMAIN s : s[i].action = a <=> i > n

LEMMA OwnOnTop ==
  ASSUME NEW s \in Seq(Commit), NEW c \in Commit, NEW new, new = Append(s, c),
         NEW a \in Nat \ {0}, c.action = a
  PROVE  /\ new \in Seq(Commit) /\ Len(s) \in Nat /\ Len(new) = Len(s) + 1
         /\ Before(a, new) = Before(a, s)
         /\ CommittedOf(new) = CommittedOf(s) \cup {c.what}
         /\ OfUser(s) \subseteq OfUser(new)
         /\ \A n \in Nat : n <= Len(s) /\ OnTop(a, n, s) => OnTop(a, n, new)
         /\ UpTo(a, s) => UpTo(a, new)
<1>1. /\ new \in Seq(Commit) /\ Len(s) \in Nat /\ Len(new) = Len(s) + 1
      /\ DOMAIN s = 1 .. Len(s) /\ DOMAIN new = 1 .. Len(s) + 1
      /\ \A i \in DOMAIN s : i \in DOMAIN new /\ new[i] = s[i]
      /\ \A i \in DOMAIN new : i \in DOMAIN s \/ (i = Len(s) + 1 /\ new[i] = c)
      /\ Len(s) + 1 \in DOMAIN new /\ new[Len(s) + 1] = c
  BY AppendIndex, AppendProperties
<1>2. Before(a, new) = Before(a, s)
  BY <1>1 DEF Before
<1>3. CommittedOf(new) = CommittedOf(s) \cup {c.what}
  <2>1. \A x \in CommittedOf(new) : x \in CommittedOf(s) \cup {c.what}
    BY <1>1 DEF CommittedOf
  <2>2. \A x \in CommittedOf(s) : x \in CommittedOf(new)
    BY <1>1 DEF CommittedOf
  <2>3. c.what \in CommittedOf(new)
    BY <1>1 DEF CommittedOf, User
  <2> QED BY <2>1, <2>2, <2>3
<1>4. OfUser(s) \subseteq OfUser(new)
  BY <1>1 DEF OfUser
<1>5. \A n \in Nat : n <= Len(s) /\ OnTop(a, n, s) => OnTop(a, n, new)
  BY <1>1 DEF OnTop
<1>6. UpTo(a, s) => UpTo(a, new)
  BY <1>1 DEF UpTo
<1> QED BY <1>1, <1>2, <1>3, <1>4, <1>5, <1>6

LEMMA OnTopWhole ==
  ASSUME NEW s \in Seq(Commit), NEW a, NEW n \in Nat, OnTop(a, n, s)
  PROVE  SplitOf(a, s) = {}
<1>1. DOMAIN s = 1 .. Len(s) /\ Len(s) \in Nat
  BY LenProperties
<1>2. \A i \in DOMAIN s : ~ Below(a, s, i)
  BY <1>1 DEF OnTop, Below
<1> QED BY <1>2 DEF SplitOf

\* What a hook adds above the commit of its attempt.
LEMMA SecondOnTop ==
  ASSUME NEW s \in Seq(Commit), NEW c \in Commit, NEW new, new = Append(s, c),
         NEW a \in Nat \ {0}, c.action = a, NEW g, Single(a, g, s)
  PROVE  /\ SplitOf(a, new) \subseteq {g}
         /\ Last(s).action = a => SplitOf(a, new) = {}
<1>1. /\ Len(s) \in Nat
      /\ DOMAIN s = 1 .. Len(s) /\ DOMAIN new = 1 .. Len(s) + 1
      /\ \A i \in DOMAIN s : i \in DOMAIN new /\ new[i] = s[i]
      /\ \A i \in DOMAIN new : i \in DOMAIN s \/ (i = Len(s) + 1 /\ new[i] = c)
  BY AppendIndex
<1>2. PICK i \in DOMAIN s : s[i].what = g /\ \A j \in DOMAIN s : s[j].action = a <=> j = i
  BY DEF Single
<1>3. \A j \in DOMAIN new : Below(a, new, j) => j = i
  BY <1>1, <1>2 DEF Below
<1>4. ASSUME Last(s).action = a PROVE \A j \in DOMAIN new : ~ Below(a, new, j)
  <2>1. i = Len(s)
    BY <1>1, <1>2, <1>4 DEF Last
  <2> QED BY <1>1, <1>3, <2>1 DEF Below
<1> QED BY <1>1, <1>2, <1>3, <1>4 DEF SplitOf

LEMMA WithoutOnTop ==
  ASSUME NEW s \in Seq(Commit), NEW a, Without(a, s)
  PROVE  /\ Len(s) \in Nat /\ OnTop(a, Len(s), s)
         /\ Before(a, s) = CommittedOf(s)
         /\ SplitOf(a, s) = {}
<1>1. DOMAIN s = 1 .. Len(s) /\ Len(s) \in Nat
  BY LenProperties
<1>2. OnTop(a, Len(s), s)
  BY <1>1 DEF OnTop, Without
<1>3. Before(a, s) = CommittedOf(s)
  BY DEF Before, CommittedOf, Without
<1>4. SplitOf(a, s) = {}
  BY DEF SplitOf, Below, Without
<1> QED BY <1>1, <1>2, <1>3, <1>4

\* A new attempt finds no commits of its own.
LEMMA FreshAttempt ==
  ASSUME NEW s \in Seq(Commit), NEW a \in Nat, UpTo(a, s)
  PROVE  Without(a + 1, s) /\ UpTo(a + 1, s)
  BY ActionsTyped DEF UpTo, Without

LEMMA LeastElement ==
  ASSUME NEW T \in SUBSET Nat, T # {}
  PROVE  \E m \in T : \A n \in T : m <= n
<1>1. PICK m \in T : \A n \in T : ~ (<<n, m>> \in OpToRel(<, Nat))
  BY NatLessThanWellFounded, WFMin
<1>2. \A n \in T : ~ (n < m)
  BY <1>1 DEF OpToRel
<1> QED BY <1>2

\* What rollbackAutoCommitRef() leaves is the branch as the attempt found it,
\* with what the user committed below the attempt's commits, and with commits of
\* the attempt that are below another user's.
LEMMA RolledBack ==
  ASSUME NEW s \in Seq(Commit), attempt \in Nat \ {0}, OwnSuffix(s) # {}
  PROVE  /\ WithoutOwn(s) \in Seq(Commit)
         /\ Before(attempt, s) \subseteq CommittedOf(WithoutOwn(s))
         /\ CommittedOf(WithoutOwn(s)) \subseteq Before(attempt, s) \cup SplitOf(attempt, s)
         /\ OfUser(WithoutOwn(s)) = OfUser(s)
         /\ UpTo(attempt, s) => UpTo(attempt, WithoutOwn(s))
<1> DEFINE n == Len(s)
           fits(m) == OwnSuffix(s) = m + 1 .. n
           T == {m \in 0 .. n : \A j \in m + 1 .. n : Own(attempt, s[j])}
<1>1. n \in Nat /\ DOMAIN s = 1 .. n
  BY LenProperties
<1>2. \E m \in 0 .. n : fits(m)
  <2>1. n \in T /\ T \subseteq Nat
    BY <1>1
  <2>2. PICK m \in T : \A k \in T : m <= k
    BY <2>1, LeastElement
  <2>3. ASSUME NEW i \in OwnSuffix(s) PROVE i \in m + 1 .. n
    <3>1. i \in 1 .. n /\ \A j \in i .. n : Own(attempt, s[j])
      BY <1>1, <2>3 DEF OwnSuffix
    <3>2. i - 1 \in 0 .. n /\ (i - 1) + 1 = i
      BY <1>1, <3>1
    <3>3. i - 1 \in T
      BY <3>1, <3>2
    <3>4. m <= i - 1 /\ m \in Nat
      BY <2>1, <2>2, <3>3
    <3> QED BY <1>1, <3>1, <3>4
  <2>4. ASSUME NEW i \in m + 1 .. n PROVE i \in OwnSuffix(s)
    BY <1>1, <2>1, <2>2, <2>4 DEF OwnSuffix
  <2> QED BY <2>2, <2>3, <2>4
<1>3. PICK m \in 0 .. n : fits(m) /\ WithoutOwn(s) = SubSeq(s, 1, m)
  BY <1>2 DEF WithoutOwn
<1> DEFINE to == WithoutOwn(s)
<1>4. \A i \in 1 .. n : s[i] \in Commit
  BY ElementOfSeq
<1>5. to \in Seq(Commit) /\ Len(to) = m /\ \A i \in 1 .. m : to[i] = s[i]
  <2>1. m \in Int /\ 1 \in Int /\ \A i \in 1 .. m : s[i] \in Commit
    BY <1>1, <1>3, <1>4
  <2>2. /\ SubSeq(s, 1, m) \in Seq(Commit)
        /\ Len(SubSeq(s, 1, m)) = IF 1 <= m THEN m - 1 + 1 ELSE 0
        /\ \A i \in 1 .. m - 1 + 1 : SubSeq(s, 1, m)[i] = s[1 + i - 1]
    BY <2>1, SubSeqProperties
  <2> QED BY <1>1, <1>3, <2>2
<1>6. DOMAIN to = 1 .. m
  BY <1>5, LenProperties
<1> HIDE DEF to
<1>7. \A i \in m + 1 .. n : s[i].action = attempt /\ attempt # User
  BY <1>1, <1>3 DEF OwnSuffix, Own, User
<1>8. ASSUME NEW i \in 1 .. m, s[i].action = attempt PROVE s[i].what \in SplitOf(attempt, s)
  <2>1. m < n
    BY <1>1, <1>3
  <2>2. s[n].action = attempt /\ n \in DOMAIN s /\ i \in DOMAIN s /\ i \notin OwnSuffix(s)
    BY <1>1, <1>3, <1>7, <2>1
  <2>3. PICK j \in i .. n : s[j].action # attempt
    BY <1>7, <2>1, <2>2 DEF OwnSuffix, Own, User
  <2>4. i < j /\ j < n /\ j \in DOMAIN s
    BY <1>1, <1>8, <2>2, <2>3
  <2>5. Below(attempt, s, i)
    BY <1>8, <2>2, <2>3, <2>4 DEF Below
  <2> QED BY <2>2, <2>5 DEF SplitOf
<1> HIDE DEF n
<1>9. /\ Before(attempt, s) \subseteq CommittedOf(to)
      /\ CommittedOf(to) \subseteq Before(attempt, s) \cup SplitOf(attempt, s)
  <2>1. \A x \in CommittedOf(to) : x \in Before(attempt, s) \cup SplitOf(attempt, s)
    BY <1>1, <1>3, <1>5, <1>6, <1>8 DEF CommittedOf, Before
  <2>2. \A x \in Before(attempt, s) : x \in CommittedOf(to)
    BY <1>1, <1>3, <1>5, <1>6, <1>7 DEF CommittedOf, Before
  <2> QED BY <2>1, <2>2
<1>10. OfUser(to) = OfUser(s)
  <2>1. \A x \in OfUser(to) : x \in OfUser(s)
    BY <1>1, <1>3, <1>5, <1>6 DEF OfUser
  <2>2. \A x \in OfUser(s) : x \in OfUser(to)
    BY <1>1, <1>3, <1>5, <1>6, <1>7 DEF OfUser
  <2> QED BY <2>1, <2>2
<1>11. UpTo(attempt, s) => UpTo(attempt, to)
  BY <1>1, <1>3, <1>5, <1>6 DEF UpTo
<1> QED BY <1>5, <1>9, <1>10, <1>11 DEF to

-----------------------------------------------------------------------------
(***************************************************************************)
(* Steps.                                                                  *)
(***************************************************************************)
LEMMA WithTyped ==
  ASSUME NEW ix \in Index, NEW g \in Groups
  PROVE  /\ With(ix, g) \in Index
         /\ With(ix, g).groups = ix.groups \cup {g}
         /\ With(ix, g).user = ix.user
  BY DEF With, Index

\* Until Git was called the index fits the branch.
LEMMA UntouchedFits ==
  ASSUME IInv, pc \in Untouched
  PROVE  Fits /\ Committed = Before(attempt, log) /\ group \notin Committed
<1>1. pc \in Attempting
  BY DEF Untouched, Attempting
<1>2. log \in Seq(Commit) /\ Without(attempt, log)
  BY <1>1 DEF IInv, Typed, TypeOK, Attempted
<1>3. Committed = Before(attempt, log)
  BY <1>2, WithoutOnTop DEF Committed
<1> QED BY <1>1, <1>3 DEF IInv, Attempted, Prepared, Fits

\* The steps that change neither the branch nor the index.
LEMMA PlainIInv ==
  ASSUME IInv,
         \/ Capture \/ Captured \/ EndRun \/ Clear \/ Unlock \/ Crash \/ Restart
         \/ RecoverClear \/ UserLocks \/ UserRemovesStaleLock
  PROVE  IInv'
<1> USE JournalsAssumption, BoundsAssumption
    DEF Capture, Captured, EndRun, Clear, Unlock, Crash, Restart, RecoverClear, UserLocks,
        UserRemovesStaleLock, Fault, Moves, ByUser, Step, NoLock, disk, run, history,
        Attempting, Untouched, Locked, Noted, Settled, Committed, Agree
<1>1. Typed'
  BY DEF IInv, Typed, TypeOK, Guarded
<1>2. Attempted'
  BY DEF IInv, Attempted
<1>3. Prepared'
  BY DEF IInv, Prepared
<1>4. Recorded'
  BY DEF IInv, Recorded, Typed, Attempted, Prepared
<1>5. Resting'
  BY DEF IInv, Resting, Typed, Attempted, Prepared, Fits, IndexFollowsHead
<1>6. IndexFollowsHead'
  BY DEF IInv, IndexFollowsHead, Resting, Fits, Recorded
<1>7. OutcomeIsTrue'
  BY DEF IInv, OutcomeIsTrue, Typed, TypeOK, Attempted, Resting
<1> QED BY <1>1, <1>2, <1>3, <1>4, <1>5, <1>6, <1>7 DEF IInv

LEMMA SeedIInv ==
  ASSUME IInv, Seed
  PROVE  IInv'
<1> USE JournalsAssumption, BoundsAssumption
    DEF Seed, Step, NoLock, disk, run, history, Attempting, Untouched, Locked,
        Noted, Settled, Committed, Agree
<1>1. Typed'
  <2>1. /\ index \in Index /\ group \in Groups
        /\ lock \in [owner : {"none", "user", "app"}, index : Index \cup {None}]
    BY DEF IInv, Typed, TypeOK, Attempted
  <2>2. lock' \in [owner : {"none", "user", "app"}, index : Index \cup {None}]
    BY <2>1, WithTyped DEF With
  <2> QED BY <2>2 DEF IInv, Typed, TypeOK, Guarded
<1>2. Attempted'
  BY DEF IInv, Attempted, Typed
<1>3. Prepared'
  BY DEF IInv, Prepared, Typed, TypeOK, With
<1>4. Recorded'
  BY DEF IInv, Recorded, Typed, Attempted, Prepared
<1>5. Resting'
  BY UntouchedFits DEF IInv, Resting, Attempted, Fits
<1>6. IndexFollowsHead'
  BY DEF IInv, IndexFollowsHead, Resting, Fits, Recorded
<1>7. OutcomeIsTrue'
  BY DEF IInv, OutcomeIsTrue, Typed, TypeOK, Attempted, Resting
<1> QED BY <1>1, <1>2, <1>3, <1>4, <1>5, <1>6, <1>7 DEF IInv

LEMMA PrepareIInv ==
  ASSUME IInv, Prepare
  PROVE  IInv'
<1> USE JournalsAssumption, BoundsAssumption
    DEF Prepare, Step, NoLock, disk, run, history, Attempting, Untouched, Locked,
        Noted, Settled, Committed, Agree
<1>1. Typed'
  BY DEF IInv, Typed, TypeOK, Guarded
<1>2. Attempted'
  BY DEF IInv, Attempted, Typed
<1>3. Prepared'
  BY DEF IInv, Prepared, Typed
<1>4. Recorded'
  BY DEF IInv, Recorded, Typed, Attempted, Prepared
<1>5. Resting'
  BY UntouchedFits DEF IInv, Resting, Attempted, Fits
<1>6. IndexFollowsHead'
  BY DEF IInv, IndexFollowsHead, Resting, Fits, Recorded
<1>7. OutcomeIsTrue'
  BY DEF IInv, OutcomeIsTrue, Typed, TypeOK, Attempted, Resting
<1> QED BY <1>1, <1>2, <1>3, <1>4, <1>5, <1>6, <1>7 DEF IInv

LEMMA WriteJournalIInv ==
  ASSUME IInv, WriteJournal
  PROVE  IInv'
<1> USE JournalsAssumption, BoundsAssumption
    DEF WriteJournal, Step, NoLock, disk, run, history, Attempting, Untouched, Locked,
        Noted, Settled, Committed, Agree
<1>0. journal' \in Journals /\ journal' # None
  <2>1. /\ expHead \in Seq(Commit) /\ group \in Groups /\ attempt \in 1 .. MaxAttempts
        /\ index \in Index /\ lock.index = With(index, group)
    BY DEF IInv, Typed, TypeOK, Attempted, Prepared
  <2>2. lock.index \in Index
    BY <2>1, WithTyped
  <2>3. journal' \in Journals
    BY <2>1, <2>2 DEF Journals
  <2> QED BY <2>3
<1>1. Typed'
  BY <1>0 DEF IInv, Typed, TypeOK, Guarded
<1>2. Attempted'
  BY DEF IInv, Attempted, Typed
<1>3. Prepared'
  BY DEF IInv, Prepared, Typed
<1>4. Recorded'
  <2>1. Agree(index.groups, staged \cup CommittedOf(expHead)) /\ lock.index = With(index, group)
    BY UntouchedFits DEF IInv, Recorded, Prepared, Fits
  <2> QED BY <1>0, <2>1 DEF Recorded
<1>5. Resting'
  BY DEF IInv, Resting, Typed, Attempted, Prepared, Fits, IndexFollowsHead
<1>6. IndexFollowsHead'
  BY <1>0 DEF IInv, IndexFollowsHead, Resting, Fits, Recorded
<1>7. OutcomeIsTrue'
  BY DEF IInv, OutcomeIsTrue, Typed, TypeOK, Attempted, Resting
<1> QED BY <1>1, <1>2, <1>3, <1>4, <1>5, <1>6, <1>7 DEF IInv

LEMMA VerifyIInv ==
  ASSUME IInv, Verify
  PROVE  IInv'
<1> USE JournalsAssumption, BoundsAssumption
    DEF Verify, Verified, Step, NoLock, disk, run, history, Attempting, Untouched, Locked,
        Noted, Settled, Committed, Agree
<1>1. Typed'
  BY DEF IInv, Typed, TypeOK, Guarded
<1>2. Attempted'
  <2>1. ASSUME Verified
        PROVE  Committed = Before(attempt, log) \cup {group}
    <3>1. /\ expHead \in Seq(Commit) /\ Without(attempt, expHead) /\ group \in Groups
          /\ attempt \in Nat \ {0} /\ attempt \in 0 .. MaxAttempts
      BY DEF IInv, Attempted, Typed, TypeOK
    <3>2. Mine(group) \in Commit /\ Mine(group).action = attempt /\ Mine(group).what = group
      BY <3>1 DEF Mine, Commit, Contents
    <3>3. /\ Len(expHead) \in Nat /\ OnTop(attempt, Len(expHead), expHead)
          /\ Before(attempt, expHead) = CommittedOf(expHead)
      BY <3>1, WithoutOnTop
    <3>4. /\ Before(attempt, log) = Before(attempt, expHead)
          /\ CommittedOf(log) = CommittedOf(expHead) \cup {group}
      <4> DEFINE c == Mine(group)
                 s == expHead
                 n == Len(expHead)
      <4>1. /\ c \in Commit /\ c.action = attempt /\ c.what = group /\ log = Append(s, c)
            /\ n \in Nat /\ n <= Len(s) /\ OnTop(attempt, n, s) /\ s \in Seq(Commit)
            /\ attempt \in Nat \ {0}
        BY <2>1, <3>1, <3>2, <3>3
      <4> HIDE DEF c, s, n
      <4>2. /\ Before(attempt, Append(s, c)) = Before(attempt, s)
            /\ CommittedOf(Append(s, c)) = CommittedOf(s) \cup {c.what}
        <5> USE ONLY <4>1
        <5> QED BY OwnOnTop
      <4> QED BY <4>1, <4>2 DEF s
    <3> QED BY <3>3, <3>4
  <2> QED BY <2>1 DEF IInv, Attempted, Typed
<1>3. Prepared'
  BY DEF IInv, Prepared, Typed
<1>4. Recorded'
  BY DEF IInv, Recorded, Typed, Attempted, Prepared
<1>5. Resting'
  BY DEF IInv, Resting, Typed, Attempted, Prepared, Fits, IndexFollowsHead
<1>6. IndexFollowsHead'
  BY DEF IInv, IndexFollowsHead, Resting, Fits, Recorded
<1>7. OutcomeIsTrue'
  BY DEF IInv, OutcomeIsTrue, Typed, TypeOK, Attempted, Resting
<1> QED BY <1>1, <1>2, <1>3, <1>4, <1>5, <1>6, <1>7 DEF IInv

LEMMA ErrorIInv ==
  ASSUME IInv, Error
  PROVE  IInv'
<1> USE JournalsAssumption, BoundsAssumption
    DEF Error, Fault, Guarded, Caught, Step, NoLock, disk, run, history,
        Attempting, Untouched, Locked, Noted, Settled, Committed, Agree
<1>1. Typed'
  BY DEF IInv, Typed, TypeOK, Guarded
<1>2. Attempted'
  BY DEF IInv, Attempted, Typed
<1>3. Prepared'
  BY DEF IInv, Prepared, Typed
<1>4. Recorded'
  BY DEF IInv, Recorded, Typed, Attempted, Prepared
<1>5. Resting'
  <2>1. CASE pc \in {"seed", "prepare", "write"}
    BY <2>1, UntouchedFits DEF IInv, Resting, Attempted, Fits
  <2>2. CASE pc \in {"rollback", "updateRef"}
    BY <2>2 DEF IInv, Resting, Attempted, Typed, TypeOK
  <2>3. CASE pc \in {"verify", "promote"}
    BY <2>3 DEF Resting
  <2>4. CASE pc = "clear"
    BY <2>4 DEF IInv, Resting, Fits
  <2> QED BY <2>1, <2>2, <2>3, <2>4
<1>6. IndexFollowsHead'
  BY DEF IInv, IndexFollowsHead, Resting, Fits, Recorded
<1>7. OutcomeIsTrue'
  BY DEF IInv, OutcomeIsTrue, Typed, TypeOK, Attempted, Resting
<1> QED BY <1>1, <1>2, <1>3, <1>4, <1>5, <1>6, <1>7 DEF IInv

LEMMA ReadFailsUnbornIInv ==
  ASSUME IInv, ReadFailsUnborn
  PROVE  IInv'
<1> USE JournalsAssumption, BoundsAssumption
    DEF ReadFailsUnborn, Fault, Step, NoLock, disk, run, history, Attempting, Untouched,
        Locked, Noted, Settled, Committed, Agree
<1>1. doubtful \subseteq doubtful' /\ Committed \subseteq doubtful'
  OBVIOUS
<1>2. Typed'
  <2>1. log \in Seq(Commit) /\ doubtful \subseteq Contents
    BY DEF IInv, Typed, TypeOK
  <2>2. \A i \in DOMAIN log : log[i].what \in Contents
    BY <2>1, ActionsTyped DEF Commit
  <2>3. doubtful' \subseteq Contents
    BY <2>1, <2>2 DEF CommittedOf
  <2> QED BY <2>3 DEF IInv, Typed, TypeOK, Guarded
<1>3. Attempted' /\ Prepared'
  BY DEF Attempted, Prepared
<1>4. Recorded'
  BY <1>1 DEF IInv, Recorded, Agree
<1>5. Fits'
  <2>1. Before(attempt, log) \subseteq Committed
    BY DEF Before, CommittedOf
  <2>2. Agree(index.groups, staged \cup Before(attempt, log))
    BY DEF IInv, Prepared
  <2> QED BY <1>1, <2>1, <2>2 DEF Fits, Agree
<1>6. Resting'
  BY <1>1, <1>5 DEF IInv, Attempted, Resting
<1>7. IndexFollowsHead'
  BY DEF IInv, Recorded, IndexFollowsHead
<1>8. OutcomeIsTrue'
  BY <1>1 DEF IInv, OutcomeIsTrue
<1> QED BY <1>2, <1>3, <1>4, <1>6, <1>7, <1>8 DEF IInv

LEMMA RecoverUncommittedIInv ==
  ASSUME IInv, RecoverUncommitted
  PROVE  IInv'
<1> USE JournalsAssumption, BoundsAssumption
    DEF RecoverUncommitted, Readable, OwnsLock, Step, NoLock, disk, run, history,
        Attempting, Untouched, Locked, Noted, Settled, Committed, Agree
<1>1. Typed'
  BY DEF IInv, Typed, TypeOK, Guarded
<1>2. Attempted'
  BY DEF IInv, Attempted, Typed
<1>3. Prepared'
  BY DEF IInv, Prepared, Typed
<1>4. Recorded'
  BY DEF IInv, Recorded, Typed, Attempted, Prepared
<1>5. Resting'
  <2>1. journal \in Journals /\ Agree(index.groups, staged \cup CommittedOf(log))
    BY DEF IInv, Typed, TypeOK, Recorded
  <2> QED BY <2>1 DEF Resting, Fits
<1>6. IndexFollowsHead'
  BY DEF IInv, IndexFollowsHead, Resting, Fits, Recorded
<1>7. OutcomeIsTrue'
  BY DEF IInv, OutcomeIsTrue, Typed, TypeOK, Attempted, Resting
<1> QED BY <1>1, <1>2, <1>3, <1>4, <1>5, <1>6, <1>7 DEF IInv

LEMMA BeginIInv ==
  ASSUME IInv, Begin
  PROVE  IInv'
<1> USE JournalsAssumption, BoundsAssumption
    DEF Begin, CheckHead, Step, NoLock, disk, run, history, Attempting, Untouched, Locked,
        Noted, Settled, Committed, Agree
<1>1. NextGroup \in Groups \ Committed
  <2>1. PICK m \in Groups \ Committed : \A n \in Groups \ Committed : m <= n
    BY LeastElement, GroupsAssumption
  <2> QED BY <2>1 DEF NextGroup
<1>2. /\ log \in Seq(Commit) /\ attempt \in Nat /\ UpTo(attempt, log) /\ attempt' = attempt + 1
      /\ attempt' \in 0 .. MaxAttempts
  BY DEF IInv, Typed, TypeOK
<1>3. Without(attempt', log) /\ UpTo(attempt', log)
  BY <1>2, FreshAttempt
<1>4. Before(attempt', log) = Committed /\ SplitOf(attempt', log) = {}
  BY <1>2, <1>3, WithoutOnTop
<1>5. \A g \in Groups : told'[g] = IF g = NextGroup THEN "none" ELSE told[g]
  BY DEF IInv, Typed, TypeOK
<1>6. log' = log /\ group' = NextGroup /\ expHead' = log /\ pc' = "seed"
      /\ UNCHANGED <<index, staged, journal, foreign>> /\ lock' = [owner |-> "app", index |-> None]
  OBVIOUS
<1>7. Typed'
  <2>1. told' \in [Groups -> {"none", "committed", "failed", "unsafe"}]
    BY <1>1 DEF IInv, Typed, TypeOK
  <2> QED BY <1>2, <1>3, <1>6, <2>1 DEF IInv, Typed, TypeOK, Guarded
<1>8. Fits
  BY DEF IInv, Resting
<1>9. Attempted'
  BY <1>1, <1>2, <1>3, <1>4, <1>5, <1>6 DEF IInv, OutcomeIsTrue, Attempted
<1>10. Prepared'
  BY <1>4, <1>6, <1>8 DEF Prepared, Fits
<1>11. Recorded'
  BY <1>6 DEF IInv, Recorded
<1>12. Resting'
  BY <1>6 DEF Resting
<1>13. IndexFollowsHead'
  BY <1>6, <1>8 DEF Fits, IndexFollowsHead
<1>14. OutcomeIsTrue'
  BY <1>5, <1>6 DEF IInv, OutcomeIsTrue
<1> QED BY <1>7, <1>9, <1>10, <1>11, <1>12, <1>13, <1>14 DEF IInv

\* What every outcome of "git commit" and of its hooks has in common.
LEMMA CommitIInv ==
  ASSUME IInv, pc \in {"commit", "hook"}, pc' \in {"hook", "verify", "rollback"},
         UNCHANGED <<index, lock, journal, run, staged, told, foreign>>,
         log' \in Seq(Commit), UpTo(attempt, log'),
         doubtful \subseteq doubtful', doubtful' \subseteq doubtful \cup {group},
         SplitOf(attempt, log') \subseteq doubtful',
         pc' = "hook" => Single(attempt, group, log'),
         Before(attempt, log') = Before(attempt, log),
         CommittedOf(log') \subseteq CommittedOf(log) \cup {group, Hooked}
  PROVE  IInv'
<1> USE JournalsAssumption, BoundsAssumption
    DEF run, Step, NoLock, disk, run, history, Attempting, Untouched, Locked,
        Noted, Settled, Committed, Agree
<1>1. Typed'
  <2>1. group \in Groups /\ doubtful' \subseteq Contents
    BY DEF IInv, Typed, TypeOK, Attempted, Contents
  <2> QED BY <2>1 DEF IInv, Typed, TypeOK, Guarded
<1>2. Attempted'
  BY DEF IInv, Attempted
<1>3. Prepared'
  BY DEF IInv, Prepared, Agree
<1>4. Recorded'
  BY DEF IInv, Recorded, Agree
<1>5. Resting'
  BY DEF Resting
<1>6. IndexFollowsHead'
  BY DEF IInv, Recorded, IndexFollowsHead
<1>7. OutcomeIsTrue'
  <2>1. Before(attempt, log') \subseteq CommittedOf(log')
    BY DEF Before, CommittedOf
  <2>2. Hooked \notin Groups
    BY GroupsAssumption DEF Hooked
  <2>3. /\ told[group] = "none"
        /\ \A g \in Groups : told[g] = "committed" => g \in Before(attempt, log)
    BY DEF IInv, Attempted
  <2> QED BY <2>1, <2>2, <2>3 DEF IInv, OutcomeIsTrue
<1> QED BY <1>1, <1>2, <1>3, <1>4, <1>5, <1>6, <1>7 DEF IInv

\* A commit of the attempt comes on top of the branch.
LEMMA AddedIInv ==
  ASSUME IInv, pc \in {"commit", "hook"}, pc' \in {"hook", "verify", "rollback"},
         UNCHANGED <<index, lock, journal, run, staged, told, foreign>>,
         NEW what \in {group, Hooked}, log' = Append(log, Mine(what)),
         pc = "commit" => doubtful' = doubtful,
         pc = "hook" => doubtful' = IF Own(attempt, Last(log)) THEN doubtful ELSE doubtful \cup {group},
         pc' = "hook" => pc = "commit" /\ what = group
  PROVE  IInv' /\ OfUser(log) \subseteq OfUser(log')
<1> DEFINE c == Mine(what)
<1>1. /\ log \in Seq(Commit) /\ attempt \in Nat \ {0} /\ attempt \in 0 .. MaxAttempts
      /\ group \in Groups /\ UpTo(attempt, log) /\ SplitOf(attempt, log) \subseteq doubtful
      /\ pc = "commit" => Without(attempt, log)
      /\ pc = "hook" => Single(attempt, group, log)
  BY DEF IInv, Typed, TypeOK, Attempted, Attempting, Untouched
<1>2. c \in Commit /\ c.action = attempt /\ c.what = what /\ log' = Append(log, c)
  BY <1>1 DEF Mine, Commit, Contents
<1> HIDE DEF c
<1>3. /\ log' \in Seq(Commit) /\ Len(log) \in Nat /\ OfUser(log) \subseteq OfUser(log')
      /\ Before(attempt, log') = Before(attempt, log)
      /\ CommittedOf(log') \subseteq CommittedOf(log) \cup {group, Hooked}
      /\ \A n \in Nat : n <= Len(log) /\ OnTop(attempt, n, log) => OnTop(attempt, n, log')
      /\ UpTo(attempt, log')
  <2> DEFINE new == Append(log, c)
  <2>1. /\ new \in Seq(Commit) /\ Len(log) \in Nat
        /\ Before(attempt, new) = Before(attempt, log)
        /\ CommittedOf(new) = CommittedOf(log) \cup {c.what}
        /\ OfUser(log) \subseteq OfUser(new)
        /\ \A n \in Nat : n <= Len(log) /\ OnTop(attempt, n, log) => OnTop(attempt, n, new)
        /\ UpTo(attempt, log) => UpTo(attempt, new)
    <3> DEFINE a == attempt
               s == log
    <3>1. s \in Seq(Commit) /\ c \in Commit /\ new = Append(s, c) /\ a \in Nat \ {0} /\ c.action = a
      BY <1>1, <1>2
    <3> HIDE DEF new, a, s
    <3>2. /\ new \in Seq(Commit) /\ Len(s) \in Nat
          /\ Before(a, new) = Before(a, s)
          /\ CommittedOf(new) = CommittedOf(s) \cup {c.what}
          /\ OfUser(s) \subseteq OfUser(new)
          /\ \A n \in Nat : n <= Len(s) /\ OnTop(a, n, s) => OnTop(a, n, new)
          /\ UpTo(a, s) => UpTo(a, new)
      <4> USE ONLY <3>1
      <4> QED BY OwnOnTop
    <3> QED BY <3>2 DEF a, s
  <2> QED BY <1>1, <1>2, <2>1
<1>4. doubtful \subseteq doubtful' /\ doubtful' \subseteq doubtful \cup {group}
  OBVIOUS
<1>5. CASE pc = "commit"
  <2>1. OnTop(attempt, Len(log), log)
    BY <1>1, <1>5, WithoutOnTop
  <2>2. OnTop(attempt, Len(log), log')
    BY <1>3, <2>1
  <2>3. SplitOf(attempt, log') = {}
    BY <1>3, <2>2, OnTopWhole
  <2>4. what = group => Single(attempt, group, log')
    <3>1. /\ DOMAIN log = 1 .. Len(log) /\ DOMAIN log' = 1 .. Len(log) + 1
          /\ log'[Len(log) + 1] = c
      BY <1>1, <1>2, AppendIndex
    <3>2. ASSUME what = group PROVE Single(attempt, group, log')
      <4>1. Len(log) + 1 \in DOMAIN log' /\ log'[Len(log) + 1].what = group
        BY <1>2, <1>3, <3>1, <3>2
      <4>2. \A j \in DOMAIN log' : log'[j].action = attempt <=> j = Len(log) + 1
        BY <1>3, <2>2, <3>1 DEF OnTop
      <4> QED BY <4>1, <4>2 DEF Single
    <3> QED BY <3>2
  <2>5. SplitOf(attempt, log') \subseteq doubtful' /\ (pc' = "hook" => Single(attempt, group, log'))
    BY <2>3, <2>4
  <2> QED BY <1>3, <1>4, <2>5, CommitIInv
<1>6. CASE pc = "hook"
  <2>1. /\ SplitOf(attempt, log') \subseteq {group}
        /\ Last(log).action = attempt => SplitOf(attempt, log') = {}
    BY <1>1, <1>2, <1>6, SecondOnTop
  <2>2. Own(attempt, Last(log)) => Last(log).action = attempt
    BY DEF Own
  <2>3. SplitOf(attempt, log') \subseteq doubtful' /\ pc' # "hook"
    BY <1>6, <2>1, <2>2
  <2> QED BY <1>3, <1>4, <2>3, CommitIInv
<1> QED BY <1>5, <1>6

LEMMA GitCommitIInv ==
  ASSUME IInv, GitCommits \/ GitCommitsWithHooks \/ HookCommits \/ GitFails
  PROVE  IInv' /\ OfUser(log) \subseteq OfUser(log') /\ index' = index
<1> USE DEF Step, Fault, history, HookAdds
<1>1. CASE GitCommits
  BY <1>1, AddedIInv DEF GitCommits
<1>2. CASE GitCommitsWithHooks
  BY <1>2, AddedIInv DEF GitCommitsWithHooks
<1>3. CASE HookCommits
  BY <1>3, AddedIInv DEF HookCommits
<1>4. CASE GitFails
  <2>1. /\ pc \in {"commit", "hook"} /\ pc' = "rollback"
        /\ UNCHANGED <<index, lock, journal, run, staged, told, foreign>>
    BY <1>4 DEF GitFails
  <2>2. CASE UNCHANGED <<log, doubtful>>
    <3>1. /\ log \in Seq(Commit) /\ UpTo(attempt, log) /\ SplitOf(attempt, log) \subseteq doubtful
      BY <2>1 DEF IInv, Typed, TypeOK, Attempted, Attempting
    <3> QED BY <2>1, <2>2, <3>1, CommitIInv
  <2>3. CASE pc = "commit" /\ log' = Append(log, Mine(group)) /\ UNCHANGED doubtful
    BY <2>1, <2>3, AddedIInv
  <2>4. CASE pc = "hook" /\ HookAdds
    BY <2>1, <2>4, AddedIInv
  <2> QED BY <1>4, <2>2, <2>3, <2>4 DEF GitFails
<1> QED BY <1>1, <1>2, <1>3, <1>4

LEMMA PromoteIInv ==
  ASSUME IInv, Promote
  PROVE  IInv'
<1> USE JournalsAssumption, BoundsAssumption
    DEF Promote, Step, NoLock, disk, run, history, Attempting, Untouched, Locked,
        Noted, Settled, Committed, Agree
<1>1. /\ index \in Index /\ group \in Groups /\ lock.index = With(index, group)
      /\ Agree(index.groups, staged \cup Before(attempt, log))
      /\ Committed = Before(attempt, log) \cup {group}
  BY DEF IInv, Typed, TypeOK, Attempted, Prepared
<1>2. index' \in Index /\ index'.groups = index.groups \cup {group}
  BY <1>1, WithTyped
<1>3. Fits'
  BY <1>1, <1>2 DEF Fits, Agree
<1>4. \A g \in Groups : told'[g] = IF g = group THEN "committed" ELSE told[g]
  BY <1>1 DEF IInv, Typed, TypeOK
<1>5. Typed'
  <2>1. told' \in [Groups -> {"none", "committed", "failed", "unsafe"}]
    BY DEF IInv, Typed, TypeOK
  <2>2. lock' \in [owner : {"none", "user", "app"}, index : Index \cup {None}]
    OBVIOUS
  <2> QED BY <1>2, <2>1, <2>2 DEF IInv, Typed, TypeOK, Guarded
<1>6. Attempted' /\ Prepared'
  BY DEF Attempted, Prepared
<1>7. Recorded'
  BY DEF IInv, Recorded
<1>8. Resting'
  BY <1>1, <1>3, <1>4 DEF Resting
<1>9. IndexFollowsHead'
  BY <1>3 DEF Fits, IndexFollowsHead
<1>10. OutcomeIsTrue'
  BY <1>1, <1>2, <1>4 DEF IInv, OutcomeIsTrue
<1> QED BY <1>5, <1>6, <1>7, <1>8, <1>9, <1>10 DEF IInv

LEMMA ReadRollbackIInv ==
  ASSUME IInv, ReadRollback
  PROVE  IInv'
<1> USE JournalsAssumption, BoundsAssumption
    DEF ReadRollback, Step, NoLock, disk, run, history, Attempting, Untouched, Locked,
        Noted, Settled, Committed, Agree
<1>1. /\ log \in Seq(Commit) /\ attempt \in Nat \ {0} /\ SplitOf(attempt, log) \subseteq doubtful
      /\ group \in Groups /\ group \notin Before(attempt, log) /\ UpTo(attempt, log)
      /\ Without(attempt, expHead) /\ expHead \in Seq(Commit)
      /\ Agree(index.groups, staged \cup Before(attempt, log)) /\ told[group] = "none"
  BY DEF IInv, Typed, TypeOK, Attempted, Prepared
<1>2. log = expHead => Committed = Before(attempt, log)
  BY <1>1, WithoutOnTop
<1>3. /\ told' \in [Groups -> {"none", "committed", "failed", "unsafe"}]
      /\ \A g \in Groups : told'[g] = told[g] \/ (g = group /\ told'[g] = "unsafe")
      /\ pc' # "unlock" => told' = told
      /\ pc' = "unlock" => told'[group] = "unsafe"
  BY <1>1 DEF IInv, Typed, TypeOK
<1>4. pc' = "updateRef" =>
        /\ rollback'.from = log /\ rollback'.to \in Seq(Commit)
        /\ Before(attempt, log) \subseteq CommittedOf(rollback'.to)
        /\ CommittedOf(rollback'.to) \subseteq Before(attempt, log) \cup doubtful
        /\ OfUser(rollback'.to) = OfUser(log)
        /\ UpTo(attempt, rollback'.to)
  <2> SUFFICES ASSUME pc' = "updateRef"
               PROVE  /\ rollback'.from = log /\ rollback'.to \in Seq(Commit)
                      /\ Before(attempt, log) \subseteq CommittedOf(rollback'.to)
                      /\ CommittedOf(rollback'.to) \subseteq Before(attempt, log) \cup doubtful
                      /\ OfUser(rollback'.to) = OfUser(log)
                      /\ UpTo(attempt, rollback'.to)
    OBVIOUS
  <2>1. OwnSuffix(log) # {} /\ rollback' = [from |-> log, to |-> WithoutOwn(log)]
    OBVIOUS
  <2> QED BY <1>1, <2>1, RolledBack
<1>5. Typed'
  BY <1>3 DEF IInv, Typed, TypeOK, Guarded
<1>6. Attempted'
  BY <1>3, <1>4 DEF IInv, Attempted
<1>7. Prepared'
  BY DEF IInv, Prepared
<1>8. Recorded'
  BY DEF IInv, Recorded
<1>9. Resting'
  BY <1>1, <1>2, <1>3 DEF Resting, Fits
<1>10. IndexFollowsHead'
  BY DEF IInv, Recorded, IndexFollowsHead
<1>11. OutcomeIsTrue'
  BY <1>3 DEF IInv, OutcomeIsTrue
<1> QED BY <1>5, <1>6, <1>7, <1>8, <1>9, <1>10, <1>11 DEF IInv

LEMMA UpdateRefIInv ==
  ASSUME IInv, UpdateRef
  PROVE  IInv' /\ OfUser(log') = OfUser(log)
<1> USE JournalsAssumption, BoundsAssumption
    DEF UpdateRef, Step, NoLock, disk, run, history, Attempting, Untouched, Locked,
        Noted, Settled, Committed, Agree
<1>1. /\ log \in Seq(Commit) /\ attempt \in Nat \ {0}
      /\ group \in Groups /\ group \notin Before(attempt, log)
      /\ Agree(index.groups, staged \cup Before(attempt, log)) /\ told[group] = "none"
      /\ \A g \in Groups : told[g] = "committed" => g \in Before(attempt, log)
      /\ rollback.to \in Seq(Commit) /\ UpTo(attempt, rollback.to)
      /\ Before(attempt, rollback.from) \subseteq CommittedOf(rollback.to)
      /\ CommittedOf(rollback.to) \subseteq Before(attempt, rollback.from) \cup doubtful
      /\ OfUser(rollback.to) = OfUser(rollback.from)
  BY DEF IInv, Typed, TypeOK, Attempted, Prepared
<1>2. CASE log = rollback.from
  <2>1. /\ log' = rollback.to /\ pc' = "clear" /\ told' = told
        /\ Before(attempt, log) \subseteq CommittedOf(log')
        /\ CommittedOf(log') \subseteq Before(attempt, log) \cup doubtful
    BY <1>1, <1>2
  <2>2. Before(attempt, log) \subseteq CommittedOf(log)
    BY DEF Before, CommittedOf
  <2>3. Typed'
    BY <1>1, <2>1 DEF IInv, Typed, TypeOK, Guarded
  <2>4. Attempted' /\ Prepared'
    BY <2>1 DEF Attempted, Prepared
  <2>5. Recorded'
    BY <2>1 DEF IInv, Recorded
  <2>6. Fits'
    BY <1>1, <2>1 DEF Fits, Agree
  <2>7. Resting'
    BY <1>1, <2>1, <2>6 DEF Resting
  <2>8. IndexFollowsHead'
    BY <2>6 DEF Fits, IndexFollowsHead
  <2>9. OutcomeIsTrue'
    BY <1>1, <2>1, <2>2 DEF IInv, OutcomeIsTrue
  <2> QED BY <1>1, <1>2, <2>1, <2>3, <2>4, <2>5, <2>7, <2>8, <2>9 DEF IInv
<1>3. CASE log # rollback.from
  <2>1. /\ log' = log /\ pc' = "unlock"
        /\ told' \in [Groups -> {"none", "committed", "failed", "unsafe"}]
        /\ \A g \in Groups : told'[g] = IF g = group THEN "unsafe" ELSE told[g]
    BY <1>1, <1>3 DEF IInv, Typed, TypeOK
  <2>2. Typed'
    BY <2>1 DEF IInv, Typed, TypeOK, Guarded
  <2>3. Attempted' /\ Prepared'
    BY <2>1 DEF Attempted, Prepared
  <2>4. Recorded'
    BY <2>1 DEF IInv, Recorded
  <2>5. Resting'
    BY <1>1, <2>1 DEF Resting
  <2>6. IndexFollowsHead'
    BY DEF IInv, Recorded, IndexFollowsHead
  <2>7. OutcomeIsTrue'
    BY <2>1 DEF IInv, OutcomeIsTrue
  <2> QED BY <2>1, <2>2, <2>3, <2>4, <2>5, <2>6, <2>7 DEF IInv
<1> QED BY <1>2, <1>3

LEMMA RecoverCommittedIInv ==
  ASSUME IInv, RecoverCommitted
  PROVE  IInv' /\ index'.user = index.user
<1> USE JournalsAssumption, BoundsAssumption
    DEF RecoverCommitted, Recognised, Readable, OwnsLock, Step, NoLock, disk, run, history,
        Attempting, Untouched, Locked, Noted, Settled, Committed, Agree
<1>1. /\ journal \in Journals /\ journal.original \in Index /\ journal.tree \in Groups
      /\ journal.prepared = With(journal.original, journal.tree)
      /\ Agree(journal.original.groups, staged \cup CommittedOf(journal.head))
      /\ log = Append(journal.head, [action |-> journal.action, what |-> journal.tree])
      /\ journal.head \in Seq(Commit) /\ journal.action \in 1 .. MaxAttempts
  BY DEF IInv, Typed, TypeOK, Recorded, Journals
<1>2. index' = journal.prepared /\ index \in {journal.original, journal.prepared}
  OBVIOUS
<1>3. /\ index' \in Index /\ index'.groups = journal.original.groups \cup {journal.tree}
      /\ index'.user = index.user /\ index.groups \subseteq index'.groups
  BY <1>1, <1>2, WithTyped
<1>4. CommittedOf(log) = CommittedOf(journal.head) \cup {journal.tree}
  <2> DEFINE c == [action |-> journal.action, what |-> journal.tree]
             s == journal.head
  <2>1. c \in Commit /\ c.action # User /\ c.what = journal.tree /\ s \in Seq(Commit)
    BY <1>1 DEF Commit, Contents, User
  <2> HIDE DEF c, s
  <2>2. CommittedOf(Append(s, c)) = CommittedOf(s) \cup {c.what}
    <3> DEFINE new == Append(s, c)
    <3>1. /\ Len(s) \in Nat /\ \A i \in DOMAIN s : i \in DOMAIN new /\ new[i] = s[i]
          /\ \A i \in DOMAIN new : i \in DOMAIN s \/ (i = Len(s) + 1 /\ new[i] = c)
          /\ Len(s) + 1 \in DOMAIN new /\ new[Len(s) + 1] = c
      BY <2>1, AppendIndex
    <3> HIDE DEF new
    <3>2. \A x \in CommittedOf(new) : x \in CommittedOf(s) \cup {c.what}
      BY <3>1 DEF CommittedOf
    <3>3. \A x \in CommittedOf(s) : x \in CommittedOf(new)
      BY <3>1 DEF CommittedOf
    <3>4. c.what \in CommittedOf(new)
      BY <2>1, <3>1 DEF CommittedOf
    <3>5. CommittedOf(new) = CommittedOf(s) \cup {c.what}
      BY <3>2, <3>3, <3>4
    <3> QED BY <3>5 DEF new
  <2> QED BY <1>1, <2>1, <2>2 DEF c, s
<1>5. Fits'
  BY <1>1, <1>3, <1>4 DEF Fits, Agree
<1>6. Typed'
  BY <1>3 DEF IInv, Typed, TypeOK, Guarded
<1>7. Attempted' /\ Prepared'
  BY DEF Attempted, Prepared
<1>8. Recorded'
  BY DEF IInv, Recorded
<1>9. Resting'
  BY <1>5 DEF Resting
<1>10. IndexFollowsHead'
  BY <1>5 DEF Fits, IndexFollowsHead
<1>11. OutcomeIsTrue'
  BY <1>3 DEF IInv, OutcomeIsTrue
<1> QED BY <1>3, <1>6, <1>7, <1>8, <1>9, <1>10, <1>11 DEF IInv

LEMMA UserMovesBranchIInv ==
  ASSUME IInv, ByUser, foreign' \in 0 .. MaxForeign, UNCHANGED <<index, staged>>,
         lock' \in {lock, NoLock}, lock' # lock => lock.owner = "user",
         NEW c \in Commit, c.action = User, log' = Append(log, c)
  PROVE  IInv' /\ OfUser(log) \subseteq OfUser(log')
<1> USE JournalsAssumption, BoundsAssumption
    DEF ByUser, NoLock, run, Attempting, Untouched, Locked, Noted, Settled, Committed, Agree
<1>1. log \in Seq(Commit) /\ attempt \in Nat
  BY DEF IInv, Typed, TypeOK
<1>2. /\ log' \in Seq(Commit) /\ OfUser(log) \subseteq OfUser(log')
      /\ Before(attempt, log') = Before(attempt, log)
      /\ CommittedOf(log') = CommittedOf(log)
      /\ attempt # User /\ Without(attempt, log) => Without(attempt, log')
      /\ attempt # User => SplitOf(attempt, log') = SplitOf(attempt, log)
      /\ attempt # User /\ Single(attempt, group, log) => Single(attempt, group, log')
      /\ UpTo(attempt, log) => UpTo(attempt, log')
  BY <1>1, UserOnTop
<1>3. Typed'
  BY <1>2 DEF IInv, Typed, TypeOK, Guarded
<1>4. Attempted'
  BY <1>2 DEF IInv, Attempted, User
<1>5. Prepared'
  BY <1>2 DEF IInv, Prepared
<1>6. Recorded'
  BY <1>2 DEF IInv, Recorded
<1>7. Resting'
  BY <1>2 DEF IInv, Resting, Fits
<1>8. IndexFollowsHead'
  BY <1>2 DEF IInv, IndexFollowsHead
<1>9. OutcomeIsTrue'
  BY <1>2 DEF IInv, OutcomeIsTrue
<1> QED BY <1>2, <1>3, <1>4, <1>5, <1>6, <1>7, <1>8, <1>9 DEF IInv

\* The user changes the index only under a lock of his own: not in an attempt.
LEMMA UserChangesIndexIInv ==
  ASSUME IInv, ByUser, foreign' \in 0 .. MaxForeign, UNCHANGED <<log, staged>>,
         lock.owner = "user", lock' = NoLock,
         index' \in Index, index'.groups = index.groups
  PROVE  IInv'
<1> USE JournalsAssumption, BoundsAssumption
    DEF ByUser, NoLock, run, Attempting, Untouched, Locked, Noted, Settled, Committed, Agree
<1>1. pc \notin Attempting
  BY DEF IInv, Prepared
<1>2. Typed'
  BY DEF IInv, Typed, TypeOK, Guarded
<1>3. Attempted' /\ Prepared'
  BY <1>1 DEF Attempted, Prepared
<1>4. Recorded'
  BY <1>1 DEF IInv, Recorded
<1>5. Resting'
  BY DEF IInv, Resting, Fits
<1>6. IndexFollowsHead'
  BY DEF IInv, IndexFollowsHead
<1>7. OutcomeIsTrue'
  BY DEF IInv, OutcomeIsTrue
<1> QED BY <1>2, <1>3, <1>4, <1>5, <1>6, <1>7 DEF IInv

LEMMA UserStepIInv ==
  ASSUME IInv, UserStep
  PROVE  IInv' /\ OfUser(log) \subseteq OfUser(log') /\ index.user \subseteq index'.user
<1> DEFINE c == [action |-> User, what |-> foreign']
<1>1. foreign \in 0 .. MaxForeign /\ MaxForeign \in Nat /\ MaxAttempts \in Nat /\ index \in Index
  BY BoundsAssumption DEF IInv, Typed, TypeOK
<1>2. Moves => foreign' \in 1 .. MaxForeign
  BY <1>1 DEF Moves
<1>3. Moves => c \in Commit /\ c.action = User
  BY <1>1, <1>2 DEF Commit, Contents, User
<1> HIDE DEF c
<1>4. CASE UserMovesBranch
  BY <1>2, <1>3, <1>4, UserMovesBranchIInv DEF UserMovesBranch, ByUser, c
<1>5. CASE UserLocks
  BY <1>5, PlainIInv DEF UserLocks
<1>6. CASE UserRemovesStaleLock
  BY <1>6, PlainIInv DEF UserRemovesStaleLock
<1>7. CASE UserUnlocks
  <2>1. ByUser /\ lock.owner = "user" /\ lock' = NoLock /\ UNCHANGED staged
    BY <1>7 DEF UserUnlocks, ByUser
  <2>2. CASE Moves /\ log' = Append(log, c) /\ UNCHANGED index
    BY <1>2, <1>3, <2>1, <2>2, UserMovesBranchIInv
  <2>3. CASE Moves /\ index' = [index EXCEPT !.user = @ \cup {foreign'}] /\ UNCHANGED log
    <3>1. index' \in Index /\ index'.groups = index.groups /\ index.user \subseteq index'.user
      BY <1>1, <1>2, <2>3 DEF Index
    <3> QED BY <1>2, <2>1, <2>3, <3>1, UserChangesIndexIInv
  <2>4. CASE Moves /\ index' = [index EXCEPT !.stat = foreign'] /\ UNCHANGED log
    <3>1. index' \in Index /\ index'.groups = index.groups /\ index.user \subseteq index'.user
      BY <1>1, <1>2, <2>4 DEF Index
    <3> QED BY <1>2, <2>1, <2>4, <3>1, UserChangesIndexIInv
  <2>5. CASE UNCHANGED <<log, index, foreign>>
    BY <1>1, <2>1, <2>5, UserChangesIndexIInv
  <2> QED BY <1>7, <2>2, <2>3, <2>4, <2>5 DEF UserUnlocks, c
<1> QED BY <1>4, <1>5, <1>6, <1>7 DEF UserStep

-----------------------------------------------------------------------------
(***************************************************************************)
(* The invariant and what follows from it.                                 *)
(***************************************************************************)
LEMMA InitIInv ==
  ASSUME Init
  PROVE  IInv
<1> USE JournalsAssumption, BoundsAssumption
    DEF Init, Attempting, Untouched, Locked, Noted, Settled
<1>1. log = <<>> /\ DOMAIN log = {} /\ log \in Seq(Commit)
  BY EmptySeq
<1>2. Committed = {} /\ UpTo(attempt, log)
  BY <1>1 DEF Committed, CommittedOf, UpTo
<1>3. 0 \in 0 .. MaxForeign /\ 0 \in 0 .. MaxAttempts
  OBVIOUS
<1>4. staged \subseteq Groups
  BY GroupsAssumption
<1>5. Typed
  BY <1>1, <1>2, <1>3, <1>4 DEF Typed, TypeOK, Index, NoLock
<1>6. Attempted /\ Prepared /\ Resting
  BY DEF Attempted, Prepared, Resting
<1>7. Recorded
  BY DEF Recorded
<1>8. IndexFollowsHead /\ OutcomeIsTrue
  BY <1>2 DEF IndexFollowsHead, OutcomeIsTrue
<1> QED BY <1>5, <1>6, <1>7, <1>8 DEF IInv

LEMMA StutterIInv ==
  ASSUME IInv, UNCHANGED vars
  PROVE  IInv'
<1> USE DEF vars, disk, run, history, Committed, Agree
<1>1. Typed'
  BY DEF IInv, Typed, TypeOK
<1>2. Attempted'
  BY DEF IInv, Attempted
<1>3. Prepared' /\ Recorded'
  BY DEF IInv, Prepared, Recorded
<1>4. Resting'
  BY DEF IInv, Resting, Fits
<1>5. IndexFollowsHead' /\ OutcomeIsTrue'
  BY DEF IInv, IndexFollowsHead, OutcomeIsTrue
<1> QED BY <1>1, <1>2, <1>3, <1>4, <1>5 DEF IInv

LEMMA NextIInv ==
  ASSUME IInv, [Next]_vars
  PROVE  IInv'
<1>1. CASE Capture \/ EndRun
  BY <1>1, PlainIInv
<1>2. CASE Publish
  BY <1>2, PlainIInv, BeginIInv, SeedIInv, PrepareIInv, WriteJournalIInv, GitCommitIInv,
     VerifyIInv, PromoteIInv, ReadRollbackIInv, UpdateRefIInv DEF Publish
<1>3. CASE GitCommitsWithHooks \/ GitFails
  BY <1>3, GitCommitIInv
<1>8. CASE ReadFailsUnborn
  BY <1>8, ReadFailsUnbornIInv
<1>4. CASE Error \/ Crash \/ Restart
  BY <1>4, ErrorIInv, PlainIInv
<1>5. CASE Recover
  BY <1>5, RecoverUncommittedIInv, RecoverCommittedIInv, PlainIInv DEF Recover
<1>6. CASE UserStep
  BY <1>6, UserStepIInv
<1>7. CASE UNCHANGED vars
  BY <1>7, StutterIInv
<1> QED BY <1>1, <1>2, <1>3, <1>4, <1>5, <1>6, <1>7, <1>8 DEF Next

LEMMA Invariant == Spec => []IInv
<1>1. Init => IInv
  BY InitIInv
<1>2. IInv /\ [Next]_vars => IInv'
  BY NextIInv
<1> QED BY <1>1, <1>2, PTL DEF Spec

LEMMA PromoteKeepsStaged ==
  ASSUME IInv, Promote
  PROVE  log' = log /\ index'.user = index.user
<1>1. /\ index \in Index /\ group \in Groups /\ lock.index = With(index, group)
      /\ index' = lock.index /\ log' = log
  BY DEF Promote, Step, IInv, Typed, TypeOK, Attempted, Prepared, Attempting, Locked
<1> QED BY <1>1, WithTyped

\* The state is always one the disk and the program can be in.
THEOREM TypeCorrect == Spec => []TypeOK
BY Invariant, PTL DEF IInv, Typed

\* Unless a journal says otherwise, the index holds exactly what the program
\* committed next to what the user had staged: publishBatch() never leaves a
\* commit without its index, nor an index without its commit.
THEOREM IndexNeverLags == Spec => []IndexFollowsHead
BY Invariant, PTL DEF IInv

\* A group publishBatch() reports as committed is on the branch and in the
\* index, one it reports as failed is not on the branch.
THEOREM OutcomesAreTrue == Spec => []OutcomeIsTrue
BY Invariant, PTL DEF IInv

\* No commit, promotion, rollback or recovery of the program takes a commit of
\* the user off the branch or what the user staged out of the index.
THEOREM UserWorkIsKept == Spec => ForeignWorkIsKept
<1> DEFINE Kept == OfUser(log) \subseteq OfUser(log') /\ index.user \subseteq index'.user
<1>1. ASSUME IInv, Next PROVE Kept
  <2> USE DEF Step, disk
  <2>1. CASE Capture \/ EndRun
    BY <2>1 DEF Capture, EndRun
  <2>2. CASE Publish
    <3>1. CASE Captured \/ Begin \/ Seed \/ Prepare \/ WriteJournal
      BY <3>1 DEF Captured, Begin, Seed, Prepare, WriteJournal
    <3>2. CASE GitCommits \/ HookCommits
      BY <1>1, <3>2, GitCommitIInv
    <3>3. CASE Promote
      BY <1>1, <3>3, PromoteKeepsStaged
    <3>4. CASE UpdateRef
      BY <1>1, <3>4, UpdateRefIInv DEF UpdateRef
    <3>5. CASE Verify \/ ReadRollback \/ Clear \/ Unlock
      BY <3>5 DEF Verify, ReadRollback, Clear, Unlock
    <3> QED BY <2>2, <3>1, <3>2, <3>3, <3>4, <3>5 DEF Publish
  <2>3. CASE GitCommitsWithHooks \/ GitFails
    BY <1>1, <2>3, GitCommitIInv
  <2>4. CASE Error \/ ReadFailsUnborn \/ Crash \/ Restart
    BY <2>4 DEF Error, ReadFailsUnborn, Crash, Restart
  <2>5. CASE Recover
    <3>1. CASE RecoverUncommitted \/ RecoverClear
      BY <3>1 DEF RecoverUncommitted, RecoverClear
    <3>2. CASE RecoverCommitted
      BY <1>1, <3>2, RecoverCommittedIInv DEF RecoverCommitted
    <3> QED BY <2>5, <3>1, <3>2 DEF Recover
  <2>6. CASE UserStep
    BY <1>1, <2>6, UserStepIInv
  <2> QED BY <1>1, <2>1, <2>2, <2>3, <2>4, <2>5, <2>6 DEF Next
<1>2. ASSUME IInv, [Next]_vars
      PROVE  [UserCommits \subseteq UserCommits' /\ index.user \subseteq index'.user]_vars
  BY <1>1, <1>2 DEF UserCommits, OfUser
<1> QED BY <1>2, Invariant, PTL DEF Spec, ForeignWorkIsKept

=============================================================================
