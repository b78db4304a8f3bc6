------------------------ MODULE BranchChange_proofs ------------------------
(***************************************************************************)
(* Proofs, for any sessions, changes, branches and bounds, that switching  *)
(* branches with local changes loses nothing, keeps every stash it made in *)
(* the journal, reports what happened, applies no stash twice unseen and   *)
(* drops no stash but its own.                                             *)
(*                                                                         *)
(* What the service promises about a backup needs QuietRemoval, as the     *)
(* code says itself: "stash drop" takes an index, so between the last      *)
(* comparison and the command nobody may renumber the stack.               *)
(***************************************************************************)
EXTENDS BranchChange, FiniteSetTheorems, SequenceTheorems, TLAPS

-----------------------------------------------------------------------------
(***************************************************************************)
(* Stacks: what is in a stack after one entry was pushed or removed.       *)
(***************************************************************************)

\* A session has one stash.
OneStash(st) ==
  \A i, j \in DOMAIN st : st[i].session = st[j].session /\ st[i].session # None => i = j

\* The stash of session s holds x.
SavedAs(s, x, st) == \A i \in Own(s, st) : st[i].saved = x

\* What is kept apart from the stash of session s.
Elsewhere(s, w, st) == w \cup UNION {st[i].saved : i \in DOMAIN st \ Own(s, st)}

\* The stashes of sessions are marked with 0, those of others are few.
Marked(st) == \A i \in DOMAIN st : st[i].session # None => st[i].object = 0
FewForeign(st) == Cardinality(Own(None, st)) <= MaxForeign

LEMMA PushedEntries ==
  ASSUME NEW st \in Seq(Entries), NEW e \in Entries
  PROVE  LET new == <<e>> \o st IN
         /\ new \in Seq(Entries)
         /\ Len(new) = Len(st) + 1
         /\ DOMAIN st = 1 .. Len(st) /\ DOMAIN new = 1 .. Len(st) + 1
         /\ new[1] = e
         /\ \A k \in 1 .. Len(st) : new[k + 1] = st[k]
  BY SMT

LEMMA PushedIndex ==
  ASSUME NEW st \in Seq(Entries), NEW e \in Entries,
         NEW new, new = <<e>> \o st
  PROVE  /\ new[1] = e /\ 1 \in DOMAIN new
         /\ \A k \in DOMAIN new : k = 1 \/ (k - 1 \in DOMAIN st /\ new[k] = st[k - 1])
         /\ \A k \in DOMAIN st : k + 1 \in DOMAIN new /\ new[k + 1] = st[k]
<1> DEFINE n == Len(st)
<1>1. /\ new \in Seq(Entries) /\ n \in Nat
      /\ DOMAIN st = 1 .. n /\ DOMAIN new = 1 .. n + 1
      /\ new[1] = e
      /\ \A k \in 1 .. n : new[k + 1] = st[k]
  BY PushedEntries
<1>2. \A k \in DOMAIN new : k = 1 \/ (k - 1 \in DOMAIN st /\ new[k] = st[k - 1])
  <2> SUFFICES ASSUME NEW k \in DOMAIN new, k # 1
               PROVE  k - 1 \in DOMAIN st /\ new[k] = st[k - 1]
    OBVIOUS
  <2>1. k - 1 \in 1 .. n /\ (k - 1) + 1 = k
    BY <1>1
  <2> QED BY <2>1, <1>1
<1>3. \A k \in DOMAIN st : k + 1 \in DOMAIN new /\ new[k + 1] = st[k]
  BY <1>1
<1>4. 1 \in DOMAIN new
  BY <1>1
<1> QED BY <1>1, <1>2, <1>3, <1>4

LEMMA PushedStack ==
  ASSUME NEW st \in Seq(Entries), NEW e \in Entries,
         NEW new, new = <<e>> \o st
  PROVE  /\ new \in Seq(Entries)
         /\ Own(e.session, new) # {}
         /\ \A s : s # e.session => (Own(s, new) = {} <=> Own(s, st) = {})
         /\ OneStash(st) /\ (e.session # None => Own(e.session, st) = {}) => OneStash(new)
         /\ Marked(st) /\ (e.session # None => e.object = 0) => Marked(new)
         /\ \A s, x : s # e.session /\ SavedAs(s, x, st) => SavedAs(s, x, new)
<1>1. /\ new[1] = e /\ 1 \in DOMAIN new
      /\ \A k \in DOMAIN new : k = 1 \/ (k - 1 \in DOMAIN st /\ new[k] = st[k - 1])
      /\ \A k \in DOMAIN st : k + 1 \in DOMAIN new /\ new[k + 1] = st[k]
  BY PushedIndex
<1>2. Own(e.session, new) # {}
  BY <1>1 DEF Own
<1>3. ASSUME NEW s, s # e.session
      PROVE  Own(s, new) = {} <=> Own(s, st) = {}
  <2>1. \A k \in Own(s, new) : k - 1 \in Own(s, st)
    BY <1>1, <1>3 DEF Own
  <2>2. \A k \in Own(s, st) : k + 1 \in Own(s, new)
    BY <1>1 DEF Own
  <2> QED BY <2>1, <2>2
<1>4. OneStash(st) /\ (e.session # None => Own(e.session, st) = {}) => OneStash(new)
  BY <1>1 DEF OneStash, Own
<1>5. Marked(st) /\ (e.session # None => e.object = 0) => Marked(new)
  BY <1>1 DEF Marked
<1>6. ASSUME NEW s, NEW x, s # e.session, SavedAs(s, x, st)
      PROVE  SavedAs(s, x, new)
  BY <1>1, <1>6 DEF SavedAs, Own
<1> QED BY <1>1, <1>2, <1>3, <1>4, <1>5, <1>6

LEMMA PushedKept ==
  ASSUME NEW st \in Seq(Entries), NEW e \in Entries,
         NEW new, new = <<e>> \o st, NEW w
  PROVE  Kept(w, new) = Kept(w, st) \cup e.saved
<1>1. /\ new[1] = e /\ 1 \in DOMAIN new
      /\ \A k \in DOMAIN new : k = 1 \/ (k - 1 \in DOMAIN st /\ new[k] = st[k - 1])
      /\ \A k \in DOMAIN st : k + 1 \in DOMAIN new /\ new[k + 1] = st[k]
  BY PushedIndex
<1>2. \A x \in Kept(w, new) : x \in Kept(w, st) \cup e.saved
  BY <1>1 DEF Kept
<1>3. \A x \in Kept(w, st) : x \in Kept(w, new)
  BY <1>1 DEF Kept
<1>4. \A x \in e.saved : x \in Kept(w, new)
  BY <1>1 DEF Kept
<1> QED BY <1>2, <1>3, <1>4

LEMMA PushedElsewhere ==
  ASSUME NEW st \in Seq(Entries), NEW e \in Entries,
         NEW new, new = <<e>> \o st, NEW w, NEW s, s # e.session
  PROVE  /\ Elsewhere(s, w, st) \subseteq Elsewhere(s, w, new)
         /\ e.saved \subseteq Elsewhere(s, w, new)
<1>1. /\ new[1] = e /\ 1 \in DOMAIN new
      /\ \A k \in DOMAIN st : k + 1 \in DOMAIN new /\ new[k + 1] = st[k]
  BY PushedIndex
<1>2. \A k \in DOMAIN st \ Own(s, st) : k + 1 \in DOMAIN new \ Own(s, new) /\ new[k + 1] = st[k]
  BY <1>1 DEF Own
<1>3. 1 \in DOMAIN new \ Own(s, new)
  BY <1>1 DEF Own
<1>4. Elsewhere(s, w, st) \subseteq Elsewhere(s, w, new)
  BY <1>2 DEF Elsewhere
<1>5. e.saved \subseteq Elsewhere(s, w, new)
  BY <1>1, <1>3 DEF Elsewhere
<1> QED BY <1>4, <1>5

LEMMA RemovedEntries ==
  ASSUME NEW st \in Seq(Entries), NEW i \in DOMAIN st
  PROVE  LET new == RemoveAt(st, i) IN
         /\ new \in Seq(Entries)
         /\ DOMAIN st = 1 .. Len(st) /\ DOMAIN new = 1 .. Len(st) - 1
         /\ \A k \in 1 .. Len(st) - 1 : new[k] = IF k < i THEN st[k] ELSE st[k + 1]
<1> DEFINE n == Len(st)
           front == SubSeq(st, 1, i - 1)
           back == SubSeq(st, i + 1, n)
<1>1. n \in Nat /\ i \in 1 .. n /\ DOMAIN st = 1 .. n
  BY LenProperties
<1>2. /\ front \in Seq(Entries) /\ Len(front) = i - 1
      /\ \A k \in 1 .. i - 1 : front[k] = st[k]
  BY <1>1, SubSeqProperties
<1>3. /\ back \in Seq(Entries) /\ Len(back) = n - i
      /\ \A k \in 1 .. n - i : back[k] = st[i + k]
  BY <1>1, SubSeqProperties
<1>4. RemoveAt(st, i) = front \o back
  BY DEF RemoveAt
<1> HIDE DEF front, back, n
<1>5. /\ front \o back \in Seq(Entries) /\ Len(front \o back) = n - 1
      /\ DOMAIN (front \o back) = 1 .. n - 1
  BY <1>1, <1>2, <1>3
<1>6. ASSUME NEW k \in 1 .. n - 1
      PROVE  (front \o back)[k] = IF k < i THEN st[k] ELSE st[k + 1]
  <2>1. CASE k < i
    <3>1. k \in 1 .. i - 1
      BY <2>1, <1>1
    <3>2. (front \o back)[k] = front[k]
      BY <3>1, <1>2, <1>3
    <3> QED BY <2>1, <3>1, <3>2, <1>2
  <2>2. CASE ~(k < i)
    <3>1. k - (i - 1) \in 1 .. n - i /\ i + (k - (i - 1)) = k + 1
      BY <2>2, <1>1
    <3>2. (front \o back)[k] = back[k - (i - 1)]
      <4>1. \A j \in 1 .. Len(front) + Len(back) :
               (front \o back)[j] = IF j <= Len(front) THEN front[j] ELSE back[j - Len(front)]
        BY <1>2, <1>3, ConcatProperties
      <4>2. k \in 1 .. (i - 1) + (n - i) /\ ~(k <= i - 1)
        BY <2>2, <1>1
      <4> QED BY <4>1, <4>2, <1>2, <1>3
    <3> QED BY <2>2, <3>1, <3>2, <1>3
  <2> QED BY <2>1, <2>2
<1> QED BY <1>1, <1>4, <1>5, <1>6 DEF n

LEMMA RemovedStack ==
  ASSUME NEW st \in Seq(Entries), NEW i \in DOMAIN st,
         NEW new, new = RemoveAt(st, i)
  PROVE  /\ new \in Seq(Entries)
         /\ OneStash(st) => OneStash(new)
         /\ Marked(st) => Marked(new)
         /\ \A s : Own(s, st) = {} => Own(s, new) = {}
         /\ \A s : s # st[i].session /\ Own(s, st) # {} => Own(s, new) # {}
         /\ OneStash(st) /\ st[i].session # None => Own(st[i].session, new) = {}
         /\ \A s, x : SavedAs(s, x, st) => SavedAs(s, x, new)
<1> DEFINE n == Len(st)
           old(k) == IF k < i THEN k ELSE k + 1
<1>1. /\ new \in Seq(Entries) /\ n \in Nat
      /\ DOMAIN st = 1 .. n /\ DOMAIN new = 1 .. n - 1 /\ i \in 1 .. n
      /\ \A k \in 1 .. n - 1 : new[k] = IF k < i THEN st[k] ELSE st[k + 1]
  BY RemovedEntries
<1>2. \A k \in DOMAIN new : old(k) \in DOMAIN st \ {i} /\ new[k] = st[old(k)]
  BY <1>1
<1>3. \A m \in DOMAIN st \ {i} : \E k \in DOMAIN new : old(k) = m
  <2> SUFFICES ASSUME NEW m \in DOMAIN st \ {i}
               PROVE  \E k \in DOMAIN new : old(k) = m
    OBVIOUS
  <2>1. CASE m < i
    BY <2>1, <1>1
  <2>2. CASE m > i
    <3>1. m - 1 \in DOMAIN new /\ old(m - 1) = m
      BY <2>2, <1>1
    <3> QED BY <3>1
  <2> QED BY <2>1, <2>2, <1>1
<1>4. \A j, k \in DOMAIN new : old(j) = old(k) => j = k
  BY <1>1
<1> HIDE DEF n, old
<1>5. OneStash(st) => OneStash(new)
  BY <1>2, <1>4 DEF OneStash
<1>6. Marked(st) => Marked(new)
  BY <1>2 DEF Marked
<1>7. ASSUME NEW s, Own(s, st) = {} PROVE Own(s, new) = {}
  BY <1>2, <1>7 DEF Own
<1>8. ASSUME NEW s, s # st[i].session, Own(s, st) # {} PROVE Own(s, new) # {}
  BY <1>2, <1>3, <1>8 DEF Own
<1>9. OneStash(st) /\ st[i].session # None => Own(st[i].session, new) = {}
  BY <1>2 DEF Own, OneStash
<1>10. ASSUME NEW s, NEW x, SavedAs(s, x, st) PROVE SavedAs(s, x, new)
  BY <1>2, <1>10 DEF SavedAs, Own
<1> QED BY <1>1, <1>5, <1>6, <1>7, <1>8, <1>9, <1>10

LEMMA RemovedKept ==
  ASSUME NEW st \in Seq(Entries), NEW i \in DOMAIN st,
         NEW new, new = RemoveAt(st, i), NEW w
  PROVE  /\ Kept(w, new) \subseteq Kept(w, st)
         /\ Kept(w, st) \subseteq Kept(w, new) \cup st[i].saved
         /\ OneStash(st) /\ st[i].session # None =>
              Elsewhere(st[i].session, w, st) \subseteq Kept(w, new)
         /\ \A s : Elsewhere(s, w, st) \subseteq Elsewhere(s, w, new) \cup st[i].saved
<1> DEFINE n == Len(st)
           old(k) == IF k < i THEN k ELSE k + 1
<1>1. /\ new \in Seq(Entries) /\ n \in Nat
      /\ DOMAIN st = 1 .. n /\ DOMAIN new = 1 .. n - 1 /\ i \in 1 .. n
      /\ \A k \in 1 .. n - 1 : new[k] = IF k < i THEN st[k] ELSE st[k + 1]
  BY RemovedEntries
<1>2. \A k \in DOMAIN new : old(k) \in DOMAIN st \ {i} /\ new[k] = st[old(k)]
  BY <1>1
<1>3. \A m \in DOMAIN st \ {i} : \E k \in DOMAIN new : old(k) = m
  <2> SUFFICES ASSUME NEW m \in DOMAIN st \ {i}
               PROVE  \E k \in DOMAIN new : old(k) = m
    OBVIOUS
  <2>1. CASE m < i
    BY <2>1, <1>1
  <2>2. CASE m > i
    <3>1. m - 1 \in DOMAIN new /\ old(m - 1) = m
      BY <2>2, <1>1
    <3> QED BY <3>1
  <2> QED BY <2>1, <2>2, <1>1
<1> HIDE DEF n, old
<1>4. /\ Kept(w, new) \subseteq Kept(w, st)
      /\ Kept(w, st) \subseteq Kept(w, new) \cup st[i].saved
  BY <1>2, <1>3 DEF Kept
<1>5. ASSUME OneStash(st), st[i].session # None
      PROVE  Elsewhere(st[i].session, w, st) \subseteq Kept(w, new)
  BY <1>2, <1>3, <1>5 DEF Kept, Elsewhere, Own, OneStash
<1>6. ASSUME NEW s
      PROVE  Elsewhere(s, w, st) \subseteq Elsewhere(s, w, new) \cup st[i].saved
  BY <1>2, <1>3 DEF Elsewhere, Own
<1> QED BY <1>4, <1>5, <1>6

\* Few stashes of others, and so a free number for the next one.
LEMMA OwnIsFinite ==
  ASSUME NEW st \in Seq(Entries)
  PROVE  IsFiniteSet(Own(None, st)) /\ Cardinality(Own(None, st)) \in Nat
<1>1. Own(None, st) \subseteq 1 .. Len(st) /\ Len(st) \in Nat
  BY LenProperties DEF Own
<1>2. IsFiniteSet(1 .. Len(st))
  BY <1>1, FS_Interval
<1> QED BY <1>1, <1>2, FS_Subset, FS_CardinalityType

LEMMA PushedForeign ==
  ASSUME NEW st \in Seq(Entries), NEW e \in Entries, NEW new, new = <<e>> \o st, FewForeign(st),
         e.session # None \/ Cardinality(Own(None, st)) < MaxForeign
  PROVE  FewForeign(new)
<1> DEFINE rest == Own(None, new) \ {1}
           f == [k \in rest |-> k - 1]
<1>1. /\ DOMAIN st = 1 .. Len(st) /\ DOMAIN new = 1 .. Len(st) + 1 /\ Len(st) \in Nat
      /\ new \in Seq(Entries) /\ new[1] = e
      /\ \A k \in 1 .. Len(st) : new[k + 1] = st[k]
  BY PushedEntries
<1>2. \A k \in rest : k \in Nat /\ k - 1 \in Own(None, st)
  <2> SUFFICES ASSUME NEW k \in rest PROVE k \in Nat /\ k - 1 \in Own(None, st)
    OBVIOUS
  <2>1. k - 1 \in 1 .. Len(st) /\ (k - 1) + 1 = k /\ k \in Nat
    BY <1>1 DEF Own
  <2> QED BY <2>1, <1>1 DEF Own
<1>3. f \in Injection(rest, Own(None, st))
  BY <1>2 DEF Injection, IsInjective
<1>4. IsFiniteSet(rest) /\ Cardinality(rest) <= Cardinality(Own(None, st)) /\ Cardinality(rest) \in Nat
  BY <1>3, OwnIsFinite, FS_Injection, FS_CardinalityType
<1> HIDE DEF f
<1>5. CASE e.session # None
  <2>1. rest = Own(None, new)
    BY <1>1, <1>5 DEF Own
  <2>2. Cardinality(Own(None, new)) <= Cardinality(Own(None, st))
    BY <2>1, <1>4
  <2>3. /\ Cardinality(Own(None, new)) \in Nat /\ Cardinality(Own(None, st)) \in Nat
        /\ MaxForeign \in Nat
    BY <1>1, OwnIsFinite, BoundAssumption
  <2> QED BY <2>2, <2>3 DEF FewForeign
<1>6. CASE Cardinality(Own(None, st)) < MaxForeign
  <2>1. Own(None, new) \subseteq rest \cup {1}
    OBVIOUS
  <2>2. Cardinality(rest \cup {1}) <= Cardinality(rest) + 1 /\ IsFiniteSet(rest \cup {1})
    <3> DEFINE r == rest
    <3>1. IsFiniteSet(r) /\ 1 \notin r
      BY <1>4
    <3> HIDE DEF r
    <3>2. IsFiniteSet(r \cup {1}) /\ Cardinality(r \cup {1}) = Cardinality(r) + 1
      BY <3>1, FS_AddElement
    <3>3. Cardinality(r) \in Nat
      BY <3>1, FS_CardinalityType
    <3> QED BY <3>2, <3>3 DEF r
  <2>3. Cardinality(Own(None, new)) <= Cardinality(rest \cup {1})
    BY <2>1, <2>2, FS_Subset
  <2>4. Cardinality(rest \cup {1}) \in Nat /\ Cardinality(Own(None, new)) \in Nat
    BY <2>2, <1>1, OwnIsFinite, FS_CardinalityType
  <2>5. MaxForeign \in Nat
    BY BoundAssumption
  <2> QED BY <2>2, <2>3, <2>4, <2>5, <1>4, <1>6, OwnIsFinite DEF FewForeign
<1> QED BY <1>5, <1>6

LEMMA RemovedForeign ==
  ASSUME NEW st \in Seq(Entries), NEW i \in DOMAIN st, NEW new, new = RemoveAt(st, i), FewForeign(st)
  PROVE  FewForeign(new)
<1> DEFINE f == [k \in Own(None, new) |-> IF k < i THEN k ELSE k + 1]
<1>1. /\ new \in Seq(Entries) /\ Len(st) \in Nat /\ i \in 1 .. Len(st)
      /\ DOMAIN st = 1 .. Len(st) /\ DOMAIN new = 1 .. Len(st) - 1
      /\ \A k \in 1 .. Len(st) - 1 : new[k] = IF k < i THEN st[k] ELSE st[k + 1]
  BY RemovedEntries, LenProperties
<1>2. \A k \in Own(None, new) : k \in 1 .. Len(st) - 1 /\ f[k] \in Own(None, st)
  BY <1>1 DEF Own
<1>3. \A j, k \in Own(None, new) : f[j] = f[k] => j = k
  BY <1>1, <1>2
<1>4. f \in Injection(Own(None, new), Own(None, st))
  BY <1>2, <1>3 DEF Injection, IsInjective
<1>5. Cardinality(Own(None, new)) <= Cardinality(Own(None, st))
  BY <1>4, OwnIsFinite, FS_Injection
<1>6. /\ Cardinality(Own(None, new)) \in Nat /\ Cardinality(Own(None, st)) \in Nat
      /\ MaxForeign \in Nat
  BY <1>1, OwnIsFinite, BoundAssumption
<1> QED BY <1>5, <1>6 DEF FewForeign

\* The objects in a stack are 0 and the few of others.
LEMMA FewObjects ==
  ASSUME NEW st \in Seq(Entries), Marked(st), FewForeign(st)
  PROVE  LET foreign == {st[i].object : i \in Own(None, st)} IN
         /\ IsFiniteSet(foreign) /\ Cardinality(foreign) \in Nat /\ Cardinality(foreign) <= MaxForeign
         /\ \A e \in Range(st) : e.object \in foreign \cup {0}
<1> DEFINE foreign == {st[i].object : i \in Own(None, st)}
           f == [i \in Own(None, st) |-> st[i].object]
<1>1. f \in Surjection(Own(None, st), foreign)
  BY DEF Surjection
<1>2. IsFiniteSet(foreign) /\ Cardinality(foreign) <= Cardinality(Own(None, st))
  BY <1>1, OwnIsFinite, FS_Surjection
<1>3. Cardinality(foreign) \in Nat
  BY <1>2, FS_CardinalityType
<1>4. \A e \in Range(st) : e.object \in foreign \cup {0}
  BY DEF Range, Marked, Own
<1>5. MaxForeign \in Nat
  BY BoundAssumption
<1> QED BY <1>2, <1>3, <1>4, <1>5, OwnIsFinite DEF FewForeign

LEMMA NewObjectExists ==
  ASSUME Marked(stack), Marked(op.stack), FewForeign(stack), FewForeign(op.stack),
         stack \in Seq(Entries), op.stack \in Seq(Entries)
  PROVE  NewObject \in 1 .. 2 * MaxForeign + 1
<1> DEFINE A == {stack[i].object : i \in Own(None, stack)}
           B == {op.stack[i].object : i \in Own(None, op.stack)}
           N == 1 .. 2 * MaxForeign + 1
<1>1. MaxForeign \in Nat
  BY BoundAssumption
<1>2. /\ IsFiniteSet(A) /\ Cardinality(A) \in Nat /\ Cardinality(A) <= MaxForeign
      /\ \A e \in Range(stack) : e.object \in A \cup {0}
  BY FewObjects
<1>3. /\ IsFiniteSet(B) /\ Cardinality(B) \in Nat /\ Cardinality(B) <= MaxForeign
      /\ \A e \in Range(op.stack) : e.object \in B \cup {0}
  BY FewObjects
<1>4. IsFiniteSet(N) /\ Cardinality(N) = 2 * MaxForeign + 1
  BY <1>1, FS_Interval
<1> HIDE DEF A, B
<1>5. IsFiniteSet(A \cup B) /\ Cardinality(A \cup B) <= 2 * MaxForeign /\ Cardinality(A \cup B) \in Nat
  <2>1. /\ IsFiniteSet(A \cup B)
        /\ Cardinality(A \cup B) = Cardinality(A) + Cardinality(B) - Cardinality(A \cap B)
    BY <1>2, <1>3, FS_Union
  <2>2. Cardinality(A \cap B) \in Nat
    BY <1>2, FS_Intersection, FS_CardinalityType
  <2> QED BY <2>1, <2>2, <1>1, <1>2, <1>3, FS_CardinalityType
<1>6. \E n \in N : n \notin A \cup B
  <2> SUFFICES ASSUME N \subseteq A \cup B PROVE FALSE
    OBVIOUS
  <2>1. Cardinality(N) <= Cardinality(A \cup B)
    BY <1>5, FS_Subset
  <2> QED BY <2>1, <1>1, <1>4, <1>5
<1>7. \A x \in ObjectsSeen : x \in A \cup B \cup {0}
  BY <1>2, <1>3 DEF ObjectsSeen
<1>8. \E n \in N : n \notin ObjectsSeen
  BY <1>1, <1>6, <1>7
<1> QED BY <1>8 DEF NewObject

-----------------------------------------------------------------------------
(***************************************************************************)
(* The inductive invariant: what is true at each step of an operation.     *)
(***************************************************************************)
Operations ==
  [pc : Steps, session : Sessions \cup {None}, carry : BOOLEAN, reviewed : BOOLEAN,
   target : Branches \cup {None}, from : Branches \cup {None}, saw : SUBSET Changes,
   phase : Phases, moved : BOOLEAN, switched : BOOLEAN, head : Branches \cup {None},
   stack : Seq(Entries), saved : SUBSET Changes, at : Nat]
Results ==
  [session : Sessions \cup {None}, thrown : BOOLEAN, switched : BOOLEAN,
   restored : BOOLEAN, moved : BOOLEAN]

Saving == {"prepare", "push", "record"}
Switching == {"check", "switch", "switched"}
Applying == {"ready", "apply"}
Removing == {"latest", "ref", "drop"}
AppliedSteps == {"conflict", "applied", "confirm"} \cup Removing
Backed == Switching \cup Applying \cup AppliedSteps   \* the stash is there

Typed ==
  /\ TypeOK
  /\ op \in Operations /\ result \in Results
  /\ \A p \in plans : p.session = None => p.target \in Branches

Stacked ==
  /\ OneStash(stack)
  /\ Marked(stack) /\ Marked(op.stack)
  /\ FewForeign(stack) /\ FewForeign(op.stack)

HasBackup(s) == s # None => Own(s, stack) # {} \/ s \in taken

\* What an operation knows of itself, ...
Operating ==
  /\ op.pc \notin Switching \cup {"idle"} => op.session \in Sessions
  /\ op.pc # "idle" => op.phase # "absent" /\ result = NoResult
  /\ op.pc \in {"prepare", "push", "record", "check", "switch"} => op.target \in Branches
  /\ op.pc # "catch" => (op.moved => op.switched)
  /\ op.pc \in Saving => ~op.moved

\* ... and of its stash.
Backing ==
  /\ op.pc \in {"prepare", "push"} => Own(op.session, stack) = {}
  /\ op.pc \in Backed => HasBackup(op.session)
  /\ op.pc = "catch" /\ op.moved => HasBackup(op.session)
  /\ op.pc \in Saving \cup Switching \cup {"catch"} => op.session \notin attempted
  /\ op.pc \in AppliedSteps \cup {"remove", "retain"} => op.session \in attempted
  /\ op.pc \in Applying /\ op.session \in attempted => op.reviewed
  /\ op.pc \in {"apply"} \cup AppliedSteps => SavedAs(op.session, op.saved, stack)

Journalled ==
  /\ \A s \in attempted : Own(s, stack) # {} => journal[s] \in Reviewed \cup {"absent"}
  /\ op.pc = "push" => journal[op.session] # "absent"
  /\ op.pc = "apply" => journal[op.session] = "applying"

\* What holds besides, if nobody disturbs the removal of a stash.
Undisturbed ==
  /\ op.pc = "remove" => Own(op.session, stack) = {}
  /\ op.pc \in Removing => op.saved \subseteq Elsewhere(op.session, work, stack)
  /\ op.pc = "drop" => op.at \in Own(op.session, stack)
  /\ ParkedIsListed
  /\ NothingLost

IInv ==
  /\ Typed /\ Stacked /\ Operating /\ Backing /\ Journalled /\ OutcomeIsTrue
  /\ QuietRemoval => Undisturbed

LEMMA EmptyStack == <<>> \in Seq(Entries) /\ Marked(<<>>) /\ FewForeign(<<>>)
<1>1. Own(None, <<>>) = {} /\ Cardinality({}) = 0
  BY FS_EmptySet DEF Own
<1>2. Marked(<<>>)
  BY DEF Marked
<1>3. FewForeign(<<>>)
  <2>1. MaxForeign \in Nat
    BY BoundAssumption
  <2>2. Cardinality(Own(None, <<>>)) = 0
    BY <1>1
  <2> QED BY <2>1, <2>2 DEF FewForeign
<1> QED BY <1>2, <1>3, EmptySeq

LEMMA EntryTyped ==
  ASSUME NEW st \in Seq(Entries), NEW i \in DOMAIN st
  PROVE  /\ i \in Nat /\ st[i] \in Entries
         /\ st[i].session \in Sessions \cup {None} /\ st[i].saved \in SUBSET Changes
<1>1. i \in 1 .. Len(st) /\ st[i] \in Entries
  BY LenProperties, ElementOfSeq
<1> QED BY <1>1 DEF Entries

LEMMA SaveKeepsListed ==
  ASSUME Typed, ParkedIsListed, NEW phase \in Phases \ {"absent"}, Save(phase), UNCHANGED stack
  PROVE  ParkedIsListed'
<1> SUFFICES ASSUME NEW i \in DOMAIN stack, stack[i].session # None
             PROVE  journal'[stack[i].session] # "absent"
  BY DEF ParkedIsListed
<1>1. stack[i].session \in Sessions /\ journal[stack[i].session] # "absent"
  BY EntryTyped DEF Typed, TypeOK, ParkedIsListed
<1> QED BY <1>1 DEF Save, Typed, TypeOK

\* The ways to leave a step that the actions have in common.
LEMMA ThrowIInv ==
  ASSUME IInv, op.pc # "idle", Throw,
         UNCHANGED <<repository, journal, plans, user, attempted>>, faults' \in 0 .. MaxFaults
  PROVE  IInv'
<1> USE NoneAssumption, BoundAssumption, EmptyStack
    DEF Operations, Results, Steps, Phases, Reviewed, At, Goto, Save, Return, Throw, Idle, NoResult, vars, repository, user,
           Saving, Switching, Applying, Removing, AppliedSteps, Backed, HasBackup
<1>1. Typed'
  BY DEF IInv, Typed, TypeOK, Operating
<1>2. Stacked'
  BY DEF IInv, Typed, TypeOK, Stacked
<1>3. Operating'
  BY DEF IInv, Typed, TypeOK, Operating
<1>4. Backing'
  BY DEF IInv, Typed, TypeOK, Operating, Backing, Journalled
<1>5. Journalled'
  BY DEF IInv, Typed, TypeOK, Operating, Backing, Journalled
<1>6. QuietRemoval => Undisturbed'
  BY DEF IInv, Typed, TypeOK, Operating, Backing, Journalled, Undisturbed, ParkedIsListed, NothingLost
<1>7. OutcomeIsTrue'
  BY DEF IInv, Typed, TypeOK, Operating, Backing, OutcomeIsTrue
<1> QED BY <1>1, <1>2, <1>3, <1>4, <1>5, <1>6, <1>7 DEF IInv

LEMMA CatchMoveIInv ==
  ASSUME IInv, op.pc \in Saving \cup Switching, op.session # None, Goto("catch"),
         UNCHANGED result, UNCHANGED <<repository, journal, plans, user, attempted>>, faults' \in 0 .. MaxFaults
  PROVE  IInv'
<1> USE NoneAssumption, BoundAssumption, EmptyStack
    DEF Operations, Results, Steps, Phases, Reviewed, At, Goto, Save, Return, Throw, Idle, NoResult, vars, repository, user,
           Saving, Switching, Applying, Removing, AppliedSteps, Backed, HasBackup
<1>1. Typed'
  BY DEF IInv, Typed, TypeOK, Operating
<1>2. Stacked'
  BY DEF IInv, Typed, TypeOK, Stacked
<1>3. Operating'
  BY DEF IInv, Typed, TypeOK, Operating
<1>4. Backing'
  BY DEF IInv, Typed, TypeOK, Operating, Backing, Journalled
<1>5. Journalled'
  BY DEF IInv, Typed, TypeOK, Operating, Backing, Journalled
<1>6. QuietRemoval => Undisturbed'
  BY DEF IInv, Typed, TypeOK, Operating, Backing, Journalled, Undisturbed, ParkedIsListed, NothingLost
<1>7. OutcomeIsTrue'
  BY DEF IInv, Typed, TypeOK, Operating, Backing, OutcomeIsTrue
<1> QED BY <1>1, <1>2, <1>3, <1>4, <1>5, <1>6, <1>7 DEF IInv

LEMMA TypedMove ==
  ASSUME Typed, op' \in Operations, op'.pc # "idle", branch' \in Branches, faults' \in 0 .. MaxFaults,
         UNCHANGED <<work, stack, journal, plans, result, made, taken, attempted>>
  PROVE  Typed'
<1>1. TypeOK'
  BY DEF Typed, TypeOK, Operations, Idle
<1> QED BY <1>1 DEF Typed

LEMMA RetainMoveIInv ==
  ASSUME IInv, op.pc \in {"confirm", "remove"} \cup Removing, Goto("retain"),
         UNCHANGED result, UNCHANGED <<repository, journal, plans, user, attempted>>, faults' \in 0 .. MaxFaults
  PROVE  IInv'
<1> USE NoneAssumption, BoundAssumption, EmptyStack
    DEF Operations, Results, Steps, Phases, Reviewed, At, Goto, Save, Return, Throw, Idle, NoResult, vars, repository, user,
           Saving, Switching, Applying, Removing, AppliedSteps, Backed, HasBackup
<1>1. Typed'
  <2>1. op' \in Operations /\ op'.pc # "idle"
    BY DEF IInv, Typed
  <2>2. branch' \in Branches /\ faults' \in 0 .. MaxFaults
    BY DEF IInv, Typed, TypeOK, Operating
  <2> QED BY <2>1, <2>2, TypedMove DEF IInv
<1>2. Stacked'
  BY DEF IInv, Typed, TypeOK, Stacked
<1>3. Operating'
  BY DEF IInv, Typed, TypeOK, Operating
<1>4. Backing'
  BY DEF IInv, Typed, TypeOK, Operating, Backing, Journalled
<1>5. Journalled'
  BY DEF IInv, Typed, TypeOK, Operating, Backing, Journalled
<1>6. QuietRemoval => Undisturbed'
  BY DEF IInv, Typed, TypeOK, Operating, Backing, Journalled, Undisturbed, ParkedIsListed, NothingLost
<1>7. OutcomeIsTrue'
  BY DEF IInv, Typed, TypeOK, Operating, Backing, OutcomeIsTrue
<1> QED BY <1>1, <1>2, <1>3, <1>4, <1>5, <1>6, <1>7 DEF IInv

LEMMA CaughtIInv ==
  ASSUME IInv, op.pc \in Saving \cup Switching, Caught,
         UNCHANGED <<repository, journal, plans, user, attempted>>, faults' \in 0 .. MaxFaults
  PROVE  IInv'
<1>1. CASE op.session = None
  BY <1>1, ThrowIInv DEF Caught, Saving, Switching
<1>2. CASE op.session # None
  BY <1>2, CatchMoveIInv DEF Caught
<1> QED BY <1>1, <1>2

LEMMA PrepareIInv ==
  ASSUME IInv, Prepare
  PROVE  IInv'
<1> USE NoneAssumption, BoundAssumption, EmptyStack
    DEF Operations, Results, Steps, Phases, Reviewed, At, Goto, Save, Return, Throw, Idle, NoResult, vars, repository, user,
           Saving, Switching, Applying, Removing, AppliedSteps, Backed, HasBackup, Prepare
<1>1. Typed'
  BY DEF IInv, Typed, TypeOK, Operating
<1>2. Stacked'
  BY DEF IInv, Typed, TypeOK, Stacked
<1>3. Operating'
  BY DEF IInv, Typed, TypeOK, Operating
<1>4. Backing'
  BY DEF IInv, Typed, TypeOK, Operating, Backing, Journalled
<1>5. Journalled'
  BY DEF IInv, Typed, TypeOK, Operating, Backing, Journalled
<1>6. QuietRemoval => Undisturbed'
  BY DEF IInv, Typed, TypeOK, Operating, Backing, Journalled, Undisturbed, ParkedIsListed, NothingLost
<1>7. OutcomeIsTrue'
  BY DEF IInv, Typed, TypeOK, Operating, Backing, OutcomeIsTrue
<1> QED BY <1>1, <1>2, <1>3, <1>4, <1>5, <1>6, <1>7 DEF IInv

LEMMA ApplyIInv ==
  ASSUME IInv, Apply
  PROVE  IInv'
<1> USE NoneAssumption, BoundAssumption, EmptyStack
    DEF Operations, Results, Steps, Phases, Reviewed, At, Goto, Save, Return, Throw, Idle, NoResult, vars, repository, user,
           Saving, Switching, Applying, Removing, AppliedSteps, Backed, HasBackup, Apply
<1>1. Typed'
  BY DEF IInv, Typed, TypeOK, Operating
<1>2. Stacked'
  BY DEF IInv, Typed, TypeOK, Stacked
<1>3. Operating'
  BY DEF IInv, Typed, TypeOK, Operating
<1>4. Backing'
  BY DEF IInv, Typed, TypeOK, Operating, Backing, Journalled
<1>5. Journalled'
  BY DEF IInv, Typed, TypeOK, Operating, Backing, Journalled
<1>6. QuietRemoval => Undisturbed'
  BY DEF IInv, Typed, TypeOK, Operating, Backing, Journalled, Undisturbed, ParkedIsListed, NothingLost, Kept
<1>7. OutcomeIsTrue'
  BY DEF IInv, Typed, TypeOK, Operating, Backing, OutcomeIsTrue
<1> QED BY <1>1, <1>2, <1>3, <1>4, <1>5, <1>6, <1>7 DEF IInv

LEMMA CollideIInv ==
  ASSUME IInv, Collide
  PROVE  IInv'
<1> USE NoneAssumption, BoundAssumption, EmptyStack
    DEF Operations, Results, Steps, Phases, Reviewed, At, Goto, Save, Return, Throw, Idle, NoResult, vars, repository, user,
           Saving, Switching, Applying, Removing, AppliedSteps, Backed, HasBackup, Collide
<1>1. Typed'
  BY DEF IInv, Typed, TypeOK, Operating
<1>2. Stacked'
  BY DEF IInv, Typed, TypeOK, Stacked
<1>3. Operating'
  BY DEF IInv, Typed, TypeOK, Operating
<1>4. Backing'
  BY DEF IInv, Typed, TypeOK, Operating, Backing, Journalled
<1>5. Journalled'
  BY DEF IInv, Typed, TypeOK, Operating, Backing, Journalled
<1>6. QuietRemoval => Undisturbed'
  BY DEF IInv, Typed, TypeOK, Operating, Backing, Journalled, Undisturbed, ParkedIsListed, NothingLost, Kept
<1>7. OutcomeIsTrue'
  BY DEF IInv, Typed, TypeOK, Operating, Backing, OutcomeIsTrue
<1> QED BY <1>1, <1>2, <1>3, <1>4, <1>5, <1>6, <1>7 DEF IInv

LEMMA ConflictIInv ==
  ASSUME IInv, Conflict
  PROVE  IInv'
<1> USE NoneAssumption, BoundAssumption, EmptyStack
    DEF Operations, Results, Steps, Phases, Reviewed, At, Goto, Save, Return, Throw, Idle, NoResult, vars, repository, user,
           Saving, Switching, Applying, Removing, AppliedSteps, Backed, HasBackup, Conflict
<1>1. Typed'
  BY DEF IInv, Typed, TypeOK, Operating
<1>2. Stacked'
  BY DEF IInv, Typed, TypeOK, Stacked
<1>3. Operating'
  BY DEF IInv, Typed, TypeOK, Operating
<1>4. Backing'
  BY DEF IInv, Typed, TypeOK, Operating, Backing, Journalled
<1>5. Journalled'
  BY DEF IInv, Typed, TypeOK, Operating, Backing, Journalled
<1>6. QuietRemoval => Undisturbed'
  BY DEF IInv, Typed, TypeOK, Operating, Backing, Journalled, Undisturbed, ParkedIsListed, NothingLost
<1>7. OutcomeIsTrue'
  BY DEF IInv, Typed, TypeOK, Operating, Backing, OutcomeIsTrue
<1> QED BY <1>1, <1>2, <1>3, <1>4, <1>5, <1>6, <1>7 DEF IInv

LEMMA AppliedIInv ==
  ASSUME IInv, Applied
  PROVE  IInv'
<1> USE NoneAssumption, BoundAssumption, EmptyStack
    DEF Operations, Results, Steps, Phases, Reviewed, At, Goto, Save, Return, Throw, Idle, NoResult, vars, repository, user,
           Saving, Switching, Applying, Removing, AppliedSteps, Backed, HasBackup, Applied
<1>1. Typed'
  BY DEF IInv, Typed, TypeOK, Operating
<1>2. Stacked'
  BY DEF IInv, Typed, TypeOK, Stacked
<1>3. Operating'
  BY DEF IInv, Typed, TypeOK, Operating
<1>4. Backing'
  BY DEF IInv, Typed, TypeOK, Operating, Backing, Journalled
<1>5. Journalled'
  BY DEF IInv, Typed, TypeOK, Operating, Backing, Journalled
<1>6. QuietRemoval => Undisturbed'
  BY DEF IInv, Typed, TypeOK, Operating, Backing, Journalled, Undisturbed, ParkedIsListed, NothingLost
<1>7. OutcomeIsTrue'
  BY DEF IInv, Typed, TypeOK, Operating, Backing, OutcomeIsTrue
<1> QED BY <1>1, <1>2, <1>3, <1>4, <1>5, <1>6, <1>7 DEF IInv

LEMMA CatchIInv ==
  ASSUME IInv, Catch
  PROVE  IInv'
<1> USE NoneAssumption, BoundAssumption, EmptyStack
    DEF Operations, Results, Steps, Phases, Reviewed, At, Goto, Save, Return, Throw, Idle, NoResult, vars, repository, user,
           Saving, Switching, Applying, Removing, AppliedSteps, Backed, HasBackup, Catch, SwitchSeen
<1>1. Typed'
  BY DEF IInv, Typed, TypeOK, Operating
<1>2. Stacked'
  BY DEF IInv, Typed, TypeOK, Stacked
<1>3. Operating'
  BY DEF IInv, Typed, TypeOK, Operating
<1>4. Backing'
  BY DEF IInv, Typed, TypeOK, Operating, Backing, Journalled
<1>5. Journalled'
  BY DEF IInv, Typed, TypeOK, Operating, Backing, Journalled
<1>6. QuietRemoval => Undisturbed'
  BY DEF IInv, Typed, TypeOK, Operating, Backing, Journalled, Undisturbed, ParkedIsListed, NothingLost
<1>7. OutcomeIsTrue'
  BY DEF IInv, Typed, TypeOK, Operating, Backing, OutcomeIsTrue
<1> QED BY <1>1, <1>2, <1>3, <1>4, <1>5, <1>6, <1>7 DEF IInv

LEMMA ForgetIInv ==
  ASSUME IInv, Forget
  PROVE  IInv'
<1> USE NoneAssumption, BoundAssumption, EmptyStack
    DEF Operations, Results, Steps, Phases, Reviewed, At, Goto, Save, Return, Throw, Idle, NoResult, vars, repository, user,
           Saving, Switching, Applying, Removing, AppliedSteps, Backed, HasBackup, Forget
<1>1. Typed'
  BY DEF IInv, Typed, TypeOK, Operating
<1>2. Stacked'
  BY DEF IInv, Typed, TypeOK, Stacked
<1>3. Operating'
  BY DEF IInv, Typed, TypeOK, Operating
<1>4. Backing'
  BY DEF IInv, Typed, TypeOK, Operating, Backing, Journalled
<1>5. Journalled'
  BY DEF IInv, Typed, TypeOK, Backing, Journalled, Own
<1>6. QuietRemoval => Undisturbed'
  BY DEF IInv, Typed, TypeOK, Operating, Backing, Journalled, Undisturbed, ParkedIsListed, NothingLost, Own
<1>7. OutcomeIsTrue'
  BY DEF IInv, Typed, TypeOK, Operating, Backing, OutcomeIsTrue
<1> QED BY <1>1, <1>2, <1>3, <1>4, <1>5, <1>6, <1>7 DEF IInv

LEMMA RetainIInv ==
  ASSUME IInv, Retain
  PROVE  IInv'
<1> USE NoneAssumption, BoundAssumption, EmptyStack
    DEF Operations, Results, Steps, Phases, Reviewed, At, Goto, Save, Return, Throw, Idle, NoResult, vars, repository, user,
           Saving, Switching, Applying, Removing, AppliedSteps, Backed, HasBackup, Retain
<1>1. Typed'
  BY DEF IInv, Typed, TypeOK, Operating
<1>2. Stacked'
  BY DEF IInv, Typed, TypeOK, Stacked
<1>3. Operating'
  BY DEF IInv, Typed, TypeOK, Operating
<1>4. Backing'
  BY DEF IInv, Typed, TypeOK, Operating, Backing, Journalled
<1>5. Journalled'
  BY DEF IInv, Typed, TypeOK, Operating, Backing, Journalled
<1>6. QuietRemoval => Undisturbed'
  BY DEF IInv, Typed, TypeOK, Operating, Backing, Journalled, Undisturbed, ParkedIsListed, NothingLost
<1>7. OutcomeIsTrue'
  BY DEF IInv, Typed, TypeOK, Operating, Backing, OutcomeIsTrue
<1> QED BY <1>1, <1>2, <1>3, <1>4, <1>5, <1>6, <1>7 DEF IInv

LEMMA CrashIInv ==
  ASSUME IInv, Crash
  PROVE  IInv'
<1> USE NoneAssumption, BoundAssumption, EmptyStack
    DEF Operations, Results, Steps, Phases, Reviewed, At, Goto, Save, Return, Throw, Idle, NoResult, vars, repository, user,
           Saving, Switching, Applying, Removing, AppliedSteps, Backed, HasBackup, Crash
<1>1. Typed'
  BY DEF IInv, Typed, TypeOK, Operating
<1>2. Stacked'
  BY DEF IInv, Typed, TypeOK, Stacked
<1>3. Operating'
  BY DEF IInv, Typed, TypeOK, Operating
<1>4. Backing'
  BY DEF IInv, Typed, TypeOK, Operating, Backing, Journalled
<1>5. Journalled'
  BY DEF IInv, Typed, TypeOK, Operating, Backing, Journalled
<1>6. QuietRemoval => Undisturbed'
  BY DEF IInv, Typed, TypeOK, Operating, Backing, Journalled, Undisturbed, ParkedIsListed, NothingLost
<1>7. OutcomeIsTrue'
  BY DEF IInv, Typed, TypeOK, Operating, Backing, OutcomeIsTrue
<1> QED BY <1>1, <1>2, <1>3, <1>4, <1>5, <1>6, <1>7 DEF IInv

LEMMA SwitchInterruptedIInv ==
  ASSUME IInv, SwitchInterrupted
  PROVE  IInv'
<1> USE NoneAssumption, BoundAssumption, EmptyStack
    DEF Operations, Results, Steps, Phases, Reviewed, At, Goto, Save, Return, Throw, Idle, NoResult, vars, repository, user,
           Saving, Switching, Applying, Removing, AppliedSteps, Backed, HasBackup, SwitchInterrupted
<1>1. Typed'
  <2>1. op' \in Operations /\ op'.pc # "idle"
    BY DEF IInv, Typed
  <2>2. branch' \in Branches /\ faults' \in 0 .. MaxFaults
    BY DEF IInv, Typed, TypeOK, Operating
  <2> QED BY <2>1, <2>2, TypedMove DEF IInv
<1>2. Stacked'
  BY DEF IInv, Typed, TypeOK, Stacked
<1>3. Operating'
  BY DEF IInv, Typed, TypeOK, Operating
<1>4. Backing'
  BY DEF IInv, Typed, TypeOK, Operating, Backing, Journalled
<1>5. Journalled'
  BY DEF IInv, Typed, TypeOK, Operating, Backing, Journalled
<1>6. QuietRemoval => Undisturbed'
  BY DEF IInv, Typed, TypeOK, Operating, Backing, Journalled, Undisturbed, ParkedIsListed, NothingLost
<1>7. OutcomeIsTrue'
  BY DEF IInv, Typed, TypeOK, Operating, Backing, OutcomeIsTrue
<1> QED BY <1>1, <1>2, <1>3, <1>4, <1>5, <1>6, <1>7 DEF IInv

LEMMA SwitchIInv ==
  ASSUME IInv, Switch
  PROVE  IInv'
<1> USE NoneAssumption, BoundAssumption, EmptyStack
    DEF Operations, Results, Steps, Phases, Reviewed, At, Goto, Save, Return, Throw, Idle, NoResult, vars, repository, user,
           Saving, Switching, Applying, Removing, AppliedSteps, Backed, HasBackup, Switch
<1>1. Typed'
  <2>1. op' \in Operations /\ op'.pc # "idle"
    BY DEF IInv, Typed
  <2>2. branch' \in Branches /\ faults' \in 0 .. MaxFaults
    BY DEF IInv, Typed, TypeOK, Operating
  <2> QED BY <2>1, <2>2, TypedMove DEF IInv
<1>2. Stacked'
  BY DEF IInv, Typed, TypeOK, Stacked
<1>3. Operating'
  BY DEF IInv, Typed, TypeOK, Operating
<1>4. Backing'
  BY DEF IInv, Typed, TypeOK, Operating, Backing, Journalled
<1>5. Journalled'
  BY DEF IInv, Typed, TypeOK, Operating, Backing, Journalled
<1>6. QuietRemoval => Undisturbed'
  BY DEF IInv, Typed, TypeOK, Operating, Backing, Journalled, Undisturbed, ParkedIsListed, NothingLost
<1>7. OutcomeIsTrue'
  BY DEF IInv, Typed, TypeOK, Operating, Backing, OutcomeIsTrue
<1> QED BY <1>1, <1>2, <1>3, <1>4, <1>5, <1>6, <1>7 DEF IInv

LEMMA CheckIInv ==
  ASSUME IInv, Check
  PROVE  IInv'
<1> USE NoneAssumption, BoundAssumption, EmptyStack
    DEF Operations, Results, Steps, Phases, Reviewed, At, Goto, Save, Return, Throw, Idle, NoResult, vars, repository, user,
           Saving, Switching, Applying, Removing, AppliedSteps, Backed, HasBackup, Check, ReadyToSwitch
<1>1. CASE ReadyToSwitch
  <2>1. Typed'
    <3>1. op' \in Operations /\ op'.pc # "idle"
      BY <1>1 DEF IInv, Typed
    <3>2. branch' \in Branches /\ faults' \in 0 .. MaxFaults
      BY <1>1 DEF IInv, Typed, TypeOK, Operating
    <3> QED BY <1>1, <3>1, <3>2, TypedMove DEF IInv
  <2>2. Stacked'
    BY <1>1 DEF IInv, Typed, TypeOK, Stacked
  <2>3. Operating'
    BY <1>1 DEF IInv, Typed, TypeOK, Operating
  <2>4. Backing'
    BY <1>1 DEF IInv, Typed, TypeOK, Operating, Backing, Journalled
  <2>5. Journalled'
    BY <1>1 DEF IInv, Typed, TypeOK, Operating, Backing, Journalled
  <2>6. QuietRemoval => Undisturbed'
    BY <1>1 DEF IInv, Typed, TypeOK, Operating, Backing, Journalled, Undisturbed, ParkedIsListed, NothingLost
  <2>7. OutcomeIsTrue'
    BY <1>1 DEF IInv, Typed, TypeOK, Operating, Backing, OutcomeIsTrue
  <2> QED BY <2>1, <2>2, <2>3, <2>4, <2>5, <2>6, <2>7 DEF IInv
<1>2. CASE ~ReadyToSwitch
  BY <1>2, CaughtIInv DEF IInv, Typed, TypeOK
<1> QED BY <1>1, <1>2 DEF IInv, Operating, Typed, TypeOK, Check

LEMMA RecordIInv ==
  ASSUME IInv, Record
  PROVE  IInv'
<1> USE NoneAssumption, BoundAssumption, EmptyStack
    DEF Operations, Results, Steps, Phases, Reviewed, At, Goto, Save, Return, Throw, Idle, NoResult, vars, repository, user,
           Saving, Switching, Applying, Removing, AppliedSteps, Backed, HasBackup, Record
<1>1. CASE Own(op.session, stack) = {}
  BY <1>1, CatchMoveIInv DEF IInv, Typed, TypeOK, Operating
<1>2. CASE Own(op.session, stack) # {}
  <2> PICK p \in {"check", "catch"} : op' = [op EXCEPT !.phase = "stashed", !.saw = {}, !.pc = p]
    BY <1>2
  <2>1. Typed'
    BY <1>2 DEF IInv, Typed, TypeOK, Operating
  <2>2. Stacked'
    BY <1>2 DEF IInv, Typed, TypeOK, Stacked
  <2>3. Operating'
    BY <1>2 DEF IInv, Typed, TypeOK, Operating
  <2>4. Backing'
    BY <1>2 DEF IInv, Typed, TypeOK, Operating, Backing, Journalled
  <2>5. Journalled'
    BY <1>2 DEF IInv, Typed, TypeOK, Operating, Backing, Journalled
  <2>6. QuietRemoval => Undisturbed'
    <3>1. QuietRemoval => ParkedIsListed'
      BY <1>2, SaveKeepsListed DEF IInv, Undisturbed
    <3> QED BY <1>2, <3>1 DEF IInv, Typed, TypeOK, Operating, Backing, Undisturbed, NothingLost
  <2>7. OutcomeIsTrue'
    BY <1>2 DEF IInv, Typed, TypeOK, Operating, Backing, OutcomeIsTrue
  <2> QED BY <2>1, <2>2, <2>3, <2>4, <2>5, <2>6, <2>7 DEF IInv
<1> QED BY <1>1, <1>2 DEF IInv, Operating, Typed, TypeOK, Record

LEMMA SwitchedIInv ==
  ASSUME IInv, Switched
  PROVE  IInv'
<1> USE NoneAssumption, BoundAssumption, EmptyStack
    DEF Operations, Results, Steps, Phases, Reviewed, At, Goto, Save, Return, Throw, Idle, NoResult, vars, repository, user,
           Saving, Switching, Applying, Removing, AppliedSteps, Backed, HasBackup, Switched
<1>1. CASE op.session = None /\ branch = op.target
  <2>op. /\ op' = Idle /\ UNCHANGED faults
         /\ result' = [session |-> op.session, thrown |-> FALSE, switched |-> TRUE,
                        restored |-> TRUE, moved |-> op.moved /\ branch # op.from]
    BY <1>1
  <2>typed. op' \in Operations /\ result' \in Results
    BY <2>op DEF IInv, Typed, TypeOK
  <2>1. Typed'
    BY <1>1, <2>op, <2>typed DEF IInv, Typed, TypeOK, Operating
  <2>2. Stacked'
    BY <1>1, <2>op, <2>typed DEF IInv, Typed, TypeOK, Stacked
  <2>3. Operating'
    BY <1>1, <2>op, <2>typed DEF IInv, Typed, TypeOK, Operating
  <2>4. Backing'
    BY <1>1, <2>op, <2>typed DEF IInv, Typed, TypeOK, Operating, Backing, Journalled
  <2>5. Journalled'
    BY <1>1, <2>op DEF IInv, Typed, TypeOK, Operating, Backing, Journalled
  <2>6. QuietRemoval => Undisturbed'
    BY <1>1, <2>op, <2>typed DEF IInv, Typed, TypeOK, Operating, Backing, Journalled, Undisturbed, ParkedIsListed, NothingLost
  <2>7. OutcomeIsTrue'
    BY <1>1, <2>op, <2>typed DEF IInv, Typed, TypeOK, Operating, Backing, OutcomeIsTrue
  <2> QED BY <2>1, <2>2, <2>3, <2>4, <2>5, <2>6, <2>7 DEF IInv
<1>2. CASE op.session = None /\ branch # op.target
  BY <1>2, ThrowIInv DEF IInv, Typed, TypeOK
<1>3. CASE op.session # None /\ branch # op.target
  <2>op. op' = [op EXCEPT !.pc = "catch"] /\ UNCHANGED <<result, faults>>
    BY <1>3
  <2>1. Typed'
    BY <1>3, <2>op DEF IInv, Typed, TypeOK, Operating
  <2>2. Stacked'
    BY <1>3, <2>op DEF IInv, Typed, TypeOK, Stacked
  <2>3. Operating'
    BY <1>3, <2>op DEF IInv, Typed, TypeOK, Operating
  <2>4. Backing'
    BY <1>3, <2>op DEF IInv, Typed, TypeOK, Operating, Backing, Journalled
  <2>5. Journalled'
    BY <1>3, <2>op DEF IInv, Typed, TypeOK, Operating, Backing, Journalled
  <2>6. QuietRemoval => Undisturbed'
    <3>1. QuietRemoval => ParkedIsListed'
      BY <1>3, SaveKeepsListed DEF IInv, Undisturbed
    <3> QED BY <1>3, <2>op, <3>1 DEF IInv, Typed, TypeOK, Operating, Backing, Undisturbed, NothingLost
  <2>7. OutcomeIsTrue'
    BY <1>3, <2>op DEF IInv, Typed, TypeOK, Operating, Backing, OutcomeIsTrue
  <2> QED BY <2>1, <2>2, <2>3, <2>4, <2>5, <2>6, <2>7 DEF IInv
<1>4. CASE op.session # None /\ branch = op.target /\ op.carry
  <2>1. Typed'
    BY <1>4 DEF IInv, Typed, TypeOK, Operating
  <2>2. Stacked'
    BY <1>4 DEF IInv, Typed, TypeOK, Stacked
  <2>3. Operating'
    BY <1>4 DEF IInv, Typed, TypeOK, Operating
  <2>4. Backing'
    BY <1>4 DEF IInv, Typed, TypeOK, Operating, Backing, Journalled
  <2>5. Journalled'
    BY <1>4 DEF IInv, Typed, TypeOK, Operating, Backing, Journalled
  <2>6. QuietRemoval => Undisturbed'
    <3>1. QuietRemoval => ParkedIsListed'
      BY <1>4, SaveKeepsListed DEF IInv, Undisturbed
    <3> QED BY <1>4, <3>1 DEF IInv, Typed, TypeOK, Operating, Backing, Undisturbed, NothingLost
  <2>7. OutcomeIsTrue'
    BY <1>4 DEF IInv, Typed, TypeOK, Operating, Backing, OutcomeIsTrue
  <2> QED BY <2>1, <2>2, <2>3, <2>4, <2>5, <2>6, <2>7 DEF IInv
<1>5. CASE op.session # None /\ branch = op.target /\ ~op.carry
  <2>op. /\ op' = Idle /\ UNCHANGED faults
         /\ result' = [session |-> op.session, thrown |-> FALSE, switched |-> TRUE,
                        restored |-> FALSE, moved |-> op.moved /\ branch # op.from]
    BY <1>5
  <2>typed. op' \in Operations /\ result' \in Results
    BY <2>op DEF IInv, Typed, TypeOK
  <2>1. Typed'
    BY <1>5, <2>op, <2>typed DEF IInv, Typed, TypeOK, Operating
  <2>2. Stacked'
    BY <1>5, <2>op, <2>typed DEF IInv, Typed, TypeOK, Stacked
  <2>3. Operating'
    BY <1>5, <2>op, <2>typed DEF IInv, Typed, TypeOK, Operating
  <2>4. Backing'
    BY <1>5, <2>op, <2>typed DEF IInv, Typed, TypeOK, Operating, Backing, Journalled
  <2>5. Journalled'
    BY <1>5, <2>op DEF IInv, Typed, TypeOK, Operating, Backing, Journalled
  <2>6. QuietRemoval => Undisturbed'
    <3>1. QuietRemoval => ParkedIsListed'
      BY <1>5, SaveKeepsListed DEF IInv, Undisturbed
    <3> QED BY <1>5, <2>op, <3>1 DEF IInv, Typed, TypeOK, Operating, Backing, Undisturbed, NothingLost
  <2>7. OutcomeIsTrue'
    BY <1>5, <2>op, <2>typed DEF IInv, Typed, TypeOK, Operating, Backing, OutcomeIsTrue
  <2> QED BY <2>1, <2>2, <2>3, <2>4, <2>5, <2>6, <2>7 DEF IInv
<1> QED BY <1>1, <1>2, <1>3, <1>4, <1>5 DEF IInv, Operating, Typed, TypeOK, Switched

LEMMA ReadyIInv ==
  ASSUME IInv, Ready
  PROVE  IInv'
<1> USE NoneAssumption, BoundAssumption, EmptyStack
    DEF Operations, Results, Steps, Phases, Reviewed, At, Goto, Save, Return, Throw, Idle, NoResult, vars, repository, user,
           Saving, Switching, Applying, Removing, AppliedSteps, Backed, HasBackup, Ready
<1>1. CASE work # {} \/ Own(op.session, stack) = {}
  BY <1>1, ThrowIInv DEF IInv, Typed, TypeOK
<1>2. CASE ~(work # {} \/ Own(op.session, stack) = {})
  <2> PICK i \in Own(op.session, stack) :
         op' = [op EXCEPT !.pc = "apply", !.phase = "applying", !.head = branch,
                  !.stack = stack, !.saved = stack[i].saved]
    BY <1>2
  <2>saved. stack[i].saved \in SUBSET Changes /\ SavedAs(op.session, stack[i].saved, stack)
    <3>1. i \in DOMAIN stack /\ stack[i].saved \in SUBSET Changes /\ op.session \in Sessions
      BY EntryTyped DEF IInv, Typed, TypeOK, Own, Operating
    <3>2. \A k \in Own(op.session, stack) : k = i
      BY <3>1 DEF IInv, Stacked, OneStash, Own
    <3> QED BY <3>1, <3>2 DEF SavedAs
  <2>1. Typed'
    BY <1>2, <2>saved DEF IInv, Typed, TypeOK, Operating
  <2>2. Stacked'
    BY <1>2, <2>saved DEF IInv, Typed, TypeOK, Stacked
  <2>3. Operating'
    BY <1>2, <2>saved DEF IInv, Typed, TypeOK, Operating
  <2>4. Backing'
    BY <1>2, <2>saved DEF IInv, Typed, TypeOK, Operating, Backing, Journalled
  <2>5. Journalled'
    <3>1. op.session \in Sessions /\ journal' = [journal EXCEPT ![op.session] = "applying"]
      BY <1>2 DEF IInv, Operating
    <3>2. op'.pc = "apply" /\ op'.session = op.session
      BY DEF IInv, Typed
    <3> QED BY <1>2, <3>1, <3>2 DEF IInv, Typed, TypeOK, Journalled
  <2>6. QuietRemoval => Undisturbed'
    <3>1. QuietRemoval => ParkedIsListed'
      BY <1>2, SaveKeepsListed DEF IInv, Undisturbed
    <3>2. op'.pc = "apply"
      BY DEF IInv, Typed
    <3> QED BY <1>2, <3>1, <3>2 DEF IInv, Undisturbed, NothingLost
  <2>7. OutcomeIsTrue'
    BY <1>2, <2>saved DEF IInv, Typed, TypeOK, Operating, Backing, OutcomeIsTrue
  <2> QED BY <2>1, <2>2, <2>3, <2>4, <2>5, <2>6, <2>7 DEF IInv
<1> QED BY <1>1, <1>2 DEF IInv, Operating, Typed, TypeOK, Ready

LEMMA ConfirmIInv ==
  ASSUME IInv, Confirm
  PROVE  IInv'
<1> USE NoneAssumption, BoundAssumption, EmptyStack
    DEF Operations, Results, Steps, Phases, Reviewed, At, Goto, Save, Return, Throw, Idle, NoResult, vars, repository, user,
           Saving, Switching, Applying, Removing, AppliedSteps, Backed, HasBackup, Confirm, Restored
<1>1. CASE Restored
  <2>1. Typed'
    BY <1>1 DEF IInv, Typed, TypeOK, Operating
  <2>2. Stacked'
    BY <1>1 DEF IInv, Typed, TypeOK, Stacked
  <2>3. Operating'
    BY <1>1 DEF IInv, Typed, TypeOK, Operating
  <2>4. Backing'
    BY <1>1 DEF IInv, Typed, TypeOK, Operating, Backing, Elsewhere
  <2>5. Journalled'
    BY <1>1 DEF IInv, Typed, TypeOK, Operating, Backing, Journalled
  <2>6. QuietRemoval => Undisturbed'
    BY <1>1 DEF IInv, Typed, TypeOK, Operating, Backing, Journalled, Undisturbed, ParkedIsListed, NothingLost, Elsewhere
  <2>7. OutcomeIsTrue'
    BY <1>1 DEF IInv, Typed, TypeOK, Operating, Backing, OutcomeIsTrue
  <2> QED BY <2>1, <2>2, <2>3, <2>4, <2>5, <2>6, <2>7 DEF IInv
<1>2. CASE ~Restored
  BY <1>2, RetainMoveIInv DEF IInv, Typed, TypeOK
<1> QED BY <1>1, <1>2 DEF IInv, Operating, Typed, TypeOK, Confirm

LEMMA LatestIInv ==
  ASSUME IInv, Latest
  PROVE  IInv'
<1> USE NoneAssumption, BoundAssumption, EmptyStack
    DEF Operations, Results, Steps, Phases, Reviewed, At, Goto, Save, Return, Throw, Idle, NoResult, vars, repository, user,
           Saving, Switching, Applying, Removing, AppliedSteps, Backed, HasBackup, Latest, SameStack
<1>1. CASE SameStack
  <2> PICK i \in Own(op.session, stack) : op' = [op EXCEPT !.pc = "ref", !.at = i]
    BY <1>1
  <2>at. i \in Nat
    BY EntryTyped DEF IInv, Typed, TypeOK, Own
  <2>1. Typed'
    BY <1>1, <2>at DEF IInv, Typed, TypeOK, Operating
  <2>2. Stacked'
    BY <1>1, <2>at DEF IInv, Typed, TypeOK, Stacked
  <2>3. Operating'
    BY <1>1, <2>at DEF IInv, Typed, TypeOK, Operating
  <2>4. Backing'
    BY <1>1, <2>at DEF IInv, Typed, TypeOK, Operating, Backing, Journalled
  <2>5. Journalled'
    BY <1>1, <2>at DEF IInv, Typed, TypeOK, Operating, Backing, Journalled
  <2>6. QuietRemoval => Undisturbed'
    BY <1>1, <2>at DEF IInv, Typed, TypeOK, Operating, Backing, Journalled, Undisturbed, ParkedIsListed, NothingLost
  <2>7. OutcomeIsTrue'
    BY <1>1, <2>at DEF IInv, Typed, TypeOK, Operating, Backing, OutcomeIsTrue
  <2> QED BY <2>1, <2>2, <2>3, <2>4, <2>5, <2>6, <2>7 DEF IInv
<1>2. CASE ~SameStack
  BY <1>2, RetainMoveIInv DEF IInv, Typed, TypeOK
<1> QED BY <1>1, <1>2 DEF IInv, Operating, Typed, TypeOK, Latest

LEMMA RefIInv ==
  ASSUME IInv, Ref
  PROVE  IInv'
<1> USE NoneAssumption, BoundAssumption, EmptyStack
    DEF Operations, Results, Steps, Phases, Reviewed, At, Goto, Save, Return, Throw, Idle, NoResult, vars, repository, user,
           Saving, Switching, Applying, Removing, AppliedSteps, Backed, HasBackup, Ref, RefResolves
<1>1. CASE RefResolves
  <2>1. Typed'
    BY <1>1 DEF IInv, Typed, TypeOK, Operating
  <2>2. Stacked'
    BY <1>1 DEF IInv, Typed, TypeOK, Stacked
  <2>3. Operating'
    BY <1>1 DEF IInv, Typed, TypeOK, Operating
  <2>4. Backing'
    BY <1>1 DEF IInv, Typed, TypeOK, Operating, Backing, Journalled
  <2>5. Journalled'
    BY <1>1 DEF IInv, Typed, TypeOK, Operating, Backing, Journalled
  <2>6. QuietRemoval => Undisturbed'
    BY <1>1 DEF IInv, Typed, TypeOK, Operating, Backing, Journalled, Undisturbed, ParkedIsListed, NothingLost
  <2>7. OutcomeIsTrue'
    BY <1>1 DEF IInv, Typed, TypeOK, Operating, Backing, OutcomeIsTrue
  <2> QED BY <2>1, <2>2, <2>3, <2>4, <2>5, <2>6, <2>7 DEF IInv
<1>2. CASE ~RefResolves
  BY <1>2, RetainMoveIInv DEF IInv, Typed, TypeOK
<1> QED BY <1>1, <1>2 DEF IInv, Operating, Typed, TypeOK, Ref

LEMMA FailIInv ==
  ASSUME IInv, Fail
  PROVE  IInv'
<1> USE NoneAssumption, BoundAssumption, EmptyStack
    DEF Operations, Results, Steps, Phases, Reviewed, At, Goto, Save, Return, Throw, Idle, NoResult, vars, repository, user,
           Saving, Switching, Applying, Removing, AppliedSteps, Backed, HasBackup, Fail, Failed
<1>1. CASE op.pc \in {"confirm", "remove"} \cup Removing
  BY <1>1, RetainMoveIInv DEF IInv, Typed, TypeOK
<1>2. CASE op.pc \in Saving \cup Switching
  BY <1>2, CaughtIInv DEF IInv, Typed, TypeOK
<1>3. CASE op.pc \in {"catch", "ready", "conflict", "applied", "retain"}
  BY <1>3, ThrowIInv DEF IInv, Typed, TypeOK
<1> QED BY <1>1, <1>2, <1>3 DEF IInv, Operating, Typed, TypeOK, Fail

-----------------------------------------------------------------------------
(***************************************************************************)
(* The journal as list() leaves it, reviews, and the beginning of the two  *)
(* operations.                                                             *)
(***************************************************************************)
LEMMA ListedKeeps ==
  ASSUME Typed, Journalled, op.pc = "idle", journal' = Listed, UNCHANGED <<stack, attempted>>
  PROVE  /\ journal' \in [Sessions -> Phases]
         /\ ParkedIsListed => ParkedIsListed'
         /\ \A s \in attempted : Own(s, stack) # {} => journal'[s] \in Reviewed \cup {"absent"}
<1>1. journal' \in [Sessions -> Phases]
  BY DEF Listed, Typed, TypeOK, Phases
<1>2. \A s \in Sessions : Own(s, stack) # {} => journal'[s] = journal[s]
  BY DEF Listed
<1>3. ASSUME ParkedIsListed, NEW i \in DOMAIN stack, stack[i].session # None
      PROVE  journal'[stack[i].session] # "absent"
  <2>1. stack[i].session \in Sessions
    BY <1>3, EntryTyped DEF Typed, TypeOK
  <2>2. Own(stack[i].session, stack) # {}
    BY DEF Own
  <2> QED BY <2>1, <2>2, <1>2, <1>3 DEF ParkedIsListed
<1> QED BY <1>1, <1>2, <1>3 DEF ParkedIsListed, Journalled, Typed, TypeOK

LEMMA ReviewIInv ==
  ASSUME IInv, Review
  PROVE  IInv'
<1>1. /\ UNCHANGED <<repository, op, result, user, attempted, faults>>
      /\ ((op.pc = "idle" /\ journal' = Listed) \/ UNCHANGED journal)
  BY DEF Review, List, Expire, InspectTarget, InspectSession
<1>2. /\ journal' \in [Sessions -> Phases]
      /\ ParkedIsListed => ParkedIsListed'
      /\ \A s \in attempted : Own(s, stack) # {} => journal'[s] \in Reviewed \cup {"absent"}
  BY <1>1, ListedKeeps DEF IInv, Typed, TypeOK, Journalled, ParkedIsListed, repository
<1>3. plans' \subseteq Plans /\ \A p \in plans' : p.session = None => p.target \in Branches
  <2>1. CASE List
    BY <2>1 DEF List, IInv, Typed, TypeOK
  <2>2. CASE \E p \in plans : Expire(p)
    BY <2>2 DEF Expire, IInv, Typed, TypeOK
  <2>3. ASSUME NEW b \in Branches, InspectTarget(b)
        PROVE  plans' \subseteq Plans /\ \A p \in plans' : p.session = None => p.target \in Branches
    BY <2>3 DEF InspectTarget, Open, NewPlan, Plans, IInv, Typed, TypeOK
  <2>4. ASSUME NEW s \in Sessions, NEW reviewed \in BOOLEAN, InspectSession(s, reviewed)
        PROVE  plans' \subseteq Plans /\ \A p \in plans' : p.session = None => p.target \in Branches
    <3>1. Presented(s) \in {"stashed", "switched"} \cup Reviewed
      BY <2>4 DEF InspectSession, Presented, IInv, Typed, TypeOK, Phases, Reviewed
    <3>2. [NewPlan EXCEPT !.session = s, !.phase = Presented(s), !.reviewed = reviewed] \in Plans
      BY <3>1 DEF NewPlan, Plans, IInv, Typed, TypeOK
    <3> QED BY <3>2, <2>4, NoneAssumption DEF InspectSession, Open, NewPlan, IInv, Typed, TypeOK
  <2> QED BY <2>1, <2>2, <2>3, <2>4 DEF Review
<1>4. Typed'
  BY <1>1, <1>2, <1>3 DEF IInv, Typed, TypeOK, repository, user
<1>5. Stacked' /\ Operating' /\ (QuietRemoval => Undisturbed')
  BY <1>1, <1>2 DEF IInv, Stacked, Operating, Undisturbed, NothingLost, Removing, repository, user
<1>6. Backing'
  BY <1>1 DEF IInv, Backing, HasBackup, repository, user
<1>7. Journalled'
  <2>1. op.pc = "idle" => op.pc \notin {"push", "apply"}
    OBVIOUS
  <2> QED BY <1>1, <1>2, <2>1 DEF IInv, Journalled, repository
<1>8. OutcomeIsTrue'
  BY <1>1 DEF IInv, OutcomeIsTrue, repository, user
<1> QED BY <1>4, <1>5, <1>6, <1>7, <1>8 DEF IInv

LEMMA ExecuteIInv ==
  ASSUME IInv, NEW p \in plans, NEW carry \in BOOLEAN, NEW s \in Sessions \cup {None},
         Execute(p, carry, s)
  PROVE  IInv'
<1> USE NoneAssumption, BoundAssumption, EmptyStack
    DEF Operations, Results, Steps, Phases, Reviewed, Idle, NoResult, repository,
        Saving, Switching, Applying, Removing, AppliedSteps, Backed, HasBackup
<1>1. /\ op.pc = "idle" /\ p.session = None /\ p.target \in Branches
      /\ s \in Sessions => Own(s, stack) = {}
      /\ plans' \subseteq plans /\ result' = NoResult
      /\ attempted' = attempted \ {s} /\ taken' = taken \ {s}
      /\ UNCHANGED <<branch, work, stack, journal, made, faults>>
  BY DEF Execute, IInv, Typed
<1>2. PICK pc \in {"check", "prepare"} :
        /\ pc = "check" <=> s = None
        /\ op' = [Idle EXCEPT !.pc = pc, !.session = s, !.carry = carry, !.target = p.target,
                    !.from = branch, !.saw = work, !.phase = "preparing"]
  BY DEF Execute
<1>3. Typed'
  <2>1. /\ branch \in Branches /\ work \subseteq Changes /\ p.target \in Branches
        /\ s \in Sessions \cup {None}
    BY <1>1 DEF IInv, Typed, TypeOK
  <2>2. op' \in Operations /\ op'.pc # "idle"
    BY <1>2, <2>1
  <2>3. op'.session \in Sessions \cup {None} /\ op'.phase \in Phases /\ op'.pc \in Steps
    BY <2>2
  <2> QED BY <1>1, <2>2, <2>3 DEF IInv, Typed, TypeOK
<1>4. Stacked'
  BY <1>1, <1>2 DEF IInv, Stacked
<1>5. Operating'
  BY <1>1, <1>2 DEF IInv, Operating
<1>6. Backing'
  BY <1>1, <1>2 DEF IInv, Backing, Typed, TypeOK
<1>7. Journalled'
  BY <1>1, <1>2 DEF IInv, Journalled
<1>8. QuietRemoval => Undisturbed'
  BY <1>1, <1>2 DEF IInv, Typed, TypeOK, Operating, Backing, Journalled, Undisturbed, ParkedIsListed, NothingLost
<1>9. OutcomeIsTrue'
  BY <1>1 DEF OutcomeIsTrue
<1> QED BY <1>3, <1>4, <1>5, <1>6, <1>7, <1>8, <1>9 DEF IInv

LEMMA RestoreIInv ==
  ASSUME IInv, NEW p \in plans, NEW s \in Sessions, Restore(p, s)
  PROVE  IInv'
<1> USE NoneAssumption, BoundAssumption, EmptyStack
    DEF Operations, Results, Steps, Phases, Reviewed, Idle, NoResult, repository, user,
        Saving, Switching, Applying, Removing, AppliedSteps, Backed, HasBackup
<1>1. /\ op.pc = "idle" /\ plans' \subseteq plans /\ result' = NoResult
      /\ journal' = Listed
      /\ UNCHANGED <<branch, work, stack, attempted, made, taken, faults>>
  BY DEF Restore
<1>2. /\ journal' \in [Sessions -> Phases]
      /\ ParkedIsListed => ParkedIsListed'
      /\ \A t \in attempted : Own(t, stack) # {} => journal'[t] \in Reviewed \cup {"absent"}
  BY <1>1, ListedKeeps DEF IInv
<1>3. \/ UNCHANGED op
      \/ /\ ReviewHolds(p, s)
         /\ op' = [Idle EXCEPT !.pc = "ready", !.session = s, !.phase = Presented(s), !.reviewed = p.reviewed]
  BY DEF Restore
<1>4. ReviewHolds(p, s) =>
        /\ Own(s, stack) # {} /\ Presented(s) \in Phases \ {"absent"}
        /\ s \in attempted => p.reviewed
  <2> SUFFICES ASSUME ReviewHolds(p, s)
               PROVE  /\ Own(s, stack) # {} /\ Presented(s) \in Phases \ {"absent"}
                      /\ s \in attempted => p.reviewed
    OBVIOUS
  <2>1. Own(s, stack) # {} /\ journal[s] # "absent" /\ journal[s] \in Phases
    BY DEF ReviewHolds, Listed, IInv, Typed, TypeOK
  <2>2. s \in attempted => journal[s] \in Reviewed
    BY <2>1 DEF IInv, Journalled
  <2> QED BY <2>1, <2>2 DEF ReviewHolds, Presented
<1>5. p.reviewed \in BOOLEAN
  BY DEF IInv, Typed, TypeOK, Plans
<1>6. Typed'
  <2>1. CASE UNCHANGED op
    BY <1>1, <1>2, <2>1 DEF IInv, Typed, TypeOK
  <2>2. CASE ~UNCHANGED op
    <3>0. Presented(s) \in Phases /\ p.reviewed \in BOOLEAN /\ s \in Sessions \cup {None}
      BY <1>3, <1>4, <1>5, <2>2
    <3>r. op' = [Idle EXCEPT !.pc = "ready", !.session = s, !.phase = Presented(s), !.reviewed = p.reviewed]
      BY <1>3, <2>2
    <3> DEFINE phase == Presented(s)
    <3> HIDE DEF phase
    <3>i. Idle \in Operations
      OBVIOUS
    <3>1. op' \in Operations /\ op'.pc = "ready"
      BY <3>0, <3>r, <3>i DEF phase
    <3>2. op'.session \in Sessions \cup {None} /\ op'.phase \in Phases /\ op'.pc \in Steps /\ op' # Idle
      BY <3>1
    <3> QED BY <1>1, <1>2, <3>1, <3>2 DEF IInv, Typed, TypeOK
  <2> QED BY <2>1, <2>2
<1>7. Stacked'
  BY <1>1, <1>3 DEF IInv, Stacked
<1>8. Operating'
  BY <1>1, <1>3, <1>4 DEF IInv, Operating
<1>9. Backing'
  <2>1. CASE UNCHANGED op
    BY <1>1, <2>1 DEF IInv, Backing
  <2>2. CASE ~UNCHANGED op
    <3>1. /\ op'.pc = "ready" /\ op'.session = s /\ Own(s, stack) # {}
          /\ s \in attempted => op'.reviewed
      BY <1>3, <1>4, <2>2
    <3> QED BY <1>1, <3>1 DEF Backing
  <2> QED BY <2>1, <2>2
<1>10. Journalled'
  BY <1>1, <1>2, <1>3 DEF Journalled
<1>11. QuietRemoval => Undisturbed'
  <2>1. op'.pc \in {"idle", "ready"}
    BY <1>1, <1>3
  <2> QED BY <1>1, <1>2, <2>1 DEF IInv, Undisturbed, NothingLost
<1>12. OutcomeIsTrue'
  BY <1>1 DEF OutcomeIsTrue
<1> QED BY <1>6, <1>7, <1>8, <1>9, <1>10, <1>11, <1>12 DEF IInv

-----------------------------------------------------------------------------
(***************************************************************************)
(* The steps that change the stack: "stash push", "stash drop", the user.  *)
(***************************************************************************)
\* ParkedIsListed, session by session.
LEMMA ListedBySession ==
  ASSUME NEW st \in Seq(Entries), NEW j
  PROVE  (\A i \in DOMAIN st : st[i].session # None => j[st[i].session] # "absent")
           <=> (\A s \in Sessions : Own(s, st) # {} => j[s] # "absent")
<1>1. \A i \in DOMAIN st : st[i].session \in Sessions \cup {None}
  BY EntryTyped
<1> QED BY <1>1, NoneAssumption DEF Own

LEMMA PushedIInv ==
  ASSUME IInv, At("push"), stack' = Pushed, work' \in {work, {}},
         NEW pc \in {"record", "catch"}, Goto(pc), faults' \in 0 .. MaxFaults,
         UNCHANGED <<branch, journal, plans, result, user, attempted>>
  PROVE  IInv'
<1> DEFINE e == [session |-> op.session, object |-> 0, saved |-> work]
<1>1. /\ e \in Entries /\ op.session \in Sessions /\ op.session # None
      /\ stack \in Seq(Entries) /\ stack' = <<e>> \o stack
      /\ Own(op.session, stack) = {} /\ work \subseteq Changes /\ work' \subseteq Changes
      /\ e.session = op.session /\ e.object = 0 /\ e.saved = work
  <2>1. op.session \in Sessions /\ op.session # None /\ Own(op.session, stack) = {}
    BY NoneAssumption DEF At, IInv, Operating, Backing, Switching
  <2>2. 0 \in 0 .. 2 * MaxForeign + 1
    BY BoundAssumption
  <2> QED BY <2>1, <2>2 DEF Pushed, Entries, IInv, Typed, TypeOK
<1> HIDE DEF e
<1>2. /\ stack' \in Seq(Entries)
      /\ \A s : s # op.session => (Own(s, stack') = {} <=> Own(s, stack) = {})
      /\ OneStash(stack') /\ Marked(stack')
      /\ Kept(work', stack') = Kept(work', stack) \cup work
  <2>1. OneStash(stack) /\ Marked(stack)
    BY DEF IInv, Stacked
  <2>2. /\ stack' \in Seq(Entries)
        /\ \A s : s # e.session => (Own(s, stack') = {} <=> Own(s, stack) = {})
        /\ OneStash(stack) /\ (e.session # None => Own(e.session, stack) = {}) => OneStash(stack')
        /\ Marked(stack) /\ (e.session # None => e.object = 0) => Marked(stack')
    BY <1>1, PushedStack
  <2>3. \A w : Kept(w, stack') = Kept(w, stack) \cup e.saved
    BY <1>1, PushedKept
  <2> QED BY <1>1, <2>1, <2>2, <2>3
<1>3. FewForeign(stack')
  BY <1>1, PushedForeign DEF IInv, Stacked
<1>4. /\ op'.pc = pc /\ pc \in {"record", "catch"} /\ op'.session = op.session
      /\ op'.phase = op.phase /\ op'.moved = op.moved /\ op'.stack = op.stack
      /\ op' \in Operations /\ op.pc = "push"
      /\ op'.switched = op.switched
  BY DEF Goto, At, IInv, Typed, Operations, Steps
<1>5. Typed'
  <2>1. op'.pc \in Steps /\ op'.session \in Sessions \cup {None} /\ op'.phase \in Phases
        /\ op' # Idle
    BY <1>4 DEF Operations, Idle
  <2> QED BY <1>1, <1>2, <1>4, <2>1 DEF IInv, Typed, TypeOK, user
<1>6. Stacked'
  BY <1>2, <1>3, <1>4 DEF IInv, Stacked
<1>7. Operating'
  <2>1. /\ op.phase # "absent" /\ result' = NoResult /\ ~op.moved
        /\ op'.target \in Branches
    BY <1>4 DEF IInv, Operating, Saving, Goto, Typed, Operations
  <2> QED BY <1>1, <1>4, <2>1 DEF Operating, Saving, Switching, NoResult
<1>8. Backing'
  BY <1>4 DEF IInv, Operating, Backing, Saving, Switching, Backed, Applying, AppliedSteps, Removing
<1>9. Journalled'
  <2>1. op.session \notin attempted
    BY <1>4 DEF IInv, Backing, Saving
  <2> QED BY <1>2, <1>4, <2>1 DEF IInv, Journalled
<1>10. OutcomeIsTrue'
  <2>1. result.session = None
    BY <1>4 DEF IInv, Operating, NoResult
  <2> QED BY <2>1 DEF OutcomeIsTrue
<1>11. QuietRemoval => Undisturbed'
  <2> SUFFICES ASSUME QuietRemoval PROVE Undisturbed'
    OBVIOUS
  <2>1. ParkedIsListed'
    <3>1. journal[op.session] # "absent"
      BY <1>4 DEF IInv, Journalled
    <3>2. \A s \in Sessions : Own(s, stack) # {} => journal[s] # "absent"
      BY <1>1, ListedBySession DEF IInv, Undisturbed, ParkedIsListed
    <3>3. \A s \in Sessions : Own(s, stack') # {} => journal[s] # "absent"
      BY <1>2, <3>1, <3>2
    <3>4. \A i \in DOMAIN stack' : stack'[i].session # None => journal[stack'[i].session] # "absent"
      BY <1>2, <3>3, ListedBySession
    <3> QED BY <3>4 DEF ParkedIsListed
  <2>2. NothingLost'
    <3>1. made \subseteq Kept(work, stack)
      BY DEF IInv, Undisturbed, NothingLost
    <3>2. Kept(work', stack') = Kept(work', stack) \cup work
      BY <1>2
    <3>3. Kept(work, stack) \subseteq Kept(work', stack')
      BY <3>2 DEF Kept
    <3> QED BY <3>1, <3>3 DEF NothingLost, user
  <2> QED BY <1>4, <2>1, <2>2 DEF Undisturbed, Removing
<1> QED BY <1>5, <1>6, <1>7, <1>8, <1>9, <1>10, <1>11 DEF IInv

LEMMA PushIInv ==
  ASSUME IInv, Push \/ PushHalfway
  PROVE  IInv'
<1>1. op.pc = "push" /\ op.session # None /\ faults \in 0 .. MaxFaults /\ MaxFaults \in Nat
  BY NoneAssumption, BoundAssumption DEF Push, PushHalfway, At, IInv, Operating, Switching, Typed, TypeOK
<1>2. CASE Push /\ work = {}
  BY <1>1, <1>2, CatchMoveIInv DEF Push, Saving, repository
<1>3. CASE Push /\ work # {}
  BY <1>1, <1>3, PushedIInv DEF Push
<1>4. CASE PushHalfway
  <2>1. faults' \in 0 .. MaxFaults
    BY <1>1, <1>4 DEF PushHalfway
  <2> QED BY <1>4, <2>1, PushedIInv DEF PushHalfway
<1> QED BY <1>2, <1>3, <1>4

LEMMA DroppedIInv ==
  ASSUME IInv, NEW next \in {"remove", "retain"}, Drop(next), faults' \in 0 .. MaxFaults
  PROVE  IInv'
<1> DEFINE gone == op.at \in DOMAIN stack
<1>1. PICK pc \in {"remove", "retain"} :
        /\ op' = [op EXCEPT !.pc = pc]
        /\ IF gone THEN stack' = RemoveAt(stack, op.at) ELSE UNCHANGED stack /\ pc = "retain"
        /\ op.pc = "drop"
        /\ UNCHANGED <<branch, work, journal, plans, result, user, attempted>>
  BY DEF Drop, Goto, At
<1>2. /\ op'.pc = pc /\ op'.session = op.session /\ op.session \in Sessions /\ op.session # None
      /\ op'.phase = op.phase /\ op'.moved = op.moved /\ op'.stack = op.stack
      /\ op' \in Operations /\ op'.switched = op.switched
  BY <1>1, NoneAssumption DEF IInv, Typed, Operating, Operations, Steps, Switching
<1>3. /\ stack' \in Seq(Entries) /\ OneStash(stack') /\ Marked(stack') /\ FewForeign(stack')
      /\ \A s : Own(s, stack) = {} => Own(s, stack') = {}
  <2>1. stack \in Seq(Entries) /\ OneStash(stack) /\ Marked(stack) /\ FewForeign(stack)
    BY DEF IInv, Typed, TypeOK, Stacked
  <2>2. CASE gone
    BY <2>1, <2>2, <1>1, RemovedStack, RemovedForeign
  <2> QED BY <2>1, <2>2, <1>1
<1>4. Typed'
  <2>1. op'.pc \in Steps /\ op'.session \in Sessions \cup {None} /\ op'.phase \in Phases
        /\ op' # Idle
    BY <1>1, <1>2 DEF Operations, Idle
  <2> QED BY <1>1, <1>2, <1>3, <2>1 DEF IInv, Typed, TypeOK, user
<1>5. Stacked'
  BY <1>2, <1>3 DEF IInv, Stacked
<1>6. Operating'
  BY <1>1, <1>2 DEF IInv, Operating, Saving, Switching
<1>7. Backing'
  BY <1>1, <1>2 DEF IInv, Operating, Backing, Saving, Switching, Backed, Applying, AppliedSteps, Removing
<1>8. Journalled'
  BY <1>1, <1>2, <1>3 DEF IInv, Journalled
<1>9. OutcomeIsTrue'
  <2>1. result.session = None
    BY <1>1 DEF IInv, Operating, NoResult
  <2> QED BY <2>1, <1>1 DEF OutcomeIsTrue
<1>10. QuietRemoval => Undisturbed'
  <2> SUFFICES ASSUME QuietRemoval PROVE Undisturbed'
    OBVIOUS
  <2>1. op.at \in DOMAIN stack /\ stack[op.at].session = op.session /\ stack \in Seq(Entries)
    BY <1>1 DEF IInv, Undisturbed, Own, Typed, TypeOK
  <2>2. stack[op.at].saved = op.saved
    BY <1>1, <2>1 DEF IInv, Backing, AppliedSteps, Removing, SavedAs, Own
  <2>3. /\ Own(op.session, stack') = {}
        /\ Kept(work, stack) \subseteq Kept(work, stack') \cup op.saved
        /\ Elsewhere(op.session, work, stack) \subseteq Kept(work, stack')
    <3>1. OneStash(stack) /\ stack[op.at].session # None /\ stack' = RemoveAt(stack, op.at)
      BY <1>1, <1>2, <2>1 DEF IInv, Stacked
    <3>2. Own(stack[op.at].session, stack') = {}
      BY <2>1, <3>1, RemovedStack
    <3>3. /\ Kept(work, stack) \subseteq Kept(work, stack') \cup stack[op.at].saved
          /\ Elsewhere(stack[op.at].session, work, stack) \subseteq Kept(work, stack')
      BY <2>1, <3>1, RemovedKept
    <3> QED BY <2>1, <2>2, <3>2, <3>3
  <2>4. op.saved \subseteq Kept(work, stack')
    BY <1>1, <2>3 DEF IInv, Undisturbed, Removing
  <2>5. NothingLost'
    BY <1>1, <2>3, <2>4 DEF IInv, Undisturbed, NothingLost, user
  <2>6. ParkedIsListed'
    <3>1. \A s \in Sessions : Own(s, stack) # {} => journal[s] # "absent"
      BY <2>1, ListedBySession DEF IInv, Undisturbed, ParkedIsListed
    <3>2. \A i \in DOMAIN stack' : stack'[i].session # None => journal[stack'[i].session] # "absent"
      BY <1>3, <3>1, ListedBySession
    <3> QED BY <1>1, <3>2 DEF ParkedIsListed
  <2> QED BY <1>1, <1>2, <2>3, <2>5, <2>6 DEF Undisturbed, Removing
<1> QED BY <1>4, <1>5, <1>6, <1>7, <1>8, <1>9, <1>10 DEF IInv

LEMMA DropIInv ==
  ASSUME IInv, (Drop("remove") /\ UNCHANGED faults) \/ DropReportedFailed
  PROVE  IInv'
<1>1. faults \in 0 .. MaxFaults /\ MaxFaults \in Nat
  BY BoundAssumption DEF IInv, Typed, TypeOK
<1>2. CASE Drop("remove") /\ UNCHANGED faults
  BY <1>1, <1>2, DroppedIInv
<1>3. CASE DropReportedFailed
  <2>1. faults' \in 0 .. MaxFaults /\ Drop("retain")
    BY <1>1, <1>3 DEF DropReportedFailed
  <2> QED BY <2>1, DroppedIInv
<1> QED BY <1>2, <1>3

-----------------------------------------------------------------------------
(***************************************************************************)
(* Steps of the user and of other programs.                                *)
(***************************************************************************)
\* What every such step leaves true is enough for the invariant.
Harmless ==
  /\ branch' \in Branches /\ work' \subseteq Changes /\ stack' \in Seq(Entries)
  /\ made' \subseteq Changes /\ taken' \subseteq Sessions
  /\ OneStash(stack') /\ Marked(stack') /\ FewForeign(stack')
  /\ \A s \in Sessions : Own(s, stack) = {} => Own(s, stack') = {}
  /\ \A s \in Sessions : Own(s, stack) # {} \/ s \in taken => Own(s, stack') # {} \/ s \in taken'
  /\ \A s \in Sessions : \A x : SavedAs(s, x, stack) => SavedAs(s, x, stack')

Kind ==
  /\ op.pc \in Removing =>
       Elsewhere(op.session, work, stack) \subseteq Elsewhere(op.session, work', stack')
  /\ op.pc = "drop" => stack' = stack
  /\ made \subseteq Kept(work, stack) => made' \subseteq Kept(work', stack')

LEMMA OutsideIInv ==
  ASSUME IInv, Outside, Harmless, QuietRemoval => Kind
  PROVE  IInv'
<1>1. UNCHANGED <<journal, plans, op, result, attempted, faults>>
  BY DEF Outside
<1>2. op.pc \notin Switching \cup {"idle"} => op.session \in Sessions
  BY DEF IInv, Operating
<1>3. op.session \in Sessions \cup {None} /\ result.session \in Sessions \cup {None}
  BY DEF IInv, Typed, TypeOK
<1>4. Typed'
  BY <1>1 DEF IInv, Typed, TypeOK, Harmless
<1>5. Stacked'
  BY <1>1 DEF IInv, Stacked, Harmless
<1>6. Operating'
  BY <1>1 DEF IInv, Operating
<1>7. \A s \in Sessions \cup {None} : HasBackup(s) => HasBackup(s)'
  BY <1>1 DEF HasBackup, Harmless
<1>8. Backing'
  <2>1. op.pc \in {"prepare", "push"} => Own(op.session, stack') = {}
    BY <1>2 DEF IInv, Backing, Harmless, Switching
  <2>2. /\ op.pc \in Backed => HasBackup(op.session)'
        /\ op.pc = "catch" /\ op.moved => HasBackup(op.session)'
    BY <1>1, <1>3, <1>7 DEF IInv, Backing
  <2>3. op.pc \in {"apply"} \cup AppliedSteps => SavedAs(op.session, op.saved, stack')
    BY <1>2 DEF IInv, Backing, Harmless, Switching, AppliedSteps, Removing
  <2> QED BY <1>1, <2>1, <2>2, <2>3 DEF IInv, Backing
<1>9. Journalled'
  BY <1>1 DEF IInv, Journalled, Harmless, Typed, TypeOK
<1>10. OutcomeIsTrue'
  BY <1>1, <1>3 DEF IInv, OutcomeIsTrue, Harmless
<1>11. QuietRemoval => Undisturbed'
  <2> SUFFICES ASSUME QuietRemoval PROVE Undisturbed'
    OBVIOUS
  <2>1. op.pc = "remove" => Own(op.session, stack') = {}
    BY <1>2 DEF IInv, Undisturbed, Harmless, Switching
  <2>2. op.pc \in Removing => op.saved \subseteq Elsewhere(op.session, work', stack')
    BY DEF IInv, Undisturbed, Kind
  <2>3. op.pc = "drop" => op.at \in Own(op.session, stack')
    BY DEF IInv, Undisturbed, Kind
  <2>4. made' \subseteq Kept(work', stack')
    BY DEF IInv, Undisturbed, NothingLost, Kind
  <2>5. \A k \in DOMAIN stack' : stack'[k].session # None => journal[stack'[k].session] # "absent"
    <3>1. \A s \in Sessions : Own(s, stack) # {} => journal[s] # "absent"
      BY ListedBySession DEF IInv, Undisturbed, ParkedIsListed, Typed, TypeOK
    <3>2. \A s \in Sessions : Own(s, stack') # {} => journal[s] # "absent"
      BY <3>1 DEF Harmless
    <3> QED BY <3>2, ListedBySession DEF Harmless
  <2> QED BY <1>1, <2>1, <2>2, <2>3, <2>4, <2>5 DEF Undisturbed, ParkedIsListed, NothingLost
<1> QED BY <1>4, <1>5, <1>6, <1>8, <1>9, <1>10, <1>11 DEF IInv

LEMMA EditIInv ==
  ASSUME IInv, NEW c \in Changes, Edit(c) \/ Discard(c)
  PROVE  IInv'
<1>1. /\ UNCHANGED <<branch, stack, taken>> /\ Outside
      /\ work' \subseteq Changes /\ made' \subseteq Changes
  BY DEF Edit, Discard, IInv, Typed, TypeOK
<1>2. Harmless
  BY <1>1 DEF Harmless, IInv, Typed, TypeOK, Stacked
<1>3. QuietRemoval => Kind
  <2>1. CASE Edit(c)
    <3>1. work \subseteq work' /\ made' = made \cup {c} /\ c \in work' /\ stack' = stack
      BY <2>1 DEF Edit
    <3>2. Kept(work, stack) \subseteq Kept(work', stack) /\ c \in Kept(work', stack)
      BY <3>1 DEF Kept
    <3> QED BY <3>1, <3>2 DEF Kind, Elsewhere
  <2>2. CASE Discard(c)
    BY <2>2 DEF Discard, Kind, QuietWork, Removing
  <2> QED BY <2>1, <2>2
<1> QED BY <1>1, <1>2, <1>3, OutsideIInv

LEMMA ForeignSwitchIInv ==
  ASSUME IInv, NEW b \in Branches, ForeignSwitch(b)
  PROVE  IInv'
<1>1. branch' = b /\ UNCHANGED <<work, stack, made, taken>> /\ Outside
  BY DEF ForeignSwitch, user
<1>2. Harmless /\ Kind
  BY <1>1 DEF Harmless, Kind, IInv, Typed, TypeOK, Stacked
<1> QED BY <1>1, <1>2, OutsideIInv

LEMMA ForeignPushIInv ==
  ASSUME IInv, ForeignPush
  PROVE  IInv'
<1> DEFINE e == [session |-> None, object |-> NewObject, saved |-> work]
<1>1. /\ stack' = <<e>> \o stack /\ work' = {} /\ UNCHANGED <<branch, made, taken>> /\ Outside
      /\ Cardinality(Own(None, stack)) < MaxForeign
      /\ QuietRemoval => op.pc # "drop"
  BY DEF ForeignPush, QuietStack, user
<1>2. /\ stack \in Seq(Entries) /\ op.stack \in Seq(Entries)
      /\ branch \in Branches /\ work \subseteq Changes /\ made \subseteq Changes /\ taken \subseteq Sessions
      /\ OneStash(stack) /\ Marked(stack) /\ FewForeign(stack) /\ Marked(op.stack) /\ FewForeign(op.stack)
  BY DEF IInv, Typed, TypeOK, Operations, Stacked
<1>3. e \in Entries
  <2>1. NewObject \in 0 .. 2 * MaxForeign + 1
    BY <1>2, NewObjectExists, BoundAssumption
  <2> QED BY <1>2, <2>1 DEF Entries
<1>4. e.session = None /\ e.saved = work
  OBVIOUS
<1> HIDE DEF e
<1>5. /\ stack' \in Seq(Entries)
      /\ \A s : s # e.session => (Own(s, stack') = {} <=> Own(s, stack) = {})
      /\ OneStash(stack) /\ (e.session # None => Own(e.session, stack) = {}) => OneStash(stack')
      /\ Marked(stack) /\ (e.session # None => e.object = 0) => Marked(stack')
      /\ \A s, x : s # e.session /\ SavedAs(s, x, stack) => SavedAs(s, x, stack')
  BY <1>1, <1>2, <1>3, PushedStack
<1>6. FewForeign(stack')
  BY <1>1, <1>2, <1>3, PushedForeign
<1>7. Harmless
  BY <1>1, <1>2, <1>4, <1>5, <1>6, NoneAssumption DEF Harmless
<1>8. ASSUME QuietRemoval PROVE Kind
  <2>0. e \in Entries /\ stack \in Seq(Entries) /\ stack' = <<e>> \o stack
    BY <1>1, <1>2, <1>3
  <2>1. op.pc # "drop"
    BY <1>1, <1>8
  <2>2. \A w : Kept(w, stack') = Kept(w, stack) \cup e.saved
    BY <2>0, PushedKept
  <2>3. Kept(work, stack) \subseteq Kept(work', stack')
    BY <1>1, <1>4, <2>2 DEF Kept
  <2>4. ASSUME op.session # None
        PROVE  Elsewhere(op.session, work, stack) \subseteq Elsewhere(op.session, work', stack')
    <3>1. op.session # e.session
      BY <1>4, <2>4
    <3>2. /\ Elsewhere(op.session, {}, stack) \subseteq Elsewhere(op.session, {}, stack')
          /\ e.saved \subseteq Elsewhere(op.session, {}, stack')
      BY <2>0, <3>1, PushedElsewhere
    <3> QED BY <1>1, <1>4, <3>2 DEF Elsewhere
  <2>5. op.pc \in Removing => op.session # None
    BY NoneAssumption DEF IInv, Operating, Removing, Switching
  <2> QED BY <1>1, <2>1, <2>3, <2>4, <2>5 DEF Kind
<1> QED BY <1>1, <1>7, <1>8, OutsideIInv

\* The user takes an entry off the stack, and what it saved is in the tree or
\* is given up.
LEMMA TakenHarmless ==
  ASSUME IInv, NEW i \in DOMAIN stack, stack' = RemoveAt(stack, i),
         taken' = taken \cup ({stack[i].session} \ {None}),
         branch' \in Branches, work' \subseteq Changes, made' \subseteq Changes
  PROVE  Harmless
<1>1. stack \in Seq(Entries) /\ OneStash(stack) /\ Marked(stack) /\ FewForeign(stack)
  BY DEF IInv, Typed, TypeOK, Stacked
<1>2. /\ stack' \in Seq(Entries)
      /\ OneStash(stack) => OneStash(stack')
      /\ Marked(stack) => Marked(stack')
      /\ \A s : Own(s, stack) = {} => Own(s, stack') = {}
      /\ \A s : s # stack[i].session /\ Own(s, stack) # {} => Own(s, stack') # {}
      /\ \A s, x : SavedAs(s, x, stack) => SavedAs(s, x, stack')
  <2>1. stack' \in Seq(Entries) /\ (OneStash(stack) => OneStash(stack')) /\ (Marked(stack) => Marked(stack'))
    BY <1>1, RemovedStack
  <2>2. \A s : Own(s, stack) = {} => Own(s, stack') = {}
    BY <1>1, RemovedStack
  <2>3. \A s : s # stack[i].session /\ Own(s, stack) # {} => Own(s, stack') # {}
    BY <1>1, RemovedStack
  <2>4. \A s, x : SavedAs(s, x, stack) => SavedAs(s, x, stack')
    BY <1>1, RemovedStack
  <2> QED BY <2>1, <2>2, <2>3, <2>4
<1>3. FewForeign(stack')
  BY <1>1, RemovedForeign
<1>4. stack[i].session \in Sessions \cup {None} /\ taken \subseteq Sessions
  BY <1>1, EntryTyped DEF IInv, Typed, TypeOK
<1>5. \A s \in Sessions : Own(s, stack) # {} \/ s \in taken => Own(s, stack') # {} \/ s \in taken'
  BY <1>2, NoneAssumption
<1> QED BY <1>1, <1>2, <1>3, <1>4, <1>5 DEF Harmless

LEMMA ForeignPopIInv ==
  ASSUME IInv, NEW i \in DOMAIN stack, ForeignPop(i)
  PROVE  IInv'
<1>1. /\ stack' = RemoveAt(stack, i) /\ work = {} /\ work' = stack[i].saved
      /\ taken' = taken \cup ({stack[i].session} \ {None})
      /\ UNCHANGED <<branch, made>> /\ Outside
      /\ QuietRemoval => op.pc # "drop"
  BY DEF ForeignPop, QuietStack
<1>2. stack \in Seq(Entries) /\ branch \in Branches /\ made \subseteq Changes
  BY DEF IInv, Typed, TypeOK
<1>3. work' \subseteq Changes
  BY <1>1, <1>2, EntryTyped
<1>4. Harmless
  BY <1>1, <1>2, <1>3, TakenHarmless
<1>5. ASSUME QuietRemoval PROVE Kind
  <2>1. Kept(work, stack) \subseteq Kept(work, stack') \cup work'
    BY <1>1, <1>2, RemovedKept
  <2>2. Kept(work, stack) \subseteq Kept(work', stack')
    BY <1>1, <2>1 DEF Kept
  <2>3. \A s : Elsewhere(s, work, stack) \subseteq Elsewhere(s, work, stack') \cup work'
    BY <1>1, <1>2, RemovedKept
  <2>4. Elsewhere(op.session, work, stack) \subseteq Elsewhere(op.session, work', stack')
    BY <1>1, <2>3 DEF Elsewhere
  <2> QED BY <1>1, <1>5, <2>2, <2>4 DEF Kind
<1> QED BY <1>1, <1>4, <1>5, OutsideIInv

LEMMA ForeignDropIInv ==
  ASSUME IInv, NEW i \in DOMAIN stack, ForeignDrop(i)
  PROVE  IInv'
<1>1. /\ stack' = RemoveAt(stack, i) /\ made' = made \cap Kept(work, stack')
      /\ taken' = taken \cup ({stack[i].session} \ {None})
      /\ UNCHANGED <<branch, work>> /\ Outside
      /\ QuietRemoval => op.pc \notin Removing
  BY DEF ForeignDrop, QuietWork, Removing
<1>2. branch \in Branches /\ made' \subseteq Changes /\ work \subseteq Changes
  BY <1>1 DEF IInv, Typed, TypeOK
<1>3. Harmless
  BY <1>1, <1>2, TakenHarmless
<1>4. QuietRemoval => Kind
  BY <1>1 DEF Kind, Removing
<1> QED BY <1>1, <1>3, <1>4, OutsideIInv

-----------------------------------------------------------------------------
(***************************************************************************)
(* The theorems.                                                           *)
(***************************************************************************)
LEMMA InitIInv == Init => IInv
<1> SUFFICES ASSUME Init PROVE IInv
  OBVIOUS
<1> USE NoneAssumption, EmptyStack
    DEF Init, Idle, NoResult, Phases, Steps, Reviewed, Saving, Switching, Applying, Removing,
        AppliedSteps, Backed
<1>0. 0 \in 0 .. MaxFaults
  BY BoundAssumption
<1>1. DOMAIN stack = {}
  OBVIOUS
<1>2. Typed
  <2>1. op \in Operations /\ result \in Results
    BY DEF Operations, Results
  <2> QED BY <1>0, <2>1 DEF Typed, TypeOK
<1>3. Stacked
  BY <1>1 DEF Stacked, OneStash
<1>4. Operating /\ Backing /\ Journalled
  BY DEF Operating, Backing, Journalled
<1>5. OutcomeIsTrue
  BY DEF OutcomeIsTrue
<1>6. Undisturbed
  BY <1>1 DEF Undisturbed, ParkedIsListed, NothingLost
<1> QED BY <1>2, <1>3, <1>4, <1>5, <1>6 DEF IInv

LEMMA StutterIInv ==
  ASSUME IInv, UNCHANGED vars
  PROVE  IInv'
<1>1. Typed' /\ Stacked' /\ Operating'
  BY DEF IInv, Typed, TypeOK, Stacked, Operating, vars, repository, user
<1>2. Backing' /\ Journalled' /\ OutcomeIsTrue'
  BY DEF IInv, Backing, HasBackup, Journalled, OutcomeIsTrue, vars, repository, user
<1>3. QuietRemoval => Undisturbed'
  BY DEF IInv, Undisturbed, ParkedIsListed, NothingLost, vars, repository, user
<1> QED BY <1>1, <1>2, <1>3 DEF IInv

LEMMA NextIInv == IInv /\ [Next]_vars => IInv'
<1> SUFFICES ASSUME IInv, [Next]_vars PROVE IInv'
  OBVIOUS
<1>1. CASE UserStep
  BY <1>1, EditIInv, ForeignPushIInv, ForeignPopIInv, ForeignDropIInv, ForeignSwitchIInv DEF UserStep
<1>2. CASE Review
  BY <1>2, ReviewIInv
<1>3. CASE Operation
  <2>1. ASSUME NEW p \in plans, NEW carry \in BOOLEAN, NEW s \in Sessions \cup {None},
               Execute(p, carry, s)
        PROVE  IInv'
    BY <2>1, ExecuteIInv
  <2>2. ASSUME NEW p \in plans, NEW s \in Sessions, Restore(p, s)
        PROVE  IInv'
    BY <2>2, RestoreIInv
  <2>3. CASE Prepare \/ Push \/ Record \/ Check \/ Switch \/ Switched \/ Catch
    BY <2>3, PrepareIInv, PushIInv, RecordIInv, CheckIInv, SwitchIInv, SwitchedIInv, CatchIInv
  <2>4. CASE Ready \/ Apply \/ Collide \/ Conflict \/ Applied
    BY <2>4, ReadyIInv, ApplyIInv, CollideIInv, ConflictIInv, AppliedIInv
  <2>5. CASE Confirm \/ Latest \/ Ref \/ (Drop("remove") /\ UNCHANGED faults) \/ Forget \/ Retain
    BY <2>5, ConfirmIInv, LatestIInv, RefIInv, DropIInv, ForgetIInv, RetainIInv
  <2> QED BY <1>3, <2>1, <2>2, <2>3, <2>4, <2>5 DEF Operation
<1>4. CASE Fault
  BY <1>4, FailIInv, CrashIInv, PushIInv, SwitchInterruptedIInv, DropIInv DEF Fault
<1>5. CASE UNCHANGED vars
  BY <1>5, StutterIInv
<1> QED BY <1>1, <1>2, <1>3, <1>4, <1>5 DEF Next

LEMMA Invariant == Spec => []IInv
BY InitIInv, NextIInv, PTL DEF Spec

\* Types of the state: the journal's phases, the steps of an operation and the
\* bounds on faults and on the stashes of other programs.
THEOREM TypeCorrect == Spec => []TypeOK
BY Invariant, PTL DEF IInv, Typed

\* What execute() and restore() return is what happened, whatever fails, dies
\* or interferes: a move of HEAD, an application of the changes, and a backup
\* unless the user removed it.
THEOREM OutcomesAreTrue == Spec => []OutcomeIsTrue
BY Invariant, PTL DEF IInv

\* No change of the user is lost between the tree and the stashes, if nobody
\* disturbs the removal of a stash.
THEOREM ChangesAreKept == ASSUME QuietRemoval PROVE Spec => []NothingLost
<1>1. IInv => NothingLost
  BY DEF IInv, Undisturbed
<1> QED BY <1>1, Invariant, PTL

\* Every stash of the service has its session in the journal, through crashes
\* before and after it is made, applied and removed.
THEOREM StashesAreListed == ASSUME QuietRemoval PROVE Spec => []ParkedIsListed
<1>1. IInv => ParkedIsListed
  BY DEF IInv, Undisturbed
<1> QED BY <1>1, Invariant, PTL

\* A stash that may have been applied is applied again only after a review:
\* the journal says so from before "stash apply", so that a crash cannot hide it.
THEOREM NeverReapplied == Spec => NoBlindReapply
<1>1. ASSUME IInv, At("apply"), op.session \in attempted
      PROVE  op.reviewed
  BY <1>1 DEF IInv, Backing, Applying, At
<1>2. IInv => [(At("apply") /\ op'.pc \in {"applied", "conflict"} /\ op.session \in attempted)
                 => op.reviewed]_vars
  BY <1>1
<1> QED BY <1>2, Invariant, PTL DEF NoBlindReapply

\* "stash drop", which takes an index, removes the stash of the operation's own
\* session, and what it saved is still in the tree or in another stash.
THEOREM DropsAreRestored == ASSUME QuietRemoval PROVE Spec => DropsOnlyRestored
<1>1. ASSUME IInv, [Next]_vars, At("drop"), stack' # stack, op' # op
      PROVE  /\ stack[op.at].session = op.session
             /\ stack[op.at].saved \subseteq Kept(work', stack')
  <2>1. /\ op.at \in DOMAIN stack /\ stack[op.at].session = op.session
        /\ stack[op.at].saved = op.saved
        /\ op.saved \subseteq Elsewhere(op.session, work, stack)
        /\ op.session # None /\ stack \in Seq(Entries) /\ OneStash(stack)
    BY <1>1, NoneAssumption
       DEF At, IInv, Undisturbed, Own, Backing, SavedAs, AppliedSteps, Removing, Operating,
           Switching, Stacked, Typed, TypeOK
  <2>2. stack' = RemoveAt(stack, op.at) /\ work' = work
    <3>1. CASE UserStep \/ Review \/ UNCHANGED vars
      BY <3>1, <1>1 DEF UserStep, Edit, Discard, ForeignPush, ForeignPop, ForeignDrop,
           ForeignSwitch, Outside, Review, List, Expire, InspectTarget, InspectSession, vars
    <3>2. CASE Operation
      BY <3>2, <1>1 DEF Operation, At, Execute, Restore, Prepare, Push, Record, Check, Switch,
           Switched, Catch, Ready, Apply, Collide, Conflict, Applied, Confirm, Latest, Ref,
           Drop, Forget, Retain
    <3>3. CASE Fault
      BY <3>3, <1>1 DEF Fault, Fail, Crash, PushHalfway, SwitchInterrupted, DropReportedFailed,
           At, Drop, repository
    <3> QED BY <3>1, <3>2, <3>3, <1>1 DEF Next
  <2>3. Elsewhere(stack[op.at].session, work, stack) \subseteq Kept(work, stack')
    BY <2>1, <2>2, RemovedKept
  <2> QED BY <2>1, <2>2, <2>3
<1>2. IInv /\ [Next]_vars =>
        [(At("drop") /\ stack' # stack /\ op' # op)
           => /\ stack[op.at].session = op.session
              /\ stack[op.at].saved \subseteq Kept(work', stack')]_vars
  BY <1>1
<1> QED BY <1>2, Invariant, PTL DEF Spec, DropsOnlyRestored

=============================================================================
