---------------------------- MODULE ReviewsProofs ----------------------------
(***************************************************************************)
(* Proofs about JournalFile and Reviews, for any length a file rotates at, *)
(* any failures, days, requests and restarts: what a reader of the journal *)
(* can rely on, that the review state is never ahead of what the daily     *)
(* gate saw, and how often a request wakes the operator.                   *)
(***************************************************************************)
EXTENDS Reviews, Integers, FiniteSetTheorems, SequenceTheorems, WellFoundedInduction, TLAPS

(***************************************************************************)
(* Natural numbers: a set has a least one, a bounded set a greatest.       *)
(***************************************************************************)
LEMMA LeastNat ==
  ASSUME NEW T \in SUBSET Nat, T # {}
  PROVE  \E x \in T : \A y \in T : x <= y
<1>. DEFINE R == OpToRel(<, Nat)
<1>1. IsWellFoundedOn(R, Nat)
  BY NatLessThanWellFounded
<1>2. \A x, y \in Nat : y < x => <<y, x>> \in R
  BY DEF OpToRel
<1>. HIDE DEF R
<1>3. PICK x \in T : \A y \in T : ~ (<<y, x>> \in R)
  BY <1>1, WFMin
<1>4. \A y \in T : ~ (y < x)
  BY <1>2, <1>3
<1>5. QED
  BY <1>4

LEMMA GreatestNat ==
  ASSUME NEW n \in Nat, NEW T \in SUBSET (1..n), T # {}
  PROVE  \E x \in T : \A y \in T : y <= x
<1>. DEFINE D == {n - x : x \in T}
<1>1. D \in SUBSET Nat /\ D # {}
  <2>1. \A x \in T : n - x \in Nat
    OBVIOUS
  <2>2. QED
    BY <2>1
<1>2. PICK z \in D : \A y \in D : z <= y
  <2>. HIDE DEF D
  <2>1. QED
    BY <1>1, LeastNat
<1>3. PICK x \in T : z = n - x
  OBVIOUS
<1>4. \A y \in T : n - x <= n - y
  BY <1>2, <1>3
<1>5. QED
  BY <1>4

(***************************************************************************)
(* The two files hold the last pieces written, numbered without a gap, and *)
(* either all of them or at least RotateAt.  R is what they may record.    *)
(***************************************************************************)
Numbered(f, R, before) ==
  /\ f \in Seq(Pieces(R))
  /\ \A n \in 1..Len(f) : f[n].id = before + n /\ (f[n].whole \/ ~f[n].ended)

Lined(j, R) ==
  /\ j = [file |-> j.file, rotated |-> j.rotated, written |-> j.written, acked |-> j.acked]
  /\ j.written \in Nat /\ j.acked \subseteq 1..j.written
  /\ Numbered(j.file, R, j.written - Len(j.file))
  /\ Numbered(j.rotated, R, j.written - Len(j.file) - Len(j.rotated))
  /\ Len(j.file) + Len(j.rotated) <= j.written
  /\ Len(j.file) + Len(j.rotated) = j.written \/ Len(j.rotated) >= RotateAt

LEMMA LinedGrows ==
  ASSUME NEW j, NEW R, NEW S, Lined(j, R), R \subseteq S
  PROVE  Lined(j, S)
<1>1. Pieces(R) \subseteq Pieces(S)
  BY DEF Pieces
<1>2. j.file \in Seq(Pieces(S)) /\ j.rotated \in Seq(Pieces(S))
  BY <1>1, SeqMonotonic DEF Lined, Numbered
<1>3. QED
  BY <1>2 DEF Lined, Numbered

LEMMA RotatedLined ==
  ASSUME NEW j, NEW R, Lined(j, R)
  PROVE  Lined(Rotated(j), R) /\ Rotated(j).written = j.written /\ Rotated(j).acked = j.acked
<1>1. CASE ~Full(j)
  BY <1>1 DEF Rotated
<1>2. CASE Full(j)
  <2>1. Rotated(j) = [file |-> <<>>, rotated |-> j.file, written |-> j.written, acked |-> j.acked]
    BY <1>2 DEF Rotated, Lined
  <2>2. Len(j.file) \in Nat /\ Len(j.file) >= RotateAt /\ Len(j.rotated) \in Nat
    BY <1>2, LenProperties DEF Full, Lined, Numbered
  <2>3. Numbered(<<>>, R, j.written) /\ Len(<<>>) = 0
    BY DEF Numbered
  <2>4. QED
    BY <2>1, <2>2, <2>3 DEF Lined
<1>3. QED
  BY <1>1, <1>2

LEMMA PieceTyped ==
  ASSUME NEW id \in Nat, NEW R, NEW record \in R, NEW outcome
  PROVE  LET p == Piece(id, record, outcome)
         IN  p \in Pieces(R) /\ p.id = id /\ p.record = record /\ (p.whole \/ ~p.ended)
<1>. DEFINE whole == outcome \in {"whole", "unsynced", "unended"}
            ended == outcome \in {"whole", "unsynced"}
<1>1. whole \in BOOLEAN /\ ended \in BOOLEAN /\ (whole \/ ~ended)
  OBVIOUS
<1>2. Piece(id, record, outcome) = [id |-> id, record |-> record, whole |-> whole, ended |-> ended]
  BY DEF Piece
<1>. HIDE DEF whole, ended
<1>3. QED
  BY <1>1, <1>2 DEF Pieces

\* An append of a record of R keeps the files lined.
LEMMA AppendsLined ==
  ASSUME NEW j, NEW R, Lined(j, R), NEW record \in R,
         NEW outcome \in Outcomes \union {"cut"}, NEW k \in Appends(j, record, outcome)
  PROVE  Lined(k, R)
<1>. DEFINE d == Rotated(j)  id == j.written + 1  p == Piece(id, record, outcome)
<1>1. Lined(d, R) /\ d.written = j.written /\ d.acked = j.acked
  BY RotatedLined
<1>0. j.written \in Nat /\ id \in Nat /\ j.acked \subseteq 1..j.written
  BY DEF Lined
<1>2. CASE outcome = "unwritten"
  BY <1>1, <1>2 DEF Appends
<1>3. CASE outcome # "unwritten"
  <2>1. /\ k.file = Append(d.file, p) /\ k.rotated = d.rotated /\ k.written = id
        /\ k.acked = IF outcome \in Acknowledged THEN j.acked \union {id} ELSE j.acked
        /\ k = [file |-> k.file, rotated |-> k.rotated, written |-> k.written, acked |-> k.acked]
    BY <1>3 DEF Appends
  <2>2. p \in Pieces(R) /\ p.id = id /\ (p.whole \/ ~p.ended)
    BY <1>0, PieceTyped
  <2>. HIDE DEF d, p
  <2>3. d.file \in Seq(Pieces(R)) /\ Len(d.file) \in Nat /\ Len(d.rotated) \in Nat
    BY <1>1, LenProperties DEF Lined, Numbered
  <2>4. /\ k.file \in Seq(Pieces(R)) /\ Len(k.file) = Len(d.file) + 1
        /\ \A n \in 1..Len(d.file) : k.file[n] = d.file[n]
        /\ k.file[Len(d.file) + 1] = p
    BY <2>1, <2>2, <2>3
  <2>5. k.written - Len(k.file) = d.written - Len(d.file) /\ d.written \in Nat
    BY <1>0, <1>1, <2>1, <2>3, <2>4
  <2>6. Numbered(k.file, R, k.written - Len(k.file))
    <3>1. SUFFICES ASSUME NEW n \in 1..Len(k.file)
                   PROVE  k.file[n].id = k.written - Len(k.file) + n /\ (k.file[n].whole \/ ~k.file[n].ended)
      BY <2>4 DEF Numbered
    <3>2. CASE n \in 1..Len(d.file)
      <4>1. d.file[n].id = d.written - Len(d.file) + n /\ (d.file[n].whole \/ ~d.file[n].ended)
        BY <3>2, <1>1 DEF Lined, Numbered
      <4>2. QED
        BY <3>2, <2>4, <2>5, <4>1
    <3>3. CASE n = Len(d.file) + 1
      BY <3>3, <1>0, <1>1, <2>2, <2>3, <2>4, <2>5
    <3>4. QED
      BY <3>2, <3>3, <2>3, <2>4
  <2>7. k.acked \subseteq 1..k.written
    BY <1>0, <2>1
  <2>8. Numbered(k.rotated, R, k.written - Len(k.file) - Len(k.rotated))
    BY <1>1, <2>1, <2>5 DEF Lined
  <2>9. /\ Len(k.file) + Len(k.rotated) <= k.written
        /\ Len(k.file) + Len(k.rotated) = k.written \/ Len(k.rotated) >= RotateAt
    BY <1>0, <1>1, <2>1, <2>3, <2>4 DEF Lined
  <2>10. QED
    BY <1>0, <2>1, <2>6, <2>7, <2>8, <2>9 DEF Lined
<1>4. QED
  BY <1>2, <1>3

(***************************************************************************)
(* Reading lined files.                                                    *)
(***************************************************************************)
\* A piece of a file is read, or it or the one before it was left unended.
LEMMA ReadOrUnended ==
  ASSUME NEW R, NEW f \in {journal.file, journal.rotated}, NEW before \in Int,
         Numbered(f, R, before), NEW i \in Int, before < i, i <= before + Len(f)
  PROVE  (\E p \in Lines(f) : p.id = i) \/ Unended(i) \/ Unended(i - 1)
<1>0. Len(f) \in Nat /\ DOMAIN f = 1..Len(f)
  BY LenProperties DEF Numbered
<1>1. PICK n \in 1..Len(f) : i = before + n
  <2>1. i - before \in 1..Len(f) /\ i = before + (i - before)
    BY <1>0
  <2>2. QED
    BY <2>1
<1>2. f[n].id = i /\ (f[n].whole \/ ~f[n].ended)
  BY <1>1 DEF Numbered
<1>3. CASE Readable(f, n)
  BY <1>0, <1>2, <1>3 DEF Lines
<1>4. CASE ~f[n].ended
  BY <1>0, <1>2, <1>4 DEF Unended
<1>5. CASE n # 1 /\ ~f[n - 1].ended
  <2>1. n - 1 \in 1..Len(f)
    BY <1>0, <1>5
  <2>2. f[n - 1].id = before + (n - 1)
    BY <2>1 DEF Numbered
  <2>3. before + (n - 1) = i - 1
    BY <1>1
  <2>4. QED
    BY <1>0, <1>5, <2>1, <2>2, <2>3 DEF Unended
<1>6. QED
  BY <1>2, <1>3, <1>4, <1>5 DEF Readable

LEMMA LinedKeepsWindow ==
  ASSUME NEW R, Lined(journal, R)
  PROVE  KeepsWindow
<1>1. /\ journal.written \in Nat /\ Len(journal.file) \in Nat /\ Len(journal.rotated) \in Nat
      /\ RotateAt \in Nat /\ journal.acked \subseteq 1..journal.written
  BY LenProperties, JournalAssumption DEF Lined, Numbered
<1>2. /\ Numbered(journal.file, R, journal.written - Len(journal.file))
      /\ Numbered(journal.rotated, R, journal.written - Len(journal.file) - Len(journal.rotated))
      /\ Len(journal.file) + Len(journal.rotated) = journal.written \/ Len(journal.rotated) >= RotateAt
  BY DEF Lined
<1>3. SUFFICES ASSUME NEW i \in journal.acked, i + RotateAt > journal.written
               PROVE  \/ \E p \in Lines(journal.rotated) \union Lines(journal.file) : p.id = i
                      \/ Unended(i) \/ Unended(i - 1)
  BY DEF KeepsWindow
<1>4. i \in Int /\ 1 <= i /\ i <= journal.written
  BY <1>1
<1>5. CASE i > journal.written - Len(journal.file)
  <2>1. /\ journal.written - Len(journal.file) \in Int
        /\ i <= (journal.written - Len(journal.file)) + Len(journal.file)
    BY <1>1, <1>4
  <2>2. (\E p \in Lines(journal.file) : p.id = i) \/ Unended(i) \/ Unended(i - 1)
    BY <1>2, <1>4, <1>5, <2>1, ReadOrUnended
  <2>3. QED
    BY <2>2
<1>6. CASE i <= journal.written - Len(journal.file)
  <2>1. /\ journal.written - Len(journal.file) - Len(journal.rotated) \in Int
        /\ journal.written - Len(journal.file) - Len(journal.rotated) < i
        /\ i <= (journal.written - Len(journal.file) - Len(journal.rotated)) + Len(journal.rotated)
    <3>1. \A w, lf, lr, at \in Nat :
            /\ i <= w - lf /\ i + at > w /\ (lf + lr = w \/ lr >= at)
            => w - lf - lr \in Int /\ w - lf - lr < i /\ i <= (w - lf - lr) + lr
      BY <1>4
    <3>2. QED
      BY <1>1, <1>2, <1>3, <1>6, <3>1
  <2>2. (\E p \in Lines(journal.rotated) : p.id = i) \/ Unended(i) \/ Unended(i - 1)
    BY <1>2, <1>4, <2>1, ReadOrUnended
  <2>3. QED
    BY <2>2
<1>7. QED
  BY <1>1, <1>4, <1>5, <1>6

\* The newest of some lines is one of them.
LEMMA NewestLine ==
  ASSUME NEW R, NEW f, NEW before \in Int, Numbered(f, R, before), NEW kinds, OfKind(f, kinds) # {}
  PROVE  LET p == Newest(OfKind(f, kinds))
         IN  /\ p \in OfKind(f, kinds) /\ \A q \in OfKind(f, kinds) : q.id <= p.id
             /\ p.record \in {r \in R : r.kind \in kinds}
<1>. DEFINE T == {n \in 1..Len(f) : f[n] \in OfKind(f, kinds)}
<1>0. Len(f) \in Nat /\ DOMAIN f = 1..Len(f) /\ \A n \in 1..Len(f) : f[n] \in Pieces(R)
  BY LenProperties, ElementOfSeq DEF Numbered
<1>1. \A p \in OfKind(f, kinds) : \E n \in T : p = f[n]
  BY <1>0 DEF OfKind, Lines
<1>2. T \in SUBSET (1..Len(f)) /\ T # {}
  BY <1>1
<1>3. PICK x \in T : \A y \in T : y <= x
  <2>. HIDE DEF T
  <2>1. QED
    BY <1>0, <1>2, GreatestNat
<1>4. \A y \in T : f[y].id = before + y
  BY DEF Numbered
<1>5. f[x] \in OfKind(f, kinds) /\ \A q \in OfKind(f, kinds) : q.id <= f[x].id
  BY <1>1, <1>3, <1>4
<1>6. LET p == Newest(OfKind(f, kinds))
      IN  p \in OfKind(f, kinds) /\ \A q \in OfKind(f, kinds) : q.id <= p.id
  BY <1>5 DEF Newest
<1>7. QED
  BY <1>0, <1>6 DEF OfKind, Lines, Pieces

LEMMA LastRecordKept ==
  ASSUME NEW j, NEW R, Lined(j, R), NEW kinds, NEW none
  PROVE  LastRecord(j, kinds, none) \in {r \in R : r.kind \in kinds} \union {none}
<1>1. /\ j.written - Len(j.file) \in Int
      /\ j.written - Len(j.file) - Len(j.rotated) \in Int
  BY LenProperties DEF Lined, Numbered
<1>2. CASE OfKind(j.file, kinds) # {}
  BY <1>1, <1>2, NewestLine DEF LastRecord, Lined
<1>3. CASE OfKind(j.file, kinds) = {} /\ OfKind(j.rotated, kinds) # {}
  BY <1>1, <1>3, NewestLine DEF LastRecord, Lined
<1>4. CASE OfKind(j.file, kinds) = {} /\ OfKind(j.rotated, kinds) = {}
  BY <1>4 DEF LastRecord
<1>5. QED
  BY <1>2, <1>3, <1>4

(***************************************************************************)
(* What may be recorded, and what a review leaves behind: a day that has   *)
(* come, a streak no longer than the days up to it on which the gate could *)
(* count, and a tier the gate was shown.                                   *)
(***************************************************************************)
Before(days, d) == {x \in days : x <= d}
Fair(d, days, told) ==
  {r \in [kind : {"review"}, day : Nat, streak : Nat, tier : Tiers \union {None}] :
     /\ r.day <= d
     /\ r.streak <= Cardinality(Before(days, r.day))
     /\ r.tier # None => r.tier <= told}
Kept(d, days, told) ==
  Fair(d, days, told) \union Asked \union {Consumed, Other}

IInv ==
  /\ day \in Nat /\ asks \in Nat /\ toldTier \in Nat /\ gateDays \in SUBSET (0..day)
  /\ review \in Fair(day, gateDays, toldTier) \union {None}
  /\ Lined(journal, Kept(day, gateDays, toldTier))

\* Later, more is kept.
LEMMA KeptGrows ==
  ASSUME NEW d \in Nat, NEW days \in SUBSET (0..d), NEW told \in Nat,
         NEW e \in Nat, NEW more \in SUBSET (0..e), NEW now \in Nat,
         d <= e, days \subseteq more, told <= now
  PROVE  /\ Fair(d, days, told) \subseteq Fair(e, more, now)
         /\ Kept(d, days, told) \subseteq Kept(e, more, now)
<1>1. SUFFICES ASSUME NEW r \in Fair(d, days, told) PROVE r \in Fair(e, more, now)
  BY DEF Kept
<1>2. /\ r \in [kind : {"review"}, day : Nat, streak : Nat, tier : Tiers \union {None}]
      /\ r.day <= d /\ r.streak <= Cardinality(Before(days, r.day))
      /\ r.tier # None => r.tier <= told
  BY DEF Fair
<1>3. r.day \in Nat /\ r.streak \in Nat /\ (r.tier # None => r.tier \in Nat)
  BY <1>2, ReviewsAssumption
<1>4. IsFiniteSet(Before(more, r.day)) /\ Before(days, r.day) \subseteq Before(more, r.day)
  <2>1. IsFiniteSet(0..e)
    BY FS_Interval
  <2>2. Before(more, r.day) \subseteq 0..e /\ Before(days, r.day) \subseteq Before(more, r.day)
    BY DEF Before
  <2>3. QED
    BY <2>1, <2>2, FS_Subset
<1>5. /\ Cardinality(Before(days, r.day)) <= Cardinality(Before(more, r.day))
      /\ Cardinality(Before(days, r.day)) \in Nat /\ Cardinality(Before(more, r.day)) \in Nat
  BY <1>4, FS_Subset, FS_CardinalityType
<1>6. r.day <= e /\ r.streak <= Cardinality(Before(more, r.day)) /\ (r.tier # None => r.tier <= now)
  BY <1>2, <1>3, <1>5
<1>7. QED
  BY <1>2, <1>6 DEF Fair

\* What a replay of a lined journal puts in the review state.
LEMMA ReplayFair ==
  ASSUME NEW j, NEW d, NEW days, NEW told, Lined(j, Kept(d, days, told))
  PROVE  ReplayedReview(j) \in Fair(d, days, told) \union {None}
<1>1. ReplayedReview(j) \in {r \in Kept(d, days, told) : r.kind \in {"review"}} \union {None}
  BY LastRecordKept DEF ReplayedReview
<1>2. \A r \in Kept(d, days, told) : r.kind = "review" => r \in Fair(d, days, told)
  BY DEF Kept, Asked, Consumed, Other
<1>3. QED
  BY <1>1, <1>2

\* Journaling up to two records.
LEMMA JournalLined ==
  ASSUME NEW R, Lined(journal, R), NEW first, NEW o1 \in Outcomes, NEW second, NEW o2 \in Outcomes,
         first = None \/ first \in R, second = None \/ second \in R,
         Journal(first, o1, second, o2)
  PROVE  Lined(journal', R)
<1>1. PICK j \in (IF first = None THEN {journal} ELSE Appends(journal, first, o1)) :
        journal' \in IF second = None THEN {j} ELSE Appends(j, second, o2)
  BY DEF Journal
<1>2. Lined(j, R)
  BY <1>1, AppendsLined
<1>3. QED
  BY <1>1, <1>2, AppendsLined

\* The state an advancing review reaches is fair once its day is a gate day.
LEMMA ReachedFair ==
  ASSUME IInv, NEW view \in Views, NEW told \in Nat, toldTier <= told,
         view.tier # None => view.tier <= told,
         review # None => review.day # day
  PROVE  Reached(view) \in Fair(day, gateDays \union {day}, told)
<1>. DEFINE g == Before(gateDays, day - 1)
<1>1. day \in Nat /\ gateDays \in SUBSET (0..day)
  BY DEF IInv
<1>2. view.tier \in Tiers \union {None} /\ view.leg \in {"under", "target", "unknown"}
  BY DEF Views
<1>3. IsFiniteSet(g) /\ day \notin g /\ Before(gateDays \union {day}, day) = g \union {day}
  <2>1. IsFiniteSet(0..day)
    BY <1>1, FS_Interval
  <2>2. \A x \in gateDays \union {day} : x <= day /\ (x <= day - 1 <=> x # day)
    BY <1>1
  <2>3. g \subseteq 0..day /\ day \notin g
    <3>1. ~(day <= day - 1)
      BY <1>1
    <3>2. QED
      BY <1>1, <3>1 DEF Before
  <2>4. Before(gateDays \union {day}, day) = g \union {day}
    <3>1. Before(gateDays \union {day}, day) = gateDays \union {day}
      BY <2>2 DEF Before
    <3>2. g = {x \in gateDays : x # day}
      BY <2>2 DEF Before
    <3>3. QED
      BY <3>1, <3>2
  <2>5. QED
    BY <2>1, <2>3, <2>4, FS_Subset
<1>4. Cardinality(g) \in Nat /\ Cardinality(Before(gateDays \union {day}, day)) = Cardinality(g) + 1
  BY <1>3, FS_AddElement, FS_CardinalityType
<1>5. PriorStreak \in Nat /\ PriorStreak <= Cardinality(g)
  <2>1. CASE review = None
    BY <1>4, <2>1 DEF PriorStreak
  <2>2. CASE review # None
    <3>1. /\ review.day \in Nat /\ review.day <= day /\ review.streak \in Nat
          /\ review.streak <= Cardinality(Before(gateDays, review.day))
      BY <2>2 DEF IInv, Fair
    <3>2. Before(gateDays, review.day) \subseteq g
      <4>1. ASSUME NEW x \in gateDays, x <= review.day PROVE x <= day - 1
        BY <1>1, <2>2, <3>1, <4>1
      <4>2. QED
        BY <4>1 DEF Before
    <3>3. /\ Cardinality(Before(gateDays, review.day)) \in Nat
          /\ Cardinality(Before(gateDays, review.day)) <= Cardinality(g)
      BY <1>3, <3>2, FS_Subset, FS_CardinalityType
    <3>4. QED
      BY <1>4, <2>2, <3>1, <3>3 DEF PriorStreak
  <2>3. QED
    BY <2>1, <2>2
<1>6. Streak(view) \in Nat /\ Streak(view) <= Cardinality(Before(gateDays \union {day}, day))
  BY <1>4, <1>5 DEF Streak
<1>7. QED
  BY <1>1, <1>2, <1>6 DEF Reached, Fair

(***************************************************************************)
(* The invariant.                                                          *)
(***************************************************************************)
LEMMA Initially == Init => IInv
<1>. SUFFICES ASSUME Init PROVE IInv
  OBVIOUS
<1>1. Lined(journal, Kept(day, gateDays, toldTier))
  BY DEF Init, JournalInit, Lined, Numbered
<1>2. QED
  BY <1>1 DEF Init, IInv

\* What was lined stays so when a step leaves the journal alone or appends
\* records to it that may be kept by then.
LEMMA StillFair ==
  ASSUME IInv, day' \in Nat, asks' \in Nat, toldTier' \in Nat, gateDays' \in SUBSET (0..day'),
         day <= day', gateDays \subseteq gateDays', toldTier <= toldTier'
  PROVE  /\ Lined(journal, Kept(day', gateDays', toldTier'))
         /\ review \in Fair(day', gateDays', toldTier') \union {None}
<1>1. /\ Fair(day, gateDays, toldTier) \subseteq Fair(day', gateDays', toldTier')
      /\ Kept(day, gateDays, toldTier) \subseteq Kept(day', gateDays', toldTier')
  BY KeptGrows DEF IInv
<1>2. QED
  BY <1>1, LinedGrows DEF IInv

LEMMA ReviewPreserves ==
  ASSUME IInv, Review
  PROVE  IInv'
<1>1. PICK mode \in {"review", "universe"}, session \in {"cron", "chat"}, fresh \in BOOLEAN,
           o1 \in Outcomes, o2 \in Outcomes, view \in Views :
        /\ Journal(Taken(Takes(mode)), o1,
                   IF Advances(mode, session, fresh) THEN Reached(view) ELSE None, o2)
        /\ review' = IF Advances(mode, session, fresh) THEN Persisted(o2, Reached(view)) ELSE review
        /\ Observe(mode, session, fresh, view)
        /\ UNCHANGED <<day, asks>>
  <2>1. "whole" \in Outcomes
    BY DEF Outcomes
  <2>2. QED
    BY <2>1 DEF Review
<1>. DEFINE adv == Advances(mode, session, fresh)
<1>2. view.tier # None => view.tier \in Nat
  BY ReviewsAssumption DEF Views
<1>3. /\ day' = day /\ asks' = asks /\ day \in Nat /\ asks \in Nat
      /\ toldTier \in Nat /\ gateDays \in SUBSET (0..day)
  BY <1>1 DEF IInv
<1>4. /\ toldTier' \in Nat /\ toldTier <= toldTier'
      /\ gateDays \subseteq gateDays' /\ gateDays' \in SUBSET (0..day')
  BY <1>1, <1>2, <1>3 DEF Observe
<1>5. adv => /\ gateDays' = gateDays \union {day}
             /\ view.tier # None => view.tier <= toldTier'
             /\ review # None => review.day # day
  BY <1>1, <1>2, <1>3 DEF Observe, Advances
<1>6. adv => Reached(view) \in Fair(day', gateDays', toldTier')
  BY <1>3, <1>4, <1>5, ReachedFair
<1>7. /\ Lined(journal, Kept(day', gateDays', toldTier'))
      /\ review \in Fair(day', gateDays', toldTier') \union {None}
  BY <1>3, <1>4, StillFair
<1>8. review' \in Fair(day', gateDays', toldTier') \union {None}
  BY <1>1, <1>6, <1>7 DEF Persisted
<1>9. Lined(journal', Kept(day', gateDays', toldTier'))
  <2>1. Taken(Takes(mode)) \in Kept(day', gateDays', toldTier') \union {None}
    BY DEF Taken, Kept
  <2>2. (IF adv THEN Reached(view) ELSE None) \in Kept(day', gateDays', toldTier') \union {None}
    BY <1>6 DEF Kept
  <2>3. QED
    BY <1>1, <1>7, <2>1, <2>2, JournalLined
<1>10. QED
  BY <1>3, <1>4, <1>8, <1>9 DEF IInv

\* Actions that journal one record and leave the observed days and tier alone.
LEMMA OneRecord ==
  ASSUME IInv, NEW record \in Kept(day, gateDays, toldTier), NEW o \in Outcomes, JournalOne(record, o),
         UNCHANGED <<review, day, gateDays, toldTier>>, asks' \in Nat
  PROVE  IInv'
<1>1. "whole" \in Outcomes
  BY DEF Outcomes
<1>2. Lined(journal', Kept(day, gateDays, toldTier))
  BY <1>1, JournalLined DEF JournalOne, IInv
<1>3. QED
  BY <1>2 DEF IInv

LEMMA RestartPreserves ==
  ASSUME IInv, Restart
  PROVE  IInv'
<1>. DEFINE R == Kept(day, gateDays, toldTier)
<1>1. PICK j \in {journal} \union Appends(journal, Other, "cut") :
        review' = ReplayedReview(j) /\ journal' \in Appends(j, Other, "whole")
  BY DEF Restart
<1>2. UNCHANGED <<day, asks, gateDays, toldTier>>
  BY DEF Restart, observers
<1>3. Other \in R /\ "whole" \in Outcomes
  BY DEF Kept, Outcomes
<1>4. Lined(j, R)
  BY <1>1, <1>3, AppendsLined DEF IInv
<1>5. Lined(journal', R)
  BY <1>1, <1>3, <1>4, AppendsLined
<1>6. review' \in Fair(day, gateDays, toldTier) \union {None}
  BY <1>1, <1>4, ReplayFair
<1>7. QED
  BY <1>2, <1>5, <1>6 DEF IInv

LEMMA NewDayPreserves ==
  ASSUME IInv, NewDay
  PROVE  IInv'
<1>1. /\ day' \in Nat /\ day <= day' /\ asks' \in Nat /\ toldTier' \in Nat
      /\ toldTier <= toldTier' /\ gateDays \subseteq gateDays' /\ gateDays' \in SUBSET (0..day')
  BY DEF NewDay, IInv, observers
<1>2. journal' = journal /\ review' = review
  BY DEF NewDay, memory
<1>3. QED
  BY <1>1, <1>2, StillFair DEF IInv

THEOREM ReviewsInvariant == Spec => []IInv
<1>1. Init => IInv
  BY Initially
<1>2. IInv /\ [Next]_vars => IInv'
  <2>. SUFFICES ASSUME IInv, [Next]_vars PROVE IInv'
    OBVIOUS
  <2>1. CASE Review
    BY <2>1, ReviewPreserves
  <2>2. CASE Ask
    <3>1. PICK o \in Outcomes : JournalOne([kind |-> "operator-request", at |-> asks + 1], o)
      BY <2>2 DEF Ask
    <3>2. [kind |-> "operator-request", at |-> asks + 1] \in Kept(day, gateDays, toldTier) /\ asks' \in Nat
      <4>1. asks \in Nat /\ asks' = asks + 1 /\ asks + 1 \in Requests
        BY <2>2, ReviewsAssumption DEF Ask, IInv, Requests
      <4>2. QED
        BY <4>1 DEF Kept, Asked
    <3>3. UNCHANGED <<review, day, gateDays, toldTier>>
      BY <2>2 DEF Ask, observers
    <3>4. QED
      BY <3>1, <3>2, <3>3, OneRecord
  <2>3. CASE Clear
    <3>1. PICK o \in Outcomes : JournalOne(Consumed, o)
      BY <2>3 DEF Clear
    <3>2. Consumed \in Kept(day, gateDays, toldTier) /\ asks' \in Nat
      BY <2>3 DEF Clear, Kept, IInv
    <3>3. UNCHANGED <<review, day, gateDays, toldTier>>
      BY <2>3 DEF Clear
    <3>4. QED
      BY <3>1, <3>2, <3>3, OneRecord
  <2>4. CASE JournalOther
    <3>1. PICK o \in Outcomes : JournalOne(Other, o)
      BY <2>4 DEF JournalOther
    <3>2. Other \in Kept(day, gateDays, toldTier) /\ asks' \in Nat
      BY <2>4 DEF JournalOther, Kept, IInv
    <3>3. UNCHANGED <<review, day, gateDays, toldTier>>
      BY <2>4 DEF JournalOther, memory, observers
    <3>4. QED
      BY <3>1, <3>2, <3>3, OneRecord
  <2>5. CASE Restart
    BY <2>5, RestartPreserves
  <2>6. CASE NewDay
    BY <2>6, NewDayPreserves
  <2>7. CASE UNCHANGED vars
    BY <2>7 DEF vars, memory, observers, IInv
  <2>8. QED
    BY <2>1, <2>2, <2>3, <2>4, <2>5, <2>6, <2>7 DEF Next
<1>3. QED
  BY <1>1, <1>2, PTL DEF Spec

(***************************************************************************)
(* What follows from it.                                                   *)
(***************************************************************************)
\* The journal file's promise, KeepsWindow: an acknowledged record among the
\* last RotateAt is read back unless a torn line touches it.
THEOREM WindowKept == Spec => []KeepsWindow
<1>1. IInv => KeepsWindow
  BY LinedKeepsWindow DEF IInv
<1>2. QED
  BY <1>1, ReviewsInvariant, PTL

\* Both properties speak of the state in memory and of what a restart would find.
LEMMA RecordsFair ==
  ASSUME IInv, NEW r \in {review, ReplayedReview(journal)}, r # None
  PROVE  /\ r.streak <= Cardinality(gateDays)
         /\ r.tier # None => r.tier <= toldTier
<1>1. r \in Fair(day, gateDays, toldTier)
  BY ReplayFair DEF IInv
<1>2. /\ r.day \in Nat /\ r.streak \in Nat /\ r.streak <= Cardinality(Before(gateDays, r.day))
      /\ r.tier # None => r.tier <= toldTier
  BY <1>1 DEF Fair
<1>3. IsFiniteSet(gateDays) /\ Before(gateDays, r.day) \subseteq gateDays
  <2>1. IsFiniteSet(0..day)
    BY FS_Interval DEF IInv
  <2>2. Before(gateDays, r.day) \subseteq gateDays
    BY DEF Before
  <2>3. QED
    BY <2>1, <2>2, FS_Subset DEF IInv
<1>4. /\ Cardinality(Before(gateDays, r.day)) \in Nat /\ Cardinality(gateDays) \in Nat
      /\ Cardinality(Before(gateDays, r.day)) <= Cardinality(gateDays)
  BY <1>3, FS_Subset, FS_CardinalityType
<1>5. QED
  BY <1>2, <1>4

\* StreakCountsDays: a streak is never longer than the days the gate could count.
THEOREM StreaksAreDays == Spec => []StreakCountsDays
<1>1. IInv => StreakCountsDays
  BY RecordsFair DEF StreakCountsDays
<1>2. QED
  BY <1>1, ReviewsInvariant, PTL

\* RaiseReachesGate: no tier is stored that the gate was not shown.
THEOREM RaisesAreShown == Spec => []RaiseReachesGate
<1>1. IInv => RaiseReachesGate
  BY RecordsFair DEF RaiseReachesGate
<1>2. QED
  BY <1>1, ReviewsInvariant, PTL

(***************************************************************************)
(* What the model's bounds and its counters range over.                    *)
(***************************************************************************)
Typed ==
  /\ journal.written <= MaxWritten
  /\ request \in Requests \union {None}
  /\ day <= LastDay /\ asks <= MaxAsks
  /\ woken \in [Requests -> Nat] /\ cleared \subseteq Requests
  /\ toldTier \in Tiers \union {0}
  /\ failures \in 0..MaxFailures /\ restarts \in 0..MaxRestarts

\* A fair record is a reviewed one: no streak passes the last day.
LEMMA FairIsReviewed ==
  ASSUME IInv, Typed
  PROVE  /\ Fair(day, gateDays, toldTier) \subseteq Reviewed
         /\ Kept(day, gateDays, toldTier) \subseteq Records
<1>1. SUFFICES ASSUME NEW r \in Fair(day, gateDays, toldTier) PROVE r \in Reviewed
  BY DEF Kept, Records
<1>2. /\ r \in [kind : {"review"}, day : Nat, streak : Nat, tier : Tiers \union {None}]
      /\ r.day <= day /\ r.streak <= Cardinality(Before(gateDays, r.day))
  BY DEF Fair
<1>3. day \in Nat /\ day <= LastDay /\ LastDay \in Nat /\ gateDays \subseteq 0..day
  BY ReviewsAssumption DEF IInv, Typed
<1>4. IsFiniteSet(0..LastDay) /\ Cardinality(0..LastDay) = LastDay + 1
  <2>1. 0..LastDay # {}
    BY <1>3
  <2>2. IsFiniteSet(0..LastDay) /\ Cardinality(0..LastDay) = IF 0 > LastDay THEN 0 ELSE LastDay - 0 + 1
    BY <1>3, FS_Interval
  <2>3. QED
    BY <1>3, <2>2
<1>5. Before(gateDays, r.day) \subseteq 0..LastDay
  <2>1. Before(gateDays, r.day) \subseteq gateDays
    BY DEF Before
  <2>2. 0..day \subseteq 0..LastDay
    BY <1>3
  <2>3. QED
    BY <1>3, <2>1, <2>2
<1>6. /\ Cardinality(Before(gateDays, r.day)) \in Nat
      /\ Cardinality(Before(gateDays, r.day)) <= LastDay + 1
  BY <1>4, <1>5, FS_Subset, FS_CardinalityType
<1>7. r.day \in 0..LastDay /\ r.streak \in 0..LastDay + 1
  <2>1. r.day \in Nat /\ r.streak \in Nat
    BY <1>2
  <2>2. QED
    BY <1>2, <1>3, <1>6, <2>1
<1>8. QED
  BY <1>2, <1>7 DEF Reviewed

LEMMA TypedIsTypeOK ==
  ASSUME IInv, Typed
  PROVE  TypeOK
<1>1. Lined(journal, Records)
  BY FairIsReviewed, LinedGrows DEF IInv
<1>2. journal.file \in Seq(Files) /\ journal.rotated \in Seq(Files)
  BY <1>1 DEF Lined, Numbered, Files
<1>3. journal.written \in 0..MaxWritten /\ journal.acked \subseteq 1..MaxWritten
  <2>1. journal.written \in Nat /\ journal.acked \subseteq 1..journal.written
        /\ journal.written <= MaxWritten /\ MaxWritten \in Nat
    BY <1>1, ReviewsAssumption DEF Lined, Typed
  <2>2. QED
    BY <2>1
<1>4. review \in Reviewed \union {None}
  BY FairIsReviewed DEF IInv
<1>5. day \in 0..LastDay /\ asks \in 0..MaxAsks /\ gateDays \subseteq 0..LastDay
  <2>1. day \in Nat /\ asks \in Nat /\ day <= LastDay /\ asks <= MaxAsks
        /\ gateDays \subseteq 0..day /\ LastDay \in Nat /\ MaxAsks \in Nat
    BY ReviewsAssumption DEF IInv, Typed
  <2>2. QED
    BY <2>1
<1>6. QED
  BY <1>2, <1>3, <1>4, <1>5 DEF TypeOK, Typed

\* A journaled step keeps the two counts it is bounded by.
LEMMA JournalCounts ==
  ASSUME NEW first, NEW o1, NEW second, NEW o2, Journal(first, o1, second, o2), failures \in Nat
  PROVE  /\ journal'.written <= MaxWritten /\ failures' \in 0..MaxFailures
         /\ failures' >= failures
         /\ failures' = failures => o1 = "whole" /\ o2 = "whole"
<1>1. failures' = failures + Failed(o1) + Failed(o2) /\ failures' <= MaxFailures
      /\ journal'.written <= MaxWritten
  BY DEF Journal
<1>2. Failed(o1) \in {0, 1} /\ Failed(o2) \in {0, 1}
      /\ (Failed(o1) = 0 => o1 = "whole") /\ (Failed(o2) = 0 => o2 = "whole")
  BY DEF Failed
<1>3. MaxFailures \in Nat
  BY ReviewsAssumption
<1>4. QED
  BY <1>1, <1>2, <1>3

LEMMA ReplayTyped ==
  ASSUME NEW j, NEW d, NEW days, NEW told, Lined(j, Kept(d, days, told))
  PROVE  ReplayedRequest(j) \in Requests \union {None}
<1>. DEFINE last == LastRecord(j, {"operator-request", Consumed.kind}, Consumed)
<1>1. last \in {r \in Kept(d, days, told) : r.kind \in {"operator-request", Consumed.kind}}
              \union {Consumed}
  BY LastRecordKept
<1>2. last = Consumed \/ last \in Asked
  BY <1>1 DEF Kept, Fair, Consumed, Other
<1>3. QED
  BY <1>2 DEF ReplayedRequest, Asked

LEMMA TypedStep ==
  ASSUME IInv, Typed, [Next]_vars
  PROVE  Typed'
<1>0. failures \in Nat /\ asks \in Nat /\ day \in Nat /\ restarts \in Nat
      /\ MaxAsks \in Nat /\ LastDay \in Nat /\ MaxRestarts \in Nat /\ MaxFailures \in Nat
  BY ReviewsAssumption DEF IInv, Typed
<1>1. CASE Review
  <2>1. PICK mode \in {"review", "universe"}, session \in {"cron", "chat"}, fresh \in BOOLEAN :
          /\ request' = IF Takes(mode) THEN None ELSE request
          /\ \E o1, o2, second : \E view \in Views :
               /\ Journal(Taken(Takes(mode)), o1, second, o2)
               /\ Observe(mode, session, fresh, view)
          /\ UNCHANGED <<day, asks, restarts>>
    BY <1>1 DEF Review
  <2>2. PICK o1, o2, second : \E view \in Views :
          /\ Journal(Taken(Takes(mode)), o1, second, o2)
          /\ Observe(mode, session, fresh, view)
    BY <2>1
  <2>3. PICK view \in Views : Observe(mode, session, fresh, view)
    BY <2>2
  <2>4. journal'.written <= MaxWritten /\ failures' \in 0..MaxFailures
    BY <1>0, <2>2, JournalCounts
  <2>5. woken' \in [Requests -> Nat]
    BY <2>3 DEF Observe, Typed
  <2>6. toldTier' \in Tiers \union {0} /\ cleared' = cleared
    BY <2>3 DEF Observe, Typed, Views
  <2>7. QED
    BY <2>1, <2>4, <2>5, <2>6 DEF Typed
<1>2. CASE Ask
  <2>1. asks' = asks + 1 /\ asks < MaxAsks /\ request' = asks + 1
        /\ UNCHANGED <<day, woken, cleared, toldTier, restarts>>
    BY <1>2 DEF Ask, observers
  <2>2. journal'.written <= MaxWritten /\ failures' \in 0..MaxFailures
    BY <1>0, <1>2, JournalCounts DEF Ask, JournalOne
  <2>3. request' \in Requests /\ asks' <= MaxAsks
    BY <1>0, <2>1 DEF Requests
  <2>4. QED
    BY <2>1, <2>2, <2>3 DEF Typed
<1>3. CASE Clear
  <2>1. request' = None /\ cleared' = cleared \union {request} /\ request # None
        /\ UNCHANGED <<day, asks, woken, toldTier, restarts>>
    BY <1>3 DEF Clear
  <2>2. journal'.written <= MaxWritten /\ failures' \in 0..MaxFailures
    BY <1>0, <1>3, JournalCounts DEF Clear, JournalOne
  <2>3. QED
    BY <2>1, <2>2 DEF Typed
<1>4. CASE JournalOther
  <2>1. UNCHANGED <<request, day, asks, woken, cleared, toldTier, restarts>>
    BY <1>4 DEF JournalOther, memory, observers
  <2>2. journal'.written <= MaxWritten /\ failures' \in 0..MaxFailures
    BY <1>0, <1>4, JournalCounts DEF JournalOther, JournalOne
  <2>3. QED
    BY <2>1, <2>2 DEF Typed
<1>5. CASE Restart
  <2>1. PICK j \in {journal} \union Appends(journal, Other, "cut") : request' = ReplayedRequest(j)
    BY <1>5 DEF Restart
  <2>2. Lined(j, Kept(day, gateDays, toldTier))
    <3>1. Other \in Kept(day, gateDays, toldTier)
      BY DEF Kept
    <3>2. QED
      BY <2>1, <3>1, AppendsLined DEF IInv
  <2>3. request' \in Requests \union {None}
    BY <2>1, <2>2, ReplayTyped
  <2>4. /\ UNCHANGED <<day, asks, woken, cleared, toldTier, failures>>
        /\ journal'.written <= MaxWritten /\ restarts' = restarts + 1 /\ restarts < MaxRestarts
    BY <1>5 DEF Restart, observers
  <2>5. restarts' \in 0..MaxRestarts
    BY <1>0, <2>4
  <2>6. QED
    BY <2>3, <2>4, <2>5 DEF Typed
<1>6. CASE NewDay
  <2>1. day' <= LastDay /\ UNCHANGED <<journal, request, asks, woken, cleared, toldTier, failures, restarts>>
    BY <1>0, <1>6 DEF NewDay, memory, observers, bounds
  <2>2. QED
    BY <2>1 DEF Typed
<1>7. CASE UNCHANGED vars
  BY <1>7 DEF vars, memory, observers, bounds, Typed
<1>8. QED
  BY <1>1, <1>2, <1>3, <1>4, <1>5, <1>6, <1>7 DEF Next

LEMMA TypedInvariant == Spec => [](IInv /\ Typed)
<1>1. Init => Typed
  BY ReviewsAssumption DEF Init, JournalInit, Typed
<1>2. IInv /\ Typed /\ [Next]_vars => Typed'
  BY TypedStep
<1>3. QED
  BY <1>1, <1>2, ReviewsInvariant, PTL DEF Spec

\* TypeOK: records, streaks, requests and counts stay in their ranges.
THEOREM TypesCorrect == Spec => []TypeOK
<1>1. IInv /\ Typed => TypeOK
  BY TypedIsTypeOK
<1>2. QED
  BY <1>1, TypedInvariant, PTL

(***************************************************************************)
(* The lines that set the request, across appends and rotations.           *)
(***************************************************************************)
AskKinds   == {"operator-request", Consumed.kind}
AskFor(r)  == [kind |-> "operator-request", at |-> r]
AllLines(j) == Lines(j.rotated) \union Lines(j.file)

\* A line the next append cannot spoil; a file whose end spoils the next one.
Settled(j) == {p \in AllLines(j) : p.ended}
Torn(j)    == Len(j.file) > 0 /\ ~j.file[Len(j.file)].ended
OnDisk(j)  == j.written = Len(j.file) + Len(j.rotated)

\* May a replay come back to r, now or once more is appended?  Would it, and go on?
Revivable(j, r) ==
  \E p \in AllLines(j) :
    /\ p.record = AskFor(r)
    /\ \A q \in Settled(j) : q.record.kind \in AskKinds => q.id <= p.id
OnFile(j, r) ==
  \E p \in Settled(j) :
    /\ p.record = AskFor(r)
    /\ \A q \in AllLines(j) : q.record.kind \in AskKinds => q.id <= p.id

LEMMA LineAt ==
  ASSUME NEW R, NEW f, NEW before \in Int, Numbered(f, R, before), NEW p \in Lines(f)
  PROVE  /\ Len(f) \in Nat
         /\ \E n \in 1..Len(f) : p = f[n] /\ p.id = before + n /\ Readable(f, n)
<1>1. Len(f) \in Nat /\ DOMAIN f = 1..Len(f)
  BY LenProperties DEF Numbered
<1>2. PICK n \in 1..Len(f) : p = f[n] /\ Readable(f, n)
  BY <1>1 DEF Lines
<1>3. QED
  BY <1>1, <1>2 DEF Numbered

\* Ids ascend from the rotated file to the file, and tell pieces apart.
LEMMA IdsAscend ==
  ASSUME NEW j, NEW R, Lined(j, R)
  PROVE  /\ j.written \in Nat /\ Len(j.file) \in Nat /\ Len(j.rotated) \in Nat
         /\ \A p \in Lines(j.rotated) : p.id \in Int /\ p.id <= j.written - Len(j.file)
         /\ \A p \in Lines(j.file) : p.id \in Int /\ j.written - Len(j.file) < p.id /\ p.id <= j.written
         /\ \A p, q \in Lines(j.file) : p.id = q.id => p = q
         /\ \A p, q \in Lines(j.rotated) : p.id = q.id => p = q
<1>1. /\ j.written \in Nat /\ Len(j.file) \in Nat /\ Len(j.rotated) \in Nat
      /\ Numbered(j.file, R, j.written - Len(j.file))
      /\ Numbered(j.rotated, R, j.written - Len(j.file) - Len(j.rotated))
  BY LenProperties DEF Lined, Numbered
<1>2. j.written - Len(j.file) \in Int /\ j.written - Len(j.file) - Len(j.rotated) \in Int
  BY <1>1
<1>3. \A p \in Lines(j.rotated) : \E n \in 1..Len(j.rotated) :
        p = j.rotated[n] /\ p.id = j.written - Len(j.file) - Len(j.rotated) + n
  <2>. DEFINE before == j.written - Len(j.file) - Len(j.rotated)
  <2>1. before \in Int /\ Numbered(j.rotated, R, before)
    BY <1>1, <1>2
  <2>. HIDE DEF before
  <2>2. \A p \in Lines(j.rotated) : \E n \in 1..Len(j.rotated) : p = j.rotated[n] /\ p.id = before + n
    BY <2>1, LineAt
  <2>3. QED
    BY <2>2 DEF before
<1>4. \A p \in Lines(j.file) : \E n \in 1..Len(j.file) :
        p = j.file[n] /\ p.id = j.written - Len(j.file) + n
  BY <1>1, <1>2, LineAt
<1>5. ASSUME NEW p \in Lines(j.rotated)
      PROVE  p.id \in Int /\ p.id <= j.written - Len(j.file)
  BY <1>1, <1>3
<1>6. ASSUME NEW p \in Lines(j.file)
      PROVE  p.id \in Int /\ j.written - Len(j.file) < p.id /\ p.id <= j.written
  BY <1>1, <1>4
<1>7. ASSUME NEW p \in Lines(j.file), NEW q \in Lines(j.file), p.id = q.id
      PROVE  p = q
  <2>1. PICK n \in 1..Len(j.file) : p = j.file[n] /\ p.id = j.written - Len(j.file) + n
    BY <1>4
  <2>2. PICK m \in 1..Len(j.file) : q = j.file[m] /\ q.id = j.written - Len(j.file) + m
    BY <1>4
  <2>3. n = m
    BY <1>1, <1>7, <2>1, <2>2
  <2>4. QED
    BY <2>1, <2>2, <2>3
<1>8. ASSUME NEW p \in Lines(j.rotated), NEW q \in Lines(j.rotated), p.id = q.id
      PROVE  p = q
  <2>1. PICK n \in 1..Len(j.rotated) :
          p = j.rotated[n] /\ p.id = j.written - Len(j.file) - Len(j.rotated) + n
    BY <1>3
  <2>2. PICK m \in 1..Len(j.rotated) :
          q = j.rotated[m] /\ q.id = j.written - Len(j.file) - Len(j.rotated) + m
    BY <1>3
  <2>3. n = m
    BY <1>1, <1>8, <2>1, <2>2
  <2>4. QED
    BY <2>1, <2>2, <2>3
<1>9. QED
  BY <1>1, <1>5, <1>6, <1>7, <1>8

LEMMA IdsTell ==
  ASSUME NEW j, NEW R, Lined(j, R), NEW p \in AllLines(j), NEW q \in AllLines(j), p.id = q.id
  PROVE  p = q
<1>1. CASE p \in Lines(j.file) /\ q \in Lines(j.rotated)
  BY <1>1, IdsAscend
<1>2. CASE q \in Lines(j.file) /\ p \in Lines(j.rotated)
  BY <1>2, IdsAscend
<1>3. CASE p \in Lines(j.file) /\ q \in Lines(j.file)
  BY <1>3, IdsAscend
<1>4. CASE p \in Lines(j.rotated) /\ q \in Lines(j.rotated)
  BY <1>4, IdsAscend
<1>5. QED
  BY <1>1, <1>2, <1>3, <1>4 DEF AllLines

\* What an append does to the files, when it writes anything.
LEMMA AppendShape ==
  ASSUME NEW j, NEW R, Lined(j, R), NEW record \in R,
         NEW outcome \in Outcomes \union {"cut"}, outcome # "unwritten",
         NEW k \in Appends(j, record, outcome)
  PROVE  LET d == Rotated(j)
             p == Piece(j.written + 1, record, outcome)
         IN  /\ Len(d.file) \in Nat /\ j.written \in Nat
             /\ k.written = j.written + 1 /\ k.rotated = d.rotated
             /\ Len(k.file) = Len(d.file) + 1 /\ k.file[Len(k.file)] = p
             /\ \A n \in 1..Len(d.file) : k.file[n] = d.file[n]
             /\ p.id = j.written + 1 /\ p.record = record
             /\ p.whole <=> outcome \in {"whole", "unsynced", "unended"}
             /\ p.ended <=> outcome \in {"whole", "unsynced"}
<1>. DEFINE d == Rotated(j)
            p == Piece(j.written + 1, record, outcome)
<1>1. Lined(d, R) /\ d.written = j.written
  BY RotatedLined
<1>2. d.file \in Seq(Pieces(R)) /\ Len(d.file) \in Nat /\ j.written \in Nat
  BY <1>1, LenProperties DEF Lined, Numbered
<1>3. k.file = Append(d.file, p) /\ k.rotated = d.rotated /\ k.written = j.written + 1
  BY DEF Appends
<1>4. p \in Pieces(R)
  BY <1>2, PieceTyped
<1>5. /\ p.id = j.written + 1 /\ p.record = record
      /\ p.whole <=> outcome \in {"whole", "unsynced", "unended"}
      /\ p.ended <=> outcome \in {"whole", "unsynced"}
  BY DEF Piece
<1>. HIDE DEF d, p
<1>6. /\ Len(k.file) = Len(d.file) + 1 /\ k.file[Len(d.file) + 1] = p
      /\ \A n \in 1..Len(d.file) : k.file[n] = d.file[n]
  BY <1>2, <1>3, <1>4
<1>7. QED
  BY <1>2, <1>3, <1>5, <1>6 DEF d, p

\* Rotation loses no line of the file, and of the rotated one only what is older.
LEMMA RotatedLines ==
  ASSUME NEW j, NEW R, Lined(j, R)
  PROVE  /\ AllLines(Rotated(j)) \subseteq AllLines(j)
         /\ \A q \in AllLines(j) :
              \/ q \in AllLines(Rotated(j))
              \/ /\ Len(j.rotated) > 0 /\ Full(j)
                 /\ q.id \in Int /\ q.id <= j.written
                 /\ \A p \in AllLines(Rotated(j)) : q.id <= p.id
<1>1. CASE ~Full(j)
  BY <1>1 DEF Rotated
<1>2. CASE Full(j)
  <2>1. Rotated(j).file = <<>> /\ Rotated(j).rotated = j.file
    BY <1>2 DEF Rotated, Lined
  <2>2. Lines(<<>>) = {}
    BY DEF Lines
  <2>3. AllLines(Rotated(j)) = Lines(j.file)
    BY <2>1, <2>2 DEF AllLines
  <2>4. ASSUME NEW q \in Lines(j.rotated)
        PROVE  /\ Len(j.rotated) > 0 /\ q.id \in Int /\ q.id <= j.written
               /\ \A p \in Lines(j.file) : q.id <= p.id
    <3>1. q.id \in Int /\ q.id <= j.written - Len(j.file) /\ j.written \in Nat /\ Len(j.file) \in Nat
          /\ \A p \in Lines(j.file) : p.id \in Int /\ j.written - Len(j.file) < p.id
      BY IdsAscend
    <3>2. Len(j.rotated) > 0
      <4>1. j.written - Len(j.file) - Len(j.rotated) \in Int
        BY IdsAscend
      <4>2. Len(j.rotated) \in Nat /\ \E n \in 1..Len(j.rotated) : q = j.rotated[n]
        BY <4>1, LineAt DEF Lined
      <4>3. QED
        BY <4>2
    <3>3. QED
      BY <3>1, <3>2
  <2>5. QED
    BY <1>2, <2>3, <2>4 DEF AllLines
<1>3. QED
  BY <1>1, <1>2

\* A line of the files after an append was one before it, or is the new one.
LEMMA LinesBack ==
  ASSUME NEW j, NEW R, Lined(j, R), NEW record \in R,
         NEW outcome \in Outcomes \union {"cut"}, NEW k \in Appends(j, record, outcome),
         NEW p \in AllLines(k)
  PROVE  p \in AllLines(j) \/ (p.record = record /\ p.id = j.written + 1)
<1>. DEFINE d == Rotated(j)
<1>1. AllLines(d) \subseteq AllLines(j)
  BY RotatedLines
<1>2. CASE outcome = "unwritten"
  BY <1>1, <1>2 DEF Appends
<1>3. CASE outcome # "unwritten"
  <2>1. /\ Len(d.file) \in Nat /\ k.rotated = d.rotated
        /\ Len(k.file) = Len(d.file) + 1
        /\ k.file[Len(k.file)].record = record /\ k.file[Len(k.file)].id = j.written + 1
        /\ \A n \in 1..Len(d.file) : k.file[n] = d.file[n]
    BY <1>3, AppendShape
  <2>2. CASE p \in Lines(k.rotated)
    BY <1>1, <2>1, <2>2 DEF AllLines
  <2>3. CASE p \in Lines(k.file)
    <3>1. Lined(k, R)
      BY AppendsLined
    <3>2. k.written - Len(k.file) \in Int /\ Numbered(k.file, R, k.written - Len(k.file))
      BY <3>1, IdsAscend DEF Lined
    <3>3. PICK n \in 1..Len(k.file) : p = k.file[n] /\ Readable(k.file, n)
      BY <2>3, <3>2, LineAt
    <3>4. CASE n = Len(k.file)
      BY <2>1, <3>3, <3>4
    <3>5. CASE n # Len(k.file)
      <4>. HIDE DEF d
      <4>1. n \in 1..Len(d.file) /\ (n # 1 => n - 1 \in 1..Len(d.file))
        BY <2>1, <3>5
      <4>2. p = d.file[n] /\ Readable(d.file, n)
        BY <2>1, <3>3, <3>5, <4>1 DEF Readable
      <4>3. DOMAIN d.file = 1..Len(d.file)
        <5>1. d.file \in Seq(Pieces(R))
          BY RotatedLined DEF Lined, Numbered, d
        <5>2. QED
          BY <5>1, LenProperties
      <4>4. p \in Lines(d.file)
        BY <4>1, <4>2, <4>3 DEF Lines
      <4>5. QED
        BY <1>1, <4>4 DEF AllLines
    <3>6. QED
      BY <3>4, <3>5
  <2>4. QED
    BY <2>2, <2>3 DEF AllLines
<1>4. QED
  BY <1>2, <1>3

\* A settled line stays one, unless it leaves with the rotated file.
LEMMA SettledOn ==
  ASSUME NEW j, NEW R, Lined(j, R), NEW record \in R,
         NEW outcome \in Outcomes \union {"cut"}, NEW k \in Appends(j, record, outcome),
         NEW q \in Settled(j)
  PROVE  q \in Settled(k) \/ (~OnDisk(k) /\ \A p \in AllLines(k) : q.id <= p.id)
<1>. DEFINE d == Rotated(j)
<1>0. /\ j.written \in Nat /\ Len(j.file) \in Nat /\ Len(j.rotated) \in Nat
      /\ Len(j.file) + Len(j.rotated) <= j.written
  BY IdsAscend DEF Lined
<1>1. q \in AllLines(j) /\ q.ended
  BY DEF Settled
<1>2. CASE q \in AllLines(d)
  <2>1. CASE outcome = "unwritten"
    <3>1. k \in {j, d}
      BY <2>1 DEF Appends
    <3>2. QED
      BY <1>1, <1>2, <3>1 DEF Settled
  <2>2. CASE outcome # "unwritten"
    <3>1. /\ Len(d.file) \in Nat /\ k.rotated = d.rotated
          /\ Len(k.file) = Len(d.file) + 1
          /\ \A n \in 1..Len(d.file) : k.file[n] = d.file[n]
      BY <2>2, AppendShape
    <3>2. CASE q \in Lines(d.rotated)
      BY <1>1, <3>1, <3>2 DEF Settled, AllLines
    <3>3. CASE q \in Lines(d.file)
      <4>1. Lined(d, R) /\ Lined(k, R)
        BY RotatedLined, AppendsLined
      <4>2. d.written - Len(d.file) \in Int /\ Numbered(d.file, R, d.written - Len(d.file))
        BY <4>1, IdsAscend DEF Lined
      <4>. HIDE DEF d
      <4>3. PICK n \in 1..Len(d.file) : q = d.file[n] /\ Readable(d.file, n)
        BY <3>3, <4>2, LineAt
      <4>4. n \in 1..Len(k.file) /\ (n # 1 => n - 1 \in 1..Len(d.file))
        BY <3>1
      <4>5. q = k.file[n] /\ Readable(k.file, n)
        BY <1>1, <3>1, <4>3, <4>4 DEF Readable
      <4>6. DOMAIN k.file = 1..Len(k.file)
        BY <4>1, LenProperties DEF Lined, Numbered
      <4>7. q \in Lines(k.file)
        BY <4>4, <4>5, <4>6 DEF Lines
      <4>8. QED
        BY <1>1, <4>7 DEF Settled, AllLines
    <3>4. QED
      BY <1>2, <3>2, <3>3 DEF AllLines
  <2>3. QED
    BY <2>1, <2>2
<1>3. CASE q \notin AllLines(d)
  <2>1. /\ Len(j.rotated) > 0 /\ Full(j) /\ q.id \in Int /\ q.id <= j.written
        /\ \A p \in AllLines(d) : q.id <= p.id
    BY <1>1, <1>3, RotatedLines
  <2>2. d = [file |-> <<>>, rotated |-> j.file, written |-> j.written, acked |-> j.acked]
    BY <2>1 DEF Rotated, Lined
  <2>3. CASE outcome = "unwritten"
    <3>1. k = j \/ k = d
      BY <2>3 DEF Appends
    <3>2. CASE k = j
      BY <1>1, <3>2 DEF Settled
    <3>3. CASE k = d
      <4>1. k.written = j.written /\ Len(k.file) = 0 /\ Len(k.rotated) = Len(j.file)
        BY <2>2, <3>3
      <4>2. ~OnDisk(k)
        <5>1. \A w, lf, lr \in Nat : lf + lr <= w /\ lr > 0 => w # 0 + lf
          OBVIOUS
        <5>2. j.written # 0 + Len(j.file)
          BY <1>0, <2>1, <5>1
        <5>3. QED
          BY <4>1, <5>2 DEF OnDisk
      <4>3. QED
        BY <2>1, <3>3, <4>2
    <3>4. QED
      BY <3>1, <3>2, <3>3
  <2>4. CASE outcome # "unwritten"
    <3>1. /\ k.written = j.written + 1 /\ k.rotated = d.rotated /\ Len(k.file) = Len(d.file) + 1
      BY <2>4, AppendShape
    <3>2. Len(k.file) = 1 /\ Len(k.rotated) = Len(j.file)
      BY <2>2, <3>1
    <3>3. ~OnDisk(k)
      <4>1. \A w, lf, lr \in Nat : lf + lr <= w /\ lr > 0 => w + 1 # 1 + lf
        OBVIOUS
      <4>2. j.written + 1 # 1 + Len(j.file)
        BY <1>0, <2>1, <4>1
      <4>3. QED
        BY <3>1, <3>2, <4>2 DEF OnDisk
    <3>4. ASSUME NEW p \in AllLines(k) PROVE q.id <= p.id
      <4>1. Lines(d.rotated) \subseteq AllLines(d)
        BY DEF AllLines
      <4>2. CASE p \in Lines(k.rotated)
        BY <2>1, <3>1, <4>1, <4>2
      <4>3. CASE p \in Lines(k.file)
        <5>1. Lined(k, R)
          BY AppendsLined
        <5>2. k.written - Len(k.file) < p.id /\ p.id \in Int
          BY <4>3, <5>1, IdsAscend
        <5>3. k.written - Len(k.file) = j.written
          <6>1. \A w \in Nat : (w + 1) - 1 = w
            OBVIOUS
          <6>2. (j.written + 1) - 1 = j.written
            BY <1>0, <6>1
          <6>3. QED
            BY Zenon, <3>1, <3>2, <6>2
        <5>4. j.written < p.id
          BY <5>2, <5>3
        <5>5. QED
          BY <1>0, <2>1, <5>2, <5>4
      <4>4. QED
        BY <4>2, <4>3 DEF AllLines
    <3>5. QED
      BY <3>3, <3>4
  <2>5. QED
    BY <2>3, <2>4
<1>4. QED
  BY <1>2, <1>3

LEMMA OnDiskBack ==
  ASSUME NEW j, NEW R, Lined(j, R), NEW record \in R,
         NEW outcome \in Outcomes \union {"cut"}, NEW k \in Appends(j, record, outcome), OnDisk(k)
  PROVE  OnDisk(j)
<1>. DEFINE d == Rotated(j)
<1>0. /\ j.written \in Nat /\ Len(j.file) \in Nat /\ Len(j.rotated) \in Nat
      /\ Len(j.file) + Len(j.rotated) <= j.written
  BY IdsAscend DEF Lined
<1>1. /\ d.written = j.written /\ Len(d.file) \in Nat
      /\ d = j \/ (Len(d.file) = 0 /\ Len(d.rotated) = Len(j.file))
  <2>1. CASE ~Full(j)
    BY <1>0, <2>1 DEF Rotated
  <2>2. CASE Full(j)
    <3>1. d = [file |-> <<>>, rotated |-> j.file, written |-> j.written, acked |-> j.acked]
      BY <2>2 DEF Rotated, Lined
    <3>2. d.written = j.written /\ Len(d.file) = 0 /\ Len(d.rotated) = Len(j.file)
      BY <3>1
    <3>3. QED
      BY <3>2
  <2>3. QED
    BY <2>1, <2>2
<1>2. Len(d.rotated) \in Nat
  BY RotatedLined, IdsAscend
<1>3. CASE d = j
  <2>1. CASE outcome = "unwritten"
    BY <1>3, <2>1 DEF Appends
  <2>2. CASE outcome # "unwritten"
    <3>1. k.written = j.written + 1 /\ k.rotated = j.rotated /\ Len(k.file) = Len(j.file) + 1
      BY <1>3, <2>2, AppendShape
    <3>2. j.written + 1 = (Len(j.file) + 1) + Len(j.rotated)
      BY <3>1 DEF OnDisk
    <3>3. \A w, lf, lr \in Nat : w + 1 = (lf + 1) + lr => w = lf + lr
      OBVIOUS
    <3>4. QED
      BY <1>0, <3>2, <3>3 DEF OnDisk
  <2>3. QED
    BY <2>1, <2>2
<1>4. CASE Len(d.file) = 0 /\ Len(d.rotated) = Len(j.file)
  <2>. HIDE DEF d
  <2>1. CASE outcome = "unwritten"
    <3>1. k = j \/ k = Rotated(j)
      BY <2>1 DEF Appends
    <3>2. CASE k = Rotated(j)
      <4>1. j.written = 0 + Len(j.file)
        BY <1>1, <1>4, <3>2 DEF OnDisk, d
      <4>2. \A w, lf, lr \in Nat : lf + lr <= w /\ w = 0 + lf => w = lf + lr
        OBVIOUS
      <4>3. QED
        BY <1>0, <4>1, <4>2 DEF OnDisk
    <3>3. QED
      BY <3>1, <3>2
  <2>2. CASE outcome # "unwritten"
    <3>1. k.written = j.written + 1 /\ k.rotated = d.rotated /\ Len(k.file) = Len(d.file) + 1
      BY <2>2, AppendShape DEF d
    <3>2. j.written + 1 = (0 + 1) + Len(j.file)
      BY Zenon, <1>4, <3>1 DEF OnDisk
    <3>3. \A w, lf, lr \in Nat : lf + lr <= w /\ w + 1 = (0 + 1) + lf => w = lf + lr
      OBVIOUS
    <3>4. QED
      BY <1>0, <3>2, <3>3 DEF OnDisk
  <2>3. QED
    BY <2>1, <2>2
<1>5. QED
  BY <1>1, <1>3, <1>4

\* A whole line behind a whole file is settled, and the newest.
LEMMA NewIsSettled ==
  ASSUME NEW j, NEW R, Lined(j, R), NEW record \in R, ~Torn(j), NEW k \in Appends(j, record, "whole")
  PROVE  \E p \in Settled(k) :
           /\ p.record = record /\ p.id = j.written + 1
           /\ \A q \in AllLines(k) : q.id <= p.id
<1>. DEFINE d == Rotated(j)
            n == Len(k.file)
<1>1. "whole" \in Outcomes
  BY DEF Outcomes
<1>2. /\ Len(d.file) \in Nat /\ j.written \in Nat /\ k.written = j.written + 1
      /\ n = Len(d.file) + 1
      /\ \A m \in 1..Len(d.file) : k.file[m] = d.file[m]
      /\ k.file[n].id = j.written + 1 /\ k.file[n].record = record
      /\ k.file[n].whole /\ k.file[n].ended
  BY <1>1, AppendShape
<1>3. Len(d.file) > 0 => d.file[Len(d.file)].ended
  <2>1. CASE ~Full(j)
    BY <2>1 DEF Rotated, Torn
  <2>2. CASE Full(j)
    <3>1. d.file = <<>>
      BY <2>2 DEF Rotated, Lined
    <3>2. QED
      BY <3>1
  <2>3. QED
    BY <2>1, <2>2
<1>. HIDE DEF d
<1>4. Lined(k, R)
  BY <1>1, AppendsLined
<1>5. Readable(k.file, n)
  <2>1. n # 1 => n - 1 \in 1..Len(d.file) /\ n - 1 = Len(d.file) /\ Len(d.file) > 0
    BY <1>2
  <2>2. n # 1 => k.file[n - 1].ended
    BY <1>2, <1>3, <2>1
  <2>3. QED
    BY <1>2, <2>2 DEF Readable
<1>6. n \in DOMAIN k.file
  <2>1. DOMAIN k.file = 1..Len(k.file)
    BY <1>4, LenProperties DEF Lined, Numbered
  <2>2. QED
    BY <1>2, <2>1
<1>7. k.file[n] \in Settled(k)
  BY <1>2, <1>5, <1>6 DEF Settled, AllLines, Lines
<1>8. ASSUME NEW q \in AllLines(k) PROVE q.id <= j.written + 1
  <2>1. CASE q \in Lines(k.file)
    BY <1>2, <1>4, <2>1, IdsAscend
  <2>2. CASE q \in Lines(k.rotated)
    <3>1. q.id \in Int /\ q.id <= k.written - Len(k.file) /\ Len(k.file) \in Nat
      BY <1>4, <2>2, IdsAscend
    <3>2. QED
      BY <1>2, <3>1
  <2>3. QED
    BY <2>1, <2>2 DEF AllLines
<1>9. QED
  BY <1>2, <1>7, <1>8

LEMMA TornNow ==
  ASSUME NEW j, NEW R, Lined(j, R), NEW record \in R,
         NEW outcome \in Outcomes \union {"cut"}, NEW k \in Appends(j, record, outcome)
  PROVE  /\ outcome = "whole" => ~Torn(k)
         /\ outcome = "unwritten" /\ Torn(k) => Torn(j)
<1>1. CASE outcome = "whole"
  <2>1. k.file[Len(k.file)].ended
    BY <1>1, AppendShape
  <2>2. QED
    BY <1>1, <2>1 DEF Torn
<1>2. CASE outcome = "unwritten"
  <2>1. k = j \/ k.file = <<>>
    <3>1. k = j \/ k = Rotated(j)
      BY <1>2 DEF Appends
    <3>2. CASE k = Rotated(j) /\ Full(j)
      BY <3>2 DEF Rotated, Lined
    <3>3. QED
      BY <3>1, <3>2 DEF Rotated
  <2>2. QED
    BY <1>2, <2>1 DEF Torn
<1>3. QED
  BY <1>1, <1>2

\* An append of anything else makes no request come back.
LEMMA ReviveBack ==
  ASSUME NEW j, NEW R, Lined(j, R), NEW record \in R,
         NEW outcome \in Outcomes \union {"cut"}, NEW k \in Appends(j, record, outcome),
         NEW r, record # AskFor(r), Revivable(k, r)
  PROVE  Revivable(j, r)
<1>1. PICK p \in AllLines(k) :
        /\ p.record = AskFor(r)
        /\ \A q \in Settled(k) : q.record.kind \in AskKinds => q.id <= p.id
  BY DEF Revivable
<1>2. p \in AllLines(j)
  BY <1>1, LinesBack
<1>3. \A q \in Settled(j) : q.record.kind \in AskKinds => q.id <= p.id
  BY <1>1, SettledOn
<1>4. QED
  BY <1>1, <1>2, <1>3 DEF Revivable

\* Used up on a line of its own, a request never comes back.
LEMMA UsedUp ==
  ASSUME NEW j, NEW R, Lined(j, R), Consumed \in R, ~Torn(j),
         NEW k \in Appends(j, Consumed, "whole"), NEW r
  PROVE  ~Revivable(k, r)
<1>1. PICK n \in Settled(k) : n.record = Consumed /\ n.id = j.written + 1
  BY NewIsSettled
<1>2. j.written \in Nat /\ "whole" \in Outcomes
  BY IdsAscend DEF Outcomes
<1>3. SUFFICES ASSUME NEW p \in AllLines(k), p.record = AskFor(r), n.id <= p.id
               PROVE  FALSE
  BY <1>1 DEF Revivable, AskKinds
<1>4. Consumed # AskFor(r)
  BY DEF Consumed, AskFor
<1>5. p \in AllLines(j)
  BY <1>2, <1>3, <1>4, LinesBack
<1>6. p.id \in Int /\ p.id <= j.written
  <2>1. CASE p \in Lines(j.file)
    BY <2>1, IdsAscend
  <2>2. CASE p \in Lines(j.rotated)
    <3>1. p.id \in Int /\ p.id <= j.written - Len(j.file) /\ Len(j.file) \in Nat
      BY <2>2, IdsAscend
    <3>2. QED
      BY <1>2, <3>1
  <2>3. QED
    BY <1>5, <2>1, <2>2 DEF AllLines
<1>7. QED
  BY <1>1, <1>2, <1>3, <1>6

\* A request on file stays there while nothing of its kind is appended.
LEMMA StaysOnFile ==
  ASSUME NEW j, NEW R, Lined(j, R), NEW record \in R, record.kind \notin AskKinds,
         NEW outcome \in Outcomes \union {"cut"}, NEW k \in Appends(j, record, outcome),
         OnDisk(k), NEW r, OnFile(j, r)
  PROVE  OnFile(k, r)
<1>1. PICK p \in Settled(j) :
        /\ p.record = AskFor(r)
        /\ \A q \in AllLines(j) : q.record.kind \in AskKinds => q.id <= p.id
  BY DEF OnFile
<1>2. p \in Settled(k)
  BY SettledOn
<1>3. \A q \in AllLines(k) : q.record.kind \in AskKinds => q \in AllLines(j)
  BY LinesBack
<1>4. QED
  BY <1>1, <1>2, <1>3 DEF OnFile

\* What is on file is what a replay returns, and what it returns may come back.
LEMMA ReadBack ==
  ASSUME NEW j, NEW R, Lined(j, R), NEW r, OnFile(j, r)
  PROVE  ReplayedRequest(j) = r
<1>1. PICK p \in Settled(j) :
        /\ p.record = AskFor(r)
        /\ \A q \in AllLines(j) : q.record.kind \in AskKinds => q.id <= p.id
  BY DEF OnFile
<1>2. p \in AllLines(j) /\ p.record.kind \in AskKinds /\ AskFor(r) # Consumed /\ AskFor(r).at = r
  BY <1>1 DEF Settled, AskKinds, AskFor, Consumed
<1>3. /\ j.written - Len(j.file) \in Int /\ j.written - Len(j.file) - Len(j.rotated) \in Int
      /\ Numbered(j.file, R, j.written - Len(j.file))
      /\ Numbered(j.rotated, R, j.written - Len(j.file) - Len(j.rotated))
  BY IdsAscend DEF Lined
<1>4. ASSUME NEW f, NEW before \in Int, Numbered(f, R, before), p \in Lines(f),
             Lines(f) \subseteq AllLines(j)
      PROVE  OfKind(f, AskKinds) # {} /\ Newest(OfKind(f, AskKinds)) = p
  <2>. DEFINE n == Newest(OfKind(f, AskKinds))
  <2>1. p \in OfKind(f, AskKinds)
    BY <1>2, <1>4 DEF OfKind
  <2>2. n \in OfKind(f, AskKinds) /\ p.id <= n.id
    BY <1>4, <2>1, NewestLine
  <2>. HIDE DEF n
  <2>3. n \in AllLines(j) /\ n.record.kind \in AskKinds
    BY <1>4, <2>2 DEF OfKind
  <2>4. p.id \in Int /\ n.id \in Int
    BY <1>2, <2>3, IdsAscend DEF AllLines
  <2>5. p.id = n.id
    BY <1>1, <2>2, <2>3, <2>4
  <2>6. QED
    BY <1>2, <2>1, <2>3, <2>5, IdsTell DEF n
<1>5. LastRecord(j, AskKinds, Consumed) = AskFor(r)
  <2>1. CASE p \in Lines(j.file)
    <3>1. OfKind(j.file, AskKinds) # {} /\ Newest(OfKind(j.file, AskKinds)) = p
      BY <1>3, <1>4, <2>1 DEF AllLines
    <3>2. QED
      BY <1>1, <3>1 DEF LastRecord
  <2>2. CASE p \in Lines(j.rotated)
    <3>1. OfKind(j.rotated, AskKinds) # {} /\ Newest(OfKind(j.rotated, AskKinds)) = p
      BY <1>3, <1>4, <2>2 DEF AllLines
    <3>2. ASSUME NEW q \in OfKind(j.file, AskKinds) PROVE FALSE
      <4>1. q \in Lines(j.file) /\ q.id <= p.id
        BY <1>1 DEF OfKind, AllLines
      <4>2. /\ q.id \in Int /\ p.id \in Int /\ j.written - Len(j.file) < q.id
            /\ p.id <= j.written - Len(j.file)
        BY <2>2, <4>1, IdsAscend
      <4>3. QED
        BY <1>3, <4>1, <4>2
    <3>3. QED
      BY <1>1, <3>1, <3>2 DEF LastRecord
  <2>3. QED
    BY <1>2, <2>1, <2>2 DEF AllLines
<1>6. QED
  BY <1>2, <1>5 DEF ReplayedRequest, AskKinds

LEMMA Replays ==
  ASSUME NEW j, NEW d, NEW days, NEW told, Lined(j, Kept(d, days, told)),
         NEW r \in Requests, ReplayedRequest(j) = r
  PROVE  Revivable(j, r)
<1>. DEFINE R == Kept(d, days, told)
            last == LastRecord(j, AskKinds, Consumed)
<1>1. last # Consumed /\ last.at = r
  <2>1. None \notin Requests
    BY ReviewsAssumption DEF Requests
  <2>2. QED
    BY <2>1 DEF ReplayedRequest, AskKinds
<1>2. ASSUME NEW f \in {j.file, j.rotated}, NEW p \in OfKind(f, AskKinds), p.record = last,
             \A q \in AllLines(j) : q.record.kind \in AskKinds => q.id <= p.id,
             last \in R
      PROVE  Revivable(j, r)
  <2>1. last.kind \in AskKinds
    BY <1>2 DEF OfKind
  <2>2. last \in Asked
    BY <1>1, <1>2, <2>1 DEF Kept, Fair, AskKinds, Consumed, Other
  <2>3. last = AskFor(r)
    BY <1>1, <2>2 DEF Asked, AskFor
  <2>4. p \in AllLines(j) /\ Settled(j) \subseteq AllLines(j)
    BY <1>2 DEF OfKind, AllLines, Settled
  <2>5. QED
    BY <1>2, <2>3, <2>4 DEF Revivable
<1>3. /\ j.written - Len(j.file) \in Int /\ j.written - Len(j.file) - Len(j.rotated) \in Int
      /\ Numbered(j.file, R, j.written - Len(j.file))
      /\ Numbered(j.rotated, R, j.written - Len(j.file) - Len(j.rotated))
  BY IdsAscend DEF Lined
<1>4. CASE OfKind(j.file, AskKinds) # {}
  <2>. DEFINE p == Newest(OfKind(j.file, AskKinds))
  <2>1. /\ p \in OfKind(j.file, AskKinds) /\ p.record \in R /\ p.record = last
        /\ \A q \in OfKind(j.file, AskKinds) : q.id <= p.id
    BY <1>3, <1>4, NewestLine DEF LastRecord
  <2>. HIDE DEF p, last, R
  <2>2. ASSUME NEW q \in AllLines(j), q.record.kind \in AskKinds PROVE q.id <= p.id
    <3>1. CASE q \in Lines(j.file)
      BY <2>1, <2>2, <3>1 DEF OfKind
    <3>2. CASE q \in Lines(j.rotated)
      <4>1. p \in Lines(j.file)
        BY <2>1 DEF OfKind
      <4>2. /\ q.id \in Int /\ p.id \in Int /\ j.written - Len(j.file) < p.id
            /\ q.id <= j.written - Len(j.file)
        BY <3>2, <4>1, IdsAscend DEF R
      <4>3. QED
        BY <1>3, <4>2
    <3>3. QED
      BY <3>1, <3>2 DEF AllLines
  <2>3. QED
    BY <1>2, <2>1, <2>2
<1>5. CASE OfKind(j.file, AskKinds) = {} /\ OfKind(j.rotated, AskKinds) # {}
  <2>. DEFINE p == Newest(OfKind(j.rotated, AskKinds))
  <2>1. /\ p \in OfKind(j.rotated, AskKinds) /\ p.record \in R /\ p.record = last
        /\ \A q \in OfKind(j.rotated, AskKinds) : q.id <= p.id
    BY <1>3, <1>5, NewestLine DEF LastRecord
  <2>. HIDE DEF p, last, R
  <2>2. ASSUME NEW q \in AllLines(j), q.record.kind \in AskKinds PROVE q.id <= p.id
    BY <1>5, <2>1, <2>2 DEF OfKind, AllLines
  <2>3. QED
    BY <1>2, <2>1, <2>2
<1>6. CASE OfKind(j.file, AskKinds) = {} /\ OfKind(j.rotated, AskKinds) = {}
  BY <1>1, <1>6 DEF LastRecord
<1>7. QED
  BY <1>4, <1>5, <1>6

(***************************************************************************)
(* One request, one wake.  A request costs a wake for each of: the reviews *)
(* that carried it, its waiting in memory or on file, and a torn end of    *)
(* the file while it waits in memory, as the line that uses it up would be *)
(* lost there.  All but the first are paid by a failure each.              *)
(***************************************************************************)
Charge(r) ==
  IF request = r THEN IF Torn(journal) THEN 2 ELSE 1
  ELSE IF Revivable(journal, r) THEN 1 ELSE 0
Charged(r) == woken[r] + Charge(r) <= 1 + failures
Unasked(r) == r > asks => woken[r] = 0 /\ request # r /\ ~Revivable(journal, r)
Waits ==
  failures = 0 /\ OnDisk(journal) /\ asks > 0 =>
    \/ woken[asks] > 0 \/ asks \in cleared
    \/ request = asks /\ OnFile(journal, asks)

WInv ==
  /\ \A r \in Requests : Charged(r) /\ Unasked(r)
  /\ Torn(journal) => failures > 0
  /\ Waits

\* What journaling up to two records does to the requests on file.
LEMMA JournalRequests ==
  ASSUME NEW R, Lined(journal, R), failures \in Nat, NEW first, NEW second,
         NEW o1 \in Outcomes, NEW o2 \in Outcomes,
         first = None \/ first \in R, second = None \/ second \in R,
         Journal(first, o1, second, o2)
  PROVE  /\ \A r : /\ first = None \/ first # AskFor(r)
                   /\ second = None \/ second # AskFor(r)
                   /\ Revivable(journal', r)
                   => Revivable(journal, r)
         /\ failures' = failures /\ Torn(journal') => Torn(journal)
         /\ OnDisk(journal') => OnDisk(journal)
         /\ \A r : /\ first = None \/ first.kind \notin AskKinds
                   /\ second = None \/ second.kind \notin AskKinds
                   /\ OnDisk(journal') /\ OnFile(journal, r)
                   => OnFile(journal', r)
<1>1. PICK j \in (IF first = None THEN {journal} ELSE Appends(journal, first, o1)) :
        journal' \in IF second = None THEN {j} ELSE Appends(j, second, o2)
  BY DEF Journal
<1>2. Lined(j, R)
  BY <1>1, AppendsLined
<1>3. ASSUME NEW r, first = None \/ first # AskFor(r), second = None \/ second # AskFor(r),
             Revivable(journal', r)
      PROVE  Revivable(journal, r)
  <2>1. Revivable(j, r)
    BY <1>1, <1>2, <1>3, ReviveBack
  <2>2. QED
    BY <1>1, <1>3, <2>1, ReviveBack
<1>4. ASSUME failures' = failures, Torn(journal') PROVE Torn(journal)
  <2>1. o1 = "whole" /\ o2 = "whole"
    BY <1>4, JournalCounts
  <2>2. Torn(j)
    BY <1>1, <1>2, <1>4, <2>1, TornNow
  <2>3. QED
    BY <1>1, <2>1, <2>2, TornNow
<1>5. ASSUME OnDisk(journal') PROVE OnDisk(j) /\ OnDisk(journal)
  <2>1. OnDisk(j)
    BY <1>1, <1>2, <1>5, OnDiskBack
  <2>2. QED
    BY <1>1, <2>1, OnDiskBack
<1>6. ASSUME NEW r, first = None \/ first.kind \notin AskKinds,
             second = None \/ second.kind \notin AskKinds, OnDisk(journal'), OnFile(journal, r)
      PROVE  OnFile(journal', r)
  <2>1. OnFile(j, r)
    BY <1>1, <1>5, <1>6, StaysOnFile
  <2>2. QED
    BY <1>1, <1>2, <1>6, <2>1, StaysOnFile
<1>7. QED
  BY <1>3, <1>4, <1>5, <1>6

\* A request that no answer carries in this step, and that none brings back.
LEMMA StillCharged ==
  ASSUME NEW r, Charged(r), Revivable(journal', r) => Revivable(journal, r),
         woken[r] \in Nat, woken'[r] = woken[r], request' = r => request = r,
         failures \in Nat, failures' \in Nat, failures' >= failures,
         failures' = failures /\ Torn(journal') => Torn(journal)
  PROVE  Charged(r)'
<1>1. Charge(r) \in 0..2 /\ Charge(r)' \in 0..2
  BY DEF Charge
<1>2. CASE failures' = failures
  <2>1. Charge(r)' <= Charge(r)
    BY <1>2 DEF Charge
  <2>2. QED
    BY <1>1, <1>2, <2>1 DEF Charged
<1>3. CASE failures' # failures
  <2>1. Charge(r)' <= Charge(r) + 1
    BY DEF Charge
  <2>2. failures' >= failures + 1
    BY <1>3
  <2>3. QED
    BY <1>1, <2>1, <2>2 DEF Charged
<1>4. QED
  BY <1>2, <1>3

\* Actions whose records ask for nothing, and that carry no request.
LEMMA QuietCharges ==
  ASSUME IInv, Typed, WInv, NEW R, Lined(journal, R), NEW first, NEW second,
         NEW o1 \in Outcomes, NEW o2 \in Outcomes,
         first = None \/ first \in R \ Asked, second = None \/ second \in R \ Asked,
         Journal(first, o1, second, o2), request' \in {request, None},
         NEW r \in Requests, woken'[r] = woken[r], asks' = asks
  PROVE  Charged(r)' /\ Unasked(r)'
<1>1. AskFor(r) \in Asked
  BY DEF AskFor, Asked
<1>2. failures \in Nat /\ failures' \in Nat /\ failures' >= failures /\ woken[r] \in Nat
  BY JournalCounts DEF Typed
<1>3. Revivable(journal', r) => Revivable(journal, r)
  <2>1. first = None \/ first # AskFor(r)
    BY <1>1
  <2>2. second = None \/ second # AskFor(r)
    BY <1>1
  <2>3. (first = None \/ first \in R) /\ (second = None \/ second \in R)
    OBVIOUS
  <2>4. QED
    BY <1>2, <2>1, <2>2, <2>3, JournalRequests
<1>4. failures' = failures /\ Torn(journal') => Torn(journal)
  BY <1>2, JournalRequests
<1>5. request' = r => request = r
  BY ReviewsAssumption DEF Requests
<1>6. Charged(r) /\ Unasked(r)
  BY DEF WInv
<1>7. Charged(r)'
  BY <1>2, <1>3, <1>4, <1>5, <1>6, StillCharged
<1>8. Unasked(r)'
  BY <1>3, <1>5, <1>6 DEF Unasked
<1>9. QED
  BY <1>7, <1>8

LEMMA QuietWaits ==
  ASSUME IInv, Typed, WInv, NEW R, Lined(journal, R), NEW first, NEW second,
         NEW o1 \in Outcomes, NEW o2 \in Outcomes,
         first = None \/ first \in R, second = None \/ second \in R,
         Journal(first, o1, second, o2), asks' = asks, cleared \subseteq cleared',
         \A r \in Requests : woken'[r] \in Nat /\ woken'[r] >= woken[r],
         \/ woken'[request] > 0 \/ request \in cleared'
         \/ /\ request' = request
            /\ first = None \/ first.kind \notin AskKinds
            /\ second = None \/ second.kind \notin AskKinds
  PROVE  Waits' /\ (Torn(journal) => failures > 0)'
<1>1. failures \in Nat /\ failures' \in Nat /\ failures' >= failures /\ asks \in Nat /\ asks <= MaxAsks
  BY JournalCounts DEF Typed, IInv
<1>2. (Torn(journal) => failures > 0)'
  <2>1. failures' = failures /\ Torn(journal') => Torn(journal)
    BY <1>1, JournalRequests
  <2>2. QED
    BY <1>1, <2>1 DEF WInv
<1>3. SUFFICES ASSUME failures' = 0, OnDisk(journal'), asks > 0
               PROVE  \/ woken'[asks] > 0 \/ asks \in cleared'
                      \/ request' = asks /\ OnFile(journal', asks)
  BY <1>2 DEF Waits
<1>4. failures = 0 /\ OnDisk(journal) /\ asks \in Requests
  <2>1. failures = 0
    BY <1>1, <1>3
  <2>2. OnDisk(journal)
    BY <1>1, <1>3, JournalRequests
  <2>3. asks \in Requests
    BY <1>1, <1>3, ReviewsAssumption DEF Requests
  <2>4. QED
    BY <2>1, <2>2, <2>3
<1>5. woken'[asks] >= woken[asks] /\ woken'[asks] \in Nat /\ woken[asks] \in Nat
  BY <1>4 DEF Typed
<1>6. CASE woken[asks] > 0 \/ asks \in cleared
  BY <1>5, <1>6
<1>7. CASE request = asks /\ OnFile(journal, asks)
  <2>1. CASE woken'[request] > 0 \/ request \in cleared'
    BY <1>7, <2>1
  <2>2. CASE /\ request' = request
             /\ first = None \/ first.kind \notin AskKinds
             /\ second = None \/ second.kind \notin AskKinds
    <3>1. OnFile(journal', asks)
      BY <1>1, <1>3, <1>7, <2>2, JournalRequests
    <3>2. QED
      BY <1>7, <2>2, <3>1
  <2>3. QED
    BY <2>1, <2>2
<1>8. QED
  BY <1>3, <1>4, <1>6, <1>7 DEF WInv, Waits

\* A request an answer carries is paid by its waiting, unless it may come back;
\* then this step failed, or its line was lost to a torn end.
LEMMA TakenCharges ==
  ASSUME IInv, Typed, WInv, NEW R, Lined(journal, R), NEW second,
         Consumed \in R, Consumed # None,
         NEW o1 \in Outcomes, NEW o2 \in Outcomes,
         second = None \/ second \in R \ Asked,
         Journal(Consumed, o1, second, o2), request' = None,
         NEW r \in Requests, request = r, woken'[r] = woken[r] + 1, asks' = asks
  PROVE  Charged(r)' /\ Unasked(r)'
<1>1. failures \in Nat /\ failures' \in Nat /\ failures' >= failures /\ woken[r] \in Nat /\ asks \in Nat
  BY JournalCounts DEF Typed, IInv
<1>2. Charged(r) /\ Unasked(r)
  BY DEF WInv
<1>3. request' # r /\ AskFor(r) \in Asked /\ ~(r > asks)
  BY <1>2, ReviewsAssumption DEF Requests, AskFor, Asked, Unasked
<1>4. CASE failures' # failures
  <2>1. failures' >= failures + 1
    BY <1>1, <1>4
  <2>2. Charge(r)' \in 0..1 /\ Charge(r) \in 1..2
    BY <1>3 DEF Charge
  <2>3. QED
    BY <1>1, <1>2, <1>3, <2>1, <2>2 DEF Charged, Unasked
<1>5. CASE failures' = failures /\ Torn(journal)
  <2>1. Charge(r)' \in 0..1 /\ Charge(r) = 2
    BY <1>3, <1>5 DEF Charge
  <2>2. QED
    BY <1>1, <1>2, <1>3, <1>5, <2>1 DEF Charged, Unasked
<1>6. CASE failures' = failures /\ ~Torn(journal)
  <2>1. o1 = "whole" /\ o2 = "whole"
    BY <1>1, <1>6, JournalCounts
  <2>2. PICK j \in Appends(journal, Consumed, o1) :
          journal' \in IF second = None THEN {j} ELSE Appends(j, second, o2)
    BY DEF Journal
  <2>3. Lined(j, R) /\ ~Revivable(j, r)
    BY <1>6, <2>1, <2>2, AppendsLined, UsedUp
  <2>4. ~Revivable(journal', r)
    <3>1. CASE second = None
      BY <2>2, <2>3, <3>1
    <3>2. CASE second # None
      <4>1. second # AskFor(r) /\ second \in R
        BY <1>3, <3>2
      <4>2. QED
        BY <2>2, <2>3, <3>2, <4>1, ReviveBack
    <3>3. QED
      BY <3>1, <3>2
  <2>5. Charge(r)' = 0 /\ Charge(r) = 1
    BY <1>3, <1>6, <2>4 DEF Charge
  <2>6. QED
    BY <1>1, <1>2, <1>3, <1>6, <2>5 DEF Charged, Unasked
<1>7. QED
  BY <1>4, <1>5, <1>6

LEMMA ReviewWakes ==
  ASSUME IInv, IInv', Typed, WInv, Review
  PROVE  WInv'
<1>. DEFINE R == Kept(day', gateDays', toldTier')
<1>1. PICK mode \in {"review", "universe"}, session \in {"cron", "chat"}, fresh \in BOOLEAN,
           o1 \in Outcomes, o2 \in Outcomes, view \in Views :
        /\ Journal(Taken(Takes(mode)), o1,
                   IF Advances(mode, session, fresh) THEN Reached(view) ELSE None, o2)
        /\ review' = IF Advances(mode, session, fresh) THEN Persisted(o2, Reached(view)) ELSE review
        /\ Observe(mode, session, fresh, view)
        /\ request' = IF Takes(mode) THEN None ELSE request
        /\ UNCHANGED <<day, asks>>
  <2>1. "whole" \in Outcomes
    BY DEF Outcomes
  <2>2. QED
    BY <2>1 DEF Review
<1>. DEFINE adv    == Advances(mode, session, fresh)
            second == IF adv THEN Reached(view) ELSE None
<1>2. view.tier # None => view.tier \in Nat
  BY ReviewsAssumption DEF Views
<1>3. /\ day' = day /\ asks' = asks /\ day \in Nat /\ asks \in Nat
      /\ toldTier \in Nat /\ gateDays \in SUBSET (0..day)
  BY <1>1 DEF IInv
<1>4. /\ toldTier' \in Nat /\ toldTier <= toldTier'
      /\ gateDays \subseteq gateDays' /\ gateDays' \in SUBSET (0..day')
  BY <1>1, <1>2, <1>3 DEF Observe
<1>5. adv => /\ gateDays' = gateDays \union {day}
             /\ view.tier # None => view.tier <= toldTier'
             /\ review # None => review.day # day
  BY <1>1, <1>2, <1>3 DEF Observe, Advances
<1>6. adv => Reached(view) \in Fair(day', gateDays', toldTier')
  BY <1>3, <1>4, <1>5, ReachedFair
<1>7. Lined(journal, R) /\ Consumed \in R \ Asked
  <2>1. Lined(journal, R)
    BY <1>3, <1>4, StillFair
  <2>2. Consumed \notin Asked
    BY DEF Consumed, Asked
  <2>3. QED
    BY <2>1, <2>2 DEF Kept
<1>8. second = None \/ (second \in R \ Asked /\ second.kind \notin AskKinds)
  BY <1>6 DEF Kept, Fair, Asked, AskKinds, Consumed
<1>9. /\ cleared' = cleared
      /\ woken' = IF Takes(mode) THEN [woken EXCEPT ![request] = @ + 1] ELSE woken
  BY <1>1 DEF Observe, Takes
<1>10. Consumed # None /\ None \notin Requests
  BY ReviewsAssumption, NoneAssumption DEF Records, Requests
<1>11. woken \in [Requests -> Nat] /\ request \in Requests \union {None}
  BY DEF Typed
<1>12. Takes(mode) => request \in Requests
  BY <1>11 DEF Takes
<1>13. \A r \in Requests : woken'[r] \in Nat /\ woken'[r] >= woken[r]
  BY <1>9, <1>11, <1>12
<1>14. Journal(Taken(Takes(mode)), o1, second, o2)
  BY <1>1
<1>. HIDE DEF R, second, adv
<1>15. CASE Takes(mode)
  <2>1. Taken(Takes(mode)) = Consumed /\ request' = None
    BY <1>1, <1>15 DEF Taken
  <2>2. Journal(Consumed, o1, second, o2)
    BY <1>14, <2>1
  <2>3. woken'[request] > 0
    BY <1>9, <1>11, <1>12, <1>15
  <2>4. Waits' /\ (Torn(journal) => failures > 0)'
    BY <1>3, <1>7, <1>8, <1>9, <1>13, <2>2, <2>3, QuietWaits
  <2>5. ASSUME NEW r \in Requests, r = request PROVE Charged(r)' /\ Unasked(r)'
    <3>1. woken'[r] = woken[r] + 1
      BY <1>9, <1>11, <1>12, <1>15, <2>5
    <3>2. QED
      BY <1>3, <1>7, <1>8, <1>10, <2>1, <2>2, <2>5, <3>1, TakenCharges
  <2>6. ASSUME NEW r \in Requests, r # request PROVE Charged(r)' /\ Unasked(r)'
    <3>1. woken'[r] = woken[r]
      BY <1>9, <1>11, <1>12, <1>15, <2>6
    <3>2. QED
      BY <1>3, <1>7, <1>8, <2>1, <2>2, <3>1, QuietCharges
  <2>7. QED
    BY <2>4, <2>5, <2>6 DEF WInv
<1>16. CASE ~Takes(mode)
  <2>1. Taken(Takes(mode)) = None /\ request' = request /\ woken' = woken
    BY <1>1, <1>9, <1>16 DEF Taken
  <2>2. Journal(None, o1, second, o2)
    BY <1>14, <2>1
  <2>3. Waits' /\ (Torn(journal) => failures > 0)'
    BY <1>3, <1>7, <1>8, <1>9, <1>13, <2>1, <2>2, QuietWaits
  <2>4. ASSUME NEW r \in Requests PROVE Charged(r)' /\ Unasked(r)'
    BY <1>3, <1>7, <1>8, <2>1, <2>2, QuietCharges
  <2>5. QED
    BY <2>3, <2>4 DEF WInv
<1>17. QED
  BY <1>15, <1>16

LEMMA ClearWakes ==
  ASSUME IInv, Typed, WInv, Clear
  PROVE  WInv'
<1>. DEFINE R == Kept(day, gateDays, toldTier)
<1>1. PICK o \in Outcomes : Journal(Consumed, o, None, "whole")
  BY DEF Clear, JournalOne
<1>2. Consumed \in R \ Asked /\ Lined(journal, R) /\ "whole" \in Outcomes
  BY DEF Kept, Consumed, Asked, IInv, Outcomes
<1>3. request' = None /\ cleared' = cleared \union {request} /\ asks' = asks /\ woken' = woken
  BY DEF Clear
<1>4. \A r \in Requests : woken'[r] \in Nat /\ woken'[r] >= woken[r]
  BY <1>3 DEF Typed
<1>. HIDE DEF R
<1>5. Waits' /\ (Torn(journal) => failures > 0)'
  BY <1>1, <1>2, <1>3, <1>4, QuietWaits
<1>6. ASSUME NEW r \in Requests PROVE Charged(r)' /\ Unasked(r)'
  BY <1>1, <1>2, <1>3, QuietCharges
<1>7. QED
  BY <1>5, <1>6 DEF WInv

LEMMA OtherWakes ==
  ASSUME IInv, Typed, WInv, JournalOther
  PROVE  WInv'
<1>. DEFINE R == Kept(day, gateDays, toldTier)
<1>1. PICK o \in Outcomes : Journal(Other, o, None, "whole")
  BY DEF JournalOther, JournalOne
<1>2. Other \in R \ Asked /\ Lined(journal, R) /\ "whole" \in Outcomes /\ Other.kind \notin AskKinds
  BY DEF Kept, Other, Asked, IInv, Outcomes, AskKinds, Consumed
<1>3. request' = request /\ cleared' = cleared /\ asks' = asks /\ woken' = woken
  BY DEF JournalOther, memory, observers
<1>4. \A r \in Requests : woken'[r] \in Nat /\ woken'[r] >= woken[r]
  BY <1>3 DEF Typed
<1>. HIDE DEF R
<1>5. Waits' /\ (Torn(journal) => failures > 0)'
  BY <1>1, <1>2, <1>3, <1>4, QuietWaits
<1>6. ASSUME NEW r \in Requests PROVE Charged(r)' /\ Unasked(r)'
  BY <1>1, <1>2, <1>3, QuietCharges
<1>7. QED
  BY <1>5, <1>6 DEF WInv

\* A request that was just made is the newest line, or its append failed.
LEMMA AskWakes ==
  ASSUME IInv, Typed, WInv, Ask
  PROVE  WInv'
<1>. DEFINE R == Kept(day, gateDays, toldTier)
<1>0. PICK a \in Nat : a = asks + 1
  BY DEF IInv
<1>1. PICK o \in Outcomes : Journal(AskFor(a), o, None, "whole")
  BY <1>0 DEF Ask, JournalOne, AskFor
<1>2. /\ request' = a /\ asks' = a /\ asks < MaxAsks /\ cleared' = cleared /\ woken' = woken
      /\ asks \in Nat /\ a \in Requests /\ a > asks
  BY <1>0, ReviewsAssumption DEF Ask, observers, IInv, Requests
<1>3. AskFor(a) \in R /\ Lined(journal, R) /\ "whole" \in Outcomes
  BY <1>2 DEF Kept, AskFor, Asked, IInv, Outcomes
<1>4. /\ failures \in Nat /\ failures' \in Nat /\ failures' >= failures
      /\ failures' = failures => o = "whole"
      /\ woken \in [Requests -> Nat]
  BY <1>1, JournalCounts DEF Typed
<1>. HIDE DEF R
<1>5. failures' = failures /\ Torn(journal') => Torn(journal)
  BY <1>1, <1>3, <1>4, JournalRequests
<1>6. (Torn(journal) => failures > 0)'
  BY <1>4, <1>5 DEF WInv
<1>7. ASSUME NEW r \in Requests, r # a PROVE Charged(r)' /\ Unasked(r)'
  <2>1. AskFor(a) # AskFor(r)
    <3>1. AskFor(a).at = a /\ AskFor(r).at = r
      BY DEF AskFor
    <3>2. QED
      BY <1>7, <3>1
  <2>2. Revivable(journal', r) => Revivable(journal, r)
    <3>1. journal' = journal \/ journal' \in Appends(journal, AskFor(a), o)
      BY <1>1 DEF Journal
    <3>2. QED
      BY <1>3, <2>1, <3>1, ReviveBack
  <2>3. Charged(r) /\ Unasked(r)
    BY DEF WInv
  <2>4. Charged(r)'
    BY <1>2, <1>4, <1>5, <1>7, <2>2, <2>3, StillCharged
  <2>5. Unasked(r)'
    <3>1. r > a => r > asks
      BY <1>0, <1>2 DEF Requests
    <3>2. QED
      BY <1>2, <1>7, <2>2, <2>3, <3>1 DEF Unasked
  <2>6. QED
    BY <2>4, <2>5
<1>8. Charged(a)' /\ Unasked(a)'
  <2>1. woken'[a] = 0
    BY <1>2 DEF WInv, Unasked
  <2>2. Charge(a)' \in {1, 2} /\ (Charge(a)' = 2 => Torn(journal'))
    BY <1>2 DEF Charge
  <2>3. woken'[a] + Charge(a)' <= 1 + failures'
    BY <1>4, <1>6, <2>1, <2>2
  <2>4. ~(a > a)
    BY <1>2
  <2>5. QED
    BY <1>2, <2>3, <2>4 DEF Charged, Unasked
<1>9. Waits'
  <2>1. SUFFICES ASSUME failures' = 0 PROVE OnFile(journal', a)
    BY <1>2 DEF Waits
  <2>2. o = "whole" /\ failures = 0 /\ ~Torn(journal)
    <3>1. failures = 0 /\ failures' = failures
      BY <1>4, <2>1
    <3>2. QED
      BY <1>4, <3>1 DEF WInv
  <2>3. journal' \in Appends(journal, AskFor(a), "whole")
    <3>1. AskFor(a) # None
      BY <1>2, NoneAssumption DEF Records, Asked, AskFor
    <3>2. QED
      BY <1>1, <2>2, <3>1 DEF Journal
  <2>4. QED
    BY <1>3, <2>2, <2>3, NewIsSettled DEF OnFile
<1>10. QED
  BY <1>6, <1>7, <1>8, <1>9 DEF WInv

LEMMA RestartWakes ==
  ASSUME IInv, Typed, WInv, Restart
  PROVE  WInv'
<1>. DEFINE R == Kept(day, gateDays, toldTier)
<1>1. PICK j \in {journal} \union Appends(journal, Other, "cut") :
        request' = ReplayedRequest(j) /\ journal' \in Appends(j, Other, "whole")
  BY DEF Restart
<1>2. UNCHANGED <<day, asks, gateDays, toldTier, woken, cleared, failures>>
  BY DEF Restart, observers
<1>3. Other \in R /\ "whole" \in Outcomes /\ Other.kind \notin AskKinds /\ Lined(journal, R)
  BY DEF Kept, Outcomes, Other, AskKinds, Consumed, IInv
<1>. HIDE DEF R
<1>4. Lined(j, R) /\ Lined(journal', R)
  BY <1>1, <1>3, AppendsLined
<1>5. ~Torn(journal')
  BY <1>1, <1>3, <1>4, TornNow
<1>6. failures \in Nat /\ woken \in [Requests -> Nat] /\ asks \in Nat /\ asks <= MaxAsks
  BY DEF Typed, IInv
<1>7. ASSUME NEW r \in Requests PROVE Charged(r)' /\ Unasked(r)'
  <2>1. Other # AskFor(r)
    BY DEF Other, AskFor
  <2>2. Revivable(j, r) => Revivable(journal, r)
    BY <1>1, <1>3, <2>1, ReviveBack
  <2>3. Revivable(journal', r) => Revivable(journal, r)
    BY <1>1, <1>3, <1>4, <2>1, <2>2, ReviveBack
  <2>4. request' = r => Revivable(journal, r)
    BY <1>1, <1>4, <2>2, Replays DEF R
  <2>5. Charged(r) /\ Unasked(r)
    BY DEF WInv
  <2>6. Charge(r)' \in {0, 1} /\ (Charge(r)' = 1 => Charge(r) \in {1, 2}) /\ Charge(r) \in {0, 1, 2}
    BY <1>5, <2>3, <2>4 DEF Charge
  <2>7. Charged(r)'
    BY <1>2, <1>6, <2>5, <2>6 DEF Charged
  <2>8. Unasked(r)'
    BY <1>2, <2>3, <2>4, <2>5 DEF Unasked
  <2>9. QED
    BY <2>7, <2>8
<1>8. Waits'
  <2>1. SUFFICES ASSUME failures = 0, OnDisk(journal'), asks > 0,
                        request = asks /\ OnFile(journal, asks)
                 PROVE  request' = asks /\ OnFile(journal', asks)
    <3>1. OnDisk(journal') => OnDisk(journal)
      <4>1. OnDisk(journal') => OnDisk(j)
        BY <1>1, <1>3, <1>4, OnDiskBack
      <4>2. OnDisk(j) => OnDisk(journal)
        BY <1>1, <1>3, OnDiskBack
      <4>3. QED
        BY <4>1, <4>2
    <3>2. QED
      BY <1>2, <3>1 DEF WInv, Waits
  <2>2. OnDisk(j)
    BY <1>1, <1>3, <1>4, <2>1, OnDiskBack
  <2>3. OnFile(j, asks)
    BY <1>1, <1>3, <2>1, <2>2, StaysOnFile
  <2>4. request' = asks
    BY <1>1, <1>4, <2>3, ReadBack
  <2>5. OnFile(journal', asks)
    BY <1>1, <1>3, <1>4, <2>1, <2>3, StaysOnFile
  <2>6. QED
    BY <2>4, <2>5
<1>9. QED
  BY <1>5, <1>7, <1>8 DEF WInv

LEMMA WakesInvariant == Spec => [](IInv /\ Typed /\ WInv)
<1>1. Init => WInv
  <2>1. SUFFICES ASSUME Init PROVE WInv
    OBVIOUS
  <2>2. /\ request = None /\ asks = 0 /\ failures = 0 /\ woken = [r \in Requests |-> 0]
        /\ journal.file = <<>> /\ journal.rotated = <<>>
    BY <2>1 DEF Init, JournalInit
  <2>3. ~Torn(journal)
    BY <2>2 DEF Torn
  <2>4. AllLines(journal) = {}
    BY <2>2 DEF AllLines, Lines
  <2>5. ASSUME NEW r \in Requests PROVE Charged(r) /\ Unasked(r)
    <3>1. ~Revivable(journal, r)
      BY <2>4 DEF Revivable
    <3>2. request # r /\ woken[r] = 0
      BY <2>2, ReviewsAssumption DEF Requests
    <3>3. Charge(r) = 0
      BY <3>1, <3>2 DEF Charge
    <3>4. QED
      BY <2>2, <3>1, <3>2, <3>3 DEF Charged, Unasked
  <2>6. QED
    BY <2>2, <2>3, <2>5 DEF WInv, Waits
<1>2. IInv /\ Typed /\ WInv /\ IInv' /\ [Next]_vars => WInv'
  <2>1. SUFFICES ASSUME IInv, Typed, WInv, IInv', [Next]_vars PROVE WInv'
    OBVIOUS
  <2>2. CASE Review
    BY <2>1, <2>2, ReviewWakes
  <2>3. CASE Ask
    BY <2>1, <2>3, AskWakes
  <2>4. CASE Clear
    BY <2>1, <2>4, ClearWakes
  <2>5. CASE JournalOther
    BY <2>1, <2>5, OtherWakes
  <2>6. CASE Restart
    BY <2>1, <2>6, RestartWakes
  <2>7. CASE NewDay \/ UNCHANGED vars
    <3>1. UNCHANGED <<journal, request, asks, woken, cleared, failures>>
      BY <2>7 DEF NewDay, vars, memory, observers, bounds
    <3>2. QED
      BY <2>1, <3>1 DEF WInv, Charged, Unasked, Charge, Waits
  <2>8. QED
    BY <2>1, <2>2, <2>3, <2>4, <2>5, <2>6, <2>7 DEF Next
<1>3. QED
  BY <1>1, <1>2, TypedInvariant, PTL DEF Spec

\* OneWake: a request wakes one review, and one more for each append that failed;
\* without a failure or a rotation that lost a line, the last one asked for waits
\* in memory and on file until it is answered or taken back.
THEOREM WakesOnce == Spec => []OneWake
<1>1. IInv /\ Typed /\ WInv => OneWake
  <2>1. SUFFICES ASSUME IInv, Typed, WInv PROVE OneWake
    OBVIOUS
  <2>2. ASSUME NEW r \in Requests PROVE woken[r] <= 1 + failures
    <3>1. Charge(r) \in {0, 1, 2} /\ woken[r] \in Nat /\ failures \in Nat
      BY <2>1 DEF Charge, Typed
    <3>2. woken[r] + Charge(r) <= 1 + failures
      BY <2>1 DEF WInv, Charged
    <3>3. QED
      BY <3>1, <3>2
  <2>3. OnFile(journal, asks) => ReplayedRequest(journal) = asks
    BY <2>1, ReadBack DEF IInv
  <2>4. QED
    BY <2>1, <2>2, <2>3 DEF OneWake, WInv, Waits, AllOnDisk, OnDisk
<1>2. QED
  BY <1>1, WakesInvariant, PTL
=============================================================================
