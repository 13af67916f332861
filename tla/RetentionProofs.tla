-------------------------- MODULE RetentionProofs --------------------------
(***************************************************************************)
(* What select_prunable guarantees, for any set of dates and any retention *)
(* count: the facts that the proofs about local and remote retention rest  *)
(* on.                                                                     *)
(*                                                                         *)
(* Counting needs the extremal date of a set.  It comes from the           *)
(* well-foundedness of < on the naturals (WFMin), not from an induction    *)
(* scheme, which the provers could not instantiate.                        *)
(***************************************************************************)
EXTENDS Retention, FiniteSetTheorems, TLAPS

\* A set of numbers that is not empty has a smallest one.
LEMMA SmallestNumber ==
    ASSUME NEW S \in SUBSET Nat, S # {}
    PROVE  \E m \in S : \A d \in S : m <= d
<1>1. PICK m \in S : \A d \in S : ~ (<<d, m>> \in OpToRel(<, Nat))
      BY NatLessThanWellFounded, WFMin, S # {}
<1>2. ASSUME NEW d \in S PROVE m <= d
  <2>1. <<d, m>> \notin OpToRel(<, Nat)
        BY <1>1
  <2>2. ~ (d < m)
        BY <2>1 DEF OpToRel
  <2>3. QED
        BY <2>2
<1>3. QED
      BY <1>2

\* A set of dates that is not empty and has a bound has a newest one.
LEMMA NewestDate ==
    ASSUME NEW n \in Nat, NEW S \in SUBSET (1 .. n), S # {}
    PROVE  \E m \in S : \A d \in S : d <= m
<1> DEFINE T == {n - d : d \in S}
<1>1. T \in SUBSET Nat /\ T # {}
  <2>1. \A d \in S : n - d \in Nat
        OBVIOUS
  <2>2. PICK d \in S : TRUE
        BY S # {}
  <2>3. n - d \in T
        OBVIOUS
  <2>4. QED
        BY <2>1, <2>3
<1>2. PICK t \in T : \A u \in T : t <= u
      BY <1>1, SmallestNumber
<1>3. PICK m \in S : t = n - m
      OBVIOUS
<1>4. ASSUME NEW d \in S PROVE d <= m
  <2>1. n - d \in T
        OBVIOUS
  <2>2. n - m <= n - d
        BY <1>2, <1>3, <2>1
  <2>3. QED
        BY <2>2
<1>5. QED
      BY <1>4

LEMMA DatesFinite ==
    ASSUME NEW n \in Nat, NEW S \in SUBSET (1 .. n)
    PROVE  IsFiniteSet(S) /\ Cardinality(S) \in Nat
<1>1. IsFiniteSet(1 .. n)
      BY FS_Interval
<1>2. IsFiniteSet(S)
      BY <1>1, FS_Subset
<1>3. QED
      BY <1>2, FS_CardinalityType

LEMMA NewerThanDates ==
    ASSUME NEW n \in Nat, NEW dates \in SUBSET (1 .. n), NEW d
    PROVE  /\ NewerThan(d, dates) \in SUBSET dates
           /\ NewerThan(d, dates) \in SUBSET (1 .. n)
           /\ IsFiniteSet(NewerThan(d, dates))
           /\ Cardinality(NewerThan(d, dates)) \in Nat
<1>1. NewerThan(d, dates) \in SUBSET dates
      BY DEF NewerThan
<1>2. QED
      BY <1>1, DatesFinite

\* The retention count select_prunable works with: max(0, keep).
Count(keep) == IF keep < 0 THEN 0 ELSE keep

LEMMA PrunableMembers ==
    ASSUME NEW dates, NEW keep, NEW d
    PROVE  d \in SelectPrunable(dates, keep) <=>
               d \in dates /\ Cardinality(NewerThan(d, dates)) >= Count(keep)
BY DEF SelectPrunable, Count

\* The fewer dates are newer, the newer is the date: what is newer than a
\* prunable date and not prunable itself, is newer than every prunable date.
LEMMA PrunableDownwards ==
    ASSUME NEW n \in Nat, NEW dates \in SUBSET (1 .. n), NEW keep \in Int,
           NEW d \in SelectPrunable(dates, keep), NEW e \in dates, e <= d
    PROVE  e \in SelectPrunable(dates, keep)
<1>1. d \in dates /\ Cardinality(NewerThan(d, dates)) >= Count(keep)
      BY PrunableMembers
<1>2. NewerThan(d, dates) \in SUBSET NewerThan(e, dates)
  <2>1. \A x \in dates : x > d => x > e
        BY <1>1
  <2>2. QED
        BY <2>1 DEF NewerThan
<1>3. Cardinality(NewerThan(d, dates)) <= Cardinality(NewerThan(e, dates))
      BY <1>2, NewerThanDates, FS_Subset
<1>4. Cardinality(NewerThan(e, dates)) >= Count(keep)
  <2>1. Cardinality(NewerThan(d, dates)) \in Nat
        /\ Cardinality(NewerThan(e, dates)) \in Nat
        BY NewerThanDates
  <2>2. Count(keep) \in Int
        BY DEF Count
  <2>3. QED
        BY <1>1, <1>3, <2>1, <2>2
<1>5. QED
      BY <1>4, PrunableMembers

\* No more archives are kept than the retention asks for.
THEOREM KeptAtMost ==
    ASSUME NEW n \in Nat, NEW dates \in SUBSET (1 .. n), NEW keep \in Int
    PROVE  Cardinality(dates \ SelectPrunable(dates, keep)) <= Count(keep)
<1> DEFINE K == dates \ SelectPrunable(dates, keep)
<1>1. K \in SUBSET (1 .. n) /\ K \in SUBSET Nat
  <2>1. K \in SUBSET dates
        OBVIOUS
  <2> HIDE DEF K
  <2>2. QED
        BY <2>1
<1>2. CASE K = {}
      BY <1>2, FS_EmptySet DEF Count
<1>3. CASE K # {}
  <2>1. PICK m \in K : \A d \in K : m <= d
        BY <1>1, <1>3, SmallestNumber
  <2>2. Cardinality(NewerThan(m, dates)) < Count(keep)
    <3>1. m \in dates /\ ~ (Cardinality(NewerThan(m, dates)) >= Count(keep))
          BY PrunableMembers
    <3>2. QED
          BY <3>1, NewerThanDates DEF Count
  <2>3. K \in SUBSET (NewerThan(m, dates) \cup {m})
        BY <1>1, <2>1 DEF NewerThan
  <2> DEFINE N == NewerThan(m, dates)
  <2>4. IsFiniteSet(N) /\ Cardinality(N) \in Nat
        BY NewerThanDates
  <2>5. /\ IsFiniteSet(N \cup {m})
        /\ Cardinality(N \cup {m}) <= Cardinality(N) + 1
    <3> HIDE DEF N
    <3>1. QED
          BY <2>4, FS_AddElement
  <2>6. Cardinality(K) <= Cardinality(N \cup {m}) /\ Cardinality(K) \in Nat
    <3>1. K \in SUBSET (N \cup {m})
          BY <2>3
    <3> HIDE DEF N, K
    <3>2. QED
          BY <3>1, <2>5, FS_Subset, FS_CardinalityType
  <2>7. Cardinality(N \cup {m}) \in Nat
        BY <2>5, FS_CardinalityType
  <2> HIDE DEF N, K
  <2>8. Cardinality(N) < Count(keep)
        BY <2>2 DEF N
  <2>9. QED
        BY <2>4, <2>5, <2>6, <2>7, <2>8 DEF Count, K
<1>4. QED
      BY <1>2, <1>3

\* What is let go is let go for newer archives: the newer ones that are kept
\* are as many as the retention asks for.
THEOREM PrunableSuperseded ==
    ASSUME NEW n \in Nat, NEW dates \in SUBSET (1 .. n), NEW keep \in Int,
           NEW d \in SelectPrunable(dates, keep)
    PROVE  Cardinality({e \in dates \ SelectPrunable(dates, keep) : e > d})
               >= Count(keep)
<1> DEFINE P == SelectPrunable(dates, keep)
           G == {e \in dates \ P : e > d}
<1>1. P \in SUBSET (1 .. n)
      BY DEF SelectPrunable
<1>2. PICK m \in P : \A e \in P : e <= m
      BY <1>1, NewestDate
<1>3. Cardinality(NewerThan(m, dates)) >= Count(keep)
      BY PrunableMembers
<1>4. NewerThan(m, dates) \in SUBSET G
  <2> SUFFICES ASSUME NEW e \in NewerThan(m, dates) PROVE e \in G
      OBVIOUS
  <2>1. e \in dates /\ e > m
        BY DEF NewerThan
  <2>2. e \notin P
        BY <1>1, <1>2, <2>1
  <2>3. d <= m
        BY <1>2
  <2>4. e > d
        BY <1>1, <2>1, <2>3
  <2>5. QED
        BY <2>1, <2>2, <2>4
<1>5. IsFiniteSet(G) /\ Cardinality(G) \in Nat
  <2>1. G \in SUBSET (1 .. n)
        OBVIOUS
  <2>2. QED
        BY <2>1, DatesFinite
<1>6. Cardinality(NewerThan(m, dates)) <= Cardinality(G)
      BY <1>4, <1>5, FS_Subset
<1>7. QED
      BY <1>3, <1>5, <1>6, NewerThanDates DEF Count

\* With a retention of at least one, the newest archive is never let go.
THEOREM NewestKept ==
    ASSUME NEW n \in Nat, NEW dates \in SUBSET (1 .. n),
           NEW keep \in Int, keep >= 1,
           NEW d, \A e \in dates : e <= d
    PROVE  d \notin SelectPrunable(dates, keep)
<1> SUFFICES ASSUME d \in SelectPrunable(dates, keep) PROVE FALSE
    OBVIOUS
<1>1. d \in dates /\ Cardinality(NewerThan(d, dates)) >= Count(keep)
      BY PrunableMembers
<1>2. NewerThan(d, dates) = {}
  <2>1. \A e \in dates : e \in Int /\ d \in Int /\ ~ (e > d)
        BY <1>1
  <2>2. QED
        BY <2>1 DEF NewerThan
<1>3. QED
      BY <1>1, <1>2, FS_EmptySet DEF Count
=============================================================================
