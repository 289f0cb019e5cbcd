-------------------------- MODULE QuotaModelProofs --------------------------
(***************************************************************************)
(* Proofs about QuotaModel and the records of SegmentChunks, for any       *)
(* number of tables, segments, sizes per record, quotas, changes and       *)
(* failures.                                                               *)
(***************************************************************************)
EXTENDS QuotaModel, FiniteSetTheorems, WellFoundedInduction, TLAPS

(***************************************************************************)
(* The index arithmetic of TableSizeEntry: the loops over records and the  *)
(* loops over segments visit the same sizes.                               *)
(***************************************************************************)

\* Division with remainder by the record length.
LEMMA DivMod ==
    ASSUME NEW n \in Nat
    PROVE  /\ n \div SEGMENT_SIZE_ARRAY_LENGTH \in Nat
           /\ n % SEGMENT_SIZE_ARRAY_LENGTH \in 0 .. SEGMENT_SIZE_ARRAY_LENGTH - 1
           /\ n = SEGMENT_SIZE_ARRAY_LENGTH * (n \div SEGMENT_SIZE_ARRAY_LENGTH)
                    + (n % SEGMENT_SIZE_ARRAY_LENGTH)
<1>1. SEGMENT_SIZE_ARRAY_LENGTH \in Int /\ SEGMENT_SIZE_ARRAY_LENGTH > 0
    BY ChunkAssumption
<1> DEFINE L == SEGMENT_SIZE_ARRAY_LENGTH
<1>2. n % L \in 0 .. L - 1
    BY <1>1, SMT
<1>3. n = L * (n \div L) + (n % L)
    BY <1>1, SMT
<1>4. n \div L \in Int
    BY <1>1, SMT
<1>5. n \div L >= 0
    BY <1>1, <1>2, <1>3, <1>4, SMT
<1> QED BY <1>2, <1>3, <1>4, <1>5

\* Two multiples of the record length that bracket the same number are equal.
LEMMA SameChunk ==
    ASSUME NEW L \in Nat \ {0}, NEW i \in Nat, NEW j \in Nat, NEW n \in Nat,
           i * L <= n, n < (i + 1) * L, j * L <= n, n < (j + 1) * L
    PROVE  i = j
<1>1. ASSUME NEW a \in Nat, NEW b \in Nat, a < b
      PROVE  (a + 1) * L <= b * L
    <2>1. a + 1 <= b
        BY <1>1
    <2> QED BY <2>1, Z3
<1>2. ~(i < j)
    BY <1>1
<1>3. ~(j < i)
    BY <1>1
<1> QED BY <1>2, <1>3

\* get_table_size_map_entry, calculate_active_table_disk_usage and the loops of
\* track and flush: a segment's size lies in exactly one record, the one that
\* TableSizeEntryId names, so that no size is added or flushed twice or skipped.
THEOREM RecordsPartitionSegments ==
    \A s \in Segids :
        /\ TableSizeEntryId(s) \in Nat
        /\ s \in SegidsOf(TableSizeEntryId(s))
        /\ \A id \in Nat : s \in SegidsOf(id) => id = TableSizeEntryId(s)
<1> SUFFICES ASSUME NEW s \in Segids
             PROVE  /\ TableSizeEntryId(s) \in Nat
                    /\ s \in SegidsOf(TableSizeEntryId(s))
                    /\ \A id \in Nat : s \in SegidsOf(id) => id = TableSizeEntryId(s)
    OBVIOUS
<1> DEFINE L == SEGMENT_SIZE_ARRAY_LENGTH
           q == (s + 1) \div L
           r == (s + 1) % L
<1>1. s \in Int /\ s + 1 \in Nat /\ s < SEGCOUNT /\ L \in Nat \ {0} /\ SEGCOUNT \in Nat
    BY ChunkAssumption DEF Segids
<1>2. q \in Nat /\ r \in 0 .. L - 1 /\ s + 1 = L * q + r
    BY <1>1, DivMod
<1>3. TableSizeEntryId(s) = q
    BY DEF TableSizeEntryId
<1> HIDE DEF q, r
<1>4. q * L <= s + 1 /\ s + 1 < (q + 1) * L
    BY <1>1, <1>2, Z3
<1>5. s \in SegidsOf(q)
    BY <1>1, <1>2, <1>4, Z3 DEF SegidsOf, TableSizeEntrySegidStart, TableSizeEntrySegidEnd
<1>6. ASSUME NEW id \in Nat, s \in SegidsOf(id)
      PROVE  id = q
    <2>1. id * L <= s + 1 /\ s + 1 < (id + 1) * L
        BY <1>1, <1>6, Z3 DEF SegidsOf, TableSizeEntrySegidStart, TableSizeEntrySegidEnd
    <2> QED BY <1>1, <1>2, <1>4, <2>1, SameChunk
<1> QED BY <1>2, <1>3, <1>5, <1>6

\* TableSizeEntryGetSize and the flush flag macros: within a record the index is
\* the distance from the record's first segment, below the array length, and so
\* never shared by two segments.
THEOREM IndexIsOffset ==
    \A s \in Segids :
        /\ TableSizeEntryIndex(s) \in 0 .. SEGMENT_SIZE_ARRAY_LENGTH - 1
        /\ TableSizeEntryIndex(s) = s - TableSizeEntrySegidStart(TableSizeEntryId(s))
<1> SUFFICES ASSUME NEW s \in Segids
             PROVE  /\ TableSizeEntryIndex(s) \in 0 .. SEGMENT_SIZE_ARRAY_LENGTH - 1
                    /\ TableSizeEntryIndex(s) = s - TableSizeEntrySegidStart(TableSizeEntryId(s))
    OBVIOUS
<1>1. s \in Int /\ s + 1 \in Nat
    BY DEF Segids
<1>2. /\ (s + 1) \div SEGMENT_SIZE_ARRAY_LENGTH \in Nat
      /\ (s + 1) % SEGMENT_SIZE_ARRAY_LENGTH \in 0 .. SEGMENT_SIZE_ARRAY_LENGTH - 1
      /\ s + 1 = SEGMENT_SIZE_ARRAY_LENGTH * ((s + 1) \div SEGMENT_SIZE_ARRAY_LENGTH)
                   + ((s + 1) % SEGMENT_SIZE_ARRAY_LENGTH)
    BY <1>1, DivMod
<1> DEFINE q == (s + 1) \div SEGMENT_SIZE_ARRAY_LENGTH
           r == (s + 1) % SEGMENT_SIZE_ARRAY_LENGTH
<1>3. TableSizeEntryIndex(s) = r /\ TableSizeEntryId(s) = q
    BY DEF TableSizeEntryIndex, TableSizeEntryId
<1> HIDE DEF q, r
<1>4. r = s - (q * SEGMENT_SIZE_ARRAY_LENGTH - 1)
    BY <1>1, <1>2, ChunkAssumption, Z3 DEF q, r
<1> QED BY <1>2, <1>3, <1>4 DEF TableSizeEntrySegidStart, r

-----------------------------------------------------------------------------
(***************************************************************************)
(* The dispatch of the reject map.                                         *)
(***************************************************************************)
\* Once the model is initialised, and as long as nothing failed, the segments
\* have the reject map unless flush_local_reject_map has just found a change.
SegInv ==
    /\ reject_map = [k \in DOMAIN reject_map |-> reject_map[k]]
    /\ failures \in Nat
    /\ failures = 0 /\ inited =>
           \/ seg_reject_map = reject_map
           \/ pc = "dispatch" /\ changed

\* Flushing verdicts that report no change leaves the reject map as it is.
LEMMA NoNewsNoChange ==
  ASSUME SegInv, FlushLocalRejectMap, ~changed'
  PROVE  reject_map' = reject_map
  <1> DEFINE X    == {k \in DOMAIN local_reject_map : local_reject_map[k].isexceeded}
             gone == DOMAIN local_reject_map \ X
             verdict(k) == local_reject_map[k].segexceeded
  <1>1. PICK E :
          /\ reject_map' = [k \in (DOMAIN reject_map \ gone) \cup E |->
                               IF k \in (X \cap DOMAIN reject_map) \cup E
                               THEN verdict(k) ELSE reject_map[k]]
          /\ changed' = \/ gone # {} \/ E # {}
                        \/ \E k \in X \cap DOMAIN reject_map : reject_map[k] # verdict(k)
    BY Zenon DEF FlushLocalRejectMap
  <1> HIDE DEF X, gone, verdict
  <1>2. gone = {} /\ E = {} /\ \A k \in X \cap DOMAIN reject_map : reject_map[k] = verdict(k)
    BY <1>1, Zenon
  <1>3. (DOMAIN reject_map \ gone) \cup E = DOMAIN reject_map
    BY <1>2, Zenon
  <1>4. \A k \in DOMAIN reject_map :
           reject_map[k] = IF k \in (X \cap DOMAIN reject_map) \cup E
                           THEN verdict(k) ELSE reject_map[k]
    BY <1>2, Zenon
  <1>5. reject_map = [k \in DOMAIN reject_map |-> reject_map[k]]
    BY Zenon DEF SegInv
  <1> QED
    BY <1>1, <1>3, <1>4, <1>5, Zenon

\* A failed round or a restart is counted, which ends what SegInv says.
LEMMA FailuresCounted ==
  ASSUME failures \in Nat, failures' = failures + 1
  PROVE  failures' \in Nat /\ failures' # 0
  OBVIOUS

\* No step of a session, of a round or of a failure leaves the invariant.
LEMMA SegInvNext == SegInv /\ [Next]_vars => SegInv'
  <1> SUFFICES ASSUME SegInv, [Next]_vars PROVE SegInv'
    BY Zenon
  <1>1. CASE UNCHANGED <<rejectVars, inited, pc, changed, failures>>
    BY <1>1, Zenon DEF SegInv, rejectVars
  <1>2. CASE Session
    BY <1>1, <1>2, Zenon DEF Session, CreateTable, AlterTable, Write, DropTable, DropObject,
       SetQuota, DeleteQuota, Change
  <1>3. ASSUME UNCHANGED <<rejectVars, inited, failures>>, pc # "dispatch" PROVE SegInv'
    BY <1>3, Zenon DEF SegInv, rejectVars
  <1>4. CASE LoadQuotas \/ LoadTableSize \/ PullActiveList \/ PullSizes \/ Track
             \/ FlushToTableSize
    BY <1>3, <1>4, Zenon DEF LoadQuotas, LoadTableSize, PullActiveList, PullSizes, Track,
       FlushToTableSize
  <1>5. CASE RefreshQuotaInfoMap
    <2>1. UNCHANGED <<reject_map, seg_reject_map, inited, failures>> /\ pc # "dispatch"
      BY <1>5, Zenon DEF RefreshQuotaInfoMap
    <2> QED
      BY <2>1, Zenon DEF SegInv
  <1>6. CASE FlushLocalRejectMap
    <2>1. /\ pc = "reject" /\ pc' = "dispatch" /\ UNCHANGED <<seg_reject_map, inited, failures>>
          /\ reject_map' = [k \in DOMAIN reject_map' |-> reject_map'[k]]
      BY <1>6, Zenon DEF FlushLocalRejectMap
    <2>2. CASE changed'
      BY <2>1, <2>2, Zenon DEF SegInv
    <2>3. CASE ~changed'
      <3>1. reject_map' = reject_map
        BY <1>6, <2>3, NoNewsNoChange, Zenon
      <3> QED
        BY <2>1, <3>1, Zenon DEF SegInv
    <2> QED
      BY <2>2, <2>3, Zenon
  <1>7. CASE DispatchRejectmap
    <2>1. /\ UNCHANGED <<reject_map, failures>>
          /\ seg_reject_map' = IF NeedsDispatch THEN reject_map ELSE seg_reject_map
      BY <1>7, Zenon DEF DispatchRejectmap
    <2>2. failures = 0 => seg_reject_map' = reject_map
      BY <2>1, Zenon DEF SegInv, NeedsDispatch
    <2> QED
      BY <2>1, <2>2, Zenon DEF SegInv
  <1>8. CASE Failure
    <2>1. failures' = failures + 1
      BY <1>8, Zenon DEF Failure, RoundFails, LoadQuotasFails, FetchFails, PullSizesFails,
         TrackFails, FlushFails, DispatchFails, Restart
    <2>2. failures' \in Nat /\ failures' # 0
      BY <2>1, FailuresCounted, Zenon DEF SegInv
    <2>3. reject_map' = [k \in DOMAIN reject_map' |-> reject_map'[k]]
      <3>1. CASE Restart
        BY <3>1 DEF Restart, Empty
      <3>2. CASE reject_map' = reject_map
        BY <3>2, Zenon DEF SegInv
      <3> QED
        BY <1>8, <3>1, <3>2, Zenon DEF Failure, LoadQuotasFails, FetchFails, PullSizesFails,
           TrackFails, FlushFails, DispatchFails, rejectVars
    <2> QED
      BY <2>2, <2>3, Zenon DEF SegInv
  <1>9. CASE UNCHANGED vars
    BY <1>1, <1>9, Zenon DEF vars
  <1> QED
    BY <1>2, <1>4, <1>5, <1>6, <1>7, <1>8, <1>9, Zenon DEF Next, Round

\* Between rounds the segments have the coordinator's reject map: it is safe to
\* skip dispatch_rejectmap when flush_local_reject_map reports no change and no
\* table was active, as long as no dispatch failed (refresh_disk_quota_usage).
THEOREM SegmentsUpToDateAlways == Spec => []SegmentsUpToDate
  <1>1. Init => SegInv
    <2> SUFFICES ASSUME Init PROVE SegInv
      BY Zenon
    <2>1. reject_map = Empty /\ ~inited /\ failures = 0
      BY Zenon DEF Init
    <2> QED
      BY <2>1 DEF SegInv, Empty
  <1>2. SegInv => SegmentsUpToDate
    BY Zenon DEF SegInv, SegmentsUpToDate
  <1> QED
    BY <1>1, <1>2, SegInvNext, PTL DEF Spec

-----------------------------------------------------------------------------
(***************************************************************************)
(* Sums over finite sets.  The induction theorems of the library take an   *)
(* operator; WFMin and the well-foundedness of the naturals speak of sets, *)
(* and give induction over the subsets of a finite set in that form.       *)
(***************************************************************************)

\* Every nonempty set of naturals has a least element.
LEMMA LeastNumber ==
  ASSUME NEW T \in SUBSET Nat, T # {}
  PROVE  \E n \in T : \A k \in T : n <= k
  <1>1. PICK n \in T : \A k \in T : ~(<<k, n>> \in OpToRel(<, Nat))
    BY NatLessThanWellFounded, WFMin, Zenon
  <1>2. \A k \in T : ~(k < n)
    BY <1>1 DEF OpToRel
  <1> QED
    BY <1>2

\* A set of subsets of S that has a set whenever it has all sets with one
\* element less has every subset of S.
LEMMA SubsetInduction ==
  ASSUME NEW S, IsFiniteSet(S), NEW P, {} \in P,
         \A s \in SUBSET S : s # {} /\ (\A x \in s : s \ {x} \in P) => s \in P
  PROVE  SUBSET S \subseteq P
  <1> DEFINE T == {n \in Nat : \E s \in SUBSET S : s \notin P /\ Cardinality(s) = n}
  <1>1. SUFFICES ASSUME NEW s0 \in SUBSET S, s0 \notin P PROVE FALSE
    BY Zenon
  <1>2. \A s \in SUBSET S : IsFiniteSet(s) /\ Cardinality(s) \in Nat
    BY FS_Subset, FS_CardinalityType, Zenon
  <1>3. T \in SUBSET Nat /\ T # {}
    BY <1>1, <1>2, Zenon
  <1>4. PICK n \in T : \A k \in T : n <= k
    BY <1>3, LeastNumber, Zenon
  <1>5. PICK s \in SUBSET S : s \notin P /\ Cardinality(s) = n
    BY <1>4, Zenon
  <1>6. PICK x \in s : s \ {x} \notin P
    BY <1>5, Zenon
  <1>7. Cardinality(s \ {x}) = n - 1
    BY <1>2, <1>5, <1>6, FS_RemoveElement, Zenon
  <1>8. n - 1 \in T
    <2>1. s \ {x} \in SUBSET S
      BY Zenon
    <2>2. Cardinality(s \ {x}) \in T
      BY <1>2, <1>6, <2>1, Zenon
    <2> QED
      BY <1>7, <2>2, Zenon
  <1>9. n \in Nat /\ ~(n <= n - 1)
    BY <1>4
  <1> QED
    BY <1>4, <1>8, <1>9, Zenon

Chosen(s) == CHOOSE x \in s : TRUE
PartialSums(f, S, g) ==
    g = [s \in SUBSET S |-> IF s = {} THEN 0 ELSE f[Chosen(s)] + g[s \ {Chosen(s)}]]

\* There is a function that meets the recursive definition of the fold.
LEMMA PartialSumsExist ==
  ASSUME NEW f, NEW S, IsFiniteSet(S)
  PROVE  \E g : PartialSums(f, S, g)
  <1> DEFINE Step(g, s) == IF s = {} THEN 0 ELSE f[Chosen(s)] + g[s \ {Chosen(s)}]
             Upto(g, n) == \A s \in SUBSET S : Cardinality(s) <= n => g[s] = Step(g, s)
             T == {n \in Nat : ~\E g : Upto(g, n)}
  <1>1. \A s \in SUBSET S : IsFiniteSet(s) /\ Cardinality(s) \in Nat
    BY FS_Subset, FS_CardinalityType, Zenon
  <1>2. \A s \in SUBSET S : s # {} => /\ Chosen(s) \in s /\ s \ {Chosen(s)} \in SUBSET S
                                      /\ Cardinality(s \ {Chosen(s)}) = Cardinality(s) - 1
    <2> SUFFICES ASSUME NEW s \in SUBSET S, s # {}
                 PROVE  /\ Chosen(s) \in s /\ s \ {Chosen(s)} \in SUBSET S
                        /\ Cardinality(s \ {Chosen(s)}) = Cardinality(s) - 1
      BY Zenon
    <2>1. Chosen(s) \in s
      BY Zenon DEF Chosen
    <2> QED
      BY <1>1, <2>1, FS_RemoveElement, Zenon
  <1>3. 0 \notin T
    <2> DEFINE g == [s \in SUBSET S |-> 0]
    <2>1. \A s \in SUBSET S : Cardinality(s) <= 0 => s = {}
      BY <1>1, FS_EmptySet
    <2>2. Upto(g, 0)
      BY <2>1, Zenon
    <2> QED
      BY <2>2, Zenon
  <1>4. ASSUME NEW n \in Nat, n \notin T PROVE n + 1 \notin T
    <2>1. PICK h : Upto(h, n)
      BY <1>4, Zenon
    <2> DEFINE g == [s \in SUBSET S |-> IF Cardinality(s) <= n THEN h[s] ELSE Step(h, s)]
    <2>2. ASSUME NEW s \in SUBSET S, Cardinality(s) <= n + 1 PROVE g[s] = Step(h, s)
      BY <2>1, <2>2, Zenon
    <2>3. ASSUME NEW s \in SUBSET S, Cardinality(s) <= n + 1 PROVE Step(g, s) = Step(h, s)
      <3>1. CASE s = {}
        BY <3>1, Zenon
      <3>2. CASE s # {}
        <4>1. s \ {Chosen(s)} \in SUBSET S /\ Cardinality(s \ {Chosen(s)}) = Cardinality(s) - 1
          BY <1>2, <3>2, Zenon
        <4>2. Cardinality(s \ {Chosen(s)}) <= n
          BY <1>1, <2>3, <4>1
        <4>3. g[s \ {Chosen(s)}] = h[s \ {Chosen(s)}]
          BY <4>1, <4>2, Zenon
        <4> QED
          BY <3>2, <4>3, Zenon
      <3> QED
        BY <3>1, <3>2, Zenon
    <2>4. Upto(g, n + 1)
      BY <2>2, <2>3, Zenon
    <2> HIDE DEF Upto
    <2> QED
      BY <2>4, Zenon
  <1>5. T = {}
    <2>1. SUFFICES ASSUME T # {} PROVE FALSE
      BY Zenon
    <2>2. PICK n \in T : \A k \in T : n <= k
      <3> HIDE DEF Upto
      <3> QED
        BY <2>1, LeastNumber, Zenon
    <2>3. n \in Nat
      BY <2>2, Zenon
    <2> HIDE DEF T
    <2>4. n - 1 \in Nat /\ (n - 1) + 1 = n /\ ~(n <= n - 1)
      BY <1>3, <2>2, <2>3
    <2> QED
      BY <1>4, <2>2, <2>4, Zenon
  <1>6. PICK h : Upto(h, Cardinality(S))
    <2> HIDE DEF Upto
    <2> QED
      BY <1>1, <1>5, Zenon
  <1> DEFINE g == [s \in SUBSET S |-> h[s]]
  <1>7. \A s \in SUBSET S : h[s] = Step(h, s)
    BY <1>6, FS_Subset, Zenon
  <1>8. \A s \in SUBSET S : Step(h, s) = Step(g, s)
    <2> SUFFICES ASSUME NEW s \in SUBSET S PROVE Step(h, s) = Step(g, s)
      BY Zenon
    <2>1. CASE s = {}
      BY <2>1, Zenon
    <2>2. CASE s # {}
      BY <1>2, <2>2, Zenon
    <2> QED
      BY <2>1, <2>2, Zenon
  <1>9. PartialSums(f, S, g)
    BY <1>7, <1>8, Zenon DEF PartialSums
  <1> QED
    BY <1>9, Zenon

\* Two functions that meet it, perhaps for different sets, agree where both are
\* defined.
LEMMA PartialSumsAgree ==
  ASSUME NEW f, NEW S, IsFiniteSet(S), NEW T \in SUBSET S, NEW g, NEW h,
         PartialSums(f, S, g), PartialSums(f, T, h)
  PROVE  g[T] = h[T]
  <1> DEFINE P == {s \in SUBSET T : g[s] = h[s]}
  <1>1. IsFiniteSet(T)
    BY FS_Subset, Zenon
  <1>2. /\ \A s \in SUBSET S : g[s] = IF s = {} THEN 0 ELSE f[Chosen(s)] + g[s \ {Chosen(s)}]
        /\ \A s \in SUBSET T : h[s] = IF s = {} THEN 0 ELSE f[Chosen(s)] + h[s \ {Chosen(s)}]
    BY Zenon DEF PartialSums
  <1>3. {} \in P
    BY <1>2, Zenon
  <1>4. ASSUME NEW s \in SUBSET T, s # {}, \A x \in s : s \ {x} \in P PROVE s \in P
    <2>1. Chosen(s) \in s
      BY <1>4, Zenon DEF Chosen
    <2>2. g[s \ {Chosen(s)}] = h[s \ {Chosen(s)}]
      BY <1>4, <2>1, Zenon
    <2>3. g[s] = f[Chosen(s)] + g[s \ {Chosen(s)}] /\ h[s] = f[Chosen(s)] + h[s \ {Chosen(s)}]
      BY <1>2, <1>4, Zenon
    <2> QED
      BY <2>2, <2>3, Zenon
  <1>5. SUBSET T \subseteq P
    <2> HIDE DEF P
    <2> QED
      BY <1>1, <1>3, <1>4, SubsetInduction, Zenon
  <1> QED
    BY <1>5, Zenon

\* The sum of a nonempty set is that of all but one element, and the chosen one.
LEMMA SumUnfolds ==
  ASSUME NEW f, NEW S, IsFiniteSet(S)
  PROVE  SumFunctionOnSet(f, S) =
            IF S = {} THEN 0 ELSE f[Chosen(S)] + SumFunctionOnSet(f, S \ {Chosen(S)})
  <1>1. ASSUME NEW T, IsFiniteSet(T)
        PROVE  \E g : PartialSums(f, T, g) /\ SumFunctionOnSet(f, T) = g[T]
    <2>1. SumFunctionOnSet(f, T) = (CHOOSE g : PartialSums(f, T, g))[T]
      BY DEF SumFunctionOnSet, FoldFunctionOnSet, MapThenFoldSet, Chosen, PartialSums
    <2> QED
      BY <1>1, <2>1, PartialSumsExist, Zenon
  <1>2. PICK g : PartialSums(f, S, g) /\ SumFunctionOnSet(f, S) = g[S]
    BY <1>1, Zenon
  <1>3. g[S] = IF S = {} THEN 0 ELSE f[Chosen(S)] + g[S \ {Chosen(S)}]
    BY <1>2, Zenon DEF PartialSums
  <1>4. ASSUME NEW T \in SUBSET S PROVE SumFunctionOnSet(f, T) = g[T]
    <2>1. IsFiniteSet(T)
      BY FS_Subset, Zenon
    <2>2. PICK h : PartialSums(f, T, h) /\ SumFunctionOnSet(f, T) = h[T]
      BY <1>1, <2>1, Zenon
    <2>3. g[T] = h[T]
      BY <1>2, <2>2, PartialSumsAgree
    <2> QED
      BY <2>2, <2>3, Zenon
  <1>5. S \ {Chosen(S)} \in SUBSET S
    BY Zenon
  <1> QED
    BY <1>2, <1>3, <1>4, <1>5, Zenon

\* The sum of integers is an integer, the sum of naturals a natural.
LEMMA SumType ==
  ASSUME NEW f, NEW S, IsFiniteSet(S)
  PROVE  /\ (\A x \in S : f[x] \in Int) => SumFunctionOnSet(f, S) \in Int
         /\ (\A x \in S : f[x] \in Nat) => SumFunctionOnSet(f, S) \in Nat
  <1>1. ASSUME NEW N, 0 \in N, \A a, b \in N : a + b \in N, \A x \in S : f[x] \in N
        PROVE  SumFunctionOnSet(f, S) \in N
    <2> DEFINE P == {s \in SUBSET S : SumFunctionOnSet(f, s) \in N}
    <2>1. {} \in P
      BY <1>1, SumUnfolds, FS_EmptySet, Zenon
    <2>2. ASSUME NEW s \in SUBSET S, s # {}, \A x \in s : s \ {x} \in P PROVE s \in P
      <3>1. Chosen(s) \in s
        BY <2>2, Zenon DEF Chosen
      <3>2. IsFiniteSet(s)
        BY FS_Subset, Zenon
      <3>3. SumFunctionOnSet(f, s) = f[Chosen(s)] + SumFunctionOnSet(f, s \ {Chosen(s)})
        BY <2>2, <3>2, SumUnfolds, Zenon
      <3>4. f[Chosen(s)] \in N /\ SumFunctionOnSet(f, s \ {Chosen(s)}) \in N
        BY <1>1, <2>2, <3>1, Zenon
      <3> QED
        BY <1>1, <3>3, <3>4, Zenon
    <2>3. SUBSET S \subseteq P
      <3> HIDE DEF P
      <3> QED
        BY <2>1, <2>2, SubsetInduction, Zenon
    <2> QED
      BY <2>3, Zenon
  <1>2. 0 \in Int /\ (\A a, b \in Int : a + b \in Int) /\ 0 \in Nat /\ (\A a, b \in Nat : a + b \in Nat)
    OBVIOUS
  <1> QED
    BY <1>1, <1>2, Zenon

Ints(f, S) == \A x \in S : f[x] \in Int

\* Any element may be taken out of a sum.
LEMMA SumRemove ==
  ASSUME NEW f, NEW S, IsFiniteSet(S), Ints(f, S), NEW y \in S
  PROVE  SumFunctionOnSet(f, S) = f[y] + SumFunctionOnSet(f, S \ {y})
  <1> DEFINE Sum(s) == SumFunctionOnSet(f, s)
             P == {s \in SUBSET S : \A x \in s : Sum(s) = f[x] + Sum(s \ {x})}
  <1>1. {} \in P
    BY Zenon
  <1>2. ASSUME NEW s \in SUBSET S, s # {}, \A x \in s : s \ {x} \in P, NEW x \in s
        PROVE  Sum(s) = f[x] + Sum(s \ {x})
    <2> DEFINE c == Chosen(s)
               d == s \ {c, x}
    <2>1. c \in s
      BY <1>2, Zenon DEF Chosen
    <2>2. IsFiniteSet(s)
      BY FS_Subset, Zenon
    <2>3. Sum(s) = f[c] + Sum(s \ {c})
      BY <1>2, <2>2, SumUnfolds, Zenon
    <2> HIDE DEF c
    <2>4. CASE x = c
      BY <2>3, <2>4, Zenon
    <2>5. CASE x # c
      <3>1. x \in s \ {c} /\ c \in s \ {x} /\ (s \ {c}) \ {x} = d /\ (s \ {x}) \ {c} = d
        BY <1>2, <2>1, <2>5, Zenon
      <3>2. Sum(s \ {c}) = f[x] + Sum((s \ {c}) \ {x})
        BY <1>2, <2>1, <3>1, Zenon
      <3>3. Sum(s \ {x}) = f[c] + Sum((s \ {x}) \ {c})
        BY <1>2, <3>1, Zenon
      <3>4. f[x] \in Int /\ f[c] \in Int
        BY <1>2, <2>1, Zenon DEF Ints
      <3>5. Sum(d) \in Int
        <4>1. d \in SUBSET S
          BY Zenon
        <4>2. IsFiniteSet(d) /\ \A z \in d : f[z] \in Int
          BY <4>1, FS_Subset, Zenon DEF Ints
        <4> HIDE DEF d
        <4> QED
          BY <4>2, SumType, Zenon
      <3> HIDE DEF Sum, d
      <3>6. Sum(s \ {c}) = f[x] + Sum(d) /\ Sum(s \ {x}) = f[c] + Sum(d)
        BY <3>1, <3>2, <3>3, Zenon
      <3> QED
        BY <2>3, <3>4, <3>5, <3>6
    <2> QED
      BY <2>4, <2>5, Zenon
  <1>3. SUBSET S \subseteq P
    <2>1. \A s \in SUBSET S : s # {} /\ (\A x \in s : s \ {x} \in P) => s \in P
      BY <1>2, Zenon
    <2> HIDE DEF P
    <2> QED
      BY <1>1, <2>1, SubsetInduction, Zenon
  <1> QED
    BY <1>3, Zenon

\* Elements that contribute nothing may be left out.
LEMMA SumEqual ==
  ASSUME NEW f, NEW g, NEW S, IsFiniteSet(S), NEW T \in SUBSET S,
         \A x \in T : f[x] = g[x] /\ f[x] \in Int, \A x \in S \ T : f[x] = 0
  PROVE  SumFunctionOnSet(f, S) = SumFunctionOnSet(g, T)
  <1> DEFINE P == {s \in SUBSET S : SumFunctionOnSet(f, s) = SumFunctionOnSet(g, s \cap T)}
  <1>1. {} \in P
    <2>1. {} \cap T = {}
      BY Zenon
    <2> QED
      BY <2>1, SumUnfolds, FS_EmptySet, Zenon
  <1>2. ASSUME NEW s \in SUBSET S, s # {}, \A x \in s : s \ {x} \in P PROVE s \in P
    <2>1. PICK x \in s : TRUE
      BY <1>2, Zenon
    <2>2. IsFiniteSet(s) /\ Ints(f, s)
      <3>1. \A z \in S : f[z] \in Int
        OBVIOUS
      <3> QED
        BY <3>1, FS_Subset, Zenon DEF Ints
    <2>3. SumFunctionOnSet(f, s) = f[x] + SumFunctionOnSet(f, s \ {x})
      BY <2>2, SumRemove
    <2>4. SumFunctionOnSet(f, s \ {x}) = SumFunctionOnSet(g, (s \ {x}) \cap T)
      BY <1>2, Zenon
    <2>5. CASE x \in T
      <3>1. s \cap T \in SUBSET S /\ x \in s \cap T /\ (s \ {x}) \cap T = (s \cap T) \ {x}
        BY <2>5, Zenon
      <3>2. IsFiniteSet(s \cap T) /\ Ints(g, s \cap T)
        BY <3>1, FS_Subset, Zenon DEF Ints
      <3>3. SumFunctionOnSet(g, s \cap T) = g[x] + SumFunctionOnSet(g, (s \cap T) \ {x})
        BY <3>1, <3>2, SumRemove
      <3> QED
        BY <2>3, <2>4, <2>5, <3>1, <3>3, Zenon
    <2>6. CASE x \notin T
      <3>1. (s \ {x}) \cap T = s \cap T /\ f[x] = 0
        BY <2>6, Zenon
      <3>2. SumFunctionOnSet(f, s \ {x}) \in Int
        <4>1. IsFiniteSet(s \ {x})
          BY <2>2, FS_RemoveElement, Zenon
        <4> QED
          BY <2>2, <4>1, SumType, Zenon DEF Ints
      <3>3. SumFunctionOnSet(f, s) = SumFunctionOnSet(f, s \ {x})
        BY <2>3, <3>1, <3>2
      <3> QED
        BY <2>4, <3>1, <3>3, Zenon
    <2> QED
      BY <2>5, <2>6, Zenon
  <1>3. SUBSET S \subseteq P
    <2> HIDE DEF P
    <2> QED
      BY <1>1, <1>2, SubsetInduction, Zenon
  <1>4. S \cap T = T
    BY Zenon
  <1> QED
    BY <1>3, <1>4, Zenon

\* Sums are added element by element.
LEMMA SumAdd ==
  ASSUME NEW f, NEW g, NEW h, NEW S, IsFiniteSet(S),
         \A x \in S : f[x] \in Int /\ g[x] \in Int /\ h[x] = f[x] + g[x]
  PROVE  SumFunctionOnSet(h, S) = SumFunctionOnSet(f, S) + SumFunctionOnSet(g, S)
  <1> DEFINE P == {s \in SUBSET S :
                      SumFunctionOnSet(h, s) = SumFunctionOnSet(f, s) + SumFunctionOnSet(g, s)}
  <1>0. \A x \in S : h[x] \in Int
    OBVIOUS
  <1>1. {} \in P
    <2>1. SumFunctionOnSet(h, {}) = 0 /\ SumFunctionOnSet(f, {}) = 0 /\ SumFunctionOnSet(g, {}) = 0
      BY SumUnfolds, FS_EmptySet, Zenon
    <2> QED
      BY <2>1
  <1>2. ASSUME NEW s \in SUBSET S, s # {}, \A x \in s : s \ {x} \in P PROVE s \in P
    <2>1. PICK x \in s : TRUE
      BY <1>2, Zenon
    <2>2. /\ IsFiniteSet(s) /\ IsFiniteSet(s \ {x})
          /\ Ints(f, s) /\ Ints(g, s) /\ Ints(h, s)
      BY <1>0, FS_Subset, FS_RemoveElement, Zenon DEF Ints
    <2>3. /\ SumFunctionOnSet(f, s) = f[x] + SumFunctionOnSet(f, s \ {x})
          /\ SumFunctionOnSet(g, s) = g[x] + SumFunctionOnSet(g, s \ {x})
          /\ SumFunctionOnSet(h, s) = h[x] + SumFunctionOnSet(h, s \ {x})
      BY <2>2, SumRemove
    <2>4. SumFunctionOnSet(f, s \ {x}) \in Int /\ SumFunctionOnSet(g, s \ {x}) \in Int
      BY <2>2, SumType, Zenon
    <2>5. f[x] \in Int /\ g[x] \in Int /\ h[x] = f[x] + g[x]
      BY Zenon
    <2>6. SumFunctionOnSet(h, s \ {x}) = SumFunctionOnSet(f, s \ {x}) + SumFunctionOnSet(g, s \ {x})
      BY <1>2, Zenon
    <2>7. SumFunctionOnSet(h, s) = SumFunctionOnSet(f, s) + SumFunctionOnSet(g, s)
      BY <2>3, <2>4, <2>5, <2>6
    <2> QED
      BY <2>7, Zenon
  <1>3. SUBSET S \subseteq P
    <2> HIDE DEF P
    <2> QED
      BY <1>1, <1>2, SubsetInduction, Zenon
  <1> QED
    BY <1>3, Zenon

\* A sum over a set whose elements are named one by one by those of another.
LEMMA SumImage ==
  ASSUME NEW f, NEW g, NEW b, NEW S, IsFiniteSet(S),
         \A x, y \in S : b[x] = b[y] => x = y, \A x \in S : f[b[x]] = g[x] /\ g[x] \in Int
  PROVE  LET C == {b[x] : x \in S}
         IN  IsFiniteSet(C) /\ SumFunctionOnSet(f, C) = SumFunctionOnSet(g, S)
  <1> DEFINE C(s) == {b[x] : x \in s}
             P == {s \in SUBSET S : IsFiniteSet(C(s)) /\ SumFunctionOnSet(f, C(s)) = SumFunctionOnSet(g, s)}
  <1>1. {} \in P
    <2>1. C({}) = {}
      BY Zenon
    <2> QED
      BY <2>1, SumUnfolds, FS_EmptySet, Zenon
  <1>2. ASSUME NEW s \in SUBSET S, s # {}, \A x \in s : s \ {x} \in P PROVE s \in P
    <2>1. PICK x \in s : TRUE
      BY <1>2, Zenon
    <2>2. /\ C(s \ {x}) = C(s) \ {b[x]}
          /\ b[x] \in C(s)
          /\ C(s) = C(s \ {x}) \cup {b[x]}
      OBVIOUS
    <2>3. IsFiniteSet(C(s \ {x})) /\ SumFunctionOnSet(f, C(s \ {x})) = SumFunctionOnSet(g, s \ {x})
      BY <1>2, Zenon
    <2>4. Ints(f, C(s)) /\ Ints(g, s)
      BY DEF Ints
    <2> HIDE DEF C
    <2>5. IsFiniteSet(C(s)) /\ IsFiniteSet(s)
      <3>1. IsFiniteSet(C(s \ {x}) \cup {b[x]})
        BY <2>3, FS_AddElement, Zenon
      <3> QED
        BY <2>2, <3>1, FS_Subset, Zenon
    <2>6. SumFunctionOnSet(f, C(s)) = f[b[x]] + SumFunctionOnSet(f, C(s) \ {b[x]})
      <3>1. b[x] \in C(s) /\ IsFiniteSet(C(s)) /\ Ints(f, C(s))
        BY <2>2, <2>4, <2>5, Zenon
      <3> QED
        BY <3>1, SumRemove
    <2>7. SumFunctionOnSet(g, s) = g[x] + SumFunctionOnSet(g, s \ {x})
      BY <2>4, <2>5, SumRemove
    <2> QED
      BY <2>2, <2>3, <2>5, <2>6, <2>7, Zenon
  <1>3. SUBSET S \subseteq P
    <2> HIDE DEF P
    <2> QED
      BY <1>1, <1>2, SubsetInduction, Zenon
  <1> QED
    BY <1>3, Zenon

-----------------------------------------------------------------------------
(***************************************************************************)
(* The records and the rows of diskquota.table_size.                       *)
(***************************************************************************)
Stored(r, t, s) == IF <<t, s>> \in DOMAIN r THEN r[<<t, s>>] ELSE 0

EntryShape(r, id) ==
    /\ r = [attr |-> r.attr, size |-> r.size, flush |-> r.flush, exist |-> r.exist]
    /\ r.size = [s \in SegidsOf(id) |-> r.size[s]]

MapShape ==
    /\ table_size_map = [e \in DOMAIN table_size_map |-> table_size_map[e]]
    /\ DOMAIN table_size_map \subseteq Tables \X EntryIds
    /\ \A e \in DOMAIN table_size_map : EntryShape(table_size_map[e], e[2])

\* Before the sizes are loaded.
Unloaded == ~inited /\ pc \in {"idle", "list"}

\* The coordinator's part of a table's files has one size.
DiskShape ==
    /\ disk \in [Tables -> [Segids -> Nat]]
    /\ \A t \in Tables : disk[t][-1] = MasterSize \/ disk[t][-1] = 0

\* The records and their segments.
LEMMA Chunks ==
  /\ \A id \in EntryIds : /\ id \in Nat /\ SegidsOf(id) \subseteq Segids
                           /\ \A s \in SegidsOf(id) : TableSizeEntryId(s) = id
  /\ \A s \in Segids : TableSizeEntryId(s) \in EntryIds /\ s \in SegidsOf(TableSizeEntryId(s))
  /\ -1 \in Segids
  <1>1. ASSUME NEW id \in EntryIds
        PROVE  id \in Nat /\ SegidsOf(id) \subseteq Segids
    <2>1. id \in Nat
      BY RecordsPartitionSegments, Zenon DEF EntryIds
    <2>2. id * SEGMENT_SIZE_ARRAY_LENGTH \in Nat
      BY <2>1, ChunkAssumption
    <2>3. \A s \in SegidsOf(id) : s \in Int /\ -1 <= s /\ s < SEGCOUNT
      BY <2>1, <2>2, ChunkAssumption DEF SegidsOf, TableSizeEntrySegidStart, TableSizeEntrySegidEnd
    <2> QED
      BY <2>1, <2>3, ChunkAssumption DEF Segids
  <1>2. \A id \in EntryIds : \A s \in SegidsOf(id) : TableSizeEntryId(s) = id
    BY <1>1, RecordsPartitionSegments, Zenon
  <1>3. \A s \in Segids : TableSizeEntryId(s) \in EntryIds /\ s \in SegidsOf(TableSizeEntryId(s))
    BY RecordsPartitionSegments, Zenon DEF EntryIds
  <1>4. -1 \in Segids
    BY ChunkAssumption DEF Segids
  <1> QED
    BY <1>1, <1>2, <1>3, <1>4, Zenon

\* A record without sizes is well formed.
LEMMA NewEntryShape ==
  ASSUME NEW id
  PROVE  /\ EntryShape(NewEntry(id), id)
         /\ NewEntry(id).flush = SegidsOf(id)
         /\ \A s \in SegidsOf(id) : NewEntry(id).size[s] = 0
  BY Zenon DEF EntryShape, NewEntry

\* get_table_size_map_entry adds empty records and changes none.
LEMMA Entered ==
  ASSUME MapShape, NEW E \in SUBSET (Tables \X EntryIds)
  PROVE  LET m == WithEntries(table_size_map, E) IN
         /\ DOMAIN m = DOMAIN table_size_map \cup E
         /\ \A e \in DOMAIN m : EntryShape(m[e], e[2])
         /\ \A e \in DOMAIN table_size_map : m[e] = table_size_map[e]
         /\ \A e \in E \ DOMAIN table_size_map : m[e] = NewEntry(e[2])
  <1> DEFINE m == WithEntries(table_size_map, E)
  <1>1. /\ DOMAIN m = DOMAIN table_size_map \cup E
        /\ \A e \in DOMAIN table_size_map : m[e] = table_size_map[e]
        /\ \A e \in E \ DOMAIN table_size_map : m[e] = NewEntry(e[2])
    BY Zenon DEF WithEntries
  <1>2. \A e \in DOMAIN m : EntryShape(m[e], e[2])
    BY <1>1, NewEntryShape, Zenon DEF MapShape
  <1> QED
    BY <1>1, <1>2, Zenon

\* calculate_active_table_disk_usage keeps a record well formed, stores the new
\* sizes and marks them.
LEMMA SetSizesEntry ==
  ASSUME NEW m, NEW sz, NEW e \in DOMAIN m, EntryShape(m[e], e[2]), NEW r, r = SetSizes(m, sz)[e]
  PROVE  /\ EntryShape(r, e[2])
         /\ r.attr = m[e].attr
         /\ \A s \in SegidsOf(e[2]) :
               /\ r.size[s] = IF <<e[1], s>> \in DOMAIN sz THEN sz[<<e[1], s>>] ELSE m[e].size[s]
               /\ s \in r.flush <=> <<e[1], s>> \in DOMAIN sz \/ s \in m[e].flush
  <1> DEFINE S == {s \in SegidsOf(e[2]) : <<e[1], s>> \in DOMAIN sz}
             z == [s \in DOMAIN m[e].size |-> IF s \in S THEN sz[<<e[1], s>>] ELSE m[e].size[s]]
  <1>1. r = [m[e] EXCEPT !.size = z, !.flush = m[e].flush \cup S]
    BY Zenon DEF SetSizes
  <1>2. /\ m[e] = [attr |-> m[e].attr, size |-> m[e].size, flush |-> m[e].flush, exist |-> m[e].exist]
        /\ m[e].size = [s \in SegidsOf(e[2]) |-> m[e].size[s]]
    BY Zenon DEF EntryShape
  <1>3. DOMAIN m[e].size = SegidsOf(e[2])
    BY <1>2, Zenon
  <1>4. z = [s \in SegidsOf(e[2]) |-> z[s]]
        /\ \A s \in SegidsOf(e[2]) :
              z[s] = IF <<e[1], s>> \in DOMAIN sz THEN sz[<<e[1], s>>] ELSE m[e].size[s]
    BY <1>3, Zenon
  <1> HIDE DEF z
  <1>5. r = [attr |-> m[e].attr, size |-> z, flush |-> m[e].flush \cup S, exist |-> m[e].exist]
    BY <1>1, <1>2
  <1>6. r.size = z /\ r.flush = m[e].flush \cup S /\ r.attr = m[e].attr /\ r.exist = m[e].exist
    BY <1>5
  <1>7. EntryShape(r, e[2])
    BY <1>4, <1>5, <1>6, Zenon DEF EntryShape
  <1> QED
    BY <1>4, <1>6, <1>7, Zenon

\* What a pass over sizes, pulled or loaded, does to the records.
LEMMA Applied ==
  ASSUME MapShape, NEW sz, DOMAIN sz \subseteq Tables \X Segids, ApplySizes(sz)
  PROVE  /\ MapShape'
         /\ DOMAIN table_size_map \subseteq DOMAIN table_size_map'
         /\ \A e \in DOMAIN table_size_map' : \A s \in SegidsOf(e[2]) :
               /\ table_size_map'[e].size[s] =
                     IF <<e[1], s>> \in DOMAIN sz THEN sz[<<e[1], s>>]
                     ELSE IF e \in DOMAIN table_size_map THEN table_size_map[e].size[s] ELSE 0
               /\ s \notin table_size_map'[e].flush =>
                     /\ <<e[1], s>> \notin DOMAIN sz /\ e \in DOMAIN table_size_map
                     /\ s \notin table_size_map[e].flush
         /\ ~full' => /\ ~full
                      /\ \A p \in DOMAIN sz : <<p[1], TableSizeEntryId(p[2])>> \in DOMAIN table_size_map'
         /\ \A e \in DOMAIN table_size_map' \ DOMAIN table_size_map :
               \E s \in Segids : <<e[1], s>> \in DOMAIN sz /\ e[2] = TableSizeEntryId(s)
  <1> DEFINE needed == {<<p[1], TableSizeEntryId(p[2])>> : p \in DOMAIN sz} \ DOMAIN table_size_map
  <1>1. PICK E \in Admitted(needed) :
          /\ full' = (full \/ E # needed)
          /\ table_size_map' = SetSizes(WithEntries(table_size_map, E), sz)
    BY Zenon DEF ApplySizes
  <1>2. E \subseteq needed
    BY <1>1, Zenon DEF Admitted
  <1>3. ASSUME NEW e \in needed
        PROVE  /\ e \in Tables \X EntryIds /\ e \notin DOMAIN table_size_map
               /\ \E s \in Segids : <<e[1], s>> \in DOMAIN sz /\ e[2] = TableSizeEntryId(s)
    <2>1. PICK p \in DOMAIN sz : e = <<p[1], TableSizeEntryId(p[2])>>
      BY Zenon
    <2>2. p = <<p[1], p[2]>> /\ p[1] \in Tables /\ p[2] \in Segids
      BY <2>1
    <2>3. e[1] = p[1] /\ e[2] = TableSizeEntryId(p[2])
      BY <2>1, Zenon
    <2> QED
      BY <2>1, <2>2, <2>3, Chunks
  <1>4. E \in SUBSET (Tables \X EntryIds)
    BY <1>2, <1>3, Zenon
  <1> DEFINE m == WithEntries(table_size_map, E)
  <1>5. /\ DOMAIN m = DOMAIN table_size_map \cup E
        /\ \A e \in DOMAIN m : EntryShape(m[e], e[2])
        /\ \A e \in DOMAIN table_size_map : m[e] = table_size_map[e]
        /\ \A e \in E \ DOMAIN table_size_map : m[e] = NewEntry(e[2])
    BY <1>4, Entered, Zenon
  <1>6. table_size_map' = SetSizes(m, sz)
    BY <1>1, Zenon
  <1> HIDE DEF m, needed
  <1>7. DOMAIN table_size_map' = DOMAIN m /\ table_size_map' = [e \in DOMAIN table_size_map' |-> table_size_map'[e]]
    BY <1>6, Zenon DEF SetSizes
  <1>8. ASSUME NEW e \in DOMAIN m
        PROVE  /\ EntryShape(table_size_map'[e], e[2])
               /\ \A s \in SegidsOf(e[2]) :
                     /\ table_size_map'[e].size[s] =
                           IF <<e[1], s>> \in DOMAIN sz THEN sz[<<e[1], s>>] ELSE m[e].size[s]
                     /\ s \in table_size_map'[e].flush <=> <<e[1], s>> \in DOMAIN sz \/ s \in m[e].flush
    <2>1. PICK r : r = SetSizes(m, sz)[e]
      BY Zenon
    <2>2. EntryShape(m[e], e[2])
      BY <1>5, Zenon
    <2>3. /\ EntryShape(r, e[2])
          /\ \A s \in SegidsOf(e[2]) :
               /\ r.size[s] = IF <<e[1], s>> \in DOMAIN sz THEN sz[<<e[1], s>>] ELSE m[e].size[s]
               /\ s \in r.flush <=> <<e[1], s>> \in DOMAIN sz \/ s \in m[e].flush
      BY <2>1, <2>2, SetSizesEntry
    <2>4. table_size_map'[e] = r
      BY <1>6, <2>1, Zenon
    <2> QED
      BY <2>3, <2>4, Zenon
  <1>9. MapShape'
    BY <1>4, <1>5, <1>7, <1>8, Zenon DEF MapShape
  <1>10. \A e \in DOMAIN m \ DOMAIN table_size_map : \A s \in SegidsOf(e[2]) :
            m[e].size[s] = 0 /\ s \in m[e].flush
    <2> SUFFICES ASSUME NEW e \in DOMAIN m \ DOMAIN table_size_map, NEW s \in SegidsOf(e[2])
                 PROVE  m[e].size[s] = 0 /\ s \in m[e].flush
      BY Zenon
    <2>1. m[e] = NewEntry(e[2])
      BY <1>5, Zenon
    <2>2. NewEntry(e[2]).flush = SegidsOf(e[2]) /\ NewEntry(e[2]).size[s] = 0
      BY NewEntryShape, Zenon
    <2> QED
      BY <2>1, <2>2, Zenon
  <1>11. \A e \in DOMAIN table_size_map' : \A s \in SegidsOf(e[2]) :
               /\ table_size_map'[e].size[s] =
                     IF <<e[1], s>> \in DOMAIN sz THEN sz[<<e[1], s>>]
                     ELSE IF e \in DOMAIN table_size_map THEN table_size_map[e].size[s] ELSE 0
               /\ s \notin table_size_map'[e].flush =>
                     /\ <<e[1], s>> \notin DOMAIN sz /\ e \in DOMAIN table_size_map
                     /\ s \notin table_size_map[e].flush
    <2> SUFFICES ASSUME NEW e \in DOMAIN m, NEW s \in SegidsOf(e[2])
                 PROVE  /\ table_size_map'[e].size[s] =
                              IF <<e[1], s>> \in DOMAIN sz THEN sz[<<e[1], s>>]
                              ELSE IF e \in DOMAIN table_size_map THEN table_size_map[e].size[s] ELSE 0
                        /\ s \notin table_size_map'[e].flush =>
                              /\ <<e[1], s>> \notin DOMAIN sz /\ e \in DOMAIN table_size_map
                              /\ s \notin table_size_map[e].flush
      BY <1>7, Zenon
    <2>1. /\ table_size_map'[e].size[s] =
                IF <<e[1], s>> \in DOMAIN sz THEN sz[<<e[1], s>>] ELSE m[e].size[s]
          /\ s \in table_size_map'[e].flush <=> <<e[1], s>> \in DOMAIN sz \/ s \in m[e].flush
      BY <1>8, Zenon
    <2>2. e \in DOMAIN table_size_map => m[e] = table_size_map[e]
      BY <1>5, Zenon
    <2>3. e \notin DOMAIN table_size_map => m[e].size[s] = 0 /\ s \in m[e].flush
      BY <1>10, Zenon
    <2> QED
      BY <2>1, <2>2, <2>3, Zenon
  <1>12. ~full' => /\ ~full
                  /\ \A p \in DOMAIN sz : <<p[1], TableSizeEntryId(p[2])>> \in DOMAIN table_size_map'
    BY <1>1, <1>5, <1>7, Zenon DEF needed
  <1> QED
    BY <1>2, <1>3, <1>5, <1>7, <1>9, <1>11, <1>12, Zenon

\* The same in terms of the size recorded for a table and a segment.
LEMMA AppliedRecorded ==
  ASSUME MapShape, NEW sz, DOMAIN sz \subseteq Tables \X Segids, ApplySizes(sz), ~full',
         NEW t \in Tables, NEW s \in Segids
  PROVE  RecordedSize(table_size_map, t, s)' =
            IF <<t, s>> \in DOMAIN sz THEN sz[<<t, s>>] ELSE RecordedSize(table_size_map, t, s)
  <1> DEFINE e == <<t, TableSizeEntryId(s)>>
  <1>1. e[1] = t /\ e[2] = TableSizeEntryId(s) /\ s \in SegidsOf(e[2])
    BY Chunks
  <1>2. RecordedSize(table_size_map, t, s)' = IF e \in DOMAIN table_size_map' THEN table_size_map'[e].size[s] ELSE 0
    BY Zenon DEF RecordedSize
  <1>3. RecordedSize(table_size_map, t, s) = IF e \in DOMAIN table_size_map THEN table_size_map[e].size[s] ELSE 0
    BY Zenon DEF RecordedSize
  <1>4. CASE e \in DOMAIN table_size_map'
    <2>1. table_size_map'[e].size[s] =
                     IF <<e[1], s>> \in DOMAIN sz THEN sz[<<e[1], s>>]
                     ELSE IF e \in DOMAIN table_size_map THEN table_size_map[e].size[s] ELSE 0
      BY <1>1, <1>4, Applied, Zenon
    <2> QED
      BY <1>1, <1>2, <1>3, <1>4, <2>1, Zenon
  <1>5. CASE e \notin DOMAIN table_size_map'
    <2>1. e \notin DOMAIN table_size_map
      BY <1>5, Applied, Zenon
    <2>2. <<t, s>> \notin DOMAIN sz
      <3>1. SUFFICES ASSUME <<t, s>> \in DOMAIN sz PROVE FALSE
        BY Zenon
      <3>2. <<<<t, s>>[1], TableSizeEntryId(<<t, s>>[2])>> \in DOMAIN table_size_map'
        BY <3>1, Applied, Zenon
      <3> QED
        BY <1>5, <3>2, Zenon
    <2> QED
      BY <1>2, <1>3, <1>5, <2>1, <2>2, Zenon
  <1> QED
    BY <1>4, <1>5, Zenon

\* The fields of a record after changes of one or three of them.
LEMMA Rebuilt ==
  ASSUME NEW r, r = [attr |-> r.attr, size |-> r.size, flush |-> r.flush, exist |-> r.exist]
  PROVE  /\ \A x : [r EXCEPT !.exist = x]
                   = [attr |-> r.attr, size |-> r.size, flush |-> r.flush, exist |-> x]
         /\ \A f : [r EXCEPT !.flush = f]
                   = [attr |-> r.attr, size |-> r.size, flush |-> f, exist |-> r.exist]
  <1>1. PICK a0, z0, f0, x0 : r = [attr |-> a0, size |-> z0, flush |-> f0, exist |-> x0]
    BY Zenon
  <1>2. r.attr = a0 /\ r.size = z0 /\ r.flush = f0 /\ r.exist = x0
    BY <1>1
  <1>4. ASSUME NEW x
        PROVE  [r EXCEPT !.exist = x] = [attr |-> a0, size |-> z0, flush |-> f0, exist |-> x]
    BY <1>1
  <1>5. ASSUME NEW f
        PROVE  [r EXCEPT !.flush = f] = [attr |-> a0, size |-> z0, flush |-> f, exist |-> x0]
    BY <1>1
  <1> QED
    BY <1>2, <1>4, <1>5, Zenon

\* The same for the three fields that the pass over all tables sets.
LEMMA RebuiltThrice ==
  ASSUME NEW r, r = [attr |-> r.attr, size |-> r.size, flush |-> r.flush, exist |-> r.exist],
         NEW a, NEW x, NEW f, NEW w, w = [r EXCEPT !.attr = a, !.exist = x, !.flush = f]
  PROVE  w = [attr |-> a, size |-> r.size, flush |-> f, exist |-> x]
  <1>1. PICK a0, z0, f0, x0 : r = [attr |-> a0, size |-> z0, flush |-> f0, exist |-> x0]
    BY Zenon
  <1>2. r.size = z0
    BY <1>1
  <1>3. [r EXCEPT !.attr = a, !.exist = x, !.flush = f]
          = [[[r EXCEPT !.attr = a] EXCEPT !.exist = x] EXCEPT !.flush = f]
    BY Zenon
  <1>4. [r EXCEPT !.attr = a] = [attr |-> a, size |-> z0, flush |-> f0, exist |-> x0]
    BY <1>1
  <1>5. [[attr |-> a, size |-> z0, flush |-> f0, exist |-> x0] EXCEPT !.exist = x]
          = [attr |-> a, size |-> z0, flush |-> f0, exist |-> x]
    OBVIOUS
  <1>6. [[attr |-> a, size |-> z0, flush |-> f0, exist |-> x] EXCEPT !.flush = f]
          = [attr |-> a, size |-> z0, flush |-> f, exist |-> x]
    OBVIOUS
  <1> QED
    BY <1>2, <1>3, <1>4, <1>5, <1>6, Zenon

TrackedFrom(r, a, b, w) ==
    \E f : /\ inited => f = r.flush
           /\ b => w = [r EXCEPT !.attr = a, !.exist = TRUE, !.flush = f]
           /\ ~b => w = [r EXCEPT !.exist = FALSE]

\* What the pass over all tables does to a record.
LEMMA TrackedEntry ==
  ASSUME NEW id, NEW r, EntryShape(r, id), NEW a, NEW b \in BOOLEAN, NEW w, TrackedFrom(r, a, b, w)
  PROVE  /\ EntryShape(w, id)
         /\ w.size = r.size
         /\ w.attr = IF b THEN a ELSE r.attr
         /\ w.exist = b
         /\ inited => w.flush = r.flush
  <1>1. /\ r = [attr |-> r.attr, size |-> r.size, flush |-> r.flush, exist |-> r.exist]
        /\ r.size = [s \in SegidsOf(id) |-> r.size[s]]
    BY Zenon DEF EntryShape
  <1>2. PICK f : /\ inited => f = r.flush
                 /\ b => w = [r EXCEPT !.attr = a, !.exist = TRUE, !.flush = f]
                 /\ ~b => w = [r EXCEPT !.exist = FALSE]
    BY Zenon DEF TrackedFrom
  <1>3. b => w = [attr |-> a, size |-> r.size, flush |-> f, exist |-> TRUE]
    BY <1>1, <1>2, RebuiltThrice, Zenon
  <1>4. ~b => w = [attr |-> r.attr, size |-> r.size, flush |-> r.flush, exist |-> FALSE]
    BY <1>1, <1>2, Rebuilt, Zenon
  <1>5. /\ w = [attr |-> w.attr, size |-> w.size, flush |-> w.flush, exist |-> w.exist]
        /\ w.size = r.size
        /\ w.attr = IF b THEN a ELSE r.attr
        /\ w.exist = b
        /\ inited => w.flush = r.flush
    <2>1. CASE b
      <3>1. w = [attr |-> a, size |-> r.size, flush |-> f, exist |-> TRUE]
        BY <1>3, <2>1, Zenon
      <3> QED
        BY <1>2, <2>1, <3>1
    <2>2. CASE ~b
      <3>1. w = [attr |-> r.attr, size |-> r.size, flush |-> r.flush, exist |-> FALSE]
        BY <1>4, <2>2, Zenon
      <3> QED
        BY <2>2, <3>1
    <2> QED
      BY <2>1, <2>2, Zenon
  <1> QED
    BY <1>1, <1>5, Zenon DEF EntryShape

\* What the pass over all tables does to the records.
LEMMA Tracked ==
  ASSUME MapShape, Track
  PROVE  /\ MapShape'
         /\ DOMAIN table_size_map \subseteq DOMAIN table_size_map'
         /\ \A e \in DOMAIN table_size_map' : \A s \in SegidsOf(e[2]) :
               /\ table_size_map'[e].size[s] =
                     IF e \in DOMAIN table_size_map THEN table_size_map[e].size[s] ELSE 0
               /\ inited /\ s \notin table_size_map'[e].flush =>
                     e \in DOMAIN table_size_map /\ s \notin table_size_map[e].flush
         /\ ~full' => /\ ~full
                      /\ \A e \in DOMAIN table_size_map' : Live(e[1]) => table_size_map'[e].exist = TRUE
  <1> DEFINE missing == (UNION {EntriesOf(t) : t \in LiveTables}) \ DOMAIN table_size_map
             m(E) == WithEntries(table_size_map, E)
             reached(E, e) == Live(e[1]) /\ \A id \in EntryIds : id <= e[2] => <<e[1], id>> \in DOMAIN m(E)
             found(E) == {e \in DOMAIN m(E) : reached(E, e)}
             Kept(r, a) == [r EXCEPT !.attr = a, !.exist = TRUE, !.flush = IF inited THEN r.flush ELSE {}]
             Gone(r) == [r EXCEPT !.exist = FALSE]
  <1>1. PICK E \in Admitted(missing) :
          /\ full' = (full \/ E # missing)
          /\ table_size_map' = [e \in DOMAIN m(E) |->
                 IF e \in found(E) THEN Kept(m(E)[e], catalog[e[1]].attr) ELSE Gone(m(E)[e])]
    BY Zenon DEF Track
  <1>2. E \subseteq missing
    BY <1>1, Zenon DEF Admitted
  <1>3. missing \subseteq Tables \X EntryIds
    <2>1. \A t \in LiveTables : t \in Tables
      BY Zenon DEF LiveTables
    <2> QED
      BY <2>1 DEF EntriesOf
  <1>4. E \in SUBSET (Tables \X EntryIds)
    BY <1>2, <1>3, Zenon
  <1> DEFINE n == m(E)
             F == found(E)
  <1>5. /\ DOMAIN n = DOMAIN table_size_map \cup E
        /\ \A e \in DOMAIN n : EntryShape(n[e], e[2])
        /\ \A e \in DOMAIN table_size_map : n[e] = table_size_map[e]
        /\ \A e \in E \ DOMAIN table_size_map : n[e] = NewEntry(e[2])
    BY <1>4, Entered, Zenon
  <1>6. table_size_map' = [e \in DOMAIN n |->
                 IF e \in F THEN Kept(n[e], catalog[e[1]].attr) ELSE Gone(n[e])]
    BY <1>1, Zenon
  <1>f. \A e \in DOMAIN n : Live(e[1]) /\ (\A id \in EntryIds : <<e[1], id>> \in DOMAIN n) => e \in F
    BY Zenon
  <1> HIDE DEF n, F, missing
  <1>7. DOMAIN table_size_map' = DOMAIN n /\ table_size_map' = [e \in DOMAIN table_size_map' |-> table_size_map'[e]]
    BY <1>6, Zenon
  <1>8. ASSUME NEW e \in DOMAIN n
        PROVE  /\ EntryShape(table_size_map'[e], e[2])
               /\ table_size_map'[e].size = n[e].size
               /\ inited => table_size_map'[e].flush = n[e].flush
               /\ e \in F => table_size_map'[e].exist = TRUE
    <2>1. PICK r, a, b, w : r = n[e] /\ a = catalog[e[1]].attr /\ b = (e \in F) /\ w = table_size_map'[e]
      BY Zenon
    <2>b. b \in BOOLEAN
      BY <2>1
    <2>2. EntryShape(r, e[2])
      BY <1>5, <2>1, Zenon
    <2>3. TrackedFrom(r, a, b, w)
      <3>1. PICK f : f = IF inited THEN r.flush ELSE {}
        BY Zenon
      <3>2. /\ inited => f = r.flush
            /\ b => w = [r EXCEPT !.attr = a, !.exist = TRUE, !.flush = f]
            /\ ~b => w = [r EXCEPT !.exist = FALSE]
        BY <1>6, <2>1, <3>1, Zenon
      <3> QED
        BY <3>2, Zenon DEF TrackedFrom
    <2>4. /\ EntryShape(w, e[2])
          /\ w.size = r.size
          /\ w.exist = b
          /\ inited => w.flush = r.flush
      BY <2>b, <2>2, <2>3, TrackedEntry
    <2> QED
      BY <2>1, <2>4, Zenon
  <1>9. MapShape'
    BY <1>4, <1>5, <1>7, <1>8, Zenon DEF MapShape
  <1>10. ASSUME NEW e \in DOMAIN n, NEW s \in SegidsOf(e[2])
         PROVE  /\ table_size_map'[e].size[s] =
                      IF e \in DOMAIN table_size_map THEN table_size_map[e].size[s] ELSE 0
                /\ inited /\ s \notin table_size_map'[e].flush =>
                      e \in DOMAIN table_size_map /\ s \notin table_size_map[e].flush
    <2>1. e \in DOMAIN table_size_map => n[e] = table_size_map[e]
      BY <1>5, Zenon
    <2>2. e \notin DOMAIN table_size_map => n[e].size[s] = 0 /\ s \in n[e].flush
      <3>1. e \notin DOMAIN table_size_map => n[e] = NewEntry(e[2])
        BY <1>5, Zenon
      <3>2. NewEntry(e[2]).flush = SegidsOf(e[2]) /\ NewEntry(e[2]).size[s] = 0
        BY NewEntryShape, Zenon
      <3> QED
        BY <3>1, <3>2, Zenon
    <2>3. table_size_map'[e].size = n[e].size /\ (inited => table_size_map'[e].flush = n[e].flush)
      BY <1>8, Zenon
    <2> QED
      BY <2>1, <2>2, <2>3, Zenon
  <1>11. ASSUME ~full', NEW e \in DOMAIN n, Live(e[1]) PROVE e \in F
    <2>1. E = missing
      BY <1>1, <1>11, Zenon
    <2>2. e[1] \in Tables
      BY <1>4, <1>5 DEF MapShape
    <2>3. \A id \in EntryIds : <<e[1], id>> \in missing \cup DOMAIN table_size_map
      <3>1. e[1] \in LiveTables
        BY <1>11, <2>2, Zenon DEF LiveTables
      <3>2. \A id \in EntryIds : <<e[1], id>> \in EntriesOf(e[1])
        BY Zenon DEF EntriesOf
      <3> QED
        BY <3>1, <3>2, Zenon DEF missing
    <2> QED
      BY <1>5, <1>11, <1>f, <2>1, <2>3, Zenon
  <1> QED
    BY <1>1, <1>5, <1>7, <1>8, <1>9, <1>10, <1>11, Zenon

\* Hence the pass leaves every recorded size as it is.
LEMMA TrackedRecorded ==
  ASSUME MapShape, Track, NEW t \in Tables, NEW s \in Segids
  PROVE  RecordedSize(table_size_map, t, s)' = RecordedSize(table_size_map, t, s)
  <1> DEFINE e == <<t, TableSizeEntryId(s)>>
  <1>1. e[1] = t /\ e[2] = TableSizeEntryId(s) /\ s \in SegidsOf(e[2])
    BY Chunks
  <1>2. RecordedSize(table_size_map, t, s)' = IF e \in DOMAIN table_size_map' THEN table_size_map'[e].size[s] ELSE 0
    BY Zenon DEF RecordedSize
  <1>3. RecordedSize(table_size_map, t, s) = IF e \in DOMAIN table_size_map THEN table_size_map[e].size[s] ELSE 0
    BY Zenon DEF RecordedSize
  <1>4. DOMAIN table_size_map \subseteq DOMAIN table_size_map'
    BY Tracked, Zenon
  <1>5. e \in DOMAIN table_size_map' =>
          table_size_map'[e].size[s] = IF e \in DOMAIN table_size_map THEN table_size_map[e].size[s] ELSE 0
    BY <1>1, Tracked, Zenon
  <1> HIDE DEF e
  <1>6. CASE e \in DOMAIN table_size_map'
    <2>1. CASE e \in DOMAIN table_size_map
      BY <1>2, <1>3, <1>5, <1>6, <2>1, Zenon
    <2>2. CASE e \notin DOMAIN table_size_map
      BY <1>2, <1>3, <1>5, <1>6, <2>2, Zenon
    <2> QED
      BY <2>1, <2>2, Zenon
  <1>7. CASE e \notin DOMAIN table_size_map'
    BY <1>2, <1>3, <1>4, <1>7, Zenon
  <1> QED
    BY <1>6, <1>7, Zenon

-----------------------------------------------------------------------------
(***************************************************************************)
(* The usage of the quotas.  A table contributes to a quota on a segment   *)
(* through at most one record, so the sizes charged to the quota are a sum *)
(* over the tables.                                                        *)
(***************************************************************************)
Part(m, X, k, s) ==
    [t \in Tables |->
        IF <<t, TableSizeEntryId(s)>> \in X /\ KeyOf(k.type, m[<<t, TableSizeEntryId(s)>>].attr) = k
        THEN m[<<t, TableSizeEntryId(s)>>].size[s] ELSE 0]

UsageOf(q, k, s) ==
    IF [key |-> k, segid |-> s] \in DOMAIN q THEN q[[key |-> k, segid |-> s]].size ELSE 0

SizesNat == \A e \in DOMAIN table_size_map : \A s \in SegidsOf(e[2]) : table_size_map[e].size[s] \in Nat

QuotaRecords(q) == \A e \in DOMAIN q : q[e] = [size |-> q[e].size, limit |-> q[e].limit]

\* The sum of the amounts of a set of charges.
Amount(D) == SumFunctionOnSet([c \in D |-> c.amt], D)

\* A key tells the type of its quota.
LEMMA KeyTypes == \A type \in QuotaTypes : \A a : KeyOf(type, a).type = type
  BY DEF QuotaTypes, KeyOf

\* The sizes charged to a key, table by table.
LEMMA ChargedSizeIsSum ==
  ASSUME MapShape, SizesNat, NEW k, NEW s \in Segids
  PROVE  ChargedSize(k, s) = SumFunctionOnSet(Part(table_size_map, Charged, k, s), Tables)
  <1> DEFINE id == TableSizeEntryId(s)
             E == {e \in Charged : s \in SegidsOf(e[2]) /\ KeyOf(k.type, table_size_map[e].attr) = k}
             f == [e \in E |-> table_size_map[e].size[s]]
             p == Part(table_size_map, Charged, k, s)
             T == {t \in Tables : <<t, id>> \in E}
             b == [t \in T |-> <<t, id>>]
  <1>1. ChargedSize(k, s) = SumFunctionOnSet(f, E)
    <2>1. DOMAIN f = E
      BY Zenon
    <2> QED
      BY <2>1, Zenon DEF ChargedSize, SumFunction
  <1>2. Charged \subseteq DOMAIN table_size_map
    BY Zenon DEF Charged
  <1>3. id \in EntryIds /\ s \in SegidsOf(id)
    BY Chunks, Zenon
  <1>4. \A e \in E : e[1] \in T /\ e = <<e[1], id>>
    <2> SUFFICES ASSUME NEW e \in E PROVE e[1] \in T /\ e = <<e[1], id>>
      BY Zenon
    <2>1. e \in Tables \X EntryIds /\ s \in SegidsOf(e[2])
      BY <1>2, Zenon DEF MapShape
    <2>2. e = <<e[1], e[2]>> /\ e[1] \in Tables /\ e[2] \in EntryIds
      BY <2>1
    <2>3. e[2] = id
      BY <2>1, <2>2, Chunks, Zenon
    <2> QED
      BY <2>2, <2>3, Zenon
  <1>5. {b[t] : t \in T} = E
    <2>1. \A t \in T : b[t] \in E
      BY Zenon
    <2>2. \A e \in E : e[1] \in T /\ b[e[1]] = e
      BY <1>4, Zenon
    <2> HIDE DEF b, E, T
    <2> QED
      BY <2>1, <2>2
  <1>6. \A x, y \in T : b[x] = b[y] => x = y
    OBVIOUS
  <1>7. \A t \in T : f[b[t]] = p[t] /\ p[t] \in Int
    <2> SUFFICES ASSUME NEW t \in T PROVE f[b[t]] = p[t] /\ p[t] \in Int
      BY Zenon
    <2>1. b[t] = <<t, id>> /\ <<t, id>> \in E /\ t \in Tables
      BY Zenon
    <2>2. f[b[t]] = table_size_map[<<t, id>>].size[s]
      BY <2>1, Zenon
    <2>3. p[t] = table_size_map[<<t, id>>].size[s]
      BY <2>1, Zenon DEF Part
    <2>4. <<t, id>> \in DOMAIN table_size_map /\ s \in SegidsOf(<<t, id>>[2])
      BY <1>2, <2>1, Zenon
    <2>5. table_size_map[<<t, id>>].size[s] \in Nat
      BY <2>4, Zenon DEF SizesNat
    <2> QED
      BY <2>2, <2>3, <2>5
  <1>8. \A t \in Tables \ T : p[t] = 0
    <2> SUFFICES ASSUME NEW t \in Tables \ T PROVE p[t] = 0
      BY Zenon
    <2>1. <<t, id>>[2] = id
      BY Zenon
    <2>2. ~(<<t, id>> \in Charged /\ KeyOf(k.type, table_size_map[<<t, id>>].attr) = k)
      BY <1>3, <2>1, Zenon
    <2> QED
      BY <2>2, Zenon DEF Part
  <1>9. IsFiniteSet(Tables) /\ T \in SUBSET Tables
    BY QuotaAssumption, Zenon
  <1>10. IsFiniteSet(T)
    BY <1>9, FS_Subset, Zenon
  <1> HIDE DEF E, f, p, T, b
  <1>11. SumFunctionOnSet(f, {b[t] : t \in T}) = SumFunctionOnSet(p, T)
    BY <1>6, <1>7, <1>10, SumImage
  <1>12. SumFunctionOnSet(p, Tables) = SumFunctionOnSet(p, T)
    BY <1>7, <1>8, <1>9, SumEqual
  <1> QED
    BY <1>1, <1>5, <1>11, <1>12, Zenon DEF p

\* update_size_for_quota keeps the records of the quotas and adds those that are
\* charged.
LEMMA ChargedRecords ==
  ASSUME NEW q, QuotaRecords(q), NEW C, NEW w, w = Charge(q, C)
  PROVE  /\ QuotaRecords(w)
         /\ \A e \in DOMAIN w : e \in DOMAIN q \/ \E c \in C : e = [key |-> c.key, segid |-> c.seg]
  <1> DEFINE De(e) == {c \in C : c.key = e.key /\ c.seg = e.segid}
             touched == {[key |-> c.key, segid |-> c.seg] : c \in C}
             old(e) == IF e \in DOMAIN q THEN q[e] ELSE [size |-> 0, limit |-> -1]
             sum(e) == SumFunction([c \in De(e) |-> c.amt])
  <1>1. w = [e \in DOMAIN q \cup touched |-> [old(e) EXCEPT !.size = old(e).size + sum(e)]]
    BY Zenon DEF Charge
  <1>2. \A e \in DOMAIN q \cup touched :
           w[e] = [size |-> old(e).size + sum(e), limit |-> old(e).limit]
    <2> SUFFICES ASSUME NEW e \in DOMAIN q \cup touched
                 PROVE  w[e] = [size |-> old(e).size + sum(e), limit |-> old(e).limit]
      BY Zenon
    <2>1. PICK o : o = old(e)
      BY Zenon
    <2>2. o = [size |-> o.size, limit |-> o.limit]
      BY <2>1 DEF QuotaRecords
    <2>3. PICK n : n = o.size + sum(e)
      BY Zenon
    <2>4. w[e] = [o EXCEPT !.size = n]
      BY <1>1, <2>1, <2>3, Zenon
    <2>5. w[e] = [size |-> n, limit |-> o.limit]
      BY <2>2, <2>4
    <2> QED
      BY <2>1, <2>3, <2>5, Zenon
  <1>3. DOMAIN w = DOMAIN q \cup touched
    BY <1>1, Zenon
  <1>4. QuotaRecords(w)
    <2> SUFFICES ASSUME NEW e \in DOMAIN w PROVE w[e] = [size |-> w[e].size, limit |-> w[e].limit]
      BY Zenon DEF QuotaRecords
    <2> HIDE DEF old, sum, touched
    <2>1. PICK n, l : w[e] = [size |-> n, limit |-> l]
      BY <1>2, <1>3, Zenon
    <2> QED
      BY <2>1
  <1>5. \A e \in touched : \E c \in C : e = [key |-> c.key, segid |-> c.seg]
    BY Zenon
  <1> QED
    BY <1>3, <1>4, <1>5, Zenon

\* update_size_for_quota adds the amounts charged to a key on a segment.
LEMMA ChargeEffect ==
  ASSUME NEW q, QuotaRecords(q), NEW C, NEW w, w = Charge(q, C),
         NEW k, NEW s, NEW D, D = {c \in C : c.key = k /\ c.seg = s}
  PROVE  UsageOf(w, k, s) = UsageOf(q, k, s) + Amount(D)
  <1> DEFINE De(e) == {c \in C : c.key = e.key /\ c.seg = e.segid}
             touched == {[key |-> c.key, segid |-> c.seg] : c \in C}
             old(e) == IF e \in DOMAIN q THEN q[e] ELSE [size |-> 0, limit |-> -1]
             sum(e) == SumFunction([c \in De(e) |-> c.amt])
             x == [key |-> k, segid |-> s]
  <1>1. w = [e \in DOMAIN q \cup touched |-> [old(e) EXCEPT !.size = old(e).size + sum(e)]]
    BY Zenon DEF Charge
  <1>2. \A e \in DOMAIN q \cup touched :
           w[e] = [size |-> old(e).size + sum(e), limit |-> old(e).limit]
    <2> SUFFICES ASSUME NEW e \in DOMAIN q \cup touched
                 PROVE  w[e] = [size |-> old(e).size + sum(e), limit |-> old(e).limit]
      BY Zenon
    <2>1. PICK o : o = old(e)
      BY Zenon
    <2>2. o = [size |-> o.size, limit |-> o.limit]
      BY <2>1 DEF QuotaRecords
    <2>3. PICK n : n = o.size + sum(e)
      BY Zenon
    <2>4. w[e] = [o EXCEPT !.size = n]
      BY <1>1, <2>1, <2>3, Zenon
    <2>5. w[e] = [size |-> n, limit |-> o.limit]
      BY <2>2, <2>4
    <2> QED
      BY <2>1, <2>3, <2>5, Zenon
  <1>3. DOMAIN w = DOMAIN q \cup touched
    BY <1>1, Zenon
  <1>4. x.key = k /\ x.segid = s /\ (x \in touched <=> D # {}) /\ De(x) = D
    OBVIOUS
  <1>6. sum(x) = Amount(D)
    BY <1>4, Zenon DEF SumFunction, Amount
  <1>7. UsageOf(w, k, s) = UsageOf(q, k, s) + Amount(D)
    <2> HIDE DEF De, sum, touched
    <2>1. CASE x \in DOMAIN q \cup touched
      <3>1. w[x].size = old(x).size + sum(x)
        <4>1. w[x] = [size |-> old(x).size + sum(x), limit |-> old(x).limit]
          BY <1>2, <2>1, Zenon
        <4> HIDE DEF old
        <4> QED
          BY <4>1
      <3>2. UsageOf(w, k, s) = w[x].size
        BY <1>3, <2>1, Zenon DEF UsageOf
      <3>3. UsageOf(q, k, s) = old(x).size
        BY DEF UsageOf
      <3> QED
        BY <1>6, <3>1, <3>2, <3>3, Zenon
    <2>2. CASE x \notin DOMAIN q \cup touched
      <3>1. UsageOf(w, k, s) = 0 /\ UsageOf(q, k, s) = 0
        BY <1>3, <2>2, Zenon DEF UsageOf
      <3>2. D = {}
        BY <1>4, <2>2, Zenon
      <3>3. Amount(D) = 0
        BY <3>2, SumUnfolds, FS_EmptySet, Zenon DEF Amount
      <3> QED
        BY <3>1, <3>3
    <2> QED
      BY <2>1, <2>2, Zenon
  <1> QED
    BY <1>7, Zenon

\* If the charges for a key are the differences of what each table contributes,
\* at most one per table and none where there is no difference, they add up to
\* the difference of the sums.
LEMMA ChargesBalance ==
  ASSUME NEW D, NEW old, NEW new,
         \A t \in Tables : old[t] \in Int /\ new[t] \in Int,
         \A c \in D : c.t \in Tables /\ c.amt = new[c.t] - old[c.t],
         \A c, d \in D : c.t = d.t => c = d,
         \A t \in Tables : new[t] = old[t] \/ \E c \in D : c.t = t
  PROVE  SumFunctionOnSet(new, Tables) = SumFunctionOnSet(old, Tables) + Amount(D)
  <1> DEFINE T == {t \in Tables : \E c \in D : c.t = t}
             b == [t \in T |-> CHOOSE c \in D : c.t = t]
             amt == [c \in D |-> c.amt]
             delta == [t \in Tables |-> new[t] - old[t]]
  <1>1. \A t \in T : b[t] \in D /\ b[t].t = t
    BY Zenon
  <1>2. \A c \in D : c.t \in T /\ b[c.t] = c
    BY <1>1, Zenon
  <1>3. {b[t] : t \in T} = D
    <2> HIDE DEF b, T
    <2> QED
      BY <1>1, <1>2
  <1>4. \A x, y \in T : b[x] = b[y] => x = y
    BY <1>1, Zenon
  <1>5. IsFiniteSet(Tables) /\ T \in SUBSET Tables /\ IsFiniteSet(T)
    BY QuotaAssumption, FS_Subset, Zenon
  <1>6. \A t \in Tables : delta[t] \in Int /\ new[t] = old[t] + delta[t] /\ (t \notin T => delta[t] = 0)
    OBVIOUS
  <1>7. \A t \in T : amt[b[t]] = delta[t] /\ delta[t] \in Int
    <2> SUFFICES ASSUME NEW t \in T PROVE amt[b[t]] = delta[t]
      BY <1>6, Zenon
    <2>1. PICK c \in D : c = b[t] /\ c.t = t
      BY <1>1, Zenon
    <2>2. amt[c] = new[t] - old[t]
      BY <2>1, Zenon
    <2>3. delta[t] = new[t] - old[t]
      BY Zenon
    <2> QED
      BY <2>1, <2>2, <2>3, Zenon
  <1> HIDE DEF T, b, amt, delta
  <1>8. SumFunctionOnSet(amt, {b[t] : t \in T}) = SumFunctionOnSet(delta, T)
    BY <1>4, <1>5, <1>7, SumImage
  <1>9. SumFunctionOnSet(delta, Tables) = SumFunctionOnSet(delta, T)
    BY <1>5, <1>6, <1>7, SumEqual
  <1>10. SumFunctionOnSet(new, Tables) = SumFunctionOnSet(old, Tables) + SumFunctionOnSet(delta, Tables)
    BY <1>5, <1>6, SumAdd
  <1> QED
    BY <1>3, <1>8, <1>9, <1>10, Zenon DEF amt, Amount

\* A table's contribution is a natural number.
LEMMA PartNat ==
  ASSUME MapShape, SizesNat, NEW k, NEW s \in Segids, NEW X \in SUBSET DOMAIN table_size_map
  PROVE  \A t \in Tables : Part(table_size_map, X, k, s)[t] \in Int
  <1> SUFFICES ASSUME NEW t \in Tables PROVE Part(table_size_map, X, k, s)[t] \in Int
    BY Zenon
  <1> DEFINE e == <<t, TableSizeEntryId(s)>>
  <1>1. \/ Part(table_size_map, X, k, s)[t] = 0
        \/ /\ e \in X
           /\ Part(table_size_map, X, k, s)[t] = table_size_map[e].size[s]
    BY Zenon DEF Part
  <1>2. e[2] = TableSizeEntryId(s) /\ s \in SegidsOf(TableSizeEntryId(s))
    BY Chunks, Zenon
  <1>3. e \in X => table_size_map[e].size[s] \in Nat
    BY <1>2, Zenon DEF SizesNat
  <1> QED
    BY <1>1, <1>3

\* An empty record contributes nothing.
LEMMA EnteredPart ==
  ASSUME MapShape, SizesNat, NEW E \in SUBSET (Tables \X EntryIds),
         NEW m, m = WithEntries(table_size_map, E), NEW k, NEW s \in Segids, NEW id, id = TableSizeEntryId(s),
         NEW old, old = Part(table_size_map, DOMAIN table_size_map, k, s), NEW t \in Tables
  PROVE  /\ old[t] =
               IF <<t, id>> \in DOMAIN m /\ KeyOf(k.type, m[<<t, id>>].attr) = k
               THEN m[<<t, id>>].size[s] ELSE 0
         /\ <<t, id>> \in DOMAIN m => m[<<t, id>>].size[s] \in Nat
  <1>1. /\ DOMAIN m = DOMAIN table_size_map \cup E
        /\ \A e \in DOMAIN table_size_map : m[e] = table_size_map[e]
        /\ \A e \in E \ DOMAIN table_size_map : m[e] = NewEntry(e[2])
    BY Entered, Zenon
  <1>2. s \in SegidsOf(id) /\ <<t, id>>[2] = id
    BY Chunks, Zenon
  <1>3. CASE <<t, id>> \in DOMAIN table_size_map
    <2>1. m[<<t, id>>] = table_size_map[<<t, id>>] /\ <<t, id>> \in DOMAIN m
      BY <1>1, <1>3, Zenon
    <2>2. table_size_map[<<t, id>>].size[s] \in Nat
      BY <1>2, <1>3, Zenon DEF SizesNat
    <2> QED
      BY <1>3, <2>1, <2>2, Zenon DEF Part
  <1>4. CASE <<t, id>> \notin DOMAIN table_size_map
    <2>1. old[t] = 0
      BY <1>4, Zenon DEF Part
    <2>2. <<t, id>> \in DOMAIN m => m[<<t, id>>].size[s] = 0
      <3>1. SUFFICES ASSUME <<t, id>> \in DOMAIN m PROVE m[<<t, id>>].size[s] = 0
        BY Zenon
      <3>2. m[<<t, id>>] = NewEntry(id)
        BY <1>1, <1>2, <1>4, <3>1, Zenon
      <3>3. NewEntry(id).size[s] = 0
        BY <1>2, NewEntryShape, Zenon
      <3> QED
        BY <3>2, <3>3, Zenon
    <2>3. 0 \in Nat
      OBVIOUS
    <2> QED
      BY <2>1, <2>2, <2>3, Zenon
  <1> QED
    BY <1>3, <1>4, Zenon

\* The charges of calculate_active_table_disk_usage, for one key and segment.
LEMMA SizeChargesOf ==
  ASSUME NEW m, NEW sz, DOMAIN sz \subseteq Tables \X Segids, NEW k, NEW s
  PROVE  /\ \A c \in SizeCharges(m, sz) : c.key = k /\ c.seg = s =>
               /\ c.t \in Tables /\ <<c.t, s>> \in DOMAIN sz /\ <<c.t, TableSizeEntryId(s)>> \in DOMAIN m
               /\ KeyOf(k.type, m[<<c.t, TableSizeEntryId(s)>>].attr) = k
               /\ c = [t |-> c.t, seg |-> s, key |-> k,
                       amt |-> sz[<<c.t, s>>] - m[<<c.t, TableSizeEntryId(s)>>].size[s]]
         /\ k.type \in QuotaTypes => \A t \in Tables :
               /\ <<t, s>> \in DOMAIN sz /\ <<t, TableSizeEntryId(s)>> \in DOMAIN m
               /\ KeyOf(k.type, m[<<t, TableSizeEntryId(s)>>].attr) = k
               => \E c \in SizeCharges(m, sz) : c.key = k /\ c.seg = s /\ c.t = t
  <1> DEFINE R(p) == <<p[1], TableSizeEntryId(p[2])>>
             P == {p \in DOMAIN sz : R(p) \in DOMAIN m}
             charge(p, type) ==
                [t |-> p[1], seg |-> p[2], key |-> KeyOf(type, m[R(p)].attr),
                 amt |-> sz[p] - RecordedSize(m, p[1], p[2])]
  <1>1. \A c : c \in SizeCharges(m, sz) <=> \E p \in P, type \in QuotaTypes : c = charge(p, type)
    BY DEF SizeCharges
  <1>2. ASSUME NEW c \in SizeCharges(m, sz), c.key = k, c.seg = s
        PROVE  /\ c.t \in Tables /\ <<c.t, s>> \in DOMAIN sz /\ <<c.t, TableSizeEntryId(s)>> \in DOMAIN m
               /\ KeyOf(k.type, m[<<c.t, TableSizeEntryId(s)>>].attr) = k
               /\ c = [t |-> c.t, seg |-> s, key |-> k,
                       amt |-> sz[<<c.t, s>>] - m[<<c.t, TableSizeEntryId(s)>>].size[s]]
    <2>1. PICK p \in P, type \in QuotaTypes : c = charge(p, type)
      BY <1>1, Zenon
    <2>2. p = <<p[1], p[2]>> /\ p[1] \in Tables /\ p \in DOMAIN sz /\ R(p) \in DOMAIN m
      <3>1. p \in Tables \X Segids /\ p \in DOMAIN sz /\ R(p) \in DOMAIN m
        BY <2>1, Zenon
      <3> QED
        BY <3>1
    <2>3. PICK K, n : K = KeyOf(type, m[R(p)].attr) /\ n = sz[p] - RecordedSize(m, p[1], p[2])
      BY Zenon
    <2>4. c = [t |-> p[1], seg |-> p[2], key |-> K, amt |-> n]
      BY <2>1, <2>3, Zenon
    <2>5. c.t = p[1] /\ c.seg = p[2] /\ c.key = K
      BY <2>4
    <2>6. K = k /\ p[2] = s /\ R(p) = <<c.t, TableSizeEntryId(s)>> /\ p = <<c.t, s>>
      BY <1>2, <2>2, <2>5, Zenon
    <2>7. k.type = type
      BY <2>3, <2>6, KeyTypes, Zenon
    <2>8. RecordedSize(m, p[1], p[2]) = m[R(p)].size[s]
      BY <2>2, <2>6, Zenon DEF RecordedSize
    <2> QED
      BY <2>2, <2>3, <2>4, <2>5, <2>6, <2>7, <2>8, Zenon
  <1>3. ASSUME NEW t \in Tables, k.type \in QuotaTypes,
               <<t, s>> \in DOMAIN sz, <<t, TableSizeEntryId(s)>> \in DOMAIN m,
               KeyOf(k.type, m[<<t, TableSizeEntryId(s)>>].attr) = k
        PROVE  \E c \in SizeCharges(m, sz) : c.key = k /\ c.seg = s /\ c.t = t
    <2> DEFINE p == <<t, s>>
    <2>1. p[1] = t /\ p[2] = s
      BY Zenon
    <2>2. R(p) = <<t, TableSizeEntryId(s)>>
      BY <2>1, Zenon
    <2> HIDE DEF p
    <2>3. p \in P
      BY <1>3, <2>2, Zenon DEF p
    <2>4. charge(p, k.type) \in SizeCharges(m, sz)
      BY <1>1, <1>3, <2>3, Zenon
    <2>5. PICK n : n = sz[p] - RecordedSize(m, p[1], p[2])
      BY Zenon
    <2>6. charge(p, k.type) = [t |-> t, seg |-> s, key |-> k, amt |-> n]
      BY <1>3, <2>1, <2>2, <2>5, Zenon
    <2> QED
      BY <2>4, <2>6
  <1> QED
    BY <1>2, <1>3, Zenon

\* Passes over sizes keep the usage of a key equal to the sum.
LEMMA AppliedUsage ==
  ASSUME MapShape, SizesNat, QuotaRecords(quota_info_map),
         NEW sz, DOMAIN sz \subseteq Tables \X Segids, \A p \in DOMAIN sz : sz[p] \in Nat, ApplySizes(sz),
         NEW k, k.type \in QuotaTypes, NEW s \in Segids,
         UsageOf(quota_info_map, k, s) =
            SumFunctionOnSet(Part(table_size_map, DOMAIN table_size_map, k, s), Tables)
  PROVE  UsageOf(quota_info_map', k, s) =
            SumFunctionOnSet(Part(table_size_map', DOMAIN table_size_map', k, s), Tables)
  <1> DEFINE needed == {<<p[1], TableSizeEntryId(p[2])>> : p \in DOMAIN sz} \ DOMAIN table_size_map
             id == TableSizeEntryId(s)
             old == Part(table_size_map, DOMAIN table_size_map, k, s)
             new == Part(table_size_map', DOMAIN table_size_map', k, s)
  <1>1. PICK E \in Admitted(needed) :
          /\ table_size_map' = SetSizes(WithEntries(table_size_map, E), sz)
          /\ quota_info_map' = Charge(quota_info_map, SizeCharges(WithEntries(table_size_map, E), sz))
    BY Zenon DEF ApplySizes
  <1>2. E \in SUBSET (Tables \X EntryIds)
    <2>1. E \subseteq needed
      BY <1>1, Zenon DEF Admitted
    <2>2. ASSUME NEW e \in needed PROVE e \in Tables \X EntryIds
      <3>1. PICK p \in DOMAIN sz : e = <<p[1], TableSizeEntryId(p[2])>>
        BY Zenon
      <3>2. p[1] \in Tables /\ p[2] \in Segids
        BY <3>1
      <3> QED
        BY <3>1, <3>2, Chunks
    <2> QED
      BY <2>1, <2>2, Zenon
  <1> HIDE DEF needed
  <1>3. PICK m : m = WithEntries(table_size_map, E)
    BY Zenon
  <1>4. /\ DOMAIN m = DOMAIN table_size_map \cup E
        /\ \A e \in DOMAIN m : EntryShape(m[e], e[2])
        /\ \A e \in DOMAIN table_size_map : m[e] = table_size_map[e]
        /\ \A e \in E \ DOMAIN table_size_map : m[e] = NewEntry(e[2])
    BY <1>2, <1>3, Entered, Zenon
  <1>5. table_size_map' = SetSizes(m, sz) /\ quota_info_map' = Charge(quota_info_map, SizeCharges(m, sz))
    BY <1>1, <1>3, Zenon
  <1>6. DOMAIN table_size_map' = DOMAIN m
    BY <1>5, Zenon DEF SetSizes
  <1>7. id \in EntryIds /\ s \in SegidsOf(id)
    BY Chunks, Zenon
  <1>8. ASSUME NEW t \in Tables, <<t, id>> \in DOMAIN m
        PROVE  /\ table_size_map'[<<t, id>>].attr = m[<<t, id>>].attr
               /\ table_size_map'[<<t, id>>].size[s] =
                     IF <<t, s>> \in DOMAIN sz THEN sz[<<t, s>>] ELSE m[<<t, id>>].size[s]
    <2>1. PICK e \in DOMAIN m : e = <<t, id>>
      BY <1>8, Zenon
    <2>2. e[1] = t /\ e[2] = id
      BY <2>1, Zenon
    <2>3. PICK r : r = SetSizes(m, sz)[e]
      BY Zenon
    <2>4. EntryShape(m[e], e[2])
      BY <1>4, Zenon
    <2>5. /\ r.attr = m[e].attr
          /\ \A x \in SegidsOf(e[2]) :
               r.size[x] = IF <<e[1], x>> \in DOMAIN sz THEN sz[<<e[1], x>>] ELSE m[e].size[x]
      BY <2>3, <2>4, SetSizesEntry
    <2>6. table_size_map'[e] = r
      BY <1>5, <2>3, Zenon
    <2> QED
      BY <1>7, <2>1, <2>2, <2>5, <2>6, Zenon
  <1>e. E \in SUBSET (Tables \X EntryIds) /\ m = WithEntries(table_size_map, E)
    BY <1>2, <1>3, Zenon
  <1>9. ASSUME NEW t \in Tables
        PROVE  /\ old[t] = IF <<t, id>> \in DOMAIN m /\ KeyOf(k.type, m[<<t, id>>].attr) = k
                           THEN m[<<t, id>>].size[s] ELSE 0
               /\ <<t, id>> \in DOMAIN m => m[<<t, id>>].size[s] \in Nat
    BY <1>e, EnteredPart
  <1>10. ASSUME NEW t \in Tables
         PROVE  new[t] = IF <<t, id>> \in DOMAIN m /\ KeyOf(k.type, m[<<t, id>>].attr) = k
                         THEN IF <<t, s>> \in DOMAIN sz THEN sz[<<t, s>>] ELSE m[<<t, id>>].size[s]
                         ELSE 0
    BY <1>6, <1>8, Zenon DEF Part
  <1>11. \A t \in Tables : old[t] \in Int /\ new[t] \in Int
    <2>1. \A t \in Tables : old[t] \in Int
      BY PartNat, Zenon
    <2>2. ASSUME NEW t \in Tables PROVE new[t] \in Int
      <3>1. \/ new[t] = old[t]
            \/ /\ <<t, s>> \in DOMAIN sz
               /\ new[t] = sz[<<t, s>>]
        BY <1>9, <1>10, Zenon
      <3> HIDE DEF old, new
      <3> QED
        BY <2>1, <3>1
    <2> QED
      BY <2>1, <2>2, Zenon
  <1>c. PICK C : C = SizeCharges(m, sz)
    BY Zenon
  <1> DEFINE D == {c \in C : c.key = k /\ c.seg = s}
  <1> HIDE DEF old, new
  <1>12. \A c \in D : /\ c.t \in Tables /\ <<c.t, s>> \in DOMAIN sz /\ <<c.t, id>> \in DOMAIN m
                      /\ KeyOf(k.type, m[<<c.t, id>>].attr) = k
                      /\ c = [t |-> c.t, seg |-> s, key |-> k, amt |-> sz[<<c.t, s>>] - m[<<c.t, id>>].size[s]]
    BY <1>c, SizeChargesOf
  <1>13. ASSUME NEW c \in D PROVE c.t \in Tables /\ c.amt = new[c.t] - old[c.t]
    <2>1. new[c.t] = sz[<<c.t, s>>] /\ old[c.t] = m[<<c.t, id>>].size[s]
      BY <1>9, <1>10, <1>12, Zenon
    <2>2. c.amt = sz[<<c.t, s>>] - m[<<c.t, id>>].size[s]
      BY <1>12
    <2> QED
      BY <1>12, <2>1, <2>2, Zenon
  <1>14. \A c, d \in D : c.t = d.t => c = d
    BY <1>12, Zenon
  <1>15. ASSUME NEW t \in Tables PROVE new[t] = old[t] \/ \E c \in D : c.t = t
    <2>1. SUFFICES ASSUME new[t] # old[t] PROVE \E c \in D : c.t = t
      BY Zenon
    <2>2. <<t, id>> \in DOMAIN m /\ KeyOf(k.type, m[<<t, id>>].attr) = k /\ <<t, s>> \in DOMAIN sz
      BY <1>9, <1>10, <2>1, Zenon
    <2> QED
      BY <1>c, <2>2, SizeChargesOf
  <1> HIDE DEF D
  <1>16. SumFunctionOnSet(new, Tables) = SumFunctionOnSet(old, Tables) + Amount(D)
    BY <1>11, <1>13, <1>14, <1>15, ChargesBalance
  <1>17. UsageOf(quota_info_map', k, s) =
            UsageOf(quota_info_map, k, s) + Amount(D)
    <2>1. D = {c \in C : c.key = k /\ c.seg = s}
      BY Zenon DEF D
    <2>2. PICK q, w : q = quota_info_map /\ w = quota_info_map'
      BY Zenon
    <2>3. w = Charge(q, C) /\ QuotaRecords(q)
      BY <1>5, <1>c, <2>2, Zenon
    <2>4. UsageOf(w, k, s) = UsageOf(q, k, s) + Amount(D)
      BY <2>1, <2>3, ChargeEffect
    <2> QED
      BY <2>2, <2>4, Zenon
  <1> QED
    BY <1>16, <1>17, Zenon DEF old, new

\* The charges of a transfer for one key and segment: K is the key before and
\* L the key after.
TransferChargesAre(m, e, a, k, s, K, L) ==
    /\ \A c \in TransferCharges(m, e, a) : c.key = k /\ c.seg = s =>
          /\ s \in SegidsOf(e[2]) /\ K # L
          /\ \/ k = K /\ c = [t |-> e[1], seg |-> s, key |-> k, amt |-> -m[e].size[s]]
             \/ k = L /\ c = [t |-> e[1], seg |-> s, key |-> k, amt |-> m[e].size[s]]
    /\ k.type \in QuotaTypes /\ s \in SegidsOf(e[2]) /\ K # L /\ k \in {K, L} =>
          \E c \in TransferCharges(m, e, a) : c.key = k /\ c.seg = s /\ c.t = e[1]

\* A transfer takes a table's size from its old key and gives it to the new.
LEMMA TransferChargesOf ==
  ASSUME NEW m, NEW e, NEW a, NEW k, NEW s, NEW K, K = KeyOf(k.type, m[e].attr),
         NEW L, L = KeyOf(k.type, a)
  PROVE  TransferChargesAre(m, e, a, k, s, K, L)
  <1> DEFINE types == {type \in QuotaTypes : KeyOf(type, m[e].attr) # KeyOf(type, a)}
             charge(x, type, attr, n) == [t |-> e[1], seg |-> x, key |-> KeyOf(type, attr), amt |-> n]
             One(x, type) == charge(x, type, m[e].attr, -m[e].size[x])
             Two(x, type) == charge(x, type, a, m[e].size[x])
  <1>1. \A c : c \in TransferCharges(m, e, a) <=>
                  \E x \in SegidsOf(e[2]), type \in types : c = One(x, type) \/ c = Two(x, type)
    <2> DEFINE Pairs == {{One(x, type), Two(x, type)} : x \in SegidsOf(e[2]), type \in types}
    <2>1. TransferCharges(m, e, a) = UNION Pairs
      BY DEF TransferCharges
    <2> HIDE DEF types, One, Two
    <2>2. \A X : X \in Pairs <=> \E x \in SegidsOf(e[2]), type \in types : X = {One(x, type), Two(x, type)}
      OBVIOUS
    <2> HIDE DEF Pairs
    <2>3. \A c : c \in TransferCharges(m, e, a) <=> \E X \in Pairs : c \in X
      BY <2>1, Zenon
    <2>4. ASSUME NEW c, NEW x \in SegidsOf(e[2]), NEW type \in types, c = One(x, type) \/ c = Two(x, type)
          PROVE  c \in TransferCharges(m, e, a)
      <3>1. {One(x, type), Two(x, type)} \in Pairs
        BY <2>2
      <3> QED
        BY <2>3, <2>4, <3>1, Zenon
    <2>5. ASSUME NEW c \in TransferCharges(m, e, a)
          PROVE  \E x \in SegidsOf(e[2]), type \in types : c = One(x, type) \/ c = Two(x, type)
      <3>1. PICK X \in Pairs : c \in X
        BY <2>3, Zenon
      <3>2. PICK x \in SegidsOf(e[2]), type \in types : X = {One(x, type), Two(x, type)}
        BY <2>2, Zenon
      <3> QED
        BY <3>1, <3>2, Zenon
    <2> QED
      BY <2>4, <2>5, Zenon
  <1>2. ASSUME NEW c \in TransferCharges(m, e, a), c.key = k, c.seg = s
        PROVE  /\ s \in SegidsOf(e[2]) /\ K # L
               /\ \/ k = K /\ c = [t |-> e[1], seg |-> s, key |-> k, amt |-> -m[e].size[s]]
                  \/ k = L /\ c = [t |-> e[1], seg |-> s, key |-> k, amt |-> m[e].size[s]]
    <2>1. PICK x \in SegidsOf(e[2]), type \in types : c = One(x, type) \/ c = Two(x, type)
      BY <1>1, Zenon
    <2>2. type \in QuotaTypes /\ KeyOf(type, m[e].attr) # KeyOf(type, a)
      BY Zenon
    <2>3. PICK K0, L0 : K0 = KeyOf(type, m[e].attr) /\ L0 = KeyOf(type, a) /\ K0.type = type /\ L0.type = type
      BY <2>2, KeyTypes, Zenon
    <2>4. CASE c = One(x, type)
      <3>1. c = [t |-> e[1], seg |-> x, key |-> K0, amt |-> -m[e].size[x]]
        BY <2>3, <2>4, Zenon
      <3>2. c.key = K0 /\ c.seg = x
        BY <3>1
      <3>3. k = K0 /\ x = s /\ K0 = K /\ L0 = L
        BY <1>2, <2>3, <3>2, Zenon
      <3> QED
        BY <2>2, <2>3, <3>1, <3>3, Zenon
    <2>5. CASE c = Two(x, type)
      <3>1. c = [t |-> e[1], seg |-> x, key |-> L0, amt |-> m[e].size[x]]
        BY <2>3, <2>5, Zenon
      <3>2. c.key = L0 /\ c.seg = x
        BY <3>1
      <3>3. k = L0 /\ x = s /\ K0 = K /\ L0 = L
        BY <1>2, <2>3, <3>2, Zenon
      <3> QED
        BY <2>2, <2>3, <3>1, <3>3, Zenon
    <2> QED
      BY <2>1, <2>4, <2>5, Zenon
  <1>3. ASSUME k.type \in QuotaTypes, s \in SegidsOf(e[2]), K # L, k \in {K, L}
        PROVE  \E c \in TransferCharges(m, e, a) : c.key = k /\ c.seg = s /\ c.t = e[1]
    <2>1. k.type \in types
      BY <1>3, Zenon
    <2>2. One(s, k.type) \in TransferCharges(m, e, a) /\ Two(s, k.type) \in TransferCharges(m, e, a)
      <3> HIDE DEF types, One, Two
      <3> QED
        BY <1>1, <1>3, <2>1, Zenon
    <2>3. One(s, k.type) = [t |-> e[1], seg |-> s, key |-> K, amt |-> -m[e].size[s]]
      BY Zenon
    <2>4. Two(s, k.type) = [t |-> e[1], seg |-> s, key |-> L, amt |-> m[e].size[s]]
      BY Zenon
    <2> HIDE DEF types, One, Two
    <2>5. CASE k = K
      BY <2>2, <2>3, <2>5
    <2>6. CASE k = L
      BY <2>2, <2>4, <2>6
    <2> QED
      BY <1>3, <2>5, <2>6, Zenon
  <1> QED
    BY <1>2, <1>3, Zenon DEF TransferChargesAre

\* The charges of a removal for one key and segment.
RemovalChargesAre(m, e, k, s) ==
    /\ \A c \in RemovalCharges(m, e) : c.key = k /\ c.seg = s =>
          /\ s \in SegidsOf(e[2]) /\ KeyOf(k.type, m[e].attr) = k
          /\ c = [t |-> e[1], seg |-> s, key |-> k, amt |-> -m[e].size[s]]
    /\ k.type \in QuotaTypes /\ s \in SegidsOf(e[2]) /\ KeyOf(k.type, m[e].attr) = k =>
          \E c \in RemovalCharges(m, e) : c.key = k /\ c.seg = s /\ c.t = e[1]

\* A removal takes a table's size from its key.
LEMMA RemovalChargesOf ==
  ASSUME NEW m, NEW e, NEW k, NEW s
  PROVE  RemovalChargesAre(m, e, k, s)
  <1> DEFINE One(x, type) ==
                [t |-> e[1], seg |-> x, key |-> KeyOf(type, m[e].attr), amt |-> -m[e].size[x]]
  <1>1. \A c : c \in RemovalCharges(m, e) <=>
                  \E x \in SegidsOf(e[2]), type \in QuotaTypes : c = One(x, type)
    BY DEF RemovalCharges
  <1>2. ASSUME NEW c \in RemovalCharges(m, e), c.key = k, c.seg = s
        PROVE  /\ s \in SegidsOf(e[2]) /\ KeyOf(k.type, m[e].attr) = k
               /\ c = [t |-> e[1], seg |-> s, key |-> k, amt |-> -m[e].size[s]]
    <2>1. PICK x \in SegidsOf(e[2]), type \in QuotaTypes : c = One(x, type)
      BY <1>1, Zenon
    <2>2. PICK K : K = KeyOf(type, m[e].attr) /\ K.type = type
      BY KeyTypes, Zenon
    <2>3. c = [t |-> e[1], seg |-> x, key |-> K, amt |-> -m[e].size[x]]
      BY <2>1, <2>2, Zenon
    <2>4. c.key = K /\ c.seg = x
      BY <2>3
    <2>5. k = K /\ x = s
      BY <1>2, <2>4, Zenon
    <2> QED
      BY <2>2, <2>3, <2>5, Zenon
  <1>3. ASSUME k.type \in QuotaTypes, s \in SegidsOf(e[2]), KeyOf(k.type, m[e].attr) = k
        PROVE  \E c \in RemovalCharges(m, e) : c.key = k /\ c.seg = s /\ c.t = e[1]
    <2>1. One(s, k.type) = [t |-> e[1], seg |-> s, key |-> k, amt |-> -m[e].size[s]]
      BY <1>3, Zenon
    <2> HIDE DEF One
    <2>2. One(s, k.type) \in RemovalCharges(m, e)
      BY <1>1, <1>3, Zenon
    <2> QED
      BY <2>1, <2>2
  <1> QED
    BY <1>2, <1>3, Zenon DEF RemovalChargesAre

\* track_namespace_owner_tablespace_changes keeps the usage of a key equal to
\* the sum, from then on over the records that still exist.
LEMMA TrackedUsage ==
  ASSUME MapShape, SizesNat, QuotaRecords(quota_info_map), Track,
         NEW k, k.type \in QuotaTypes, NEW s \in Segids,
         UsageOf(quota_info_map, k, s) =
            SumFunctionOnSet(Part(table_size_map, DOMAIN table_size_map, k, s), Tables)
  PROVE  LET X == {e \in DOMAIN table_size_map' : table_size_map'[e].exist}
         IN  UsageOf(quota_info_map', k, s) = SumFunctionOnSet(Part(table_size_map', X, k, s), Tables)
  <1> DEFINE missing == (UNION {EntriesOf(t) : t \in LiveTables}) \ DOMAIN table_size_map
             id == TableSizeEntryId(s)
             X == {e \in DOMAIN table_size_map' : table_size_map'[e].exist}
             old == Part(table_size_map, DOMAIN table_size_map, k, s)
             new == Part(table_size_map', X, k, s)
             A(e) == catalog[e[1]].attr
             n(E) == WithEntries(table_size_map, E)
             reached(E, e) == Live(e[1]) /\ \A i \in EntryIds : i <= e[2] => <<e[1], i>> \in DOMAIN n(E)
             found(E) == {e \in DOMAIN n(E) : reached(E, e)}
  <1>0. PICK E \in Admitted(missing) :
          /\ table_size_map' =
              [e \in DOMAIN n(E) |->
                  IF e \in found(E) THEN [n(E)[e] EXCEPT !.attr = A(e), !.exist = TRUE,
                                                         !.flush = IF inited THEN @ ELSE {}]
                  ELSE [n(E)[e] EXCEPT !.exist = FALSE]]
          /\ quota_info_map' =
               Charge(quota_info_map, (UNION {TransferCharges(n(E), e, A(e)) : e \in found(E)})
                                        \cup UNION {RemovalCharges(n(E), e) : e \in DOMAIN n(E) \ found(E)})
    BY Zenon DEF Track
  <1>3. PICK m, F : m = n(E) /\ F = found(E)
    BY Zenon
  <1>1. /\ m = WithEntries(table_size_map, E)
        /\ F \subseteq DOMAIN m
        /\ table_size_map' =
              [e \in DOMAIN m |->
                  IF e \in F THEN [m[e] EXCEPT !.attr = A(e), !.exist = TRUE,
                                               !.flush = IF inited THEN @ ELSE {}]
                  ELSE [m[e] EXCEPT !.exist = FALSE]]
        /\ quota_info_map' =
               Charge(quota_info_map, (UNION {TransferCharges(m, e, A(e)) : e \in F})
                                        \cup UNION {RemovalCharges(m, e) : e \in DOMAIN m \ F})
    BY <1>0, <1>3, Zenon
  <1> HIDE DEF n, found
  <1>2. E \in SUBSET (Tables \X EntryIds)
    <2>1. E \subseteq missing
      BY <1>0, Zenon DEF Admitted
    <2>2. \A t \in LiveTables : t \in Tables
      BY Zenon DEF LiveTables
    <2>3. missing \subseteq Tables \X EntryIds
      BY <2>2 DEF EntriesOf
    <2> QED
      BY <2>1, <2>3, Zenon
  <1> HIDE DEF missing
  <1>4. /\ DOMAIN m = DOMAIN table_size_map \cup E
        /\ \A e \in DOMAIN m : EntryShape(m[e], e[2])
        /\ \A e \in DOMAIN table_size_map : m[e] = table_size_map[e]
        /\ \A e \in E \ DOMAIN table_size_map : m[e] = NewEntry(e[2])
    BY <1>1, <1>2, Entered, Zenon
  <1>5. DOMAIN table_size_map' = DOMAIN m
    BY <1>1, Zenon
  <1>6. id \in EntryIds /\ s \in SegidsOf(id)
    BY Chunks, Zenon
  <1>7. ASSUME NEW e \in DOMAIN m
        PROVE  /\ table_size_map'[e].size = m[e].size
               /\ e \in F => table_size_map'[e].attr = A(e)
               /\ e \in X <=> e \in F
    <2>1. PICK r, a, b, w : r = m[e] /\ a = A(e) /\ b = (e \in F) /\ w = table_size_map'[e]
      BY Zenon
    <2>2. b \in BOOLEAN
      BY <2>1
    <2>3. EntryShape(r, e[2])
      BY <1>4, <2>1, Zenon
    <2>4. TrackedFrom(r, a, b, w)
      <3>1. PICK f : f = IF inited THEN r.flush ELSE {}
        BY Zenon
      <3>2. /\ inited => f = r.flush
            /\ b => w = [r EXCEPT !.attr = a, !.exist = TRUE, !.flush = f]
            /\ ~b => w = [r EXCEPT !.exist = FALSE]
        BY <1>1, <2>1, <3>1, Zenon
      <3> QED
        BY <3>2, Zenon DEF TrackedFrom
    <2>5. /\ w.size = r.size
          /\ w.attr = IF b THEN a ELSE r.attr
          /\ w.exist = b
      BY <2>2, <2>3, <2>4, TrackedEntry
    <2>6. w.exist <=> e \in F
      BY <2>1, <2>5
    <2> QED
      BY <1>5, <2>1, <2>5, <2>6, Zenon
  <1>8. \A e \in DOMAIN m : s \in SegidsOf(e[2]) => e[1] \in Tables /\ e = <<e[1], id>>
    <2> SUFFICES ASSUME NEW e \in DOMAIN m, s \in SegidsOf(e[2]) PROVE e[1] \in Tables /\ e = <<e[1], id>>
      BY Zenon
    <2>1. e \in Tables \X EntryIds
      BY <1>2, <1>4, Zenon DEF MapShape
    <2>2. e = <<e[1], e[2]>> /\ e[1] \in Tables /\ e[2] \in EntryIds
      BY <2>1
    <2>3. e[2] = id
      BY <2>2, Chunks, Zenon
    <2> QED
      BY <2>2, <2>3, Zenon
  <1>e. E \in SUBSET (Tables \X EntryIds) /\ m = WithEntries(table_size_map, E)
    BY <1>1, <1>2, Zenon
  <1>9. ASSUME NEW t \in Tables
        PROVE  /\ old[t] = IF <<t, id>> \in DOMAIN m /\ KeyOf(k.type, m[<<t, id>>].attr) = k
                           THEN m[<<t, id>>].size[s] ELSE 0
               /\ <<t, id>> \in DOMAIN m => m[<<t, id>>].size[s] \in Nat
    BY <1>e, EnteredPart
  <1>10. ASSUME NEW t \in Tables
         PROVE  new[t] = IF <<t, id>> \in F /\ KeyOf(k.type, A(<<t, id>>)) = k
                         THEN m[<<t, id>>].size[s] ELSE 0
    <2>1. <<t, id>> \in X <=> <<t, id>> \in F
      BY <1>1, <1>5, <1>7, Zenon
    <2>2. <<t, id>> \in F => /\ table_size_map'[<<t, id>>].attr = A(<<t, id>>)
                             /\ table_size_map'[<<t, id>>].size = m[<<t, id>>].size
      BY <1>1, <1>7, Zenon
    <2> HIDE DEF X, A
    <2> QED
      BY <2>1, <2>2, Zenon DEF Part
  <1>11. \A t \in Tables : old[t] \in Int /\ new[t] \in Int
    <2> SUFFICES ASSUME NEW t \in Tables PROVE old[t] \in Int /\ new[t] \in Int
      BY Zenon
    <2> HIDE DEF old, new, A
    <2>1. \/ old[t] = 0
          \/ old[t] \in Nat
      BY <1>9, Zenon
    <2>2. \/ new[t] = 0
          \/ new[t] \in Nat
      BY <1>1, <1>9, <1>10, Zenon
    <2> QED
      BY <2>1, <2>2
  <1>c. PICK C : C = (UNION {TransferCharges(m, e, A(e)) : e \in F})
                        \cup UNION {RemovalCharges(m, e) : e \in DOMAIN m \ F}
    BY Zenon
  <1> DEFINE D == {c \in C : c.key = k /\ c.seg = s}
             K(t) == KeyOf(k.type, m[<<t, id>>].attr)
             L(t) == KeyOf(k.type, A(<<t, id>>))
             c1(t) == [t |-> t, seg |-> s, key |-> k, amt |-> -m[<<t, id>>].size[s]]
             c2(t) == [t |-> t, seg |-> s, key |-> k, amt |-> m[<<t, id>>].size[s]]
             Case1(t) == <<t, id>> \in F /\ K(t) # L(t) /\ k = K(t)
             Case2(t) == <<t, id>> \in F /\ K(t) # L(t) /\ k = L(t)
             Case3(t) == <<t, id>> \in DOMAIN m \ F /\ k = K(t)
  <1> HIDE DEF old, new, A, X
  <1>12. ASSUME NEW c \in D
         PROVE  \E t \in Tables : \/ c = c1(t) /\ (Case1(t) \/ Case3(t))
                                  \/ c = c2(t) /\ Case2(t)
    <2>0. c \in C /\ c.key = k /\ c.seg = s
      BY Zenon
    <2>1. CASE \E e \in F : c \in TransferCharges(m, e, A(e))
      <3>1. PICK e \in F : c \in TransferCharges(m, e, A(e))
        BY <2>1, Zenon
      <3>2. PICK t, a : t = e[1] /\ a = A(e)
        BY Zenon
      <3>3. PICK K0, L0 : K0 = KeyOf(k.type, m[e].attr) /\ L0 = KeyOf(k.type, a)
        BY Zenon
      <3>a. c \in TransferCharges(m, e, a)
        BY <3>1, <3>2, Zenon
      <3> HIDE DEF D, K, L, c1, c2, Case1, Case2, Case3
      <3>4. /\ s \in SegidsOf(e[2]) /\ K0 # L0
            /\ \/ k = K0 /\ c = [t |-> t, seg |-> s, key |-> k, amt |-> -m[e].size[s]]
               \/ k = L0 /\ c = [t |-> t, seg |-> s, key |-> k, amt |-> m[e].size[s]]
        <4>1. TransferChargesAre(m, e, a, k, s, K0, L0)
          BY <3>3, TransferChargesOf, Zenon
        <4> QED
          BY <2>0, <3>2, <3>a, <4>1, Zenon DEF TransferChargesAre
      <3>5. t \in Tables /\ e = <<t, id>>
        BY <1>1, <1>8, <3>2, <3>4, Zenon
      <3>6. K0 = K(t) /\ L0 = L(t)
        BY <3>2, <3>3, <3>5, Zenon DEF K, L
      <3> QED
        BY <3>4, <3>5, <3>6, Zenon DEF c1, c2, Case1, Case2, Case3
    <2>2. CASE \E e \in DOMAIN m \ F : c \in RemovalCharges(m, e)
      <3>1. PICK e \in DOMAIN m \ F : c \in RemovalCharges(m, e)
        BY <2>2, Zenon
      <3>2. PICK t : t = e[1]
        BY Zenon
      <3> HIDE DEF D, K, L, c1, c2, Case1, Case2, Case3
      <3>4. /\ s \in SegidsOf(e[2]) /\ KeyOf(k.type, m[e].attr) = k
            /\ c = [t |-> t, seg |-> s, key |-> k, amt |-> -m[e].size[s]]
        <4>1. RemovalChargesAre(m, e, k, s)
          BY RemovalChargesOf, Zenon
        <4> QED
          BY <2>0, <3>1, <3>2, <4>1, Zenon DEF RemovalChargesAre
      <3>5. t \in Tables /\ e = <<t, id>>
        BY <1>8, <3>2, <3>4, Zenon
      <3> QED
        BY <3>4, <3>5, Zenon DEF K, c1, Case3
    <2> QED
      BY <1>c, <2>0, <2>1, <2>2, Zenon
  <1>13. ASSUME NEW t \in Tables
         PROVE  /\ Case1(t) \/ Case3(t) => -m[<<t, id>>].size[s] = new[t] - old[t]
                /\ Case2(t) => m[<<t, id>>].size[s] = new[t] - old[t]
    <2>1. CASE Case1(t) \/ Case3(t)
      <3>1. old[t] = m[<<t, id>>].size[s] /\ new[t] = 0 /\ old[t] \in Int
        BY <1>1, <1>9, <1>10, <1>11, <2>1, Zenon
      <3>2. ~Case2(t)
        BY <2>1, Zenon
      <3> HIDE DEF Case1, Case2, Case3
      <3> QED
        BY <3>1, <3>2
    <2>2. CASE Case2(t)
      <3>1. new[t] = m[<<t, id>>].size[s] /\ old[t] = 0 /\ new[t] \in Int
        BY <1>1, <1>9, <1>10, <1>11, <2>2, Zenon
      <3>2. ~Case1(t) /\ ~Case3(t)
        BY <2>2, Zenon
      <3> HIDE DEF Case1, Case2, Case3
      <3> QED
        BY <3>1, <3>2
    <2> QED
      BY <2>1, <2>2, Zenon
  <1>14. \A t \in Tables : c1(t).t = t /\ c2(t).t = t /\ c1(t).amt = -m[<<t, id>>].size[s]
                           /\ c2(t).amt = m[<<t, id>>].size[s]
    OBVIOUS
  <1>15. \A t \in Tables : ~(Case2(t) /\ (Case1(t) \/ Case3(t)))
    BY Zenon
  <1>16. ASSUME NEW t \in Tables, new[t] # old[t] PROVE \E c \in D : c.t = t
    <2>0. PICK e : e = <<t, id>>
      BY Zenon
    <2>1. e = <<t, id>> /\ e[1] = t /\ e[2] = id
      BY <2>0, Zenon
    <2>2. e \in DOMAIN m
      BY <1>1, <1>9, <1>10, <1>16, <2>1, Zenon
    <2>a. PICK a : a = A(e)
      BY Zenon
    <2>3. PICK K0, L0 : K0 = KeyOf(k.type, m[e].attr) /\ L0 = KeyOf(k.type, a)
      BY Zenon
    <2>4. e \in F => K0 # L0 /\ k \in {K0, L0}
      BY <1>9, <1>10, <1>16, <2>1, <2>2, <2>3, <2>a, Zenon
    <2>5. e \notin F => K0 = k
      BY <1>9, <1>10, <1>16, <2>1, <2>2, <2>3, Zenon
    <2>6. CASE e \in F
      <3>1. \E c \in TransferCharges(m, e, a) : c.key = k /\ c.seg = s /\ c.t = e[1]
        <4>1. TransferChargesAre(m, e, a, k, s, K0, L0)
          BY <2>3, TransferChargesOf, Zenon
        <4> QED
          BY <1>6, <2>1, <2>4, <2>6, <4>1, Zenon DEF TransferChargesAre
      <3> QED
        BY <1>c, <2>1, <2>a, <2>6, <3>1, Zenon
    <2>7. CASE e \notin F
      <3>1. \E c \in RemovalCharges(m, e) : c.key = k /\ c.seg = s /\ c.t = e[1]
        <4>1. RemovalChargesAre(m, e, k, s)
          BY RemovalChargesOf, Zenon
        <4> QED
          BY <1>6, <2>1, <2>3, <2>5, <2>7, <4>1, Zenon DEF RemovalChargesAre
      <3> QED
        BY <1>c, <2>1, <2>2, <2>7, <3>1, Zenon
    <2> QED
      BY <2>6, <2>7, Zenon
  <1> HIDE DEF D, Case1, Case2, Case3, c1, c2
  <1>17. \A c \in D : c.t \in Tables /\ c.amt = new[c.t] - old[c.t]
    <2> SUFFICES ASSUME NEW c \in D PROVE c.t \in Tables /\ c.amt = new[c.t] - old[c.t]
      BY Zenon
    <2>1. PICK t \in Tables : \/ c = c1(t) /\ (Case1(t) \/ Case3(t))
                              \/ c = c2(t) /\ Case2(t)
      BY <1>12, Zenon
    <2>2. c.t = t
      BY <1>14, <2>1, Zenon
    <2>3. c.amt = new[t] - old[t]
      BY <1>13, <1>14, <2>1, Zenon
    <2> QED
      BY <2>2, <2>3, Zenon
  <1>18. \A c, d \in D : c.t = d.t => c = d
    <2> SUFFICES ASSUME NEW c \in D, NEW d \in D, c.t = d.t PROVE c = d
      BY Zenon
    <2>1. PICK t \in Tables : \/ c = c1(t) /\ (Case1(t) \/ Case3(t))
                              \/ c = c2(t) /\ Case2(t)
      BY <1>12, Zenon
    <2>2. PICK u \in Tables : \/ d = c1(u) /\ (Case1(u) \/ Case3(u))
                              \/ d = c2(u) /\ Case2(u)
      BY <1>12, Zenon
    <2>3. c.t = t /\ d.t = u
      BY <1>14, <2>1, <2>2, Zenon
    <2>4. t = u
      BY <2>3, Zenon
    <2> QED
      BY <1>15, <2>1, <2>2, <2>4, Zenon
  <1>19. SumFunctionOnSet(new, Tables) = SumFunctionOnSet(old, Tables) + Amount(D)
    BY <1>11, <1>16, <1>17, <1>18, ChargesBalance
  <1>20. UsageOf(quota_info_map', k, s) = UsageOf(quota_info_map, k, s) + Amount(D)
    <2>1. D = {c \in C : c.key = k /\ c.seg = s}
      BY Zenon DEF D
    <2>2. PICK q, w : q = quota_info_map /\ w = quota_info_map'
      BY Zenon
    <2>3. w = Charge(q, C) /\ QuotaRecords(q)
      BY <1>1, <1>c, <2>2, Zenon
    <2>4. UsageOf(w, k, s) = UsageOf(q, k, s) + Amount(D)
      BY <2>1, <2>3, ChargeEffect
    <2> QED
      BY <2>2, <2>4, Zenon
  <1> QED
    BY <1>19, <1>20, Zenon DEF old, new, X

-----------------------------------------------------------------------------
(***************************************************************************)
(* What every step keeps, whatever failed: the shapes of the files, of the *)
(* rows and of the maps.                                                   *)
(***************************************************************************)
RowShape(r) == DOMAIN r \subseteq Tables \X Segids /\ \A p \in DOMAIN r : r[p] \in Nat

KeyShape(q) == \A e \in DOMAIN q : e = [key |-> e.key, segid |-> e.segid] /\ e.segid \in Segids

Shape ==
    /\ failures \in Nat
    /\ DiskShape
    /\ dirty \subseteq Tables /\ active \subseteq Tables
    /\ MapShape /\ SizesNat
    /\ QuotaRecords(quota_info_map) /\ KeyShape(quota_info_map)
    /\ RowShape(rows) /\ RowShape(txRows)
    /\ pc = "size" => inited
    /\ Unloaded => table_size_map = Empty

\* The total that pull_active_table_size_from_seg gives to segment -1 is a size.
LEMMA TotalNat ==
  ASSUME DiskShape, NEW t \in Tables
  PROVE  SumOfSegments(disk[t]) \in Nat /\ disk[t][-1] \in Nat
  <1>1. \A s \in Segids : disk[t][s] \in Nat
    BY DEF DiskShape
  <1>2. Primaries \subseteq Segids /\ -1 \in Segids
    BY ChunkAssumption DEF Primaries, Segids
  <1>3. IsFiniteSet(Primaries)
    BY ChunkAssumption, FS_Interval DEF Primaries
  <1>4. PICK f : f = disk[t]
    BY Zenon
  <1>5. SumFunctionOnSet(f, Primaries) \in Nat
    BY <1>1, <1>2, <1>3, <1>4, SumType, Zenon
  <1> QED
    BY <1>1, <1>2, <1>4, <1>5, Zenon DEF SumOfSegments

\* Pulled sizes are sizes of tables on segments.
LEMMA PulledShape ==
  ASSUME DiskShape, NEW T \in SUBSET Tables
  PROVE  RowShape(PulledSizes(T))
  <1>1. DOMAIN PulledSizes(T) = T \X Segids
    BY Zenon DEF PulledSizes
  <1>2. ASSUME NEW p \in T \X Segids PROVE PulledSizes(T)[p] \in Nat
    <2>1. p[1] \in Tables /\ p[2] \in Segids
      OBVIOUS
    <2>2. PICK t, s, a, b : t = p[1] /\ s = p[2] /\ a = SumOfSegments(disk[t]) /\ b = disk[t][-1]
      BY Zenon
    <2>3. a \in Nat /\ b \in Nat
      BY <2>1, <2>2, TotalNat, Zenon
    <2>4. disk[t][s] \in Nat
      BY <2>1, <2>2 DEF DiskShape
    <2>5. PulledSizes(T)[p] = IF s = -1 THEN a + b ELSE disk[t][s]
      BY <2>2, Zenon DEF PulledSizes
    <2> QED
      BY <2>3, <2>4, <2>5
  <1>3. T \X Segids \subseteq Tables \X Segids
    OBVIOUS
  <1> QED
    BY <1>1, <1>2, <1>3, Zenon DEF RowShape

\* Loaded sizes are sizes of tables on segments.
LEMMA LoadedShape ==
  ASSUME DiskShape, RowShape(rows)
  PROVE  RowShape(LoadedSizes)
  <1>1. DOMAIN LoadedSizes = DOMAIN rows
    BY Zenon DEF LoadedSizes
  <1>2. ASSUME NEW p \in DOMAIN rows PROVE LoadedSizes[p] \in Nat
    <2>1. p \in Tables \X Segids /\ rows[p] \in Nat
      BY Zenon DEF RowShape
    <2>2. p[1] \in Tables
      BY <2>1
    <2>3. PICK b : b = disk[p[1]][-1] /\ b \in Nat
      BY <2>2, TotalNat, Zenon
    <2>4. LoadedSizes[p] = rows[p] + b \/ LoadedSizes[p] = rows[p]
      BY <2>3, Zenon DEF LoadedSizes
    <2> QED
      BY <2>1, <2>3, <2>4
  <1> QED
    BY <1>1, <1>2, Zenon DEF RowShape

\* So are the sizes that were counted before a segment's bad result.
LEMMA CountedShape ==
  ASSUME DiskShape, NEW T \in SUBSET Tables, NEW i \in Primaries,
         NEW sz, sz = [p \in T \X (0 .. i - 1) |-> disk[p[1]][p[2]]]
  PROVE  RowShape(sz)
  <1>1. 0 .. i - 1 \subseteq Segids
    BY ChunkAssumption DEF Primaries, Segids
  <1>2. DOMAIN sz = T \X (0 .. i - 1) /\ \A p \in T \X (0 .. i - 1) : sz[p] = disk[p[1]][p[2]]
    BY Zenon
  <1>3. PICK J : J = 0 .. i - 1
    BY Zenon
  <1>4. T \X J \subseteq Tables \X Segids
    BY <1>1, <1>3
  <1>5. ASSUME NEW p \in T \X J PROVE disk[p[1]][p[2]] \in Nat
    <2>1. p[1] \in Tables /\ p[2] \in Segids
      BY <1>4
    <2> QED
      BY <2>1 DEF DiskShape
  <1> QED
    BY <1>2, <1>3, <1>4, <1>5, Zenon DEF RowShape

\* update_size_for_quota keeps the quota records well formed.
LEMMA ChargedKeys ==
  ASSUME NEW q, QuotaRecords(q), KeyShape(q), NEW C, \A c \in C : c.seg \in Segids,
         NEW w, w = Charge(q, C)
  PROVE  QuotaRecords(w) /\ KeyShape(w)
  <1>2. /\ QuotaRecords(w)
        /\ \A e \in DOMAIN w : e \in DOMAIN q \/ \E c \in C : e = [key |-> c.key, segid |-> c.seg]
    BY ChargedRecords
  <1>3. ASSUME NEW e \in DOMAIN w PROVE e = [key |-> e.key, segid |-> e.segid] /\ e.segid \in Segids
    <2>1. CASE e \in DOMAIN q
      BY <2>1, Zenon DEF KeyShape
    <2>2. CASE \E c \in C : e = [key |-> c.key, segid |-> c.seg]
      <3>1. PICK c \in C : e = [key |-> c.key, segid |-> c.seg]
        BY <2>2, Zenon
      <3>2. e.key = c.key /\ e.segid = c.seg
        BY <3>1
      <3> QED
        BY <3>1, <3>2, Zenon
    <2> QED
      BY <1>2, <2>1, <2>2, Zenon
  <1> QED
    BY <1>2, <1>3, Zenon DEF KeyShape

\* A pass over sizes keeps the maps well formed.
LEMMA AppliedShape ==
  ASSUME MapShape, SizesNat, QuotaRecords(quota_info_map), KeyShape(quota_info_map),
         NEW sz, RowShape(sz), ApplySizes(sz)
  PROVE  MapShape' /\ SizesNat' /\ QuotaRecords(quota_info_map)' /\ KeyShape(quota_info_map)'
  <1>1. DOMAIN sz \subseteq Tables \X Segids /\ \A p \in DOMAIN sz : sz[p] \in Nat
    BY Zenon DEF RowShape
  <1>2. MapShape'
    BY <1>1, Applied, Zenon
  <1>3. SizesNat'
    <2> SUFFICES ASSUME NEW e \in DOMAIN table_size_map', NEW s \in SegidsOf(e[2])
                 PROVE  table_size_map'[e].size[s] \in Nat
      BY Zenon DEF SizesNat
    <2>1. table_size_map'[e].size[s] =
             IF <<e[1], s>> \in DOMAIN sz THEN sz[<<e[1], s>>]
             ELSE IF e \in DOMAIN table_size_map THEN table_size_map[e].size[s] ELSE 0
      BY <1>1, Applied, Zenon
    <2>2. 0 \in Nat
      OBVIOUS
    <2> QED
      BY <1>1, <2>1, <2>2, Zenon DEF SizesNat
  <1>4. PICK m : quota_info_map' = Charge(quota_info_map, SizeCharges(m, sz))
    BY Zenon DEF ApplySizes
  <1>5. ASSUME NEW c \in SizeCharges(m, sz) PROVE c.seg \in Segids
    <2>1. PICK k, s : k = c.key /\ s = c.seg
      BY Zenon
    <2>2. <<c.t, s>> \in DOMAIN sz
      BY <1>1, <2>1, SizeChargesOf
    <2> QED
      BY <1>1, <2>1, <2>2
  <1>6. PICK q, C, w : q = quota_info_map /\ C = SizeCharges(m, sz) /\ w = quota_info_map'
    BY Zenon
  <1>7. QuotaRecords(w) /\ KeyShape(w)
    BY <1>4, <1>5, <1>6, ChargedKeys, Zenon
  <1> QED
    BY <1>2, <1>3, <1>6, <1>7, Zenon DEF QuotaRecords, KeyShape

\* So does the pass over all tables.
LEMMA TrackedShape ==
  ASSUME MapShape, SizesNat, QuotaRecords(quota_info_map), KeyShape(quota_info_map), Track
  PROVE  MapShape' /\ SizesNat' /\ QuotaRecords(quota_info_map)' /\ KeyShape(quota_info_map)'
  <1>1. MapShape'
    BY Tracked, Zenon
  <1>2. SizesNat'
    <2> SUFFICES ASSUME NEW e \in DOMAIN table_size_map', NEW s \in SegidsOf(e[2])
                 PROVE  table_size_map'[e].size[s] \in Nat
      BY Zenon DEF SizesNat
    <2>1. table_size_map'[e].size[s] =
             IF e \in DOMAIN table_size_map THEN table_size_map[e].size[s] ELSE 0
      BY Tracked, Zenon
    <2>2. 0 \in Nat
      OBVIOUS
    <2> QED
      BY <2>1, <2>2, Zenon DEF SizesNat
  <1> DEFINE missing == (UNION {EntriesOf(t) : t \in LiveTables}) \ DOMAIN table_size_map
             A(e) == catalog[e[1]].attr
             Moved(m, F) == UNION {TransferCharges(m, e, A(e)) : e \in F}
             Gone(m, F) == UNION {RemovalCharges(m, e) : e \in DOMAIN m \ F}
             n(E) == WithEntries(table_size_map, E)
             reached(E, e) == Live(e[1]) /\ \A id \in EntryIds : id <= e[2] => <<e[1], id>> \in DOMAIN n(E)
             found(E) == {e \in DOMAIN n(E) : reached(E, e)}
  <1>0. PICK E \in Admitted(missing) :
          /\ table_size_map' =
              [e \in DOMAIN n(E) |->
                  IF e \in found(E) THEN [n(E)[e] EXCEPT !.attr = A(e), !.exist = TRUE,
                                                         !.flush = IF inited THEN @ ELSE {}]
                  ELSE [n(E)[e] EXCEPT !.exist = FALSE]]
          /\ quota_info_map' =
               Charge(quota_info_map, (UNION {TransferCharges(n(E), e, A(e)) : e \in found(E)})
                                        \cup UNION {RemovalCharges(n(E), e) : e \in DOMAIN n(E) \ found(E)})
    BY Zenon DEF Track
  <1>a. DOMAIN table_size_map' = DOMAIN n(E)
    BY <1>0, Zenon
  <1>b. PICK m, F : m = n(E) /\ F = found(E)
    BY Zenon
  <1>3. /\ DOMAIN m = DOMAIN table_size_map' /\ F \subseteq DOMAIN m
        /\ quota_info_map' = Charge(quota_info_map, Moved(m, F) \cup Gone(m, F))
    BY <1>0, <1>a, <1>b, Zenon
  <1> HIDE DEF n, found
  <1>4. \A e \in DOMAIN m : e[2] \in EntryIds
    BY <1>1, <1>3 DEF MapShape
  <1>5. ASSUME NEW c \in Moved(m, F) \cup Gone(m, F) PROVE c.seg \in Segids
    <2>1. PICK k, s : k = c.key /\ s = c.seg
      BY Zenon
    <2>2. CASE \E e \in F : c \in TransferCharges(m, e, A(e))
      <3>1. PICK e \in F : c \in TransferCharges(m, e, A(e))
        BY <2>2, Zenon
      <3>2. PICK a, K, L : a = A(e) /\ K = KeyOf(k.type, m[e].attr) /\ L = KeyOf(k.type, A(e))
        BY Zenon
      <3>3. TransferChargesAre(m, e, a, k, s, K, L)
        BY <3>2, TransferChargesOf, Zenon
      <3>4. s \in SegidsOf(e[2])
        BY <2>1, <3>1, <3>2, <3>3, Zenon DEF TransferChargesAre
      <3> QED
        BY <1>3, <1>4, <2>1, <3>1, <3>4, Chunks, Zenon
    <2>3. CASE \E e \in DOMAIN m \ F : c \in RemovalCharges(m, e)
      <3>1. PICK e \in DOMAIN m \ F : c \in RemovalCharges(m, e)
        BY <2>3, Zenon
      <3>2. RemovalChargesAre(m, e, k, s)
        BY RemovalChargesOf, Zenon
      <3>3. s \in SegidsOf(e[2])
        BY <2>1, <3>1, <3>2, Zenon DEF RemovalChargesAre
      <3> QED
        BY <1>4, <2>1, <3>1, <3>3, Chunks, Zenon
    <2> QED
      BY <2>2, <2>3, Zenon
  <1>6. PICK q, C, w : q = quota_info_map /\ C = Moved(m, F) \cup Gone(m, F) /\ w = quota_info_map'
    BY Zenon
  <1>7. QuotaRecords(w) /\ KeyShape(w)
    <2>1. \A c \in C : c.seg \in Segids
      BY <1>5, <1>6, Zenon
    <2>2. w = Charge(q, C) /\ QuotaRecords(q) /\ KeyShape(q)
      BY <1>3, <1>6, Zenon
    <2> QED
      BY <2>1, <2>2, ChargedKeys, Zenon
  <1> QED
    BY <1>1, <1>2, <1>6, <1>7, Zenon DEF QuotaRecords, KeyShape

\* Flushing forgets dropped tables and the marks, and nothing else.
LEMMA FlushedRecords ==
  ASSUME MapShape, NEW n, n = Flushed(table_size_map)
  PROVE  /\ n = [e \in DOMAIN n |-> n[e]]
         /\ DOMAIN n = {e \in DOMAIN table_size_map : table_size_map[e].exist}
         /\ \A e \in DOMAIN n :
               /\ EntryShape(n[e], e[2])
               /\ n[e].attr = table_size_map[e].attr /\ n[e].size = table_size_map[e].size
               /\ n[e].flush = {} /\ n[e].exist = table_size_map[e].exist
  <1>1. /\ n = [e \in DOMAIN n |-> n[e]]
        /\ DOMAIN n = {e \in DOMAIN table_size_map : table_size_map[e].exist}
        /\ \A e \in DOMAIN n : n[e] = [table_size_map[e] EXCEPT !.flush = {}]
    BY Zenon DEF Flushed
  <1>2. ASSUME NEW e \in DOMAIN n
        PROVE  /\ EntryShape(n[e], e[2])
               /\ n[e].attr = table_size_map[e].attr /\ n[e].size = table_size_map[e].size
               /\ n[e].flush = {} /\ n[e].exist = table_size_map[e].exist
    <2>1. PICK r, w, z : r = table_size_map[e] /\ w = n[e] /\ z = {}
      BY Zenon
    <2>2. EntryShape(r, e[2])
      BY <1>1, <2>1, Zenon DEF MapShape
    <2>3. w = [r EXCEPT !.flush = z]
      BY <1>1, <2>1, Zenon
    <2>4. w = [attr |-> r.attr, size |-> r.size, flush |-> z, exist |-> r.exist]
      BY <2>2, <2>3, Rebuilt, Zenon DEF EntryShape
    <2>5. w.attr = r.attr /\ w.size = r.size /\ w.flush = z /\ w.exist = r.exist
      BY <2>4
    <2>6. EntryShape(w, e[2])
      BY <2>2, <2>4, <2>5, Zenon DEF EntryShape
    <2> QED
      BY <2>1, <2>5, <2>6, Zenon
  <1> QED
    BY <1>1, <1>2, Zenon

\* Marking all records as dropped changes no size and no attribute.
LEMMA UnmarkedRecords ==
  ASSUME MapShape,
         NEW n, n = [e \in DOMAIN table_size_map |-> [table_size_map[e] EXCEPT !.exist = FALSE]]
  PROVE  /\ n = [e \in DOMAIN n |-> n[e]]
         /\ DOMAIN n = DOMAIN table_size_map
         /\ \A e \in DOMAIN n :
               /\ EntryShape(n[e], e[2])
               /\ n[e].attr = table_size_map[e].attr /\ n[e].size = table_size_map[e].size
  <1>1. /\ n = [e \in DOMAIN n |-> n[e]]
        /\ DOMAIN n = DOMAIN table_size_map
        /\ \A e \in DOMAIN n : n[e] = [table_size_map[e] EXCEPT !.exist = FALSE]
    BY Zenon
  <1>2. ASSUME NEW e \in DOMAIN n
        PROVE  /\ EntryShape(n[e], e[2])
               /\ n[e].attr = table_size_map[e].attr /\ n[e].size = table_size_map[e].size
    <2>1. PICK r, w, z : r = table_size_map[e] /\ w = n[e] /\ z = FALSE
      BY Zenon
    <2>2. EntryShape(r, e[2])
      BY <1>1, <2>1, Zenon DEF MapShape
    <2>3. w = [r EXCEPT !.exist = z]
      BY <1>1, <2>1, Zenon
    <2>4. w = [attr |-> r.attr, size |-> r.size, flush |-> r.flush, exist |-> z]
      BY <2>2, <2>3, Rebuilt, Zenon DEF EntryShape
    <2>5. w.attr = r.attr /\ w.size = r.size /\ w.flush = r.flush /\ w.exist = z
      BY <2>4
    <2>6. EntryShape(w, e[2])
      BY <2>2, <2>4, <2>5, Zenon DEF EntryShape
    <2> QED
      BY <2>1, <2>5, <2>6, Zenon
  <1> QED
    BY <1>1, <1>2, Zenon

\* A recorded size is a size.
LEMMA RecordedNat ==
  ASSUME SizesNat, NEW t, NEW s \in Segids
  PROVE  RecordedSize(table_size_map, t, s) \in Nat
  <1> DEFINE e == <<t, TableSizeEntryId(s)>>
  <1>1. e[2] = TableSizeEntryId(s) /\ s \in SegidsOf(e[2])
    BY Chunks
  <1>2. e \in DOMAIN table_size_map => table_size_map[e].size[s] \in Nat
    BY <1>1, Zenon DEF SizesNat
  <1>3. 0 \in Nat
    OBVIOUS
  <1> QED
    BY <1>2, <1>3, Zenon DEF RecordedSize

\* The rows that flush_to_table_size writes are sizes of tables on segments.
LEMMA FlushedRowsShape ==
  ASSUME SizesNat, RowShape(txRows), NEW r, r = FlushedRows(table_size_map, txRows)
  PROVE  RowShape(r)
  <1> DEFINE gone == {p \in Tables \X Segids : LET e == <<p[1], TableSizeEntryId(p[2])>> IN
                                             e \in DOMAIN table_size_map /\ ~table_size_map[e].exist}
             new == {p \in Tables \X Segids : LET e == <<p[1], TableSizeEntryId(p[2])>> IN
                                             /\ e \in DOMAIN table_size_map /\ table_size_map[e].exist
                                             /\ p[2] \in table_size_map[e].flush}
  <1>1. r = [p \in (DOMAIN txRows \ gone) \cup new |->
               IF p \in new THEN RecordedSize(table_size_map, p[1], p[2]) ELSE txRows[p]]
    BY Zenon DEF FlushedRows
  <1>2. new \subseteq Tables \X Segids
    BY Zenon
  <1> HIDE DEF gone, new
  <1>3. DOMAIN r \subseteq Tables \X Segids
    BY <1>1, <1>2, Zenon DEF RowShape
  <1>4. ASSUME NEW p \in DOMAIN r PROVE r[p] \in Nat
    <2>1. CASE p \in new
      <3>1. p[2] \in Segids
        BY <1>2, <2>1
      <3>2. PICK t, s : t = p[1] /\ s = p[2]
        BY Zenon
      <3>3. RecordedSize(table_size_map, t, s) \in Nat
        BY <3>1, <3>2, RecordedNat, Zenon
      <3> QED
        BY <1>1, <2>1, <3>2, <3>3, Zenon
    <2>2. CASE p \notin new
      BY <1>1, <2>2, Zenon DEF RowShape
    <2> QED
      BY <2>1, <2>2, Zenon
  <1> QED
    BY <1>3, <1>4, Zenon DEF RowShape

\* load_quotas keeps the usage of every quota and adds records without usage.
LEMMA LoadedQuotas ==
  ASSUME QuotaRecords(quota_info_map), KeyShape(quota_info_map),
         NEW w, w = LoadedLimits(quota_info_map)
  PROVE  /\ QuotaRecords(w) /\ KeyShape(w)
         /\ \A k, s : UsageOf(w, k, s) = UsageOf(quota_info_map, k, s)
  <1> DEFINE K == {k \in DOMAIN config : KeyExists(k)}
             Es == {[key |-> k, segid |-> s] : k \in K, s \in Segids}
             q == quota_info_map
             z(e) == IF e \in DOMAIN q THEN q[e].size ELSE 0
             l(e) == IF e \in Es THEN LimitFor(config[e.key], e.segid) ELSE -1
  <1>1. w = [e \in DOMAIN q \cup Es |-> [size |-> z(e), limit |-> l(e)]]
    BY DEF LoadedLimits
  <1>2. \A e \in Es : e = [key |-> e.key, segid |-> e.segid] /\ e.segid \in Segids
    <2> HIDE DEF K
    <2> QED
      OBVIOUS
  <1> HIDE DEF Es, l, z
  <1>3. DOMAIN w = DOMAIN q \cup Es /\ \A e \in DOMAIN w : w[e] = [size |-> z(e), limit |-> l(e)]
    BY <1>1, Zenon
  <1>4. \A e \in DOMAIN w : w[e].size = z(e) /\ w[e].limit = l(e)
    <2> SUFFICES ASSUME NEW e \in DOMAIN w PROVE w[e].size = z(e) /\ w[e].limit = l(e)
      BY Zenon
    <2>1. w[e] = [size |-> z(e), limit |-> l(e)]
      BY <1>3, Zenon
    <2> QED
      BY <2>1
  <1>5. QuotaRecords(w)
    BY <1>3, <1>4, Zenon DEF QuotaRecords
  <1>6. KeyShape(w)
    BY <1>2, <1>3, Zenon DEF KeyShape
  <1>7. ASSUME NEW k, NEW s PROVE UsageOf(w, k, s) = UsageOf(q, k, s)
    BY <1>3, <1>4, Zenon DEF UsageOf, z
  <1> QED
    BY <1>5, <1>6, <1>7, Zenon

\* So does clean_all_quota_limit.
LEMMA CleanedQuotas ==
  ASSUME QuotaRecords(quota_info_map), KeyShape(quota_info_map),
         NEW w, w = [e \in DOMAIN quota_info_map |-> [quota_info_map[e] EXCEPT !.limit = -1]]
  PROVE  /\ QuotaRecords(w) /\ KeyShape(w)
         /\ \A k, s : UsageOf(w, k, s) = UsageOf(quota_info_map, k, s)
  <1> DEFINE q == quota_info_map
  <1>1. DOMAIN w = DOMAIN q
    BY Zenon
  <1>2. ASSUME NEW e \in DOMAIN w
        PROVE  w[e] = [size |-> w[e].size, limit |-> w[e].limit] /\ w[e].size = q[e].size
    <2>1. PICK o, v : o = q[e] /\ v = w[e]
      BY Zenon
    <2>2. o = [size |-> o.size, limit |-> o.limit] /\ v = [o EXCEPT !.limit = -1]
      BY <1>1, <2>1, Zenon DEF QuotaRecords
    <2>3. v = [size |-> o.size, limit |-> -1]
      BY <2>2
    <2>4. v.size = o.size /\ v.limit = -1
      BY <2>3
    <2> QED
      BY <2>1, <2>3, <2>4, Zenon
  <1>3. ASSUME NEW k, NEW s PROVE UsageOf(w, k, s) = UsageOf(q, k, s)
    <2>1. PICK x : x = [key |-> k, segid |-> s]
      BY Zenon
    <2>2. CASE x \in DOMAIN w
      <3>1. w[x].size = q[x].size
        BY <1>2, <2>2, Zenon
      <3> QED
        BY <1>1, <2>1, <2>2, <3>1, Zenon DEF UsageOf
    <2>3. CASE x \notin DOMAIN w
      BY <1>1, <2>1, <2>3, Zenon DEF UsageOf
    <2> QED
      BY <2>2, <2>3, Zenon
  <1> QED
    BY <1>1, <1>2, <1>3, Zenon DEF QuotaRecords, KeyShape

\* What a session does to the files and to the list of active tables.
LEMMA SessionShape ==
  ASSUME DiskShape, dirty \subseteq Tables, Session
  PROVE  DiskShape' /\ dirty' \subseteq Tables
  <1>1. CASE UNCHANGED disk
    <2>1. DiskShape'
      BY <1>1, Zenon DEF DiskShape
    <2>2. dirty' \subseteq Tables
      BY Zenon DEF Session, CreateTable, AlterTable, Write, DropTable, DropObject, SetQuota, DeleteQuota
    <2> QED
      BY <2>1, <2>2, Zenon
  <1>2. ASSUME NEW t \in Tables, NEW f \in [Segids -> Nat], f[-1] = MasterSize \/ f[-1] = 0,
               disk' = [disk EXCEPT ![t] = f]
        PROVE  DiskShape'
    BY <1>2 DEF DiskShape
  <1>3. NoFiles \in [Segids -> Nat] /\ NoFiles[-1] = 0 /\ -1 \in Segids
    BY Chunks DEF NoFiles
  <1>4. ASSUME NEW t \in Tables, NEW a \in Attrs, CreateTable(t, a) PROVE DiskShape' /\ dirty' \subseteq Tables
    <2>1. PICK f : f = [NoFiles EXCEPT ![-1] = MasterSize]
      BY Zenon
    <2>2. f \in [Segids -> Nat] /\ f[-1] = MasterSize
      BY <1>3, <2>1, QuotaAssumption
    <2>3. disk' = [disk EXCEPT ![t] = f] /\ dirty' = dirty \cup {t}
      BY <1>4, <2>1, Zenon DEF CreateTable
    <2> QED
      BY <1>2, <2>2, <2>3, Zenon
  <1>5. ASSUME NEW t \in Tables, NEW s \in Primaries, NEW n \in 0 .. MaxSize, Write(t, s, n)
        PROVE  DiskShape' /\ dirty' \subseteq Tables
    <2>1. disk[t] \in [Segids -> Nat] /\ (disk[t][-1] = MasterSize \/ disk[t][-1] = 0)
      BY DEF DiskShape
    <2>2. s \in Segids /\ s # -1 /\ n \in Nat
      BY ChunkAssumption, QuotaAssumption DEF Primaries, Segids
    <2>3. PICK f : f = [disk[t] EXCEPT ![s] = n]
      BY Zenon
    <2>4. f \in [Segids -> Nat] /\ (f[-1] = MasterSize \/ f[-1] = 0)
      BY <1>3, <2>1, <2>2, <2>3
    <2>5. disk' = [disk EXCEPT ![t] = f] /\ dirty' = dirty \cup {t}
      BY <1>5, <2>3, Zenon DEF Write
    <2> QED
      BY <1>2, <2>4, <2>5, Zenon
  <1>6. ASSUME NEW t \in Tables, DropTable(t) PROVE DiskShape' /\ dirty' \subseteq Tables
    BY <1>2, <1>3, <1>6, Zenon DEF DropTable
  <1> QED
    BY <1>1, <1>4, <1>5, <1>6, Zenon DEF Session, AlterTable, DropObject, SetQuota, DeleteQuota

\* The shapes depend on one variable each.
LEMMA ShapeFrames ==
  /\ DiskShape /\ UNCHANGED disk => DiskShape'
  /\ MapShape /\ SizesNat /\ UNCHANGED table_size_map => MapShape' /\ SizesNat'
  /\ QuotaRecords(quota_info_map) /\ KeyShape(quota_info_map) /\ UNCHANGED quota_info_map =>
        QuotaRecords(quota_info_map)' /\ KeyShape(quota_info_map)'
  /\ RowShape(rows) /\ UNCHANGED rows => RowShape(rows)'
  /\ \A r : RowShape(r) /\ txRows' = r => RowShape(txRows)'
  <1>1. DiskShape /\ UNCHANGED disk => DiskShape'
    BY Zenon DEF DiskShape
  <1>2. MapShape /\ SizesNat /\ UNCHANGED table_size_map => MapShape' /\ SizesNat'
    BY Zenon DEF MapShape, SizesNat
  <1>3. QuotaRecords(quota_info_map) /\ KeyShape(quota_info_map) /\ UNCHANGED quota_info_map =>
           QuotaRecords(quota_info_map)' /\ KeyShape(quota_info_map)'
    BY Zenon DEF QuotaRecords, KeyShape
  <1>4. RowShape(rows) /\ UNCHANGED rows => RowShape(rows)'
    BY Zenon DEF RowShape
  <1>5. \A r : RowShape(r) /\ txRows' = r => RowShape(txRows)'
    BY Zenon DEF RowShape
  <1> QED
    BY <1>1, <1>2, <1>3, <1>4, <1>5, Zenon

\* Empty maps have their shape.
LEMMA EmptyShape ==
  /\ DOMAIN Empty = {} /\ QuotaRecords(Empty) /\ KeyShape(Empty)
  /\ table_size_map = Empty => MapShape /\ SizesNat
  <1>1. DOMAIN Empty = {} /\ Empty = [e \in DOMAIN Empty |-> Empty[e]]
    BY DEF Empty
  <1> QED
    BY <1>1, Zenon DEF QuotaRecords, KeyShape, MapShape, SizesNat

\* The maps after flushing, or after all records have been marked as dropped.
LEMMA ResetShape ==
  ASSUME MapShape, SizesNat,
         \/ table_size_map' = Flushed(table_size_map)
         \/ table_size_map' = [e \in DOMAIN table_size_map |-> [table_size_map[e] EXCEPT !.exist = FALSE]]
  PROVE  MapShape' /\ SizesNat'
  <1>1. PICK n : n = table_size_map'
    BY Zenon
  <1>2. /\ n = [e \in DOMAIN n |-> n[e]] /\ DOMAIN n \subseteq DOMAIN table_size_map
        /\ \A e \in DOMAIN n : EntryShape(n[e], e[2]) /\ n[e].size = table_size_map[e].size
    <2>1. CASE table_size_map' = Flushed(table_size_map)
      <3>1. n = Flushed(table_size_map)
        BY <1>1, <2>1, Zenon
      <3>2. /\ n = [e \in DOMAIN n |-> n[e]]
            /\ DOMAIN n = {e \in DOMAIN table_size_map : table_size_map[e].exist}
            /\ \A e \in DOMAIN n : EntryShape(n[e], e[2]) /\ n[e].size = table_size_map[e].size
        BY <3>1, FlushedRecords
      <3> QED
        BY <3>2, Zenon
    <2>2. CASE table_size_map' = [e \in DOMAIN table_size_map |-> [table_size_map[e] EXCEPT !.exist = FALSE]]
      BY <1>1, <2>2, UnmarkedRecords, Zenon
    <2> QED
      BY <2>1, <2>2, Zenon
  <1> QED
    BY <1>1, <1>2, Zenon DEF MapShape, SizesNat

\* No step leaves the shapes.
LEMMA ShapeNext == Shape /\ [Next]_vars => Shape'
  <1> SUFFICES ASSUME Shape, [Next]_vars PROVE Shape'
    BY Zenon
  <1> USE DEF sessionVars, modelVars, rejectVars, rowVars
  <1>0. /\ failures \in Nat /\ DiskShape /\ dirty \subseteq Tables /\ active \subseteq Tables
        /\ MapShape /\ SizesNat /\ QuotaRecords(quota_info_map) /\ KeyShape(quota_info_map)
        /\ RowShape(rows) /\ RowShape(txRows) /\ (pc = "size" => inited)
        /\ (Unloaded => table_size_map = Empty)
    BY Zenon DEF Shape
  <1>1. ASSUME MapShape', SizesNat', QuotaRecords(quota_info_map)', KeyShape(quota_info_map)',
               DiskShape', RowShape(rows)', RowShape(txRows)', failures' \in Nat, dirty' \subseteq Tables,
               active' \subseteq Tables, pc' = "size" => inited', Unloaded' => table_size_map' = Empty
        PROVE  Shape'
    BY <1>1, Zenon DEF Shape
  <1>2. CASE Session
    <2>1. UNCHANGED <<modelVars, inited, rowVars, pc, active, failures>>
      BY <1>2, Zenon DEF Session, CreateTable, AlterTable, Write, DropTable, DropObject,
         SetQuota, DeleteQuota, Change
    <2>2. DiskShape' /\ dirty' \subseteq Tables
      BY <1>0, <1>2, SessionShape, Zenon
    <2> QED
      BY <1>0, <1>1, <2>1, <2>2, ShapeFrames, Zenon DEF Unloaded
  <1>3. CASE LoadQuotas
    <2>1. /\ UNCHANGED <<disk, table_size_map, dirty, inited, rowVars, active, failures>>
          /\ pc = "idle" /\ pc' = "list" /\ quota_info_map' = LoadedLimits(quota_info_map)
      BY <1>3, Zenon DEF LoadQuotas
    <2>2. PICK w : w = quota_info_map'
      BY Zenon
    <2>3. QuotaRecords(w) /\ KeyShape(w)
      BY <1>0, <2>1, <2>2, LoadedQuotas, Zenon
    <2>4. QuotaRecords(quota_info_map)' /\ KeyShape(quota_info_map)'
      BY <2>2, <2>3, Zenon DEF QuotaRecords, KeyShape
    <2> QED
      BY <1>0, <1>1, <2>1, <2>4, ShapeFrames, Zenon DEF Unloaded
  <1>4. CASE LoadTableSize
    <2>1. /\ UNCHANGED <<disk, dirty, inited, rowVars, failures>> /\ pc' = "track" /\ ApplySizes(LoadedSizes)
          /\ active' = {p[1] : p \in DOMAIN rows}
      BY <1>4, Zenon DEF LoadTableSize
    <2>2. \A p \in DOMAIN rows : p[1] \in Tables
      BY <1>0 DEF RowShape
    <2>3. RowShape(LoadedSizes)
      BY <1>0, LoadedShape, Zenon
    <2>4. MapShape' /\ SizesNat' /\ QuotaRecords(quota_info_map)' /\ KeyShape(quota_info_map)'
      BY <1>0, <2>1, <2>3, AppliedShape, Zenon
    <2> QED
      BY <1>0, <1>1, <2>1, <2>2, <2>4, ShapeFrames, Zenon DEF Unloaded
  <1>5. CASE PullActiveList
    <2>1. /\ UNCHANGED <<disk, modelVars, inited, rowVars, failures>>
          /\ inited /\ pc' = "size" /\ active' = dirty /\ dirty' = {}
      BY <1>5, Zenon DEF PullActiveList
    <2> QED
      BY <1>0, <1>1, <2>1, ShapeFrames, Zenon DEF Unloaded
  <1>6. CASE PullSizes
    <2>1. /\ UNCHANGED <<disk, dirty, inited, rowVars, active, failures>> /\ pc' = "track"
          /\ ApplySizes(PulledSizes(active))
      BY <1>6, Zenon DEF PullSizes
    <2>3. RowShape(PulledSizes(active))
      BY <1>0, PulledShape, Zenon
    <2>4. MapShape' /\ SizesNat' /\ QuotaRecords(quota_info_map)' /\ KeyShape(quota_info_map)'
      BY <1>0, <2>1, <2>3, AppliedShape, Zenon
    <2> QED
      BY <1>0, <1>1, <2>1, <2>4, ShapeFrames, Zenon DEF Unloaded
  <1>7. CASE Track
    <2>1. /\ UNCHANGED <<disk, dirty, inited, rowVars, active, failures>> /\ pc' = "refresh"
      BY <1>7, Zenon DEF Track
    <2>4. MapShape' /\ SizesNat' /\ QuotaRecords(quota_info_map)' /\ KeyShape(quota_info_map)'
      BY <1>0, <1>7, TrackedShape, Zenon
    <2> QED
      BY <1>0, <1>1, <2>1, <2>4, ShapeFrames, Zenon DEF Unloaded
  <1>8. CASE RefreshQuotaInfoMap
    <2>1. /\ UNCHANGED <<disk, dirty, table_size_map, inited, rowVars, active, failures>> /\ pc' = "flush"
          /\ \E S : quota_info_map' = Remove(quota_info_map, S)
      BY <1>8, Zenon DEF RefreshQuotaInfoMap
    <2>2. QuotaRecords(quota_info_map)' /\ KeyShape(quota_info_map)'
      BY <1>0, <2>1, Zenon DEF Remove, QuotaRecords, KeyShape
    <2> QED
      BY <1>0, <1>1, <2>1, <2>2, ShapeFrames, Zenon DEF Unloaded
  <1>9. CASE FlushToTableSize
    <2>1. /\ UNCHANGED <<disk, dirty, quota_info_map, inited, rows, active, failures>> /\ pc' = "reject"
          /\ table_size_map' = Flushed(table_size_map) /\ txRows' = FlushedRows(table_size_map, txRows)
      BY <1>9, Zenon DEF FlushToTableSize
    <2>2. MapShape' /\ SizesNat'
      BY <1>0, <2>1, ResetShape, Zenon
    <2>3. PICK r : r = FlushedRows(table_size_map, txRows)
      BY Zenon
    <2>4. RowShape(txRows)'
      BY <1>0, <2>1, <2>3, FlushedRowsShape, ShapeFrames, Zenon
    <2> QED
      BY <1>0, <1>1, <2>1, <2>2, <2>4, ShapeFrames, Zenon DEF Unloaded
  <1>10. CASE FlushLocalRejectMap
    <2>1. UNCHANGED <<disk, dirty, modelVars, inited, rowVars, active, failures>> /\ pc' = "dispatch"
      BY <1>10, Zenon DEF FlushLocalRejectMap
    <2> QED
      BY <1>0, <1>1, <2>1, ShapeFrames, Zenon DEF Unloaded
  <1>11. CASE DispatchRejectmap
    <2>1. /\ UNCHANGED <<disk, dirty, modelVars, txRows, failures>>
          /\ rows' = txRows /\ inited' = TRUE /\ active' = {} /\ pc' = "idle"
      BY <1>11, Zenon DEF DispatchRejectmap
    <2>2. RowShape(rows)'
      BY <1>0, <2>1, Zenon DEF RowShape
    <2> QED
      BY <1>0, <1>1, <2>1, <2>2, ShapeFrames, Zenon DEF Unloaded
  <1>12. CASE Failure /\ ~Restart
    <2>1. RoundFails
      BY <1>12, Zenon DEF Failure, LoadQuotasFails, FetchFails, PullSizesFails, TrackFails, FlushFails,
         DispatchFails
    <2>2. /\ failures' = failures + 1 /\ pc' = "idle" /\ inited' = TRUE /\ txRows' = rows /\ active' = {}
          /\ UNCHANGED <<disk, rows>>
      BY <2>1, Zenon DEF RoundFails
    <2>3. failures' \in Nat
      BY <1>0, <2>2, FailuresCounted, Zenon
    <2>4. ASSUME MapShape', SizesNat', QuotaRecords(quota_info_map)', KeyShape(quota_info_map)',
                 dirty' \subseteq Tables
          PROVE  Shape'
      BY <1>0, <1>1, <2>2, <2>3, <2>4, ShapeFrames, Zenon DEF Unloaded
    <2>5. CASE LoadQuotasFails
      <3>1. /\ UNCHANGED <<dirty, table_size_map>>
            /\ quota_info_map' = [e \in DOMAIN quota_info_map |-> [quota_info_map[e] EXCEPT !.limit = -1]]
        BY <2>5, Zenon DEF LoadQuotasFails
      <3>2. PICK w : w = quota_info_map'
        BY Zenon
      <3>3. QuotaRecords(w) /\ KeyShape(w)
        BY <1>0, <3>1, <3>2, CleanedQuotas, Zenon
      <3>4. QuotaRecords(quota_info_map)' /\ KeyShape(quota_info_map)'
        BY <3>2, <3>3, Zenon DEF QuotaRecords, KeyShape
      <3> QED
        BY <1>0, <2>4, <3>1, <3>4, ShapeFrames, Zenon
    <2>6. CASE FetchFails
      <3>1. UNCHANGED modelVars /\ dirty' \subseteq dirty
        BY <2>6, Zenon DEF FetchFails
      <3> QED
        BY <1>0, <2>4, <3>1, ShapeFrames, Zenon
    <2>7. CASE PullSizesFails
      <3>1. PICK i \in Primaries : ApplySizes([p \in active \X (0 .. i - 1) |-> disk[p[1]][p[2]]])
        BY <2>7, Zenon DEF PullSizesFails
      <3>2. PICK sz : sz = [p \in active \X (0 .. i - 1) |-> disk[p[1]][p[2]]]
        BY Zenon
      <3>3. RowShape(sz) /\ ApplySizes(sz) /\ UNCHANGED dirty
        BY <1>0, <2>7, <3>1, <3>2, CountedShape, Zenon DEF PullSizesFails
      <3>4. MapShape' /\ SizesNat' /\ QuotaRecords(quota_info_map)' /\ KeyShape(quota_info_map)'
        BY <1>0, <3>3, AppliedShape, Zenon
      <3> QED
        BY <1>0, <2>4, <3>3, <3>4, Zenon
    <2>8. CASE TrackFails \/ FlushFails
      <3>1. UNCHANGED <<dirty, quota_info_map>> /\ MapShape' /\ SizesNat'
        BY <1>0, <2>8, ResetShape, Zenon DEF TrackFails, FlushFails
      <3> QED
        BY <1>0, <2>4, <3>1, ShapeFrames, Zenon
    <2>9. CASE DispatchFails
      <3>1. UNCHANGED <<dirty, modelVars>>
        BY <2>9, Zenon DEF DispatchFails
      <3> QED
        BY <1>0, <2>4, <3>1, ShapeFrames, Zenon
    <2> QED
      BY <1>12, <2>5, <2>6, <2>7, <2>8, <2>9, Zenon DEF Failure
  <1>13. CASE Restart
    <2>1. /\ failures' = failures + 1 /\ dirty' = {} /\ active' = {} /\ table_size_map' = Empty
          /\ quota_info_map' = Empty /\ txRows' = rows /\ pc' = "idle" /\ UNCHANGED <<disk, rows>>
      BY <1>13, Zenon DEF Restart
    <2>2. failures' \in Nat
      BY <1>0, <2>1, FailuresCounted, Zenon
    <2>3. MapShape' /\ SizesNat' /\ QuotaRecords(quota_info_map)' /\ KeyShape(quota_info_map)'
      BY <2>1, EmptyShape, Zenon DEF QuotaRecords, KeyShape, MapShape, SizesNat, Empty
    <2> QED
      BY <1>0, <1>1, <2>1, <2>2, <2>3, ShapeFrames, Zenon DEF Unloaded
  <1>14. CASE UNCHANGED vars
    BY <1>0, <1>1, <1>14, ShapeFrames, Zenon DEF vars, Unloaded
  <1> QED
    BY <1>2, <1>3, <1>4, <1>5, <1>6, <1>7, <1>8, <1>9, <1>10, <1>11, <1>12, <1>13, <1>14, Zenon
       DEF Next, Round, Failure

\* Shape is an invariant.
LEMMA ShapeAlways == Spec => []Shape
  <1>1. Init => Shape
    <2> SUFFICES ASSUME Init PROVE Shape
      BY Zenon
    <2>1. /\ failures = 0 /\ dirty = {} /\ active = {} /\ table_size_map = Empty
          /\ quota_info_map = Empty /\ txRows = rows /\ pc = "idle"
      BY Zenon DEF Init
    <2>2. PICK T \in SUBSET Tables :
            /\ disk = [t \in Tables |-> [s \in Segids |->
                          IF t \notin T THEN 0 ELSE IF s = -1 THEN MasterSize ELSE MaxSize]]
            /\ rows = PulledSizes(T)
      BY Zenon DEF Init
    <2>3. DiskShape
      <3>1. ASSUME NEW t \in Tables, NEW s \in Segids PROVE disk[t][s] \in Nat
        BY <2>2, QuotaAssumption
      <3>2. ASSUME NEW t \in Tables PROVE disk[t][-1] = MasterSize \/ disk[t][-1] = 0
        BY <2>2, Chunks, Zenon
      <3>3. disk = [t \in Tables |-> [s \in Segids |-> disk[t][s]]]
        BY <2>2
      <3> QED
        BY <3>1, <3>2, <3>3 DEF DiskShape
    <2>4. RowShape(rows) /\ RowShape(txRows)
      BY <2>1, <2>2, <2>3, PulledShape, Zenon
    <2>5. failures \in Nat
      BY <2>1
    <2> QED
      BY <2>1, <2>3, <2>4, <2>5, EmptyShape, Zenon DEF Shape
  <1> QED
    BY <1>1, ShapeNext, PTL DEF Spec

\* A map that was full is remembered.
LEMMA FullStays == [Next]_vars /\ ~full' => ~full
  <1> SUFFICES ASSUME [Next]_vars, ~full' PROVE ~full
    BY Zenon
  <1>1. CASE Session
    BY <1>1, Zenon DEF Session, CreateTable, AlterTable, Write, DropTable, DropObject, SetQuota, DeleteQuota,
       Change
  <1>2. CASE Round
    BY <1>2, Zenon DEF Round, LoadQuotas, LoadTableSize, PullActiveList, PullSizes, Track, ApplySizes,
       RefreshQuotaInfoMap, FlushToTableSize, FlushLocalRejectMap, DispatchRejectmap
  <1>3. CASE Failure
    BY <1>3, Zenon DEF Failure, LoadQuotasFails, FetchFails, PullSizesFails, TrackFails, FlushFails,
       DispatchFails, Restart, ApplySizes
  <1>4. CASE UNCHANGED vars
    BY <1>4, Zenon DEF vars
  <1> QED
    BY <1>1, <1>2, <1>3, <1>4, Zenon DEF Next

-----------------------------------------------------------------------------
(***************************************************************************)
(* The usage of an existing quota is a sum at every point of a round.      *)
(***************************************************************************)
UsageInv ==
    \A k \in AllKeys, s \in Segids : KeyExists(k) =>
        UsageOf(quota_info_map, k, s) = SumFunctionOnSet(Part(table_size_map, Charged, k, s), Tables)

\* A key of the property has one of the quota types.
LEMMA KeysHaveTypes == \A k \in AllKeys : k.type \in QuotaTypes
  BY KeyTypes DEF AllKeys

\* Schemas, roles and tablespaces are dropped and never come back.
LEMMA KeysOnlyGo == [Next]_vars => \A k : KeyExists(k)' => KeyExists(k)
  <1> SUFFICES ASSUME [Next]_vars PROVE objects' \subseteq objects
    BY Zenon DEF KeyExists
  <1>1. CASE Session
    BY <1>1, Zenon DEF Session, CreateTable, AlterTable, Write, DropTable, DropObject, SetQuota, DeleteQuota
  <1>2. CASE Round
    BY <1>2, Zenon DEF Round, LoadQuotas, LoadTableSize, PullActiveList, PullSizes, Track,
       RefreshQuotaInfoMap, FlushToTableSize, FlushLocalRejectMap, DispatchRejectmap, sessionVars
  <1>3. CASE Failure
    BY <1>3, Zenon DEF Failure, LoadQuotasFails, FetchFails, PullSizesFails, TrackFails, FlushFails,
       DispatchFails, Restart, RoundFails, sessionVars
  <1>4. CASE UNCHANGED vars
    BY <1>4, Zenon DEF vars, sessionVars
  <1> QED
    BY <1>1, <1>2, <1>3, <1>4, Zenon DEF Next

\* Which records are charged.
LEMMA ChargedIs ==
  /\ pc \notin {"refresh", "flush"} => Charged = DOMAIN table_size_map
  /\ pc \in {"refresh", "flush"} => Charged = {e \in DOMAIN table_size_map : table_size_map[e].exist}
  BY Zenon DEF Charged

\* The contributions depend on the attributes and the sizes only.
LEMMA PartSame ==
  ASSUME NEW m, NEW n, NEW X, NEW k, NEW s,
         \A e \in X : n[e].attr = m[e].attr /\ n[e].size = m[e].size
  PROVE  Part(n, X, k, s) = Part(m, X, k, s)
  <1> DEFINE id == TableSizeEntryId(s)
  <1>1. ASSUME NEW t \in Tables
        PROVE  (IF <<t, id>> \in X /\ KeyOf(k.type, n[<<t, id>>].attr) = k
                THEN n[<<t, id>>].size[s] ELSE 0)
             = (IF <<t, id>> \in X /\ KeyOf(k.type, m[<<t, id>>].attr) = k
                THEN m[<<t, id>>].size[s] ELSE 0)
    <2>1. CASE <<t, id>> \in X
      <3>1. n[<<t, id>>].attr = m[<<t, id>>].attr /\ n[<<t, id>>].size = m[<<t, id>>].size
        BY <2>1, Zenon
      <3> QED
        BY <3>1, Zenon
    <2>2. CASE <<t, id>> \notin X
      BY <2>2, Zenon
    <2> QED
      BY <2>1, <2>2, Zenon
  <1> QED
    BY <1>1, Zenon DEF Part

\* Nothing is charged when there are no records.
LEMMA NothingCharged ==
  ASSUME NEW m, NEW k, NEW s
  PROVE  SumFunctionOnSet(Part(m, {}, k, s), Tables) = 0 /\ UsageOf(Empty, k, s) = 0
  <1>1. PICK f : f = Part(m, {}, k, s)
    BY Zenon
  <1>2. \A t \in Tables : f[t] = 0
    BY <1>1, Zenon DEF Part
  <1>3. IsFiniteSet(Tables) /\ {} \in SUBSET Tables
    BY QuotaAssumption, Zenon
  <1>4. SumFunctionOnSet(f, Tables) = SumFunctionOnSet(f, {})
    BY <1>2, <1>3, SumEqual
  <1>5. SumFunctionOnSet(f, {}) = 0
    BY SumUnfolds, FS_EmptySet, Zenon
  <1> QED
    BY <1>1, <1>4, <1>5, EmptyShape, Zenon DEF UsageOf

\* No step changes the usage of an existing quota without the sum, or the sum
\* without the usage.
LEMMA UsageNext == Shape /\ UsageInv /\ [Next]_vars => UsageInv'
  <1> SUFFICES ASSUME Shape, UsageInv, [Next]_vars PROVE UsageInv'
    BY Zenon
  <1> USE DEF sessionVars, modelVars, rejectVars, rowVars
  <1> DEFINE Uncharged == {"refresh", "flush"}
  <1>0. /\ DiskShape /\ active \subseteq Tables /\ MapShape /\ SizesNat
        /\ QuotaRecords(quota_info_map) /\ KeyShape(quota_info_map) /\ RowShape(rows)
    BY Zenon DEF Shape
  <1>1. SUFFICES ASSUME NEW k \in AllKeys, NEW s \in Segids, KeyExists(k)'
                 PROVE  UsageOf(quota_info_map', k, s)
                        = SumFunctionOnSet(Part(table_size_map', Charged', k, s), Tables)
    BY Zenon DEF UsageInv
  <1>2. /\ KeyExists(k) /\ k.type \in QuotaTypes
        /\ UsageOf(quota_info_map, k, s) = SumFunctionOnSet(Part(table_size_map, Charged, k, s), Tables)
    BY <1>1, KeysOnlyGo, KeysHaveTypes, Zenon DEF UsageInv
  <1> DEFINE Goal == UsageOf(quota_info_map', k, s)
                     = SumFunctionOnSet(Part(table_size_map', Charged', k, s), Tables)
  <1>3. /\ pc' \notin {"refresh", "flush"} => Charged' = DOMAIN table_size_map'
        /\ pc' \in {"refresh", "flush"} =>
             Charged' = {e \in DOMAIN table_size_map' : table_size_map'[e].exist}
    BY Zenon DEF Charged
  <1>4. ASSUME UNCHANGED table_size_map, pc \in Uncharged <=> pc' \in Uncharged,
               UsageOf(quota_info_map', k, s) = UsageOf(quota_info_map, k, s)
        PROVE  Goal
    BY <1>2, <1>3, <1>4, ChargedIs, Zenon
  <1>5. CASE Session
    <2>1. UNCHANGED <<modelVars, pc>>
      BY <1>5, Zenon DEF Session, CreateTable, AlterTable, Write, DropTable, DropObject,
         SetQuota, DeleteQuota, Change
    <2> QED
      BY <1>4, <2>1, Zenon
  <1>6. CASE PullActiveList \/ FetchFails \/ FlushLocalRejectMap \/ DispatchRejectmap \/ DispatchFails
             \/ UNCHANGED vars
    <2>1. UNCHANGED modelVars /\ (pc \in Uncharged <=> pc' \in Uncharged)
      BY <1>6, Zenon DEF PullActiveList, FetchFails, FlushLocalRejectMap, DispatchRejectmap, DispatchFails,
         RoundFails, vars
    <2> QED
      BY <1>4, <2>1, Zenon
  <1>7. CASE LoadQuotas
    <2>1. /\ UNCHANGED table_size_map /\ pc = "idle" /\ pc' = "list"
          /\ quota_info_map' = LoadedLimits(quota_info_map)
      BY <1>7, Zenon DEF LoadQuotas
    <2>2. UsageOf(quota_info_map', k, s) = UsageOf(quota_info_map, k, s)
      BY <1>0, <2>1, LoadedQuotas
    <2> QED
      BY <1>4, <2>1, <2>2, Zenon
  <1>8. CASE LoadQuotasFails
    <2>1. /\ UNCHANGED table_size_map /\ pc = "idle" /\ pc' = "idle"
          /\ quota_info_map' = [e \in DOMAIN quota_info_map |-> [quota_info_map[e] EXCEPT !.limit = -1]]
      BY <1>8, Zenon DEF LoadQuotasFails, RoundFails
    <2>2. UsageOf(quota_info_map', k, s) = UsageOf(quota_info_map, k, s)
      BY <1>0, <2>1, CleanedQuotas
    <2> QED
      BY <1>4, <2>1, <2>2, Zenon
  <1>9. CASE RefreshQuotaInfoMap
    <2> DEFINE kept == {e \in DOMAIN quota_info_map : KeyExists(e.key)}
               x == [key |-> k, segid |-> s]
    <2>1. /\ UNCHANGED table_size_map /\ pc = "refresh" /\ pc' = "flush"
          /\ quota_info_map' = Remove(quota_info_map, DOMAIN quota_info_map \ kept)
      BY <1>9, Zenon DEF RefreshQuotaInfoMap
    <2>2. x.key = k
      OBVIOUS
    <2>3. x \in DOMAIN quota_info_map <=> x \in kept
      BY <1>2, <2>2, Zenon
    <2> HIDE DEF kept
    <2>4. /\ x \in DOMAIN quota_info_map' <=> x \in DOMAIN quota_info_map
          /\ x \in DOMAIN quota_info_map => quota_info_map'[x] = quota_info_map[x]
      BY <2>1, <2>3, Zenon DEF Remove
    <2>5. UsageOf(quota_info_map', k, s) = UsageOf(quota_info_map, k, s)
      BY <2>4, Zenon DEF UsageOf
    <2> QED
      BY <1>4, <2>1, <2>5, Zenon
  <1>10. ASSUME NEW sz, RowShape(sz), ApplySizes(sz), pc \notin Uncharged, pc' \notin Uncharged
         PROVE  Goal
    <2>1. DOMAIN sz \subseteq Tables \X Segids /\ \A p \in DOMAIN sz : sz[p] \in Nat
      BY <1>10, Zenon DEF RowShape
    <2>2. UsageOf(quota_info_map, k, s) =
            SumFunctionOnSet(Part(table_size_map, DOMAIN table_size_map, k, s), Tables)
      BY <1>2, <1>10, ChargedIs, Zenon
    <2>3. UsageOf(quota_info_map', k, s) =
            SumFunctionOnSet(Part(table_size_map', DOMAIN table_size_map', k, s), Tables)
      BY <1>0, <1>2, <1>10, <2>1, <2>2, AppliedUsage, Zenon
    <2> QED
      BY <1>3, <1>10, <2>3, Zenon
  <1>11. CASE LoadTableSize
    BY <1>0, <1>10, <1>11, LoadedShape, Zenon DEF LoadTableSize
  <1>12. CASE PullSizes
    BY <1>0, <1>10, <1>12, PulledShape, Zenon DEF PullSizes
  <1>13. CASE PullSizesFails
    <2>1. PICK i \in Primaries : ApplySizes([p \in active \X (0 .. i - 1) |-> disk[p[1]][p[2]]])
      BY <1>13, Zenon DEF PullSizesFails
    <2>2. PICK sz : sz = [p \in active \X (0 .. i - 1) |-> disk[p[1]][p[2]]]
      BY Zenon
    <2>3. RowShape(sz) /\ ApplySizes(sz)
      BY <1>0, <2>1, <2>2, CountedShape, Zenon
    <2>4. pc = "size" /\ pc' = "idle"
      BY <1>13, Zenon DEF PullSizesFails, RoundFails
    <2> QED
      BY <1>10, <2>3, <2>4, Zenon
  <1>14. CASE Track
    <2>1. pc = "track" /\ pc' = "refresh"
      BY <1>14, Zenon DEF Track
    <2>2. UsageOf(quota_info_map, k, s) =
            SumFunctionOnSet(Part(table_size_map, DOMAIN table_size_map, k, s), Tables)
      BY <1>2, <2>1, ChargedIs, Zenon
    <2>3. PICK X : X = {e \in DOMAIN table_size_map' : table_size_map'[e].exist}
      BY Zenon
    <2>4. UsageOf(quota_info_map', k, s) = SumFunctionOnSet(Part(table_size_map', X, k, s), Tables)
      BY <1>0, <1>2, <1>14, <2>2, <2>3, TrackedUsage, Zenon
    <2> QED
      BY <1>3, <2>1, <2>3, <2>4, Zenon
  <1>15. ASSUME UNCHANGED quota_info_map, Charged' = Charged,
                \A e \in Charged : /\ table_size_map'[e].attr = table_size_map[e].attr
                                   /\ table_size_map'[e].size = table_size_map[e].size
         PROVE  Goal
    <2>1. PICK n, m, X : n = table_size_map' /\ m = table_size_map /\ X = Charged
      BY Zenon
    <2>2. Part(n, X, k, s) = Part(m, X, k, s)
      BY <1>15, <2>1, PartSame
    <2> QED
      BY <1>2, <1>15, <2>1, <2>2, Zenon
  <1>16. CASE TrackFails
    <2>1. /\ pc = "track" /\ pc' = "idle" /\ UNCHANGED quota_info_map
          /\ table_size_map' = [e \in DOMAIN table_size_map |-> [table_size_map[e] EXCEPT !.exist = FALSE]]
      BY <1>16, Zenon DEF TrackFails, RoundFails
    <2>2. PICK n : n = table_size_map'
      BY Zenon
    <2>3. /\ DOMAIN n = DOMAIN table_size_map
          /\ \A e \in DOMAIN n : n[e].attr = table_size_map[e].attr /\ n[e].size = table_size_map[e].size
      BY <1>0, <2>1, <2>2, UnmarkedRecords, Zenon
    <2> QED
      BY <1>3, <1>15, <2>1, <2>2, <2>3, ChargedIs, Zenon
  <1>17. CASE FlushToTableSize \/ FlushFails
    <2>1. /\ pc = "flush" /\ pc' \in {"reject", "idle"} /\ UNCHANGED quota_info_map
          /\ table_size_map' = Flushed(table_size_map)
      BY <1>17, Zenon DEF FlushToTableSize, FlushFails, RoundFails
    <2>2. PICK n : n = table_size_map'
      BY Zenon
    <2>3. /\ DOMAIN n = {e \in DOMAIN table_size_map : table_size_map[e].exist}
          /\ \A e \in DOMAIN n : n[e].attr = table_size_map[e].attr /\ n[e].size = table_size_map[e].size
      <3>1. n = Flushed(table_size_map)
        BY <2>1, <2>2, Zenon
      <3> QED
        BY <1>0, <3>1, FlushedRecords
    <2>4. Charged' = DOMAIN n /\ Charged = DOMAIN n
      BY <1>3, <2>1, <2>2, <2>3, ChargedIs, Zenon
    <2> QED
      BY <1>15, <2>1, <2>2, <2>3, <2>4, Zenon
  <1>18. CASE Restart
    <2>1. pc' = "idle" /\ table_size_map' = Empty /\ quota_info_map' = Empty
      BY <1>18, Zenon DEF Restart
    <2>2. Charged' = {}
      BY <1>3, <2>1, EmptyShape, Zenon
    <2>3. PICK m : m = table_size_map'
      BY Zenon
    <2>4. SumFunctionOnSet(Part(m, {}, k, s), Tables) = 0 /\ UsageOf(Empty, k, s) = 0
      BY NothingCharged
    <2> QED
      BY <2>1, <2>2, <2>3, <2>4, Zenon
  <1> QED
    BY <1>5, <1>6, <1>7, <1>8, <1>9, <1>11, <1>12, <1>13, <1>14, <1>16, <1>17, <1>18, Zenon
       DEF Next, Round, Failure

\* The usage of a quota is the sum of the recorded sizes of the tables that
\* belong to it, although update_size_for_quota only ever adds differences, and
\* the passes over sizes, the pass over all tables and the flush may each be cut
\* off by an error (quotamodel.c).
THEOREM UsageIsSumAlways == Spec => []UsageIsSum
  <1>1. Init => UsageInv
    <2> SUFFICES ASSUME Init PROVE UsageInv
      BY Zenon
    <2>1. pc = "idle" /\ table_size_map = Empty /\ quota_info_map = Empty
      BY Zenon DEF Init
    <2>2. Charged = {}
      BY <2>1, ChargedIs, EmptyShape, Zenon
    <2>3. ASSUME NEW k, NEW s
          PROVE  UsageOf(quota_info_map, k, s)
                 = SumFunctionOnSet(Part(table_size_map, Charged, k, s), Tables)
      <3>1. PICK m : m = table_size_map
        BY Zenon
      <3>2. SumFunctionOnSet(Part(m, {}, k, s), Tables) = 0 /\ UsageOf(Empty, k, s) = 0
        BY NothingCharged
      <3> QED
        BY <2>1, <2>2, <3>1, <3>2, Zenon
    <2> QED
      BY <2>3, Zenon DEF UsageInv
  <1>2. Shape /\ UsageInv => UsageIsSum
    <2> SUFFICES ASSUME Shape, UsageInv, NEW k \in AllKeys, NEW s \in Segids, KeyExists(k)
                 PROVE  UsageOf(quota_info_map, k, s) = ChargedSize(k, s)
      BY Zenon DEF UsageIsSum, UsageOf
    <2>1. ChargedSize(k, s) = SumFunctionOnSet(Part(table_size_map, Charged, k, s), Tables)
      BY ChargedSizeIsSum, Zenon DEF Shape
    <2> QED
      BY <2>1, Zenon DEF UsageInv
  <1> QED
    BY <1>1, <1>2, ShapeAlways, UsageNext, PTL DEF Spec

-----------------------------------------------------------------------------
(***************************************************************************)
(* The rows of diskquota.table_size and the recorded sizes.                *)
(***************************************************************************)

\* load_table_size adds the coordinator's files to a total that has them.
Comparable(s) == s # -1 \/ MasterSize = 0

\* A size that is to be flushed at the end of the round.
ToFlush(t, s) ==
    LET e == <<t, TableSizeEntryId(s)>>
    IN  inited /\ e \in DOMAIN table_size_map /\ s \in table_size_map[e].flush

\* A size that is not to be flushed is the one stored in the row.
Agree ==
    /\ pc \notin {"reject", "dispatch"} => txRows = rows
    /\ ~Unloaded =>
         \A t \in Tables, s \in Segids : Comparable(s) /\ ~ToFlush(t, s) =>
            RecordedSize(table_size_map, t, s) = Stored(txRows, t, s)
    /\ pc \notin {"track", "refresh", "flush"} =>
         \A e \in DOMAIN table_size_map : table_size_map[e].flush = {}

RowInv == failures = 0 /\ ~full => Agree

\* What load_table_size reads is what is stored.
LEMMA LoadedIsStored ==
  ASSUME Shape, NEW t \in Tables, NEW s \in Segids, Comparable(s), <<t, s>> \in DOMAIN rows
  PROVE  LoadedSizes[<<t, s>>] = rows[<<t, s>>]
  <1>1. CASE s # -1
    BY <1>1, Zenon DEF LoadedSizes
  <1>2. CASE s = -1
    <2>1. MasterSize = 0
      BY <1>2, Zenon DEF Comparable
    <2>2. disk[t][-1] = 0
      BY <2>1, Zenon DEF Shape, DiskShape
    <2>3. PICK n : n = rows[<<t, s>>] /\ n \in Nat
      BY Zenon DEF Shape, RowShape
    <2>4. LoadedSizes[<<t, s>>] = n + 0
      BY <1>2, <2>2, <2>3, Zenon DEF LoadedSizes
    <2> QED
      BY <2>3, <2>4
  <1> QED
    BY <1>1, <1>2, Zenon

\* Without records no size is recorded.
LEMMA NoneRecorded ==
  ASSUME table_size_map = Empty, NEW t, NEW s
  PROVE  RecordedSize(table_size_map, t, s) = 0
  BY EmptyShape, Zenon DEF RecordedSize

\* Loading records what is stored.
LEMMA LoadAgrees ==
  ASSUME Shape, Agree, LoadTableSize, ~full'
  PROVE  Agree'
  <1>1. /\ Unloaded /\ ~inited /\ pc = "list" /\ pc' = "track" /\ UNCHANGED <<rows, txRows, inited>>
        /\ ApplySizes(LoadedSizes)
    BY Zenon DEF LoadTableSize, Unloaded, rowVars
  <1>2. table_size_map = Empty /\ txRows = rows
    BY <1>1, Zenon DEF Shape, Agree
  <1>3. ASSUME NEW t \in Tables, NEW s \in Segids, Comparable(s)
        PROVE  RecordedSize(table_size_map, t, s)' = Stored(txRows, t, s)'
    <2>1. PICK sz : sz = LoadedSizes
      BY Zenon
    <2>2. DOMAIN sz = DOMAIN rows /\ DOMAIN sz \subseteq Tables \X Segids /\ MapShape
      BY <2>1, Zenon DEF Shape, RowShape, LoadedSizes
    <2>3. RecordedSize(table_size_map, t, s)' =
             IF <<t, s>> \in DOMAIN sz THEN sz[<<t, s>>] ELSE RecordedSize(table_size_map, t, s)
      BY <1>1, <2>1, <2>2, AppliedRecorded
    <2>4. RecordedSize(table_size_map, t, s) = 0
      BY <1>2, NoneRecorded, Zenon
    <2>5. <<t, s>> \in DOMAIN rows => sz[<<t, s>>] = rows[<<t, s>>]
      BY <1>3, <2>1, LoadedIsStored, Zenon
    <2>6. Stored(txRows, t, s)' = IF <<t, s>> \in DOMAIN rows THEN rows[<<t, s>>] ELSE 0
      BY <1>1, <1>2, Zenon DEF Stored
    <2>7. CASE <<t, s>> \in DOMAIN rows
      BY <2>2, <2>3, <2>5, <2>6, <2>7, Zenon
    <2>8. CASE <<t, s>> \notin DOMAIN rows
      BY <2>2, <2>3, <2>4, <2>6, <2>8, Zenon
    <2> QED
      BY <2>7, <2>8, Zenon
  <1> QED
    BY <1>1, <1>2, <1>3, Zenon DEF Agree

\* What a later pass over sizes or over all tables changes is to be flushed.
LEMMA PassAgrees ==
  ASSUME Shape, Agree, ~full', PullSizes \/ Track
  PROVE  Agree'
  <1>1. /\ ~Unloaded /\ ~Unloaded' /\ pc \in {"size", "track"} /\ pc' \in {"track", "refresh"}
        /\ UNCHANGED <<rows, txRows, inited>> /\ MapShape /\ (pc = "size" => inited)
    BY Zenon DEF PullSizes, Track, Unloaded, rowVars, Shape
  <1>2. ASSUME NEW t \in Tables, NEW s \in Segids, ~ToFlush(t, s)'
        PROVE  ~ToFlush(t, s) /\ RecordedSize(table_size_map, t, s)' = RecordedSize(table_size_map, t, s)
    <2> DEFINE e == <<t, TableSizeEntryId(s)>>
    <2>0. e[1] = t /\ e[2] = TableSizeEntryId(s) /\ s \in SegidsOf(e[2])
      BY Chunks
    <2>1. inited => e \notin DOMAIN table_size_map' \/ s \notin table_size_map'[e].flush
      BY <1>1, <1>2, Zenon DEF ToFlush
    <2>2. CASE Track
      <3>1. /\ DOMAIN table_size_map \subseteq DOMAIN table_size_map'
            /\ e \in DOMAIN table_size_map' /\ inited /\ s \notin table_size_map'[e].flush =>
                  s \notin table_size_map[e].flush
        BY <1>1, <2>0, <2>2, Tracked, Zenon
      <3>2. ~ToFlush(t, s)
        BY <2>1, <3>1, Zenon DEF ToFlush
      <3>3. RecordedSize(table_size_map, t, s)' = RecordedSize(table_size_map, t, s)
        BY <1>1, <2>2, TrackedRecorded, Zenon
      <3> QED
        BY <3>2, <3>3, Zenon
    <2>3. CASE PullSizes
      <3>1. PICK sz : sz = PulledSizes(active)
        BY Zenon
      <3>2. ApplySizes(sz) /\ DOMAIN sz \subseteq Tables \X Segids /\ inited
        <4>1. RowShape(sz)
          BY <3>1, PulledShape, Zenon DEF Shape
        <4> QED
          BY <1>1, <2>3, <3>1, <4>1, Zenon DEF PullSizes, RowShape
      <3>3. /\ DOMAIN table_size_map \subseteq DOMAIN table_size_map'
            /\ e \in DOMAIN table_size_map' /\ s \notin table_size_map'[e].flush =>
                  <<e[1], s>> \notin DOMAIN sz /\ s \notin table_size_map[e].flush
        BY <1>1, <2>0, <3>2, Applied, Zenon
      <3>4. \A p \in DOMAIN sz : <<p[1], TableSizeEntryId(p[2])>> \in DOMAIN table_size_map'
        BY <1>1, <3>2, Applied, Zenon
      <3>5. <<t, s>> \in DOMAIN sz => e \in DOMAIN table_size_map'
        <4>1. <<t, s>>[1] = t /\ <<t, s>>[2] = s
          BY Zenon
        <4> QED
          BY <3>4, <4>1, Zenon
      <3>6. <<t, s>> \notin DOMAIN sz /\ ~ToFlush(t, s)
        BY <2>0, <2>1, <3>2, <3>3, <3>5, Zenon DEF ToFlush
      <3>7. RecordedSize(table_size_map, t, s)' =
               IF <<t, s>> \in DOMAIN sz THEN sz[<<t, s>>] ELSE RecordedSize(table_size_map, t, s)
        BY <1>1, <3>2, AppliedRecorded
      <3> QED
        BY <3>6, <3>7, Zenon
    <2> QED
      BY <2>2, <2>3, Zenon
  <1>3. ASSUME NEW t, NEW s PROVE Stored(txRows, t, s)' = Stored(txRows, t, s)
    BY <1>1, Zenon DEF Stored
  <1> QED
    BY <1>1, <1>2, <1>3, Zenon DEF Agree

\* flush_to_table_size stores what is to be flushed and deletes what is dropped.
LEMMA FlushAgrees ==
  ASSUME Shape, Agree, FlushToTableSize
  PROVE  Agree'
  <1> DEFINE m == table_size_map
             gone == {p \in Tables \X Segids : LET e == <<p[1], TableSizeEntryId(p[2])>> IN
                                             e \in DOMAIN m /\ ~m[e].exist}
             new == {p \in Tables \X Segids : LET e == <<p[1], TableSizeEntryId(p[2])>> IN
                                             e \in DOMAIN m /\ m[e].exist /\ p[2] \in m[e].flush}
  <1>1. /\ pc = "flush" /\ pc' = "reject" /\ ~Unloaded /\ MapShape
        /\ table_size_map' = Flushed(m) /\ txRows' = FlushedRows(m, txRows)
    BY Zenon DEF FlushToTableSize, Unloaded, Shape
  <1>2. txRows' = [p \in (DOMAIN txRows \ gone) \cup new |->
                      IF p \in new THEN RecordedSize(m, p[1], p[2]) ELSE txRows[p]]
    BY <1>1, Zenon DEF FlushedRows
  <1>3. /\ DOMAIN table_size_map' = {e \in DOMAIN m : m[e].exist}
        /\ \A e \in DOMAIN table_size_map' : /\ table_size_map'[e].size = m[e].size
                                             /\ table_size_map'[e].flush = {}
    <2>1. PICK n : n = table_size_map' /\ n = Flushed(table_size_map)
      BY <1>1, Zenon
    <2>2. /\ DOMAIN n = {e \in DOMAIN table_size_map : table_size_map[e].exist}
          /\ \A e \in DOMAIN n : n[e].size = table_size_map[e].size /\ n[e].flush = {}
      BY <1>1, <2>1, FlushedRecords
    <2> QED
      BY <2>1, <2>2, Zenon
  <1>4. ASSUME NEW t \in Tables, NEW s \in Segids, Comparable(s)
        PROVE  RecordedSize(table_size_map, t, s)' = Stored(txRows, t, s)'
    <2> DEFINE e == <<t, TableSizeEntryId(s)>>
               p == <<t, s>>
    <2>1. p \in Tables \X Segids /\ p[1] = t /\ p[2] = s
      OBVIOUS
    <2>2. /\ p \in gone <=> e \in DOMAIN m /\ ~m[e].exist
          /\ p \in new <=> e \in DOMAIN m /\ m[e].exist /\ s \in m[e].flush
      BY <2>1, Zenon
    <2>3. /\ RecordedSize(table_size_map, t, s) = IF e \in DOMAIN m THEN m[e].size[s] ELSE 0
          /\ RecordedSize(table_size_map, t, s)' =
                IF e \in DOMAIN m /\ m[e].exist THEN m[e].size[s] ELSE 0
      <3>1. RecordedSize(table_size_map, t, s)' =
                IF e \in DOMAIN table_size_map' THEN table_size_map'[e].size[s] ELSE 0
        BY Zenon DEF RecordedSize
      <3>2. RecordedSize(table_size_map, t, s) = IF e \in DOMAIN m THEN m[e].size[s] ELSE 0
        BY Zenon DEF RecordedSize
      <3>3. e \in DOMAIN table_size_map' <=> e \in DOMAIN m /\ m[e].exist
        BY <1>3, Zenon
      <3>4. CASE e \in DOMAIN table_size_map'
        BY <1>3, <3>1, <3>2, <3>3, <3>4, Zenon
      <3>5. CASE e \notin DOMAIN table_size_map'
        BY <3>1, <3>2, <3>3, <3>5, Zenon
      <3> QED
        BY <3>4, <3>5, Zenon
    <2>4. /\ Stored(txRows, t, s) = IF p \in DOMAIN txRows THEN txRows[p] ELSE 0
          /\ Stored(txRows, t, s)' = IF p \in DOMAIN txRows' THEN txRows'[p] ELSE 0
      BY Zenon DEF Stored
    <2>5. ~ToFlush(t, s) => RecordedSize(table_size_map, t, s) = Stored(txRows, t, s)
      BY <1>1, <1>4, Zenon DEF Agree
    <2> HIDE DEF gone, new, p
    <2>6. CASE p \in new
      <3>1. Stored(txRows, t, s)' = RecordedSize(m, t, s)
        BY <1>2, <2>1, <2>4, <2>6, Zenon
      <3> QED
        BY <2>2, <2>3, <2>6, <3>1, Zenon
    <2>7. CASE p \in gone
      <3>1. p \notin DOMAIN txRows'
        BY <1>2, <2>2, <2>7, Zenon
      <3> QED
        BY <2>2, <2>3, <2>4, <2>7, <3>1, Zenon
    <2>8. CASE p \notin new /\ p \notin gone
      <3>1. Stored(txRows, t, s)' = Stored(txRows, t, s)
        <4>1. /\ p \in DOMAIN txRows' <=> p \in DOMAIN txRows
              /\ p \in DOMAIN txRows => txRows'[p] = txRows[p]
          BY <1>2, <2>8, Zenon
        <4>2. CASE p \in DOMAIN txRows
          BY <2>4, <4>1, <4>2, Zenon
        <4>3. CASE p \notin DOMAIN txRows
          BY <2>4, <4>1, <4>3, Zenon
        <4> QED
          BY <4>2, <4>3, Zenon
      <3>2. ~ToFlush(t, s)
        BY <2>2, <2>8, Zenon DEF ToFlush
      <3>3. RecordedSize(table_size_map, t, s)' = RecordedSize(table_size_map, t, s)
        <4>1. CASE e \in DOMAIN m
          BY <2>2, <2>3, <2>8, <4>1, Zenon
        <4>2. CASE e \notin DOMAIN m
          BY <2>3, <4>2, Zenon
        <4> QED
          BY <4>1, <4>2, Zenon
      <3> QED
        BY <2>5, <3>1, <3>2, <3>3, Zenon
    <2> QED
      BY <2>6, <2>7, <2>8, Zenon
  <1> QED
    BY <1>1, <1>3, <1>4, Zenon DEF Agree

\* No step leaves the invariant.
LEMMA RowNext == Shape /\ RowInv /\ [Next]_vars => RowInv'
  <1> SUFFICES ASSUME Shape, RowInv, [Next]_vars, failures' = 0, ~full' PROVE Agree'
    BY Zenon DEF RowInv
  <1> USE DEF sessionVars, modelVars, rejectVars, rowVars
  <1>1. CASE Failure
    <2>1. failures' = failures + 1
      BY <1>1, Zenon DEF Failure, RoundFails, LoadQuotasFails, FetchFails, PullSizesFails,
         TrackFails, FlushFails, DispatchFails, Restart
    <2> QED
      BY <2>1, FailuresCounted, Zenon DEF Shape
  <1>2. ASSUME ~Failure PROVE failures' = failures
    BY <1>2, Zenon DEF Next, Session, CreateTable, AlterTable, Write, DropTable, DropObject, SetQuota,
       DeleteQuota, Change, Round, LoadQuotas, LoadTableSize, PullActiveList, PullSizes, Track,
       RefreshQuotaInfoMap, FlushToTableSize, FlushLocalRejectMap, DispatchRejectmap, vars
  <1>3. SUFFICES ASSUME ~Failure, Agree PROVE Agree'
    BY <1>1, <1>2, FullStays, Zenon DEF RowInv
  <1>4. ASSUME UNCHANGED <<table_size_map, txRows, inited>>, Unloaded' => Unloaded,
               Unloaded => Unloaded',
               pc' \in {"track", "refresh", "flush"} <=> pc \in {"track", "refresh", "flush"},
               pc' \notin {"reject", "dispatch"} => txRows' = rows'
        PROVE  Agree'
    BY <1>3, <1>4, Zenon DEF Agree, ToFlush, RecordedSize, Stored
  <1>5. CASE Session \/ UNCHANGED vars
    <2>1. UNCHANGED <<table_size_map, rowVars, inited, pc>>
      BY <1>5, Zenon DEF Session, CreateTable, AlterTable, Write, DropTable, DropObject,
         SetQuota, DeleteQuota, Change, vars
    <2> QED
      BY <1>3, <1>4, <2>1, Zenon DEF Unloaded, Agree
  <1>6. CASE LoadQuotas \/ PullActiveList \/ RefreshQuotaInfoMap \/ FlushLocalRejectMap
    <2>1. /\ UNCHANGED <<table_size_map, rowVars, inited>>
          /\ \/ pc = "idle" /\ pc' = "list"
             \/ pc = "list" /\ pc' = "size" /\ inited
             \/ pc = "refresh" /\ pc' = "flush"
             \/ pc = "reject" /\ pc' = "dispatch"
      BY <1>6, Zenon DEF LoadQuotas, PullActiveList, RefreshQuotaInfoMap, FlushLocalRejectMap
    <2> QED
      BY <1>3, <1>4, <2>1, Zenon DEF Unloaded, Agree
  <1>7. CASE DispatchRejectmap
    <2>1. /\ UNCHANGED <<table_size_map, txRows>> /\ rows' = txRows /\ inited' = TRUE
          /\ pc = "dispatch" /\ pc' = "idle" /\ ~Unloaded /\ ~Unloaded'
      BY <1>7, Zenon DEF DispatchRejectmap, Unloaded
    <2>2. \A e \in DOMAIN table_size_map : table_size_map[e].flush = {}
      BY <1>3, <2>1, Zenon DEF Agree
    <2>3. ASSUME NEW t, NEW s PROVE ~ToFlush(t, s)
      BY <2>2, Zenon DEF ToFlush
    <2> QED
      BY <1>3, <2>1, <2>2, <2>3, Zenon DEF Agree, RecordedSize, Stored
  <1> QED
    BY <1>3, <1>5, <1>6, <1>7, LoadAgrees, PassAgrees, FlushAgrees, Zenon DEF Next, Round

\* Between rounds the rows of the primary segments are the recorded sizes, as
\* long as no round failed and no map was full.
SegmentRowsMatch ==
    pc = "idle" /\ inited /\ failures = 0 /\ ~full =>
        \A t \in Tables, s \in Primaries : Stored(rows, t, s) = RecordedSize(table_size_map, t, s)

\* Between rounds diskquota.table_size has what the model knows, so that a
\* restart loads it: on every primary segment, and the total too where the
\* coordinator has no files (flush_to_table_size, load_table_size).
THEOREM RowsMatchAlways == Spec => [](SegmentRowsMatch /\ (MasterSize = 0 => RowsMatchMapUnlessFailed))
  <1>1. Init => RowInv
    <2> SUFFICES ASSUME Init PROVE Agree
      BY Zenon DEF RowInv
    <2>1. pc = "idle" /\ ~inited /\ txRows = rows /\ table_size_map = Empty
      BY Zenon DEF Init
    <2> QED
      BY <2>1, EmptyShape, Zenon DEF Agree, Unloaded
  <1>2. RowInv => SegmentRowsMatch /\ (MasterSize = 0 => RowsMatchMapUnlessFailed)
    <2> SUFFICES ASSUME RowInv, pc = "idle", inited, failures = 0, ~full
                 PROVE  /\ \A t \in Tables, s \in Primaries : Stored(rows, t, s) = RecordedSize(table_size_map, t, s)
                        /\ MasterSize = 0 => \A t \in Tables, s \in Segids :
                              Stored(rows, t, s) = RecordedSize(table_size_map, t, s)
      BY Zenon DEF SegmentRowsMatch, RowsMatchMapUnlessFailed, RowsMatchMap, Stored
    <2>1. Agree /\ ~Unloaded
      BY Zenon DEF RowInv, Unloaded
    <2>2. ASSUME NEW t \in Tables, NEW s \in Segids, Comparable(s)
          PROVE  Stored(rows, t, s) = RecordedSize(table_size_map, t, s)
      <3>1. ~ToFlush(t, s)
        BY <2>1, Zenon DEF Agree, ToFlush
      <3> QED
        BY <2>1, <2>2, <3>1, Zenon DEF Agree
    <2>3. \A s \in Primaries : s \in Segids /\ s # -1
      BY ChunkAssumption DEF Primaries, Segids
    <2> QED
      BY <2>2, <2>3, Zenon DEF Comparable
  <1> QED
    BY <1>1, <1>2, ShapeAlways, RowNext, PTL DEF Spec

-----------------------------------------------------------------------------
(***************************************************************************)
(* The recorded sizes and the files.                                       *)
(***************************************************************************)
CatalogShape ==
    /\ DOMAIN catalog = Tables
    /\ \A t \in Tables : Live(t) => catalog[t] = [state |-> "live", attr |-> catalog[t].attr]

Actual(t, s) == IF s = -1 THEN DiskTotal(t) ELSE disk[t][s]

\* Tables whose size the model is still to read.
Due == IF pc = "size" THEN dirty \cup active ELSE dirty

Current ==
    /\ Unloaded =>
         \A t \in LiveTables \ dirty, s \in Segids :
            <<t, s>> \in DOMAIN rows /\ rows[<<t, s>>] = Actual(t, s)
    /\ ~Unloaded =>
         \A t \in LiveTables \ Due, s \in Segids : Comparable(s) =>
            RecordedSize(table_size_map, t, s) = Actual(t, s)
    /\ pc \in {"refresh", "flush"} =>
         \A e \in DOMAIN table_size_map :
            Live(e[1]) /\ e[1] \notin dirty => table_size_map[e].exist

CurInv == CatalogShape /\ (failures = 0 /\ ~full => Current)

\* What a session does to the tables that it does not report as active.
LEMMA SessionFiles ==
  ASSUME CatalogShape, Shape, Session
  PROVE  /\ CatalogShape'
         /\ \A t \in Tables : Live(t)' /\ t \notin dirty' => Live(t) /\ t \notin dirty /\ disk'[t] = disk[t]
  <1> DEFINE Goal == /\ CatalogShape'
                     /\ \A t \in Tables : Live(t)' /\ t \notin dirty' =>
                                             Live(t) /\ t \notin dirty /\ disk'[t] = disk[t]
  <1>0. DOMAIN catalog = Tables /\ DOMAIN disk = Tables
    BY DEF CatalogShape, Shape, DiskShape
  <1>1. ASSUME NEW u \in Tables, NEW v, catalog' = [catalog EXCEPT ![u] = v],
               v.state = "live" => v = [state |-> "live", attr |-> v.attr]
        PROVE  /\ CatalogShape' /\ (Live(u)' <=> v.state = "live")
               /\ \A t \in Tables \ {u} : Live(t)' <=> Live(t)
    <2>1. DOMAIN catalog' = Tables /\ catalog'[u] = v /\ \A t \in Tables \ {u} : catalog'[t] = catalog[t]
      BY <1>0, <1>1, Zenon
    <2> QED
      BY <1>1, <2>1, Zenon DEF CatalogShape, Live
  <1>2. ASSUME NEW u \in Tables, NEW f, disk' = [disk EXCEPT ![u] = f]
        PROVE  \A t \in Tables \ {u} : disk'[t] = disk[t]
    BY <1>0, <1>2, Zenon
  <1>3. ASSUME NEW u \in Tables, NEW a \in Attrs, CreateTable(u, a) PROVE Goal
    <2>1. PICK v, f : v = [state |-> "live", attr |-> a] /\ f = [NoFiles EXCEPT ![-1] = MasterSize]
      BY Zenon
    <2>2. v.attr = a /\ catalog' = [catalog EXCEPT ![u] = v] /\ disk' = [disk EXCEPT ![u] = f]
          /\ dirty' = dirty \cup {u}
      BY <1>3, <2>1 DEF CreateTable
    <2>3. CatalogShape' /\ \A t \in Tables \ {u} : Live(t)' <=> Live(t)
      BY <1>1, <2>1, <2>2, Zenon
    <2> QED
      BY <1>2, <2>2, <2>3, Zenon
  <1>4. ASSUME NEW u \in Tables, NEW s, NEW n, Write(u, s, n) PROVE Goal
    <2>1. PICK f : f = [disk[u] EXCEPT ![s] = n]
      BY Zenon
    <2>2. disk' = [disk EXCEPT ![u] = f] /\ dirty' = dirty \cup {u} /\ UNCHANGED catalog
      BY <1>4, <2>1, Zenon DEF Write
    <2> QED
      BY <1>2, <2>2, Zenon DEF CatalogShape, Live
  <1>5. ASSUME NEW u \in Tables, NEW a \in Attrs, AlterTable(u, a) PROVE Goal
    <2>1. PICK c, v : c = catalog[u] /\ v = [c EXCEPT !.attr = a]
      BY Zenon
    <2>2. Live(u) /\ catalog' = [catalog EXCEPT ![u] = v] /\ dirty \subseteq dirty' /\ UNCHANGED disk
      BY <1>5, <2>1, Zenon DEF AlterTable
    <2>3. c = [state |-> "live", attr |-> c.attr]
      BY <2>1, <2>2, Zenon DEF CatalogShape
    <2>4. v = [state |-> "live", attr |-> a]
      BY <2>1, <2>3
    <2>5. v.state = "live" /\ v.attr = a
      BY <2>4
    <2>6. CatalogShape' /\ \A t \in Tables \ {u} : Live(t)' <=> Live(t)
      BY <1>1, <2>2, <2>4, <2>5, Zenon
    <2> QED
      BY <2>2, <2>6, Zenon
  <1>6. ASSUME NEW u \in Tables, DropTable(u) PROVE Goal
    <2>1. PICK v, f : v = [state |-> "dropped"] /\ f = NoFiles
      BY Zenon
    <2>2. v.state # "live" /\ catalog' = [catalog EXCEPT ![u] = v] /\ disk' = [disk EXCEPT ![u] = f]
          /\ dirty' = dirty \ {u}
      BY <1>6, <2>1 DEF DropTable
    <2>3. CatalogShape' /\ ~Live(u)' /\ \A t \in Tables \ {u} : Live(t)' <=> Live(t)
      BY <1>1, <2>2, Zenon
    <2> QED
      BY <1>2, <2>2, <2>3, Zenon
  <1>7. ASSUME UNCHANGED <<catalog, disk, dirty>> PROVE Goal
    BY <1>7, Zenon DEF CatalogShape, Live
  <1> QED
    BY <1>3, <1>4, <1>5, <1>6, <1>7, Zenon DEF Session, DropObject, SetQuota, DeleteQuota

\* The size of a table's files depends on its files only.
LEMMA ActualSame ==
  ASSUME NEW t, NEW s, disk'[t] = disk[t]
  PROVE  Actual(t, s)' = Actual(t, s)
  BY Zenon DEF Actual, DiskTotal, SumOfSegments, Primaries

\* What is pulled from the segments is the size of the files.
LEMMA PulledIsActual ==
  ASSUME NEW T, NEW t \in T, NEW s \in Segids
  PROVE  <<t, s>> \in DOMAIN PulledSizes(T) /\ PulledSizes(T)[<<t, s>>] = Actual(t, s)
  <1>1. <<t, s>> \in T \X Segids /\ <<t, s>>[1] = t /\ <<t, s>>[2] = s
    OBVIOUS
  <1> QED
    BY <1>1, Zenon DEF PulledSizes, Actual, DiskTotal

\* A session leaves the sizes of the tables current that it does not report.
LEMMA SessionCurrent ==
  ASSUME CatalogShape, Shape, Current, Session
  PROVE  Current'
  <1>1. UNCHANGED <<table_size_map, rows, pc, active, inited>>
    BY Zenon DEF Session, CreateTable, AlterTable, Write, DropTable, DropObject,
       SetQuota, DeleteQuota, Change, modelVars, rowVars
  <1>2. \A t \in Tables : Live(t)' /\ t \notin dirty' => Live(t) /\ t \notin dirty /\ disk'[t] = disk[t]
    BY SessionFiles, Zenon
  <1>3. Unloaded' <=> Unloaded
    BY <1>1, Zenon DEF Unloaded
  <1>4. ASSUME NEW t \in (LiveTables \ dirty)', NEW s \in Segids
        PROVE  t \in LiveTables \ dirty /\ Actual(t, s)' = Actual(t, s)
    <2>1. t \in Tables /\ Live(t)' /\ t \notin dirty'
      BY <1>4, Zenon DEF LiveTables
    <2>2. Live(t) /\ t \notin dirty /\ disk'[t] = disk[t]
      BY <1>2, <2>1, Zenon
    <2> QED
      BY <2>1, <2>2, ActualSame, Zenon DEF LiveTables
  <1>5. ASSUME Unloaded', NEW t \in (LiveTables \ dirty)', NEW s \in Segids
        PROVE  <<t, s>> \in DOMAIN rows' /\ rows'[<<t, s>>] = Actual(t, s)'
    BY <1>1, <1>3, <1>4, <1>5, Zenon DEF Current
  <1>6. ASSUME ~Unloaded', NEW t \in (LiveTables \ Due)', NEW s \in Segids, Comparable(s)
        PROVE  RecordedSize(table_size_map, t, s)' = Actual(t, s)'
    <2>1. t \in (LiveTables \ dirty)' /\ (pc = "size" => t \notin active)
      BY <1>1, <1>6, Zenon DEF Due
    <2>2. t \in LiveTables \ Due /\ Actual(t, s)' = Actual(t, s)
      BY <1>4, <2>1, Zenon DEF Due
    <2>3. RecordedSize(table_size_map, t, s) = Actual(t, s)
      BY <1>3, <1>6, <2>2, Zenon DEF Current
    <2> QED
      BY <1>1, <2>2, <2>3, Zenon DEF RecordedSize
  <1>7. ASSUME pc' \in {"refresh", "flush"}, NEW e \in DOMAIN table_size_map', Live(e[1])', e[1] \notin dirty'
        PROVE  table_size_map'[e].exist
    <2>1. e[1] \in Tables
      BY <1>1, <1>7 DEF Shape, MapShape
    <2>2. Live(e[1]) /\ e[1] \notin dirty
      BY <1>2, <1>7, <2>1, Zenon
    <2> QED
      BY <1>1, <1>7, <2>2, Zenon DEF Current
  <1> QED
    BY <1>5, <1>6, <1>7, Zenon DEF Current, Comparable

\* A pass of the worker reads the files of the tables that were due.
LEMMA PassCurrent ==
  ASSUME Shape, Current, ~full', LoadTableSize \/ PullSizes \/ Track \/ FlushToTableSize
  PROVE  Current'
  <1>1. /\ UNCHANGED <<catalog, disk, dirty>> /\ ~Unloaded' /\ pc' # "size" /\ MapShape
        /\ \/ LoadTableSize /\ Unloaded /\ pc' = "track"
           \/ PullSizes /\ ~Unloaded /\ pc = "size" /\ pc' = "track"
           \/ Track /\ ~Unloaded /\ pc = "track"
           \/ FlushToTableSize /\ ~Unloaded /\ pc = "flush" /\ pc' = "reject"
    BY Zenon DEF LoadTableSize, PullSizes, Track, FlushToTableSize, Unloaded, sessionVars, Shape
  <1>2. (Due' = dirty) /\ (LiveTables' = LiveTables) /\ (pc # "size" => Due = dirty)
    BY <1>1, Zenon DEF Due, LiveTables, Live
  <1>3. ASSUME NEW t \in LiveTables \ dirty, NEW s \in Segids, Comparable(s)
        PROVE  RecordedSize(table_size_map, t, s)' = Actual(t, s)
    <2>1. t \in Tables /\ Live(t)
      BY Zenon DEF LiveTables
    <2>2. CASE LoadTableSize /\ Unloaded
      <3>1. PICK sz : sz = LoadedSizes
        BY Zenon
      <3>2. DOMAIN sz = DOMAIN rows /\ DOMAIN sz \subseteq Tables \X Segids /\ ApplySizes(sz)
        BY <2>2, <3>1, Zenon DEF Shape, RowShape, LoadedSizes, LoadTableSize
      <3>3. <<t, s>> \in DOMAIN rows /\ rows[<<t, s>>] = Actual(t, s)
        BY <2>2, Zenon DEF Current
      <3>4. RecordedSize(table_size_map, t, s)' =
               IF <<t, s>> \in DOMAIN sz THEN sz[<<t, s>>] ELSE RecordedSize(table_size_map, t, s)
        BY <1>1, <2>1, <3>2, AppliedRecorded
      <3>5. sz[<<t, s>>] = rows[<<t, s>>]
        BY <1>3, <2>1, <3>1, <3>3, LoadedIsStored, Zenon
      <3> QED
        BY <3>2, <3>3, <3>4, <3>5, Zenon
    <2>3. CASE PullSizes /\ ~Unloaded /\ pc = "size"
      <3>1. PICK sz : sz = PulledSizes(active)
        BY Zenon
      <3>2. ApplySizes(sz) /\ DOMAIN sz \subseteq Tables \X Segids
        <4>1. RowShape(sz)
          BY <3>1, PulledShape, Zenon DEF Shape
        <4> QED
          BY <2>3, <3>1, <4>1, Zenon DEF PullSizes, RowShape
      <3>3. RecordedSize(table_size_map, t, s)' =
               IF <<t, s>> \in DOMAIN sz THEN sz[<<t, s>>] ELSE RecordedSize(table_size_map, t, s)
        BY <1>1, <2>1, <3>2, AppliedRecorded
      <3>4. CASE t \in active
        <4>1. <<t, s>> \in DOMAIN sz /\ sz[<<t, s>>] = Actual(t, s)
          BY <3>1, <3>4, PulledIsActual, Zenon
        <4> QED
          BY <3>3, <4>1, Zenon
      <3>5. CASE t \notin active
        <4>1. <<t, s>> \notin DOMAIN sz
          BY <3>1, <3>5 DEF PulledSizes
        <4>2. t \in LiveTables \ Due
          BY <2>3, <3>5, Zenon DEF Due
        <4>3. RecordedSize(table_size_map, t, s) = Actual(t, s)
          BY <1>3, <2>3, <4>2, Zenon DEF Current
        <4> QED
          BY <3>3, <4>1, <4>3, Zenon
      <3> QED
        BY <3>4, <3>5, Zenon
    <2>4. ASSUME ~Unloaded, pc # "size" PROVE RecordedSize(table_size_map, t, s) = Actual(t, s)
      BY <1>2, <1>3, <2>4, Zenon DEF Current
    <2>5. CASE Track /\ ~Unloaded /\ pc = "track"
      <3>1. RecordedSize(table_size_map, t, s)' = RecordedSize(table_size_map, t, s)
        BY <1>1, <2>1, <2>5, TrackedRecorded, Zenon
      <3> QED
        BY <2>4, <2>5, <3>1, Zenon
    <2>6. CASE FlushToTableSize /\ ~Unloaded /\ pc = "flush"
      <3> DEFINE e == <<t, TableSizeEntryId(s)>>
      <3>0. e[1] = t
        BY Zenon
      <3>1. PICK n : n = table_size_map' /\ n = Flushed(table_size_map)
        BY <2>6, Zenon DEF FlushToTableSize
      <3>2. /\ DOMAIN n = {x \in DOMAIN table_size_map : table_size_map[x].exist}
            /\ \A x \in DOMAIN n : n[x].size = table_size_map[x].size
        BY <1>1, <3>1, FlushedRecords
      <3>3. e \in DOMAIN table_size_map => table_size_map[e].exist
        BY <2>1, <2>6, <3>0, Zenon DEF Current
      <3>4. RecordedSize(table_size_map, t, s)' = IF e \in DOMAIN n THEN n[e].size[s] ELSE 0
        BY <3>1, Zenon DEF RecordedSize
      <3>5. RecordedSize(table_size_map, t, s) =
               IF e \in DOMAIN table_size_map THEN table_size_map[e].size[s] ELSE 0
        BY Zenon DEF RecordedSize
      <3> HIDE DEF e
      <3>6. CASE e \in DOMAIN table_size_map
        BY <2>4, <2>6, <3>2, <3>3, <3>4, <3>5, <3>6, Zenon
      <3>7. CASE e \notin DOMAIN table_size_map
        BY <2>4, <2>6, <3>2, <3>4, <3>5, <3>7, Zenon
      <3> QED
        BY <3>6, <3>7, Zenon
    <2> QED
      BY <1>1, <2>2, <2>3, <2>5, <2>6, Zenon
  <1>4. ASSUME pc' \in {"refresh", "flush"}, NEW e \in DOMAIN table_size_map', Live(e[1])'
        PROVE  table_size_map'[e].exist
    <2>1. Track /\ Live(e[1])
      BY <1>1, <1>4, Zenon DEF Live
    <2>2. table_size_map'[e].exist = TRUE
      BY <1>1, <2>1, Tracked, Zenon
    <2> QED
      BY <2>2, Zenon
  <1>5. ASSUME NEW t \in (LiveTables \ Due)', NEW s \in Segids, Comparable(s)'
        PROVE  RecordedSize(table_size_map, t, s)' = Actual(t, s)'
    <2>1. Actual(t, s)' = Actual(t, s)
      BY <1>1, ActualSame, Zenon
    <2>2. t \in LiveTables \ dirty /\ Comparable(s)
      BY <1>2, <1>5, Zenon DEF Comparable
    <2> QED
      BY <1>3, <2>1, <2>2, Zenon
  <1> QED
    BY <1>1, <1>4, <1>5, Zenon DEF Current

\* The steps between the passes leave sizes and files as they are.
LEMMA FrameCurrent ==
  ASSUME Current, LoadQuotas \/ PullActiveList \/ RefreshQuotaInfoMap \/ FlushLocalRejectMap
                  \/ DispatchRejectmap \/ UNCHANGED vars
  PROVE  Current'
  <1> USE DEF sessionVars, modelVars, rejectVars, rowVars
  <1>1. /\ UNCHANGED <<catalog, disk, table_size_map>> /\ (Unloaded' <=> Unloaded)
        /\ (Unloaded => UNCHANGED <<rows, dirty>>) /\ Due' = Due
        /\ (pc' \in {"refresh", "flush"} => pc \in {"refresh", "flush"} /\ dirty' = dirty)
    <2>1. CASE LoadQuotas
      BY <2>1, Zenon DEF LoadQuotas, Unloaded, Due
    <2>2. CASE PullActiveList
      <3>1. Due' = {} \cup dirty /\ Due = dirty
        BY <2>2, Zenon DEF PullActiveList, Due
      <3>2. Due' = Due
        BY <3>1
      <3> QED
        BY <2>2, <3>2, Zenon DEF PullActiveList, Unloaded
    <2>3. CASE RefreshQuotaInfoMap \/ FlushLocalRejectMap \/ DispatchRejectmap
      BY <2>3, Zenon DEF RefreshQuotaInfoMap, FlushLocalRejectMap, DispatchRejectmap, Unloaded, Due
    <2>4. CASE UNCHANGED vars
      BY <2>4, Zenon DEF vars, Unloaded, Due
    <2> QED
      BY <2>1, <2>2, <2>3, <2>4, Zenon
  <1>2. ASSUME NEW t, NEW s
        PROVE  /\ Actual(t, s)' = Actual(t, s) /\ (Live(t)' <=> Live(t)) /\ (Comparable(s)' <=> Comparable(s))
               /\ RecordedSize(table_size_map, t, s)' = RecordedSize(table_size_map, t, s)
    BY <1>1, ActualSame, Zenon DEF Live, RecordedSize, Comparable
  <1>3. LiveTables' = LiveTables
    BY <1>1, Zenon DEF LiveTables, Live
  <1>4. ASSUME Unloaded', NEW t \in (LiveTables \ dirty)', NEW s \in Segids
        PROVE  <<t, s>> \in DOMAIN rows' /\ rows'[<<t, s>>] = Actual(t, s)'
    <2>1. Unloaded /\ t \in LiveTables \ dirty /\ rows' = rows
      BY <1>1, <1>3, <1>4, Zenon
    <2>2. <<t, s>> \in DOMAIN rows /\ rows[<<t, s>>] = Actual(t, s)
      BY <2>1, Zenon DEF Current
    <2>3. Actual(t, s)' = Actual(t, s)
      BY <1>2, Zenon
    <2> QED
      BY <2>1, <2>2, <2>3, Zenon
  <1>5. ASSUME ~Unloaded', NEW t \in (LiveTables \ Due)', NEW s \in Segids, Comparable(s)'
        PROVE  RecordedSize(table_size_map, t, s)' = Actual(t, s)'
    <2>1. ~Unloaded /\ t \in LiveTables \ Due
      BY <1>1, <1>3, <1>5, Zenon
    <2>2. RecordedSize(table_size_map, t, s) = Actual(t, s)
      BY <1>2, <1>5, <2>1, Zenon DEF Current
    <2> QED
      BY <1>2, <2>2, Zenon
  <1>6. ASSUME pc' \in {"refresh", "flush"}, NEW e \in DOMAIN table_size_map', Live(e[1])', e[1] \notin dirty'
        PROVE  table_size_map'[e].exist
    <2>1. pc \in {"refresh", "flush"} /\ e \in DOMAIN table_size_map /\ Live(e[1]) /\ e[1] \notin dirty
      BY <1>1, <1>2, <1>6, Zenon
    <2> QED
      BY <1>1, <2>1, Zenon DEF Current
  <1> QED
    BY <1>4, <1>5, <1>6, Zenon DEF Current

\* No step leaves the invariant.
LEMMA CurNext == Shape /\ CurInv /\ [Next]_vars => CurInv'
  <1> SUFFICES ASSUME Shape, CurInv, [Next]_vars PROVE CurInv'
    OBVIOUS
  <1>1. ASSUME Session PROVE CatalogShape'
    BY <1>1, SessionFiles, Zenon DEF CurInv
  <1>2. ASSUME ~Session PROVE CatalogShape'
    <2>1. UNCHANGED catalog
      BY <1>2, Zenon DEF Next, Round, LoadQuotas, LoadTableSize, PullActiveList, PullSizes, Track,
         RefreshQuotaInfoMap, FlushToTableSize, FlushLocalRejectMap, DispatchRejectmap, vars, sessionVars,
         Failure, RoundFails, LoadQuotasFails, FetchFails, PullSizesFails, TrackFails, FlushFails,
         DispatchFails, Restart
    <2> QED
      BY <2>1, Zenon DEF CatalogShape, Live, CurInv
  <1>3. ASSUME failures' = 0, ~full' PROVE Current'
    <2>1. CASE Failure
      <3>1. failures' = failures + 1
        BY <2>1, Zenon DEF Failure, RoundFails, LoadQuotasFails, FetchFails, PullSizesFails,
           TrackFails, FlushFails, DispatchFails, Restart
      <3> QED
        BY <1>3, <3>1, FailuresCounted, Zenon DEF Shape
    <2>2. ASSUME ~Failure PROVE failures' = failures
      BY <2>2, Zenon DEF Next, Session, CreateTable, AlterTable, Write, DropTable, DropObject, SetQuota,
         DeleteQuota, Change, Round, LoadQuotas, LoadTableSize, PullActiveList, PullSizes, Track,
         RefreshQuotaInfoMap, FlushToTableSize, FlushLocalRejectMap, DispatchRejectmap, vars
    <2>3. ASSUME ~Failure PROVE Current /\ CatalogShape
      BY <1>3, <2>2, <2>3, FullStays, Zenon DEF CurInv
    <2> QED
      BY <1>3, <2>1, <2>3, SessionCurrent, PassCurrent, FrameCurrent, Zenon DEF Next, Round
  <1> QED
    BY <1>1, <1>2, <1>3, Zenon DEF CurInv

\* Between rounds the model has the size of every file on the primary segments
\* of a table that is not reported active, unless a round failed or a map was
\* full.
SegmentSizesAreCurrent ==
    pc = "idle" /\ inited /\ failures = 0 /\ ~full =>
        \A t \in LiveTables \ dirty, s \in Primaries : RecordedSize(table_size_map, t, s) = disk[t][s]

\* Between rounds the recorded sizes are those of the files, whatever sessions
\* did while the worker was reading them: on every primary segment, and in total
\* too where the coordinator has no files (pull_active_list_from_seg before
\* pull_active_table_size_from_seg, load_table_size).
THEOREM SizesAreCurrentAlways == Spec => [](SegmentSizesAreCurrent /\ (MasterSize = 0 => SizesAreCurrent))
  <1>1. Init => CurInv
    <2> SUFFICES ASSUME Init PROVE CatalogShape /\ Current
      BY Zenon DEF CurInv
    <2>1. PICK T \in SUBSET Tables, a \in Attrs :
            /\ catalog = [t \in Tables |-> IF t \in T THEN [state |-> "live", attr |-> a] ELSE NoTable]
            /\ rows = PulledSizes(T)
      BY Zenon DEF Init
    <2>2. pc = "idle" /\ ~inited
      BY Zenon DEF Init
    <2>3. NoTable.state # "live"
      BY DEF NoTable
    <2>4. \A t \in Tables : (Live(t) <=> t \in T) /\ (t \in T => catalog[t] = [state |-> "live", attr |-> a])
      <3> TAKE t \in Tables
      <3>1. CASE t \in T
        BY <2>1, <3>1 DEF Live
      <3>2. CASE t \notin T
        BY <2>1, <2>3, <3>2, Zenon DEF Live
      <3> QED
        BY <3>1, <3>2, Zenon
    <2>5. CatalogShape
      <3>1. DOMAIN catalog = Tables
        BY <2>1, Zenon
      <3>2. ASSUME NEW t \in Tables, Live(t) PROVE catalog[t] = [state |-> "live", attr |-> catalog[t].attr]
        BY <2>4, <3>2
      <3> QED
        BY <3>1, <3>2, Zenon DEF CatalogShape
    <2>6. ASSUME NEW t \in LiveTables, NEW s \in Segids
          PROVE  <<t, s>> \in DOMAIN rows /\ rows[<<t, s>>] = Actual(t, s)
      <3>1. t \in T
        BY <2>4, Zenon DEF LiveTables
      <3> QED
        BY <2>1, <3>1, PulledIsActual, Zenon
    <2> QED
      BY <2>2, <2>5, <2>6, Zenon DEF Current, Unloaded
  <1>2. CurInv => SegmentSizesAreCurrent /\ (MasterSize = 0 => SizesAreCurrent)
    <2> SUFFICES ASSUME CurInv, pc = "idle", inited, failures = 0, ~full, NEW t \in LiveTables \ dirty
                 PROVE  /\ \A s \in Primaries : RecordedSize(table_size_map, t, s) = disk[t][s]
                        /\ MasterSize = 0 => RecordedSize(table_size_map, t, -1) = DiskTotal(t)
      BY Zenon DEF SegmentSizesAreCurrent, SizesAreCurrent
    <2>1. Current /\ ~Unloaded /\ t \in LiveTables \ Due
      BY Zenon DEF CurInv, Unloaded, Due
    <2>2. \A s \in Segids : Comparable(s) => RecordedSize(table_size_map, t, s) = Actual(t, s)
      BY <2>1, Zenon DEF Current
    <2>3. -1 \in Segids /\ \A s \in Primaries : s \in Segids /\ s # -1
      BY ChunkAssumption DEF Primaries, Segids
    <2> QED
      BY <2>2, <2>3, Zenon DEF Comparable, Actual
  <1> QED
    BY <1>1, <1>2, ShapeAlways, CurNext, PTL DEF Spec

-----------------------------------------------------------------------------
(***************************************************************************)
(* The verdicts.                                                           *)
(***************************************************************************)
Hit(k) == \E e \in DOMAIN quota_info_map : e.key = k /\ HitsLimit(quota_info_map[e])
Deciding == pc \in {"flush", "reject"}
Marked(k) == k \in DOMAIN local_reject_map /\ local_reject_map[k].isexceeded

\* No excess is missed, whatever failed.
NoneMissed ==
    /\ Deciding => \A k : Hit(k) => Marked(k)
    /\ pc = "dispatch" => \A k : Hit(k) => k \in DOMAIN reject_map

\* No verdict is left over, as long as nothing failed.
NoneLeft ==
    /\ \A k \in DOMAIN local_reject_map : Marked(k) => Deciding /\ Hit(k)
    /\ DOMAIN reject_map \subseteq DOMAIN local_reject_map
    /\ pc = "dispatch" => \A k \in DOMAIN reject_map : Hit(k)

VerdictInv ==
    /\ ~full => NoneMissed
    /\ failures = 0 /\ ~full => NoneLeft

\* refresh_quota_info_map marks exactly the keys whose quota is hit.
LEMMA RefreshVerdicts ==
  ASSUME VerdictInv, RefreshQuotaInfoMap
  PROVE  VerdictInv'
  <1> DEFINE kept == {e \in DOMAIN quota_info_map : KeyExists(e.key)}
             over == {e \in kept : HitsLimit(quota_info_map[e])}
             X == {e.key : e \in over}
             needed == X \ DOMAIN local_reject_map
  <1>1. /\ pc = "refresh" /\ pc' = "flush" /\ UNCHANGED <<reject_map, failures>>
        /\ quota_info_map' = Remove(quota_info_map, DOMAIN quota_info_map \ kept)
    BY Zenon DEF RefreshQuotaInfoMap
  <1>2. PICK E \in Admitted(needed), last \in [X -> over] :
          /\ full' = (full \/ E # needed)
          /\ local_reject_map' =
               [k \in DOMAIN local_reject_map \cup E |->
                   IF k \in X THEN [isexceeded |-> TRUE, segexceeded |-> last[k].segid # -1]
                   ELSE local_reject_map[k]]
    BY Zenon DEF RefreshQuotaInfoMap
  <1>3. E \subseteq needed
    BY <1>2, Zenon DEF Admitted
  <1>4. ASSUME NEW k PROVE Hit(k)' <=> k \in X
    <2>1. DOMAIN quota_info_map' = kept /\ \A e \in kept : quota_info_map'[e] = quota_info_map[e]
      BY <1>1, Zenon DEF Remove
    <2> QED
      BY <2>1, Zenon DEF Hit
  <1>5. E \subseteq X /\ (~full' => ~full /\ X \subseteq DOMAIN local_reject_map \cup E)
    BY <1>2, <1>3, Zenon
  <1> HIDE DEF kept, over, X, needed
  <1>6. ASSUME NEW k \in DOMAIN local_reject_map' PROVE k \in X => local_reject_map'[k].isexceeded
    <2>1. k \in X => local_reject_map'[k] = [isexceeded |-> TRUE, segexceeded |-> last[k].segid # -1]
      BY <1>2, Zenon
    <2> QED
      BY <2>1
  <1>7. ASSUME NEW k \in DOMAIN local_reject_map' \ X
        PROVE  k \in DOMAIN local_reject_map /\ local_reject_map'[k] = local_reject_map[k]
    BY <1>2, <1>5, Zenon
  <1>8. DOMAIN local_reject_map' = DOMAIN local_reject_map \cup E
    BY <1>2, Zenon
  <1>9. Deciding' /\ ~Deciding
    BY <1>1, Zenon DEF Deciding
  <1>10. ASSUME ~full' PROVE NoneMissed'
    <2>1. ASSUME NEW k, Hit(k)' PROVE Marked(k)'
      BY <1>4, <1>5, <1>6, <1>8, <1>10, <2>1, Zenon DEF Marked
    <2> QED
      BY <1>1, <2>1, Zenon DEF NoneMissed
  <1>11. ASSUME failures' = 0, ~full' PROVE NoneLeft'
    <2>1. NoneLeft
      BY <1>1, <1>5, <1>11, Zenon DEF VerdictInv
    <2>2. ASSUME NEW k \in DOMAIN local_reject_map', Marked(k)' PROVE Hit(k)'
      <3>1. k \in X
        BY <1>7, <1>9, <2>1, <2>2, Zenon DEF NoneLeft, Marked
      <3> QED
        BY <1>4, <3>1, Zenon
    <2>3. DOMAIN reject_map' \subseteq DOMAIN local_reject_map'
      BY <1>1, <1>8, <2>1, Zenon DEF NoneLeft
    <2> QED
      BY <1>1, <1>9, <2>2, <2>3, Zenon DEF NoneLeft
  <1> QED
    BY <1>10, <1>11, Zenon DEF VerdictInv

\* flush_local_reject_map copies every mark, and drops every key without one.
LEMMA FlushVerdicts ==
  ASSUME VerdictInv, FlushLocalRejectMap
  PROVE  VerdictInv'
  <1> DEFINE X == {k \in DOMAIN local_reject_map : local_reject_map[k].isexceeded}
             gone == DOMAIN local_reject_map \ X
             needed == X \ DOMAIN reject_map
             verdict(k) == local_reject_map[k].segexceeded
             placed(E) == (X \cap DOMAIN reject_map) \cup E
  <1>1. pc = "reject" /\ pc' = "dispatch" /\ UNCHANGED <<failures, quota_info_map>>
    BY Zenon DEF FlushLocalRejectMap, modelVars
  <1>2. PICK E \in Admitted(needed) :
          /\ full' = (full \/ E # needed)
          /\ reject_map' = [k \in (DOMAIN reject_map \ gone) \cup E |->
                               IF k \in placed(E) THEN verdict(k) ELSE reject_map[k]]
          /\ local_reject_map' = [k \in X |-> IF k \in placed(E)
                                              THEN CopiedEntry(local_reject_map[k])
                                              ELSE local_reject_map[k]]
    BY Zenon DEF FlushLocalRejectMap
  <1>3. /\ DOMAIN reject_map' = (DOMAIN reject_map \ gone) \cup E /\ DOMAIN local_reject_map' = X
        /\ ~full' => ~full /\ E = needed
    BY <1>2, Zenon
  <1>4. ~Deciding' /\ Deciding /\ \A k : (Hit(k)' <=> Hit(k)) /\ (Marked(k) <=> k \in X)
    BY <1>1, Zenon DEF Deciding, Hit, Marked
  <1>5. ASSUME ~full', NEW k \in X PROVE ~local_reject_map'[k].isexceeded
    <2>1. k \in placed(E)
      BY <1>3, <1>5, Zenon
    <2>2. local_reject_map'[k] = [isexceeded |-> FALSE, segexceeded |-> FALSE]
      BY <1>2, <2>1, Zenon DEF CopiedEntry
    <2> QED
      BY <2>2
  <1>6. ASSUME ~full' PROVE NoneMissed'
    <2>1. NoneMissed
      BY <1>3, <1>6, Zenon DEF VerdictInv
    <2>2. ASSUME NEW k, Hit(k)' PROVE k \in DOMAIN reject_map'
      <3>1. k \in X
        BY <1>4, <2>1, <2>2, Zenon DEF NoneMissed
      <3> QED
        BY <1>3, <1>6, <3>1, Zenon
    <2> QED
      BY <1>4, <2>2, Zenon DEF NoneMissed
  <1>7. ASSUME failures' = 0, ~full' PROVE NoneLeft'
    <2>1. NoneLeft
      BY <1>1, <1>3, <1>7, Zenon DEF VerdictInv
    <2>2. DOMAIN reject_map' \subseteq X
      BY <1>3, <1>7, <2>1, Zenon DEF NoneLeft
    <2>3. \A k \in X : Hit(k)'
      BY <1>4, <2>1, Zenon DEF NoneLeft
    <2>4. \A k \in X : ~Marked(k)'
      BY <1>5, <1>7, Zenon DEF Marked
    <2> QED
      BY <1>3, <2>2, <2>3, <2>4, Zenon DEF NoneLeft
  <1> QED
    BY <1>6, <1>7, Zenon DEF VerdictInv

\* No step leaves the invariant.
LEMMA VerdictNext == Shape /\ VerdictInv /\ [Next]_vars => VerdictInv'
  <1> SUFFICES ASSUME Shape, VerdictInv, [Next]_vars PROVE VerdictInv'
    BY Zenon
  <1> USE DEF sessionVars, modelVars, rejectVars, rowVars
  <1>0. ~full' => ~full
    BY FullStays, Zenon
  <1>1. ASSUME UNCHANGED <<quota_info_map, rejectVars, pc, failures>> PROVE VerdictInv'
    BY <1>0, <1>1, Zenon DEF VerdictInv, NoneMissed, NoneLeft, Deciding, Hit, Marked
  <1>2. CASE Session \/ UNCHANGED vars
    BY <1>1, <1>2, Zenon DEF Session, CreateTable, AlterTable, Write, DropTable, DropObject,
       SetQuota, DeleteQuota, Change, vars
  <1>3. ASSUME UNCHANGED <<rejectVars, failures>>, ~Deciding, ~Deciding', pc' # "dispatch"
        PROVE  VerdictInv'
    BY <1>0, <1>3, Zenon DEF VerdictInv, NoneMissed, NoneLeft, Marked
  <1>4. CASE LoadQuotas \/ LoadTableSize \/ PullActiveList \/ PullSizes \/ Track
    BY <1>3, <1>4, Zenon DEF LoadQuotas, LoadTableSize, PullActiveList, PullSizes, Track, Deciding
  <1>5. CASE DispatchRejectmap
    <2>1. /\ UNCHANGED <<reject_map, local_reject_map, failures>> /\ ~Deciding /\ ~Deciding'
          /\ pc' # "dispatch"
      BY <1>5, Zenon DEF DispatchRejectmap, Deciding
    <2> QED
      BY <1>0, <2>1, Zenon DEF VerdictInv, NoneMissed, NoneLeft, Marked
  <1>6. CASE FlushToTableSize
    <2>1. /\ UNCHANGED <<quota_info_map, rejectVars, failures>> /\ Deciding /\ Deciding' /\ pc' # "dispatch"
      BY <1>6, Zenon DEF FlushToTableSize, Deciding
    <2> QED
      BY <1>0, <2>1, Zenon DEF VerdictInv, NoneMissed, NoneLeft, Hit, Marked
  <1>7. CASE Failure
    <2>1. failures' = failures + 1 /\ pc' = "idle"
      BY <1>7, Zenon DEF Failure, RoundFails, LoadQuotasFails, FetchFails, PullSizesFails,
         TrackFails, FlushFails, DispatchFails, Restart
    <2>2. failures' # 0
      BY <2>1, FailuresCounted, Zenon DEF Shape
    <2> QED
      BY <2>1, <2>2, Zenon DEF VerdictInv, NoneMissed, Deciding
  <1> QED
    BY <1>2, <1>4, <1>5, <1>6, <1>7, RefreshVerdicts, FlushVerdicts, Zenon DEF Next, Round

\* A key of the property exceeds its limit exactly if its quota is hit.
LEMMA ExceedsIsHit ==
  ASSUME Shape, UsageIsSum, NEW k \in AllKeys, KeyExists(k)
  PROVE  Exceeds(k) <=> Hit(k)
  <1> DEFINE x(s) == [key |-> k, segid |-> s]
             q == quota_info_map
  <1>1. ASSUME NEW s \in Segids, x(s) \in DOMAIN q
        PROVE  q[x(s)].size = ChargedSize(k, s) /\ x(s).key = k
    BY <1>1, Zenon DEF UsageIsSum
  <1>2. ASSUME Exceeds(k) PROVE Hit(k)
    <2>1. PICK s \in Segids : /\ x(s) \in DOMAIN q /\ q[x(s)].limit > 0
                              /\ ChargedSize(k, s) >= q[x(s)].limit
      BY <1>2, Zenon DEF Exceeds
    <2> QED
      BY <1>1, <2>1, Zenon DEF Hit, HitsLimit
  <1>3. ASSUME Hit(k) PROVE Exceeds(k)
    <2>1. PICK e \in DOMAIN q : e.key = k /\ q[e].limit > 0 /\ q[e].size >= q[e].limit
      BY <1>3, Zenon DEF Hit, HitsLimit
    <2>2. PICK s \in Segids : e = x(s)
      BY <2>1, Zenon DEF Shape, KeyShape
    <2> QED
      BY <1>1, <2>1, <2>2, Zenon DEF Exceeds
  <1> QED
    BY <1>2, <1>3, Zenon

\* After flush_local_reject_map a key is rejected exactly if the recorded sizes
\* of its tables reach the limit in force, in total or on a segment, as long as
\* no map was full.  Failed rounds hide no excess.
THEOREM RejectedIffExceededAlways == Spec => []RejectedIffExceeded
  <1>1. Init => VerdictInv
    <2> SUFFICES ASSUME Init PROVE VerdictInv
      BY Zenon
    <2>1. pc = "idle" /\ local_reject_map = Empty /\ reject_map = Empty
      BY Zenon DEF Init
    <2> QED
      BY <2>1, EmptyShape, Zenon DEF VerdictInv, NoneMissed, NoneLeft, Deciding
  <1>2. Shape /\ UsageIsSum /\ VerdictInv => RejectedIffExceeded
    BY ExceedsIsHit, Zenon DEF VerdictInv, NoneMissed, NoneLeft, RejectedIffExceeded
  <1> QED
    BY <1>1, <1>2, ShapeAlways, UsageIsSumAlways, VerdictNext, PTL DEF Spec

=============================================================================
