-------------------------- MODULE MaterializerProofs --------------------------
(***************************************************************************)
(* Theorems about Materializer, for any records, any definitions of the    *)
(* views, and any number of edits, faults and builds.                      *)
(***************************************************************************)
EXTENDS Materializer, FunctionTheorems, FiniteSetTheorems, SequenceTheorems, TLAPS

(* Lemmas about ranks, which put rows in order. *)

\* In a finite set with a total order, in which upto[x] are the elements up to x,
\* each element has a rank of its own and each rank has an element.
LEMMA Ranking ==
  ASSUME NEW S, IsFiniteSet(S), NEW upto \in [S -> SUBSET S],
         \A x, y \in S : x \in upto[y] \/ y \in upto[x],
         \A x, y \in S : x \in upto[y] /\ y \in upto[x] => x = y,
         \A x, y, z \in S : x \in upto[y] /\ y \in upto[z] => x \in upto[z]
  PROVE  /\ \A x \in S : Cardinality(upto[x]) \in 1..Cardinality(S)
         /\ \A x, y \in S : Cardinality(upto[x]) = Cardinality(upto[y]) => x = y
         /\ \A k \in 1..Cardinality(S) : \E x \in S : Cardinality(upto[x]) = k
         /\ \A x, y \in S : Cardinality(upto[x]) <= Cardinality(upto[y]) => x \in upto[y]
<1> DEFINE rank == [x \in S |-> Cardinality(upto[x])]
<1>1. \A x \in S : upto[x] \in SUBSET S /\ x \in upto[x]
  OBVIOUS
<1>2. Cardinality(S) \in Nat
  BY FS_CardinalityType
<1>3. ASSUME NEW x \in S
      PROVE  IsFiniteSet(upto[x]) /\ Cardinality(upto[x]) \in 1..Cardinality(S)
  <2>1. IsFiniteSet(upto[x]) /\ Cardinality(upto[x]) <= Cardinality(S)
    BY <1>1, FS_Subset
  <2>2. Cardinality(upto[x]) \in Nat /\ Cardinality(upto[x]) # 0
    BY <1>1, <2>1, FS_CardinalityType, FS_EmptySet
  <2> QED BY <1>2, <2>1, <2>2
<1>4. ASSUME NEW x \in S, NEW y \in S, x \in upto[y], x # y
      PROVE  Cardinality(upto[x]) < Cardinality(upto[y])
  <2>1. upto[x] \in SUBSET upto[y]
    BY <1>4
  <2>2. y \in upto[y] /\ y \notin upto[x]
    BY <1>1, <1>4
  <2>3. /\ Cardinality(upto[x]) <= Cardinality(upto[y])
        /\ Cardinality(upto[x]) # Cardinality(upto[y])
    BY <1>3, <2>1, <2>2, FS_Subset
  <2> QED BY <1>2, <1>3, <2>3
<1>5. \A x, y \in S : Cardinality(upto[x]) = Cardinality(upto[y]) => x = y
  <2> SUFFICES ASSUME NEW x \in S, NEW y \in S,
                      Cardinality(upto[x]) = Cardinality(upto[y]), x # y
               PROVE  FALSE
    OBVIOUS
  <2>1. \/ Cardinality(upto[x]) < Cardinality(upto[y])
        \/ Cardinality(upto[y]) < Cardinality(upto[x])
    BY <1>4
  <2>2. Cardinality(upto[x]) \in Int /\ Cardinality(upto[y]) \in Int
    BY <1>2, <1>3
  <2> QED BY <2>1, <2>2
<1>6. \A k \in 1..Cardinality(S) : \E x \in S : Cardinality(upto[x]) = k
  <2>1. rank \in [S -> 1..Cardinality(S)] /\ \A x, y \in S : rank[x] = rank[y] => x = y
    BY <1>3, <1>5
  <2>2. rank \in Injection(S, 1..Cardinality(S))
    <3> HIDE DEF rank
    <3> QED BY <2>1, Fun_IsInj
  <2>3. IsFiniteSet(1..Cardinality(S)) /\ Cardinality(1..Cardinality(S)) = Cardinality(S)
    BY <1>2, FS_Interval
  <2>4. rank \in Surjection(S, 1..Cardinality(S))
    <3> HIDE DEF rank
    <3> QED BY <2>2, <2>3, FS_Injection
  <2> QED BY <2>4 DEF Surjection
<1>7. \A x, y \in S : Cardinality(upto[x]) <= Cardinality(upto[y]) => x \in upto[y]
  <2> TAKE x, y \in S
  <2>1. Cardinality(upto[x]) \in Int /\ Cardinality(upto[y]) \in Int
    BY <1>2, <1>3
  <2>2. x \notin upto[y] => Cardinality(upto[y]) < Cardinality(upto[x])
    BY <1>1, <1>4
  <2> QED BY <2>1, <2>2
<1> QED
  BY <1>3, <1>5, <1>6, <1>7

\* In a finite set of integers, the one in the k-th place.
LEMMA Places ==
  ASSUME NEW P, P \subseteq Int, IsFiniteSet(P)
  PROVE  /\ \A i \in P : Place(i, P) \in 1..Cardinality(P)
         /\ \A i, j \in P : Place(i, P) = Place(j, P) => i = j
         /\ \A k \in 1..Cardinality(P) : \E i \in P : Place(i, P) = k
<1> DEFINE upto == [i \in P |-> {j \in P : j <= i}]
<1>1. /\ upto \in [P -> SUBSET P]
      /\ \A x, y \in P : x \in upto[y] <=> x <= y
  OBVIOUS
<1>2. \A i \in P : Cardinality(upto[i]) = Place(i, P)
  BY DEF Place
<1> HIDE DEF upto
<1>3. /\ \A x, y \in P : x \in upto[y] \/ y \in upto[x]
      /\ \A x, y \in P : x \in upto[y] /\ y \in upto[x] => x = y
      /\ \A x, y, z \in P : x \in upto[y] /\ y \in upto[z] => x \in upto[z]
  BY <1>1
<1>4. /\ \A i \in P : Cardinality(upto[i]) \in 1..Cardinality(P)
      /\ \A i, j \in P : Cardinality(upto[i]) = Cardinality(upto[j]) => i = j
      /\ \A k \in 1..Cardinality(P) : \E i \in P : Cardinality(upto[i]) = k
  BY <1>1, <1>3, Ranking
<1> QED
  BY <1>2, <1>4

\* The rows at some positions are as many, and are those rows.
LEMMA RowsAtPositions ==
  ASSUME NEW s \in Seq(Row), NEW P, P \subseteq DOMAIN s
  PROVE  /\ IsFiniteSet(P) /\ Cardinality(P) \in Nat
         /\ RowsAt(s, P) \in Seq(Row) /\ Len(RowsAt(s, P)) = Cardinality(P)
         /\ \A i \in P : \E k \in DOMAIN RowsAt(s, P) : RowsAt(s, P)[k] = s[i]
<1>1. DOMAIN s = 1..Len(s) /\ Len(s) \in Nat /\ \A i \in DOMAIN s : s[i] \in Row
  OBVIOUS
<1>2. IsFiniteSet(P) /\ P \subseteq Int /\ Cardinality(P) \in Nat
  <2>1. IsFiniteSet(1..Len(s))
    BY <1>1, FS_Interval
  <2> QED BY <1>1, <2>1, FS_Subset, FS_CardinalityType
<1> DEFINE place == [k \in 1..Cardinality(P) |-> CHOOSE i \in P : Place(i, P) = k]
<1>3. \A k \in 1..Cardinality(P) : place[k] \in P /\ Place(place[k], P) = k
  <2>1. \A k \in 1..Cardinality(P) : \E i \in P : Place(i, P) = k
    BY <1>2, Places
  <2> QED BY <2>1
<1>4. RowsAt(s, P) = [k \in 1..Cardinality(P) |-> s[place[k]]]
  BY DEF RowsAt
<1> HIDE DEF place
<1>5. \A k \in 1..Cardinality(P) : s[place[k]] \in Row
  <2>1. \A k \in 1..Cardinality(P) : place[k] \in P
    BY <1>3
  <2> QED BY <1>1, <2>1
<1>6. RowsAt(s, P) \in Seq(Row) /\ Len(RowsAt(s, P)) = Cardinality(P)
  BY <1>2, <1>4, <1>5
<1>7. ASSUME NEW i \in P
      PROVE  \E k \in DOMAIN RowsAt(s, P) : RowsAt(s, P)[k] = s[i]
  <2> DEFINE k == Place(i, P)
  <2>1. k \in 1..Cardinality(P)
    BY <1>2, Places
  <2>2. place[k] = i
    <3>1. place[k] \in P /\ Place(place[k], P) = Place(i, P)
      BY <1>3, <2>1
    <3> QED BY <1>2, <3>1, Places
  <2> HIDE DEF k
  <2> QED BY <1>4, <2>1, <2>2
<1> QED
  BY <1>2, <1>6, <1>7

\* Values are in order, nil first.
LEMMA Ordered ==
  ASSUME NEW a \in FieldContents, NEW b \in FieldContents, NEW c \in FieldContents
  PROVE  /\ ~Before(a, a)
         /\ Before(a, b) \/ Before(b, a) \/ a = b
         /\ ~(Before(a, b) /\ Before(b, a))
         /\ Before(a, b) /\ Before(b, c) => Before(a, c)
<1>1. \A x \in FieldContents : x = NoValue \/ (x \in Int /\ x # NoValue)
  BY AbsentAssumption, IdsAssumption DEF FieldContents
<1>2. ~Before(a, a)
  BY <1>1 DEF Before, Below
<1>3. Before(a, b) \/ Before(b, a) \/ a = b
  BY <1>1 DEF Before, Below
<1>4. ~(Before(a, b) /\ Before(b, a))
  BY <1>1 DEF Before, Below
<1>5. Before(a, b) /\ Before(b, c) => Before(a, c)
  BY <1>1 DEF Before, Below
<1> QED
  BY <1>2, <1>3, <1>4, <1>5

\* Sorting moves each row to a place of its own, in order.
LEMMA Sorts ==
  ASSUME NEW s \in Seq(Row)
  PROVE  \E to \in [DOMAIN s -> DOMAIN s] :
           /\ StableSort(s) \in Seq(Row) /\ Len(StableSort(s)) = Len(s)
           /\ \A r \in DOMAIN s : StableSort(s)[r] = s[to[r]]
           /\ \A i \in DOMAIN s : \E r \in DOMAIN s : to[r] = i
           /\ \A q, r \in DOMAIN s : to[q] = to[r] => q = r
           /\ \A q, r \in DOMAIN s : q < r => ~Before(s[to[r]].val, s[to[q]].val)
<1> DEFINE D == DOMAIN s
           upto == [i \in D |-> {j \in D : \/ Before(s[j].val, s[i].val)
                                           \/ s[j].val = s[i].val /\ j <= i}]
           to == [r \in D |-> CHOOSE i \in D : Rank(s, i) = r]
<1>1. D = 1..Len(s) /\ Len(s) \in Nat /\ IsFiniteSet(D) /\ Cardinality(D) = Len(s)
  <2>1. D = 1..Len(s) /\ Len(s) \in Nat
    OBVIOUS
  <2>2. IsFiniteSet(1..Len(s)) /\ Cardinality(1..Len(s)) = Len(s)
    BY <2>1, FS_Interval
  <2> QED BY <2>1, <2>2
<1>2. \A i \in D : s[i].val \in FieldContents
  <2>1. \A i \in D : s[i] \in Row
    OBVIOUS
  <2> QED BY <2>1 DEF Row
<1>18. upto \in [D -> SUBSET D]
  OBVIOUS
<1>3. \A i, j \in D : i \in upto[j] <=> \/ Before(s[i].val, s[j].val)
                                        \/ s[i].val = s[j].val /\ i <= j
  OBVIOUS
<1>4. \A i \in D : Cardinality(upto[i]) = Rank(s, i)
  <2>1. \A i \in D : upto[i] = {j \in D : \/ Before(s[j].val, s[i].val)
                                          \/ s[j].val = s[i].val /\ j <= i}
    OBVIOUS
  <2> QED BY <2>1 DEF Rank
<1> HIDE DEF D, upto
<1>6. \A i, j \in D : i \in upto[j] \/ j \in upto[i]
  <2> TAKE i, j \in D
  <2>1. Before(s[i].val, s[j].val) \/ Before(s[j].val, s[i].val) \/ s[i].val = s[j].val
    BY <1>2, Ordered
  <2>2. i <= j \/ j <= i
    BY <1>1
  <2> QED BY <1>3, <2>1, <2>2
<1>7. \A i, j \in D : i \in upto[j] /\ j \in upto[i] => i = j
  <2> SUFFICES ASSUME NEW i \in D, NEW j \in D, i \in upto[j], j \in upto[i]
               PROVE  i = j
    OBVIOUS
  <2>1. ~(Before(s[i].val, s[j].val) /\ Before(s[j].val, s[i].val))
    BY <1>2, Ordered
  <2>2. s[i].val = s[j].val => ~Before(s[i].val, s[j].val) /\ ~Before(s[j].val, s[i].val)
    BY <1>2, Ordered
  <2> QED BY <1>1, <1>3, <2>1, <2>2
<1>8. \A i, j, k \in D : i \in upto[j] /\ j \in upto[k] => i \in upto[k]
  <2> SUFFICES ASSUME NEW i \in D, NEW j \in D, NEW k \in D,
                      i \in upto[j], j \in upto[k]
               PROVE  i \in upto[k]
    OBVIOUS
  <2>1. Before(s[i].val, s[j].val) /\ Before(s[j].val, s[k].val) => Before(s[i].val, s[k].val)
    BY <1>2, Ordered
  <2> QED BY <1>1, <1>3, <2>1
<1>5. /\ \A i \in D : Cardinality(upto[i]) \in 1..Cardinality(D)
      /\ \A i, j \in D : Cardinality(upto[i]) = Cardinality(upto[j]) => i = j
      /\ \A k \in 1..Cardinality(D) : \E i \in D : Cardinality(upto[i]) = k
      /\ \A i, j \in D : Cardinality(upto[i]) <= Cardinality(upto[j]) => i \in upto[j]
  <2>1. IsFiniteSet(D)
    BY <1>1
  <2> QED BY <1>18, <1>6, <1>7, <1>8, <2>1, Ranking
<1>9. /\ \A i \in D : Rank(s, i) \in D
      /\ \A i, j \in D : Rank(s, i) = Rank(s, j) => i = j
      /\ \A k \in D : \E i \in D : Rank(s, i) = k
      /\ \A i, j \in D : Rank(s, i) <= Rank(s, j) => i \in upto[j]
  BY <1>1, <1>4, <1>5
<1>10. \A r \in D : to[r] \in D /\ Rank(s, to[r]) = r
  <2> TAKE r \in D
  <2>1. \E i \in D : Rank(s, i) = r
    BY <1>9
  <2> QED BY <2>1
<1>11. StableSort(s) = [r \in D |-> s[to[r]]]
  BY DEF StableSort, D
<1>12. to \in [D -> D]
  BY <1>10
<1> HIDE DEF to
<1>13. StableSort(s) \in Seq(Row) /\ Len(StableSort(s)) = Len(s)
  <2>1. \A i \in D : s[i] \in Row
    BY DEF D
  <2>2. StableSort(s) \in [1..Len(s) -> Row]
    BY <1>1, <1>10, <1>11, <2>1
  <2> QED BY <1>1, <2>2
<1>14. \A i \in D : \E r \in D : to[r] = i
  <2> TAKE i \in D
  <2>1. Rank(s, i) \in D
    BY <1>9
  <2>2. to[Rank(s, i)] = i
    BY <1>9, <1>10, <2>1
  <2> QED BY <2>1, <2>2
<1>15. \A q, r \in D : to[q] = to[r] => q = r
  BY <1>10
<1>16. \A q, r \in D : q < r => ~Before(s[to[r]].val, s[to[q]].val)
  <2> SUFFICES ASSUME NEW q \in D, NEW r \in D, q < r PROVE ~Before(s[to[r]].val, s[to[q]].val)
    OBVIOUS
  <2>2. to[q] \in D /\ to[r] \in D /\ Rank(s, to[q]) = q /\ Rank(s, to[r]) = r
    BY <1>10
  <2>1. to[q] \in upto[to[r]]
    <3>1. Rank(s, to[q]) <= Rank(s, to[r])
      BY <1>1, <2>2
    <3> QED BY <1>9, <2>2, <3>1
  <2>3. \/ Before(s[to[q]].val, s[to[r]].val)
        \/ s[to[q]].val = s[to[r]].val
    BY <1>3, <2>1, <2>2
  <2> QED BY <1>2, <2>2, <2>3, Ordered
<1>17. \A r \in D : StableSort(s)[r] = s[to[r]]
  BY <1>11
<1> QED
  BY <1>12, <1>13, <1>14, <1>15, <1>16, <1>17 DEF D

-----------------------------------------------------------------------------
(* Lemmas about what is written. *)

\* What rounding up gives: the batches before the last do not reach the end, and
\* the last does.
LEMMA RoundsUp ==
  ASSUME NEW L \in Nat, NEW b \in Nat, b > 0, L > b
  PROVE  LET T == (L + b - 1) \div b
         IN T \in Nat /\ 1 < T /\ T <= L /\ (T - 1) * b < L /\ L <= T * b
<1> DEFINE T == (L + b - 1) \div b
<1>1. T \in Int /\ (T - 1) * b < L /\ L <= T * b
  OBVIOUS
<1> HIDE DEF T
<1>2. 1 < T
  BY <1>1
<1>3. T <= L
  BY <1>1
<1> QED
  BY <1>1, <1>2, <1>3 DEF T

LEMMA BatchBounds ==
  ASSUME NEW L \in Nat, NEW b \in Nat, b > 0, NEW T \in Int, (T - 1) * b < L, L <= T * b,
         NEW n \in 1..T
  PROVE  /\ (n - 1) * b \in Nat /\ (n - 1) * b < L
         /\ n * b \in Nat /\ n * b - (n - 1) * b = b
OBVIOUS

LEMMA FiniteImage ==
  ASSUME NEW S, IsFiniteSet(S), NEW g
  PROVE  IsFiniteSet({g[x] : x \in S})
<1> DEFINE T == {g[x] : x \in S}
           f == [x \in S |-> g[x]]
<1>1. f \in [S -> T] /\ \A t \in T : \E x \in S : f[x] = t
  OBVIOUS
<1>2. f \in Surjection(S, T)
  <2> HIDE DEF f, T
  <2> QED BY <1>1, Fun_IsSurj
<1>3. IsFiniteSet(T)
  <2> HIDE DEF f, T
  <2> QED BY <1>2, FS_Surjection
<1> QED
  BY <1>3

\* More than one file is written only for more rows than a file may hold.
LEMMA ManyBatches ==
  ASSUME setup \in Setup, NEW s \in Seq(Row)
  PROVE  /\ TotalBatches(s) \in Nat \ {0}
         /\ TotalBatches(s) = 1 <=> setup.batchSize = 0 \/ Len(s) <= setup.batchSize
         /\ TotalBatches(s) # 1 =>
              /\ setup.batchSize \in Nat /\ setup.batchSize > 0
              /\ TotalBatches(s) <= Len(s)
              /\ (TotalBatches(s) - 1) * setup.batchSize < Len(s)
              /\ Len(s) <= TotalBatches(s) * setup.batchSize
<1>1. setup.batchSize \in Nat /\ Len(s) \in Nat
  BY DEF Setup
<1>2. CASE setup.batchSize > 0 /\ Len(s) > setup.batchSize
  <2>1. TotalBatches(s) = (Len(s) + setup.batchSize - 1) \div setup.batchSize
    BY <1>2 DEF TotalBatches
  <2>2. /\ TotalBatches(s) \in Nat /\ 1 < TotalBatches(s) /\ TotalBatches(s) <= Len(s)
        /\ (TotalBatches(s) - 1) * setup.batchSize < Len(s)
        /\ Len(s) <= TotalBatches(s) * setup.batchSize
    BY <1>1, <1>2, <2>1, RoundsUp
  <2> QED BY <1>1, <1>2, <2>2
<1>3. CASE ~(setup.batchSize > 0 /\ Len(s) > setup.batchSize)
  <2>1. TotalBatches(s) = 1
    BY <1>3 DEF TotalBatches
  <2> QED BY <1>1, <1>3, <2>1
<1> QED
  BY <1>2, <1>3

\* Each batch holds rows, no more than allowed, in the order they are read.
LEMMA BatchHolds ==
  ASSUME setup \in Setup, NEW s \in Seq(Row), TotalBatches(s) # 1,
         NEW n \in 1..TotalBatches(s)
  PROVE  /\ BatchRows(s, n) \in Seq(Row)
         /\ Len(BatchRows(s, n)) = Least(n * setup.batchSize, Len(s)) - (n - 1) * setup.batchSize
         /\ Len(BatchRows(s, n)) \in 1..setup.batchSize
         /\ \A k \in 1..Len(BatchRows(s, n)) :
              BatchRows(s, n)[k] = s[(n - 1) * setup.batchSize + k]
<1> DEFINE b == setup.batchSize
           T == TotalBatches(s)
           first == (n - 1) * b
           last == Least(n * b, Len(s))
<1>1. Len(s) \in Nat /\ b \in Nat /\ b > 0 /\ T \in Nat /\ (T - 1) * b < Len(s) /\ Len(s) <= T * b
  BY ManyBatches
<1>2. n \in 1..T
  OBVIOUS
<1>3. first \in Nat /\ first < Len(s) /\ n * b \in Nat /\ n * b - first = b
  <2> HIDE DEF b, T
  <2> QED BY <1>1, <1>2, BatchBounds
<1>4. last \in Nat /\ last <= Len(s) /\ first < last /\ last <= first + b
  <2> DEFINE e == n * b
  <2>1. e \in Nat /\ e - first = b
    BY <1>3
  <2> HIDE DEF e, first, b
  <2>2. Least(e, Len(s)) \in Nat /\ Least(e, Len(s)) <= Len(s) /\ first < Least(e, Len(s))
          /\ Least(e, Len(s)) <= first + b
    BY <1>1, <1>3, <2>1 DEF Least
  <2> QED BY <2>2 DEF e
<1>5. BatchRows(s, n) = SubSeq(s, first + 1, last)
  BY DEF BatchRows
<1>6. \A i \in first + 1 .. last : s[i] \in Row
  <2>1. \A i \in 1..Len(s) : s[i] \in Row
    OBVIOUS
  <2> HIDE DEF first, last, b
  <2>2. \A i \in first + 1 .. last : i \in 1..Len(s)
    BY <1>1, <1>3, <1>4
  <2> QED BY <2>1, <2>2
<1> HIDE DEF first, last, b, T
<1>7. /\ BatchRows(s, n) \in Seq(Row)
      /\ Len(BatchRows(s, n)) = IF first + 1 <= last THEN last - (first + 1) + 1 ELSE 0
      /\ \A k \in 1 .. last - (first + 1) + 1 : BatchRows(s, n)[k] = s[first + 1 + k - 1]
  BY <1>3, <1>4, <1>5, <1>6, SubSeqProperties
<1>8. Len(BatchRows(s, n)) = last - first
  BY <1>3, <1>4, <1>7
<1>9. Len(BatchRows(s, n)) \in 1..b
  BY <1>1, <1>3, <1>4, <1>8
<1>10. ASSUME NEW k \in 1..Len(BatchRows(s, n)) PROVE BatchRows(s, n)[k] = s[first + k]
  <2>1. k \in 1 .. last - (first + 1) + 1 /\ first + 1 + k - 1 = first + k
    BY <1>3, <1>4, <1>8
  <2> QED BY <1>7, <2>1
<1> QED
  BY <1>7, <1>8, <1>9, <1>10 DEF first, last, b

\* Which files a view writes: no view writes those of another one.
KindsOf(v) == CASE v = "default" -> {"default", "batch", "fk"}
                [] v = "named" -> {"named"}
                [] v = "partitioned" -> {"part"}

LEMMA DefaultWritesType ==
  ASSUME setup \in Setup, NEW s \in Seq(Row), Len(s) <= Cardinality(Ids)
  PROVE  /\ DefaultWrites(s) \subseteq Writes /\ IsFiniteSet(DefaultWrites(s))
         /\ \A w \in DefaultWrites(s) : w.path.kind \in {"default", "batch"}
         /\ \A u, w \in DefaultWrites(s) : u.path = w.path => u = w
<1>1. CASE TotalBatches(s) = 1
  <2> DEFINE w == WriteOf(Path("default", 0), s, 0)
  <2>1. DefaultWrites(s) = {w}
    BY <1>1 DEF DefaultWrites
  <2>2. w \in Writes /\ w.path.kind = "default"
    BY DEF WriteOf, Path, Paths, Writes
  <2> HIDE DEF w
  <2> QED BY <2>1, <2>2, FS_Singleton
<1>2. CASE TotalBatches(s) # 1
  <2> DEFINE T == TotalBatches(s)
             write == [n \in 1..T |-> WriteOf(Path("batch", n), BatchRows(s, n), n)]
  <2>1. DefaultWrites(s) = {write[n] : n \in 1..T}
    BY <1>2 DEF DefaultWrites
  <2>2. T \in Nat /\ T <= Len(s) /\ Len(s) \in Nat /\ Cardinality(Ids) \in Nat
    BY <1>2, ManyBatches, IdsAssumption, FS_CardinalityType
  <2>3. \A n \in 1..T : BatchRows(s, n) \in Seq(Row)
    BY <1>2, BatchHolds
  <2>4. ASSUME NEW n \in 1..T
        PROVE  /\ write[n] \in Writes
               /\ write[n].path.kind = "batch" /\ write[n].path.key = n
    <3>1. n \in 1..Cardinality(Ids) /\ n \in Nat
      BY <2>2
    <3>2. Path("batch", n) \in Paths
      BY <3>1 DEF Path, Paths
    <3>3. write[n] = [path |-> Path("batch", n), content |-> BatchRows(s, n), rank |-> n]
      BY DEF WriteOf
    <3> HIDE DEF write
    <3> QED BY <2>3, <3>1, <3>2, <3>3 DEF Writes, Path
  <2>5. IsFiniteSet(1..T)
    BY <2>2, FS_Interval
  <2> HIDE DEF write, T
  <2>6. IsFiniteSet(DefaultWrites(s))
    <3> DEFINE numbers == 1..T
    <3>1. DefaultWrites(s) = {write[n] : n \in numbers} /\ IsFiniteSet(numbers)
      BY <2>1, <2>5
    <3> HIDE DEF numbers
    <3> QED BY <3>1, FiniteImage
  <2>7. \A u, w \in DefaultWrites(s) : u.path = w.path => u = w
    BY <2>1, <2>4
  <2> QED BY <2>1, <2>4, <2>6, <2>7
<1> QED
  BY <1>1, <1>2

LEMMA ValuesAreFinite ==
  ASSUME NEW s \in Seq(Row)
  PROVE  IsFiniteSet(ValuesIn(s)) /\ ValuesIn(s) \subseteq FieldValues
<1>1. \A i \in DOMAIN s : s[i] \in Row
  OBVIOUS
<1>2. ValuesIn(s) \subseteq FieldValues
  BY <1>1 DEF ValuesIn, Row, FieldContents
<1> DEFINE value == [i \in DOMAIN s |-> s[i].val]
           all == {value[i] : i \in DOMAIN s}
<1>3. IsFiniteSet(DOMAIN s)
  <2>1. Len(s) \in Nat /\ DOMAIN s = 1..Len(s)
    OBVIOUS
  <2>2. IsFiniteSet(1..Len(s))
    BY <2>1, FS_Interval
  <2> QED BY <2>1, <2>2
<1>4. IsFiniteSet(all)
  <2> HIDE DEF value
  <2> QED BY <1>3, FiniteImage
<1>5. ValuesIn(s) \subseteq all
  BY DEF ValuesIn
<1> HIDE DEF all
<1> QED
  BY <1>2, <1>4, <1>5, FS_Subset

LEMMA WithValueHolds ==
  ASSUME NEW s \in Seq(Row), NEW v
  PROVE  /\ WithValue(s, v) \in Seq(Row)
         /\ Len(WithValue(s, v)) = Cardinality({i \in DOMAIN s : s[i].val = v})
<1> DEFINE P == {i \in DOMAIN s : s[i].val = v}
<1>1. WithValue(s, v) = RowsAt(s, P) /\ P \subseteq DOMAIN s
  BY DEF WithValue
<1>2. WithValue(s, v) \in Seq(Row) /\ Len(WithValue(s, v)) = Cardinality(P)
  <2> HIDE DEF P
  <2> QED BY <1>1, RowsAtPositions
<1> QED
  BY <1>2

LEMMA WithValueKeeps ==
  ASSUME NEW s \in Seq(Row), NEW v, NEW i \in DOMAIN s, s[i].val = v
  PROVE  \E k \in DOMAIN WithValue(s, v) : WithValue(s, v)[k] = s[i]
<1> DEFINE P == {j \in DOMAIN s : s[j].val = v}
<1>1. WithValue(s, v) = RowsAt(s, P) /\ P \subseteq DOMAIN s /\ i \in P
  BY DEF WithValue
<1> HIDE DEF P
<1> QED
  BY <1>1, RowsAtPositions

LEMMA GroupWritesType ==
  ASSUME NEW kind \in {"fk", "part"}, NEW s \in Seq(Row), NEW rank \in Nat
  PROVE  /\ GroupWrites(kind, s, rank) \subseteq Writes
         /\ IsFiniteSet(GroupWrites(kind, s, rank))
         /\ \A w \in GroupWrites(kind, s, rank) : w.path.kind = kind
         /\ (kind = "part" => setup.placed) =>
              \A u, w \in GroupWrites(kind, s, rank) : u.path = w.path => u = w
<1> DEFINE write == [v \in ValuesIn(s) |-> WriteOf(GroupPath(kind, v), WithValue(s, v), rank)]
<1>1. GroupWrites(kind, s, rank) = {write[v] : v \in ValuesIn(s)}
  BY DEF GroupWrites
<1>2. ASSUME NEW v \in ValuesIn(s)
      PROVE  write[v] \in Writes /\ write[v].path = GroupPath(kind, v)
  <2>1. v \in FieldValues
    BY ValuesAreFinite
  <2>2. GroupPath(kind, v) \in Paths
    BY <2>1 DEF GroupPath, Path, Paths
  <2>3. WithValue(s, v) \in Seq(Row)
    BY WithValueHolds
  <2>4. write[v] = [path |-> GroupPath(kind, v), content |-> WithValue(s, v), rank |-> rank]
    BY DEF WriteOf
  <2> HIDE DEF write
  <2> QED BY <2>2, <2>3, <2>4 DEF Writes
<1>3. \A v \in ValuesIn(s) : GroupPath(kind, v).kind = kind
  BY DEF GroupPath, Path
<1>4. (kind = "part" => setup.placed) => \A v \in ValuesIn(s) : GroupPath(kind, v).key = v
  BY DEF GroupPath, Path
<1> HIDE DEF write
<1>5. IsFiniteSet(GroupWrites(kind, s, rank))
  BY <1>1, ValuesAreFinite, FiniteImage
<1>6. ASSUME kind = "part" => setup.placed, NEW u \in GroupWrites(kind, s, rank),
             NEW w \in GroupWrites(kind, s, rank), u.path = w.path
      PROVE  u = w
  <2>1. PICK x \in ValuesIn(s) : u = write[x]
    BY <1>1
  <2>2. PICK y \in ValuesIn(s) : w = write[y]
    BY <1>1
  <2>3. x = GroupPath(kind, x).key /\ y = GroupPath(kind, y).key
    BY <1>4, <1>6
  <2>4. GroupPath(kind, x) = GroupPath(kind, y)
    BY <1>2, <1>6, <2>1, <2>2
  <2> QED BY <2>1, <2>2, <2>3, <2>4
<1>7. GroupWrites(kind, s, rank) \subseteq Writes
  BY <1>1, <1>2
<1>8. \A w \in GroupWrites(kind, s, rank) : w.path.kind = kind
  BY <1>1, <1>2, <1>3
<1> QED
  BY <1>5, <1>6, <1>7, <1>8

LEMMA NamedRowsHold ==
  ASSUME setup \in Setup, NEW s \in Seq(Row)
  PROVE  LET m == IF setup.top > 0 THEN Least(setup.top, Len(s)) ELSE Len(s)
         IN /\ m \in 0..Len(s)
            /\ NamedRows(s) \in Seq(Row) /\ Len(NamedRows(s)) = m
            /\ \A i \in 1..m : NamedRows(s)[i] = s[i]
<1> DEFINE m == IF setup.top > 0 THEN Least(setup.top, Len(s)) ELSE Len(s)
<1>1. Len(s) \in Nat /\ setup.top \in Nat
  BY DEF Setup
<1>2. m \in 0..Len(s)
  BY <1>1 DEF Least
<1>3. NamedRows(s) = SubSeq(s, 1, m)
  BY DEF NamedRows
<1>4. \A i \in 1..Len(s) : s[i] \in Row
  OBVIOUS
<1> HIDE DEF m
<1>5. \A i \in 1..m : s[i] \in Row
  BY <1>1, <1>2, <1>4
<1>6. /\ NamedRows(s) \in Seq(Row)
      /\ Len(NamedRows(s)) = IF 1 <= m THEN m - 1 + 1 ELSE 0
      /\ \A i \in 1 .. m - 1 + 1 : NamedRows(s)[i] = s[1 + i - 1]
  BY <1>1, <1>2, <1>3, <1>5, SubSeqProperties
<1>7. Len(NamedRows(s)) = m /\ \A i \in 1..m : NamedRows(s)[i] = s[i]
  BY <1>1, <1>2, <1>6
<1> QED
  BY <1>2, <1>6, <1>7 DEF m

LEMMA FilterType ==
  ASSUME NEW s \in Seq(Row)
  PROVE  FilterColumns(s) \in Seq(Row)
<1>1. Len(s) \in Nat /\ DOMAIN s = 1..Len(s) /\ \A i \in 1..Len(s) : s[i] \in Row
  OBVIOUS
<1>2. \A i \in 1..Len(s) : [s[i] EXCEPT !.val = NoValue] \in Row
  BY <1>1 DEF Row, FieldContents
<1>3. [i \in DOMAIN s |-> [s[i] EXCEPT !.val = NoValue]] \in [1..Len(s) -> Row]
  BY <1>1, <1>2
<1> QED
  BY <1>1, <1>3 DEF FilterColumns

Views == {"default", "named", "partitioned"}

\* What a view writes has a place on disk, a path of its own, and an end.
LEMMA WritesType ==
  ASSUME setup \in Setup, NEW v \in Views, NEW s \in Seq(Row), Len(s) <= Cardinality(Ids)
  PROVE  /\ WritesOf(v, s) \subseteq Writes /\ IsFiniteSet(WritesOf(v, s))
         /\ \A w \in WritesOf(v, s) : w.path.kind \in KindsOf(v)
         /\ (v = "partitioned" => setup.placed) =>
              \A u, w \in WritesOf(v, s) : u.path = w.path => u = w
<1>1. CASE v = "default"
  <2> DEFINE D == DefaultWrites(s)
             G == FKWrites(s)
  <2>1. WritesOf(v, s) = D \cup G
    BY <1>1 DEF WritesOf
  <2>2. /\ D \subseteq Writes /\ IsFiniteSet(D)
        /\ \A w \in D : w.path.kind \in {"default", "batch"}
        /\ \A u, w \in D : u.path = w.path => u = w
    BY DefaultWritesType
  <2>3. TotalBatches(s) + 1 \in Nat
    BY ManyBatches
  <2>9. G = {} \/ G = GroupWrites("fk", s, TotalBatches(s) + 1)
    BY DEF FKWrites
  <2> DEFINE F == GroupWrites("fk", s, TotalBatches(s) + 1)
  <2>10. /\ F \subseteq Writes /\ IsFiniteSet(F)
         /\ \A w \in F : w.path.kind = "fk"
         /\ \A u, w \in F : u.path = w.path => u = w
    BY <2>3, GroupWritesType
  <2> HIDE DEF F, G
  <2>4. G \subseteq Writes /\ IsFiniteSet(G)
    BY <2>9, <2>10, FS_EmptySet DEF F
  <2>5. \A w \in G : w.path.kind = "fk"
    BY <2>9, <2>10 DEF F
  <2>6. \A u, w \in G : u.path = w.path => u = w
    BY <2>9, <2>10 DEF F
  <2> HIDE DEF D, G
  <2>7. IsFiniteSet(WritesOf(v, s))
    <3>1. IsFiniteSet(D) /\ IsFiniteSet(G)
      BY <2>2, <2>4
    <3>2. IsFiniteSet(D \cup G)
      BY <3>1, FS_Union
    <3> QED BY <2>1, <3>2
  <2>8. \A u, w \in WritesOf(v, s) : u.path = w.path => u = w
    BY <2>1, <2>2, <2>5, <2>6
  <2> QED BY <1>1, <2>1, <2>2, <2>4, <2>5, <2>7, <2>8 DEF KindsOf
<1>2. CASE v = "partitioned"
  <2> DEFINE t == StableSort(s)
  <2>1. WritesOf(v, s) = GroupWrites("part", t, 0)
    BY <1>2 DEF WritesOf
  <2>2. t \in Seq(Row)
    BY Sorts
  <2> HIDE DEF t
  <2>3. WritesOf(v, s) \subseteq Writes /\ IsFiniteSet(WritesOf(v, s))
    BY <2>1, <2>2, GroupWritesType
  <2>4. \A w \in WritesOf(v, s) : w.path.kind = "part"
    BY <2>1, <2>2, GroupWritesType
  <2>5. setup.placed => \A u, w \in WritesOf(v, s) : u.path = w.path => u = w
    BY <2>1, <2>2, GroupWritesType
  <2> QED BY <1>2, <2>3, <2>4, <2>5 DEF KindsOf
<1>3. CASE v = "named"
  <2> DEFINE t == StableSort(FilterColumns(s))
             w == WriteOf(Path("named", 0), NamedRows(t), 0)
  <2>1. WritesOf(v, s) = {w}
    BY <1>3 DEF WritesOf
  <2>2. t \in Seq(Row)
    BY FilterType, Sorts
  <2>3. NamedRows(t) \in Seq(Row)
    <3> HIDE DEF t
    <3> QED BY <2>2, NamedRowsHold
  <2>4. w \in Writes /\ w.path.kind = "named"
    BY <2>3 DEF WriteOf, Path, Paths, Writes
  <2> HIDE DEF w
  <2>5. IsFiniteSet({w})
    BY FS_Singleton
  <2> QED BY <1>3, <2>1, <2>4, <2>5 DEF KindsOf
<1> QED
  BY <1>1, <1>2, <1>3 DEF Views

\* Views do not share files.
LEMMA OwnFiles ==
  ASSUME setup \in Setup, NEW v \in Views, NEW u \in Views, u # v,
         NEW s \in Seq(Row), Len(s) <= Cardinality(Ids),
         NEW t \in Seq(Row), Len(t) <= Cardinality(Ids),
         NEW w \in WritesOf(v, s), NEW x \in WritesOf(u, t)
  PROVE  w.path # x.path
<1>1. w.path.kind \in KindsOf(v) /\ x.path.kind \in KindsOf(u)
  BY WritesType
<1> QED
  BY <1>1 DEF KindsOf, Views
-----------------------------------------------------------------------------
(* The inductive invariant. *)

\* The orders in which the records may be read: any from a map, and that of the
\* ids from a directory.
Orders ==
  {s \in Enumerations(RowsOf(source)) :
     ~setup.fromMap => \A i \in DOMAIN s : Place(s[i].id, Present(source)) = i}

Types ==
  /\ TypeOK
  /\ disk = [p \in Paths |-> disk[p]]
  /\ planned \in Nat /\ IsFiniteSet(plan)
  /\ view \in Views \cup {"none"} /\ settled \in BOOLEAN /\ noop \in BOOLEAN

\* What each phase has begun and finished.
StepsInOrder ==
  /\ phase # "building" => plan = {}
  /\ phase # "reading" => globbed = {} /\ rows = <<>>
  /\ phase = "idle" => todo = {}
  /\ status = "returned" => phase = "idle"
  /\ phase = "reading" \/ plan # {} => view \in setup.views \ todo

\* No record is read twice.
RowsAreApart ==
  /\ \A i, j \in DOMAIN rows : rows[i].id = rows[j].id => i = j
  /\ \A i \in DOMAIN rows : rows[i].id \notin globbed

\* While nobody edits the records, what is read and what is to be read make them.
ReadSoFar ==
  phase = "reading" /\ fresh =>
    /\ globbed \subseteq Present(source)
    /\ {rows[i] : i \in DOMAIN rows} = {row \in RowsOf(source) : row.id \notin globbed}
    /\ ~setup.fromMap => \A k \in DOMAIN rows :
                           /\ Place(rows[k].id, Present(source)) = k
                           /\ \A i \in globbed : rows[k].id < i

\* The files of a view that has been planned which the build has not reached.
Ahead(v, w) == v = view /\ w \in plan

\* Each file the build has reached holds what was planned for its path.
Holding(v, s) ==
  \A w \in WritesOf(v, s) :
    ~Ahead(v, w) => \E u \in WritesOf(v, s) : /\ ~Ahead(v, u) /\ u.path = w.path
                                              /\ disk[w.path] = u.content
FilesAreCurrent ==
  (phase # "idle" \/ status = "returned") /\ fresh /\ result.errors = 0 =>
    \A v \in Handled : \E s \in Orders : Holding(v, s) /\ (v = view => plan \subseteq WritesOf(v, s))

SettledIsClean == settled => phase = "idle" /\ CleanBuild

\* The same records make the same files, each at a path of its own.
Steady == ~setup.fromMap /\ ("partitioned" \in setup.views => setup.placed)

Current(v, s) == \A w \in WritesOf(v, s) : disk[w.path] = w.content
NothingToDo ==
  noop /\ phase # "idle" /\ Steady =>
    /\ fresh /\ result.created = 0 /\ result.updated = 0 /\ result.errors = 0
    /\ "default" \in setup.views => setup.resolved
    /\ \A v \in setup.views : \E s \in Orders : Current(v, s)
    /\ \A w \in plan : disk[w.path] = w.content

\* A foreign key that leads nowhere is among the errors.
RefusalsAreErrors ==
  phase # "idle" \/ status = "returned" => result.errors \in Nat /\ result.errors >= Refusals
IInv ==
  /\ Types
  /\ StepsInOrder
  /\ RowsAreApart
  /\ ReadSoFar
  /\ ResultAddsUp /\ RefusalsAreErrors
  /\ FilesAreCurrent
  /\ SettledIsClean
  /\ NothingToDo

-----------------------------------------------------------------------------
(* Lemmas about the orders of the records. *)

LEMMA Numbers ==
  ASSUME NEW n \in Nat
  PROVE  IsFiniteSet(1..n) /\ Cardinality(1..n) = n
BY FS_Interval

LEMMA SourceRowsAreFinite ==
  ASSUME source \in Sources
  PROVE  /\ RowsOf(source) \subseteq Row /\ IsFiniteSet(RowsOf(source))
         /\ Cardinality(RowsOf(source)) \in Nat /\ Cardinality(Ids) \in Nat
         /\ Cardinality(RowsOf(source)) <= Cardinality(Ids)
         /\ Present(source) \subseteq Ids /\ IsFiniteSet(Present(source))
<1> DEFINE P == Present(source)
           T == RowsOf(source)
           row == [i \in P |-> [id |-> i, val |-> source[i]]]
<1>1. P \subseteq Ids /\ \A i \in P : source[i] \in FieldContents
  BY DEF Present, Sources
<1>2. T = {row[i] : i \in P}
  BY DEF RowsOf
<1>3. T \subseteq Row
  BY <1>1 DEF RowsOf, Row
<1>4. row \in [P -> T] /\ \A t \in T : \E i \in P : row[i] = t
  BY <1>2
<1>5. IsFiniteSet(P) /\ Cardinality(P) <= Cardinality(Ids)
  BY <1>1, IdsAssumption, FS_Subset
<1>6. IsFiniteSet(T) /\ Cardinality(T) <= Cardinality(P)
  <2>1. row \in Surjection(P, T)
    <3> HIDE DEF row, P, T
    <3> QED BY <1>4, Fun_IsSurj
  <2> HIDE DEF row, P, T
  <2> QED BY <1>5, <2>1, FS_Surjection
<1>7. Cardinality(T) \in Nat /\ Cardinality(P) \in Nat /\ Cardinality(Ids) \in Nat
  BY <1>5, <1>6, IdsAssumption, FS_CardinalityType
<1>8. Cardinality(T) <= Cardinality(Ids)
  <2> HIDE DEF T, P
  <2> QED BY <1>5, <1>6, <1>7
<1> QED
  BY <1>1, <1>3, <1>5, <1>6, <1>7, <1>8

\* An order lists each record once.
LEMMA OrderLists ==
  ASSUME source \in Sources, NEW s \in Orders
  PROVE  /\ s \in Seq(Row) /\ Len(s) = Cardinality(RowsOf(source))
         /\ Len(s) <= Cardinality(Ids)
         /\ \A i \in DOMAIN s : s[i] \in RowsOf(source)
         /\ \A row \in RowsOf(source) : \E i \in DOMAIN s : s[i] = row
         /\ \A i, j \in DOMAIN s : s[i] = s[j] => i = j
<1> DEFINE T == RowsOf(source)
           n == Cardinality(T)
<1>1. s \in [1..n -> T] /\ \A i, j \in DOMAIN s : s[i] = s[j] => i = j
  BY DEF Orders, Enumerations
<1>2. T \subseteq Row /\ IsFiniteSet(T) /\ n \in Nat /\ n <= Cardinality(Ids)
  BY SourceRowsAreFinite
<1>3. s \in Injection(1..n, T)
  BY <1>1, Fun_IsInj
<1>4. IsFiniteSet(1..n) /\ Cardinality(1..n) = n
  <2> HIDE DEF n
  <2> QED BY <1>2, FS_Interval
<1>5. s \in Surjection(1..n, T)
  BY <1>2, <1>3, <1>4, FS_Injection
<1>6. \A row \in T : \E i \in 1..n : s[i] = row
  BY <1>5 DEF Surjection
<1> HIDE DEF n, T
<1>7. s \in Seq(Row) /\ Len(s) = n
  BY <1>1, <1>2
<1> QED
  BY <1>1, <1>2, <1>6, <1>7 DEF n, T

\* From a directory there is one order.
LEMMA OneOrder ==
  ASSUME source \in Sources, ~setup.fromMap, NEW s \in Orders, NEW t \in Orders
  PROVE  s = t
<1> DEFINE n == Cardinality(RowsOf(source))
<1>1. s \in [1..n -> RowsOf(source)] /\ t \in [1..n -> RowsOf(source)]
  BY DEF Orders, Enumerations
<1>2. ASSUME NEW i \in 1..n PROVE s[i] = t[i]
  <2>1. s[i] \in RowsOf(source)
    BY <1>1
  <2>2. PICK j \in DOMAIN t : t[j] = s[i]
    BY <2>1, OrderLists
  <2>3. Place(t[j].id, Present(source)) = j /\ Place(s[i].id, Present(source)) = i
    BY <1>1, <2>2 DEF Orders
  <2> QED BY <2>2, <2>3
<1>3. s = [i \in 1..n |-> s[i]] /\ t = [i \in 1..n |-> t[i]]
  <2> HIDE DEF n
  <2> QED BY <1>1
<1>4. [i \in 1..n |-> s[i]] = [i \in 1..n |-> t[i]]
  <2> HIDE DEF n
  <2> QED BY <1>2
<1> QED
  BY <1>3, <1>4

\* What lists each record once is an order.
LEMMA ListingIsOrder ==
  ASSUME source \in Sources, NEW s \in Seq(Row),
         \A i, j \in DOMAIN s : s[i] = s[j] => i = j,
         {s[i] : i \in DOMAIN s} = RowsOf(source),
         ~setup.fromMap => \A i \in DOMAIN s : Place(s[i].id, Present(source)) = i
  PROVE  s \in Orders
<1> DEFINE T == RowsOf(source)
<1>1. s \in [1..Len(s) -> T] /\ Len(s) \in Nat
  OBVIOUS
<1>2. \A row \in T : \E i \in 1..Len(s) : s[i] = row
  OBVIOUS
<1>3. s \in Injection(1..Len(s), T) /\ s \in Surjection(1..Len(s), T)
  <2>1. \A i, j \in 1..Len(s) : s[i] = s[j] => i = j
    BY <1>1
  <2> HIDE DEF T
  <2> QED BY <1>1, <1>2, <2>1, Fun_IsInj, Fun_IsSurj
<1>4. IsFiniteSet(1..Len(s)) /\ Cardinality(1..Len(s)) = Len(s)
  <2>1. Len(s) \in Nat
    OBVIOUS
  <2> QED BY <2>1, Numbers
<1>5. Cardinality(T) = Len(s)
  <2>1. IsFiniteSet(T)
    BY SourceRowsAreFinite
  <2> HIDE DEF T
  <2> QED BY <1>3, <1>4, <2>1, FS_Injection
<1>6. s \in Enumerations(T)
  BY <1>1, <1>5 DEF Enumerations
<1> QED
  BY <1>6 DEF Orders

\* There are no more rows than ids.
LEMMA RowsAreBounded ==
  ASSUME NEW s \in Seq(Row), \A i, j \in DOMAIN s : s[i].id = s[j].id => i = j
  PROVE  Len(s) <= Cardinality(Ids)
<1> DEFINE id == [i \in 1..Len(s) |-> s[i].id]
<1>1. Len(s) \in Nat /\ \A i \in 1..Len(s) : s[i] \in Row
  OBVIOUS
<1>2. id \in [1..Len(s) -> Ids] /\ \A i, j \in 1..Len(s) : id[i] = id[j] => i = j
  BY <1>1 DEF Row
<1>3. id \in Injection(1..Len(s), Ids)
  <2> HIDE DEF id
  <2> QED BY <1>2, Fun_IsInj
<1>4. Cardinality(1..Len(s)) <= Cardinality(Ids)
  <2> HIDE DEF id
  <2> QED BY <1>3, IdsAssumption, FS_Injection
<1>5. Cardinality(1..Len(s)) = Len(s)
  <2>1. Len(s) \in Nat
    OBVIOUS
  <2> QED BY <2>1, Numbers
<1> QED
  BY <1>4, <1>5

-----------------------------------------------------------------------------
(* Each step keeps the invariant. *)

Fields == {"created", "updated", "unchanged", "errors"}

LEMMA SetupType == TypeOK => setup \in Setup /\ setup.views \subseteq Views
BY SetupAssumption DEF TypeOK, Setup, Views

LEMMA NoResultType == NoResult \in [Fields -> Nat]
BY DEF NoResult, Fields

\* An error more for the default view, if its foreign key leads nowhere.
LEMMA RefusalsAre ==
  /\ Refusals \in {0, 1} /\ \A v : Refused(v) \in {0, 1}
  /\ ("default" \in Handled /\ Refusals = 0 /\ setup.resolved \in BOOLEAN) => setup.resolved
BY DEF Refusals, Refused

LEMMA SameRefusals ==
  ASSUME setup' = setup, Handled' = Handled
  PROVE  Refusals' = Refusals
BY DEF Refusals, Refused

LEMMA ResultType ==
  ASSUME TypeOK, NEW field \in Fields
  PROVE  [result EXCEPT ![field] = @ + 1] \in [Fields -> Nat]
BY DEF TypeOK, Fields

\* What is written depends on the rows and on the definition alone.
LEMMA SameSetup ==
  ASSUME UNCHANGED setup
  PROVE  \A v, s : WritesOf(v, s)' = WritesOf(v, s)
<1>1. \A s : TotalBatches(s)' = TotalBatches(s) /\ \A n : BatchRows(s, n)' = BatchRows(s, n)
  BY DEF TotalBatches, BatchRows
<1>2. \A s : DefaultWrites(s)' = DefaultWrites(s)
  BY <1>1 DEF DefaultWrites
<1>3. \A kind, s, rank : GroupWrites(kind, s, rank)' = GroupWrites(kind, s, rank)
  BY DEF GroupWrites, GroupPath
<1>4. \A s : StableSort(s)' = StableSort(s)
  <2>1. \A s, i : Rank(s, i)' = Rank(s, i)
    BY DEF Rank, Before
  <2>2. ASSUME NEW s, NEW r
        PROVE  (CHOOSE i \in DOMAIN s : Rank(s, i)' = r)
                 = (CHOOSE i \in DOMAIN s : Rank(s, i) = r)
    BY <2>1, Zenon
  <2>3. ASSUME NEW s PROVE StableSort(s)' = StableSort(s)
    <3> DEFINE old(r) == s[CHOOSE i \in DOMAIN s : Rank(s, i) = r]
               new(r) == s[CHOOSE i \in DOMAIN s : Rank(s, i)' = r]
    <3>1. \A r \in DOMAIN s : new(r) = old(r)
      BY <2>2, Zenon
    <3>2. StableSort(s)' = [r \in DOMAIN s |-> new(r)]
      BY DEF StableSort
    <3>3. StableSort(s) = [r \in DOMAIN s |-> old(r)]
      BY DEF StableSort
    <3> HIDE DEF old, new
    <3> QED BY <3>1, <3>2, <3>3
  <2> QED BY <2>3
<1>5. \A s : FilterColumns(s)' = FilterColumns(s) /\ NamedRows(s)' = NamedRows(s)
  BY DEF FilterColumns, NamedRows
<1> QED
  BY <1>1, <1>2, <1>3, <1>4, <1>5 DEF WritesOf, FKWrites
LEMMA SameOrders ==
  ASSUME UNCHANGED <<setup, source>>
  PROVE  Orders' = Orders
BY DEF Orders

LEMMA Starts == Init => IInv
<1> SUFFICES ASSUME Init PROVE IInv
  OBVIOUS
<1>1. Types
  <2>1. TypeOK
    <3>1. result \in [Fields -> Nat]
      BY NoResultType DEF Init
    <3>2. rows \in Seq(Row)
      BY DEF Init
    <3> QED BY <3>1, <3>2 DEF Init, TypeOK, Fields
  <2>2. IsFiniteSet(plan)
    BY FS_EmptySet DEF Init
  <2> QED
    BY <2>1, <2>2 DEF Init, Types
<1>2. StepsInOrder /\ RowsAreApart /\ ReadSoFar
  BY DEF Init, StepsInOrder, RowsAreApart, ReadSoFar
<1>3. ResultAddsUp /\ FilesAreCurrent /\ SettledIsClean /\ NothingToDo
  BY DEF Init, ResultAddsUp, FilesAreCurrent, SettledIsClean, NothingToDo
<1>4. RefusalsAreErrors
  BY DEF Init, RefusalsAreErrors
<1> QED
  BY <1>1, <1>2, <1>3, <1>4 DEF IInv

\* A view's files hold what is planned for them once it is done.
LEMMA HoldingIsCurrent ==
  ASSUME TypeOK, Steady, plan = {}, NEW v \in setup.views, NEW s \in Orders, Holding(v, s)
  PROVE  Current(v, s)
<1>1. s \in Seq(Row) /\ Len(s) <= Cardinality(Ids) /\ setup \in Setup /\ v \in Views
  BY OrderLists, SetupType DEF TypeOK
<1>2. \A u, w \in WritesOf(v, s) : u.path = w.path => u = w
  BY <1>1, WritesType DEF Steady
<1> QED
  BY <1>2 DEF Holding, Ahead, Current

\* A build without errors had no foreign key that leads nowhere.
LEMMA ResolvedWhenClean ==
  ASSUME IInv, CleanBuild, "default" \in setup.views
  PROVE  setup.resolved
<1>1. phase = "idle" /\ todo = {} /\ setup \in Setup
  BY SetupType DEF IInv, StepsInOrder, CleanBuild, Types
<1>2. "default" \in Handled
  BY <1>1 DEF Handled
<1>3. Refusals = 0
  BY RefusalsAre DEF CleanBuild, IInv, RefusalsAreErrors
<1> QED
  BY <1>1, <1>2, <1>3, RefusalsAre DEF Setup

LEMMA BuildStarts == IInv /\ StartBuild => IInv'
<1> SUFFICES ASSUME IInv, StartBuild PROVE IInv'
  OBVIOUS
<1>1. plan = {} /\ plan' = {}
  BY DEF IInv, StepsInOrder, StartBuild
<1>2. Types'
  <2>1. result' \in [Fields -> Nat]
    BY NoResultType DEF StartBuild
  <2> QED
    BY <2>1 DEF IInv, Types, TypeOK, StartBuild, reading, Fields
<1>3. StepsInOrder' /\ RowsAreApart' /\ ReadSoFar' /\ SettledIsClean'
  BY <1>1 DEF IInv, StepsInOrder, RowsAreApart, ReadSoFar, SettledIsClean, StartBuild, reading
<1>4. ResultAddsUp' /\ RefusalsAreErrors'
  <2>1. Handled' = {} /\ result' = NoResult /\ planned' = 0
    BY DEF StartBuild, Handled
  <2>2. Refusals' = 0
    BY <2>1 DEF Refusals
  <2>3. Cardinality(plan') = 0
    BY <1>1, FS_EmptySet
  <2> QED BY <2>1, <2>2, <2>3 DEF ResultAddsUp, RefusalsAreErrors, NoResult
<1>5. FilesAreCurrent'
  BY DEF FilesAreCurrent, Handled, StartBuild
<1>6. NothingToDo'
  <2> SUFFICES ASSUME settled, Steady
               PROVE  /\ \A v \in setup.views : \E s \in Orders : Current(v, s)
                      /\ "default" \in setup.views => setup.resolved
    <3>1. setup' = setup /\ source' = source /\ disk' = disk /\ noop' = settled /\ fresh'
            /\ result' = NoResult
      BY DEF StartBuild
    <3>2. Orders' = Orders /\ \A v, s : Current(v, s)' = Current(v, s)
      BY <3>1, SameOrders, SameSetup DEF Current
    <3> QED BY <1>1, <3>1, <3>2 DEF NothingToDo, Steady, NoResult
  <2>1. \A v \in setup.views : \E s \in Orders : Holding(v, s)
    BY DEF IInv, SettledIsClean, CleanBuild, FilesAreCurrent, StepsInOrder, Handled
  <2>2. "default" \in setup.views => setup.resolved
    BY ResolvedWhenClean DEF IInv, SettledIsClean
  <2> QED
    BY <1>1, <2>1, <2>2, HoldingIsCurrent DEF IInv, Types
<1> QED
  BY <1>2, <1>3, <1>4, <1>5, <1>6 DEF IInv

\* A build step that leaves the files alone leaves what they hold alone.
LEMMA SameFiles ==
  ASSUME UNCHANGED <<setup, source, disk>>
  PROVE  /\ Orders' = Orders
         /\ \A v, s : WritesOf(v, s)' = WritesOf(v, s) /\ Current(v, s)' = Current(v, s)
         /\ plan = {} /\ plan' = {} => \A v, s : Holding(v, s)' = Holding(v, s)
<1>1. Orders' = Orders
  BY SameOrders
<1>2. \A v, s : WritesOf(v, s)' = WritesOf(v, s)
  BY SameSetup
<1>3. \A v, s : Current(v, s)' = Current(v, s)
  BY <1>2 DEF Current
<1>4. ASSUME plan = {}, plan' = {}
      PROVE  \A v, s : Holding(v, s)' = Holding(v, s)
  BY <1>2, <1>4 DEF Holding, Ahead
<1> QED
  BY <1>1, <1>2, <1>3, <1>4

LEMMA ViewStarts == IInv /\ StartView => IInv'
<1> SUFFICES ASSUME IInv, StartView PROVE IInv'
  OBVIOUS
<1>1. /\ phase = "building" /\ phase' = "reading" /\ plan = {} /\ plan' = {}
      /\ view' \in todo /\ todo' = todo \ {view'}
      /\ UNCHANGED <<setup, source, disk, planned, result, status, fresh, settled, noop>>
  BY DEF StartView, history
<1>2. source \in Sources /\ todo \subseteq setup.views /\ setup.views \subseteq Views
      /\ setup \in Setup
  BY SetupType DEF IInv, Types, TypeOK
<1>3. ASSUME ~setup.fromMap
      PROVE  globbed' \subseteq Ids /\ rows' \in Seq(Row) /\ RowsAreApart' /\ ReadSoFar'
  <2>1. globbed' = Present(source) /\ rows' = <<>>
    BY <1>3 DEF StartView
  <2>2. globbed' \subseteq Ids /\ rows' \in Seq(Row)
    BY <2>1 DEF Present
  <2>3. RowsAreApart'
    BY <2>1 DEF RowsAreApart
  <2>4. \A row \in RowsOf(source) : row.id \in Present(source)
    BY DEF RowsOf
  <2>5. {row \in RowsOf(source) : row.id \notin globbed'} = {}
    BY <2>1, <2>4
  <2>6. ReadSoFar'
    BY <1>1, <2>1, <2>5 DEF ReadSoFar
  <2> QED BY <2>2, <2>3, <2>6
<1>4. ASSUME setup.fromMap
      PROVE  globbed' \subseteq Ids /\ rows' \in Seq(Row) /\ RowsAreApart' /\ ReadSoFar'
  <2>1. globbed' = {} /\ rows' \in Enumerations(RowsOf(source))
    BY <1>4 DEF StartView
  <2>2. rows' \in Orders
    BY <1>4, <2>1 DEF Orders
  <2>3. /\ rows' \in Seq(Row)
        /\ \A i \in DOMAIN rows' : rows'[i] \in RowsOf(source)
        /\ \A row \in RowsOf(source) : \E i \in DOMAIN rows' : rows'[i] = row
        /\ \A i, j \in DOMAIN rows' : rows'[i] = rows'[j] => i = j
    BY <1>2, <2>2, OrderLists
  <2>4. \A q, r \in RowsOf(source) : q.id = r.id => q = r
    BY DEF RowsOf
  <2>5. RowsAreApart'
    BY <2>1, <2>3, <2>4 DEF RowsAreApart
  <2>6. {rows'[i] : i \in DOMAIN rows'} = {row \in RowsOf(source) : row.id \notin globbed'}
    BY <2>1, <2>3
  <2>7. ReadSoFar'
    BY <1>1, <1>4, <2>1, <2>6 DEF ReadSoFar
  <2> QED BY <2>1, <2>3, <2>5, <2>7
<1>5. globbed' \subseteq Ids /\ rows' \in Seq(Row) /\ RowsAreApart' /\ ReadSoFar'
  BY <1>3, <1>4
<1>6. Types'
  BY <1>1, <1>2, <1>5 DEF IInv, Types, TypeOK
<1>8. Handled' = Handled
  BY <1>1, <1>2 DEF Handled
<1>7. StepsInOrder' /\ SettledIsClean' /\ ResultAddsUp' /\ RefusalsAreErrors'
  <2>1. Refusals' = Refusals
    BY <1>1, <1>8, SameRefusals
  <2> QED
    BY <1>1, <1>2, <2>1
    DEF IInv, StepsInOrder, SettledIsClean, ResultAddsUp, RefusalsAreErrors
<1>9. FilesAreCurrent' /\ NothingToDo'
  <2>1. Orders' = Orders /\ \A v, s : Holding(v, s)' = Holding(v, s)
                                      /\ Current(v, s)' = Current(v, s)
    BY <1>1, SameFiles
  <2>2. FilesAreCurrent'
    BY <1>1, <1>8, <2>1 DEF IInv, FilesAreCurrent
  <2>3. NothingToDo'
    BY <1>1, <2>1 DEF IInv, NothingToDo, Steady
  <2> QED BY <2>2, <2>3
<1> QED
  BY <1>5, <1>6, <1>7, <1>9 DEF IInv

\* The files are read in the order of their names.
LEMMA First ==
  ASSUME NEW S \in SUBSET Ids, S # {}
  PROVE  \E i \in S : \A j \in S : i <= j
<1>1. S \subseteq Int /\ IsFiniteSet(S)
  BY IdsAssumption, FS_Subset
<1>2. Cardinality(S) \in Nat /\ Cardinality(S) # 0
  BY <1>1, FS_CardinalityType, FS_EmptySet
<1>3. PICK i \in S : Place(i, S) = 1
  <2>1. 1 \in 1..Cardinality(S)
    BY <1>2
  <2>2. \A k \in 1..Cardinality(S) : \E i \in S : Place(i, S) = k
    BY <1>1, Places
  <2> QED BY <2>1, <2>2
<1>4. ASSUME NEW j \in S, j < i PROVE FALSE
  <2> DEFINE A == {k \in S : k <= j}
             B == {k \in S : k <= i}
  <2>1. A \subseteq B /\ B \subseteq S
    <3>1. \A k \in S : k <= j => k <= i
      BY <1>1, <1>4
    <3> QED BY <3>1
  <2>2. Cardinality(A) <= Cardinality(B)
    <3> HIDE DEF A, B
    <3>1. IsFiniteSet(B)
      BY <1>1, <2>1, FS_Subset
    <3> QED BY <2>1, <3>1, FS_Subset
  <2>3. Place(j, S) <= 1
    BY <1>3, <2>2 DEF Place
  <2>4. Place(j, S) \in 1..Cardinality(S)
    BY <1>1, <1>4, Places
  <2>5. Place(j, S) = 1
    BY <1>2, <2>3, <2>4
  <2>6. i = j
    BY <1>1, <1>3, <1>4, <2>5, Places
  <2> QED BY <1>1, <1>4, <2>6
<1> QED
  BY <1>1, <1>4

\* A record that is read next has its place after those that were read.
LEMMA NextPlace ==
  ASSUME NEW P \in SUBSET Ids, NEW G \in SUBSET P, NEW s \in Seq(Row),
         {s[k].id : k \in DOMAIN s} = P \ G,
         \A k \in DOMAIN s : Place(s[k].id, P) = k /\ \A i \in G : s[k].id < i,
         NEW n \in G, \A i \in G : n <= i
  PROVE  Place(n, P) = Len(s) + 1
<1> DEFINE L == Len(s)
<1>1. P \subseteq Int /\ IsFiniteSet(P) /\ L \in Nat /\ DOMAIN s = 1..L
  <2>1. IsFiniteSet(P)
    BY IdsAssumption, FS_Subset
  <2>2. P \subseteq Int
    BY IdsAssumption
  <2>3. L \in Nat /\ DOMAIN s = 1..L
    OBVIOUS
  <2> QED BY <2>1, <2>2, <2>3
<1>2. Cardinality(P) \in Nat
  BY <1>1, FS_CardinalityType
<1>3. Place(n, P) \in 1..Cardinality(P)
  BY <1>1, Places
<1>4. Place(n, P) > L
  <2> SUFFICES ASSUME Place(n, P) <= L PROVE FALSE
    BY <1>1, <1>2, <1>3
  <2> DEFINE k == Place(n, P)
  <2>1. k \in DOMAIN s
    BY <1>1, <1>2, <1>3
  <2>2. s[k].id \in P /\ Place(s[k].id, P) = k /\ s[k].id < n
    BY <2>1
  <2>3. s[k].id = n
    <3> HIDE DEF k
    <3>1. Place(n, P) = k
      BY DEF k
    <3> QED BY <1>1, <2>2, <3>1, Places
  <2> QED BY <1>1, <2>2, <2>3
<1>5. ASSUME Place(n, P) > L + 1 PROVE FALSE
  <2>1. L + 1 \in 1..Cardinality(P)
    BY <1>1, <1>2, <1>3, <1>5
  <2>2. PICK q \in P : Place(q, P) = L + 1
    BY <1>1, <2>1, Places
  <2>3. q \in G
    <3>1. \A k \in DOMAIN s : s[k].id # q
      BY <1>1, <2>2
    <3> QED BY <3>1
  <2>4. n <= q
    BY <2>3
  <2> DEFINE A == {k \in P : k <= n}
             B == {k \in P : k <= q}
  <2>5. A \subseteq B /\ B \subseteq P
    <3>1. \A k \in P : k <= n => k <= q
      BY <1>1, <2>4
    <3> QED BY <3>1
  <2>6. Cardinality(A) <= Cardinality(B)
    <3> HIDE DEF A, B
    <3>1. IsFiniteSet(B)
      BY <1>1, <2>5, FS_Subset
    <3> QED BY <2>5, <3>1, FS_Subset
  <2>7. Place(n, P) <= L + 1
    BY <2>2, <2>6 DEF Place
  <2> QED BY <1>1, <1>2, <1>3, <1>5, <2>7
<1> QED
  BY <1>1, <1>2, <1>3, <1>4, <1>5

LEMMA RecordIsRead == IInv /\ ReadRecord => IInv'
<1> SUFFICES ASSUME IInv, ReadRecord PROVE IInv'
  OBVIOUS
<1> DEFINE n == NextFile
           r == [id |-> n, val |-> source[n]]
           L == Len(rows)
           P == Present(source)
<1>1. /\ phase = "reading" /\ phase' = "reading" /\ globbed # {} /\ source[n] # NoRecord
      /\ rows' = Append(rows, r) /\ globbed' = globbed \ {n}
      /\ UNCHANGED <<setup, source, disk, view, todo, plan, planned, result, status,
                     fresh, settled, noop>>
  BY DEF ReadRecord, progress, history
<1>2. source \in Sources /\ globbed \subseteq Ids /\ rows \in Seq(Row) /\ L \in Nat
      /\ plan = {}
  BY <1>1 DEF IInv, Types, TypeOK, StepsInOrder
<1>3. n \in globbed /\ \A j \in globbed : n <= j
  <2>1. \E i \in globbed : \A j \in globbed : i <= j
    BY <1>1, <1>2, First
  <2> QED BY <2>1 DEF NextFile
<1>4. n \in Ids /\ n \in Int /\ globbed \subseteq Int
  BY <1>2, <1>3, IdsAssumption
<1>5. r \in Row /\ r \in RowsOf(source)
  BY <1>1, <1>2, <1>4 DEF Row, Sources, RowsOf, Present
<1> HIDE DEF n, P
<1>6. /\ rows' \in Seq(Row) /\ Len(rows') = L + 1 /\ DOMAIN rows' = 1..(L + 1)
      /\ DOMAIN rows = 1..L
      /\ \A k \in 1..(L + 1) : rows'[k] = IF k = L + 1 THEN r ELSE rows[k]
  <2> HIDE DEF r
  <2> QED BY <1>1, <1>2, <1>5
<1>7. RowsAreApart'
  <2>1. /\ \A i, j \in DOMAIN rows : rows[i].id = rows[j].id => i = j
        /\ \A i \in DOMAIN rows : rows[i].id \notin globbed
    BY DEF IInv, RowsAreApart
  <2>2. \A i, j \in DOMAIN rows' : rows'[i].id = rows'[j].id => i = j
    BY <1>3, <1>6, <2>1
  <2>3. \A i \in DOMAIN rows' : rows'[i].id \notin globbed'
    BY <1>1, <1>3, <1>6, <2>1
  <2> QED BY <2>2, <2>3 DEF RowsAreApart
<1>8. ReadSoFar'
  <2> SUFFICES ASSUME fresh
               PROVE  /\ globbed' \subseteq P
                      /\ {rows'[i] : i \in DOMAIN rows'}
                           = {row \in RowsOf(source) : row.id \notin globbed'}
                      /\ ~setup.fromMap => \A k \in DOMAIN rows' :
                                             /\ Place(rows'[k].id, P) = k
                                             /\ \A i \in globbed' : rows'[k].id < i
    BY <1>1 DEF ReadSoFar, P
  <2>1. /\ globbed \subseteq P
        /\ {rows[i] : i \in DOMAIN rows} = {row \in RowsOf(source) : row.id \notin globbed}
        /\ ~setup.fromMap => \A k \in DOMAIN rows :
                               /\ Place(rows[k].id, P) = k
                               /\ \A i \in globbed : rows[k].id < i
    BY <1>1 DEF IInv, ReadSoFar, P
  <2>2. \A row \in RowsOf(source) : row.id \notin globbed' <=> row.id \notin globbed \/ row = r
    BY <1>1, <1>3 DEF RowsOf
  <2>3. \A row : row \in {rows'[i] : i \in DOMAIN rows'}
                   <=> row = r \/ row \in {rows[i] : i \in DOMAIN rows}
    <3> HIDE DEF r
    <3> QED BY <1>2, <1>6
  <2>4. {rows'[i] : i \in DOMAIN rows'} = {row \in RowsOf(source) : row.id \notin globbed'}
    <3> HIDE DEF r
    <3> QED BY <1>5, <2>1, <2>2, <2>3
  <2>5. ASSUME ~setup.fromMap
        PROVE  \A k \in DOMAIN rows' : /\ Place(rows'[k].id, P) = k
                                       /\ \A i \in globbed' : rows'[k].id < i
    <3>1. {rows[k].id : k \in DOMAIN rows} = P \ globbed
      <4>1. \A i : i \in P \ globbed
                     <=> \E row \in RowsOf(source) : row.id \notin globbed /\ row.id = i
        <5>1. \A row \in RowsOf(source) : row.id \in P
          BY DEF RowsOf, P
        <5>2. \A i \in P : \E row \in RowsOf(source) : row.id = i
          <6>1. \A i \in P : [id |-> i, val |-> source[i]] \in RowsOf(source)
            BY DEF RowsOf, P
          <6> QED BY <6>1
        <5> QED BY <5>1, <5>2
      <4>2. \A i : i \in P \ globbed
                     <=> \E row \in {rows[k] : k \in DOMAIN rows} : row.id = i
        BY <2>1, <4>1
      <4> QED BY <4>2
    <3>2. P \subseteq Ids
      BY DEF P, Present
    <3>3. Place(n, P) = L + 1
      BY <1>2, <1>3, <2>1, <2>5, <3>1, <3>2, NextPlace
    <3>4. \A i \in globbed' : n < i
      BY <1>1, <1>3, <1>4
    <3> QED BY <1>1, <1>6, <2>1, <2>5, <3>3, <3>4
  <2> QED BY <1>1, <2>1, <2>4, <2>5
<1>9. Types'
  BY <1>1, <1>2, <1>6 DEF IInv, Types, TypeOK
<1>10. StepsInOrder' /\ SettledIsClean' /\ ResultAddsUp' /\ RefusalsAreErrors'
  <2>1. Handled' = Handled
    BY <1>1 DEF Handled
  <2>2. Refusals' = Refusals
    BY <1>1, <2>1, SameRefusals
  <2> QED
    BY <1>1, <2>2 DEF IInv, StepsInOrder, SettledIsClean, ResultAddsUp, RefusalsAreErrors
<1>11. FilesAreCurrent' /\ NothingToDo'
  <2>1. Orders' = Orders /\ \A v, s : Holding(v, s)' = Holding(v, s)
                                      /\ Current(v, s)' = Current(v, s)
    BY <1>1, <1>2, SameFiles
  <2>2. Handled' = Handled
    BY <1>1 DEF Handled
  <2>3. FilesAreCurrent'
    BY <1>1, <1>2, <2>1, <2>2 DEF IInv, FilesAreCurrent
  <2>4. NothingToDo'
    BY <1>1, <2>1 DEF IInv, NothingToDo, Steady
  <2> QED BY <2>3, <2>4
<1> QED
  BY <1>7, <1>8, <1>9, <1>10, <1>11 DEF IInv

LEMMA ViewIsPlanned == IInv /\ PlanView => IInv'
<1> SUFFICES ASSUME IInv, PlanView PROVE IInv'
  OBVIOUS
<1> DEFINE W == WritesOf(view, rows)
<1>1. /\ phase = "reading" /\ phase' = "building" /\ globbed = {}
      /\ plan' = W /\ planned' = planned + Cardinality(W) /\ rows' = <<>>
      /\ result' = [result EXCEPT !.errors = @ + Refused(view)]
      /\ UNCHANGED <<setup, source, disk, view, globbed, todo, status,
                     fresh, settled, noop>>
  BY DEF PlanView, history
<1>2. /\ source \in Sources /\ setup \in Setup /\ setup.views \subseteq Views
      /\ rows \in Seq(Row) /\ plan = {} /\ view \in setup.views \ todo
      /\ planned \in Nat
  BY <1>1, SetupType DEF IInv, Types, TypeOK, StepsInOrder
<1>3. Len(rows) <= Cardinality(Ids)
  BY <1>2, RowsAreBounded DEF IInv, RowsAreApart
<1>4. W \subseteq Writes /\ IsFiniteSet(W)
  BY <1>2, <1>3, WritesType
<1>5. Cardinality(W) \in Nat
  <2> HIDE DEF W
  <2> QED BY <1>4, FS_CardinalityType
<1>6. fresh => rows \in Orders
  <2> SUFFICES ASSUME fresh PROVE rows \in Orders
    OBVIOUS
  <2>1. \A i, j \in DOMAIN rows : rows[i] = rows[j] => i = j
    BY DEF IInv, RowsAreApart
  <2>2. {rows[i] : i \in DOMAIN rows} = RowsOf(source)
    BY <1>1 DEF IInv, ReadSoFar
  <2>3. ~setup.fromMap => \A i \in DOMAIN rows : Place(rows[i].id, Present(source)) = i
    BY <1>1 DEF IInv, ReadSoFar
  <2> QED BY <1>2, <2>1, <2>2, <2>3, ListingIsOrder
<1>7. /\ Orders' = Orders
      /\ \A v, s : WritesOf(v, s)' = WritesOf(v, s) /\ Current(v, s)' = Current(v, s)
  BY <1>1, SameFiles
<1> HIDE DEF W
<1>13. /\ result.created \in Nat /\ result.updated \in Nat /\ result.unchanged \in Nat
       /\ result.errors \in Nat /\ Refused(view) \in {0, 1}
       /\ result'.created = result.created /\ result'.updated = result.updated
       /\ result'.unchanged = result.unchanged
       /\ result'.errors = result.errors + Refused(view)
       /\ result' \in [Fields -> Nat]
  <2>1. result \in [Fields -> Nat] /\ Refused(view) \in {0, 1}
    BY RefusalsAre DEF IInv, Types, TypeOK, Fields
  <2> QED BY <1>1, <2>1 DEF Fields
<1>14. Refusals' = Refusals + Refused(view)
  <2>1. Handled' = Handled \cup {view} /\ view \notin Handled
    BY <1>1, <1>2 DEF Handled
  <2>2. \A v : Refused(v)' = Refused(v)
    BY <1>1 DEF Refused
  <2>3. CASE view = "default"
    BY <2>1, <2>2, <2>3, RefusalsAre DEF Refusals
  <2>4. CASE view # "default"
    <3>1. Refused(view) = 0
      BY <2>4 DEF Refused
    <3> QED BY <2>1, <2>2, <2>4, <3>1, RefusalsAre DEF Refusals
  <2> QED BY <2>3, <2>4
<1>8. Types'
  <2>1. rows' \in Seq(Row)
    BY <1>1
  <2> QED BY <1>1, <1>4, <1>5, <1>13, <2>1 DEF IInv, Types, TypeOK, Fields
<1>9. StepsInOrder' /\ RowsAreApart' /\ ReadSoFar' /\ SettledIsClean'
  BY <1>1, <1>2 DEF IInv, StepsInOrder, RowsAreApart, ReadSoFar, SettledIsClean
<1>10. ResultAddsUp' /\ RefusalsAreErrors'
  <2>1. /\ result.created + result.updated + result.unchanged + result.errors
             + Cardinality({}) = planned + Refusals
        /\ result.errors >= Refusals
    BY <1>1, <1>2 DEF IInv, ResultAddsUp, RefusalsAreErrors
  <2>2. Cardinality({}) = 0 /\ Refusals \in {0, 1}
    BY FS_EmptySet, RefusalsAre
  <2>3. result'.errors \in Nat /\ result'.errors >= Refusals'
    BY <1>13, <1>14, <2>1, <2>2
  <2>4. result'.created + result'.updated + result'.unchanged + result'.errors
          + Cardinality(plan') = planned' + Refusals'
    <3> DEFINE n == Cardinality(W)
               r == Refused(view)
               q == Refusals
    <3>1. n \in Nat /\ r \in Nat /\ q \in Nat
      BY <1>5, <1>13, <2>2
    <3>2. plan' = W /\ planned' = planned + n /\ Refusals' = q + r
      BY <1>1, <1>14
    <3>3. result.created + result.updated + result.unchanged + result.errors = planned + q
      BY <1>2, <1>13, <2>1, <2>2, <3>1
    <3>4. result'.created + result'.updated + result'.unchanged + result'.errors
            = result.created + result.updated + result.unchanged + result.errors + r
      BY <1>13
    <3> HIDE DEF n, r, q
    <3>5. (planned + q + r) + n = (planned + n) + (q + r)
      BY <1>2, <3>1
    <3> QED BY <3>1, <3>2, <3>3, <3>4, <3>5 DEF n
  <2> QED BY <2>3, <2>4 DEF ResultAddsUp, RefusalsAreErrors
<1>11. FilesAreCurrent'
  <2>0. result'.errors = 0 => result.errors = 0
    BY <1>13
  <2> SUFFICES ASSUME fresh, result.errors = 0, NEW v \in Handled'
               PROVE  \E s \in Orders : Holding(v, s)' /\ (v = view => W \subseteq WritesOf(v, s))
    BY <1>1, <1>7, <2>0 DEF FilesAreCurrent
  <2>1. CASE v = view
    <3>1. PICK s \in Orders : s = rows
      BY <1>6
    <3>2. \A w \in WritesOf(v, s) : Ahead(v, w)'
      BY <1>1, <2>1, <3>1 DEF Ahead, W
    <3>3. Holding(v, s)'
      BY <1>7, <3>2 DEF Holding
    <3> QED BY <2>1, <3>1, <3>3 DEF W
  <2>2. CASE v # view
    <3>1. v \in Handled
      BY <1>1, <2>2 DEF Handled
    <3>2. PICK s \in Orders : Holding(v, s)
      BY <1>1, <3>1 DEF IInv, FilesAreCurrent
    <3>3. Holding(v, s)'
      BY <1>1, <1>7, <2>2, <3>2 DEF Holding, Ahead
    <3> QED BY <2>2, <3>3
  <2> QED BY <2>1, <2>2
<1>12. NothingToDo'
  <2> SUFFICES ASSUME noop, Steady
               PROVE  \A w \in W : disk[w.path] = w.content
    <3>1. noop /\ Steady /\ "default" \in setup.views => setup.resolved
      BY <1>1 DEF IInv, NothingToDo
    <3>2. noop /\ Steady => Refused(view) = 0
      BY <1>2, <3>1 DEF Refused
    <3>3. noop /\ Steady =>
            fresh /\ result.created = 0 /\ result.updated = 0 /\ result.errors = 0
      BY <1>1 DEF IInv, NothingToDo
    <3>4. noop /\ Steady =>
            result'.created = 0 /\ result'.updated = 0 /\ result'.errors = 0
      BY <1>13, <3>2, <3>3
    <3>5. noop /\ Steady => \A v \in setup.views : \E s \in Orders : Current(v, s)
      BY <1>1 DEF IInv, NothingToDo
    <3>6. noop' = noop /\ Steady' = Steady /\ setup' = setup /\ fresh' = fresh
            /\ disk' = disk /\ plan' = W
      BY <1>1 DEF Steady
    <3>7. \A v : (\E s \in Orders : Current(v, s))' = \E s \in Orders : Current(v, s)
      BY <1>7
    <3> QED BY <3>1, <3>3, <3>4, <3>5, <3>6, <3>7 DEF NothingToDo
  <2>1. fresh
    BY <1>1 DEF IInv, NothingToDo
  <2>2. PICK s \in Orders : Current(view, s)
    BY <1>1, <1>2 DEF IInv, NothingToDo
  <2>3. s = rows
    BY <1>2, <1>6, <2>1, OneOrder DEF Steady
  <2> QED BY <2>2, <2>3 DEF Current, W
<1> QED
  BY <1>8, <1>9, <1>10, <1>11, <1>12 DEF IInv

\* A build that ends otherwise than by returning leaves nothing to be said of
\* its files.
LEMMA BuildBreaks ==
  ASSUME IInv, phase # "idle", NEW how \in {"failed", "crashed"}, EndBuild(how),
         settled' = settled, [p \in Paths |-> disk[p]]' = disk',
         \A p \in Paths : disk'[p] \in Seq(Row) \/ disk'[p] \in {NoFile, Torn}
  PROVE  IInv'
<1>1. /\ phase' = "idle" /\ status' = how /\ status' # "returned" /\ globbed' = {}
      /\ rows' = <<>> /\ todo' = {} /\ plan' = {}
      /\ UNCHANGED <<setup, source, view, result, planned, fresh, noop>>
  BY DEF EndBuild
<1>2. ~settled /\ ~settled'
  BY DEF IInv, SettledIsClean
<1>3. Types'
  <2>1. rows' \in Seq(Row) /\ IsFiniteSet(plan')
    BY <1>1, FS_EmptySet
  <2>2. TypeOK'
    BY <1>1, <2>1 DEF IInv, Types, TypeOK
  <2> QED BY <1>1, <1>2, <2>1, <2>2 DEF IInv, Types
<1>4. StepsInOrder' /\ RowsAreApart' /\ ReadSoFar' /\ SettledIsClean'
  BY <1>1, <1>2 DEF StepsInOrder, RowsAreApart, ReadSoFar, SettledIsClean
<1>5. ResultAddsUp' /\ RefusalsAreErrors' /\ FilesAreCurrent' /\ NothingToDo'
  BY <1>1 DEF ResultAddsUp, RefusalsAreErrors, FilesAreCurrent, NothingToDo
<1> QED
  BY <1>3, <1>4, <1>5 DEF IInv

LEMMA BuildFails == IInv /\ (RecordVanished \/ ReadFails) => IInv'
<1> SUFFICES ASSUME IInv, RecordVanished \/ ReadFails PROVE IInv'
  OBVIOUS
<1>1. phase # "idle" /\ EndBuild("failed") /\ settled' = settled /\ disk' = disk
  BY DEF RecordVanished, ReadFails
<1>2. [p \in Paths |-> disk[p]]' = disk'
  BY <1>1 DEF IInv, Types
<1>3. \A p \in Paths : disk'[p] \in Seq(Row) \/ disk'[p] \in {NoFile, Torn}
  BY <1>1 DEF IInv, Types, TypeOK
<1> QED
  BY <1>1, <1>2, <1>3, BuildBreaks

LEMMA ProcessDies == IInv /\ Crash => IInv'
<1> SUFFICES ASSUME IInv, Crash PROVE IInv'
  OBVIOUS
<1>1. phase # "idle" /\ EndBuild("crashed") /\ settled' = settled
  BY DEF Crash
<1>2. disk' = disk \/ \E p \in Paths : disk' = [disk EXCEPT ![p] = Torn]
  BY DEF Crash, IInv, Types, TypeOK, Writes
<1>3. [p \in Paths |-> disk[p]]' = disk'
  BY <1>2 DEF IInv, Types
<1>4. \A p \in Paths : disk'[p] \in Seq(Row) \/ disk'[p] \in {NoFile, Torn}
  BY <1>2 DEF IInv, Types, TypeOK
<1> QED
  BY <1>1, <1>3, <1>4, BuildBreaks

LEMMA BuildReturns == IInv /\ ReturnResult => IInv'
<1> SUFFICES ASSUME IInv, ReturnResult PROVE IInv'
  OBVIOUS
<1>1. /\ phase = "building" /\ phase' = "idle" /\ plan = {} /\ plan' = {}
      /\ todo = {} /\ todo' = {} /\ status' = "returned"
      /\ globbed' = {} /\ rows' = <<>>
      /\ settled' = (fresh /\ result.errors = 0)
      /\ UNCHANGED <<setup, source, disk, view, result, planned, fresh, noop>>
  BY DEF ReturnResult, EndBuild
<1>2. Types'
  <2>1. rows' \in Seq(Row)
    BY <1>1
  <2>2. settled' \in BOOLEAN
    BY <1>1
  <2>3. TypeOK'
    BY <1>1, <2>1 DEF IInv, Types, TypeOK
  <2> QED BY <1>1, <2>2, <2>3 DEF IInv, Types
<1>3. StepsInOrder' /\ RowsAreApart' /\ ReadSoFar'
  BY <1>1 DEF StepsInOrder, RowsAreApart, ReadSoFar
<1>4. SettledIsClean'
  BY <1>1 DEF SettledIsClean, CleanBuild
<1>7. Handled' = Handled /\ Refusals' = Refusals
  <2>1. Handled' = Handled
    BY <1>1 DEF Handled
  <2> QED BY <1>1, <2>1, SameRefusals
<1>5. ResultAddsUp' /\ RefusalsAreErrors' /\ NothingToDo'
  BY <1>1, <1>7 DEF IInv, ResultAddsUp, RefusalsAreErrors, NothingToDo
<1>6. FilesAreCurrent'
  <2>1. Handled' = Handled
    BY <1>7
  <2>2. Orders' = Orders /\ \A v, s : Holding(v, s)' = Holding(v, s)
    BY <1>1, SameFiles
  <2> QED BY <1>1, <2>1, <2>2 DEF IInv, FilesAreCurrent
<1> QED
  BY <1>2, <1>3, <1>4, <1>5, <1>6 DEF IInv

LEMMA RecordIsEdited == IInv /\ Edit => IInv'
<1> SUFFICES ASSUME IInv, Edit PROVE IInv'
  OBVIOUS
<1>1. /\ ~fresh' /\ ~settled' /\ ~noop'
      /\ UNCHANGED <<setup, disk, phase, view, globbed, rows, todo, plan, planned, result,
                     status>>
  BY DEF Edit, reading, progress
<1>2. source' \in Sources
  BY DEF Edit, IInv, Types, TypeOK, Sources
<1>3. Types'
  <2>1. TypeOK'
    BY <1>1, <1>2 DEF IInv, Types, TypeOK
  <2>2. settled' \in BOOLEAN /\ noop' \in BOOLEAN
    BY DEF Edit
  <2> QED BY <1>1, <2>1, <2>2 DEF IInv, Types
<1>4. StepsInOrder' /\ RowsAreApart' /\ ReadSoFar' /\ SettledIsClean'
  BY <1>1 DEF IInv, StepsInOrder, RowsAreApart, ReadSoFar, SettledIsClean
<1>5. ResultAddsUp' /\ RefusalsAreErrors' /\ FilesAreCurrent' /\ NothingToDo'
  <2>1. Handled' = Handled
    BY <1>1 DEF Handled
  <2>2. Refusals' = Refusals
    BY <1>1, <2>1, SameRefusals
  <2> QED BY <1>1, <2>2 DEF IInv, ResultAddsUp, RefusalsAreErrors, FilesAreCurrent, NothingToDo
<1> QED
  BY <1>3, <1>4, <1>5 DEF IInv

LEMMA NothingHappens == IInv /\ UNCHANGED vars => IInv'
<1> SUFFICES ASSUME IInv, UNCHANGED vars PROVE IInv'
  OBVIOUS
<1>1. UNCHANGED <<setup, source, disk, phase, view, globbed, rows, todo, plan, planned,
                  result, status, fresh, settled, noop>>
  BY DEF vars, reading, progress, history
<1>2. \A v, s : WritesOf(v, s)' = WritesOf(v, s)
  BY <1>1, SameSetup
<1>3. Orders' = Orders /\ \A v, s : Holding(v, s)' = Holding(v, s)
                                    /\ Current(v, s)' = Current(v, s)
  BY <1>1, <1>2, SameOrders DEF Holding, Ahead, Current
<1>6. Refusals' = Refusals
  <2>1. Handled' = Handled
    BY <1>1 DEF Handled
  <2> QED BY <1>1, <2>1, SameRefusals
<1>4. Types' /\ StepsInOrder' /\ RowsAreApart' /\ ReadSoFar' /\ SettledIsClean'
        /\ ResultAddsUp' /\ RefusalsAreErrors'
  BY <1>1, <1>6 DEF IInv, Types, TypeOK, StepsInOrder, RowsAreApart, ReadSoFar, SettledIsClean,
                    CleanBuild, ResultAddsUp, RefusalsAreErrors
<1>5. FilesAreCurrent' /\ NothingToDo'
  BY <1>1, <1>2, <1>3 DEF IInv, FilesAreCurrent, Handled, NothingToDo, Steady
<1> QED
  BY <1>4, <1>5 DEF IInv

\* A file that is reached holds what was planned for it.
LEMMA FileIsReached ==
  ASSUME IInv, NEW w \in plan, NextWrite(w), NEW field \in Fields \ {"errors"},
         Counted(w, field), disk' = [disk EXCEPT ![w.path] = w.content],
         noop' /\ Steady => noop /\ field = "unchanged" /\ disk' = disk,
         noop' \in BOOLEAN
  PROVE  IInv'
<1>1. /\ phase = "building" /\ phase' = "building" /\ plan' = plan \ {w}
      /\ result' = [result EXCEPT ![field] = @ + 1]
      /\ UNCHANGED <<setup, source, view, globbed, rows, todo, planned, status, fresh,
                     settled>>
  BY DEF NextWrite, Counted, reading
<1>2. /\ source \in Sources /\ setup \in Setup /\ setup.views \subseteq Views
      /\ view \in setup.views \ todo /\ w \in Writes /\ w.path \in Paths
      /\ w.content \in Seq(Row)
  BY SetupType DEF IInv, Types, TypeOK, StepsInOrder, Writes
<1>3. /\ result.created \in Nat /\ result.updated \in Nat /\ result.unchanged \in Nat
      /\ result.errors \in Nat /\ result \in [Fields -> Nat]
  BY DEF IInv, Types, TypeOK, Fields
<1>4. IsFiniteSet(plan) /\ IsFiniteSet(plan') /\ Cardinality(plan) \in Nat
      /\ Cardinality(plan') = Cardinality(plan) - 1
  <2>1. IsFiniteSet(plan)
    BY DEF IInv, Types
  <2>2. IsFiniteSet(plan \ {w}) /\ Cardinality(plan \ {w}) = Cardinality(plan) - 1
    BY <2>1, FS_RemoveElement
  <2> QED BY <1>1, <2>1, <2>2, FS_CardinalityType
<1>5. Types'
  <2>1. result' \in [Fields -> Nat]
    BY <1>1, <1>3, ResultType DEF IInv, Types
  <2>2. disk' = [p \in Paths |-> disk'[p]]
    BY <1>2 DEF IInv, Types
  <2>3. \A p \in Paths : disk'[p] \in Seq(Row) \/ disk'[p] \in {NoFile, Torn}
    BY <1>2 DEF IInv, Types, TypeOK
  <2>4. TypeOK'
    BY <1>1, <2>1, <2>3 DEF IInv, Types, TypeOK, Fields
  <2> QED BY <1>1, <1>4, <2>2, <2>4 DEF IInv, Types
<1>6. StepsInOrder' /\ RowsAreApart' /\ ReadSoFar' /\ SettledIsClean'
  BY <1>1, <1>2 DEF IInv, StepsInOrder, RowsAreApart, ReadSoFar, SettledIsClean
<1>11. Refusals' = Refusals /\ Refusals \in {0, 1}
  <2>1. Handled' = Handled
    BY <1>1 DEF Handled
  <2> QED BY <1>1, <2>1, SameRefusals, RefusalsAre
<1>7. ResultAddsUp' /\ RefusalsAreErrors'
  <2>1. result.created + result.updated + result.unchanged + result.errors
          + Cardinality(plan) = planned + Refusals
    BY <1>1 DEF IInv, ResultAddsUp
  <2>4. result'.errors = result.errors /\ result.errors >= Refusals
    BY <1>1, <1>3 DEF Fields, IInv, RefusalsAreErrors
  <2>5. planned \in Nat
    BY DEF IInv, Types
  <2>2. result'.created + result'.updated + result'.unchanged + result'.errors
          = result.created + result.updated + result.unchanged + result.errors + 1
    BY <1>1, <1>3 DEF Fields
  <2>3. /\ result'.created \in Nat /\ result'.updated \in Nat /\ result'.unchanged \in Nat
        /\ result'.errors \in Nat
    BY <1>1, <1>3 DEF Fields
  <2>6. result'.created + result'.updated + result'.unchanged + result'.errors
          + Cardinality(plan') = planned' + Refusals'
    BY <1>1, <1>3, <1>4, <1>11, <2>1, <2>2, <2>3, <2>5
  <2> QED BY <1>3, <1>11, <2>4, <2>6 DEF ResultAddsUp, RefusalsAreErrors
<1>8. Orders' = Orders /\ \A v, s : WritesOf(v, s)' = WritesOf(v, s)
  BY <1>1, SameOrders, SameSetup
<1>9. FilesAreCurrent'
  <2> SUFFICES ASSUME fresh, result'.errors = 0, NEW v \in Handled'
               PROVE  \E s \in Orders : Holding(v, s)' /\ (v = view => plan' \subseteq WritesOf(v, s))
    BY <1>1, <1>8 DEF FilesAreCurrent
  <2>1. Handled' = Handled /\ view \in Handled /\ v \in Views
    BY <1>1, <1>2 DEF Handled
  <2>2. result.errors = 0
    BY <1>1, <1>3 DEF Fields
  <2>3. \A u \in Handled : \E s \in Orders :
           Holding(u, s) /\ (u = view => plan \subseteq WritesOf(u, s))
    BY <1>1, <2>2 DEF IInv, FilesAreCurrent
  <2>4. PICK s \in Orders : Holding(v, s) /\ (v = view => plan \subseteq WritesOf(v, s))
    BY <2>1, <2>3
  <2>5. PICK t \in Orders : plan \subseteq WritesOf(view, t)
    BY <2>1, <2>3
  <2>6. CASE v = view
    <3>1. w \in WritesOf(v, s) /\ ~Ahead(v, w)' /\ disk'[w.path] = w.content
      BY <1>1, <1>2, <2>4, <2>6 DEF Ahead, IInv, Types
    <3>2. ASSUME NEW x \in WritesOf(v, s), ~Ahead(v, x)'
          PROVE  \E u \in WritesOf(v, s) : ~Ahead(v, u)' /\ u.path = x.path
                                             /\ disk'[x.path] = u.content
      <4>1. CASE x.path = w.path
        BY <3>1, <4>1
      <4>2. CASE x.path # w.path
        <5>1. ~Ahead(v, x)
          BY <1>1, <3>2, <4>2 DEF Ahead
        <5>2. PICK u \in WritesOf(v, s) : ~Ahead(v, u) /\ u.path = x.path
                                            /\ disk[x.path] = u.content
          BY <2>4, <5>1 DEF Holding
        <5>3. ~Ahead(v, u)' /\ disk'[x.path] = disk[x.path]
          BY <1>1, <4>2, <5>2 DEF Ahead, IInv, Types
        <5> QED BY <5>2, <5>3
      <4> QED BY <4>1, <4>2
    <3>3. Holding(v, s)'
      BY <1>8, <3>2 DEF Holding
    <3> QED BY <1>1, <2>4, <3>3
  <2>7. CASE v # view
    <3>1. /\ s \in Seq(Row) /\ Len(s) <= Cardinality(Ids)
          /\ t \in Seq(Row) /\ Len(t) <= Cardinality(Ids)
      BY <1>2, OrderLists
    <3>2. \A x \in WritesOf(v, s) : x.path # w.path
      <4>1. w \in WritesOf(view, t) /\ view \in Views
        BY <1>2, <2>5
      <4> QED BY <1>2, <2>1, <2>7, <3>1, <4>1, OwnFiles
    <3>3. \A x \in WritesOf(v, s) : disk'[x.path] = disk[x.path] /\ ~Ahead(v, x)
                                      /\ ~Ahead(v, x)'
      BY <1>1, <2>7, <3>2 DEF Ahead, IInv, Types
    <3>4. Holding(v, s)'
      BY <1>8, <2>4, <3>3 DEF Holding
    <3> QED BY <2>7, <3>4, <1>1
  <2> QED BY <2>6, <2>7
<1>10. NothingToDo'
  <2> SUFFICES ASSUME noop', Steady
               PROVE  /\ fresh /\ result'.created = 0 /\ result'.updated = 0
                      /\ result'.errors = 0
                      /\ "default" \in setup.views => setup.resolved
                      /\ \A v \in setup.views : \E s \in Orders : Current(v, s)'
                      /\ \A u \in plan' : disk'[u.path] = u.content
    BY <1>1, <1>8 DEF NothingToDo, Steady
  <2>1. noop /\ field = "unchanged" /\ disk' = disk
    OBVIOUS
  <2>2. /\ fresh /\ result.created = 0 /\ result.updated = 0 /\ result.errors = 0
        /\ "default" \in setup.views => setup.resolved
        /\ \A v \in setup.views : \E s \in Orders : Current(v, s)
        /\ \A u \in plan : disk[u.path] = u.content
    BY <1>1, <2>1 DEF IInv, NothingToDo
  <2>3. \A v, s : Current(v, s)' = Current(v, s)
    BY <1>8, <2>1 DEF Current
  <2>4. result'.created = 0 /\ result'.updated = 0 /\ result'.errors = 0
    BY <1>1, <1>3, <2>1, <2>2 DEF Fields
  <2> QED BY <1>1, <2>1, <2>2, <2>3, <2>4
<1> QED
  BY <1>5, <1>6, <1>7, <1>9, <1>10 DEF IInv

LEMMA FileIsWritten ==
  ASSUME IInv, NEW w \in plan, KeepFile(w) \/ WriteFile(w) \/ RewriteUnreadable(w)
  PROVE  IInv'
<1>1. /\ NextWrite(w) /\ noop \in BOOLEAN /\ phase # "idle"
      /\ disk = [p \in Paths |-> disk[p]]
  BY DEF KeepFile, WriteFile, RewriteUnreadable, NextWrite, IInv, Types
<1>2. CASE KeepFile(w)
  <2>1. disk' = disk /\ noop' = noop /\ disk[w.path] = w.content /\ Counted(w, "unchanged")
    BY <1>2 DEF KeepFile
  <2>2. disk' = [disk EXCEPT ![w.path] = w.content]
    BY <1>1, <2>1
  <2> QED BY <1>1, <2>1, <2>2, FileIsReached DEF Fields
<1>3. CASE WriteFile(w)
  <2> DEFINE field == IF disk[w.path] = NoFile THEN "created" ELSE "updated"
  <2>1. /\ noop' = noop /\ disk[w.path] # w.content /\ Counted(w, field)
        /\ disk' = [disk EXCEPT ![w.path] = w.content]
    BY <1>3 DEF WriteFile
  <2>2. field \in Fields \ {"errors"}
    BY DEF Fields
  <2>3. ~(noop' /\ Steady)
    BY <1>1, <2>1 DEF IInv, NothingToDo
  <2> HIDE DEF field
  <2> QED BY <1>1, <2>1, <2>2, <2>3, FileIsReached
<1>4. CASE RewriteUnreadable(w)
  <2>1. /\ noop' = FALSE /\ Counted(w, "created")
        /\ disk' = [disk EXCEPT ![w.path] = w.content]
    BY <1>4 DEF RewriteUnreadable, Fault
  <2> QED BY <1>1, <2>1, FileIsReached DEF Fields
<1> QED
  BY <1>2, <1>3, <1>4

LEMMA WriteIsLost ==
  ASSUME IInv, NEW w \in plan, WriteFails(w)
  PROVE  IInv'
<1>1. /\ phase = "building" /\ phase' = "building" /\ plan' = plan \ {w}
      /\ result' = [result EXCEPT !["errors"] = @ + 1] /\ noop' = FALSE
      /\ UNCHANGED <<setup, source, view, globbed, rows, todo, planned, status, fresh,
                     settled>>
  BY DEF WriteFails, Fault, NextWrite, Counted, reading
<1>2. /\ result.created \in Nat /\ result.updated \in Nat /\ result.unchanged \in Nat
      /\ result.errors \in Nat /\ result \in [Fields -> Nat] /\ w.path \in Paths
      /\ view \in setup.views \ todo
  BY DEF IInv, Types, TypeOK, Fields, Writes, StepsInOrder
<1>3. IsFiniteSet(plan) /\ IsFiniteSet(plan') /\ Cardinality(plan) \in Nat
      /\ Cardinality(plan') = Cardinality(plan) - 1
  <2>1. IsFiniteSet(plan)
    BY DEF IInv, Types
  <2>2. IsFiniteSet(plan \ {w}) /\ Cardinality(plan \ {w}) = Cardinality(plan) - 1
    BY <2>1, FS_RemoveElement
  <2> QED BY <1>1, <2>1, <2>2, FS_CardinalityType
<1>4. /\ result'.created = result.created /\ result'.updated = result.updated
      /\ result'.unchanged = result.unchanged /\ result'.errors = result.errors + 1
  BY <1>1, <1>2 DEF Fields
<1>5. Types'
  <2>1. result' \in [Fields -> Nat]
    BY <1>1, <1>2, ResultType DEF IInv, Types, Fields
  <2>2. disk' = disk \/ disk' = [disk EXCEPT ![w.path] = Torn]
    BY DEF WriteFails
  <2>3. disk' = [p \in Paths |-> disk'[p]]
    BY <2>2 DEF IInv, Types
  <2>4. \A p \in Paths : disk'[p] \in Seq(Row) \/ disk'[p] \in {NoFile, Torn}
    BY <1>2, <2>2 DEF IInv, Types, TypeOK
  <2>5. TypeOK'
    BY <1>1, <2>1, <2>4 DEF IInv, Types, TypeOK, Fields
  <2> QED BY <1>1, <1>3, <2>3, <2>5 DEF IInv, Types
<1>6. StepsInOrder' /\ RowsAreApart' /\ ReadSoFar' /\ SettledIsClean'
  BY <1>1, <1>2 DEF IInv, StepsInOrder, RowsAreApart, ReadSoFar, SettledIsClean
<1>7. ResultAddsUp' /\ RefusalsAreErrors'
  <2>1. result.created + result.updated + result.unchanged + result.errors
          + Cardinality(plan) = planned + Refusals
        /\ result.errors >= Refusals
    BY <1>1 DEF IInv, ResultAddsUp, RefusalsAreErrors
  <2>2. Handled' = Handled
    BY <1>1 DEF Handled
  <2>3. Refusals' = Refusals /\ Refusals \in {0, 1} /\ planned \in Nat
    BY <1>1, <2>2, SameRefusals, RefusalsAre DEF IInv, Types
  <2> QED BY <1>1, <1>2, <1>3, <1>4, <2>1, <2>3 DEF ResultAddsUp, RefusalsAreErrors
<1>8. FilesAreCurrent' /\ NothingToDo'
  BY <1>1, <1>2, <1>4 DEF FilesAreCurrent, NothingToDo
<1> QED
  BY <1>5, <1>6, <1>7, <1>8 DEF IInv

-----------------------------------------------------------------------------
(* The theorems. *)

LEMMA Steps == IInv /\ [Next]_vars => IInv'
<1> SUFFICES ASSUME IInv, [Next]_vars PROVE IInv'
  OBVIOUS
<1>1. CASE StartBuild
  BY <1>1, BuildStarts
<1>2. CASE StartView
  BY <1>2, ViewStarts
<1>3. CASE ReadRecord
  BY <1>3, RecordIsRead
<1>4. CASE PlanView
  BY <1>4, ViewIsPlanned
<1>5. CASE RecordVanished \/ ReadFails
  BY <1>5, BuildFails
<1>6. CASE \E w \in plan : KeepFile(w) \/ WriteFile(w) \/ RewriteUnreadable(w)
  BY <1>6, FileIsWritten
<1>7. CASE \E w \in plan : WriteFails(w)
  BY <1>7, WriteIsLost
<1>8. CASE ReturnResult
  BY <1>8, BuildReturns
<1>9. CASE Crash
  BY <1>9, ProcessDies
<1>10. CASE Edit
  BY <1>10, RecordIsEdited
<1>11. CASE UNCHANGED vars
  BY <1>11, NothingHappens
<1> QED
  BY <1>1, <1>2, <1>3, <1>4, <1>5, <1>6, <1>7, <1>8, <1>9, <1>10, <1>11
  DEF Next, BuildStep

LEMMA Invariant == Spec => []IInv
<1>1. Init => IInv
  BY Starts
<1>2. IInv /\ [Next]_vars => IInv'
  BY Steps
<1> QED
  BY <1>1, <1>2, PTL DEF Spec

\* Every variable keeps to the values that the Go types allow it, whatever the
\* records, the definition of the views and the faults.
THEOREM TypeCorrect == Spec => []TypeOK
<1>1. IInv => TypeOK
  BY DEF IInv, Types
<1> QED
  BY <1>1, Invariant, PTL

\* The MaterializeResult accounts for every file that a build has planned, and for
\* the foreign key of the default view when it leads nowhere.
THEOREM BooksBalance == Spec => []ResultAddsUp
<1>1. IInv => ResultAddsUp
  BY DEF IInv
<1> QED
  BY <1>1, Invariant, PTL

\* A build after a clean one, of records that stand still, writes nothing.
THEOREM RebuildChangesNothing == Spec => []RebuildIsNoOp
<1>1. IInv => RebuildIsNoOp
  BY DEF IInv, NothingToDo, RebuildIsNoOp, Steady
<1> QED
  BY <1>1, Invariant, PTL

-----------------------------------------------------------------------------
(* What a clean build leaves on disk. *)

\* The rows of s are the records, each once.
Lists(s) ==
  /\ s \in Seq(Row) /\ Len(s) = Cardinality(SourceRows) /\ Len(s) <= Cardinality(Ids)
  /\ \A i \in DOMAIN s : s[i] \in SourceRows
  /\ \A row \in SourceRows : \E i \in DOMAIN s : s[i] = row
  /\ \A i, j \in DOMAIN s : s[i] = s[j] => i = j

\* At each path of the view is something that the view writes there.
Stands(v, s) ==
  \A w \in WritesOf(v, s) : \E u \in WritesOf(v, s) : /\ u.path = w.path
                                                      /\ disk[w.path] = u.content

LEMMA ViewStands ==
  ASSUME IInv, CleanBuild, NEW v \in setup.views
  PROVE  \E s : Lists(s) /\ Stands(v, s)
<1>1. phase = "idle" /\ todo = {} /\ plan = {} /\ source \in Sources
  BY DEF CleanBuild, IInv, StepsInOrder, Types, TypeOK
<1>2. v \in Handled
  BY <1>1 DEF Handled
<1>3. PICK s \in Orders : Holding(v, s)
  BY <1>2 DEF CleanBuild, IInv, FilesAreCurrent
<1>4. Stands(v, s)
  BY <1>1, <1>3 DEF Holding, Ahead, Stands
<1>5. Lists(s)
  BY <1>1, OrderLists DEF Lists, SourceRows
<1> QED
  BY <1>4, <1>5

LEMMA OwnPaths ==
  ASSUME setup \in Setup, NEW v \in Views, NEW s, Lists(s), Stands(v, s),
         v = "partitioned" => setup.placed
  PROVE  \A w \in WritesOf(v, s) : disk[w.path] = w.content
<1>1. \A u, w \in WritesOf(v, s) : u.path = w.path => u = w
  BY WritesType DEF Lists
<1> QED
  BY <1>1 DEF Stands

LEMMA SortLists ==
  ASSUME NEW s, Lists(s)
  PROVE  /\ Lists(StableSort(s))
         /\ \A q, r \in DOMAIN StableSort(s) :
              q < r => ~Before(StableSort(s)[r].val, StableSort(s)[q].val)
<1> DEFINE t == StableSort(s)
<1>1. s \in Seq(Row)
  BY DEF Lists
<1>2. PICK to \in [DOMAIN s -> DOMAIN s] :
           /\ t \in Seq(Row) /\ Len(t) = Len(s)
           /\ \A r \in DOMAIN s : t[r] = s[to[r]]
           /\ \A i \in DOMAIN s : \E r \in DOMAIN s : to[r] = i
           /\ \A q, r \in DOMAIN s : to[q] = to[r] => q = r
           /\ \A q, r \in DOMAIN s : q < r => ~Before(s[to[r]].val, s[to[q]].val)
  BY <1>1, Sorts
<1> HIDE DEF t
<1>3. DOMAIN t = DOMAIN s
  BY <1>1, <1>2
<1>4. \A q, r \in DOMAIN t : q < r => ~Before(t[r].val, t[q].val)
  <2> SUFFICES ASSUME NEW q \in DOMAIN s, NEW r \in DOMAIN s, q < r
               PROVE  ~Before(t[r].val, t[q].val)
    BY <1>3
  <2>1. t[r].val = s[to[r]].val /\ t[q].val = s[to[q]].val
    BY <1>2
  <2>2. ~Before(s[to[r]].val, s[to[q]].val)
    BY <1>2
  <2> QED BY <2>1, <2>2
<1>5. Lists(t)
  <2>1. \A i \in DOMAIN t : t[i] \in SourceRows
    BY <1>2, <1>3 DEF Lists
  <2>2. \A row \in SourceRows : \E i \in DOMAIN t : t[i] = row
    BY <1>2, <1>3 DEF Lists
  <2>3. \A i, j \in DOMAIN t : t[i] = t[j] => i = j
    BY <1>2, <1>3 DEF Lists
  <2> QED BY <1>2, <2>1, <2>2, <2>3 DEF Lists
<1> QED
  BY <1>4, <1>5 DEF t

\* The rows with a value are the records with that value.
LEMMA GroupsAreExact ==
  ASSUME NEW s, Lists(s), NEW v
  PROVE  /\ WithValue(s, v) \in Seq(Row)
         /\ Len(WithValue(s, v)) = Cardinality(Grouped(v))
         /\ \A row \in Grouped(v) :
              \E k \in DOMAIN WithValue(s, v) : WithValue(s, v)[k] = row
<1> DEFINE I == {i \in DOMAIN s : s[i].val = v}
           G == Grouped(v)
           at == [i \in I |-> s[i]]
<1>1. s \in Seq(Row) /\ DOMAIN s = 1..Len(s) /\ Len(s) \in Nat
  BY DEF Lists
<1>2. at \in [I -> G] /\ \A i, j \in I : at[i] = at[j] => i = j
  BY DEF Lists, Grouped
<1>3. \A row \in G : \E i \in I : at[i] = row
  <2>1. \A row \in G : \E i \in DOMAIN s : s[i] = row /\ row.val = v
    BY DEF Lists, Grouped
  <2> QED BY <2>1
<1>4. IsFiniteSet(I)
  <2>1. IsFiniteSet(1..Len(s))
    BY <1>1, Numbers
  <2>2. I \subseteq 1..Len(s)
    BY <1>1
  <2> HIDE DEF I
  <2> QED BY <2>1, <2>2, FS_Subset
<1>5. Cardinality(G) = Cardinality(I)
  <2> HIDE DEF I, G, at
  <2>1. at \in Injection(I, G) /\ at \in Surjection(I, G)
    BY <1>2, <1>3, Fun_IsInj, Fun_IsSurj
  <2> QED BY <1>4, <2>1, FS_Surjection
<1>6. /\ WithValue(s, v) \in Seq(Row)
      /\ Len(WithValue(s, v)) = Cardinality(I)
      /\ \A i \in DOMAIN s : s[i].val = v =>
           \E k \in DOMAIN WithValue(s, v) : WithValue(s, v)[k] = s[i]
  <2>1. Len(WithValue(s, v)) = Cardinality({i \in DOMAIN s : s[i].val = v})
    BY <1>1, WithValueHolds
  <2>2. WithValue(s, v) \in Seq(Row)
    BY <1>1, WithValueHolds
  <2>3. \A i \in DOMAIN s : s[i].val = v =>
          \E k \in DOMAIN WithValue(s, v) : WithValue(s, v)[k] = s[i]
    BY <1>1, WithValueKeeps
  <2> QED BY <2>1, <2>2, <2>3
<1>7. \A row \in G : \E i \in DOMAIN s : s[i].val = v /\ s[i] = row
  BY <1>3
<1> QED
  BY <1>5, <1>6, <1>7

LEMMA SameValues ==
  ASSUME NEW s, Lists(s)
  PROVE  ValuesIn(s) = UsedValues
<1>1. \A v : v \in {s[i].val : i \in DOMAIN s} <=> v \in {row.val : row \in SourceRows}
  BY DEF Lists
<1> QED
  BY <1>1 DEF ValuesIn, UsedValues

LEMMA GroupIsExact ==
  ASSUME NEW s, Lists(s), NEW v, NEW p, disk[p] = WithValue(s, v)
  PROVE  Exactly(p, Grouped(v))
<1>1. disk[p] \in Seq(Row) /\ Len(disk[p]) = Cardinality(Grouped(v))
        /\ \A row \in Grouped(v) : \E k \in DOMAIN disk[p] : disk[p][k] = row
  BY GroupsAreExact
<1> QED
  BY <1>1, FilesAssumption DEF Exactly, Written, Holds

\* Multiples of a batch size are in the order of what they are multiples of.
LEMMA Scaled ==
  ASSUME NEW b \in Nat, b > 0, NEW m \in Int, NEW n \in Int, m * b < n * b
  PROVE  m < n
<1> SUFFICES ASSUME n <= m PROVE n * b <= m * b
  OBVIOUS
<1>1. (m - n) * b >= 0
  OBVIOUS
<1> QED
  BY <1>1

LEMMA CountOfBatches ==
  ASSUME setup \in Setup, NEW s, Lists(s), TotalBatches(s) # 1
  PROVE  BatchCount = TotalBatches(s)
<1> DEFINE T == TotalBatches(s)
           b == setup.batchSize
           L == Cardinality(SourceRows)
           N == Cardinality(Ids)
<1>1. s \in Seq(Row) /\ Len(s) = L /\ L <= N /\ L \in Nat
  BY DEF Lists
<1>2. /\ T \in Nat \ {0} /\ T <= L /\ b \in Nat /\ b > 0
      /\ (T - 1) * b < L /\ L <= T * b
  BY <1>1, ManyBatches
<1>3. N \in Nat
  BY IdsAssumption, FS_CardinalityType
<1> HIDE DEF T, b, L, N
<1>4. T \in 1..N /\ T * b >= L /\ (T - 1) * b < L /\ T * b \in Nat
  BY <1>1, <1>2, <1>3
<1>5. ASSUME NEW n \in 1..N, n * b >= L, (n - 1) * b < L
      PROVE  n = T
  <2>1. n \in Int /\ n - 1 \in Int /\ T \in Int /\ T - 1 \in Int /\ n * b \in Int
        /\ (n - 1) * b \in Int /\ (T - 1) * b \in Int
    BY <1>2, <1>3
  <2>2. (n - 1) * b < T * b /\ (T - 1) * b < n * b
    BY <1>1, <1>4, <1>5, <2>1
  <2>3. n - 1 < T
    BY <1>2, <2>1, <2>2, Scaled
  <2>4. T - 1 < n
    BY <1>2, <2>1, <2>2, Scaled
  <2> QED BY <2>1, <2>3, <2>4
<1>6. T = CHOOSE n \in 1..N : n * b >= L /\ (n - 1) * b < L
  BY <1>4, <1>5
<1> QED
  BY <1>6 DEF BatchCount, T, b, L, N

\* Each position is in one batch.
LEMMA BatchOf ==
  ASSUME NEW b \in Nat, b > 0, NEW i \in Nat, i > 0
  PROVE  LET n == (i - 1) \div b + 1
         IN n \in Nat /\ n > 0 /\ (n - 1) * b < i /\ i <= n * b
<1> DEFINE q == (i - 1) \div b
<1>1. q \in Nat /\ q * b <= i - 1 /\ i - 1 < q * b + b
  OBVIOUS
<1>2. (q + 1) * b = q * b + b
  <2> HIDE DEF q
  <2> QED BY <1>1
<1>3. (q + 1 - 1) * b = q * b /\ q * b \in Nat
  <2> HIDE DEF q
  <2> QED BY <1>1
<1> QED
  BY <1>1, <1>2, <1>3

LEMMA BatchedOnce ==
  ASSUME setup \in Setup, NEW s, Lists(s), TotalBatches(s) # 1,
         \A n \in 1..TotalBatches(s) : disk[Path("batch", n)] = BatchRows(s, n),
         NEW row \in SourceRows
  PROVE  Cardinality({n \in 1..TotalBatches(s) : Holds(Path("batch", n), row)}) = 1
<1> DEFINE T == TotalBatches(s)
           b == setup.batchSize
           L == Len(s)
           B == {n \in 1..T : Holds(Path("batch", n), row)}
<1>1. s \in Seq(Row) /\ L \in Nat /\ DOMAIN s = 1..L
      /\ \A i, j \in DOMAIN s : s[i] = s[j] => i = j
  BY DEF Lists
<1>2. /\ T \in Nat \ {0} /\ b \in Nat /\ b > 0 /\ L <= T * b
  BY <1>1, ManyBatches
<1>3. PICK i \in 1..L : s[i] = row
  BY <1>1 DEF Lists
<1>4. ASSUME NEW n \in 1..T
      PROVE  /\ BatchRows(s, n) \in Seq(Row)
             /\ Len(BatchRows(s, n)) = Least(n * b, L) - (n - 1) * b
             /\ Len(BatchRows(s, n)) \in 1..b
             /\ \A k \in 1..Len(BatchRows(s, n)) : BatchRows(s, n)[k] = s[(n - 1) * b + k]
  BY <1>1, BatchHolds
<1> HIDE DEF T, b, L
<1>5. ASSUME NEW n \in 1..T
      PROVE  Holds(Path("batch", n), row) <=> (n - 1) * b < i /\ i <= n * b
  <2> DEFINE t == BatchRows(s, n)
             o == (n - 1) * b
  <2>1. t \in Seq(Row) /\ DOMAIN t = 1..Len(t) /\ Len(t) \in Nat
        /\ Len(t) = Least(n * b, L) - o
        /\ \A k \in 1..Len(t) : t[k] = s[o + k]
    BY <1>4
  <2>2. Holds(Path("batch", n), row) <=> \E k \in DOMAIN t : t[k] = row
    BY DEF Holds, T
  <2>3. o \in Nat /\ n * b \in Nat /\ n * b = o + b
    BY <1>2
  <2> HIDE DEF t, o
  <2>4. Least(n * b, L) \in Nat /\ Least(n * b, L) <= n * b /\ Least(n * b, L) <= L
        /\ (i <= n * b => i <= Least(n * b, L))
    BY <1>1, <2>3 DEF Least
  <2>5. ASSUME NEW k \in DOMAIN t, t[k] = row PROVE o < i /\ i <= n * b
    <3>1. k \in Nat /\ k > 0 /\ k <= Least(n * b, L) - o /\ o + k \in 1..L
      BY <1>1, <2>1, <2>3, <2>4
    <3>2. s[o + k] = s[i]
      BY <1>3, <2>1, <2>5
    <3>3. o + k = i
      BY <1>1, <1>3, <3>1, <3>2
    <3> QED BY <2>3, <2>4, <3>1, <3>3
  <2>6. ASSUME o < i, i <= n * b PROVE \E k \in DOMAIN t : t[k] = row
    <3> DEFINE k == i - o
    <3>1. k \in 1..Len(t) /\ o + k = i
      BY <1>1, <2>1, <2>3, <2>4, <2>6
    <3> HIDE DEF k
    <3> QED BY <1>3, <2>1, <3>1
  <2> QED BY <2>2, <2>5, <2>6 DEF o
<1> DEFINE m == (i - 1) \div b + 1
<1>6. m \in Nat /\ m > 0 /\ (m - 1) * b < i /\ i <= m * b
  BY <1>1, <1>2, <1>3, BatchOf
<1> HIDE DEF m
<1>7. m \in 1..T
  <2>1. (m - 1) * b < T * b
    BY <1>1, <1>2, <1>3, <1>6
  <2>2. m - 1 < T
    BY <1>2, <1>6, <2>1, Scaled
  <2> QED BY <1>2, <1>6, <2>2
<1>8. ASSUME NEW n \in 1..T, (n - 1) * b < i, i <= n * b PROVE n = m
  <2>1. n * b \in Int /\ m * b \in Int /\ (n - 1) * b \in Int /\ (m - 1) * b \in Int
    BY <1>2, <1>6
  <2>2. (n - 1) * b < m * b /\ (m - 1) * b < n * b
    BY <1>1, <1>3, <1>6, <1>8, <2>1
  <2>3. n - 1 < m
    BY <1>2, <1>6, <2>2, Scaled
  <2>4. m - 1 < n
    BY <1>2, <1>6, <2>2, Scaled
  <2> QED BY <1>2, <1>6, <2>3, <2>4
<1>9. B = {m}
  <2>1. \A n \in 1..T : n \in B <=> n = m
    BY <1>5, <1>6, <1>7, <1>8
  <2> QED BY <1>7, <2>1
<1> QED
  <2>1. Cardinality(B) = 1
    BY <1>9, FS_Singleton
  <2> QED BY <2>1 DEF T

LEMMA DefaultStands ==
  ASSUME setup \in Setup, setup.resolved, NEW s, Lists(s), Stands("default", s)
  PROVE  DefaultCurrent /\ \A v \in UsedValues : Exactly(Path("fk", v), Grouped(v))
<1> DEFINE T == TotalBatches(s)
<1>1. s \in Seq(Row) /\ Len(s) = Cardinality(SourceRows) /\ setup.batchSize \in Nat
  BY DEF Lists, Setup
<1>2. T \in Nat \ {0} /\ (T = 1 <=> OneFile)
  BY <1>1, ManyBatches DEF OneFile
<1>3. \A w \in WritesOf("default", s) : disk[w.path] = w.content
  BY OwnPaths DEF Views
<1>4. WritesOf("default", s) = DefaultWrites(s) \cup GroupWrites("fk", s, T + 1)
  BY DEF WritesOf, FKWrites
<1>5. DefaultCurrent
  <2>1. CASE T = 1
    <3> DEFINE w == WriteOf(Path("default", 0), s, 0)
    <3>1. w \in WritesOf("default", s)
      BY <1>4, <2>1 DEF DefaultWrites
    <3>2. disk[Path("default", 0)] = s
      BY <1>3, <3>1 DEF WriteOf
    <3>3. Exactly(Path("default", 0), SourceRows)
      BY <1>1, <3>2, FilesAssumption DEF Exactly, Written, Holds, Lists
    <3> QED BY <1>2, <2>1, <3>3 DEF DefaultCurrent
  <2>2. CASE T # 1
    <3>1. ASSUME NEW n \in 1..T PROVE disk[Path("batch", n)] = BatchRows(s, n)
      <4> DEFINE w == WriteOf(Path("batch", n), BatchRows(s, n), n)
      <4>1. w \in WritesOf("default", s)
        BY <1>4, <2>2 DEF DefaultWrites
      <4> QED BY <1>3, <4>1 DEF WriteOf
    <3>2. BatchCount = T
      BY <2>2, CountOfBatches
    <3>3. \A n \in 1..T : /\ Written(Path("batch", n))
                          /\ Len(disk[Path("batch", n)]) \in 1..setup.batchSize
      <4> SUFFICES ASSUME NEW n \in 1..T
                   PROVE  /\ Written(Path("batch", n))
                          /\ Len(disk[Path("batch", n)]) \in 1..setup.batchSize
        OBVIOUS
      <4>1. BatchRows(s, n) \in Seq(Row) /\ Len(BatchRows(s, n)) \in 1..setup.batchSize
        BY <1>1, <2>2, BatchHolds
      <4> QED BY <3>1, <4>1, FilesAssumption DEF Written
    <3>4. \A row \in SourceRows :
            Cardinality({n \in 1..T : Holds(Path("batch", n), row)}) = 1
      BY <2>2, <3>1, BatchedOnce
    <3> HIDE DEF T
    <3> QED BY <1>2, <2>2, <3>2, <3>3, <3>4 DEF DefaultCurrent
  <2> QED BY <2>1, <2>2
<1>6. ASSUME NEW v \in UsedValues
      PROVE  Exactly(Path("fk", v), Grouped(v))
  <2> DEFINE w == WriteOf(Path("fk", v), WithValue(s, v), T + 1)
  <2>1. v \in ValuesIn(s)
    BY SameValues
  <2>2. w \in GroupWrites("fk", s, T + 1)
    BY <2>1 DEF GroupWrites, GroupPath
  <2>3. disk[Path("fk", v)] = WithValue(s, v)
    BY <1>3, <1>4, <2>2 DEF WriteOf
  <2> QED BY <2>3, GroupIsExact
<1> QED
  BY <1>5, <1>6

LEMMA PartitionsStand ==
  ASSUME setup \in Setup, NEW s, Lists(s), Stands("partitioned", s)
  PROVE  /\ setup.placed => \A v \in UsedValues : Exactly(Path("part", v), Grouped(v))
         /\ ~setup.placed /\ UsedValues # {} =>
              \E v \in UsedValues : Exactly(Path("part", 0), Grouped(v))
<1> DEFINE t == StableSort(s)
           file(v) == WriteOf(GroupPath("part", v), WithValue(t, v), 0)
<1>1. Lists(t) /\ ValuesIn(t) = UsedValues
  BY SortLists, SameValues
<1>2. WritesOf("partitioned", s) = GroupWrites("part", t, 0)
  BY DEF WritesOf
<1> HIDE DEF t
<1>3. WritesOf("partitioned", s) = {file(v) : v \in UsedValues}
  BY <1>1, <1>2 DEF GroupWrites
<1>4. ASSUME setup.placed, NEW v \in UsedValues
      PROVE  Exactly(Path("part", v), Grouped(v))
  <2>1. \A w \in WritesOf("partitioned", s) : disk[w.path] = w.content
    BY <1>4, OwnPaths DEF Views
  <2>2. file(v) \in WritesOf("partitioned", s)
    BY <1>3
  <2>3. disk[Path("part", v)] = WithValue(t, v)
    BY <1>4, <2>1, <2>2 DEF WriteOf, GroupPath
  <2> QED BY <1>1, <2>3, GroupIsExact
<1>5. ASSUME ~setup.placed, NEW x \in UsedValues
      PROVE  \E v \in UsedValues : Exactly(Path("part", 0), Grouped(v))
  <2>1. file(x) \in WritesOf("partitioned", s) /\ file(x).path = Path("part", 0)
    BY <1>3, <1>5 DEF WriteOf, GroupPath
  <2>2. PICK u \in WritesOf("partitioned", s) : disk[Path("part", 0)] = u.content
    BY <2>1 DEF Stands
  <2>3. PICK v \in UsedValues : u = file(v)
    BY <1>3
  <2>4. disk[Path("part", 0)] = WithValue(t, v)
    BY <2>2, <2>3 DEF WriteOf
  <2> QED BY <1>1, <2>4, GroupIsExact
<1> QED
  BY <1>4, <1>5

LEMMA NamedStands ==
  ASSUME setup \in Setup, setup.orderShown, NEW s, Lists(s), Stands("named", s)
  PROVE  NamedCurrent
<1> DEFINE t == StableSort(s)
           p == Path("named", 0)
           d == disk[p]
           L == Cardinality(SourceRows)
           m == IF setup.top > 0 THEN Least(setup.top, L) ELSE L
<1>1. WritesOf("named", s) = {WriteOf(p, NamedRows(t), 0)}
  BY DEF WritesOf, FilterColumns
<1>2. d = NamedRows(t)
  <2>1. \A w \in WritesOf("named", s) : disk[w.path] = w.content
    BY OwnPaths DEF Views
  <2> HIDE DEF t
  <2>2. WriteOf(p, NamedRows(t), 0) \in WritesOf("named", s)
    BY <1>1
  <2> QED BY <2>1, <2>2 DEF WriteOf
<1>3. Lists(t) /\ \A q, r \in DOMAIN t : q < r => ~Before(t[r].val, t[q].val)
  BY SortLists
<1> HIDE DEF t
<1>4. /\ t \in Seq(Row) /\ Len(t) = L /\ L \in Nat /\ DOMAIN t = 1..L
      /\ \A i, j \in DOMAIN t : t[i] = t[j] => i = j
      /\ \A i \in DOMAIN t : t[i] \in SourceRows
  BY <1>3 DEF Lists
<1>5. \A row \in SourceRows : \E i \in DOMAIN t : t[i] = row
  BY <1>3 DEF Lists
<1>6. m \in 0..L /\ d \in Seq(Row) /\ Len(d) = m /\ \A i \in 1..m : d[i] = t[i]
  <2> HIDE DEF d
  <2>1. t \in Seq(Row) /\ Len(t) = L
    BY <1>4
  <2>2. m = IF setup.top > 0 THEN Least(setup.top, Len(t)) ELSE Len(t)
    BY <2>1
  <2> HIDE DEF m, L
  <2>3. m \in 0..Len(t) /\ NamedRows(t) \in Seq(Row) /\ Len(NamedRows(t)) = m
        /\ \A i \in 1..m : NamedRows(t)[i] = t[i]
    BY <2>1, <2>2, NamedRowsHold
  <2> QED BY <1>2, <2>1, <2>3
<1>7. Len(d) = IF setup.top = 0 THEN L ELSE Least(setup.top, L)
  BY <1>6 DEF Setup
<1> HIDE DEF m, d, L
<1>8. DOMAIN d = 1..m /\ 1..m \subseteq 1..L /\ m \in Nat
  BY <1>4, <1>6
<1>9. \A row \in SourceRows : row.val = source[row.id]
  BY DEF SourceRows, RowsOf
<1>10. \A q, r \in SourceRows : q.id = r.id => q = r
  BY DEF SourceRows, RowsOf
<1>11. ASSUME NEW i \in DOMAIN d, NEW j \in DOMAIN d, i < j
       PROVE  d[i].id # d[j].id /\ ~Before(source[d[j].id], source[d[i].id])
  <2>1. i \in DOMAIN t /\ j \in DOMAIN t /\ d[i] = t[i] /\ d[j] = t[j] /\ i # j
    BY <1>4, <1>6, <1>8, <1>11
  <2>2. t[i] \in SourceRows /\ t[j] \in SourceRows /\ t[i] # t[j]
    BY <1>4, <2>1
  <2>3. ~Before(t[j].val, t[i].val)
    BY <1>3, <1>11, <2>1
  <2> QED BY <1>9, <1>10, <2>1, <2>2, <2>3
<1>12. ASSUME NEW i \in DOMAIN d, NEW row \in SourceRows, Before(row.val, source[d[i].id])
       PROVE  Listed(row)
  <2>1. i \in DOMAIN t /\ d[i] = t[i] /\ t[i] \in SourceRows
    BY <1>4, <1>6, <1>8
  <2>2. PICK k \in DOMAIN t : t[k] = row
    BY <1>5
  <2>3. Before(t[k].val, t[i].val)
    BY <1>9, <1>12, <2>1, <2>2
  <2>4. ~(i < k)
    BY <1>3, <2>1, <2>2, <2>3
  <2>5. k \in DOMAIN d /\ d[k] = row
    BY <1>4, <1>6, <1>8, <2>1, <2>2, <2>4
  <2> QED BY <2>5 DEF Listed, d, p
<1>13. Written(p)
  BY <1>6, FilesAssumption DEF Written, d
<1> QED
  BY <1>7, <1>11, <1>12, <1>13 DEF NamedCurrent, d, L

\* After a build without errors over records that stood still, each record is in
\* exactly one batch of the default view, each foreign-key and partition file
\* holds exactly the records with its value, and a named view that shows the
\* column it is ordered by holds the first records in order, whatever earlier
\* failures and crashes have left on disk.
THEOREM CleanBuildStands == Spec => []CleanBuildIsCurrent
<1>1. IInv => CleanBuildIsCurrent
  <2> SUFFICES ASSUME IInv, CleanBuild PROVE CleanBuildIsCurrent
    BY DEF CleanBuildIsCurrent
  <2>1. setup \in Setup
    BY SetupType DEF IInv, Types
  <2>2. ASSUME "default" \in setup.views
        PROVE  DefaultCurrent /\ \A v \in UsedValues : Exactly(Path("fk", v), Grouped(v))
    <3>1. setup.resolved
      BY <2>2, ResolvedWhenClean
    <3> QED BY <2>1, <2>2, <3>1, ViewStands, DefaultStands
  <2>3. ASSUME "partitioned" \in setup.views
        PROVE  /\ setup.placed => \A v \in UsedValues : Exactly(Path("part", v), Grouped(v))
               /\ ~setup.placed /\ UsedValues # {} =>
                    \E v \in UsedValues : Exactly(Path("part", 0), Grouped(v))
    BY <2>1, <2>3, ViewStands, PartitionsStand
  <2>4. ASSUME "named" \in setup.views, setup.orderShown
        PROVE  NamedCurrent
    BY <2>1, <2>4, ViewStands, NamedStands
  <2> QED
    BY <2>2, <2>3, <2>4 DEF CleanBuildIsCurrent
<1> QED
  BY <1>1, Invariant, PTL
=============================================================================
