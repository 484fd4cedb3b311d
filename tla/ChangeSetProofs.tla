--------------------------- MODULE ChangeSetProofs ---------------------------
(***************************************************************************)
(* That the change set which a transaction log's instructions build up     *)
(* describes the transaction, for collections of any size and logs of any  *)
(* length.                                                                 *)
(***************************************************************************)
EXTENDS TransactLogObserver, FiniteSetTheorems, SequenceTheorems,
        WellFoundedInduction, TLAPS

-----------------------------------------------------------------------------
(* Counting.                                                               *)

\* The indices below i that are not in S.
Others(S, i) == (0..(i - 1)) \ S

\* unshift counts the indices that are not in the set.
LEMMA UnshiftCounts ==
  ASSUME NEW S \in SUBSET Nat, NEW i \in Nat
  PROVE  /\ IsFiniteSet(Others(S, i))
         /\ unshift(S, i) = Cardinality(Others(S, i))
         /\ unshift(S, i) \in 0..i
         /\ count(S, 0, i) = i - unshift(S, i)
<1> DEFINE B == 0..(i - 1)
<1>1. IsFiniteSet(B) /\ Cardinality(B) = i
  BY FS_Interval
<1>2. /\ IsFiniteSet(Others(S, i))
      /\ Cardinality(Others(S, i)) = i - Cardinality(B \cap S)
  BY <1>1, FS_Difference DEF Others
<1>3. /\ Cardinality(Others(S, i)) \in Nat /\ Cardinality(Others(S, i)) <= i
      /\ Cardinality(B \cap S) \in Nat
  BY <1>1, <1>2, FS_Subset, FS_CardinalityType DEF Others
<1>4. \A j \in S : 0 <= j /\ j < i <=> j \in B
  OBVIOUS
<1>5. {j \in S : 0 <= j /\ j < i} = B \cap S
  BY <1>4, Zenon
<1>6. count(S, 0, i) = Cardinality(B \cap S)
  BY <1>5 DEF count
<1> QED BY <1>2, <1>3, <1>6 DEF unshift

\* unshift keeps the order, and keeps apart what is not in the set.
LEMMA UnshiftKeepsOrder ==
  ASSUME NEW S \in SUBSET Nat, NEW i \in Nat, NEW j \in Nat, i < j
  PROVE  /\ unshift(S, i) <= unshift(S, j)
         /\ i \notin S => unshift(S, i) < unshift(S, j)
<1>1. Others(S, i) \subseteq Others(S, j)
  BY DEF Others
<1>2. i \notin S => i \in Others(S, j) /\ i \notin Others(S, i)
  BY DEF Others
<1>3. /\ Cardinality(Others(S, i)) <= Cardinality(Others(S, j))
      /\ i \notin S => Cardinality(Others(S, i)) # Cardinality(Others(S, j))
  BY <1>1, <1>2, UnshiftCounts, FS_Subset
<1> QED BY <1>3, UnshiftCounts

\* shift finds what unshift came from.
LEMMA ShiftOfUnshift ==
  ASSUME NEW S \in SUBSET Nat, IsFiniteSet(S), NEW j \in Nat, j \notin S
  PROVE  shift(S, unshift(S, j)) = j
<1> DEFINE i == unshift(S, j)
           T == {k \in S : 0 <= k /\ k < j}
<1>1. i \in 0..j /\ Cardinality(T) = j - i
  BY UnshiftCounts DEF count
<1>2. Cardinality(T) <= Cardinality(S) /\ Cardinality(S) \in Nat
  BY FS_Subset, FS_CardinalityType
<1>3. j \in i..(i + Cardinality(S))
  BY <1>1, <1>2
<1>4. ASSUME NEW k \in i..(i + Cardinality(S)), k \notin S, unshift(S, k) = i
      PROVE  k = j
  <2>1. k \in Nat
    BY <1>1, <1>2
  <2> QED BY <1>4, <1>1, <2>1, UnshiftKeepsOrder
<1> QED BY <1>3, <1>4 DEF shift

\* shift and unshift for the positions of an insertion, and for one position.
LEMMA UnshiftPositions ==
  ASSUME NEW i \in Nat, NEW n \in Nat, NEW k \in Nat
  PROVE  unshift(Positions(i, n), k) =
           IF k < i THEN k ELSE IF k < i + n THEN i ELSE k - n
<1> DEFINE T == {j \in Positions(i, n) : 0 <= j /\ j < k}
           end == IF k < i + n THEN k - 1 ELSE i + n - 1
<1>1. \A j : j \in T <=> j \in i..end
  BY DEF Positions
<1>2. Cardinality(i..end) = IF i > end THEN 0 ELSE end - i + 1
  BY FS_Interval
<1>3. T = i..end
  BY <1>1, Zenon
<1>4. unshift(Positions(i, n), k) = k - Cardinality(i..end)
  BY <1>3 DEF unshift, count
<1> QED BY <1>2, <1>4

LEMMA ShiftPositions ==
  ASSUME NEW i \in Nat, NEW n \in Nat, NEW k \in Nat
  PROVE  shift(Positions(i, n), k) = IF k < i THEN k ELSE k + n
<1> DEFINE j == IF k < i THEN k ELSE k + n
           P == Positions(i, n)
<1>1. P \in SUBSET Nat /\ IsFiniteSet(P)
  BY FS_Interval DEF Positions
<1>2. j \in Nat /\ j \notin P
  BY DEF Positions
<1>3. unshift(P, j) = k
  BY <1>2, UnshiftPositions
<1>4. shift(P, unshift(P, j)) = j
  BY <1>1, <1>2, ShiftOfUnshift
<1> QED BY <1>3, <1>4

LEMMA OnePosition ==
  ASSUME NEW i \in Nat
  PROVE  Positions(i, 1) = {i}
BY DEF Positions

\* Positions after an insertion and after an erasure.
LEMMA ShiftedForInsert ==
  ASSUME NEW S \in SUBSET Nat, NEW i \in Nat, NEW n \in Nat
  PROVE  shift_for_insert_at(S, Positions(i, n)) =
           {j \in Nat : (j < i /\ j \in S) \/ (j >= i + n /\ j - n \in S)}
<1>1. ASSUME NEW j \in shift_for_insert_at(S, Positions(i, n))
      PROVE  j \in Nat /\ ((j < i /\ j \in S) \/ (j >= i + n /\ j - n \in S))
  <2>1. PICK k \in S : j = shift(Positions(i, n), k)
    BY <1>1 DEF shift_for_insert_at
  <2>2. k \in Nat /\ j = (IF k < i THEN k ELSE k + n)
    BY <2>1, ShiftPositions
  <2>3. CASE k < i
    BY <2>2, <2>3
  <2>4. CASE ~(k < i)
    <3>1. j \in Nat /\ j >= i + n /\ j - n = k
      BY <2>2, <2>4
    <3> QED BY <3>1
  <2> QED BY <2>3, <2>4
<1>2. ASSUME NEW j \in Nat, (j < i /\ j \in S) \/ (j >= i + n /\ j - n \in S)
      PROVE  j \in shift_for_insert_at(S, Positions(i, n))
  <2>1. CASE j < i /\ j \in S
    BY <2>1, ShiftPositions DEF shift_for_insert_at
  <2>2. CASE j >= i + n /\ j - n \in S
    <3>1. j - n \in S /\ shift(Positions(i, n), j - n) = j
      BY <2>2, ShiftPositions
    <3> QED BY <3>1 DEF shift_for_insert_at
  <2> QED BY <1>2, <2>1, <2>2
<1> HIDE DEF shift_for_insert_at
<1> QED BY <1>1, <1>2

LEMMA ErasedAt ==
  ASSUME NEW S \in SUBSET Nat, NEW i \in Nat
  PROVE  erase_at(S, {i}) =
           {j \in Nat : (j < i /\ j \in S) \/ (j >= i /\ j + 1 \in S)}
<1>0. ASSUME NEW k \in Nat, k # i
      PROVE  unshift({i}, k) = IF k < i THEN k ELSE k - 1
  <2>1. unshift(Positions(i, 1), k) =
          IF k < i THEN k ELSE IF k < i + 1 THEN i ELSE k - 1
    BY UnshiftPositions
  <2>2. unshift({i}, k) = unshift(Positions(i, 1), k)
    BY OnePosition, Zenon
  <2> QED BY <1>0, <2>1, <2>2
<1>1. ASSUME NEW j \in erase_at(S, {i})
      PROVE  j \in Nat /\ ((j < i /\ j \in S) \/ (j >= i /\ j + 1 \in S))
  BY <1>0, <1>1 DEF erase_at
<1>2. ASSUME NEW j \in Nat, (j < i /\ j \in S) \/ (j >= i /\ j + 1 \in S)
      PROVE  j \in erase_at(S, {i})
  <2>1. CASE j < i /\ j \in S
    BY <1>0, <2>1 DEF erase_at
  <2>2. CASE j >= i /\ j + 1 \in S
    <3>1. j + 1 \in S \ {i} /\ unshift({i}, j + 1) = j
      BY <1>0, <2>2
    <3> QED BY <3>1 DEF erase_at
  <2> QED BY <1>2, <2>1, <2>2
<1> QED BY <1>1, <1>2

-----------------------------------------------------------------------------
(* Sequences by positions from 0.                                          *)

LEMMA Terms ==
  ASSUME NEW S, NEW s \in Seq(S)
  PROVE  /\ Len(s) \in Nat /\ DOMAIN s = 1..Len(s)
         /\ \A k \in DOMAIN s : s[k] \in S
OBVIOUS

LEMMA WiderSequence ==
  ASSUME NEW S, NEW T, S \subseteq T, NEW s \in Seq(S)
  PROVE  s \in Seq(T)
<1>1. s \in [1..Len(s) -> T] /\ Len(s) \in Nat
  BY Terms
<1> QED BY <1>1

LEMMA MappedSequence ==
  ASSUME NEW S, NEW T, NEW s \in Seq(S), NEW t, t = [k \in DOMAIN s |-> t[k]],
         \A k \in DOMAIN s : t[k] \in T
  PROVE  t \in Seq(T) /\ Len(t) = Len(s) /\ DOMAIN t = DOMAIN s
<1>1. t \in [1..Len(s) -> T] /\ Len(s) \in Nat
  OBVIOUS
<1> QED BY <1>1

LEMMA Elements ==
  ASSUME NEW S, NEW s \in Seq(S)
  PROVE  /\ Len(s) \in Nat
         /\ \A j \in Indices(s) : j \in Nat /\ At(s, j) \in S
         /\ \A e : e \in ToSet(s) <=> \E j \in Indices(s) : At(s, j) = e
<1>1. \A j \in Indices(s) : j + 1 \in DOMAIN s /\ At(s, j) \in S
  BY DEF Indices, At
<1>2. ASSUME NEW k \in DOMAIN s
      PROVE  k - 1 \in Indices(s) /\ At(s, k - 1) = s[k]
  BY DEF Indices, At
<1>3. \A e : e \in ToSet(s) <=> \E k \in DOMAIN s : s[k] = e
  BY DEF ToSet
<1>4. \A e : e \in ToSet(s) => \E j \in Indices(s) : At(s, j) = e
  BY <1>2, <1>3
<1>5. \A j \in Indices(s) : At(s, j) \in ToSet(s)
  BY <1>1, <1>3 DEF At
<1> QED BY <1>1, <1>4, <1>5 DEF Indices

LEMMA Inserted ==
  ASSUME NEW S, NEW s \in Seq(S), NEW i \in 0..Len(s), NEW e \in S
  PROVE  LET t == With(s, i, e)
         IN /\ t \in Seq(S) /\ Len(t) = Len(s) + 1
            /\ \A j \in Indices(s) : /\ j < i => At(t, j) = At(s, j)
                                     /\ j >= i => At(t, j + 1) = At(s, j)
            /\ At(t, i) = e
<1> DEFINE front == SubSeq(s, 1, (i + 1) - 1)
           back == SubSeq(s, i + 1, Len(s))
           first == front \o <<e>>
           t == With(s, i, e)
<1>1. /\ front \in Seq(S) /\ Len(front) = i
      /\ \A k \in 1..i : front[k] = s[k]
  BY SubSeqProperties, ElementOfSeq
<1>2. /\ back \in Seq(S) /\ Len(back) = Len(s) - i
      /\ \A k \in 1..(Len(s) - i) : back[k] = s[i + k]
  BY SubSeqProperties, ElementOfSeq
<1>3. t = first \o back
  BY DEF With, InsertAt
<1> HIDE DEF front, back, t
<1>4. /\ first \in Seq(S) /\ Len(first) = i + 1
      /\ \A k \in 1..(i + 1) : first[k] = IF k <= i THEN s[k] ELSE e
  BY <1>1, ConcatProperties
<1> HIDE DEF first
<1>5. /\ t \in Seq(S) /\ Len(t) = Len(s) + 1
      /\ \A k \in 1..Len(t) : t[k] = IF k <= i THEN s[k]
                                     ELSE IF k = i + 1 THEN e ELSE s[k - 1]
  <2>1. /\ t \in Seq(S) /\ Len(t) = Len(s) + 1
        /\ \A k \in 1..Len(t) :
             t[k] = IF k <= i + 1 THEN first[k] ELSE back[k - (i + 1)]
    <3>1. /\ t \in Seq(S) /\ Len(t) = Len(first) + Len(back)
          /\ \A k \in 1..Len(first) + Len(back) :
               t[k] = IF k <= Len(first) THEN first[k] ELSE back[k - Len(first)]
      BY <1>2, <1>3, <1>4, ConcatProperties
    <3> QED BY <1>2, <1>4, <3>1, Terms
  <2>2. ASSUME NEW k \in 1..Len(t), ~(k <= i + 1)
        PROVE  back[k - (i + 1)] = s[k - 1]
    <3>1. k - (i + 1) \in 1..(Len(s) - i) /\ i + (k - (i + 1)) = k - 1
      BY <2>1, <2>2
    <3> QED BY <1>2, <3>1
  <2> QED BY <1>4, <2>1, <2>2
<1>6. Len(s) \in Nat
  BY Terms
<1>7. ASSUME NEW j \in 0..(Len(s) - 1)
      PROVE  /\ j < i => t[j + 1] = s[j + 1]
             /\ j >= i => t[j + 1 + 1] = s[j + 1]
  <2>1. j + 1 \in 1..Len(t) /\ j + 1 + 1 \in 1..Len(t) /\ (j + 1 + 1) - 1 = j + 1
    BY <1>5, <1>6
  <2>2. CASE j < i
    <3>1. j + 1 <= i
      BY <2>2
    <3> QED BY <1>5, <2>1, <2>2, <3>1
  <2>3. CASE j >= i
    <3>1. ~(j + 1 + 1 <= i) /\ j + 1 + 1 # i + 1
      BY <2>3
    <3>2. t[j + 1 + 1] = s[(j + 1 + 1) - 1]
      BY <1>5, <2>1, <3>1
    <3> QED BY <2>1, <2>3, <3>2
  <2> QED BY <2>2, <2>3
<1>8. t[i + 1] = e
  BY <1>5, <1>6
<1> QED BY <1>5, <1>7, <1>8 DEF Indices, At, t

LEMMA Removed ==
  ASSUME NEW S, NEW s \in Seq(S), NEW i \in Indices(s)
  PROVE  LET t == Without(s, i)
         IN /\ t \in Seq(S) /\ Len(t) = Len(s) - 1
            /\ \A j \in Indices(s) : /\ j < i => At(t, j) = At(s, j)
                                     /\ j > i => At(t, j - 1) = At(s, j)
<1> DEFINE front == SubSeq(s, 1, (i + 1) - 1)
           back == SubSeq(s, i + 1 + 1, Len(s))
           t == Without(s, i)
<1>0. i \in Nat /\ i < Len(s)
  BY DEF Indices
<1>1. /\ front \in Seq(S) /\ Len(front) = i
      /\ \A k \in 1..i : front[k] = s[k]
  BY <1>0, SubSeqProperties, ElementOfSeq
<1>2. /\ back \in Seq(S) /\ Len(back) = Len(s) - i - 1
      /\ \A k \in 1..(Len(s) - i - 1) : back[k] = s[i + 1 + k]
  BY <1>0, SubSeqProperties, ElementOfSeq
<1>3. t = front \o back
  BY DEF Without, RemoveAt
<1> HIDE DEF front, back, t
<1>4. /\ t \in Seq(S) /\ Len(t) = Len(s) - 1
      /\ \A k \in 1..Len(t) : t[k] = IF k <= i THEN s[k] ELSE s[k + 1]
  <2>1. /\ t \in Seq(S) /\ Len(t) = Len(s) - 1
        /\ \A k \in 1..Len(t) : t[k] = IF k <= i THEN front[k] ELSE back[k - i]
    BY <1>0, <1>1, <1>2, <1>3, ConcatProperties
  <2>2. ASSUME NEW k \in 1..Len(t), ~(k <= i)
        PROVE  back[k - i] = s[k + 1]
    BY <1>0, <1>2, <2>1, <2>2
  <2> QED BY <1>0, <1>1, <2>1, <2>2
<1>5. Len(s) \in Nat
  BY Terms
<1>6. ASSUME NEW j \in 0..(Len(s) - 1)
      PROVE  /\ j < i => t[j + 1] = s[j + 1]
             /\ j > i => t[(j - 1) + 1] = s[j + 1]
  <2>1. CASE j < i
    <3>1. j + 1 \in 1..Len(t) /\ j + 1 <= i
      BY <1>0, <1>4, <1>5, <2>1
    <3> QED BY <1>0, <1>4, <2>1, <3>1
  <2>2. CASE j > i
    <3>1. (j - 1) + 1 \in 1..Len(t) /\ ~((j - 1) + 1 <= i) /\ (j - 1) + 1 + 1 = j + 1
      BY <1>0, <1>4, <1>5, <2>2
    <3>2. t[(j - 1) + 1] = s[(j - 1) + 1 + 1]
      BY <1>4, <3>1
    <3> QED BY <1>0, <2>2, <3>1, <3>2
  <2> QED BY <1>0, <2>1, <2>2
<1> QED BY <1>4, <1>6 DEF Indices, At, t

LEMMA Overwritten ==
  ASSUME NEW S, NEW s \in Seq(S), NEW i \in Indices(s)
  PROVE  LET t == LastOver(s, i)
         IN /\ t \in Seq(S) /\ Len(t) = Len(s) - 1
            /\ \A j \in Indices(t) :
                 At(t, j) = IF j = i THEN At(s, Len(s) - 1) ELSE At(s, j)
<1> DEFINE r == [s EXCEPT ![i + 1] = s[Len(s)]]
           t == LastOver(s, i)
<1>0. i \in Nat /\ i < Len(s)
  BY DEF Indices
<1>1. /\ r \in Seq(S) /\ Len(r) = Len(s)
      /\ \A k \in 1..Len(s) : r[k] = IF k = i + 1 THEN s[Len(s)] ELSE s[k]
  BY <1>0
<1>2. t = SubSeq(r, 1, Len(r) - 1)
  BY DEF LastOver, Front, Last
<1> HIDE DEF r, t
<1>3. /\ t \in Seq(S) /\ Len(t) = Len(s) - 1
      /\ \A k \in 1..Len(t) : t[k] = r[k]
  BY <1>0, <1>1, <1>2, SubSeqProperties, ElementOfSeq
<1> QED BY <1>0, <1>1, <1>3 DEF Indices, At, t

-----------------------------------------------------------------------------
(* Indices by size.                                                        *)

LEMMA Ranks ==
  ASSUME NEW S \in SUBSET Nat, IsFiniteSet(S), NEW i \in S
  PROVE  /\ count(S, 0, i) \in 0..(Cardinality(S) - 1)
         /\ \A j \in S : i < j => count(S, 0, i) < count(S, 0, j)
<1> DEFINE below(k) == {j \in S : 0 <= j /\ j < k}
<1>1. \A k \in S : count(S, 0, k) = Cardinality(below(k))
  BY DEF count
<1>2. \A k \in S : /\ IsFiniteSet(below(k)) /\ Cardinality(below(k)) \in Nat
                   /\ Cardinality(below(k)) <= Cardinality(S)
  BY FS_Subset, FS_CardinalityType
<1>3. Cardinality(below(i)) # Cardinality(S)
  <2>1. below(i) \in SUBSET S /\ i \notin below(i)
    OBVIOUS
  <2>2. Cardinality(S) = Cardinality(below(i)) => S = below(i)
    BY <2>1, FS_Subset
  <2> QED BY <2>1, <2>2
<1>4. ASSUME NEW j \in S, i < j
      PROVE  Cardinality(below(i)) < Cardinality(below(j))
  <2>1. i \in below(j) /\ i \notin below(i) /\ \A k \in below(i) : k \in below(j)
    BY <1>4
  <2>2. /\ Cardinality(below(i)) <= Cardinality(below(j))
        /\ Cardinality(below(i)) # Cardinality(below(j))
    <3>1. below(i) \in SUBSET below(j) /\ below(i) # below(j)
      BY <2>1
    <3>2. IsFiniteSet(below(j))
      BY <1>2
    <3> HIDE DEF below
    <3> QED BY <3>1, <3>2, FS_Subset
  <2> QED BY <1>2, <2>2
<1>5. Cardinality(S) \in Nat
  BY FS_CardinalityType
<1> HIDE DEF below
<1>6. count(S, 0, i) \in 0..(Cardinality(S) - 1)
  BY <1>1, <1>2, <1>3, <1>5
<1> QED BY <1>1, <1>4, <1>6

\* Ascending has every index of the set once, and they ascend.
LEMMA AscendingIndices ==
  ASSUME NEW S \in SUBSET Nat, IsFiniteSet(S)
  PROVE  LET s == Ascending(S)
         IN /\ s \in Seq(S) /\ Len(s) = Cardinality(S) /\ Len(s) \in Nat
            /\ DOMAIN s = 1..Len(s)
            /\ \A k \in DOMAIN s : s[k] \in S /\ count(S, 0, s[k]) = k - 1
            /\ \A i \in S : /\ count(S, 0, i) + 1 \in DOMAIN s
                            /\ s[count(S, 0, i) + 1] = i
            /\ \A k, l \in DOMAIN s : k < l => s[k] < s[l]
<1> DEFINE n == Cardinality(S)
           s == Ascending(S)
           rank == [i \in S |-> count(S, 0, i) + 1]
<1>1. n \in Nat /\ IsFiniteSet(1..n) /\ Cardinality(1..n) = n
  BY FS_CardinalityType, FS_Interval
<1>2. rank \in [S -> 1..n]
  BY <1>1, Ranks
<1>3. \A i, j \in S : rank[i] = rank[j] => i = j
  <2> SUFFICES ASSUME NEW i \in S, NEW j \in S, i < j
               PROVE  rank[i] # rank[j]
    OBVIOUS
  <2>1. count(S, 0, i) < count(S, 0, j) /\ count(S, 0, i) \in Int /\ count(S, 0, j) \in Int
    BY Ranks
  <2> QED BY <2>1
<1>4. rank \in Injection(S, 1..n)
  BY <1>2, <1>3 DEF Injection, IsInjective
<1>5. rank \in Surjection(S, 1..n)
  BY <1>1, <1>4, FS_Injection
<1>6. \A k \in 1..n : \E i \in S : rank[i] = k
  BY <1>5 DEF Surjection
<1>7. \A k \in 1..n : \E i \in S : count(S, 0, i) = k - 1
  BY <1>1, <1>6, Ranks
<1>8. s = [k \in 1..n |-> CHOOSE i \in S : count(S, 0, i) = k - 1]
  BY DEF Ascending
<1>9. DOMAIN s = 1..n /\ \A k \in 1..n : s[k] \in S /\ count(S, 0, s[k]) = k - 1
  BY <1>7, <1>8
<1> HIDE DEF s, n
<1>10. s \in Seq(S) /\ Len(s) = n
  <2>1. s = [k \in 1..n |-> s[k]]
    BY <1>8
  <2> QED BY <1>1, <1>9, <2>1
<1>11. \A i \in S : count(S, 0, i) + 1 \in 1..n /\ s[count(S, 0, i) + 1] = i
  <2> TAKE i \in S
  <2>1. count(S, 0, i) + 1 \in 1..n
    BY <1>1, Ranks DEF n
  <2>2. s[count(S, 0, i) + 1] \in S /\ rank[s[count(S, 0, i) + 1]] = rank[i]
    BY <1>1, <1>9, <2>1
  <2> QED BY <1>3, <2>1, <2>2
<1>12. \A k, l \in 1..n : k < l => s[k] < s[l]
  <2> TAKE k, l \in 1..n
  <2>1. s[k] \in S /\ s[l] \in S /\ count(S, 0, s[k]) = k - 1 /\ count(S, 0, s[l]) = l - 1
    BY <1>9
  <2>2. s[l] < s[k] => count(S, 0, s[l]) < count(S, 0, s[k])
    BY <2>1, Ranks
  <2>3. k \in Int /\ l \in Int /\ s[k] \in Int /\ s[l] \in Int
    <3>1. k \in Int /\ l \in Int
      BY <1>1
    <3>2. s[k] \in Nat /\ s[l] \in Nat
      BY <2>1, Zenon
    <3> QED BY <3>1, <3>2
  <2>4. ASSUME k < l PROVE ~(s[l] < s[k]) /\ s[k] # s[l]
    <3>1. k - 1 < l - 1 /\ ~(l - 1 < k - 1) /\ k - 1 # l - 1
      BY <2>3, <2>4
    <3>2. count(S, 0, s[k]) # count(S, 0, s[l])
      BY <2>1, <3>1, Zenon
    <3>3. ~(s[l] < s[k])
      BY <2>1, <2>2, <3>1
    <3> QED BY <3>2, <3>3, Zenon
  <2> QED BY <2>3, <2>4
<1> QED BY <1>1, <1>9, <1>10, <1>11, <1>12 DEF s, n

\* A subsequence has the terms with these numbers and no others.
LEMMA SubsequenceTerms ==
  ASSUME NEW S, NEW s \in Seq(S), NEW N \in SUBSET DOMAIN s
  PROVE  LET t == Subsequence(s, N)
         IN /\ t \in Seq(S)
            /\ \A k \in DOMAIN t : \E l \in N : t[k] = s[l]
            /\ \A l \in N : \E k \in DOMAIN t : t[k] = s[l]
<1> DEFINE a == Ascending(N)
           t == Subsequence(s, N)
<1>1. N \in SUBSET Nat /\ IsFiniteSet(N)
  <2>1. N \in SUBSET (1..Len(s)) /\ Len(s) \in Nat
    BY Terms
  <2>2. IsFiniteSet(1..Len(s))
    BY <2>1, FS_Interval
  <2>3. IsFiniteSet(N)
    BY <2>1, <2>2, FS_Subset
  <2> QED BY <2>1, <2>3
<1>2. /\ a \in Seq(N)
      /\ \A k \in DOMAIN a : a[k] \in N
      /\ \A i \in N : \E k \in DOMAIN a : a[k] = i
  BY <1>1, AscendingIndices
<1>3. t = [k \in DOMAIN a |-> s[a[k]]]
  BY DEF Subsequence
<1> HIDE DEF a, t
<1>4. DOMAIN t = DOMAIN a /\ \A k \in DOMAIN a : t[k] = s[a[k]] /\ s[a[k]] \in S
  BY <1>2, <1>3, Terms
<1>5. t \in Seq(S)
  <2>1. t = [k \in DOMAIN a |-> t[k]]
    BY <1>3, <1>4
  <2> QED BY <1>2, <1>4, <2>1, MappedSequence
<1> QED BY <1>2, <1>4, <1>5 DEF t

-----------------------------------------------------------------------------
(* What deletions and insertions leave.                                    *)

Distinct(seq) ==
  \A i, j \in Indices(seq) : At(seq, i) = At(seq, j) => i = j

\* What is in "old" and not deleted is in "new" and not inserted, and the other
\* way round, in the same order.
Aligned(old, deletions, new, insertions) ==
  /\ deletions \in SUBSET Indices(old) /\ insertions \in SUBSET Indices(new)
  /\ \A j \in Indices(new) \ insertions :
       \E i \in Indices(old) \ deletions : At(old, i) = At(new, j)
  /\ \A i \in Indices(old) \ deletions :
       \E j \in Indices(new) \ insertions : At(old, i) = At(new, j)
  /\ \A i, k \in Indices(old) \ deletions, j, l \in Indices(new) \ insertions :
       At(old, i) = At(new, j) /\ At(old, k) = At(new, l) /\ i < k => j < l

\* As many elements are left below a in "old" as below b in "new" when they are
\* the same ones.
LEMMA SameRank ==
  ASSUME NEW S, NEW old \in Seq(S), NEW new \in Seq(S), NEW D, NEW I,
         Aligned(old, D, new, I), Distinct(old), Distinct(new),
         NEW a \in 0..Len(old), NEW b \in 0..Len(new),
         \A i \in Indices(old) \ D, j \in Indices(new) \ I :
           At(old, i) = At(new, j) => (i < a <=> j < b)
  PROVE  unshift(D, a) = unshift(I, b)
<1> DEFINE X == Others(D, a)
           Y == Others(I, b)
           f == [i \in X |-> CHOOSE j \in Y : At(old, i) = At(new, j)]
<1>1. /\ X = {i \in Indices(old) \ D : i < a}
      /\ Y = {j \in Indices(new) \ I : j < b}
  BY DEF Others, Indices
<1>2. \A i \in X : \E j \in Y : At(old, i) = At(new, j)
  BY <1>1 DEF Aligned
<1>3. \A i \in X : f[i] \in Y /\ At(old, i) = At(new, f[i])
  BY <1>2
<1>4. \A j \in Y : \E i \in X : At(old, i) = At(new, j)
  BY <1>1 DEF Aligned
<1>5. f \in [X -> Y]
  BY <1>3
<1> HIDE DEF f
<1>6. \A i, k \in X : f[i] = f[k] => i = k
  BY <1>1, <1>3 DEF Distinct
<1>7. ASSUME NEW j \in Y PROVE \E i \in X : f[i] = j
  <2>1. PICK i \in X : At(old, i) = At(new, j)
    BY <1>4
  <2>2. At(new, f[i]) = At(new, j) /\ f[i] \in Y
    BY <1>3, <2>1
  <2> QED BY <1>1, <2>2 DEF Distinct
<1> HIDE DEF X, Y
<1>8. f \in Bijection(X, Y)
  <2>1. f \in Injection(X, Y)
    BY <1>5, <1>6 DEF Injection, IsInjective
  <2>2. f \in Surjection(X, Y)
    BY <1>5, <1>7 DEF Surjection
  <2> QED BY <2>1, <2>2 DEF Bijection
<1>9. /\ D \in SUBSET Nat /\ I \in SUBSET Nat /\ a \in Nat /\ b \in Nat
  BY DEF Aligned, Indices
<1>10. IsFiniteSet(X) /\ ExistsBijection(X, Y)
  BY <1>8, <1>9, UnshiftCounts DEF ExistsBijection, X
<1>11. Cardinality(X) = Cardinality(Y)
  BY <1>10, FS_Bijection
<1> QED BY <1>9, <1>11, UnshiftCounts DEF X, Y

\* In particular below two positions of the same element, and altogether.
LEMMA SameRankOfKept ==
  ASSUME NEW S, NEW old \in Seq(S), NEW new \in Seq(S), NEW D, NEW I,
         Aligned(old, D, new, I), Distinct(old), Distinct(new),
         NEW a \in Indices(old) \ D, NEW b \in Indices(new) \ I,
         At(old, a) = At(new, b)
  PROVE  unshift(D, a) = unshift(I, b)
<1>1. a \in 0..Len(old) /\ b \in 0..Len(new)
  BY DEF Indices
<1>2. ASSUME NEW i \in Indices(old) \ D, NEW j \in Indices(new) \ I,
             At(old, i) = At(new, j)
      PROVE  i < a <=> j < b
  <2>1. i < a => j < b
    BY <1>2 DEF Aligned
  <2>2. a < i => b < j
    BY <1>2 DEF Aligned
  <2>3. a = i => b = j
    BY <1>2 DEF Distinct
  <2> QED BY <2>1, <2>2, <2>3 DEF Indices
<1> QED BY <1>1, <1>2, SameRank

LEMMA SameRankAltogether ==
  ASSUME NEW S, NEW old \in Seq(S), NEW new \in Seq(S), NEW D, NEW I,
         Aligned(old, D, new, I), Distinct(old), Distinct(new)
  PROVE  /\ unshift(D, Len(old)) = unshift(I, Len(new))
         /\ IsFiniteSet(D) /\ IsFiniteSet(I)
         /\ Cardinality(D) = Len(old) - unshift(D, Len(old))
         /\ Cardinality(I) = Len(new) - unshift(I, Len(new))
<1>1. /\ D \in SUBSET Nat /\ I \in SUBSET Nat /\ Len(old) \in Nat /\ Len(new) \in Nat
      /\ \A i \in Indices(old) : i < Len(old)
      /\ \A i \in Indices(new) : i < Len(new)
  BY DEF Aligned, Indices
<1>2. unshift(D, Len(old)) = unshift(I, Len(new))
  <2>1. Len(old) \in 0..Len(old) /\ Len(new) \in 0..Len(new)
    BY <1>1
  <2> QED BY <1>1, <2>1, SameRank
<1>3. /\ {i \in D : 0 <= i /\ i < Len(old)} = D
      /\ {i \in I : 0 <= i /\ i < Len(new)} = I
  <2>1. /\ \A i \in D : 0 <= i /\ i < Len(old)
        /\ \A i \in I : 0 <= i /\ i < Len(new)
    BY <1>1 DEF Aligned
  <2> QED BY <2>1, Zenon
<1>4. /\ count(D, 0, Len(old)) = Cardinality(D)
      /\ count(I, 0, Len(new)) = Cardinality(I)
  BY <1>3 DEF count
<1>5. IsFiniteSet(D) /\ IsFiniteSet(I)
  <2>1. IsFiniteSet(Indices(old)) /\ IsFiniteSet(Indices(new))
    <3>1. Len(old) - 1 \in Int /\ Len(new) - 1 \in Int /\ 0 \in Int
      BY <1>1
    <3> QED BY <3>1, FS_Interval, Zenon DEF Indices
  <2> QED BY <2>1, FS_Subset DEF Aligned
<1> QED BY <1>1, <1>2, <1>4, <1>5, UnshiftCounts

\* Where a kept element was is computed from where it is.
LEMMA OriginOfKept ==
  ASSUME NEW S, NEW old \in Seq(S), NEW new \in Seq(S), NEW D, NEW I,
         Aligned(old, D, new, I), Distinct(old), Distinct(new),
         NEW j \in Indices(new) \ I
  PROVE  LET i == shift(D, unshift(I, j))
         IN i \in Indices(old) \ D /\ At(old, i) = At(new, j)
<1>1. PICK i \in Indices(old) \ D : At(old, i) = At(new, j)
  BY DEF Aligned
<1>2. unshift(D, i) = unshift(I, j)
  BY <1>1, SameRankOfKept
<1>3. D \in SUBSET Nat /\ IsFiniteSet(D) /\ i \in Nat
  <2>1. IsFiniteSet(D)
    BY SameRankAltogether
  <2> QED BY <2>1 DEF Aligned, Indices
<1>4. shift(D, unshift(D, i)) = i
  BY <1>3, ShiftOfUnshift
<1> QED BY <1>1, <1>2, <1>4

-----------------------------------------------------------------------------
(* What the builder's operations do, field by field.                       *)

\* The moves that MapMoves makes of some.
LEMMA MappedMoves ==
  ASSUME NEW s \in Seq(Moves), NEW g, \A to \in Nat : g[to] \in Nat,
         NEW t, t = [k \in DOMAIN s |-> t[k]],
         \A k \in DOMAIN s : t[k] = Pair(s[k].from, g[s[k].to])
  PROVE  /\ t \in Seq(Moves)
         /\ ToSet(t) = {Pair(m.from, g[m.to]) : m \in ToSet(s)}
<1>1. \A k \in DOMAIN s : s[k] \in Moves
  BY Terms
<1>2. \A m \in Moves : Pair(m.from, g[m.to]) \in Moves
  BY DEF Moves, Pair
<1>3. /\ DOMAIN t = DOMAIN s /\ \A k \in DOMAIN s : t[k] = Pair(s[k].from, g[s[k].to])
      /\ t = [k \in DOMAIN s |-> t[k]]
  OBVIOUS
<1>4. t \in Seq(Moves)
  <2>1. \A k \in DOMAIN s : t[k] \in Moves
    BY <1>1, <1>2, <1>3
  <2> QED BY <1>3, <2>1, MappedSequence
<1>5. ToSet(t) = {Pair(m.from, g[m.to]) : m \in ToSet(s)}
  BY <1>3 DEF ToSet
<1> QED BY <1>4, <1>5

\* MapMoves, field by field.
LEMMA MapMovesFields ==
  ASSUME NEW c \in ChangeSets, NEW g, \A to \in Nat : g[to] \in Nat
  PROVE  LET d == MapMoves(c, g)
         IN /\ d \in ChangeSets
            /\ d.deletions = c.deletions /\ d.insertions = c.insertions
            /\ d.modifications = c.modifications
            /\ ToSet(d.moves) = {Pair(m.from, g[m.to]) : m \in ToSet(c.moves)}
            /\ d.mapping = {Pair(m.from, g[m.to]) : m \in c.mapping}
<1> DEFINE d == MapMoves(c, g)
           moves == [k \in DOMAIN c.moves |-> Pair(c.moves[k].from, g[c.moves[k].to])]
           mapping == {Pair(m.from, g[m.to]) : m \in c.mapping}
<1>1. d = [c EXCEPT !.moves = moves, !.mapping = mapping]
  BY DEF MapMoves
<1>2. mapping \in SUBSET Moves
  BY DEF ChangeSets, Pair, Moves
<1>3. c.moves \in Seq(Moves)
  BY DEF ChangeSets
<1>4. /\ moves = [k \in DOMAIN c.moves |-> moves[k]]
      /\ \A k \in DOMAIN c.moves : moves[k] = Pair(c.moves[k].from, g[c.moves[k].to])
  OBVIOUS
<1> HIDE DEF d, moves, mapping
<1>5. /\ moves \in Seq(Moves)
      /\ ToSet(moves) = {Pair(m.from, g[m.to]) : m \in ToSet(c.moves)}
  BY <1>3, <1>4, MappedMoves
<1>6. /\ d \in ChangeSets /\ d.deletions = c.deletions /\ d.insertions = c.insertions
      /\ d.modifications = c.modifications /\ d.moves = moves /\ d.mapping = mapping
  BY <1>1, <1>2, <1>5 DEF ChangeSets
<1> QED BY <1>5, <1>6 DEF d, mapping

\* What n elements inserted at position i make of a change set.
InsertedInto(c, i, n, d) ==
  LET after == [to \in Nat |-> IF to >= i THEN to + n ELSE to]
  IN /\ d \in ChangeSets /\ d.deletions = c.deletions
     /\ d.insertions = {j \in Nat : \/ i <= j /\ j < i + n
                                    \/ j < i /\ j \in c.insertions
                                    \/ j >= i + n /\ j - n \in c.insertions}
     /\ d.modifications = {j \in Nat : \/ j < i /\ j \in c.modifications
                                       \/ j >= i + n /\ j - n \in c.modifications}
     /\ ToSet(d.moves) = {Pair(m.from, after[m.to]) : m \in ToSet(c.moves)}
     /\ d.mapping = {Pair(m.from, after[m.to]) : m \in c.mapping}

LEMMA InsertFields ==
  ASSUME NEW c \in ChangeSets, NEW i \in Nat, NEW n \in Nat
  PROVE  InsertedInto(c, i, n, insert(c, i, n))
<1> DEFINE after == [to \in Nat |-> IF to >= i THEN to + n ELSE to]
           d == insert(c, i, n)
           e == MapMoves(c, after)
           P == Positions(i, n)
<1>1. d = [e EXCEPT !.insertions = insert_at(@, P),
                    !.modifications = shift_for_insert_at(@, P)]
  BY DEF insert
<1>2. \A to \in Nat : after[to] \in Nat
  OBVIOUS
<1> HIDE DEF d, e, after
<1>3. /\ e \in ChangeSets
      /\ e.deletions = c.deletions /\ e.insertions = c.insertions
      /\ e.modifications = c.modifications
      /\ ToSet(e.moves) = {Pair(m.from, after[m.to]) : m \in ToSet(c.moves)}
      /\ e.mapping = {Pair(m.from, after[m.to]) : m \in c.mapping}
  BY <1>2, MapMovesFields DEF e
<1>4. c.insertions \in SUBSET Nat /\ c.modifications \in SUBSET Nat
  BY DEF ChangeSets
<1>5. /\ shift_for_insert_at(c.insertions, P) =
           {j \in Nat : (j < i /\ j \in c.insertions) \/ (j >= i + n /\ j - n \in c.insertions)}
      /\ shift_for_insert_at(c.modifications, P) =
           {j \in Nat : (j < i /\ j \in c.modifications) \/ (j >= i + n /\ j - n \in c.modifications)}
  BY <1>4, ShiftedForInsert
<1>6. insert_at(c.insertions, P) =
        {j \in Nat : \/ i <= j /\ j < i + n
                     \/ j < i /\ j \in c.insertions
                     \/ j >= i + n /\ j - n \in c.insertions}
  BY <1>5 DEF insert_at, Positions
<1>7. /\ insert_at(c.insertions, P) \in SUBSET Nat
      /\ shift_for_insert_at(c.modifications, P) \in SUBSET Nat
  BY <1>5, <1>6
<1>8. /\ d \in ChangeSets /\ d.deletions = e.deletions
      /\ d.insertions = insert_at(c.insertions, P)
      /\ d.modifications = shift_for_insert_at(c.modifications, P)
      /\ d.moves = e.moves /\ d.mapping = e.mapping
  BY <1>1, <1>3, <1>7 DEF ChangeSets
<1> QED BY <1>3, <1>5, <1>6, <1>8 DEF d, after, InsertedInto

\* The deletion that the erasure of an element is recorded as.
LEMMA DeletedFields ==
  ASSUME NEW c \in ChangeSets, NEW i \in Nat,
         i \notin c.insertions => shift(c.deletions, unshift(c.insertions, i)) \in Nat
  PROVE  /\ Deleted(c, i) \in ChangeSets
         /\ Deleted(c, i) = [c EXCEPT !.deletions =
              IF i \in c.insertions THEN @
              ELSE @ \cup {shift(c.deletions, unshift(c.insertions, i))}]
<1>1. c.insertions \in SUBSET Nat /\ c.deletions \in SUBSET Nat
  BY DEF ChangeSets
<1>2. unshift(c.insertions, i) # npos
  BY <1>1, UnshiftCounts DEF npos
<1>3. CASE i \in c.insertions
  <2>1. Deleted(c, i) = c
    BY <1>3 DEF Deleted, erased_or_unshifted
  <2> QED BY <1>3, <2>1 DEF ChangeSets
<1>4. CASE i \notin c.insertions
  <2> DEFINE x == shift(c.deletions, unshift(c.insertions, i))
  <2>1. Deleted(c, i) = [c EXCEPT !.deletions = @ \cup {x}]
    BY <1>2, <1>4 DEF Deleted, erased_or_unshifted
  <2> HIDE DEF x
  <2>2. x \in Nat
    BY <1>4 DEF x
  <2>3. Deleted(c, i) \in ChangeSets
    BY <2>1, <2>2 DEF ChangeSets
  <2> QED BY <1>4, <2>1, <2>3 DEF x
<1> QED BY <1>3, <1>4

LEMMA EraseFields ==
  ASSUME NEW c \in ChangeSets, NEW i \in Nat,
         i \notin c.insertions => shift(c.deletions, unshift(c.insertions, i)) \in Nat
  PROVE  LET d == erase(c, i)
             after == [to \in Nat |-> IF to > i THEN to - 1 ELSE to]
         IN /\ d \in ChangeSets
            /\ d.deletions =
                 IF i \in c.insertions THEN c.deletions
                 ELSE c.deletions \cup {shift(c.deletions, unshift(c.insertions, i))}
            /\ d.insertions = {j \in Nat : \/ j < i /\ j \in c.insertions
                                           \/ j >= i /\ j + 1 \in c.insertions}
            /\ d.modifications = {j \in Nat : \/ j < i /\ j \in c.modifications
                                              \/ j >= i /\ j + 1 \in c.modifications}
            /\ ToSet(d.moves) = {Pair(m.from, after[m.to]) :
                                  m \in {l \in ToSet(c.moves) : l.to # i}}
            /\ d.mapping = {Pair(m.from, after[m.to]) : m \in c.mapping}
<1> DEFINE after == [to \in Nat |-> IF to > i THEN to - 1 ELSE to]
           others == {k \in DOMAIN c.moves : c.moves[k].to # i}
           f == Deleted(c, i)
           left_ == Subsequence(c.moves, others)
           e == [f EXCEPT !.moves = Subsequence(@, others)]
           g == MapMoves(e, after)
           d == erase(c, i)
<1>1. d = [g EXCEPT !.insertions = erase_at(@, {i}), !.modifications = erase_at(@, {i})]
  BY DEF erase
<1>2. \A to \in Nat : after[to] \in Nat
  OBVIOUS
<1> HIDE DEF d, g, after
<1>3. /\ f \in ChangeSets /\ f.moves = c.moves /\ f.mapping = c.mapping
      /\ f.insertions = c.insertions /\ f.modifications = c.modifications
      /\ f.deletions = IF i \in c.insertions THEN c.deletions
                       ELSE c.deletions \cup {shift(c.deletions, unshift(c.insertions, i))}
  <2>1. /\ f \in ChangeSets
        /\ f = [c EXCEPT !.deletions = IF i \in c.insertions THEN c.deletions
                  ELSE c.deletions \cup {shift(c.deletions, unshift(c.insertions, i))}]
    BY DeletedFields
  <2> HIDE DEF f
  <2> QED BY <2>1 DEF ChangeSets
<1>4. /\ left_ \in Seq(Moves)
      /\ ToSet(left_) = {l \in ToSet(c.moves) : l.to # i}
  <2>1. c.moves \in Seq(Moves) /\ others \in SUBSET DOMAIN c.moves
    BY DEF ChangeSets
  <2> HIDE DEF left_
  <2>2. /\ left_ \in Seq(Moves)
        /\ \A k \in DOMAIN left_ : \E l \in others : left_[k] = c.moves[l]
        /\ \A l \in others : \E k \in DOMAIN left_ : left_[k] = c.moves[l]
    BY <2>1, SubsequenceTerms DEF left_
  <2> QED BY <2>2 DEF ToSet
<1>5. e = [f EXCEPT !.moves = left_]
  BY <1>3
<1> HIDE DEF f, e, left_, others
<1>6. /\ e \in ChangeSets /\ e.moves = left_ /\ e.mapping = f.mapping
      /\ e.deletions = f.deletions
      /\ e.insertions = f.insertions /\ e.modifications = f.modifications
  BY <1>3, <1>4, <1>5 DEF ChangeSets
<1>7. /\ g \in ChangeSets
      /\ g.deletions = e.deletions /\ g.insertions = e.insertions
      /\ g.modifications = e.modifications
      /\ ToSet(g.moves) = {Pair(m.from, after[m.to]) : m \in ToSet(e.moves)}
      /\ g.mapping = {Pair(m.from, after[m.to]) : m \in e.mapping}
  BY <1>2, <1>6, MapMovesFields DEF g
<1>8. c.insertions \in SUBSET Nat /\ c.modifications \in SUBSET Nat
  BY DEF ChangeSets
<1>9. /\ erase_at(c.insertions, {i}) =
           {j \in Nat : (j < i /\ j \in c.insertions) \/ (j >= i /\ j + 1 \in c.insertions)}
      /\ erase_at(c.modifications, {i}) =
           {j \in Nat : (j < i /\ j \in c.modifications) \/ (j >= i /\ j + 1 \in c.modifications)}
  BY <1>8, ErasedAt
<1>10. /\ erase_at(c.insertions, {i}) \in SUBSET Nat
       /\ erase_at(c.modifications, {i}) \in SUBSET Nat
  BY <1>9
<1>11. /\ d \in ChangeSets /\ d.deletions = g.deletions
       /\ d.insertions = erase_at(c.insertions, {i})
       /\ d.modifications = erase_at(c.modifications, {i})
       /\ d.moves = g.moves /\ d.mapping = g.mapping
  BY <1>1, <1>3, <1>6, <1>7, <1>10 DEF ChangeSets
<1> QED BY <1>3, <1>4, <1>6, <1>7, <1>9, <1>11 DEF d, after

\* Where the move of an element takes a position.
Passing(from, to) ==
  [t \in Nat |-> IF t = from THEN to
                 ELSE IF to <= t /\ t < from THEN t + 1
                 ELSE IF from < t /\ t <= to THEN t - 1 ELSE t]

\* Positions, and moves to positions, after a move.
Passed(pass, positions) == {pass[t] : t \in positions}
Carried(moves, pass) == {Pair(m.from, pass[m.to]) : m \in moves}

LEMMA PassedPositions ==
  ASSUME NEW S \in SUBSET Nat, NEW from \in Nat, NEW to \in Nat
  PROVE  shift_for_insert_at(erase_at(S, {from}), {to}) =
           Passed(Passing(from, to), S \ {from})
<1> DEFINE E == erase_at(S, {from})
           T == shift_for_insert_at(E, {to})
           pass == Passing(from, to)
<1>1. \A j : j \in E <=>
        j \in Nat /\ ((j < from /\ j \in S) \/ (j >= from /\ j + 1 \in S))
  BY ErasedAt
<1> HIDE DEF E
<1>2. \A j : j \in T <=>
        j \in Nat /\ ((j < to /\ j \in E) \/ (j >= to + 1 /\ j - 1 \in E))
  <2>1. E \in SUBSET Nat
    BY <1>1
  <2>2. T = shift_for_insert_at(E, Positions(to, 1))
    BY OnePosition, Zenon
  <2> HIDE DEF T
  <2> QED BY <2>1, <2>2, ShiftedForInsert
<1> HIDE DEF T
<1>3. \A t \in Nat : t # from =>
        pass[t] = IF to <= t /\ t < from THEN t + 1
                  ELSE IF from < t /\ t <= to THEN t - 1 ELSE t
  BY DEF Passing
<1> HIDE DEF pass
<1>4. ASSUME NEW t \in S \ {from} PROVE pass[t] \in T
  <2>1. CASE to <= t /\ t < from
    BY <1>1, <1>2, <1>3, <2>1
  <2>2. CASE from < t /\ t <= to
    BY <1>1, <1>2, <1>3, <2>2
  <2>3. CASE t < from /\ t < to
    BY <1>1, <1>2, <1>3, <2>3
  <2>4. CASE t > from /\ t > to
    <3>1. t - 1 \in E
      BY <1>1, <2>4
    <3> QED BY <1>2, <1>3, <2>4, <3>1
  <2> QED BY <2>1, <2>2, <2>3, <2>4
<1>5. ASSUME NEW j \in T PROVE \E t \in S \ {from} : pass[t] = j
  <2>0. j \in Nat
    BY <1>2
  <2>1. CASE j < to /\ j < from
    <3>1. j \in S
      BY <1>1, <1>2, <2>0, <2>1
    <3> QED BY <1>3, <2>0, <2>1, <3>1
  <2>2. CASE j < to /\ j >= from
    <3>1. j + 1 \in S /\ pass[j + 1] = j
      BY <1>1, <1>2, <1>3, <2>0, <2>2
    <3> QED BY <2>0, <2>2, <3>1
  <2>3. CASE j > to /\ j - 1 < from
    <3>1. j - 1 \in S /\ pass[j - 1] = j
      BY <1>1, <1>2, <1>3, <2>0, <2>3
    <3> QED BY <2>0, <2>3, <3>1
  <2>4. CASE j > to /\ j - 1 >= from
    <3>1. j - 1 \in E
      BY <1>2, <2>0, <2>4
    <3>2. (j - 1) + 1 \in S /\ (j - 1) + 1 = j
      BY <1>1, <2>0, <2>4, <3>1
    <3> QED BY <1>3, <2>0, <2>4, <3>2
  <2> QED BY <1>2, <2>0, <2>1, <2>2, <2>3, <2>4
<1> QED BY <1>4, <1>5 DEF T, E, pass, Passed

LEMMA Appended ==
  ASSUME NEW S, NEW s \in Seq(S), NEW e \in S
  PROVE  Append(s, e) \in Seq(S) /\ ToSet(Append(s, e)) = ToSet(s) \cup {e}
<1> DEFINE t == Append(s, e)
<1>1. /\ t \in Seq(S) /\ Len(t) = Len(s) + 1
      /\ \A k \in 1..Len(s) : t[k] = s[k]
      /\ t[Len(s) + 1] = e
  BY AppendProperties
<1>2. /\ DOMAIN t = 1..Len(t) /\ DOMAIN s = 1..Len(s) /\ Len(s) \in Nat
  BY <1>1, Terms
<1> HIDE DEF t
<1>3. \A k \in DOMAIN t : t[k] \in ToSet(s) \cup {e}
  <2> TAKE k \in DOMAIN t
  <2>1. CASE k = Len(s) + 1
    BY <1>1, <2>1
  <2>2. CASE k # Len(s) + 1
    <3>1. k \in DOMAIN s /\ t[k] = s[k]
      BY <1>1, <1>2, <2>2
    <3> QED BY <3>1 DEF ToSet
  <2> QED BY <2>1, <2>2
<1>4. \A k \in DOMAIN s : s[k] \in ToSet(t)
  <2> TAKE k \in DOMAIN s
  <2>1. k \in DOMAIN t /\ t[k] = s[k]
    BY <1>1, <1>2
  <2> QED BY <2>1 DEF ToSet
<1>5. e \in ToSet(t)
  <2>1. Len(s) + 1 \in DOMAIN t
    BY <1>1, <1>2
  <2> QED BY <1>1, <2>1 DEF ToSet
<1>6. ToSet(t) = ToSet(s) \cup {e}
  BY <1>3, <1>4, <1>5 DEF ToSet
<1> QED BY <1>1, <1>6 DEF t

\* An element that was not inserted was not moved, and has an origin.
Consistent(c, from) ==
  from \notin c.insertions => /\ \A m \in ToSet(c.moves) : m.to # from
                              /\ shift(c.deletions, unshift(c.insertions, from)) \in Nat

\* What a move of a list's element makes of a change set.
MovedAcross(c, from, to, pass, origin, d) ==
  /\ d \in ChangeSets
  /\ d.deletions = IF from \in c.insertions THEN c.deletions
                   ELSE c.deletions \cup {origin}
  /\ d.insertions = {to} \cup Passed(pass, c.insertions \ {from})
  /\ d.modifications = Passed(pass, c.modifications)
  /\ ToSet(d.moves) = IF from \in c.insertions THEN Carried(ToSet(c.moves), pass)
                      ELSE Carried(ToSet(c.moves), pass) \cup {Pair(origin, to)}
  /\ d.mapping = Carried(c.mapping, pass)

LEMMA MoveFields ==
  ASSUME NEW c \in ChangeSets, NEW from \in Nat, NEW to \in Nat, Consistent(c, from)
  PROVE  MovedAcross(c, from, to, Passing(from, to),
                     shift(c.deletions, unshift(c.insertions, from)), move(c, from, to))
<1> DEFINE pass == Passing(from, to)
           origin == shift(c.deletions, unshift(c.insertions, from))
           known == \E k \in DOMAIN c.moves : c.moves[k].to = from
           unshifted == erased_or_unshifted(c.insertions, from)
           ins == insert_at(erase_at(c.insertions, {from}), {to})
           mods == IF from \in c.modifications
                   THEN insert_at(erase_at(c.modifications, {from}), {to})
                   ELSE shift_for_insert_at(erase_at(c.modifications, {from}), {to})
           moved == [c EXCEPT !.insertions = ins, !.modifications = mods]
           g == MapMoves(moved, pass)
           d == move(c, from, to)
<1>1. /\ c.deletions \in SUBSET Nat /\ c.insertions \in SUBSET Nat
      /\ c.modifications \in SUBSET Nat
      /\ c.moves \in Seq(Moves) /\ c.mapping \in SUBSET Moves
  BY DEF ChangeSets
<1>2. \A t \in Nat : pass[t] \in Nat
  BY DEF Passing
<1>3. pass[from] = to
  BY DEF Passing
<1>4. d = IF known \/ unshifted = npos THEN g
          ELSE [g EXCEPT !.deletions = @ \cup {shift(c.deletions, unshifted)},
                         !.moves = Append(@, Pair(shift(c.deletions, unshifted), to))]
  BY DEF move, Passing
<1>5. unshift(c.insertions, from) # npos
  BY <1>1, UnshiftCounts DEF npos
<1>6. known \/ unshifted = npos <=> from \in c.insertions
  <2>1. CASE from \in c.insertions
    BY <2>1 DEF erased_or_unshifted
  <2>2. CASE from \notin c.insertions
    BY <1>5, <2>2 DEF erased_or_unshifted, ToSet, Consistent
  <2> QED BY <2>1, <2>2
<1>7. from \notin c.insertions => shift(c.deletions, unshifted) = origin
  BY DEF erased_or_unshifted
<1>8. ins = {to} \cup Passed(pass, c.insertions \ {from})
  BY <1>1, PassedPositions DEF insert_at
<1>9. mods = Passed(pass, c.modifications)
  <2> DEFINE others == Passed(pass, c.modifications \ {from})
  <2>1. shift_for_insert_at(erase_at(c.modifications, {from}), {to}) = others
    BY <1>1, PassedPositions
  <2>2. mods = IF from \in c.modifications THEN {to} \cup others ELSE others
    BY <2>1 DEF insert_at
  <2> HIDE DEF mods, pass
  <2> QED BY <1>3, <2>2 DEF Passed
<1> HIDE DEF d, g, pass, known, unshifted, origin, ins, mods
<1>10. /\ moved \in ChangeSets /\ moved.deletions = c.deletions
       /\ moved.insertions = ins /\ moved.modifications = mods
       /\ moved.moves = c.moves /\ moved.mapping = c.mapping
  <2>1. ins \in SUBSET Nat /\ mods \in SUBSET Nat
    BY <1>1, <1>2, <1>8, <1>9 DEF Passed
  <2> QED BY <2>1 DEF ChangeSets
<1> HIDE DEF moved
<1>11. /\ g \in ChangeSets /\ g.deletions = c.deletions
       /\ g.insertions = ins /\ g.modifications = mods
       /\ ToSet(g.moves) = {Pair(m.from, pass[m.to]) : m \in ToSet(c.moves)}
       /\ g.mapping = {Pair(m.from, pass[m.to]) : m \in c.mapping}
  <2>1. g = MapMoves(moved, pass)
    BY DEF g
  <2>2. /\ g \in ChangeSets /\ g.deletions = moved.deletions
        /\ g.insertions = moved.insertions /\ g.modifications = moved.modifications
        /\ ToSet(g.moves) = {Pair(m.from, pass[m.to]) : m \in ToSet(moved.moves)}
        /\ g.mapping = {Pair(m.from, pass[m.to]) : m \in moved.mapping}
    BY <1>2, <1>10, <2>1, MapMovesFields
  <2> QED BY <1>10, <2>2
<1>12. CASE from \in c.insertions
  <2>1. d = g
    BY <1>4, <1>6, <1>12
  <2> QED BY <1>8, <1>9, <1>11, <1>12, <2>1 DEF d, pass, origin, Carried, MovedAcross
<1>13. CASE from \notin c.insertions
  <2>1. d = [g EXCEPT !.deletions = @ \cup {origin},
                      !.moves = Append(@, Pair(origin, to))]
    BY <1>4, <1>6, <1>7, <1>13
  <2>2. origin \in Nat /\ Pair(origin, to) \in Moves
    BY <1>13 DEF origin, Pair, Moves, Consistent
  <2> DEFINE longer == Append(g.moves, Pair(origin, to))
  <2>3. g.moves \in Seq(Moves)
    BY <1>11 DEF ChangeSets
  <2>4. longer \in Seq(Moves) /\ ToSet(longer) = ToSet(g.moves) \cup {Pair(origin, to)}
    BY <2>2, <2>3, Appended
  <2> HIDE DEF longer
  <2>5. /\ d \in ChangeSets /\ d.deletions = g.deletions \cup {origin}
        /\ d.insertions = g.insertions /\ d.modifications = g.modifications
        /\ d.moves = longer /\ d.mapping = g.mapping
    BY <1>11, <2>1, <2>2, <2>4 DEF longer, ChangeSets
  <2> QED BY <1>8, <1>9, <1>11, <1>13, <2>4, <2>5 DEF d, pass, origin, Carried, MovedAcross
<1> QED BY <1>12, <1>13

-----------------------------------------------------------------------------
(* The list's change set, at every moment.                                 *)

\* A move is of an element that is deleted where it was and inserted where it
\* is.
Moved(c, old, new) ==
  \A m \in ToSet(c.moves) : /\ m.from \in c.deletions /\ m.to \in c.insertions
                            /\ At(old, m.from) = At(new, m.to)

\* The elements that are not new are modified if and only if they are said to be.
Told(c, new, modified) ==
  \A j \in Indices(new) :
    j \notin c.insertions \/ (\E m \in ToSet(c.moves) : m.to = j)
      => (j \in c.modifications <=> At(new, j) \in modified)

ListFits(c, old, new, modified) ==
  /\ Aligned(old, c.deletions, new, c.insertions)
  /\ Moved(c, old, new) /\ Told(c, new, modified)
  /\ c.modifications \in SUBSET Indices(new) /\ c.mapping = {}

\* Elements that stay, "kept", each at p of where it was, keep their order.
Carries(kept, p, old, D, new, I, D2, new2, I2) ==
  /\ kept \in SUBSET (Indices(new) \ I)
  /\ D2 \in SUBSET Indices(old) /\ D \in SUBSET D2 /\ I2 \in SUBSET Indices(new2)
  /\ \A j \in kept : p[j] \in Indices(new2) \ I2 /\ At(new2, p[j]) = At(new, j)
  /\ \A j, l \in kept : j < l => p[j] < p[l]
  /\ \A t \in Indices(new2) \ I2 : \E j \in kept : p[j] = t
  /\ \A i \in Indices(old) \ D2 : \E j \in kept : At(old, i) = At(new, j)
  /\ \A j \in kept : \E i \in Indices(old) \ D2 : At(old, i) = At(new, j)

LEMMA CarriedAlong ==
  ASSUME NEW old, NEW D, NEW new, NEW I, Aligned(old, D, new, I),
         NEW kept, NEW p, NEW D2, NEW new2, NEW I2,
         Carries(kept, p, old, D, new, I, D2, new2, I2)
  PROVE  Aligned(old, D2, new2, I2)
<1>0. /\ D2 \in SUBSET Indices(old) /\ I2 \in SUBSET Indices(new2)
      /\ kept \in SUBSET (Indices(new) \ I) /\ D \in SUBSET D2
  BY DEF Carries
<1>1. \A t \in Indices(new2) \ I2 :
        \E i \in Indices(old) \ D2 : At(old, i) = At(new2, t)
  BY DEF Carries
<1>2. \A i \in Indices(old) \ D2 :
        \E t \in Indices(new2) \ I2 : At(old, i) = At(new2, t)
  BY DEF Carries
<1>3. ASSUME NEW i \in Indices(old) \ D2, NEW k \in Indices(old) \ D2,
             NEW s \in Indices(new2) \ I2, NEW t \in Indices(new2) \ I2,
             At(old, i) = At(new2, s), At(old, k) = At(new2, t), i < k
      PROVE  s < t
  <2>1. PICK j \in kept : p[j] = s /\ At(new2, s) = At(new, j)
    BY DEF Carries
  <2>2. PICK l \in kept : p[l] = t /\ At(new2, t) = At(new, l)
    BY DEF Carries
  <2>3. i \in Indices(old) \ D /\ k \in Indices(old) \ D
    BY <1>0
  <2>4. At(old, i) = At(new, j) /\ At(old, k) = At(new, l)
    BY <1>3, <2>1, <2>2
  <2>5. j < l
    BY <1>0, <1>3, <2>3, <2>4 DEF Aligned
  <2> QED BY <2>1, <2>2, <2>5 DEF Carries
<1> QED BY <1>0, <1>1, <1>2, <1>3 DEF Aligned

\* What an instruction on a list has to do for its change set to fit on: "stay"
\* are the elements that stay in the list, "kept" the ones of these that neither
\* the change set nor the instruction inserts.
ListCarries(stay, kept, p, old, new, c, new2, d) ==
  /\ Carries(kept, p, old, c.deletions, new, c.insertions, d.deletions, new2, d.insertions)
  /\ stay \in SUBSET Indices(new) /\ kept \in SUBSET stay
  /\ \A j \in stay : /\ p[j] \in Indices(new2) /\ At(new2, p[j]) = At(new, j)
                     /\ p[j] \in d.insertions <=> j \notin kept
                     /\ p[j] \in d.modifications <=> j \in c.modifications
  /\ d.modifications \in SUBSET Indices(new2) /\ d.mapping = {}
  /\ \A m \in ToSet(d.moves) :
       \/ \E l \in ToSet(c.moves) : l.to \in stay /\ m.from = l.from /\ m.to = p[l.to]
       \/ \E j \in stay \ kept : /\ j \notin c.insertions /\ m.from \in d.deletions
                                 /\ At(old, m.from) = At(new, j) /\ m.to = p[j]

LEMMA ListCarried ==
  ASSUME NEW old, NEW new, NEW new2, NEW modified, NEW c, NEW d, NEW p,
         NEW stay, NEW kept,
         ListFits(c, old, new, modified),
         ListCarries(stay, kept, p, old, new, c, new2, d)
  PROVE  ListFits(d, old, new2, modified)
<1>1. /\ Aligned(old, c.deletions, new, c.insertions)
      /\ Moved(c, old, new) /\ Told(c, new, modified)
  BY DEF ListFits
<1>2. Aligned(old, d.deletions, new2, d.insertions)
  BY <1>1, CarriedAlong DEF ListCarries
<1>3. /\ kept \in SUBSET (Indices(new) \ c.insertions)
      /\ c.deletions \in SUBSET d.deletions
      /\ \A t \in Indices(new2) \ d.insertions : \E j \in kept : p[j] = t
  BY DEF ListCarries, Carries
<1>4. /\ stay \in SUBSET Indices(new) /\ kept \in SUBSET stay
      /\ \A j \in stay : /\ p[j] \in Indices(new2) /\ At(new2, p[j]) = At(new, j)
                         /\ p[j] \in d.insertions <=> j \notin kept
                         /\ p[j] \in d.modifications <=> j \in c.modifications
  BY DEF ListCarries
<1>5. ASSUME NEW m \in ToSet(d.moves)
      PROVE  \/ \E l \in ToSet(c.moves) : l.to \in stay /\ m.from = l.from /\ m.to = p[l.to]
             \/ \E j \in stay \ kept : /\ j \notin c.insertions /\ m.from \in d.deletions
                                       /\ At(old, m.from) = At(new, j) /\ m.to = p[j]
  BY DEF ListCarries
<1>6. Moved(d, old, new2)
  <2> SUFFICES ASSUME NEW m \in ToSet(d.moves)
               PROVE  /\ m.from \in d.deletions /\ m.to \in d.insertions
                      /\ At(old, m.from) = At(new2, m.to)
    BY DEF Moved
  <2>1. CASE \E l \in ToSet(c.moves) : l.to \in stay /\ m.from = l.from /\ m.to = p[l.to]
    <3>1. PICK l \in ToSet(c.moves) : l.to \in stay /\ m.from = l.from /\ m.to = p[l.to]
      BY <2>1
    <3>2. /\ l.from \in c.deletions /\ l.to \in c.insertions
          /\ At(old, l.from) = At(new, l.to)
      BY <1>1 DEF Moved
    <3>3. l.to \notin kept
      BY <1>3, <3>2
    <3> QED BY <1>3, <1>4, <3>1, <3>2, <3>3
  <2>2. CASE \E j \in stay \ kept : /\ j \notin c.insertions /\ m.from \in d.deletions
                                    /\ At(old, m.from) = At(new, j) /\ m.to = p[j]
    BY <1>4, <2>2
  <2> QED BY <1>5, <2>1, <2>2
<1>7. Told(d, new2, modified)
  <2> SUFFICES ASSUME NEW t \in Indices(new2),
                      t \notin d.insertions \/ \E m \in ToSet(d.moves) : m.to = t
               PROVE  t \in d.modifications <=> At(new2, t) \in modified
    BY DEF Told
  <2>1. \E j \in stay : /\ p[j] = t
                        /\ j \notin c.insertions \/ \E l \in ToSet(c.moves) : l.to = j
    <3>1. CASE t \notin d.insertions
      <4>1. PICK j \in kept : p[j] = t
        BY <1>3, <3>1
      <4> QED BY <1>3, <1>4, <4>1
    <3>2. CASE \E m \in ToSet(d.moves) : m.to = t
      BY <1>5, <3>2
    <3> QED BY <3>1, <3>2
  <2>2. PICK j \in stay : /\ p[j] = t
                          /\ j \notin c.insertions \/ \E l \in ToSet(c.moves) : l.to = j
    BY <2>1
  <2>3. j \in c.modifications <=> At(new, j) \in modified
    BY <1>1, <1>4, <2>2 DEF Told
  <2> QED BY <1>4, <2>2, <2>3
<1> QED BY <1>2, <1>6, <1>7 DEF ListFits, ListCarries

LEMMA InsertFits ==
  ASSUME NEW S, NEW old \in Seq(S), NEW new \in Seq(S), NEW modified,
         NEW c \in ChangeSets, ListFits(c, old, new, modified),
         NEW i \in 0..Len(new), NEW e \in S
  PROVE  /\ insert(c, i, 1) \in ChangeSets
         /\ ListFits(insert(c, i, 1), old, With(new, i, e), modified)
<1> DEFINE d == insert(c, i, 1)
           new2 == With(new, i, e)
           p == [t \in Nat |-> IF t >= i THEN t + 1 ELSE t]
           stay == Indices(new)
           kept == Indices(new) \ c.insertions
<1>0. i \in Nat /\ Len(new) \in Nat
  BY Elements
<1>1. /\ d \in ChangeSets /\ d.deletions = c.deletions
      /\ d.insertions = {j \in Nat : \/ i <= j /\ j < i + 1
                                     \/ j < i /\ j \in c.insertions
                                     \/ j >= i + 1 /\ j - 1 \in c.insertions}
      /\ d.modifications = {j \in Nat : \/ j < i /\ j \in c.modifications
                                        \/ j >= i + 1 /\ j - 1 \in c.modifications}
      /\ ToSet(d.moves) = {Pair(m.from, p[m.to]) : m \in ToSet(c.moves)}
      /\ d.mapping = {Pair(m.from, p[m.to]) : m \in c.mapping}
  <2>1. InsertedInto(c, i, 1, d)
    BY <1>0, InsertFields
  <2> HIDE DEF d
  <2> QED BY <2>1 DEF InsertedInto
<1>2. /\ Len(new2) = Len(new) + 1
      /\ \A j \in Indices(new) : /\ j < i => At(new2, j) = At(new, j)
                                 /\ j >= i => At(new2, j + 1) = At(new, j)
  BY Inserted
<1>3. \A t \in Nat : /\ t < i => p[t] = t
                     /\ t >= i => p[t] = t + 1
  BY <1>0
<1> HIDE DEF d, new2, p
<1>4. /\ Aligned(old, c.deletions, new, c.insertions) /\ Moved(c, old, new)
      /\ c.modifications \in SUBSET Indices(new) /\ c.mapping = {}
  BY DEF ListFits
<1>5. /\ c.deletions \in SUBSET Indices(old) /\ c.insertions \in SUBSET Indices(new)
  BY <1>4 DEF Aligned
<1>6. /\ \A j : j \in Indices(new) <=> j \in Nat /\ j < Len(new)
      /\ \A t : t \in Indices(new2) <=> t \in Nat /\ t <= Len(new)
  BY <1>0, <1>2 DEF Indices
<1>7. ASSUME NEW j \in Indices(new)
      PROVE  /\ p[j] \in Indices(new2) /\ At(new2, p[j]) = At(new, j)
             /\ p[j] \in d.insertions <=> j \in c.insertions
             /\ p[j] \in d.modifications <=> j \in c.modifications
  <2>0. j \in Nat /\ j < Len(new)
    BY <1>6
  <2>1. CASE j < i
    <3>1. p[j] = j
      BY <1>3, <2>0, <2>1
    <3> QED BY <1>0, <1>1, <1>2, <1>6, <2>0, <2>1, <3>1
  <2>2. CASE j >= i
    <3>1. p[j] = j + 1
      BY <1>3, <2>0, <2>2
    <3>2. j + 1 \in Indices(new2) /\ At(new2, j + 1) = At(new, j)
      BY <1>0, <1>2, <1>6, <2>0, <2>2
    <3>3. /\ (j + 1) - 1 = j /\ ~(j + 1 < i) /\ ~(j + 1 < i + 1) /\ j + 1 >= i + 1
          /\ j + 1 \in Nat
      BY <1>0, <2>0, <2>2
    <3> QED BY <1>1, <3>1, <3>2, <3>3
  <2> QED BY <1>0, <2>0, <2>1, <2>2
<1>8. \A j, l \in kept : j < l => p[j] < p[l]
  <2> SUFFICES ASSUME NEW j \in kept, NEW l \in kept, j < l PROVE p[j] < p[l]
    OBVIOUS
  <2>1. j \in Nat /\ l \in Nat
    BY <1>6
  <2>2. p[j] = (IF j < i THEN j ELSE j + 1) /\ p[l] = (IF l < i THEN l ELSE l + 1)
    BY <1>0, <2>1 DEF p
  <2> QED BY <1>0, <2>1, <2>2
<1>9. ASSUME NEW t \in Indices(new2) \ d.insertions
      PROVE  \E j \in kept : p[j] = t
  <2>1. t \in Nat /\ t <= Len(new) /\ t # i
    BY <1>0, <1>1, <1>6
  <2>2. PICK j \in Indices(new) : p[j] = t
    <3>1. CASE t < i
      <4>1. t \in Indices(new) /\ p[t] = t
        BY <1>0, <1>6, <2>1, <3>1 DEF p
      <4> QED BY <4>1
    <3>2. CASE t > i
      <4>1. t - 1 \in Nat /\ t - 1 < Len(new) /\ t - 1 >= i /\ (t - 1) + 1 = t
        BY <1>0, <2>1, <3>2
      <4> DEFINE u == t - 1
      <4>2. u \in Nat /\ u >= i /\ u + 1 = t /\ u < Len(new)
        BY <4>1
      <4> HIDE DEF u
      <4>3. p[u] = t
        BY <1>3, <4>2
      <4> QED BY <1>6, <4>2, <4>3
    <3> QED BY <1>0, <2>1, <3>1, <3>2
  <2> QED BY <1>7, <2>2
<1>10. /\ d.insertions \in SUBSET Indices(new2)
       /\ d.modifications \in SUBSET Indices(new2)
  <2>1. \A j : j \in c.insertions \/ j \in c.modifications => j \in Nat /\ j < Len(new)
    BY <1>4, <1>5, <1>6
  <2>2. /\ \A t \in d.insertions : t \in Nat /\ t <= Len(new)
        /\ \A t \in d.modifications : t \in Nat /\ t <= Len(new)
    BY <1>0, <1>1, <2>1
  <2> QED BY <1>6, <2>2
<1>11. \A m \in ToSet(d.moves) : \E l \in ToSet(c.moves) :
         l.to \in stay /\ m.from = l.from /\ m.to = p[l.to]
  <2> TAKE m \in ToSet(d.moves)
  <2>1. PICK l \in ToSet(c.moves) : m = Pair(l.from, p[l.to])
    BY <1>1
  <2>2. l.to \in stay
    BY <1>4, <1>5 DEF Moved
  <2> QED BY <2>1, <2>2 DEF Pair
<1>12. /\ \A k \in Indices(old) \ d.deletions : \E j \in kept : At(old, k) = At(new, j)
       /\ \A j \in kept : \E k \in Indices(old) \ d.deletions : At(old, k) = At(new, j)
  BY <1>1, <1>4 DEF Aligned
<1>13. d.mapping = {}
  BY <1>1, <1>4
<1>14. Carries(kept, p, old, c.deletions, new, c.insertions, d.deletions, new2, d.insertions)
  BY <1>1, <1>5, <1>7, <1>8, <1>9, <1>10, <1>12 DEF Carries
<1>15. ListCarries(stay, kept, p, old, new, c, new2, d)
  BY <1>7, <1>10, <1>11, <1>13, <1>14 DEF ListCarries
<1> HIDE DEF kept, stay
<1>16. ListFits(d, old, new2, modified)
  BY <1>15, ListCarried
<1> QED BY <1>1, <1>16 DEF d, new2

LEMMA EraseFits ==
  ASSUME NEW S, NEW old \in Seq(S), NEW new \in Seq(S), NEW modified,
         Distinct(old), Distinct(new),
         NEW c \in ChangeSets, ListFits(c, old, new, modified), NEW i \in Indices(new)
  PROVE  /\ erase(c, i) \in ChangeSets
         /\ ListFits(erase(c, i), old, Without(new, i), modified)
<1> DEFINE d == erase(c, i)
           new2 == Without(new, i)
           p == [t \in Nat |-> IF t > i THEN t - 1 ELSE t]
           stay == Indices(new) \ {i}
           kept == stay \ c.insertions
           origin == shift(c.deletions, unshift(c.insertions, i))
<1>0. i \in Nat /\ Len(new) \in Nat /\ i < Len(new)
  BY Elements DEF Indices
<1>1. /\ Aligned(old, c.deletions, new, c.insertions) /\ Moved(c, old, new)
      /\ c.modifications \in SUBSET Indices(new) /\ c.mapping = {}
  BY DEF ListFits
<1>2. i \notin c.insertions =>
        origin \in Indices(old) \ c.deletions /\ At(old, origin) = At(new, i)
  BY <1>1, OriginOfKept
<1>3. i \notin c.insertions => origin \in Nat
  BY <1>2 DEF Indices
<1>4. /\ d \in ChangeSets
      /\ d.deletions = IF i \in c.insertions THEN c.deletions
                       ELSE c.deletions \cup {origin}
      /\ d.insertions = {j \in Nat : \/ j < i /\ j \in c.insertions
                                     \/ j >= i /\ j + 1 \in c.insertions}
      /\ d.modifications = {j \in Nat : \/ j < i /\ j \in c.modifications
                                        \/ j >= i /\ j + 1 \in c.modifications}
      /\ ToSet(d.moves) = {Pair(m.from, p[m.to]) : m \in {l \in ToSet(c.moves) : l.to # i}}
      /\ d.mapping = {Pair(m.from, p[m.to]) : m \in c.mapping}
  BY <1>0, <1>3, EraseFields
<1>5. /\ Len(new2) = Len(new) - 1
      /\ \A j \in Indices(new) : /\ j < i => At(new2, j) = At(new, j)
                                 /\ j > i => At(new2, j - 1) = At(new, j)
  BY Removed
<1>6. \A t \in Nat : /\ t <= i => p[t] = t
                     /\ t > i => p[t] = t - 1
  BY <1>0
<1> HIDE DEF d, new2, p, origin
<1>7. /\ c.deletions \in SUBSET Indices(old) /\ c.insertions \in SUBSET Indices(new)
  BY <1>1 DEF Aligned
<1>8. /\ \A j : j \in Indices(new) <=> j \in Nat /\ j < Len(new)
      /\ \A t : t \in Indices(new2) <=> t \in Nat /\ t < Len(new) - 1
  BY <1>0, <1>5 DEF Indices
<1>9. ASSUME NEW j \in stay
      PROVE  /\ p[j] \in Indices(new2) /\ At(new2, p[j]) = At(new, j)
             /\ p[j] \in d.insertions <=> j \in c.insertions
             /\ p[j] \in d.modifications <=> j \in c.modifications
  <2>0. j \in Nat /\ j < Len(new) /\ j # i /\ j \in Indices(new)
    BY <1>8
  <2>1. CASE j < i
    <3>1. p[j] = j
      BY <1>0, <1>6, <2>0, <2>1
    <3> QED BY <1>0, <1>4, <1>5, <1>8, <2>0, <2>1, <3>1
  <2>2. CASE j > i
    <3>1. p[j] = j - 1
      BY <1>6, <2>0, <2>2
    <3>2. j - 1 \in Indices(new2) /\ At(new2, j - 1) = At(new, j)
      BY <1>0, <1>5, <1>8, <2>0, <2>2
    <3>3. /\ (j - 1) + 1 = j /\ ~(j - 1 < i) /\ j - 1 >= i /\ j - 1 \in Nat
      BY <1>0, <2>0, <2>2
    <3> QED BY <1>4, <3>1, <3>2, <3>3
  <2> QED BY <1>0, <2>0, <2>1, <2>2
<1>10. \A j, l \in kept : j < l => p[j] < p[l]
  <2> SUFFICES ASSUME NEW j \in kept, NEW l \in kept, j < l PROVE p[j] < p[l]
    OBVIOUS
  <2>1. j \in Nat /\ l \in Nat /\ j # i /\ l # i
    BY <1>8
  <2>2. p[j] = (IF j > i THEN j - 1 ELSE j) /\ p[l] = (IF l > i THEN l - 1 ELSE l)
    BY <1>0, <2>1 DEF p
  <2> QED BY <1>0, <2>1, <2>2
<1>11. ASSUME NEW t \in Indices(new2) \ d.insertions
       PROVE  \E j \in kept : p[j] = t
  <2>1. t \in Nat /\ t < Len(new) - 1
    BY <1>8
  <2>2. PICK j \in stay : p[j] = t
    <3>1. CASE t < i
      <4>1. t \in stay /\ p[t] = t
        BY <1>0, <1>8, <2>1, <3>1 DEF p
      <4> QED BY <4>1
    <3>2. CASE t >= i
      <4> DEFINE u == t + 1
      <4>1. u \in Nat /\ u > i /\ u - 1 = t /\ u < Len(new) /\ u # i
        BY <1>0, <2>1, <3>2
      <4> HIDE DEF u
      <4>2. p[u] = t
        BY <1>6, <4>1
      <4> QED BY <1>8, <4>1, <4>2
    <3> QED BY <1>0, <2>1, <3>1, <3>2
  <2> QED BY <1>9, <2>2
<1>12. /\ d.insertions \in SUBSET Indices(new2)
       /\ d.modifications \in SUBSET Indices(new2)
  <2>1. \A j : j \in c.insertions \/ j \in c.modifications => j \in Nat /\ j < Len(new)
    BY <1>1, <1>7, <1>8
  <2>2. ASSUME NEW t \in Nat, t < i \/ t + 1 < Len(new)
        PROVE  t \in Indices(new2)
    BY <1>0, <1>8, <2>2
  <2>3. ASSUME NEW t \in d.insertions \cup d.modifications
        PROVE  t \in Nat /\ (t < i \/ t + 1 < Len(new))
    BY <1>4, <2>1
  <2> QED BY <2>2, <2>3
<1>13. \A m \in ToSet(d.moves) : \E l \in ToSet(c.moves) :
         l.to \in stay /\ m.from = l.from /\ m.to = p[l.to]
  <2> TAKE m \in ToSet(d.moves)
  <2>1. PICK l \in ToSet(c.moves) : l.to # i /\ m = Pair(l.from, p[l.to])
    BY <1>4
  <2>2. l.to \in stay
    BY <1>1, <1>7, <2>1 DEF Moved
  <2> QED BY <2>1, <2>2 DEF Pair
<1>14. ASSUME NEW k \in Indices(old) \ d.deletions
       PROVE  \E j \in kept : At(old, k) = At(new, j)
  <2>1. k \in Indices(old) \ c.deletions
    BY <1>4
  <2>2. PICK j \in Indices(new) \ c.insertions : At(old, k) = At(new, j)
    BY <1>1, <2>1 DEF Aligned
  <2>3. j # i
    BY <1>2, <1>4, <2>1, <2>2 DEF Distinct
  <2> QED BY <2>2, <2>3
<1>15. ASSUME NEW j \in kept
       PROVE  \E k \in Indices(old) \ d.deletions : At(old, k) = At(new, j)
  <2>1. PICK k \in Indices(old) \ c.deletions : At(old, k) = At(new, j)
    BY <1>1 DEF Aligned
  <2>2. k \in d.deletions => At(new, j) = At(new, i)
    BY <1>2, <1>4, <2>1
  <2>3. k \notin d.deletions
    BY <2>2 DEF Distinct
  <2> QED BY <2>1, <2>3
<1>16. /\ d.mapping = {} /\ c.deletions \in SUBSET d.deletions
       /\ d.deletions \in SUBSET Indices(old)
  BY <1>1, <1>2, <1>4, <1>7
<1>17. Carries(kept, p, old, c.deletions, new, c.insertions, d.deletions, new2, d.insertions)
  BY <1>9, <1>10, <1>11, <1>12, <1>14, <1>15, <1>16 DEF Carries
<1>18. ListCarries(stay, kept, p, old, new, c, new2, d)
  BY <1>9, <1>12, <1>13, <1>16, <1>17 DEF ListCarries
<1> HIDE DEF kept, stay
<1>19. ListFits(d, old, new2, modified)
  BY <1>18, ListCarried
<1> QED BY <1>4, <1>19 DEF d, new2

\* Where a list's elements are after a move.
LEMMA PassedElements ==
  ASSUME NEW S, NEW s \in Seq(S), NEW from \in Indices(s), NEW to \in Indices(s)
  PROVE  LET t == With(Without(s, from), to, At(s, from))
             pass == Passing(from, to)
         IN /\ t \in Seq(S) /\ Len(t) = Len(s)
            /\ \A j \in Indices(s) : pass[j] \in Indices(t) /\ At(t, pass[j]) = At(s, j)
            /\ \A k \in Indices(t) : \E j \in Indices(s) : pass[j] = k
            /\ \A j, l \in Indices(s) : pass[j] = pass[l] => j = l
            /\ \A j, l \in Indices(s) \ {from} : j < l => pass[j] < pass[l]
<1> DEFINE u == Without(s, from)
           e == At(s, from)
           t == With(u, to, e)
           pass == Passing(from, to)
<1>1. /\ from \in Nat /\ to \in Nat /\ Len(s) \in Nat
      /\ from < Len(s) /\ to < Len(s) /\ e \in S
  BY Elements DEF Indices
<1>2. /\ u \in Seq(S) /\ Len(u) = Len(s) - 1
      /\ \A j \in Indices(s) : /\ j < from => At(u, j) = At(s, j)
                               /\ j > from => At(u, j - 1) = At(s, j)
  BY Removed
<1>3. to \in 0..Len(u)
  BY <1>1, <1>2
<1> HIDE DEF u, e
<1>4. /\ t \in Seq(S) /\ Len(t) = Len(u) + 1
      /\ \A j \in Indices(u) : /\ j < to => At(t, j) = At(u, j)
                               /\ j >= to => At(t, j + 1) = At(u, j)
      /\ At(t, to) = e
  <2>1. u \in Seq(S) /\ e \in S
    BY <1>1, <1>2
  <2> QED BY <1>3, <2>1, Inserted
<1> HIDE DEF t
<1>5. /\ \A j : j \in Indices(s) <=> j \in Nat /\ j < Len(s)
      /\ \A j : j \in Indices(u) <=> j \in Nat /\ j < Len(s) - 1
      /\ \A j : j \in Indices(t) <=> j \in Nat /\ j < Len(s)
  BY <1>1, <1>2, <1>4 DEF Indices
<1>6. pass[from] = to
  BY <1>1 DEF Passing
<1>7. \A j \in Nat : j # from =>
        pass[j] = IF to <= j /\ j < from THEN j + 1
                  ELSE IF from < j /\ j <= to THEN j - 1 ELSE j
  BY DEF Passing
<1> HIDE DEF pass
<1>8. ASSUME NEW j \in Indices(s)
      PROVE  pass[j] \in Indices(t) /\ At(t, pass[j]) = At(s, j)
  <2>0. j \in Nat /\ j < Len(s)
    BY <1>5
  <2>1. CASE j = from
    BY <1>1, <1>4, <1>5, <1>6, <2>1 DEF e
  <2>2. CASE j < from
    <3>1. j \in Indices(u) /\ At(u, j) = At(s, j)
      BY <1>1, <1>2, <1>5, <2>0, <2>2
    <3>2. CASE j < to
      <4>1. pass[j] = j
        BY <1>1, <1>7, <2>0, <2>2, <3>2
      <4> QED BY <1>4, <1>5, <2>0, <3>1, <3>2, <4>1
    <3>3. CASE j >= to
      <4>1. pass[j] = j + 1
        BY <1>1, <1>7, <2>0, <2>2, <3>3
      <4>2. j + 1 \in Nat /\ j + 1 < Len(s)
        BY <1>1, <2>0, <2>2
      <4> QED BY <1>4, <1>5, <3>1, <3>3, <4>1, <4>2
    <3> QED BY <1>1, <2>0, <3>2, <3>3
  <2>3. CASE j > from
    <3> DEFINE v == j - 1
    <3>0. v \in Nat /\ v + 1 = j /\ v < Len(s) - 1
      BY <1>1, <2>0, <2>3
    <3>1. v \in Indices(u) /\ At(u, v) = At(s, j)
      BY <1>2, <1>5, <2>3, <3>0
    <3>2. CASE j <= to
      <4>1. pass[j] = v
        BY <1>1, <1>7, <2>0, <2>3, <3>2
      <4>2. v < to /\ v < Len(s)
        BY <1>1, <3>0, <3>2
      <4> HIDE DEF v
      <4> QED BY <1>4, <1>5, <3>0, <3>1, <4>1, <4>2
    <3>3. CASE j > to
      <4>1. pass[j] = v + 1
        BY <1>1, <1>7, <2>0, <2>3, <3>0, <3>3
      <4>2. v >= to
        BY <1>1, <3>0, <3>3
      <4> HIDE DEF v
      <4>3. At(t, v + 1) = At(u, v)
        BY <1>4, <3>1, <4>2
      <4> QED BY <1>5, <2>0, <3>0, <3>1, <4>1, <4>3
    <3> QED BY <1>1, <2>0, <3>2, <3>3
  <2> QED BY <1>1, <2>0, <2>1, <2>2, <2>3
<1>9. ASSUME NEW k \in Indices(t) PROVE \E j \in Indices(s) : pass[j] = k
  <2>0. k \in Nat /\ k < Len(s)
    BY <1>5
  <2>1. CASE k = to
    BY <1>6, <2>1
  <2>2. CASE k < to /\ k < from
    <3>1. k \in Indices(s) /\ pass[k] = k
      BY <1>1, <1>5, <1>7, <2>0, <2>2
    <3> QED BY <3>1
  <2>3. CASE k < to /\ k >= from
    <3> DEFINE v == k + 1
    <3>1. v \in Nat /\ v < Len(s) /\ v # from /\ from < v /\ v <= to /\ v - 1 = k
      BY <1>1, <2>0, <2>3
    <3>2. ~(to <= v /\ v < from)
      BY <1>1, <3>1
    <3> HIDE DEF v
    <3>3. pass[v] = k
      BY <1>7, <3>1, <3>2
    <3> QED BY <1>5, <3>1, <3>3
  <2>4. CASE k > to /\ k > from
    <3>1. k \in Indices(s) /\ pass[k] = k
      BY <1>1, <1>5, <1>7, <2>0, <2>4
    <3> QED BY <3>1
  <2>5. CASE k > to /\ k <= from
    <3> DEFINE v == k - 1
    <3>1. v \in Nat /\ v < Len(s) /\ v # from /\ to <= v /\ v < from /\ v + 1 = k
      BY <1>1, <2>0, <2>5
    <3> HIDE DEF v
    <3>2. pass[v] = k
      BY <1>7, <3>1
    <3> QED BY <1>5, <3>1, <3>2
  <2> QED BY <1>1, <2>0, <2>1, <2>2, <2>3, <2>4, <2>5
<1>10. ASSUME NEW j \in Indices(s) \ {from}, NEW l \in Indices(s) \ {from}, j < l
       PROVE  pass[j] < pass[l]
  <2>1. /\ j \in Nat /\ l \in Nat /\ j # from /\ l # from
    BY <1>5
  <2>2. /\ pass[j] = (IF to <= j /\ j < from THEN j + 1
                      ELSE IF from < j /\ j <= to THEN j - 1 ELSE j)
        /\ pass[l] = (IF to <= l /\ l < from THEN l + 1
                      ELSE IF from < l /\ l <= to THEN l - 1 ELSE l)
    BY <1>7, <2>1
  <2> QED BY <1>1, <1>10, <2>1, <2>2
<1>11. ASSUME NEW j \in Indices(s) \ {from} PROVE pass[j] # to
  <2>1. j \in Nat /\ j # from
    BY <1>5
  <2>2. pass[j] = (IF to <= j /\ j < from THEN j + 1
                   ELSE IF from < j /\ j <= to THEN j - 1 ELSE j)
    BY <1>7, <2>1
  <2> QED BY <1>1, <2>1, <2>2
<1>12. ASSUME NEW j \in Indices(s), NEW l \in Indices(s), pass[j] = pass[l]
       PROVE  j = l
  <2>1. CASE j = from \/ l = from
    BY <1>6, <1>11, <1>12, <2>1
  <2>2. CASE j # from /\ l # from
    <3>1. j \in Nat /\ l \in Nat /\ pass[j] \in Nat
      BY <1>5, <1>8
    <3>2. ~(j < l) /\ ~(l < j)
      BY <1>10, <1>12, <2>2, <3>1
    <3> QED BY <3>1, <3>2
  <2> QED BY <2>1, <2>2
<1>13. Len(t) = Len(s)
  BY <1>1, <1>2, <1>4
<1> QED BY <1>4, <1>8, <1>9, <1>10, <1>12, <1>13 DEF t, u, e, pass

LEMMA MoveFits ==
  ASSUME NEW S, NEW old \in Seq(S), NEW new \in Seq(S), NEW modified,
         Distinct(old), Distinct(new),
         NEW c \in ChangeSets, ListFits(c, old, new, modified),
         NEW from \in Indices(new), NEW to \in Indices(new)
  PROVE  /\ move(c, from, to) \in ChangeSets
         /\ ListFits(move(c, from, to), old,
                     With(Without(new, from), to, At(new, from)), modified)
<1> DEFINE d == move(c, from, to)
           new2 == With(Without(new, from), to, At(new, from))
           p == Passing(from, to)
           stay == Indices(new)
           kept == Indices(new) \ (c.insertions \cup {from})
           origin == shift(c.deletions, unshift(c.insertions, from))
           shifted == Carried(ToSet(c.moves), p)
<1>0. from \in Nat /\ to \in Nat
  BY DEF Indices
<1>1. /\ Aligned(old, c.deletions, new, c.insertions) /\ Moved(c, old, new)
      /\ c.modifications \in SUBSET Indices(new) /\ c.mapping = {}
  BY DEF ListFits
<1>2. from \notin c.insertions =>
        origin \in Indices(old) \ c.deletions /\ At(old, origin) = At(new, from)
  BY <1>1, OriginOfKept
<1>3. Consistent(c, from)
  BY <1>1, <1>2 DEF Indices, Moved, Consistent
<1>4. /\ d \in ChangeSets
      /\ d.deletions = IF from \in c.insertions THEN c.deletions
                       ELSE c.deletions \cup {origin}
      /\ d.insertions = {to} \cup Passed(p, c.insertions \ {from})
      /\ d.modifications = Passed(p, c.modifications)
      /\ ToSet(d.moves) = IF from \in c.insertions THEN shifted
                          ELSE shifted \cup {Pair(origin, to)}
      /\ d.mapping = Carried(c.mapping, p)
  <2>1. MovedAcross(c, from, to, p, origin, d)
    BY <1>0, <1>3, MoveFields
  <2> HIDE DEF p, d, origin
  <2> QED BY <2>1 DEF MovedAcross
<1>5. /\ \A j \in Indices(new) : p[j] \in Indices(new2) /\ At(new2, p[j]) = At(new, j)
      /\ \A k \in Indices(new2) : \E j \in Indices(new) : p[j] = k
      /\ \A j, l \in Indices(new) : p[j] = p[l] => j = l
      /\ \A j, l \in Indices(new) \ {from} : j < l => p[j] < p[l]
  BY PassedElements
<1>6. p[from] = to
  BY <1>0 DEF Passing
<1> HIDE DEF d, new2, p, origin
<1>7. /\ c.deletions \in SUBSET Indices(old) /\ c.insertions \in SUBSET Indices(new)
  BY <1>1 DEF Aligned
<1>8. ASSUME NEW j \in Indices(new)
      PROVE  /\ p[j] \in d.insertions <=> j \in c.insertions \cup {from}
             /\ p[j] \in d.modifications <=> j \in c.modifications
  <2>1. p[j] \in d.insertions => j \in c.insertions \cup {from}
    BY <1>4, <1>5, <1>6, <1>7 DEF Passed
  <2>2. j \in c.insertions \cup {from} => p[j] \in d.insertions
    BY <1>4, <1>6 DEF Passed
  <2>3. p[j] \in d.modifications <=> j \in c.modifications
    BY <1>1, <1>4, <1>5 DEF Passed
  <2> QED BY <2>1, <2>2, <2>3
<1>9. \A j, l \in kept : j < l => p[j] < p[l]
  BY <1>5
<1>10. \A t \in Indices(new2) \ d.insertions : \E j \in kept : p[j] = t
  BY <1>5, <1>8
<1>11. /\ d.insertions \in SUBSET Indices(new2)
       /\ d.modifications \in SUBSET Indices(new2)
  BY <1>1, <1>4, <1>5, <1>6, <1>7 DEF Passed
<1>12. ASSUME NEW m \in ToSet(d.moves)
       PROVE  \/ \E l \in ToSet(c.moves) : l.to \in stay /\ m.from = l.from /\ m.to = p[l.to]
              \/ \E j \in stay \ kept : /\ j \notin c.insertions /\ m.from \in d.deletions
                                        /\ At(old, m.from) = At(new, j) /\ m.to = p[j]
  <2>1. CASE m \in shifted
    <3>1. PICK l \in ToSet(c.moves) : m = Pair(l.from, p[l.to])
      BY <2>1 DEF Carried
    <3>2. l.to \in stay
      BY <1>1, <1>7 DEF Moved
    <3> QED BY <3>1, <3>2 DEF Pair
  <2>2. CASE m \notin shifted
    <3>1. from \notin c.insertions /\ m = Pair(origin, to)
      BY <1>4, <2>2
    <3>2. m.from = origin /\ m.to = p[from]
      BY <1>6, <3>1 DEF Pair
    <3>3. origin \in d.deletions /\ At(old, origin) = At(new, from)
      BY <1>2, <1>4, <3>1
    <3> QED BY <3>1, <3>2, <3>3
  <2> QED BY <2>1, <2>2
<1>13. ASSUME NEW k \in Indices(old) \ d.deletions
       PROVE  \E j \in kept : At(old, k) = At(new, j)
  <2>1. k \in Indices(old) \ c.deletions
    BY <1>4
  <2>2. PICK j \in Indices(new) \ c.insertions : At(old, k) = At(new, j)
    BY <1>1, <2>1 DEF Aligned
  <2>3. j # from
    BY <1>2, <1>4, <2>1, <2>2 DEF Distinct
  <2> QED BY <2>2, <2>3
<1>14. ASSUME NEW j \in kept
       PROVE  \E k \in Indices(old) \ d.deletions : At(old, k) = At(new, j)
  <2>1. PICK k \in Indices(old) \ c.deletions : At(old, k) = At(new, j)
    BY <1>1 DEF Aligned
  <2>2. k \in d.deletions => At(new, j) = At(new, from)
    BY <1>2, <1>4, <2>1
  <2>3. k \notin d.deletions
    BY <2>2 DEF Distinct
  <2> QED BY <2>1, <2>3
<1>15. /\ d.mapping = {} /\ c.deletions \in SUBSET d.deletions
       /\ d.deletions \in SUBSET Indices(old)
  BY <1>1, <1>2, <1>4, <1>7 DEF Carried
<1>16. \A j \in kept : p[j] \notin d.insertions
  BY <1>8
<1>17. Carries(kept, p, old, c.deletions, new, c.insertions, d.deletions, new2, d.insertions)
  BY <1>5, <1>9, <1>10, <1>11, <1>13, <1>14, <1>15, <1>16 DEF Carries
<1>18. ListCarries(stay, kept, p, old, new, c, new2, d)
  BY <1>5, <1>8, <1>11, <1>12, <1>15, <1>17 DEF ListCarries
<1> HIDE DEF kept, stay, shifted
<1>19. ListFits(d, old, new2, modified)
  BY <1>18, ListCarried
<1> QED BY <1>4, <1>19 DEF d, new2

LEMMA ModifyFields ==
  ASSUME NEW c \in ChangeSets, NEW i \in Nat
  PROVE  LET d == modify(c, i)
         IN /\ d \in ChangeSets /\ d.deletions = c.deletions
            /\ d.insertions = c.insertions
            /\ d.modifications = c.modifications \cup {i}
            /\ d.moves = c.moves /\ d.mapping = c.mapping
BY DEF modify, ChangeSets

LEMMA SetFits ==
  ASSUME NEW S, NEW old, NEW new \in Seq(S), NEW modified, Distinct(new),
         NEW c \in ChangeSets, ListFits(c, old, new, modified), NEW i \in Indices(new)
  PROVE  /\ modify(c, i) \in ChangeSets
         /\ ListFits(modify(c, i), old, new, modified \cup {At(new, i)})
<1> DEFINE d == modify(c, i)
<1>1. i \in Nat
  BY DEF Indices
<1>2. /\ d \in ChangeSets /\ d.deletions = c.deletions
      /\ d.insertions = c.insertions
      /\ d.modifications = c.modifications \cup {i}
      /\ d.moves = c.moves /\ d.mapping = c.mapping
  BY <1>1, ModifyFields
<1> HIDE DEF d
<1>3. Moved(d, old, new)
  BY <1>2 DEF ListFits, Moved
<1>4. Told(d, new, modified \cup {At(new, i)})
  BY <1>2 DEF ListFits, Told, Distinct
<1>5. ListFits(d, old, new, modified \cup {At(new, i)})
  BY <1>2, <1>3, <1>4 DEF ListFits
<1> QED BY <1>2, <1>5 DEF d

\* A cleared collection.
LEMMA ClearFields ==
  ASSUME NEW c \in ChangeSets, NEW size
  PROVE  LET d == clear(c, size)
             n == IF size = SizeMax THEN size
                  ELSE size + Cardinality(c.deletions) - Cardinality(c.insertions)
         IN /\ d \in ChangeSets /\ d.deletions = set(n)
            /\ d.insertions = {} /\ d.modifications = {}
            /\ d.moves = <<>> /\ d.mapping = {}
<1> DEFINE n == IF size = SizeMax THEN size
                ELSE size + Cardinality(c.deletions) - Cardinality(c.insertions)
<1>1. clear(c, size) = [NoChange EXCEPT !.deletions = set(n)]
  BY DEF clear
<1> HIDE DEF n
<1>2. set(n) \in SUBSET Nat
  BY DEF set
<1>3. <<>> \in Seq(Moves)
  OBVIOUS
<1> HIDE DEF clear
<1> QED BY <1>1, <1>2, <1>3 DEF NoChange, ChangeSets, n

LEMMA NoMoves ==
  ToSet(<<>>) = {}
BY DEF ToSet

\* The list's elements are kept and deleted; what is kept is still there and not
\* inserted: the size that is cleared and the two cardinalities are the old size.
LEMMA ClearFits ==
  ASSUME NEW S, NEW old \in Seq(S), NEW new \in Seq(S), NEW modified,
         Distinct(old), Distinct(new),
         NEW c \in ChangeSets, ListFits(c, old, new, modified), Len(new) # SizeMax
  PROVE  /\ clear(c, Len(new)) \in ChangeSets
         /\ ListFits(clear(c, Len(new)), old, <<>>, modified)
<1> DEFINE d == clear(c, Len(new))
           n == Len(new) + Cardinality(c.deletions) - Cardinality(c.insertions)
<1>1. /\ d \in ChangeSets /\ d.deletions = set(n)
      /\ d.insertions = {} /\ d.modifications = {}
      /\ d.moves = <<>> /\ d.mapping = {}
  BY ClearFields
<1> HIDE DEF d
<1>2. /\ Aligned(old, c.deletions, new, c.insertions)
  BY DEF ListFits
<1>3. /\ unshift(c.deletions, Len(old)) = unshift(c.insertions, Len(new))
      /\ Cardinality(c.deletions) = Len(old) - unshift(c.deletions, Len(old))
      /\ Cardinality(c.insertions) = Len(new) - unshift(c.insertions, Len(new))
  BY <1>2, SameRankAltogether
<1>4. Len(old) \in Nat /\ Len(new) \in Nat
  BY Terms
<1>5. /\ unshift(c.deletions, Len(old)) \in Nat
      /\ unshift(c.insertions, Len(new)) \in Nat
  BY <1>4, UnshiftCounts DEF ChangeSets
<1>6. n = Len(old)
  BY <1>3, <1>4, <1>5
<1>7. d.deletions = Indices(old) /\ Indices(<<>>) = {}
  BY <1>1, <1>4, <1>6 DEF set, Indices
<1>8. Aligned(old, d.deletions, <<>>, d.insertions)
  BY <1>1, <1>7 DEF Aligned
<1>9. Moved(d, old, <<>>) /\ Told(d, <<>>, modified)
  BY <1>1, <1>7, NoMoves DEF Moved, Told
<1>10. ListFits(d, old, <<>>, modified)
  BY <1>1, <1>8, <1>9 DEF ListFits
<1> QED BY <1>1, <1>10 DEF d

\* How many kept elements there are before a position, and altogether.
LEMMA KeptBefore ==
  ASSUME NEW S, NEW seq \in Seq(S), NEW D \in SUBSET Nat
  PROVE  LET X == Indices(seq) \ D
         IN /\ X \in SUBSET Nat /\ IsFiniteSet(X)
            /\ Cardinality(X) = unshift(D, Len(seq))
            /\ \A i \in Indices(seq) : count(X, 0, i) = unshift(D, i)
<1> DEFINE X == Indices(seq) \ D
<1>1. Len(seq) \in Nat
  BY Terms
<1>2. X = Others(D, Len(seq))
  BY DEF Others, Indices
<1>3. /\ IsFiniteSet(Others(D, Len(seq)))
      /\ unshift(D, Len(seq)) = Cardinality(Others(D, Len(seq)))
  BY <1>1, UnshiftCounts
<1>4. ASSUME NEW i \in Indices(seq) PROVE count(X, 0, i) = unshift(D, i)
  <2>1. i \in Nat /\ i < Len(seq)
    BY <1>1 DEF Indices
  <2>2. {k \in X : 0 <= k /\ k < i} = Others(D, i)
    BY <1>1, <2>1 DEF Others, Indices
  <2>3. unshift(D, i) = Cardinality(Others(D, i))
    BY <2>1, UnshiftCounts
  <2> QED BY <2>2, <2>3 DEF count
<1>5. X \in SUBSET Nat
  BY DEF Indices
<1> QED BY <1>2, <1>3, <1>4, <1>5

\* What is left of aligned collections is the same.
LEMMA SameRest ==
  ASSUME NEW S, NEW old \in Seq(S), NEW new \in Seq(S), NEW D, NEW I,
         Aligned(old, D, new, I), Distinct(old), Distinct(new)
  PROVE  Rest(old, D) = Rest(new, I)
<1> DEFINE X == Indices(old) \ D
           Y == Indices(new) \ I
           s == Ascending(X)
           t == Ascending(Y)
<1>1. D \in SUBSET Nat /\ I \in SUBSET Nat
  BY DEF Aligned, Indices
<1>2. /\ X \in SUBSET Nat /\ IsFiniteSet(X)
      /\ Cardinality(X) = unshift(D, Len(old))
      /\ \A i \in Indices(old) : count(X, 0, i) = unshift(D, i)
  BY <1>1, KeptBefore
<1>3. /\ Y \in SUBSET Nat /\ IsFiniteSet(Y)
      /\ Cardinality(Y) = unshift(I, Len(new))
      /\ \A i \in Indices(new) : count(Y, 0, i) = unshift(I, i)
  BY <1>1, KeptBefore
<1>4. unshift(D, Len(old)) = unshift(I, Len(new))
  BY SameRankAltogether
<1>5. X \subseteq Indices(old) /\ Y \subseteq Indices(new)
  OBVIOUS
<1>6. ASSUME NEW x \in X PROVE \E y \in Y : At(old, x) = At(new, y)
  BY DEF Aligned
<1>7. ASSUME NEW x \in X, NEW y \in Y, At(old, x) = At(new, y)
      PROVE  unshift(D, x) = unshift(I, y)
  BY <1>7, SameRankOfKept
<1>8. /\ Rest(old, D) = [k \in DOMAIN s |-> At(old, s[k])]
      /\ Rest(new, I) = [k \in DOMAIN t |-> At(new, t[k])]
  BY DEF Rest
<1> HIDE DEF X, Y
<1>9. /\ DOMAIN s = 1..Cardinality(X)
      /\ \A k \in DOMAIN s : s[k] \in X /\ count(X, 0, s[k]) = k - 1
  BY <1>2, AscendingIndices
<1>10. /\ DOMAIN t = 1..Cardinality(Y)
       /\ \A y \in Y : t[count(Y, 0, y) + 1] = y
  BY <1>3, AscendingIndices
<1> HIDE DEF s, t
<1>11. DOMAIN s = DOMAIN t
  BY <1>2, <1>3, <1>4, <1>9, <1>10
<1>12. ASSUME NEW k \in DOMAIN s PROVE At(old, s[k]) = At(new, t[k])
  <2>1. s[k] \in X /\ count(X, 0, s[k]) = k - 1
    BY <1>9
  <2>2. PICK y \in Y : At(old, s[k]) = At(new, y)
    BY <1>6, <2>1
  <2>3. count(Y, 0, y) = k - 1
    BY <1>2, <1>3, <1>5, <1>7, <2>1, <2>2
  <2>4. k \in Nat
    BY <1>9
  <2>5. (k - 1) + 1 = k
    BY <2>4
  <2>6. t[k] = y
    BY <1>10, <2>3, <2>5
  <2> QED BY <2>2, <2>6
<1> QED BY <1>8, <1>11, <1>12

LEMMA FittingDescribes ==
  ASSUME NEW S, NEW old \in Seq(S), NEW new \in Seq(S), NEW modified,
         Distinct(old), Distinct(new), NEW c, ListFits(c, old, new, modified)
  PROVE  Describes(c, old, new, modified)
<1> DEFINE moves == ToSet(c.moves) \cup c.mapping
<1>1. moves = ToSet(c.moves)
  BY DEF ListFits
<1>2. /\ Aligned(old, c.deletions, new, c.insertions)
      /\ Moved(c, old, new) /\ Told(c, new, modified)
      /\ c.modifications \in SUBSET Indices(new)
  BY DEF ListFits
<1>3. Rest(old, c.deletions) = Rest(new, c.insertions)
  BY <1>2, SameRest
<1>4. /\ c.deletions \subseteq Indices(old)
      /\ c.insertions \cup c.modifications \subseteq Indices(new)
  BY <1>2 DEF Aligned
<1>5. \A m \in moves : /\ m.from \in c.deletions /\ m.to \in c.insertions
                       /\ At(old, m.from) = At(new, m.to)
  BY <1>1, <1>2 DEF Moved
<1>6. \A j \in (Indices(new) \ c.insertions) \cup {m.to : m \in moves} :
        j \in c.modifications <=> At(new, j) \in modified
  <2> TAKE j \in (Indices(new) \ c.insertions) \cup {m.to : m \in moves}
  <2>1. j \in Indices(new)
    BY <1>4, <1>5
  <2>2. j \notin c.insertions \/ \E m \in ToSet(c.moves) : m.to = j
    BY <1>1
  <2> QED BY <1>2, <2>1, <2>2 DEF Told
<1> HIDE DEF moves
<1> QED BY <1>3, <1>4, <1>5, <1>6 DEF Describes, moves

-----------------------------------------------------------------------------
(* New rows and links.                                                     *)

\* What is in neither collection.
LEMMA FreshElements ==
  ASSUME NEW n \in Nat, NEW new \in FreshOnes(n)
  PROVE  /\ n > 0 /\ new \in Seq(Id) /\ Len(new) = n /\ Distinct(new)
         /\ \A j \in Indices(new) : At(new, j) \notin ToSet(rows) \cup ToSet(start)
<1> DEFINE F == Id \ (ToSet(rows) \cup ToSet(start) \cup ToSet(seen))
           free == Ascending(F)
<1>1. F \in SUBSET Nat /\ IsFiniteSet(F) /\ F \in SUBSET Id
  BY BoundsAssumption, FS_Subset
<1>2. n \in 1..Len(free) /\ new = SubSeq(free, 1, n)
  BY DEF FreshOnes
<1> HIDE DEF F, free
<1>3. /\ free \in Seq(F) /\ Len(free) \in Nat
      /\ \A k, l \in DOMAIN free : k < l => free[k] < free[l]
      /\ DOMAIN free = 1..Len(free)
      /\ \A k \in DOMAIN free : free[k] \in F
  BY <1>1, AscendingIndices DEF free
<1>4. /\ new \in Seq(F) /\ Len(new) = n
      /\ \A k \in 1..n : new[k] = free[k]
  BY <1>2, <1>3, SubSeqProperties, ElementOfSeq
<1>5. ASSUME NEW i \in Indices(new), NEW j \in Indices(new), At(new, i) = At(new, j)
      PROVE  i = j
  <2>1. /\ i \in Nat /\ j \in Nat /\ i + 1 \in 1..n /\ j + 1 \in 1..n
        /\ At(new, i) = free[i + 1] /\ At(new, j) = free[j + 1]
    BY <1>4 DEF Indices, At
  <2> DEFINE k == i + 1
             l == j + 1
  <2>2. /\ k \in 1..n /\ l \in 1..n /\ At(new, i) = free[k] /\ At(new, j) = free[l]
        /\ k = l => i = j
    BY <2>1
  <2> HIDE DEF k, l
  <2>3. k \in DOMAIN free /\ l \in DOMAIN free /\ k \in Nat /\ l \in Nat
    BY <1>2, <1>3, <2>2
  <2>4. free[k] = free[l] /\ free[k] \in Nat
    BY <1>1, <1>3, <1>5, <2>2, <2>3
  <2>5. ~(k < l) /\ ~(l < k)
    BY <1>3, <2>3, <2>4
  <2> QED BY <2>2, <2>3, <2>5
<1>6. \A j \in Indices(new) : At(new, j) \in F
  BY <1>4, Elements
<1>7. new \in Seq(Id)
  BY <1>1, <1>4, WiderSequence
<1>8. \A j \in Indices(new) : At(new, j) \notin ToSet(rows) \cup ToSet(start)
  BY <1>6 DEF F
<1> QED BY <1>2, <1>4, <1>5, <1>7, <1>8 DEF Distinct

LEMMA DistinctWith ==
  ASSUME NEW S, NEW s \in Seq(S), Distinct(s), NEW i \in 0..Len(s), NEW e \in S,
         e \notin ToSet(s)
  PROVE  Distinct(With(s, i, e))
<1> DEFINE t == With(s, i, e)
<1>1. /\ Len(s) \in Nat /\ i \in Nat /\ i <= Len(s)
      /\ \A j \in Indices(s) : At(s, j) # e
  BY Elements
<1>2. /\ Len(t) = Len(s) + 1
      /\ \A j \in Indices(s) : /\ j < i => At(t, j) = At(s, j)
                               /\ j >= i => At(t, j + 1) = At(s, j)
      /\ At(t, i) = e
  BY Inserted
<1> HIDE DEF t
<1>3. ASSUME NEW k \in Indices(t), k # i
      PROVE  \E j \in Indices(s) : /\ At(t, k) = At(s, j)
                                   /\ k = IF j < i THEN j ELSE j + 1
  <2>1. k \in Nat /\ k <= Len(s)
    BY <1>1, <1>2 DEF Indices
  <2>2. CASE k < i
    <3>1. k \in Indices(s)
      BY <1>1, <2>1, <2>2 DEF Indices
    <3> QED BY <1>2, <2>2, <3>1
  <2>3. CASE k > i
    <3> DEFINE j == k - 1
    <3>1. j \in Indices(s) /\ j >= i /\ j + 1 = k /\ ~(j < i)
      BY <1>1, <2>1, <2>3 DEF Indices
    <3> HIDE DEF j
    <3> QED BY <1>2, <3>1
  <2> QED BY <1>1, <1>3, <2>1, <2>2, <2>3
<1>4. ASSUME NEW k \in Indices(t), NEW l \in Indices(t), At(t, k) = At(t, l)
      PROVE  k = l
  <2>1. CASE k = i \/ l = i
    BY <1>1, <1>2, <1>3, <1>4, <2>1
  <2>2. CASE k # i /\ l # i
    BY <1>3, <1>4, <2>2 DEF Distinct
  <2> QED BY <2>1, <2>2
<1> QED BY <1>4 DEF Distinct, t

LEMMA DistinctWithout ==
  ASSUME NEW S, NEW s \in Seq(S), Distinct(s), NEW i \in Indices(s)
  PROVE  Distinct(Without(s, i))
<1> DEFINE t == Without(s, i)
<1>1. Len(s) \in Nat /\ i \in Nat /\ i < Len(s)
  BY Elements DEF Indices
<1>2. /\ Len(t) = Len(s) - 1
      /\ \A j \in Indices(s) : /\ j < i => At(t, j) = At(s, j)
                               /\ j > i => At(t, j - 1) = At(s, j)
  BY Removed
<1> HIDE DEF t
<1>3. ASSUME NEW k \in Indices(t)
      PROVE  \E j \in Indices(s) : /\ At(t, k) = At(s, j)
                                   /\ k = IF j < i THEN j ELSE j - 1
  <2>1. k \in Nat /\ k < Len(s) - 1
    BY <1>1, <1>2 DEF Indices
  <2>2. CASE k < i
    <3>1. k \in Indices(s)
      BY <1>1, <2>1, <2>2 DEF Indices
    <3> QED BY <1>2, <2>2, <3>1
  <2>3. CASE k >= i
    <3> DEFINE j == k + 1
    <3>1. j \in Indices(s) /\ j > i /\ j - 1 = k /\ ~(j < i)
      BY <1>1, <2>1, <2>3 DEF Indices
    <3> HIDE DEF j
    <3> QED BY <1>2, <3>1
  <2> QED BY <1>1, <2>1, <2>2, <2>3
<1>4. ASSUME NEW k \in Indices(t), NEW l \in Indices(t), At(t, k) = At(t, l)
      PROVE  k = l
  BY <1>3, <1>4 DEF Distinct
<1> QED BY <1>4 DEF Distinct, t

LEMMA DistinctMoved ==
  ASSUME NEW S, NEW s \in Seq(S), Distinct(s),
         NEW from \in Indices(s), NEW to \in Indices(s)
  PROVE  Distinct(With(Without(s, from), to, At(s, from)))
<1> DEFINE t == With(Without(s, from), to, At(s, from))
           pass == Passing(from, to)
<1>1. /\ \A j \in Indices(s) : pass[j] \in Indices(t) /\ At(t, pass[j]) = At(s, j)
      /\ \A k \in Indices(t) : \E j \in Indices(s) : pass[j] = k
  BY PassedElements
<1> HIDE DEF t, pass
<1>2. Distinct(t)
  BY <1>1 DEF Distinct
<1> QED BY <1>2 DEF t

-----------------------------------------------------------------------------
(* The table's change set, at every moment.                                *)

\* What is neither deleted nor inserted are the same positions.
Places(old, D, new, I) ==
  /\ I \in SUBSET Indices(new) /\ D \in SUBSET Nat /\ IsFiniteSet(D)
  /\ Indices(old) \ D = Indices(new) \ I

\* The rows that are neither deleted nor inserted have stayed where they were.
Stayed(old, D, new, I) ==
  /\ Places(old, D, new, I)
  /\ \A p \in Indices(new) \ I : At(old, p) = At(new, p)

\* The mapping has exactly the rows that were in the table and are somewhere
\* else now.
TableFits(c, old, new) ==
  /\ Stayed(old, c.deletions, new, c.insertions)
  /\ c.mapping \in SUBSET [from : Indices(old), to : c.insertions]
  /\ \A i \in Indices(old), j \in c.insertions :
       Pair(i, j) \in c.mapping <=> At(old, i) = At(new, j)
  /\ c.moves = <<>>

LEMMA Pairs ==
  ASSUME NEW A, NEW B, NEW m \in [from : A, to : B]
  PROVE  m.from \in A /\ m.to \in B /\ m = Pair(m.from, m.to)
BY DEF Pair

LEMMA PairFields ==
  ASSUME NEW i, NEW j
  PROVE  /\ Pair(i, j).from = i /\ Pair(i, j).to = j
         /\ \A A, B : i \in A /\ j \in B => Pair(i, j) \in [from : A, to : B]
BY DEF Pair

\* What has not moved is its own origin.
LEMMA OwnOrigin ==
  ASSUME NEW D \in SUBSET Nat, IsFiniteSet(D), NEW I \in SUBSET Nat,
         NEW p \in Nat, p \notin D, \A q \in Nat : q < p => (q \in D <=> q \in I)
  PROVE  shift(D, unshift(I, p)) = p
<1>1. Others(D, p) = Others(I, p)
  BY DEF Others
<1>2. unshift(D, p) = unshift(I, p)
  BY <1>1, UnshiftCounts
<1> QED BY <1>2, ShiftOfUnshift

LEMMA FinitePositions ==
  ASSUME NEW S, NEW seq \in Seq(S)
  PROVE  IsFiniteSet(Indices(seq)) /\ Indices(seq) \in SUBSET Nat
<1> DEFINE n == Len(seq) - 1
<1>1. n \in Int /\ Indices(seq) = 0..n
  BY Terms DEF Indices
<1> HIDE DEF n
<1>2. IsFiniteSet(0..n)
  BY <1>1, FS_Interval
<1> QED BY <1>1, <1>2

LEMMA OriginOfPlace ==
  ASSUME NEW S, NEW old \in Seq(S), NEW new \in Seq(S), NEW D, NEW I,
         Places(old, D, new, I), NEW p \in Indices(new) \ I
  PROVE  /\ shift(D, unshift(I, p)) = p /\ shift(I, unshift(D, p)) = p
         /\ p \in Indices(old) \ D /\ p \in Nat
         /\ \A q \in Nat : q < p => (q \in D <=> q \in I)
<1>1. /\ I \in SUBSET Indices(new) /\ D \in SUBSET Nat /\ IsFiniteSet(D)
      /\ Indices(old) \ D = Indices(new) \ I
  BY DEF Places
<1>2. /\ Len(old) \in Nat /\ Len(new) \in Nat
  BY Terms
<1>3. p \in Nat /\ p < Len(old) /\ p < Len(new) /\ p \notin D
  BY <1>1, <1>2 DEF Indices
<1>4. I \in SUBSET Nat /\ IsFiniteSet(I)
  <2>1. IsFiniteSet(Indices(new)) /\ Indices(new) \in SUBSET Nat
    BY FinitePositions
  <2>2. IsFiniteSet(I)
    BY <1>1, <2>1, FS_Subset
  <2> QED BY <1>1, <2>1, <2>2
<1>5. \A q \in Nat : q < p => (q \in D <=> q \in I)
  <2> SUFFICES ASSUME NEW q \in Nat, q < p PROVE q \in D <=> q \in I
    OBVIOUS
  <2>1. q \in Indices(old) /\ q \in Indices(new)
    BY <1>2, <1>3 DEF Indices
  <2> QED BY <1>1, <2>1
<1> QED BY <1>1, <1>3, <1>4, <1>5, OwnOrigin

\* The moves that parse_complete makes of the mapping, and what is left of the
\* deletions and insertions.
LEMMA Completed ==
  ASSUME NEW S, NEW old \in Seq(S), NEW new \in Seq(S), Distinct(new),
         NEW c, TableFits(c, old, new)
  PROVE  LET t == parse_complete(c)
             back == {i \in Indices(old) : Pair(i, i) \in c.mapping}
         IN /\ t.deletions = c.deletions \ back /\ t.insertions = c.insertions \ back
            /\ ToSet(t.moves) = {m \in c.mapping : m.from # m.to}
            /\ Stayed(old, t.deletions, new, t.insertions)
<1> DEFINE t == parse_complete(c)
           back == {i \in Indices(old) : Pair(i, i) \in c.mapping}
           B == {m \in c.mapping : m.from = m.to}
           all == ToSet(c.moves) \cup (c.mapping \ B)
           origins == Ascending({m.from : m \in all})
           moves == [k \in DOMAIN origins |-> CHOOSE m \in all : m.from = origins[k]]
<1>1. /\ t.deletions = c.deletions \ {m.from : m \in B}
      /\ t.insertions = c.insertions \ {m.to : m \in B}
      /\ t.moves = moves
  BY DEF parse_complete
<1>2. /\ Stayed(old, c.deletions, new, c.insertions)
      /\ c.mapping \in SUBSET [from : Indices(old), to : c.insertions]
      /\ \A i \in Indices(old), j \in c.insertions :
           Pair(i, j) \in c.mapping <=> At(old, i) = At(new, j)
      /\ c.moves = <<>>
  BY DEF TableFits
<1>3. all = {m \in c.mapping : m.from # m.to}
  BY <1>2, NoMoves
<1>4. \A m \in c.mapping : /\ m.from \in Indices(old) /\ m.to \in c.insertions
                           /\ m = Pair(m.from, m.to) /\ At(old, m.from) = At(new, m.to)
  <2> TAKE m \in c.mapping
  <2>1. m \in [from : Indices(old), to : c.insertions]
    BY <1>2
  <2>2. m.from \in Indices(old) /\ m.to \in c.insertions /\ m = Pair(m.from, m.to)
    BY <2>1, Pairs
  <2> QED BY <1>2, <2>2
<1>5. {m.from : m \in B} = back /\ {m.to : m \in B} = back
  <2>1. \A i \in back : /\ Pair(i, i) \in c.mapping
                        /\ Pair(i, i).from = i /\ Pair(i, i).to = i
    BY DEF Pair
  <2>2. \A m \in B : m.from \in back /\ m.to = m.from
    BY <1>4
  <2> QED BY <2>1, <2>2
<1>6. Stayed(old, c.deletions \ back, new, c.insertions \ back)
  <2>1. /\ c.insertions \in SUBSET Indices(new) /\ c.deletions \in SUBSET Nat
        /\ IsFiniteSet(c.deletions)
        /\ Indices(old) \ c.deletions = Indices(new) \ c.insertions
        /\ \A p \in Indices(new) \ c.insertions : At(old, p) = At(new, p)
    BY <1>2 DEF Stayed, Places
  <2>2. \A i \in back : /\ i \in Indices(old) /\ i \in c.insertions
                        /\ At(old, i) = At(new, i)
    BY <1>4, PairFields
  <2>3. IsFiniteSet(c.deletions \ back)
    BY <2>1, FS_Subset
  <2>4. Indices(old) \ (c.deletions \ back) = Indices(new) \ (c.insertions \ back)
    BY <2>1, <2>2
  <2>5. \A p \in Indices(new) \ (c.insertions \ back) : At(old, p) = At(new, p)
    BY <2>1, <2>2
  <2> QED BY <2>1, <2>3, <2>4, <2>5 DEF Stayed, Places
<1>7. ToSet(moves) = all
  <2> DEFINE O == {m.from : m \in all}
  <2> HIDE DEF all
  <2>1. O \in SUBSET Nat /\ IsFiniteSet(O)
    <3>1. O \in SUBSET Indices(old)
      BY <1>3, <1>4
    <3>2. IsFiniteSet(Indices(old)) /\ Indices(old) \in SUBSET Nat
      BY FinitePositions
    <3> QED BY <3>1, <3>2, FS_Subset
  <2>2. ASSUME NEW m \in all, NEW l \in all, m.from = l.from PROVE m = l
    <3>1. /\ m.from \in Indices(old) /\ m.to \in c.insertions
          /\ l.to \in c.insertions /\ m = Pair(m.from, m.to) /\ l = Pair(l.from, l.to)
          /\ At(new, m.to) = At(new, l.to)
      BY <1>3, <1>4, <2>2
    <3>2. m.to = l.to
      BY <1>2, <3>1 DEF Distinct, Stayed, Places
    <3> QED BY <2>2, <3>1, <3>2
  <2>3. /\ \A k \in DOMAIN origins : origins[k] \in O
        /\ \A o \in O : \E k \in DOMAIN origins : origins[k] = o
    BY <2>1, AscendingIndices
  <2> HIDE DEF origins
  <2>4. \A m \in all : m.from \in O
    OBVIOUS
  <2>5. \A o \in O : \E m \in all : m.from = o
    OBVIOUS
  <2> HIDE DEF O
  <2>6. DOMAIN moves = DOMAIN origins
    OBVIOUS
  <2>7. \A k \in DOMAIN origins : moves[k] \in all /\ moves[k].from = origins[k]
    BY <2>3, <2>5
  <2> HIDE DEF moves
  <2>8. \A m \in all : \E k \in DOMAIN moves : moves[k] = m
    BY <2>2, <2>3, <2>4, <2>6, <2>7
  <2> QED BY <2>6, <2>7, <2>8 DEF ToSet
<1> HIDE DEF t, moves, all
<1> QED BY <1>1, <1>3, <1>5, <1>6, <1>7 DEF t

LEMMA FoundAgain ==
  ASSUME NEW S, NEW seq \in Seq(S), Distinct(seq), NEW j \in Indices(seq)
  PROVE  IndexOf(seq, At(seq, j)) = j /\ At(seq, j) \in ToSet(seq)
<1>1. At(seq, j) \in ToSet(seq)
  BY Elements
<1>2. \E i \in Indices(seq) : At(seq, i) = At(seq, j)
  OBVIOUS
<1>3. IndexOf(seq, At(seq, j)) \in Indices(seq)
      /\ At(seq, IndexOf(seq, At(seq, j))) = At(seq, j)
  BY <1>2 DEF IndexOf
<1> QED BY <1>1, <1>3 DEF Distinct

LEMMA FittingFollows ==
  ASSUME NEW S, NEW old \in Seq(S), NEW new \in Seq(S), Distinct(old), Distinct(new),
         NEW c, TableFits(c, old, new), NEW i \in Indices(old)
  PROVE  NewIndex(parse_complete(c), i) =
           IF At(old, i) \in ToSet(new) THEN IndexOf(new, At(old, i)) ELSE npos
<1> DEFINE t == parse_complete(c)
           moves == {m \in ToSet(t.moves) : m.from = i}
           back == {k \in Indices(old) : Pair(k, k) \in c.mapping}
<1>1. /\ t.deletions = c.deletions \ back /\ t.insertions = c.insertions \ back
      /\ ToSet(t.moves) = {m \in c.mapping : m.from # m.to}
      /\ Stayed(old, t.deletions, new, t.insertions)
  BY Completed
<1>2. /\ c.mapping \in SUBSET [from : Indices(old), to : c.insertions]
      /\ \A k \in Indices(old), j \in c.insertions :
           Pair(k, j) \in c.mapping <=> At(old, k) = At(new, j)
      /\ c.insertions \in SUBSET Indices(new)
  BY DEF TableFits, Stayed, Places
<1>3. NewIndex(t, i) = IF i \notin t.deletions THEN After(t, i)
                       ELSE IF moves # {} THEN (CHOOSE m \in moves : TRUE).to ELSE npos
  BY DEF NewIndex
<1>4. /\ t.insertions \in SUBSET Indices(new)
      /\ Indices(old) \ t.deletions = Indices(new) \ t.insertions
      /\ \A p \in Indices(new) \ t.insertions : At(old, p) = At(new, p)
  BY <1>1 DEF Stayed, Places
<1>5. \A m \in moves : m.to \in Indices(new) /\ At(new, m.to) = At(old, i)
  <2> TAKE m \in moves
  <2>1. m \in c.mapping /\ m.from = i
    BY <1>1
  <2>2. m.to \in c.insertions /\ m = Pair(i, m.to)
    BY <1>2, <2>1, Pairs
  <2> QED BY <1>2, <2>1, <2>2
<1> HIDE DEF t, moves
<1>6. CASE i \notin t.deletions
  <2>1. i \in Indices(new) \ t.insertions /\ At(old, i) = At(new, i)
    BY <1>4, <1>6
  <2>2. After(t, i) = i
    BY <1>1, <2>1, OriginOfPlace DEF After, Stayed
  <2>3. IndexOf(new, At(new, i)) = i /\ At(new, i) \in ToSet(new)
    BY <2>1, FoundAgain
  <2> QED BY <1>3, <1>6, <2>1, <2>2, <2>3 DEF t
<1>7. CASE i \in t.deletions /\ At(old, i) \in ToSet(new)
  <2>1. PICK j \in Indices(new) : At(new, j) = At(old, i)
    BY <1>7, Elements
  <2>2. j \in t.insertions
    BY <1>4, <1>7, <2>1 DEF Distinct
  <2>3. Pair(i, j) \in c.mapping /\ j \in c.insertions
    BY <1>1, <1>2, <2>1, <2>2
  <2>4. i # j
    BY <1>1, <1>7, <2>3
  <2>5. Pair(i, j) \in moves
    BY <1>1, <2>3, <2>4, PairFields DEF moves
  <2>6. (CHOOSE m \in moves : TRUE) \in moves
    BY <2>5
  <2>7. (CHOOSE m \in moves : TRUE).to = j
    BY <1>5, <2>1, <2>6 DEF Distinct
  <2>8. IndexOf(new, At(old, i)) = j
    BY <2>1, FoundAgain
  <2> QED BY <1>3, <1>7, <2>5, <2>7, <2>8 DEF t
<1>8. CASE i \in t.deletions /\ At(old, i) \notin ToSet(new)
  <2>1. moves = {}
    BY <1>5, <1>8, Elements
  <2> QED BY <1>3, <1>8, <2>1 DEF t
<1> QED BY <1>6, <1>7, <1>8

\* A sequence and n elements more.
LEMMA Extended ==
  ASSUME NEW S, NEW s \in Seq(S), NEW t \in Seq(S)
  PROVE  /\ s \o t \in Seq(S) /\ Len(s \o t) = Len(s) + Len(t)
         /\ \A j \in Indices(s) : At(s \o t, j) = At(s, j)
         /\ \A j \in Indices(s \o t) : j >= Len(s) =>
              \E k \in Indices(t) : At(s \o t, j) = At(t, k) /\ j = Len(s) + k
<1> DEFINE u == s \o t
<1>1. Len(s) \in Nat /\ Len(t) \in Nat
  BY Terms
<1>2. /\ u \in Seq(S) /\ Len(u) = Len(s) + Len(t)
      /\ \A k \in 1..Len(u) : u[k] = IF k <= Len(s) THEN s[k] ELSE t[k - Len(s)]
  BY ConcatProperties
<1> HIDE DEF u
<1>3. ASSUME NEW j \in Indices(s) PROVE At(u, j) = At(s, j)
  <2>1. j + 1 \in 1..Len(u) /\ j + 1 <= Len(s)
    BY <1>1, <1>2 DEF Indices
  <2> QED BY <1>2, <2>1 DEF At
<1>4. ASSUME NEW j \in Indices(u), j >= Len(s)
      PROVE  \E k \in Indices(t) : At(u, j) = At(t, k) /\ j = Len(s) + k
  <2> DEFINE k == j - Len(s)
  <2>1. /\ j + 1 \in 1..Len(u) /\ ~(j + 1 <= Len(s)) /\ (j + 1) - Len(s) = k + 1
        /\ k \in Indices(t) /\ j = Len(s) + k
    BY <1>1, <1>2, <1>4 DEF Indices
  <2> HIDE DEF k
  <2>2. u[j + 1] = t[k + 1]
    BY <1>2, <2>1
  <2> QED BY <2>1, <2>2 DEF At
<1> QED BY <1>2, <1>3, <1>4 DEF u

LEMMA DistinctExtended ==
  ASSUME NEW S, NEW s \in Seq(S), NEW t \in Seq(S), Distinct(s), Distinct(t),
         \A k \in Indices(t) : At(t, k) \notin ToSet(s)
  PROVE  Distinct(s \o t)
<1> DEFINE u == s \o t
<1>1. /\ Len(u) = Len(s) + Len(t) /\ Len(s) \in Nat /\ Len(t) \in Nat
      /\ \A j \in Indices(s) : At(u, j) = At(s, j)
      /\ \A j \in Indices(u) : j >= Len(s) =>
           \E k \in Indices(t) : At(u, j) = At(t, k) /\ j = Len(s) + k
  BY Extended, Terms
<1>2. \A j \in Indices(s) : At(s, j) \in ToSet(s)
  BY Elements
<1> HIDE DEF u
<1>3. \A j \in Indices(u) : j \in Nat /\ (j < Len(s) => j \in Indices(s))
  BY <1>1 DEF Indices
<1>4. ASSUME NEW i \in Indices(u), NEW j \in Indices(u), At(u, i) = At(u, j)
      PROVE  i = j
  <2>1. CASE i < Len(s) /\ j < Len(s)
    BY <1>1, <1>3, <1>4, <2>1 DEF Distinct
  <2>2. CASE i < Len(s) /\ j >= Len(s)
    BY <1>1, <1>2, <1>3, <1>4, <2>2
  <2>3. CASE i >= Len(s) /\ j < Len(s)
    BY <1>1, <1>2, <1>3, <1>4, <2>3
  <2>4. CASE i >= Len(s) /\ j >= Len(s)
    BY <1>1, <1>3, <1>4, <2>4 DEF Distinct
  <2> QED BY <1>1, <1>3, <2>1, <2>2, <2>3, <2>4
<1> QED BY <1>4 DEF Distinct, u

LEMMA NoElements ==
  ASSUME NEW S, NEW s \in Seq(S), ToSet(s) = {}
  PROVE  s = <<>>
<1>1. Len(s) \in Nat /\ DOMAIN s = 1..Len(s)
  BY Terms
<1>2. \A k \in DOMAIN s : s[k] \in ToSet(s)
  BY DEF ToSet
<1>3. 1 \notin DOMAIN s
  BY <1>2
<1>4. Len(s) = 0
  BY <1>1, <1>3
<1> QED BY <1>4

LEMMA ExtendFits ==
  ASSUME NEW S, NEW old \in Seq(S), NEW new \in Seq(S), NEW c \in ChangeSets,
         TableFits(c, old, new), NEW more \in Seq(S),
         \A k \in Indices(more) : At(more, k) \notin ToSet(old)
  PROVE  /\ insert(c, Len(new), Len(more)) \in ChangeSets
         /\ TableFits(insert(c, Len(new), Len(more)), old, new \o more)
<1> DEFINE a == Len(new)
           n == Len(more)
           d == insert(c, a, n)
           new2 == new \o more
           p == [t \in Nat |-> IF t >= a THEN t + n ELSE t]
<1>0. a \in Nat /\ n \in Nat
  BY Terms
<1>1. /\ d \in ChangeSets /\ d.deletions = c.deletions
      /\ d.insertions = {j \in Nat : \/ a <= j /\ j < a + n
                                     \/ j < a /\ j \in c.insertions
                                     \/ j >= a + n /\ j - n \in c.insertions}
      /\ ToSet(d.moves) = {Pair(m.from, p[m.to]) : m \in ToSet(c.moves)}
      /\ d.mapping = {Pair(m.from, p[m.to]) : m \in c.mapping}
  <2> HIDE DEF a, n
  <2>1. InsertedInto(c, a, n, d)
    BY <1>0, InsertFields
  <2> HIDE DEF d
  <2> QED BY <2>1 DEF InsertedInto
<1>2. /\ Len(new2) = a + n
      /\ \A j \in Indices(new) : At(new2, j) = At(new, j)
      /\ \A j \in Indices(new2) : j >= a =>
           \E k \in Indices(more) : At(new2, j) = At(more, k)
  BY Extended
<1>3. \A t \in Nat : t < a => p[t] = t
  BY <1>0
<1> HIDE DEF a, n, d, new2, p
<1>4. /\ Stayed(old, c.deletions, new, c.insertions)
      /\ c.mapping \in SUBSET [from : Indices(old), to : c.insertions]
      /\ \A i \in Indices(old), j \in c.insertions :
           Pair(i, j) \in c.mapping <=> At(old, i) = At(new, j)
      /\ c.moves = <<>>
  BY DEF TableFits
<1>5. /\ c.insertions \in SUBSET Indices(new) /\ c.deletions \in SUBSET Nat
      /\ IsFiniteSet(c.deletions)
      /\ Indices(old) \ c.deletions = Indices(new) \ c.insertions
      /\ \A q \in Indices(new) \ c.insertions : At(old, q) = At(new, q)
  BY <1>4 DEF Stayed, Places
<1>6. /\ \A j : j \in Indices(new) <=> j \in Nat /\ j < a
      /\ \A j : j \in Indices(new2) <=> j \in Nat /\ j < a + n
  BY <1>0, <1>2 DEF Indices, a
<1>7. \A j : j \in d.insertions <=> j \in c.insertions \/ (j \in Nat /\ a <= j /\ j < a + n)
  <2>1. \A j \in c.insertions : j \in Nat /\ j < a
    BY <1>5, <1>6
  <2>2. \A j \in Nat : j >= a + n => ~(j - n < a)
    BY <1>0
  <2> QED BY <1>0, <1>1, <2>1, <2>2
<1>8. d.mapping = c.mapping
  <2>1. \A m \in c.mapping : m = Pair(m.from, p[m.to])
    <3> TAKE m \in c.mapping
    <3>1. m \in [from : Indices(old), to : c.insertions]
      BY <1>4
    <3>2. m.to \in c.insertions /\ m = Pair(m.from, m.to)
      BY <3>1, Pairs
    <3> QED BY <1>3, <1>5, <1>6, <3>2
  <2> QED BY <1>1, <2>1
<1>9. d.moves = <<>>
  <2>1. ToSet(d.moves) = {}
    BY <1>1, <1>4, NoMoves
  <2>2. d.moves \in Seq(Moves)
    BY <1>1 DEF ChangeSets
  <2> QED BY <2>1, <2>2, NoElements
<1>10. Stayed(old, d.deletions, new2, d.insertions)
  <2>1. d.insertions \in SUBSET Indices(new2)
    BY <1>0, <1>5, <1>6, <1>7
  <2>2. Indices(new2) \ d.insertions = Indices(new) \ c.insertions
    BY <1>0, <1>6, <1>7
  <2> QED BY <1>1, <1>2, <1>5, <2>1, <2>2 DEF Stayed, Places
<1>11. d.mapping \in SUBSET [from : Indices(old), to : d.insertions]
  <2> SUFFICES ASSUME NEW m \in c.mapping
               PROVE  m \in [from : Indices(old), to : d.insertions]
    BY <1>8
  <2>1. m \in [from : Indices(old), to : c.insertions]
    BY <1>4
  <2> QED BY <1>7, <2>1
<1>12. ASSUME NEW i \in Indices(old), NEW j \in d.insertions
       PROVE  Pair(i, j) \in d.mapping <=> At(old, i) = At(new2, j)
  <2>1. CASE j \in c.insertions
    BY <1>2, <1>4, <1>5, <1>8, <2>1
  <2>2. CASE j \notin c.insertions
    <3>1. j \in Indices(new2) /\ j >= a
      BY <1>0, <1>6, <1>7, <2>2
    <3>2. At(old, i) # At(new2, j)
      <4>1. PICK k \in Indices(more) : At(new2, j) = At(more, k)
        BY <1>2, <3>1
      <4> QED BY <4>1, Elements
    <3>3. Pair(i, j) \notin d.mapping
      <4>1. Pair(i, j) \in c.mapping => Pair(i, j) \in [from : Indices(old), to : c.insertions]
        BY <1>4
      <4>2. Pair(i, j) \in c.mapping => Pair(i, j).to \in c.insertions
        BY <4>1, Pairs
      <4> QED BY <1>8, <2>2, <4>2, PairFields
    <3> QED BY <3>2, <3>3
  <2> QED BY <2>1, <2>2
<1>13. TableFits(d, old, new2)
  BY <1>9, <1>10, <1>11, <1>12 DEF TableFits
<1> QED BY <1>1, <1>13 DEF d, a, n, new2

LEMMA ClearTableFits ==
  ASSUME NEW S, NEW old \in Seq(S), NEW c \in ChangeSets, Len(old) <= MaxRows
  PROVE  /\ clear(c, SizeMax) \in ChangeSets
         /\ TableFits(clear(c, SizeMax), old, <<>>)
<1> DEFINE d == clear(c, SizeMax)
<1>1. /\ d \in ChangeSets /\ d.deletions = set(SizeMax)
      /\ d.insertions = {} /\ d.moves = <<>> /\ d.mapping = {}
  BY ClearFields
<1> HIDE DEF d
<1>2. /\ SizeMax \in Nat /\ Len(old) \in Nat /\ Len(old) <= SizeMax
  BY BoundsAssumption, Terms
<1>3. Indices(<<>>) = {} /\ Indices(old) \ d.deletions = {}
  BY <1>1, <1>2 DEF set, Indices
<1>4. d.deletions \in SUBSET Nat /\ IsFiniteSet(d.deletions)
  <2> DEFINE n == SizeMax - 1
  <2>1. n \in Int /\ d.deletions = 0..n
    BY <1>1, <1>2 DEF set
  <2> HIDE DEF n
  <2> QED BY <2>1, FS_Interval
<1>5. Stayed(old, d.deletions, <<>>, d.insertions)
  BY <1>1, <1>3, <1>4 DEF Stayed, Places
<1>6. TableFits(d, old, <<>>)
  BY <1>1, <1>5 DEF TableFits
<1> QED BY <1>1, <1>6 DEF d

LEMMA DirtyFits ==
  ASSUME NEW old, NEW new, NEW c \in ChangeSets, TableFits(c, old, new), NEW i \in Nat
  PROVE  modify(c, i) \in ChangeSets /\ TableFits(modify(c, i), old, new)
<1> DEFINE d == modify(c, i)
<1>1. /\ d \in ChangeSets /\ d.deletions = c.deletions /\ d.insertions = c.insertions
      /\ d.moves = c.moves /\ d.mapping = c.mapping
  BY ModifyFields
<1> HIDE DEF d
<1>2. TableFits(d, old, new)
  BY <1>1 DEF TableFits
<1> QED BY <1>1, <1>2 DEF d

-----------------------------------------------------------------------------
(* Rows that are moved over, swapped and merged.                           *)

NotTo(mapping, to) == {m \in mapping : m.to # to}

Remapped(d, c, mapping) ==
  /\ d \in ChangeSets /\ d.deletions = c.deletions
  /\ d.insertions = c.insertions /\ d.moves = c.moves
  /\ d.mapping = mapping

LEMMA MappedFields ==
  ASSUME NEW c \in ChangeSets, NEW to \in Nat, NEW from \in Nat
  PROVE  Remapped(Mapped(c, to, from), c, NotTo(c.mapping, to) \cup {Pair(from, to)})
<1> DEFINE mapping == NotTo(c.mapping, to) \cup {Pair(from, to)}
<1>1. Mapped(c, to, from) = [c EXCEPT !.mapping = mapping]
  BY DEF Mapped, NotTo
<1>2. mapping \in SUBSET Moves
  BY DEF ChangeSets, Moves, Pair, NotTo
<1> HIDE DEF mapping
<1>3. Remapped([c EXCEPT !.mapping = mapping], c, mapping)
  BY <1>2 DEF ChangeSets, Remapped
<1> QED BY <1>1, <1>3 DEF mapping

\* d is c without the row that was at position o of the old table.
Lost(d, c, o) ==
  /\ d \in ChangeSets /\ d.deletions = c.deletions \cup {o}
  /\ d.insertions = c.insertions /\ d.moves = c.moves /\ d.mapping = c.mapping

LEMMA DeletedHere ==
  ASSUME NEW c \in ChangeSets, NEW i \in Nat, i \notin c.insertions,
         NEW o \in Nat, shift(c.deletions, unshift(c.insertions, i)) = o
  PROVE  Lost(Deleted(c, i), c, o)
<1>1. c.insertions \in SUBSET Nat
  BY DEF ChangeSets
<1>2. unshift(c.insertions, i) # npos
  BY <1>1, UnshiftCounts DEF npos
<1>3. Deleted(c, i) = [c EXCEPT !.deletions = @ \cup {o}]
  BY <1>2 DEF Deleted, erased_or_unshifted
<1>4. Lost([c EXCEPT !.deletions = @ \cup {o}], c, o)
  BY DEF Lost, ChangeSets
<1> QED BY <1>3, <1>4

LEMMA UnmappedFields ==
  ASSUME NEW c \in ChangeSets, NEW to \in Nat
  PROVE  Remapped(Unmapped(c, to), c, NotTo(c.mapping, to))
<1> DEFINE mapping == NotTo(c.mapping, to)
<1>1. Unmapped(c, to) = [c EXCEPT !.mapping = mapping]
  BY DEF Unmapped, NotTo
<1>2. mapping \in SUBSET Moves
  BY DEF ChangeSets, NotTo
<1> HIDE DEF mapping
<1>3. Remapped([c EXCEPT !.mapping = mapping], c, mapping)
  BY <1>2 DEF ChangeSets, Remapped
<1> QED BY <1>1, <1>3 DEF mapping

\* A change set that would fit if it were not for the row at position x, which
\* is about to be moved over.
FitsBut(c, old, new, x) ==
  /\ Places(old, c.deletions, new, c.insertions)
  /\ \A p \in Indices(new) \ c.insertions : p # x => At(old, p) = At(new, p)
  /\ c.mapping \in SUBSET [from : Indices(old), to : c.insertions]
  /\ \A i \in Indices(old), j \in c.insertions :
       j # x => (Pair(i, j) \in c.mapping <=> At(old, i) = At(new, j))
  /\ c.moves = <<>>

LEMMA FittingFitsBut ==
  ASSUME NEW c, NEW old, NEW new, TableFits(c, old, new), NEW x
  PROVE  FitsBut(c, old, new, x)
BY DEF TableFits, FitsBut, Stayed

\* When the row at position x is the last one.
LEMMA LastRowGone ==
  ASSUME NEW S, NEW old \in Seq(S), NEW new \in Seq(S), NEW c \in ChangeSets,
         NEW x \in Indices(new), FitsBut(c, old, new, x), x = Len(new) - 1
  PROVE  /\ move_over(c, x, x) \in ChangeSets
         /\ TableFits(move_over(c, x, x), old, LastOver(new, x))
<1> DEFINE d == move_over(c, x, x)
           new2 == LastOver(new, x)
           mods == IF x \in c.modifications /\ x # x
                   THEN (c.modifications \ {x}) \cup {x} ELSE c.modifications \ {x}
           b == [c EXCEPT !.modifications = mods]
           e == Deleted(b, x)
           f == Unmapped(e, x)
           D2 == IF x \in c.insertions THEN c.deletions ELSE c.deletions \cup {x}
<1>1. d = [f EXCEPT !.insertions = erase_at(@, {x})]
  BY DEF move_over
<1>2. /\ b \in ChangeSets /\ b.deletions = c.deletions /\ b.insertions = c.insertions
      /\ b.moves = c.moves /\ b.mapping = c.mapping
  <2>1. mods \in SUBSET Nat
    BY DEF ChangeSets
  <2> HIDE DEF mods
  <2> QED BY <2>1 DEF ChangeSets
<1>3. /\ Places(old, c.deletions, new, c.insertions)
      /\ \A p \in Indices(new) \ c.insertions : p # x => At(old, p) = At(new, p)
      /\ c.mapping \in SUBSET [from : Indices(old), to : c.insertions]
      /\ \A i \in Indices(old), j \in c.insertions :
           j # x => (Pair(i, j) \in c.mapping <=> At(old, i) = At(new, j))
      /\ c.moves = <<>>
  BY DEF FitsBut
<1>4. /\ c.insertions \in SUBSET Indices(new) /\ c.deletions \in SUBSET Nat
      /\ IsFiniteSet(c.deletions)
      /\ Indices(old) \ c.deletions = Indices(new) \ c.insertions
  BY <1>3 DEF Places
<1>5. x \in Nat /\ Len(new) \in Nat
  BY Elements
<1>6. x \notin c.insertions => shift(c.deletions, unshift(c.insertions, x)) = x
  BY <1>3, OriginOfPlace
<1> HIDE DEF d, b
<1>7. e \in ChangeSets /\ e = [b EXCEPT !.deletions = D2]
  <2>1. x \notin b.insertions => shift(b.deletions, unshift(b.insertions, x)) \in Nat
    BY <1>2, <1>5, <1>6
  <2>2. e \in ChangeSets /\ e = [b EXCEPT !.deletions =
              IF x \in b.insertions THEN @
              ELSE @ \cup {shift(b.deletions, unshift(b.insertions, x))}]
    BY <1>2, <1>5, <2>1, DeletedFields
  <2> HIDE DEF e
  <2> QED BY <1>2, <1>6, <2>2
<1> HIDE DEF e
<1>8. /\ e.deletions = D2 /\ e.insertions = c.insertions
      /\ e.moves = <<>> /\ e.mapping = c.mapping
  BY <1>2, <1>3, <1>7 DEF ChangeSets
<1>9. /\ f \in ChangeSets /\ f.deletions = D2 /\ f.insertions = c.insertions
      /\ f.moves = <<>> /\ f.mapping = NotTo(c.mapping, x)
  <2>1. Remapped(f, e, NotTo(e.mapping, x))
    BY <1>5, <1>7, UnmappedFields
  <2> HIDE DEF f, D2
  <2> QED BY <1>8, <2>1 DEF Remapped
<1> HIDE DEF f
<1>10. erase_at(c.insertions, {x}) = c.insertions \ {x}
  <2>1. erase_at(c.insertions, {x}) =
          {j \in Nat : (j < x /\ j \in c.insertions) \/ (j >= x /\ j + 1 \in c.insertions)}
    BY <1>5, ErasedAt DEF ChangeSets
  <2>2. \A j \in c.insertions : j \in Nat /\ j <= x
    BY <1>4, <1>5 DEF Indices
  <2> DEFINE E == erase_at(c.insertions, {x})
  <2>3. \A j : j \in E <=> j \in c.insertions \ {x}
    <3> TAKE j
    <3>1. j \in E => j \in c.insertions \ {x}
      <4> SUFFICES ASSUME j \in E PROVE j \in c.insertions \ {x}
        OBVIOUS
      <4>1. j \in Nat /\ ((j < x /\ j \in c.insertions) \/ (j >= x /\ j + 1 \in c.insertions))
        BY <2>1
      <4>2. ~(j >= x /\ j + 1 \in c.insertions)
        BY <1>5, <2>2, <4>1
      <4> QED BY <1>5, <4>1, <4>2
    <3>2. j \in c.insertions \ {x} => j \in E
      <4> SUFFICES ASSUME j \in c.insertions, j # x PROVE j \in E
        OBVIOUS
      <4>1. j \in Nat /\ j < x
        BY <1>5, <2>2
      <4> QED BY <2>1, <4>1
    <3> QED BY <3>1, <3>2
  <2> HIDE DEF E
  <2>4. E = c.insertions \ {x}
    BY <2>3
  <2> QED BY <2>4 DEF E
<1>11. /\ d \in ChangeSets /\ d.deletions = D2 /\ d.insertions = c.insertions \ {x}
       /\ d.moves = <<>> /\ d.mapping = NotTo(c.mapping, x)
  BY <1>1, <1>4, <1>9, <1>10 DEF ChangeSets, Indices
<1>12. /\ Len(new2) = Len(new) - 1
       /\ \A j \in Indices(new2) : j # x => At(new2, j) = At(new, j)
  BY Overwritten
<1> HIDE DEF new2
<1>13. Indices(new2) = Indices(new) \ {x}
  BY <1>5, <1>12 DEF Indices
<1>14. Stayed(old, d.deletions, new2, d.insertions)
  <2>1. D2 \in SUBSET Nat /\ IsFiniteSet(D2)
    BY <1>4, <1>5, FS_AddElement
  <2>2. Indices(old) \ D2 = Indices(new2) \ (c.insertions \ {x})
    BY <1>4, <1>13
  <2>3. \A p \in Indices(new2) \ (c.insertions \ {x}) : At(old, p) = At(new2, p)
    BY <1>3, <1>12, <1>13
  <2>4. c.insertions \ {x} \in SUBSET Indices(new2)
    BY <1>4, <1>13
  <2> QED BY <1>11, <2>1, <2>2, <2>3, <2>4 DEF Stayed, Places
<1>15. d.mapping \in SUBSET [from : Indices(old), to : d.insertions]
  BY <1>3, <1>11 DEF NotTo
<1>16. \A i \in Indices(old), j \in d.insertions :
         Pair(i, j) \in d.mapping <=> At(old, i) = At(new2, j)
  <2> TAKE i \in Indices(old), j \in d.insertions
  <2>1. j \in c.insertions /\ j # x /\ j \in Indices(new2) /\ Pair(i, j).to = j
    BY <1>4, <1>11, <1>13, PairFields
  <2> QED BY <1>3, <1>11, <1>12, <2>1 DEF NotTo
<1>17. TableFits(d, old, new2)
  BY <1>11, <1>14, <1>15, <1>16 DEF TableFits
<1> QED BY <1>11, <1>17 DEF d, new2

\* The mapping's origin of a row that is no longer where it was.
LEMMA OriginIsMapped ==
  ASSUME NEW c, NEW A, NEW B, c.mapping \in SUBSET [from : A, to : B],
         NEW to, Mapping(c, to) # {}
  PROVE  /\ Pair(Origin(c, to), to) \in c.mapping
         /\ Origin(c, to) \in A /\ to \in B
<1> DEFINE m == CHOOSE m \in Mapping(c, to) : TRUE
<1>1. m \in Mapping(c, to) /\ Origin(c, to) = m.from
  BY DEF Origin
<1> HIDE DEF m
<1>2. m \in c.mapping /\ m.to = to
  BY <1>1 DEF Mapping
<1>3. m.from \in A /\ m.to \in B /\ m = Pair(m.from, m.to)
  BY <1>2, Pairs
<1> QED BY <1>1, <1>2, <1>3

LEMMA NotMapped ==
  ASSUME NEW c, NEW to
  PROVE  /\ Mapping(c, to) = {} => NotTo(c.mapping, to) = c.mapping
         /\ \A A, B : c.mapping \in SUBSET [from : A, to : B] /\ to \notin B
                     => Mapping(c, to) = {}
<1>1. ASSUME Mapping(c, to) = {} PROVE NotTo(c.mapping, to) = c.mapping
  BY <1>1 DEF Mapping, NotTo
<1>2. ASSUME NEW A, NEW B, c.mapping \in SUBSET [from : A, to : B], to \notin B
      PROVE  Mapping(c, to) = {}
  BY <1>2 DEF Mapping
<1> QED BY <1>1, <1>2

\* The row at position x gives way to the one at position y, which was at
\* position y of the old table or is mapped: what the mapping is to become.
GivenWay(mapping, new_, old, new, x, y) ==
  /\ \A m \in new_ : /\ m.from \in Indices(old) /\ m = Pair(m.from, m.to)
                     /\ m.to # x => m \in mapping /\ m.to # y
  /\ \A m \in mapping : m.to # x /\ m.to # y => m \in new_
  /\ \A i \in Indices(old) : Pair(i, x) \in new_ <=> At(old, i) = At(new, y)

WaysToGive(c, old, new, x, y) ==
  /\ Mapping(c, y) # {} =>
       GivenWay(c.mapping, NotTo(NotTo(c.mapping, y), x) \cup {Pair(Origin(c, y), x)},
                old, new, x, y)
  /\ y \in c.insertions /\ Mapping(c, y) = {} =>
       GivenWay(c.mapping, NotTo(c.mapping, x), old, new, x, y)
  /\ y \notin c.insertions =>
       GivenWay(c.mapping, NotTo(c.mapping, x) \cup {Pair(y, x)}, old, new, x, y)

LEMMA GivesWay ==
  ASSUME NEW S, NEW old \in Seq(S), NEW new \in Seq(S), NEW c \in ChangeSets,
         NEW x \in Indices(new), FitsBut(c, old, new, x), Distinct(old),
         NEW y \in Indices(new), x # y
  PROVE  WaysToGive(c, old, new, x, y)
<1>1. /\ Places(old, c.deletions, new, c.insertions)
      /\ \A p \in Indices(new) \ c.insertions : p # x => At(old, p) = At(new, p)
      /\ c.mapping \in SUBSET [from : Indices(old), to : c.insertions]
      /\ \A i \in Indices(old), j \in c.insertions :
           j # x => (Pair(i, j) \in c.mapping <=> At(old, i) = At(new, j))
  BY DEF FitsBut
<1>2. x \in Nat /\ y \in Nat
  BY Elements
<1>3. \A m \in c.mapping : /\ m.from \in Indices(old) /\ m.to \in c.insertions
                           /\ m = Pair(m.from, m.to)
  BY <1>1, Pairs
<1>4. ASSUME Mapping(c, y) # {}
      PROVE  GivenWay(c.mapping, NotTo(NotTo(c.mapping, y), x) \cup {Pair(Origin(c, y), x)},
                      old, new, x, y)
  <2> DEFINE o == Origin(c, y)
  <2>1. /\ o \in Indices(old) /\ y \in c.insertions /\ Pair(o, y) \in c.mapping
    BY <1>1, <1>4, OriginIsMapped
  <2> HIDE DEF o
  <2>2. At(old, o) = At(new, y)
    BY <1>1, <2>1
  <2>3. \A i \in Indices(old) : At(old, i) = At(new, y) <=> i = o
    BY <2>1, <2>2 DEF Distinct
  <2>4. GivenWay(c.mapping, NotTo(NotTo(c.mapping, y), x) \cup {Pair(o, x)}, old, new, x, y)
    BY <1>3, <2>1, <2>3, PairFields DEF GivenWay, NotTo
  <2> QED BY <2>4 DEF o
<1>5. ASSUME y \in c.insertions, Mapping(c, y) = {}
      PROVE  GivenWay(c.mapping, NotTo(c.mapping, x), old, new, x, y)
  <2>1. \A m \in c.mapping : m.to # y
    BY <1>5 DEF Mapping
  <2>2. \A i \in Indices(old) : At(old, i) # At(new, y)
    BY <1>1, <1>5, <2>1, PairFields
  <2> QED BY <1>3, <2>1, <2>2, PairFields DEF GivenWay, NotTo
<1>6. ASSUME y \notin c.insertions
      PROVE  GivenWay(c.mapping, NotTo(c.mapping, x) \cup {Pair(y, x)}, old, new, x, y)
  <2>1. y \in Indices(old) /\ At(old, y) = At(new, y)
    BY <1>1, <1>6, OriginOfPlace
  <2>2. \A i \in Indices(old) : At(old, i) = At(new, y) <=> i = y
    BY <2>1 DEF Distinct
  <2>3. \A m \in c.mapping : m.to # y
    BY <1>3, <1>6
  <2> QED BY <1>3, <2>1, <2>2, <2>3, PairFields DEF GivenWay, NotTo
<1> QED BY <1>4, <1>5, <1>6 DEF WaysToGive

LEMMA Unaffected ==
  ASSUME NEW c \in ChangeSets, NEW mods \in SUBSET Nat
  PROVE  LET b == [c EXCEPT !.modifications = mods]
         IN /\ b \in ChangeSets /\ b.deletions = c.deletions
            /\ b.insertions = c.insertions
            /\ b.moves = c.moves /\ b.mapping = c.mapping
BY DEF ChangeSets

\* When another row is the last one, which takes its place.
LEMMA LastMovedOver ==
  ASSUME NEW S, NEW old \in Seq(S), NEW new \in Seq(S), NEW c \in ChangeSets,
         NEW x \in Indices(new), FitsBut(c, old, new, x), Distinct(old),
         NEW y \in Nat, y = Len(new) - 1, x # y
  PROVE  /\ move_over(c, x, y) \in ChangeSets
         /\ TableFits(move_over(c, x, y), old, LastOver(new, x))
<1> DEFINE mods == IF y \in c.modifications /\ x # y
                   THEN (c.modifications \ {y}) \cup {x} ELSE c.modifications \ {x}
           modified == [c EXCEPT !.modifications = mods]
           moved == y \in c.insertions /\ Mapping(c, y) # {}
           mapped == IF moved THEN Mapped(Unmapped(modified, y), x, Origin(c, y))
                     ELSE IF x \in c.insertions THEN Unmapped(modified, x) ELSE modified
           from == shift(c.deletions, unshift(c.insertions, y))
           gone == IF y \in c.insertions THEN [mapped EXCEPT !.insertions = @ \ {y}]
                   ELSE [Mapped(mapped, x, from) EXCEPT !.deletions = @ \cup {from}]
           d == move_over(c, x, y)
           D2 == c.deletions \cup ({y} \ c.insertions)
           new2 == LastOver(new, x)
<1>1. d = IF x \in c.insertions THEN gone
          ELSE [Deleted(gone, x) EXCEPT !.insertions = @ \cup {x}]
  BY DEF move_over
<1>2. /\ modified \in ChangeSets /\ modified.deletions = c.deletions
      /\ modified.insertions = c.insertions
      /\ modified.moves = c.moves /\ modified.mapping = c.mapping
  <2>1. mods \in SUBSET Nat
    BY Elements DEF ChangeSets
  <2> HIDE DEF mods
  <2> QED BY <2>1, Unaffected
<1> HIDE DEF d, modified
<1>3. /\ Places(old, c.deletions, new, c.insertions)
      /\ \A p \in Indices(new) \ c.insertions : p # x => At(old, p) = At(new, p)
      /\ c.mapping \in SUBSET [from : Indices(old), to : c.insertions]
      /\ \A i \in Indices(old), j \in c.insertions :
           j # x => (Pair(i, j) \in c.mapping <=> At(old, i) = At(new, j))
      /\ c.moves = <<>>
  BY DEF FitsBut
<1>4. /\ c.insertions \in SUBSET Indices(new) /\ c.deletions \in SUBSET Nat
      /\ IsFiniteSet(c.deletions) /\ c.insertions \in SUBSET Nat
      /\ Indices(old) \ c.deletions = Indices(new) \ c.insertions
  BY <1>3, FinitePositions DEF Places
<1>5. /\ x \in Nat /\ x < y /\ y \in Indices(new) /\ Len(new) \in Nat
  BY Elements DEF Indices
<1>6. /\ y \notin c.insertions => /\ from = y /\ y \in Indices(old)
                                  /\ At(old, y) = At(new, y)
      /\ x \notin c.insertions => /\ x \in Indices(old) /\ x \notin c.deletions
                                  /\ \A q \in Nat : q < x => (q \in c.deletions <=> q \in c.insertions)
  BY <1>3, <1>5, OriginOfPlace
<1> HIDE DEF from
<1>7. moved => /\ Origin(c, y) \in Indices(old) /\ Origin(c, y) \in Nat
               /\ Pair(Origin(c, y), y) \in c.mapping
  BY <1>3, OriginIsMapped, Elements
<1>8. /\ mapped \in ChangeSets /\ mapped.deletions = c.deletions
      /\ mapped.insertions = c.insertions /\ mapped.moves = <<>>
      /\ mapped.mapping = IF moved THEN NotTo(NotTo(c.mapping, y), x) \cup {Pair(Origin(c, y), x)}
                          ELSE NotTo(c.mapping, x)
  <2>1. CASE moved
    <3> DEFINE u == Unmapped(modified, y)
               o == Origin(c, y)
    <3>1. u \in ChangeSets /\ u.deletions = c.deletions /\ u.insertions = c.insertions
          /\ u.moves = <<>> /\ u.mapping = NotTo(c.mapping, y)
      <4>1. Remapped(u, modified, NotTo(modified.mapping, y))
        BY <1>2, UnmappedFields
      <4> HIDE DEF u
      <4> QED BY <1>2, <1>3, <4>1 DEF Remapped
    <3>2. o \in Nat /\ mapped = Mapped(u, x, o)
      BY <1>7, <2>1
    <3> HIDE DEF u, o, mapped
    <3>3. mapped \in ChangeSets /\ mapped.deletions = c.deletions
          /\ mapped.insertions = c.insertions /\ mapped.moves = <<>>
          /\ mapped.mapping = NotTo(u.mapping, x) \cup {Pair(o, x)}
      <4>1. Remapped(mapped, u, NotTo(u.mapping, x) \cup {Pair(o, x)})
        BY <1>5, <3>1, <3>2, MappedFields
      <4> QED BY <3>1, <4>1 DEF Remapped
    <3> HIDE DEF moved
    <3> QED BY <2>1, <3>1, <3>3 DEF o
  <2>2. CASE ~moved /\ x \in c.insertions
    <3>1. mapped = Unmapped(modified, x)
      BY <2>2
    <3> HIDE DEF mapped
    <3>2. mapped \in ChangeSets /\ mapped.deletions = c.deletions
          /\ mapped.insertions = c.insertions /\ mapped.moves = <<>>
          /\ mapped.mapping = NotTo(c.mapping, x)
      <4>1. Remapped(mapped, modified, NotTo(modified.mapping, x))
        BY <1>2, <1>5, <3>1, UnmappedFields
      <4> QED BY <1>2, <1>3, <4>1 DEF Remapped
    <3> HIDE DEF moved
    <3> QED BY <2>2, <3>2
  <2>3. CASE ~moved /\ x \notin c.insertions
    <3>1. mapped = modified
      BY <2>3
    <3>2. NotTo(c.mapping, x) = c.mapping
      BY <1>3, <2>3, NotMapped
    <3> HIDE DEF mapped, moved
    <3> QED BY <1>2, <1>3, <2>3, <3>1, <3>2
  <2> QED BY <2>1, <2>2, <2>3
<1> HIDE DEF mapped
<1>9. /\ gone \in ChangeSets /\ gone.deletions = D2
      /\ gone.insertions = c.insertions \ {y} /\ gone.moves = <<>>
      /\ gone.mapping = IF y \in c.insertions THEN mapped.mapping
                        ELSE NotTo(mapped.mapping, x) \cup {Pair(y, x)}
  <2>1. CASE y \in c.insertions
    <3>1. gone = [mapped EXCEPT !.insertions = @ \ {y}]
      BY <2>1
    <3>2. D2 = c.deletions
      BY <2>1
    <3> HIDE DEF gone, D2
    <3> QED BY <1>8, <2>1, <3>1, <3>2 DEF ChangeSets
  <2>2. CASE y \notin c.insertions
    <3> DEFINE u == Mapped(mapped, x, from)
    <3>1. gone = [u EXCEPT !.deletions = @ \cup {from}]
      BY <2>2
    <3>2. D2 = c.deletions \cup {y} /\ c.insertions \ {y} = c.insertions
      BY <2>2
    <3>3. u \in ChangeSets /\ u.deletions = c.deletions /\ u.insertions = c.insertions
          /\ u.moves = <<>> /\ u.mapping = NotTo(mapped.mapping, x) \cup {Pair(from, x)}
      <4>1. Remapped(u, mapped, NotTo(mapped.mapping, x) \cup {Pair(from, x)})
        BY <1>5, <1>6, <1>8, <2>2, MappedFields
      <4> HIDE DEF u
      <4> QED BY <1>8, <4>1 DEF Remapped
    <3> HIDE DEF gone, D2, u
    <3> QED BY <1>5, <1>6, <2>2, <3>1, <3>2, <3>3 DEF ChangeSets
  <2> QED BY <2>1, <2>2
<1> HIDE DEF gone
<1>10. GivenWay(c.mapping, gone.mapping, old, new, x, y)
  <2>0. WaysToGive(c, old, new, x, y)
    BY <1>5, GivesWay
  <2>1. CASE moved
    <3>1. gone.mapping = NotTo(NotTo(c.mapping, y), x) \cup {Pair(Origin(c, y), x)}
      BY <1>8, <1>9, <2>1
    <3> QED BY <2>0, <2>1, <3>1 DEF WaysToGive
  <2>2. CASE ~moved /\ y \in c.insertions
    <3>1. gone.mapping = NotTo(c.mapping, x)
      BY <1>8, <1>9, <2>2
    <3> QED BY <2>0, <2>2, <3>1 DEF WaysToGive
  <2>3. CASE y \notin c.insertions
    <3>1. gone.mapping = NotTo(NotTo(c.mapping, x), x) \cup {Pair(y, x)}
      BY <1>8, <1>9, <2>3
    <3>2. NotTo(NotTo(c.mapping, x), x) = NotTo(c.mapping, x)
      BY DEF NotTo
    <3> QED BY <2>0, <2>3, <3>1, <3>2 DEF WaysToGive
  <2> QED BY <2>1, <2>2, <2>3
<1>11. /\ d \in ChangeSets
       /\ d.deletions = D2 \cup ({x} \ c.insertions)
       /\ d.insertions = (c.insertions \ {y}) \cup {x}
       /\ d.moves = <<>> /\ d.mapping = gone.mapping
  <2>1. CASE x \in c.insertions
    <3>1. d = gone
      BY <1>1, <2>1
    <3>2. D2 \cup ({x} \ c.insertions) = D2
          /\ (c.insertions \ {y}) \cup {x} = c.insertions \ {y}
      BY <2>1
    <3> HIDE DEF D2
    <3> QED BY <1>9, <3>1, <3>2
  <2>2. CASE x \notin c.insertions
    <3> DEFINE e == Deleted(gone, x)
    <3>1. d = [e EXCEPT !.insertions = @ \cup {x}]
      BY <1>1, <2>2
    <3>2. shift(gone.deletions, unshift(gone.insertions, x)) = x
      <4>1. D2 \in SUBSET Nat /\ IsFiniteSet(D2)
        <5>1. D2 = c.deletions \/ D2 = c.deletions \cup {y}
          OBVIOUS
        <5> QED BY <1>4, <5>1, FS_AddElement
      <4>2. x \notin D2
        BY <1>6, <2>2
      <4>3. \A q \in Nat : q < x => (q \in D2 <=> q \in c.insertions \ {y})
        BY <1>5, <1>6, <2>2
      <4>4. c.insertions \ {y} \in SUBSET Nat
        BY <1>4
      <4> HIDE DEF D2
      <4> QED BY <1>5, <1>9, <4>1, <4>2, <4>3, <4>4, OwnOrigin
    <3>3. x \notin gone.insertions
      BY <1>9, <2>2
    <3>4. Lost(e, gone, x)
      BY <1>5, <1>9, <3>2, <3>3, DeletedHere
    <3> HIDE DEF e, D2
    <3>5. D2 \cup ({x} \ c.insertions) = D2 \cup {x}
      BY <2>2
    <3> QED BY <1>5, <1>9, <3>1, <3>4, <3>5 DEF ChangeSets, Lost
  <2> QED BY <2>1, <2>2
<1>12. /\ Len(new2) = Len(new) - 1
       /\ \A j \in Indices(new2) : At(new2, j) = IF j = x THEN At(new, y) ELSE At(new, j)
  BY Overwritten
<1> HIDE DEF new2
<1>13. Indices(new2) = Indices(new) \ {y}
  <2>1. Len(new2) = y /\ Len(new) = y + 1
    BY <1>5, <1>12
  <2> QED BY <2>1 DEF Indices
<1>14. Stayed(old, d.deletions, new2, d.insertions)
  <2>1. d.deletions \in SUBSET Nat /\ IsFiniteSet(d.deletions)
    <3>1. IsFiniteSet(D2) /\ D2 \in SUBSET Nat
      <4>1. D2 = c.deletions \/ D2 = c.deletions \cup {y}
        OBVIOUS
      <4> QED BY <1>4, <4>1, FS_AddElement
    <3>2. d.deletions = D2 \/ d.deletions = D2 \cup {x}
      BY <1>11
    <3> HIDE DEF D2
    <3>3. IsFiniteSet(D2 \cup {x})
      BY <3>1, FS_AddElement, Zenon
    <3> QED BY <1>5, <3>1, <3>2, <3>3
  <2>2. Indices(old) \ d.deletions = Indices(new2) \ d.insertions
    BY <1>4, <1>5, <1>11, <1>13
  <2>3. \A p \in Indices(new2) \ d.insertions : At(old, p) = At(new2, p)
    BY <1>3, <1>11, <1>12, <1>13
  <2>4. d.insertions \in SUBSET Indices(new2)
    BY <1>4, <1>5, <1>11, <1>13
  <2> QED BY <2>1, <2>2, <2>3, <2>4 DEF Stayed, Places
<1>15. d.mapping \in SUBSET [from : Indices(old), to : d.insertions]
  <2> SUFFICES ASSUME NEW m \in gone.mapping
               PROVE  m \in [from : Indices(old), to : d.insertions]
    BY <1>11
  <2>1. m.from \in Indices(old) /\ m = Pair(m.from, m.to)
    BY <1>10 DEF GivenWay
  <2>2. m.to # x => m.to \in c.insertions /\ m.to # y
    BY <1>3, <1>10 DEF GivenWay
  <2>3. m.to \in d.insertions
    BY <1>11, <2>2
  <2> QED BY <2>1, <2>3, PairFields
<1>16. \A i \in Indices(old), j \in d.insertions :
         Pair(i, j) \in d.mapping <=> At(old, i) = At(new2, j)
  <2> TAKE i \in Indices(old), j \in d.insertions
  <2>1. j \in Indices(new2) /\ Pair(i, j).to = j
    BY <1>4, <1>5, <1>11, <1>13, PairFields
  <2>2. CASE j = x
    BY <1>10, <1>11, <1>12, <2>1, <2>2 DEF GivenWay
  <2>3. CASE j # x
    <3>1. j \in c.insertions /\ j # y
      BY <1>11, <2>3
    <3>2. Pair(i, j) \in gone.mapping <=> Pair(i, j) \in c.mapping
      BY <1>10, <2>1, <2>3, <3>1 DEF GivenWay
    <3> QED BY <1>3, <1>11, <1>12, <2>1, <2>3, <3>1, <3>2
  <2> QED BY <2>2, <2>3
<1>17. TableFits(d, old, new2)
  BY <1>11, <1>14, <1>15, <1>16 DEF TableFits
<1> QED BY <1>11, <1>17 DEF d, new2

LEMMA MoveOverFits ==
  ASSUME NEW S, NEW old \in Seq(S), NEW new \in Seq(S), NEW c \in ChangeSets,
         NEW x \in Indices(new), FitsBut(c, old, new, x), Distinct(old)
  PROVE  /\ move_over(c, x, Len(new) - 1) \in ChangeSets
         /\ TableFits(move_over(c, x, Len(new) - 1), old, LastOver(new, x))
<1> DEFINE y == Len(new) - 1
<1>1. y \in Nat /\ x \in Nat
  BY Elements DEF Indices
<1>2. CASE x = y
  BY <1>2, LastRowGone
<1>3. CASE x # y
  <2> HIDE DEF y
  <2>1. y = Len(new) - 1
    BY DEF y
  <2> QED BY <1>1, <1>3, <2>1, LastMovedOver
<1> QED BY <1>2, <1>3

LEMMA DistinctOverwritten ==
  ASSUME NEW S, NEW s \in Seq(S), Distinct(s), NEW i \in Indices(s)
  PROVE  Distinct(LastOver(s, i))
<1> DEFINE t == LastOver(s, i)
           y == Len(s) - 1
<1>1. /\ Len(t) = y
      /\ \A j \in Indices(t) : At(t, j) = IF j = i THEN At(s, y) ELSE At(s, j)
  BY Overwritten
<1>2. Len(s) \in Nat /\ y \in Int /\ i \in Nat /\ i <= y
  BY Elements DEF Indices
<1> HIDE DEF t
<1>3. y \in Indices(s) /\ \A j \in Indices(t) : j \in Indices(s) /\ j # y
  BY <1>1, <1>2 DEF Indices
<1> HIDE DEF y
<1>4. Distinct(t)
  BY <1>1, <1>3 DEF Distinct
<1> QED BY <1>4 DEF t

\* d is c when the row that was at position a has gone to position b.
WentTo(d, c, a, b) ==
  /\ d \in ChangeSets /\ d.moves = c.moves
  /\ d.deletions = c.deletions \cup ({a} \ c.insertions)
  /\ d.insertions = c.insertions \cup {a}
  /\ \A m : m \in d.mapping <=>
       \/ m \in c.mapping /\ (a \in c.insertions \/ m.to # b)
       \/ a \notin c.insertions /\ m = Pair(a, b)

LEMMA MovedAwayFields ==
  ASSUME NEW c \in ChangeSets, NEW a \in Nat, NEW b \in Nat,
         a \notin c.insertions => shift(c.deletions, unshift(c.insertions, a)) = a
  PROVE  WentTo(MovedAway(c, a, b), c, a, b)
<1> DEFINE d == MovedAway(c, a, b)
<1>1. CASE a \in c.insertions
  <2>1. d = c
    BY <1>1 DEF MovedAway
  <2> HIDE DEF d
  <2>2. WentTo(d, c, a, b)
    BY <1>1, <2>1 DEF WentTo
  <2> QED BY <2>2 DEF d
<1>2. CASE a \notin c.insertions
  <2> DEFINE e == Mapped(c, b, a)
  <2>1. d = [e EXCEPT !.deletions = @ \cup {a}, !.insertions = @ \cup {a}]
    BY <1>2 DEF MovedAway
  <2>2. Remapped(e, c, NotTo(c.mapping, b) \cup {Pair(a, b)})
    BY MappedFields
  <2> HIDE DEF e, d
  <2>3. /\ d \in ChangeSets /\ d.moves = c.moves
        /\ d.deletions = c.deletions \cup {a} /\ d.insertions = c.insertions \cup {a}
        /\ d.mapping = NotTo(c.mapping, b) \cup {Pair(a, b)}
    BY <2>1, <2>2 DEF Remapped, ChangeSets
  <2>4. c.deletions \cup {a} = c.deletions \cup ({a} \ c.insertions)
    BY <1>2
  <2>5. WentTo(d, c, a, b)
    BY <1>2, <2>3, <2>4 DEF WentTo, NotTo
  <2> QED BY <2>5 DEF d
<1> QED BY <1>1, <1>2

\* Two positions that change places.
Exchange(i, j) == [k \in Nat |-> IF k = i THEN j ELSE IF k = j THEN i ELSE k]

\* d is c when the rows at positions i and j have changed places, of which the
\* mapping says what it already knew.
Exchanged(d, c, i, j) ==
  /\ d \in ChangeSets /\ d.deletions = c.deletions
  /\ d.insertions = c.insertions /\ d.moves = c.moves
  /\ d.mapping = {Pair(m.from, Exchange(i, j)[m.to]) : m \in c.mapping}

LEMMA SwapIsExchange ==
  ASSUME NEW c \in ChangeSets, NEW i \in Nat, NEW j \in Nat, i < j
  PROVE  \E s : /\ Exchanged(s, c, i, j)
                /\ swap(c, i, j) =
                     CASE Mapping(c, i) # {} /\ Mapping(c, j) # {} -> s
                       [] Mapping(c, i) # {} /\ Mapping(c, j) = {} -> MovedAway(s, j, i)
                       [] Mapping(c, i) = {} /\ Mapping(c, j) # {} -> MovedAway(s, i, j)
                       [] Mapping(c, i) = {} /\ Mapping(c, j) = {} ->
                            MovedAway(MovedAway(s, j, i), i, j)
<1> DEFINE exchange(k) == IF k = i THEN j ELSE IF k = j THEN i ELSE k
           mods == {exchange(k) : k \in c.modifications}
           mapping == {Pair(m.from, exchange(m.to)) : m \in c.mapping}
           s == [c EXCEPT !.modifications = mods, !.mapping = mapping]
<1>1. swap(c, i, j) =
        CASE Mapping(c, i) # {} /\ Mapping(c, j) # {} -> s
          [] Mapping(c, i) # {} /\ Mapping(c, j) = {} -> MovedAway(s, j, i)
          [] Mapping(c, i) = {} /\ Mapping(c, j) # {} -> MovedAway(s, i, j)
          [] Mapping(c, i) = {} /\ Mapping(c, j) = {} ->
               MovedAway(MovedAway(s, j, i), i, j)
  BY DEF swap
<1>2. mods \in SUBSET Nat
  BY DEF ChangeSets
<1>3. \A m \in c.mapping : m.from \in Nat /\ m.to \in Nat
  BY DEF ChangeSets, Moves
<1>4. mapping = {Pair(m.from, Exchange(i, j)[m.to]) : m \in c.mapping}
  <2>1. \A m \in c.mapping : exchange(m.to) = Exchange(i, j)[m.to]
    BY <1>3 DEF Exchange
  <2> QED BY <2>1
<1>5. mapping \in SUBSET Moves
  <2> SUFFICES ASSUME NEW m \in c.mapping
               PROVE  Pair(m.from, exchange(m.to)) \in Moves
    OBVIOUS
  <2> QED BY <1>3 DEF Pair, Moves
<1> HIDE DEF mods, mapping
<1>6. Exchanged(s, c, i, j)
  BY <1>2, <1>4, <1>5 DEF Exchanged, ChangeSets
<1> HIDE DEF s
<1> QED BY <1>1, <1>6

\* d is c when the rows at positions i and j have changed places: those of the
\* two that were in the table are mapped.
ChangedPlaces(d, c, i, j) ==
  /\ d \in ChangeSets /\ d.moves = <<>>
  /\ d.deletions = c.deletions \cup ({i, j} \ c.insertions)
  /\ d.insertions = c.insertions \cup {i, j}
  /\ \A m : m \in d.mapping <=>
       \/ m \in {Pair(n.from, Exchange(i, j)[n.to]) : n \in c.mapping}
       \/ i \notin c.insertions /\ m = Pair(i, j)
       \/ j \notin c.insertions /\ m = Pair(j, i)

LEMMA SwapFields ==
  ASSUME NEW S, NEW old \in Seq(S), NEW new \in Seq(S), NEW c \in ChangeSets,
         TableFits(c, old, new),
         NEW i \in Indices(new), NEW j \in Indices(new), i < j
  PROVE  ChangedPlaces(swap(c, i, j), c, i, j)
<1> DEFINE d == swap(c, i, j)
           I == c.insertions
           D == c.deletions
           M == {Pair(m.from, Exchange(i, j)[m.to]) : m \in c.mapping}
           mappedI == Mapping(c, i) # {}
           mappedJ == Mapping(c, j) # {}
<1>1. /\ Places(old, D, new, I) /\ c.moves = <<>>
      /\ c.mapping \in SUBSET [from : Indices(old), to : I]
  BY DEF TableFits, Stayed
<1>2. /\ i \in Nat /\ j \in Nat
      /\ I \in SUBSET Nat /\ D \in SUBSET Nat /\ IsFiniteSet(D)
  BY <1>1, Elements DEF ChangeSets, Places
<1>3. /\ i \notin I => /\ shift(D, unshift(I, i)) = i
      /\ j \notin I => /\ shift(D, unshift(I, j)) = j
  BY <1>1, OriginOfPlace
<1>4. i \notin I /\ j \notin I =>
        shift(D \cup {j}, unshift(I \cup {j}, i)) = i
  <2> SUFFICES ASSUME i \notin I, j \notin I
               PROVE  shift(D \cup {j}, unshift(I \cup {j}, i)) = i
    OBVIOUS
  <2>1. /\ i \notin D
        /\ \A q \in Nat : q < i => (q \in D <=> q \in I)
    BY <1>1, OriginOfPlace
  <2>2. IsFiniteSet(D \cup {j})
    BY <1>2, FS_AddElement, Zenon
  <2>3. D \cup {j} \in SUBSET Nat /\ I \cup {j} \in SUBSET Nat /\ i \notin D \cup {j}
    BY <1>2, <2>1
  <2>4. \A q \in Nat : q < i => (q \in D \cup {j} <=> q \in I \cup {j})
    BY <1>2, <2>1
  <2> QED BY <1>2, <2>2, <2>3, <2>4, OwnOrigin
<1>5. /\ mappedI => i \in I
      /\ mappedJ => j \in I
  BY <1>1, NotMapped
<1>6. PICK s : /\ Exchanged(s, c, i, j)
               /\ d = CASE mappedI /\ mappedJ -> s
                        [] mappedI /\ ~mappedJ -> MovedAway(s, j, i)
                        [] ~mappedI /\ mappedJ -> MovedAway(s, i, j)
                        [] ~mappedI /\ ~mappedJ -> MovedAway(MovedAway(s, j, i), i, j)
  BY <1>2, SwapIsExchange
<1>7. /\ s \in ChangeSets /\ s.deletions = D /\ s.insertions = I
      /\ s.moves = <<>> /\ s.mapping = M
  BY <1>1, <1>6 DEF Exchanged
<1>8. /\ j \notin I => \A m \in M : m.to # i
      /\ i \notin I => \A m \in M : m.to # j
  <2> SUFFICES ASSUME NEW m \in c.mapping
               PROVE  LET p == Pair(m.from, Exchange(i, j)[m.to])
                      IN /\ j \notin I => p.to # i
                         /\ i \notin I => p.to # j
    OBVIOUS
  <2>1. m.to \in I /\ m.to \in Nat
    BY <1>1, <1>2, Pairs
  <2>2. Pair(m.from, Exchange(i, j)[m.to]).to = Exchange(i, j)[m.to]
    BY PairFields
  <2> QED BY <1>2, <2>1, <2>2 DEF Exchange
<1> HIDE DEF d, M, mappedI, mappedJ, I, D
<1>9. /\ d \in ChangeSets /\ d.moves = <<>>
      /\ d.deletions = D \cup ({i, j} \ I)
      /\ d.insertions = I \cup {i, j}
      /\ \A m : m \in d.mapping <=>
           \/ m \in M
           \/ i \notin I /\ m = Pair(i, j)
           \/ j \notin I /\ m = Pair(j, i)
  <2>1. CASE mappedI /\ mappedJ
    <3>1. d = s /\ i \in I /\ j \in I
      BY <1>5, <1>6, <2>1
    <3> QED BY <1>7, <3>1
  <2>2. CASE mappedI /\ ~mappedJ
    <3>1. d = MovedAway(s, j, i) /\ i \in I
      BY <1>5, <1>6, <2>2
    <3>2. WentTo(d, s, j, i)
      BY <1>2, <1>3, <1>7, <3>1, MovedAwayFields DEF I, D
    <3> QED BY <1>7, <1>8, <3>1, <3>2 DEF WentTo
  <2>3. CASE ~mappedI /\ mappedJ
    <3>1. d = MovedAway(s, i, j) /\ j \in I
      BY <1>5, <1>6, <2>3
    <3>2. WentTo(d, s, i, j)
      BY <1>2, <1>3, <1>7, <3>1, MovedAwayFields
    <3> QED BY <1>7, <1>8, <3>1, <3>2 DEF WentTo
  <2>4. CASE ~mappedI /\ ~mappedJ
    <3> DEFINE e == MovedAway(s, j, i)
    <3>1. d = MovedAway(e, i, j)
      BY <1>6, <2>4
    <3>2. WentTo(e, s, j, i)
      BY <1>2, <1>3, <1>7, MovedAwayFields
    <3> HIDE DEF e
    <3>3. /\ e \in ChangeSets /\ e.deletions = D \cup ({j} \ I)
          /\ e.insertions = I \cup {j} /\ e.moves = <<>>
          /\ \A m : m \in e.mapping <=> m \in M \/ (j \notin I /\ m = Pair(j, i))
      BY <1>7, <1>8, <3>2 DEF WentTo
    <3>4. i \notin e.insertions => shift(e.deletions, unshift(e.insertions, i)) = i
      <4> SUFFICES ASSUME i \notin e.insertions
                   PROVE  shift(e.deletions, unshift(e.insertions, i)) = i
        OBVIOUS
      <4>1. i \notin I
        BY <3>3
      <4>2. CASE j \in I
        <5>1. e.deletions = D /\ e.insertions = I
          BY <3>3, <4>2
        <5> QED BY <1>3, <4>1, <5>1
      <4>3. CASE j \notin I
        <5>1. e.deletions = D \cup {j}
          BY <3>3, <4>3
        <5> QED BY <1>4, <3>3, <4>1, <4>3, <5>1
      <4> QED BY <4>2, <4>3
    <3>5. WentTo(d, e, i, j)
      BY <1>2, <3>1, <3>3, <3>4, MovedAwayFields
    <3>6. i \in I \cup {j} <=> i \in I
      BY <1>2
    <3>7. Pair(j, i).to = i /\ i # j
      BY <1>2, PairFields
    <3>8. \A m : m \in d.mapping <=>
            \/ m \in M
            \/ i \notin I /\ m = Pair(i, j)
            \/ j \notin I /\ m = Pair(j, i)
      BY <1>8, <3>3, <3>5, <3>6, <3>7 DEF WentTo
    <3>9. /\ d \in ChangeSets /\ d.moves = <<>>
          /\ d.deletions = (D \cup ({j} \ I)) \cup ({i} \ (I \cup {j}))
          /\ d.insertions = (I \cup {j}) \cup {i}
      BY <3>3, <3>5 DEF WentTo
    <3>10. /\ (D \cup ({j} \ I)) \cup ({i} \ (I \cup {j})) = D \cup ({i, j} \ I)
           /\ (I \cup {j}) \cup {i} = I \cup {i, j}
      BY <3>7
    <3> QED BY <3>8, <3>9, <3>10
  <2> QED BY <2>1, <2>2, <2>3, <2>4
<1> QED BY <1>9 DEF d, M, I, D, ChangedPlaces

LEMMA ExchangedElements ==
  ASSUME NEW S, NEW s \in Seq(S), NEW i \in Indices(s), NEW j \in Indices(s)
  PROVE  LET t == [s EXCEPT ![i + 1] = At(s, j), ![j + 1] = At(s, i)]
         IN /\ t \in Seq(S) /\ Len(t) = Len(s)
            /\ \A k \in Indices(s) : /\ Exchange(i, j)[k] \in Indices(s)
                                     /\ At(t, k) = At(s, Exchange(i, j)[k])
<1> DEFINE t == [s EXCEPT ![i + 1] = At(s, j), ![j + 1] = At(s, i)]
<1>1. /\ i \in Nat /\ j \in Nat /\ Len(s) \in Nat
      /\ i + 1 \in DOMAIN s /\ j + 1 \in DOMAIN s
      /\ At(s, i) \in S /\ At(s, j) \in S
      /\ i <= Len(s) - 1 /\ j <= Len(s) - 1
  BY Terms DEF Indices, At
<1>2. t \in Seq(S) /\ Len(t) = Len(s)
  BY <1>1
<1>3. ASSUME NEW k \in Indices(s)
      PROVE  /\ Exchange(i, j)[k] \in Indices(s)
             /\ At(t, k) = At(s, Exchange(i, j)[k])
  <2>1. k \in Nat /\ k + 1 \in DOMAIN s
    BY <1>1 DEF Indices
  <2>2. Exchange(i, j)[k] = IF k = i THEN j ELSE IF k = j THEN i ELSE k
    BY <2>1 DEF Exchange
  <2>3. t[k + 1] = IF k + 1 = j + 1 THEN At(s, i)
                   ELSE IF k + 1 = i + 1 THEN At(s, j) ELSE s[k + 1]
    BY <1>1, <2>1
  <2>4. At(t, k) = t[k + 1] /\ At(s, k) = s[k + 1]
    BY DEF At
  <2> HIDE DEF t
  <2> QED BY <1>1, <2>1, <2>2, <2>3, <2>4
<1> QED BY <1>2, <1>3 DEF t

LEMMA DistinctExchanged ==
  ASSUME NEW S, NEW s \in Seq(S), Distinct(s),
         NEW i \in Indices(s), NEW j \in Indices(s)
  PROVE  Distinct([s EXCEPT ![i + 1] = At(s, j), ![j + 1] = At(s, i)])
<1> DEFINE t == [s EXCEPT ![i + 1] = At(s, j), ![j + 1] = At(s, i)]
<1>1. /\ Len(t) = Len(s)
      /\ \A k \in Indices(s) : /\ Exchange(i, j)[k] \in Indices(s)
                               /\ At(t, k) = At(s, Exchange(i, j)[k])
  BY ExchangedElements
<1> HIDE DEF t
<1>2. Indices(t) = Indices(s)
  BY <1>1 DEF Indices
<1>3. ASSUME NEW k \in Indices(t), NEW l \in Indices(t), At(t, k) = At(t, l)
      PROVE  k = l
  <2>1. Exchange(i, j)[k] = Exchange(i, j)[l]
    BY <1>1, <1>2, <1>3 DEF Distinct
  <2>2. k \in Nat /\ l \in Nat /\ i \in Nat /\ j \in Nat
    BY <1>2, Elements
  <2> QED BY <2>1, <2>2 DEF Exchange
<1>4. Distinct(t)
  BY <1>3 DEF Distinct
<1> QED BY <1>4 DEF t

LEMMA SwapFits ==
  ASSUME NEW S, NEW old \in Seq(S), NEW new \in Seq(S), NEW c \in ChangeSets,
         TableFits(c, old, new), Distinct(old),
         NEW i \in Indices(new), NEW j \in Indices(new), i < j
  PROVE  /\ swap(c, i, j) \in ChangeSets
         /\ TableFits(swap(c, i, j), old,
                      [new EXCEPT ![i + 1] = At(new, j), ![j + 1] = At(new, i)])
<1> DEFINE d == swap(c, i, j)
           I == c.insertions
           D == c.deletions
           ex == Exchange(i, j)
           M == {Pair(n.from, ex[n.to]) : n \in c.mapping}
           new2 == [new EXCEPT ![i + 1] = At(new, j), ![j + 1] = At(new, i)]
<1>1. /\ Places(old, D, new, I)
      /\ \A p \in Indices(new) \ I : At(old, p) = At(new, p)
      /\ c.mapping \in SUBSET [from : Indices(old), to : I]
      /\ \A f \in Indices(old), t \in I :
           Pair(f, t) \in c.mapping <=> At(old, f) = At(new, t)
  BY DEF TableFits, Stayed
<1>2. /\ I \in SUBSET Indices(new) /\ D \in SUBSET Nat /\ IsFiniteSet(D)
      /\ Indices(old) \ D = Indices(new) \ I
  BY <1>1 DEF Places
<1>3. ChangedPlaces(d, c, i, j)
  BY Elements, SwapFields
<1>4. /\ d \in ChangeSets /\ d.moves = <<>>
      /\ d.deletions = D \cup ({i, j} \ I)
      /\ d.insertions = I \cup {i, j}
      /\ \A m : m \in d.mapping <=>
           \/ m \in M
           \/ i \notin I /\ m = Pair(i, j)
           \/ j \notin I /\ m = Pair(j, i)
  BY <1>3 DEF ChangedPlaces
<1>5. /\ Len(new2) = Len(new)
      /\ \A k \in Indices(new) : ex[k] \in Indices(new) /\ At(new2, k) = At(new, ex[k])
  BY ExchangedElements
<1>6. i \in Nat /\ j \in Nat /\ \A k \in Indices(new) \cup Indices(old) : k \in Nat
  BY Elements
<1>7. \A k \in Nat : ex[k] = IF k = i THEN j ELSE IF k = j THEN i ELSE k
  BY DEF Exchange
<1> HIDE DEF d, ex, new2
<1>8. Indices(new2) = Indices(new)
  BY <1>5 DEF Indices
<1>9. Stayed(old, d.deletions, new2, d.insertions)
  <2>1. IsFiniteSet(d.deletions) /\ d.deletions \in SUBSET Nat
    <3>1. IsFiniteSet(D \cup {i})
      BY <1>2, FS_AddElement, Zenon
    <3>2. IsFiniteSet((D \cup {i}) \cup {j})
      BY <3>1, FS_AddElement, Zenon
    <3>3. d.deletions \subseteq (D \cup {i}) \cup {j}
      BY <1>4
    <3>4. IsFiniteSet(d.deletions)
      BY <3>2, <3>3, FS_Subset, Zenon
    <3> QED BY <1>2, <1>4, <1>6, <3>4
  <2>2. d.insertions \in SUBSET Indices(new2)
    BY <1>2, <1>4, <1>8
  <2>3. Indices(old) \ d.deletions = Indices(new2) \ d.insertions
    BY <1>2, <1>4, <1>8
  <2>4. ASSUME NEW p \in Indices(new2) \ d.insertions
        PROVE  At(old, p) = At(new2, p)
    <3>1. p \in Indices(new) \ I /\ p \in Nat /\ p # i /\ p # j
      BY <1>4, <1>6, <1>8
    <3>2. ex[p] = p
      BY <1>7, <3>1
    <3> QED BY <1>1, <1>5, <3>1, <3>2
  <2> QED BY <2>1, <2>2, <2>3, <2>4 DEF Stayed, Places
<1>10. ASSUME NEW f \in Indices(old), NEW t \in Indices(new)
       PROVE  Pair(f, t) \in M <=> Pair(f, ex[t]) \in c.mapping
  <2>1. t \in Nat /\ ex[ex[t]] = t
    BY <1>6, <1>7
  <2>2. Pair(f, ex[t]) \in c.mapping => Pair(f, t) \in M
    <3> SUFFICES ASSUME Pair(f, ex[t]) \in c.mapping PROVE Pair(f, t) \in M
      OBVIOUS
    <3> DEFINE n == Pair(f, ex[t])
    <3>1. n.from = f /\ n.to = ex[t]
      BY PairFields
    <3>2. Pair(n.from, ex[n.to]) \in M
      OBVIOUS
    <3> QED BY <2>1, <3>1, <3>2
  <2>3. Pair(f, t) \in M => Pair(f, ex[t]) \in c.mapping
    <3> SUFFICES ASSUME NEW n \in c.mapping, Pair(f, t) = Pair(n.from, ex[n.to])
                 PROVE  Pair(f, ex[t]) \in c.mapping
      OBVIOUS
    <3>1. f = n.from /\ t = ex[n.to]
      BY PairFields
    <3>2. n.to \in Nat /\ n = Pair(n.from, n.to)
      BY <1>1, <1>2, <1>6, Pairs
    <3>3. ex[t] = n.to
      BY <1>6, <1>7, <3>1, <3>2
    <3> QED BY <3>1, <3>2, <3>3
  <2> QED BY <2>2, <2>3
<1>11. d.mapping \in SUBSET [from : Indices(old), to : d.insertions]
  <2> SUFFICES ASSUME NEW m \in d.mapping
               PROVE  m \in [from : Indices(old), to : d.insertions]
    OBVIOUS
  <2>1. CASE m \in M
    <3>1. PICK n \in c.mapping : m = Pair(n.from, ex[n.to])
      BY <2>1
    <3>2. n.from \in Indices(old) /\ n.to \in I /\ n.to \in Nat
      BY <1>1, <1>2, <1>6, Pairs
    <3>3. ex[n.to] \in d.insertions
      BY <1>4, <1>7, <3>2
    <3> QED BY <3>1, <3>2, <3>3, PairFields
  <2>2. CASE i \notin I /\ m = Pair(i, j)
    BY <1>2, <1>4, <2>2, PairFields
  <2>3. CASE j \notin I /\ m = Pair(j, i)
    BY <1>2, <1>4, <2>3, PairFields
  <2> HIDE DEF M
  <2> QED BY <1>4, <2>1, <2>2, <2>3
<1>12. ASSUME NEW f \in Indices(old), NEW t \in d.insertions
       PROVE  Pair(f, t) \in d.mapping <=> At(old, f) = At(new2, t)
  <2>1. t \in Indices(new) /\ t \in Nat /\ ex[t] \in Indices(new)
    BY <1>2, <1>4, <1>5, <1>6
  <2>2. At(new2, t) = At(new, ex[t])
    BY <1>5, <2>1
  <2>3. Pair(f, t) \in M <=> Pair(f, ex[t]) \in c.mapping
    BY <1>10, <2>1
  <2> HIDE DEF M
  <2>4. Pair(f, t) \in d.mapping <=>
          \/ Pair(f, ex[t]) \in c.mapping
          \/ i \notin I /\ f = i /\ t = j
          \/ j \notin I /\ f = j /\ t = i
    BY <1>4, <2>3, PairFields
  <2>5. CASE ex[t] \in I
    <3>1. Pair(f, ex[t]) \in c.mapping <=> At(old, f) = At(new, ex[t])
      BY <1>1, <2>5
    <3>2. (t = j => ex[t] = i) /\ (t = i => ex[t] = j)
      BY <1>6, <1>7
    <3> QED BY <2>2, <2>4, <2>5, <3>1, <3>2
  <2>6. CASE ex[t] \notin I
    <3>1. Pair(f, ex[t]) \notin c.mapping
      BY <1>1, <2>6, Pairs, PairFields
    <3>2. (t = j /\ ex[t] = i) \/ (t = i /\ ex[t] = j)
      BY <1>4, <1>6, <1>7, <2>1, <2>6
    <3>3. ex[t] \in Indices(old) /\ At(old, ex[t]) = At(new, ex[t])
      BY <1>1, <1>2, <2>1, <2>6
    <3>4. At(old, f) = At(new, ex[t]) <=> f = ex[t]
      BY <3>3 DEF Distinct
    <3>5. t = j /\ ex[t] = i => (Pair(f, t) \in d.mapping <=> f = i)
      BY <2>4, <2>6, <3>1
    <3>6. t = i /\ ex[t] = j => (Pair(f, t) \in d.mapping <=> f = j)
      BY <2>4, <2>6, <3>1
    <3> QED BY <2>2, <3>2, <3>4, <3>5, <3>6
  <2> QED BY <2>5, <2>6
<1>13. TableFits(d, old, new2)
  BY <1>4, <1>9, <1>11, <1>12 DEF TableFits
<1> QED BY <1>4, <1>13 DEF d, new2

LEMMA Replaced ==
  ASSUME NEW S, NEW s \in Seq(S), NEW i \in Indices(s), NEW e \in S
  PROVE  LET t == [s EXCEPT ![i + 1] = e]
         IN /\ t \in Seq(S) /\ Len(t) = Len(s)
            /\ \A k \in Indices(s) : At(t, k) = IF k = i THEN e ELSE At(s, k)
<1> DEFINE t == [s EXCEPT ![i + 1] = e]
<1>1. i \in Nat /\ i + 1 \in DOMAIN s /\ Len(s) \in Nat
  BY Terms DEF Indices
<1>2. t \in Seq(S) /\ Len(t) = Len(s)
  BY <1>1
<1>3. \A k \in Indices(s) : k + 1 \in DOMAIN s /\ (k + 1 = i + 1 <=> k = i)
  BY <1>1, Terms DEF Indices
<1> QED BY <1>1, <1>2, <1>3 DEF At

LEMMA SubsumeFields ==
  ASSUME NEW c \in ChangeSets, NEW i \in Nat, NEW j \in Nat,
         Mapping(c, i) # {} => Origin(c, i) \in Nat,
         i \notin c.insertions => shift(c.deletions, unshift(c.insertions, i)) = i
  PROVE  Remapped(subsume(c, i, j), c,
           IF Mapping(c, i) # {}
           THEN NotTo(NotTo(c.mapping, i), j) \cup {Pair(Origin(c, i), j)}
           ELSE IF i \in c.insertions THEN c.mapping
           ELSE NotTo(c.mapping, j) \cup {Pair(i, j)})
<1> DEFINE d == subsume(c, i, j)
           modified == IF i \in c.modifications THEN modify(c, j) ELSE c
           o == Origin(c, i)
<1>1. Remapped(modified, c, c.mapping)
  BY DEF Remapped, modify, ChangeSets
<1>2. d = IF Mapping(c, i) # {} THEN Mapped(Unmapped(modified, i), j, o)
          ELSE IF i \in c.insertions THEN modified
          ELSE Mapped(modified, j, shift(c.deletions, unshift(c.insertions, i)))
  BY DEF subsume
<1> HIDE DEF d, modified
<1>3. modified \in ChangeSets
  BY <1>1 DEF Remapped
<1>4. ASSUME Mapping(c, i) # {}
      PROVE  Remapped(d, c, NotTo(NotTo(c.mapping, i), j) \cup {Pair(o, j)})
  <2> DEFINE u == Unmapped(modified, i)
  <2>1. Remapped(u, modified, NotTo(modified.mapping, i))
    BY <1>3, UnmappedFields
  <2>2. d = Mapped(u, j, o) /\ o \in Nat
    BY <1>2, <1>4
  <2> HIDE DEF u, o
  <2>3. u \in ChangeSets
    BY <2>1 DEF Remapped
  <2>4. Remapped(d, u, NotTo(u.mapping, j) \cup {Pair(o, j)})
    BY <2>2, <2>3, MappedFields
  <2> QED BY <1>1, <2>1, <2>4 DEF Remapped
<1>5. ASSUME Mapping(c, i) = {}, i \in c.insertions
      PROVE  Remapped(d, c, c.mapping)
  BY <1>1, <1>2, <1>5
<1>6. ASSUME Mapping(c, i) = {}, i \notin c.insertions
      PROVE  Remapped(d, c, NotTo(c.mapping, j) \cup {Pair(i, j)})
  <2>1. d = Mapped(modified, j, i)
    BY <1>2, <1>6
  <2>2. Remapped(d, modified, NotTo(modified.mapping, j) \cup {Pair(i, j)})
    BY <1>3, <2>1, MappedFields
  <2> QED BY <1>1, <2>2 DEF Remapped
<1> HIDE DEF o
<1> QED BY <1>4, <1>5, <1>6 DEF d, o

LEMMA SubsumeFits ==
  ASSUME NEW S, NEW old \in Seq(S), NEW new \in Seq(S), NEW c \in ChangeSets,
         TableFits(c, old, new), Distinct(old),
         NEW i \in Indices(new), NEW j \in Indices(new), i # j,
         At(new, j) \notin ToSet(old)
  PROVE  /\ subsume(c, i, j) \in ChangeSets
         /\ FitsBut(subsume(c, i, j), old, [new EXCEPT ![j + 1] = At(new, i)], i)
<1> DEFINE d == subsume(c, i, j)
           I == c.insertions
           new1 == [new EXCEPT ![j + 1] = At(new, i)]
<1>1. /\ Places(old, c.deletions, new, I)
      /\ \A p \in Indices(new) \ I : At(old, p) = At(new, p)
      /\ c.mapping \in SUBSET [from : Indices(old), to : I]
      /\ \A f \in Indices(old), t \in I :
           Pair(f, t) \in c.mapping <=> At(old, f) = At(new, t)
      /\ c.moves = <<>>
  BY DEF TableFits, Stayed
<1>2. /\ I \in SUBSET Indices(new)
      /\ Indices(old) \ c.deletions = Indices(new) \ I
  BY <1>1 DEF Places
<1>3. i \in Nat /\ j \in Nat /\ \A f \in Indices(old) : f \in Nat /\ At(old, f) # At(new, j)
  BY Elements
<1>4. j \in I
  BY <1>1, <1>2, <1>3
<1>5. \A f \in Indices(old) : Pair(f, j) \notin c.mapping
  BY <1>1, <1>3, <1>4
<1>6. NotTo(c.mapping, j) = c.mapping
  <2>1. \A m \in c.mapping : m.to # j
    BY <1>1, <1>5, Pairs
  <2> QED BY <2>1 DEF NotTo
<1>7. WaysToGive(c, old, new, j, i)
  BY GivesWay, FittingFitsBut
<1>8. Remapped(d, c,
        IF Mapping(c, i) # {}
        THEN NotTo(NotTo(c.mapping, i), j) \cup {Pair(Origin(c, i), j)}
        ELSE IF i \in I THEN c.mapping
        ELSE NotTo(c.mapping, j) \cup {Pair(i, j)})
  <2>1. Mapping(c, i) # {} => Origin(c, i) \in Nat
    BY <1>1, <1>3, OriginIsMapped
  <2>2. i \notin I => shift(c.deletions, unshift(I, i)) = i
    BY <1>1, OriginOfPlace
  <2> QED BY <1>3, <2>1, <2>2, SubsumeFields
<1> HIDE DEF d
<1>9. GivenWay(c.mapping, d.mapping, old, new, j, i)
  <2>1. CASE Mapping(c, i) # {}
    <3>1. d.mapping = NotTo(NotTo(c.mapping, i), j) \cup {Pair(Origin(c, i), j)}
      BY <1>8, <2>1 DEF Remapped
    <3> QED BY <1>7, <2>1, <3>1 DEF WaysToGive
  <2>2. CASE Mapping(c, i) = {} /\ i \in I
    <3>1. d.mapping = NotTo(c.mapping, j)
      BY <1>6, <1>8, <2>2 DEF Remapped
    <3> QED BY <1>7, <2>2, <3>1 DEF WaysToGive
  <2>3. CASE Mapping(c, i) = {} /\ i \notin I
    <3>1. d.mapping = NotTo(c.mapping, j) \cup {Pair(i, j)}
      BY <1>8, <2>3 DEF Remapped
    <3> QED BY <1>7, <2>3, <3>1 DEF WaysToGive
  <2> QED BY <2>1, <2>2, <2>3
<1>10. /\ d \in ChangeSets /\ d.deletions = c.deletions /\ d.insertions = I
       /\ d.moves = <<>>
  BY <1>1, <1>8 DEF Remapped
<1>11. /\ Len(new1) = Len(new)
       /\ \A k \in Indices(new) : At(new1, k) = IF k = j THEN At(new, i) ELSE At(new, k)
  BY Elements, Replaced
<1> HIDE DEF new1
<1>12. Indices(new1) = Indices(new)
  BY <1>11 DEF Indices
<1>13. d.mapping \in SUBSET [from : Indices(old), to : I]
  <2> SUFFICES ASSUME NEW m \in d.mapping PROVE m \in [from : Indices(old), to : I]
    OBVIOUS
  <2>1. m.from \in Indices(old) /\ m = Pair(m.from, m.to)
    BY <1>9 DEF GivenWay
  <2>2. m.to # j => m.to \in I
    BY <1>1, <1>9 DEF GivenWay
  <2> QED BY <1>4, <2>1, <2>2, PairFields
<1>14. ASSUME NEW f \in Indices(old), NEW t \in I, t # i
       PROVE  Pair(f, t) \in d.mapping <=> At(old, f) = At(new1, t)
  <2>1. CASE t = j
    BY <1>2, <1>9, <1>11, <1>14, <2>1 DEF GivenWay
  <2>2. CASE t # j
    <3>1. Pair(f, t).to = t
      BY PairFields
    <3>2. Pair(f, t) \in d.mapping <=> Pair(f, t) \in c.mapping
      BY <1>9, <1>14, <2>2, <3>1 DEF GivenWay
    <3> QED BY <1>1, <1>2, <1>11, <2>2, <3>2
  <2> QED BY <2>1, <2>2
<1>15. Places(old, d.deletions, new1, d.insertions)
  BY <1>1, <1>10, <1>12 DEF Places
<1>16. FitsBut(d, old, new1, i)
  BY <1>1, <1>4, <1>10, <1>11, <1>12, <1>13, <1>14, <1>15 DEF FitsBut
<1> QED BY <1>10, <1>16 DEF d, new1

LEMMA MergeFits ==
  ASSUME NEW S, NEW old \in Seq(S), NEW new \in Seq(S), NEW c \in ChangeSets,
         TableFits(c, old, new), Distinct(old),
         NEW i \in Indices(new), NEW j \in Indices(new), i # j,
         At(new, j) \notin ToSet(old)
  PROVE  LET d == move_over(subsume(c, i, j), i, Len(new) - 1)
         IN /\ d \in ChangeSets
            /\ TableFits(d, old, LastOver([new EXCEPT ![j + 1] = At(new, i)], i))
<1> DEFINE s == subsume(c, i, j)
           new1 == [new EXCEPT ![j + 1] = At(new, i)]
<1>1. s \in ChangeSets /\ FitsBut(s, old, new1, i)
  BY SubsumeFits
<1>2. new1 \in Seq(S) /\ Len(new1) = Len(new)
  BY Elements, Replaced
<1> HIDE DEF s, new1
<1>3. i \in Indices(new1)
  BY <1>2 DEF Indices
<1>4. /\ move_over(s, i, Len(new1) - 1) \in ChangeSets
      /\ TableFits(move_over(s, i, Len(new1) - 1), old, LastOver(new1, i))
  BY <1>1, <1>2, <1>3, MoveOverFits
<1> QED BY <1>2, <1>4 DEF s, new1

LEMMA DistinctMerged ==
  ASSUME NEW S, NEW s \in Seq(S), Distinct(s),
         NEW i \in Indices(s), NEW j \in Indices(s), i # j
  PROVE  Distinct(LastOver([s EXCEPT ![j + 1] = At(s, i)], i))
<1> DEFINE r == [s EXCEPT ![j + 1] = At(s, i)]
           t == LastOver(r, i)
           y == Len(s) - 1
<1>1. Len(s) \in Nat /\ i \in Nat /\ i <= y /\ j \in Nat /\ j <= y /\ y \in Nat
  BY Elements DEF Indices
<1>2. r \in Seq(S) /\ Len(r) = Len(s)
  BY Elements, Replaced
<1>3. \A k \in Indices(s) : At(r, k) = IF k = j THEN At(s, i) ELSE At(s, k)
  BY Elements, Replaced
<1> HIDE DEF r
<1>4. /\ Len(t) = y
      /\ \A k \in Indices(t) : At(t, k) = IF k = i THEN At(r, y) ELSE At(r, k)
  <2>1. i \in Indices(r)
    BY <1>2 DEF Indices
  <2> QED BY <1>2, <2>1, Overwritten
<1> HIDE DEF t
<1>5. /\ y \in Indices(s)
      /\ \A k \in Indices(t) : k \in Indices(s) /\ k \in Nat /\ k # y
  BY <1>1, <1>4 DEF Indices
<1>6. ASSUME NEW k \in Indices(t)
      PROVE  At(t, k) = IF k = i THEN IF y = j THEN At(s, i) ELSE At(s, y)
                        ELSE IF k = j THEN At(s, i) ELSE At(s, k)
  BY <1>3, <1>4, <1>5
<1> HIDE DEF y
<1>7. Distinct(t)
  <2> SUFFICES ASSUME NEW k \in Indices(t), NEW l \in Indices(t), At(t, k) = At(t, l)
               PROVE  k = l
    BY DEF Distinct
  <2>1. k \in Indices(s) /\ l \in Indices(s) /\ k # y /\ l # y
    BY <1>5
  <2> QED BY <1>5, <1>6, <2>1 DEF Distinct
<1> QED BY <1>7 DEF t, r

-----------------------------------------------------------------------------
(* The builder fits at every moment.                                       *)

\* The inductive invariant: what the builder says of the transaction so far,
\* of a list or of a table, in a form that every instruction preserves.
LogInv ==
  /\ rows \in Seq(Id) /\ Len(rows) <= MaxRows /\ Distinct(rows)
  /\ start \in Seq(Id) /\ Len(start) <= MaxRows /\ Distinct(start)
  /\ change \in ChangeSets
  /\ kind = "list" => ListFits(change, start, rows, touched)
  /\ kind # "list" => TableFits(change, start, rows)

LEMMA NothingFits ==
  ASSUME NEW S, NEW s \in Seq(S), Distinct(s)
  PROVE  /\ NoChange \in ChangeSets
         /\ ListFits(NoChange, s, s, {}) /\ TableFits(NoChange, s, s)
<1>1. /\ NoChange.deletions = {} /\ NoChange.insertions = {}
      /\ NoChange.modifications = {} /\ NoChange.moves = <<>>
      /\ NoChange.mapping = {}
  BY DEF NoChange
<1>2. NoChange \in ChangeSets
  BY DEF NoChange, ChangeSets
<1>3. Aligned(s, {}, s, {})
  BY Elements DEF Aligned, Distinct
<1>4. ToSet(<<>>) = {}
  BY DEF ToSet
<1>5. Moved(NoChange, s, s) /\ Told(NoChange, s, {})
  BY <1>1, <1>4 DEF Moved, Told
<1>6. ListFits(NoChange, s, s, {})
  BY <1>1, <1>3, <1>5 DEF ListFits
<1>7. IsFiniteSet({})
  BY FS_EmptySet
<1>8. Stayed(s, {}, s, {})
  BY <1>7 DEF Stayed, Places
<1>9. TableFits(NoChange, s, s)
  BY <1>1, <1>8 DEF TableFits
<1> QED BY <1>2, <1>6, <1>9

\* What is modified is only looked up for elements that are there.
LEMMA FitsPresent ==
  ASSUME NEW S, NEW old, NEW new \in Seq(S), NEW c, NEW modified,
         ListFits(c, old, new, modified)
  PROVE  ListFits(c, old, new, modified \cap ToSet(new))
<1>1. \A j \in Indices(new) : At(new, j) \in ToSet(new)
  BY Elements
<1>2. Told(c, new, modified) => Told(c, new, modified \cap ToSet(new))
  BY <1>1 DEF Told
<1> QED BY <1>2 DEF ListFits

LEMMA ListStep ==
  ASSUME LogInv, NEW rows_ \in Seq(Id), NEW change_ \in ChangeSets, NEW touched_,
         ListInstruction(rows_, change_, touched_),
         Len(rows_) <= MaxRows, Distinct(rows_),
         ListFits(change_, start, rows_, touched_)
  PROVE  LogInv'
<1>1. /\ rows' = rows_ /\ change' = change_ /\ touched' = touched_ \cap ToSet(rows_)
      /\ kind = "list" /\ kind' = kind /\ start' = start
  BY DEF ListInstruction, Instruction
<1>2. ListFits(change_, start, rows_, touched_ \cap ToSet(rows_))
  BY FitsPresent
<1> QED BY <1>1, <1>2 DEF LogInv

LEMMA TableStep ==
  ASSUME LogInv, NEW rows_ \in Seq(Id), NEW keys_, NEW change_ \in ChangeSets,
         NEW touched_, TableInstruction(rows_, keys_, change_, touched_),
         Len(rows_) <= MaxRows, Distinct(rows_), TableFits(change_, start, rows_)
  PROVE  LogInv'
<1>1. /\ rows' = rows_ /\ change' = change_
      /\ kind # "list" /\ kind' = kind /\ start' = start
  BY DEF TableInstruction, Instruction
<1> QED BY <1>1 DEF LogInv

LEMMA LogInvInit == Init => LogInv
<1> SUFFICES ASSUME Init PROVE LogInv
  OBVIOUS
<1>1. PICK n \in Lengths : rows = [i \in 1..n |-> i]
  BY DEF Init
<1>2. n \in Nat /\ n <= MaxRows /\ 1..n \subseteq Id
  BY BoundsAssumption
<1>3. rows \in Seq(Id) /\ Len(rows) = n
  BY <1>1, <1>2
<1>4. Distinct(rows)
  BY <1>1, <1>2, <1>3 DEF Distinct, Indices, At
<1>5. start = rows /\ change = NoChange /\ touched = {}
  BY DEF Init
<1>6. NoChange \in ChangeSets /\ ListFits(NoChange, rows, rows, {}) /\ TableFits(NoChange, rows, rows)
  BY <1>3, <1>4, NothingFits
<1> QED BY <1>2, <1>3, <1>4, <1>5, <1>6 DEF LogInv

LEMMA ListInstructionsKeep ==
  ASSUME LogInv, ListInstructions
  PROVE  LogInv'
<1>1. ASSUME kind = "list"
      PROVE  /\ rows \in Seq(Id) /\ Len(rows) \in Nat /\ Len(rows) <= MaxRows
             /\ start \in Seq(Id) /\ Distinct(rows) /\ Distinct(start)
             /\ change \in ChangeSets /\ ListFits(change, start, rows, touched)
             /\ MaxRows \in Nat
  BY <1>1, BoundsAssumption, Terms DEF LogInv
<1>2. ASSUME NEW i \in 0..Len(rows), link_list_insert(i) PROVE LogInv'
  <2>1. PICK e \in Fresh : ListInstruction(With(rows, i, e), insert(change, i, 1), touched)
    BY <1>2 DEF link_list_insert
  <2>2. kind = "list" /\ Len(rows) < MaxRows
    BY <1>2, <2>1 DEF link_list_insert, ListInstruction
  <2>3. PICK new \in FreshOnes(1) : e = new[1]
    BY <2>1 DEF Fresh
  <2>4. e \in Id /\ e \notin ToSet(rows)
    <3>1. /\ new \in Seq(Id) /\ Len(new) = 1
          /\ \A j \in Indices(new) : At(new, j) \notin ToSet(rows) \cup ToSet(start)
      BY <2>3, FreshElements
    <3>2. 0 \in Indices(new) /\ At(new, 0) = new[1] /\ new[1] \in Id
      BY <3>1 DEF Indices, At
    <3> QED BY <2>3, <3>1, <3>2
  <2>5. With(rows, i, e) \in Seq(Id) /\ Len(With(rows, i, e)) = Len(rows) + 1
    BY <1>1, <2>2, <2>4, Inserted
  <2>6. Distinct(With(rows, i, e))
    BY <1>1, <2>2, <2>4, DistinctWith
  <2>7. /\ insert(change, i, 1) \in ChangeSets
        /\ ListFits(insert(change, i, 1), start, With(rows, i, e), touched)
    BY <1>1, <2>2, <2>4, InsertFits
  <2>8. Len(With(rows, i, e)) <= MaxRows
    BY <1>1, <2>2, <2>5
  <2> QED BY <2>1, <2>5, <2>6, <2>7, <2>8, ListStep
<1>3. ASSUME NEW i \in Indices(rows), link_list_erase(i) PROVE LogInv'
  <2>1. ListInstruction(Without(rows, i), erase(change, i), touched) /\ kind = "list"
    BY <1>3 DEF link_list_erase, ListInstruction
  <2>2. Without(rows, i) \in Seq(Id) /\ Len(Without(rows, i)) <= MaxRows
    <3>1. Without(rows, i) \in Seq(Id) /\ Len(Without(rows, i)) = Len(rows) - 1
      BY <1>1, <2>1, Removed
    <3> QED BY <1>1, <2>1, <3>1
  <2>3. Distinct(Without(rows, i))
    BY <1>1, <2>1, DistinctWithout
  <2>4. /\ erase(change, i) \in ChangeSets
        /\ ListFits(erase(change, i), start, Without(rows, i), touched)
    BY <1>1, <2>1, EraseFits
  <2> QED BY <2>1, <2>2, <2>3, <2>4, ListStep
<1>4. ASSUME NEW i \in Indices(rows), link_list_set(i) PROVE LogInv'
  <2>1. ListInstruction(rows, modify(change, i), touched \cup {At(rows, i)}) /\ kind = "list"
    BY <1>4 DEF link_list_set, ListInstruction
  <2>2. /\ modify(change, i) \in ChangeSets
        /\ ListFits(modify(change, i), start, rows, touched \cup {At(rows, i)})
    BY <1>1, <2>1, SetFits
  <2> QED BY <1>1, <2>1, <2>2, ListStep
<1>5. ASSUME NEW i \in Indices(rows), NEW j \in Indices(rows), link_list_move(i, j)
      PROVE  LogInv'
  <2> DEFINE new == With(Without(rows, i), j, At(rows, i))
  <2>1. ListInstruction(new, move(change, i, j), touched) /\ kind = "list"
    BY <1>5 DEF link_list_move, ListInstruction
  <2>2. new \in Seq(Id) /\ Len(new) = Len(rows)
    <3>1. Without(rows, i) \in Seq(Id) /\ Len(Without(rows, i)) = Len(rows) - 1
      BY <1>1, <2>1, Removed
    <3>2. j \in 0..Len(Without(rows, i)) /\ At(rows, i) \in Id
      BY <1>1, <2>1, <3>1, Elements DEF Indices
    <3> DEFINE less == Without(rows, i)
               e == At(rows, i)
    <3>3. With(less, j, e) \in Seq(Id) /\ Len(With(less, j, e)) = Len(less) + 1
      <4>1. less \in Seq(Id) /\ j \in 0..Len(less) /\ e \in Id
        BY <3>1, <3>2
      <4> HIDE DEF less, e
      <4> QED BY <4>1, Inserted
    <3> QED BY <1>1, <2>1, <3>1, <3>3
  <2>3. Distinct(new)
    BY <1>1, <2>1, DistinctMoved
  <2>4. /\ move(change, i, j) \in ChangeSets
        /\ ListFits(move(change, i, j), start, new, touched)
    BY <1>1, <2>1, MoveFits
  <2> HIDE DEF new
  <2>5. Len(new) <= MaxRows
    BY <1>1, <2>1, <2>2
  <2> QED BY <2>1, <2>2, <2>3, <2>4, <2>5, ListStep
<1>6. ASSUME link_list_clear PROVE LogInv'
  <2>1. ListInstruction(<<>>, clear(change, Len(rows)), touched) /\ kind = "list"
    BY <1>6 DEF link_list_clear, ListInstruction
  <2>2. Len(rows) # SizeMax
    BY <1>1, <2>1, BoundsAssumption
  <2>3. /\ clear(change, Len(rows)) \in ChangeSets
        /\ ListFits(clear(change, Len(rows)), start, <<>>, touched)
    BY <1>1, <2>1, <2>2, ClearFits
  <2>4. <<>> \in Seq(Id) /\ Len(<<>>) <= MaxRows /\ Distinct(<<>>)
    BY <1>1, <2>1 DEF Distinct, Indices
  <2> QED BY <2>1, <2>3, <2>4, ListStep
<1> QED BY <1>2, <1>3, <1>4, <1>5, <1>6 DEF ListInstructions

LEMMA TableInstructionsKeep ==
  ASSUME LogInv, TableInstructions
  PROVE  LogInv'
<1>1. ASSUME kind # "list"
      PROVE  /\ rows \in Seq(Id) /\ Len(rows) \in Nat /\ Len(rows) <= MaxRows
             /\ start \in Seq(Id) /\ Len(start) <= MaxRows
             /\ Distinct(rows) /\ Distinct(start)
             /\ change \in ChangeSets /\ TableFits(change, start, rows)
             /\ MaxRows \in Nat
  BY <1>1, BoundsAssumption, Terms DEF LogInv
<1>2. ASSUME NEW n \in 1..2, insert_empty_rows(n) PROVE LogInv'
  <2>1. PICK new \in FreshOnes(n) :
          TableInstruction(rows \o new, keys, insert(change, Len(rows), n), touched)
    BY <1>2 DEF insert_empty_rows
  <2>2. kind # "list" /\ Len(rows) + n <= MaxRows
    BY <1>2, <2>1 DEF insert_empty_rows, TableInstruction
  <2>3. /\ new \in Seq(Id) /\ Len(new) = n /\ Distinct(new)
        /\ \A j \in Indices(new) : /\ At(new, j) \notin ToSet(rows)
                                   /\ At(new, j) \notin ToSet(start)
    <3>1. n \in Nat
      OBVIOUS
    <3> QED BY <2>1, <3>1, FreshElements
  <2>4. rows \o new \in Seq(Id) /\ Len(rows \o new) = Len(rows) + n
    BY <1>1, <2>2, <2>3
  <2>5. Distinct(rows \o new)
    BY <1>1, <2>2, <2>3, DistinctExtended
  <2>6. /\ insert(change, Len(rows), n) \in ChangeSets
        /\ TableFits(insert(change, Len(rows), n), start, rows \o new)
    BY <1>1, <2>2, <2>3, ExtendFits
  <2>7. Len(rows \o new) <= MaxRows
    BY <2>2, <2>4
  <2> QED BY <2>1, <2>4, <2>5, <2>6, <2>7, TableStep
<1>3. ASSUME NEW i \in Indices(rows), erase_rows(i) PROVE LogInv'
  <2>1. /\ TableInstruction(LastOver(rows, i), keys,
                            move_over(change, i, Len(rows) - 1), touched)
        /\ kind # "list"
    BY <1>3 DEF erase_rows, TableInstruction, LastRow
  <2>2. LastOver(rows, i) \in Seq(Id) /\ Len(LastOver(rows, i)) <= MaxRows
    <3>1. LastOver(rows, i) \in Seq(Id) /\ Len(LastOver(rows, i)) = Len(rows) - 1
      BY <1>1, <2>1, Overwritten
    <3> QED BY <1>1, <2>1, <3>1
  <2>3. Distinct(LastOver(rows, i))
    BY <1>1, <2>1, DistinctOverwritten
  <2>4. FitsBut(change, start, rows, i)
    BY <1>1, <2>1, FittingFitsBut
  <2>5. /\ move_over(change, i, Len(rows) - 1) \in ChangeSets
        /\ TableFits(move_over(change, i, Len(rows) - 1), start, LastOver(rows, i))
    BY <1>1, <2>1, <2>4, MoveOverFits
  <2> QED BY <2>1, <2>2, <2>3, <2>5, TableStep
<1>4. ASSUME NEW i \in Indices(rows), NEW k \in Key, set_property(i, k) PROVE LogInv'
  <2>1. /\ TableInstruction(rows, [keys EXCEPT ![At(rows, i)] = k],
                            modify(change, i), touched \cup {At(rows, i)})
        /\ kind # "list"
    BY <1>4 DEF set_property, TableInstruction
  <2>2. i \in Nat
    BY <1>1, <2>1, Elements
  <2>3. modify(change, i) \in ChangeSets /\ TableFits(modify(change, i), start, rows)
    BY <1>1, <2>1, <2>2, DirtyFits
  <2> QED BY <1>1, <2>1, <2>3, TableStep
<1>5. ASSUME NEW i \in Indices(rows), NEW j \in Indices(rows), swap_rows(i, j)
      PROVE  LogInv'
  <2> DEFINE new == [rows EXCEPT ![i + 1] = At(rows, j), ![j + 1] = At(rows, i)]
  <2>1. /\ TableInstruction(new, keys, swap(change, i, j), touched)
        /\ kind # "list" /\ i < j
    BY <1>5 DEF swap_rows, TableInstruction
  <2>2. new \in Seq(Id) /\ Len(new) = Len(rows)
    BY <1>1, <2>1, ExchangedElements
  <2>3. Distinct(new)
    BY <1>1, <2>1, DistinctExchanged
  <2>4. swap(change, i, j) \in ChangeSets /\ TableFits(swap(change, i, j), start, new)
    BY <1>1, <2>1, SwapFits
  <2> HIDE DEF new
  <2>5. Len(new) <= MaxRows
    BY <1>1, <2>1, <2>2
  <2> QED BY <2>1, <2>2, <2>3, <2>4, <2>5, TableStep
<1>6. ASSUME NEW i \in Indices(rows), NEW j \in Indices(rows), merge_rows(i, j)
      PROVE  LogInv'
  <2> DEFINE put == [rows EXCEPT ![j + 1] = At(rows, i)]
             new == LastOver(put, i)
             change_ == move_over(subsume(change, i, j), i, Len(rows) - 1)
             keys_ == [keys EXCEPT ![At(rows, i)] = keys[At(rows, j)]]
             touched_ == IF At(rows, j) \in touched THEN touched \cup {At(rows, i)}
                         ELSE touched
  <2>1. /\ TableInstruction(new, keys_, change_, touched_)
        /\ i # j /\ At(rows, j) \notin ToSet(start)
    BY <1>6 DEF merge_rows, LastRow
  <2>2. kind # "list"
    BY <2>1 DEF TableInstruction
  <2>3. new \in Seq(Id) /\ Len(new) <= MaxRows
    <3>1. put \in Seq(Id) /\ Len(put) = Len(rows)
      BY <1>1, <2>2, Elements, Replaced
    <3> HIDE DEF put
    <3>2. i \in Indices(put)
      BY <3>1 DEF Indices
    <3>3. new \in Seq(Id) /\ Len(new) = Len(put) - 1
      BY <3>1, <3>2, Overwritten
    <3> HIDE DEF new
    <3> QED BY <1>1, <2>2, <3>1, <3>3
  <2>4. Distinct(new)
    BY <1>1, <2>1, <2>2, DistinctMerged
  <2>5. change_ \in ChangeSets /\ TableFits(change_, start, new)
    BY <1>1, <2>1, <2>2, MergeFits
  <2> HIDE DEF put, new, change_, keys_, touched_
  <2> QED BY <2>1, <2>3, <2>4, <2>5, TableStep
<1>7. ASSUME clear_table PROVE LogInv'
  <2>1. TableInstruction(<<>>, keys, clear(change, SizeMax), touched) /\ kind # "list"
    BY <1>7 DEF clear_table, TableInstruction
  <2>2. /\ clear(change, SizeMax) \in ChangeSets
        /\ TableFits(clear(change, SizeMax), start, <<>>)
    BY <1>1, <2>1, ClearTableFits
  <2>3. <<>> \in Seq(Id) /\ Len(<<>>) <= MaxRows /\ Distinct(<<>>)
    BY <1>1, <2>1 DEF Distinct, Indices
  <2> QED BY <2>1, <2>2, <2>3, TableStep
<1> QED BY <1>2, <1>3, <1>4, <1>5, <1>6, <1>7 DEF TableInstructions

\* The worker takes the change over, and the next transaction starts.
LEMMA RunKeeps == LogInv /\ Run => LogInv'
<1> SUFFICES ASSUME LogInv, Run PROVE LogInv'
  OBVIOUS
<1>1. /\ start' = rows /\ rows' = rows /\ kind' = kind
      /\ change' = NoChange /\ touched' = {}
  BY DEF Run
<1>2. rows \in Seq(Id) /\ Len(rows) <= MaxRows /\ Distinct(rows)
  BY DEF LogInv
<1>3. NoChange \in ChangeSets /\ ListFits(NoChange, rows, rows, {}) /\ TableFits(NoChange, rows, rows)
  BY <1>2, NothingFits
<1> QED BY <1>1, <1>2, <1>3 DEF LogInv

LEMMA NoLinks ==
  <<>> \in Seq(Id) /\ Len(<<>>) = 0 /\ Distinct(<<>>) /\ ToSet(<<>>) = {}
<1>1. Len(<<>>) = 0
  OBVIOUS
<1>2. Indices(<<>>) = {}
  BY <1>1 DEF Indices
<1>3. Distinct(<<>>)
  BY <1>2 DEF Distinct
<1> QED BY <1>1, <1>3, NoMoves

LEMMA DeletedListKeeps == LogInv /\ RunOfDeletedList => LogInv'
<1> SUFFICES ASSUME LogInv, RunOfDeletedList PROVE LogInv'
  OBVIOUS
<1>1. /\ start' = <<>> /\ rows' = <<>> /\ kind' = kind
      /\ change' = NoChange /\ touched' = {}
  BY DEF RunOfDeletedList
<1>2. <<>> \in Seq(Id) /\ Len(<<>>) <= MaxRows /\ Distinct(<<>>)
  BY BoundsAssumption, NoLinks
<1>3. /\ NoChange \in ChangeSets
      /\ ListFits(NoChange, <<>>, <<>>, {}) /\ TableFits(NoChange, <<>>, <<>>)
  BY <1>2, NothingFits
<1> QED BY <1>1, <1>2, <1>3 DEF LogInv

\* The rows are different from one another, and so are the builder's answers:
\* at every moment of every log the builder fits the rows.
THEOREM LogInvariant == Spec => []LogInv
<1>1. Init => LogInv
  BY LogInvInit
<1>2. LogInv /\ [Next]_vars => LogInv'
  <2> SUFFICES ASSUME LogInv, [Next]_vars PROVE LogInv'
    OBVIOUS
  <2>1. CASE ListInstructions
    BY <2>1, ListInstructionsKeep
  <2>2. CASE TableInstructions
    BY <2>2, TableInstructionsKeep
  <2>3. CASE Run
    BY <2>3, RunKeeps
  <2>4. CASE RunOfDeletedList
    BY <2>4, DeletedListKeeps
  <2>5. CASE UNCHANGED vars
    BY <2>5 DEF LogInv, vars
  <2> QED BY <2>1, <2>2, <2>3, <2>4, <2>5 DEF Next
<1> QED BY <1>1, <1>2, PTL DEF Spec

\* At every moment the builder of a list describes the transaction so far: what
\* it calls deleted, inserted and moved is what separates the list's links when
\* the worker last ran from those that are there now, and what it calls modified
\* is what was set (CollectionChangeBuilder, driven by the transaction log).
THEOREM ListDescribed == Spec => []ListIsDescribed
<1>1. LogInv => ListIsDescribed
  <2> SUFFICES ASSUME LogInv, kind = "list" PROVE Describes(change, start, rows, touched)
    BY DEF ListIsDescribed
  <2> QED BY FittingDescribes DEF LogInv
<1> QED BY <1>1, LogInvariant, PTL

\* A row that the notifier's query has found when the worker last ran can be
\* found again by its position then: NewIndex, on the moves that parse_complete
\* makes of the builder's mapping, gives the position where the row is now, or
\* npos if it is gone, whatever rows were moved over, swapped and merged.
THEOREM RowsFollowed == Spec => []RowsAreFollowed
<1>1. LogInv => RowsAreFollowed
  <2> SUFFICES ASSUME LogInv, kind # "list", NEW i \in Indices(start)
               PROVE  NewIndex(parse_complete(change), i) =
                        IF At(start, i) \in ToSet(rows)
                        THEN IndexOf(rows, At(start, i)) ELSE npos
    BY DEF RowsAreFollowed
  <2> QED BY FittingFollows DEF LogInv
<1> QED BY <1>1, LogInvariant, PTL

-----------------------------------------------------------------------------
(* What goes through a sequence step by step.                              *)

\* Induction, on a set of numbers.
LEMMA AllNumbers ==
  ASSUME NEW N \in Nat, NEW T, 0 \in T,
         \A n \in 1..N : n - 1 \in T => n \in T
  PROVE  \A n \in 0..N : n \in T
<1> DEFINE U == (0..N) \ T
<1> SUFFICES ASSUME U # {} PROVE FALSE
  OBVIOUS
<1>1. PICK j \in U : \A k \in U : ~ (<<k, j>> \in OpToRel(<, Nat))
  <2>1. U \subseteq Nat
    OBVIOUS
  <2> HIDE DEF U
  <2> QED BY <2>1, NatLessThanWellFounded, WFMin
<1>2. j \in 1..N /\ j - 1 \in Nat /\ j \in Nat /\ j - 1 < j
  OBVIOUS
<1>3. j - 1 \in U
  BY <1>2
<1>4. <<j - 1, j>> \in OpToRel(<, Nat)
  BY <1>2 DEF OpToRel
<1> HIDE DEF U
<1> QED BY <1>1, <1>3, <1>4

\* What the steps make one after the other, starting with "base": the value after
\* n steps is in R[n] if every step leads from R[n - 1] to R[n].
MadeBySteps(f, N, base, g, R) ==
  /\ f = [n \in 0..N |-> IF n = 0 THEN base ELSE g[<<f[n - 1], n>>]]
  /\ \A n \in 0..N : f[n] \in R[n]

LEMMA Steps ==
  ASSUME NEW N \in Nat, NEW base, NEW R, NEW g, base \in R[0],
         \A n \in 1..N : \A r \in R[n - 1] : g[<<r, n>>] \in R[n]
  PROVE  \E f : MadeBySteps(f, N, base, g, R)
<1> DEFINE Goes(f, n) == /\ f[0] = base
                         /\ \A m \in 1..n : f[m] = g[<<f[m - 1], m>>]
                         /\ \A m \in 0..n : f[m] \in R[m]
           T == {n \in 0..N : \E f : Goes(f, n)}
<1>1. 0 \in T
  <2> DEFINE f == [n \in {0} |-> base]
  <2>1. f[0] = base
    OBVIOUS
  <2> HIDE DEF f
  <2>2. Goes(f, 0)
    BY <2>1
  <2> QED BY <2>2
<1>2. ASSUME NEW n \in 1..N, n - 1 \in T
      PROVE  n \in T
  <2>0. n \in Nat /\ n - 1 \in Nat /\ n # 0 /\ n \in 0..N /\ n - 1 \in 0..N
    OBVIOUS
  <2>1. PICK f : Goes(f, n - 1)
    BY <1>2
  <2> DEFINE h == [m \in 0..N |-> IF m = n THEN g[<<f[n - 1], n>>] ELSE f[m]]
  <2>2. /\ h[n] = g[<<f[n - 1], n>>]
        /\ \A m \in 0..(n - 1) : h[m] = f[m]
    BY <2>0
  <2> HIDE DEF h
  <2>3. /\ f[0] = base
        /\ \A m \in 1..(n - 1) : f[m] = g[<<f[m - 1], m>>]
        /\ \A m \in 0..(n - 1) : f[m] \in R[m]
    BY <2>1
  <2> HIDE DEF Goes
  <2>4. f[n - 1] \in R[n - 1] /\ h[n - 1] = f[n - 1]
    BY <2>0, <2>2, <2>3
  <2>5. g[<<f[n - 1], n>>] \in R[n]
    BY <2>4
  <2>6. h[0] = base
    BY <2>0, <2>2, <2>3
  <2>7. \A m \in 0..n : h[m] \in R[m]
    BY <2>0, <2>2, <2>3, <2>5
  <2>8. ASSUME NEW m \in 1..n PROVE h[m] = g[<<h[m - 1], m>>]
    <3>1. CASE m = n
      BY <2>2, <2>4, <3>1
    <3>2. CASE m # n
      <4>1. m \in 1..(n - 1) /\ m \in 0..(n - 1) /\ m - 1 \in 0..(n - 1)
        BY <2>0, <3>2
      <4> QED BY <2>2, <2>3, <4>1
    <3> QED BY <3>1, <3>2
  <2>9. Goes(h, n)
    BY <2>6, <2>7, <2>8 DEF Goes
  <2> QED BY <2>0, <2>9
<1>3. N \in T
  <2> HIDE DEF T
  <2>1. \A n \in 0..N : n \in T
    BY <1>1, <1>2, AllNumbers
  <2> QED BY <2>1
<1>4. PICK f : Goes(f, N)
  BY <1>3
<1> DEFINE h == [n \in 0..N |-> f[n]]
<1>5. h = [n \in 0..N |-> IF n = 0 THEN base ELSE g[<<h[n - 1], n>>]]
  <2>1. ASSUME NEW n \in 0..N
        PROVE  h[n] = IF n = 0 THEN base ELSE g[<<h[n - 1], n>>]
    <3>1. CASE n = 0
      BY <1>4, <3>1
    <3>2. CASE n # 0
      <4>1. n \in 1..N /\ n - 1 \in 0..N
        BY <3>2
      <4>2. h[n] = f[n] /\ h[n - 1] = f[n - 1]
        BY <4>1
      <4> QED BY <1>4, <3>2, <4>1, <4>2
    <3> QED BY <3>1, <3>2
  <2>2. h = [n \in 0..N |-> h[n]]
    OBVIOUS
  <2> HIDE DEF h
  <2> QED BY <2>1, <2>2
<1>6. \A n \in 0..N : h[n] \in R[n]
  BY <1>4
<1> HIDE DEF h
<1>7. MadeBySteps(h, N, base, g, R)
  BY <1>5, <1>6, Zenon DEF MadeBySteps
<1> QED BY <1>7

\* The same of every such function.
LEMMA StepsStay ==
  ASSUME NEW N \in Nat, NEW R, NEW f, f[0] \in R[0],
         \A n \in 1..N : f[n - 1] \in R[n - 1] => f[n] \in R[n]
  PROVE  \A n \in 0..N : f[n] \in R[n]
<1> DEFINE T == {n \in 0..N : f[n] \in R[n]}
<1>1. 0 \in T
  OBVIOUS
<1>2. ASSUME NEW n \in 1..N, n - 1 \in T PROVE n \in T
  BY <1>2
<1> HIDE DEF T
<1>3. \A n \in 0..N : n \in T
  BY <1>1, <1>2, AllNumbers
<1> QED BY <1>3 DEF T

-----------------------------------------------------------------------------
(* Moves that are none.                                                    *)

\* No two moves go to the same place.
OnceEach(moves) ==
  \A k, l \in DOMAIN moves : moves[k].to = moves[l].to => k = l

\* What is at position j can be followed to where it was.
Followed(c, j) == j \notin c.insertions \/ \E m \in ToSet(c.moves) : m.to = j

\* An element between the same elements in both collections need not be deleted
\* and inserted.
LEMMA PutBack ==
  ASSUME NEW S, NEW old \in Seq(S), NEW new \in Seq(S), NEW D, NEW I,
         Aligned(old, D, new, I), Distinct(old), Distinct(new),
         NEW a \in D, NEW b \in I, At(old, a) = At(new, b),
         unshift(D, a) = unshift(I, b)
  PROVE  Aligned(old, D \ {a}, new, I \ {b})
<1>1. /\ D \in SUBSET Indices(old) /\ I \in SUBSET Indices(new)
      /\ a \in Indices(old) /\ b \in Indices(new)
      /\ D \in SUBSET Nat /\ I \in SUBSET Nat /\ a \in Nat /\ b \in Nat
  <2>1. D \in SUBSET Indices(old) /\ I \in SUBSET Indices(new)
    BY DEF Aligned
  <2>2. Indices(old) \subseteq Nat /\ Indices(new) \subseteq Nat
    BY DEF Indices
  <2> QED BY <2>1, <2>2
<1>2. ASSUME NEW i \in Indices(old) \ D, NEW j \in Indices(new) \ I,
             At(old, i) = At(new, j)
      PROVE  /\ i < a => j < b
             /\ a < i => b < j
  <2>1. i \in Nat /\ j \in Nat /\ i # a /\ j # b
    BY DEF Indices
  <2>2. unshift(D, i) = unshift(I, j)
    BY <1>2, SameRankOfKept
  <2>3. /\ unshift(D, i) \in Int /\ unshift(I, j) \in Int
        /\ unshift(D, a) \in Int /\ unshift(I, b) \in Int
    BY <1>1, <2>1, UnshiftCounts
  <2>4. ASSUME i < a PROVE j < b
    <3>1. unshift(D, i) < unshift(D, a)
      BY <1>1, <2>1, <2>4, UnshiftKeepsOrder
    <3>2. b < j => unshift(I, b) <= unshift(I, j)
      BY <1>1, <2>1, UnshiftKeepsOrder
    <3> QED BY <1>1, <2>1, <2>2, <2>3, <3>1, <3>2
  <2>5. ASSUME a < i PROVE b < j
    <3>1. unshift(D, a) <= unshift(D, i)
      BY <1>1, <2>1, <2>5, UnshiftKeepsOrder
    <3>2. j < b => unshift(I, j) < unshift(I, b)
      BY <1>1, <2>1, UnshiftKeepsOrder
    <3> QED BY <1>1, <2>1, <2>2, <2>3, <3>1, <3>2
  <2> QED BY <2>4, <2>5
<1>3. \A i \in Indices(old) : At(old, i) = At(new, b) => i = a
  BY <1>1 DEF Distinct
<1>4. \A j \in Indices(new) : At(old, a) = At(new, j) => j = b
  BY <1>1 DEF Distinct
<1>5. \A j \in Indices(new) \ (I \ {b}) :
        \E i \in Indices(old) \ (D \ {a}) : At(old, i) = At(new, j)
  BY <1>1 DEF Aligned
<1>6. \A i \in Indices(old) \ (D \ {a}) :
        \E j \in Indices(new) \ (I \ {b}) : At(old, i) = At(new, j)
  BY <1>1 DEF Aligned
<1>7. ASSUME NEW i \in Indices(old) \ (D \ {a}), NEW k \in Indices(old) \ (D \ {a}),
             NEW j \in Indices(new) \ (I \ {b}), NEW l \in Indices(new) \ (I \ {b}),
             At(old, i) = At(new, j), At(old, k) = At(new, l), i < k
      PROVE  j < l
  <2>0. i \in Nat /\ k \in Nat /\ i # k
    BY <1>7 DEF Indices
  <2>1. CASE i = a
    <3>1. j = b /\ k \in Indices(old) \ D /\ l \in Indices(new) \ I
      BY <1>3, <1>4, <1>7, <2>0, <2>1
    <3> QED BY <1>2, <1>7, <2>1, <3>1
  <2>2. CASE k = a
    <3>1. l = b /\ i \in Indices(old) \ D /\ j \in Indices(new) \ I
      BY <1>3, <1>4, <1>7, <2>0, <2>2
    <3> QED BY <1>2, <1>7, <2>2, <3>1
  <2>3. CASE i # a /\ k # a
    <3>1. /\ i \in Indices(old) \ D /\ j \in Indices(new) \ I
          /\ k \in Indices(old) \ D /\ l \in Indices(new) \ I
      BY <1>3, <1>7, <2>3
    <3> QED BY <1>7, <3>1 DEF Aligned
  <2> QED BY <2>1, <2>2, <2>3
<1> QED BY <1>1, <1>5, <1>6, <1>7 DEF Aligned

\* d is what clean_up_stale_moves has made of c when it has seen the first n of
\* its moves.
CleanedUpTo(d, c, old, new, n) ==
  /\ d \in ChangeSets
  /\ Aligned(old, d.deletions, new, d.insertions)
  /\ d.modifications = c.modifications /\ d.mapping = c.mapping
  /\ OnceEach(d.moves)
  /\ \A m \in ToSet(d.moves) : /\ m.from \in d.deletions /\ m.to \in d.insertions
                               /\ \E k \in DOMAIN c.moves : k <= n /\ c.moves[k] = m
  /\ \A k \in DOMAIN c.moves : n < k => /\ c.moves[k].from \in d.deletions
                                        /\ c.moves[k].to \in d.insertions
  /\ \A j \in c.insertions \ d.insertions : \E m \in ToSet(c.moves) : m.to = j

\* Moves of different elements.
LEMMA DifferentMoves ==
  ASSUME NEW c \in ChangeSets, NEW old, NEW new, Distinct(new),
         Aligned(old, c.deletions, new, c.insertions),
         Moved(c, old, new), OnceEach(c.moves),
         NEW k \in DOMAIN c.moves, NEW l \in DOMAIN c.moves, k # l
  PROVE  c.moves[k].to # c.moves[l].to /\ c.moves[k].from # c.moves[l].from
<1>1. c.moves[k] \in ToSet(c.moves) /\ c.moves[l] \in ToSet(c.moves)
  BY DEF ToSet
<1>2. /\ c.moves[k].to \in Indices(new) /\ c.moves[l].to \in Indices(new)
      /\ At(old, c.moves[k].from) = At(new, c.moves[k].to)
      /\ At(old, c.moves[l].from) = At(new, c.moves[l].to)
  BY <1>1 DEF Moved, Aligned
<1>3. c.moves[k].to # c.moves[l].to
  BY DEF OnceEach
<1> QED BY <1>2, <1>3 DEF Distinct

LEMMA OnceMore ==
  ASSUME NEW S, NEW s \in Seq(S), OnceEach(s), NEW m \in S,
         \A k \in DOMAIN s : s[k].to # m.to
  PROVE  OnceEach(Append(s, m))
<1> DEFINE t == Append(s, m)
<1>1. /\ Len(s) \in Nat /\ DOMAIN t = 1..(Len(s) + 1) /\ DOMAIN s = 1..Len(s)
      /\ \A k \in 1..Len(s) : t[k] = s[k]
      /\ t[Len(s) + 1] = m
  BY AppendProperties
<1> HIDE DEF t
<1>2. \A k \in DOMAIN t : k = Len(s) + 1 \/ (k \in DOMAIN s /\ t[k] = s[k])
  BY <1>1
<1>3. OnceEach(t)
  BY <1>1, <1>2 DEF OnceEach
<1> QED BY <1>3 DEF t

\* One move more.
LEMMA CleanUpStep ==
  ASSUME NEW S, NEW old \in Seq(S), NEW new \in Seq(S), Distinct(old), Distinct(new),
         NEW c \in ChangeSets, Aligned(old, c.deletions, new, c.insertions),
         Moved(c, old, new), OnceEach(c.moves),
         NEW n \in DOMAIN c.moves, NEW d, CleanedUpTo(d, c, old, new, n - 1)
  PROVE  CleanedUpTo(CleanUp(d, c.moves[n]), c, old, new, n)
<1> DEFINE m == c.moves[n]
           r == CleanUp(d, m)
<1>1. /\ c.moves \in Seq(Moves) /\ n \in Nat /\ m \in Moves
      /\ \A k \in DOMAIN c.moves : k \in Nat
  <2>1. c.moves \in Seq(Moves)
    BY DEF ChangeSets
  <2> QED BY <2>1, Terms
<1>2. /\ d \in ChangeSets
      /\ Aligned(old, d.deletions, new, d.insertions)
      /\ d.modifications = c.modifications /\ d.mapping = c.mapping
      /\ OnceEach(d.moves)
      /\ \A j \in c.insertions \ d.insertions : \E l \in ToSet(c.moves) : l.to = j
  BY DEF CleanedUpTo
<1>3. \A l \in ToSet(d.moves) :
         /\ l.from \in d.deletions /\ l.to \in d.insertions
         /\ \E k \in DOMAIN c.moves : k < n /\ c.moves[k] = l
  BY <1>1 DEF CleanedUpTo
<1>4. \A k \in DOMAIN c.moves : n <= k => /\ c.moves[k].from \in d.deletions
                                          /\ c.moves[k].to \in d.insertions
  BY <1>1 DEF CleanedUpTo
<1>5. \A k \in DOMAIN c.moves : k # n => c.moves[k].from # m.from /\ c.moves[k].to # m.to
  BY DifferentMoves
<1>6. /\ m.from \in d.deletions /\ m.to \in d.insertions
      /\ m \in ToSet(c.moves) /\ At(old, m.from) = At(new, m.to)
  <2>1. m \in ToSet(c.moves)
    BY DEF ToSet
  <2> QED BY <1>1, <1>4, <2>1 DEF Moved
<1>7. \A l \in ToSet(d.moves) : l.from # m.from /\ l.to # m.to
  <2> TAKE l \in ToSet(d.moves)
  <2>1. PICK k \in DOMAIN c.moves : k < n /\ c.moves[k] = l
    BY <1>3
  <2>2. k # n
    BY <1>1, <2>1
  <2> QED BY <1>5, <2>1, <2>2
<1>8. CASE unshift(d.deletions, m.from) = unshift(d.insertions, m.to)
  <2> DEFINE D == d.deletions \ {m.from}
             I == d.insertions \ {m.to}
  <2>1. r = [d EXCEPT !.deletions = D, !.insertions = I]
    BY <1>8 DEF CleanUp
  <2>2. /\ r \in ChangeSets /\ r.deletions = D /\ r.insertions = I
        /\ r.modifications = d.modifications /\ r.mapping = d.mapping
        /\ r.moves = d.moves
    BY <1>2, <2>1 DEF ChangeSets
  <2>3. Aligned(old, D, new, I)
    BY <1>2, <1>6, <1>8, PutBack
  <2> HIDE DEF r, m
  <2>4. \A l \in ToSet(r.moves) :
          /\ l.from \in r.deletions /\ l.to \in r.insertions
          /\ \E k \in DOMAIN c.moves : k <= n /\ c.moves[k] = l
    <3>1. \A k \in DOMAIN c.moves : k < n => k <= n
      BY <1>1
    <3> QED BY <1>3, <1>7, <2>2, <3>1
  <2>5. \A k \in DOMAIN c.moves : n < k => /\ c.moves[k].from \in r.deletions
                                           /\ c.moves[k].to \in r.insertions
    <3>1. \A k \in DOMAIN c.moves : n < k => n <= k /\ k # n
      BY <1>1
    <3> QED BY <1>4, <1>5, <2>2, <3>1
  <2>6. \A j \in c.insertions \ r.insertions : \E l \in ToSet(c.moves) : l.to = j
    BY <1>2, <1>6, <2>2
  <2>7. CleanedUpTo(r, c, old, new, n)
    BY <1>2, <2>2, <2>3, <2>4, <2>5, <2>6 DEF CleanedUpTo
  <2> QED BY <2>7 DEF r, m
<1>9. CASE unshift(d.deletions, m.from) # unshift(d.insertions, m.to)
  <2>1. r = [d EXCEPT !.moves = Append(d.moves, m)]
    BY <1>9 DEF CleanUp
  <2>2. d.moves \in Seq(Moves)
    BY <1>2 DEF ChangeSets
  <2>3. /\ Append(d.moves, m) \in Seq(Moves)
        /\ ToSet(Append(d.moves, m)) = ToSet(d.moves) \cup {m}
    BY <1>1, <2>2, Appended
  <2>4. /\ r \in ChangeSets /\ r.deletions = d.deletions /\ r.insertions = d.insertions
        /\ r.modifications = d.modifications /\ r.mapping = d.mapping
        /\ r.moves = Append(d.moves, m)
    BY <1>2, <2>1, <2>3 DEF ChangeSets
  <2>5. OnceEach(r.moves)
    <3>1. \A k \in DOMAIN d.moves : d.moves[k].to # m.to
      BY <1>7 DEF ToSet
    <3> HIDE DEF r, m
    <3>2. OnceEach(Append(d.moves, m))
      BY <1>1, <1>2, <2>2, <3>1, OnceMore
    <3> QED BY <2>4, <3>2
  <2>6. \A l \in ToSet(r.moves) :
          /\ l.from \in r.deletions /\ l.to \in r.insertions
          /\ \E k \in DOMAIN c.moves : k <= n /\ c.moves[k] = l
    <3>1. \A k \in DOMAIN c.moves : k < n => k <= n
      BY <1>1
    <3>2. n <= n /\ c.moves[n] = m
      BY <1>1
    <3> HIDE DEF r, m
    <3> QED BY <1>3, <1>6, <2>3, <2>4, <3>1, <3>2
  <2>7. \A k \in DOMAIN c.moves : n < k => /\ c.moves[k].from \in r.deletions
                                           /\ c.moves[k].to \in r.insertions
    <3>1. \A k \in DOMAIN c.moves : n < k => n <= k
      BY <1>1
    <3> HIDE DEF r, m
    <3> QED BY <1>4, <2>4, <3>1
  <2>8. \A j \in c.insertions \ r.insertions : \E l \in ToSet(c.moves) : l.to = j
    BY <1>2, <2>4
  <2> HIDE DEF r, m
  <2>9. CleanedUpTo(r, c, old, new, n)
    BY <1>2, <2>4, <2>5, <2>6, <2>7, <2>8 DEF CleanedUpTo
  <2> QED BY <2>9 DEF r, m
<1> QED BY <1>8, <1>9

\* What clean_up_stale_moves makes of a change set: some elements that were
\* deleted and inserted with a move are neither.
CleanedUp(d, c, old, new) ==
  /\ d \in ChangeSets
  /\ Aligned(old, d.deletions, new, d.insertions) /\ Moved(d, old, new)
  /\ OnceEach(d.moves)
  /\ d.modifications = c.modifications /\ d.mapping = c.mapping
  /\ \A j : Followed(d, j) => Followed(c, j)

LEMMA StaleMovesCleanedUp ==
  ASSUME NEW S, NEW old \in Seq(S), NEW new \in Seq(S), Distinct(old), Distinct(new),
         NEW c \in ChangeSets, Aligned(old, c.deletions, new, c.insertions),
         Moved(c, old, new), OnceEach(c.moves)
  PROVE  CleanedUp(clean_up_stale_moves(c), c, old, new)
<1> DEFINE N == Len(c.moves)
           base == [c EXCEPT !.moves = <<>>]
           R == [n \in 0..N |-> {d \in ChangeSets : CleanedUpTo(d, c, old, new, n)}]
           g == [p \in ChangeSets \X (1..N) |-> CleanUp(p[1], c.moves[p[2]])]
           cleaned[n \in 0..N] ==
             IF n = 0 THEN base ELSE CleanUp(cleaned[n - 1], c.moves[n])
<1>1. c.moves \in Seq(Moves) /\ N \in Nat /\ DOMAIN c.moves = 1..N
  <2>1. c.moves \in Seq(Moves)
    BY DEF ChangeSets
  <2> QED BY <2>1, Terms
<1>2. CleanedUpTo(base, c, old, new, 0)
  <2>1. /\ base \in ChangeSets /\ base.deletions = c.deletions
        /\ base.insertions = c.insertions /\ base.modifications = c.modifications
        /\ base.mapping = c.mapping /\ base.moves = <<>>
    <3>1. <<>> \in Seq(Moves)
      OBVIOUS
    <3> QED BY <3>1 DEF ChangeSets
  <2>2. ToSet(<<>>) = {} /\ OnceEach(<<>>)
    BY DEF ToSet, OnceEach
  <2>3. \A k \in DOMAIN c.moves : /\ c.moves[k].from \in c.deletions
                                  /\ c.moves[k].to \in c.insertions
    BY DEF Moved, ToSet
  <2> HIDE DEF base
  <2> QED BY <2>1, <2>2, <2>3 DEF CleanedUpTo
<1>3. base \in ChangeSets
  BY <1>2 DEF CleanedUpTo
<1> HIDE DEF base
<1>4. \A n \in 1..N : \A d \in R[n - 1] :
        /\ d \in ChangeSets /\ CleanUp(d, c.moves[n]) \in R[n]
  <2> TAKE n \in 1..N
  <2>1. n \in 0..N /\ n - 1 \in 0..N /\ n \in DOMAIN c.moves
    BY <1>1
  <2> TAKE d \in R[n - 1]
  <2>2. d \in ChangeSets /\ CleanedUpTo(d, c, old, new, n - 1)
    BY <2>1
  <2>3. CleanedUpTo(CleanUp(d, c.moves[n]), c, old, new, n)
    <3> HIDE DEF R
    <3> QED BY <2>1, <2>2, CleanUpStep
  <2>4. CleanUp(d, c.moves[n]) \in ChangeSets
    BY <2>3 DEF CleanedUpTo
  <2> QED BY <2>1, <2>2, <2>3, <2>4
<1>5. base \in R[0]
  BY <1>1, <1>2, <1>3
<1>6. \A n \in 1..N : \A d \in R[n - 1] : g[<<d, n>>] = CleanUp(d, c.moves[n])
  BY <1>4
<1> HIDE DEF R, g, N
<1>7. \E f : f = [n \in 0..N |-> IF n = 0 THEN base ELSE CleanUp(f[n - 1], c.moves[n])]
  <2>1. \A n \in 1..N : \A d \in R[n - 1] : g[<<d, n>>] \in R[n]
    BY <1>4, <1>6
  <2>0. PICK f : MadeBySteps(f, N, base, g, R)
    BY <1>1, <1>5, <2>1, Steps
  <2>2. /\ f = [n \in 0..N |-> IF n = 0 THEN base ELSE g[<<f[n - 1], n>>]]
        /\ \A n \in 0..N : f[n] \in R[n]
    BY <2>0 DEF MadeBySteps
  <2>3. \A n \in 0..N : n # 0 => g[<<f[n - 1], n>>] = CleanUp(f[n - 1], c.moves[n])
    <3> TAKE n \in 0..N
    <3>1. n # 0 => n \in 1..N /\ n - 1 \in 0..N
      BY <1>1
    <3> QED BY <1>6, <2>2, <3>1
  <2>4. f = [n \in 0..N |-> IF n = 0 THEN base ELSE CleanUp(f[n - 1], c.moves[n])]
    BY <2>2, <2>3
  <2> QED BY <2>4
<1>8. cleaned = [n \in 0..N |-> IF n = 0 THEN base ELSE CleanUp(cleaned[n - 1], c.moves[n])]
  BY <1>7
<1>9. clean_up_stale_moves(c) = cleaned[N]
  BY DEF clean_up_stale_moves, base, N
<1> HIDE DEF cleaned
<1>10. /\ cleaned[0] = base
       /\ \A n \in 1..N : cleaned[n] = CleanUp(cleaned[n - 1], c.moves[n])
  <2>1. 0 \in 0..N /\ \A n \in 1..N : n \in 0..N /\ n # 0
    BY <1>1
  <2> QED BY <1>8, <2>1
<1>11. \A n \in 0..N : cleaned[n] \in R[n]
  <2>1. \A n \in 1..N : cleaned[n - 1] \in R[n - 1] => cleaned[n] \in R[n]
    BY <1>4, <1>10
  <2> QED BY <1>1, <1>5, <1>10, <2>1, StepsStay
<1>12. CleanedUpTo(cleaned[N], c, old, new, N)
  BY <1>1, <1>11 DEF R
<1> DEFINE d == cleaned[N]
<1> HIDE DEF d
<1>13. /\ d \in ChangeSets
       /\ Aligned(old, d.deletions, new, d.insertions)
       /\ d.modifications = c.modifications /\ d.mapping = c.mapping
       /\ OnceEach(d.moves)
       /\ \A m \in ToSet(d.moves) : /\ m.from \in d.deletions /\ m.to \in d.insertions
                                    /\ m \in ToSet(c.moves)
       /\ \A j \in c.insertions \ d.insertions : \E m \in ToSet(c.moves) : m.to = j
  BY <1>12 DEF CleanedUpTo, ToSet, d
<1>14. Moved(d, old, new)
  BY <1>13 DEF Moved
<1>15. \A j : Followed(d, j) => Followed(c, j)
  BY <1>13 DEF Followed
<1>16. CleanedUp(d, c, old, new)
  BY <1>13, <1>14, <1>15 DEF CleanedUp
<1> QED BY <1>9, <1>16 DEF d

-----------------------------------------------------------------------------
(* Moves that are moved on.                                                *)

\* c follows b: "old" has become "mid", and that has become "new".
InARow(b, c, old, mid, new) ==
  /\ b \in ChangeSets /\ Aligned(old, b.deletions, mid, b.insertions)
  /\ Moved(b, old, mid) /\ OnceEach(b.moves)
  /\ c \in ChangeSets /\ Aligned(mid, c.deletions, new, c.insertions)
  /\ Moved(c, mid, new) /\ OnceEach(c.moves)

\* Where a kept element is now is computed from where it was.
LEMMA PlaceOfKept ==
  ASSUME NEW S, NEW old \in Seq(S), NEW new \in Seq(S), NEW c,
         Aligned(old, c.deletions, new, c.insertions), Distinct(old), Distinct(new),
         NEW i \in Indices(old) \ c.deletions
  PROVE  /\ After(c, i) \in Indices(new) \ c.insertions
         /\ At(old, i) = At(new, After(c, i))
<1>1. PICK j \in Indices(new) \ c.insertions : At(old, i) = At(new, j)
  BY DEF Aligned
<1>2. unshift(c.deletions, i) = unshift(c.insertions, j)
  BY <1>1, SameRankOfKept
<1>3. c.insertions \in SUBSET Nat /\ IsFiniteSet(c.insertions) /\ j \in Nat
  <2>1. IsFiniteSet(c.insertions)
    BY SameRankAltogether
  <2> QED BY <2>1 DEF Aligned, Indices
<1>4. shift(c.insertions, unshift(c.insertions, j)) = j
  BY <1>3, ShiftOfUnshift
<1> QED BY <1>1, <1>2, <1>4 DEF After

\* The move o has become p: c moves the element again, by a move that is taken
\* out of "rest", or it is where c leaves it.
GoneOn(o, p, c, rest) ==
  /\ p.from = o.from
  /\ \/ \E m \in ToSet(c.moves) \ ToSet(rest) : m.from = o.to /\ m.to = p.to
     \/ o.to \notin c.deletions /\ p.to = After(c, o.to)

\* It is a move of the same element.
LEMMA SameElement ==
  ASSUME NEW S, NEW old, NEW mid \in Seq(S), NEW new \in Seq(S),
         Distinct(mid), Distinct(new), NEW b, NEW c, InARow(b, c, old, mid, new),
         NEW o \in ToSet(b.moves), NEW p, NEW rest, GoneOn(o, p, c, rest)
  PROVE  /\ p.to \in Indices(new) /\ At(mid, o.to) = At(new, p.to)
         /\ o.to \in b.insertions
<1>1. /\ Aligned(mid, c.deletions, new, c.insertions) /\ Moved(c, mid, new)
      /\ o.to \in Indices(mid) /\ o.to \in b.insertions
  BY DEF InARow, Moved, Aligned
<1>2. CASE \E m \in ToSet(c.moves) \ ToSet(rest) : m.from = o.to /\ m.to = p.to
  BY <1>1, <1>2 DEF Moved, Aligned
<1>3. CASE o.to \notin c.deletions /\ p.to = After(c, o.to)
  BY <1>1, <1>3, PlaceOfKept
<1> QED BY <1>1, <1>2, <1>3 DEF GoneOn

\* The last move takes the place of one that was taken over.
LEMMA TakenOut ==
  ASSUME NEW s \in Seq(Moves), OnceEach(s), NEW k \in DOMAIN s
  PROVE  LET t == Front([s EXCEPT ![k] = Last(s)])
         IN /\ t \in Seq(Moves) /\ OnceEach(t)
            /\ \A m \in ToSet(t) : m \in ToSet(s) /\ m # s[k]
<1> DEFINE i == k - 1
           y == Len(s) - 1
           t == LastOver(s, i)
<1>1. /\ Len(s) \in Nat /\ k \in 1..Len(s) /\ i \in Indices(s) /\ i + 1 = k
      /\ DOMAIN s = 1..Len(s)
  BY Terms DEF Indices
<1>2. t = Front([s EXCEPT ![k] = Last(s)])
  BY <1>1 DEF LastOver
<1>3. /\ t \in Seq(Moves) /\ Len(t) = Len(s) - 1
      /\ \A j \in Indices(t) : At(t, j) = IF j = i THEN At(s, y) ELSE At(s, j)
  BY <1>1, Overwritten
<1> HIDE DEF t
<1>4. DOMAIN t = 1..(Len(s) - 1)
  BY <1>3
<1>5. \A l \in DOMAIN t : t[l] = IF l = k THEN s[Len(s)] ELSE s[l]
  <2> TAKE l \in DOMAIN t
  <2>1. /\ l \in Nat /\ l - 1 \in Indices(t) /\ (l - 1) + 1 = l
        /\ (l - 1 = i <=> l = k) /\ y + 1 = Len(s)
    BY <1>1, <1>3, <1>4 DEF Indices
  <2>2. At(t, l - 1) = IF l - 1 = i THEN At(s, y) ELSE At(s, l - 1)
    BY <1>3, <2>1
  <2> QED BY <2>1, <2>2 DEF At
<1>6. \A l \in DOMAIN t : \E j \in DOMAIN s : /\ t[l] = s[j] /\ j # k
                                              /\ j = IF l = k THEN Len(s) ELSE l
  <2> TAKE l \in DOMAIN t
  <2>1. l \in Nat /\ l <= Len(s) - 1 /\ l >= 1
    BY <1>1, <1>4
  <2>2. CASE l = k
    <3>1. Len(s) \in DOMAIN s /\ Len(s) # k
      BY <1>1, <2>1, <2>2
    <3> QED BY <1>5, <2>2, <3>1
  <2>3. CASE l # k
    <3>1. l \in DOMAIN s
      BY <1>1, <2>1
    <3> QED BY <1>5, <2>3, <3>1
  <2> QED BY <2>2, <2>3
<1>7. \A l \in DOMAIN t : l # Len(s)
  BY <1>1, <1>4
<1>8. OnceEach(t)
  BY <1>6, <1>7 DEF OnceEach
<1>9. \A m \in ToSet(t) : m \in ToSet(s) /\ m # s[k]
  <2> TAKE m \in ToSet(t)
  <2>1. PICK l \in DOMAIN t : m = t[l]
    BY DEF ToSet
  <2>2. PICK j \in DOMAIN s : m = s[j] /\ j # k
    BY <1>6, <2>1
  <2>3. s[j].to # s[k].to
    BY <2>2 DEF OnceEach
  <2> QED BY <2>2, <2>3 DEF ToSet
<1> QED BY <1>2, <1>3, <1>8, <1>9

\* r is what the first part of merge has made of the moves when it has seen the
\* first n of b's.
Taken == [kept : Seq(Moves), new : Seq(Moves)]
TakenUpTo(r, b, c, n) ==
  /\ r \in Taken /\ OnceEach(r.kept) /\ OnceEach(r.new)
  /\ ToSet(r.new) \subseteq ToSet(c.moves)
  /\ \A p \in ToSet(r.kept) :
       \E k \in DOMAIN b.moves : k <= n /\ GoneOn(b.moves[k], p, c, r.new)

\* One of b's moves more goes on as p.
LEMMA OneMoreKept ==
  ASSUME NEW S, NEW old, NEW mid \in Seq(S), NEW new \in Seq(S),
         Distinct(mid), Distinct(new), NEW b, NEW c, InARow(b, c, old, mid, new),
         NEW n \in DOMAIN b.moves, NEW r, TakenUpTo(r, b, c, n - 1),
         NEW rest \in Seq(Moves), OnceEach(rest), ToSet(rest) \subseteq ToSet(r.new),
         NEW p, GoneOn(b.moves[n], p, c, rest),
         p = Pair(p.from, p.to)
  PROVE  TakenUpTo([kept |-> Append(r.kept, p), new |-> rest], b, c, n)
<1> DEFINE s == [kept |-> Append(r.kept, p), new |-> rest]
<1>1. /\ b.moves \in Seq(Moves) /\ OnceEach(b.moves)
      /\ \A k \in DOMAIN b.moves : k \in Nat /\ b.moves[k] \in ToSet(b.moves)
  <2>1. b.moves \in Seq(Moves) /\ OnceEach(b.moves)
    BY DEF InARow, ChangeSets
  <2> QED BY <2>1, Terms DEF ToSet
<1>2. /\ r.kept \in Seq(Moves) /\ OnceEach(r.kept)
      /\ ToSet(r.new) \subseteq ToSet(c.moves)
      /\ \A q \in ToSet(r.kept) :
           \E k \in DOMAIN b.moves : k <= n - 1 /\ GoneOn(b.moves[k], q, c, r.new)
  BY DEF TakenUpTo, Taken
<1>3. /\ p.to \in Indices(new) /\ At(mid, b.moves[n].to) = At(new, p.to)
  BY <1>1, SameElement
<1>4. p \in Moves
  <2>1. b.moves[n] \in Moves
    BY <1>1, Terms
  <2>2. p.from \in Nat /\ p.to \in Nat
    BY <1>3, <2>1 DEF GoneOn, Moves, Indices
  <2> QED BY <2>2 DEF Moves, Pair
<1>5. \A q \in ToSet(r.kept) : q.to # p.to
  <2> SUFFICES ASSUME NEW q \in ToSet(r.kept), q.to = p.to PROVE FALSE
    OBVIOUS
  <2>1. PICK k \in DOMAIN b.moves : k <= n - 1 /\ GoneOn(b.moves[k], q, c, r.new)
    BY <1>2
  <2>2. q.to \in Indices(new) /\ At(mid, b.moves[k].to) = At(new, q.to)
    BY <1>1, <2>1, SameElement
  <2>3. b.moves[k].to \in Indices(mid) /\ b.moves[n].to \in Indices(mid)
    BY <1>1 DEF InARow, Moved, Aligned
  <2>4. b.moves[k].to = b.moves[n].to
    BY <1>3, <2>2, <2>3 DEF Distinct
  <2>5. k = n
    BY <1>1, <2>4 DEF OnceEach
  <2> QED BY <1>1, <2>1, <2>5
<1>6. /\ Append(r.kept, p) \in Seq(Moves)
      /\ ToSet(Append(r.kept, p)) = ToSet(r.kept) \cup {p}
  BY <1>2, <1>4, Appended
<1>7. OnceEach(Append(r.kept, p))
  <2>1. \A k \in DOMAIN r.kept : r.kept[k].to # p.to
    BY <1>5 DEF ToSet
  <2> QED BY <1>2, <1>4, <2>1, OnceMore
<1>8. s \in Taken /\ s.kept = Append(r.kept, p) /\ s.new = rest
  BY <1>6 DEF Taken
<1>9. \A q \in ToSet(s.kept) :
        \E k \in DOMAIN b.moves : k <= n /\ GoneOn(b.moves[k], q, c, s.new)
  <2> TAKE q \in ToSet(s.kept)
  <2>1. CASE q = p
    BY <1>1, <1>8, <2>1
  <2>2. CASE q \in ToSet(r.kept)
    <3>1. PICK k \in DOMAIN b.moves : k <= n - 1 /\ GoneOn(b.moves[k], q, c, r.new)
      BY <1>2, <2>2
    <3>2. GoneOn(b.moves[k], q, c, rest)
      BY <3>1 DEF GoneOn
    <3>3. k <= n
      BY <1>1, <3>1
    <3> QED BY <1>8, <3>2, <3>3
  <2> QED BY <1>6, <1>8, <2>1, <2>2
<1> HIDE DEF s
<1>10. TakenUpTo(s, b, c, n)
  BY <1>2, <1>7, <1>8, <1>9 DEF TakenUpTo
<1> QED BY <1>10 DEF s

LEMMA TakeOverStep ==
  ASSUME NEW S, NEW old, NEW mid \in Seq(S), NEW new \in Seq(S),
         Distinct(mid), Distinct(new), NEW b, NEW c, InARow(b, c, old, mid, new),
         NEW n \in DOMAIN b.moves, NEW r, TakenUpTo(r, b, c, n - 1)
  PROVE  TakenUpTo(TakeOverOne(r, b.moves[n], c), b, c, n)
<1> DEFINE o == b.moves[n]
           again == {k \in DOMAIN r.new : r.new[k].from = o.to}
<1>1. /\ r \in Taken /\ OnceEach(r.kept) /\ OnceEach(r.new)
      /\ r.kept \in Seq(Moves) /\ r.new \in Seq(Moves)
      /\ ToSet(r.new) \subseteq ToSet(c.moves)
  BY DEF TakenUpTo, Taken
<1>2. \A k \in DOMAIN b.moves : k \in Nat
  <2>1. b.moves \in Seq(Moves)
    BY DEF InARow, ChangeSets
  <2> QED BY <2>1, Terms
<1>3. ASSUME again # {}
      PROVE  TakenUpTo(TakeOverOne(r, o, c), b, c, n)
  <2> DEFINE k == CHOOSE k \in again : \A l \in again : k <= l
             m == r.new[k]
             rest == Front([r.new EXCEPT ![k] = Last(r.new)])
             p == Pair(o.from, m.to)
  <2>1. \A i, l \in again : i = l
    <3> SUFFICES ASSUME NEW i \in again, NEW l \in again PROVE i = l
      OBVIOUS
    <3>1. /\ r.new[i] \in ToSet(c.moves) /\ r.new[l] \in ToSet(c.moves)
          /\ r.new[i].from = r.new[l].from
      BY <1>1 DEF ToSet
    <3>2. /\ r.new[i].to \in Indices(new) /\ r.new[l].to \in Indices(new)
          /\ At(new, r.new[i].to) = At(new, r.new[l].to)
      BY <3>1 DEF InARow, Moved, Aligned
    <3>3. r.new[i].to = r.new[l].to
      BY <3>2 DEF Distinct
    <3> QED BY <1>1, <3>3 DEF OnceEach
  <2>2. \A l \in again : l \in Nat
    BY <1>1, Terms
  <2>3. \E i \in again : \A l \in again : i <= l
    BY <1>3, <2>1, <2>2
  <2>4. k \in again
    BY <2>3
  <2>5. TakeOverOne(r, o, c) = [kept |-> Append(r.kept, p), new |-> rest]
    BY <1>3 DEF TakeOverOne
  <2> HIDE DEF k
  <2>6. k \in DOMAIN r.new /\ m.from = o.to /\ m \in ToSet(c.moves)
    BY <1>1, <2>4 DEF ToSet
  <2>7. /\ rest \in Seq(Moves) /\ OnceEach(rest)
        /\ \A l \in ToSet(rest) : l \in ToSet(r.new) /\ l # m
    BY <1>1, <2>6, TakenOut
  <2> HIDE DEF rest
  <2>8. GoneOn(o, p, c, rest) /\ p = Pair(p.from, p.to)
    <3>1. p.from = o.from /\ p.to = m.to
      BY DEF Pair
    <3>2. m \in ToSet(c.moves) \ ToSet(rest)
      BY <2>6, <2>7
    <3> HIDE DEF m, o
    <3> QED BY <2>6, <3>1, <3>2 DEF GoneOn
  <2> HIDE DEF p
  <2>9. ToSet(rest) \subseteq ToSet(r.new)
    BY <2>7
  <2>10. TakenUpTo([kept |-> Append(r.kept, p), new |-> rest], b, c, n)
    BY <2>7, <2>8, <2>9, OneMoreKept
  <2> QED BY <2>5, <2>10
<1>4. ASSUME again = {}, o.to \in c.deletions
      PROVE  TakenUpTo(TakeOverOne(r, o, c), b, c, n)
  <2>1. TakeOverOne(r, o, c) = r
    BY <1>4 DEF TakeOverOne
  <2>2. \A k \in DOMAIN b.moves : k <= n - 1 => k <= n
    BY <1>2
  <2>3. TakenUpTo(r, b, c, n)
    BY <2>2 DEF TakenUpTo
  <2> QED BY <2>1, <2>3
<1>5. ASSUME again = {}, o.to \notin c.deletions
      PROVE  TakenUpTo(TakeOverOne(r, o, c), b, c, n)
  <2> DEFINE p == Pair(o.from, After(c, o.to))
  <2>1. TakeOverOne(r, o, c) = [kept |-> Append(r.kept, p), new |-> r.new]
    BY <1>5 DEF TakeOverOne
  <2>2. p.from = o.from /\ p.to = After(c, o.to) /\ p = Pair(p.from, p.to)
    BY DEF Pair
  <2> HIDE DEF p
  <2>3. GoneOn(o, p, c, r.new)
    BY <1>5, <2>2 DEF GoneOn
  <2> HIDE DEF o
  <2>4. GoneOn(b.moves[n], p, c, r.new)
    BY <2>3 DEF o
  <2>5. TakenUpTo([kept |-> Append(r.kept, p), new |-> r.new], b, c, n)
    BY <1>1, <2>2, <2>4, OneMoreKept
  <2> QED BY <2>1, <2>5
<1> QED BY <1>3, <1>4, <1>5

\* What the first part of merge does to the moves.
LEMMA MovesTakenOver ==
  ASSUME NEW S, NEW old, NEW mid \in Seq(S), NEW new \in Seq(S),
         Distinct(mid), Distinct(new), NEW b, NEW c, InARow(b, c, old, mid, new)
  PROVE  TakenUpTo(TakeOver(b.moves, c), b, c, Len(b.moves))
<1> DEFINE N == Len(b.moves)
           base == [kept |-> <<>>, new |-> c.moves]
           R == [n \in 0..N |-> {r \in Taken : TakenUpTo(r, b, c, n)}]
           g == [p \in Taken \X (1..N) |-> TakeOverOne(p[1], b.moves[p[2]], c)]
           taken[n \in 0..N] ==
             IF n = 0 THEN base ELSE TakeOverOne(taken[n - 1], b.moves[n], c)
<1>1. N \in Nat /\ DOMAIN b.moves = 1..N
  <2>1. b.moves \in Seq(Moves)
    BY DEF InARow, ChangeSets
  <2> QED BY <2>1, Terms
<1>2. base \in Taken /\ TakenUpTo(base, b, c, 0)
  <2>1. c.moves \in Seq(Moves) /\ OnceEach(c.moves)
    BY DEF InARow, ChangeSets
  <2>2. <<>> \in Seq(Moves) /\ ToSet(<<>>) = {} /\ OnceEach(<<>>)
    BY DEF ToSet, OnceEach
  <2>3. base \in Taken /\ base.kept = <<>> /\ base.new = c.moves
    BY <2>1, <2>2 DEF Taken
  <2> HIDE DEF base
  <2> QED BY <2>1, <2>2, <2>3 DEF TakenUpTo
<1> HIDE DEF base
<1>3. \A n \in 1..N : \A r \in R[n - 1] :
        /\ r \in Taken /\ TakeOverOne(r, b.moves[n], c) \in R[n]
  <2> TAKE n \in 1..N
  <2>1. n \in 0..N /\ n - 1 \in 0..N /\ n \in DOMAIN b.moves
    BY <1>1
  <2> TAKE r \in R[n - 1]
  <2>2. r \in Taken /\ TakenUpTo(r, b, c, n - 1)
    BY <2>1
  <2>3. TakenUpTo(TakeOverOne(r, b.moves[n], c), b, c, n)
    <3> HIDE DEF R
    <3> QED BY <2>1, <2>2, TakeOverStep
  <2>4. TakeOverOne(r, b.moves[n], c) \in Taken
    BY <2>3 DEF TakenUpTo
  <2> QED BY <2>1, <2>2, <2>3, <2>4
<1>4. base \in R[0]
  BY <1>1, <1>2
<1>5. \A n \in 1..N : \A r \in R[n - 1] : g[<<r, n>>] = TakeOverOne(r, b.moves[n], c)
  BY <1>3
<1> HIDE DEF R, g, N
<1>6. \E f : f = [n \in 0..N |-> IF n = 0 THEN base
                                 ELSE TakeOverOne(f[n - 1], b.moves[n], c)]
  <2>1. \A n \in 1..N : \A r \in R[n - 1] : g[<<r, n>>] \in R[n]
    BY <1>3, <1>5
  <2>2. PICK f : MadeBySteps(f, N, base, g, R)
    BY <1>1, <1>4, <2>1, Steps
  <2>3. /\ f = [n \in 0..N |-> IF n = 0 THEN base ELSE g[<<f[n - 1], n>>]]
        /\ \A n \in 0..N : f[n] \in R[n]
    BY <2>2 DEF MadeBySteps
  <2>4. \A n \in 0..N :
          n # 0 => g[<<f[n - 1], n>>] = TakeOverOne(f[n - 1], b.moves[n], c)
    <3> TAKE n \in 0..N
    <3>1. n # 0 => n \in 1..N /\ n - 1 \in 0..N
      BY <1>1
    <3> QED BY <1>5, <2>3, <3>1
  <2>5. f = [n \in 0..N |-> IF n = 0 THEN base ELSE TakeOverOne(f[n - 1], b.moves[n], c)]
    BY <2>3, <2>4
  <2> QED BY <2>5
<1>7. taken = [n \in 0..N |-> IF n = 0 THEN base
                              ELSE TakeOverOne(taken[n - 1], b.moves[n], c)]
  BY <1>6
<1>8. TakeOver(b.moves, c) = taken[N]
  BY DEF TakeOver, base, N
<1> HIDE DEF taken
<1>9. /\ taken[0] = base
      /\ \A n \in 1..N : taken[n] = TakeOverOne(taken[n - 1], b.moves[n], c)
  <2>1. 0 \in 0..N /\ \A n \in 1..N : n \in 0..N /\ n # 0
    BY <1>1
  <2> QED BY <1>7, <2>1
<1>10. \A n \in 0..N : taken[n] \in R[n]
  <2>1. \A n \in 1..N : taken[n - 1] \in R[n - 1] => taken[n] \in R[n]
    BY <1>3, <1>9
  <2> QED BY <1>1, <1>4, <1>9, <2>1, StepsStay
<1>11. TakenUpTo(taken[N], b, c, N)
  BY <1>1, <1>10 DEF R
<1> QED BY <1>8, <1>11 DEF N

-----------------------------------------------------------------------------
(* Two change sets in one.                                                 *)

\* Where the row at position i was before b, if b has neither moved nor inserted
\* it.
Before(b, i) == shift(b.deletions, unshift(b.insertions, i))

\* The deletions and insertions of both.
BothDeleted(b, c) == add_shifted_by(b.deletions, b.insertions, c.deletions)
BothInserted(b, c) == insert_at(erase_at(b.insertions, c.deletions), c.insertions)

LEMMA InBoth ==
  ASSUME NEW b, NEW c
  PROVE  /\ \A i : i \in BothDeleted(b, c) <=>
              \/ i \in b.deletions
              \/ \E k \in c.deletions \ b.insertions : i = Before(b, k)
         /\ \A j : j \in BothInserted(b, c) <=>
              \/ j \in c.insertions
              \/ \E k \in b.insertions \ c.deletions : j = After(c, k)
<1>1. \A i : i \in BothDeleted(b, c) <=>
        \/ i \in b.deletions
        \/ \E k \in c.deletions \ b.insertions : i = Before(b, k)
  BY DEF BothDeleted, add_shifted_by, Before
<1>2. \A j : j \in BothInserted(b, c) <=>
        \/ j \in c.insertions
        \/ \E k \in b.insertions \ c.deletions : j = After(c, k)
  BY DEF BothInserted, insert_at, erase_at, shift_for_insert_at, After
<1> QED BY <1>1, <1>2

\* An element that neither b nor c deletes or inserts is a position in each of
\* the three collections.
Throughout(k, b, c, old, mid, new) ==
  /\ k \in Indices(mid) \ (b.insertions \cup c.deletions)
  /\ Before(b, k) \in Indices(old) \ BothDeleted(b, c)
  /\ At(old, Before(b, k)) = At(mid, k)
  /\ After(c, k) \in Indices(new) \ BothInserted(b, c)
  /\ At(mid, k) = At(new, After(c, k))

LEMMA KeptByBoth ==
  ASSUME NEW S, NEW old \in Seq(S), NEW mid \in Seq(S), NEW new \in Seq(S),
         Distinct(old), Distinct(mid), Distinct(new),
         NEW b, NEW c, InARow(b, c, old, mid, new)
  PROVE  /\ \A k \in Indices(mid) \ (b.insertions \cup c.deletions) :
              Throughout(k, b, c, old, mid, new)
         /\ \A i \in Indices(old) \ BothDeleted(b, c) :
              \E k : Throughout(k, b, c, old, mid, new) /\ i = Before(b, k)
         /\ \A j \in Indices(new) \ BothInserted(b, c) :
              \E k : Throughout(k, b, c, old, mid, new) /\ j = After(c, k)
<1>1. /\ Aligned(old, b.deletions, mid, b.insertions)
      /\ Aligned(mid, c.deletions, new, c.insertions)
  BY DEF InARow
<1>2. \A k \in Indices(mid) \ b.insertions :
        /\ Before(b, k) \in Indices(old) \ b.deletions
        /\ At(old, Before(b, k)) = At(mid, k)
  BY <1>1, OriginOfKept DEF Before
<1>3. \A k \in Indices(mid) \ c.deletions :
        /\ After(c, k) \in Indices(new) \ c.insertions
        /\ At(mid, k) = At(new, After(c, k))
  BY <1>1, PlaceOfKept
<1>4. b.insertions \subseteq Indices(mid) /\ c.deletions \subseteq Indices(mid)
  BY <1>1 DEF Aligned
<1>5. ASSUME NEW k \in Indices(mid) \ (b.insertions \cup c.deletions)
      PROVE  Throughout(k, b, c, old, mid, new)
  <2>1. \A l \in c.deletions \ b.insertions : Before(b, k) # Before(b, l)
    <3> TAKE l \in c.deletions \ b.insertions
    <3>1. k # l /\ l \in Indices(mid) /\ k \in Indices(mid)
      BY <1>4
    <3> QED BY <1>2, <3>1 DEF Distinct
  <2>2. \A l \in b.insertions \ c.deletions : After(c, k) # After(c, l)
    <3> TAKE l \in b.insertions \ c.deletions
    <3>1. k # l /\ l \in Indices(mid) /\ k \in Indices(mid)
      BY <1>4
    <3> QED BY <1>3, <3>1 DEF Distinct
  <2>3. Before(b, k) \notin BothDeleted(b, c)
    BY <1>2, <2>1, InBoth
  <2>4. After(c, k) \notin BothInserted(b, c)
    BY <1>3, <2>2, InBoth
  <2> QED BY <1>2, <1>3, <2>3, <2>4 DEF Throughout
<1>6. ASSUME NEW i \in Indices(old) \ BothDeleted(b, c)
      PROVE  \E k : Throughout(k, b, c, old, mid, new) /\ i = Before(b, k)
  <2>1. i \notin b.deletions /\ \A k \in c.deletions \ b.insertions : i # Before(b, k)
    BY InBoth
  <2>2. PICK k \in Indices(mid) \ b.insertions : At(old, i) = At(mid, k)
    BY <1>1, <2>1 DEF Aligned
  <2>3. i = Before(b, k)
    BY <1>2, <2>2 DEF Distinct
  <2>4. k \notin c.deletions
    BY <2>1, <2>3
  <2> QED BY <1>5, <2>3, <2>4
<1>7. ASSUME NEW j \in Indices(new) \ BothInserted(b, c)
      PROVE  \E k : Throughout(k, b, c, old, mid, new) /\ j = After(c, k)
  <2>1. j \notin c.insertions /\ \A k \in b.insertions \ c.deletions : j # After(c, k)
    BY InBoth
  <2>2. PICK k \in Indices(mid) \ c.deletions : At(mid, k) = At(new, j)
    BY <1>1, <2>1 DEF Aligned
  <2>3. j = After(c, k)
    BY <1>3, <2>2 DEF Distinct
  <2>4. k \notin b.insertions
    BY <2>1, <2>3
  <2> QED BY <1>5, <2>3, <2>4
<1> QED BY <1>5, <1>6, <1>7

LEMMA BothAligned ==
  ASSUME NEW S, NEW old \in Seq(S), NEW mid \in Seq(S), NEW new \in Seq(S),
         Distinct(old), Distinct(mid), Distinct(new),
         NEW b, NEW c, InARow(b, c, old, mid, new)
  PROVE  Aligned(old, BothDeleted(b, c), new, BothInserted(b, c))
<1> DEFINE D == BothDeleted(b, c)
           I == BothInserted(b, c)
<1>1. /\ Aligned(old, b.deletions, mid, b.insertions)
      /\ Aligned(mid, c.deletions, new, c.insertions)
  BY DEF InARow
<1>2. D \in SUBSET Indices(old)
  <2>1. b.deletions \subseteq Indices(old) /\ c.deletions \subseteq Indices(mid)
    BY <1>1 DEF Aligned
  <2>2. \A k \in c.deletions \ b.insertions : Before(b, k) \in Indices(old)
    BY <1>1, <2>1, OriginOfKept DEF Before
  <2> QED BY <2>1, <2>2, InBoth
<1>3. I \in SUBSET Indices(new)
  <2>1. b.insertions \subseteq Indices(mid) /\ c.insertions \subseteq Indices(new)
    BY <1>1 DEF Aligned
  <2>2. \A k \in b.insertions \ c.deletions : After(c, k) \in Indices(new)
    BY <1>1, <2>1, PlaceOfKept
  <2> QED BY <2>1, <2>2, InBoth
<1>4. \A j \in Indices(new) \ I : \E i \in Indices(old) \ D : At(old, i) = At(new, j)
  BY KeptByBoth DEF Throughout
<1>5. \A i \in Indices(old) \ D : \E j \in Indices(new) \ I : At(old, i) = At(new, j)
  BY KeptByBoth DEF Throughout
<1>6. ASSUME NEW i \in Indices(old) \ D, NEW k \in Indices(old) \ D,
             NEW j \in Indices(new) \ I, NEW l \in Indices(new) \ I,
             At(old, i) = At(new, j), At(old, k) = At(new, l), i < k
      PROVE  j < l
  <2>1. PICK x : Throughout(x, b, c, old, mid, new) /\ i = Before(b, x)
    BY KeptByBoth
  <2>2. PICK y : Throughout(y, b, c, old, mid, new) /\ k = Before(b, y)
    BY KeptByBoth
  <2>3. /\ x \in Indices(mid) \ b.insertions /\ y \in Indices(mid) \ b.insertions
        /\ x \in Indices(mid) \ c.deletions /\ y \in Indices(mid) \ c.deletions
        /\ At(old, i) = At(mid, x) /\ At(old, k) = At(mid, y)
    BY <2>1, <2>2 DEF Throughout
  <2>4. i \in Indices(old) \ b.deletions /\ k \in Indices(old) \ b.deletions
    BY InBoth
  <2>5. j \in Indices(new) \ c.insertions /\ l \in Indices(new) \ c.insertions
    BY InBoth
  <2>6. x < y
    BY <1>1, <1>6, <2>3, <2>4 DEF Aligned
  <2>7. At(mid, x) = At(new, j) /\ At(mid, y) = At(new, l)
    BY <1>6, <2>3
  <2> HIDE DEF D, I
  <2> QED BY <1>1, <2>3, <2>5, <2>6, <2>7 DEF Aligned
<1> HIDE DEF D, I
<1>7. Aligned(old, D, new, I)
  BY <1>2, <1>3, <1>4, <1>5, <1>6 DEF Aligned
<1> QED BY <1>7 DEF D, I

\* Some of the moves, in their order.
LEMMA SomeMoves ==
  ASSUME NEW s \in Seq(Moves), OnceEach(s), NEW N \in SUBSET DOMAIN s
  PROVE  LET t == Subsequence(s, N)
         IN /\ t \in Seq(Moves) /\ OnceEach(t)
            /\ \A m : m \in ToSet(t) <=> \E k \in N : m = s[k]
<1> DEFINE a == Ascending(N)
           t == Subsequence(s, N)
<1>1. N \in SUBSET Nat /\ IsFiniteSet(N)
  <2>1. N \in SUBSET (1..Len(s)) /\ Len(s) \in Nat
    BY Terms
  <2>2. IsFiniteSet(1..Len(s))
    BY <2>1, FS_Interval
  <2>3. IsFiniteSet(N)
    BY <2>1, <2>2, FS_Subset
  <2> QED BY <2>1, <2>3
<1>2. /\ a \in Seq(N) /\ \A k \in DOMAIN a : a[k] \in N
      /\ \A k, l \in DOMAIN a : k < l => a[k] < a[l]
  BY <1>1, AscendingIndices
<1>3. \A k \in DOMAIN a : k \in Nat
  BY <1>2, Terms
<1>4. /\ t \in Seq(Moves)
      /\ \A k \in DOMAIN t : \E l \in N : t[k] = s[l]
      /\ \A l \in N : \E k \in DOMAIN t : t[k] = s[l]
  BY SubsequenceTerms
<1>5. DOMAIN t = DOMAIN a /\ \A k \in DOMAIN a : t[k] = s[a[k]]
  BY DEF Subsequence
<1> HIDE DEF a, t
<1>6. ASSUME NEW k \in DOMAIN t, NEW l \in DOMAIN t, t[k].to = t[l].to
      PROVE  k = l
  <2>1. s[a[k]].to = s[a[l]].to /\ a[k] \in N /\ a[l] \in N
    BY <1>2, <1>5, <1>6
  <2>2. a[k] = a[l] /\ a[k] \in Nat
    BY <1>1, <2>1 DEF OnceEach
  <2>3. ~(k < l) /\ ~(l < k)
    BY <1>2, <1>5, <2>2
  <2> QED BY <1>3, <1>5, <2>3
<1>7. OnceEach(t)
  BY <1>6 DEF OnceEach
<1>8. \A m : m \in ToSet(t) <=> \E k \in N : m = s[k]
  BY <1>4 DEF ToSet
<1> QED BY <1>4, <1>7, <1>8 DEF t

\* Moves that are put behind others, to other places.
LEMMA MovesAppended ==
  ASSUME NEW s \in Seq(Moves), NEW t \in Seq(Moves), OnceEach(s), OnceEach(t),
         \A l \in ToSet(s), m \in ToSet(t) : l.to # m.to
  PROVE  /\ s \o t \in Seq(Moves) /\ OnceEach(s \o t)
         /\ ToSet(s \o t) = ToSet(s) \cup ToSet(t)
<1> DEFINE u == s \o t
<1>1. /\ u \in Seq(Moves) /\ Len(u) = Len(s) + Len(t)
      /\ DOMAIN u = 1..(Len(s) + Len(t))
      /\ DOMAIN s = 1..Len(s) /\ DOMAIN t = 1..Len(t)
      /\ Len(s) \in Nat /\ Len(t) \in Nat
      /\ \A k \in 1..(Len(s) + Len(t)) :
           u[k] = IF k <= Len(s) THEN s[k] ELSE t[k - Len(s)]
  BY ConcatProperties
<1> HIDE DEF u
<1>2. \A k \in DOMAIN u :
        \/ k \in DOMAIN s /\ u[k] = s[k]
        \/ /\ k - Len(s) \in DOMAIN t /\ u[k] = t[k - Len(s)]
           /\ k \in Nat /\ k > Len(s)
  BY <1>1
<1>3. \A k \in DOMAIN s : s[k] \in ToSet(s)
  BY DEF ToSet
<1>4. \A k \in DOMAIN t : t[k] \in ToSet(t)
  BY DEF ToSet
<1>5. ASSUME NEW k \in DOMAIN u, NEW l \in DOMAIN u, u[k].to = u[l].to
      PROVE  k = l
  <2>1. CASE k \in DOMAIN s /\ u[k] = s[k] /\ l \in DOMAIN s /\ u[l] = s[l]
    BY <1>5, <2>1 DEF OnceEach
  <2>2. CASE /\ k - Len(s) \in DOMAIN t /\ u[k] = t[k - Len(s)] /\ k \in Nat
             /\ l - Len(s) \in DOMAIN t /\ u[l] = t[l - Len(s)] /\ l \in Nat
    <3>1. k - Len(s) = l - Len(s)
      BY <1>5, <2>2 DEF OnceEach
    <3> QED BY <1>1, <2>2, <3>1
  <2> QED BY <1>2, <1>3, <1>4, <1>5, <2>1, <2>2
<1>6. OnceEach(u)
  BY <1>5 DEF OnceEach
<1>7. \A m \in ToSet(u) : m \in ToSet(s) \cup ToSet(t)
  <2> TAKE m \in ToSet(u)
  <2>1. PICK k \in DOMAIN u : u[k] = m
    BY DEF ToSet
  <2> QED BY <1>2, <1>3, <1>4, <2>1
<1>8. \A m \in ToSet(s) : m \in ToSet(u)
  <2> TAKE m \in ToSet(s)
  <2>1. PICK k \in DOMAIN s : s[k] = m
    BY DEF ToSet
  <2>2. k \in DOMAIN u /\ u[k] = m
    BY <1>1, <2>1
  <2> QED BY <2>2 DEF ToSet
<1>9. \A m \in ToSet(t) : m \in ToSet(u)
  <2> TAKE m \in ToSet(t)
  <2>1. PICK k \in DOMAIN t : t[k] = m
    BY DEF ToSet
  <2>2. /\ Len(s) + k \in DOMAIN u /\ ~(Len(s) + k <= Len(s))
        /\ (Len(s) + k) - Len(s) = k
    BY <1>1
  <2>3. u[Len(s) + k] = m
    BY <1>1, <2>1, <2>2
  <2> QED BY <2>2, <2>3 DEF ToSet
<1>10. ToSet(u) = ToSet(s) \cup ToSet(t)
  BY <1>7, <1>8, <1>9
<1> QED BY <1>1, <1>6, <1>10 DEF u

\* A move of c, from where the row was before b.
Back(b, m) == Pair(Before(b, m.from), m.to)

\* The moves of both: b's that go on, and c's of the rows that b has not
\* inserted.
MovesOfBoth(r, b) ==
  LET new == Subsequence(r.new, {k \in DOMAIN r.new : r.new[k].from \notin b.insertions})
  IN r.kept \o [k \in DOMAIN new |-> Back(b, new[k])]

LEMMA MovesJoined ==
  ASSUME NEW S, NEW old \in Seq(S), NEW mid \in Seq(S), NEW new \in Seq(S),
         Distinct(old), Distinct(mid), Distinct(new),
         NEW b, NEW c, InARow(b, c, old, mid, new),
         NEW r, NEW n, TakenUpTo(r, b, c, n)
  PROVE  /\ MovesOfBoth(r, b) \in Seq(Moves) /\ OnceEach(MovesOfBoth(r, b))
         /\ \A m : m \in ToSet(MovesOfBoth(r, b)) <=>
              \/ m \in ToSet(r.kept)
              \/ \E l \in ToSet(r.new) : l.from \notin b.insertions /\ m = Back(b, l)
<1> DEFINE N == {k \in DOMAIN r.new : r.new[k].from \notin b.insertions}
           s == Subsequence(r.new, N)
           t == [k \in DOMAIN s |-> Back(b, s[k])]
<1>1. /\ r.kept \in Seq(Moves) /\ r.new \in Seq(Moves)
      /\ OnceEach(r.kept) /\ OnceEach(r.new) /\ ToSet(r.new) \subseteq ToSet(c.moves)
      /\ \A p \in ToSet(r.kept) : \E o \in ToSet(b.moves) : GoneOn(o, p, c, r.new)
  BY DEF TakenUpTo, Taken, ToSet
<1>2. /\ s \in Seq(Moves) /\ OnceEach(s)
      /\ \A m : m \in ToSet(s) <=> \E k \in N : m = r.new[k]
  BY <1>1, SomeMoves
<1>3. \A m : m \in ToSet(s) <=> m \in ToSet(r.new) /\ m.from \notin b.insertions
  BY <1>2 DEF ToSet
<1> HIDE DEF N, s
<1>4. \A m \in ToSet(s) : Back(b, m) \in Moves
  <2> TAKE m \in ToSet(s)
  <2>1. m.from \notin b.insertions /\ m \in ToSet(c.moves)
    BY <1>1, <1>3
  <2>2. m.from \in Indices(mid) /\ m.to \in Indices(new)
    BY <2>1 DEF InARow, Moved, Aligned
  <2>3. Before(b, m.from) \in Indices(old)
    BY <2>1, <2>2, OriginOfKept DEF InARow, Before
  <2> QED BY <2>2, <2>3 DEF Back, Pair, Moves, Indices
<1>5. DOMAIN t = DOMAIN s /\ \A k \in DOMAIN s : t[k] = Back(b, s[k]) /\ s[k] \in ToSet(s)
  BY DEF ToSet
<1>6. t \in Seq(Moves)
  <2>1. t = [k \in DOMAIN s |-> t[k]]
    OBVIOUS
  <2>2. \A k \in DOMAIN s : t[k] \in Moves
    BY <1>4, <1>5
  <2> HIDE DEF t
  <2> QED BY <1>2, <2>1, <2>2, MappedSequence
<1> HIDE DEF t
<1>7. \A m : m \in ToSet(t) <=> \E l \in ToSet(s) : m = Back(b, l)
  BY <1>5 DEF ToSet
<1>8. OnceEach(t)
  BY <1>2, <1>5 DEF OnceEach, Back, Pair
<1>9. \A p \in ToSet(r.kept), m \in ToSet(t) : p.to # m.to
  <2> SUFFICES ASSUME NEW p \in ToSet(r.kept), NEW m \in ToSet(t), p.to = m.to
               PROVE  FALSE
    OBVIOUS
  <2>1. PICK l \in ToSet(s) : m = Back(b, l)
    BY <1>7
  <2>2. l \in ToSet(r.new) /\ l \in ToSet(c.moves) /\ p.to = l.to
    BY <1>1, <1>3, <2>1 DEF Back, Pair
  <2>3. PICK o \in ToSet(b.moves) : GoneOn(o, p, c, r.new)
    BY <1>1
  <2>4. CASE \E x \in ToSet(c.moves) \ ToSet(r.new) : x.from = o.to /\ x.to = p.to
    <3>1. PICK x \in ToSet(c.moves) \ ToSet(r.new) : x.to = l.to
      BY <2>2, <2>4
    <3>2. PICK i \in DOMAIN c.moves : x = c.moves[i]
      BY DEF ToSet
    <3>3. PICK j \in DOMAIN c.moves : l = c.moves[j]
      BY <2>2 DEF ToSet
    <3>4. i = j
      BY <3>1, <3>2, <3>3 DEF InARow, OnceEach
    <3> QED BY <2>2, <3>1, <3>2, <3>3, <3>4
  <2>5. CASE o.to \notin c.deletions /\ p.to = After(c, o.to)
    <3>1. o.to \in Indices(mid)
      BY DEF InARow, Moved, Aligned
    <3>2. p.to \notin c.insertions
      BY <2>5, <3>1, PlaceOfKept DEF InARow
    <3>3. l.to \in c.insertions
      BY <2>2 DEF InARow, Moved
    <3> QED BY <2>2, <3>2, <3>3
  <2> QED BY <2>3, <2>4, <2>5 DEF GoneOn
<1>10. /\ r.kept \o t \in Seq(Moves) /\ OnceEach(r.kept \o t)
       /\ ToSet(r.kept \o t) = ToSet(r.kept) \cup ToSet(t)
  BY <1>1, <1>6, <1>8, <1>9, MovesAppended
<1>11. MovesOfBoth(r, b) = r.kept \o t
  BY DEF MovesOfBoth, t, s, N
<1> QED BY <1>3, <1>7, <1>10, <1>11

\* What merge makes of the two before it cleans up and sees to what is modified.
Both(b, c) ==
  [deletions |-> BothDeleted(b, c), insertions |-> BothInserted(b, c),
   modifications |-> b.modifications,
   moves |-> MovesOfBoth(TakeOver(b.moves, c), b), mapping |-> {}]

LEMMA BothFields ==
  ASSUME NEW S, NEW old \in Seq(S), NEW mid \in Seq(S), NEW new \in Seq(S),
         Distinct(old), Distinct(mid), Distinct(new),
         NEW b, NEW c, InARow(b, c, old, mid, new)
  PROVE  LET e == Both(b, c)
             r == TakeOver(b.moves, c)
         IN /\ e \in ChangeSets /\ e.mapping = {} /\ e.modifications = b.modifications
            /\ Aligned(old, e.deletions, new, e.insertions)
            /\ e.insertions = BothInserted(b, c)
            /\ OnceEach(e.moves) /\ Moved(e, old, new)
            /\ TakenUpTo(r, b, c, Len(b.moves))
            /\ \A m : m \in ToSet(e.moves) <=>
                 \/ m \in ToSet(r.kept)
                 \/ \E l \in ToSet(r.new) : l.from \notin b.insertions /\ m = Back(b, l)
<1> DEFINE e == Both(b, c)
           r == TakeOver(b.moves, c)
<1>1. /\ e.deletions = BothDeleted(b, c) /\ e.insertions = BothInserted(b, c)
      /\ e.modifications = b.modifications /\ e.moves = MovesOfBoth(r, b)
      /\ e.mapping = {}
      /\ e = [deletions |-> e.deletions, insertions |-> e.insertions,
              modifications |-> e.modifications, moves |-> e.moves, mapping |-> e.mapping]
  BY DEF Both
<1> HIDE DEF e
<1>2. TakenUpTo(r, b, c, Len(b.moves))
  BY MovesTakenOver
<1> HIDE DEF r
<1>3. /\ e.moves \in Seq(Moves) /\ OnceEach(e.moves)
      /\ \A m : m \in ToSet(e.moves) <=>
           \/ m \in ToSet(r.kept)
           \/ \E l \in ToSet(r.new) : l.from \notin b.insertions /\ m = Back(b, l)
  BY <1>1, <1>2, MovesJoined
<1>4. Aligned(old, e.deletions, new, e.insertions)
  BY <1>1, BothAligned
<1>5. e.deletions \in SUBSET Nat /\ e.insertions \in SUBSET Nat
  BY <1>4 DEF Aligned, Indices
<1>6. b.modifications \in SUBSET Nat
  BY DEF InARow, ChangeSets
<1>7. e \in ChangeSets
  BY <1>1, <1>3, <1>5, <1>6 DEF ChangeSets
<1>8. ASSUME NEW m \in ToSet(e.moves)
      PROVE  m.from \in e.deletions /\ m.to \in e.insertions /\ At(old, m.from) = At(new, m.to)
  <2>1. CASE m \in ToSet(r.kept)
    <3>1. PICK o \in ToSet(b.moves) : GoneOn(o, m, c, r.new)
      BY <1>2, <2>1 DEF TakenUpTo, ToSet
    <3>2. /\ o.from \in b.deletions /\ o.to \in b.insertions
          /\ At(old, o.from) = At(mid, o.to)
      BY DEF InARow, Moved
    <3>3. At(mid, o.to) = At(new, m.to)
      BY <3>1, SameElement
    <3>4. m.from = o.from
      BY <3>1 DEF GoneOn
    <3>5. m.to \in e.insertions
      <4>1. CASE \E x \in ToSet(c.moves) \ ToSet(r.new) : x.from = o.to /\ x.to = m.to
        <5>1. m.to \in c.insertions
          BY <4>1 DEF InARow, Moved
        <5> QED BY <1>1, <5>1, InBoth
      <4>2. CASE o.to \notin c.deletions /\ m.to = After(c, o.to)
        BY <1>1, <3>2, <4>2, InBoth
      <4> QED BY <3>1, <4>1, <4>2 DEF GoneOn
    <3> QED BY <1>1, <3>2, <3>3, <3>4, <3>5, InBoth
  <2>2. CASE \E l \in ToSet(r.new) : l.from \notin b.insertions /\ m = Back(b, l)
    <3>1. PICK l \in ToSet(r.new) : l.from \notin b.insertions /\ m = Back(b, l)
      BY <2>2
    <3>2. l \in ToSet(c.moves)
      BY <1>2, <3>1 DEF TakenUpTo
    <3>3. /\ l.from \in c.deletions /\ l.to \in c.insertions
          /\ l.from \in Indices(mid) /\ At(mid, l.from) = At(new, l.to)
      BY <3>2 DEF InARow, Moved, Aligned
    <3>4. At(old, Before(b, l.from)) = At(mid, l.from)
      BY <3>1, <3>3, OriginOfKept DEF InARow, Before
    <3>5. m.from = Before(b, l.from) /\ m.to = l.to
      BY <3>1 DEF Back, Pair
    <3>6. l.from \in c.deletions \ b.insertions
      BY <3>1, <3>3
    <3>7. m.from \in e.deletions
      BY <1>1, <3>5, <3>6, InBoth
    <3>8. m.to \in e.insertions
      BY <1>1, <3>3, <3>5, InBoth
    <3> QED BY <3>3, <3>4, <3>5, <3>7, <3>8
  <2> QED BY <1>3, <2>1, <2>2
<1>9. Moved(e, old, new)
  BY <1>8 DEF Moved
<1> QED BY <1>1, <1>2, <1>3, <1>4, <1>7, <1>9 DEF e, r

\* What can be followed through both can be followed through b, and then is where
\* c leaves it or where c moves it, by a move that is not ignored.
FollowedThroughBoth(j, k, b, c, mid, new, rest) ==
  /\ k \in Indices(mid) /\ Followed(b, k) /\ At(mid, k) = At(new, j)
  /\ \/ k \notin c.deletions /\ j \notin c.insertions /\ j = After(c, k)
     \/ \E m \in ToSet(c.moves) :
          /\ m.from = k /\ m.to = j
          /\ ~ (m \in ToSet(rest) /\ m.from \in b.insertions)

LEMMA FollowedBack ==
  ASSUME NEW S, NEW old \in Seq(S), NEW mid \in Seq(S), NEW new \in Seq(S),
         Distinct(old), Distinct(mid), Distinct(new),
         NEW b, NEW c, InARow(b, c, old, mid, new),
         NEW j \in Indices(new), Followed(Both(b, c), j)
  PROVE  \E k : FollowedThroughBoth(j, k, b, c, mid, new, TakeOver(b.moves, c).new)
<1> DEFINE e == Both(b, c)
           r == TakeOver(b.moves, c)
<1>1. /\ e.insertions = BothInserted(b, c)
      /\ TakenUpTo(r, b, c, Len(b.moves))
      /\ \A m : m \in ToSet(e.moves) <=>
           \/ m \in ToSet(r.kept)
           \/ \E l \in ToSet(r.new) : l.from \notin b.insertions /\ m = Back(b, l)
  BY BothFields
<1> HIDE DEF r
<1>2. CASE j \notin e.insertions
  <2>1. PICK k : Throughout(k, b, c, old, mid, new) /\ j = After(c, k)
    BY <1>1, <1>2, KeptByBoth
  <2>2. /\ k \in Indices(mid) /\ k \notin b.insertions /\ k \notin c.deletions
        /\ At(mid, k) = At(new, j)
    BY <2>1 DEF Throughout
  <2>3. j \notin c.insertions
    BY <1>1, <1>2, InBoth
  <2>4. Followed(b, k)
    BY <2>2 DEF Followed
  <2>5. FollowedThroughBoth(j, k, b, c, mid, new, r.new)
    BY <2>1, <2>2, <2>3, <2>4 DEF FollowedThroughBoth
  <2> QED BY <2>5 DEF r
<1>3. ASSUME NEW m \in ToSet(r.kept), m.to = j
      PROVE  \E k : FollowedThroughBoth(j, k, b, c, mid, new, r.new)
  <2>1. PICK o \in ToSet(b.moves) : GoneOn(o, m, c, r.new)
    BY <1>1 DEF TakenUpTo, ToSet
  <2>2. At(mid, o.to) = At(new, j)
    BY <1>3, <2>1, SameElement
  <2>3. o.to \in Indices(mid) /\ Followed(b, o.to)
    BY DEF InARow, Moved, Aligned, Followed
  <2>4. CASE \E x \in ToSet(c.moves) \ ToSet(r.new) : x.from = o.to /\ x.to = m.to
    BY <1>3, <2>2, <2>3, <2>4 DEF FollowedThroughBoth
  <2>5. CASE o.to \notin c.deletions /\ m.to = After(c, o.to)
    <3>1. After(c, o.to) \notin c.insertions
      BY <2>3, <2>5, PlaceOfKept DEF InARow
    <3> QED BY <1>3, <2>2, <2>3, <2>5, <3>1 DEF FollowedThroughBoth
  <2> QED BY <2>1, <2>4, <2>5 DEF GoneOn
<1>4. ASSUME NEW l \in ToSet(r.new), l.from \notin b.insertions, l.to = j
      PROVE  \E k : FollowedThroughBoth(j, k, b, c, mid, new, r.new)
  <2>1. l \in ToSet(c.moves)
    BY <1>1 DEF TakenUpTo
  <2>2. l.from \in Indices(mid) /\ At(mid, l.from) = At(new, j)
    BY <1>4, <2>1 DEF InARow, Moved, Aligned
  <2>3. Followed(b, l.from)
    BY <1>4 DEF Followed
  <2> QED BY <1>4, <2>1, <2>2, <2>3 DEF FollowedThroughBoth
<1>5. CASE \E m \in ToSet(e.moves) : m.to = j
  <2>1. PICK m \in ToSet(e.moves) : m.to = j
    BY <1>5
  <2>2. CASE m \in ToSet(r.kept)
    BY <1>3, <2>1, <2>2 DEF r
  <2>3. CASE \E l \in ToSet(r.new) : l.from \notin b.insertions /\ m = Back(b, l)
    <3>1. PICK l \in ToSet(r.new) : l.from \notin b.insertions /\ m = Back(b, l)
      BY <2>3
    <3>2. l.to = j
      BY <2>1, <3>1 DEF Back, Pair
    <3> QED BY <1>4, <3>1, <3>2 DEF r
  <2> QED BY <1>1, <2>1, <2>2, <2>3
<1> QED BY <1>2, <1>5 DEF Followed

\* The modifications of both: b's where c leaves them, c's, and b's where c moves
\* them.
ModifiedInBoth(modifications, b, c, rest) ==
  LET ignored == {m \in ToSet(rest) : m.from \in b.insertions}
      modified == {m \in ToSet(c.moves) \ ignored : m.from \in b.modifications}
  IN shift_for_insert_at(erase_at(modifications, c.deletions), c.insertions)
       \cup c.modifications \cup {m.to : m \in modified}

LEMMA MergeIsBoth ==
  ASSUME NEW b, NEW c, ~ IsEmpty(b), ~ IsEmpty(c)
  PROVE  merge(b, c) =
           LET d == clean_up_stale_moves(Both(b, c))
           IN [d EXCEPT !.modifications =
                 ModifiedInBoth(d.modifications, b, c, TakeOver(b.moves, c).new)]
BY DEF merge, Both, MovesOfBoth, Back, Before, BothDeleted, BothInserted, ModifiedInBoth

\* Among the modifications are exactly the elements that were modified.
ToldOfBoth(X, e, new, modified) ==
  /\ X \in SUBSET Indices(new)
  /\ \A j \in Indices(new) : Followed(e, j) => (j \in X <=> At(new, j) \in modified)

LEMMA BothTold ==
  ASSUME NEW S, NEW old \in Seq(S), NEW mid \in Seq(S), NEW new \in Seq(S),
         Distinct(old), Distinct(mid), Distinct(new),
         NEW b, NEW c, InARow(b, c, old, mid, new),
         NEW modified, Told(b, mid, modified), b.modifications \in SUBSET Indices(mid),
         NEW modified2, Told(c, new, modified2), c.modifications \in SUBSET Indices(new)
  PROVE  ToldOfBoth(ModifiedInBoth(b.modifications, b, c, TakeOver(b.moves, c).new),
                    Both(b, c), new, modified \cup modified2)
<1> DEFINE rest == TakeOver(b.moves, c).new
           X == ModifiedInBoth(b.modifications, b, c, rest)
           Stays(j) == \E k \in b.modifications \ c.deletions : j = After(c, k)
           Goes(j) == \E m \in ToSet(c.moves) :
                        /\ ~ (m \in ToSet(rest) /\ m.from \in b.insertions)
                        /\ m.from \in b.modifications /\ m.to = j
<1>1. \A j : j \in X <=> Stays(j) \/ j \in c.modifications \/ Goes(j)
  <2>1. \A j : j \in shift_for_insert_at(erase_at(b.modifications, c.deletions), c.insertions)
               <=> Stays(j)
    BY DEF shift_for_insert_at, erase_at, After
  <2> HIDE DEF rest
  <2> QED BY <2>1 DEF ModifiedInBoth
<1> HIDE DEF X
<1>2. \A k \in Indices(mid) \ c.deletions :
        /\ After(c, k) \in Indices(new) \ c.insertions
        /\ At(mid, k) = At(new, After(c, k))
  BY PlaceOfKept DEF InARow
<1>3. \A m \in ToSet(c.moves) : /\ m.from \in c.deletions /\ m.to \in c.insertions
                                /\ m.from \in Indices(mid) /\ m.to \in Indices(new)
                                /\ At(mid, m.from) = At(new, m.to)
  BY DEF InARow, Moved, Aligned
<1>4. X \in SUBSET Indices(new)
  <2>1. \A j : Stays(j) => j \in Indices(new)
    BY <1>2
  <2>2. \A j : Goes(j) => j \in Indices(new)
    BY <1>3
  <2> HIDE DEF Stays, Goes
  <2> QED BY <1>1, <2>1, <2>2
<1>5. ASSUME NEW j \in Indices(new), Followed(Both(b, c), j)
      PROVE  j \in X <=> At(new, j) \in modified \cup modified2
  <2>1. PICK k : FollowedThroughBoth(j, k, b, c, mid, new, rest)
    BY <1>5, FollowedBack
  <2> HIDE DEF rest
  <2>2. k \in Indices(mid) /\ Followed(b, k) /\ At(mid, k) = At(new, j)
    BY <2>1 DEF FollowedThroughBoth
  <2>3. k \in b.modifications <=> At(new, j) \in modified
    BY <2>2 DEF Told, Followed
  <2>4. Followed(c, j) => (j \in c.modifications <=> At(new, j) \in modified2)
    BY DEF Told, Followed
  <2>5. CASE k \notin c.deletions /\ j \notin c.insertions /\ j = After(c, k)
    <3>1. Followed(c, j) /\ ~ Goes(j)
      BY <1>3, <2>5 DEF Followed
    <3>2. \A l \in b.modifications \ c.deletions : j = After(c, l) => l = k
      BY <1>2, <2>2 DEF Distinct
    <3>3. Stays(j) <=> k \in b.modifications
      BY <2>5, <3>2
    <3> HIDE DEF Stays, Goes
    <3> QED BY <1>1, <2>3, <2>4, <3>1, <3>3
  <2>6. CASE \E m \in ToSet(c.moves) :
               /\ m.from = k /\ m.to = j
               /\ ~ (m \in ToSet(rest) /\ m.from \in b.insertions)
    <3>1. PICK m \in ToSet(c.moves) :
            /\ m.from = k /\ m.to = j
            /\ ~ (m \in ToSet(rest) /\ m.from \in b.insertions)
      BY <2>6
    <3>2. Followed(c, j) /\ j \in c.insertions
      BY <1>3, <3>1 DEF Followed
    <3>3. ~ Stays(j)
      BY <1>2, <3>2
    <3>4. \A l \in ToSet(c.moves) : l.to = j => l.from = k
      BY <1>3, <2>2 DEF Distinct
    <3>5. Goes(j) <=> k \in b.modifications
      BY <3>1, <3>4
    <3> HIDE DEF Stays, Goes
    <3> QED BY <1>1, <2>3, <2>4, <3>2, <3>3, <3>5
  <2> QED BY <2>1, <2>5, <2>6 DEF FollowedThroughBoth
<1>6. ToldOfBoth(X, Both(b, c), new, modified \cup modified2)
  BY <1>4, <1>5 DEF ToldOfBoth
<1> QED BY <1>6 DEF X, rest

\* A change set that is empty says that nothing has changed.
LEMMA NothingChanged ==
  ASSUME NEW S, NEW old \in Seq(S), NEW new \in Seq(S), Distinct(old), Distinct(new),
         NEW c, NEW modified, ListFits(c, old, new, modified), IsEmpty(c)
  PROVE  old = new /\ \A j \in Indices(new) : At(new, j) \notin modified
<1>1. /\ Aligned(old, {}, new, {}) /\ Told(c, new, modified)
      /\ c.insertions = {} /\ c.modifications = {}
  BY DEF ListFits, IsEmpty
<1>2. \A i \in Nat : unshift({}, i) = i
  <2> TAKE i \in Nat
  <2>1. {k \in {} : 0 <= k /\ k < i} = {}
    OBVIOUS
  <2>2. count({}, 0, i) = 0
    BY <2>1, FS_EmptySet DEF count
  <2> QED BY <2>2 DEF unshift
<1>3. ASSUME NEW i \in Indices(old), NEW j \in Indices(new), At(old, i) = At(new, j)
      PROVE  i = j
  <2>1. unshift({}, i) = unshift({}, j)
    BY <1>1, <1>3, SameRankOfKept
  <2> QED BY <1>2, <2>1 DEF Indices
<1>4. \A j \in Indices(new) : j \in Indices(old) /\ At(old, j) = At(new, j)
  BY <1>1, <1>3 DEF Aligned
<1>5. \A i \in Indices(old) : i \in Indices(new)
  BY <1>1, <1>3 DEF Aligned
<1>6. Len(old) \in Nat /\ Len(new) \in Nat
  BY Terms
<1>7. Len(old) = Len(new)
  <2>1. Len(old) > 0 => Len(old) - 1 \in Indices(old)
    BY <1>6 DEF Indices
  <2>2. Len(new) > 0 => Len(new) - 1 \in Indices(new)
    BY <1>6 DEF Indices
  <2>3. Len(old) > 0 => Len(old) - 1 \in Indices(new)
    BY <1>5, <2>1
  <2>4. Len(new) > 0 => Len(new) - 1 \in Indices(old)
    BY <1>4, <2>2
  <2> QED BY <1>6, <2>3, <2>4 DEF Indices
<1>8. \A k \in 1..Len(new) : old[k] = new[k]
  <2> TAKE k \in 1..Len(new)
  <2>1. k - 1 \in Indices(new) /\ (k - 1) + 1 = k
    BY <1>6 DEF Indices
  <2>2. At(old, k - 1) = At(new, k - 1)
    BY <1>4, <2>1
  <2> QED BY <2>1, <2>2 DEF At
<1>9. old = new
  BY <1>7, <1>8, SeqEqual
<1>10. \A j \in Indices(new) : At(new, j) \notin modified
  BY <1>1 DEF Told
<1> QED BY <1>9, <1>10

LEMMA MergedFits ==
  ASSUME NEW S, NEW old \in Seq(S), NEW mid \in Seq(S), NEW new \in Seq(S),
         Distinct(old), Distinct(mid), Distinct(new),
         NEW b \in ChangeSets, NEW modified, ListFits(b, old, mid, modified),
         OnceEach(b.moves), modified \subseteq ToSet(mid),
         NEW c \in ChangeSets, NEW modified2, ListFits(c, mid, new, modified2),
         OnceEach(c.moves)
  PROVE  /\ merge(b, c) \in ChangeSets /\ OnceEach(merge(b, c).moves)
         /\ ListFits(merge(b, c), old, new, modified \cup modified2)
<1>1. CASE IsEmpty(c)
  <2>1. merge(b, c) = b
    BY <1>1 DEF merge
  <2>2. mid = new /\ \A j \in Indices(new) : At(new, j) \notin modified2
    BY <1>1, NothingChanged
  <2>3. Told(b, new, modified \cup modified2)
    BY <2>2 DEF ListFits, Told
  <2> QED BY <2>1, <2>2, <2>3 DEF ListFits
<1>2. CASE ~ IsEmpty(c) /\ IsEmpty(b)
  <2>1. merge(b, c) = c
    BY <1>2 DEF merge
  <2>2. old = mid /\ \A j \in Indices(mid) : At(mid, j) \notin modified
    BY <1>2, NothingChanged
  <2>3. modified = {}
    BY <2>2, Elements
  <2> QED BY <2>1, <2>2, <2>3
<1>3. CASE ~ IsEmpty(c) /\ ~ IsEmpty(b)
  <2> DEFINE e == Both(b, c)
             d == clean_up_stale_moves(e)
             X == ModifiedInBoth(b.modifications, b, c, TakeOver(b.moves, c).new)
             f == merge(b, c)
  <2>1. InARow(b, c, old, mid, new)
    BY DEF InARow, ListFits
  <2>2. /\ e \in ChangeSets /\ e.mapping = {} /\ e.modifications = b.modifications
        /\ Aligned(old, e.deletions, new, e.insertions)
        /\ OnceEach(e.moves) /\ Moved(e, old, new)
    BY <2>1, BothFields
  <2>3. ToldOfBoth(X, e, new, modified \cup modified2)
    BY <2>1, BothTold DEF ListFits
  <2>4. f = [d EXCEPT !.modifications =
               ModifiedInBoth(d.modifications, b, c, TakeOver(b.moves, c).new)]
    BY <1>3, MergeIsBoth
  <2> HIDE DEF e
  <2>5. CleanedUp(d, e, old, new)
    BY <2>2, StaleMovesCleanedUp
  <2> HIDE DEF d, f
  <2>6. /\ d \in ChangeSets
        /\ Aligned(old, d.deletions, new, d.insertions) /\ Moved(d, old, new)
        /\ OnceEach(d.moves) /\ d.modifications = b.modifications /\ d.mapping = {}
        /\ \A j : Followed(d, j) => Followed(e, j)
    BY <2>2, <2>5 DEF CleanedUp
  <2>7. f = [d EXCEPT !.modifications = X]
    BY <2>4, <2>6
  <2>8. X \in SUBSET Indices(new) /\ X \in SUBSET Nat
    <3> HIDE DEF X
    <3>1. Indices(new) \subseteq Nat
      BY DEF Indices
    <3> QED BY <2>3, <3>1 DEF ToldOfBoth
  <2> HIDE DEF X
  <2>9. /\ f \in ChangeSets /\ f.deletions = d.deletions /\ f.insertions = d.insertions
        /\ f.modifications = X /\ f.moves = d.moves /\ f.mapping = d.mapping
    BY <2>6, <2>7, <2>8 DEF ChangeSets
  <2>10. Told(f, new, modified \cup modified2)
    <3>1. \A j : Followed(f, j) => Followed(e, j)
      BY <2>6, <2>9 DEF Followed
    <3>2. \A j \in Indices(new) :
            Followed(f, j) => (j \in X <=> At(new, j) \in modified \cup modified2)
      BY <2>3, <3>1 DEF ToldOfBoth
    <3> QED BY <2>9, <3>2 DEF Told, Followed
  <2>11. Moved(f, old, new)
    BY <2>6, <2>9 DEF Moved
  <2>12. ListFits(f, old, new, modified \cup modified2)
    BY <2>6, <2>8, <2>9, <2>10, <2>11 DEF ListFits
  <2> QED BY <2>6, <2>9, <2>12 DEF f
<1> QED BY <1>1, <1>2, <1>3

\* parse_complete of the observer.
LEMMA CleanedFits ==
  ASSUME NEW S, NEW old \in Seq(S), NEW new \in Seq(S), Distinct(old), Distinct(new),
         NEW c \in ChangeSets, NEW modified, ListFits(c, old, new, modified),
         OnceEach(c.moves)
  PROVE  LET d == clean_up_stale_moves(c)
         IN /\ d \in ChangeSets /\ OnceEach(d.moves)
            /\ ListFits(d, old, new, modified)
<1> DEFINE d == clean_up_stale_moves(c)
<1>1. CleanedUp(d, c, old, new)
  BY StaleMovesCleanedUp DEF ListFits
<1> HIDE DEF d
<1>2. Told(d, new, modified)
  <2>1. \A j \in Indices(new) :
          Followed(c, j) => (j \in c.modifications <=> At(new, j) \in modified)
    BY DEF ListFits, Told, Followed
  <2>2. \A j \in Indices(new) :
          Followed(d, j) => (j \in d.modifications <=> At(new, j) \in modified)
    BY <1>1, <2>1 DEF CleanedUp
  <2> QED BY <2>2 DEF Told, Followed
<1>3. ListFits(d, old, new, modified)
  BY <1>1, <1>2 DEF CleanedUp, ListFits
<1> QED BY <1>1, <1>3 DEF CleanedUp, d

-----------------------------------------------------------------------------
(* A list's builder has each move once.                                    *)

LEMMA MappedOnce ==
  ASSUME NEW s \in Seq(Moves), OnceEach(s), NEW g,
         \A k, l \in DOMAIN s : g[s[k].to] = g[s[l].to] => s[k].to = s[l].to
  PROVE  OnceEach([k \in DOMAIN s |-> Pair(s[k].from, g[s[k].to])])
BY DEF OnceEach, Pair

LEMMA MapMovesOnce ==
  ASSUME NEW c \in ChangeSets, OnceEach(c.moves), NEW g,
         \A k, l \in DOMAIN c.moves :
           g[c.moves[k].to] = g[c.moves[l].to] => c.moves[k].to = c.moves[l].to
  PROVE  /\ MapMoves(c, g).moves = [k \in DOMAIN c.moves |->
                                      Pair(c.moves[k].from, g[c.moves[k].to])]
         /\ OnceEach(MapMoves(c, g).moves)
<1>1. MapMoves(c, g).moves = [k \in DOMAIN c.moves |->
                                Pair(c.moves[k].from, g[c.moves[k].to])]
  BY DEF MapMoves, ChangeSets
<1>2. c.moves \in Seq(Moves)
  BY DEF ChangeSets
<1> QED BY <1>1, <1>2, MappedOnce

LEMMA TargetsAreNumbers ==
  ASSUME NEW c \in ChangeSets
  PROVE  c.moves \in Seq(Moves) /\ \A k \in DOMAIN c.moves : c.moves[k].to \in Nat
<1>1. c.moves \in Seq(Moves)
  BY DEF ChangeSets
<1>2. \A k \in DOMAIN c.moves : c.moves[k] \in Moves
  BY <1>1, Terms
<1> QED BY <1>1, <1>2 DEF Moves

LEMMA InsertOnce ==
  ASSUME NEW c \in ChangeSets, OnceEach(c.moves), NEW i \in Nat, NEW n \in Nat
  PROVE  OnceEach(insert(c, i, n).moves)
<1> DEFINE after == [to \in Nat |-> IF to >= i THEN to + n ELSE to]
<1>1. \A t, u \in Nat : after[t] = after[u] => t = u
  OBVIOUS
<1> HIDE DEF after
<1>2. OnceEach(MapMoves(c, after).moves)
  BY <1>1, TargetsAreNumbers, MapMovesOnce
<1>3. insert(c, i, n).moves = MapMoves(c, after).moves
  BY DEF insert, after, MapMoves, ChangeSets
<1> QED BY <1>2, <1>3

LEMMA EraseOnce ==
  ASSUME NEW c \in ChangeSets, OnceEach(c.moves), NEW i \in Nat,
         i \notin c.insertions => shift(c.deletions, unshift(c.insertions, i)) \in Nat
  PROVE  OnceEach(erase(c, i).moves)
<1> DEFINE after == [to \in Nat |-> IF to > i THEN to - 1 ELSE to]
           others == {k \in DOMAIN c.moves : c.moves[k].to # i}
           f == Deleted(c, i)
           e == [f EXCEPT !.moves = Subsequence(@, others)]
           g == MapMoves(e, after)
<1>1. erase(c, i) = [g EXCEPT !.insertions = erase_at(@, {i}),
                              !.modifications = erase_at(@, {i})]
  BY DEF erase
<1>2. \A t, u \in Nat : t # i /\ u # i /\ after[t] = after[u] => t = u
  OBVIOUS
<1>3. f \in ChangeSets /\ f.moves = c.moves
  <2>1. /\ f \in ChangeSets
        /\ f = [c EXCEPT !.deletions = IF i \in c.insertions THEN c.deletions
                  ELSE c.deletions \cup {shift(c.deletions, unshift(c.insertions, i))}]
    BY DeletedFields
  <2> HIDE DEF f
  <2> QED BY <2>1 DEF ChangeSets
<1>4. c.moves \in Seq(Moves) /\ \A k \in DOMAIN c.moves : c.moves[k].to \in Nat
  BY TargetsAreNumbers
<1> DEFINE s == Subsequence(c.moves, others)
<1>5. /\ s \in Seq(Moves) /\ OnceEach(s)
      /\ \A m : m \in ToSet(s) <=> \E k \in others : m = c.moves[k]
  BY <1>4, SomeMoves
<1>6. \A k \in DOMAIN s : s[k].to \in Nat /\ s[k].to # i
  <2> TAKE k \in DOMAIN s
  <2>1. s[k] \in ToSet(s)
    BY DEF ToSet
  <2>2. PICK l \in others : s[k] = c.moves[l]
    BY <1>5, <2>1
  <2> HIDE DEF s
  <2> QED BY <1>4, <2>2
<1> HIDE DEF after, f
<1>7. e = [f EXCEPT !.moves = s]
  BY <1>3
<1> HIDE DEF s, e
<1>8. e \in ChangeSets /\ e.moves = s
  BY <1>3, <1>5, <1>7 DEF ChangeSets
<1>9. OnceEach(g.moves)
  BY <1>2, <1>5, <1>6, <1>8, MapMovesOnce
<1>10. erase(c, i).moves = g.moves
  BY <1>1, <1>8 DEF g, MapMoves, ChangeSets
<1> QED BY <1>9, <1>10

LEMMA MoveOnce ==
  ASSUME NEW c \in ChangeSets, OnceEach(c.moves), NEW from \in Nat, NEW to \in Nat,
         Consistent(c, from)
  PROVE  OnceEach(move(c, from, to).moves)
<1> DEFINE pass == Passing(from, to)
           known == \E k \in DOMAIN c.moves : c.moves[k].to = from
           unshifted == erased_or_unshifted(c.insertions, from)
           origin == shift(c.deletions, unshifted)
           ins == insert_at(erase_at(c.insertions, {from}), {to})
           mods == IF from \in c.modifications
                   THEN insert_at(erase_at(c.modifications, {from}), {to})
                   ELSE shift_for_insert_at(erase_at(c.modifications, {from}), {to})
           moved == [c EXCEPT !.insertions = ins, !.modifications = mods]
           g == MapMoves(moved, pass)
<1>1. move(c, from, to) =
        IF known \/ unshifted = npos THEN g
        ELSE [g EXCEPT !.deletions = @ \cup {origin}, !.moves = Append(@, Pair(origin, to))]
  BY DEF move, Passing
<1>2. /\ \A t, u \in Nat : pass[t] = pass[u] => t = u
      /\ pass[from] = to /\ \A t \in Nat : pass[t] \in Nat
  <2>1. pass[from] = to /\ \A t \in Nat : pass[t] \in Nat
    BY DEF Passing
  <2>2. \A t, u \in Nat : pass[t] = pass[u] => t = u
    BY DEF Passing
  <2> QED BY <2>1, <2>2
<1>3. c.moves \in Seq(Moves) /\ \A k \in DOMAIN c.moves : c.moves[k].to \in Nat
  BY TargetsAreNumbers
<1> HIDE DEF pass
<1>4. /\ g.moves = [k \in DOMAIN c.moves |-> Pair(c.moves[k].from, pass[c.moves[k].to])]
      /\ "moves" \in DOMAIN g
  <2> HIDE DEF ins, mods
  <2> QED BY DEF MapMoves, ChangeSets
<1> HIDE DEF g
<1>5. OnceEach(g.moves)
  <2>1. \A k, l \in DOMAIN c.moves :
          pass[c.moves[k].to] = pass[c.moves[l].to] => c.moves[k].to = c.moves[l].to
    BY <1>2, <1>3
  <2>2. OnceEach([k \in DOMAIN c.moves |-> Pair(c.moves[k].from, pass[c.moves[k].to])])
    BY <1>3, <2>1, MappedOnce
  <2> QED BY <1>4, <2>2
<1>6. CASE known \/ unshifted = npos
  BY <1>1, <1>5, <1>6
<1>7. CASE ~ (known \/ unshifted = npos)
  <2>1. from \notin c.insertions
    BY <1>7 DEF erased_or_unshifted
  <2>2. origin \in Nat
    BY <2>1 DEF Consistent, erased_or_unshifted
  <2>3. g.moves \in Seq(Moves)
    <3>1. \A k \in DOMAIN c.moves : g.moves[k] \in Moves
      <4>1. \A k \in DOMAIN c.moves : c.moves[k].from \in Nat
        <5>1. \A k \in DOMAIN c.moves : c.moves[k] \in Moves
          BY <1>3, Terms
        <5> QED BY <5>1 DEF Moves
      <4> QED BY <1>2, <1>3, <1>4, <4>1 DEF Moves, Pair
    <3>2. g.moves = [k \in DOMAIN c.moves |-> g.moves[k]]
      BY <1>4
    <3> QED BY <1>3, <3>1, <3>2, MappedSequence
  <2>4. \A k \in DOMAIN g.moves : g.moves[k].to # to
    <3> TAKE k \in DOMAIN g.moves
    <3>1. k \in DOMAIN c.moves /\ g.moves[k].to = pass[c.moves[k].to]
      BY <1>4 DEF Pair
    <3>2. c.moves[k].to # from
      BY <1>7, <3>1
    <3> QED BY <1>2, <1>3, <3>1, <3>2
  <2>5. Pair(origin, to) \in Moves /\ Pair(origin, to).to = to
    BY <2>2 DEF Moves, Pair
  <2> HIDE DEF origin
  <2>6. OnceEach(Append(g.moves, Pair(origin, to)))
    BY <1>5, <2>3, <2>4, <2>5, OnceMore
  <2>7. move(c, from, to).moves = Append(g.moves, Pair(origin, to))
    BY <1>1, <1>4, <1>7
  <2> QED BY <2>6, <2>7
<1> QED BY <1>6, <1>7

-----------------------------------------------------------------------------
(* What accumulates over a list's transactions.                            *)

\* The inductive invariant of a list: its builder has each move once, and what
\* has accumulated fits the links that the callback knows and those that were
\* there when the worker last ran.
ListInv ==
  kind = "list" =>
    /\ OnceEach(change.moves) /\ shown = start
    /\ seen \in Seq(Id) /\ Distinct(seen)
    /\ changed \subseteq ToSet(start)
    /\ ~ leftover => /\ accumulated \in ChangeSets /\ OnceEach(accumulated.moves)
                     /\ ListFits(accumulated, seen, start, changed)

LEMMA ListStepOnce ==
  ASSUME ListInv, NEW rows_, NEW change_, NEW touched_,
         ListInstruction(rows_, change_, touched_), OnceEach(change_.moves)
  PROVE  ListInv'
<1>1. /\ kind = "list" /\ change' = change_ /\ kind' = kind /\ start' = start
      /\ shown' = shown /\ seen' = seen /\ changed' = changed
      /\ accumulated' = accumulated /\ leftover' = leftover
  BY DEF ListInstruction, Instruction
<1> QED BY <1>1 DEF ListInv

LEMMA NoneOnce ==
  OnceEach(<<>>)
BY DEF OnceEach

LEMMA ListInvInit == Init => ListInv
<1> SUFFICES ASSUME Init, kind = "list" PROVE ListInv
  BY DEF ListInv
<1>1. PICK n \in Lengths : rows = [i \in 1..n |-> i]
  BY DEF Init
<1>2. rows \in Seq(Id)
  <2>1. n \in Nat /\ 1..n \subseteq Id
    BY BoundsAssumption
  <2> QED BY <1>1, <2>1
<1>3. Distinct(rows)
  BY LogInvInit DEF LogInv
<1>4. Collection = rows
  BY DEF Collection
<1>5. /\ start = rows /\ shown = rows /\ seen = rows /\ changed = {}
      /\ change = NoChange /\ accumulated = NoChange
  BY <1>4 DEF Init
<1>6. NoChange \in ChangeSets /\ ListFits(NoChange, rows, rows, {})
  BY <1>2, <1>3, NothingFits
<1>7. NoChange.moves = <<>>
  BY DEF NoChange
<1>8. OnceEach(NoChange.moves)
  BY <1>7, NoneOnce
<1> QED BY <1>2, <1>3, <1>5, <1>6, <1>8 DEF ListInv

LEMMA ListInstructionsKeepOnce ==
  ASSUME LogInv, ListInv, ListInstructions
  PROVE  ListInv'
<1>1. ASSUME kind = "list"
      PROVE  /\ rows \in Seq(Id) /\ Len(rows) \in Nat
             /\ start \in Seq(Id) /\ Distinct(rows) /\ Distinct(start)
             /\ change \in ChangeSets /\ OnceEach(change.moves)
             /\ Aligned(start, change.deletions, rows, change.insertions)
             /\ Moved(change, start, rows)
  BY <1>1, Terms DEF LogInv, ListInv, ListFits
<1>2. ASSUME NEW i \in 0..Len(rows), link_list_insert(i) PROVE ListInv'
  <2>1. PICK e \in Fresh : ListInstruction(With(rows, i, e), insert(change, i, 1), touched)
    BY <1>2 DEF link_list_insert
  <2>2. kind = "list" /\ i \in Nat /\ 1 \in Nat
    BY <1>1, <2>1 DEF ListInstruction
  <2>3. OnceEach(insert(change, i, 1).moves)
    BY <1>1, <2>2, InsertOnce
  <2> QED BY <2>1, <2>3, ListStepOnce
<1>3. ASSUME kind = "list", NEW i \in Indices(rows)
      PROVE  /\ i \in Nat /\ Consistent(change, i)
             /\ i \notin change.insertions =>
                  shift(change.deletions, unshift(change.insertions, i)) \in Nat
  <2>1. i \notin change.insertions =>
        shift(change.deletions, unshift(change.insertions, i)) \in Indices(start)
    BY <1>1, <1>3, OriginOfKept
  <2>2. \A m \in ToSet(change.moves) : m.to \in change.insertions
    BY <1>1, <1>3 DEF Moved
  <2> QED BY <2>1, <2>2 DEF Consistent, Indices
<1>4. ASSUME NEW i \in Indices(rows), link_list_erase(i) PROVE ListInv'
  <2>1. ListInstruction(Without(rows, i), erase(change, i), touched) /\ kind = "list"
    BY <1>4 DEF link_list_erase, ListInstruction
  <2>2. OnceEach(erase(change, i).moves)
    BY <1>1, <1>3, <2>1, EraseOnce
  <2> QED BY <2>1, <2>2, ListStepOnce
<1>5. ASSUME NEW i \in Indices(rows), link_list_set(i) PROVE ListInv'
  <2>1. ListInstruction(rows, modify(change, i), touched \cup {At(rows, i)}) /\ kind = "list"
    BY <1>5 DEF link_list_set, ListInstruction
  <2>2. modify(change, i).moves = change.moves
    BY <1>1, <2>1 DEF modify, ChangeSets
  <2>3. OnceEach(modify(change, i).moves)
    BY <1>1, <2>1, <2>2
  <2> QED BY <2>1, <2>3, ListStepOnce
<1>6. ASSUME NEW i \in Indices(rows), NEW j \in Indices(rows), link_list_move(i, j)
      PROVE  ListInv'
  <2> DEFINE new == With(Without(rows, i), j, At(rows, i))
  <2>1. ListInstruction(new, move(change, i, j), touched) /\ kind = "list"
    BY <1>6 DEF link_list_move, ListInstruction
  <2> HIDE DEF new
  <2>2. OnceEach(move(change, i, j).moves)
    BY <1>1, <1>3, <2>1, MoveOnce
  <2> QED BY <2>1, <2>2, ListStepOnce
<1>7. ASSUME link_list_clear PROVE ListInv'
  <2>1. ListInstruction(<<>>, clear(change, Len(rows)), touched) /\ kind = "list"
    BY <1>7 DEF link_list_clear, ListInstruction
  <2>2. clear(change, Len(rows)).moves = <<>>
    BY <1>1, <2>1, ClearFields
  <2>3. OnceEach(clear(change, Len(rows)).moves)
    BY <2>2, NoneOnce
  <2> QED BY <2>1, <2>3, ListStepOnce
<1> QED BY <1>2, <1>4, <1>5, <1>6, <1>7 DEF ListInstructions

LEMMA TableInstructionsAreNot ==
  ASSUME TableInstructions
  PROVE  kind # "list" /\ kind' = kind
<1>1. ASSUME NEW rows_, NEW keys_, NEW change_, NEW touched_,
             TableInstruction(rows_, keys_, change_, touched_)
      PROVE  kind # "list" /\ kind' = kind
  BY <1>1 DEF TableInstruction, Instruction
<1> QED BY <1>1 DEF TableInstructions, insert_empty_rows, erase_rows, set_property,
          swap_rows, merge_rows, clear_table

\* The worker merges a list's change into what has accumulated.
LEMMA RunKeepsAccumulated == LogInv /\ ListInv /\ Run => ListInv'
<1> SUFFICES ASSUME LogInv, ListInv, Run, kind = "list" PROVE ListInv'
  BY DEF ListInv, Run
<1> DEFINE clean == clean_up_stale_moves(change)
           next == merge(accumulated, clean)
<1>1. /\ accumulated' = next /\ start' = rows /\ shown' = rows
      /\ changed' = (changed \cup touched) \cap ToSet(rows)
      /\ change' = NoChange /\ kind' = kind /\ seen' = seen /\ leftover' = leftover
  BY DEF Run, Collection
<1>2. /\ rows \in Seq(Id) /\ Distinct(rows) /\ start \in Seq(Id) /\ Distinct(start)
      /\ change \in ChangeSets /\ ListFits(change, start, rows, touched)
  BY DEF LogInv
<1>3. /\ OnceEach(change.moves) /\ seen \in Seq(Id) /\ Distinct(seen)
      /\ changed \subseteq ToSet(start)
  BY DEF ListInv
<1>4. /\ clean \in ChangeSets /\ OnceEach(clean.moves)
      /\ ListFits(clean, start, rows, touched)
  BY <1>2, <1>3, CleanedFits
<1> HIDE DEF clean
<1>5. ASSUME ~ leftover
      PROVE  /\ next \in ChangeSets /\ OnceEach(next.moves)
             /\ ListFits(next, seen, rows, (changed \cup touched) \cap ToSet(rows))
  <2>1. /\ accumulated \in ChangeSets /\ OnceEach(accumulated.moves)
        /\ ListFits(accumulated, seen, start, changed)
    BY <1>5 DEF ListInv
  <2>2. /\ next \in ChangeSets /\ OnceEach(next.moves)
        /\ ListFits(next, seen, rows, changed \cup touched)
    BY <1>2, <1>3, <1>4, <2>1, MergedFits
  <2> HIDE DEF next
  <2>3. ListFits(next, seen, rows, (changed \cup touched) \cap ToSet(rows))
    BY <1>2, <2>2, FitsPresent
  <2> QED BY <2>2, <2>3
<1> HIDE DEF next
<1>6. OnceEach(NoChange.moves)
  BY NoneOnce DEF NoChange
<1> QED BY <1>1, <1>2, <1>3, <1>5, <1>6 DEF ListInv

\* A builder without insertions and modifications, with all of a list's links
\* deleted, describes how the list has become empty.
LEMMA DeletedFits ==
  ASSUME NEW S, NEW old \in Seq(S), NEW new \in Seq(S), Distinct(old), Distinct(new),
         NEW c \in ChangeSets, NEW modified, ListFits(c, old, new, modified),
         c.insertions = {}, c.modifications = {}
  PROVE  LET d == [c EXCEPT !.deletions = set(Len(old))]
         IN d \in ChangeSets /\ d.moves = <<>> /\ ListFits(d, old, <<>>, {})
<1> DEFINE d == [c EXCEPT !.deletions = set(Len(old))]
<1>1. Len(old) \in Nat /\ Indices(<<>>) = {}
  BY Terms DEF Indices
<1>2. set(Len(old)) = Indices(old) /\ Indices(old) \in SUBSET Nat
  BY <1>1 DEF set, Indices
<1>3. c.moves = <<>>
  <2>1. c.moves \in Seq(Moves) /\ ToSet(c.moves) = {}
    BY DEF ChangeSets, ListFits, Moved
  <2>2. DOMAIN c.moves = {}
    BY <2>1 DEF ToSet
  <2>3. Len(c.moves) \in Nat /\ DOMAIN c.moves = 1..Len(c.moves)
    BY <2>1, Terms
  <2>4. Len(c.moves) = 0
    <3>1. Len(c.moves) > 0 => 1 \in DOMAIN c.moves
      BY <2>3
    <3> QED BY <2>2, <2>3, <3>1
  <2> QED BY <2>1, <2>4, EmptySeq
<1>4. /\ d \in ChangeSets /\ d.deletions = Indices(old) /\ d.insertions = {}
      /\ d.modifications = {} /\ d.moves = <<>> /\ d.mapping = {}
  BY <1>2, <1>3 DEF ChangeSets, ListFits
<1> HIDE DEF d
<1>5. Aligned(old, d.deletions, <<>>, d.insertions)
  BY <1>1, <1>4 DEF Aligned
<1>6. Moved(d, old, <<>>) /\ Told(d, <<>>, {})
  BY <1>1, <1>4, NoMoves DEF Moved, Told
<1>7. ListFits(d, old, <<>>, {})
  BY <1>1, <1>4, <1>5, <1>6 DEF ListFits
<1> QED BY <1>4, <1>7 DEF d

\* The links of a deleted list are merged in as deletions.
LEMMA DeletedListKeepsAccumulated == LogInv /\ ListInv /\ RunOfDeletedList => ListInv'
<1> SUFFICES ASSUME LogInv, ListInv, RunOfDeletedList PROVE ListInv'
  OBVIOUS
<1> DEFINE reported == IF start = <<>> THEN NoChange
                       ELSE [change EXCEPT !.deletions = set(Len(start))]
           next == merge(accumulated, reported)
<1>1. /\ accumulated' = next /\ start' = <<>> /\ shown' = <<>> /\ changed' = {}
      /\ change' = NoChange /\ kind' = kind /\ seen' = seen
  BY DEF RunOfDeletedList
<1>2. leftover' = \/ leftover
                  \/ start # <<>> /\ change.insertions \cup change.modifications # {}
  BY DEF RunOfDeletedList
<1>3. kind = "list"
  BY DEF RunOfDeletedList
<1>4. /\ rows \in Seq(Id) /\ Distinct(rows) /\ start \in Seq(Id) /\ Distinct(start)
      /\ change \in ChangeSets /\ ListFits(change, start, rows, touched)
  BY <1>3 DEF LogInv
<1>5. /\ seen \in Seq(Id) /\ Distinct(seen) /\ changed \subseteq ToSet(start)
  BY <1>3 DEF ListInv
<1>6. <<>> \in Seq(Id) /\ Distinct(<<>>) /\ ToSet(<<>>) = {}
  BY NoLinks
<1>7. OnceEach(NoChange.moves)
  BY NoneOnce DEF NoChange
<1>8. ASSUME ~ leftover'
      PROVE  /\ reported \in ChangeSets /\ OnceEach(reported.moves)
             /\ ListFits(reported, start, <<>>, {})
  <2>1. CASE start = <<>>
    <3>1. reported = NoChange
      BY <2>1
    <3>2. NoChange \in ChangeSets /\ ListFits(NoChange, <<>>, <<>>, {})
      BY <1>6, NothingFits
    <3> QED BY <1>7, <2>1, <3>1, <3>2
  <2>2. CASE start # <<>>
    <3>1. change.insertions = {} /\ change.modifications = {}
      BY <1>2, <1>8, <2>2
    <3> DEFINE d == [change EXCEPT !.deletions = set(Len(start))]
    <3>2. d \in ChangeSets /\ d.moves = <<>> /\ ListFits(d, start, <<>>, {})
      BY <1>4, <3>1, DeletedFits
    <3>3. reported = d
      BY <2>2
    <3> HIDE DEF d, reported
    <3> QED BY <3>2, <3>3, NoneOnce
  <2> QED BY <2>1, <2>2
<1> HIDE DEF reported
<1>9. ASSUME ~ leftover'
      PROVE  /\ next \in ChangeSets /\ OnceEach(next.moves)
             /\ ListFits(next, seen, <<>>, {})
  <2>1. /\ accumulated \in ChangeSets /\ OnceEach(accumulated.moves)
        /\ ListFits(accumulated, seen, start, changed)
    BY <1>2, <1>3, <1>9 DEF ListInv
  <2>2. /\ next \in ChangeSets /\ OnceEach(next.moves)
        /\ ListFits(next, seen, <<>>, changed \cup {})
    BY <1>4, <1>5, <1>6, <1>8, <1>9, <2>1, MergedFits
  <2> HIDE DEF next
  <2>3. ListFits(next, seen, <<>>, (changed \cup {}) \cap ToSet(<<>>))
    BY <1>6, <2>2, FitsPresent
  <2> QED BY <1>6, <2>2, <2>3
<1> HIDE DEF next
<1> QED BY <1>1, <1>3, <1>5, <1>6, <1>7, <1>9 DEF ListInv

LEMMA ListInvariant == Spec => []ListInv
<1>1. Init => ListInv
  BY ListInvInit
<1>2. LogInv /\ ListInv /\ [Next]_vars => ListInv'
  <2> SUFFICES ASSUME LogInv, ListInv, [Next]_vars PROVE ListInv'
    OBVIOUS
  <2>1. CASE ListInstructions
    BY <2>1, ListInstructionsKeepOnce
  <2>2. CASE TableInstructions
    BY <2>2, TableInstructionsAreNot DEF ListInv
  <2>3. CASE Run
    BY <2>3, RunKeepsAccumulated
  <2>4. CASE RunOfDeletedList
    BY <2>4, DeletedListKeepsAccumulated
  <2>5. CASE UNCHANGED vars
    BY <2>5 DEF ListInv, vars
  <2> QED BY <2>1, <2>2, <2>3, <2>4, <2>5 DEF Next
<1> QED BY <1>1, <1>2, LogInvariant, PTL DEF Spec

\* What has accumulated for a callback of a list describes what has happened to
\* the list's links since the callback was last told, over any number of
\* transactions: each is cleaned up and merged into the one before it
\* (CollectionChangeBuilder::merge, clean_up_stale_moves).
THEOREM ListsAccumulate == Spec => [](kind = "list" => AccumulatedDescribes)
<1>1. LogInv /\ ListInv => (kind = "list" => AccumulatedDescribes)
  <2> SUFFICES ASSUME LogInv, ListInv, kind = "list", ~ leftover
               PROVE  AccumulatedDescribes
    BY DEF AccumulatedDescribes
  <2>1. /\ start \in Seq(Id) /\ Distinct(start) /\ seen \in Seq(Id) /\ Distinct(seen)
        /\ ListFits(accumulated, seen, start, changed) /\ shown = start
    BY DEF LogInv, ListInv
  <2>2. Describes(accumulated, seen, start, changed)
    BY <2>1, FittingDescribes
  <2> QED BY <2>1, <2>2 DEF AccumulatedDescribes
<1> QED BY <1>1, LogInvariant, ListInvariant, PTL

\* A modified position of the new collection, and of the old one, is of the same
\* element.
Agree(c, old, new) ==
  LET told == finalize(c)
  IN {At(old, i) : i \in told.modifications}
       = {At(new, j) : j \in told.modifications_new}

LEMMA ModifiedAgree ==
  ASSUME NEW S, NEW old \in Seq(S), NEW new \in Seq(S), Distinct(old), Distinct(new),
         NEW c, NEW modified, ListFits(c, old, new, modified)
  PROVE  Agree(c, old, new)
<1> DEFINE told == finalize(c)
           kept == c.modifications \ c.insertions
           origin(j) == shift(c.deletions, unshift(c.insertions, j))
<1>1. told.modifications_new = kept
  BY DEF finalize
<1>2. \A i : i \in told.modifications <=> \E j \in kept : i = origin(j)
  <2>1. told.modifications =
          shift_for_insert_at(erase_at(c.modifications, c.insertions), c.deletions)
    BY DEF finalize
  <2>2. told.modifications =
          {shift(c.deletions, k) : k \in {unshift(c.insertions, j) : j \in kept}}
    BY <2>1 DEF shift_for_insert_at, erase_at
  <2> HIDE DEF told
  <2> QED BY <2>2
<1>3. \A j \in kept : At(old, origin(j)) = At(new, j)
  <2> TAKE j \in kept
  <2>1. /\ Aligned(old, c.deletions, new, c.insertions)
        /\ j \in Indices(new) \ c.insertions
    BY DEF ListFits
  <2> QED BY <2>1, OriginOfKept
<1> HIDE DEF told, origin
<1>4. {At(old, i) : i \in told.modifications} = {At(new, j) : j \in kept}
  BY <1>2, <1>3
<1> QED BY <1>1, <1>4 DEF told, Agree

\* The positions that a callback of a list is told are modified, in the list that
\* it knows and in the new one, are of the same links, in every state in which
\* it may be called (CollectionChangeBuilder::finalize).
THEOREM ListModificationsAgree == Spec => [](kind = "list" => ModificationsAgree)
<1>1. LogInv /\ ListInv => (kind = "list" => ModificationsAgree)
  <2> SUFFICES ASSUME LogInv, ListInv, kind = "list", ~ leftover
               PROVE  ModificationsAgree
    BY DEF ModificationsAgree
  <2>1. /\ start \in Seq(Id) /\ Distinct(start) /\ seen \in Seq(Id) /\ Distinct(seen)
        /\ ListFits(accumulated, seen, start, changed) /\ shown = start
    BY DEF LogInv, ListInv
  <2>2. Agree(accumulated, seen, start)
    BY <2>1, ModifiedAgree
  <2> QED BY <2>1, <2>2 DEF ModificationsAgree, Agree
<1> QED BY <1>1, LogInvariant, ListInvariant, PTL

-----------------------------------------------------------------------------
(* Types, of a list's states.                                              *)

\* The variables that a log's instructions and the worker share.
LogTypes ==
  /\ kind \in Kinds /\ left \in 0..MaxOps[kind] /\ {swapped, leftover} \subseteq BOOLEAN
  /\ keys \in [Id -> Key]
  /\ touched \in SUBSET Id /\ changed \in SUBSET Id

LEMMA InstructionTypes ==
  ASSUME LogTypes, LogInv', NEW rows_, NEW change_, NEW touched_, NEW keys_,
         \A r \in Id : keys_[r] \in Key,
         Instruction(rows_, keys_, change_, touched_), swapped' \in BOOLEAN
  PROVE  LogTypes'
<1>1. /\ left > 0 /\ left' = left - 1 /\ kind' = kind /\ changed' = changed
      /\ keys' = [r \in Id |-> IF r \in ToSet(rows_) THEN keys_[r] ELSE 0]
      /\ touched' = touched_ \cap ToSet(rows_) /\ rows' = rows_ /\ leftover' = leftover
  BY DEF Instruction
<1>2. left' \in 0..MaxOps[kind]
  BY <1>1, BoundsAssumption DEF LogTypes
<1>3. keys' \in [Id -> Key]
  BY <1>1, BoundsAssumption
<1>4. ToSet(rows_) \subseteq Id
  BY <1>1, Elements DEF LogInv
<1> QED BY <1>1, <1>2, <1>3, <1>4 DEF LogTypes

LEMMA LogTypesKept ==
  ASSUME LogInv, LogTypes, LogInv', [Next]_vars
  PROVE  LogTypes'
<1>1. \A r \in Id : keys[r] \in Key
  BY DEF LogTypes
<1>2. ASSUME NEW rows_, NEW change_, NEW touched_, ListInstruction(rows_, change_, touched_)
      PROVE  LogTypes'
  <2>1. swapped' \in BOOLEAN
    BY <1>2 DEF ListInstruction, LogTypes
  <2> QED BY <1>1, <1>2, <2>1, InstructionTypes DEF ListInstruction
<1>3. ASSUME NEW rows_, NEW change_, NEW touched_, NEW keys_, \A r \in Id : keys_[r] \in Key,
             TableInstruction(rows_, keys_, change_, touched_), swapped' \in BOOLEAN
      PROVE  LogTypes'
  BY <1>3, InstructionTypes DEF TableInstruction
<1>4. swapped \in BOOLEAN /\ \A i \in Indices(rows) : At(rows, i) \in Id
  BY Elements DEF LogInv, LogTypes
<1>5. CASE ListInstructions
  BY <1>2, <1>5 DEF ListInstructions, link_list_insert, link_list_erase, link_list_set,
                    link_list_move, link_list_clear
<1>6. CASE TableInstructions
  <2>1. ASSUME NEW n \in 1..2, insert_empty_rows(n) PROVE LogTypes'
    BY <1>1, <1>3, <1>4, <2>1 DEF insert_empty_rows
  <2>2. ASSUME NEW i \in Indices(rows), erase_rows(i) PROVE LogTypes'
    BY <1>1, <1>3, <1>4, <2>2 DEF erase_rows
  <2>3. ASSUME NEW i \in Indices(rows), NEW k \in Key, set_property(i, k) PROVE LogTypes'
    <3> DEFINE after == [keys EXCEPT ![At(rows, i)] = k]
    <3>1. \A r \in Id : after[r] \in Key
      BY <1>1 DEF LogTypes
    <3>2. /\ TableInstruction(rows, after, modify(change, i), touched \cup {At(rows, i)})
          /\ swapped' \in BOOLEAN
      BY <1>4, <2>3 DEF set_property
    <3> HIDE DEF after
    <3> QED BY <1>3, <3>1, <3>2
  <2>4. ASSUME NEW i \in Indices(rows), NEW j \in Indices(rows), swap_rows(i, j)
        PROVE  LogTypes'
    BY <1>1, <1>3, <2>4 DEF swap_rows
  <2>5. ASSUME NEW i \in Indices(rows), NEW j \in Indices(rows), merge_rows(i, j)
        PROVE  LogTypes'
    <3> DEFINE old == At(rows, i)
               new == At(rows, j)
               after == [keys EXCEPT ![old] = keys[new]]
    <3>1. \A r \in Id : after[r] \in Key
      BY <1>1, <1>4 DEF LogTypes
    <3>2. /\ \E rows_, change_, touched_ : TableInstruction(rows_, after, change_, touched_)
          /\ swapped' \in BOOLEAN
      BY <1>4, <2>5 DEF merge_rows
    <3> HIDE DEF after
    <3> QED BY <1>3, <3>1, <3>2
  <2>6. ASSUME clear_table PROVE LogTypes'
    BY <1>1, <1>3, <1>4, <2>6 DEF clear_table
  <2> QED BY <1>6, <2>1, <2>2, <2>3, <2>4, <2>5, <2>6 DEF TableInstructions
<1>7. CASE Run
  <2>1. ToSet(rows) \subseteq Id
    BY Elements DEF LogInv
  <2>2. /\ kind' = kind /\ left' = left /\ swapped' = swapped /\ keys' = keys
        /\ touched' = {} /\ changed' = (changed \cup touched) \cap ToSet(rows)
        /\ leftover' = leftover
    BY <1>7 DEF Run
  <2> QED BY <2>1, <2>2 DEF LogTypes
<1>8. CASE RunOfDeletedList
  <2>1. /\ kind' = kind /\ left' = 0 /\ swapped' = swapped /\ keys' = keys
        /\ touched' = {} /\ changed' = {} /\ leftover' \in BOOLEAN
    BY <1>8 DEF RunOfDeletedList, LogTypes
  <2>2. 0 \in 0..MaxOps[kind]
    BY BoundsAssumption DEF LogTypes
  <2> QED BY <2>1, <2>2 DEF LogTypes
<1>9. CASE UNCHANGED vars
  BY <1>9 DEF vars, LogTypes
<1> QED BY <1>5, <1>6, <1>7, <1>8, <1>9 DEF Next

LEMMA TypesInvariant == Spec => []LogTypes
<1>1. Init => LogTypes
  <2> SUFFICES ASSUME Init PROVE LogTypes
    OBVIOUS
  <2>1. kind \in Kinds /\ left = MaxOps[kind] /\ MaxOps[kind] \in Nat
    BY BoundsAssumption DEF Init
  <2>2. left \in 0..MaxOps[kind]
    BY <2>1
  <2>3. {swapped, leftover} \subseteq BOOLEAN
    BY DEF Init
  <2>4. keys \in [Id -> Key] /\ touched \in SUBSET Id /\ changed \in SUBSET Id
    BY DEF Init
  <2> QED BY <2>1, <2>2, <2>3, <2>4 DEF LogTypes
<1>2. LogInv /\ LogTypes /\ LogInv' /\ [Next]_vars => LogTypes'
  BY LogTypesKept
<1> QED BY <1>1, <1>2, LogInvariant, PTL DEF Spec

\* The types of a list's states: the builder of every log of instructions, and
\* what accumulates of any number of them, are change sets, with positions that
\* are numbers (CollectionChangeBuilder's members), until a list is deleted after
\* it was changed.
THEOREM ListTypes == Spec => [](kind = "list" /\ ~ leftover => TypeOK)
<1>1. LogInv /\ ListInv /\ LogTypes => (kind = "list" /\ ~ leftover => TypeOK)
  BY DEF LogInv, ListInv, LogTypes, TypeOK
<1> QED BY <1>1, LogInvariant, ListInvariant, TypesInvariant, PTL
=============================================================================
