----------------------- MODULE NamespaceCalculationProofs -----------------------
(***************************************************************************)
(* Proofs about NamespaceCalculation: removeDuplicateSubjects for every    *)
(* input, and what a synch publishes for every number of namespaces and    *)
(* subjects.                                                               *)
(***************************************************************************)
EXTENDS NamespaceCalculationSteps, FiniteSetTheorems, FunctionTheorems,
        WellFoundedInduction

--------------------------------------------------------------------------------
(* Sorting.                                                                *)

(* The positions that a stable sort puts at or before position i.          *)
Before(ss, i) ==
    {j \in DOMAIN ss : \/ Rank[ss[j]] < Rank[ss[i]]
                       \/ Rank[ss[j]] = Rank[ss[i]] /\ j <= i}

(* Some rearrangement of any list of subjects is in the order of the       *)
(* ranks, so slices.SortFunc has a result: each element moves to the       *)
(* number of positions that come at or before it.                          *)
LEMMA SortExists ==
    ASSUME NEW n \in Nat, NEW ss \in [1..n -> Subjects]
    PROVE  \E p \in Bijection(1..n, 1..n) :
               \A i, j \in 1..n : i < j => Rank[ss[p[i]]] <= Rank[ss[p[j]]]
<1> DEFINE P == 1..n
           pos == [i \in P |-> Cardinality(Before(ss, i))]
<1>1. IsFiniteSet(P) /\ Cardinality(P) = n
    BY FS_Interval, 0 \in Int, 1 \in Int
<1>2. \A i \in P : Rank[ss[i]] \in Nat
    BY SubjectsAssumption
<1>3. ASSUME NEW i \in P
      PROVE  /\ Before(ss, i) \in SUBSET P
             /\ i \in Before(ss, i)
             /\ IsFiniteSet(Before(ss, i))
             /\ Cardinality(Before(ss, i)) \in P
    <2>1. Before(ss, i) \in SUBSET P /\ i \in Before(ss, i)
        BY <1>2 DEF Before
    <2>2. /\ IsFiniteSet(Before(ss, i))
          /\ Cardinality(Before(ss, i)) <= n
        BY <1>1, <2>1, FS_Subset
    <2>3. Cardinality(Before(ss, i)) \in Nat /\ Cardinality(Before(ss, i)) # 0
        BY <2>1, <2>2, FS_CardinalityType, FS_EmptySet
    <2> QED
        BY <2>1, <2>2, <2>3
<1>4. ASSUME NEW i \in P, NEW k \in Before(ss, i), k # i
      PROVE  Cardinality(Before(ss, k)) < Cardinality(Before(ss, i))
    <2>1. k \in P
        BY <1>3
    <2>2. i \notin Before(ss, k)
        BY <1>2, <1>4, <2>1 DEF Before
    <2>3. Before(ss, k) \in SUBSET Before(ss, i)
        <3> SUFFICES ASSUME NEW j \in Before(ss, k) PROVE j \in Before(ss, i)
            OBVIOUS
        <3>1. j \in P
            BY <1>3, <2>1
        <3> QED
            BY <1>2, <1>4, <2>1, <3>1 DEF Before
    <2>4. Before(ss, k) # Before(ss, i)
        BY <1>3, <2>2
    <2>5. /\ Cardinality(Before(ss, k)) <= Cardinality(Before(ss, i))
          /\ Cardinality(Before(ss, k)) # Cardinality(Before(ss, i))
        BY <1>3, <2>3, <2>4, FS_Subset
    <2> QED
        BY <1>3, <2>1, <2>5
<1>5. ASSUME NEW i \in P, NEW k \in P, k # i
      PROVE  k \in Before(ss, i) \/ i \in Before(ss, k)
    BY <1>2, <1>5 DEF Before
<1>6. pos \in [P -> P]
    BY <1>3
<1>7. \A i, k \in P : pos[i] = pos[k] => i = k
    <2> SUFFICES ASSUME NEW i \in P, NEW k \in P, pos[i] = pos[k], i # k PROVE FALSE
        OBVIOUS
    <2>1. Cardinality(Before(ss, i)) = Cardinality(Before(ss, k))
        OBVIOUS
    <2> QED
        BY <1>3, <1>4, <1>5, <2>1, SMTT(30)
<1> HIDE DEF pos
<1>8. pos \in Injection(P, P)
    BY <1>6, <1>7, Fun_IsInj, Zenon
<1>9. pos \in Surjection(P, P)
    BY <1>1, <1>8, FS_Injection
<1>10. pos \in Bijection(P, P)
    BY <1>8, <1>9, Fun_IsBij
<1> DEFINE p == Inverse(pos, P, P)
<1>11. p \in Bijection(P, P)
    BY <1>10, Fun_BijInverse
<1>12. p \in [P -> P]
    BY <1>11 DEF Bijection, Injection
<1>13. Range(pos) = P
    BY <1>9, Fun_SurjectionProperties
<1>14. \A i \in P : pos[p[i]] = i
    BY <1>6, <1>13, Fun_InverseProperties, ZenonT(30)
<1> HIDE DEF p
<1>15. ASSUME NEW i \in P, NEW j \in P, i < j
       PROVE  Rank[ss[p[i]]] <= Rank[ss[p[j]]]
    <2>1. p[i] \in P /\ p[j] \in P /\ pos[p[i]] = i /\ pos[p[j]] = j
        BY <1>12, <1>14
    <2>2. SUFFICES ASSUME Rank[ss[p[j]]] < Rank[ss[p[i]]] PROVE FALSE
        BY <1>2, <2>1
    <2>3. p[j] \in Before(ss, p[i]) /\ p[j] # p[i]
        BY <1>2, <2>1, <2>2 DEF Before
    <2>4. pos[p[j]] < pos[p[i]]
        BY <1>4, <2>1, <2>3 DEF pos
    <2> QED
        BY <1>15, <2>1, <2>4
<1> QED
    BY <1>11, <1>15

(* slices.SortFunc keeps the subjects and puts them in order.              *)
LEMMA SortFuncSorts ==
    ASSUME NEW n \in Nat, NEW ss \in [1..n -> Subjects]
    PROVE  /\ SortFunc(ss) \in [1..n -> Subjects]
           /\ Range(SortFunc(ss)) = Range(ss)
           /\ InOrder(SortFunc(ss))
<1> DEFINE P == 1..n
<1>1. DOMAIN ss = P
    OBVIOUS
<1>2. \E t \in Rearrangements(ss) : InOrder(t)
    <2>1. PICK p \in Bijection(P, P) :
              \A i, j \in P : i < j => Rank[ss[p[i]]] <= Rank[ss[p[j]]]
        BY SortExists
    <2> DEFINE t == [i \in P |-> ss[p[i]]]
    <2>2. t \in Rearrangements(ss)
        BY <1>1 DEF Rearrangements
    <2>3. InOrder(t)
        BY <2>1 DEF InOrder
    <2> QED
        BY <2>2, <2>3
<1>3. SortFunc(ss) \in Rearrangements(ss) /\ InOrder(SortFunc(ss))
    BY <1>2 DEF SortFunc
<1>4. PICK p \in Bijection(P, P) : SortFunc(ss) = [i \in P |-> ss[p[i]]]
    BY <1>1, <1>3 DEF Rearrangements
<1>5. p \in [P -> P] /\ \A k \in P : \E i \in P : p[i] = k
    BY <1>4, Zenon DEF Bijection, Injection, Surjection
<1>6. SortFunc(ss) \in [P -> Subjects]
    BY <1>4, <1>5, Zenon
<1>7. Range(SortFunc(ss)) \subseteq Range(ss)
    BY <1>1, <1>4, <1>5 DEF Range
<1>8. ASSUME NEW k \in P PROVE ss[k] \in Range(SortFunc(ss))
    <2>1. PICK i \in P : p[i] = k
        BY <1>5
    <2>2. SortFunc(ss)[i] = ss[k] /\ i \in DOMAIN SortFunc(ss)
        BY <1>4, <2>1
    <2> QED
        BY <2>2 DEF Range
<1>9. Range(ss) \subseteq Range(SortFunc(ss))
    BY <1>1, <1>8 DEF Range
<1> QED
    BY <1>3, <1>6, <1>7, <1>9, Zenon

--------------------------------------------------------------------------------
(* Compacting.                                                             *)

(* A set of natural numbers has a least element.                           *)
LEMMA LeastNat ==
    ASSUME NEW T \in SUBSET Nat, T # {}
    PROVE  \E i \in T : \A j \in T : i <= j
<1> DEFINE R == OpToRel(<, Nat)
<1>1. IsWellFoundedOn(R, Nat)
    BY NatLessThanWellFounded, Zenon
<1>2. \A a, b \in Nat : a < b => <<a, b>> \in R
    BY DEF OpToRel
<1> HIDE DEF R
<1>3. PICK x \in T : \A y \in T : ~(<<y, x>> \in R)
    BY <1>1, WFMin, Zenon
<1>4. ASSUME NEW y \in T PROVE x <= y
    <2>1. x \in Nat /\ y \in Nat
        OBVIOUS
    <2>2. ~(y < x)
        BY <1>2, <1>3, <2>1, Zenon
    <2> QED
        BY <2>1, <2>2
<1> QED
    BY <1>4

(* The elements of S up to m, and how many they are.                       *)
Below(S, m) == {j \in S : j <= m}

UpTo(S, m) == Cardinality(Below(S, m))

(* Counting a set of positions: the count grows by one at each of them.    *)
LEMMA UpToProperties ==
    ASSUME NEW n \in Nat, NEW S \in SUBSET (1..n)
    PROVE  /\ \A m \in Nat : UpTo(S, m) \in 0..Cardinality(S)
           /\ UpTo(S, 0) = 0
           /\ UpTo(S, n) = Cardinality(S)
           /\ \A m \in Nat \ {0} :
                  UpTo(S, m) = IF m \in S THEN UpTo(S, m - 1) + 1 ELSE UpTo(S, m - 1)
           /\ \A l, m \in Nat : l <= m => UpTo(S, l) <= UpTo(S, m)
<1>1. IsFiniteSet(S)
    BY FS_Interval, FS_Subset, 1 \in Int, n \in Int, Zenon
<1>2. \A j \in S : j \in Nat /\ 1 <= j /\ j <= n
    OBVIOUS
<1>3. \A m, j : j \in Below(S, m) <=> j \in S /\ j <= m
    BY DEF Below
<1>4. ASSUME NEW m \in Nat
      PROVE  /\ IsFiniteSet(Below(S, m))
             /\ Cardinality(Below(S, m)) \in 0..Cardinality(S)
    <2>1. Below(S, m) \in SUBSET S
        BY DEF Below
    <2>2. IsFiniteSet(Below(S, m)) /\ Cardinality(Below(S, m)) <= Cardinality(S)
        BY <1>1, <2>1, FS_Subset
    <2>3. Cardinality(Below(S, m)) \in Nat /\ Cardinality(S) \in Nat
        BY <1>1, <2>2, FS_CardinalityType
    <2> QED
        BY <2>2, <2>3
<1>5. Below(S, 0) = {}
    <2>1. \A j \in S : ~(j <= 0)
        BY <1>2
    <2> QED
        BY <2>1, <1>3, Zenon
<1>6. Below(S, n) = S
    BY <1>2, <1>3, Zenon
<1>7. ASSUME NEW m \in Nat \ {0}
      PROVE  UpTo(S, m) = IF m \in S THEN UpTo(S, m - 1) + 1 ELSE UpTo(S, m - 1)
    <2>1. m - 1 \in Nat /\ m \notin Below(S, m - 1)
        BY DEF Below
    <2>2. IsFiniteSet(Below(S, m - 1))
        BY <1>4, <2>1
    <2>3. CASE m \in S
        <3>1. Below(S, m) = Below(S, m - 1) \cup {m}
            <4>1. ASSUME NEW j \in S PROVE j <= m <=> j <= m - 1 \/ j = m
                BY <1>2
            <4> QED
                BY <2>3, <4>1, <1>3, Zenon
        <3>2. Cardinality(Below(S, m - 1) \cup {m}) = Cardinality(Below(S, m - 1)) + 1
            BY <2>1, <2>2, FS_AddElement
        <3> QED
            BY <2>3, <3>1, <3>2 DEF UpTo
    <2>4. CASE m \notin S
        <3>1. Below(S, m) = Below(S, m - 1)
            <4>1. ASSUME NEW j \in S PROVE j <= m <=> j <= m - 1
                BY <1>2, <2>4
            <4>2. \A j : j \in Below(S, m) <=> j \in Below(S, m - 1)
                BY <4>1, <1>3, Zenon
            <4> QED
                BY <4>2
        <3> QED
            BY <2>4, <3>1 DEF UpTo
    <2> QED
        BY <2>3, <2>4
<1>8. ASSUME NEW l \in Nat, NEW m \in Nat, l <= m
      PROVE  UpTo(S, l) <= UpTo(S, m)
    <2>1. Below(S, l) \in SUBSET Below(S, m)
        <3>1. \A j \in S : j <= l => j <= m
            BY <1>2, <1>8
        <3> QED
            BY <3>1, <1>3, Zenon
    <2>2. IsFiniteSet(Below(S, m))
        BY <1>4
    <2> QED
        BY <2>1, <2>2, FS_Subset DEF UpTo
<1>9. UpTo(S, 0) = 0 /\ UpTo(S, n) = Cardinality(S)
    BY <1>5, <1>6, FS_EmptySet DEF UpTo
<1>10. \A m \in Nat : UpTo(S, m) \in 0..Cardinality(S)
    BY <1>4 DEF UpTo
<1> QED
    BY <1>7, <1>8, <1>9, <1>10

(* The k-th position kept exists.                                          *)
LEMMA NthProperties ==
    ASSUME NEW n \in Nat, NEW S \in SUBSET (1..n), NEW k \in 1..Cardinality(S)
    PROVE  Nth(S, k) \in S /\ UpTo(S, Nth(S, k)) = k
<1>1. IsFiniteSet(S)
    BY FS_Interval, FS_Subset, 1 \in Int, n \in Int, Zenon
<1>2. Cardinality(S) \in Nat
    BY <1>1, FS_CardinalityType
<1> DEFINE T == {m \in Nat : k <= UpTo(S, m)}
<1>3. n \in T
    BY <1>2, UpToProperties
<1>4. PICK m \in T : \A j \in T : m <= j
    BY <1>3, LeastNat, Zenon
<1>5. m # 0
    <2>1. UpTo(S, 0) = 0
        BY UpToProperties, Zenon
    <2>2. k <= UpTo(S, m)
        BY <1>4
    <2> QED
        BY <1>2, <2>1, <2>2
<1>6. m - 1 \in Nat /\ m - 1 \notin T
    BY <1>4, <1>5
<1>7. UpTo(S, m - 1) \in Nat /\ UpTo(S, m) \in Nat
    BY <1>2, <1>4, <1>6, UpToProperties
<1>8. UpTo(S, m) = IF m \in S THEN UpTo(S, m - 1) + 1 ELSE UpTo(S, m - 1)
    BY <1>4, <1>5, UpToProperties, ZenonT(30)
<1>9. m \in S /\ UpTo(S, m) = k
    BY <1>2, <1>4, <1>6, <1>7, <1>8
<1>10. Nth(S, k) = CHOOSE i \in S : UpTo(S, i) = k
    BY DEF Nth, UpTo, Below
<1> QED
    BY <1>9, <1>10

(* Nth enumerates the positions in increasing order.                       *)
LEMMA NthEnumerates ==
    ASSUME NEW n \in Nat, NEW S \in SUBSET (1..n)
    PROVE  /\ \A i \in S : \E k \in 1..Cardinality(S) : Nth(S, k) = i
           /\ \A k, l \in 1..Cardinality(S) : k < l => Nth(S, k) < Nth(S, l)
<1>1. IsFiniteSet(S)
    BY FS_Interval, FS_Subset, 1 \in Int, n \in Int, Zenon
<1>2. Cardinality(S) \in Nat
    BY <1>1, FS_CardinalityType
<1>3. \A j \in S : j \in Nat
    OBVIOUS
<1>4. ASSUME NEW i \in S, NEW j \in S, i < j
      PROVE  UpTo(S, i) < UpTo(S, j)
    <2>1. i \in Nat /\ j \in Nat \ {0} /\ j - 1 \in Nat /\ i <= j - 1
        BY <1>4
    <2>2. UpTo(S, i) <= UpTo(S, j - 1) /\ UpTo(S, j) = UpTo(S, j - 1) + 1
        BY <2>1, UpToProperties, Zenon
    <2>3. UpTo(S, i) \in Nat /\ UpTo(S, j - 1) \in Nat
        BY <1>2, <2>1, UpToProperties, SMTT(30)
    <2> QED
        BY <2>2, <2>3
<1>5. ASSUME NEW i \in S PROVE \E k \in 1..Cardinality(S) : Nth(S, k) = i
    <2> DEFINE k == UpTo(S, i)
    <2>1. i \in Nat \ {0} /\ i - 1 \in Nat
        OBVIOUS
    <2>2. k \in 1..Cardinality(S)
        <3>1. UpTo(S, i) \in 0..Cardinality(S) /\ UpTo(S, i - 1) \in 0..Cardinality(S)
            BY <2>1, UpToProperties, Zenon
        <3>2. UpTo(S, i) = UpTo(S, i - 1) + 1
            BY <2>1, UpToProperties, Zenon
        <3> QED
            BY <1>2, <3>1, <3>2
    <2> HIDE DEF k
    <2>3. Nth(S, k) \in S /\ UpTo(S, Nth(S, k)) = k
        BY <2>2, NthProperties, Zenon
    <2>4. UpTo(S, i) = k
        BY DEF k
    <2>5. ~(i < Nth(S, k)) /\ ~(Nth(S, k) < i)
        <3>1. UpTo(S, i) = UpTo(S, Nth(S, k)) /\ UpTo(S, i) \in Nat
            BY <1>2, <2>2, <2>3, <2>4
        <3>2. ~(UpTo(S, i) < UpTo(S, Nth(S, k))) /\ ~(UpTo(S, Nth(S, k)) < UpTo(S, i))
            BY <3>1
        <3> QED
            BY <1>4, <2>3, <3>2, Zenon
    <2>6. Nth(S, k) \in Nat
        BY <2>3, <1>3, Zenon
    <2>7. Nth(S, k) = i
        BY <2>1, <2>5, <2>6
    <2> QED
        BY <2>2, <2>7
<1>6. ASSUME NEW k \in 1..Cardinality(S), NEW l \in 1..Cardinality(S), k < l
      PROVE  Nth(S, k) < Nth(S, l)
    <2>1. /\ Nth(S, k) \in S /\ UpTo(S, Nth(S, k)) = k
          /\ Nth(S, l) \in S /\ UpTo(S, Nth(S, l)) = l
        BY NthProperties
    <2>2. Nth(S, k) # Nth(S, l) /\ ~(Nth(S, l) < Nth(S, k))
        <3>1. k \in Nat /\ l \in Nat /\ ~(l < k) /\ l # k
            BY <1>2, <1>6
        <3> QED
            BY <1>4, <2>1, <3>1, Zenon
    <2>3. Nth(S, k) \in Nat /\ Nth(S, l) \in Nat
        BY <2>1, <1>3, Zenon
    <2> QED
        BY <2>2, <2>3
<1> QED
    BY <1>5, <1>6

(* slices.CompactFunc keeps every subject of a sorted list, once.          *)
LEMMA CompactFuncCompacts ==
    ASSUME NEW n \in Nat, NEW ss \in [1..n -> Subjects], InOrder(ss)
    PROVE  \E m \in Nat :
               /\ CompactFunc(ss) \in [1..m -> Subjects]
               /\ Range(CompactFunc(ss)) = Range(ss)
               /\ \A i, j \in 1..m : i < j => Rank[CompactFunc(ss)[i]] < Rank[CompactFunc(ss)[j]]
<1> DEFINE P == 1..n
           K == Kept(ss)
           m == Cardinality(K)
           t == CompactFunc(ss)
<1>1. K \in SUBSET P /\ DOMAIN ss = P
    BY DEF Kept
<1>2. m \in Nat
    BY <1>1, FS_Interval, FS_Subset, FS_CardinalityType, 1 \in Int, n \in Int, Zenon
<1>3. \A i \in P : Rank[ss[i]] \in Nat /\ ss[i] \in Subjects
    BY SubjectsAssumption
<1>4. \A k \in 1..m : Nth(K, k) \in K
    BY <1>1, NthProperties, Zenon
<1>5. \A k, l \in 1..m : k < l => Nth(K, k) < Nth(K, l)
    BY <1>1, NthEnumerates, Zenon
<1>6. \A i \in K : \E k \in 1..m : Nth(K, k) = i
    BY <1>1, NthEnumerates, Zenon
<1>7. t = [k \in 1..m |-> ss[Nth(K, k)]]
    BY DEF CompactFunc
<1>8. ASSUME NEW i \in K, NEW j \in K, i < j
      PROVE  Rank[ss[i]] < Rank[ss[j]]
    <2>1. i \in P /\ j \in P /\ j # 1 /\ j - 1 \in P /\ i <= j - 1
        BY <1>1, <1>8
    <2>2. ss[j] # ss[j - 1]
        BY <2>1 DEF Kept
    <2>3. Rank[ss[j - 1]] # Rank[ss[j]]
        BY <1>3, <2>1, <2>2, SubjectsAssumption, ZenonT(30)
    <2>4. Rank[ss[j - 1]] <= Rank[ss[j]]
        BY <1>1, <2>1 DEF InOrder
    <2>5. Rank[ss[i]] <= Rank[ss[j - 1]]
        <3>1. CASE i = j - 1
            BY <1>3, <2>1, <3>1
        <3>2. CASE i < j - 1
            BY <1>1, <2>1, <3>2 DEF InOrder
        <3> QED
            BY <2>1, <3>1, <3>2
    <2> QED
        BY <1>3, <2>1, <2>3, <2>4, <2>5
<1>9. ASSUME NEW i \in P PROVE \E k \in K : ss[k] = ss[i]
    <2> DEFINE T == {j \in P : ss[j] = ss[i]}
    <2>1. T \in SUBSET Nat /\ i \in T
        OBVIOUS
    <2>2. PICK k \in T : \A j \in T : k <= j
        BY <2>1, LeastNat, Zenon
    <2>3. k \in P /\ ss[k] = ss[i]
        BY <2>2
    <2>4. k = 1 \/ ss[k - 1] # ss[k]
        BY <2>2, <2>3
    <2> QED
        BY <1>1, <2>3, <2>4 DEF Kept
<1> HIDE DEF K, m, t
<1>10. t \in [1..m -> Subjects]
    BY <1>1, <1>3, <1>4, <1>7, ZenonT(30)
<1>11. \A i, j \in 1..m : i < j => Rank[t[i]] < Rank[t[j]]
    BY <1>4, <1>5, <1>7, <1>8
<1>12. Range(t) \subseteq Range(ss)
    BY <1>1, <1>4, <1>7, ZenonT(30) DEF Range
<1>13. ASSUME NEW i \in P PROVE ss[i] \in Range(t)
    <2>1. PICK k \in K : ss[k] = ss[i]
        BY <1>9
    <2>2. PICK l \in 1..m : Nth(K, l) = k
        BY <1>6
    <2>3. t[l] = ss[i] /\ l \in DOMAIN t
        BY <1>7, <2>1, <2>2
    <2> QED
        BY <2>3 DEF Range
<1>14. Range(ss) \subseteq Range(t)
    BY <1>1, <1>13 DEF Range
<1>15. Range(t) = Range(ss)
    BY <1>12, <1>14, Zenon
<1>16. /\ CompactFunc(ss) \in [1..m -> Subjects]
       /\ Range(CompactFunc(ss)) = Range(ss)
       /\ \A i, j \in 1..m : i < j => Rank[CompactFunc(ss)[i]] < Rank[CompactFunc(ss)[j]]
    BY <1>10, <1>11, <1>15, ZenonT(30) DEF t
<1> QED
    BY <1>2, <1>16

(* removeDuplicateSubjects, whatever AllowedSubjects answers: the same     *)
(* subjects, each of them once, in the order of the comparison. This is    *)
(* why the inner loop of synch appends a namespace to a subject's list     *)
(* at most once.                                                           *)
THEOREM RemovesDuplicates == DuplicatesRemoved
<1> SUFFICES ASSUME NEW ss \in Seq(Subjects)
             PROVE  /\ removeDuplicateSubjects(ss) \in Seq(Subjects)
                    /\ Range(removeDuplicateSubjects(ss)) = Range(ss)
                    /\ IsInjective(removeDuplicateSubjects(ss))
                    /\ InOrder(removeDuplicateSubjects(ss))
    BY DEF DuplicatesRemoved
<1> DEFINE n == Len(ss)
           u == SortFunc(ss)
           t == removeDuplicateSubjects(ss)
<1>1. n \in Nat /\ ss \in [1..n -> Subjects]
    OBVIOUS
<1> HIDE DEF n
<1>2. u \in [1..n -> Subjects] /\ Range(u) = Range(ss) /\ InOrder(u)
    BY <1>1, SortFuncSorts
<1> HIDE DEF u
<1>3. t = CompactFunc(u)
    BY DEF removeDuplicateSubjects, u
<1>4. PICK m \in Nat :
          /\ t \in [1..m -> Subjects]
          /\ Range(t) = Range(u)
          /\ \A i, j \in 1..m : i < j => Rank[t[i]] < Rank[t[j]]
    BY <1>1, <1>2, <1>3, CompactFuncCompacts, ZenonT(30)
<1> HIDE DEF t
<1>5. t \in Seq(Subjects) /\ DOMAIN t = 1..m
    BY <1>4, SeqDef
<1>6. \A i \in 1..m : Rank[t[i]] \in Nat
    BY <1>4, SubjectsAssumption
<1>7. IsInjective(t)
    BY <1>4, <1>5, <1>6, SMTT(30) DEF IsInjective
<1>8. InOrder(t)
    BY <1>4, <1>5, <1>6 DEF InOrder
<1> QED
    BY <1>2, <1>4, <1>5, <1>7, <1>8, ZenonT(30) DEF t

--------------------------------------------------------------------------------
(* The theorems.                                                           *)

(* synch and the informer, in any interleaving, keep every namespace at a  *)
(* map of its own and both AccessData maps from subjects to lists of       *)
(* namespaces.                                                             *)
THEOREM TypeCorrect == Spec => []TypeOK
<1>1. Init => TypeOK
    BY InitIInv DEF IInv
<1>2. TypeOK /\ [Next]_vars => TypeOK'
    BY TypeStep, RemovesDuplicates
<1> QED
    BY <1>1, <1>2, PTL DEF Spec

(* In every interleaving of synch with the informer's events, whatever     *)
(* AllowedSubjects answers: what is published is complete and labelled,    *)
(* what is under construction accounts for every answer so far, and no     *)
(* informer map has an access label.                                       *)
THEOREM Invariance == Spec => []IInv
<1>1. IInv /\ [Next]_vars => IInv'
    BY IInvStep, RemovesDuplicates
<1> QED
    BY <1>1, InitIInv, PTL DEF Spec

(* removeDuplicateSubjects and synch's inner loop: for any number of       *)
(* namespaces and subjects and answers of any length, every subject is     *)
(* handed the namespaces that allow it, each once, under its own label.    *)
THEOREM PublishesWhatIsCalculated == Spec => []PublishedAsCalculated
BY Invariance, IInvPublished, PTL

(* setVisibilityVirtualLabel: the visibility a published namespace shows   *)
(* is the one its own synch calculated, although the label was written     *)
(* into a map that earlier and later synchs and the informer share.        *)
THEOREM VisibilityIsCalculated == Spec => []VisibilityAsCalculated
BY Invariance, IInvVisibility, PTL

(* withVirtualLabelsAndAnnotationsForAccess: the DeepCopy keeps the access *)
(* label of every subject out of the maps the informer hands to others.    *)
THEOREM ListedUntouched == Spec => []NoSideEffectsOnListed
<1>1. IInv => NoSideEffectsOnListed
    BY DEF IInv
<1> QED
    BY <1>1, Invariance, PTL

================================================================================
