-------------------------- MODULE MasterStateProofs --------------------------
(***************************************************************************)
(* Proofs about MasterState for every key map and every value of its       *)
(* constants.  All properties follow from one inductive invariant, IInv;   *)
(* what it says of the stacks and the mask is WellFormed, stated of any    *)
(* two stacks so that it can be followed through the steps of apply.       *)
(***************************************************************************)
EXTENDS MasterState, FiniteSetTheorems, SequenceTheorems, TLAPS

-----------------------------------------------------------------------------
(* Nth and Select: picking the elements of a sequence at a set of indices  *)
(* keeps their order and loses none of them.                               *)

(* Nth is a bijection between the ranks and the elements of a finite set   *)
(* of integers.                                                            *)
Rank(I, i) == Cardinality({j \in I : j <= i})

(* A larger element of the set has a larger rank.                          *)
LEMMA RankIncreasing ==
    ASSUME NEW I \in SUBSET Int, IsFiniteSet(I),
           NEW i \in I, NEW k \in I, i < k
    PROVE  Rank(I, i) < Rank(I, k)
<1> DEFINE A == {j \in I : j <= i}
           B == {j \in I : j <= k}
<1>0. \A j \in I : j \in Int
  OBVIOUS
<1>1. A \in SUBSET B /\ k \in B /\ k \notin A
  <2>1. \A j \in I : j <= i => j <= k
    BY <1>0
  <2>2. k <= k /\ ~(k <= i)
    <3>1. i \in Int /\ k \in Int
      BY <1>0
    <3> QED  BY <3>1
  <2>3. A \in SUBSET B
    BY <2>1
  <2> QED  BY <2>2, <2>3
<1>2. IsFiniteSet(B)
  BY FS_Subset
<1>3. /\ Cardinality(A) <= Cardinality(B)
      /\ Cardinality(B) = Cardinality(A) => B = A
  <2> HIDE DEF A, B
  <2> QED  BY <1>1, <1>2, FS_Subset
<1>4. Cardinality(A) \in Nat /\ Cardinality(B) \in Nat
  <2> HIDE DEF A, B
  <2> QED  BY <1>1, <1>2, FS_Subset, FS_CardinalityType
<1>5. Cardinality(A) < Cardinality(B)
  <2> HIDE DEF A, B
  <2> QED  BY <1>1, <1>3, <1>4
<1> QED  BY <1>5 DEF Rank

(* The rank of an element is between 1 and the size of the set.            *)
LEMMA RankRange ==
    ASSUME NEW I \in SUBSET Int, IsFiniteSet(I), NEW i \in I
    PROVE  Rank(I, i) \in 1 .. Cardinality(I)
<1> DEFINE A == {j \in I : j <= i}
<1>1. A \in SUBSET I /\ i \in A
  OBVIOUS
<1>2. IsFiniteSet(A) /\ Cardinality(A) <= Cardinality(I)
  <2> HIDE DEF A
  <2> QED  BY <1>1, FS_Subset
<1>3. Cardinality(A) \in Nat /\ Cardinality(I) \in Nat
  <2> HIDE DEF A
  <2> QED  BY <1>2, FS_CardinalityType
<1>4. Cardinality(A) # 0
  <2> HIDE DEF A
  <2> QED  BY <1>1, <1>2, FS_EmptySet
<1> QED  BY <1>2, <1>3, <1>4 DEF Rank

(* Every rank up to the size of the set has an element, and Nth returns    *)
(* it.                                                                     *)
LEMMA NthProperties ==
    ASSUME NEW I \in SUBSET Int, IsFiniteSet(I), NEW r \in 1 .. Cardinality(I)
    PROVE  Nth(I, r) \in I /\ Rank(I, Nth(I, r)) = r
<1> DEFINE f == [i \in I |-> Rank(I, i)]
<1>1. Cardinality(I) \in Nat
  BY FS_CardinalityType
<1>2. f \in [I -> 1 .. Cardinality(I)]
  BY RankRange
<1>3. \A i, k \in I : f[i] = f[k] => i = k
  <2> SUFFICES ASSUME NEW i \in I, NEW k \in I, i # k
               PROVE  Rank(I, i) # Rank(I, k)
    OBVIOUS
  <2>1. i < k \/ k < i
    <3>1. i \in Int /\ k \in Int
      OBVIOUS
    <3> QED  BY <3>1
  <2>2. Rank(I, i) \in Int /\ Rank(I, k) \in Int
    BY <1>1, RankRange
  <2> QED  BY <2>1, <2>2, RankIncreasing
<1>4. f \in Injection(I, 1 .. Cardinality(I))
  <2> HIDE DEF f
  <2> QED  BY <1>2, <1>3 DEF Injection, IsInjective
<1>5. /\ IsFiniteSet(1 .. Cardinality(I))
      /\ Cardinality(1 .. Cardinality(I)) = Cardinality(I)
  BY <1>1, FS_Interval
<1>6. f \in Surjection(I, 1 .. Cardinality(I))
  <2> HIDE DEF f
  <2> QED  BY <1>4, <1>5, FS_Injection
<1>7. PICK i \in I : Rank(I, i) = r
  <2>1. \E i \in I : f[i] = r
    <3> HIDE DEF f
    <3> QED  BY <1>6 DEF Surjection
  <2> QED  BY <2>1
<1> QED  BY <1>7 DEF Nth, Rank

(* Nth grows with the rank: selecting keeps the order.                     *)
LEMMA NthIncreasing ==
    ASSUME NEW I \in SUBSET Int, IsFiniteSet(I),
           NEW r \in 1 .. Cardinality(I), NEW q \in 1 .. Cardinality(I), r < q
    PROVE  Nth(I, r) < Nth(I, q)
<1>1. /\ Nth(I, r) \in I /\ Rank(I, Nth(I, r)) = r
      /\ Nth(I, q) \in I /\ Rank(I, Nth(I, q)) = q
  BY NthProperties
<1>2. r \in Int /\ q \in Int /\ Nth(I, r) \in Int /\ Nth(I, q) \in Int
  <2>1. Cardinality(I) \in Nat
    BY FS_CardinalityType
  <2>2. \A j \in I : j \in Int
    OBVIOUS
  <2>3. r \in Int /\ q \in Int
    BY <2>1
  <2>4. Nth(I, r) \in Int /\ Nth(I, q) \in Int
    BY <1>1, <2>2
  <2> QED  BY <2>3, <2>4
<1>3. ASSUME Nth(I, q) < Nth(I, r)
      PROVE  FALSE
  <2>1. Rank(I, Nth(I, q)) < Rank(I, Nth(I, r))
    BY <1>1, <1>3, RankIncreasing
  <2> QED  BY <1>1, <1>2, <2>1
<1>4. Nth(I, q) # Nth(I, r)
  BY <1>1, <1>2
<1> QED  BY <1>2, <1>3, <1>4

(* Every element is the Nth of some rank: selecting loses none.            *)
LEMMA NthOnto ==
    ASSUME NEW I \in SUBSET Int, IsFiniteSet(I), NEW i \in I
    PROVE  Rank(I, i) \in 1 .. Cardinality(I) /\ Nth(I, Rank(I, i)) = i
<1>1. Rank(I, i) \in 1 .. Cardinality(I)
  BY RankRange
<1>2. /\ Nth(I, Rank(I, i)) \in I
      /\ Rank(I, Nth(I, Rank(I, i))) = Rank(I, i)
  BY <1>1, NthProperties
<1>3. Rank(I, i) \in Int /\ i \in Int /\ Nth(I, Rank(I, i)) \in Int
  <2>1. Cardinality(I) \in Nat
    BY FS_CardinalityType
  <2>2. \A j \in I : j \in Int
    OBVIOUS
  <2>3. Rank(I, i) \in Int
    BY <1>1, <2>1
  <2>4. Nth(I, Rank(I, i)) \in Int
    BY <1>2, <2>2
  <2> QED  BY <2>2, <2>3, <2>4
<1> DEFINE n == Nth(I, Rank(I, i))
<1>4. ~(i < n)
  <2>1. i < n => Rank(I, i) < Rank(I, n)
    BY <1>2, RankIncreasing
  <2> QED  BY <1>2, <1>3, <2>1
<1>5. ~(n < i)
  <2>1. n < i => Rank(I, n) < Rank(I, i)
    BY <1>2, RankIncreasing
  <2> QED  BY <1>2, <1>3, <2>1
<1> QED  BY <1>1, <1>3, <1>4, <1>5

(* A non-empty finite set of integers has a least element.                 *)
LEMMA LeastElement ==
    ASSUME NEW I \in SUBSET Int, IsFiniteSet(I), I # {}
    PROVE  \E i \in I : \A j \in I : i <= j
<1>1. 1 \in 1 .. Cardinality(I)
  BY FS_CardinalityType, FS_EmptySet
<1>2. Nth(I, 1) \in I /\ Rank(I, Nth(I, 1)) = 1
  BY <1>1, NthProperties
<1>3. ASSUME NEW j \in I
      PROVE  Nth(I, 1) <= j
  <2>1. j < Nth(I, 1) => Rank(I, j) < 1
    BY <1>2, RankIncreasing
  <2>2. Rank(I, j) >= 1 /\ Rank(I, j) \in Int
    BY RankRange
  <2>3. j \in Int /\ Nth(I, 1) \in Int
    BY <1>2
  <2> QED  BY <2>1, <2>2, <2>3
<1> QED  BY <1>2, <1>3

(* What Select returns.                                                    *)
LEMMA SelectProperties ==
    ASSUME NEW S, NEW s \in Seq(S), NEW I \in SUBSET (DOMAIN s)
    PROVE  /\ Select(s, I) \in Seq(S)
           /\ Len(Select(s, I)) \in 0 .. Len(s)
           /\ DOMAIN Select(s, I) = 1 .. Len(Select(s, I))
           /\ \A r \in DOMAIN Select(s, I) :
                 /\ Nth(I, r) \in I
                 /\ Select(s, I)[r] = s[Nth(I, r)]
           /\ \A i \in I : \E r \in DOMAIN Select(s, I) : Nth(I, r) = i
           /\ \A r, q \in DOMAIN Select(s, I) : r < q => Nth(I, r) < Nth(I, q)
<1>1. DOMAIN s = 1 .. Len(s) /\ Len(s) \in Nat
  BY LenProperties
<1>2. /\ IsFiniteSet(DOMAIN s)
      /\ Cardinality(DOMAIN s) = Len(s)
  <2>1. /\ IsFiniteSet(1 .. Len(s))
        /\ Cardinality(1 .. Len(s)) = IF 1 > Len(s) THEN 0 ELSE Len(s) - 1 + 1
    BY <1>1, FS_Interval
  <2> QED  BY <1>1, <2>1
<1>3. /\ IsFiniteSet(I)
      /\ Cardinality(I) <= Len(s)
  BY <1>2, FS_Subset
<1>4. Cardinality(I) \in Nat
  BY <1>3, FS_CardinalityType
<1>5. I \in SUBSET Int
  BY <1>1
<1>6. \A r \in 1 .. Cardinality(I) : Nth(I, r) \in I
  BY <1>3, <1>5, NthProperties
<1>7. \A r \in 1 .. Cardinality(I) : s[Nth(I, r)] \in S
  BY <1>1, <1>6, ElementOfSeq
<1>8. /\ Select(s, I) \in Seq(S)
      /\ Len(Select(s, I)) = Cardinality(I)
  BY <1>4, <1>7, IsASeq DEF Select
<1>9. DOMAIN Select(s, I) = 1 .. Cardinality(I)
  BY DEF Select
<1>10. \A r \in DOMAIN Select(s, I) : Select(s, I)[r] = s[Nth(I, r)]
  BY DEF Select
<1>11. \A i \in I : \E r \in DOMAIN Select(s, I) : Nth(I, r) = i
  BY <1>3, <1>5, <1>9, NthOnto
<1>12. \A r, q \in DOMAIN Select(s, I) : r < q => Nth(I, r) < Nth(I, q)
  BY <1>3, <1>5, <1>9, NthIncreasing
<1> QED
  BY <1>1, <1>3, <1>4, <1>6, <1>8, <1>9, <1>10, <1>11, <1>12

(* Without one of its elements, the larger elements of a set move down by  *)
(* one rank.                                                               *)
LEMMA RankWithout ==
    ASSUME NEW I \in SUBSET Int, IsFiniteSet(I), NEW k \in I, NEW i \in I \ {k}
    PROVE  Rank(I \ {k}, i) = IF i < k THEN Rank(I, i) ELSE Rank(I, i) - 1
<1> DEFINE A == {j \in I : j <= i}
           B == {j \in I \ {k} : j <= i}
<1>1. IsFiniteSet(A)
  <2>1. A \in SUBSET I
    OBVIOUS
  <2> HIDE DEF A
  <2> QED  BY <2>1, FS_Subset
<1>2. i \in Int /\ k \in Int /\ i # k
  OBVIOUS
<1>3. CASE i < k
  <2>1. k \notin A
    BY <1>2, <1>3
  <2>2. B = A
    BY <2>1
  <2> QED  BY <1>3, <2>2 DEF Rank
<1>4. CASE ~(i < k)
  <2>1. k \in A
    BY <1>2, <1>4
  <2>2. B = A \ {k}
    OBVIOUS
  <2>3. Cardinality(A \ {k}) = Cardinality(A) - 1
    <3> HIDE DEF A
    <3> QED  BY <1>1, <2>1, FS_RemoveElement
  <2> QED  BY <1>4, <2>2, <2>3 DEF Rank
<1> QED  BY <1>3, <1>4

(* In a set that starts at 1 without a gap, the first elements are their   *)
(* own ranks.                                                              *)
LEMMA RankPrefix ==
    ASSUME NEW I \in SUBSET (Nat \ {0}), NEW i \in Nat, 1 .. i \subseteq I
    PROVE  Cardinality({j \in I : j <= i}) = i
<1> DEFINE A == {j \in I : j <= i}
<1>1. A = 1 .. i
  <2>1. \A j \in I : j \in Nat /\ j # 0
    OBVIOUS
  <2>2. \A j \in A : j \in 1 .. i
    BY <2>1
  <2>3. \A j \in 1 .. i : j \in A
    OBVIOUS
  <2> HIDE DEF A
  <2> QED  BY <2>2, <2>3
<1>2. Cardinality(1 .. i) = i
  <2>1. Cardinality(1 .. i) = IF 1 > i THEN 0 ELSE i - 1 + 1
    BY FS_Interval
  <2> QED  BY <2>1
<1> HIDE DEF A
<1>3. Cardinality(A) = i
  BY <1>1, <1>2
<1> QED  BY <1>3 DEF A

(* The length and the entries of a selection.                              *)
LEMMA SelectLen ==
    ASSUME NEW s, NEW I, IsFiniteSet(I)
    PROVE  /\ Len(Select(s, I)) = Cardinality(I)
           /\ DOMAIN Select(s, I) = 1 .. Cardinality(I)
           /\ \A r \in 1 .. Cardinality(I) : Select(s, I)[r] = s[Nth(I, r)]
BY FS_CardinalityType DEF Select

(* Vec::remove: taking the r-th element out of a selection selects without *)
(* the index it came from.                                                 *)
LEMMA SelectWithout ==
    ASSUME NEW S, NEW s \in Seq(S), NEW I \in SUBSET (DOMAIN s), NEW k \in I
    PROVE  Select(s, I \ {k})
               = SubSeq(Select(s, I), 1, Rank(I, k) - 1)
                     \o SubSeq(Select(s, I), Rank(I, k) + 1, Len(Select(s, I)))
<1> DEFINE n == Cardinality(I)
           r == Rank(I, k)
           J == I \ {k}
           t == Select(s, I)
           u == Select(s, J)
           left == SubSeq(t, 1, r - 1)
           right == SubSeq(t, r + 1, Len(t))
<1>1. DOMAIN s = 1 .. Len(s) /\ Len(s) \in Nat
  BY LenProperties
<1>2. IsFiniteSet(DOMAIN s)
  BY <1>1, FS_Interval
<1>3. IsFiniteSet(I) /\ IsFiniteSet(J) /\ I \in SUBSET Int /\ J \in SUBSET Int
  <2>1. J \in SUBSET I
    OBVIOUS
  <2>2. IsFiniteSet(I) /\ IsFiniteSet(J)
    <3> HIDE DEF J
    <3> QED  BY <1>2, <2>1, FS_Subset
  <2> QED  BY <1>1, <2>2
<1>4. n \in Nat /\ Cardinality(J) = n - 1 /\ r \in 1 .. n
  BY <1>3, FS_CardinalityType, FS_RemoveElement, RankRange
<1>5. /\ t \in Seq(S) /\ Len(t) = n /\ DOMAIN t = 1 .. n
      /\ \A q \in 1 .. n : t[q] = s[Nth(I, q)]
  BY <1>3, SelectLen, SelectProperties
<1>6. /\ u \in Seq(S) /\ Len(u) = n - 1 /\ DOMAIN u = 1 .. n - 1
      /\ \A q \in 1 .. n - 1 : u[q] = s[Nth(J, q)]
  <2>1. J \in SUBSET (DOMAIN s)
    OBVIOUS
  <2> HIDE DEF J
  <2>2. u \in Seq(S)
    BY <2>1, SelectProperties
  <2>3. /\ Len(u) = Cardinality(J) /\ DOMAIN u = 1 .. Cardinality(J)
        /\ \A q \in 1 .. Cardinality(J) : u[q] = s[Nth(J, q)]
    BY <1>3, SelectLen
  <2> HIDE DEF u
  <2> QED  BY <1>4, <2>2, <2>3
<1>7. ASSUME NEW q \in 1 .. n - 1
      PROVE  Nth(J, q) = IF q < r THEN Nth(I, q) ELSE Nth(I, q + 1)
  <2> DEFINE p == IF q < r THEN q ELSE q + 1
             i == Nth(I, p)
  <2>1. p \in 1 .. n /\ p # r /\ r \in Int /\ q \in Int /\ p \in Int
    BY <1>4
  <2>2. i \in I /\ Rank(I, i) = p
    BY <1>3, <2>1, NthProperties
  <2>3. i \in J /\ i \in Int /\ k \in Int
    BY <1>3, <2>1, <2>2
  <2>4. i < k <=> p < r
    <3>1. i < k => p < r
      BY <1>3, <2>2, RankIncreasing
    <3>2. k < i => r < p
      BY <1>3, <2>2, RankIncreasing
    <3>3. i # k
      BY <2>3
    <3> HIDE DEF i, p, r
    <3> QED  BY <2>1, <2>3, <3>1, <3>2, <3>3
  <2>5. Rank(J, i) = IF i < k THEN p ELSE p - 1
    BY <1>3, <2>2, <2>3, RankWithout
  <2>6. Rank(J, i) = q
    <3> HIDE DEF i, r
    <3> QED  BY <2>1, <2>4, <2>5
  <2>7. Nth(J, q) = i
    BY <1>3, <2>3, <2>6, NthOnto
  <2> QED  BY <2>7
<1> HIDE DEF n, r, J, t, u
<1>8. /\ left \in Seq(S) /\ Len(left) = r - 1
      /\ \A q \in 1 .. r - 1 : left[q] = t[q]
  BY <1>4, <1>5, SubSeqProperties
<1>9. /\ right \in Seq(S) /\ Len(right) = n - r
      /\ \A q \in 1 .. n - r : right[q] = t[q + r]
  BY <1>4, <1>5, SubSeqProperties
<1> HIDE DEF left, right
<1>10. /\ left \o right \in Seq(S)
       /\ Len(left \o right) = n - 1
       /\ \A q \in 1 .. n - 1 :
             (left \o right)[q] = IF q < r THEN t[q] ELSE t[q + 1]
  <2>1. /\ left \o right \in Seq(S) /\ Len(left \o right) = n - 1
        /\ \A q \in 1 .. n - 1 :
              (left \o right)[q] = IF q <= r - 1 THEN left[q] ELSE right[q - (r - 1)]
    <3>1. /\ left \o right \in Seq(S)
          /\ Len(left \o right) = Len(left) + Len(right)
          /\ \A q \in 1 .. Len(left) + Len(right) :
                (left \o right)[q] =
                    IF q <= Len(left) THEN left[q] ELSE right[q - Len(left)]
      BY <1>8, <1>9, ConcatProperties
    <3>2. Len(left) = r - 1 /\ Len(left) + Len(right) = n - 1
      BY <1>4, <1>8, <1>9
    <3> QED  BY <3>1, <3>2
  <2>2. ASSUME NEW q \in 1 .. n - 1
        PROVE  (left \o right)[q] = IF q < r THEN t[q] ELSE t[q + 1]
    <3>1. CASE q < r
      <4>1. q \in 1 .. r - 1 /\ q <= r - 1
        BY <1>4, <3>1
      <4> QED  BY <1>8, <2>1, <3>1, <4>1
    <3>2. CASE ~(q < r)
      <4>1. /\ q - (r - 1) \in 1 .. n - r /\ ~(q <= r - 1)
            /\ q - (r - 1) + r = q + 1
        BY <1>4, <3>2
      <4> QED  BY <1>9, <2>1, <3>2, <4>1
    <3> QED  BY <3>1, <3>2
  <2> QED  BY <2>1, <2>2
<1>11. ASSUME NEW q \in 1 .. n - 1
       PROVE  u[q] = (left \o right)[q]
  <2>1. q \in 1 .. n /\ q + 1 \in 1 .. n
    BY <1>4
  <2> QED  BY <1>5, <1>6, <1>7, <1>10, <2>1
<1>12. u = left \o right
  BY <1>4, <1>6, <1>10, <1>11, SeqEqual
<1> QED  BY <1>12 DEF u, left, right, J, t, r

(* Selecting every index changes nothing.                                  *)
LEMMA SelectAll ==
    ASSUME NEW S, NEW s \in Seq(S)
    PROVE  Select(s, DOMAIN s) = s
<1> DEFINE n == Len(s)
<1>1. DOMAIN s = 1 .. n /\ n \in Nat
  BY LenProperties
<1>2. IsFiniteSet(1 .. n) /\ Cardinality(1 .. n) = n
  <2>1. /\ IsFiniteSet(1 .. n)
        /\ Cardinality(1 .. n) = IF 1 > n THEN 0 ELSE n - 1 + 1
    BY <1>1, FS_Interval
  <2> QED  BY <1>1, <2>1
<1>3. ASSUME NEW i \in 1 .. n
      PROVE  Nth(1 .. n, i) = i
  <2>1. Rank(1 .. n, i) = i
    <3>1. 1 .. n \in SUBSET (Nat \ {0}) /\ i \in Nat /\ 1 .. i \subseteq 1 .. n
      BY <1>1
    <3> QED  BY <3>1, RankPrefix DEF Rank
  <2>2. 1 .. n \in SUBSET Int
    BY <1>1
  <2> QED  BY <1>2, <2>1, <2>2, NthOnto
<1>4. /\ Len(Select(s, 1 .. n)) = n
      /\ \A r \in 1 .. n : Select(s, 1 .. n)[r] = s[Nth(1 .. n, r)]
  BY <1>2, SelectLen
<1>5. Select(s, 1 .. n) \in Seq(S)
  BY <1>1, SelectProperties
<1> HIDE DEF n
<1>6. \A r \in 1 .. n : Select(s, 1 .. n)[r] = s[r]
  BY <1>3, <1>4
<1> QED  BY <1>1, <1>4, <1>5, <1>6, SeqEqual DEF n

-----------------------------------------------------------------------------
(* The inductive invariant.                                                *)


Masked(layers, modifiers, mask) ==
    /\ mask = Keys \ (KeysOf(layers) \cup KeysOf(modifiers))
    /\ KeysOf(layers) \cap KeysOf(modifiers) = {}
    /\ Distinct(layers)
    /\ Distinct(modifiers)

PendingLast(layers, modifiers) ==
    /\ PendingOf(layers) \subseteq {Len(layers)}
    /\ PendingOf(modifiers) \subseteq {Len(modifiers)}
    /\ PendingOf(layers) = {} \/ PendingOf(modifiers) = {}

Chained(layers) ==
    \A i \in DOMAIN layers :
        LET below == IF i = 1 THEN 0 ELSE layers[i - 1].layerIndex
            mapping == LayerLookup[below][layers[i].keyIndex]
        IN  /\ mapping.hold.kind = "layer"
            /\ mapping.hold.layer = layers[i].layerIndex

Held(layers, modifiers, saved) ==
    /\ layers # << >> => layers[Len(layers)].keyIndex \in saved
    /\ KeysOf(modifiers) \subseteq saved

WellFormed(layers, modifiers, mask, saved) ==
    /\ layers \in Seq(ActiveLayer)
    /\ modifiers \in Seq(ActiveModifier)
    /\ Masked(layers, modifiers, mask)
    /\ PendingLast(layers, modifiers)
    /\ Chained(layers)
    /\ Held(layers, modifiers, saved)

(* The inductive invariant: the properties need each other.  Without       *)
(* StacksHeld a modifier key could be pushed twice; without HoldKeysMasked *)
(* a released key could stay masked; without MasksConsistent a hold key    *)
(* could be locked.                                                        *)
IInv ==
    /\ TypeOK
    /\ WellFormed(activeLayers, activeModifiers, stateMask, keyState)
    /\ MasksConsistent

-----------------------------------------------------------------------------
(* The first half of apply: what the pops leave.                           *)

(* The layers that stay are a prefix whose last key is held; the keys of   *)
(* the others are all released.                                            *)
LEMMA KeptDepthProperties ==
    ASSUME activeLayers \in Seq(ActiveLayer), NEW saved
    PROVE  /\ KeptDepth(saved) \in 0 .. Len(activeLayers)
           /\ \A i \in KeptDepth(saved) + 1 .. Len(activeLayers) :
                 activeLayers[i].keyIndex \notin saved
           /\ KeptDepth(saved) > 0
                 => activeLayers[KeptDepth(saved)].keyIndex \in saved
<1> DEFINE D == KeptDepths(saved)
           L == Len(activeLayers)
<1>1. L \in Nat
  OBVIOUS
<1>2. L \in D /\ D \in SUBSET (0 .. L)
  BY <1>1 DEF KeptDepths
<1>3. IsFiniteSet(D)
  <2>1. IsFiniteSet(0 .. L)
    BY <1>1, FS_Interval
  <2> QED  BY <1>2, <2>1, FS_Subset
<1>4. \E n \in D : \A m \in D : n <= m
  <2>1. D \in SUBSET Int
    BY <1>1, <1>2
  <2> HIDE DEF D
  <2> QED  BY <1>2, <1>3, <2>1, LeastElement
<1>5. /\ KeptDepth(saved) \in D
      /\ \A m \in D : KeptDepth(saved) <= m
  BY <1>4 DEF KeptDepth
<1>6. /\ KeptDepth(saved) \in 0 .. L
      /\ \A i \in KeptDepth(saved) + 1 .. L :
            activeLayers[i].keyIndex \notin saved
  BY <1>5 DEF KeptDepths
<1>7. ASSUME KeptDepth(saved) > 0,
             activeLayers[KeptDepth(saved)].keyIndex \notin saved
      PROVE  FALSE
  <2>1. KeptDepth(saved) - 1 \in D
    BY <1>1, <1>6, <1>7 DEF KeptDepths
  <2>2. ~(KeptDepth(saved) <= KeptDepth(saved) - 1)
    BY <1>1, <1>6
  <2> QED  BY <1>5, <2>1, <2>2
<1> QED  BY <1>6, <1>7

(* The layers that stay are those below the kept depth, unchanged.         *)
LEMMA KeptLayersProperties ==
    ASSUME activeLayers \in Seq(ActiveLayer), NEW saved
    PROVE  /\ KeptLayers(saved) \in Seq(ActiveLayer)
           /\ Len(KeptLayers(saved)) = KeptDepth(saved)
           /\ DOMAIN KeptLayers(saved) = 1 .. KeptDepth(saved)
           /\ \A i \in 1 .. KeptDepth(saved) :
                 KeptLayers(saved)[i] = activeLayers[i]
<1>1. KeptDepth(saved) \in 0 .. Len(activeLayers)
  BY KeptDepthProperties
<1>2. Len(activeLayers) \in Nat
  OBVIOUS
<1> QED  BY <1>1, <1>2 DEF KeptLayers

(* The keys of the layer stack split into those that stay and the released *)
(* ones that are popped.                                                   *)
LEMMA PoppedKeysProperties ==
    ASSUME activeLayers \in Seq(ActiveLayer), Distinct(activeLayers), NEW saved
    PROVE  /\ KeysOf(activeLayers)
                = KeysOf(KeptLayers(saved)) \cup PoppedLayerKeys(saved)
           /\ KeysOf(KeptLayers(saved)) \cap PoppedLayerKeys(saved) = {}
           /\ PoppedLayerKeys(saved) \cap saved = {}
           /\ Distinct(KeptLayers(saved))
           /\ PoppedLayerKeys(saved) = {} <=> PoppedLayers(saved) = {}
<1> DEFINE d == KeptDepth(saved)
           L == Len(activeLayers)
<1>1. /\ d \in 0 .. L /\ L \in Nat
      /\ \A i \in d + 1 .. L : activeLayers[i].keyIndex \notin saved
  BY KeptDepthProperties
<1>2. /\ DOMAIN KeptLayers(saved) = 1 .. d
      /\ \A i \in 1 .. d : KeptLayers(saved)[i] = activeLayers[i]
  BY KeptLayersProperties
<1>3. DOMAIN activeLayers = 1 .. L
  OBVIOUS
<1>4. PoppedLayers(saved) = d + 1 .. L
  BY DEF PoppedLayers
<1>5. \A i \in 1 .. L : i \in 1 .. d \/ i \in d + 1 .. L
  BY <1>1
<1>6. \A i \in 1 .. d : i \in 1 .. L /\ i \notin d + 1 .. L
  BY <1>1
<1>7. \A i \in d + 1 .. L : i \in 1 .. L
  BY <1>1
<1> HIDE DEF d, L
<1>8. KeysOf(activeLayers)
         = KeysOf(KeptLayers(saved)) \cup PoppedLayerKeys(saved)
  BY <1>2, <1>3, <1>4, <1>5, <1>6, <1>7 DEF KeysOf, PoppedLayerKeys
<1>9. KeysOf(KeptLayers(saved)) \cap PoppedLayerKeys(saved) = {}
  BY <1>2, <1>3, <1>4, <1>6, <1>7 DEF KeysOf, PoppedLayerKeys, Distinct
<1>10. PoppedLayerKeys(saved) \cap saved = {}
  BY <1>1, <1>4 DEF PoppedLayerKeys
<1>11. Distinct(KeptLayers(saved))
  BY <1>2, <1>3, <1>6 DEF Distinct
<1>12. PoppedLayerKeys(saved) = {} <=> PoppedLayers(saved) = {}
  BY DEF PoppedLayerKeys
<1> QED  BY <1>8, <1>9, <1>10, <1>11, <1>12

(* The modifiers that are removed are those whose key was released: the    *)
(* bits a popped layer clears are never those of a modifier key.           *)
LEMMA RemovedModifiersProperties ==
    ASSUME activeLayers \in Seq(ActiveLayer),
           activeModifiers \in Seq(ActiveModifier),
           Masked(activeLayers, activeModifiers, stateMask),
           NEW saved
    PROVE  RemovedModifiers(saved)
               = {i \in DOMAIN activeModifiers :
                     activeModifiers[i].keyIndex \notin saved}
<1>1. \A i \in DOMAIN activeModifiers :
         activeModifiers[i].keyIndex \in HeldAfterLayers(saved)
             <=> activeModifiers[i].keyIndex \in saved
  <2> SUFFICES ASSUME NEW i \in DOMAIN activeModifiers
               PROVE  activeModifiers[i].keyIndex \in HeldAfterLayers(saved)
                         <=> activeModifiers[i].keyIndex \in saved
    OBVIOUS
  <2>1. activeModifiers[i].keyIndex \in KeysOf(activeModifiers)
    BY DEF KeysOf
  <2>2. activeModifiers[i].keyIndex \notin stateMask
    BY <2>1 DEF Masked
  <2>3. activeModifiers[i].keyIndex \notin PoppedLayerKeys(saved)
    <3>1. PoppedLayerKeys(saved) \subseteq KeysOf(activeLayers)
      BY PoppedKeysProperties DEF Masked
    <3> QED  BY <2>1, <3>1 DEF Masked
  <2> QED  BY <2>2, <2>3 DEF HeldAfterLayers
<1> QED  BY <1>1 DEF RemovedModifiers

(* What is left of the modifiers: each entry that stays is one of the old  *)
(* stack, in the old order, and only the last can be the old last one.     *)
LEMMA KeptModifiersProperties ==
    ASSUME activeLayers \in Seq(ActiveLayer),
           activeModifiers \in Seq(ActiveModifier),
           Masked(activeLayers, activeModifiers, stateMask),
           NEW saved
    PROVE  /\ KeptModifiers(saved) \in Seq(ActiveModifier)
           /\ Len(KeptModifiers(saved)) \in 0 .. Len(activeModifiers)
           /\ KeysOf(activeModifiers)
                = KeysOf(KeptModifiers(saved)) \cup RemovedModifierKeys(saved)
           /\ KeysOf(KeptModifiers(saved)) \cap RemovedModifierKeys(saved) = {}
           /\ KeysOf(KeptModifiers(saved)) \subseteq saved
           /\ RemovedModifierKeys(saved) \cap saved = {}
           /\ Distinct(KeptModifiers(saved))
           /\ PendingOf(activeModifiers) \subseteq {Len(activeModifiers)}
                => /\ PendingOf(KeptModifiers(saved))
                         \subseteq {Len(KeptModifiers(saved))}
                   /\ PendingOf(activeModifiers) = {}
                         => PendingOf(KeptModifiers(saved)) = {}
<1> DEFINE I == DOMAIN activeModifiers \ RemovedModifiers(saved)
           K == KeptModifiers(saved)
           n == Len(activeModifiers)
<1>1. /\ I \in SUBSET (DOMAIN activeModifiers)
      /\ I = {i \in DOMAIN activeModifiers :
                 activeModifiers[i].keyIndex \in saved}
      /\ RemovedModifiers(saved) = DOMAIN activeModifiers \ I
  BY RemovedModifiersProperties
<1>2. K = Select(activeModifiers, I)
  BY DEF KeptModifiers
<1>3. /\ K \in Seq(ActiveModifier)
      /\ Len(K) \in 0 .. n
      /\ DOMAIN K = 1 .. Len(K)
      /\ \A r \in DOMAIN K : Nth(I, r) \in I
                             /\ K[r] = activeModifiers[Nth(I, r)]
      /\ \A i \in I : \E r \in DOMAIN K : Nth(I, r) = i
      /\ \A r, q \in DOMAIN K : r < q => Nth(I, r) < Nth(I, q)
  <2>1. I \in SUBSET (DOMAIN activeModifiers)
    BY <1>1
  <2> HIDE DEF I, K
  <2> QED  BY <1>2, <2>1, SelectProperties
<1> HIDE DEF I, K
<1>4. KeysOf(K) = {activeModifiers[i].keyIndex : i \in I}
  BY <1>3 DEF KeysOf
<1>5. RemovedModifierKeys(saved)
         = {activeModifiers[i].keyIndex : i \in DOMAIN activeModifiers \ I}
  BY <1>1 DEF RemovedModifierKeys
<1>6. KeysOf(activeModifiers) = KeysOf(K) \cup RemovedModifierKeys(saved)
  BY <1>1, <1>4, <1>5 DEF KeysOf
<1>7. KeysOf(K) \subseteq saved /\ RemovedModifierKeys(saved) \cap saved = {}
  BY <1>1, <1>4, <1>5
<1>8. Distinct(K)
  <2> SUFFICES ASSUME NEW r \in DOMAIN K, NEW q \in DOMAIN K,
                      K[r].keyIndex = K[q].keyIndex
               PROVE  r = q
    BY DEF Distinct
  <2>1. Nth(I, r) = Nth(I, q)
    BY <1>1, <1>3 DEF Masked, Distinct
  <2>2. Nth(I, r) \in Int
    BY <1>1, <1>3
  <2>3. r \in Int /\ q \in Int
    BY <1>3
  <2>4. ~(r < q) /\ ~(q < r)
    BY <1>3, <2>1, <2>2
  <2> QED  BY <2>3, <2>4
<1>9. ASSUME NEW r \in PendingOf(K),
             PendingOf(activeModifiers) \subseteq {n}
      PROVE  n \in PendingOf(activeModifiers) /\ r = Len(K)
  <2> r \in DOMAIN K /\ IsPending(K[r])
    BY DEF PendingOf
  <2>1. Nth(I, r) \in PendingOf(activeModifiers)
    BY <1>1, <1>3 DEF PendingOf
  <2>2. Nth(I, r) = n
    BY <1>9, <2>1
  <2>3. Len(K) \in DOMAIN K /\ r <= Len(K) /\ r \in Int /\ Len(K) \in Int
    BY <1>3
  <2>4. Nth(I, Len(K)) \in Int /\ Nth(I, Len(K)) <= n
    BY <1>1, <1>3, <2>3
  <2>5. ~(r < Len(K))
    BY <1>3, <2>2, <2>3, <2>4
  <2> QED  BY <2>1, <2>2, <2>3, <2>5
<1> QED  BY <1>3, <1>6, <1>7, <1>8, <1>9 DEF K

(* The keys on a well-typed stack are keys of the key map.                 *)
LEMMA KeysOfType ==
    /\ \A s \in Seq(ActiveLayer) : KeysOf(s) \subseteq Keys
    /\ \A s \in Seq(ActiveModifier) : KeysOf(s) \subseteq Keys
<1>1. ASSUME NEW s \in Seq(ActiveLayer), NEW i \in DOMAIN s
      PROVE  s[i].keyIndex \in Keys
  <2>1. s[i] \in ActiveLayer
    BY ElementOfSeq
  <2> QED  BY <2>1 DEF ActiveLayer
<1>2. ASSUME NEW s \in Seq(ActiveModifier), NEW i \in DOMAIN s
      PROVE  s[i].keyIndex \in Keys
  <2>1. s[i] \in ActiveModifier
    BY ElementOfSeq
  <2> QED  BY <2>1 DEF ActiveModifier
<1> QED  BY <1>1, <1>2 DEF KeysOf

(* Popping layers from the top keeps the rest chained.                     *)
LEMMA ReleaseKeepsChain ==
    ASSUME activeLayers \in Seq(ActiveLayer), Chained(activeLayers), NEW saved
    PROVE  Chained(KeptLayers(saved))
<1>1. /\ DOMAIN KeptLayers(saved) = 1 .. KeptDepth(saved)
      /\ \A i \in 1 .. KeptDepth(saved) : KeptLayers(saved)[i] = activeLayers[i]
  BY KeptLayersProperties
<1>2. KeptDepth(saved) \in 0 .. Len(activeLayers)
  BY KeptDepthProperties
<1>3. \A i \in 1 .. KeptDepth(saved) :
         i \in DOMAIN activeLayers /\ (i # 1 => i - 1 \in 1 .. KeptDepth(saved))
  BY <1>2
<1> QED  BY <1>1, <1>3 DEF Chained

(* Popping layers and removing modifiers leaves at most one pending tap.   *)
LEMMA ReleaseKeepsPending ==
    ASSUME WellFormed(activeLayers, activeModifiers, stateMask, keyState),
           NEW saved
    PROVE  PendingLast(KeptLayers(saved), KeptModifiers(saved))
<1>1. /\ activeLayers \in Seq(ActiveLayer)
      /\ activeModifiers \in Seq(ActiveModifier)
      /\ Masked(activeLayers, activeModifiers, stateMask)
      /\ PendingLast(activeLayers, activeModifiers)
  BY DEF WellFormed
<1>2. /\ Len(KeptLayers(saved)) = KeptDepth(saved)
      /\ DOMAIN KeptLayers(saved) = 1 .. KeptDepth(saved)
      /\ \A i \in 1 .. KeptDepth(saved) : KeptLayers(saved)[i] = activeLayers[i]
      /\ KeptDepth(saved) \in 0 .. Len(activeLayers)
  BY <1>1, KeptLayersProperties, KeptDepthProperties
<1>3. PendingOf(KeptLayers(saved)) \subseteq PendingOf(activeLayers)
  BY <1>1, <1>2 DEF PendingOf
<1>4. PendingOf(KeptLayers(saved)) \subseteq {Len(KeptLayers(saved))}
  <2> SUFFICES ASSUME NEW i \in PendingOf(KeptLayers(saved))
               PROVE  i = KeptDepth(saved)
    BY <1>2
  <2>1. i \in 1 .. KeptDepth(saved)
    BY <1>2 DEF PendingOf
  <2>2. i = Len(activeLayers)
    BY <1>1, <1>3 DEF PendingLast
  <2> QED  BY <1>1, <1>2, <2>1, <2>2
<1>5. /\ PendingOf(KeptModifiers(saved)) \subseteq {Len(KeptModifiers(saved))}
      /\ PendingOf(activeModifiers) = {} => PendingOf(KeptModifiers(saved)) = {}
  BY <1>1, KeptModifiersProperties DEF PendingLast
<1> QED  BY <1>1, <1>3, <1>4, <1>5 DEF PendingLast

(* Popping and removing keep the mask the complement of the keys on the    *)
(* stacks: each key that leaves a stack is enabled again.                  *)
LEMMA ReleaseKeepsMasked ==
    ASSUME WellFormed(activeLayers, activeModifiers, stateMask, keyState),
           NEW saved
    PROVE  Masked(KeptLayers(saved), KeptModifiers(saved),
                  MaskAfterRelease(saved))
<1>1. /\ activeLayers \in Seq(ActiveLayer)
      /\ activeModifiers \in Seq(ActiveModifier)
      /\ Masked(activeLayers, activeModifiers, stateMask)
      /\ Distinct(activeLayers)
  BY DEF WellFormed, Masked
<1>2. KeysOf(activeLayers) \cup KeysOf(activeModifiers) \subseteq Keys
  BY <1>1, KeysOfType
<1>3. /\ KeysOf(activeLayers)
           = KeysOf(KeptLayers(saved)) \cup PoppedLayerKeys(saved)
      /\ KeysOf(KeptLayers(saved)) \cap PoppedLayerKeys(saved) = {}
      /\ Distinct(KeptLayers(saved))
  BY <1>1, PoppedKeysProperties
<1>4. /\ KeysOf(activeModifiers)
           = KeysOf(KeptModifiers(saved)) \cup RemovedModifierKeys(saved)
      /\ KeysOf(KeptModifiers(saved)) \cap RemovedModifierKeys(saved) = {}
      /\ Distinct(KeptModifiers(saved))
  BY <1>1, KeptModifiersProperties
<1> QED  BY <1>1, <1>2, <1>3, <1>4 DEF Masked, MaskAfterRelease

(* The first half of apply keeps the stacks and the mask well formed, for  *)
(* the key state it was given.                                             *)
LEMMA ReleaseWellFormed ==
    ASSUME WellFormed(activeLayers, activeModifiers, stateMask, keyState),
           NEW saved
    PROVE  WellFormed(KeptLayers(saved), KeptModifiers(saved),
                      MaskAfterRelease(saved), saved)
<1>1. /\ activeLayers \in Seq(ActiveLayer)
      /\ activeModifiers \in Seq(ActiveModifier)
      /\ Masked(activeLayers, activeModifiers, stateMask)
      /\ Chained(activeLayers)
  BY DEF WellFormed
<1>2. Held(KeptLayers(saved), KeptModifiers(saved), saved)
  <2>1. KeysOf(KeptModifiers(saved)) \subseteq saved
    BY <1>1, KeptModifiersProperties
  <2>2. ASSUME KeptLayers(saved) # << >>
        PROVE  KeptLayers(saved)[Len(KeptLayers(saved))].keyIndex \in saved
    <3>1. /\ KeptLayers(saved) \in Seq(ActiveLayer)
          /\ Len(KeptLayers(saved)) = KeptDepth(saved)
          /\ \A i \in 1 .. KeptDepth(saved) :
                KeptLayers(saved)[i] = activeLayers[i]
      BY <1>1, KeptLayersProperties
    <3>2. /\ KeptDepth(saved) \in Nat
          /\ KeptDepth(saved) > 0
                => activeLayers[KeptDepth(saved)].keyIndex \in saved
      BY <1>1, KeptDepthProperties
    <3>3. KeptDepth(saved) > 0
      BY <2>2, <3>1, <3>2
    <3> QED  BY <3>1, <3>2, <3>3
  <2> QED  BY <2>1, <2>2 DEF Held
<1>3. /\ KeptLayers(saved) \in Seq(ActiveLayer)
      /\ KeptModifiers(saved) \in Seq(ActiveModifier)
  BY <1>1, KeptLayersProperties, KeptModifiersProperties
<1> QED
  BY <1>1, <1>2, <1>3, ReleaseKeepsChain, ReleaseKeepsPending,
     ReleaseKeepsMasked DEF WellFormed

(* What the first half leaves of the masks and of the key state.           *)
LEMMA ReleaseMasks ==
    ASSUME WellFormed(activeLayers, activeModifiers, stateMask, keyState),
           lockMask \subseteq stateMask,
           NEW saved \in SUBSET Keys
    PROVE  /\ MaskAfterRelease(saved) \in SUBSET Keys
           /\ stateMask \subseteq MaskAfterRelease(saved)
           /\ MaskAfterRelease(saved) \cap saved = stateMask \cap saved
           /\ LockAfterRelease(saved) \subseteq stateMask \cap saved
           /\ lockMask \cap saved \subseteq LockAfterRelease(saved)
           /\ PoppedLayers(saved) # {}
                 => LockAfterRelease(saved) = stateMask \cap saved
           /\ Pressed(saved) \subseteq stateMask \cap saved
           /\ Pressed(saved) \cap LockAfterRelease(saved) = {}
           /\ Injected(saved) \subseteq Keys \ (stateMask \cup saved)
<1>1. /\ activeLayers \in Seq(ActiveLayer)
      /\ activeModifiers \in Seq(ActiveModifier)
      /\ Masked(activeLayers, activeModifiers, stateMask)
      /\ Distinct(activeLayers)
  BY DEF WellFormed, Masked
<1>2. /\ PoppedLayerKeys(saved) \subseteq KeysOf(activeLayers)
      /\ PoppedLayerKeys(saved) \cap saved = {}
  BY <1>1, PoppedKeysProperties
<1>3. /\ RemovedModifierKeys(saved) \subseteq KeysOf(activeModifiers)
      /\ RemovedModifierKeys(saved) \cap saved = {}
  BY <1>1, KeptModifiersProperties
<1>4. KeysOf(activeLayers) \cup KeysOf(activeModifiers) \subseteq Keys
  BY <1>1, KeysOfType
<1>5. stateMask \subseteq Keys
  BY <1>1 DEF Masked
<1>6. /\ MaskAfterRelease(saved) \in SUBSET Keys
      /\ stateMask \subseteq MaskAfterRelease(saved)
      /\ MaskAfterRelease(saved) \cap saved = stateMask \cap saved
  BY <1>2, <1>3, <1>4, <1>5 DEF MaskAfterRelease
<1>7. /\ LockAfterRelease(saved) \subseteq stateMask \cap saved
      /\ lockMask \cap saved \subseteq LockAfterRelease(saved)
      /\ PoppedLayers(saved) # {}
            => LockAfterRelease(saved) = stateMask \cap saved
  BY DEF LockAfterRelease
<1>8. Pressed(saved) \subseteq saved
  BY DEF Pressed, HeldAfterRelease, HeldAfterLayers
<1>9. /\ Pressed(saved) \subseteq MaskAfterRelease(saved)
      /\ Pressed(saved) \cap LockAfterRelease(saved) = {}
  BY DEF Pressed
<1>10. Injected(saved) \subseteq PoppedLayerKeys(saved)
                                   \cup RemovedModifierKeys(saved)
  BY DEF Injected, PoppedLayerKeys, RemovedModifierKeys
<1>11. (KeysOf(activeLayers) \cup KeysOf(activeModifiers)) \cap stateMask = {}
  BY <1>1 DEF Masked
<1>12. Injected(saved) \subseteq Keys \ (stateMask \cup saved)
  BY <1>2, <1>3, <1>4, <1>10, <1>11
<1>13. Pressed(saved) \subseteq stateMask \cap saved
  BY <1>6, <1>8, <1>9
<1> QED  BY <1>6, <1>7, <1>9, <1>12, <1>13

-----------------------------------------------------------------------------
(* The second half: clearing timers, pushing, and the clock.               *)

NoPending(layers, modifiers) ==
    PendingOf(layers) = {} /\ PendingOf(modifiers) = {}

(* Two stacks that differ at most in their timers.                         *)
SameKeys(new, old) ==
    /\ Len(new) = Len(old)
    /\ \A i \in 1 .. Len(old) : new[i].keyIndex = old[i].keyIndex

SameLayers(new, old) ==
    \A i \in 1 .. Len(old) : new[i].layerIndex = old[i].layerIndex

(* Clearing the last timer keeps the type, the keys and the chaining of a  *)
(* stack, and leaves no tap pending when only the last could be.           *)
LEMMA ClearLastProperties ==
    /\ \A s \in Seq(ActiveLayer) :
          /\ ClearLast(s) \in Seq(ActiveLayer)
          /\ SameKeys(ClearLast(s), s)
          /\ SameLayers(ClearLast(s), s)
          /\ PendingOf(s) \subseteq {Len(s)} => PendingOf(ClearLast(s)) = {}
    /\ \A s \in Seq(ActiveModifier) :
          /\ ClearLast(s) \in Seq(ActiveModifier)
          /\ SameKeys(ClearLast(s), s)
          /\ PendingOf(s) \subseteq {Len(s)} => PendingOf(ClearLast(s)) = {}
<1>0. NoTimer \in TapTimers
  BY DEF TapTimers
<1>1. ASSUME NEW s \in Seq(ActiveLayer), s # << >>
      PROVE  /\ ClearLast(s) \in Seq(ActiveLayer)
             /\ SameKeys(ClearLast(s), s)
             /\ SameLayers(ClearLast(s), s)
             /\ PendingOf(s) \subseteq {Len(s)} => PendingOf(ClearLast(s)) = {}
  <2> DEFINE e == [s[Len(s)] EXCEPT !.tapTimer = NoTimer]
  <2>1. Len(s) \in 1 .. Len(s) /\ s[Len(s)] \in ActiveLayer
    BY <1>1
  <2>2. /\ e \in ActiveLayer
        /\ e.keyIndex = s[Len(s)].keyIndex
        /\ e.layerIndex = s[Len(s)].layerIndex
        /\ ~IsPending(e)
    BY <1>0, <2>1 DEF ActiveLayer, IsPending
  <2>3. ClearLast(s) = [s EXCEPT ![Len(s)] = e]
    BY <1>1 DEF ClearLast
  <2> HIDE DEF e
  <2>4. /\ ClearLast(s) \in Seq(ActiveLayer)
        /\ Len(ClearLast(s)) = Len(s)
        /\ DOMAIN ClearLast(s) = 1 .. Len(s)
        /\ \A i \in 1 .. Len(s) :
              ClearLast(s)[i] = IF i = Len(s) THEN e ELSE s[i]
    BY <2>1, <2>2, <2>3, ExceptSeq
  <2>5. SameKeys(ClearLast(s), s) /\ SameLayers(ClearLast(s), s)
    BY <2>2, <2>4 DEF SameKeys, SameLayers
  <2>6. PendingOf(s) \subseteq {Len(s)} => PendingOf(ClearLast(s)) = {}
    <3>1. DOMAIN s = 1 .. Len(s)
      OBVIOUS
    <3> QED  BY <2>2, <2>4, <3>1 DEF PendingOf
  <2> QED  BY <2>4, <2>5, <2>6
<1>2. ASSUME NEW s \in Seq(ActiveModifier), s # << >>
      PROVE  /\ ClearLast(s) \in Seq(ActiveModifier)
             /\ SameKeys(ClearLast(s), s)
             /\ PendingOf(s) \subseteq {Len(s)} => PendingOf(ClearLast(s)) = {}
  <2> DEFINE e == [s[Len(s)] EXCEPT !.tapTimer = NoTimer]
  <2>1. Len(s) \in 1 .. Len(s) /\ s[Len(s)] \in ActiveModifier
    BY <1>2
  <2>2. /\ e \in ActiveModifier
        /\ e.keyIndex = s[Len(s)].keyIndex
        /\ ~IsPending(e)
    BY <1>0, <2>1 DEF ActiveModifier, IsPending
  <2>3. ClearLast(s) = [s EXCEPT ![Len(s)] = e]
    BY <1>2 DEF ClearLast
  <2> HIDE DEF e
  <2>4. /\ ClearLast(s) \in Seq(ActiveModifier)
        /\ Len(ClearLast(s)) = Len(s)
        /\ DOMAIN ClearLast(s) = 1 .. Len(s)
        /\ \A i \in 1 .. Len(s) :
              ClearLast(s)[i] = IF i = Len(s) THEN e ELSE s[i]
    BY <2>1, <2>2, <2>3, ExceptSeq
  <2>5. SameKeys(ClearLast(s), s)
    BY <2>2, <2>4 DEF SameKeys
  <2>6. PendingOf(s) \subseteq {Len(s)} => PendingOf(ClearLast(s)) = {}
    <3>1. DOMAIN s = 1 .. Len(s)
      OBVIOUS
    <3> QED  BY <2>2, <2>4, <3>1 DEF PendingOf
  <2> QED  BY <2>4, <2>5, <2>6
<1>3. /\ ClearLast(<< >>) = << >>
      /\ PendingOf(<< >>) = {}
  BY DEF ClearLast, PendingOf
<1> QED  BY <1>1, <1>2, <1>3 DEF SameKeys, SameLayers

(* Changing timers only keeps what WellFormed says of keys and layers.     *)
LEMMA SameKeysWellFormed ==
    ASSUME NEW l \in Seq(ActiveLayer), NEW m \in Seq(ActiveModifier),
           NEW l2 \in Seq(ActiveLayer), NEW m2 \in Seq(ActiveModifier),
           NEW mask, NEW saved,
           WellFormed(l, m, mask, saved),
           SameKeys(l2, l), SameLayers(l2, l), SameKeys(m2, m),
           PendingLast(l2, m2)
    PROVE  WellFormed(l2, m2, mask, saved)
<1>1. /\ DOMAIN l2 = DOMAIN l /\ DOMAIN m2 = DOMAIN m
      /\ DOMAIN l = 1 .. Len(l) /\ DOMAIN m = 1 .. Len(m)
      /\ Len(l2) = Len(l) /\ Len(m2) = Len(m)
      /\ Len(l) \in Nat /\ Len(m) \in Nat
  BY DEF SameKeys
<1>2. KeysOf(l2) = KeysOf(l) /\ KeysOf(m2) = KeysOf(m)
  BY <1>1 DEF SameKeys, KeysOf
<1>3. Distinct(l2) /\ Distinct(m2)
  BY <1>1 DEF WellFormed, Masked, SameKeys, Distinct
<1>4. Masked(l2, m2, mask)
  BY <1>2, <1>3 DEF WellFormed, Masked
<1>5. Chained(l2)
  <2>1. \A i \in 1 .. Len(l) : i = 1 \/ i - 1 \in 1 .. Len(l)
    BY <1>1
  <2> QED  BY <1>1, <2>1 DEF WellFormed, Chained, SameKeys, SameLayers
<1>6. Held(l2, m2, saved)
  <2>1. l2 # << >> => l # << >> /\ Len(l) \in 1 .. Len(l)
    BY <1>1
  <2> QED  BY <1>1, <1>2, <2>1 DEF WellFormed, Held, SameKeys
<1> QED  BY <1>4, <1>5, <1>6 DEF WellFormed

(* The two stacks with their last timers cleared are well formed, and no   *)
(* tap is pending on either: the state before a push.                      *)
LEMMA ClearedWellFormed ==
    ASSUME NEW l, NEW m, NEW mask, NEW saved, WellFormed(l, m, mask, saved)
    PROVE  /\ WellFormed(ClearLast(l), ClearLast(m), mask, saved)
           /\ NoPending(ClearLast(l), ClearLast(m))
           /\ Len(ClearLast(l)) = Len(l)
           /\ Len(ClearLast(m)) = Len(m)
<1>1. l \in Seq(ActiveLayer) /\ m \in Seq(ActiveModifier) /\ PendingLast(l, m)
  BY DEF WellFormed
<1>2. NoPending(ClearLast(l), ClearLast(m))
  BY <1>1, ClearLastProperties DEF PendingLast, NoPending
<1>3. PendingLast(ClearLast(l), ClearLast(m))
  BY <1>2 DEF NoPending, PendingLast
<1>4. /\ ClearLast(l) \in Seq(ActiveLayer)
      /\ ClearLast(m) \in Seq(ActiveModifier)
      /\ SameKeys(ClearLast(l), l) /\ SameLayers(ClearLast(l), l)
      /\ SameKeys(ClearLast(m), m)
  BY <1>1, ClearLastProperties
<1>5. Len(ClearLast(l)) = Len(l) /\ Len(ClearLast(m)) = Len(m)
  BY <1>4 DEF SameKeys
<1>6. WellFormed(ClearLast(l), ClearLast(m), mask, saved)
  BY <1>1, <1>3, <1>4, SameKeysWellFormed
<1> QED  BY <1>2, <1>5, <1>6

(* What appending an entry does to the keys of a stack and to its pending  *)
(* timers.                                                                 *)
LEMMA AppendKeys ==
    ASSUME NEW S, NEW s \in Seq(S), NEW e \in S
    PROVE  /\ Append(s, e) \in Seq(S)
           /\ Len(Append(s, e)) = Len(s) + 1
           /\ DOMAIN Append(s, e) = 1 .. Len(s) + 1
           /\ \A i \in 1 .. Len(s) : Append(s, e)[i] = s[i]
           /\ Append(s, e)[Len(s) + 1] = e
           /\ KeysOf(Append(s, e)) = KeysOf(s) \cup {e.keyIndex}
           /\ Distinct(s) /\ e.keyIndex \notin KeysOf(s)
                => Distinct(Append(s, e))
           /\ PendingOf(s) = {}
                => PendingOf(Append(s, e)) \subseteq {Len(s) + 1}
<1> DEFINE t == Append(s, e)
           n == Len(s)
<1>1. /\ t \in Seq(S) /\ Len(t) = n + 1 /\ n \in Nat
      /\ DOMAIN t = 1 .. n + 1 /\ DOMAIN s = 1 .. n
      /\ \A i \in 1 .. n : t[i] = s[i]
      /\ t[n + 1] = e
  OBVIOUS
<1>2. \A i : i \in 1 .. n + 1 <=> i \in 1 .. n \/ i = n + 1
  BY <1>1
<1> HIDE DEF t, n
<1>3. KeysOf(t) = KeysOf(s) \cup {e.keyIndex}
  BY <1>1, <1>2 DEF KeysOf
<1>4. Distinct(s) /\ e.keyIndex \notin KeysOf(s) => Distinct(t)
  BY <1>1, <1>2 DEF Distinct, KeysOf
<1>5. PendingOf(s) = {} => PendingOf(t) \subseteq {n + 1}
  BY <1>1, <1>2 DEF PendingOf
<1> QED  BY <1>1, <1>3, <1>4, <1>5 DEF t, n

(* Pushing a layer whose key was enabled keeps the stacks well formed.     *)
LEMMA PushLayerWellFormed ==
    ASSUME NEW l, NEW m, NEW mask, NEW saved,
           WellFormed(l, m, mask, saved), NoPending(l, m),
           NEW e \in ActiveLayer, e.keyIndex \in mask \cap saved,
           LayerLookup[LayerOf(l)][e.keyIndex].hold.kind = "layer",
           LayerLookup[LayerOf(l)][e.keyIndex].hold.layer = e.layerIndex
    PROVE  WellFormed(Append(l, e), m, mask \ {e.keyIndex}, saved)
<1> DEFINE t == Append(l, e)
           n == Len(l)
<1>1. /\ l \in Seq(ActiveLayer) /\ m \in Seq(ActiveModifier)
      /\ Masked(l, m, mask) /\ Chained(l) /\ Held(l, m, saved)
      /\ n \in Nat /\ DOMAIN l = 1 .. n
  BY DEF WellFormed
<1>2. e.keyIndex \in Keys /\ e.keyIndex \notin KeysOf(l) \cup KeysOf(m)
  BY <1>1 DEF Masked
<1>3. /\ t \in Seq(ActiveLayer)
      /\ Len(t) = n + 1
      /\ DOMAIN t = 1 .. n + 1
      /\ \A i \in 1 .. n : t[i] = l[i]
      /\ t[n + 1] = e
      /\ KeysOf(t) = KeysOf(l) \cup {e.keyIndex}
      /\ Distinct(l) /\ e.keyIndex \notin KeysOf(l) => Distinct(t)
      /\ PendingOf(l) = {} => PendingOf(t) \subseteq {n + 1}
  BY <1>1, AppendKeys
<1> HIDE DEF t
<1>4. Masked(t, m, mask \ {e.keyIndex})
  BY <1>1, <1>2, <1>3 DEF Masked
<1>5. PendingLast(t, m)
  BY <1>3 DEF NoPending, PendingLast
<1>6. Chained(t)
  <2> SUFFICES ASSUME NEW i \in 1 .. n + 1
               PROVE  LET below == IF i = 1 THEN 0 ELSE t[i - 1].layerIndex
                          mapping == LayerLookup[below][t[i].keyIndex]
                      IN  /\ mapping.hold.kind = "layer"
                          /\ mapping.hold.layer = t[i].layerIndex
    BY <1>3 DEF Chained
  <2>1. CASE i \in 1 .. n
    <3>1. i # 1 => i - 1 \in 1 .. n
      BY <1>1, <2>1
    <3> QED  BY <1>1, <1>3, <2>1, <3>1 DEF Chained
  <2>2. CASE i = n + 1
    <3>1. LayerOf(l) = IF n + 1 = 1 THEN 0 ELSE l[n + 1 - 1].layerIndex
      BY <1>1 DEF LayerOf
    <3>2. n + 1 # 1 => n + 1 - 1 \in 1 .. n
      BY <1>1
    <3> QED  BY <1>3, <2>2, <3>1, <3>2
  <2> QED  BY <1>1, <2>1, <2>2
<1>7. Held(t, m, saved)
  BY <1>1, <1>3 DEF Held
<1> QED  BY <1>1, <1>3, <1>4, <1>5, <1>6, <1>7 DEF WellFormed, t

(* Pushing a modifier whose key was enabled keeps the stacks well formed.  *)
LEMMA PushModifierWellFormed ==
    ASSUME NEW l, NEW m, NEW mask, NEW saved,
           WellFormed(l, m, mask, saved), NoPending(l, m),
           NEW e \in ActiveModifier, e.keyIndex \in mask \cap saved
    PROVE  WellFormed(l, Append(m, e), mask \ {e.keyIndex}, saved)
<1> DEFINE t == Append(m, e)
<1>1. /\ l \in Seq(ActiveLayer) /\ m \in Seq(ActiveModifier)
      /\ Masked(l, m, mask) /\ Chained(l) /\ Held(l, m, saved)
  BY DEF WellFormed
<1>2. e.keyIndex \in Keys /\ e.keyIndex \notin KeysOf(l) \cup KeysOf(m)
  BY <1>1 DEF Masked
<1>3. /\ t \in Seq(ActiveModifier)
      /\ Len(t) = Len(m) + 1
      /\ KeysOf(t) = KeysOf(m) \cup {e.keyIndex}
      /\ Distinct(m) /\ e.keyIndex \notin KeysOf(m) => Distinct(t)
      /\ PendingOf(m) = {} => PendingOf(t) \subseteq {Len(m) + 1}
  BY <1>1, AppendKeys
<1> HIDE DEF t
<1>4. Masked(l, t, mask \ {e.keyIndex})
  BY <1>1, <1>2, <1>3 DEF Masked
<1>5. PendingLast(l, t)
  BY <1>3 DEF NoPending, PendingLast
<1>6. Held(l, t, saved)
  BY <1>1, <1>3 DEF Held
<1> QED  BY <1>1, <1>3, <1>4, <1>5, <1>6 DEF WellFormed, t

(* The clock changes timers only, and makes none pending.                  *)
LEMMA AgedProperties ==
    /\ \A s \in Seq(ActiveLayer) :
          /\ Aged(s) \in Seq(ActiveLayer)
          /\ SameKeys(Aged(s), s)
          /\ SameLayers(Aged(s), s)
          /\ PendingOf(Aged(s)) = PendingOf(s)
    /\ \A s \in Seq(ActiveModifier) :
          /\ Aged(s) \in Seq(ActiveModifier)
          /\ SameKeys(Aged(s), s)
          /\ PendingOf(Aged(s)) = PendingOf(s)
<1>0. \A t \in TapTimers :
         t # NoTimer /\ t < TapTime => t + 1 \in TapTimers /\ t + 1 # NoTimer
  BY TapTimeAssumption DEF TapTimers, NoTimer
<1>1. ASSUME NEW s \in Seq(ActiveLayer)
      PROVE  /\ Aged(s) \in Seq(ActiveLayer)
             /\ SameKeys(Aged(s), s)
             /\ SameLayers(Aged(s), s)
             /\ PendingOf(Aged(s)) = PendingOf(s)
  <2>1. /\ DOMAIN s = 1 .. Len(s) /\ Len(s) \in Nat
        /\ \A i \in 1 .. Len(s) : s[i] \in ActiveLayer
    BY ElementOfSeq
  <2>2. DOMAIN Aged(s) = 1 .. Len(s)
    BY <2>1 DEF Aged
  <2>3. \A i \in 1 .. Len(s) :
           /\ Aged(s)[i] \in ActiveLayer
           /\ Aged(s)[i].keyIndex = s[i].keyIndex
           /\ Aged(s)[i].layerIndex = s[i].layerIndex
           /\ IsPending(Aged(s)[i]) <=> IsPending(s[i])
    BY <1>0, <2>1 DEF Aged, ActiveLayer, IsPending
  <2>4. Aged(s) \in [1 .. Len(s) -> ActiveLayer]
    BY <2>1, <2>3 DEF Aged
  <2>5. Aged(s) \in Seq(ActiveLayer) /\ Len(Aged(s)) = Len(s)
    BY <2>1, <2>2, <2>4
  <2> QED  BY <2>1, <2>2, <2>3, <2>5 DEF SameKeys, SameLayers, PendingOf
<1>2. ASSUME NEW s \in Seq(ActiveModifier)
      PROVE  /\ Aged(s) \in Seq(ActiveModifier)
             /\ SameKeys(Aged(s), s)
             /\ PendingOf(Aged(s)) = PendingOf(s)
  <2>1. /\ DOMAIN s = 1 .. Len(s) /\ Len(s) \in Nat
        /\ \A i \in 1 .. Len(s) : s[i] \in ActiveModifier
    BY ElementOfSeq
  <2>2. DOMAIN Aged(s) = 1 .. Len(s)
    BY <2>1 DEF Aged
  <2>3. \A i \in 1 .. Len(s) :
           /\ Aged(s)[i] \in ActiveModifier
           /\ Aged(s)[i].keyIndex = s[i].keyIndex
           /\ IsPending(Aged(s)[i]) <=> IsPending(s[i])
    BY <1>0, <2>1 DEF Aged, ActiveModifier, IsPending
  <2>4. Aged(s) \in [1 .. Len(s) -> ActiveModifier]
    BY <2>1, <2>3 DEF Aged
  <2>5. Aged(s) \in Seq(ActiveModifier) /\ Len(Aged(s)) = Len(s)
    BY <2>1, <2>2, <2>4
  <2> QED  BY <2>1, <2>2, <2>3, <2>5 DEF SameKeys, PendingOf
<1> QED  BY <1>1, <1>2

(* The types of what the key map says of a hold key.                       *)
LEMMA MappingTypes ==
    ASSUME NEW layer \in LayerIndices, NEW k \in Keys
    PROVE  /\ k \in LayerKeys(layer)
                 => LayerLookup[layer][k].hold.layer \in LayerIndices
           /\ k \in ModifierKeys(layer)
                 => LayerLookup[layer][k].hold.value \in Modifiers
           /\ TimerFor(layer, k) \in TapTimers
<1>1. LayerLookup[layer][k] \in Mappings
  BY LayerLookupAssumption
<1>2. LayerLookup[layer][k].hold \in HoldActions
  BY <1>1 DEF Mappings
<1>3. \A h \in HoldActions :
         /\ h.kind = "layer" => h.layer \in LayerIndices
         /\ h.kind = "modifier" => h.value \in Modifiers
  BY DEF HoldActions, NoHold, Layer, Modifier
<1>4. TimerFor(layer, k) \in TapTimers
  BY TapTimeAssumption DEF TimerFor, TapTimers, NoTimer
<1> QED  BY <1>2, <1>3, <1>4 DEF LayerKeys, ModifierKeys

(* The current layer is one of the layers of the key map.                  *)
LEMMA LayerOfType ==
    \A l \in Seq(ActiveLayer) : LayerOf(l) \in LayerIndices
<1>1. 0 \in LayerIndices
  BY LayerCountAssumption DEF LayerIndices
<1>2. ASSUME NEW l \in Seq(ActiveLayer), l # << >>
      PROVE  l[Len(l)].layerIndex \in LayerIndices
  <2>1. l[Len(l)] \in ActiveLayer
    BY <1>2
  <2> QED  BY <2>1 DEF ActiveLayer
<1> QED  BY <1>1, <1>2 DEF LayerOf

(* All that the second half of apply needs to know of the first.           *)
LEMMA AfterRelease ==
    ASSUME IInv, NEW saved \in SUBSET Keys
    PROVE  /\ WellFormed(KeptLayers(saved), KeptModifiers(saved),
                         MaskAfterRelease(saved), saved)
           /\ Len(KeptLayers(saved)) = KeptDepth(saved)
           /\ KeptDepth(saved) \in 0 .. MaxActiveLayers
           /\ Len(KeptModifiers(saved)) \in 0 .. MaxActiveModifiers
           /\ MaskAfterRelease(saved) \in SUBSET Keys
           /\ previousKeyState \subseteq MaskAfterRelease(saved)
           /\ LockAfterRelease(saved)
                 \subseteq MaskAfterRelease(saved) \cap saved
           /\ Pressed(saved) \subseteq MaskAfterRelease(saved) \cap saved
           /\ Injected(saved) \cap previousKeyState = {}
<1>1. /\ WellFormed(activeLayers, activeModifiers, stateMask, keyState)
      /\ lockMask \subseteq stateMask
      /\ previousKeyState \subseteq stateMask
      /\ activeLayers \in Seq(ActiveLayer)
      /\ activeModifiers \in Seq(ActiveModifier)
      /\ Len(activeLayers) <= MaxActiveLayers
      /\ Len(activeModifiers) <= MaxActiveModifiers
      /\ Masked(activeLayers, activeModifiers, stateMask)
  BY DEF IInv, MasksConsistent, TypeOK, WellFormed
<1>2. WellFormed(KeptLayers(saved), KeptModifiers(saved),
                 MaskAfterRelease(saved), saved)
  BY <1>1, ReleaseWellFormed
<1>3. /\ Len(KeptLayers(saved)) = KeptDepth(saved)
      /\ KeptDepth(saved) \in 0 .. Len(activeLayers)
      /\ Len(KeptModifiers(saved)) \in 0 .. Len(activeModifiers)
  BY <1>1, KeptLayersProperties, KeptDepthProperties, KeptModifiersProperties
<1>4. /\ KeptDepth(saved) \in 0 .. MaxActiveLayers
      /\ Len(KeptModifiers(saved)) \in 0 .. MaxActiveModifiers
  <2>1. /\ Len(activeLayers) \in Nat /\ Len(activeModifiers) \in Nat
        /\ MaxActiveLayers \in Nat /\ MaxActiveModifiers \in Nat
    BY <1>1, CapacityAssumption
  <2> QED  BY <1>1, <1>3, <2>1
<1>5. /\ MaskAfterRelease(saved) \in SUBSET Keys
      /\ stateMask \subseteq MaskAfterRelease(saved)
      /\ LockAfterRelease(saved) \subseteq stateMask \cap saved
      /\ Pressed(saved) \subseteq stateMask \cap saved
      /\ Injected(saved) \subseteq Keys \ (stateMask \cup saved)
  BY <1>1, ReleaseMasks
<1> QED  BY <1>1, <1>2, <1>3, <1>4, <1>5

(* A push leaves no key of the previous output masked: the second          *)
(* comparison of apply replaces it, or it was empty already.               *)
LEMMA PreviousAfterPush ==
    ASSUME IInv, NEW saved \in SUBSET Keys, NEW layers, NEW modifiers,
           Return(saved, {}, layers, modifiers)
    PROVE  previousKeyState' = {}
<1>1. CASE Changed({}, saved)
  BY <1>1 DEF Return
<1>2. CASE ~Changed({}, saved)
  <2>1. previousKeyState' = previousKeyState
    BY <1>2 DEF Return
  <2>2. previousKeyState = Injected(saved)
    BY <1>2 DEF Changed
  <2> QED  BY <2>1, <2>2, AfterRelease
<1> QED  BY <1>1, <1>2

-----------------------------------------------------------------------------
(* The invariant is inductive: one lemma for each action.                  *)

(* The initial state of MasterState::new satisfies the invariant.          *)
LEMMA InitIInv == Init => IInv
<1> SUFFICES ASSUME Init PROVE IInv
  OBVIOUS
<1>1. /\ activeLayers = << >> /\ activeModifiers = << >>
      /\ stateMask = Keys /\ lockMask = {} /\ keyState = {}
      /\ previousKeyState = {} /\ fired = {} /\ panicked = FALSE
  BY DEF Init
<1>2. KeysOf(<< >>) = {} /\ PendingOf(<< >>) = {} /\ Distinct(<< >>)
  BY DEF KeysOf, PendingOf, Distinct
<1>3. TypeOK
  <2>1. /\ << >> \in Seq(ActiveLayer) /\ << >> \in Seq(ActiveModifier)
        /\ Len(<< >>) <= MaxActiveLayers /\ Len(<< >>) <= MaxActiveModifiers
    BY CapacityAssumption
  <2> QED  BY <1>1, <2>1 DEF TypeOK
<1>4. Masked(<< >>, << >>, Keys) /\ PendingLast(<< >>, << >>)
  BY <1>2 DEF Masked, PendingLast
<1>5. Chained(<< >>) /\ Held(<< >>, << >>, {})
  BY <1>2 DEF Chained, Held
<1>6. WellFormed(<< >>, << >>, Keys, {})
  BY <1>4, <1>5 DEF WellFormed
<1> QED  BY <1>1, <1>3, <1>6 DEF IInv, MasksConsistent

(* A call whose key state brings nothing new preserves the invariant.      *)
LEMMA ApplyUnchangedIInv ==
    ASSUME IInv, NEW saved \in SUBSET Keys, ApplyUnchanged(saved)
    PROVE  IInv'
<1>1. /\ keyState' = saved
      /\ activeLayers' = KeptLayers(saved)
      /\ activeModifiers' = KeptModifiers(saved)
      /\ stateMask' = MaskAfterRelease(saved)
      /\ lockMask' = LockAfterRelease(saved)
      /\ previousKeyState' = previousKeyState
      /\ fired' = {} /\ panicked' = panicked
  BY DEF ApplyUnchanged
<1>2. WellFormed(activeLayers, activeModifiers, stateMask, keyState)'
  BY <1>1, AfterRelease
<1>3. TypeOK'
  BY <1>1, <1>2, AfterRelease DEF TypeOK, WellFormed, IInv
<1>4. MasksConsistent'
  BY <1>1, AfterRelease DEF MasksConsistent
<1> QED  BY <1>2, <1>3, <1>4 DEF IInv

(* A call cancelled in a special action preserves the invariant: it has    *)
(* done the releases and nothing else.                                     *)
LEMMA ApplyCancelledIInv ==
    ASSUME IInv, NEW saved \in SUBSET Keys, NEW k, ApplyCancelled(saved, k)
    PROVE  IInv'
<1>1. /\ keyState' = saved
      /\ activeLayers' = KeptLayers(saved)
      /\ activeModifiers' = KeptModifiers(saved)
      /\ stateMask' = MaskAfterRelease(saved)
      /\ lockMask' = LockAfterRelease(saved)
      /\ previousKeyState' = previousKeyState
      /\ fired' \subseteq Pressed(saved) /\ panicked' = panicked
  BY DEF ApplyCancelled, ReachedSpecialKeys
<1>2. WellFormed(activeLayers, activeModifiers, stateMask, keyState)'
  BY <1>1, AfterRelease
<1>3. TypeOK'
  BY <1>1, <1>2, AfterRelease DEF TypeOK, WellFormed, IInv
<1>4. MasksConsistent'
  BY <1>1, AfterRelease DEF MasksConsistent
<1> QED  BY <1>2, <1>3, <1>4 DEF IInv

(* A call that reports keys or releases preserves the invariant.           *)
LEMMA ApplyKeysIInv ==
    ASSUME IInv, NEW saved \in SUBSET Keys, ApplyKeys(saved)
    PROVE  IInv'
<1> DEFINE keys == Pressed(saved) \ ReachedSpecialKeys(saved)
           layers == IF keys # {} THEN ClearLast(KeptLayers(saved))
                                  ELSE KeptLayers(saved)
           modifiers == IF keys # {} THEN ClearLast(KeptModifiers(saved))
                                     ELSE KeptModifiers(saved)
<1>1. /\ keyState' = saved
      /\ activeLayers' = layers
      /\ activeModifiers' = modifiers
      /\ stateMask' = MaskAfterRelease(saved)
      /\ lockMask' = LockAfterRelease(saved)
      /\ fired' = ReachedSpecialKeys(saved)
      /\ Return(saved, keys, layers, modifiers)
      /\ panicked' = panicked
  BY DEF ApplyKeys
<1>2. /\ WellFormed(layers, modifiers, MaskAfterRelease(saved), saved)
      /\ Len(layers) = Len(KeptLayers(saved))
      /\ Len(modifiers) = Len(KeptModifiers(saved))
  BY AfterRelease, ClearedWellFormed
<1>3. keys \subseteq MaskAfterRelease(saved) \cap saved
  BY AfterRelease
<1>4. fired' \subseteq saved
  BY <1>1, AfterRelease DEF ReachedSpecialKeys
<1> HIDE DEF keys, layers, modifiers
<1>5. previousKeyState' \in {keys, previousKeyState}
  BY <1>1 DEF Return
<1>6. previousKeyState' \subseteq stateMask'
  BY <1>1, <1>3, <1>5, AfterRelease
<1>7. WellFormed(activeLayers, activeModifiers, stateMask, keyState)'
  BY <1>1, <1>2
<1>8. TypeOK'
  <2>1. stateMask' \in SUBSET Keys /\ lockMask' \in SUBSET Keys
    BY <1>1, AfterRelease
  <2>2. /\ Len(activeLayers') <= MaxActiveLayers
        /\ Len(activeModifiers') <= MaxActiveModifiers
    BY <1>1, <1>2, AfterRelease
  <2>3. panicked' \in BOOLEAN
    BY <1>1 DEF IInv, TypeOK
  <2> QED  BY <1>1, <1>4, <1>6, <1>7, <2>1, <2>2, <2>3 DEF TypeOK, WellFormed
<1>9. MasksConsistent'
  BY <1>1, <1>6, AfterRelease DEF MasksConsistent
<1> QED  BY <1>7, <1>8, <1>9 DEF IInv

(* A call that enters a layer preserves the invariant.                     *)
LEMMA ApplyLayerIInv ==
    ASSUME IInv, NEW saved \in SUBSET Keys, NEW k, ApplyLayer(saved, k)
    PROVE  IInv'
<1> DEFINE layer == LayerAfterRelease(saved)
           e == [layerIndex |-> LayerLookup[layer][k].hold.layer,
                 keyIndex |-> k,
                 tapTimer |-> TimerFor(layer, k)]
           layers == Append(ClearLast(KeptLayers(saved)), e)
           modifiers == ClearLast(KeptModifiers(saved))
           mask == MaskAfterRelease(saved)
<1>1. /\ k \in PressedHoldKeys(saved)
      /\ k \in LayerKeys(layer)
      /\ KeptDepth(saved) < MaxActiveLayers
      /\ keyState' = saved
      /\ activeLayers' = layers
      /\ activeModifiers' = modifiers
      /\ stateMask' = mask \ {k}
      /\ lockMask' = (mask \ {k}) \cap saved
      /\ fired' = ReachedSpecialKeys(saved)
      /\ Return(saved, {}, layers, modifiers)
      /\ panicked' = panicked
  BY DEF ApplyLayer, IsFirstHoldKey
<1>2. k \in mask \cap saved /\ k \in Keys
  BY <1>1, AfterRelease DEF PressedHoldKeys
<1>3. /\ WellFormed(ClearLast(KeptLayers(saved)), modifiers, mask, saved)
      /\ NoPending(ClearLast(KeptLayers(saved)), modifiers)
      /\ Len(ClearLast(KeptLayers(saved))) = KeptDepth(saved)
      /\ Len(modifiers) = Len(KeptModifiers(saved))
  BY AfterRelease, ClearedWellFormed
<1>4. layer \in LayerIndices
  BY AfterRelease, LayerOfType DEF WellFormed, LayerAfterRelease
<1>5. LayerOf(ClearLast(KeptLayers(saved))) = layer
  <2>1. KeptLayers(saved) \in Seq(ActiveLayer)
    BY AfterRelease DEF WellFormed
  <2>2. /\ SameLayers(ClearLast(KeptLayers(saved)), KeptLayers(saved))
        /\ Len(ClearLast(KeptLayers(saved))) = Len(KeptLayers(saved))
        /\ ClearLast(KeptLayers(saved)) \in Seq(ActiveLayer)
    BY <2>1, ClearLastProperties DEF SameKeys
  <2> QED  BY <2>1, <2>2 DEF SameLayers, LayerOf, LayerAfterRelease
<1>6. e \in ActiveLayer /\ e.keyIndex = k
  BY <1>1, <1>2, <1>4, MappingTypes DEF ActiveLayer
<1>7. /\ LayerLookup[layer][k].hold.kind = "layer"
      /\ LayerLookup[layer][k].hold.layer = e.layerIndex
  BY <1>1 DEF LayerKeys
<1> HIDE DEF e, layer, modifiers, mask
<1>8. WellFormed(activeLayers, activeModifiers, stateMask, keyState)'
  <2>1. WellFormed(layers, modifiers, mask \ {e.keyIndex}, saved)
    BY <1>2, <1>3, <1>5, <1>6, <1>7, PushLayerWellFormed
  <2> QED  BY <1>1, <1>6, <2>1
<1>9. previousKeyState' = {}
  BY <1>1, PreviousAfterPush
<1>10. MasksConsistent'
  BY <1>1, <1>9 DEF MasksConsistent
<1>11. TypeOK'
  <2>1. /\ stateMask' \in SUBSET Keys /\ lockMask' \in SUBSET Keys
        /\ fired' \in SUBSET Keys
    BY <1>1, AfterRelease DEF ReachedSpecialKeys, mask
  <2>2. Len(layers) = KeptDepth(saved) + 1
    BY <1>3, <1>6 DEF WellFormed
  <2>3. /\ Len(activeLayers') <= MaxActiveLayers
        /\ Len(activeModifiers') <= MaxActiveModifiers
    BY <1>1, <1>3, <2>2, AfterRelease, CapacityAssumption
  <2>4. panicked' \in BOOLEAN
    BY <1>1 DEF IInv, TypeOK
  <2> QED  BY <1>1, <1>8, <1>9, <2>1, <2>3, <2>4 DEF TypeOK, WellFormed
<1> QED  BY <1>8, <1>10, <1>11 DEF IInv

(* A call that holds a modifier preserves the invariant.                   *)
LEMMA ApplyModifierIInv ==
    ASSUME IInv, NEW saved \in SUBSET Keys, NEW k, ApplyModifier(saved, k)
    PROVE  IInv'
<1> DEFINE layer == LayerAfterRelease(saved)
           e == [value |-> LayerLookup[layer][k].hold.value,
                 keyIndex |-> k,
                 tapTimer |-> TimerFor(layer, k)]
           layers == ClearLast(KeptLayers(saved))
           modifiers == Append(ClearLast(KeptModifiers(saved)), e)
           mask == MaskAfterRelease(saved)
<1>1. /\ k \in PressedHoldKeys(saved)
      /\ k \in ModifierKeys(layer)
      /\ Len(KeptModifiers(saved)) < MaxActiveModifiers
      /\ Changed(Pressed(saved), saved)
      /\ keyState' = saved
      /\ activeLayers' = layers
      /\ activeModifiers' = modifiers
      /\ stateMask' = mask \ {k}
      /\ lockMask' = LockAfterRelease(saved)
      /\ fired' = ReachedSpecialKeys(saved)
      /\ Return(saved, {}, layers, modifiers)
      /\ panicked' = panicked
  BY DEF ApplyModifier, IsFirstHoldKey
<1>2. k \in mask \cap saved /\ k \in Keys /\ k \notin LockAfterRelease(saved)
  BY <1>1, AfterRelease DEF PressedHoldKeys, Pressed
<1>3. /\ WellFormed(layers, ClearLast(KeptModifiers(saved)), mask, saved)
      /\ NoPending(layers, ClearLast(KeptModifiers(saved)))
      /\ Len(layers) = KeptDepth(saved)
      /\ Len(ClearLast(KeptModifiers(saved))) = Len(KeptModifiers(saved))
  BY AfterRelease, ClearedWellFormed
<1>4. layer \in LayerIndices
  BY AfterRelease, LayerOfType DEF WellFormed, LayerAfterRelease
<1>5. e \in ActiveModifier /\ e.keyIndex = k
  BY <1>1, <1>2, <1>4, MappingTypes DEF ActiveModifier
<1> HIDE DEF e, layer, layers, mask
<1>6. WellFormed(activeLayers, activeModifiers, stateMask, keyState)'
  <2>1. WellFormed(layers, modifiers, mask \ {e.keyIndex}, saved)
    BY <1>2, <1>3, <1>5, PushModifierWellFormed
  <2> QED  BY <1>1, <1>5, <2>1
<1>7. previousKeyState' = {}
  BY <1>1, PreviousAfterPush
<1>8. lockMask' \subseteq stateMask' \cap keyState'
  BY <1>1, <1>2, AfterRelease DEF mask
<1>9. MasksConsistent'
  BY <1>7, <1>8 DEF MasksConsistent
<1>10. TypeOK'
  <2>1. /\ stateMask' \in SUBSET Keys /\ lockMask' \in SUBSET Keys
        /\ fired' \in SUBSET Keys
    BY <1>1, AfterRelease DEF ReachedSpecialKeys, mask
  <2>2. Len(modifiers) = Len(KeptModifiers(saved)) + 1
    BY <1>3, <1>5 DEF WellFormed
  <2>3. /\ Len(activeLayers') <= MaxActiveLayers
        /\ Len(activeModifiers') <= MaxActiveModifiers
    BY <1>1, <1>3, <2>2, AfterRelease, CapacityAssumption
  <2>4. panicked' \in BOOLEAN
    BY <1>1 DEF IInv, TypeOK
  <2> QED  BY <1>1, <1>6, <1>7, <2>1, <2>3, <2>4 DEF TypeOK, WellFormed
<1> QED  BY <1>6, <1>9, <1>10 DEF IInv

(* A panic leaves the state as it is.                                      *)
LEMMA ApplyOverflowIInv ==
    ASSUME IInv, NEW saved, NEW k, ApplyOverflow(saved, k)
    PROVE  IInv'
<1>1. /\ panicked' = TRUE
      /\ UNCHANGED <<keyState, activeLayers, activeModifiers,
                     previousKeyState, stateMask, lockMask, output, fired>>
  BY DEF ApplyOverflow
<1>2. TypeOK' /\ MasksConsistent'
  BY <1>1 DEF IInv, TypeOK, MasksConsistent
<1>3. WellFormed(activeLayers, activeModifiers, stateMask, keyState)'
  BY <1>1 DEF IInv
<1> QED  BY <1>2, <1>3 DEF IInv

(* The clock preserves the invariant: it touches tap timers only.          *)
LEMMA TickIInv ==
    ASSUME IInv, Tick
    PROVE  IInv'
<1>1. /\ activeLayers' = Aged(activeLayers)
      /\ activeModifiers' = Aged(activeModifiers)
      /\ fired' = {}
      /\ UNCHANGED <<keyState, previousKeyState, stateMask, lockMask, panicked>>
  BY DEF Tick
<1>2. /\ WellFormed(activeLayers, activeModifiers, stateMask, keyState)
      /\ activeLayers \in Seq(ActiveLayer)
      /\ activeModifiers \in Seq(ActiveModifier)
      /\ PendingLast(activeLayers, activeModifiers)
  BY DEF IInv, WellFormed
<1>3. /\ Aged(activeLayers) \in Seq(ActiveLayer)
      /\ Aged(activeModifiers) \in Seq(ActiveModifier)
      /\ SameKeys(Aged(activeLayers), activeLayers)
      /\ SameLayers(Aged(activeLayers), activeLayers)
      /\ SameKeys(Aged(activeModifiers), activeModifiers)
      /\ PendingOf(Aged(activeLayers)) = PendingOf(activeLayers)
      /\ PendingOf(Aged(activeModifiers)) = PendingOf(activeModifiers)
  BY <1>2, AgedProperties
<1>4. /\ Len(Aged(activeLayers)) = Len(activeLayers)
      /\ Len(Aged(activeModifiers)) = Len(activeModifiers)
  BY <1>3 DEF SameKeys
<1>5. PendingLast(Aged(activeLayers), Aged(activeModifiers))
  BY <1>2, <1>3, <1>4 DEF PendingLast
<1>6. WellFormed(Aged(activeLayers), Aged(activeModifiers), stateMask, keyState)
  BY <1>2, <1>3, <1>5, SameKeysWellFormed
<1>7. WellFormed(activeLayers, activeModifiers, stateMask, keyState)'
  BY <1>1, <1>6
<1>8. TypeOK' /\ MasksConsistent'
  BY <1>1, <1>3, <1>4 DEF IInv, TypeOK, MasksConsistent
<1> QED  BY <1>7, <1>8 DEF IInv

(* A new MasterState is as at the start.                                   *)
LEMMA ResetIInv ==
    ASSUME IInv, Reset
    PROVE  IInv'
<1>1. KeysOf(<< >>) = {} /\ PendingOf(<< >>) = {} /\ Distinct(<< >>)
  BY DEF KeysOf, PendingOf, Distinct
<1>2. TypeOK'
  <2>1. /\ << >> \in Seq(ActiveLayer) /\ << >> \in Seq(ActiveModifier)
        /\ Len(<< >>) <= MaxActiveLayers /\ Len(<< >>) <= MaxActiveModifiers
    BY CapacityAssumption
  <2> QED  BY <2>1 DEF TypeOK, Reset, IInv
<1>3. Masked(<< >>, << >>, Keys) /\ PendingLast(<< >>, << >>)
  BY <1>1 DEF Masked, PendingLast
<1>4. Chained(<< >>) /\ Held(<< >>, << >>, {})
  BY <1>1 DEF Chained, Held
<1>5. WellFormed(<< >>, << >>, Keys, {})
  BY <1>3, <1>4 DEF WellFormed
<1> QED  BY <1>2, <1>5 DEF Reset, IInv, MasksConsistent

(* The invariant is inductive.                                             *)
LEMMA NextIInv == IInv /\ [Next]_vars => IInv'
<1> SUFFICES ASSUME IInv, [Next]_vars PROVE IInv'
  OBVIOUS
<1>1. ASSUME NEW saved \in SUBSET Keys, Apply(saved)
      PROVE  IInv'
  <2>1. CASE ApplyUnchanged(saved)
    BY <2>1, ApplyUnchangedIInv
  <2>2. CASE ApplyKeys(saved)
    BY <2>2, ApplyKeysIInv
  <2>3. ASSUME NEW k \in Pressed(saved), ApplyLayer(saved, k)
        PROVE  IInv'
    BY <2>3, ApplyLayerIInv
  <2>4. ASSUME NEW k \in Pressed(saved), ApplyModifier(saved, k)
        PROVE  IInv'
    BY <2>4, ApplyModifierIInv
  <2>5. ASSUME NEW k \in Pressed(saved), ApplyOverflow(saved, k)
        PROVE  IInv'
    BY <2>5, ApplyOverflowIInv
  <2>6. ASSUME NEW k \in Pressed(saved), ApplyCancelled(saved, k)
        PROVE  IInv'
    BY <2>6, ApplyCancelledIInv
  <2> QED  BY <1>1, <2>1, <2>2, <2>3, <2>4, <2>5, <2>6 DEF Apply
<1>2. CASE Tick
  BY <1>2, TickIInv
<1>3. CASE Reset
  BY <1>3, ResetIInv
<1>4. CASE UNCHANGED vars
  BY <1>4 DEF vars, IInv, TypeOK, MasksConsistent
<1> QED  BY <1>1, <1>2, <1>3, <1>4 DEF Next

-----------------------------------------------------------------------------
(* Theorems.                                                               *)

(* The inductive invariant holds in every reachable state.                 *)
THEOREM Invariance == Spec => []IInv
BY InitIInv, NextIInv, PTL DEF Spec

(* The variables keep their types and the stacks stay within the capacity  *)
(* of their vectors, whatever the key map.                                 *)
THEOREM TypeCorrect == Spec => []TypeOK
<1>1. IInv => TypeOK
  BY DEF IInv
<1> QED  BY <1>1, Invariance, PTL

(* The bit mask and the two stacks, which apply updates apart, never       *)
(* disagree, and no key is on the stacks twice.                            *)
THEOREM HoldKeysAreMasked == Spec => []HoldKeysMasked
<1>1. IInv => HoldKeysMasked
  BY DEF IInv, WellFormed, Masked, HoldKeysMasked
<1> QED  BY <1>1, Invariance, PTL

(* No key of a stack is locked or was reported by the last output.         *)
THEOREM MasksAreConsistent == Spec => []MasksConsistent
<1>1. IInv => MasksConsistent
  BY DEF IInv
<1> QED  BY <1>1, Invariance, PTL

(* At most one tap is pending, that of the key pressed last.               *)
THEOREM OnePendingTap == Spec => []PendingTapUnique
<1>1. IInv => PendingTapUnique
  BY DEF IInv, WellFormed, PendingLast, PendingTapUnique
<1> QED  BY <1>1, Invariance, PTL

(* The layer stack always spells the path of keys that led to the current  *)
(* layer.                                                                  *)
THEOREM LayersAreChained == Spec => []StackChained
<1>1. IInv => StackChained
  BY DEF IInv, WellFormed, Chained, StackChained
<1> QED  BY <1>1, Invariance, PTL

(* No layer on top and no modifier outlives its key.                       *)
THEOREM NothingOutlivesItsKey == Spec => []StacksHeld
<1>1. IInv => StacksHeld
  BY DEF IInv, WellFormed, Held, StacksHeld
<1> QED  BY <1>1, Invariance, PTL

-----------------------------------------------------------------------------
(* When every key is up.  The one part that IInv lacks is that the last    *)
(* output was empty; it is inductive given IInv.                           *)

NothingReported == keyState = {} => previousKeyState = {}

(* A call with no key pressed leaves no key in previous_key_state; no      *)
(* other step changes that.                                                *)
LEMMA NothingReportedStep ==
    ASSUME IInv, NothingReported, [Next]_vars
    PROVE  NothingReported'
<1>1. ASSUME Apply({})
      PROVE  NothingReported'
  <2>0. {} \in SUBSET Keys
    OBVIOUS
  <2>1. Pressed({}) = {} /\ Injected({}) \cap previousKeyState = {}
    BY <2>0, AfterRelease
  <2>2. CASE ApplyUnchanged({})
    <3>1. previousKeyState = Injected({}) /\ previousKeyState' = previousKeyState
      BY <2>1, <2>2 DEF ApplyUnchanged, Changed
    <3> QED  BY <2>1, <3>1 DEF NothingReported
  <2>3. CASE ApplyKeys({})
    <3>1. Pressed({}) \ ReachedSpecialKeys({}) = {}
      BY <2>1
    <3>2. Changed({}, {}) /\ previousKeyState' = {}
      BY <2>1, <2>3, <3>1 DEF ApplyKeys, Return
    <3> QED  BY <3>2 DEF NothingReported
  <2> QED  BY <1>1, <2>1, <2>2, <2>3 DEF Apply
<1>2. ASSUME NEW saved \in SUBSET Keys, Apply(saved), saved # {}
      PROVE  NothingReported'
  <2>1. CASE \E k \in Pressed(saved) : ApplyOverflow(saved, k)
    BY <2>1 DEF ApplyOverflow, NothingReported
  <2>2. CASE keyState' = saved
    BY <1>2, <2>2 DEF NothingReported
  <2> QED
    BY <1>2, <2>1, <2>2 DEF Apply, ApplyUnchanged, ApplyKeys, ApplyLayer,
                            ApplyModifier, ApplyCancelled
<1>3. CASE Tick
  BY <1>3 DEF Tick, NothingReported
<1>4. CASE Reset
  BY <1>4 DEF Reset, NothingReported
<1>5. CASE UNCHANGED vars
  BY <1>5 DEF vars, NothingReported
<1> QED  BY <1>1, <1>2, <1>3, <1>4, <1>5 DEF Next

(* When every key is released the state is that of a keyboard nobody has   *)
(* touched: no layer, modifier, lock or reported key sticks.               *)
THEOREM NothingSticks == Spec => []AllReleasedResets
<1>1. Init => NothingReported
  BY DEF Init, NothingReported
<1>2. IInv /\ NothingReported => AllReleasedResets
  <2> SUFFICES ASSUME IInv, NothingReported, keyState = {}
               PROVE  /\ activeLayers = << >> /\ activeModifiers = << >>
                      /\ stateMask = Keys /\ lockMask = {}
                      /\ previousKeyState = {}
    BY DEF AllReleasedResets
  <2>1. /\ activeLayers \in Seq(ActiveLayer)
        /\ activeModifiers \in Seq(ActiveModifier)
        /\ KeysOf(activeModifiers) \subseteq {}
        /\ Masked(activeLayers, activeModifiers, stateMask)
    BY DEF IInv, WellFormed, Held
  <2>2. activeLayers = << >>
    BY DEF IInv, WellFormed, Held
  <2>3. activeModifiers = << >>
    <3>1. activeModifiers # << >> => 1 \in DOMAIN activeModifiers
      BY <2>1
    <3> QED  BY <2>1, <3>1 DEF KeysOf
  <2>4. KeysOf(<< >>) = {}
    BY DEF KeysOf
  <2> QED  BY <2>1, <2>2, <2>3, <2>4 DEF Masked, IInv, MasksConsistent,
                                         NothingReported
<1>3. IInv /\ NothingReported /\ [Next]_vars => NothingReported'
  BY NothingReportedStep
<1> QED  BY <1>1, <1>2, <1>3, Invariance, PTL DEF Spec

-----------------------------------------------------------------------------
(* Action properties.                                                      *)

(* A lock is released by nothing but the key.                              *)
LEMMA LockStep ==
    ASSUME IInv, [Next]_vars
    PROVE  lockMask \cap keyState' \subseteq lockMask'
<1>1. /\ WellFormed(activeLayers, activeModifiers, stateMask, keyState)
      /\ lockMask \subseteq stateMask
  BY DEF IInv, MasksConsistent
<1>2. ASSUME NEW saved \in SUBSET Keys, Apply(saved)
      PROVE  lockMask \cap keyState' \subseteq lockMask'
  <2>1. /\ lockMask \cap saved \subseteq LockAfterRelease(saved)
        /\ LockAfterRelease(saved) \subseteq MaskAfterRelease(saved) \cap saved
        /\ Pressed(saved) \cap LockAfterRelease(saved) = {}
    BY <1>1, ReleaseMasks
  <2>2. CASE \/ ApplyUnchanged(saved)
             \/ ApplyKeys(saved)
             \/ \E k \in Pressed(saved) : \/ ApplyModifier(saved, k)
                                          \/ ApplyCancelled(saved, k)
    BY <2>1, <2>2 DEF ApplyUnchanged, ApplyKeys, ApplyModifier, ApplyCancelled
  <2>3. CASE \E k \in Pressed(saved) : ApplyLayer(saved, k)
    BY <2>1, <2>3 DEF ApplyLayer
  <2>4. CASE \E k \in Pressed(saved) : ApplyOverflow(saved, k)
    BY <2>4 DEF ApplyOverflow
  <2> QED  BY <1>2, <2>2, <2>3, <2>4 DEF Apply
<1>3. CASE Tick
  BY <1>3 DEF Tick
<1>4. CASE Reset
  BY <1>4 DEF Reset
<1>5. CASE UNCHANGED vars
  BY <1>5 DEF vars
<1> QED  BY <1>2, <1>3, <1>4, <1>5 DEF Next

(* A key that apply ignores because a layer changed under it stays ignored *)
(* for as long as it is held.                                              *)
THEOREM LocksLast == Spec => LockedUntilReleased
<1>1. IInv /\ [Next]_vars
         => [lockMask \cap keyState' \subseteq lockMask']_vars
  BY LockStep
<1> QED  BY <1>1, Invariance, PTL DEF Spec, LockedUntilReleased

(* The layer that a step leaves current, and the keys its stacks keep.     *)
LEMMA ApplyOutcome ==
    ASSUME IInv, NEW saved \in SUBSET Keys, Apply(saved)
    PROVE  \/ /\ keyState' = saved
              /\ KeysOf(KeptLayers(saved)) \subseteq KeysOf(activeLayers')
              /\ KeysOf(KeptModifiers(saved)) \subseteq KeysOf(activeModifiers')
              /\ \/ lockMask' = stateMask' \cap saved
                 \/ /\ LayerOf(activeLayers') = LayerOf(KeptLayers(saved))
                    /\ lockMask' = LockAfterRelease(saved)
                    /\ stateMask' \subseteq MaskAfterRelease(saved)
           \/ UNCHANGED <<keyState, activeLayers, activeModifiers>>
<1> DEFINE L == KeptLayers(saved)
           M == KeptModifiers(saved)
<1>1. L \in Seq(ActiveLayer) /\ M \in Seq(ActiveModifier)
  BY AfterRelease DEF WellFormed
<1>2. /\ ClearLast(L) \in Seq(ActiveLayer)
      /\ ClearLast(M) \in Seq(ActiveModifier)
      /\ SameKeys(ClearLast(L), L) /\ SameLayers(ClearLast(L), L)
      /\ SameKeys(ClearLast(M), M)
  BY <1>1, ClearLastProperties
<1>3. /\ KeysOf(ClearLast(L)) = KeysOf(L)
      /\ KeysOf(ClearLast(M)) = KeysOf(M)
      /\ LayerOf(ClearLast(L)) = LayerOf(L)
  <2>1. /\ DOMAIN L = 1 .. Len(L) /\ DOMAIN ClearLast(L) = 1 .. Len(L)
        /\ DOMAIN M = 1 .. Len(M) /\ DOMAIN ClearLast(M) = 1 .. Len(M)
        /\ Len(ClearLast(L)) = Len(L)
    BY <1>1, <1>2 DEF SameKeys
  <2>2. KeysOf(ClearLast(L)) = KeysOf(L) /\ KeysOf(ClearLast(M)) = KeysOf(M)
    BY <1>2, <2>1 DEF SameKeys, KeysOf
  <2>3. LayerOf(ClearLast(L)) = LayerOf(L)
    <3>1. L # << >> => Len(L) \in 1 .. Len(L)
      BY <1>1
    <3>2. ClearLast(L) = << >> <=> L = << >>
      BY <1>1, <1>2, <2>1
    <3> QED  BY <1>2, <2>1, <3>1, <3>2 DEF SameLayers, LayerOf
  <2> QED  BY <2>2, <2>3
<1> HIDE DEF L, M
<1>4. CASE ApplyUnchanged(saved)
  BY <1>4 DEF ApplyUnchanged, L, M
<1>5. CASE ApplyKeys(saved)
  <2>1. /\ activeLayers' \in {L, ClearLast(L)}
        /\ activeModifiers' \in {M, ClearLast(M)}
        /\ keyState' = saved
        /\ lockMask' = LockAfterRelease(saved)
        /\ stateMask' = MaskAfterRelease(saved)
    BY <1>5 DEF ApplyKeys, L, M
  <2> QED  BY <1>3, <2>1 DEF L, M
<1>6. ASSUME NEW k \in Pressed(saved), ApplyLayer(saved, k)
      PROVE  /\ keyState' = saved
             /\ KeysOf(L) \subseteq KeysOf(activeLayers')
             /\ KeysOf(M) \subseteq KeysOf(activeModifiers')
             /\ lockMask' = stateMask' \cap saved
  <2> DEFINE e == [layerIndex |-> LayerLookup[LayerAfterRelease(saved)][k].hold.layer,
                   keyIndex |-> k,
                   tapTimer |-> TimerFor(LayerAfterRelease(saved), k)]
  <2>1. /\ activeLayers' = Append(ClearLast(L), e)
        /\ activeModifiers' = ClearLast(M)
        /\ keyState' = saved
        /\ lockMask' = stateMask' \cap saved
    BY <1>6 DEF ApplyLayer, L, M
  <2>2. e \in {e} \cup ActiveLayer /\ ClearLast(L) \in Seq({e} \cup ActiveLayer)
    <3> HIDE DEF e
    <3> QED  BY <1>2, SeqMonotonic
  <2> HIDE DEF e
  <2>3. KeysOf(Append(ClearLast(L), e)) = KeysOf(ClearLast(L)) \cup {e.keyIndex}
    BY <2>2, AppendKeys
  <2> QED  BY <1>3, <2>1, <2>3
<1>7. ASSUME NEW k \in Pressed(saved), ApplyModifier(saved, k)
      PROVE  /\ keyState' = saved
             /\ KeysOf(L) \subseteq KeysOf(activeLayers')
             /\ KeysOf(M) \subseteq KeysOf(activeModifiers')
             /\ LayerOf(activeLayers') = LayerOf(L)
             /\ lockMask' = LockAfterRelease(saved)
             /\ stateMask' \subseteq MaskAfterRelease(saved)
  <2> DEFINE e == [value |-> LayerLookup[LayerAfterRelease(saved)][k].hold.value,
                   keyIndex |-> k,
                   tapTimer |-> TimerFor(LayerAfterRelease(saved), k)]
  <2>1. /\ activeModifiers' = Append(ClearLast(M), e)
        /\ activeLayers' = ClearLast(L)
        /\ keyState' = saved
        /\ lockMask' = LockAfterRelease(saved)
        /\ stateMask' = MaskAfterRelease(saved) \ {k}
    BY <1>7 DEF ApplyModifier, L, M
  <2>2. e \in {e} \cup ActiveModifier
        /\ ClearLast(M) \in Seq({e} \cup ActiveModifier)
    <3> HIDE DEF e
    <3> QED  BY <1>2, SeqMonotonic
  <2> HIDE DEF e
  <2>3. KeysOf(Append(ClearLast(M), e)) = KeysOf(ClearLast(M)) \cup {e.keyIndex}
    BY <2>2, AppendKeys
  <2> QED  BY <1>3, <2>1, <2>3
<1>8. ASSUME NEW k \in Pressed(saved), ApplyCancelled(saved, k)
      PROVE  /\ keyState' = saved
             /\ activeLayers' = L /\ activeModifiers' = M
             /\ lockMask' = LockAfterRelease(saved)
             /\ stateMask' = MaskAfterRelease(saved)
  BY <1>8 DEF ApplyCancelled, L, M
<1>9. ASSUME NEW k \in Pressed(saved), ApplyOverflow(saved, k)
      PROVE  UNCHANGED <<keyState, activeLayers, activeModifiers>>
  BY <1>9 DEF ApplyOverflow
<1>10. CASE \E k \in Pressed(saved) : ApplyLayer(saved, k)
  BY <1>6, <1>10 DEF L, M
<1>11. CASE \E k \in Pressed(saved) : ApplyModifier(saved, k)
  BY <1>7, <1>11 DEF L, M
<1>12. CASE \E k \in Pressed(saved) : ApplyCancelled(saved, k)
  BY <1>8, <1>12 DEF L, M
<1>13. CASE \E k \in Pressed(saved) : ApplyOverflow(saved, k)
  BY <1>9, <1>13
<1> QED  BY <1>4, <1>5, <1>10, <1>11, <1>12, <1>13 DEF Apply

(* Each step that changes the current layer locks the enabled keys that    *)
(* are still held: a push does it itself, a pop in LockAfterRelease.       *)
LEMMA LayerChangeStep ==
    ASSUME IInv, [Next]_vars, CurrentLayerIndex' # CurrentLayerIndex
    PROVE  keyState' \cap stateMask' \subseteq lockMask'
<1>1. /\ WellFormed(activeLayers, activeModifiers, stateMask, keyState)
      /\ lockMask \subseteq stateMask
      /\ activeLayers \in Seq(ActiveLayer)
  BY DEF IInv, MasksConsistent, WellFormed
<1>2. ASSUME NEW saved \in SUBSET Keys, Apply(saved)
      PROVE  keyState' \cap stateMask' \subseteq lockMask'
  <2>1. /\ keyState' = saved
        /\ \/ lockMask' = stateMask' \cap saved
           \/ /\ LayerOf(activeLayers') = LayerOf(KeptLayers(saved))
              /\ lockMask' = LockAfterRelease(saved)
              /\ stateMask' \subseteq MaskAfterRelease(saved)
    BY <1>2, ApplyOutcome DEF CurrentLayerIndex
  <2>2. ASSUME LayerOf(activeLayers') = LayerOf(KeptLayers(saved))
        PROVE  PoppedLayers(saved) # {}
    <3>1. SUFFICES ASSUME PoppedLayers(saved) = {}
                   PROVE  KeptLayers(saved) = activeLayers
      BY <2>2 DEF CurrentLayerIndex
    <3>2. KeptDepth(saved) \in 0 .. Len(activeLayers)
      BY <1>1, KeptDepthProperties
    <3>3. KeptDepth(saved) = Len(activeLayers)
      <4>1. Len(activeLayers) \in Nat
        BY <1>1
      <4>2. ~(KeptDepth(saved) + 1 <= Len(activeLayers))
        BY <3>1, <3>2, <4>1 DEF PoppedLayers
      <4> QED  BY <3>2, <4>1, <4>2
    <3> QED  BY <1>1, <3>3, SubSeqFull DEF KeptLayers
  <2>3. /\ MaskAfterRelease(saved) \cap saved = stateMask \cap saved
        /\ PoppedLayers(saved) # {}
              => LockAfterRelease(saved) = stateMask \cap saved
    BY <1>1, ReleaseMasks
  <2> QED  BY <2>1, <2>2, <2>3
<1>3. ~Tick
  <2> SUFFICES ASSUME Tick PROVE CurrentLayerIndex' = CurrentLayerIndex
    OBVIOUS
  <2>1. activeLayers' = Aged(activeLayers)
    BY DEF Tick
  <2>2. /\ Aged(activeLayers) \in Seq(ActiveLayer)
        /\ Len(Aged(activeLayers)) = Len(activeLayers)
        /\ SameLayers(Aged(activeLayers), activeLayers)
    BY <1>1, AgedProperties DEF SameKeys
  <2>3. activeLayers # << >> => Len(activeLayers) \in 1 .. Len(activeLayers)
    BY <1>1
  <2>4. Aged(activeLayers) = << >> <=> activeLayers = << >>
    BY <1>1, <2>2
  <2> QED
    BY <2>1, <2>2, <2>3, <2>4 DEF CurrentLayerIndex, LayerOf, SameLayers
<1>4. CASE Reset
  BY <1>4 DEF Reset
<1>5. ~UNCHANGED vars
  BY DEF vars, CurrentLayerIndex, LayerOf
<1> QED  BY <1>2, <1>3, <1>4, <1>5 DEF Next

(* Entering or leaving a layer locks every regular key that is still held. *)
THEOREM LayerChangesLock == Spec => LayerChangeLocks
<1>1. IInv /\ [Next]_vars
         => [CurrentLayerIndex' # CurrentLayerIndex
                => keyState' \cap stateMask' \subseteq lockMask']_vars
  BY LayerChangeStep
<1> QED  BY <1>1, Invariance, PTL DEF Spec, LayerChangeLocks

-----------------------------------------------------------------------------
(* Taps.                                                                   *)

ReleasedTaps ==
    (TapKeys(activeLayers) \cup TapKeys(activeModifiers))
        \ (KeysOf(activeLayers') \cup KeysOf(activeModifiers'))

(* Every key with a pending tap that the step takes off its stack is among *)
(* the injected keys of the call.                                          *)
LEMMA ReleasedTapsInjected ==
    ASSUME IInv, NEW saved \in SUBSET Keys,
           KeysOf(KeptLayers(saved)) \subseteq KeysOf(activeLayers'),
           KeysOf(KeptModifiers(saved)) \subseteq KeysOf(activeModifiers')
    PROVE  ReleasedTaps \subseteq Injected(saved)
<1>1. /\ activeLayers \in Seq(ActiveLayer)
      /\ activeModifiers \in Seq(ActiveModifier)
      /\ Masked(activeLayers, activeModifiers, stateMask)
  BY DEF IInv, WellFormed
<1>2. ASSUME NEW i \in DOMAIN activeLayers, InTapTime(activeLayers[i]),
             activeLayers[i].keyIndex \notin KeysOf(activeLayers')
      PROVE  activeLayers[i].keyIndex \in Injected(saved)
  <2>1. /\ KeptDepth(saved) \in 0 .. Len(activeLayers)
        /\ DOMAIN KeptLayers(saved) = 1 .. KeptDepth(saved)
        /\ \A j \in 1 .. KeptDepth(saved) : KeptLayers(saved)[j] = activeLayers[j]
    BY <1>1, KeptDepthProperties, KeptLayersProperties
  <2>2. i \notin 1 .. KeptDepth(saved)
    BY <1>2, <2>1 DEF KeysOf
  <2>3. i \in 1 .. Len(activeLayers) /\ Len(activeLayers) \in Nat
    BY <1>1
  <2>4. i \in PoppedLayers(saved)
    BY <2>1, <2>2, <2>3 DEF PoppedLayers
  <2> QED  BY <1>2, <2>4 DEF Injected
<1>3. ASSUME NEW i \in DOMAIN activeModifiers, InTapTime(activeModifiers[i]),
             activeModifiers[i].keyIndex \notin KeysOf(activeModifiers')
      PROVE  activeModifiers[i].keyIndex \in Injected(saved)
  <2>1. activeModifiers[i].keyIndex \in KeysOf(activeModifiers)
    BY DEF KeysOf
  <2>2. activeModifiers[i].keyIndex \in RemovedModifierKeys(saved)
    BY <1>1, <1>3, <2>1, KeptModifiersProperties
  <2>3. i \in RemovedModifiers(saved)
    BY <1>1, <2>2 DEF RemovedModifierKeys, RemovedModifiers, Masked, Distinct
  <2> QED  BY <1>3, <2>3 DEF Injected
<1> QED  BY <1>2, <1>3 DEF ReleasedTaps, TapKeys

(* Each step that takes a key with a pending tap off its stack in time     *)
(* reports that tap, unless it is a cancelled call or the state is new.    *)
LEMMA TapStep ==
    ASSUME IInv, [Next]_vars, ReleasedTaps # {}, ~Cancelled,
           output' # NotCalled
    PROVE  /\ output'.kind = "report"
           /\ ReleasedTaps \subseteq output'.injected
<1>1. ASSUME UNCHANGED <<activeLayers, activeModifiers>>
      PROVE  FALSE
  BY <1>1 DEF ReleasedTaps, TapKeys, KeysOf
<1>2. ~Tick
  <2> SUFFICES ASSUME Tick PROVE FALSE
    OBVIOUS
  <2>1. /\ activeLayers \in Seq(ActiveLayer)
        /\ activeModifiers \in Seq(ActiveModifier)
    BY DEF IInv, WellFormed
  <2>2. /\ activeLayers' = Aged(activeLayers)
        /\ activeModifiers' = Aged(activeModifiers)
    BY DEF Tick
  <2>3. \A stack : KeysOf(Aged(stack)) = KeysOf(stack)
    <3> TAKE stack
    <3>1. DOMAIN Aged(stack) = DOMAIN stack
      BY DEF Aged
    <3>2. \A i \in DOMAIN stack : Aged(stack)[i].keyIndex = stack[i].keyIndex
      BY DEF Aged, IsPending
    <3> QED  BY <3>1, <3>2 DEF KeysOf
  <2>4. \A stack : TapKeys(stack) \subseteq KeysOf(stack)
    BY DEF TapKeys, KeysOf
  <2>5. /\ KeysOf(activeLayers') = KeysOf(activeLayers)
        /\ KeysOf(activeModifiers') = KeysOf(activeModifiers)
    BY <2>2, <2>3
  <2> QED  BY <2>4, <2>5 DEF ReleasedTaps
<1>3. PICK saved \in SUBSET Keys : Apply(saved)
  BY <1>1, <1>2 DEF Next, vars, Reset
<1>4. /\ keyState' = saved
      /\ KeysOf(KeptLayers(saved)) \subseteq KeysOf(activeLayers')
      /\ KeysOf(KeptModifiers(saved)) \subseteq KeysOf(activeModifiers')
  BY <1>1, <1>3, ApplyOutcome
<1>5. ReleasedTaps \subseteq Injected(saved)
  BY <1>4, ReleasedTapsInjected
<1>6. \A keys : Changed(keys, saved)
  <2>1. Injected(saved) # {} /\ Injected(saved) \cap previousKeyState = {}
    BY <1>5, AfterRelease
  <2> QED  BY <2>1 DEF Changed
<1>7. ASSUME NEW keys, NEW layers, NEW modifiers,
             Return(saved, keys, layers, modifiers)
      PROVE  output'.kind = "report" /\ output'.injected = Injected(saved)
  <2>1. output' = Report(modifiers, LayerOf(layers), keys, Injected(saved))
    BY <1>6, <1>7 DEF Return
  <2> QED  BY <2>1 DEF Report
<1>8. ~ApplyUnchanged(saved)
  BY <1>6 DEF ApplyUnchanged
<1>9. \A k \in Pressed(saved) : ~ApplyCancelled(saved, k)
  BY <1>4 DEF Cancelled
<1>10. \A k \in Pressed(saved) : ~ApplyOverflow(saved, k)
  BY <1>1 DEF ApplyOverflow
<1>11. output'.kind = "report" /\ output'.injected = Injected(saved)
  <2>1. CASE ApplyKeys(saved)
    BY <1>7, <2>1 DEF ApplyKeys
  <2>2. CASE \E k \in Pressed(saved) : ApplyLayer(saved, k)
    BY <1>7, <2>2 DEF ApplyLayer
  <2>3. CASE \E k \in Pressed(saved) : ApplyModifier(saved, k)
    BY <1>7, <2>3 DEF ApplyModifier
  <2> QED  BY <1>3, <1>8, <1>9, <1>10, <2>1, <2>2, <2>3 DEF Apply
<1> QED  BY <1>5, <1>11

(* A tap that is due is reported by the call that releases its key: the    *)
(* comparisons with the previous output never swallow it.                  *)
THEOREM TapsAreReported == Spec => TapReported
<1>1. IInv /\ [Next]_vars
         => [ReleasedTaps # {} /\ ~Cancelled /\ output' # NotCalled
                => /\ output'.kind = "report"
                   /\ ReleasedTaps \subseteq output'.injected]_vars
  BY TapStep
<1> QED
  BY <1>1, Invariance, PTL DEF Spec, TapReported, ReleasedTaps

-----------------------------------------------------------------------------
(* The capacity of the stacks.                                             *)

AllLayerKeys == {k \in Keys : \E l \in LayerIndices : k \in LayerKeys(l)}
AllModifierKeys == {k \in Keys : \E l \in LayerIndices : k \in ModifierKeys(l)}

(* The key map has no more layer keys, and no more modifier keys, than the *)
(* stacks have room for.                                                   *)
EnoughRoom ==
    /\ Cardinality(AllLayerKeys) <= MaxActiveLayers
    /\ Cardinality(AllModifierKeys) <= MaxActiveModifiers

(* Distinct keys out of a finite set: no more entries than the set has     *)
(* elements.                                                               *)
LEMMA DistinctBound ==
    ASSUME NEW S, NEW s \in Seq(S), Distinct(s),
           NEW T, IsFiniteSet(T), KeysOf(s) \subseteq T
    PROVE  Len(s) <= Cardinality(T)
<1> DEFINE f == [i \in 1 .. Len(s) |-> s[i].keyIndex]
<1>1. DOMAIN s = 1 .. Len(s) /\ Len(s) \in Nat
  OBVIOUS
<1>2. f \in [1 .. Len(s) -> T]
  BY <1>1 DEF KeysOf
<1>3. \A i, j \in 1 .. Len(s) : f[i] = f[j] => i = j
  BY <1>1 DEF Distinct
<1> HIDE DEF f
<1>4. f \in Injection(1 .. Len(s), T)
  BY <1>2, <1>3 DEF Injection, IsInjective
<1>5. Cardinality(1 .. Len(s)) <= Cardinality(T)
  BY <1>4, FS_Injection
<1>6. Cardinality(1 .. Len(s)) = Len(s)
  <2>1. Cardinality(1 .. Len(s)) = IF 1 > Len(s) THEN 0 ELSE Len(s) - 1 + 1
    BY <1>1, FS_Interval
  <2> QED  BY <1>1, <2>1
<1> QED  BY <1>5, <1>6

(* The keys on the stacks are hold keys of the right kind on some layer.   *)
StacksMapped ==
    /\ KeysOf(activeLayers) \subseteq AllLayerKeys
    /\ KeysOf(activeModifiers) \subseteq AllModifierKeys

(* Each step keeps every stacked key one that holds something on some      *)
(* layer of the key map.                                                   *)
LEMMA StacksMappedStep ==
    ASSUME IInv, StacksMapped, [Next]_vars
    PROVE  StacksMapped'
<1>1. /\ activeLayers \in Seq(ActiveLayer)
      /\ activeModifiers \in Seq(ActiveModifier)
      /\ Masked(activeLayers, activeModifiers, stateMask)
      /\ Distinct(activeLayers)
  BY DEF IInv, WellFormed, Masked
<1>2. ASSUME NEW saved \in SUBSET Keys
      PROVE  /\ KeysOf(KeptLayers(saved)) \subseteq AllLayerKeys
             /\ KeysOf(KeptModifiers(saved)) \subseteq AllModifierKeys
             /\ KeysOf(ClearLast(KeptLayers(saved))) \subseteq AllLayerKeys
             /\ KeysOf(ClearLast(KeptModifiers(saved))) \subseteq AllModifierKeys
             /\ ClearLast(KeptLayers(saved)) \in Seq(ActiveLayer)
             /\ ClearLast(KeptModifiers(saved)) \in Seq(ActiveModifier)
             /\ LayerAfterRelease(saved) \in LayerIndices
  <2>1. /\ KeysOf(KeptLayers(saved)) \subseteq AllLayerKeys
        /\ KeysOf(KeptModifiers(saved)) \subseteq AllModifierKeys
    BY <1>1, PoppedKeysProperties, KeptModifiersProperties DEF StacksMapped
  <2>2. /\ KeptLayers(saved) \in Seq(ActiveLayer)
        /\ KeptModifiers(saved) \in Seq(ActiveModifier)
    BY AfterRelease DEF WellFormed
  <2>3. \A s \in Seq(ActiveLayer) \cup Seq(ActiveModifier) :
           KeysOf(ClearLast(s)) = KeysOf(s)
    <3> TAKE s \in Seq(ActiveLayer) \cup Seq(ActiveModifier)
    <3>1. SameKeys(ClearLast(s), s) /\ DOMAIN ClearLast(s) = DOMAIN s
      BY ClearLastProperties DEF ClearLast
    <3>2. DOMAIN s = 1 .. Len(s)
      OBVIOUS
    <3> QED  BY <3>1, <3>2 DEF SameKeys, KeysOf
  <2> QED
    BY <2>1, <2>2, <2>3, ClearLastProperties, LayerOfType
       DEF LayerAfterRelease
<1>3. ASSUME NEW saved \in SUBSET Keys, Apply(saved)
      PROVE  StacksMapped'
  <2>1. CASE ApplyUnchanged(saved)
    BY <1>2, <2>1 DEF ApplyUnchanged, StacksMapped
  <2>2. CASE ApplyKeys(saved)
    BY <1>2, <2>2 DEF ApplyKeys, StacksMapped
  <2>3. ASSUME NEW k \in Pressed(saved), ApplyLayer(saved, k)
        PROVE  StacksMapped'
    <3> DEFINE e == [layerIndex |->
                        LayerLookup[LayerAfterRelease(saved)][k].hold.layer,
                     keyIndex |-> k,
                     tapTimer |-> TimerFor(LayerAfterRelease(saved), k)]
    <3>1. /\ activeLayers' = Append(ClearLast(KeptLayers(saved)), e)
          /\ activeModifiers' = ClearLast(KeptModifiers(saved))
          /\ k \in LayerKeys(LayerAfterRelease(saved))
      BY <2>3 DEF ApplyLayer
    <3>2. k \in AllLayerKeys /\ e.keyIndex = k /\ e \in ActiveLayer
      BY <1>2, <3>1, MappingTypes DEF AllLayerKeys, LayerKeys, ActiveLayer
    <3> HIDE DEF e
    <3>3. KeysOf(activeLayers')
             = KeysOf(ClearLast(KeptLayers(saved))) \cup {k}
      BY <1>2, <3>1, <3>2, AppendKeys
    <3> QED  BY <1>2, <3>1, <3>2, <3>3 DEF StacksMapped
  <2>4. ASSUME NEW k \in Pressed(saved), ApplyModifier(saved, k)
        PROVE  StacksMapped'
    <3> DEFINE e == [value |->
                        LayerLookup[LayerAfterRelease(saved)][k].hold.value,
                     keyIndex |-> k,
                     tapTimer |-> TimerFor(LayerAfterRelease(saved), k)]
    <3>1. /\ activeModifiers' = Append(ClearLast(KeptModifiers(saved)), e)
          /\ activeLayers' = ClearLast(KeptLayers(saved))
          /\ k \in ModifierKeys(LayerAfterRelease(saved))
      BY <2>4 DEF ApplyModifier
    <3>2. k \in AllModifierKeys /\ e.keyIndex = k /\ e \in ActiveModifier
      BY <1>2, <3>1, MappingTypes
         DEF AllModifierKeys, ModifierKeys, ActiveModifier
    <3> HIDE DEF e
    <3>3. KeysOf(activeModifiers')
             = KeysOf(ClearLast(KeptModifiers(saved))) \cup {k}
      BY <1>2, <3>1, <3>2, AppendKeys
    <3> QED  BY <1>2, <3>1, <3>2, <3>3 DEF StacksMapped
  <2>5. CASE \E k \in Pressed(saved) : ApplyOverflow(saved, k)
    BY <2>5 DEF ApplyOverflow, StacksMapped, KeysOf
  <2>6. CASE \E k \in Pressed(saved) : ApplyCancelled(saved, k)
    BY <1>2, <2>6 DEF ApplyCancelled, StacksMapped
  <2> QED  BY <1>3, <2>1, <2>2, <2>3, <2>4, <2>5, <2>6 DEF Apply
<1>4. CASE Tick
  <2>1. /\ activeLayers' = Aged(activeLayers)
        /\ activeModifiers' = Aged(activeModifiers)
    BY <1>4 DEF Tick
  <2>2. \A stack : KeysOf(Aged(stack)) = KeysOf(stack)
    <3> TAKE stack
    <3>1. DOMAIN Aged(stack) = DOMAIN stack
      BY DEF Aged
    <3>2. \A i \in DOMAIN stack : Aged(stack)[i].keyIndex = stack[i].keyIndex
      BY DEF Aged, IsPending
    <3> QED  BY <3>1, <3>2 DEF KeysOf
  <2> QED  BY <2>1, <2>2 DEF StacksMapped
<1>5. CASE Reset
  BY <1>5 DEF Reset, StacksMapped, KeysOf
<1>6. CASE UNCHANGED vars
  BY <1>6 DEF vars, StacksMapped, KeysOf
<1> QED  BY <1>3, <1>4, <1>5, <1>6 DEF Next

(* With enough room no push finds its stack full.                          *)
LEMMA RoomForPush ==
    ASSUME EnoughRoom, IInv, StacksMapped, NEW saved \in SUBSET Keys, NEW k
    PROVE  ~ApplyOverflow(saved, k)
<1> SUFFICES ASSUME ApplyOverflow(saved, k) PROVE FALSE
  OBVIOUS
<1> DEFINE L == KeptLayers(saved)
           M == KeptModifiers(saved)
<1>1. /\ activeLayers \in Seq(ActiveLayer)
      /\ activeModifiers \in Seq(ActiveModifier)
      /\ Masked(activeLayers, activeModifiers, stateMask)
      /\ Distinct(activeLayers)
  BY DEF IInv, WellFormed, Masked
<1>2. /\ L \in Seq(ActiveLayer) /\ M \in Seq(ActiveModifier)
      /\ Distinct(L) /\ Distinct(M)
      /\ MaskAfterRelease(saved) = Keys \ (KeysOf(L) \cup KeysOf(M))
      /\ Len(L) = KeptDepth(saved) /\ Len(L) \in Nat /\ Len(M) \in Nat
  BY AfterRelease DEF WellFormed, Masked
<1>3. KeysOf(L) \subseteq AllLayerKeys /\ KeysOf(M) \subseteq AllModifierKeys
  BY <1>1, PoppedKeysProperties, KeptModifiersProperties DEF StacksMapped
<1>4. k \in Pressed(saved) /\ k \in Keys /\ k \notin KeysOf(L) \cup KeysOf(M)
  BY <1>2, AfterRelease DEF ApplyOverflow, IsFirstHoldKey, PressedHoldKeys
<1>5. LayerAfterRelease(saved) \in LayerIndices
  BY <1>2, LayerOfType DEF LayerAfterRelease
<1>6. IsFiniteSet(AllLayerKeys) /\ IsFiniteSet(AllModifierKeys)
  <2>1. IsFiniteSet(Keys)
    <3>1. 0 \in Int /\ KeysTotal - 1 \in Int
      BY KeysTotalAssumption
    <3> QED  BY <3>1, FS_Interval DEF Keys
  <2>2. AllLayerKeys \in SUBSET Keys /\ AllModifierKeys \in SUBSET Keys
    BY DEF AllLayerKeys, AllModifierKeys
  <2> QED  BY <2>1, <2>2, FS_Subset
<1> HIDE DEF L, M
<1>7. ASSUME NEW T, IsFiniteSet(T), k \in T,
             NEW S, NEW s \in Seq(S), Distinct(s), KeysOf(s) \subseteq T,
             k \notin KeysOf(s)
      PROVE  Len(s) < Cardinality(T)
  <2>1. KeysOf(s) \subseteq T \ {k}
    BY <1>7
  <2>2. /\ IsFiniteSet(T \ {k})
        /\ Cardinality(T \ {k}) = Cardinality(T) - 1
    BY <1>7, FS_RemoveElement
  <2>3. Len(s) <= Cardinality(T \ {k})
    BY <1>7, <2>1, <2>2, DistinctBound
  <2>4. Cardinality(T) \in Nat /\ Len(s) \in Nat
    BY <1>7, FS_CardinalityType
  <2> QED  BY <2>2, <2>3, <2>4
<1>8. ASSUME k \in LayerKeys(LayerAfterRelease(saved)),
             KeptDepth(saved) >= MaxActiveLayers
      PROVE  FALSE
  <2>1. k \in AllLayerKeys
    BY <1>4, <1>5, <1>8 DEF AllLayerKeys
  <2>2. Len(L) < Cardinality(AllLayerKeys)
    BY <1>2, <1>3, <1>4, <1>6, <1>7, <2>1
  <2>3. Cardinality(AllLayerKeys) \in Nat
    BY <1>6, FS_CardinalityType
  <2> QED  BY <1>2, <1>8, <2>2, <2>3, CapacityAssumption DEF EnoughRoom
<1>9. ASSUME k \in ModifierKeys(LayerAfterRelease(saved)),
             Len(M) >= MaxActiveModifiers
      PROVE  FALSE
  <2>1. k \in AllModifierKeys
    BY <1>4, <1>5, <1>9 DEF AllModifierKeys
  <2>2. Len(M) < Cardinality(AllModifierKeys)
    BY <1>2, <1>3, <1>4, <1>6, <1>7, <2>1
  <2>3. Cardinality(AllModifierKeys) \in Nat
    BY <1>6, FS_CardinalityType
  <2> QED  BY <1>2, <1>9, <2>2, <2>3, CapacityAssumption DEF EnoughRoom
<1> QED  BY <1>8, <1>9 DEF ApplyOverflow, M

(* A key map with no more layer and modifier keys than the stacks hold can *)
(* never panic, however the keys are pressed.                              *)
THEOREM EnoughRoomNoPanic == ASSUME EnoughRoom PROVE Spec => []NoPanic
<1>1. Init => StacksMapped /\ NoPanic
  BY DEF Init, StacksMapped, NoPanic, KeysOf
<1>2. IInv /\ StacksMapped /\ [Next]_vars => StacksMapped'
  BY StacksMappedStep
<1>3. IInv /\ StacksMapped /\ NoPanic /\ [Next]_vars => NoPanic'
  <2> SUFFICES ASSUME IInv, StacksMapped, NoPanic, [Next]_vars
               PROVE  NoPanic'
    OBVIOUS
  <2>1. ASSUME NEW saved \in SUBSET Keys, Apply(saved)
        PROVE  NoPanic'
    <3>1. \A k \in Pressed(saved) : ~ApplyOverflow(saved, k)
      BY RoomForPush
    <3> QED
      BY <2>1, <3>1 DEF Apply, ApplyUnchanged, ApplyKeys, ApplyLayer,
                        ApplyModifier, ApplyCancelled, NoPanic
  <2>2. CASE Tick
    BY <2>2 DEF Tick, NoPanic
  <2>3. CASE Reset
    BY <2>3 DEF Reset, NoPanic
  <2>4. CASE UNCHANGED vars
    BY <2>4 DEF vars, NoPanic
  <2> QED  BY <2>1, <2>2, <2>3, <2>4 DEF Next
<1> QED  BY <1>1, <1>2, <1>3, Invariance, PTL DEF Spec
=============================================================================
