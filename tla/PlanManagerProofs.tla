-------------------------- MODULE PlanManagerProofs --------------------------
(****************************************************************************)
(* Proofs about PlanManager, for a pool of any size, any limits and any set *)
(* of queries.                                                              *)
(****************************************************************************)
EXTENDS PlanManager, DataLemmas

-----------------------------------------------------------------------------
(* The operators PlanManager is built from: the elements of a sequence at      *)
(* some positions, how often a value occurs in it, and what replacing,        *)
(* removing and splicing do to that.                                          *)

Rank(K, k) == Cardinality({j \in K : j <= k})

(* The places of the elements of a set, counted from the least. *)
LEMMA RankIncreases ==
  ASSUME NEW n \in Nat, NEW K \in SUBSET (1..n)
  PROVE  /\ \A k \in K : Rank(K, k) \in 1..Cardinality(K)
         /\ \A j, k \in K : j < k => Rank(K, j) < Rank(K, k)
         /\ \A i \in 1..Cardinality(K) : \E k \in K : Rank(K, k) = i
<1> DEFINE Upto(k) == {j \in K : j <= k}
           rank == [k \in K |-> Rank(K, k)]
<1>1. IsFiniteSet(K) /\ Cardinality(K) \in Nat
  BY PositionsFinite
<1>2. ASSUME NEW k \in K
      PROVE  Rank(K, k) \in 1..Cardinality(K) /\ Rank(K, k) \in Nat /\ IsFiniteSet(Upto(k))
  <2>1. /\ IsFiniteSet(Upto(k)) /\ Cardinality(Upto(k)) \in Nat
        /\ Cardinality(Upto(k)) <= Cardinality(K)
    BY <1>1, FS_Subset, FS_CardinalityType
  <2>2. k \in Upto(k)
    OBVIOUS
  <2>3. Cardinality(Upto(k)) # 0
    BY <2>1, <2>2, FS_EmptySet
  <2>4. QED
    BY <1>1, <2>1, <2>3 DEF Rank
<1>3. ASSUME NEW j \in K, NEW k \in K, j < k PROVE Rank(K, j) < Rank(K, k)
  <2>1. Upto(j) \in SUBSET Upto(k) /\ k \in Upto(k) /\ k \notin Upto(j)
    <3>1. \A i \in K : i \in Int
      OBVIOUS
    <3>2. \A i \in K : i <= j => i <= k
      BY <1>3, <3>1
    <3>3. k <= k /\ ~(k <= j)
      BY <1>3, <3>1
    <3>4. QED
      BY <3>2, <3>3
  <2>2. IsFiniteSet(Upto(k)) /\ Rank(K, j) \in Nat /\ Rank(K, k) \in Nat
    BY <1>2
  <2>3. Cardinality(Upto(j)) <= Cardinality(Upto(k)) /\ Cardinality(Upto(j)) # Cardinality(Upto(k))
    BY <2>1, <2>2, FS_Subset
  <2>4. QED
    BY <2>2, <2>3 DEF Rank
<1>4. rank \in Injection(K, 1..Cardinality(K))
  <2>1. rank \in [K -> 1..Cardinality(K)]
    BY <1>2
  <2>2. ASSUME NEW j \in K, NEW k \in K, rank[j] = rank[k] PROVE j = k
    <3>1. Rank(K, j) = Rank(K, k)
      BY <2>2
    <3>2. Rank(K, j) \in Nat /\ Rank(K, k) \in Nat
      BY <1>2
    <3>3. ~(j < k) /\ ~(k < j)
      BY <1>3, <3>1, <3>2
    <3>4. j \in Int /\ k \in Int
      OBVIOUS
    <3>5. QED
      BY <3>3, <3>4
  <2>3. QED
    BY <2>1, <2>2 DEF Injection, IsInjective
<1>5. rank \in Surjection(K, 1..Cardinality(K))
  <2>1. IsFiniteSet(1..Cardinality(K)) /\ Cardinality(1..Cardinality(K)) = Cardinality(K)
    BY <1>1, FS_Interval
  <2>2. QED
    BY <1>4, <2>1, FS_Injection
<1>6. QED
  BY <1>2, <1>3, <1>5 DEF Surjection

(* Picked is a subsequence: its elements come from increasing positions, and  *)
(* all of those that were asked for.                                         *)
LEMMA PickedPositions ==
  ASSUME NEW S, NEW s \in Seq(S), NEW K \in SUBSET DOMAIN s
  PROVE  /\ Picked(s, K) \in Seq(S)
         /\ Len(Picked(s, K)) = Cardinality(K) /\ Cardinality(K) \in 0..Len(s)
         /\ \E at \in [1..Cardinality(K) -> K] :
              /\ \A i \in 1..Cardinality(K) : Picked(s, K)[i] = s[at[i]]
              /\ \A i, j \in 1..Cardinality(K) : i < j => at[i] < at[j]
              /\ \A k \in K : \E i \in 1..Cardinality(K) : at[i] = k
<1> DEFINE n == Cardinality(K)
           at == [i \in 1..n |-> CHOOSE k \in K : Cardinality({j \in K : j <= k}) = i]
<1>1. Len(s) \in Nat /\ DOMAIN s = 1..Len(s)
  OBVIOUS
<1>2. n \in 0..Len(s) /\ n \in Nat
  BY <1>1, PositionsFinite
<1>3. /\ \A k \in K : Rank(K, k) \in 1..n
      /\ \A j, k \in K : j < k => Rank(K, j) < Rank(K, k)
      /\ \A i \in 1..n : \E k \in K : Rank(K, k) = i
  BY <1>1, RankIncreases
<1>4. ASSUME NEW i \in 1..n PROVE at[i] \in K /\ Rank(K, at[i]) = i
  BY <1>3 DEF Rank
<1>5. Picked(s, K) = [i \in 1..n |-> s[at[i]]]
  BY DEF Picked
<1> HIDE DEF at, n
<1>6. \A i, j \in 1..n : i < j => at[i] < at[j]
  <2>1. ASSUME NEW i \in 1..n, NEW j \in 1..n, i < j, ~(at[i] < at[j]) PROVE FALSE
    <3>1. at[i] \in Nat /\ at[j] \in Nat /\ at[i] \in K /\ at[j] \in K
      BY <1>1, <1>4
    <3>2. CASE at[j] < at[i]
      <4>1. Rank(K, at[j]) < Rank(K, at[i])
        BY <1>3, <3>1, <3>2
      <4>2. QED
        BY <1>2, <1>4, <2>1, <4>1
    <3>3. CASE at[j] = at[i]
      BY <1>2, <1>4, <2>1, <3>3
    <3>4. QED
      BY <2>1, <3>1, <3>2, <3>3
  <2>2. QED
    BY <2>1
<1>7. \A k \in K : \E i \in 1..n : at[i] = k
  <2>1. ASSUME NEW k \in K PROVE at[Rank(K, k)] = k /\ Rank(K, k) \in 1..n
    <3> DEFINE l == at[Rank(K, k)]
    <3>1. Rank(K, k) \in 1..n
      BY <1>3
    <3>2. l \in K /\ Rank(K, l) = Rank(K, k)
      BY <1>4, <3>1
    <3>3. l \in Nat /\ k \in Nat
      BY <1>1, <3>2
    <3> HIDE DEF l
    <3>4. ~(l < k) /\ ~(k < l)
      BY <1>2, <1>3, <3>1, <3>2
    <3>5. l = k
      BY <3>3, <3>4
    <3>6. QED
      BY <3>1, <3>5 DEF l
  <2>2. QED
    BY <2>1
<1>8. at \in [1..n -> K]
  BY <1>4 DEF at
<1>9. Picked(s, K) \in Seq(S) /\ Len(Picked(s, K)) = n
  BY <1>1, <1>2, <1>5, <1>8
<1>10. \A i \in 1..n : Picked(s, K)[i] = s[at[i]]
  BY <1>5
<1>11. QED
  BY <1>2, <1>6, <1>7, <1>8, <1>9, <1>10 DEF n
-----------------------------------------------------------------------------
(* Sequences without some of their elements.                                  *)
LEMMA WithoutType ==
  ASSUME NEW S, NEW s \in Seq(S), NEW x
  PROVE  /\ Without(s, x) \in Seq(S) /\ Len(Without(s, x)) <= Len(s)
         /\ ToSet(Without(s, x)) = ToSet(s) \ {x}
         /\ IsInjective(s) => IsInjective(Without(s, x))
<1> DEFINE K == {k \in DOMAIN s : s[k] # x}
           n == Cardinality(K)
<1>1. K \in SUBSET DOMAIN s
  OBVIOUS
<1> HIDE DEF K
<1>2. /\ Picked(s, K) \in Seq(S) /\ Len(Picked(s, K)) = n /\ n \in 0..Len(s)
      /\ \E at \in [1..n -> K] :
           /\ \A i \in 1..n : Picked(s, K)[i] = s[at[i]]
           /\ \A i, j \in 1..n : i < j => at[i] < at[j]
           /\ \A k \in K : \E i \in 1..n : at[i] = k
  BY <1>1, PickedPositions
<1>3. PICK at \in [1..n -> K] :
           /\ \A i \in 1..n : Picked(s, K)[i] = s[at[i]]
           /\ \A i, j \in 1..n : i < j => at[i] < at[j]
           /\ \A k \in K : \E i \in 1..n : at[i] = k
  BY <1>2
<1>4. Without(s, x) = Picked(s, K)
  BY DEF Without, K
<1> DEFINE w == Picked(s, K)
<1> HIDE DEF n, w
<1>5. DOMAIN w = 1..n /\ Len(s) \in Nat
  BY <1>2 DEF w
<1>6. ToSet(w) = ToSet(s) \ {x}
  <2>1. \A i \in 1..n : w[i] \in ToSet(s) \ {x}
    BY <1>1, <1>3, ZenonT(60) DEF ToSet, K, w
  <2>2. \A y \in ToSet(s) \ {x} : \E k \in K : s[k] = y
    BY DEF ToSet, K
  <2>3. \A y \in ToSet(s) \ {x} : \E i \in 1..n : w[i] = y
    BY <1>3, <2>2 DEF w
  <2>4. QED
    BY <1>5, <2>1, <2>3 DEF ToSet
<1>7. ASSUME IsInjective(s) PROVE IsInjective(w)
  <2>1. \A i, j \in 1..n : w[i] = w[j] => at[i] = at[j]
    BY <1>1, <1>3, <1>7 DEF IsInjective, w
  <2>2. \A i, j \in 1..n : at[i] = at[j] => i = j
    <3>1. ASSUME NEW i \in 1..n, NEW j \in 1..n, at[i] = at[j], i < j PROVE FALSE
      <4>1. at[i] < at[j] /\ at[i] \in Int
        BY <1>1, <1>3, <3>1
      <4>2. QED
        BY <3>1, <4>1
    <3>2. QED
      BY <3>1
  <2>3. QED
    BY <1>5, <2>1, <2>2 DEF IsInjective
<1>8. QED
  BY <1>2, <1>4, <1>6, <1>7 DEF w

(* What is left is in the order it was in.                                    *)
LEMMA WithoutOrder ==
  ASSUME NEW S, NEW s \in Seq(S), NEW x
  PROVE  \E at \in [1..Len(Without(s, x)) -> 1..Len(s)] :
           /\ \A i \in 1..Len(Without(s, x)) : Without(s, x)[i] = s[at[i]]
           /\ \A i, j \in 1..Len(Without(s, x)) : i < j => at[i] < at[j]
           /\ \A k \in 1..Len(s) : s[k] # x => \E i \in 1..Len(Without(s, x)) : at[i] = k
<1> DEFINE K == {k \in DOMAIN s : s[k] # x}
           n == Cardinality(K)
<1>1. K \in SUBSET DOMAIN s /\ DOMAIN s = 1..Len(s)
  OBVIOUS
<1>2. \A k \in 1..Len(s) : s[k] # x => k \in K
  BY <1>1
<1> HIDE DEF K
<1>3. Len(Picked(s, K)) = n
  BY <1>1, PickedPositions
<1>4. PICK at \in [1..n -> K] :
        /\ \A i \in 1..n : Picked(s, K)[i] = s[at[i]]
        /\ \A i, j \in 1..n : i < j => at[i] < at[j]
        /\ \A k \in K : \E i \in 1..n : at[i] = k
  BY <1>1, PickedPositions, SMTT(40)
<1>5. Without(s, x) = Picked(s, K)
  BY DEF Without, K
<1>6. at \in [1..n -> 1..Len(s)]
  BY <1>1
<1> HIDE DEF n
<1>7. QED
  BY <1>2, <1>3, <1>4, <1>5, <1>6, SMTT(40)

(* What a list without one operator begins and ends with. *)
LEMMA WithoutEnds ==
  ASSUME NEW S, NEW s \in Seq(S), NEW x, s # <<>>
  PROVE  /\ Last(s) # x => Without(s, x) # <<>> /\ Last(Without(s, x)) = Last(s)
         /\ Head(s) # x => Without(s, x) # <<>> /\ Head(Without(s, x)) = Head(s)
<1> DEFINE w == Without(s, x)
           m == Len(s)
           n == Len(w)
<1>1. /\ m \in Nat /\ m >= 1 /\ Last(s) = s[m] /\ Head(s) = s[1] /\ w \in Seq(S) /\ n \in Nat
      /\ (w # <<>> => n >= 1 /\ Last(w) = w[n] /\ Head(w) = w[1])
      /\ (n >= 1 => w # <<>>)
  BY WithoutType DEF Last
<1>2. PICK at \in [1..n -> 1..m] :
           /\ \A i \in 1..n : w[i] = s[at[i]]
           /\ \A i, j \in 1..n : i < j => at[i] < at[j]
           /\ \A k \in 1..m : s[k] # x => \E i \in 1..n : at[i] = k
  BY WithoutOrder
<1> HIDE DEF w, m, n
<1>3. ASSUME s[m] # x PROVE w # <<>> /\ w[n] = s[m]
  <2>1. PICK i \in 1..n : at[i] = m
    BY <1>1, <1>2, <1>3
  <2>2. n \in 1..n /\ at[n] \in 1..m
    BY <1>1, <1>2, <2>1
  <2>3. ~(i < n)
    BY <1>1, <1>2, <2>1, <2>2
  <2>4. i = n
    BY <1>1, <2>1, <2>3
  <2>5. QED
    BY <1>1, <1>2, <2>1, <2>2, <2>4
<1>4. ASSUME s[1] # x PROVE w # <<>> /\ w[1] = s[1]
  <2>1. PICK i \in 1..n : at[i] = 1
    BY <1>1, <1>2, <1>4
  <2>2. 1 \in 1..n /\ at[1] \in 1..m
    BY <1>1, <1>2, <2>1
  <2>3. ~(1 < i)
    BY <1>1, <1>2, <2>1, <2>2
  <2>4. i = 1
    BY <1>1, <2>1, <2>3
  <2>5. QED
    BY <1>1, <1>2, <2>1, <2>2, <2>4
<1>5. QED
  BY <1>1, <1>3, <1>4 DEF w

(* A list of which doubles are left out is a list of the same operators. *)
LEMMA DistinctType ==
  ASSUME NEW S, NEW s \in Seq(S)
  PROVE  Distinct(s) \in Seq(S)
<1>1. {k \in DOMAIN s : \A j \in 1..(k - 1) : s[j] # s[k]} \in SUBSET DOMAIN s
  OBVIOUS
<1>2. QED
  BY <1>1, PickedPositions DEF Distinct

(* What is picked once from each place is different where the places are.     *)
LEMMA PickedInjective ==
  ASSUME NEW S, NEW s \in Seq(S), NEW K \in SUBSET DOMAIN s,
         \A j, k \in K : j < k => s[j] # s[k]
  PROVE  IsInjective(Picked(s, K))
<1> DEFINE w == Picked(s, K)
           n == Cardinality(K)
<1>1. w \in Seq(S) /\ Len(w) = n /\ n \in 0..Len(s) /\ DOMAIN s = 1..Len(s)
  BY PickedPositions
<1>2. PICK at \in [1..n -> K] :
        /\ \A i \in 1..n : w[i] = s[at[i]]
        /\ \A i, j \in 1..n : i < j => at[i] < at[j]
  BY PickedPositions
<1> HIDE DEF w, n
<1>3. ASSUME NEW i \in 1..n, NEW j \in 1..n, i < j PROVE w[i] # w[j]
  BY <1>2, <1>3
<1>4. ASSUME NEW i \in 1..n, NEW j \in 1..n, w[i] = w[j] PROVE i = j
  <2>1. ~(i < j) /\ ~(j < i)
    BY <1>3, <1>4
  <2>2. QED
    BY <2>1
<1>5. DOMAIN w = 1..n
  BY <1>1
<1>6. QED
  BY <1>4, <1>5 DEF IsInjective, w

(* Neither leaving out doubles nor picking from distinct operators makes doubles. *)
LEMMA PickedDistinct ==
  ASSUME NEW S, NEW s \in Seq(S)
  PROVE  /\ IsInjective(Distinct(s))
         /\ IsInjective(s) => \A K \in SUBSET DOMAIN s : IsInjective(Picked(s, K))
<1>1. IsInjective(Distinct(s))
  <2> DEFINE K == {k \in DOMAIN s : \A j \in 1..(k - 1) : s[j] # s[k]}
  <2>1. \A k \in K : k \in Nat /\ k >= 1
    OBVIOUS
  <2>2. ASSUME NEW j \in K, NEW k \in K, j < k PROVE s[j] # s[k]
    <3>1. j \in 1..(k - 1)
      BY <2>1, <2>2
    <3>2. QED
      BY <3>1
  <2>3. K \in SUBSET DOMAIN s
    OBVIOUS
  <2> HIDE DEF K
  <2>4. IsInjective(Picked(s, K))
    BY <2>2, <2>3, PickedInjective
  <2>5. QED
    BY <2>4 DEF Distinct, K
<1>2. ASSUME IsInjective(s), NEW K \in SUBSET DOMAIN s PROVE IsInjective(Picked(s, K))
  <2>1. ASSUME NEW j \in K, NEW k \in K, j < k PROVE s[j] # s[k]
    <3>1. j \in Nat /\ k \in Nat /\ j # k
      BY <2>1
    <3>2. QED
      BY <1>2, <3>1 DEF IsInjective
  <2>2. QED
    BY <2>1, PickedInjective
<1>3. QED
  BY <1>1, <1>2

-----------------------------------------------------------------------------
(* How often something occurs in a sequence.                                  *)
LEMMA TwoParts ==
  ASSUME NEW n \in Nat, NEW A \in SUBSET (1..n), NEW B \in SUBSET (1..n), A \cap B = {}
  PROVE  /\ Cardinality(A \cup B) = Cardinality(A) + Cardinality(B)
         /\ Cardinality(A) \in Nat /\ Cardinality(B) \in Nat
<1>1. /\ IsFiniteSet(A) /\ IsFiniteSet(B) /\ Cardinality(A) \in Nat /\ Cardinality(B) \in Nat
  BY PositionsFinite
<1>2. Cardinality(A \cap B) = 0
  BY FS_EmptySet
<1>3. Cardinality(A \cup B) = Cardinality(A) + Cardinality(B) - Cardinality(A \cap B)
  BY <1>1, FS_Union
<1>4. QED
  BY <1>1, <1>2, <1>3

(* How often an operator is in a list. *)
LEMMA TimesType ==
  ASSUME NEW S, NEW s \in Seq(S), NEW x
  PROVE  /\ Times(s, x) \in Nat /\ Times(s, x) <= Len(s)
         /\ Times(s, x) = 0 <=> x \notin ToSet(s)
         /\ Len(s) = 1 => Times(s, x) = IF x = s[1] THEN 1 ELSE 0
<1> DEFINE K == {k \in DOMAIN s : s[k] = x}
<1>1. K \in SUBSET (1..Len(s)) /\ Len(s) \in Nat
  OBVIOUS
<1>2. K = {} <=> x \notin ToSet(s)
  BY DEF ToSet
<1>3. Len(s) = 1 => K = IF x = s[1] THEN {1} ELSE {}
  OBVIOUS
<1> HIDE DEF K
<1>4. IsFiniteSet(K) /\ Cardinality(K) \in Nat /\ Cardinality(K) <= Len(s)
  BY <1>1, PositionsFinite
<1>5. Cardinality(K) = 0 <=> K = {}
  BY <1>4, FS_EmptySet
<1>6. Len(s) = 1 => Cardinality(K) = IF x = s[1] THEN 1 ELSE 0
  BY <1>3, FS_EmptySet, FS_Singleton
<1>7. Times(s, x) = Cardinality(K)
  BY DEF Times, K
<1>8. QED
  BY <1>2, <1>4, <1>5, <1>6, <1>7

(* In two lists together an operator is as often as in both. *)
LEMMA TimesConcat ==
  ASSUME NEW S, NEW s \in Seq(S), NEW t \in Seq(S), NEW x
  PROVE  Times(s \o t, x) = Times(s, x) + Times(t, x)
<1> DEFINE n == Len(s)
           m == Len(t)
           w == s \o t
           A == {k \in 1..n : s[k] = x}
           B == {k \in 1..m : t[k] = x}
           C == {k \in 1..(n + m) : w[k] = x /\ k > n}
           K == {k \in 1..(n + m) : w[k] = x}
<1>1. /\ n \in Nat /\ m \in Nat /\ n + m \in Nat /\ DOMAIN s = 1..n /\ DOMAIN t = 1..m
      /\ DOMAIN w = 1..(n + m)
      /\ \A k \in 1..n : w[k] = s[k]
      /\ \A k \in 1..m : w[n + k] = t[k]
  BY Concat
<1> HIDE DEF n, m, w
<1>2. K = A \cup C /\ A \cap C = {} /\ A \in SUBSET (1..(n + m)) /\ C \in SUBSET (1..(n + m))
  BY <1>1
<1>3. Cardinality(C) = Cardinality(B)
  <2> DEFINE f == [k \in B |-> n + k]
  <2>1. f \in [B -> C]
    <3>1. \A k \in B : n + k \in C
      BY <1>1
    <3>2. QED
      BY <3>1
  <2>2. \A j, k \in B : f[j] = f[k] => j = k
    BY <1>1
  <2>3. \A c \in C : c - n \in B /\ f[c - n] = c
    BY <1>1
  <2>4. B \in SUBSET (1..m)
    OBVIOUS
  <2> HIDE DEF f, B, C
  <2>5. f \in Bijection(B, C)
    BY <2>1, <2>2, <2>3 DEF Bijection, Injection, Surjection, IsInjective
  <2>6. IsFiniteSet(B)
    BY <1>1, <2>4, PositionsFinite
  <2>7. QED
    BY <2>5, <2>6, FS_Bijection DEF ExistsBijection
<1>4. Cardinality(K) = Cardinality(A) + Cardinality(C)
  <2> HIDE DEF A, C, K
  <2>1. QED
    BY <1>1, <1>2, TwoParts, ZenonT(30)
<1>5. Times(w, x) = Cardinality(K) /\ Times(s, x) = Cardinality(A) /\ Times(t, x) = Cardinality(B)
  BY <1>1 DEF Times
<1>6. QED
  BY <1>3, <1>4, <1>5 DEF w

(* A list that repeats one operator. *)
LEMMA TimesSame ==
  ASSUME NEW n \in Nat, NEW o, NEW x
  PROVE  Times([k \in 1..n |-> o], x) = IF x = o THEN n ELSE 0
<1>1. {k \in DOMAIN [j \in 1..n |-> o] : [j \in 1..n |-> o][k] = x} = IF x = o THEN 1..n ELSE {}
  OBVIOUS
<1>2. Cardinality(1..n) = n /\ Cardinality({}) = 0
  BY FS_Interval, FS_EmptySet
<1>3. QED
  BY <1>1, <1>2 DEF Times

(* Replacing one operator by another in a list moves its count to the other. *)
LEMMA TimesReplaced ==
  ASSUME NEW S, NEW s \in Seq(S), NEW o, NEW i, i # o, NEW x
  PROVE  Times(ReplaceAll(s, o, i), x)
           = IF x = i THEN Times(s, i) + Times(s, o) ELSE IF x = o THEN 0 ELSE Times(s, x)
<1> DEFINE n == Len(s)
           w == ReplaceAll(s, o, i)
           A(y) == {k \in 1..n : s[k] = y}
           K == {k \in 1..n : w[k] = x}
<1>1. n \in Nat /\ DOMAIN s = 1..n /\ w = [k \in 1..n |-> IF s[k] = o THEN i ELSE s[k]]
  BY DEF ReplaceAll
<1>2. DOMAIN w = 1..n /\ \A k \in 1..n : w[k] = IF s[k] = o THEN i ELSE s[k]
  BY <1>1
<1> HIDE DEF n, w
<1>3. K = IF x = i THEN A(i) \cup A(o) ELSE IF x = o THEN {} ELSE A(x)
  BY <1>2
<1>4. A(i) \cap A(o) = {} /\ A(i) \in SUBSET (1..n) /\ A(o) \in SUBSET (1..n)
  OBVIOUS
<1>5. Times(w, x) = Cardinality(K) /\ \A y : Times(s, y) = Cardinality(A(y))
  BY <1>1, <1>2 DEF Times
<1> HIDE DEF A, K
<1>6. Cardinality(A(i) \cup A(o)) = Cardinality(A(i)) + Cardinality(A(o))
  BY <1>1, <1>4, TwoParts, ZenonT(60)
<1>7. Cardinality({}) = 0
  BY FS_EmptySet
<1>8. QED
  BY <1>3, <1>5, <1>6, <1>7 DEF w

(* A list without its last element. *)
LEMMA FrontOf ==
  ASSUME NEW S, NEW s \in Seq(S), s # <<>>
  PROVE  /\ Front(s) \in Seq(S) /\ Len(Front(s)) = Len(s) - 1 /\ Len(s) \in Nat /\ Len(s) >= 1
         /\ \A k \in 1..(Len(s) - 1) : Front(s)[k] = s[k]
<1> DEFINE n == Len(s) - 1
<1>1. n \in Nat /\ Len(s) = n + 1
  OBVIOUS
<1>2. /\ SubSeq(s, 1, n) \in Seq(S) /\ Len(SubSeq(s, 1, n)) = n
  BY <1>1
<1>3. \A k \in 1..n : SubSeq(s, 1, n)[k] = s[k]
  BY <1>1
<1>4. Front(s) = SubSeq(s, 1, n)
  BY DEF Front
<1> HIDE DEF n
<1>5. QED
  BY <1>1, <1>2, <1>3, <1>4 DEF n

(* FilledAt takes one occurrence away, of what was at the place.              *)
LEMMA TimesFilled ==
  ASSUME NEW S, NEW s \in Seq(S), NEW place \in 1..Len(s), NEW x
  PROVE  Times(s, x) = Times(FilledAt(s, place), x) + (IF x = s[place] THEN 1 ELSE 0)
<1> DEFINE n    == Len(s)
           last == Last(s)
           t    == [s EXCEPT ![place] = last]
           w    == Front(t)
           C    == {k \in 1..(n - 1) : k # place /\ s[k] = x}
           K    == {k \in 1..n : s[k] = x}
           J    == {k \in 1..(n - 1) : w[k] = x}
<1>1. n \in Nat /\ n >= 1 /\ place \in Nat /\ place >= 1 /\ place <= n /\ DOMAIN s = 1..n /\ last = s[n] /\ last \in S
  BY DEF Last
<1>2. t \in Seq(S) /\ Len(t) = n /\ \A k \in 1..n : t[k] = IF k = place THEN last ELSE s[k]
  <2>1. s \in [1..n -> S] /\ t \in [1..n -> S]
    BY <1>1
  <2>2. QED
    BY <1>1, <2>1
<1> HIDE DEF last, t
<1>3. /\ w \in Seq(S) /\ Len(w) = n - 1 /\ \A k \in 1..(n - 1) : w[k] = IF k = place THEN last ELSE s[k]
  <2>1. t # <<>>
    BY <1>1, <1>2
  <2>2. /\ w \in Seq(S) /\ Len(w) = n - 1 /\ \A k \in 1..(n - 1) : w[k] = t[k]
    BY <1>2, <2>1, FrontOf
  <2>3. \A k \in 1..(n - 1) : k \in 1..n
    BY <1>1
  <2>4. QED
    BY <1>2, <2>2, <2>3
<1>4. DOMAIN w = 1..(n - 1) /\ FilledAt(s, place) = w
  <2>1. FilledAt(s, place) = w
    BY DEF FilledAt, t, last
  <2> HIDE DEF w
  <2>2. DOMAIN w = 1..(n - 1)
    BY <1>1, <1>3
  <2>3. QED
    BY <2>1, <2>2
<1>5. Times(s, x) = Cardinality(K) /\ Times(w, x) = Cardinality(J)
  BY <1>1, <1>4 DEF Times
<1> HIDE DEF w, n
<1>6. IsFiniteSet(C) /\ Cardinality(C) \in Nat
  <2>1. C \in SUBSET (1..n)
    BY <1>1
  <2>2. QED
    BY <1>1, <2>1, PositionsFinite
<1>7. CASE place = n
  <2>1. J = C /\ K = (IF x = s[place] THEN C \cup {n} ELSE C) /\ n \notin C
    BY <1>1, <1>3, <1>7
  <2> HIDE DEF C, J, K
  <2>2. Cardinality(C \cup {n}) = Cardinality(C) + 1
    BY <1>6, <2>1, FS_AddElement
  <2>3. QED
    BY <1>4, <1>5, <1>6, <2>1, <2>2
<1>8. CASE place # n
  <2>1. place \in 1..(n - 1) /\ place \notin C /\ n \notin C
    BY <1>1, <1>8
  <2>2. J = IF last = x THEN C \cup {place} ELSE C
    BY <1>1, <1>3, <2>1
  <2>3. K = (IF last = x THEN C \cup {n} ELSE C) \cup (IF x = s[place] THEN {place} ELSE {})
    BY <1>1, <1>8
  <2> HIDE DEF C, J, K
  <2>4. /\ Cardinality(C \cup {place}) = Cardinality(C) + 1
        /\ Cardinality(C \cup {n}) = Cardinality(C) + 1 /\ IsFiniteSet(C \cup {n})
    BY <1>6, <2>1, FS_AddElement
  <2>5. Cardinality((C \cup {n}) \cup {place}) = Cardinality(C) + 1 + 1
    <3> DEFINE D == C \cup {n}
    <3>1. place \notin D /\ IsFiniteSet(D)
      BY <1>8, <2>1, <2>4
    <3>2. Cardinality(D) = Cardinality(C) + 1
      BY <2>4
    <3> HIDE DEF D
    <3>3. Cardinality(D \cup {place}) = Cardinality(D) + 1
      BY <3>1, FS_AddElement
    <3>4. QED
      BY <3>2, <3>3 DEF D
  <2>6. CASE x = s[place]
    <3>1. CASE last = x
      BY <1>4, <1>5, <1>6, <2>2, <2>3, <2>4, <2>5, <2>6, <3>1
    <3>2. CASE last # x
      BY <1>4, <1>5, <1>6, <2>2, <2>3, <2>4, <2>5, <2>6, <3>2
    <3>3. QED
      BY <3>1, <3>2
  <2>7. CASE x # s[place]
    <3>1. CASE last = x
      BY <1>4, <1>5, <1>6, <2>2, <2>3, <2>4, <2>7, <3>1
    <3>2. CASE last # x
      BY <1>4, <1>5, <1>6, <2>2, <2>3, <2>7, <3>2
    <3>3. QED
      BY <3>1, <3>2
  <2>8. QED
    BY <2>6, <2>7
<1>9. QED
  BY <1>7, <1>8
-----------------------------------------------------------------------------
(* Plans.                                                                     *)
LEMMA CountStep ==
  ASSUME NEW p, NEW n \in Nat
  PROVE  /\ Leaves(p, n) \in Nat /\ Branches(p, n) \in Nat
         /\ Leaves(p, n + 1) = Leaves(p, n) + (IF Arity(p[n + 1]) = 0 THEN 1 ELSE 0)
         /\ Branches(p, n + 1) = Branches(p, n) + (IF Arity(p[n + 1]) = 2 THEN 1 ELSE 0)
         /\ Leaves(p, 0) = 0 /\ Branches(p, 0) = 0
<1>1. ASSUME NEW a
      PROVE  /\ Cardinality({k \in 1..n : Arity(p[k]) = a}) \in Nat
             /\ Cardinality({k \in 1..(n + 1) : Arity(p[k]) = a})
                  = Cardinality({k \in 1..n : Arity(p[k]) = a})
                    + (IF Arity(p[n + 1]) = a THEN 1 ELSE 0)
             /\ Cardinality({k \in 1..0 : Arity(p[k]) = a}) = 0
  <2> DEFINE old == {k \in 1..n : Arity(p[k]) = a}
             new == {k \in 1..(n + 1) : Arity(p[k]) = a}
  <2>1. IsFiniteSet(old) /\ Cardinality(old) \in Nat
    <3>1. old \in SUBSET (1..n)
      OBVIOUS
    <3> HIDE DEF old
    <3>2. QED
      BY <3>1, PositionsFinite
  <2>2. 1..(n + 1) = (1..n) \cup {n + 1} /\ n + 1 \notin 1..n
    OBVIOUS
  <2>3. CASE Arity(p[n + 1]) = a
    <3>1. new = old \cup {n + 1} /\ n + 1 \notin old
      BY <2>2, <2>3
    <3> HIDE DEF old, new
    <3>2. Cardinality(new) = Cardinality(old) + 1
      BY <2>1, <3>1, FS_AddElement
    <3>3. Cardinality({k \in 1..0 : Arity(p[k]) = a}) = 0
      BY FS_EmptySet
    <3>4. QED
      BY <2>1, <2>3, <3>2, <3>3 DEF old, new
  <2>4. CASE Arity(p[n + 1]) # a
    <3>1. new = old
      BY <2>2, <2>4
    <3> HIDE DEF old, new
    <3>2. Cardinality(new) = Cardinality(old) + 0
      BY <2>1, <3>1
    <3>3. Cardinality({k \in 1..0 : Arity(p[k]) = a}) = 0
      BY FS_EmptySet
    <3>4. QED
      BY <2>1, <2>4, <3>2, <3>3 DEF old, new
  <2>5. QED
    BY <2>3, <2>4
<1>2. QED
  BY <1>1 DEF Leaves, Branches

(* What is left of a list after one more of its elements. *)
LEMMA RestStep ==
  ASSUME NEW S, NEW s \in Seq(S), NEW n \in Nat, SubSeq(s, n + 1, Len(s)) # <<>>
  PROVE  /\ n + 1 \in 1..Len(s)
         /\ Head(SubSeq(s, n + 1, Len(s))) = s[n + 1]
         /\ Tail(SubSeq(s, n + 1, Len(s))) = SubSeq(s, n + 1 + 1, Len(s))
<1> DEFINE m    == Len(s)
           rest == SubSeq(s, n + 1, m)
           next == SubSeq(s, n + 1 + 1, m)
<1>1. m \in Nat
  OBVIOUS
<1>2. n + 1 \in 1..m
  BY <1>1
<1>3. /\ rest \in Seq(S) /\ Len(rest) = m - n
      /\ \A i \in 1..(m - n) : rest[i] = s[n + i]
  BY <1>2
<1>4. /\ next \in Seq(S) /\ Len(next) = m - n - 1
      /\ \A i \in 1..(m - n - 1) : next[i] = s[n + 1 + i]
  BY <1>2
<1> HIDE DEF m, rest, next
<1>5. Head(rest) = s[n + 1] /\ rest # <<>>
  BY <1>1, <1>2, <1>3
<1>6. /\ Tail(rest) \in Seq(S) /\ Len(Tail(rest)) = m - n - 1
      /\ \A i \in 1..(m - n - 1) : Tail(rest)[i] = rest[i + 1]
  BY <1>1, <1>2, <1>3, <1>5
<1>7. ASSUME NEW i \in 1..(m - n - 1)
      PROVE  Tail(rest)[i] = next[i]
  <2>1. i + 1 \in 1..(m - n) /\ n + (i + 1) = n + 1 + i
    BY <1>1, <1>2
  <2>2. QED
    BY <1>3, <1>4, <1>6, <2>1
<1>8. Tail(rest) = next
  BY <1>4, <1>6, <1>7
<1>9. QED
  BY <1>2, <1>5, <1>8 DEF m, rest, next

(* A list of which nothing is left has been gone through. *)
LEMMA RestEmpty ==
  ASSUME NEW S, NEW s \in Seq(S), NEW n \in 0..Len(s), SubSeq(s, n + 1, Len(s)) = <<>>
  PROVE  n = Len(s)
<1>1. Len(s) \in Nat /\ n \in Nat /\ n <= Len(s)
  OBVIOUS
<1>2. Len(SubSeq(s, n + 1, Len(s))) = Len(s) - n
  BY <1>1
<1>3. QED
  BY <1>1, <1>2

(* The item that comes next when the first n are translated, and the results  *)
(* it needs.                                                                 *)
LEMMA PlanStep ==
  ASSUME NEW q \in Queries, NEW n \in 0..Len(q.plan), NEW h \in Nat,
         h + Branches(q.plan, n) = Leaves(q.plan, n),
         SubSeq(q.plan, n + 1, Len(q.plan)) # <<>>
  PROVE  /\ n + 1 \in 1..Len(q.plan)
         /\ Head(SubSeq(q.plan, n + 1, Len(q.plan))) = q.plan[n + 1]
         /\ Tail(SubSeq(q.plan, n + 1, Len(q.plan))) = SubSeq(q.plan, n + 1 + 1, Len(q.plan))
         /\ q.plan[n + 1] \in [kind : LogicalKinds, par : Seq(Nat)]
         /\ q.plan[n + 1].kind = "source" => q.plan[n + 1].par # <<>>
         /\ Arity(q.plan[n + 1]) \in 0..h /\ Arity(q.plan[n + 1]) \in 0..2
         /\ (h - Arity(q.plan[n + 1])) + 1 + Branches(q.plan, n + 1) = Leaves(q.plan, n + 1)
<1> DEFINE p == q.plan
           item == p[n + 1]
<1>1. IsPlan(p)
  BY PlanConstants
<1>2. p \in Seq([kind : LogicalKinds, par : Seq(Nat)]) /\ Len(p) \in Nat /\ n \in Nat
  BY <1>1 DEF IsPlan
<1>3. n + 1 \in 1..Len(p)
  BY <1>2, RestStep
<1>4. item \in [kind : LogicalKinds, par : Seq(Nat)]
  BY <1>2, <1>3, SeqElement
<1>5. Arity(item) \in 0..2 /\ (Arity(item) = 0 <=> item.kind = "source")
  BY <1>4 DEF Arity, LogicalKinds
<1>6. item.kind = "source" => item.par # <<>>
  BY <1>1, <1>2, <1>3 DEF IsPlan
<1>7. Leaves(p, n + 1) > Branches(p, n + 1)
  BY <1>1, <1>2, <1>3 DEF IsPlan
<1>8. /\ Head(SubSeq(p, n + 1, Len(p))) = item
      /\ Tail(SubSeq(p, n + 1, Len(p))) = SubSeq(p, n + 1 + 1, Len(p))
  BY <1>2, RestStep
<1> HIDE DEF p, item
<1>9. /\ Leaves(p, n) \in Nat /\ Branches(p, n) \in Nat
      /\ Leaves(p, n + 1) = Leaves(p, n) + (IF Arity(item) = 0 THEN 1 ELSE 0)
      /\ Branches(p, n + 1) = Branches(p, n) + (IF Arity(item) = 2 THEN 1 ELSE 0)
  BY <1>2, CountStep DEF item
<1>10. /\ Arity(item) \in 0..h
       /\ (h - Arity(item)) + 1 + Branches(p, n + 1) = Leaves(p, n + 1)
  <2>1. h + Branches(p, n) = Leaves(p, n)
    BY DEF p
  <2>2. QED
    BY <1>5, <1>7, <1>9, <2>1, SMTT(40)
<1>11. QED
  BY <1>3, <1>4, <1>5, <1>6, <1>8, <1>10 DEF p, item

-----------------------------------------------------------------------------
(* The inductive invariant.                                                  *)

(* An operator is in use, or free, or was merged into another: never two of   *)
(* these.  The one of the system stream is the oldest in use, always.         *)
PoolInv ==
  /\ IsInjective(used) /\ IsInjective(free)
  /\ ToSet(used) \cap ToSet(free) = {}
  /\ used # <<>> /\ Last(used) = 1 /\ ops[1].kind = "ssgen"

(* What is taken out of the network has the one input that takes its place.   *)
Through == {"qsrc", "select", "project"}
InputsFit == \A o \in OpIds : ops[o].kind \in Through => Len(ops[o].in) = 1

(* What is built are the results of the part of the plan that was translated, *)
(* and in the end the one of the whole plan.                                 *)
GenInv ==
  /\ step = "translate" =>
       \E q \in Queries : \E n \in 0..Len(q.plan) :
         /\ todo = SubSeq(q.plan, n + 1, Len(q.plan))
         /\ Len(built) + Branches(q.plan, n) = Leaves(q.plan, n)
  /\ step \in {"qsrc", "output"} => Len(built) = 1

(* The passes are at an operator in use, the comparison is at two different   *)
(* places.                                                                   *)
PlacesInv ==
  /\ step \in Passes \ {"share"} /\ cursor # 0 => cursor \in ToSet(used)
  /\ row >= 1 /\ col > row

MapsInv ==
  /\ Len(sourceOps) >= 1
  /\ Len(meaning) \in Nat /\ meaning = [k \in 1..Len(meaning) |-> meaning[k]]

(* When the sinks are there, the newest operator is one that nobody may read, *)
(* and that is never merged: it stays the head of the list.                   *)
Ends == {"output", "sink", "ssgen"}
HeadInv ==
  step \in {"selects", "share", "projects", "done"} \/ (step = "sinks" /\ cursor # Head(used))
    => ops[Head(used)].kind \in Ends
ShareInv ==
  /\ IsInjective(level)
  /\ step # "nullNeighbour"

(* Up to the sharing of operators the network is the same from both ends, and *)
(* an operator is newer than those it reads from.                            *)
Unshared == {"idle", "translate", "qsrc", "output", "unsource", "sinks", "selects"}
NewerFirst == \A j, k \in DOMAIN used : used[j] \in ToSet(ops[used[k]].in) => k < j
NetInv == step \in Unshared => EdgesAgree /\ NewerFirst
RegisteredInv ==
  step \in {"idle", "translate", "qsrc", "output"} =>
    /\ ToSet(built) \cup ToSet(queryOutOps) \subseteq ToSet(used)
    /\ \A k \in DOMAIN sourceOps : sourceOps[k].op \in ToSet(used)

IInv ==
  /\ TypeOK /\ PoolInv /\ InputsFit /\ GenInv /\ PlacesInv /\ MapsInv
  /\ HeadInv /\ ShareInv /\ NetInv /\ RegisteredInv

-----------------------------------------------------------------------------
(* The table of operators.                                                   *)
OpsFit(table) ==
  /\ table \in [OpIds -> Operators]
  /\ \A o \in OpIds : table[o].kind \in Through => Len(table[o].in) = 1
  /\ table[1].kind = "ssgen"

(* The operator of the system stream is in the pool. *)
LEMMA OneIsOp == 1 \in OpIds
BY PlanConstants DEF OpIds

(* What the fields of an operator hold. *)
LEMMA Fields ==
  ASSUME NEW x \in Operators
  PROVE  /\ x.kind \in Kinds /\ x.par \in Seq(Nat)
         /\ x.in \in Seq(OpIds) /\ x.out \in Seq(OpIds) /\ x.cls \in Nat
BY DEF Operators

(* A new operator over operators that are there keeps the pool's types. *)
LEMMA WithReaderFits ==
  ASSUME OpsFit(ops), NEW o \in OpIds, NEW kind \in Kinds, NEW par \in Seq(Nat),
         NEW in \in Seq(OpIds), kind \in Through => Len(in) = 1, o # 1
  PROVE  OpsFit(WithReader(o, kind, par, in))
<1> DEFINE new == WithReader(o, kind, par, in)
           op  == NewOp(o, kind, par, in)
<1>1. op \in Operators /\ op.kind = kind /\ op.in = in
  BY DEF OpsFit, Operators, NewOp
<1>2. ASSUME NEW p \in OpIds, p # o
      PROVE  new[p] \in Operators /\ new[p].kind = ops[p].kind /\ new[p].in = ops[p].in
  <2> DEFINE more == [k \in 1..Times(in, p) |-> o]
  <2>1. Times(in, p) \in Nat
    <3>1. {k \in DOMAIN in : in[k] = p} \in SUBSET (1..Len(in)) /\ Len(in) \in Nat
      OBVIOUS
    <3>2. QED
      BY <3>1, PositionsFinite DEF Times
  <2>2. more \in Seq(OpIds)
    BY <2>1
  <2>3. ops[p] \in Operators
    BY DEF OpsFit
  <2>4. new[p] = [ops[p] EXCEPT !.out = @ \o more]
    BY <1>2 DEF WithReader
  <2> HIDE DEF new, more
  <2>5. ops[p].out \o more \in Seq(OpIds)
    BY <2>2, <2>3, Fields
  <2>6. QED
    BY <2>3, <2>4, <2>5 DEF Operators
<1>3. new[o] = op
  BY DEF WithReader
<1>4. new = [p \in OpIds |-> new[p]]
  BY DEF WithReader
<1> HIDE DEF new, op
<1>5. \A p \in OpIds : new[p] \in Operators /\ (new[p].kind \in Through => Len(new[p].in) = 1)
  BY <1>1, <1>2, <1>3 DEF OpsFit
<1>6. new[1].kind = "ssgen"
  BY <1>2, OneIsOp DEF OpsFit
<1>7. QED
  BY <1>4, <1>5, <1>6 DEF OpsFit, new

(* addQueryClasses keeps the pool's types. *)
LEMMA ClassifiedFits ==
  ASSUME NEW table, OpsFit(table), NEW class \in Nat, NEW out
  PROVE  OpsFit(Classified(table, class, out))
<1> DEFINE new == Classified(table, class, out)
<1>1. \A o \in OpIds : new[o] \in {table[o], [table[o] EXCEPT !.cls = class]}
  BY DEF Classified
<1>2. new = [o \in OpIds |-> new[o]]
  BY DEF Classified
<1> HIDE DEF new
<1>3. ASSUME NEW o \in OpIds
      PROVE  new[o] \in Operators /\ new[o].kind = table[o].kind /\ new[o].in = table[o].in
  <2>1. table[o] \in Operators
    BY DEF OpsFit
  <2>2. QED
    BY <1>1, <2>1 DEF Operators
<1>4. QED
  BY <1>2, <1>3, OneIsOp DEF OpsFit, new

(* The one who takes the place of o among the readers of i.                   *)
LEMMA FilledType ==
  ASSUME NEW outs \in Seq(OpIds), NEW place
  PROVE  FilledAt(outs, place) \in Seq(OpIds) /\ (outs # <<>> => Len(FilledAt(outs, place)) = Len(outs) - 1)
<1>1. CASE outs = <<>>
  BY <1>1 DEF FilledAt, Front, Last
<1>2. CASE outs # <<>>
  <2> DEFINE filled == [outs EXCEPT ![place] = Last(outs)]
  <2>1. Len(outs) \in Nat /\ Len(outs) >= 1 /\ Last(outs) \in OpIds
    BY <1>2 DEF Last
  <2>2. filled \in Seq(OpIds) /\ Len(filled) = Len(outs)
    <3>1. outs \in [1..Len(outs) -> OpIds]
      OBVIOUS
    <3>2. filled \in [1..Len(outs) -> OpIds]
      BY <2>1, <3>1
    <3>3. QED
      BY <2>1, <3>2
  <2> HIDE DEF filled
  <2>3. Front(filled) \in Seq(OpIds) /\ Len(Front(filled)) = Len(outs) - 1
    BY <2>1, <2>2 DEF Front
  <2>4. QED
    BY <2>3 DEF FilledAt, filled
<1>3. QED
  BY <1>1, <1>2

(* Replacing one neighbour by another keeps a list of neighbours. *)
LEMMA ReplaceAllType ==
  ASSUME NEW s \in Seq(OpIds), NEW old, NEW new \in OpIds
  PROVE  ReplaceAll(s, old, new) \in Seq(OpIds) /\ Len(ReplaceAll(s, old, new)) = Len(s)
BY DEF ReplaceAll

(* Taking an operator out from between its neighbours keeps the pool's types. *)
LEMMA SplicedFits ==
  ASSUME NEW table, OpsFit(table), NEW o \in OpIds, table[o].kind \in Through
  PROVE  OpsFit(Spliced(table, o))
<1> DEFINE i     == table[o].in[1]
           outs  == table[i].out \o table[o].out
           place == PlaceOf(table[i].out, o)
           new   == Spliced(table, o)
<1>1. i \in OpIds
  BY Fields DEF OpsFit
<1>2. outs \in Seq(OpIds)
  BY <1>1, Fields DEF OpsFit
<1>3. \A p \in OpIds :
        new[p] = [table[p] EXCEPT !.out = IF p = i THEN FilledAt(outs, place) ELSE @,
                                  !.in  = IF p \in ToSet(table[o].out) THEN InsteadOf(@, o, i) ELSE @]
  BY DEF Spliced
<1>4. new = [p \in OpIds |-> new[p]]
  BY DEF Spliced
<1> HIDE DEF i, outs, place, new
<1>5. ASSUME NEW p \in OpIds
      PROVE  new[p] \in Operators /\ new[p].kind = table[p].kind /\ Len(new[p].in) = Len(table[p].in)
  <2> DEFINE out2 == IF p = i THEN FilledAt(outs, place) ELSE table[p].out
             in2  == IF p \in ToSet(table[o].out) THEN InsteadOf(table[p].in, o, i) ELSE table[p].in
  <2>1. table[p] \in Operators
    BY DEF OpsFit
  <2>2. out2 \in Seq(OpIds)
    BY <1>2, <2>1, Fields, FilledType
  <2>3. in2 \in Seq(OpIds) /\ Len(in2) = Len(table[p].in)
    BY <1>1, <2>1, Fields, ReplaceAllType DEF InsteadOf
  <2>4. new[p] = [table[p] EXCEPT !.out = out2, !.in = in2]
    BY <1>3
  <2> HIDE DEF out2, in2
  <2>5. QED
    BY <2>1, <2>2, <2>3, <2>4 DEF Operators
<1>6. QED
  BY <1>4, <1>5, OneIsOp DEF OpsFit, new

(* Giving the readers of one operator to another keeps the pool's types. *)
LEMMA MergedFits ==
  ASSUME OpsFit(ops), NEW a \in OpIds, NEW b \in OpIds
  PROVE  OpsFit(Merged(a, b))
<1> DEFINE new == Merged(a, b)
<1>1. \A p \in OpIds :
        new[p] = [ops[p] EXCEPT !.cls = IF p = a THEN Lowest(a, b) ELSE @,
                    !.out = IF p = a THEN @ \o ops[b].out
                            ELSE IF p \in Feeding(b) THEN Without(@, b) ELSE @,
                    !.in  = IF p \in Told(b) THEN ReplaceAll(@, b, a) ELSE @]
  BY DEF Merged
<1>2. new = [p \in OpIds |-> new[p]]
  BY DEF Merged
<1> HIDE DEF new
<1>3. ASSUME NEW p \in OpIds
      PROVE  new[p] \in Operators /\ new[p].kind = ops[p].kind /\ Len(new[p].in) = Len(ops[p].in)
  <2> DEFINE cls2 == IF p = a THEN Lowest(a, b) ELSE ops[p].cls
             out2 == IF p = a THEN ops[p].out \o ops[b].out
                     ELSE IF p \in Feeding(b) THEN Without(ops[p].out, b) ELSE ops[p].out
             in2  == IF p \in Told(b) THEN ReplaceAll(ops[p].in, b, a) ELSE ops[p].in
  <2>1. ops[p] \in Operators /\ ops[a] \in Operators /\ ops[b] \in Operators
    BY DEF OpsFit
  <2>2. cls2 \in Nat
    BY <2>1, Fields DEF Lowest
  <2>3. out2 \in Seq(OpIds)
    <3>1. ops[p].out \o ops[b].out \in Seq(OpIds)
      BY <2>1, Fields
    <3>2. Without(ops[p].out, b) \in Seq(OpIds)
      BY <2>1, Fields, WithoutType
    <3>3. QED
      BY <2>1, <3>1, <3>2, Fields
  <2>4. in2 \in Seq(OpIds) /\ Len(in2) = Len(ops[p].in)
    BY <2>1, Fields, ReplaceAllType
  <2>5. new[p] = [ops[p] EXCEPT !.cls = cls2, !.out = out2, !.in = in2]
    BY <1>1
  <2> HIDE DEF cls2, out2, in2
  <2>6. QED
    BY <2>1, <2>2, <2>3, <2>4, <2>5 DEF Operators
<1>4. QED
  BY <1>2, <1>3, OneIsOp DEF OpsFit, new
-----------------------------------------------------------------------------
(* The pool.                                                                  *)
PoolFits(u, f) ==
  /\ u \in Seq(OpIds) /\ f \in Seq(OpIds)
  /\ IsInjective(u) /\ IsInjective(f) /\ ToSet(u) \cap ToSet(f) = {}
  /\ u # <<>> /\ Last(u) = 1

NetFits == OpsFit(ops) /\ PoolFits(used, free)

(* What is in a list of operators is in the pool. *)
LEMMA InUse ==
  ASSUME NEW s \in Seq(OpIds), NEW o \in ToSet(s)
  PROVE  o \in OpIds
BY DEF ToSet

(* The first and the last of a list of operators. *)
LEMMA LastInUse ==
  ASSUME NEW S, NEW s \in Seq(S), s # <<>>
  PROVE  /\ Last(s) \in ToSet(s) /\ Last(s) = s[Len(s)] /\ Len(s) \in 1..Len(s)
         /\ Head(s) \in ToSet(s) /\ Head(s) = s[1] /\ 1 \in 1..Len(s)
BY DEF Last, ToSet

(* new_op takes the first free operator and makes it the head of the used list. *)
LEMMA TakeOpPool ==
  ASSUME PoolFits(used, free), ~PoolEmpties, TakeOp
  PROVE  /\ PoolFits(used', free')
         /\ Head(free) \in OpIds \ ToSet(used) /\ Head(free) # 1 /\ Head(free) \in ToSet(free)
         /\ ToSet(used') = ToSet(used) \cup {Head(free)}
         /\ Head(used') = Head(free) /\ Len(used) \in Nat /\ Len(used') = Len(used) + 1
         /\ used'[1] = Head(free) /\ \A k \in 1..Len(used) : used'[k + 1] = used[k]
<1> DEFINE o == Head(free)
<1>1. free # <<>> /\ used \in Seq(OpIds) /\ free \in Seq(OpIds)
  BY DEF PoolEmpties, PoolFits
<1>2. /\ o \in OpIds /\ o \in ToSet(free)
      /\ Tail(free) \in Seq(OpIds) /\ IsInjective(Tail(free))
      /\ ToSet(Tail(free)) = ToSet(free) \ {o}
  BY <1>1, TailOf DEF PoolFits
<1>3. o \notin ToSet(used) /\ 1 \in ToSet(used)
  BY <1>1, <1>2, LastInUse DEF PoolFits
<1>4. /\ <<o>> \o used \in Seq(OpIds) /\ IsInjective(<<o>> \o used)
      /\ ToSet(<<o>> \o used) = ToSet(used) \cup {o}
      /\ Len(<<o>> \o used) = Len(used) + 1 /\ (<<o>> \o used)[1] = o
      /\ \A k \in 1..Len(used) : (<<o>> \o used)[k + 1] = used[k]
  BY <1>1, <1>2, <1>3, Prepended DEF PoolFits
<1>5. used' = <<o>> \o used /\ free' = Tail(free)
  BY DEF TakeOp
<1> HIDE DEF o
<1>6. used' # <<>> /\ Last(used') = 1 /\ Head(used') = o /\ Len(used) \in Nat
  <2>1. Len(used) \in 1..Len(used) /\ used[Len(used)] = 1 /\ Len(used) \in Nat
    BY <1>1, LastInUse DEF PoolFits
  <2>2. used'[Len(used) + 1] = 1
    BY <1>4, <1>5, <2>1
  <2>3. used' # <<>> /\ used' \in Seq(OpIds) /\ Len(used') = Len(used) + 1
    BY <1>4, <1>5, <2>1
  <2>4. QED
    BY <1>4, <1>5, <2>1, <2>2, <2>3, LastInUse
<1>7. QED
  BY <1>2, <1>3, <1>4, <1>5, <1>6 DEF PoolFits, o

(* Leaving an operator out of the used list keeps both lists apart. *)
LEMMA WithoutPool ==
  ASSUME PoolFits(used, free), NEW o, o # 1, NEW w, w = Without(used, o)
  PROVE  /\ PoolFits(w, free) /\ ToSet(w) = ToSet(used) \ {o}
         /\ o # Head(used) => Head(w) = Head(used)
<1>1. used \in Seq(OpIds) /\ used # <<>>
  BY DEF PoolFits
<1>2. /\ w \in Seq(OpIds) /\ IsInjective(w) /\ ToSet(w) = ToSet(used) \ {o}
  BY <1>1, WithoutType DEF PoolFits
<1>3. /\ w # <<>> /\ Last(w) = 1
      /\ o # Head(used) => Head(w) = Head(used)
  BY <1>1, WithoutEnds DEF PoolFits
<1>4. QED
  BY <1>2, <1>3 DEF PoolFits

(* free_op moves an operator from the used list to the free list. *)
LEMMA FreeOpPool ==
  ASSUME PoolFits(used, free), NEW o \in ToSet(used), o # 1, FreeOp(o)
  PROVE  /\ PoolFits(used', free') /\ ToSet(used') = ToSet(used) \ {o}
         /\ o # Head(used) => Head(used') = Head(used)
<1>1. /\ PoolFits(used', free) /\ ToSet(used') = ToSet(used) \ {o}
      /\ o # Head(used) => Head(used') = Head(used)
  BY WithoutPool DEF FreeOp
<1>2. o \in OpIds /\ o \notin ToSet(free)
  BY InUse DEF PoolFits
<1>3. /\ <<o>> \o free \in Seq(OpIds) /\ IsInjective(<<o>> \o free)
      /\ ToSet(<<o>> \o free) = ToSet(free) \cup {o}
  BY <1>2, Prepended DEF PoolFits
<1>4. free' = <<o>> \o free
  BY DEF FreeOp
<1>5. QED
  BY <1>1, <1>3, <1>4 DEF PoolFits

(* The operator after another one in the used list is in use, and not that one. *)
LEMMA AfterType ==
  ASSUME used \in Seq(OpIds), IsInjective(used), NEW o \in ToSet(used)
  PROVE  After(o) \in {0} \cup (ToSet(used) \ {o})
<1> DEFINE k == CHOOSE k \in DOMAIN used : used[k] = o
<1>1. k \in DOMAIN used /\ used[k] = o
  BY DEF ToSet
<1> HIDE DEF k
<1>2. CASE k = Len(used)
  BY <1>2 DEF After, k
<1>3. CASE k # Len(used)
  <2>1. After(o) = used[k + 1]
    BY <1>3 DEF After, k
  <2>2. k + 1 \in DOMAIN used /\ k + 1 # k
    BY <1>1, <1>3
  <2>3. used[k + 1] # o
    BY <1>1, <2>2 DEF IsInjective
  <2>4. QED
    BY <2>1, <2>2, <2>3 DEF ToSet
<1>4. QED
  BY <1>2, <1>3
-----------------------------------------------------------------------------
(* The translation.                                                           *)
LEMMA Slices ==
  ASSUME NEW S, NEW s \in Seq(S), NEW n \in 0..Len(s)
  PROVE  /\ SubSeq(s, Len(s) - n + 1, Len(s)) \in Seq(S)
         /\ Len(SubSeq(s, Len(s) - n + 1, Len(s))) = n
         /\ ToSet(SubSeq(s, Len(s) - n + 1, Len(s))) \subseteq ToSet(s)
         /\ SubSeq(s, 1, Len(s) - n) \in Seq(S)
         /\ Len(SubSeq(s, 1, Len(s) - n)) = Len(s) - n
         /\ ToSet(SubSeq(s, 1, Len(s) - n)) \subseteq ToSet(s)
<1> DEFINE m     == Len(s)
           upper == SubSeq(s, m - n + 1, m)
           lower == SubSeq(s, 1, m - n)
<1>1. m \in Nat /\ n \in Nat /\ n <= m /\ m - n \in Nat /\ DOMAIN s = 1..m
  OBVIOUS
<1>2. /\ upper \in Seq(S) /\ Len(upper) = n /\ \A i \in 1..n : upper[i] = s[m - n + i]
  BY <1>1
<1>3. /\ lower \in Seq(S) /\ Len(lower) = m - n /\ \A i \in 1..(m - n) : lower[i] = s[i]
  <2> DEFINE k == m - n
  <2>1. k \in Nat /\ k <= m
    BY <1>1
  <2> HIDE DEF k
  <2>2. SubSeq(s, 1, k) \in Seq(S) /\ Len(SubSeq(s, 1, k)) = k
    BY <1>1, <2>1
  <2>3. \A i \in 1..k : SubSeq(s, 1, k)[i] = s[i]
    BY <1>1, <2>1
  <2>4. QED
    BY <2>2, <2>3 DEF k
<1> HIDE DEF m, upper, lower
<1>4. ToSet(upper) \subseteq ToSet(s)
  <2>1. DOMAIN upper = 1..n /\ \A i \in 1..n : m - n + i \in 1..m
    BY <1>1, <1>2
  <2>2. QED
    BY <1>1, <1>2, <2>1 DEF ToSet
<1>5. ToSet(lower) \subseteq ToSet(s)
  <2>1. DOMAIN lower = 1..(m - n) /\ \A i \in 1..(m - n) : i \in 1..m
    BY <1>1, <1>3
  <2>2. QED
    BY <1>1, <1>3, <2>1 DEF ToSet
<1>6. QED
  BY <1>2, <1>3, <1>4, <1>5 DEF m, upper, lower

(* While a plan is translated, each operator finds its inputs on the stack. *)
LEMMA ItemFits ==
  ASSUME TypeOK, GenInv, step = "translate", todo # <<>>
  PROVE  /\ Head(todo) \in [kind : LogicalKinds, par : Seq(Nat)]
         /\ Head(todo).kind = "source" => Head(todo).par # <<>>
         /\ Inputs \in Seq(OpIds) /\ Len(Inputs) = Arity(Head(todo)) /\ ToSet(Inputs) \subseteq ToSet(built)
         /\ Others \in Seq(OpIds) /\ Len(Others) = Len(built) - Arity(Head(todo))
         /\ ToSet(Others) \subseteq ToSet(built)
         /\ Len(built) \in Nat /\ Arity(Head(todo)) \in 0..2
         /\ \E q \in Queries : \E n \in 0..Len(q.plan) :
              /\ Tail(todo) = SubSeq(q.plan, n + 1, Len(q.plan))
              /\ Len(built) - Arity(Head(todo)) + 1 + Branches(q.plan, n) = Leaves(q.plan, n)
<1> PICK q \in Queries : \E n \in 0..Len(q.plan) :
         /\ todo = SubSeq(q.plan, n + 1, Len(q.plan))
         /\ Len(built) + Branches(q.plan, n) = Leaves(q.plan, n)
  BY DEF GenInv
<1>1. PICK n \in 0..Len(q.plan) :
         /\ todo = SubSeq(q.plan, n + 1, Len(q.plan))
         /\ Len(built) + Branches(q.plan, n) = Leaves(q.plan, n)
  OBVIOUS
<1>2. built \in Seq(OpIds) /\ Len(built) \in Nat
  BY DEF TypeOK
<1> DEFINE item == Head(todo)
<1>3. /\ n + 1 \in 1..Len(q.plan) /\ item = q.plan[n + 1]
      /\ Tail(todo) = SubSeq(q.plan, n + 1 + 1, Len(q.plan))
      /\ item \in [kind : LogicalKinds, par : Seq(Nat)]
      /\ item.kind = "source" => item.par # <<>>
      /\ Arity(item) \in 0..Len(built) /\ Arity(item) \in 0..2
      /\ (Len(built) - Arity(item)) + 1 + Branches(q.plan, n + 1) = Leaves(q.plan, n + 1)
  BY <1>1, <1>2, PlanStep
<1>4. n + 1 \in 0..Len(q.plan)
  BY <1>3
<1> HIDE DEF item
<1>5. /\ Inputs \in Seq(OpIds) /\ Len(Inputs) = Arity(item) /\ ToSet(Inputs) \subseteq ToSet(built)
      /\ Others \in Seq(OpIds) /\ Len(Others) = Len(built) - Arity(item)
      /\ ToSet(Others) \subseteq ToSet(built)
  <2>1. Arity(item) \in 0..Len(built)
    BY <1>3
  <2>2. Inputs = SubSeq(built, Len(built) - Arity(item) + 1, Len(built))
    BY DEF Inputs, item
  <2>3. Others = SubSeq(built, 1, Len(built) - Arity(item))
    BY DEF Others, item
  <2>4. QED
    BY <1>2, <2>1, <2>2, <2>3, Slices, ZenonT(60)
<1>6. \E k \in 0..Len(q.plan) :
        /\ Tail(todo) = SubSeq(q.plan, k + 1, Len(q.plan))
        /\ Len(built) - Arity(item) + 1 + Branches(q.plan, k) = Leaves(q.plan, k)
  BY <1>3, <1>4
<1>7. QED
  BY <1>2, <1>3, <1>5, <1>6 DEF item
-----------------------------------------------------------------------------
(* The network and the pool.                                                  *)
LEMMA NetOfInv == TypeOK /\ PoolInv /\ InputsFit <=> TypeOK /\ NetFits
BY DEF TypeOK, PoolInv, InputsFit, NetFits, OpsFit, PoolFits

(* A new operator keeps the pool and its lists right. *)
LEMMA Created ==
  ASSUME NetFits, NEW in \in Seq(OpIds), CanMake(in), TakeOp,
         NEW kind \in Kinds, NEW par \in Seq(Nat), kind \in Through => Len(in) = 1
  PROVE  OpsFit(WithReader(Head(free), kind, par, in)) /\ PoolFits(used', free')
<1>1. /\ PoolFits(used', free')
      /\ Head(free) \in OpIds /\ Head(free) # 1
  BY TakeOpPool DEF NetFits, CanMake
<1>2. QED
  BY <1>1, WithReaderFits DEF NetFits

(* An operator that a pass takes out leaves the pool and its lists right. *)
LEMMA Bypassed ==
  ASSUME NetFits, NEW table, OpsFit(table), cursor \in ToSet(used),
         table[cursor].kind \in Through, Bypass(table)
  PROVE  NetFits'
<1>1. CASE ops' = Spliced(table, cursor) /\ FreeOp(cursor)
  <2>1. cursor \in OpIds /\ cursor # 1
    BY InUse DEF NetFits, PoolFits, OpsFit, Through
  <2>2. PoolFits(used', free')
    BY <1>1, <2>1, FreeOpPool DEF NetFits
  <2>3. OpsFit(ops')
    BY <1>1, <2>1, SplicedFits
  <2>4. QED
    BY <2>2, <2>3 DEF NetFits
<1>2. CASE UNCHANGED net
  BY <1>2 DEF net, NetFits
<1>3. QED
  BY <1>1, <1>2 DEF Bypass

(* An operator may get another kind and other parameters. *)
LEMMA Altered ==
  ASSUME NEW table, OpsFit(table), NEW o \in OpIds, NEW kind \in Kinds, NEW par \in Seq(Nat),
         kind \in Through => table[o].kind \in Through, table[o].kind = "ssgen" => kind = "ssgen"
  PROVE  OpsFit([table EXCEPT ![o].kind = kind, ![o].par = par])
<1> DEFINE new == [table EXCEPT ![o].kind = kind, ![o].par = par]
<1>1. /\ new[o] = [table[o] EXCEPT !.kind = kind, !.par = par]
      /\ \A p \in OpIds \ {o} : new[p] = table[p]
      /\ new = [p \in OpIds |-> new[p]]
  BY DEF OpsFit
<1> HIDE DEF new
<1>2. /\ new[o] \in Operators /\ new[o].kind = kind /\ new[o].in = table[o].in
  <2>1. table[o] \in Operators
    BY DEF OpsFit
  <2>2. QED
    BY <1>1, <2>1 DEF Operators
<1>3. QED
  BY <1>1, <1>2, OneIsOp DEF OpsFit, new

(* An operator may get other parameters. *)
LEMMA NewPar ==
  ASSUME NEW table, OpsFit(table), NEW o \in OpIds, NEW par \in Seq(Nat)
  PROVE  OpsFit([table EXCEPT ![o].par = par])
<1>1. OpsFit([table EXCEPT ![o].kind = table[o].kind, ![o].par = par])
  <2>1. table[o].kind \in Kinds
    BY Fields DEF OpsFit
  <2>2. QED
    BY <2>1, Altered
<1>2. [table EXCEPT ![o].kind = table[o].kind, ![o].par = par] = [table EXCEPT ![o].par = par]
  <2>1. table \in [OpIds -> Operators]
    BY DEF OpsFit
  <2>2. [table[o] EXCEPT !.kind = table[o].kind, !.par = par] = [table[o] EXCEPT !.par = par]
    BY <2>1 DEF Operators
  <2>3. QED
    BY <2>1, <2>2
<1>3. QED
  BY <1>1, <1>2

(* Operators are the same only if they are of a kind that is shared.          *)
LEMMA SameVerdict ==
  ASSUME OpsFit(ops), NEW a \in OpIds, NEW b \in OpIds, NEW below, Verdict(a, b, below) = "same", a # b
  PROVE  ops[a].kind = ops[b].kind /\ ops[b].kind \notin NeverShared
<1> DEFINE A == ops[a]
           B == ops[b]
           unlike == {k \in DOMAIN A.in : below[k] # "same"}
<1>1. unlike \in SUBSET Nat
  BY Fields DEF OpsFit
<1>2. unlike # {} => below[Min(unlike)] # "same"
  <2> DEFINE T == unlike
  <2> HIDE DEF T
  <2>1. T # {} => Min(T) \in T
    BY <1>1, Least DEF T
  <2>2. QED
    BY <2>1 DEF T
<1>3. Verdict(a, b, below)
        = IF a = b THEN "same"
          ELSE IF A.kind # B.kind \/ Len(A.in) # Len(B.in) THEN "different"
          ELSE IF unlike # {} THEN below[Min(unlike)]
          ELSE IF A.kind = "join" /\ <<>> \in {A.par, B.par} THEN "crash"
          ELSE IF A.kind \notin NeverShared /\ A.par = B.par THEN "same"
          ELSE "different"
  BY DEF Verdict
<1> HIDE DEF unlike
<1>4. QED
  BY <1>2, <1>3

(* mergeOperators: the two are different operators, of a kind that is shared. *)
LEMMA PairOf ==
  ASSUME IInv, ComparePair
  PROVE  \E a, b \in OpIds :
           /\ a = level[row] /\ b = level[col] /\ a # b /\ row \in 1..Len(level) /\ col \in 1..Len(level)
           /\ \/ CompareOperators(a, b) = "same" /\ ops[b].kind \notin NeverShared /\ Merge(a, b)
                 /\ level' = ErasedFrom(level, col) /\ UNCHANGED <<following, row, col>>
              \/ UNCHANGED <<net, level, following, row>> /\ col' \in {col, col + 1} /\ step' # "nullNeighbour"
<1>1. OpsFit(ops) /\ level \in Seq(OpIds) /\ IsInjective(level) /\ row \in Nat /\ col \in Nat
      /\ row >= 1 /\ col > row
  BY NetOfInv DEF IInv, NetFits, TypeOK, ShareInv, PlacesInv
<1>2. row \in 1..Len(level) /\ col \in 1..Len(level) /\ row # col
  BY <1>1 DEF ComparePair
<1> DEFINE a == level[row]
           b == level[col]
           below == [k \in DOMAIN ops[a].in |-> Compared[<<ops[a].in[k], ops[b].in[k]>>]]
<1>3. a \in OpIds /\ b \in OpIds /\ a # b
  BY <1>1, <1>2 DEF IsInjective
<1>4. CompareOperators(a, b) = Verdict(a, b, below)
  BY DEF CompareOperators
<1>5. \/ /\ CompareOperators(a, b) = "same"
         /\ Merge(a, b)
         /\ level' = ErasedFrom(level, col)
         /\ UNCHANGED <<following, row, col>>
      \/ UNCHANGED <<net, level, following, row>> /\ col' \in {col, col + 1} /\ step' # "nullNeighbour"
  BY DEF ComparePair, sharing, net, IInv, ShareInv
<1> HIDE DEF a, b, below
<1>6. CompareOperators(a, b) = "same" => ops[b].kind \notin NeverShared
  BY <1>1, <1>3, <1>4, SameVerdict
<1>7. QED
  BY <1>2, <1>3, <1>5, <1>6 DEF a, b

(* mergeOperators leaves the pool and its lists right. *)
LEMMA Shared ==
  ASSUME NetFits, NEW a \in OpIds, NEW b \in OpIds, a # b, ops[b].kind \notin NeverShared, Merge(a, b)
  PROVE  NetFits'
<1>1. b # 1
  BY DEF NetFits, OpsFit, NeverShared
<1>2. CASE UNCHANGED net
  BY <1>2 DEF net, NetFits
<1>3. CASE ops' = [ops EXCEPT ![a].cls = Lowest(a, b)] /\ UNCHANGED <<used, free>>
  <2>1. ops[a] \in Operators /\ Lowest(a, b) \in Nat
    BY Fields DEF NetFits, OpsFit, Lowest
  <2>2. OpsFit(ops')
    <3>1. /\ ops'[a] = [ops[a] EXCEPT !.cls = Lowest(a, b)]
          /\ \A p \in OpIds \ {a} : ops'[p] = ops[p]
          /\ ops' = [p \in OpIds |-> ops'[p]]
      BY <1>3 DEF NetFits, OpsFit
    <3>2. ops'[a] \in Operators /\ ops'[a].kind = ops[a].kind /\ ops'[a].in = ops[a].in
      BY <2>1, <3>1 DEF Operators
    <3>3. QED
      BY <3>1, <3>2, OneIsOp DEF NetFits, OpsFit
  <2>3. QED
    BY <1>3, <2>2 DEF NetFits
<1>4. CASE ops' = Merged(a, b) /\ used' = (IF Attached(b) THEN Without(used, b) ELSE used) /\ free' = free
  <2>1. OpsFit(ops')
    BY <1>4, MergedFits DEF NetFits
  <2>2. PoolFits(used', free')
    BY <1>1, <1>4, WithoutPool DEF NetFits
  <2>3. QED
    BY <2>1, <2>2 DEF NetFits
<1>5. QED
  BY <1>2, <1>3, <1>4 DEF Merge, net

(* Every step keeps the pool and its lists right. *)
LEMMA NetStep ==
  ASSUME IInv, [Next]_planVars
  PROVE  NetFits'
<1>1. NetFits /\ TypeOK /\ OpsFit(ops) /\ PoolFits(used, free)
  BY NetOfInv DEF IInv, NetFits
<1>2. CASE UNCHANGED net
  BY <1>1, <1>2 DEF net, NetFits
<1>3. CASE AddBaseTable
  <2>1. CASE CanMake(<<>>) /\ TakeOp /\ ops' = WithReader(Head(free), "source", <<NextTable>>, <<>>)
    <3>1. NextTable \in Nat
      BY DEF IInv, TypeOK, MapsInv, NextTable
    <3>2. <<NextTable>> \in Seq(Nat) /\ <<>> \in Seq(OpIds) /\ "source" \in Kinds \ Through
      BY <3>1 DEF Kinds, Through
    <3>3. QED
      BY <1>1, <2>1, <3>2, Created DEF NetFits
  <2>2. QED
    BY <1>2, <1>3, <2>1 DEF AddBaseTable, CannotMake
<1>4. CASE TranslateSelect
  <2>1. Inputs[1] \in OpIds /\ Head(todo).par \in Seq(Nat)
    BY <1>1, <1>4, ItemFits DEF TranslateSelect, OverSelect, IInv, Arity
  <2>2. Head(todo).par \o ops[Inputs[1]].par \in Seq(Nat)
    BY <1>1, <2>1, Fields DEF OpsFit
  <2>3. /\ ops' = [ops EXCEPT ![Inputs[1]].par = Head(todo).par \o ops[Inputs[1]].par]
        /\ UNCHANGED <<used, free>>
    BY <1>4 DEF TranslateSelect
  <2>4. QED
    BY <1>1, <2>1, <2>2, <2>3, NewPar DEF NetFits
<1>5. CASE TranslateOperator
  <2>1. /\ Head(todo).kind \in Kinds /\ Head(todo).par \in Seq(Nat) /\ Inputs \in Seq(OpIds)
        /\ Head(todo).kind \in Through => Len(Inputs) = 1
    BY <1>1, <1>5, ItemFits DEF TranslateOperator, IInv, Arity, LogicalKinds, Kinds, Through
  <2>2. CASE UNCHANGED net
    BY <1>2, <2>2
  <2>3. CASE CanMake(Inputs) /\ TakeOp /\ ops' = WithReader(Head(free), Head(todo).kind, Head(todo).par, Inputs)
    BY <1>1, <2>1, <2>3, Created DEF NetFits
  <2>4. QED
    BY <1>5, <2>2, <2>3 DEF TranslateOperator, CannotMake
<1>6. CASE MakeQuerySource
  <2>1. built \in Seq(OpIds) /\ Len(built) = 1
    BY <1>6 DEF MakeQuerySource, IInv, TypeOK, GenInv
  <2>2. CASE CanMake(built) /\ TakeOp /\ ops' = WithReader(Head(free), "qsrc", <<>>, built)
    <3>1. <<>> \in Seq(Nat) /\ "qsrc" \in Kinds
      BY DEF Kinds
    <3>2. QED
      BY <1>1, <2>1, <2>2, <3>1, Created DEF NetFits
  <2>3. QED
    BY <1>2, <1>6, <2>2 DEF MakeQuerySource, CannotMake
<1>7. CASE MakeOutput
  <2> DEFINE table == WithReader(Head(free), "output", <<Len(meaning) + 1>>, built)
  <2>1. built \in Seq(OpIds) /\ Len(meaning) \in Nat /\ job.cls \in Nat
    BY DEF IInv, TypeOK, MapsInv
  <2>2. CASE CanMake(built) /\ TakeOp /\ ops' = Classified(table, job.cls, Head(free))
    <3>1. <<Len(meaning) + 1>> \in Seq(Nat) /\ "output" \in Kinds \ Through
      BY <2>1 DEF Kinds, Through
    <3>2. OpsFit(table) /\ PoolFits(used', free')
      BY <1>1, <2>1, <2>2, <3>1, Created
    <3>3. QED
      BY <2>1, <2>2, <3>2, ClassifiedFits DEF NetFits
  <2>3. QED
    BY <1>2, <1>7, <2>2 DEF MakeOutput, CannotMake
<1>8. CASE RemoveQuerySource
  <2>1. cursor \in ToSet(used)
    BY <1>8 DEF RemoveQuerySource, At, IInv, PlacesInv, Passes
  <2>2. CASE ops[cursor].kind = "qsrc" /\ Bypass(ops)
    BY <1>1, <2>1, <2>2, Bypassed DEF Through
  <2>3. QED
    BY <1>2, <1>8, <2>2 DEF RemoveQuerySource, Pass
<1>9. CASE AddSink
  <2>1. cursor \in OpIds
    BY <1>9 DEF AddSink, At, IInv, TypeOK
  <2>2. CASE CanMake(<<cursor>>) /\ TakeOp /\ ops' = WithReader(Head(free), "sink", <<>>, <<cursor>>)
    <3>1. <<>> \in Seq(Nat) /\ <<cursor>> \in Seq(OpIds) /\ "sink" \in Kinds \ Through
      BY <2>1 DEF Kinds, Through
    <3>2. QED
      BY <1>1, <2>2, <3>1, Created DEF NetFits
  <2>3. QED
    BY <1>2, <1>9, <2>2 DEF AddSink, CannotMake, Pass
<1>10. CASE MergeSelect
  <2> DEFINE table == [ops EXCEPT ![Below].par = ops[Below].par \o ops[cursor].par]
  <2>1. cursor \in ToSet(used) /\ cursor \in OpIds
    BY <1>1, <1>10, InUse DEF MergeSelect, At, IInv, PlacesInv, Passes, PoolFits
  <2>2. CASE MergesSelect /\ Bypass(table)
    <3>1. ops[cursor].kind = "select" /\ "select" \in Through
      BY <2>2 DEF MergesSelect, Through
    <3>2. Below \in OpIds
      BY <1>1, <2>1, <3>1, Fields DEF Below, OpsFit
    <3>3. ops[Below].par \o ops[cursor].par \in Seq(Nat)
      BY <1>1, <2>1, <3>2, Fields DEF OpsFit
    <3>4. OpsFit(table)
      BY <1>1, <3>2, <3>3, NewPar
    <3>5. table[cursor].kind = ops[cursor].kind
      BY <1>1, <2>1, <3>2 DEF OpsFit
    <3> HIDE DEF table
    <3>6. QED
      BY <1>1, <2>1, <2>2, <3>1, <3>4, <3>5, Bypassed
  <2>3. QED
    BY <1>2, <1>10, <2>2 DEF MergeSelect, Pass
<1>11. CASE MergeProject
  <2> DEFINE table == [ops EXCEPT ![Below].kind = "joinproject",
                                  ![Below].par = ops[Below].par \o ops[cursor].par]
  <2>1. cursor \in ToSet(used) /\ cursor \in OpIds
    BY <1>1, <1>11, InUse DEF MergeProject, At, IInv, PlacesInv, Passes, PoolFits
  <2>2. CASE MergesProject /\ Bypass(table)
    <3>1. ops[cursor].kind = "project" /\ "project" \in Through /\ ops[Below].kind = "join"
      BY <2>2 DEF MergesProject, Through
    <3>2. Below \in OpIds
      BY <1>1, <2>1, <3>1, Fields DEF Below, OpsFit
    <3>3. ops[Below].par \o ops[cursor].par \in Seq(Nat)
      BY <1>1, <2>1, <3>2, Fields DEF OpsFit
    <3>4. OpsFit(table)
      BY <1>1, <3>1, <3>2, <3>3, Altered DEF Kinds, Through
    <3>5. table[cursor].kind = ops[cursor].kind
      BY <1>1, <2>1, <3>1, <3>2 DEF OpsFit
    <3> HIDE DEF table
    <3>6. QED
      BY <1>1, <2>1, <2>2, <3>1, <3>4, <3>5, Bypassed
  <2>3. QED
    BY <1>2, <1>11, <2>2 DEF MergeProject, Pass
<1>12. CASE ComparePair
  BY <1>1, <1>2, <1>12, PairOf, Shared
<1>13. QED
  BY <1>2, <1>3, <1>4, <1>5, <1>6, <1>7, <1>8, <1>9, <1>10, <1>11, <1>12
  DEF Next, planVars, Load, Translate, Rewrite, AddQuery, MapView, Optimize, TranslateSource,
      Translated, NextPass, EndRow, EndLevel, Ended, net
-----------------------------------------------------------------------------
(* The rest of the state.                                                     *)
GenType ==
  /\ step \in Steps
  /\ todo \in Seq([kind : Kinds, par : Seq(Nat)])
  /\ built \in Seq(OpIds)
  /\ job \in [output : BOOLEAN, cls : Nat]

(* A list with one element more. *)
LEMMA AppendType ==
  ASSUME NEW S, NEW s \in Seq(S), NEW x \in S
  PROVE  Append(s, x) \in Seq(S) /\ Len(Append(s, x)) = Len(s) + 1 /\ ToSet(Append(s, x)) = ToSet(s) \cup {x}
<1>1. /\ Append(s, x) \in Seq(S) /\ Len(Append(s, x)) = Len(s) + 1 /\ Len(s) \in Nat
      /\ Append(s, x)[Len(s) + 1] = x /\ \A k \in 1..Len(s) : Append(s, x)[k] = s[k]
  OBVIOUS
<1>2. /\ DOMAIN Append(s, x) = 1..(Len(s) + 1) /\ DOMAIN s = 1..Len(s)
      /\ 1..(Len(s) + 1) = (1..Len(s)) \cup {Len(s) + 1}
  BY <1>1
<1>3. QED
  BY <1>1, <1>2 DEF ToSet

(* What a table is read from is the system stream's operator, or one entered for it. *)
LEMMA ProducerType ==
  ASSUME sourceOps \in Seq([table : Nat, op : OpIds]), NEW t
  PROVE  \/ Producer(t) = 1
         \/ \E k \in DOMAIN sourceOps : Producer(t) = sourceOps[k].op
<1> DEFINE I == {i \in 1..Len(sourceOps) : sourceOps[i].table = t}
<1>1. Producer(t) = LET k == IF I # {} THEN Min(I) ELSE 0
                    IN  IF k = 0 THEN 1 ELSE sourceOps[k].op
  BY DEF Producer, SelectInSeq
<1>2. I \in SUBSET Nat /\ I \subseteq DOMAIN sourceOps
  OBVIOUS
<1> HIDE DEF I
<1>3. I # {} => Min(I) \in DOMAIN sourceOps
  BY <1>2, Least
<1>4. QED
  BY <1>1, <1>3

(* What is left of a plan to translate is of the plan's type. *)
LEMMA ItemLeft ==
  ASSUME TypeOK, todo # <<>>
  PROVE  Tail(todo) \in Seq([kind : Kinds, par : Seq(Nat)])
BY DEF TypeOK

(* Every step keeps the stack of the translation in step with the plan. *)
LEMMA GenStep ==
  ASSUME IInv, [Next]_planVars
  PROVE  GenType' /\ GenInv'
<1>1. TypeOK /\ GenInv /\ GenType
  BY DEF IInv, TypeOK, GenType
<1>2. CASE UNCHANGED <<gen, step>>
  BY <1>1, <1>2 DEF gen, GenType, GenInv
<1>3. CASE UNCHANGED gen /\ step' \in Steps \ {"translate", "qsrc", "output"}
  BY <1>1, <1>3 DEF gen, GenType, GenInv
<1>4. ASSUME NEW q \in Queries, AddQuery(q)
      PROVE  GenType' /\ GenInv'
  <2>1. /\ q.plan \in Seq([kind : LogicalKinds, par : Seq(Nat)])
        /\ q.output \in BOOLEAN /\ q.class \in Nat
    BY PlanConstants DEF IsPlan
  <2>2. GenType'
    <3>1. q.plan \in Seq([kind : Kinds, par : Seq(Nat)])
      <4>1. [kind : LogicalKinds, par : Seq(Nat)] \subseteq [kind : Kinds, par : Seq(Nat)]
        BY DEF LogicalKinds, Kinds
      <4>2. QED
        BY <2>1, <4>1, WiderSeq
    <3>2. [output |-> q.output, cls |-> q.class] \in [output : BOOLEAN, cls : Nat]
      BY <2>1
    <3>3. <<>> \in Seq(OpIds) /\ "translate" \in Steps
      BY DEF Steps
    <3>4. QED
      BY <1>4, <3>1, <3>2, <3>3 DEF AddQuery, GenType
  <2>3. todo' = SubSeq(q.plan, 0 + 1, Len(q.plan))
    BY <1>4, <2>1 DEF AddQuery
  <2>4. Len(built') + Branches(q.plan, 0) = Leaves(q.plan, 0)
    BY <1>4, CountStep DEF AddQuery
  <2>5. 0 \in 0..Len(q.plan)
    BY <2>1
  <2>6. \E n \in 0..Len(q.plan) :
          /\ todo' = SubSeq(q.plan, n + 1, Len(q.plan))
          /\ Len(built') + Branches(q.plan, n) = Leaves(q.plan, n)
    BY <2>3, <2>4, <2>5
  <2>7. step' = "translate"
    BY <1>4 DEF AddQuery
  <2>8. QED
    BY <2>2, <2>6, <2>7 DEF GenInv
<1> DEFINE Goes(h) ==
      \E q \in Queries : \E n \in 0..Len(q.plan) :
        /\ Tail(todo) = SubSeq(q.plan, n + 1, Len(q.plan))
        /\ h + Branches(q.plan, n) = Leaves(q.plan, n)
<1>5. CASE TranslateSource
  <2>1. /\ Arity(Head(todo)) = 0 /\ Len(built) \in Nat /\ Len(built) - 0 = Len(built)
        /\ Tail(todo) \in Seq([kind : Kinds, par : Seq(Nat)])
    BY <1>1, <1>5, ItemLeft, SMTT(30) DEF TranslateSource, Arity, TypeOK
  <2>2. Goes(Len(built) - Arity(Head(todo)) + 1)
    BY <1>1, <1>5, ItemFits DEF TranslateSource
  <2>3. Producer(Head(todo).par[1]) \in OpIds
    <3>1. sourceOps \in Seq([table : Nat, op : OpIds])
      BY <1>1 DEF TypeOK
    <3>2. ASSUME NEW k \in DOMAIN sourceOps PROVE sourceOps[k].op \in OpIds
      <4>1. sourceOps[k] \in [table : Nat, op : OpIds]
        <5>1. k \in 1..Len(sourceOps)
          BY <3>1
        <5>2. QED
          BY <3>1, <5>1, SeqElement
      <4>2. QED
        BY <4>1
    <3>3. QED
      BY <3>1, <3>2, ProducerType, OneIsOp
  <2>4. built' \in Seq(OpIds) /\ Len(built') = Len(built) + 1
    BY <1>1, <1>5, <2>3, AppendType DEF TranslateSource, TypeOK
  <2>5. Goes(Len(built'))
    BY <2>1, <2>2, <2>4
  <2>6. todo' = Tail(todo) /\ step' = "translate" /\ job' = job
    BY <1>5 DEF TranslateSource
  <2>7. GenInv'
    BY <2>5, <2>6 DEF GenInv
  <2>8. QED
    BY <1>1, <2>1, <2>4, <2>6, <2>7 DEF GenType, Steps
<1>6. CASE TranslateSelect
  <2>1. /\ Arity(Head(todo)) = 1 /\ Len(built) \in Nat /\ Len(built) - 1 + 1 = Len(built)
        /\ Tail(todo) \in Seq([kind : Kinds, par : Seq(Nat)])
    BY <1>1, <1>6, ItemLeft DEF TranslateSelect, OverSelect, Arity, TypeOK
  <2>2. Goes(Len(built) - Arity(Head(todo)) + 1)
    BY <1>1, <1>6, ItemFits DEF TranslateSelect
  <2>3. todo' = Tail(todo) /\ step' = "translate" /\ job' = job /\ built' = built
    BY <1>6 DEF TranslateSelect
  <2>4. Goes(Len(built'))
    BY <2>1, <2>2, <2>3
  <2>5. step = "translate"
    BY <1>6 DEF TranslateSelect
  <2>6. GenInv'
    BY <2>3, <2>4, <2>5 DEF GenInv
  <2>7. QED
    BY <1>1, <2>1, <2>3, <2>6 DEF GenType, Steps
<1>7. CASE TranslateOperator
  <2>1. CASE UNCHANGED gen /\ step' \in {"nullOp", "failed"}
    BY <1>3, <2>1 DEF Steps, Broken
  <2>2. CASE CanMake(Inputs) /\ TakeOp /\ built' = Append(Others, Head(free))
             /\ todo' = Tail(todo) /\ UNCHANGED <<step, job>>
    <3>1. /\ Others \in Seq(OpIds) /\ Len(Others) = Len(built) - Arity(Head(todo))
          /\ Tail(todo) \in Seq([kind : Kinds, par : Seq(Nat)])
          /\ Goes(Len(built) - Arity(Head(todo)) + 1)
      BY <1>1, <1>7, ItemFits, ItemLeft DEF TranslateOperator
    <3>2. Head(free) \in OpIds
      BY <2>2, NetOfInv, TakeOpPool DEF IInv, NetFits, CanMake
    <3>3. built' \in Seq(OpIds) /\ Len(built') = Len(built) - Arity(Head(todo)) + 1
      BY <2>2, <3>1, <3>2, AppendType
    <3>4. Goes(Len(built')) /\ step = "translate"
      BY <1>7, <3>1, <3>3 DEF TranslateOperator
    <3>5. QED
      BY <1>1, <2>2, <3>1, <3>3, <3>4 DEF GenInv, GenType
  <2>3. QED
    BY <1>7, <2>1, <2>2 DEF TranslateOperator, CannotMake
<1>8. CASE Translated
  <2>1. PICK q \in Queries : \E n \in 0..Len(q.plan) :
           /\ todo = SubSeq(q.plan, n + 1, Len(q.plan))
           /\ Len(built) + Branches(q.plan, n) = Leaves(q.plan, n)
    BY <1>1, <1>8 DEF GenInv, Translated
  <2>2. PICK n \in 0..Len(q.plan) :
           /\ todo = SubSeq(q.plan, n + 1, Len(q.plan))
           /\ Len(built) + Branches(q.plan, n) = Leaves(q.plan, n)
    BY <2>1
  <2>3. /\ q.plan \in Seq([kind : LogicalKinds, par : Seq(Nat)])
        /\ Leaves(q.plan, Len(q.plan)) = Branches(q.plan, Len(q.plan)) + 1
    BY PlanConstants DEF IsPlan
  <2>4. n = Len(q.plan)
    BY <1>8, <2>2, <2>3, RestEmpty DEF Translated
  <2>5. Len(built) = 1
    <3>1. Len(q.plan) \in Nat /\ Len(built) \in Nat
      BY <1>1, <2>3 DEF TypeOK
    <3> DEFINE branches == Branches(q.plan, Len(q.plan))
    <3>2. branches \in Nat
      BY <3>1, CountStep
    <3>3. Len(built) + branches = branches + 1
      BY <2>2, <2>3, <2>4
    <3>4. \A h, b \in Nat : h + b = b + 1 => h = 1
      OBVIOUS
    <3> HIDE DEF branches
    <3>5. QED
      BY <3>1, <3>2, <3>3, <3>4
  <2>6. QED
    BY <1>1, <1>8, <2>5 DEF Translated, gen, GenInv, GenType, Steps
<1>9. CASE MakeQuerySource
  <2>1. UNCHANGED gen /\ step' \in {"output", "idle", "nullOp", "failed"} /\ Len(built) = 1
    BY <1>1, <1>9 DEF MakeQuerySource, CannotMake, GenInv
  <2>2. QED
    BY <1>1, <2>1 DEF gen, GenType, GenInv, Steps, Broken
<1>10. CASE Load
  <2>1. CASE AddBaseTable \/ MapView
    <3>1. UNCHANGED gen /\ step' \in {"idle", "nullOp", "failed"}
      BY <2>1 DEF AddBaseTable, MapView, CannotMake
    <3>2. QED
      BY <1>3, <3>1 DEF Steps, Broken
  <2>2. QED
    BY <1>4, <1>10, <2>1 DEF Load
<1>11. CASE Optimize \/ NextPass \/ MakeOutput
  <2>1. UNCHANGED gen /\ (step' = step \/ step' \in {"unsource", "sinks", "selects", "share", "done", "idle", "nullOp", "failed"})
    BY <1>11 DEF Optimize, NextPass, MakeOutput, CannotMake
  <2>2. QED
    BY <1>2, <1>3, <2>1 DEF Steps, Broken, Passes
<1>12. CASE RemoveQuerySource \/ AddSink \/ MergeSelect \/ MergeProject
  <2>1. UNCHANGED gen /\ (step' = step \/ step' \in {"refused", "nullOp", "failed"})
    BY <1>12 DEF RemoveQuerySource, AddSink, MergeSelect, MergeProject, Bypass, Pass, Leave, CannotMake
  <2>2. QED
    BY <1>2, <1>3, <2>1 DEF Steps, Broken, Passes
<1>13. CASE ComparePair \/ EndRow \/ EndLevel
  <2>1. UNCHANGED gen /\ (step' = step \/ step' \in {"overflow", "nullNeighbour", "nullPred", "projects"})
    BY <1>13 DEF ComparePair, Merge, EndRow, EndLevel
  <2>2. QED
    BY <1>2, <1>3, <2>1 DEF Steps, Broken, Passes
<1>14. CASE UNCHANGED planVars
  BY <1>2, <1>14 DEF planVars
<1>15. QED
  BY <1>5, <1>6, <1>7, <1>8, <1>9, <1>10, <1>11, <1>12, <1>13, <1>14 DEF Next, Translate, Rewrite, Ended

MapsType ==
  /\ sourceOps \in Seq([table : Nat, op : OpIds])
  /\ queryOutOps \in Seq(OpIds)
  /\ Len(meaning) <= MaxOutputs

(* Every step keeps the maps typed, and the entry of the system stream in its place. *)
LEMMA MapsStep ==
  ASSUME IInv, [Next]_planVars
  PROVE  MapsType' /\ MapsInv'
<1>1. MapsType /\ MapsInv
  BY DEF IInv, TypeOK, MapsType
<1>2. CASE UNCHANGED <<maps, meaning>>
  BY <1>1, <1>2 DEF maps, MapsType, MapsInv
<1>3. ASSUME PoolFits(used, free), CanMake(built), TakeOp PROVE Head(free) \in OpIds
  BY <1>3, TakeOpPool DEF CanMake
<1>4. PoolFits(used, free)
  BY NetOfInv DEF IInv, NetFits
<1>5. CASE AddBaseTable
  <2>1. CASE CanMake(<<>>) /\ TakeOp /\ sourceOps' = Append(sourceOps, [table |-> NextTable, op |-> Head(free)])
             /\ UNCHANGED <<queryOutOps, meaning>>
    <3>1. NextTable \in Nat
      BY <1>1 DEF MapsType, MapsInv, NextTable
    <3>2. Head(free) \in OpIds
      BY <1>4, <2>1, TakeOpPool DEF CanMake
    <3>3. [table |-> NextTable, op |-> Head(free)] \in [table : Nat, op : OpIds]
      BY <3>1, <3>2
    <3>4. sourceOps' \in Seq([table : Nat, op : OpIds]) /\ Len(sourceOps') = Len(sourceOps) + 1
      BY <1>1, <2>1, <3>3, AppendType DEF MapsType
    <3>5. Len(sourceOps') >= 1
      BY <1>1, <3>4 DEF MapsType, MapsInv
    <3>6. QED
      BY <1>1, <2>1, <3>4, <3>5 DEF MapsType, MapsInv
  <2>2. QED
    BY <1>2, <1>5, <2>1 DEF AddBaseTable, CannotMake
<1>6. CASE MapView
  <2>1. CASE sourceOps' = Append(sourceOps, [table |-> NextTable, op |-> Last(queryOutOps)])
             /\ UNCHANGED <<queryOutOps, meaning>>
    <3>1. NextTable \in Nat
      BY <1>1 DEF MapsType, MapsInv, NextTable
    <3>2. Last(queryOutOps) \in OpIds
      <4>1. queryOutOps \in Seq(OpIds) /\ queryOutOps # <<>>
        BY <1>1, <1>6 DEF MapView, MapsType
      <4>2. QED
        BY <4>1, LastInUse, InUse
    <3>3. [table |-> NextTable, op |-> Last(queryOutOps)] \in [table : Nat, op : OpIds]
      BY <3>1, <3>2
    <3>4. sourceOps' \in Seq([table : Nat, op : OpIds]) /\ Len(sourceOps') = Len(sourceOps) + 1
      BY <1>1, <2>1, <3>3, AppendType DEF MapsType
    <3>5. Len(sourceOps') >= 1
      BY <1>1, <3>4 DEF MapsType, MapsInv
    <3>6. QED
      BY <1>1, <2>1, <3>4, <3>5 DEF MapsType, MapsInv
  <2>2. QED
    BY <1>2, <1>6, <2>1 DEF MapView
<1>7. CASE MakeQuerySource
  <2>1. CASE CanMake(built) /\ TakeOp /\ queryOutOps' = Append(queryOutOps, Head(free))
             /\ UNCHANGED <<sourceOps, meaning>>
    <3>1. queryOutOps' \in Seq(OpIds)
      BY <1>1, <1>3, <1>4, <2>1, AppendType DEF MapsType
    <3>2. QED
      BY <1>1, <2>1, <3>1 DEF MapsType, MapsInv
  <2>2. QED
    BY <1>2, <1>7, <2>1 DEF MakeQuerySource, CannotMake
<1>8. CASE MakeOutput
  <2>1. CASE Len(meaning) < MaxOutputs /\ meaning' = Append(meaning, Computes[built[1]]) /\ UNCHANGED maps
    <3> DEFINE X == Computes[built[1]]
               S == {meaning[k] : k \in 1..Len(meaning)} \cup {X}
    <3>1. meaning \in Seq(S) /\ X \in S /\ Len(meaning) \in Nat
      BY <1>1 DEF MapsInv
    <3> HIDE DEF X, S
    <3>2. meaning' \in Seq(S) /\ Len(meaning') = Len(meaning) + 1
      BY <2>1, <3>1, AppendType DEF X
    <3>3. Len(meaning') \in Nat /\ meaning' = [k \in 1..Len(meaning') |-> meaning'[k]]
      BY <3>2
    <3>4. Len(meaning') <= MaxOutputs
      BY <2>1, <3>1, <3>2, PlanConstants
    <3>5. QED
      BY <1>1, <2>1, <3>3, <3>4 DEF maps, MapsType, MapsInv
  <2>2. QED
    BY <1>2, <1>8, <2>1 DEF MakeOutput, CannotMake
<1>9. QED
  BY <1>2, <1>5, <1>6, <1>7, <1>8
  DEF Next, planVars, Load, Translate, Rewrite, AddQuery, Optimize, TranslateSource, TranslateSelect,
      TranslateOperator, Translated, NextPass, RemoveQuerySource, AddSink, MergeSelect, MergeProject,
      Bypass, Pass, Leave, CannotMake, ComparePair, EndRow, EndLevel, Ended

PlacesType ==
  /\ cursor \in {0} \cup OpIds
  /\ {level, following} \subseteq Seq(OpIds)
  /\ row \in Nat /\ col \in Nat

(* Distinct operators stay distinct when one is erased. *)
LEMMA ErasedType ==
  ASSUME NEW s \in Seq(OpIds), IsInjective(s), NEW k \in 1..Len(s)
  PROVE  ErasedFrom(s, k) \in Seq(OpIds) /\ IsInjective(ErasedFrom(s, k))
<1> DEFINE w == RemoveAt(s, k)
           n == Len(s) - 1
           from == [i \in 1..n |-> IF i < k THEN i ELSE i + 1]
<1>1. /\ w \in Seq(OpIds) /\ Len(w) = n /\ \A i \in 1..n : w[i] = s[from[i]]
  BY RemoveAtType
<1>2. /\ Len(s) \in Nat /\ k \in Nat /\ n \in Nat
      /\ \A i \in 1..n : from[i] \in DOMAIN s
      /\ \A i, j \in 1..n : from[i] = from[j] => i = j
  OBVIOUS
<1> HIDE DEF w, n, from
<1>3. DOMAIN w = 1..n
  BY <1>1, <1>2
<1>4. QED
  BY <1>1, <1>2, <1>3 DEF IsInjective, ErasedFrom, w

(* Every step leaves the loops of the passes at operators in use. *)
LEMMA PlacesStep ==
  ASSUME IInv, [Next]_planVars
  PROVE  PlacesType' /\ PlacesInv' /\ IsInjective(level')
<1>1. /\ PlacesType /\ PlacesInv /\ IsInjective(level)
      /\ PoolFits(used, free) /\ used \in Seq(OpIds) /\ used # <<>> /\ IsInjective(used)
  BY NetOfInv DEF IInv, TypeOK, PlacesType, ShareInv, NetFits, PoolFits
<1>2. /\ UNCHANGED sharing => row' \in Nat /\ col' \in Nat /\ row' >= 1 /\ col' > row'
                              /\ IsInjective(level') /\ {level', following'} \subseteq Seq(OpIds)
  BY <1>1 DEF sharing, PlacesType, PlacesInv
<1>3. CASE UNCHANGED <<sharing, cursor>> /\ step' \notin Passes \ {"share"}
  BY <1>1, <1>2, <1>3 DEF PlacesType, PlacesInv
<1>4. CASE UNCHANGED <<sharing, cursor, step, used>>
  BY <1>1, <1>2, <1>4 DEF PlacesType, PlacesInv
<1>5. CASE UNCHANGED sharing /\ cursor' = Head(used) /\ UNCHANGED net
  <2>1. Head(used) \in ToSet(used) /\ Head(used) \in OpIds
    BY <1>1, LastInUse, InUse
  <2>2. QED
    BY <1>1, <1>2, <1>5, <2>1 DEF PlacesType, PlacesInv, net
(* The operator next to the one that is left is still there.                  *)
<1>6. ASSUME step \in Passes \ {"share"}, cursor # 0, Leave,
             ToSet(used) \ {cursor} \subseteq ToSet(used')
      PROVE  PlacesType' /\ PlacesInv' /\ IsInjective(level')
  <2>1. cursor \in ToSet(used)
    BY <1>1, <1>6 DEF PlacesInv
  <2>2. cursor' \in {0} \cup (ToSet(used) \ {cursor}) /\ UNCHANGED <<sharing, step>>
    BY <1>1, <1>6, <2>1, AfterType DEF Leave
  <2>3. cursor' \in {0} \cup OpIds
    BY <1>1, <2>2, InUse
  <2>4. cursor' # 0 => cursor' \in ToSet(used')
    BY <1>6, <2>2
  <2>5. QED
    BY <1>2, <2>2, <2>3, <2>4 DEF PlacesType, PlacesInv
<1>7. ASSUME NEW table, step \in Passes \ {"share"}, cursor # 0, cursor # 1, Bypass(table)
      PROVE  PlacesType' /\ PlacesInv' /\ IsInjective(level')
  <2>1. CASE FreeOp(cursor) /\ Leave
    <3>1. cursor \in ToSet(used)
      BY <1>1, <1>7 DEF PlacesInv
    <3>2. ToSet(used') = ToSet(used) \ {cursor}
      BY <1>1, <1>7, <2>1, <3>1, FreeOpPool
    <3>3. QED
      BY <1>6, <1>7, <2>1, <3>2
  <2>2. CASE UNCHANGED <<sharing, cursor>> /\ step' = "refused"
    BY <1>3, <2>2 DEF Passes
  <2>3. QED
    BY <1>7, <2>1, <2>2 DEF Bypass
<1>8. ASSUME step \in Passes \ {"share"}, cursor # 0, Pass
      PROVE  PlacesType' /\ PlacesInv' /\ IsInjective(level')
  BY <1>6, <1>8 DEF Pass, net
<1>9. CASE RemoveQuerySource \/ MergeSelect \/ MergeProject
  <2>1. step \in Passes \ {"share"} /\ cursor # 0
    BY <1>9 DEF RemoveQuerySource, MergeSelect, MergeProject, At, Passes
  <2>2. ops[1].kind = "ssgen"
    BY DEF IInv, PoolInv
  <2>3. Pass \/ \E table : cursor # 1 /\ Bypass(table)
    BY <1>9, <2>2 DEF RemoveQuerySource, MergeSelect, MergeProject, MergesSelect, MergesProject
  <2>4. QED
    BY <1>7, <1>8, <2>1, <2>3
<1>10. CASE AddSink
  <2>1. step \in Passes \ {"share"} /\ cursor # 0
    BY <1>10 DEF AddSink, At, Passes
  <2>2. CASE CanMake(<<cursor>>) /\ TakeOp /\ Leave
    BY <1>1, <1>6, <2>1, <2>2, TakeOpPool DEF CanMake
  <2>3. CASE UNCHANGED <<sharing, cursor>> /\ step' \in {"nullOp", "failed"}
    BY <1>3, <2>3 DEF Passes
  <2>4. QED
    BY <1>8, <1>10, <2>1, <2>2, <2>3 DEF AddSink, CannotMake
<1>11. CASE NextPass
  <2>1. CASE level' = Sources /\ following' = <<>> /\ row' = 1 /\ col' = 2 /\ step' = "share" /\ UNCHANGED cursor
    <3>1. Sources \in Seq(OpIds) /\ IsInjective(Sources)
      BY <1>1, PickedPositions, PickedDistinct DEF Sources
    <3>2. QED
      BY <1>1, <2>1, <3>1 DEF PlacesType, PlacesInv
  <2>2. QED
    BY <1>3, <1>5, <1>11, <2>1 DEF NextPass, Passes
<1>12. CASE ComparePair
  <2>1. step = "share" /\ UNCHANGED cursor
    BY <1>12 DEF ComparePair
  <2>2. step' \notin Passes \ {"share"}
    BY <1>12, <2>1 DEF ComparePair, Merge, Passes
  <2>3. PICK a \in OpIds, b \in OpIds :
           /\ col \in 1..Len(level)
           /\ \/ level' = ErasedFrom(level, col) /\ UNCHANGED <<following, row, col>>
              \/ UNCHANGED <<level, following, row>> /\ col' \in {col, col + 1}
    BY <1>12, PairOf DEF net
  <2>4. CASE level' = ErasedFrom(level, col) /\ UNCHANGED <<following, row, col>>
    BY <1>1, <2>1, <2>2, <2>3, <2>4, ErasedType DEF PlacesType, PlacesInv
  <2>5. CASE UNCHANGED <<level, following, row>> /\ col' \in {col, col + 1}
    BY <1>1, <2>1, <2>2, <2>5 DEF PlacesType, PlacesInv
  <2>6. QED
    BY <2>3, <2>4, <2>5
<1>13. CASE EndRow
  <2>1. row \in 1..Len(level) /\ level \in Seq(OpIds)
    BY <1>1, <1>13 DEF EndRow, PlacesType, PlacesInv
  <2>2. ops[level[row]].out \in Seq(OpIds)
    BY <2>1, SeqElement, NetOfInv, Fields DEF IInv, NetFits, OpsFit
  <2>3. following' \in Seq(OpIds)
    BY <1>1, <1>13, <2>2, Concat DEF EndRow, PlacesType
  <2>4. QED
    BY <1>1, <1>13, <2>3 DEF EndRow, PlacesType, PlacesInv
<1>14. CASE EndLevel
  <2>1. CASE level' = Distinct(following) /\ following' = <<>> /\ row' = 1 /\ col' = 2 /\ UNCHANGED <<step, cursor>>
    <3>1. Distinct(following) \in Seq(OpIds) /\ IsInjective(Distinct(following))
      BY <1>1, DistinctType, PickedDistinct DEF PlacesType
    <3>2. step' = "share"
      BY <1>14, <2>1 DEF EndLevel
    <3>3. QED
      BY <1>1, <2>1, <3>1, <3>2 DEF PlacesType, PlacesInv
  <2>2. QED
    BY <1>5, <1>14, <2>1 DEF EndLevel
<1>15. CASE Optimize
  BY <1>5, <1>15 DEF Optimize
<1>16. CASE Load \/ Translate
  <2>1. UNCHANGED <<sharing, cursor>> /\ step' \notin Passes
    BY <1>16 DEF Load, Translate, AddBaseTable, AddQuery, MapView, TranslateSource, TranslateSelect,
                 TranslateOperator, Translated, MakeQuerySource, MakeOutput, CannotMake, Passes
  <2>2. QED
    BY <1>3, <2>1
<1>17. CASE UNCHANGED planVars
  BY <1>4, <1>17 DEF planVars, net
<1>18. QED
  BY <1>9, <1>10, <1>11, <1>12, <1>13, <1>14, <1>15, <1>16, <1>17 DEF Next, Rewrite, Ended
-----------------------------------------------------------------------------
(* The edges, up to the sharing.                                              *)
Wired(table, N) ==
  \A o \in N :
    /\ ToSet(table[o].in) \cup ToSet(table[o].out) \subseteq N
    /\ \A p \in N : Times(table[o].in, p) = Times(table[p].out, o)

InOrder(table, u) == \A j, k \in DOMAIN u : u[j] \in ToSet(table[u[k]].in) => k < j

(* Edges agree as long as no edge changes. *)
LEMMA SameEdges ==
  ASSUME NEW table, NEW new, NEW u \in Seq(OpIds), Wired(table, ToSet(u)), InOrder(table, u),
         \A p \in OpIds : new[p].in = table[p].in /\ new[p].out = table[p].out
  PROVE  Wired(new, ToSet(u)) /\ InOrder(new, u)
<1>1. \A p \in ToSet(u) : p \in OpIds
  BY InUse
<1>2. Wired(new, ToSet(u))
  BY <1>1 DEF Wired
<1>3. ASSUME NEW k \in DOMAIN u PROVE new[u[k]].in = table[u[k]].in
  BY SeqElement
<1>4. QED
  BY <1>2, <1>3 DEF InOrder

(* A new operator over operators in use keeps both ends of each edge in agreement. *)
LEMMA CreatedWired ==
  ASSUME OpsFit(ops), NEW N \in SUBSET OpIds, Wired(ops, N), NEW o \in OpIds, o \notin N,
         NEW in \in Seq(OpIds), ToSet(in) \subseteq N, NEW kind, NEW par
  PROVE  Wired(WithReader(o, kind, par, in), N \cup {o})
<1> DEFINE new == WithReader(o, kind, par, in)
<1>1. new[o].in = in /\ new[o].out = <<>>
  BY DEF WithReader, NewOp
<1>2. ASSUME NEW p \in N
      PROVE  /\ new[p].in = ops[p].in
             /\ ops[p].in \in Seq(OpIds) /\ ops[p].out \in Seq(OpIds) /\ new[p].out \in Seq(OpIds)
             /\ \A x : Times(new[p].out, x) = Times(ops[p].out, x) + (IF x = o THEN Times(in, p) ELSE 0)
  <2> DEFINE more == [k \in 1..Times(in, p) |-> o]
  <2>1. Times(in, p) \in Nat
    BY TimesType
  <2>2. more \in Seq(OpIds)
    BY <2>1
  <2>3. ops[p] \in Operators /\ ops[p].out \in Seq(OpIds) /\ ops[p].in \in Seq(OpIds)
    BY Fields DEF OpsFit
  <2>4. new[p] = [ops[p] EXCEPT !.out = @ \o more]
    BY DEF WithReader
  <2>5. new[p].in = ops[p].in /\ new[p].out = ops[p].out \o more
    BY <2>3, <2>4 DEF Operators
  <2>6. \A x : Times(more, x) = IF x = o THEN Times(in, p) ELSE 0
    BY <2>1, TimesSame, ZenonT(30)
  <2> HIDE DEF more
  <2>7. \A x : Times(ops[p].out \o more, x) = Times(ops[p].out, x) + Times(more, x)
    BY <2>2, <2>3, TimesConcat
  <2>8. ops[p].out \o more \in Seq(OpIds)
    BY <2>2, <2>3, Concat
  <2> HIDE DEF new
  <2>9. QED
    BY <2>3, <2>5, <2>6, <2>7, <2>8
<1> HIDE DEF new
<1>3. \A p \in N : Times(ops[p].in, o) = 0 /\ Times(ops[p].out, o) = 0
  BY <1>2, TimesType DEF Wired
<1>4. \A x : Times(<<>>, x) = 0
  <2>1. <<>> \in Seq(OpIds) /\ ToSet(<<>>) = {}
    BY DEF ToSet
  <2>2. QED
    BY <2>1, TimesType
<1>5. Times(in, o) = 0
  BY TimesType
<1>6. \A p \in N : Times(in, p) \in Nat /\ \A q \in N : Times(ops[p].out, q) \in Nat
  BY <1>2, TimesType
<1>7. ASSUME NEW p \in N \cup {o}, NEW q \in N \cup {o}
      PROVE  Times(new[p].in, q) = Times(new[q].out, p)
  <2>1. CASE p = o /\ q = o
    BY <1>1, <1>4, <1>5, <2>1
  <2>2. CASE p = o /\ q \in N
    <3>1. Times(new[q].out, o) = Times(ops[q].out, o) + Times(in, q)
      BY <1>2, <2>2
    <3>2. Times(ops[q].out, o) = 0 /\ Times(in, q) \in Nat
      BY <1>3, <1>6, <2>2
    <3>3. Times(new[p].in, q) = Times(in, q)
      BY <1>1, <2>2
    <3>4. QED
      BY <2>2, <3>1, <3>2, <3>3
  <2>3. CASE p \in N /\ q = o
    BY <1>1, <1>2, <1>3, <1>4, <2>3
  <2>4. CASE p \in N /\ q \in N
    <3>1. Times(new[q].out, p) = Times(ops[q].out, p) + 0
      BY <1>2, <2>4
    <3>2. Times(ops[q].out, p) \in Nat
      BY <1>6, <2>4
    <3>3. Times(new[p].in, q) = Times(ops[p].in, q)
      BY <1>2, <2>4
    <3>4. Times(ops[p].in, q) = Times(ops[q].out, p)
      BY <2>4 DEF Wired
    <3>5. QED
      BY <3>1, <3>2, <3>3, <3>4
  <2>5. QED
    BY <2>1, <2>2, <2>3, <2>4
<1>8. ASSUME NEW p \in N \cup {o}
      PROVE  ToSet(new[p].in) \cup ToSet(new[p].out) \subseteq N \cup {o}
  <2>1. CASE p = o
    BY <1>1, <2>1 DEF ToSet
  <2>2. CASE p \in N
    <3>1. ToSet(ops[p].in) \cup ToSet(ops[p].out) \subseteq N
      BY <2>2 DEF Wired
    <3>2. ASSUME NEW x \in ToSet(new[p].out), x # o PROVE x \in N
      <4>1. Times(new[p].out, x) = Times(ops[p].out, x)
        <5>1. Times(new[p].out, x) = Times(ops[p].out, x) + 0
          BY <1>2, <2>2, <3>2
        <5>2. Times(ops[p].out, x) \in Nat
          BY <1>2, <2>2, TimesType
        <5>3. QED
          BY <5>1, <5>2
      <4>2. Times(ops[p].out, x) # 0
        BY <1>2, <2>2, <4>1, TimesType
      <4>3. x \in ToSet(ops[p].out)
        BY <1>2, <2>2, <4>2, TimesType
      <4>4. QED
        BY <3>1, <4>3
    <3>3. QED
      BY <1>2, <2>2, <3>1, <3>2
  <2>3. QED
    BY <2>1, <2>2
<1>9. QED
  BY <1>7, <1>8 DEF Wired, new

(* So does taking out an operator from between its neighbours. *)
LEMMA SplicedWired ==
  ASSUME NEW table, OpsFit(table), NEW N \in SUBSET OpIds, Wired(table, N),
         NEW o \in N, table[o].kind \in Through, table[o].in[1] # o
  PROVE  Wired(Spliced(table, o), N \ {o})
<1> DEFINE i     == table[o].in[1]
           outs  == table[i].out \o table[o].out
           place == PlaceOf(table[i].out, o)
           new   == Spliced(table, o)
<1>1. \A p \in N : table[p].in \in Seq(OpIds) /\ table[p].out \in Seq(OpIds) /\ table[p] \in Operators
  BY Fields DEF OpsFit
<1>2. \A p \in N : \A x : Times(table[p].in, x) \in Nat /\ Times(table[p].out, x) \in Nat
  BY <1>1, TimesType
<1>3. i \in N /\ i # o
  <2>1. Len(table[o].in) = 1 /\ table[o].in \in Seq(OpIds)
    BY <1>1 DEF OpsFit
  <2>2. i \in ToSet(table[o].in)
    BY <2>1 DEF ToSet
  <2>3. QED
    BY <2>2 DEF Wired
<1>4. \A x : Times(table[o].in, x) = IF x = i THEN 1 ELSE 0
  BY <1>1, TimesType DEF OpsFit
<1>5. ASSUME NEW p \in N \ {o}
      PROVE  /\ new[p].out = IF p = i THEN FilledAt(outs, place) ELSE table[p].out
             /\ new[p].in = IF p \in ToSet(table[o].out) THEN ReplaceAll(table[p].in, o, i) ELSE table[p].in
  <2>1. new[p] = [table[p] EXCEPT !.out = IF p = i THEN FilledAt(outs, place) ELSE @,
                                  !.in  = IF p \in ToSet(table[o].out) THEN ReplaceAll(@, o, i) ELSE @]
    BY DEF Spliced, InsteadOf
  <2>2. table[p] \in Operators
    BY <1>1
  <2> HIDE DEF i, outs, place, new
  <2>3. QED
    BY <2>1, <2>2 DEF Operators
<1>6. outs \in Seq(OpIds) /\ place \in 1..Len(outs) /\ outs[place] = o
  <2>1. table[i].out \in Seq(OpIds) /\ table[o].out \in Seq(OpIds)
    BY <1>1, <1>3
  <2>2. Times(table[i].out, o) = 1
    BY <1>3, <1>4 DEF Wired
  <2>3. o \in ToSet(table[i].out)
    BY <2>1, <2>2, TimesType
  <2>4. place \in 1..Len(table[i].out) /\ table[i].out[place] = o
    BY <2>1, <2>3, FirstPlace DEF PlaceOf
  <2> DEFINE s == table[i].out
             t == table[o].out
  <2>5. outs = s \o t /\ s \in Seq(OpIds) /\ t \in Seq(OpIds) /\ place \in 1..Len(s) /\ s[place] = o
    BY <2>1, <2>4
  <2> HIDE DEF place, outs, s, t
  <2>6. /\ outs \in Seq(OpIds) /\ \A k \in 1..Len(s) : outs[k] = s[k]
        /\ Len(s) \in Nat /\ Len(t) \in Nat /\ Len(outs) = Len(s) + Len(t)
    BY <2>5, Concat
  <2>7. outs[place] = o
    BY <2>5, <2>6
  <2>8. place \in 1..Len(outs)
    BY <2>5, <2>6
  <2>9. QED
    BY <2>6, <2>7, <2>8
<1>7. FilledAt(outs, place) \in Seq(OpIds)
  BY <1>6, FilledType
<1>8. \A x : Times(table[i].out, x) + Times(table[o].out, x)
               = Times(FilledAt(outs, place), x) + (IF x = o THEN 1 ELSE 0)
  <2>1. \A x : Times(outs, x) = Times(table[i].out, x) + Times(table[o].out, x)
    BY <1>1, <1>3, TimesConcat
  <2> HIDE DEF outs, place
  <2>2. \A x : Times(outs, x) = Times(FilledAt(outs, place), x) + (IF x = outs[place] THEN 1 ELSE 0)
    BY <1>6, TimesFilled
  <2>3. QED
    BY <1>6, <2>1, <2>2
<1> HIDE DEF i, outs, place, new
<1>9. ASSUME NEW p \in N \ {o}, NEW x
      PROVE  Times(new[p].in, x) = IF x = i THEN Times(table[p].in, i) + Times(table[p].in, o)
                                   ELSE IF x = o THEN 0 ELSE Times(table[p].in, x)
  <2>1. CASE p \in ToSet(table[o].out)
    BY <1>1, <1>3, <1>5, <2>1, TimesReplaced
  <2>2. CASE p \notin ToSet(table[o].out)
    <3>1. Times(table[o].out, p) = 0
      BY <1>1, <2>2, TimesType
    <3>2. Times(table[p].in, o) = 0
      BY <3>1 DEF Wired
    <3>3. QED
      BY <1>2, <1>5, <2>2, <3>2
  <2>3. QED
    BY <2>1, <2>2
<1>10. ASSUME NEW p \in N \ {o}, NEW x
       PROVE  Times(new[p].out, x) = IF x = o THEN 0
                                     ELSE IF p = i THEN Times(table[i].out, x) + Times(table[o].out, x)
                                     ELSE Times(table[p].out, x)
  <2>1. Times(FilledAt(outs, place), x) \in Nat
    BY <1>7, TimesType
  <2>2. CASE p = i
    <3>1. new[p].out = FilledAt(outs, place)
      BY <1>5, <2>2
    <3>2. x = o => Times(table[i].out, x) = 1 /\ Times(table[o].out, x) = 0
      BY <1>3, <1>4 DEF Wired
    <3>3. QED
      BY <1>3, <1>8, <2>1, <2>2, <3>1, <3>2
  <2>3. CASE p # i
    <3>1. new[p].out = table[p].out
      BY <1>5, <2>3
    <3>2. Times(table[p].out, o) = 0
      BY <1>4, <2>3 DEF Wired
    <3>3. QED
      BY <2>3, <3>1, <3>2
  <2>4. QED
    BY <2>2, <2>3
<1>11. ASSUME NEW p \in N \ {o}, NEW q \in N \ {o}
       PROVE  Times(new[p].in, q) = Times(new[q].out, p)
  <2>1. \A r \in N : Times(table[p].in, r) = Times(table[r].out, p)
    BY DEF Wired
  <2>2. CASE q = i
    BY <1>3, <1>9, <1>10, <2>1, <2>2
  <2>3. CASE q # i
    BY <1>9, <1>10, <2>1, <2>3
  <2>4. QED
    BY <2>2, <2>3
<1>12. ASSUME NEW p \in N \ {o}
       PROVE  ToSet(new[p].in) \cup ToSet(new[p].out) \subseteq N \ {o}
  <2>1. new[p].in \in Seq(OpIds) /\ new[p].out \in Seq(OpIds)
    <3>1. table[p].in \in Seq(OpIds) /\ table[p].out \in Seq(OpIds) /\ i \in OpIds
      BY <1>1, <1>3
    <3>2. ReplaceAll(table[p].in, o, i) \in Seq(OpIds)
      BY <3>1, ReplaceAllType
    <3>3. QED
      BY <1>5, <1>7, <3>1, <3>2
  <2>2. \A x : (x \in ToSet(new[p].in) <=> Times(new[p].in, x) # 0)
               /\ (x \in ToSet(new[p].out) <=> Times(new[p].out, x) # 0)
    BY <2>1, TimesType
  <2>3. \A r \in N : \A x : (Times(table[r].in, x) # 0 => x \in N) /\ (Times(table[r].out, x) # 0 => x \in N)
    BY <1>1, TimesType DEF Wired
  <2>4. ASSUME NEW x \in ToSet(new[p].in) PROVE x \in N \ {o}
    BY <1>3, <1>9, <2>2, <2>3
  <2>5. ASSUME NEW x \in ToSet(new[p].out) PROVE x \in N \ {o}
    <3>1. x # o
      BY <1>10, <2>2
    <3>2. CASE p = i
      <4>1. Times(table[i].out, x) + Times(table[o].out, x) # 0
        BY <1>10, <2>2, <3>1, <3>2
      <4>2. Times(table[i].out, x) # 0 \/ Times(table[o].out, x) # 0
        BY <4>1
      <4>3. QED
        BY <1>3, <2>3, <3>1, <4>2
    <3>3. CASE p # i
      BY <1>10, <2>2, <2>3, <3>1, <3>3
    <3>4. QED
      BY <3>2, <3>3
  <2>6. QED
    BY <2>4, <2>5
<1>13. QED
  BY <1>11, <1>12 DEF Wired, new

(* A new operator is newer than what it reads from. *)
LEMMA CreatedInOrder ==
  ASSUME OpsFit(ops), NEW u \in Seq(OpIds), NEW v \in Seq(OpIds), NEW o \in OpIds, NEW in, NEW kind, NEW par,
         Wired(ops, ToSet(u)), InOrder(ops, u), o \notin ToSet(u), ToSet(in) \subseteq ToSet(u),
         Len(v) = Len(u) + 1, v[1] = o, \A k \in 1..Len(u) : v[k + 1] = u[k]
  PROVE  InOrder(WithReader(o, kind, par, in), v)
<1> DEFINE new == WithReader(o, kind, par, in)
           n   == Len(u)
<1>1. /\ n \in Nat /\ DOMAIN u = 1..n /\ DOMAIN v = 1..(n + 1)
      /\ \A k \in 1..(n + 1) : k = 1 \/ (k - 1 \in 1..n /\ k = (k - 1) + 1)
  OBVIOUS
<1>2. \A k \in 1..n : u[k] \in OpIds /\ u[k] # o
  BY <1>1 DEF ToSet
<1>3. new[o].in = in /\ \A p \in OpIds \ {o} : new[p].in = ops[p].in
  <2>1. new[o].in = in
    BY DEF WithReader, NewOp
  <2>2. ASSUME NEW p \in OpIds \ {o} PROVE new[p].in = ops[p].in
    BY Fields DEF OpsFit, WithReader, Operators
  <2>3. QED
    BY <2>1, <2>2
<1> HIDE DEF new, n
<1>4. ASSUME NEW j \in 1..(n + 1), NEW k \in 1..(n + 1), v[j] \in ToSet(new[v[k]].in)
      PROVE  k < j
  <2>1. CASE k = 1
    <3>1. v[j] # o
      BY <1>3, <1>4, <2>1
    <3>2. j # 1 /\ j \in Nat /\ j >= 1
      BY <1>1, <3>1
    <3>3. QED
      BY <2>1, <3>2
  <2>2. CASE k # 1
    <3>1. k - 1 \in 1..n /\ v[k] = u[k - 1]
      BY <1>1, <2>2 DEF n
    <3>2. v[j] \in ToSet(ops[u[k - 1]].in)
      BY <1>2, <1>3, <1>4, <3>1
    <3>3. v[j] \in ToSet(u)
      <4>1. u[k - 1] \in ToSet(u)
        BY <1>1, <3>1 DEF ToSet
      <4>2. ToSet(ops[u[k - 1]].in) \subseteq ToSet(u)
        BY <4>1 DEF Wired
      <4>3. QED
        BY <3>2, <4>2
    <3>4. j # 1
      BY <3>3
    <3>5. j - 1 \in 1..n /\ v[j] = u[j - 1]
      BY <1>1, <3>4 DEF n
    <3>6. k - 1 < j - 1
      BY <1>1, <3>1, <3>2, <3>5 DEF InOrder
    <3>7. QED
      BY <1>1, <3>6
  <2>3. QED
    BY <2>1, <2>2
<1>5. QED
  BY <1>1, <1>4 DEF InOrder, new

(* What a list holds after a replacement was in it before, or is the new one. *)
LEMMA ReplacedElement ==
  ASSUME NEW s \in Seq(OpIds), NEW o, NEW i, NEW x \in ToSet(ReplaceAll(s, o, i))
  PROVE  x = i \/ x \in ToSet(s)
<1>1. DOMAIN s = 1..Len(s)
  OBVIOUS
<1>2. PICK k \in 1..Len(s) : x = IF s[k] = o THEN i ELSE s[k]
  BY DEF ReplaceAll, ToSet
<1>3. QED
  BY <1>1, <1>2 DEF ToSet

(* Taking out an operator leaves readers newer than what they read from. *)
LEMMA SplicedInOrder ==
  ASSUME NEW table, OpsFit(table), NEW u \in Seq(OpIds), NEW o \in ToSet(u),
         Wired(table, ToSet(u)), InOrder(table, u), table[o].kind \in Through
  PROVE  /\ table[o].in[1] # o
         /\ InOrder(Spliced(table, o), Without(u, o))
<1> DEFINE i   == table[o].in[1]
           new == Spliced(table, o)
           w   == Without(u, o)
           m   == Len(w)
           n   == Len(u)
<1>1. PICK l \in DOMAIN u : u[l] = o
  BY DEF ToSet
<1>2. o \in OpIds /\ i \in ToSet(table[o].in)
  <2>1. o \in OpIds
    BY InUse
  <2>2. table[o].in \in Seq(OpIds) /\ Len(table[o].in) = 1
    BY <2>1, Fields DEF OpsFit
  <2>3. QED
    BY <2>1, <2>2 DEF ToSet
<1>3. i # o
  <2>1. i = o => l < l
    BY <1>1, <1>2 DEF InOrder
  <2>2. l \in Nat
    OBVIOUS
  <2>3. QED
    BY <2>1, <2>2
<1>4. ASSUME NEW p \in ToSet(u)
      PROVE  /\ p \notin ToSet(table[o].out) => new[p].in = table[p].in
             /\ p \in ToSet(table[o].out) => new[p].in = ReplaceAll(table[p].in, o, i) /\ o \in ToSet(table[p].in)
             /\ table[p].in \in Seq(OpIds)
  <2>1. p \in OpIds /\ table[p] \in Operators /\ table[p].in \in Seq(OpIds) /\ table[o].out \in Seq(OpIds)
    BY <1>2, InUse, Fields DEF OpsFit
  <2>2. new[p].in = IF p \in ToSet(table[o].out) THEN ReplaceAll(table[p].in, o, i) ELSE table[p].in
    BY <2>1 DEF Spliced, InsteadOf, Operators
  <2>3. Times(table[p].in, o) = Times(table[o].out, p)
    BY DEF Wired
  <2>4. p \in ToSet(table[o].out) => o \in ToSet(table[p].in)
    BY <2>1, <2>3, TimesType
  <2>5. QED
    BY <2>1, <2>2, <2>4
<1>5. PICK at \in [1..m -> 1..n] :
           /\ \A k \in 1..m : w[k] = u[at[k]]
           /\ \A j, k \in 1..m : j < k => at[j] < at[k]
  BY WithoutOrder
<1>6. w \in Seq(OpIds) /\ m \in Nat /\ n \in Nat /\ DOMAIN w = 1..m /\ DOMAIN u = 1..n /\ ToSet(w) = ToSet(u) \ {o}
  BY WithoutType
<1> HIDE DEF i, new, w, m, n
<1>7. ASSUME NEW j \in 1..m, NEW k \in 1..m, w[j] \in ToSet(new[w[k]].in)
      PROVE  at[k] < at[j]
  <2>1. w[k] \in ToSet(u) /\ w[j] \in ToSet(u) /\ at[j] \in DOMAIN u /\ at[k] \in DOMAIN u
    BY <1>5, <1>6 DEF ToSet
  <2>2. CASE w[j] \in ToSet(table[w[k]].in)
    BY <1>5, <2>1, <2>2 DEF InOrder
  <2>3. CASE w[j] \notin ToSet(table[w[k]].in)
    <3>1. /\ new[w[k]].in = ReplaceAll(table[w[k]].in, o, i) /\ o \in ToSet(table[w[k]].in)
          /\ table[w[k]].in \in Seq(OpIds)
      BY <1>4, <1>7, <2>1, <2>3
    <3>2. w[j] = i
      BY <1>7, <2>3, <3>1, ReplacedElement
    <3>3. at[k] < l
      BY <1>1, <1>5, <2>1, <3>1 DEF InOrder
    <3>4. l < at[j]
      BY <1>1, <1>2, <1>5, <2>1, <3>2 DEF InOrder
    <3>5. at[k] \in Nat /\ l \in Nat /\ at[j] \in Nat
      BY <1>6, <2>1, <1>1
    <3>6. QED
      BY <3>3, <3>4, <3>5
  <2>4. QED
    BY <2>2, <2>3
<1>8. ASSUME NEW j \in 1..m, NEW k \in 1..m, w[j] \in ToSet(new[w[k]].in)
      PROVE  k < j
  <2>1. at[k] < at[j] /\ at[k] \in Nat /\ at[j] \in Nat
    BY <1>5, <1>6, <1>7, <1>8
  <2>2. k # j /\ ~(j < k)
    BY <1>5, <2>1
  <2>3. QED
    BY <1>6, <2>2
<1>9. QED
  BY <1>3, <1>6, <1>8 DEF InOrder, i, new, w

NetWired == Wired(ops, ToSet(used)) /\ InOrder(ops, used)

(* A new operator leaves the network the same from both ends, and in order. *)
LEMMA CreatedEdges ==
  ASSUME NetFits, NetWired, NEW in \in Seq(OpIds), ToSet(in) \subseteq ToSet(used), CanMake(in), TakeOp,
         NEW kind, NEW par
  PROVE  /\ Wired(WithReader(Head(free), kind, par, in), ToSet(used'))
         /\ InOrder(WithReader(Head(free), kind, par, in), used')
<1> DEFINE o == Head(free)
<1>1. /\ PoolFits(used', free') /\ o \in OpIds /\ o \notin ToSet(used) /\ ToSet(used') = ToSet(used) \cup {o}
      /\ Len(used') = Len(used) + 1 /\ used'[1] = o /\ \A k \in 1..Len(used) : used'[k + 1] = used[k]
  BY TakeOpPool DEF NetFits, CanMake
<1>2. used \in Seq(OpIds) /\ used' \in Seq(OpIds) /\ ToSet(used) \in SUBSET OpIds
  BY <1>1, InUse DEF NetFits, PoolFits
<1> HIDE DEF o
<1>3. Wired(WithReader(o, kind, par, in), ToSet(used) \cup {o})
  BY <1>1, <1>2, CreatedWired DEF NetFits, NetWired
<1>4. InOrder(WithReader(o, kind, par, in), used')
  BY <1>1, <1>2, CreatedInOrder DEF NetFits, NetWired
<1>5. QED
  BY <1>1, <1>3, <1>4 DEF o

(* So does an operator that a pass takes out. *)
LEMMA BypassedEdges ==
  ASSUME NetFits, NetWired, NEW table, OpsFit(table), cursor \in ToSet(used),
         table[cursor].kind \in Through, Bypass(table),
         \A p \in OpIds : table[p].in = ops[p].in /\ table[p].out = ops[p].out
  PROVE  NetWired'
<1>1. used \in Seq(OpIds) /\ ToSet(used) \in SUBSET OpIds
  BY InUse DEF NetFits, PoolFits
<1>2. Wired(table, ToSet(used)) /\ InOrder(table, used)
  BY <1>1, SameEdges DEF NetWired
<1>3. /\ Wired(Spliced(table, cursor), ToSet(used) \ {cursor})
      /\ InOrder(Spliced(table, cursor), Without(used, cursor))
  BY <1>1, <1>2, SplicedWired, SplicedInOrder
<1>4. ToSet(Without(used, cursor)) = ToSet(used) \ {cursor}
  BY <1>1, WithoutType
<1>5. CASE ops' = Spliced(table, cursor) /\ used' = Without(used, cursor)
  BY <1>3, <1>4, <1>5, SMTT(40) DEF NetWired
<1>6. CASE UNCHANGED net
  BY <1>6 DEF net, NetWired
<1>7. QED
  BY <1>5, <1>6 DEF Bypass, FreeOp

(* Until operators are shared every step leaves the network the same from both ends. *)
LEMMA NetWiredStep ==
  ASSUME IInv, Next, step' \in Unshared
  PROVE  NetWired'
<1>1. NetFits /\ TypeOK /\ OpsFit(ops) /\ PoolFits(used, free) /\ used \in Seq(OpIds)
  BY NetOfInv, SMTT(40) DEF IInv, NetFits, PoolFits
<1>2. step \in Unshared
  BY DEF Next, Load, Translate, Rewrite, AddBaseTable, AddQuery, MapView, Optimize, TranslateSource,
         TranslateSelect, TranslateOperator, Translated, MakeQuerySource, MakeOutput, NextPass,
         RemoveQuerySource, AddSink, MergeSelect, MergeProject, ComparePair, Merge, EndRow, EndLevel, Bypass,
         Pass, Leave, At, CannotMake, Ended, Over, planVars, Unshared, Broken
<1>3. NetWired
  BY <1>2 DEF IInv, NetInv, EdgesAgree, NewerFirst, NetWired, Wired, InOrder
<1>4. CASE UNCHANGED net
  BY <1>3, <1>4 DEF net, NetWired
<1>5. CASE AddBaseTable
  <2>1. CASE CanMake(<<>>) /\ TakeOp /\ ops' = WithReader(Head(free), "source", <<NextTable>>, <<>>)
    <3>1. <<>> \in Seq(OpIds) /\ ToSet(<<>>) \subseteq ToSet(used)
      BY DEF ToSet
    <3>2. QED
      BY <1>1, <1>3, <2>1, <3>1, CreatedEdges DEF NetWired
  <2>2. QED
    BY <1>4, <1>5, <2>1 DEF AddBaseTable, CannotMake
<1>6. CASE TranslateSelect
  <2>1. Inputs[1] \in OpIds
    BY <1>1, <1>6, ItemFits DEF TranslateSelect, OverSelect, IInv, Arity
  <2>2. /\ ops' = [ops EXCEPT ![Inputs[1]].par = Head(todo).par \o ops[Inputs[1]].par]
        /\ UNCHANGED used
    BY <1>6 DEF TranslateSelect
  <2>3. ASSUME NEW p \in OpIds PROVE ops'[p].in = ops[p].in /\ ops'[p].out = ops[p].out
    BY <1>1, <2>1, <2>2 DEF OpsFit, Operators
  <2>4. Wired(ops', ToSet(used)) /\ InOrder(ops', used)
    BY <1>1, <1>3, <2>3, SameEdges DEF NetWired
  <2>5. QED
    BY <2>2, <2>4 DEF NetWired
<1>7. CASE TranslateOperator
  <2>1. Inputs \in Seq(OpIds) /\ ToSet(Inputs) \subseteq ToSet(used)
    BY <1>1, <1>7, ItemFits DEF TranslateOperator, IInv, RegisteredInv
  <2>2. CASE CanMake(Inputs) /\ TakeOp /\ ops' = WithReader(Head(free), Head(todo).kind, Head(todo).par, Inputs)
    BY <1>1, <1>3, <2>1, <2>2, CreatedEdges DEF NetWired
  <2>3. QED
    BY <1>4, <1>7, <2>2 DEF TranslateOperator, CannotMake
<1>8. CASE MakeQuerySource
  <2>1. built \in Seq(OpIds) /\ ToSet(built) \subseteq ToSet(used)
    BY <1>1, <1>8 DEF MakeQuerySource, IInv, RegisteredInv, TypeOK
  <2>2. CASE CanMake(built) /\ TakeOp /\ ops' = WithReader(Head(free), "qsrc", <<>>, built)
    BY <1>1, <1>3, <2>1, <2>2, CreatedEdges DEF NetWired
  <2>3. QED
    BY <1>4, <1>8, <2>2 DEF MakeQuerySource, CannotMake
<1>9. CASE MakeOutput
  <2> DEFINE table == WithReader(Head(free), "output", <<Len(meaning) + 1>>, built)
  <2>1. built \in Seq(OpIds) /\ ToSet(built) \subseteq ToSet(used)
    BY <1>1, <1>9 DEF MakeOutput, IInv, RegisteredInv, TypeOK
  <2>2. CASE CanMake(built) /\ TakeOp /\ ops' = Classified(table, job.cls, Head(free))
    <3>1. Wired(table, ToSet(used')) /\ InOrder(table, used')
      BY <1>1, <1>3, <2>1, <2>2, CreatedEdges
    <3>2. OpsFit(table) /\ PoolFits(used', free')
      <4>1. Len(meaning) \in Nat
        BY DEF IInv, MapsInv
      <4>2. <<Len(meaning) + 1>> \in Seq(Nat) /\ "output" \in Kinds \ Through
        BY <4>1 DEF Kinds, Through
      <4>3. QED
        BY <1>1, <2>1, <2>2, <4>2, Created
    <3>3. \A p \in OpIds : table[p] \in Operators /\ used' \in Seq(OpIds)
      BY <3>2 DEF OpsFit, PoolFits
    <3> HIDE DEF table
    <3>4. ASSUME NEW p \in OpIds PROVE ops'[p].in = table[p].in /\ ops'[p].out = table[p].out
      <4>1. ops'[p] \in {table[p], [table[p] EXCEPT !.cls = job.cls]}
        BY <2>2 DEF Classified
      <4>2. QED
        BY <3>3, <4>1 DEF Operators
    <3>5. Wired(ops', ToSet(used')) /\ InOrder(ops', used')
      BY <3>1, <3>3, <3>4, OneIsOp, SameEdges
    <3>6. QED
      BY <3>5 DEF NetWired
  <2>3. QED
    BY <1>4, <1>9, <2>2 DEF MakeOutput, CannotMake
<1>10. CASE RemoveQuerySource
  <2>1. cursor \in ToSet(used)
    BY <1>10 DEF RemoveQuerySource, At, IInv, PlacesInv, Passes
  <2>2. CASE ops[cursor].kind = "qsrc" /\ Bypass(ops)
    BY <1>1, <1>3, <2>1, <2>2, BypassedEdges DEF Through
  <2>3. QED
    BY <1>4, <1>10, <2>2 DEF RemoveQuerySource, Pass
<1>11. CASE AddSink
  <2>1. cursor \in ToSet(used) /\ cursor \in OpIds
    BY <1>11 DEF AddSink, At, IInv, TypeOK, PlacesInv, Passes
  <2>2. CASE CanMake(<<cursor>>) /\ TakeOp /\ ops' = WithReader(Head(free), "sink", <<>>, <<cursor>>)
    <3>1. <<cursor>> \in Seq(OpIds) /\ ToSet(<<cursor>>) \subseteq ToSet(used)
      BY <2>1 DEF ToSet
    <3>2. QED
      BY <1>1, <1>3, <2>2, <3>1, CreatedEdges DEF NetWired
  <2>3. QED
    BY <1>4, <1>11, <2>2 DEF AddSink, CannotMake, Pass
<1>12. CASE MergeSelect
  <2> DEFINE table == [ops EXCEPT ![Below].par = ops[Below].par \o ops[cursor].par]
  <2>1. cursor \in ToSet(used) /\ cursor \in OpIds
    BY <1>1, <1>12, InUse DEF MergeSelect, At, IInv, PlacesInv, Passes, PoolFits
  <2>2. CASE MergesSelect /\ Bypass(table)
    <3>1. ops[cursor].kind = "select" /\ "select" \in Through
      BY <2>2 DEF MergesSelect, Through
    <3>2. Below \in OpIds
      BY <1>1, <2>1, <3>1, Fields DEF Below, OpsFit
    <3>3. ops[Below].par \o ops[cursor].par \in Seq(Nat)
      BY <1>1, <2>1, <3>2, Fields DEF OpsFit
    <3>4. OpsFit(table)
      BY <1>1, <3>2, <3>3, NewPar
    <3>5. table[cursor].kind = ops[cursor].kind
      BY <1>1, <2>1, <3>2 DEF OpsFit
    <3>6. ASSUME NEW p \in OpIds PROVE table[p].in = ops[p].in /\ table[p].out = ops[p].out
      BY <1>1, <3>2 DEF OpsFit, Operators
    <3> HIDE DEF table
    <3>7. QED
      BY <1>1, <1>3, <2>1, <2>2, <3>1, <3>4, <3>5, <3>6, BypassedEdges
  <2>3. QED
    BY <1>4, <1>12, <2>2 DEF MergeSelect, Pass
<1>13. CASE MergeProject \/ ComparePair \/ EndRow \/ EndLevel
  <2>1. step \in {"projects", "share"}
    BY <1>13 DEF MergeProject, At, ComparePair, EndRow, EndLevel
  <2>2. QED
    BY <1>2, <2>1 DEF Unshared
<1>14. QED
  BY <1>4, <1>5, <1>6, <1>7, <1>8, <1>9, <1>10, <1>11, <1>12, <1>13
  DEF Next, planVars, Load, Translate, Rewrite, AddQuery, MapView, Optimize, TranslateSource,
      Translated, NextPass, Ended, net
-----------------------------------------------------------------------------
(* The head of the list.                                                      *)
HeadFits == ops[Head(used)].kind \in Ends

(* Taking out an operator leaves an operator that nobody reads at the head of the list. *)
LEMMA BypassedHead ==
  ASSUME NetFits, HeadFits, NEW table, OpsFit(table), cursor \in ToSet(used), Bypass(table),
         ops[cursor].kind \in Through, table[Head(used)].kind = ops[Head(used)].kind
  PROVE  HeadFits'
<1>1. used \in Seq(OpIds) /\ used # <<>> /\ Head(used) \in OpIds /\ cursor \in OpIds
  BY LastInUse, InUse DEF NetFits, PoolFits
<1>2. cursor # Head(used) /\ cursor # 1
  BY SMTT(40) DEF HeadFits, Ends, Through, NetFits, OpsFit
<1>3. CASE ops' = Spliced(table, cursor) /\ FreeOp(cursor)
  <2>1. Head(used') = Head(used)
    BY <1>2, <1>3, FreeOpPool, SMTT(40) DEF NetFits
  <2>2. ops'[Head(used)].kind = table[Head(used)].kind
    <3>1. table[Head(used)] \in Operators
      BY <1>1 DEF OpsFit
    <3>2. QED
      BY <1>1, <1>3, <3>1 DEF Spliced, Operators
  <2>3. QED
    BY <2>1, <2>2, SMTT(40) DEF HeadFits
<1>4. CASE UNCHANGED net
  BY <1>4 DEF net, HeadFits
<1>5. QED
  BY <1>3, <1>4 DEF Bypass

(* mergeOperators never takes an end of the list out.                         *)
LEMMA SharedHead ==
  ASSUME NetFits, HeadFits, NEW a \in OpIds, NEW b \in OpIds, a # b,
         ops[b].kind \notin NeverShared, Merge(a, b), step # "nullNeighbour"
  PROVE  HeadFits' /\ step' # "nullNeighbour"
<1>1. used \in Seq(OpIds) /\ used # <<>> /\ Head(used) \in OpIds /\ Last(used) = 1
  BY LastInUse, InUse DEF NetFits, PoolFits
<1>2. b # Head(used) /\ b # Last(used)
  BY <1>1 DEF HeadFits, Ends, NeverShared, NetFits, OpsFit
<1>3. step' # "nullNeighbour"
  BY <1>2 DEF Merge, BetweenOthers
<1>4. used' \in {used, Without(used, b)}
  BY DEF Merge, net
<1>5. Head(used') = Head(used)
  BY <1>1, <1>2, <1>4, WithoutEnds
<1>6. ops'[Head(used)].kind = ops[Head(used)].kind
  <2>1. ops[Head(used)] \in Operators /\ ops[a] \in Operators /\ ops \in [OpIds -> Operators]
    BY <1>1 DEF NetFits, OpsFit
  <2>2. ops' \in {ops, [ops EXCEPT ![a].cls = Lowest(a, b)], Merged(a, b)}
    BY DEF Merge, net
  <2>3. CASE ops' = [ops EXCEPT ![a].cls = Lowest(a, b)]
    BY <1>1, <2>1, <2>3 DEF Operators
  <2>4. CASE ops' = Merged(a, b)
    BY <1>1, <2>1, <2>4 DEF Merged, Operators
  <2>5. QED
    BY <2>2, <2>3, <2>4
<1>7. QED
  BY <1>3, <1>5, <1>6 DEF HeadFits

(* The newest operator is read by nobody.                                     *)
LEMMA HeadUnread ==
  ASSUME NetFits, NetWired
  PROVE  ops[Head(used)].out = <<>>
<1> DEFINE h == Head(used)
<1>1. used \in Seq(OpIds) /\ h \in OpIds /\ h \in ToSet(used) /\ h = used[1] /\ 1 \in DOMAIN used
  BY LastInUse, InUse DEF NetFits, PoolFits
<1>2. ops[h].out \in Seq(OpIds)
  BY <1>1, Fields DEF NetFits, OpsFit
<1> HIDE DEF h
<1>3. ASSUME NEW r \in ToSet(ops[h].out) PROVE FALSE
  <2>1. r \in ToSet(used) /\ r \in OpIds
    BY <1>1, InUse DEF NetWired, Wired
  <2>2. ops[r].in \in Seq(OpIds)
    BY <2>1, Fields DEF NetFits, OpsFit
  <2>3. Times(ops[h].out, r) # 0
    BY <1>2, TimesType
  <2>4. Times(ops[r].in, h) # 0
    BY <1>1, <2>1, <2>3 DEF NetWired, Wired
  <2>5. h \in ToSet(ops[r].in)
    BY <2>2, <2>4, TimesType
  <2>6. PICK k \in DOMAIN used : used[k] = r
    BY <2>1 DEF ToSet
  <2>7. k < 1
    BY <1>1, <2>5, <2>6 DEF NetWired, InOrder
  <2>8. k \in 1..Len(used)
    BY <1>1, <2>6
  <2>9. QED
    BY <2>7, <2>8
<1>4. ops[h].out = <<>>
  <2>1. ops[h].out # <<>> => Head(ops[h].out) \in ToSet(ops[h].out)
    BY <1>2, TailOf
  <2>2. QED
    BY <1>3, <2>1
<1>5. QED
  BY <1>4 DEF h

(* Every step leaves at the head of the list what nobody reads, so a neighbour is found. *)
LEMMA HeadStep ==
  ASSUME IInv, [Next]_planVars
  PROVE  HeadInv' /\ step' # "nullNeighbour"
<1>1. /\ NetFits /\ TypeOK /\ HeadInv /\ step # "nullNeighbour" /\ OpsFit(ops)
      /\ used \in Seq(OpIds) /\ used # <<>> /\ Head(used) \in OpIds /\ Head(used) \in ToSet(used)
      /\ PoolFits(used, free)
  BY NetOfInv, LastInUse, InUse DEF IInv, NetFits, PoolFits, ShareInv
<1>2. CASE UNCHANGED <<net, step, cursor>>
  BY <1>1, <1>2 DEF net, HeadInv
<1>3. CASE step' \notin {"sinks", "selects", "share", "projects", "done", "nullNeighbour"}
  BY <1>3 DEF HeadInv
<1>4. CASE Load \/ Optimize \/ Translate
  BY <1>3, <1>4
  DEF Load, Optimize, Translate, AddBaseTable, AddQuery, MapView, TranslateSource, TranslateSelect,
      TranslateOperator, Translated, MakeQuerySource, MakeOutput, CannotMake
<1>5. CASE NextPass
  <2>1. UNCHANGED net /\ cursor = 0 /\ cursor # Head(used)
    BY <1>1, <1>5 DEF NextPass, OpIds
  <2>2. CASE step = "unsource"
    BY <1>5, <2>1, <2>2 DEF NextPass, HeadInv, net
  <2>3. CASE step \in {"sinks", "selects", "projects"}
    BY <1>1, <1>5, <2>1, <2>3 DEF NextPass, HeadInv, net
  <2>4. QED
    BY <1>5, <2>2, <2>3 DEF NextPass
<1>6. CASE RemoveQuerySource
  BY <1>3, <1>6 DEF RemoveQuerySource, At, Bypass, Pass, Leave
<1>7. CASE AddSink
  <2>1. step = "sinks" /\ cursor \in ToSet(used) /\ cursor # 0
    BY <1>7 DEF AddSink, At, IInv, PlacesInv, Passes
  <2>2. After(cursor) \in {0} \cup (ToSet(used) \ {cursor})
    BY <1>1, <2>1, AfterType DEF PoolFits
  <2>3. CASE CanMake(<<cursor>>) /\ TakeOp /\ Leave
             /\ ops' = WithReader(Head(free), "sink", <<>>, <<cursor>>)
    <3>1. Head(used') = Head(free) /\ Head(free) \in OpIds
      BY <1>1, <2>3, TakeOpPool DEF CanMake
    <3>2. ops'[Head(free)].kind = "sink"
      BY <2>3, <3>1 DEF WithReader, NewOp
    <3>3. step' = "sinks"
      BY <2>1, <2>3 DEF Leave
    <3>4. QED
      BY <3>1, <3>2, <3>3 DEF HeadInv, Ends
  <2>4. CASE step' \in {"nullOp", "failed"}
    BY <1>3, <2>4
  <2>5. CASE ~Unread(cursor) /\ Pass
    <3>1. ops[Head(used)].kind \in Ends
      <4>1. CASE cursor = Head(used)
        <5>1. NetWired
          BY <2>1 DEF IInv, NetInv, Unshared, EdgesAgree, NewerFirst, NetWired, Wired, InOrder
        <5>2. QED
          BY <1>1, <2>5, <4>1, <5>1, HeadUnread DEF Unread, Ends
      <4>2. CASE cursor # Head(used)
        BY <1>1, <2>1, <4>2 DEF HeadInv
      <4>3. QED
        BY <4>1, <4>2
    <3>2. UNCHANGED net /\ step' = "sinks"
      BY <2>1, <2>5 DEF Pass, Leave
    <3>3. QED
      BY <3>1, <3>2 DEF net, HeadInv
  <2>6. QED
    BY <1>7, <2>3, <2>4, <2>5 DEF AddSink, CannotMake
<1>8. ASSUME NEW table, step \in {"selects", "projects"}, OpsFit(table), cursor \in ToSet(used), Bypass(table),
             ops[cursor].kind \in Through, table[Head(used)].kind = ops[Head(used)].kind
      PROVE  HeadInv' /\ step' # "nullNeighbour"
  <2>1. HeadFits
    BY <1>1, <1>8 DEF HeadInv, HeadFits
  <2>2. HeadFits'
    BY <1>1, <1>8, <2>1, BypassedHead
  <2>3. step' # "nullNeighbour"
    BY <1>8 DEF Bypass, Leave
  <2>4. QED
    BY <2>2, <2>3 DEF HeadInv, HeadFits
<1>9. ASSUME step \in {"selects", "projects"}, Pass
      PROVE  HeadInv' /\ step' # "nullNeighbour"
  BY <1>1, <1>9 DEF Pass, Leave, net, HeadInv
<1>10. CASE MergeSelect
  <2> DEFINE table == [ops EXCEPT ![Below].par = ops[Below].par \o ops[cursor].par]
  <2>1. cursor \in ToSet(used) /\ cursor \in OpIds /\ step = "selects"
    BY <1>1, <1>10, InUse DEF MergeSelect, At, IInv, PlacesInv, Passes, PoolFits
  <2>2. CASE MergesSelect /\ Bypass(table)
    <3>1. ops[cursor].kind = "select" /\ "select" \in Through
      BY <2>2 DEF MergesSelect, Through
    <3>2. Below \in OpIds
      BY <1>1, <2>1, <3>1, Fields DEF Below, OpsFit
    <3>3. ops[Below].par \o ops[cursor].par \in Seq(Nat)
      BY <1>1, <2>1, <3>2, Fields DEF OpsFit
    <3>4. OpsFit(table)
      BY <1>1, <3>2, <3>3, NewPar
    <3>5. table[Head(used)].kind = ops[Head(used)].kind
      BY <1>1, <2>1, <3>2 DEF OpsFit
    <3> HIDE DEF table
    <3>6. QED
      BY <1>8, <2>1, <2>2, <3>1, <3>4, <3>5
  <2>3. QED
    BY <1>9, <1>10, <2>1, <2>2 DEF MergeSelect
<1>11. CASE MergeProject
  <2> DEFINE table == [ops EXCEPT ![Below].kind = "joinproject",
                                  ![Below].par = ops[Below].par \o ops[cursor].par]
  <2>1. cursor \in ToSet(used) /\ cursor \in OpIds /\ step = "projects"
    BY <1>1, <1>11, InUse DEF MergeProject, At, IInv, PlacesInv, Passes, PoolFits
  <2>2. CASE MergesProject /\ Bypass(table)
    <3>1. ops[cursor].kind = "project" /\ "project" \in Through /\ ops[Below].kind = "join"
      BY <2>2 DEF MergesProject, Through
    <3>2. Below \in OpIds
      BY <1>1, <2>1, <3>1, Fields DEF Below, OpsFit
    <3>3. ops[Below].par \o ops[cursor].par \in Seq(Nat)
      BY <1>1, <2>1, <3>2, Fields DEF OpsFit
    <3>4. OpsFit(table)
      BY <1>1, <3>1, <3>2, <3>3, Altered DEF Kinds, Through
    <3>5. Below # Head(used)
      BY <1>1, <2>1, <3>1 DEF HeadInv, Ends
    <3>6. table[Head(used)].kind = ops[Head(used)].kind
      BY <1>1, <3>2, <3>5 DEF OpsFit
    <3> HIDE DEF table
    <3>7. QED
      BY <1>8, <2>1, <2>2, <3>1, <3>4, <3>6
  <2>3. QED
    BY <1>9, <1>11, <2>1, <2>2 DEF MergeProject
<1>12. CASE ComparePair
  <2>1. step = "share" /\ HeadFits
    BY <1>1, <1>12 DEF ComparePair, HeadInv, HeadFits
  <2>2. PICK a \in OpIds, b \in OpIds :
           /\ a # b
           /\ \/ ops[b].kind \notin NeverShared /\ Merge(a, b)
              \/ UNCHANGED net /\ step' # "nullNeighbour"
    BY <1>12, PairOf
  <2>3. HeadFits' /\ step' # "nullNeighbour"
    <3>1. CASE UNCHANGED net /\ step' # "nullNeighbour"
      BY <2>1, <3>1 DEF HeadFits, net
    <3>2. QED
      BY <1>1, <2>1, <2>2, <3>1, SharedHead
  <2>4. QED
    BY <2>3 DEF HeadInv, HeadFits
<1>13. CASE EndRow \/ EndLevel
  BY <1>1, <1>13 DEF EndRow, EndLevel, HeadInv, net
<1>14. CASE UNCHANGED planVars
  BY <1>2, <1>14 DEF planVars
<1>15. QED
  BY <1>4, <1>5, <1>6, <1>7, <1>10, <1>11, <1>12, <1>13, <1>14 DEF Next, Rewrite, Ended
-----------------------------------------------------------------------------
(* What the tables name is in use.                                            *)
Building == {"idle", "translate", "qsrc", "output"}

(* What is in a list with one entry more: what was in it, or the entry. *)
LEMMA AppendedSource ==
  ASSUME NEW S, NEW s \in Seq(S), NEW e \in S
  PROVE  \A k \in DOMAIN Append(s, e) : (k \in DOMAIN s /\ Append(s, e)[k] = s[k]) \/ Append(s, e)[k] = e
BY SMTT(40)

(* Until the passes begin, the maps and the stack hold operators in use. *)
LEMMA RegisteredStep ==
  ASSUME IInv, [Next]_planVars
  PROVE  RegisteredInv'
<1>1. SUFFICES ASSUME step' \in Building PROVE RegisteredInv'
  BY SMTT(40) DEF RegisteredInv, Building
<1>2. step \in Building
  BY <1>1
  DEF Next, Load, Translate, Rewrite, AddBaseTable, AddQuery, MapView, Optimize, TranslateSource,
      TranslateSelect, TranslateOperator, Translated, MakeQuerySource, MakeOutput, NextPass,
      RemoveQuerySource, AddSink, MergeSelect, MergeProject, ComparePair, Merge, EndRow, EndLevel, Bypass,
      Pass, Leave, At, CannotMake, Ended, Over, planVars, Building, Broken
<1>3. /\ ToSet(built) \cup ToSet(queryOutOps) \subseteq ToSet(used)
      /\ \A k \in DOMAIN sourceOps : sourceOps[k].op \in ToSet(used)
      /\ TypeOK /\ PoolFits(used, free) /\ GenInv
  BY <1>2, NetOfInv DEF IInv, RegisteredInv, Building, NetFits
<1>4. 1 \in ToSet(used)
  BY <1>3, LastInUse DEF PoolFits
<1>5. ASSUME ~PoolEmpties, TakeOp
      PROVE  ToSet(used') = ToSet(used) \cup {Head(free)} /\ Head(free) \in OpIds
  BY <1>3, <1>5, TakeOpPool
<1>6. CASE UNCHANGED <<maps, built, used>>
  BY <1>3, <1>6 DEF maps, RegisteredInv
<1>7. CASE AddBaseTable
  <2>1. CASE CanMake(<<>>) /\ TakeOp /\ sourceOps' = Append(sourceOps, [table |-> NextTable, op |-> Head(free)])
             /\ UNCHANGED <<queryOutOps, built>>
    <3> DEFINE e == [table |-> NextTable, op |-> Head(free)]
    <3>1. ToSet(used') = ToSet(used) \cup {Head(free)} /\ Head(free) \in OpIds /\ e.op = Head(free)
      BY <1>5, <2>1 DEF CanMake
    <3>2. sourceOps \in Seq([table : Nat, op : OpIds]) /\ e \in [table : Nat, op : OpIds]
      BY <1>3, <3>1 DEF TypeOK, NextTable, IInv, MapsInv
    <3> HIDE DEF e
    <3>3. \A k \in DOMAIN sourceOps' : sourceOps'[k].op \in ToSet(used')
      BY <1>3, <2>1, <3>1, <3>2, AppendedSource DEF e
    <3>4. QED
      BY <1>3, <2>1, <3>1, <3>3 DEF RegisteredInv
  <2>2. QED
    BY <1>6, <1>7, <2>1 DEF AddBaseTable, CannotMake, net, gen
<1>8. CASE MapView
  <2>1. CASE sourceOps' = Append(sourceOps, [table |-> NextTable, op |-> Last(queryOutOps)])
             /\ UNCHANGED <<queryOutOps, built, used>>
    <3> DEFINE e == [table |-> NextTable, op |-> Last(queryOutOps)]
    <3>1. queryOutOps \in Seq(OpIds) /\ queryOutOps # <<>>
      BY <1>3, <1>8 DEF MapView, TypeOK
    <3>2. Last(queryOutOps) \in ToSet(used) /\ Last(queryOutOps) \in OpIds /\ e.op = Last(queryOutOps)
      BY <1>3, <3>1, LastInUse, InUse
    <3>3. sourceOps \in Seq([table : Nat, op : OpIds]) /\ e \in [table : Nat, op : OpIds]
      BY <1>3, <3>2 DEF TypeOK, NextTable, IInv, MapsInv
    <3> HIDE DEF e
    <3>4. \A k \in DOMAIN sourceOps' : sourceOps'[k].op \in ToSet(used')
      BY <1>3, <2>1, <3>2, <3>3, AppendedSource DEF e
    <3>5. QED
      BY <1>3, <2>1, <3>4 DEF RegisteredInv
  <2>2. QED
    BY <1>6, <1>8, <2>1 DEF MapView, net, gen
<1>9. ASSUME NEW q \in Queries, AddQuery(q)
      PROVE  RegisteredInv'
  BY <1>3, <1>9 DEF AddQuery, RegisteredInv, net, maps, ToSet
<1>10. CASE TranslateSource
  <2> DEFINE o == Producer(Head(todo).par[1])
  <2>1. o \in ToSet(used) /\ o \in OpIds
    BY <1>3, <1>4, ProducerType, InUse DEF TypeOK, PoolFits
  <2>2. built' = Append(built, o) /\ built \in Seq(OpIds) /\ UNCHANGED <<maps, used>>
    BY <1>3, <1>10 DEF TranslateSource, TypeOK, net
  <2> HIDE DEF o
  <2>3. ToSet(built') = ToSet(built) \cup {o}
    BY <2>1, <2>2, AppendType
  <2>4. QED
    BY <1>3, <2>1, <2>2, <2>3 DEF RegisteredInv, maps
<1>11. CASE TranslateOperator
  <2>1. CASE CanMake(Inputs) /\ TakeOp /\ built' = Append(Others, Head(free)) /\ UNCHANGED maps
    <3>1. Others \in Seq(OpIds) /\ ToSet(Others) \subseteq ToSet(built)
      BY <1>3, <1>11, ItemFits DEF TranslateOperator
    <3>2. ToSet(used') = ToSet(used) \cup {Head(free)} /\ Head(free) \in OpIds
      BY <1>5, <2>1 DEF CanMake
    <3>3. ToSet(built') = ToSet(Others) \cup {Head(free)}
      BY <2>1, <3>1, <3>2, AppendType
    <3>4. QED
      BY <1>3, <2>1, <3>1, <3>2, <3>3 DEF RegisteredInv, maps
  <2>2. QED
    BY <1>6, <1>11, <2>1 DEF TranslateOperator, CannotMake, net, gen
<1>12. CASE MakeQuerySource
  <2>1. CASE CanMake(built) /\ TakeOp /\ queryOutOps' = Append(queryOutOps, Head(free)) /\ UNCHANGED <<sourceOps, built>>
    <3>1. ToSet(used') = ToSet(used) \cup {Head(free)} /\ Head(free) \in OpIds
      BY <1>5, <2>1 DEF CanMake
    <3>2. ToSet(queryOutOps') = ToSet(queryOutOps) \cup {Head(free)}
      BY <1>3, <2>1, <3>1, AppendType, SMTT(40) DEF TypeOK
    <3>3. QED
      BY <1>3, <2>1, <3>1, <3>2 DEF RegisteredInv
  <2>2. QED
    BY <1>6, <1>12, <2>1 DEF MakeQuerySource, CannotMake, net, gen
<1>13. CASE MakeOutput
  <2>1. CASE CanMake(built) /\ TakeOp /\ UNCHANGED <<maps, built>>
    <3>1. ToSet(used') = ToSet(used) \cup {Head(free)}
      BY <1>5, <2>1 DEF CanMake
    <3>2. QED
      BY <1>3, <2>1, <3>1 DEF RegisteredInv, maps
  <2>2. QED
    BY <1>6, <1>13, <2>1 DEF MakeOutput, CannotMake, net, gen
<1>14. CASE TranslateSelect \/ Translated
  BY <1>6, <1>14 DEF TranslateSelect, Translated, net, gen
<1>15. CASE Optimize \/ Rewrite \/ Ended
  <2>1. step' \notin Building \/ UNCHANGED planVars
    BY <1>2, <1>15
    DEF Optimize, Rewrite, NextPass, RemoveQuerySource, AddSink, MergeSelect, MergeProject, ComparePair,
        Merge, EndRow, EndLevel, Bypass, Pass, Leave, At, CannotMake, Ended, Building
  <2>2. QED
    BY <1>1, <1>6, <2>1 DEF planVars, net, gen
<1>16. CASE UNCHANGED planVars
  BY <1>6, <1>16 DEF planVars, net, gen
<1>17. QED
  BY <1>7, <1>8, <1>9, <1>10, <1>11, <1>12, <1>13, <1>14, <1>15, <1>16 DEF Next, Load, Translate
-----------------------------------------------------------------------------
(* The invariant holds.                                                       *)
LEMMA InitHolds == Init => IInv
<1> SUFFICES ASSUME Init PROVE IInv
  OBVIOUS
<1> DEFINE n == MaxOps - 1
<1>1. MaxOps \in Nat /\ n \in Nat /\ OpIds = 1..(n + 1) /\ 1 \in OpIds
  BY PlanConstants DEF OpIds
<1>2. /\ free = [k \in 1..n |-> k + 1] /\ used = <<1>>
      /\ ops = [o \in OpIds |-> IF o = 1 THEN [Blank EXCEPT !.kind = "ssgen", !.cls = 1] ELSE Blank]
  BY DEF Init
<1>3. Blank \in Operators /\ [Blank EXCEPT !.kind = "ssgen", !.cls = 1] \in Operators
  <2>1. <<>> \in Seq(Nat) /\ <<>> \in Seq(OpIds) /\ {"sink", "ssgen"} \subseteq Kinds
    BY DEF Kinds
  <2>2. Blank \in Operators
    BY <2>1 DEF Operators, Blank
  <2>3. QED
    BY <2>1, <2>2 DEF Operators
<1>4. OpsFit(ops)
  BY <1>1, <1>2, <1>3 DEF OpsFit, Blank, Through
<1> HIDE DEF n
<1>5. PoolFits(used, free)
  <2>1. free \in Seq(OpIds) /\ Len(free) = n /\ DOMAIN free = 1..n /\ \A k \in 1..n : free[k] = k + 1
    BY <1>1, <1>2
  <2>2. IsInjective(free) /\ 1 \notin ToSet(free)
    BY <1>1, <2>1 DEF IsInjective, ToSet
  <2>3. <<1>> \in Seq(OpIds) /\ IsInjective(<<1>>) /\ ToSet(<<1>>) = {1} /\ <<1>> # <<>> /\ Last(<<1>>) = 1
    BY <1>1 DEF IsInjective, ToSet, Last
  <2>4. QED
    BY <1>2, <2>1, <2>2, <2>3 DEF PoolFits
<1>6. TypeOK
  <2>1. sourceOps \in Seq([table : Nat, op : OpIds])
    <3>1. [table |-> SS_ID, op |-> 1] \in [table : Nat, op : OpIds]
      BY <1>1 DEF SS_ID
    <3>2. QED
      BY <3>1 DEF Init
  <2>2. Len(meaning) <= MaxOutputs
    BY PlanConstants DEF Init
  <2>3. QED
    BY <1>4, <1>5, <2>1, <2>2 DEF Init, TypeOK, OpsFit, PoolFits, Steps
<1>7. PoolInv /\ InputsFit
  BY <1>4, <1>5, <1>6, NetOfInv DEF NetFits
<1>8. GenInv /\ PlacesInv /\ MapsInv /\ HeadInv /\ ShareInv /\ RegisteredInv
  <2>1. IsInjective(<<>>) /\ ToSet(<<>>) = {} /\ ToSet(<<1>>) = {1}
    BY DEF IsInjective, ToSet
  <2>2. QED
    BY <2>1 DEF Init, GenInv, PlacesInv, MapsInv, HeadInv, ShareInv, RegisteredInv, Passes
<1>9. NetInv
  <2>1. ToSet(used) = {1} /\ DOMAIN used = {1} /\ ToSet(<<>>) = {}
    BY <1>2 DEF ToSet
  <2>2. ops[1].in = <<>> /\ ops[1].out = <<>> /\ used[1] = 1
    BY <1>1, <1>2 DEF Blank
  <2>3. QED
    BY <2>1, <2>2 DEF NetInv, EdgesAgree, NewerFirst
<1>10. QED
  BY <1>6, <1>7, <1>8, <1>9 DEF IInv

(* Every call and every pass keeps the invariant. *)
LEMMA InductiveStep == IInv /\ [Next]_planVars => IInv'
<1> SUFFICES ASSUME IInv, [Next]_planVars PROVE IInv'
  OBVIOUS
<1>1. NetFits' /\ GenType' /\ GenInv' /\ MapsType' /\ MapsInv'
  BY NetStep, GenStep, MapsStep
<1>2. PlacesType' /\ PlacesInv' /\ IsInjective(level')
  BY PlacesStep
<1>3. HeadInv' /\ step' # "nullNeighbour" /\ RegisteredInv'
  BY HeadStep, RegisteredStep
<1>4. TypeOK' /\ PoolInv' /\ InputsFit'
  BY <1>1, <1>2 DEF NetFits, OpsFit, PoolFits, GenType, MapsType, PlacesType, TypeOK, PoolInv, InputsFit
<1>5. NetInv'
  <2>1. CASE UNCHANGED planVars
    BY <2>1 DEF IInv, planVars, net, NetInv, EdgesAgree, NewerFirst
  <2>2. CASE Next
    BY <2>2, NetWiredStep DEF NetInv, NetWired, EdgesAgree, NewerFirst, Wired, InOrder
  <2>3. QED
    BY <2>1, <2>2
<1>6. QED
  BY <1>1, <1>2, <1>3, <1>4, <1>5 DEF IInv, ShareInv

(* The invariant that carries the others.                                     *)
THEOREM Invariance == Spec => []IInv
<1>1. Init => IInv
  BY InitHolds
<1>2. IInv /\ [Next]_planVars => IInv'
  BY InductiveStep
<1>3. QED
  BY <1>1, <1>2, PTL DEF Spec

(* Every array, list and vector of the plan manager holds what it is for,     *)
(* whatever is loaded and rewritten.                                         *)
THEOREM TypeCorrect == Spec => []TypeOK
<1>1. IInv => TypeOK
  BY DEF IInv
<1>2. QED
  BY <1>1, Invariance, PTL

(* mergeOperators relinks the list through both neighbours of an operator:    *)
(* it has two.                                                               *)
THEOREM MergeHasNeighbours == Spec => []UnlinksSafely
<1>1. IInv => UnlinksSafely
  BY DEF IInv, ShareInv, UnlinksSafely
<1>2. QED
  BY <1>1, Invariance, PTL

(* While the network is built and until operators are shared, it is the same  *)
(* seen from both ends, and whoever reads is newer than what is read: there  *)
(* is no cycle.                                                              *)
THEOREM BuiltNetworkAgrees == Spec => [](step \in Unshared => EdgesAgree /\ NewerFirst)
<1>1. IInv => (step \in Unshared => EdgesAgree /\ NewerFirst)
  BY DEF IInv, NetInv
<1>2. QED
  BY <1>1, Invariance, PTL

-----------------------------------------------------------------------------
(* What operators compute.  Computes, Compared and Upstream are recursive      *)
(* functions over the network.  They have a value because the network has no  *)
(* cycle: each is built up from the operators that read nothing.             *)

Ranked(table, r) ==
  \A o \in OpIds : \A k \in DOMAIN table[o].in : r[table[o].in[k]] < r[o]

(* Whoever reads is higher than what is read. *)
Acyclic(table) == \E n \in Nat : \E r \in [OpIds -> 0..n] : Ranked(table, r)

(* Computes, for any table of operators. *)
Means(kind, par, below) ==
  CASE kind \in {"qsrc", "output", "sink"} -> below[1]
    [] kind = "select" /\ below[1].kind \in {"select", "join"} ->
         Term(below[1].kind, below[1].par \cup ToSet(par), below[1].in)
    [] kind = "joinproject" ->
         Term("project", {Last(par)}, <<Term("join", ToSet(Front(par)), below)>>)
    [] OTHER -> Term(kind, ToSet(par), below)

BelowOf(table, g, o)  == [k \in DOMAIN table[o].in |-> g[table[o].in[k]]]
MeansOf(table, g, o)  == Means(table[o].kind, table[o].par, BelowOf(table, g, o))
IsMeaning(table, g)   == g = [o \in OpIds |-> MeansOf(table, g, o)]
Meaning(table)        == CHOOSE g : IsMeaning(table, g)

(* Operators that read only one another, and a function that is right for them. *)
Closed(table, S)   == \A o \in S : \A k \in DOMAIN table[o].in : table[o].in[k] \in S
Right(table, f, S) == \A o \in S : f[o] = MeansOf(table, f, o)

(* What an operator reads from is in the pool. *)
LEMMA InputInPool ==
  ASSUME NEW table, OpsFit(table), NEW o \in OpIds
  PROVE  /\ table[o].in \in Seq(OpIds) /\ Len(table[o].in) \in Nat
         /\ DOMAIN table[o].in = 1..Len(table[o].in)
         /\ \A k \in DOMAIN table[o].in : table[o].in[k] \in OpIds
<1>1. table[o].in \in Seq(OpIds)
  BY Fields DEF OpsFit
<1>2. QED
  BY <1>1

(* The functions agree where they agree on what is read. *)
LEMMA SameBelow ==
  ASSUME NEW table, NEW o, NEW f, NEW g,
         \A k \in DOMAIN table[o].in : f[table[o].in[k]] = g[table[o].in[k]]
  PROVE  BelowOf(table, f, o) = BelowOf(table, g, o) /\ MeansOf(table, f, o) = MeansOf(table, g, o)
<1>1. BelowOf(table, f, o) = BelowOf(table, g, o)
  BY DEF BelowOf
<1>2. QED
  BY <1>1 DEF MeansOf

(* In a network without cycles every operator computes something. *)
LEMMA MeaningExists ==
  ASSUME NEW table, OpsFit(table), Acyclic(table)
  PROVE  IsMeaning(table, Meaning(table))
<1>0. PICK n \in Nat : \E r \in [OpIds -> 0..n] : Ranked(table, r)
  BY DEF Acyclic
<1>1. PICK r \in [OpIds -> 0..n] : Ranked(table, r)
  BY <1>0
<1> DEFINE Upto(g, m) == \A o \in OpIds : r[o] < m => g[o] = MeansOf(table, g, o)
           T == {m \in Nat : \E g : Upto(g, m)}
<1>2. \A o \in OpIds : r[o] \in Nat /\ r[o] <= n
  OBVIOUS
<1>3. 0 \in T
  BY <1>2
<1>4. ASSUME NEW m \in Nat, m \in T PROVE m + 1 \in T
  <2>1. PICK g : Upto(g, m)
    BY <1>4
  <2> DEFINE h == [o \in OpIds |-> IF r[o] < m THEN g[o] ELSE MeansOf(table, g, o)]
  <2>2. ASSUME NEW o \in OpIds, r[o] < m + 1 PROVE h[o] = MeansOf(table, h, o)
    <3>1. h[o] = MeansOf(table, g, o)
      BY <2>1
    <3>2. ASSUME NEW k \in DOMAIN table[o].in PROVE g[table[o].in[k]] = h[table[o].in[k]]
      <4>1. table[o].in[k] \in OpIds
        BY InputInPool
      <4>2. r[table[o].in[k]] < r[o]
        BY <1>1 DEF Ranked
      <4>3. r[table[o].in[k]] < m
        BY <1>2, <2>2, <4>1, <4>2
      <4>4. QED
        BY <4>1, <4>3
    <3> HIDE DEF h
    <3>3. QED
      BY <3>1, <3>2, SameBelow
  <2> HIDE DEF h
  <2>3. Upto(h, m + 1)
    BY <2>2
  <2> HIDE DEF Upto
  <2>4. QED
    BY <2>3
<1> HIDE DEF T
<1>5. n + 1 \in T
  BY <1>3, <1>4, InductiveSet
<1>6. PICK g : Upto(g, n + 1)
  BY <1>5 DEF T
<1>7. \A o \in OpIds : g[o] = MeansOf(table, g, o)
  BY <1>2, <1>6
<1> DEFINE f == [o \in OpIds |-> g[o]]
<1>8. ASSUME NEW o \in OpIds PROVE f[o] = MeansOf(table, f, o)
  <2>1. \A k \in DOMAIN table[o].in : f[table[o].in[k]] = g[table[o].in[k]]
    BY InputInPool
  <2> HIDE DEF f
  <2>2. MeansOf(table, f, o) = MeansOf(table, g, o)
    BY <2>1, SameBelow
  <2>3. QED
    BY <1>7, <2>2 DEF f
<1>9. f = [o \in OpIds |-> f[o]]
  OBVIOUS
<1> HIDE DEF f
<1>10. IsMeaning(table, f)
  BY <1>8, <1>9 DEF IsMeaning
<1>11. QED
  BY <1>10 DEF Meaning

(* What some operators compute that read only one another is determined by    *)
(* them alone.                                                               *)
LEMMA MeaningAgrees ==
  ASSUME NEW table, OpsFit(table), Acyclic(table), NEW S \in SUBSET OpIds, NEW f,
         Closed(table, S), Right(table, f, S)
  PROVE  \A o \in S : Meaning(table)[o] = f[o]
<1>0. PICK n \in Nat : \E r \in [OpIds -> 0..n] : Ranked(table, r)
  BY DEF Acyclic
<1>1. PICK r \in [OpIds -> 0..n] : Ranked(table, r)
  BY <1>0
<1>2. \A o \in OpIds : r[o] \in Nat /\ r[o] <= n
  OBVIOUS
<1> DEFINE g == Meaning(table)
           T == {m \in Nat : \A o \in S : r[o] < m => g[o] = f[o]}
<1>3. \A o \in OpIds : g[o] = MeansOf(table, g, o)
  BY MeaningExists DEF IsMeaning
<1> HIDE DEF g
<1>4. 0 \in T
  BY <1>2
<1>5. ASSUME NEW m \in Nat, m \in T PROVE m + 1 \in T
  <2>1. ASSUME NEW o \in S, r[o] < m + 1 PROVE g[o] = f[o]
    <3>1. ASSUME NEW k \in DOMAIN table[o].in PROVE g[table[o].in[k]] = f[table[o].in[k]]
      <4>1. table[o].in[k] \in S
        BY DEF Closed
      <4>2. r[table[o].in[k]] < r[o]
        BY <1>1 DEF Ranked
      <4>3. r[table[o].in[k]] < m
        BY <1>2, <2>1, <4>1, <4>2
      <4>4. QED
        BY <1>5, <4>1, <4>3
    <3>2. MeansOf(table, g, o) = MeansOf(table, f, o)
      BY <3>1, SameBelow
    <3>3. QED
      BY <1>3, <3>2 DEF Right
  <2>2. QED
    BY <2>1
<1> HIDE DEF T
<1>6. n + 1 \in T
  BY <1>4, <1>5, InductiveSet
<1>7. QED
  BY <1>2, <1>6 DEF T, g

(* An operator computes the same as long as it does the same to inputs that    *)
(* compute the same.                                                         *)
LEMMA MeaningStays ==
  ASSUME NEW table, OpsFit(table), Acyclic(table), NEW new, OpsFit(new), Acyclic(new),
         NEW S \in SUBSET OpIds, Closed(new, S),
         \A o \in S : /\ new[o].kind = table[o].kind /\ new[o].par = table[o].par
                      /\ DOMAIN new[o].in = DOMAIN table[o].in
                      /\ \A k \in DOMAIN table[o].in :
                           Meaning(table)[new[o].in[k]] = Meaning(table)[table[o].in[k]]
  PROVE  \A o \in S : Meaning(new)[o] = Meaning(table)[o]
<1> DEFINE g == Meaning(table)
<1>1. \A o \in OpIds : g[o] = MeansOf(table, g, o)
  BY MeaningExists DEF IsMeaning
<1>2. \A o \in S : \A k \in DOMAIN table[o].in : g[new[o].in[k]] = g[table[o].in[k]]
  OBVIOUS
<1> HIDE DEF g
<1>3. ASSUME NEW o \in S PROVE g[o] = MeansOf(new, g, o)
  <2>1. BelowOf(new, g, o) = BelowOf(table, g, o)
    BY <1>2 DEF BelowOf
  <2>2. MeansOf(new, g, o) = MeansOf(table, g, o)
    BY <2>1 DEF MeansOf
  <2>3. QED
    BY <1>1, <2>2
<1>4. Right(new, g, S)
  BY <1>3 DEF Right
<1>5. \A o \in S : Meaning(new)[o] = g[o]
  BY <1>4, MeaningAgrees
<1>6. QED
  BY <1>5 DEF g

(* Operators that read what they did, and do the same to it. *)
LeftAlone(table, new, S) ==
  \A o \in S : new[o].kind = table[o].kind /\ new[o].par = table[o].par /\ new[o].in = table[o].in

(* Operators that are left alone, as is what they read, compute what they did. *)
LEMMA LeftAloneMeans ==
  ASSUME NEW table, OpsFit(table), Acyclic(table), NEW new, OpsFit(new), Acyclic(new),
         NEW S \in SUBSET OpIds, Closed(new, S), LeftAlone(table, new, S)
  PROVE  \A o \in S : Meaning(new)[o] = Meaning(table)[o]
<1>1. \A o \in S : /\ new[o].kind = table[o].kind /\ new[o].par = table[o].par
                   /\ DOMAIN new[o].in = DOMAIN table[o].in
                   /\ \A k \in DOMAIN table[o].in :
                        Meaning(table)[new[o].in[k]] = Meaning(table)[table[o].in[k]]
  BY DEF LeftAlone
<1>2. QED
  BY <1>1, MeaningStays

(* Computes is Meaning of the table there is. *)
LEMMA ComputesMeaning == Computes = Meaning(ops) /\ Computes' = Meaning(ops')
<1>1. Computes = Meaning(ops)
  BY DEF Computes, Meaning, IsMeaning, MeansOf, BelowOf, Means
<1>2. Computes' = Meaning(ops')
  BY DEF Computes, Meaning, IsMeaning, MeansOf, BelowOf, Means
<1>3. QED
  BY <1>1, <1>2

-----------------------------------------------------------------------------
(* Equal operators.                                                           *)

(* The height of an operator is that of the highest it reads from, and one.   *)
Tight(table, h) ==
  \A o \in OpIds : h[o] = 0 \/ \E k \in DOMAIN table[o].in : h[o] = h[table[o].in[k]] + 1

(* In a network without cycles operators have heights. *)
LEMMA HeightsExist ==
  ASSUME NEW table, OpsFit(table), Acyclic(table)
  PROVE  \E n \in Nat : \E h \in [OpIds -> 0..n] : Ranked(table, h) /\ Tight(table, h)
<1>0. PICK n \in Nat : \E r \in [OpIds -> 0..n] : Ranked(table, r)
  BY DEF Acyclic
<1>1. PICK r \in [OpIds -> 0..n] : Ranked(table, r)
  BY <1>0
<1>2. \A o \in OpIds : r[o] \in Nat /\ r[o] <= n
  OBVIOUS
<1> DEFINE in(o) == table[o].in
           OverPart(g, o) == \A k \in DOMAIN in(o) : g[in(o)[k]] < g[o]
           NextPart(g, o) == g[o] = 0 \/ \E k \in DOMAIN in(o) : g[o] = g[in(o)[k]] + 1
           Good(g, m) == \A o \in OpIds : r[o] < m => g[o] <= r[o] /\ OverPart(g, o) /\ NextPart(g, o)
           T == {m \in Nat : \E g \in [OpIds -> 0..n] : Good(g, m)}
<1>3. ASSUME NEW o \in OpIds, NEW k \in DOMAIN in(o) PROVE in(o)[k] \in OpIds /\ r[in(o)[k]] < r[o]
  BY <1>1, InputInPool DEF Ranked
<1>4. 0 \in T
  <2> DEFINE g == [o \in OpIds |-> 0]
  <2>1. g \in [OpIds -> 0..n]
    OBVIOUS
  <2> HIDE DEF g
  <2>2. Good(g, 0)
    BY <1>2
  <2>3. QED
    BY <2>1, <2>2
<1>5. ASSUME NEW m \in Nat, m \in T PROVE m + 1 \in T
  <2>1. PICK g \in [OpIds -> 0..n] : Good(g, m)
    BY <1>5
  <2>2. \A o \in OpIds : g[o] \in Nat
    OBVIOUS
  <2> DEFINE Bounds(o) == {x \in 0..r[o] : x = r[o] \/ \A k \in DOMAIN in(o) : g[in(o)[k]] < x}
             least(o) == Min(Bounds(o))
             h == [o \in OpIds |-> IF r[o] < m THEN g[o] ELSE least(o)]
  <2>3. ASSUME NEW o \in OpIds PROVE least(o) \in Bounds(o) /\ \A x \in Bounds(o) : least(o) <= x
    <3> DEFINE B == Bounds(o)
    <3>1. B \in SUBSET Nat /\ r[o] \in B
      BY <1>2
    <3> HIDE DEF B
    <3>2. Min(B) \in B /\ \A x \in B : Min(B) <= x
      BY <3>1, Least
    <3>3. QED
      BY <3>2 DEF B
  <2> HIDE DEF least
  <2>4. ASSUME NEW o \in OpIds PROVE least(o) \in Nat /\ least(o) <= r[o]
    BY <1>2, <2>3
  <2>5. h \in [OpIds -> 0..n]
    BY <1>2, <2>4
  <2>6. ASSUME NEW o \in OpIds, r[o] < m + 1 PROVE h[o] <= r[o] /\ OverPart(h, o) /\ NextPart(h, o)
    <3>1. ASSUME NEW k \in DOMAIN in(o) PROVE h[in(o)[k]] = g[in(o)[k]] /\ g[in(o)[k]] <= r[in(o)[k]]
      <4>1. r[in(o)[k]] < m /\ in(o)[k] \in OpIds
        BY <1>2, <1>3, <2>6
      <4>2. QED
        BY <2>1, <4>1
    <3>2. CASE r[o] < m
      <4>1. h[o] = g[o]
        BY <3>2
      <4>2. g[o] <= r[o] /\ OverPart(g, o) /\ NextPart(g, o)
        BY <2>1, <3>2
      <4> HIDE DEF h, in
      <4>3. QED
        BY <3>1, <4>1, <4>2
    <3>3. CASE ~(r[o] < m)
      <4>1. h[o] = least(o)
        BY <3>3
      <4>2. ASSUME NEW k \in DOMAIN in(o) PROVE g[in(o)[k]] < r[o]
        <5>1. g[in(o)[k]] <= r[in(o)[k]] /\ r[in(o)[k]] < r[o] /\ in(o)[k] \in OpIds
          BY <1>3, <3>1
        <5>2. QED
          BY <1>2, <2>2, <5>1
      <4>3. ASSUME NEW k \in DOMAIN in(o) PROVE g[in(o)[k]] < least(o)
        BY <2>3, <4>2
      <4>4. ASSUME least(o) # 0 PROVE \E k \in DOMAIN in(o) : least(o) = g[in(o)[k]] + 1
        <5>1. least(o) - 1 \in 0..r[o] /\ least(o) - 1 # r[o] /\ ~(least(o) <= least(o) - 1)
          BY <1>2, <2>4, <4>4
        <5>2. least(o) - 1 \notin Bounds(o)
          BY <2>3, <5>1
        <5>3. PICK k \in DOMAIN in(o) : ~(g[in(o)[k]] < least(o) - 1)
          BY <5>1, <5>2
        <5>4. g[in(o)[k]] \in Nat
          BY <1>3, <2>2
        <5>5. least(o) = g[in(o)[k]] + 1
          BY <2>4, <4>3, <5>3, <5>4
        <5>6. QED
          BY <5>5
      <4> HIDE DEF h, in
      <4>5. QED
        BY <2>4, <3>1, <4>1, <4>3, <4>4
    <3>4. QED
      BY <3>2, <3>3
  <2> HIDE DEF h
  <2>7. Good(h, m + 1)
    BY <2>6
  <2>8. QED
    BY <2>5, <2>7, SMTT(40)
<1> HIDE DEF T
<1>6. n + 1 \in T
  BY <1>4, <1>5, InductiveSet
<1>7. PICK g \in [OpIds -> 0..n] : Good(g, n + 1)
  BY <1>6 DEF T
<1>8. \A o \in OpIds : OverPart(g, o) /\ NextPart(g, o)
  BY <1>2, <1>7
<1>9. Ranked(table, g) /\ Tight(table, g)
  BY <1>8 DEF Ranked, Tight
<1>10. QED
  BY <1>9

(* compareOperators, for any table of operators. *)
BelowPair(g, a, b) == [k \in DOMAIN ops[a].in |-> g[<<ops[a].in[k], ops[b].in[k]>>]]
VerdictOf(g, a, b) == Verdict(a, b, BelowPair(g, a, b))
IsComparison(g)    == g = [pair \in OpIds \X OpIds |-> VerdictOf(g, pair[1], pair[2])]

(* What is said of the inputs does not matter for operators that differ.       *)
LEMMA SameVerdicts ==
  ASSUME OpsFit(ops), NEW a \in OpIds, NEW b \in OpIds, NEW f, NEW g,
         Len(ops[a].in) = Len(ops[b].in) =>
           \A k \in DOMAIN ops[a].in : f[<<ops[a].in[k], ops[b].in[k]>>] = g[<<ops[a].in[k], ops[b].in[k]>>]
  PROVE  VerdictOf(f, a, b) = VerdictOf(g, a, b)
<1>1. CASE Len(ops[a].in) = Len(ops[b].in)
  <2>1. BelowPair(f, a, b) = BelowPair(g, a, b)
    BY <1>1 DEF BelowPair
  <2>2. QED
    BY <2>1 DEF VerdictOf
<1>2. CASE Len(ops[a].in) # Len(ops[b].in)
  BY <1>2 DEF VerdictOf, Verdict
<1>3. QED
  BY <1>1, <1>2

(* In a network without cycles every two operators are compared. *)
LEMMA ComparisonExists ==
  ASSUME OpsFit(ops), Acyclic(ops)
  PROVE  \A a, b \in OpIds : Compared[<<a, b>>] = VerdictOf(Compared, a, b)
<1>0. PICK n \in Nat : \E r \in [OpIds -> 0..n] : Ranked(ops, r)
  BY DEF Acyclic
<1>1. PICK r \in [OpIds -> 0..n] : Ranked(ops, r)
  BY <1>0
<1>2. \A o \in OpIds : r[o] \in Nat /\ r[o] <= n
  OBVIOUS
<1> DEFINE Upto(g, m) == \A a, b \in OpIds : r[a] < m => g[<<a, b>>] = VerdictOf(g, a, b)
           T == {m \in Nat : \E g : Upto(g, m)}
<1>3. ASSUME NEW a \in OpIds, NEW b \in OpIds, Len(ops[a].in) = Len(ops[b].in), NEW k \in DOMAIN ops[a].in
      PROVE  ops[a].in[k] \in OpIds /\ ops[b].in[k] \in OpIds /\ r[ops[a].in[k]] < r[a]
  <2>1. DOMAIN ops[a].in = 1..Len(ops[a].in) /\ DOMAIN ops[b].in = 1..Len(ops[b].in)
    BY InputInPool
  <2>2. k \in DOMAIN ops[b].in
    BY <1>3, <2>1
  <2>3. QED
    BY <1>1, <2>2, InputInPool DEF Ranked
<1>4. 0 \in T
  BY <1>2
<1>5. ASSUME NEW m \in Nat, m \in T PROVE m + 1 \in T
  <2>1. PICK g : Upto(g, m)
    BY <1>5
  <2> DEFINE h == [p \in OpIds \X OpIds |-> IF r[p[1]] < m THEN g[p] ELSE VerdictOf(g, p[1], p[2])]
  <2>2. \A a, b \in OpIds : h[<<a, b>>] = IF r[a] < m THEN g[<<a, b>>] ELSE VerdictOf(g, a, b)
    OBVIOUS
  <2> HIDE DEF h
  <2>3. ASSUME NEW a \in OpIds, NEW b \in OpIds, r[a] < m + 1 PROVE h[<<a, b>>] = VerdictOf(h, a, b)
    <3>1. h[<<a, b>>] = VerdictOf(g, a, b)
      BY <2>1, <2>2
    <3>2. ASSUME Len(ops[a].in) = Len(ops[b].in), NEW k \in DOMAIN ops[a].in
          PROVE  g[<<ops[a].in[k], ops[b].in[k]>>] = h[<<ops[a].in[k], ops[b].in[k]>>]
      <4>1. ops[a].in[k] \in OpIds /\ ops[b].in[k] \in OpIds /\ r[ops[a].in[k]] < r[a]
        BY <1>3, <3>2
      <4>2. r[ops[a].in[k]] < m
        BY <1>2, <2>3, <4>1
      <4>3. QED
        BY <2>2, <4>1, <4>2
    <3>3. VerdictOf(g, a, b) = VerdictOf(h, a, b)
      BY <3>2, SameVerdicts
    <3>4. QED
      BY <3>1, <3>3
  <2>4. Upto(h, m + 1)
    BY <2>3
  <2> HIDE DEF Upto
  <2>5. QED
    BY <2>4
<1> HIDE DEF T
<1>6. n + 1 \in T
  BY <1>4, <1>5, InductiveSet
<1>7. PICK g : Upto(g, n + 1)
  BY <1>6 DEF T
<1>8. ASSUME NEW a \in OpIds, NEW b \in OpIds PROVE g[<<a, b>>] = VerdictOf(g, a, b)
  <2>1. r[a] < n + 1
    BY <1>2
  <2> HIDE DEF BelowPair, VerdictOf
  <2>2. QED
    BY <1>7, <2>1
<1> DEFINE f == [pair \in OpIds \X OpIds |-> g[pair]]
<1>9. \A a, b \in OpIds : f[<<a, b>>] = g[<<a, b>>]
  OBVIOUS
<1>10. \A pair \in OpIds \X OpIds : f[pair] = VerdictOf(f, pair[1], pair[2])
  <2> HIDE DEF f
  <2>1. ASSUME NEW a \in OpIds, NEW b \in OpIds PROVE f[<<a, b>>] = VerdictOf(f, a, b)
    <3>1. VerdictOf(g, a, b) = VerdictOf(f, a, b)
      BY <1>3, <1>9, SameVerdicts
    <3>2. QED
      BY <1>8, <1>9, <3>1
  <2>2. QED
    BY <2>1
<1>11. f = [pair \in OpIds \X OpIds |-> f[pair]]
  OBVIOUS
<1> HIDE DEF f
<1>12. IsComparison(f)
  BY <1>10, <1>11 DEF IsComparison
<1>13. Compared = CHOOSE c : IsComparison(c)
  BY DEF Compared, IsComparison, VerdictOf, BelowPair
<1>14. IsComparison(Compared)
  BY <1>12, <1>13
<1>15. QED
  BY <1>14 DEF IsComparison

DoSame(g, a, b) ==
  /\ ops[a].kind = ops[b].kind /\ ops[a].par = ops[b].par
  /\ Len(ops[a].in) = Len(ops[b].in)
  /\ \A k \in DOMAIN ops[a].in : g[<<ops[a].in[k], ops[b].in[k]>>] = "same"

(* Operators are the same only if they do the same to inputs that are the same. *)
LEMMA SameInputs ==
  ASSUME OpsFit(ops), NEW a \in OpIds, NEW b \in OpIds, NEW g, VerdictOf(g, a, b) = "same", a # b
  PROVE  DoSame(g, a, b)
<1> DEFINE A == ops[a]
           B == ops[b]
           below == BelowPair(g, a, b)
           unlike == {k \in DOMAIN A.in : below[k] # "same"}
<1>1. unlike \in SUBSET Nat
  BY Fields DEF OpsFit
<1>2. unlike # {} => below[Min(unlike)] # "same"
  <2> DEFINE T == unlike
  <2> HIDE DEF T
  <2>1. T # {} => Min(T) \in T
    BY <1>1, Least DEF T
  <2>2. QED
    BY <2>1 DEF T
<1>3. VerdictOf(g, a, b)
        = IF a = b THEN "same"
          ELSE IF A.kind # B.kind \/ Len(A.in) # Len(B.in) THEN "different"
          ELSE IF unlike # {} THEN below[Min(unlike)]
          ELSE IF A.kind = "join" /\ <<>> \in {A.par, B.par} THEN "crash"
          ELSE IF A.kind \notin NeverShared /\ A.par = B.par THEN "same"
          ELSE "different"
  BY DEF VerdictOf, Verdict
<1>4. unlike = {} => \A k \in DOMAIN A.in : g[<<A.in[k], B.in[k]>>] = "same"
  BY DEF BelowPair
<1> HIDE DEF unlike
<1>5. QED
  BY <1>2, <1>3, <1>4 DEF DoSame

(* Operators that are the same compute the same, and are equally high.        *)
LEMMA SameMeaning ==
  ASSUME OpsFit(ops), Acyclic(ops), NEW n \in Nat, NEW h \in [OpIds -> 0..n], Ranked(ops, h), Tight(ops, h),
         NEW a \in OpIds, NEW b \in OpIds, CompareOperators(a, b) = "same"
  PROVE  h[a] = h[b] /\ Meaning(ops)[a] = Meaning(ops)[b]
<1> DEFINE g == Meaning(ops)
           Alike(x, y) == h[x] = h[y] /\ g[x] = g[y]
           T == {m \in Nat : \A x, y \in OpIds : h[x] < m /\ Compared[<<x, y>>] = "same" => Alike(x, y)}
<1>1. \A o \in OpIds : h[o] \in Nat /\ h[o] <= n
  OBVIOUS
<1>2. \A o \in OpIds : g[o] = MeansOf(ops, g, o)
  BY MeaningExists DEF IsMeaning
<1> HIDE DEF g
<1>3. ASSUME NEW x \in OpIds, NEW y \in OpIds, VerdictOf(Compared, x, y) = "same",
             \A p, q \in OpIds : h[p] < h[x] /\ Compared[<<p, q>>] = "same" => Alike(p, q)
      PROVE  Alike(x, y)
  <2>1. CASE x = y
    BY <2>1
  <2>2. CASE x # y
    <3>0. PICK C : C = Compared
      OBVIOUS
    <3>a. VerdictOf(C, x, y) = "same"
      BY <1>3, <3>0
    <3>b. DoSame(C, x, y)
      BY <2>2, <3>a, SameInputs
    <3>1. /\ ops[x].kind = ops[y].kind /\ ops[x].par = ops[y].par
          /\ Len(ops[x].in) = Len(ops[y].in)
          /\ \A k \in DOMAIN ops[x].in : Compared[<<ops[x].in[k], ops[y].in[k]>>] = "same"
      BY <3>0, <3>b DEF DoSame
    <3>2. DOMAIN ops[x].in = DOMAIN ops[y].in
      BY <3>1, InputInPool
    <3>3. ASSUME NEW k \in DOMAIN ops[x].in PROVE Alike(ops[x].in[k], ops[y].in[k])
      <4>1. ops[x].in[k] \in OpIds /\ ops[y].in[k] \in OpIds /\ h[ops[x].in[k]] < h[x]
        BY <3>2, InputInPool DEF Ranked
      <4>2. QED
        BY <1>3, <3>1, <4>1
    <3>4. BelowOf(ops, g, x) = BelowOf(ops, g, y)
      BY <3>2, <3>3 DEF BelowOf
    <3>5. g[x] = g[y]
      BY <1>2, <3>1, <3>4 DEF MeansOf
    <3>6. \A k \in DOMAIN ops[x].in : h[ops[x].in[k]] < h[x] /\ h[ops[x].in[k]] < h[y] /\ h[ops[x].in[k]] \in Nat
                                      /\ h[ops[x].in[k]] = h[ops[y].in[k]]
      BY <1>1, <3>2, <3>3, InputInPool DEF Ranked
    <3>7. h[x] = 0 \/ \E k \in DOMAIN ops[x].in : h[x] = h[ops[x].in[k]] + 1
      BY DEF Tight
    <3>8. h[y] = 0 \/ \E k \in DOMAIN ops[x].in : h[y] = h[ops[x].in[k]] + 1
      BY <3>2, <3>6 DEF Tight
    <3>9. h[x] = h[y]
      <4>1. h[x] <= h[y]
        BY <1>1, <3>6, <3>7
      <4>2. h[y] <= h[x]
        BY <1>1, <3>6, <3>8
      <4>3. QED
        BY <1>1, <4>1, <4>2
    <3>10. QED
      BY <3>5, <3>9
  <2>3. QED
    BY <2>1, <2>2
<1>4. 0 \in T
  BY <1>1
<1>5. ASSUME NEW m \in Nat, m \in T PROVE m + 1 \in T
  <2>1. ASSUME NEW x \in OpIds, NEW y \in OpIds, h[x] < m + 1, Compared[<<x, y>>] = "same" PROVE Alike(x, y)
    <3>1. \A p \in OpIds : h[p] < h[x] => h[p] < m
      BY <1>1, <2>1
    <3>2. VerdictOf(Compared, x, y) = "same"
      BY <2>1, ComparisonExists
    <3> HIDE DEF Alike
    <3>3. QED
      BY <1>3, <1>5, <3>1, <3>2
  <2>2. QED
    BY <2>1
<1> HIDE DEF T
<1>6. n + 1 \in T
  BY <1>4, <1>5, InductiveSet
<1>7. \A x, y \in OpIds : Compared[<<x, y>>] = "same" => Alike(x, y)
  BY <1>1, <1>6 DEF T
<1>8. VerdictOf(Compared, a, b) = "same"
  BY DEF CompareOperators, VerdictOf, BelowPair
<1>9. Alike(a, b)
  BY <1>3, <1>7, <1>8
<1>10. QED
  BY <1>9 DEF g

-----------------------------------------------------------------------------
(* What the steps do to what operators compute.                               *)

(* Nothing computes anything else when only readers and classes change. *)
LEMMA SameMeans ==
  ASSUME NEW table, OpsFit(table), Acyclic(table), NEW new, OpsFit(new),
         \A o \in OpIds : new[o].kind = table[o].kind /\ new[o].par = table[o].par /\ new[o].in = table[o].in
  PROVE  Acyclic(new) /\ \A o \in OpIds : Meaning(new)[o] = Meaning(table)[o]
<1>0. PICK n \in Nat : \E r \in [OpIds -> 0..n] : Ranked(table, r)
  BY DEF Acyclic
<1>1. PICK r \in [OpIds -> 0..n] : Ranked(table, r)
  BY <1>0
<1>2. Ranked(new, r)
  BY <1>1 DEF Ranked
<1>3. Acyclic(new)
  BY <1>2 DEF Acyclic
<1>4. Closed(new, OpIds)
  BY InputInPool DEF Closed
<1>5. QED
  BY <1>3, <1>4, MeaningStays

(* A new operator computes from what its inputs compute; the rest of the      *)
(* network computes what it did.                                             *)
LEMMA CreatedMeans ==
  ASSUME OpsFit(ops), Acyclic(ops), NEW N \in SUBSET OpIds, Closed(ops, N),
         NEW o \in OpIds, o \notin N, NEW kind, NEW par, NEW in \in Seq(OpIds), ToSet(in) \subseteq N,
         NEW new, new = WithReader(o, kind, par, in), OpsFit(new)
  PROVE  /\ Acyclic(new)
         /\ \A p \in N : Meaning(new)[p] = Meaning(ops)[p]
         /\ \A p \in OpIds \ {o} : new[p].kind = ops[p].kind /\ new[p].par = ops[p].par
         /\ new[o].kind = kind /\ new[o].par = par
         /\ Meaning(new)[o] = Means(kind, par, [k \in DOMAIN in |-> Meaning(ops)[in[k]]])
<1>0. PICK n \in Nat : \E r \in [OpIds -> 0..n] : Ranked(ops, r)
  BY DEF Acyclic
<1>1. PICK r \in [OpIds -> 0..n] : Ranked(ops, r)
  BY <1>0
<1>2. \A p \in OpIds : r[p] \in Nat /\ r[p] <= n
  OBVIOUS
<1>3. new[o].kind = kind /\ new[o].par = par /\ new[o].in = in
  BY DEF WithReader, NewOp
<1>4. ASSUME NEW p \in OpIds, p # o
      PROVE  new[p].kind = ops[p].kind /\ new[p].par = ops[p].par /\ new[p].in = ops[p].in
  <2>1. ops[p] \in Operators
    BY DEF OpsFit
  <2>2. QED
    BY <1>4, <2>1 DEF WithReader, Operators
<1>5. \A k \in DOMAIN in : in[k] \in N
  BY SeqElement DEF ToSet
<1> DEFINE s == [p \in OpIds |-> IF p \in N THEN r[p] ELSE IF p = o THEN n + 1 ELSE r[p] + n + 2]
<1>6. s \in [OpIds -> 0..(n + n + 2)]
  BY <1>2
<1>7. ASSUME NEW p \in OpIds, NEW k \in DOMAIN new[p].in PROVE s[new[p].in[k]] < s[p]
  <2>1. CASE p = o
    <3>1. new[p].in[k] \in N
      BY <1>3, <1>5, <1>7, <2>1
    <3>2. QED
      BY <1>2, <2>1, <3>1
  <2>2. CASE p # o
    <3>1. new[p].in = ops[p].in
      BY <1>4, <2>2
    <3> DEFINE i == ops[p].in[k]
    <3>2. i \in OpIds /\ r[i] < r[p] /\ (p \in N => i \in N)
      BY <1>1, <1>7, <3>1, InputInPool DEF Ranked, Closed
    <3> HIDE DEF i
    <3>3. s[i] < s[p]
      BY <1>2, <2>2, <3>2
    <3>4. QED
      BY <3>1, <3>3 DEF i
  <2>3. QED
    BY <2>1, <2>2
<1> HIDE DEF s
<1>8. Acyclic(new)
  <2>1. Ranked(new, s)
    BY <1>7 DEF Ranked
  <2>2. n + n + 2 \in Nat
    OBVIOUS
  <2>3. QED
    BY <1>6, <2>1, <2>2 DEF Acyclic
<1>9. ASSUME NEW p \in N PROVE Meaning(new)[p] = Meaning(ops)[p]
  <2>1. Closed(new, N)
    BY <1>4 DEF Closed
  <2>2. \A q \in N : new[q].kind = ops[q].kind /\ new[q].par = ops[q].par /\ new[q].in = ops[q].in
    BY <1>4
  <2>3. QED
    BY <1>8, <2>1, <2>2, MeaningStays
<1>10. Meaning(new)[o] = Means(kind, par, [k \in DOMAIN in |-> Meaning(ops)[in[k]]])
  <2>1. Meaning(new)[o] = MeansOf(new, Meaning(new), o)
    BY <1>8, MeaningExists DEF IsMeaning
  <2>2. BelowOf(new, Meaning(new), o) = [k \in DOMAIN in |-> Meaning(ops)[in[k]]]
    BY <1>3, <1>5, <1>9 DEF BelowOf
  <2>3. QED
    BY <1>3, <2>1, <2>2 DEF MeansOf
<1>11. QED
  BY <1>3, <1>4, <1>8, <1>9, <1>10

(* The edges of the network after shortCircuitInputOutput: those that were     *)
(* told read from its input instead of the operator.                         *)
LeftOut(table, new, c, i) ==
  \A p \in OpIds :
    /\ new[p].kind = table[p].kind /\ new[p].par = table[p].par
    /\ DOMAIN new[p].in = DOMAIN table[p].in
    /\ \A k \in DOMAIN table[p].in :
         new[p].in[k] = IF p \in ToSet(table[c].out) /\ table[p].in[k] = c THEN i ELSE table[p].in[k]

(* shortCircuitInputOutput leaves the operator out, and all else as it is. *)
LEMMA SplicedInputs ==
  ASSUME NEW table, OpsFit(table), NEW c \in OpIds
  PROVE  LeftOut(table, Spliced(table, c), c, table[c].in[1])
<1> DEFINE i     == table[c].in[1]
           outs  == table[i].out \o table[c].out
           place == PlaceOf(table[i].out, c)
           new   == Spliced(table, c)
           Outs(p) == IF p = i THEN FilledAt(outs, place) ELSE table[p].out
           Ins(p)  == IF p \in ToSet(table[c].out) THEN InsteadOf(table[p].in, c, i) ELSE table[p].in
<1>1. \A p \in OpIds : new[p] = [table[p] EXCEPT !.out = Outs(p), !.in = Ins(p)]
  BY DEF Spliced
<1> HIDE DEF i, outs, place, new, Outs, Ins
<1>2. ASSUME NEW p \in OpIds
      PROVE  /\ new[p].kind = table[p].kind /\ new[p].par = table[p].par
             /\ new[p].in = IF p \in ToSet(table[c].out) THEN ReplaceAll(table[p].in, c, i) ELSE table[p].in
  <2>1. table[p] \in Operators
    BY DEF OpsFit
  <2>2. Ins(p) = IF p \in ToSet(table[c].out) THEN ReplaceAll(table[p].in, c, i) ELSE table[p].in
    BY DEF Ins, InsteadOf
  <2>3. new[p] = [table[p] EXCEPT !.out = Outs(p), !.in = Ins(p)]
    BY <1>1, Zenon
  <2>4. new[p].kind = table[p].kind /\ new[p].par = table[p].par /\ new[p].in = Ins(p)
    BY <2>1, <2>3 DEF Operators
  <2>5. QED
    BY <2>2, <2>4
<1>3. ASSUME NEW p \in OpIds
      PROVE  /\ DOMAIN new[p].in = DOMAIN table[p].in
             /\ \A k \in DOMAIN table[p].in :
                  new[p].in[k] = IF p \in ToSet(table[c].out) /\ table[p].in[k] = c THEN i ELSE table[p].in[k]
  <2>1. DOMAIN table[p].in = 1..Len(table[p].in)
    BY InputInPool
  <2>2. QED
    BY <1>2, <2>1 DEF ReplaceAll
<1>4. LeftOut(table, new, c, i)
  BY <1>2, <1>3 DEF LeftOut
<1>5. QED
  BY <1>4 DEF new, i

(* An operator is taken out, and its input computes what it did. *)
Replaces(table, c, i, S) ==
  /\ \A p \in OpIds : table[p].in = ops[p].in /\ table[p].out = ops[p].out
  /\ \A p \in OpIds \ {i} : table[p].kind = ops[p].kind /\ table[p].par = ops[p].par
  /\ Closed(ops, S)
  /\ \A o \in S : c \in ToSet(ops[o].in) => o \in ToSet(ops[c].out)
  /\ \A o \in S \ {c} : i \in ToSet(ops[o].in) => Meaning(ops)[i] = Meaning(ops)[c]
  /\ MeansOf(table, Meaning(ops), i) = Meaning(ops)[c]

(* The readers of an operator that is taken out compute what they did, when    *)
(* it hands its part to its input and nobody else reads that.                 *)
LEMMA SplicedMeans ==
  ASSUME OpsFit(ops), Acyclic(ops), NEW table, OpsFit(table), NEW c \in OpIds, ops[c].kind \in Through,
         NEW i, i = ops[c].in[1], NEW S \in SUBSET OpIds, Replaces(table, c, i, S),
         NEW new, new = Spliced(table, c), OpsFit(new)
  PROVE  /\ Acyclic(new)
         /\ \A o \in S \ {c} : /\ Meaning(new)[o] = IF o = i THEN Meaning(ops)[c] ELSE Meaning(ops)[o]
                               /\ new[o].kind = table[o].kind /\ new[o].par = table[o].par
<1>0. PICK n \in Nat : \E r \in [OpIds -> 0..n] : Ranked(ops, r)
  BY DEF Acyclic
<1>1. PICK r \in [OpIds -> 0..n] : Ranked(ops, r)
  BY <1>0
<1>2. \A p \in OpIds : r[p] \in Nat /\ r[p] <= n
  OBVIOUS
<1>3. \A p \in OpIds : table[p].in = ops[p].in /\ table[p].out = ops[p].out
  BY DEF Replaces
<1>4. \A p \in OpIds :
        /\ new[p].kind = table[p].kind /\ new[p].par = table[p].par
        /\ DOMAIN new[p].in = DOMAIN ops[p].in
        /\ \A k \in DOMAIN ops[p].in :
             new[p].in[k] = IF p \in ToSet(ops[c].out) /\ ops[p].in[k] = c THEN i ELSE ops[p].in[k]
  <2>1. LeftOut(table, new, c, table[c].in[1])
    BY SplicedInputs
  <2>2. QED
    BY <1>3, <2>1 DEF LeftOut
<1>5. 1 \in DOMAIN ops[c].in
  BY InputInPool DEF OpsFit
<1>6. i \in OpIds /\ r[i] < r[c] /\ i # c
  BY <1>1, <1>2, <1>5, InputInPool DEF Ranked
<1>7. Acyclic(new)
  <2>1. ASSUME NEW p \in OpIds, NEW k \in DOMAIN new[p].in PROVE r[new[p].in[k]] < r[p]
    <3> DEFINE j == ops[p].in[k]
    <3>1. j \in OpIds /\ r[j] < r[p] /\ (new[p].in[k] = j \/ (j = c /\ new[p].in[k] = i))
      BY <1>1, <1>4, <2>1, InputInPool DEF Ranked
    <3> HIDE DEF j
    <3>2. QED
      BY <1>2, <1>6, <3>1
  <2>2. Ranked(new, r)
    BY <2>1 DEF Ranked
  <2>3. QED
    BY <2>2 DEF Acyclic
<1> DEFINE g == Meaning(ops)
           f == [o \in OpIds |-> IF o = i THEN g[c] ELSE g[o]]
<1>8. \A o \in OpIds : g[o] = MeansOf(ops, g, o)
  BY MeaningExists DEF IsMeaning
<1>9. \A o \in OpIds : f[o] = IF o = i THEN g[c] ELSE g[o]
  OBVIOUS
<1>10. \A o \in S \ {c} : i \in ToSet(ops[o].in) => g[i] = g[c]
  BY DEF Replaces
<1>11. MeansOf(table, g, i) = g[c]
  BY DEF Replaces
<1> HIDE DEF g, f
<1>12. ASSUME NEW o \in S \ {c}, NEW k \in DOMAIN ops[o].in
       PROVE  new[o].in[k] \in S \ {c} /\ f[new[o].in[k]] = g[ops[o].in[k]]
  <2> DEFINE j == ops[o].in[k]
  <2>1. j \in S /\ j \in OpIds /\ j \in ToSet(ops[o].in)
    BY DEF Replaces, Closed, ToSet
  <2>2. CASE j = c
    <3>1. o \in ToSet(ops[c].out)
      BY <2>1, <2>2 DEF Replaces
    <3>2. new[o].in[k] = i
      BY <1>4, <2>2, <3>1
    <3>3. i \in S
      BY <1>5, <2>1, <2>2 DEF Replaces, Closed
    <3>4. QED
      BY <1>6, <1>9, <2>2, <3>2, <3>3
  <2>3. CASE j # c
    <3>1. new[o].in[k] = j
      BY <1>4, <2>3
    <3>2. QED
      BY <1>9, <1>10, <2>1, <2>3, <3>1
  <2>4. QED
    BY <2>2, <2>3
<1>13. ASSUME NEW o \in S \ {c} PROVE f[o] = MeansOf(new, f, o)
  <2>1. BelowOf(new, f, o) = BelowOf(ops, g, o) /\ BelowOf(table, g, o) = BelowOf(ops, g, o)
    BY <1>3, <1>4, <1>12 DEF BelowOf
  <2>2. MeansOf(new, f, o) = MeansOf(table, g, o)
    BY <1>4, <2>1 DEF MeansOf
  <2>3. o # i => MeansOf(table, g, o) = MeansOf(ops, g, o)
    BY <2>1 DEF MeansOf, Replaces
  <2>4. QED
    BY <1>8, <1>9, <1>11, <2>2, <2>3
<1>14. ASSUME NEW o \in S \ {c} PROVE Meaning(new)[o] = f[o]
  <2> DEFINE T == S \ {c}
  <2>1. T \in SUBSET OpIds
    OBVIOUS
  <2>2. Closed(new, T)
    BY <1>4, <1>12 DEF Closed
  <2>3. Right(new, f, T)
    BY <1>13 DEF Right
  <2>4. o \in T
    OBVIOUS
  <2> HIDE DEF T
  <2>5. \A q \in T : Meaning(new)[q] = f[q]
    BY <1>7, <2>1, <2>2, <2>3, MeaningAgrees
  <2>6. QED
    BY <2>4, <2>5
<1>15. QED
  BY <1>4, <1>7, <1>9, <1>14 DEF g

(* The edges of the network after mergeOperators: who read from b reads from a. *)
LEMMA MergedInputs ==
  ASSUME OpsFit(ops), NEW a \in OpIds, NEW b \in OpIds
  PROVE  LeftOut(ops, Merged(a, b), b, a)
<1> DEFINE new == Merged(a, b)
           Classes(p) == IF p = a THEN Lowest(a, b) ELSE ops[p].cls
           Outs(p) == IF p = a THEN ops[p].out \o ops[b].out
                      ELSE IF p \in Feeding(b) THEN Without(ops[p].out, b) ELSE ops[p].out
           Ins(p)  == IF p \in Told(b) THEN ReplaceAll(ops[p].in, b, a) ELSE ops[p].in
<1>1. \A p \in OpIds : new[p] = [ops[p] EXCEPT !.cls = Classes(p), !.out = Outs(p), !.in = Ins(p)]
  BY DEF Merged
<1> HIDE DEF new, Classes, Outs, Ins
<1>2. ASSUME NEW p \in OpIds
      PROVE  /\ new[p].kind = ops[p].kind /\ new[p].par = ops[p].par
             /\ new[p].in = IF p \in ToSet(ops[b].out) THEN ReplaceAll(ops[p].in, b, a) ELSE ops[p].in
  <2>1. ops[p] \in Operators
    BY DEF OpsFit
  <2>2. Ins(p) = IF p \in ToSet(ops[b].out) THEN ReplaceAll(ops[p].in, b, a) ELSE ops[p].in
    BY DEF Ins, Told
  <2>3. new[p] = [ops[p] EXCEPT !.cls = Classes(p), !.out = Outs(p), !.in = Ins(p)]
    BY <1>1, Zenon
  <2>4. new[p].kind = ops[p].kind /\ new[p].par = ops[p].par /\ new[p].in = Ins(p)
    BY <2>1, <2>3 DEF Operators
  <2>5. QED
    BY <2>2, <2>4
<1>3. ASSUME NEW p \in OpIds
      PROVE  /\ DOMAIN new[p].in = DOMAIN ops[p].in
             /\ \A k \in DOMAIN ops[p].in :
                  new[p].in[k] = IF p \in ToSet(ops[b].out) /\ ops[p].in[k] = b THEN a ELSE ops[p].in[k]
  <2>1. DOMAIN ops[p].in = 1..Len(ops[p].in)
    BY InputInPool
  <2>2. QED
    BY <1>2, <2>1 DEF ReplaceAll
<1>4. LeftOut(ops, new, b, a)
  BY <1>2, <1>3 DEF LeftOut
<1>5. QED
  BY <1>4 DEF new

(* Reading from an equal operator instead changes nothing of what is computed. *)
LEMMA MergedMeans ==
  ASSUME OpsFit(ops), Acyclic(ops), NEW a \in OpIds, NEW b \in OpIds, CompareOperators(a, b) = "same"
  PROVE  /\ Acyclic(Merged(a, b))
         /\ \A o \in OpIds : /\ Meaning(Merged(a, b))[o] = Meaning(ops)[o]
                             /\ Merged(a, b)[o].kind = ops[o].kind /\ Merged(a, b)[o].par = ops[o].par
<1> DEFINE new == Merged(a, b)
<1>1. OpsFit(new)
  BY MergedFits
<1>2. LeftOut(ops, new, b, a)
  BY MergedInputs
<1> HIDE DEF new
<1>3. PICK n \in Nat : \E h \in [OpIds -> 0..n] : Ranked(ops, h) /\ Tight(ops, h)
  BY HeightsExist
<1>4. PICK h \in [OpIds -> 0..n] : Ranked(ops, h) /\ Tight(ops, h)
  BY <1>3
<1>5. h[a] = h[b] /\ Meaning(ops)[a] = Meaning(ops)[b]
  BY <1>4, SameMeaning
<1>6. ASSUME NEW p \in OpIds, NEW k \in DOMAIN ops[p].in
      PROVE  h[new[p].in[k]] = h[ops[p].in[k]] /\ Meaning(ops)[new[p].in[k]] = Meaning(ops)[ops[p].in[k]]
  <2>1. new[p].in[k] = ops[p].in[k] \/ (new[p].in[k] = a /\ ops[p].in[k] = b)
    BY <1>2 DEF LeftOut
  <2>2. QED
    BY <1>5, <2>1
<1>7. \A p \in OpIds : DOMAIN new[p].in = DOMAIN ops[p].in /\ new[p].kind = ops[p].kind /\ new[p].par = ops[p].par
  BY <1>2 DEF LeftOut
<1>8. Ranked(new, h)
  BY <1>4, <1>6, <1>7 DEF Ranked
<1>9. Acyclic(new)
  BY <1>8 DEF Acyclic
<1>10. Closed(new, OpIds)
  BY <1>1, InputInPool DEF Closed
<1>11. \A o \in OpIds : Meaning(new)[o] = Meaning(ops)[o]
  BY <1>1, <1>6, <1>7, <1>9, <1>10, MeaningStays
<1>12. QED
  BY <1>7, <1>9, <1>11 DEF new

-----------------------------------------------------------------------------
(* What the outputs compute.                                                  *)

(* MeaningKept, for any table, operators in use and meanings. *)
Faithful(table, u, m) ==
  \A k \in DOMAIN m : \E o \in ToSet(u) :
    table[o].kind = "output" /\ table[o].par = <<k>> /\ Meaning(table)[o] = m[k]

(* MeaningKept is Faithful of the state there is. *)
LEMMA KeptMeaning == (MeaningKept <=> Faithful(ops, used, meaning)) /\ (MeaningKept' <=> Faithful(ops', used', meaning'))
BY ComputesMeaning DEF MeaningKept, Faithful

(* Outputs that stay in use and compute what they did keep the meaning. *)
LEMMA KeptStays ==
  ASSUME NEW table, NEW u, NEW m, Faithful(table, u, m), NEW new, NEW v,
         \A o \in ToSet(u) : table[o].kind = "output" =>
           /\ o \in ToSet(v) /\ new[o].kind = "output" /\ new[o].par = table[o].par
           /\ Meaning(new)[o] = Meaning(table)[o]
  PROVE  Faithful(new, v, m)
BY DEF Faithful

(* What is in use reads only what is in use, while the network is built. *)
LEMMA UsedClosed ==
  ASSUME OpsFit(ops), used \in Seq(OpIds), Wired(ops, ToSet(used))
  PROVE  Closed(ops, ToSet(used)) /\ ToSet(used) \in SUBSET OpIds
<1>1. ToSet(used) \in SUBSET OpIds
  BY InUse
<1>2. ASSUME NEW o \in ToSet(used), NEW k \in DOMAIN ops[o].in PROVE ops[o].in[k] \in ToSet(used)
  <2>1. ops[o].in[k] \in ToSet(ops[o].in)
    BY DEF ToSet
  <2>2. QED
    BY <2>1 DEF Wired
<1>3. QED
  BY <1>1, <1>2 DEF Closed

(* The network has one operator more, and all else computes what it did. *)
Grown(new, v, o, kind, par, in) ==
  /\ Acyclic(new) /\ OpsFit(new)
  /\ \A m : Faithful(ops, used, m) => Faithful(new, v, m)
  /\ \A p \in OpIds \ {o} : new[p].kind = ops[p].kind /\ new[p].par = ops[p].par
  /\ o \in ToSet(v) /\ new[o].kind = kind /\ new[o].par = par
  /\ Meaning(new)[o] = Means(kind, par, [k \in DOMAIN in |-> Meaning(ops)[in[k]]])

(* An operator that is made computes from its inputs, and the outputs what    *)
(* they did.                                                                 *)
LEMMA CreatedKept ==
  ASSUME NetFits, NetWired, Acyclic(ops), NEW in \in Seq(OpIds), ToSet(in) \subseteq ToSet(used),
         CanMake(in), TakeOp, NEW kind \in Kinds, NEW par \in Seq(Nat), kind \in Through => Len(in) = 1,
         NEW new, new = WithReader(Head(free), kind, par, in)
  PROVE  Grown(new, used', Head(free), kind, par, in)
<1> DEFINE o == Head(free)
           N == ToSet(used)
<1>1. OpsFit(new)
  BY Created
<1>2. o \in OpIds /\ o \notin N /\ ToSet(used') = N \cup {o}
  BY TakeOpPool DEF CanMake, NetFits
<1>3. OpsFit(ops) /\ Closed(ops, N) /\ N \in SUBSET OpIds /\ ToSet(in) \subseteq N
  BY UsedClosed DEF NetFits, PoolFits, NetWired
<1>4. new = WithReader(o, kind, par, in)
  OBVIOUS
<1> HIDE DEF o, N
<1>5. /\ Acyclic(new)
      /\ \A p \in N : Meaning(new)[p] = Meaning(ops)[p]
      /\ \A p \in OpIds \ {o} : new[p].kind = ops[p].kind /\ new[p].par = ops[p].par
      /\ new[o].kind = kind /\ new[o].par = par
      /\ Meaning(new)[o] = Means(kind, par, [k \in DOMAIN in |-> Meaning(ops)[in[k]]])
  BY <1>1, <1>2, <1>3, <1>4, CreatedMeans
<1>6. ASSUME NEW m, Faithful(ops, used, m) PROVE Faithful(new, used', m)
  BY <1>2, <1>3, <1>5, <1>6, KeptStays DEF N
<1>7. o \in ToSet(used')
  BY <1>2
<1>8. QED
  BY <1>1, <1>5, <1>6, <1>7 DEF o, Grown

(* The outputs in use are among S and are left alone. *)
OutputsIn(table, S) ==
  \A o \in ToSet(used) : ops[o].kind = "output" =>
    /\ o \in S /\ table[o].kind = "output" /\ table[o].par = ops[o].par
    /\ o = Below => Meaning(ops)[Below] = Meaning(ops)[cursor]

(* What a projection computes is one list of expressions. *)
ProjectsFit(table) == \A o \in OpIds : table[o].kind = "project" => Len(table[o].par) = 1

(* An operator is taken out by a pass. *)
LEMMA BypassedKept ==
  ASSUME NetFits, Acyclic(ops), NEW table, OpsFit(table), cursor \in ToSet(used),
         ops[cursor].kind \in Through, table[cursor].kind \in Through,
         NEW S \in SUBSET OpIds, Replaces(table, cursor, Below, S), Bypass(table), NEW m
  PROVE  /\ Acyclic(ops')
         /\ ProjectsFit(ops) /\ ProjectsFit(table) => ProjectsFit(ops')
         /\ OutputsIn(table, S) /\ Faithful(ops, used, m) => Faithful(ops', used', m)
<1>1. CASE UNCHANGED net
  BY <1>1 DEF net
<1>2. CASE ops' = Spliced(table, cursor) /\ FreeOp(cursor)
  <2> DEFINE c == cursor
             i == Below
             new == Spliced(table, cursor)
  <2>1. c \in OpIds /\ i = ops[c].in[1] /\ OpsFit(ops) /\ ops[c].kind \in Through /\ Replaces(table, c, i, S)
        /\ new = Spliced(table, c)
    BY InUse DEF NetFits, PoolFits, Below
  <2>2. OpsFit(new)
    BY <2>1, SplicedFits
  <2> HIDE DEF c, i, new
  <2>3. /\ Acyclic(new)
        /\ \A o \in S \ {c} : /\ Meaning(new)[o] = IF o = i THEN Meaning(ops)[c] ELSE Meaning(ops)[o]
                              /\ new[o].kind = table[o].kind /\ new[o].par = table[o].par
    BY <2>1, <2>2, SplicedMeans
  <2>4. c # 1 /\ ops[c].kind # "output"
    BY <2>1 DEF Through, OpsFit
  <2>5. ToSet(used') = ToSet(used) \ {c}
    BY <1>2, <2>4, FreeOpPool DEF NetFits, c
  <2>6. ASSUME OutputsIn(table, S), Faithful(ops, used, m) PROVE Faithful(new, used', m)
    <3>1. ASSUME NEW o \in ToSet(used), ops[o].kind = "output"
          PROVE  /\ o \in ToSet(used') /\ new[o].kind = "output" /\ new[o].par = ops[o].par
                 /\ Meaning(new)[o] = Meaning(ops)[o]
      <4>1. o \in S \ {c} /\ table[o].kind = "output" /\ table[o].par = ops[o].par
            /\ (o = i => Meaning(ops)[i] = Meaning(ops)[c])
        BY <2>4, <2>6, <3>1 DEF OutputsIn, c, i
      <4>2. QED
        BY <2>3, <2>5, <4>1
    <3>2. QED
      BY <2>6, <3>1, KeptStays
  <2>7. ops' = new
    BY <1>2 DEF new
  <2>8. ProjectsFit(table) => ProjectsFit(new)
    <3>1. LeftOut(table, new, c, table[c].in[1])
      BY <2>1, SplicedInputs DEF new, c
    <3>2. QED
      BY <3>1 DEF LeftOut, ProjectsFit
  <2>9. QED
    BY <2>3, <2>6, <2>7, <2>8
<1>3. QED
  BY <1>1, <1>2 DEF Bypass, net

(* A reader of an operator is in its list of readers, while the network is    *)
(* built.                                                                    *)
LEMMA ReaderListed ==
  ASSUME OpsFit(ops), NEW N \in SUBSET OpIds, Wired(ops, N), NEW o \in N, NEW p \in N, p \in ToSet(ops[o].in)
  PROVE  o \in ToSet(ops[p].out)
<1>1. ops[o].in \in Seq(OpIds) /\ ops[p].out \in Seq(OpIds)
  BY Fields DEF OpsFit
<1>2. Times(ops[o].in, p) = Times(ops[p].out, o)
  BY DEF Wired
<1>3. QED
  BY <1>1, <1>2, TimesType

(* removeQuerySources: a query source computes what it reads. *)
LEMMA UnsourcedReplaces ==
  ASSUME NetFits, NetWired, Acyclic(ops), cursor \in ToSet(used), ops[cursor].kind = "qsrc"
  PROVE  Replaces(ops, cursor, Below, ToSet(used)) /\ OutputsIn(ops, ToSet(used))
<1> DEFINE g == Meaning(ops)
           N == ToSet(used)
<1>1. OpsFit(ops) /\ N \in SUBSET OpIds /\ Closed(ops, N) /\ Wired(ops, N) /\ cursor \in N
  BY UsedClosed DEF NetFits, PoolFits, NetWired
<1>2. \A o \in OpIds : g[o] = MeansOf(ops, g, o)
  BY <1>1, MeaningExists DEF IsMeaning
<1>3. 1 \in DOMAIN ops[cursor].in /\ Below \in OpIds
  BY <1>1, InputInPool DEF OpsFit, Through, Below
<1> HIDE DEF g, N
<1>4. g[cursor] = g[Below]
  BY <1>1, <1>2, <1>3 DEF MeansOf, Means, BelowOf, Below
<1>5. \A o \in N : cursor \in ToSet(ops[o].in) => o \in ToSet(ops[cursor].out)
  BY <1>1, ReaderListed
<1>6. QED
  BY <1>1, <1>2, <1>3, <1>4, <1>5 DEF Replaces, OutputsIn, g, N

(* Two lists hold together what each of them holds. *)
LEMMA ConcatSet ==
  ASSUME NEW S, NEW s \in Seq(S), NEW t \in Seq(S)
  PROVE  ToSet(s \o t) = ToSet(s) \cup ToSet(t)
<1>1. s \o t \in Seq(S)
  BY Concat
<1>2. ASSUME NEW x PROVE x \in ToSet(s \o t) <=> x \in ToSet(s) \/ x \in ToSet(t)
  <2>1. Times(s \o t, x) = Times(s, x) + Times(t, x)
    BY TimesConcat
  <2>2. /\ Times(s \o t, x) = 0 <=> x \notin ToSet(s \o t)
        /\ Times(s, x) = 0 <=> x \notin ToSet(s)
        /\ Times(t, x) = 0 <=> x \notin ToSet(t)
    BY <1>1, TimesType
  <2>3. Times(s, x) \in Nat /\ Times(t, x) \in Nat
    BY TimesType
  <2>4. QED
    BY <2>1, <2>2, <2>3
<1>3. QED
  BY <1>2

(* mergeSelects: the operator below takes over the predicates; the selection  *)
(* alone reads it.                                                           *)
LEMMA SelectReplaces ==
  ASSUME NetFits, NetWired, Acyclic(ops), cursor \in ToSet(used), MergesSelect,
         NEW table, table = [ops EXCEPT ![Below].par = ops[Below].par \o ops[cursor].par]
  PROVE  Replaces(table, cursor, Below, ToSet(used)) /\ OutputsIn(table, ToSet(used))
<1> DEFINE g == Meaning(ops)
           N == ToSet(used)
           i == Below
           P == ops[i].par
           Q == ops[cursor].par
<1>1. OpsFit(ops) /\ N \in SUBSET OpIds /\ Closed(ops, N) /\ Wired(ops, N) /\ cursor \in N /\ cursor \in OpIds
  BY UsedClosed, InUse DEF NetFits, PoolFits, NetWired
<1>2. \A o \in OpIds : g[o] = MeansOf(ops, g, o)
  BY <1>1, MeaningExists DEF IsMeaning
<1>3. ops[cursor].kind = "select" /\ ops[i].kind \in {"select", "join"} /\ Len(ops[i].out) = 1
  BY DEF MergesSelect
<1>4. 1 \in DOMAIN ops[cursor].in /\ i \in OpIds /\ i \in N /\ i \in ToSet(ops[cursor].in) /\ i = ops[cursor].in[1]
  BY <1>1, <1>3, InputInPool DEF OpsFit, Through, Below, Closed, ToSet
<1>5. P \in Seq(Nat) /\ Q \in Seq(Nat) /\ ops[i].out \in Seq(OpIds)
  BY <1>1, <1>4, Fields, SMTT(40) DEF OpsFit
<1>6. /\ \A p \in OpIds : table[p].in = ops[p].in /\ table[p].out = ops[p].out
      /\ \A p \in OpIds : table[p].kind = ops[p].kind
      /\ \A p \in OpIds \ {i} : table[p].par = ops[p].par
      /\ table[i].par = P \o Q
  BY <1>1, <1>4 DEF OpsFit, Operators
<1>7. ToSet(P \o Q) = ToSet(P) \cup ToSet(Q)
  BY <1>5, ConcatSet
<1> HIDE DEF g, N, i, P, Q
<1>8. \A o \in N : cursor \in ToSet(ops[o].in) => o \in ToSet(ops[cursor].out)
  BY <1>1, ReaderListed
<1>9. \A o \in N \ {cursor} : i \notin ToSet(ops[o].in)
  <2>1. \A o \in N : i \in ToSet(ops[o].in) => o \in ToSet(ops[i].out)
    BY <1>1, <1>4, ReaderListed
  <2>2. \A x, y \in ToSet(ops[i].out) : x = y
    BY <1>3, <1>5 DEF ToSet
  <2>3. QED
    BY <1>1, <1>4, <2>1, <2>2
<1>10. MeansOf(table, g, i) = g[cursor]
  <2> DEFINE b == BelowOf(ops, g, i)
  <2>a. g[i] = Means(ops[i].kind, P, b)
    BY <1>2, <1>4 DEF MeansOf, P
  <2>b. BelowOf(table, g, i) = b
    BY <1>4, <1>6 DEF BelowOf
  <2>1. g[i] = Means(ops[i].kind, P, b) /\ BelowOf(table, g, i) = b
    BY <2>a, <2>b
  <2>2. g[cursor] = Means("select", Q, [k \in DOMAIN ops[cursor].in |-> g[ops[cursor].in[k]]])
    BY <1>1, <1>2, <1>3 DEF MeansOf, BelowOf, Q
  <2>3. MeansOf(table, g, i) = Means(ops[i].kind, P \o Q, b)
    BY <1>4, <1>6, <2>1 DEF MeansOf
  <2> DEFINE c == [k \in DOMAIN ops[cursor].in |-> g[ops[cursor].in[k]]]
  <2>c. c[1] = g[i]
    BY <1>4
  <2> HIDE DEF b, c
  <2>d. g[cursor] = Means("select", Q, c)
    BY <2>2 DEF c
  <2>4. g[i].kind \in {"select", "join"} => g[cursor] = Term(g[i].kind, g[i].par \cup ToSet(Q), g[i].in)
    BY <2>c, <2>d DEF Means
  <2>5. CASE ops[i].kind = "join"
    <3>1. g[i] = Term("join", ToSet(P), b) /\ MeansOf(table, g, i) = Term("join", ToSet(P) \cup ToSet(Q), b)
      BY <1>7, <2>1, <2>3, <2>5 DEF Means
    <3>2. QED
      BY <2>4, <3>1 DEF Term
  <2>6. CASE ops[i].kind = "select" /\ b[1].kind \in {"select", "join"}
    <3>1. /\ g[i] = Term(b[1].kind, b[1].par \cup ToSet(P), b[1].in)
          /\ MeansOf(table, g, i) = Term(b[1].kind, b[1].par \cup (ToSet(P) \cup ToSet(Q)), b[1].in)
      BY <1>7, <2>1, <2>3, <2>6 DEF Means
    <3>2. g[i].kind = b[1].kind /\ g[i].par = b[1].par \cup ToSet(P) /\ g[i].in = b[1].in
      BY <3>1 DEF Term
    <3>3. b[1].par \cup (ToSet(P) \cup ToSet(Q)) = (b[1].par \cup ToSet(P)) \cup ToSet(Q)
      OBVIOUS
    <3>4. QED
      BY <2>4, <2>6, <3>1, <3>2, <3>3
  <2>7. CASE ops[i].kind = "select" /\ b[1].kind \notin {"select", "join"}
    <3>1. g[i] = Term("select", ToSet(P), b) /\ MeansOf(table, g, i) = Term("select", ToSet(P) \cup ToSet(Q), b)
      BY <1>7, <2>1, <2>3, <2>7 DEF Means
    <3>2. QED
      BY <2>4, <3>1 DEF Term
  <2>8. QED
    BY <1>3, <2>5, <2>6, <2>7, SMTT(40) DEF i
<1>11. Replaces(table, cursor, i, N)
  BY <1>1, <1>6, <1>8, <1>9, <1>10 DEF Replaces, g
<1>12. OutputsIn(table, N)
  BY <1>1, <1>3, <1>6 DEF OutputsIn, i, N
<1>13. QED
  BY <1>11, <1>12 DEF i, N

-----------------------------------------------------------------------------
(* The last pass.                                                             *)

(* What a function gathers along the edges E, from the operator and from those *)
(* its edges lead to.                                                        *)
GatherOf(E, B, f, o) == B[o] \cup UNION {f[p] : p \in E[o]}

(* What holds of an operator when it holds of those its edges lead to holds of *)
(* all, if ranks fall along the edges.                                       *)
LEMMA AlongRanks ==
  ASSUME NEW E, NEW n \in Nat, NEW r \in [OpIds -> 0..n],
         \A o \in OpIds : \A p \in E[o] : p \in OpIds /\ r[p] < r[o],
         NEW S, \A o \in OpIds : (\A p \in E[o] : p \in S) => o \in S
  PROVE  OpIds \subseteq S
<1> DEFINE T == {m \in Nat : \A o \in OpIds : r[o] < m => o \in S}
<1>1. \A o \in OpIds : r[o] \in Nat /\ r[o] <= n
  OBVIOUS
<1>2. 0 \in T
  BY <1>1
<1>3. ASSUME NEW m \in Nat, m \in T PROVE m + 1 \in T
  <2>1. ASSUME NEW o \in OpIds, r[o] < m + 1 PROVE o \in S
    <3>1. \A p \in E[o] : p \in OpIds /\ r[p] < m
      BY <1>1, <2>1
    <3>2. QED
      BY <1>3, <3>1
  <2>2. QED
    BY <2>1
<1> HIDE DEF T
<1>4. n + 1 \in T
  BY <1>2, <1>3, InductiveSet
<1>5. QED
  BY <1>1, <1>4 DEF T

(* If ranks fall along the edges, there is a function that gathers. *)
LEMMA GatherExists ==
  ASSUME NEW E, NEW B, NEW n \in Nat, NEW r \in [OpIds -> 0..n],
         \A o \in OpIds : \A p \in E[o] : p \in OpIds /\ r[p] < r[o]
  PROVE  \E f : f = [o \in OpIds |-> GatherOf(E, B, f, o)]
<1> DEFINE Upto(g, m) == \A o \in OpIds : r[o] < m => g[o] = GatherOf(E, B, g, o)
           T == {m \in Nat : \E g : Upto(g, m)}
<1>1. \A o \in OpIds : r[o] \in Nat /\ r[o] <= n
  OBVIOUS
<1>2. ASSUME NEW f, NEW g, NEW o \in OpIds, \A p \in E[o] : f[p] = g[p]
      PROVE  GatherOf(E, B, f, o) = GatherOf(E, B, g, o)
  <2>1. \A x : x \in GatherOf(E, B, f, o) <=> x \in GatherOf(E, B, g, o)
    BY <1>2 DEF GatherOf
  <2>2. QED
    BY <2>1 DEF GatherOf
<1>3. 0 \in T
  BY <1>1
<1>4. ASSUME NEW m \in Nat, m \in T PROVE m + 1 \in T
  <2>1. PICK g : Upto(g, m)
    BY <1>4
  <2> DEFINE h == [o \in OpIds |-> IF r[o] < m THEN g[o] ELSE GatherOf(E, B, g, o)]
  <2>2. \A o \in OpIds : h[o] = IF r[o] < m THEN g[o] ELSE GatherOf(E, B, g, o)
    OBVIOUS
  <2> HIDE DEF h
  <2>3. ASSUME NEW o \in OpIds, r[o] < m + 1 PROVE h[o] = GatherOf(E, B, h, o)
    <3>1. h[o] = GatherOf(E, B, g, o)
      BY <2>1, <2>2
    <3>2. \A p \in E[o] : g[p] = h[p]
      BY <1>1, <2>2, <2>3
    <3>3. QED
      BY <1>2, <3>1, <3>2
  <2>4. Upto(h, m + 1)
    BY <2>3
  <2> HIDE DEF Upto
  <2>5. QED
    BY <2>4
<1> HIDE DEF T
<1>5. n + 1 \in T
  BY <1>3, <1>4, InductiveSet
<1>6. PICK g : Upto(g, n + 1)
  BY <1>5 DEF T
<1>7. ASSUME NEW o \in OpIds PROVE g[o] = GatherOf(E, B, g, o)
  <2>1. r[o] < n + 1
    BY <1>1
  <2>2. QED
    BY <1>6, <2>1
<1> DEFINE f == [o \in OpIds |-> g[o]]
<1>8. \A o \in OpIds : f[o] = g[o]
  OBVIOUS
<1>9. f = [o \in OpIds |-> f[o]]
  OBVIOUS
<1> HIDE DEF f
<1>10. ASSUME NEW o \in OpIds PROVE f[o] = GatherOf(E, B, f, o)
  <2>1. \A p \in E[o] : g[p] = f[p]
    BY <1>8
  <2>2. QED
    BY <1>2, <1>7, <1>8, <2>1
<1>11. f = [o \in OpIds |-> GatherOf(E, B, f, o)]
  BY <1>9, <1>10
<1>12. QED
  BY <1>11

UpOf(f, o) == {o} \cup UNION {f[p] : p \in ToSet(ops[o].in)}

(* In a network without cycles, what an operator is computed from is the       *)
(* operator and what its inputs are computed from.                           *)
LEMMA UpstreamExists ==
  ASSUME OpsFit(ops), Acyclic(ops)
  PROVE  \A o \in OpIds : Upstream[o] = UpOf(Upstream, o)
<1>0. PICK n \in Nat : \E r \in [OpIds -> 0..n] : Ranked(ops, r)
  BY DEF Acyclic
<1>1. PICK r \in [OpIds -> 0..n] : Ranked(ops, r)
  BY <1>0
<1> DEFINE E == [o \in OpIds |-> ToSet(ops[o].in)]
           B == [o \in OpIds |-> {o}]
           Solves(u) == u = [o \in OpIds |-> UpOf(u, o)]
<1>2. \A o \in OpIds : E[o] = ToSet(ops[o].in) /\ B[o] = {o}
  OBVIOUS
<1> HIDE DEF E, B
<1>3. ASSUME NEW o \in OpIds, NEW p \in E[o] PROVE p \in OpIds /\ r[p] < r[o]
  BY <1>1, <1>2, <1>3, InputInPool DEF Ranked, ToSet
<1>4. PICK f : f = [o \in OpIds |-> GatherOf(E, B, f, o)]
  BY <1>3, GatherExists
<1>5. ASSUME NEW o \in OpIds PROVE GatherOf(E, B, f, o) = UpOf(f, o)
  BY <1>2 DEF GatherOf, UpOf
<1>6. Solves(f)
  BY <1>4, <1>5
<1>7. Upstream = CHOOSE u : Solves(u)
  BY DEF Upstream, UpOf
<1> HIDE DEF Solves
<1>8. Solves(Upstream)
  BY <1>6, <1>7
<1>9. QED
  BY <1>8 DEF Solves

(* Whatever an operator is computed from is computed from that, too. *)
LEMMA UpstreamClosed ==
  ASSUME OpsFit(ops), Acyclic(ops), NEW o \in OpIds
  PROVE  o \in Upstream[o] /\ Upstream[o] \subseteq OpIds /\ Closed(ops, Upstream[o])
<1>0. PICK n \in Nat : \E r \in [OpIds -> 0..n] : Ranked(ops, r)
  BY DEF Acyclic
<1>1. PICK r \in [OpIds -> 0..n] : Ranked(ops, r)
  BY <1>0
<1> DEFINE Good(p) == p \in Upstream[p] /\ Upstream[p] \subseteq OpIds /\ Closed(ops, Upstream[p])
           E == [p \in OpIds |-> ToSet(ops[p].in)]
           S == {p \in OpIds : Good(p)}
<1>2. ASSUME NEW p \in OpIds, \A q \in ToSet(ops[p].in) : Good(q) PROVE Good(p)
  <2>1. \A x : x \in Upstream[p] <=> x = p \/ \E q \in ToSet(ops[p].in) : x \in Upstream[q]
    BY UpstreamExists DEF UpOf
  <2>2. Upstream[p] \subseteq OpIds
    BY <1>2, <2>1
  <2>3. ASSUME NEW x \in Upstream[p], NEW k \in DOMAIN ops[x].in PROVE ops[x].in[k] \in Upstream[p]
    <3>1. CASE x = p
      <4>1. ops[p].in[k] \in ToSet(ops[p].in)
        BY <2>3, <3>1 DEF ToSet
      <4>2. QED
        BY <1>2, <2>1, <3>1, <4>1
    <3>2. ASSUME NEW q \in ToSet(ops[p].in), x \in Upstream[q] PROVE ops[x].in[k] \in Upstream[p]
      BY <1>2, <2>1, <3>2 DEF Closed
    <3>3. QED
      BY <2>1, <3>1, <3>2
  <2>4. QED
    BY <2>1, <2>2, <2>3 DEF Closed
<1> HIDE DEF Good
<1>3. \A p \in OpIds : E[p] = ToSet(ops[p].in)
  OBVIOUS
<1> HIDE DEF E
<1>4. ASSUME NEW p \in OpIds, NEW q \in E[p] PROVE q \in OpIds /\ r[q] < r[p]
  BY <1>1, <1>3, <1>4, InputInPool DEF Ranked, ToSet
<1>5. ASSUME NEW p \in OpIds, \A q \in E[p] : q \in S PROVE p \in S
  BY <1>2, <1>3, <1>5
<1> HIDE DEF S
<1>6. OpIds \subseteq S
  BY <1>4, <1>5, AlongRanks
<1>7. QED
  BY <1>6 DEF S, Good

(* What the outputs in use are computed from. *)
Working == {x \in OpIds : \E out \in ToSet(used) : ops[out].kind = "output" /\ x \in Upstream[out]}

(* It is closed. *)
LEMMA WorkingClosed ==
  ASSUME NetFits, Acyclic(ops)
  PROVE  Closed(ops, Working) /\ \A o \in ToSet(used) : ops[o].kind = "output" => o \in Working
<1>1. OpsFit(ops) /\ \A out \in ToSet(used) : out \in OpIds
  BY InUse DEF NetFits, PoolFits
<1>2. ASSUME NEW x \in Working, NEW k \in DOMAIN ops[x].in PROVE ops[x].in[k] \in Working
  <2>1. PICK out \in ToSet(used) : ops[out].kind = "output" /\ x \in Upstream[out]
    BY DEF Working
  <2>2. Closed(ops, Upstream[out]) /\ Upstream[out] \subseteq OpIds
    BY <1>1, UpstreamClosed
  <2>3. QED
    BY <2>1, <2>2 DEF Closed, Working
<1>3. ASSUME NEW o \in ToSet(used), ops[o].kind = "output" PROVE o \in Working
  BY <1>1, <1>3, UpstreamClosed DEF Working
<1>4. QED
  BY <1>2, <1>3 DEF Closed

(* The list of a join's predicates and a projection's expressions. *)
LEMMA LastAdded ==
  ASSUME NEW s \in Seq(Nat), NEW t \in Seq(Nat)
  PROVE  Len(t) = 1 => Front(s \o t) = s /\ Last(s \o t) = t[1] /\ ToSet(t) = {t[1]}
<1>a. /\ s \o t \in Seq(Nat) /\ Len(s) \in Nat /\ Len(s \o t) = Len(s) + Len(t)
      /\ \A k \in 1..Len(s) : (s \o t)[k] = s[k]
      /\ \A k \in 1..Len(t) : (s \o t)[Len(s) + k] = t[k]
  BY Concat
<1>0. SUFFICES ASSUME Len(t) = 1
               PROVE  Front(s \o t) = s /\ Last(s \o t) = t[1] /\ ToSet(t) = {t[1]}
  OBVIOUS
<1>1. s \o t \in Seq(Nat) /\ Len(s \o t) = Len(s) + 1 /\ Len(s) \in Nat
      /\ (\A k \in 1..Len(s) : (s \o t)[k] = s[k]) /\ (s \o t)[Len(s) + 1] = t[1]
  BY <1>a, <1>0
<1> DEFINE u == s \o t
<1>2. u # <<>>
  BY <1>1
<1> HIDE DEF u
<1>3. u \in Seq(Nat) /\ Len(u) = Len(s) + 1 /\ Len(s) \in Nat
      /\ (\A k \in 1..Len(s) : u[k] = s[k]) /\ u[Len(s) + 1] = t[1]
  BY <1>1 DEF u
<1>4. Front(u) \in Seq(Nat) /\ Len(Front(u)) = Len(s) /\ \A k \in 1..Len(s) : Front(u)[k] = s[k]
  <2>1. /\ Front(u) \in Seq(Nat) /\ Len(Front(u)) = Len(u) - 1
        /\ \A k \in 1..(Len(u) - 1) : Front(u)[k] = u[k]
    BY <1>2, <1>3, FrontOf
  <2>2. Len(u) - 1 = Len(s)
    BY <1>3
  <2>3. QED
    BY <1>3, <2>1, <2>2
<1>5. Front(u) = s
  <2> DEFINE v == Front(u)
  <2> HIDE DEF v
  <2>1. v \in Seq(Nat) /\ Len(v) = Len(s) /\ \A k \in 1..Len(s) : v[k] = s[k]
    BY <1>4 DEF v
  <2>2. DOMAIN v = 1..Len(s) /\ DOMAIN s = 1..Len(s) /\ v = [k \in DOMAIN v |-> v[k]] /\ s = [k \in DOMAIN s |-> s[k]]
    BY <2>1
  <2>a. v = s
    BY <2>1, <2>2
  <2>3. QED
    BY <2>a DEF v
<1>6. Last(u) = t[1]
  BY <1>3 DEF Last
<1>7. ToSet(t) = {t[1]}
  <2>1. DOMAIN t = 1..1
    BY <1>0
  <2>2. QED
    BY <2>1 DEF ToSet
<1>8. QED
  BY <1>5, <1>6, <1>7 DEF u

(* The join has become one that projects, too. *)
Joined(table, i, par) ==
  /\ \A p \in OpIds : table[p].in = ops[p].in /\ table[p].out = ops[p].out
  /\ \A p \in OpIds \ {i} : table[p].kind = ops[p].kind /\ table[p].par = ops[p].par
  /\ table[i].kind = "joinproject" /\ table[i].par = par

(* mergeProject changes the kind and the parameters of the join, and no more. *)
LEMMA JoinedTable ==
  ASSUME OpsFit(ops), NEW i \in OpIds, NEW par \in Seq(Nat)
  PROVE  Joined([ops EXCEPT ![i].kind = "joinproject", ![i].par = par], i, par)
<1> DEFINE table == [ops EXCEPT ![i].kind = "joinproject", ![i].par = par]
<1>1. /\ table[i] = [ops[i] EXCEPT !.kind = "joinproject", !.par = par]
      /\ \A p \in OpIds \ {i} : table[p] = ops[p]
  BY DEF OpsFit
<1> HIDE DEF table
<1>2. ops[i] \in Operators
  BY DEF OpsFit
<1>3. table[i].kind = "joinproject" /\ table[i].par = par /\ table[i].in = ops[i].in /\ table[i].out = ops[i].out
  BY <1>1, <1>2 DEF Operators
<1>4. Joined(table, i, par)
  BY <1>1, <1>3 DEF Joined
<1>5. QED
  BY <1>4 DEF table

(* mergeProjectsToJoin: the join computes what the projection did.            *)
LEMMA ProjectReplaces ==
  ASSUME NetFits, Acyclic(ops), cursor \in ToSet(used), MergesProject, Len(ops[cursor].par) = 1,
         NEW table, Joined(table, Below, ops[Below].par \o ops[cursor].par)
  PROVE  /\ Replaces(table, cursor, Below, {})
         /\ At("projects") /\ ReadByNoOther /\ ReadersTold =>
              Replaces(table, cursor, Below, Working) /\ OutputsIn(table, Working)
<1> DEFINE g == Meaning(ops)
           i == Below
           P == ops[i].par
           Q == ops[cursor].par
<1>1. OpsFit(ops) /\ cursor \in OpIds
  BY InUse DEF NetFits, PoolFits
<1>2. \A o \in OpIds : g[o] = MeansOf(ops, g, o)
  BY <1>1, MeaningExists DEF IsMeaning
<1>3. ops[cursor].kind = "project" /\ ops[i].kind = "join"
  BY DEF MergesProject
<1>4. DOMAIN ops[cursor].in = 1..1 /\ i \in OpIds /\ i = ops[cursor].in[1]
  BY <1>1, <1>3, InputInPool DEF OpsFit, Through, Below
<1>5. P \in Seq(Nat) /\ Q \in Seq(Nat)
  BY <1>1, <1>4, Fields DEF OpsFit
<1>6. /\ \A p \in OpIds : table[p].in = ops[p].in /\ table[p].out = ops[p].out
      /\ \A p \in OpIds \ {i} : table[p].kind = ops[p].kind /\ table[p].par = ops[p].par
      /\ table[i].kind = "joinproject" /\ table[i].par = P \o Q
  BY DEF Joined
<1>7. Front(P \o Q) = P /\ Last(P \o Q) = Q[1] /\ ToSet(Q) = {Q[1]}
  BY <1>5, LastAdded
<1> HIDE DEF g, i, P, Q
<1>8. MeansOf(table, g, i) = g[cursor]
  <2> DEFINE b == BelowOf(ops, g, i)
             c == BelowOf(ops, g, cursor)
  <2>0. table[i].in = ops[i].in
    BY <1>4, <1>6
  <2>1. BelowOf(table, g, i) = b
    BY <2>0 DEF BelowOf
  <2>2. g[i] = Means("join", P, b)
    BY <1>2, <1>3, <1>4 DEF MeansOf, P, i
  <2>3. g[cursor] = Means("project", Q, c)
    BY <1>1, <1>2, <1>3 DEF MeansOf, Q
  <2>4. c = [k \in 1..1 |-> g[i]]
    BY <1>4 DEF BelowOf
  <2>5. MeansOf(table, g, i) = Means("joinproject", P \o Q, b)
    BY <1>4, <1>6, <2>1 DEF MeansOf
  <2> HIDE DEF b, c
  <2>6. g[i] = Term("join", ToSet(P), b)
    BY <2>2 DEF Means
  <2>7. g[cursor] = Term("project", {Q[1]}, c)
    BY <1>7, <2>3 DEF Means
  <2>8. MeansOf(table, g, i) = Term("project", {Q[1]}, <<Term("join", ToSet(P), b)>>)
    BY <1>7, <2>5 DEF Means
  <2>9. c = <<g[i]>>
    BY <2>4
  <2>10. QED
    BY <2>6, <2>7, <2>8, <2>9
<1>9. Replaces(table, cursor, i, {})
  BY <1>6, <1>8 DEF Replaces, Closed, g
<1>10. ASSUME At("projects"), ReadByNoOther, ReadersTold
       PROVE  Replaces(table, cursor, i, Working) /\ OutputsIn(table, Working)
  <2>1. Closed(ops, Working) /\ \A o \in ToSet(used) : ops[o].kind = "output" => o \in Working
    BY WorkingClosed
  <2>2. \A o \in Working : cursor \in ToSet(ops[o].in) => o \in ToSet(ops[cursor].out)
    BY <1>10 DEF ReadersTold, Working
  <2>3. \A o \in Working \ {cursor} : i \notin ToSet(ops[o].in)
    BY <1>10 DEF ReadByNoOther, Working, i
  <2>4. Replaces(table, cursor, i, Working)
    BY <1>6, <1>8, <2>1, <2>2, <2>3 DEF Replaces, g
  <2>5. \A o \in ToSet(used) : o \in OpIds
    BY InUse DEF NetFits, PoolFits
  <2>6. ASSUME NEW o \in ToSet(used), ops[o].kind = "output" PROVE o # i
    BY <1>3, <2>6
  <2>7. OutputsIn(table, Working)
    BY <1>6, <2>1, <2>5, <2>6 DEF OutputsIn, i
  <2>8. QED
    BY <2>4, <2>7
<1>11. QED
  BY <1>9, <1>10 DEF i

-----------------------------------------------------------------------------
(* What may be added to.                                                      *)

(* A selection among the results of a translation is read by nobody yet, and  *)
(* is one of them once; no table or view is a selection.                     *)
TablesFit ==
  /\ \A k \in DOMAIN sourceOps : ops[sourceOps[k].op].kind # "select"
  /\ \A k \in DOMAIN queryOutOps : ops[queryOutOps[k]].kind # "select"
ResultsFit ==
  \A i \in DOMAIN built :
    ops[built[i]].kind = "select" =>
      ops[built[i]].out = <<>> /\ \A j \in DOMAIN built : built[j] = built[i] => j = i
SelectsInv == (step \in Building => TablesFit) /\ (step = "translate" => ResultsFit)

(* Making an operator leaves alone who is not among its inputs. *)
LEMMA CreatedReaders ==
  ASSUME OpsFit(ops), NEW o \in OpIds, NEW in \in Seq(OpIds), NEW kind, NEW par,
         NEW new, new = WithReader(o, kind, par, in)
  PROVE  /\ new[o].kind = kind /\ new[o].out = <<>>
         /\ \A p \in OpIds \ {o} : new[p].kind = ops[p].kind
         /\ \A p \in OpIds \ {o} : p \notin ToSet(in) => new[p].out = ops[p].out
<1>1. new[o].kind = kind /\ new[o].out = <<>>
  BY DEF WithReader, NewOp
<1>2. ASSUME NEW p \in OpIds \ {o}
      PROVE  new[p].kind = ops[p].kind /\ (p \notin ToSet(in) => new[p].out = ops[p].out)
  <2> DEFINE more == [k \in 1..Times(in, p) |-> o]
             out2 == ops[p].out \o more
  <2>1. ops[p] \in Operators
    BY DEF OpsFit
  <2>2. new[p] = [ops[p] EXCEPT !.out = out2]
    BY DEF WithReader
  <2>3. ASSUME p \notin ToSet(in) PROVE out2 = ops[p].out
    <3>1. Times(in, p) = 0
      BY <2>3, TimesType
    <3>2. more = <<>>
      BY <3>1
    <3>3. ops[p].out \in Seq(OpIds)
      BY <2>1, Fields
    <3> HIDE DEF more
    <3>4. QED
      BY <3>2, <3>3
  <2> HIDE DEF out2
  <2>4. new[p].kind = ops[p].kind /\ new[p].out = out2
    BY <2>1, <2>2 DEF Operators
  <2>5. QED
    BY <2>3, <2>4
<1>3. QED
  BY <1>1, <1>2

(* Where the inputs and the other results are on the stack. *)
LEMMA StackSlices ==
  ASSUME NEW s \in Seq(OpIds), NEW n \in 0..Len(s)
  PROVE  /\ \A j \in 1..(Len(s) - n) : SubSeq(s, 1, Len(s) - n)[j] = s[j]
         /\ \A x \in ToSet(SubSeq(s, Len(s) - n + 1, Len(s))) :
              \E j \in (Len(s) - n + 1)..Len(s) : x = s[j]
         /\ Len(s) \in Nat /\ DOMAIN s = 1..Len(s)
<1> DEFINE m == Len(s) - n
           t == SubSeq(s, m + 1, Len(s))
<1>1. Len(s) \in Nat /\ m \in Nat /\ m <= Len(s) /\ n = Len(s) - m /\ DOMAIN s = 1..Len(s)
  OBVIOUS
<1>2. \A j \in 1..m : SubSeq(s, 1, m)[j] = s[j]
  BY <1>1
<1>3. t \in Seq(OpIds) /\ Len(t) = Len(s) - m /\ \A j \in 1..(Len(s) - m) : t[j] = s[m + j]
  BY <1>1
<1> HIDE DEF t, m
<1>4. ASSUME NEW x \in ToSet(t) PROVE \E j \in (m + 1)..Len(s) : x = s[j]
  <2>1. PICK j \in DOMAIN t : x = t[j]
    BY DEF ToSet
  <2>2. j \in 1..(Len(s) - m)
    BY <1>3
  <2>3. x = s[m + j] /\ m + j \in (m + 1)..Len(s)
    BY <1>1, <1>3, <2>1, <2>2
  <2>4. QED
    BY <2>3
<1>5. QED
  BY <1>1, <1>2, <1>4 DEF m, t

(* A translation leaves its selections unread, and puts each on the stack once. *)
LEMMA SelectsStep ==
  ASSUME IInv, SelectsInv, [Next]_planVars
  PROVE  SelectsInv'
<1>1. SUFFICES ASSUME step' \in Building PROVE SelectsInv'
  BY SMTT(40) DEF SelectsInv, Building
<1>2. step \in Building
  BY <1>1
  DEF Next, Load, Translate, Rewrite, AddBaseTable, AddQuery, MapView, Optimize, TranslateSource,
      TranslateSelect, TranslateOperator, Translated, MakeQuerySource, MakeOutput, NextPass,
      RemoveQuerySource, AddSink, MergeSelect, MergeProject, ComparePair, Merge, EndRow, EndLevel, Bypass,
      Pass, Leave, At, CannotMake, Ended, Over, planVars, Building, Broken
<1>3. /\ ToSet(built) \cup ToSet(queryOutOps) \subseteq ToSet(used)
      /\ \A k \in DOMAIN sourceOps : sourceOps[k].op \in ToSet(used)
      /\ TypeOK /\ NetFits /\ GenInv /\ OpsFit(ops) /\ PoolFits(used, free)
  BY <1>2, NetOfInv DEF IInv, RegisteredInv, Building, NetFits
<1>4. TablesFit /\ (step = "translate" => ResultsFit)
  BY <1>2 DEF SelectsInv
<1>5. TablesFit' /\ (step' = "translate" => ResultsFit') => SelectsInv'
  BY DEF SelectsInv
<1>6. CASE UNCHANGED <<ops, maps, built>> /\ (step' = "translate" => step = "translate")
  BY <1>4, <1>5, <1>6 DEF maps, TablesFit, ResultsFit
<1>7. ASSUME UNCHANGED maps, \A p \in ToSet(used) : ops'[p].kind = ops[p].kind PROVE TablesFit'
  <2>1. \A k \in DOMAIN queryOutOps : queryOutOps[k] \in ToSet(used)
    BY <1>3 DEF ToSet
  <2>2. QED
    BY <1>3, <1>4, <1>7, <2>1 DEF TablesFit, maps
<1>8. ASSUME NEW in \in Seq(OpIds), CanMake(in), TakeOp, NEW kind, NEW par,
             ops' = WithReader(Head(free), kind, par, in)
      PROVE  /\ Head(free) \in OpIds /\ Head(free) \notin ToSet(used)
             /\ ops'[Head(free)].kind = kind /\ ops'[Head(free)].out = <<>>
             /\ \A p \in ToSet(used) : ops'[p].kind = ops[p].kind
             /\ \A p \in ToSet(used) : p \notin ToSet(in) => ops'[p].out = ops[p].out
  <2> DEFINE o == Head(free)
             new == WithReader(o, kind, par, in)
  <2>1. o \in OpIds /\ o \notin ToSet(used)
    BY <1>3, <1>8, TakeOpPool DEF CanMake
  <2>2. \A p \in ToSet(used) : p \in OpIds /\ p # o
    BY <1>3, <2>1, InUse DEF PoolFits
  <2>3. new = ops' /\ new = WithReader(o, kind, par, in)
    BY <1>8
  <2> HIDE DEF o, new
  <2>4. /\ new[o].kind = kind /\ new[o].out = <<>>
        /\ \A p \in OpIds \ {o} : new[p].kind = ops[p].kind
        /\ \A p \in OpIds \ {o} : p \notin ToSet(in) => new[p].out = ops[p].out
    BY <1>3, <1>8, <2>1, <2>3, CreatedReaders
  <2>5. QED
    BY <2>1, <2>2, <2>3, <2>4 DEF o
<1>9. CASE AddBaseTable
  <2>1. CASE CanMake(<<>>) /\ TakeOp /\ ops' = WithReader(Head(free), "source", <<NextTable>>, <<>>)
             /\ sourceOps' = Append(sourceOps, [table |-> NextTable, op |-> Head(free)])
             /\ UNCHANGED <<queryOutOps, step>>
    <3> DEFINE e == [table |-> NextTable, op |-> Head(free)]
    <3>0. <<>> \in Seq(OpIds)
      OBVIOUS
    <3>1. /\ Head(free) \in OpIds /\ ops'[Head(free)].kind = "source"
          /\ \A p \in ToSet(used) : ops'[p].kind = ops[p].kind
      BY <1>8, <2>1, <3>0
    <3>2. sourceOps \in Seq([table : Nat, op : OpIds]) /\ e \in [table : Nat, op : OpIds] /\ e.op = Head(free)
      BY <1>3, <3>1 DEF TypeOK, NextTable, IInv, MapsInv
    <3> HIDE DEF e
    <3>a. \A k \in DOMAIN sourceOps' : (k \in DOMAIN sourceOps /\ sourceOps'[k] = sourceOps[k]) \/ sourceOps'[k] = e
      BY <2>1, <3>2, AppendedSource DEF e
    <3>3. \A k \in DOMAIN sourceOps' : ops'[sourceOps'[k].op].kind # "select"
      BY <1>3, <1>4, <3>1, <3>2, <3>a DEF TablesFit
    <3>4. \A k \in DOMAIN queryOutOps : queryOutOps[k] \in ToSet(used)
      BY <1>3 DEF ToSet
    <3>5. TablesFit'
      BY <1>4, <2>1, <3>1, <3>3, <3>4 DEF TablesFit
    <3>6. step' # "translate"
      BY <1>9, <2>1 DEF AddBaseTable
    <3>7. QED
      BY <1>5, <3>5, <3>6
  <2>2. QED
    BY <1>6, <1>9, <2>1 DEF AddBaseTable, CannotMake, net, gen
<1>10. CASE MapView
  <2>1. CASE sourceOps' = Append(sourceOps, [table |-> NextTable, op |-> Last(queryOutOps)])
             /\ UNCHANGED <<queryOutOps, ops, step>>
    <3> DEFINE e == [table |-> NextTable, op |-> Last(queryOutOps)]
    <3>1. queryOutOps \in Seq(OpIds) /\ queryOutOps # <<>>
      BY <1>3, <1>10 DEF MapView, TypeOK
    <3>2. Last(queryOutOps) = queryOutOps[Len(queryOutOps)] /\ Len(queryOutOps) \in DOMAIN queryOutOps
      BY <3>1, LastInUse
    <3>3. ops[Last(queryOutOps)].kind # "select" /\ Last(queryOutOps) \in OpIds
      BY <1>4, <3>1, <3>2 DEF TablesFit
    <3>4. sourceOps \in Seq([table : Nat, op : OpIds]) /\ e \in [table : Nat, op : OpIds] /\ e.op = Last(queryOutOps)
      BY <1>3, <3>3 DEF TypeOK, NextTable, IInv, MapsInv
    <3> HIDE DEF e
    <3>5. \A k \in DOMAIN sourceOps' : ops'[sourceOps'[k].op].kind # "select"
      BY <1>4, <2>1, <3>3, <3>4, AppendedSource DEF e, TablesFit
    <3>6. TablesFit'
      BY <1>4, <2>1, <3>5 DEF TablesFit
    <3>7. step' # "translate"
      BY <1>10, <2>1 DEF MapView
    <3>8. QED
      BY <1>5, <3>6, <3>7
  <2>2. QED
    BY <1>6, <1>10, <2>1 DEF MapView, net, gen
<1>11. ASSUME NEW q \in Queries, AddQuery(q)
       PROVE  SelectsInv'
  <2>1. UNCHANGED <<ops, maps>> /\ built' = <<>>
    BY <1>11 DEF AddQuery, net
  <2>2. TablesFit' /\ ResultsFit'
    BY <1>4, <2>1 DEF TablesFit, ResultsFit, maps
  <2>3. QED
    BY <1>5, <2>2
<1>12. CASE TranslateSource
  <2> DEFINE o == Producer(Head(todo).par[1])
  <2>1. ops[o].kind # "select" /\ o \in OpIds
    <3>1. ops[1].kind # "select"
      BY <1>3 DEF OpsFit
    <3>2. \A k \in DOMAIN sourceOps : sourceOps[k].op \in OpIds /\ ops[sourceOps[k].op].kind # "select"
      BY <1>3, <1>4, InUse DEF TablesFit, PoolFits
    <3>3. QED
      BY <1>3, <3>1, <3>2, ProducerType, OneIsOp DEF TypeOK
  <2>2. built' = Append(built, o) /\ built \in Seq(OpIds) /\ UNCHANGED <<maps, ops>> /\ step = "translate"
    BY <1>3, <1>12 DEF TranslateSource, TypeOK, net
  <2> HIDE DEF o
  <2>3. TablesFit'
    BY <1>4, <2>2 DEF TablesFit, maps
  <2>4. /\ DOMAIN built = 1..Len(built) /\ Len(built) \in Nat /\ DOMAIN built' = 1..(Len(built) + 1)
        /\ \A i \in 1..Len(built) : built'[i] = built[i]
        /\ built'[Len(built) + 1] = o
    BY <2>1, <2>2
  <2>5. ASSUME NEW i \in DOMAIN built', ops[built'[i]].kind = "select"
        PROVE  ops[built'[i]].out = <<>> /\ \A j \in DOMAIN built' : built'[j] = built'[i] => j = i
    <3>1. i \in 1..Len(built) /\ built'[i] = built[i]
      BY <2>1, <2>4, <2>5
    <3>2. ops[built[i]].out = <<>> /\ \A j \in DOMAIN built : built[j] = built[i] => j = i
      BY <1>4, <2>2, <2>4, <2>5, <3>1 DEF ResultsFit
    <3>3. ASSUME NEW j \in DOMAIN built', built'[j] = built'[i] PROVE j = i
      BY <2>1, <2>4, <2>5, <3>1, <3>2, <3>3
    <3>4. QED
      BY <3>1, <3>2, <3>3
  <2>6. ResultsFit'
    BY <2>2, <2>5 DEF ResultsFit
  <2>7. QED
    BY <1>5, <2>3, <2>6
<1>13. CASE TranslateSelect
  <2>1. Inputs[1] \in OpIds
    BY <1>3, <1>13, ItemFits DEF TranslateSelect, OverSelect, IInv, Arity
  <2>2. /\ ops' = [ops EXCEPT ![Inputs[1]].par = Head(todo).par \o ops[Inputs[1]].par]
        /\ UNCHANGED <<maps, built, step>> /\ step = "translate"
    BY <1>13 DEF TranslateSelect
  <2>3. ASSUME NEW p \in OpIds PROVE ops'[p].kind = ops[p].kind /\ ops'[p].out = ops[p].out
    BY <1>3, <2>1, <2>2 DEF OpsFit, Operators
  <2>4. \A p \in ToSet(used) : p \in OpIds
    BY <1>3, InUse DEF PoolFits
  <2>5. TablesFit'
    BY <1>7, <2>2, <2>3, <2>4
  <2>6. \A i \in DOMAIN built : built[i] \in OpIds
    BY <1>3 DEF TypeOK
  <2>7. ResultsFit'
    BY <1>4, <2>2, <2>3, <2>6 DEF ResultsFit
  <2>8. QED
    BY <1>5, <2>5, <2>7
<1>14. CASE TranslateOperator
  <2>1. CASE CanMake(Inputs) /\ TakeOp /\ built' = Append(Others, Head(free)) /\ UNCHANGED maps
             /\ ops' = WithReader(Head(free), Head(todo).kind, Head(todo).par, Inputs)
    <3> DEFINE o == Head(free)
               n == Arity(Head(todo))
               m == Len(built) - n
    <3>1. /\ built \in Seq(OpIds) /\ Inputs \in Seq(OpIds) /\ Others \in Seq(OpIds) /\ Len(Others) = m
          /\ n \in 0..Len(built) /\ Len(Inputs) = n
      <4>1. built \in Seq(OpIds)
        BY <1>3 DEF TypeOK
      <4>2. /\ Inputs \in Seq(OpIds) /\ Others \in Seq(OpIds) /\ Len(Others) = m /\ Len(Inputs) = n
            /\ Len(built) \in Nat /\ n \in 0..2
        BY <1>3, <1>14, ItemFits DEF TranslateOperator
      <4>3. Len(Others) \in Nat
        BY <4>2
      <4> HIDE DEF n
      <4>4. n \in 0..Len(built)
        BY <4>2, <4>3
      <4>5. QED
        BY <4>1, <4>2, <4>4
    <3>2. /\ o \in OpIds /\ o \notin ToSet(used) /\ ops'[o].out = <<>>
          /\ \A p \in ToSet(used) : ops'[p].kind = ops[p].kind
          /\ \A p \in ToSet(used) : p \notin ToSet(Inputs) => ops'[p].out = ops[p].out
      BY <1>8, <2>1, <3>1
    <3>3. /\ \A j \in 1..m : Others[j] = built[j]
          /\ \A x \in ToSet(Inputs) : \E j \in (m + 1)..Len(built) : x = built[j]
          /\ Len(built) \in Nat /\ DOMAIN built = 1..Len(built)
      BY <3>1, StackSlices DEF Others, Inputs
    <3>4. m \in Nat /\ m <= Len(built)
      BY <3>1, <3>3
    <3> HIDE DEF o, n
    <3>5. /\ DOMAIN built' = 1..(m + 1)
          /\ \A j \in 1..m : built'[j] = Others[j]
          /\ built'[m + 1] = o
      BY <2>1, <3>1, <3>2, <3>4 DEF o
    <3> HIDE DEF m
    <3>6. \A j \in 1..m : built'[j] = built[j] /\ built[j] \in ToSet(used) /\ j \in DOMAIN built
      <4>1. \A j \in 1..m : j \in DOMAIN built
        BY <3>3, <3>4
      <4>2. \A j \in DOMAIN built : built[j] \in ToSet(used)
        BY <1>3 DEF ToSet
      <4>3. QED
        BY <3>3, <3>5, <4>1, <4>2
    <3>7. ASSUME NEW i \in DOMAIN built', ops'[built'[i]].kind = "select"
          PROVE  ops'[built'[i]].out = <<>> /\ \A j \in DOMAIN built' : built'[j] = built'[i] => j = i
      <4>1. CASE i = m + 1
        <5>1. built'[i] = o
          BY <3>5, <4>1
        <5>2. ASSUME NEW j \in DOMAIN built', built'[j] = o PROVE j = m + 1
          BY <3>2, <3>4, <3>5, <3>6, <5>2
        <5>3. QED
          BY <3>2, <4>1, <5>1, <5>2
      <4>2. CASE i \in 1..m
        <5>1. built'[i] = built[i] /\ built[i] \in ToSet(used) /\ i \in DOMAIN built
          BY <3>6, <4>2
        <5>2. ops[built[i]].kind = "select"
          BY <3>2, <3>7, <5>1
        <5>3. ops[built[i]].out = <<>> /\ \A j \in DOMAIN built : built[j] = built[i] => j = i
          BY <1>4, <1>14, <5>1, <5>2 DEF ResultsFit, TranslateOperator
        <5>4. built[i] \notin ToSet(Inputs)
          <6>1. ASSUME NEW j \in (m + 1)..Len(built), built[i] = built[j] PROVE FALSE
            <7>1. j \in DOMAIN built /\ j # i
              BY <3>3, <3>4, <4>2
            <7>2. QED
              BY <5>3, <6>1, <7>1
          <6>2. QED
            BY <3>3, <6>1
        <5>5. ASSUME NEW j \in DOMAIN built', built'[j] = built[i] PROVE j = i
          <6>1. j # m + 1
            BY <3>2, <3>5, <5>1, <5>5
          <6>2. j \in 1..m
            BY <3>4, <3>5, <6>1
          <6>3. QED
            BY <3>6, <5>3, <5>5, <6>2
        <5>6. QED
          BY <3>2, <5>1, <5>3, <5>4, <5>5
      <4>3. QED
        BY <3>4, <3>5, <4>1, <4>2
    <3>8. ResultsFit'
      BY <3>7 DEF ResultsFit
    <3>9. TablesFit'
      BY <1>7, <2>1, <3>2
    <3>10. QED
      BY <1>5, <3>8, <3>9
  <2>2. QED
    BY <1>6, <1>14, <2>1 DEF TranslateOperator, CannotMake, net, gen
<1>15. CASE MakeQuerySource
  <2>1. CASE CanMake(built) /\ TakeOp /\ queryOutOps' = Append(queryOutOps, Head(free)) /\ UNCHANGED sourceOps
             /\ ops' = WithReader(Head(free), "qsrc", <<>>, built) /\ step' # "translate"
    <3> DEFINE o == Head(free)
    <3>1. built \in Seq(OpIds) /\ queryOutOps \in Seq(OpIds)
      BY <1>3 DEF TypeOK
    <3>2. o \in OpIds /\ ops'[o].kind = "qsrc" /\ \A p \in ToSet(used) : ops'[p].kind = ops[p].kind
      BY <1>8, <2>1, <3>1
    <3>3. \A k \in DOMAIN queryOutOps : queryOutOps[k] \in ToSet(used)
      BY <1>3 DEF ToSet
    <3> HIDE DEF o
    <3>4. \A k \in DOMAIN queryOutOps' : (k \in DOMAIN queryOutOps /\ queryOutOps'[k] = queryOutOps[k]) \/ queryOutOps'[k] = o
      BY <2>1, <3>1, <3>2, AppendedSource DEF o
    <3>5. \A k \in DOMAIN queryOutOps' : ops'[queryOutOps'[k]].kind # "select"
      BY <1>4, <3>2, <3>3, <3>4 DEF TablesFit
    <3>6. TablesFit'
      BY <1>3, <1>4, <2>1, <3>2, <3>5 DEF TablesFit
    <3>7. QED
      BY <1>5, <2>1, <3>6
  <2>2. QED
    BY <1>6, <1>15, <2>1 DEF MakeQuerySource, CannotMake, net, gen
<1>16. CASE MakeOutput
  <2> DEFINE table == WithReader(Head(free), "output", <<Len(meaning) + 1>>, built)
  <2>1. CASE CanMake(built) /\ TakeOp /\ ops' = Classified(table, job.cls, Head(free)) /\ UNCHANGED maps
             /\ step' = "idle"
    <3>1. built \in Seq(OpIds) /\ Head(free) \in OpIds \ ToSet(used)
      BY <1>3, <2>1, TakeOpPool DEF TypeOK, CanMake
    <3>2. \A p \in ToSet(used) : p \in OpIds /\ p # Head(free)
      BY <1>3, <3>1, InUse DEF PoolFits
    <3>3. ASSUME NEW p \in OpIds \ {Head(free)} PROVE table[p].kind = ops[p].kind
      BY <1>3, <3>1, CreatedReaders
    <3>4. OpsFit(table)
      <4>1. Len(meaning) \in Nat
        BY DEF IInv, MapsInv
      <4>2. <<Len(meaning) + 1>> \in Seq(Nat) /\ "output" \in Kinds \ Through
        BY <4>1 DEF Kinds, Through
      <4>3. QED
        BY <1>3, <2>1, <3>1, <4>2, Created
    <3>5. \A p \in OpIds : table[p] \in Operators
      BY <3>4 DEF OpsFit
    <3> HIDE DEF table
    <3>6. ASSUME NEW p \in OpIds PROVE ops'[p].kind = table[p].kind
      <4>1. ops'[p] \in {table[p], [table[p] EXCEPT !.cls = job.cls]}
        BY <2>1 DEF Classified
      <4>2. QED
        BY <3>5, <4>1 DEF Operators
    <3>7. TablesFit'
      BY <1>7, <2>1, <3>2, <3>3, <3>6
    <3>8. QED
      BY <1>5, <2>1, <3>7
  <2>2. QED
    BY <1>6, <1>16, <2>1 DEF MakeOutput, CannotMake, net, gen
<1>17. CASE Translated
  BY <1>6, <1>17 DEF Translated, net, gen
<1>18. CASE Optimize \/ Rewrite \/ Ended
  <2>1. step' \notin Building \/ UNCHANGED planVars
    BY <1>2, <1>18
    DEF Optimize, Rewrite, NextPass, RemoveQuerySource, AddSink, MergeSelect, MergeProject, ComparePair,
        Merge, EndRow, EndLevel, Bypass, Pass, Leave, At, CannotMake, Ended, Building
  <2>2. QED
    BY <1>1, <1>6, <2>1 DEF planVars, net, gen
<1>19. CASE UNCHANGED planVars
  BY <1>6, <1>19 DEF planVars, net, gen
<1>20. QED
  BY <1>9, <1>10, <1>11, <1>12, <1>13, <1>14, <1>15, <1>16, <1>17, <1>18, <1>19 DEF Next, Load, Translate

-----------------------------------------------------------------------------
(* Every step.                                                                *)

(* A projection of a plan has one list of expressions. *)
LEMMA ItemProjects ==
  ASSUME TypeOK, GenInv, step = "translate", todo # <<>>
  PROVE  Head(todo).kind = "project" => Len(Head(todo).par) = 1
<1>1. PICK q \in Queries : \E n \in 0..Len(q.plan) :
           /\ todo = SubSeq(q.plan, n + 1, Len(q.plan))
           /\ Len(built) + Branches(q.plan, n) = Leaves(q.plan, n)
  BY DEF GenInv
<1>2. PICK n \in 0..Len(q.plan) :
           /\ todo = SubSeq(q.plan, n + 1, Len(q.plan))
           /\ Len(built) + Branches(q.plan, n) = Leaves(q.plan, n)
  BY <1>1
<1>3. IsPlan(q.plan)
  BY PlanConstants
<1>4. q.plan \in Seq([kind : LogicalKinds, par : Seq(Nat)])
  BY <1>3 DEF IsPlan
<1>a. Len(built) \in Nat
  BY DEF TypeOK
<1>b. n + 1 \in 1..Len(q.plan) /\ Head(todo) = q.plan[n + 1]
  BY <1>2, <1>a, PlanStep
<1>5. n + 1 \in DOMAIN q.plan /\ Head(todo) = q.plan[n + 1]
  BY <1>4, <1>b
<1>6. \A k \in DOMAIN q.plan : q.plan[k].kind = "project" => Len(q.plan[k].par) = 1
  BY <1>3 DEF IsPlan
<1>7. QED
  BY <1>5, <1>6

(* mk_select adds its predicate to a selection that nobody reads yet. *)
LEMMA PredicateAdded ==
  ASSUME NetFits, NetWired, Acyclic(ops), NEW s \in ToSet(used), ops[s].kind = "select", ops[s].out = <<>>,
         NEW par \in Seq(Nat), NEW new, new = [ops EXCEPT ![s].par = par], NEW m
  PROVE  /\ Acyclic(new)
         /\ ProjectsFit(ops) => ProjectsFit(new)
         /\ Faithful(ops, used, m) => Faithful(new, used, m)
<1>1. OpsFit(ops) /\ used \in Seq(OpIds) /\ Wired(ops, ToSet(used)) /\ s \in OpIds
  BY InUse DEF NetFits, PoolFits, NetWired
<1>2. OpsFit(new)
  BY <1>1, NewPar
<1>3. \A p \in OpIds : new[p].kind = ops[p].kind /\ new[p].in = ops[p].in
  BY <1>1 DEF OpsFit, Operators
<1>4. \A p \in OpIds \ {s} : new[p].par = ops[p].par
  BY <1>1 DEF OpsFit
<1>5. Acyclic(new)
  BY <1>1, <1>3, InputInPool DEF Acyclic, Ranked
<1>6. PICK S \in SUBSET OpIds : S = ToSet(used) \ {s}
  BY <1>1, InUse
<1>7. Closed(new, S)
  <2>1. ASSUME NEW o \in S, NEW k \in DOMAIN new[o].in PROVE new[o].in[k] \in S
    <3>1. o \in ToSet(used) /\ o # s /\ new[o].in = ops[o].in /\ k \in DOMAIN ops[o].in
      BY <1>3, <1>6, <2>1
    <3>2. ops[o].in[k] \in ToSet(used)
      BY <1>1, <3>1, UsedClosed DEF Closed
    <3>3. ops[o].in[k] # s
      <4>1. ASSUME ops[o].in[k] = s PROVE FALSE
        <5>1. s \in ToSet(ops[o].in)
          BY <3>1, <4>1 DEF ToSet
        <5>2. PICK N \in SUBSET OpIds : N = ToSet(used)
          BY <1>1, InUse
        <5>3. o \in ToSet(ops[s].out)
          BY <1>1, <3>1, <5>1, <5>2, ReaderListed
        <5>4. QED
          BY <5>3 DEF ToSet
      <4>2. QED
        BY <4>1
    <3>4. QED
      BY <1>6, <3>1, <3>2, <3>3
  <2>2. QED
    BY <2>1 DEF Closed
<1>8. \A o \in S : Meaning(new)[o] = Meaning(ops)[o]
  <2>1. LeftAlone(ops, new, S)
    BY <1>3, <1>4, <1>6 DEF LeftAlone
  <2>2. QED
    BY <1>1, <1>2, <1>5, <1>7, <2>1, LeftAloneMeans
<1>9. ASSUME Faithful(ops, used, m) PROVE Faithful(new, used, m)
  <2>1. \A o \in ToSet(used) : ops[o].kind = "output" => o \in S /\ o \in OpIds \ {s}
    BY <1>1, <1>6, InUse
  <2>2. \A o \in ToSet(used) : ops[o].kind = "output" =>
           /\ o \in ToSet(used) /\ new[o].kind = "output" /\ new[o].par = ops[o].par
           /\ Meaning(new)[o] = Meaning(ops)[o]
    BY <1>3, <1>4, <1>8, <2>1
  <2>3. QED
    BY <1>9, <2>2, KeptStays, ZenonT(60)
<1>10. ProjectsFit(ops) => ProjectsFit(new)
  BY <1>3, <1>4 DEF ProjectsFit
<1>11. QED
  BY <1>5, <1>9, <1>10

(* mergeOperators: the readers of an operator read from its equal.           *)
LEMMA SharedKept ==
  ASSUME NetFits, Acyclic(ops), NEW a \in OpIds, NEW b \in OpIds, CompareOperators(a, b) = "same",
         ops[b].kind \notin NeverShared, Merge(a, b), NEW m
  PROVE  /\ Acyclic(ops')
         /\ ProjectsFit(ops) => ProjectsFit(ops')
         /\ Faithful(ops, used, m) => Faithful(ops', used', m)
<1>1. OpsFit(ops) /\ PoolFits(used, free)
  BY DEF NetFits
<1>2. CASE UNCHANGED net
  BY <1>2 DEF net
<1>3. CASE ops' = [ops EXCEPT ![a].cls = Lowest(a, b)] /\ UNCHANGED <<used, free>>
  <2>1. Lowest(a, b) \in Nat
    BY <1>1, Fields DEF OpsFit, Lowest
  <2>2. \A p \in OpIds : /\ ops'[p].kind = ops[p].kind /\ ops'[p].par = ops[p].par
                         /\ ops'[p].in = ops[p].in
    BY <1>1, <1>3 DEF OpsFit, Operators
  <2>3. OpsFit(ops')
    <3>1. \A p \in OpIds : ops'[p] \in Operators
      BY <1>1, <1>3, <2>1 DEF OpsFit, Operators
    <3>2. ops' = [p \in OpIds |-> ops'[p]]
      BY <1>1, <1>3 DEF OpsFit
    <3>3. QED
      BY <1>1, <2>2, <3>1, <3>2, OneIsOp DEF OpsFit
  <2>4. PICK new : new = ops'
    OBVIOUS
  <2>5. Acyclic(new) /\ \A o \in OpIds : Meaning(new)[o] = Meaning(ops)[o]
    BY <1>1, <2>2, <2>3, <2>4, SameMeans
  <2>6. \A o \in ToSet(used) : o \in OpIds
    BY <1>1, InUse DEF PoolFits
  <2>7. Faithful(ops, used, m) => Faithful(new, used, m)
    BY <2>2, <2>4, <2>5, <2>6, KeptStays
  <2>8. QED
    BY <1>3, <2>2, <2>4, <2>5, <2>7 DEF ProjectsFit
<1>4. CASE ops' = Merged(a, b) /\ used' = (IF Attached(b) THEN Without(used, b) ELSE used)
  <2>1. PICK new : new = Merged(a, b)
    OBVIOUS
  <2>2. /\ Acyclic(new)
        /\ \A o \in OpIds : /\ Meaning(new)[o] = Meaning(ops)[o]
                            /\ new[o].kind = ops[o].kind /\ new[o].par = ops[o].par
    BY <1>1, <2>1, MergedMeans
  <2>3. b # 1
    BY <1>1 DEF OpsFit, NeverShared
  <2>4. \A o \in ToSet(used) : o \in OpIds /\ (o # b => o \in ToSet(used'))
    BY <1>1, <1>4, <2>3, InUse, WithoutPool DEF PoolFits
  <2>5. Faithful(ops, used, m) => Faithful(new, used', m)
    BY <2>2, <2>4, KeptStays DEF NeverShared
  <2>6. QED
    BY <1>4, <2>1, <2>2, <2>5 DEF ProjectsFit
<1>5. QED
  BY <1>2, <1>3, <1>4 DEF Merge, net

(* The network has no cycle, and the outputs compute what they did before:    *)
(* projections are merged only where ReadByNoOther and ReadersTold hold.     *)
StaysFaithful ==
  /\ Acyclic(ops') /\ ProjectsFit(ops')
  /\ Faithful(ops, used, meaning) /\ ReadByNoOther /\ ReadersTold => Faithful(ops', used', meaning')

(* Every step keeps what the outputs compute. *)
LEMMA MeansStep ==
  ASSUME IInv, SelectsInv, Acyclic(ops), ProjectsFit(ops), [Next]_planVars
  PROVE  StaysFaithful
<1>1. NetFits /\ TypeOK /\ OpsFit(ops) /\ PoolFits(used, free) /\ used \in Seq(OpIds) /\ GenInv
  BY NetOfInv DEF IInv, NetFits, PoolFits
<1>2. step \in Unshared => NetWired
  BY DEF IInv, NetInv, EdgesAgree, NewerFirst, NetWired, Wired, InOrder
<1>3. CASE UNCHANGED <<net, meaning>>
  BY <1>3 DEF net, StaysFaithful
<1>4. ASSUME step \in Unshared, NEW in \in Seq(OpIds), ToSet(in) \subseteq ToSet(used), CanMake(in), TakeOp,
             NEW kind \in Kinds, NEW par \in Seq(Nat), kind \in Through => Len(in) = 1,
             kind = "project" => Len(par) = 1,
             ops' = WithReader(Head(free), kind, par, in), UNCHANGED meaning
      PROVE  StaysFaithful
  <2>1. PICK new : new = WithReader(Head(free), kind, par, in)
    OBVIOUS
  <2>2. NetFits /\ NetWired
    BY <1>1, <1>2, <1>4
  <2>3. Grown(new, used', Head(free), kind, par, in)
    BY <1>4, <2>1, <2>2, CreatedKept
  <2>4. ProjectsFit(new)
    BY <1>4, <2>3 DEF Grown, ProjectsFit
  <2>5. Acyclic(new) /\ (Faithful(ops, used, meaning) => Faithful(new, used', meaning))
    BY <2>3 DEF Grown
  <2>6. QED
    BY <1>4, <2>1, <2>4, <2>5 DEF StaysFaithful
<1>5. CASE AddBaseTable
  <2>1. CASE CanMake(<<>>) /\ TakeOp /\ ops' = WithReader(Head(free), "source", <<NextTable>>, <<>>)
             /\ UNCHANGED meaning /\ step = "idle"
    <3>1. NextTable \in Nat
      BY DEF IInv, TypeOK, MapsInv, NextTable
    <3>2. <<NextTable>> \in Seq(Nat) /\ <<>> \in Seq(OpIds) /\ "source" \in Kinds \ Through
      BY <3>1 DEF Kinds, Through
    <3>3. ToSet(<<>>) \subseteq ToSet(used) /\ step \in Unshared
      BY <2>1 DEF ToSet, Unshared
    <3>4. QED
      BY <1>4, <2>1, <3>2, <3>3
  <2>2. QED
    BY <1>3, <1>5, <2>1 DEF AddBaseTable, CannotMake
<1>6. CASE TranslateSelect
  <2> DEFINE s == Inputs[1]
  <2>1. Head(todo).par \in Seq(Nat) /\ Inputs \in Seq(OpIds) /\ Len(Inputs) = 1 /\ ToSet(Inputs) \subseteq ToSet(built)
    BY <1>1, <1>6, ItemFits DEF TranslateSelect, OverSelect, Arity
  <2>2. s \in OpIds /\ s \in ToSet(built)
    <3>1. PICK in \in Seq(OpIds) : in = Inputs /\ Len(in) = 1
      BY <2>1
    <3>2. in[1] \in ToSet(in) /\ in[1] \in OpIds
      BY <3>1 DEF ToSet
    <3>3. QED
      BY <2>1, <3>1, <3>2
  <2>3. /\ ops' = [ops EXCEPT ![s].par = Head(todo).par \o ops[s].par] /\ ops[s].kind = "select"
        /\ UNCHANGED <<used, meaning>> /\ step = "translate"
    BY <1>6 DEF TranslateSelect, OverSelect
  <2> HIDE DEF s
  <2>4. step \in Unshared /\ ToSet(built) \subseteq ToSet(used)
    BY <2>3 DEF Unshared, IInv, RegisteredInv
  <2>5. ops[s].out = <<>>
    <3>1. PICK i \in DOMAIN built : built[i] = s
      BY <2>2 DEF ToSet
    <3>2. QED
      BY <2>3, <3>1 DEF SelectsInv, ResultsFit
  <2>6. Head(todo).par \o ops[s].par \in Seq(Nat)
    BY <1>1, <2>1, <2>2, Fields DEF OpsFit
  <2>7. PICK m : m = meaning
    OBVIOUS
  <2>8. PICK x \in ToSet(used) : x = s
    BY <2>2, <2>4
  <2>9. PICK p \in Seq(Nat) : p = Head(todo).par \o ops[s].par
    BY <2>6
  <2>10. PICK new : new = [ops EXCEPT ![x].par = p]
    OBVIOUS
  <2>11. /\ Acyclic(new)
         /\ ProjectsFit(ops) => ProjectsFit(new)
         /\ Faithful(ops, used, m) => Faithful(new, used, m)
    BY <1>1, <1>2, <2>3, <2>4, <2>5, <2>8, <2>10, PredicateAdded
  <2>12. new = ops'
    BY <2>3, <2>8, <2>9, <2>10
  <2>13. QED
    BY <2>3, <2>7, <2>11, <2>12 DEF StaysFaithful
<1>7. CASE TranslateOperator
  <2>1. /\ Head(todo).kind \in Kinds /\ Head(todo).par \in Seq(Nat)
        /\ Inputs \in Seq(OpIds) /\ ToSet(Inputs) \subseteq ToSet(used)
        /\ Head(todo).kind \in Through => Len(Inputs) = 1
        /\ Head(todo).kind = "project" => Len(Head(todo).par) = 1
    BY <1>1, <1>7, ItemFits, ItemProjects
    DEF TranslateOperator, IInv, RegisteredInv, Arity, LogicalKinds, Kinds, Through
  <2>2. CASE CanMake(Inputs) /\ TakeOp /\ ops' = WithReader(Head(free), Head(todo).kind, Head(todo).par, Inputs)
             /\ UNCHANGED meaning
    <3>1. step \in Unshared
      BY <1>7 DEF TranslateOperator, Unshared
    <3>2. QED
      BY <1>4, <2>1, <2>2, <3>1
  <2>3. QED
    BY <1>3, <1>7, <2>2 DEF TranslateOperator, CannotMake
<1>8. CASE MakeQuerySource
  <2>1. built \in Seq(OpIds) /\ ToSet(built) \subseteq ToSet(used) /\ Len(built) = 1 /\ step \in Unshared
    BY <1>1, <1>8 DEF MakeQuerySource, IInv, RegisteredInv, TypeOK, GenInv, Unshared
  <2>2. CASE CanMake(built) /\ TakeOp /\ ops' = WithReader(Head(free), "qsrc", <<>>, built) /\ UNCHANGED meaning
    <3>1. <<>> \in Seq(Nat) /\ "qsrc" \in Kinds
      BY DEF Kinds
    <3>2. QED
      BY <1>4, <2>1, <2>2, <3>1
  <2>3. QED
    BY <1>3, <1>8, <2>2 DEF MakeQuerySource, CannotMake
<1>9. CASE MakeOutput
  <2>1. /\ built \in Seq(OpIds) /\ ToSet(built) \subseteq ToSet(used) /\ Len(built) = 1 /\ step \in Unshared
        /\ Len(meaning) \in Nat /\ job.cls \in Nat
    BY <1>1, <1>9 DEF MakeOutput, IInv, RegisteredInv, TypeOK, GenInv, MapsInv, Unshared
  <2>2. CASE /\ CanMake(built) /\ TakeOp
             /\ ops' = Classified(WithReader(Head(free), "output", <<Len(meaning) + 1>>, built), job.cls, Head(free))
             /\ meaning' = Append(meaning, Computes[built[1]])
    <3>1. PICK n \in Nat : n = Len(meaning)
      BY <2>1
    <3>2. PICK m : m = meaning
      OBVIOUS
    <3>3. PICK o : o = Head(free)
      OBVIOUS
    <3>4. PICK table : table = WithReader(o, "output", <<n + 1>>, built)
      OBVIOUS
    <3>5. <<n + 1>> \in Seq(Nat) /\ "output" \in Kinds \ Through
      BY DEF Kinds, Through
    <3>6. /\ Acyclic(table) /\ OpsFit(table)
          /\ Faithful(ops, used, m) => Faithful(table, used', m)
          /\ \A p \in OpIds \ {o} : table[p].kind = ops[p].kind /\ table[p].par = ops[p].par
          /\ o \in ToSet(used') /\ table[o].kind = "output" /\ table[o].par = <<n + 1>>
          /\ Meaning(table)[o] = Means("output", <<n + 1>>, [k \in DOMAIN built |-> Meaning(ops)[built[k]]])
      <4>1. NetFits /\ NetWired /\ CanMake(built) /\ TakeOp
        BY <1>1, <1>2, <2>1, <2>2
      <4>2. PICK par \in Seq(Nat) : par = <<n + 1>>
        BY <3>5
      <4>3. PICK in \in Seq(OpIds) : in = built /\ ToSet(in) \subseteq ToSet(used)
        BY <2>1
      <4>4. table = WithReader(Head(free), "output", par, in)
        BY <3>3, <3>4, <4>2, <4>3
      <4>5. "output" \in Kinds /\ ("output" \in Through => Len(in) = 1) /\ CanMake(in)
        BY <3>5, <4>1, <4>3
      <4>6. Grown(table, used', Head(free), "output", par, in)
        BY <4>1, <4>3, <4>4, <4>5, CreatedKept
      <4>7. QED
        BY <3>3, <4>2, <4>3, <4>6 DEF Grown
    <3>7. Meaning(table)[o] = Meaning(ops)[built[1]]
      BY <2>1, <3>6 DEF Means
    <3>8. PICK new : new = Classified(table, job.cls, o)
      OBVIOUS
    <3>9. new = ops'
      BY <2>2, <3>1, <3>3, <3>4, <3>8
    <3>10. OpsFit(new)
      BY <2>1, <3>6, <3>8, ClassifiedFits
    <3>11. ASSUME NEW p \in OpIds
           PROVE  new[p].kind = table[p].kind /\ new[p].par = table[p].par /\ new[p].in = table[p].in
      <4>1. new[p] \in {table[p], [table[p] EXCEPT !.cls = job.cls]}
        BY <3>8 DEF Classified
      <4>2. table[p] \in Operators
        BY <3>6 DEF OpsFit
      <4>3. QED
        BY <4>1, <4>2 DEF Operators
    <3>12. Acyclic(new) /\ \A p \in OpIds : Meaning(new)[p] = Meaning(table)[p]
      BY <3>6, <3>10, <3>11, SameMeans
    <3>13. ProjectsFit(new)
      BY <3>6, <3>11 DEF ProjectsFit
    <3>14. o \in OpIds /\ \A p \in ToSet(used') : p \in OpIds
      BY <1>1, <2>2, <3>3, TakeOpPool, InUse DEF CanMake, PoolFits
    <3>15. ASSUME Faithful(ops, used, m) PROVE Faithful(new, used', meaning')
      <4>1. /\ DOMAIN meaning' = 1..(n + 1) /\ meaning'[n + 1] = Computes[built[1]]
            /\ \A k \in 1..n : meaning'[k] = m[k]
        <5>1. PICK c : c = Computes[built[1]]
          OBVIOUS
        <5>2. meaning' = Append(m, c) /\ m = [k \in 1..Len(m) |-> m[k]] /\ Len(m) = n /\ n \in Nat
          BY <2>2, <3>1, <3>2, <5>1 DEF IInv, MapsInv
        <5>3. QED
          BY <5>1, <5>2
      <4>2. ASSUME NEW k \in 1..n
            PROVE  \E x \in ToSet(used') : new[x].kind = "output" /\ new[x].par = <<k>> /\ Meaning(new)[x] = m[k]
        <5>1. k \in DOMAIN m
          BY <3>1, <3>2 DEF IInv, MapsInv
        <5>2. PICK x \in ToSet(used') :
                table[x].kind = "output" /\ table[x].par = <<k>> /\ Meaning(table)[x] = m[k]
          BY <3>6, <3>15, <5>1 DEF Faithful
        <5>3. QED
          BY <3>11, <3>12, <3>14, <5>2
      <4>3. /\ o \in ToSet(used') /\ new[o].kind = "output" /\ new[o].par = <<n + 1>>
            /\ Meaning(new)[o] = meaning'[n + 1]
        BY <3>6, <3>7, <3>11, <3>12, <3>14, <4>1, ComputesMeaning
      <4>4. ASSUME NEW k \in DOMAIN meaning'
            PROVE  \E x \in ToSet(used') :
                     new[x].kind = "output" /\ new[x].par = <<k>> /\ Meaning(new)[x] = meaning'[k]
        <5>1. k \in 1..n \/ k = n + 1
          BY <3>1, <4>1
        <5>2. QED
          BY <4>1, <4>2, <4>3, <5>1
      <4>5. QED
        BY <4>4 DEF Faithful
    <3>16. QED
      BY <3>2, <3>9, <3>12, <3>13, <3>15 DEF StaysFaithful
  <2>3. QED
    BY <1>3, <1>9, <2>2 DEF MakeOutput, CannotMake
<1>10. CASE RemoveQuerySource
  <2>1. cursor \in ToSet(used) /\ step \in Unshared /\ UNCHANGED meaning
    BY <1>10 DEF RemoveQuerySource, Bypass, Pass, Leave, At, IInv, PlacesInv, Passes, Unshared
  <2>2. CASE ops[cursor].kind = "qsrc" /\ Bypass(ops)
    <3>1. Replaces(ops, cursor, Below, ToSet(used)) /\ OutputsIn(ops, ToSet(used))
      BY <1>1, <1>2, <2>1, <2>2, UnsourcedReplaces
    <3>2. PICK S \in SUBSET OpIds : S = ToSet(used)
      BY <1>1, InUse
    <3>3. PICK m : m = meaning
      OBVIOUS
    <3>4. PICK table : table = ops
      OBVIOUS
    <3>5. /\ Acyclic(ops')
          /\ ProjectsFit(ops) /\ ProjectsFit(table) => ProjectsFit(ops')
          /\ OutputsIn(table, S) /\ Faithful(ops, used, m) => Faithful(ops', used', m)
      BY <1>1, <2>1, <2>2, <3>1, <3>2, <3>4, BypassedKept DEF Through
    <3>6. QED
      BY <2>1, <3>1, <3>2, <3>3, <3>4, <3>5 DEF StaysFaithful
  <2>3. QED
    BY <1>3, <1>10, <2>1, <2>2 DEF RemoveQuerySource, Pass
<1>11. CASE AddSink
  <2>1. cursor \in ToSet(used) /\ cursor \in OpIds /\ step \in Unshared
    BY <1>11 DEF AddSink, At, IInv, TypeOK, PlacesInv, Passes, Unshared
  <2>2. CASE CanMake(<<cursor>>) /\ TakeOp /\ ops' = WithReader(Head(free), "sink", <<>>, <<cursor>>)
             /\ UNCHANGED meaning
    <3>1. /\ <<cursor>> \in Seq(OpIds) /\ ToSet(<<cursor>>) \subseteq ToSet(used)
          /\ <<>> \in Seq(Nat) /\ "sink" \in Kinds \ Through
      BY <2>1 DEF ToSet, Kinds, Through
    <3>2. QED
      BY <1>4, <2>1, <2>2, <3>1
  <2>3. QED
    BY <1>3, <1>11, <2>2 DEF AddSink, CannotMake, Pass, Leave
<1>12. CASE MergeSelect
  <2>1. cursor \in ToSet(used) /\ cursor \in OpIds /\ step \in Unshared /\ UNCHANGED meaning
    BY <1>1, <1>12, InUse
    DEF MergeSelect, Bypass, Pass, Leave, At, IInv, PlacesInv, Passes, PoolFits, Unshared
  <2>2. CASE MergesSelect /\ Bypass([ops EXCEPT ![Below].par = ops[Below].par \o ops[cursor].par])
    <3>1. ops[cursor].kind = "select" /\ "select" \in Through /\ ops[Below].kind \in {"select", "join"}
      BY <2>2 DEF MergesSelect, Through
    <3>2. Below \in OpIds
      BY <1>1, <2>1, <3>1, Fields DEF Below, OpsFit
    <3>3. ops[Below].par \o ops[cursor].par \in Seq(Nat)
      BY <1>1, <2>1, <3>2, Fields DEF OpsFit
    <3>4. PICK table : table = [ops EXCEPT ![Below].par = ops[Below].par \o ops[cursor].par]
      OBVIOUS
    <3>5. OpsFit(table)
      BY <1>1, <3>2, <3>3, <3>4, NewPar
    <3>6. \A p \in OpIds : table[p].kind = ops[p].kind
      BY <1>1, <3>2, <3>4 DEF OpsFit, Operators
    <3>7. ProjectsFit(table)
      <4>1. \A p \in OpIds \ {Below} : table[p].par = ops[p].par
        BY <1>1, <3>2, <3>4 DEF OpsFit
      <4>2. QED
        BY <3>1, <3>6, <4>1 DEF ProjectsFit
    <3>8. Bypass(table)
      BY <2>2, <3>4
    <3>9. Replaces(table, cursor, Below, ToSet(used)) /\ OutputsIn(table, ToSet(used))
      BY <1>1, <1>2, <2>1, <2>2, <3>4, SelectReplaces
    <3>10. PICK S \in SUBSET OpIds : S = ToSet(used)
      BY <1>1, InUse
    <3>11. PICK m : m = meaning
      OBVIOUS
    <3>12. table[cursor].kind \in Through /\ ops[cursor].kind \in Through
      BY <2>1, <3>1, <3>6
    <3>13. Replaces(table, cursor, Below, S) /\ OutputsIn(table, S)
      BY <3>9, <3>10
    <3>14. /\ Acyclic(ops')
           /\ ProjectsFit(ops) /\ ProjectsFit(table) => ProjectsFit(ops')
           /\ OutputsIn(table, S) /\ Faithful(ops, used, m) => Faithful(ops', used', m)
      BY <1>1, <2>1, <3>5, <3>8, <3>12, <3>13, BypassedKept
    <3>15. QED
      BY <2>1, <3>7, <3>11, <3>13, <3>14 DEF StaysFaithful
  <2>3. QED
    BY <1>3, <1>12, <2>1, <2>2 DEF MergeSelect, Pass
<1>13. CASE MergeProject
  <2>1. cursor \in ToSet(used) /\ cursor \in OpIds /\ At("projects") /\ UNCHANGED meaning
    BY <1>1, <1>13, InUse DEF MergeProject, Bypass, Pass, Leave, At, IInv, PlacesInv, Passes, PoolFits
  <2>2. CASE MergesProject /\ Bypass([ops EXCEPT ![Below].kind = "joinproject",
                                                 ![Below].par = ops[Below].par \o ops[cursor].par])
    <3>1. ops[cursor].kind = "project" /\ "project" \in Through /\ ops[Below].kind = "join"
      BY <2>2 DEF MergesProject, Through
    <3>2. Below \in OpIds
      BY <1>1, <2>1, <3>1, Fields DEF Below, OpsFit
    <3>a. ops[Below].par \o ops[cursor].par \in Seq(Nat)
      BY <1>1, <2>1, <3>2, Fields DEF OpsFit
    <3>3. PICK par \in Seq(Nat) : par = ops[Below].par \o ops[cursor].par
      BY <3>a
    <3>4. PICK table : /\ Bypass(table) /\ OpsFit(table)
                       /\ Joined(table, Below, ops[Below].par \o ops[cursor].par)
      <4> DEFINE T == [ops EXCEPT ![Below].kind = "joinproject", ![Below].par = par]
      <4>1. OpsFit(T)
        BY <1>1, <3>1, <3>2, Altered DEF Kinds, Through
      <4>2. Joined(T, Below, par)
        BY <1>1, <3>2, JoinedTable
      <4>3. Bypass(T)
        BY <2>2, <3>3, Zenon
      <4> HIDE DEF T
      <4>4. QED
        BY <3>3, <4>1, <4>2, <4>3
    <3>5. Len(ops[cursor].par) = 1
      BY <2>1, <3>1 DEF ProjectsFit
    <3>6. /\ Replaces(table, cursor, Below, {})
          /\ ReadByNoOther /\ ReadersTold => Replaces(table, cursor, Below, Working) /\ OutputsIn(table, Working)
      BY <1>1, <2>1, <2>2, <3>4, <3>5, ProjectReplaces
    <3>7. table[cursor].kind \in Through /\ ops[cursor].kind \in Through /\ ProjectsFit(table)
      BY <2>1, <3>1, <3>2, <3>4 DEF Joined, ProjectsFit, Through
    <3>8. PICK m : m = meaning
      OBVIOUS
    <3>9. Acyclic(ops') /\ ProjectsFit(ops')
      <4>1. {} \in SUBSET OpIds
        OBVIOUS
      <4>2. QED
        BY <1>1, <2>1, <3>4, <3>6, <3>7, <4>1, BypassedKept
    <3>10. ASSUME ReadByNoOther, ReadersTold, Faithful(ops, used, m) PROVE Faithful(ops', used', m)
      <4>1. PICK S \in SUBSET OpIds : S = Working
        BY DEF Working
      <4>2. Replaces(table, cursor, Below, S) /\ OutputsIn(table, S)
        BY <3>6, <3>10, <4>1
      <4>3. QED
        BY <1>1, <2>1, <3>4, <3>7, <3>10, <4>2, BypassedKept
    <3>11. QED
      BY <2>1, <3>8, <3>9, <3>10 DEF StaysFaithful
  <2>3. QED
    BY <1>3, <1>13, <2>1, <2>2 DEF MergeProject, Pass
<1>14. CASE ComparePair
  <2>1. UNCHANGED meaning
    BY <1>14 DEF ComparePair
  <2>2. PICK a \in OpIds, b \in OpIds :
          \/ CompareOperators(a, b) = "same" /\ ops[b].kind \notin NeverShared /\ Merge(a, b)
          \/ UNCHANGED net
    BY <1>14, PairOf
  <2>3. CASE CompareOperators(a, b) = "same" /\ ops[b].kind \notin NeverShared /\ Merge(a, b)
    <3>1. PICK m : m = meaning
      OBVIOUS
    <3>2. /\ Acyclic(ops')
          /\ ProjectsFit(ops) => ProjectsFit(ops')
          /\ Faithful(ops, used, m) => Faithful(ops', used', m)
      BY <1>1, <2>3, SharedKept
    <3>3. QED
      BY <2>1, <3>1, <3>2 DEF StaysFaithful
  <2>4. QED
    BY <1>3, <2>1, <2>2, <2>3
<1>15. QED
  BY <1>3, <1>5, <1>6, <1>7, <1>8, <1>9, <1>10, <1>11, <1>12, <1>13, <1>14
  DEF Next, planVars, Load, Translate, Rewrite, AddQuery, MapView, Optimize, TranslateSource,
      Translated, NextPass, EndRow, EndLevel, Ended, net

(* What Init has: operators that read nothing. *)
LEMMA InitMeans == Init => SelectsInv /\ Acyclic(ops) /\ ProjectsFit(ops) /\ MeaningKept
<1> SUFFICES ASSUME Init PROVE SelectsInv /\ Acyclic(ops) /\ ProjectsFit(ops) /\ MeaningKept
  OBVIOUS
<1>1. \A o \in OpIds : ops[o].in = <<>> /\ ops[o].kind \in {"ssgen", "sink"}
  BY DEF Init, Blank
<1>2. Acyclic(ops)
  <2>1. PICK r : r = [o \in OpIds |-> 0]
    OBVIOUS
  <2>2. 0 \in Nat /\ r \in [OpIds -> 0..0]
    BY <2>1
  <2>3. Ranked(ops, r)
    BY <1>1 DEF Ranked
  <2>4. QED
    BY <2>2, <2>3 DEF Acyclic
<1>3. SelectsInv
  BY <1>1, OneIsOp DEF Init, SelectsInv, TablesFit, ResultsFit, Building
<1>4. ProjectsFit(ops)
  BY <1>1 DEF ProjectsFit
<1>5. MeaningKept
  BY DEF Init, MeaningKept
<1>6. QED
  BY <1>2, <1>3, <1>4, <1>5

(* The network never has a cycle, however operators are shared and taken out. *)
MeansInv == IInv /\ SelectsInv /\ Acyclic(ops) /\ ProjectsFit(ops)

(* Computes has a value in every state there is. *)
LEMMA MeansInvariance == Spec => []MeansInv
<1>1. Init => MeansInv
  BY InitHolds, InitMeans DEF MeansInv
<1>2. MeansInv /\ [Next]_planVars => MeansInv'
  BY InductiveStep, SelectsStep, MeansStep DEF MeansInv, StaysFaithful
<1>3. QED
  BY <1>1, <1>2, PTL DEF Spec

(* However operators are shared, lost, taken out and given back, the network   *)
(* never has a cycle: what walks along it comes to an end.                   *)
THEOREM NeverCyclic == Spec => []Acyclic(ops)
<1>1. MeansInv => Acyclic(ops)
  BY DEF MeansInv
<1>2. QED
  BY <1>1, MeansInvariance, PTL

(* Until projections are merged into joins, every output goes on computing    *)
(* what its query asked for: the translation, the removal of query sources,   *)
(* the sinks, the merging of selections and the sharing of operators keep it. *)
THEOREM MeaningKeptShared == Spec => [](step \notin {"projects", "done", "refused"} => MeaningKept)
<1> DEFINE Early == step \notin {"projects", "done", "refused"}
<1>1. Init => (Early => MeaningKept)
  BY InitMeans, SMTT(40)
<1>2. ASSUME MeansInv, Early => MeaningKept, [Next]_planVars PROVE (Early => MeaningKept)'
  <2>1. ASSUME Early' PROVE Early
    BY <1>2, <2>1
    DEF Next, Load, Translate, Rewrite, AddBaseTable, AddQuery, MapView, Optimize, TranslateSource,
        TranslateSelect, TranslateOperator, Translated, MakeQuerySource, MakeOutput, NextPass,
        RemoveQuerySource, AddSink, MergeSelect, MergeProject, ComparePair, Merge, EndRow, EndLevel, Bypass,
        Pass, Leave, At, CannotMake, Ended, Over, planVars, Broken
  <2>2. Early => ReadByNoOther /\ ReadersTold
    BY DEF ReadByNoOther, ReadersTold, At
  <2>3. StaysFaithful
    BY <1>2, MeansStep DEF MeansInv
  <2>4. QED
    BY <1>2, <2>1, <2>2, <2>3, KeptMeaning, SMTT(40) DEF StaysFaithful
<1>3. QED
  BY <1>1, <1>2, MeansInvariance, PTL DEF Spec

(* To the end the outputs keep their meaning, as long as the two comments of   *)
(* mergeProjectsToJoin's helpers are right: nothing that an output is computed *)
(* from reads the join but for the projection, and whatever reads the         *)
(* projection is connected to the join.                                      *)
THEOREM MeaningKeptToTheEnd == Spec => ([](ReadByNoOther /\ ReadersTold) => []MeaningKept)
<1>1. Init => MeaningKept
  BY InitMeans
<1>2. ASSUME MeansInv, ReadByNoOther /\ ReadersTold, MeaningKept, [Next]_planVars PROVE MeaningKept'
  <2>1. StaysFaithful
    BY <1>2, MeansStep DEF MeansInv
  <2>2. QED
    BY <1>2, <2>1, KeptMeaning DEF StaysFaithful
<1>3. QED
  BY <1>1, <1>2, MeansInvariance, PTL DEF Spec

-----------------------------------------------------------------------------
(* The operators given back.                                                  *)

(* The outputs in use, and all they are computed from, are kept from the free  *)
(* operators.                                                                *)
Shelters(table, u, f, S) ==
  /\ Closed(table, S)
  /\ \A o \in ToSet(u) : table[o].kind = "output" => o \in S
  /\ S \cap ToSet(f) = {}
Sheltered(table, u, f) == \E S \in SUBSET OpIds : Shelters(table, u, f, S)

(* While operators are shared, those that were in use before are connected to  *)
(* one another only, by what they read and by who reads them, and the levels *)
(* are made of them.                                                         *)
Encloses(table, u, f, l, N) ==
  /\ Shelters(table, u, f, N)
  /\ \A o \in N : ToSet(table[o].out) \subseteq N
  /\ ToSet(u) \cup l \subseteq N
Enclosed(table, u, f, l) == \E N \in SUBSET OpIds : Encloses(table, u, f, l, N)
Levels == ToSet(level) \cup ToSet(following)

ShelterInv ==
  /\ step \notin Unshared => Sheltered(ops, used, free)
  /\ step = "share" => Enclosed(ops, used, free, Levels)

(* A sequence is one of its own elements. *)
LEMMA OwnElements ==
  ASSUME NEW S, NEW s \in Seq(S)
  PROVE  s \in Seq(ToSet(s)) /\ \A t \in Seq(ToSet(s)) : ToSet(t) \subseteq ToSet(s)
<1>1. \A k \in 1..Len(s) : s[k] \in ToSet(s)
  BY DEF ToSet
<1>2. Len(s) \in Nat /\ s = [k \in 1..Len(s) |-> s[k]]
  OBVIOUS
<1> DEFINE T == ToSet(s)
<1> HIDE DEF T
<1>3. s \in Seq(T)
  BY <1>1, <1>2 DEF T
<1>4. \A t \in Seq(T) : ToSet(t) \subseteq T
  BY DEF ToSet
<1>5. QED
  BY <1>3, <1>4 DEF T

(* What an operator is computed from is in whatever is closed and has it.     *)
LEMMA UpstreamLeast ==
  ASSUME OpsFit(ops), Acyclic(ops), NEW S \in SUBSET OpIds, Closed(ops, S), NEW o \in S
  PROVE  Upstream[o] \subseteq S
<1>0. PICK n \in Nat : \E r \in [OpIds -> 0..n] : Ranked(ops, r)
  BY DEF Acyclic
<1>1. PICK r \in [OpIds -> 0..n] : Ranked(ops, r)
  BY <1>0
<1> DEFINE Good(p) == p \in S => Upstream[p] \subseteq S
           E == [p \in OpIds |-> ToSet(ops[p].in)]
           T == {p \in OpIds : Good(p)}
<1>2. ASSUME NEW p \in OpIds, \A q \in ToSet(ops[p].in) : Good(q) PROVE Good(p)
  <2>1. \A x : x \in Upstream[p] <=> x = p \/ \E q \in ToSet(ops[p].in) : x \in Upstream[q]
    BY UpstreamExists DEF UpOf
  <2>2. p \in S => ToSet(ops[p].in) \subseteq S
    BY DEF Closed, ToSet
  <2>3. QED
    BY <1>2, <2>1, <2>2
<1> HIDE DEF Good
<1>3. \A p \in OpIds : E[p] = ToSet(ops[p].in)
  OBVIOUS
<1> HIDE DEF E
<1>4. ASSUME NEW p \in OpIds, NEW q \in E[p] PROVE q \in OpIds /\ r[q] < r[p]
  BY <1>1, <1>3, <1>4, InputInPool DEF Ranked, ToSet
<1>5. ASSUME NEW p \in OpIds, \A q \in E[p] : q \in T PROVE p \in T
  BY <1>2, <1>3, <1>5
<1> HIDE DEF T
<1>6. OpIds \subseteq T
  BY <1>4, <1>5, AlongRanks
<1>7. QED
  BY <1>6 DEF T, Good

(* Nothing an output is computed from is free, if all that is sheltered.      *)
LEMMA ShelteredUnread ==
  ASSUME NetFits, Acyclic(ops), Sheltered(ops, used, free)
  PROVE  FreedUnread /\ Working \cap ToSet(free) = {}
<1>1. PICK S \in SUBSET OpIds : Shelters(ops, used, free, S)
  BY DEF Sheltered
<1>2. ASSUME NEW out \in ToSet(used), ops[out].kind = "output"
      PROVE  Upstream[out] \subseteq S
  BY <1>1, <1>2, UpstreamLeast DEF Shelters, NetFits
<1>3. S \cap ToSet(free) = {}
  BY <1>1 DEF Shelters
<1>4. QED
  BY <1>2, <1>3 DEF FreedUnread, Working

(* While the network is built, what is in use is enclosed in itself.          *)
LEMMA UsedSheltered ==
  ASSUME NetFits, NetWired
  PROVE  Encloses(ops, used, free, {}, ToSet(used)) /\ ToSet(used) \in SUBSET OpIds
<1>1. Closed(ops, ToSet(used)) /\ ToSet(used) \in SUBSET OpIds
  BY UsedClosed DEF NetFits, PoolFits, NetWired
<1>2. ToSet(used) \cap ToSet(free) = {}
  BY DEF NetFits, PoolFits
<1>3. \A o \in ToSet(used) : ToSet(ops[o].out) \subseteq ToSet(used)
  BY DEF NetWired, Wired
<1>4. QED
  BY <1>1, <1>2, <1>3 DEF Encloses, Shelters

(* mergeOperators connects the readers of an operator to its equal: both are   *)
(* of those that were in use.                                                *)
LEMMA SharedEnclosed ==
  ASSUME NetFits, NEW N \in SUBSET OpIds, NEW l, Encloses(ops, used, free, l, N),
         NEW a \in N, NEW b \in N, ops[b].kind \notin NeverShared, Merge(a, b)
  PROVE  Encloses(ops', used', free', l, N)
<1>1. OpsFit(ops) /\ PoolFits(used, free) /\ a \in OpIds /\ b \in OpIds
  BY DEF NetFits
<1>2. /\ Closed(ops, N) /\ N \cap ToSet(free) = {} /\ ToSet(used) \cup l \subseteq N
      /\ \A o \in N : ToSet(ops[o].out) \subseteq N
  BY DEF Encloses, Shelters
<1>3. CASE UNCHANGED net
  BY <1>3 DEF net
<1>4. CASE ops' = [ops EXCEPT ![a].cls = Lowest(a, b)] /\ UNCHANGED <<used, free>>
  <2>1. \A p \in OpIds : /\ ops'[p].kind = ops[p].kind /\ ops'[p].in = ops[p].in /\ ops'[p].out = ops[p].out
    BY <1>1, <1>4 DEF OpsFit, Operators
  <2>2. QED
    BY <1>2, <1>4, <2>1 DEF Encloses, Shelters, Closed
<1>5. CASE ops' = Merged(a, b) /\ used' = (IF Attached(b) THEN Without(used, b) ELSE used) /\ free' = free
  <2>1. LeftOut(ops, ops', b, a)
    BY <1>1, <1>5, MergedInputs
  <2>2. ASSUME NEW o \in N PROVE ToSet(ops'[o].out) \subseteq N
    <3>1. /\ ops[o] \in Operators /\ ops[o].out \in Seq(OpIds)
          /\ ops[a].out \in Seq(OpIds) /\ ops[b].out \in Seq(OpIds)
      BY <1>1, Fields DEF OpsFit
    <3>a. o \in OpIds
      OBVIOUS
    <3>b. Merged(a, b)[o].out = IF o = a THEN ops[o].out \o ops[b].out
                                ELSE IF o \in Feeding(b) THEN Without(ops[o].out, b) ELSE ops[o].out
      BY <3>1, <3>a DEF Merged, Operators
    <3>2. ops'[o].out = IF o = a THEN ops[o].out \o ops[b].out
                        ELSE IF o \in Feeding(b) THEN Without(ops[o].out, b) ELSE ops[o].out
      BY <1>5, <3>b
    <3>3. ToSet(ops[o].out \o ops[b].out) = ToSet(ops[o].out) \cup ToSet(ops[b].out)
      BY <3>1, ConcatSet
    <3>4. ToSet(Without(ops[o].out, b)) \subseteq ToSet(ops[o].out)
      BY <3>1, WithoutType
    <3>5. QED
      BY <1>2, <3>2, <3>3, <3>4
  <2>3. ASSUME NEW o \in N, NEW k \in DOMAIN ops'[o].in PROVE ops'[o].in[k] \in N
    BY <1>2, <2>1, <2>3 DEF LeftOut, Closed
  <2>4. ToSet(used') \subseteq ToSet(used)
    BY <1>1, <1>5, WithoutType DEF PoolFits
  <2>5. QED
    BY <1>2, <1>5, <2>2, <2>3, <2>4 DEF Encloses, Shelters, Closed
<1>6. QED
  BY <1>3, <1>4, <1>5 DEF Merge, net

(* mergeProjectsToJoin gives the projection back: nothing an output is         *)
(* computed from reads it any more, if its list of readers was complete.     *)
LEMMA ProjectSheltered ==
  ASSUME NetFits, Acyclic(ops), Sheltered(ops, used, free), cursor \in ToSet(used),
         At("projects"), MergesProject, ReadersTold,
         NEW table, OpsFit(table), NEW par, Joined(table, Below, par), Bypass(table)
  PROVE  Sheltered(ops', used', free')
<1>1. CASE UNCHANGED net
  BY <1>1 DEF net
<1>2. CASE ops' = Spliced(table, cursor) /\ FreeOp(cursor)
  <2>1. /\ OpsFit(ops) /\ PoolFits(used, free) /\ cursor \in OpIds
        /\ ops[cursor].kind = "project" /\ ops[Below].kind = "join"
    BY InUse DEF NetFits, PoolFits, MergesProject
  <2>2. DOMAIN ops[cursor].in = 1..1 /\ Below \in OpIds /\ Below = ops[cursor].in[1]
    BY <2>1, InputInPool DEF OpsFit, Through, Below
  <2>3. Below # cursor
    BY <2>1
  <2>4. LeftOut(table, ops', cursor, Below)
    BY <1>2, <2>1, <2>2, SplicedInputs DEF Joined
  <2>5. Closed(ops, Working) /\ \A o \in ToSet(used) : ops[o].kind = "output" => o \in Working
    BY WorkingClosed
  <2>6. Working \cap ToSet(free) = {} /\ Working \subseteq OpIds
    BY ShelteredUnread DEF Working
  <2>7. \A o \in Working : cursor \in ToSet(ops[o].in) => o \in ToSet(ops[cursor].out)
    BY DEF ReadersTold, Working
  <2> DEFINE S == Working \ {cursor}
  <2>8. ASSUME NEW o \in S, NEW k \in DOMAIN ops'[o].in PROVE ops'[o].in[k] \in S
    <3>1. /\ k \in DOMAIN ops[o].in /\ ops[o].in[k] \in Working
          /\ ops'[o].in[k] = IF o \in ToSet(ops[cursor].out) /\ ops[o].in[k] = cursor THEN Below ELSE ops[o].in[k]
      BY <2>1, <2>4, <2>5, <2>6, <2>8 DEF LeftOut, Joined, Closed
    <3>2. ops[o].in[k] = cursor => o \in ToSet(ops[cursor].out) /\ Below \in Working
      BY <2>2, <2>5, <2>7, <3>1 DEF ToSet, Closed
    <3>3. QED
      BY <2>3, <3>1, <3>2
  <2>9. ToSet(used') = ToSet(used) \ {cursor}
    <3>1. cursor # 1
      BY <2>1 DEF OpsFit
    <3>2. QED
      BY <1>2, <2>1, <3>1, FreeOpPool
  <2>10. ASSUME NEW o \in ToSet(used'), ops'[o].kind = "output" PROVE o \in S
    <3>1. o \in ToSet(used) /\ o # cursor /\ o \in OpIds
      BY <2>1, <2>9, InUse DEF PoolFits
    <3>2. table[o].kind = "output"
      BY <2>4, <2>10, <3>1 DEF LeftOut
    <3>3. ops[o].kind = "output"
      BY <2>1, <2>2, <3>1, <3>2 DEF Joined
    <3>4. QED
      BY <2>5, <3>1, <3>3
  <2>11. ToSet(free') = ToSet(free) \cup {cursor}
    <3>1. cursor \notin ToSet(free) /\ free \in Seq(OpIds) /\ IsInjective(free)
      BY <2>1 DEF PoolFits
    <3>2. QED
      BY <1>2, <2>1, <3>1, Prepended DEF FreeOp
  <2>12. S \in SUBSET OpIds /\ S \cap ToSet(free') = {}
    BY <2>6, <2>11
  <2> HIDE DEF S
  <2>13. QED
    BY <2>8, <2>10, <2>12 DEF Sheltered, Shelters, Closed
<1>3. QED
  BY <1>1, <1>2 DEF Bypass, net

(* Every step keeps what the outputs are computed from out of the free list.   *)
LEMMA ShelterStep ==
  ASSUME MeansInv, ShelterInv, ReadersTold, [Next]_planVars
  PROVE  ShelterInv'
<1>1. NetFits /\ TypeOK /\ OpsFit(ops) /\ PoolFits(used, free) /\ Acyclic(ops)
  BY NetOfInv DEF MeansInv, IInv, NetFits
<1>2. step \in Unshared => NetWired
  BY DEF MeansInv, IInv, NetInv, EdgesAgree, NewerFirst, NetWired, Wired, InOrder
<1>3. Sheltered(ops, used, free)
  BY <1>1, <1>2, UsedSheltered DEF ShelterInv, Sheltered, Encloses
<1>4. CASE UNCHANGED net /\ step' # "share"
  BY <1>3, <1>4 DEF ShelterInv, net
<1>5. CASE step' \in Unshared
  BY <1>5 DEF ShelterInv, Unshared
<1>6. CASE NextPass
  <2>1. CASE step = "selects" /\ level' = Sources /\ following' = <<>> /\ UNCHANGED net
    <3>1. Encloses(ops, used, free, {}, ToSet(used)) /\ ToSet(used) \in SUBSET OpIds
      BY <1>1, <1>2, <2>1, UsedSheltered DEF Unshared
    <3>2. ToSet(Sources) \subseteq ToSet(used)
      BY <1>1, OwnElements, PickedPositions DEF Sources, PoolFits
    <3>3. Levels' \subseteq ToSet(used)
      BY <2>1, <3>2 DEF Levels, ToSet
    <3>4. Encloses(ops, used, free, Levels', ToSet(used))
      BY <3>1, <3>3 DEF Encloses
    <3>5. Enclosed(ops, used, free, Levels') /\ UNCHANGED <<ops, used, free>>
      BY <2>1, <3>1, <3>4 DEF Enclosed, net
    <3>6. QED
      BY <1>3, <3>5 DEF ShelterInv
  <2>2. CASE step # "selects"
    BY <1>4, <1>6, <2>2 DEF NextPass
  <2>3. QED
    BY <1>6, <2>1, <2>2 DEF NextPass
<1>7. CASE ComparePair
  <2>1. step = "share"
    BY <1>7 DEF ComparePair
  <2>2. PICK N \in SUBSET OpIds : Encloses(ops, used, free, Levels, N)
    BY <2>1 DEF ShelterInv, Enclosed
  <2>3. PICK a \in OpIds, b \in OpIds :
           /\ a = level[row] /\ b = level[col] /\ row \in 1..Len(level) /\ col \in 1..Len(level)
           /\ \/ ops[b].kind \notin NeverShared /\ Merge(a, b)
                 /\ level' = ErasedFrom(level, col) /\ UNCHANGED following
              \/ UNCHANGED <<net, level, following>>
    BY <1>7, PairOf DEF MeansInv
  <2>4. a \in N /\ b \in N
    <3>1. a \in ToSet(level) /\ b \in ToSet(level)
      BY <1>1, <2>3 DEF ToSet, TypeOK
    <3>2. QED
      BY <2>2, <3>1 DEF Encloses, Levels
  <2>5. CASE /\ ops[b].kind \notin NeverShared /\ Merge(a, b)
             /\ level' = ErasedFrom(level, col) /\ UNCHANGED following
    <3>1. PICK l : l = Levels
      OBVIOUS
    <3>2. Encloses(ops', used', free', l, N)
      BY <1>1, <2>2, <2>4, <2>5, <3>1, SharedEnclosed
    <3>3. ToSet(level') \subseteq ToSet(level)
      BY <1>1, <2>3, <2>5, OwnElements, RemoveAtType DEF ErasedFrom, TypeOK
    <3>4. Levels' \subseteq l
      BY <2>5, <3>1, <3>3 DEF Levels
    <3>5. Encloses(ops', used', free', Levels', N)
      BY <3>2, <3>4 DEF Encloses
    <3>6. QED
      BY <3>5 DEF ShelterInv, Sheltered, Enclosed, Encloses
  <2>6. CASE UNCHANGED <<net, level, following>>
    <3>1. UNCHANGED <<ops, used, free>> /\ Levels' = Levels
      BY <2>6 DEF net, Levels
    <3>2. QED
      BY <1>3, <2>1, <3>1 DEF ShelterInv
  <2>7. QED
    BY <2>3, <2>5, <2>6
<1>8. CASE EndRow
  <2>1. step = "share" /\ row \in 1..Len(level) /\ level \in Seq(OpIds) /\ following \in Seq(OpIds)
    BY <1>1, <1>8 DEF EndRow, TypeOK, MeansInv, IInv, PlacesInv
  <2>2. PICK N \in SUBSET OpIds : Encloses(ops, used, free, Levels, N)
    BY <2>1 DEF ShelterInv, Enclosed
  <2>3. level[row] \in N /\ level[row] \in OpIds
    BY <2>1, <2>2 DEF Encloses, Levels, ToSet
  <2>4. ops[level[row]].out \in Seq(OpIds) /\ ToSet(ops[level[row]].out) \subseteq N
    BY <1>1, <2>2, <2>3, Fields DEF OpsFit, Encloses
  <2>5. ToSet(following') = ToSet(following) \cup ToSet(ops[level[row]].out) /\ UNCHANGED <<level, net>>
    BY <1>8, <2>1, <2>4, ConcatSet DEF EndRow
  <2>6. Encloses(ops, used, free, Levels', N) /\ UNCHANGED <<ops, used, free>>
    BY <2>2, <2>4, <2>5 DEF Encloses, Levels, net
  <2>7. QED
    BY <1>3, <2>6 DEF ShelterInv, Enclosed
<1>9. CASE EndLevel
  <2>1. step = "share" /\ following \in Seq(OpIds) /\ UNCHANGED net
    BY <1>1, <1>9 DEF EndLevel, TypeOK
  <2>2. CASE level' = Distinct(following) /\ following' = <<>>
    <3>1. ToSet(Distinct(following)) \subseteq ToSet(following)
      BY <2>1, OwnElements, PickedPositions DEF Distinct
    <3>2. Levels' \subseteq Levels
      BY <2>2, <3>1 DEF Levels, ToSet
    <3>3. Enclosed(ops, used, free, Levels') /\ UNCHANGED <<ops, used, free>>
      BY <2>1, <3>2 DEF ShelterInv, Enclosed, Encloses, net
    <3>4. QED
      BY <1>3, <3>3 DEF ShelterInv
  <2>3. QED
    BY <1>4, <1>9, <2>1, <2>2 DEF EndLevel
<1>10. CASE MergeProject
  <2>1. cursor \in ToSet(used) /\ cursor \in OpIds /\ At("projects") /\ step' # "share"
    BY <1>1, <1>10, InUse
    DEF MergeProject, Bypass, Pass, Leave, At, MeansInv, IInv, PlacesInv, Passes, PoolFits
  <2>2. CASE MergesProject /\ Bypass([ops EXCEPT ![Below].kind = "joinproject",
                                                 ![Below].par = ops[Below].par \o ops[cursor].par])
    <3>1. ops[cursor].kind = "project" /\ "project" \in Through /\ ops[Below].kind = "join"
      BY <2>2 DEF MergesProject, Through
    <3>2. Below \in OpIds
      BY <1>1, <2>1, <3>1, Fields DEF Below, OpsFit
    <3>3. ops[Below].par \o ops[cursor].par \in Seq(Nat)
      BY <1>1, <2>1, <3>2, Fields DEF OpsFit
    <3>4. PICK par \in Seq(Nat) : par = ops[Below].par \o ops[cursor].par
      BY <3>3
    <3>5. PICK table : Bypass(table) /\ OpsFit(table) /\ Joined(table, Below, par)
      <4> DEFINE T == [ops EXCEPT ![Below].kind = "joinproject", ![Below].par = par]
      <4>1. OpsFit(T)
        BY <1>1, <3>1, <3>2, Altered DEF Kinds, Through
      <4>2. Joined(T, Below, par)
        BY <1>1, <3>2, JoinedTable
      <4>3. Bypass(T)
        BY <2>2, <3>4, Zenon
      <4> HIDE DEF T
      <4>4. QED
        BY <4>1, <4>2, <4>3
    <3>6. Sheltered(ops', used', free')
      BY <1>1, <1>3, <2>1, <2>2, <3>5, ProjectSheltered
    <3>7. QED
      BY <2>1, <3>6 DEF ShelterInv
  <2>3. QED
    BY <1>4, <1>10, <2>1, <2>2 DEF MergeProject, Pass
<1>11. CASE RemoveQuerySource \/ AddSink \/ MergeSelect
  <2>1. step' \in Unshared \/ (UNCHANGED net /\ step' # "share")
    BY <1>11 DEF RemoveQuerySource, AddSink, MergeSelect, At, Bypass, Pass, Leave, CannotMake, Unshared
  <2>2. QED
    BY <1>4, <1>5, <2>1
<1>12. CASE Load \/ Optimize \/ Translate
  <2>1. step' \in Unshared \/ (UNCHANGED net /\ step' # "share")
    BY <1>12 DEF Load, Optimize, Translate, AddBaseTable, AddQuery, MapView, TranslateSource, TranslateSelect,
                 TranslateOperator, Translated, MakeQuerySource, MakeOutput, CannotMake, Unshared
  <2>2. QED
    BY <1>4, <1>5, <2>1
<1>13. CASE UNCHANGED planVars
  <2>1. UNCHANGED <<ops, used, free, step, level, following>>
    BY <1>13 DEF planVars, net, sharing
  <2>2. QED
    BY <2>1 DEF ShelterInv, Levels
<1>14. QED
  BY <1>6, <1>7, <1>8, <1>9, <1>10, <1>11, <1>12, <1>13 DEF Next, Rewrite, Ended

(* In all states FreedUnread follows from that, or from what is in use.        *)
LEMMA ShelterUnread == MeansInv /\ ShelterInv => FreedUnread
<1> SUFFICES ASSUME MeansInv, ShelterInv PROVE FreedUnread
  OBVIOUS
<1>1. NetFits /\ Acyclic(ops)
  BY NetOfInv DEF MeansInv, IInv
<1>2. step \in Unshared => NetWired
  BY DEF MeansInv, IInv, NetInv, EdgesAgree, NewerFirst, NetWired, Wired, InOrder
<1>3. Sheltered(ops, used, free)
  BY <1>1, <1>2, UsedSheltered DEF ShelterInv, Sheltered, Encloses
<1>4. QED
  BY <1>1, <1>3, ShelteredUnread

(* Until projections are merged into joins, nothing that an output is computed *)
(* from is given back: query sources and selections are freed when all who   *)
(* read them are connected to what they read.                                *)
THEOREM FreedUnreadShared == Spec => [](step \notin {"projects", "done", "refused"} => FreedUnread)
<1> DEFINE Early == step \notin {"projects", "done", "refused"}
<1>1. Init => (Early => ShelterInv)
  BY DEF Init, ShelterInv, Unshared
<1>2. ASSUME MeansInv, Early => ShelterInv, [Next]_planVars PROVE (Early => ShelterInv)'
  <2>1. ASSUME Early' PROVE Early
    BY <1>2, <2>1
    DEF Next, Load, Translate, Rewrite, AddBaseTable, AddQuery, MapView, Optimize, TranslateSource,
        TranslateSelect, TranslateOperator, Translated, MakeQuerySource, MakeOutput, NextPass,
        RemoveQuerySource, AddSink, MergeSelect, MergeProject, ComparePair, Merge, EndRow, EndLevel, Bypass,
        Pass, Leave, At, CannotMake, Ended, Over, planVars, Broken
  <2>2. Early => ReadersTold
    BY DEF ReadersTold, At
  <2>3. QED
    BY <1>2, <2>1, <2>2, ShelterStep
<1>3. MeansInv /\ (Early => ShelterInv) => (Early => FreedUnread)
  BY ShelterUnread
<1>4. QED
  BY <1>1, <1>2, <1>3, MeansInvariance, PTL DEF Spec

(* To the end nothing that an output is computed from is given back, as long   *)
(* as the comment of shortCircuitInputOutput is right of the projections that *)
(* are removed: whoever reads one is connected to the join.                  *)
THEOREM NothingFreedIsRead == Spec => ([]ReadersTold => []FreedUnread)
<1>1. Init => ShelterInv
  BY DEF Init, ShelterInv, Unshared
<1>2. MeansInv /\ ShelterInv /\ ReadersTold /\ [Next]_planVars => ShelterInv'
  BY ShelterStep
<1>3. MeansInv /\ ShelterInv => FreedUnread
  BY ShelterUnread
<1>4. QED
  BY <1>1, <1>2, <1>3, MeansInvariance, PTL DEF Spec

-----------------------------------------------------------------------------
(* The classes of operators.                                                  *)

(* Whose class counts for an operator: its readers', but for sinks. *)
Heard(table, o) == {p \in ToSet(table[o].out) : table[p].kind # "sink"}

(* The class of an operator is the highest of its readers. *)
Highest(table, o) ==
  /\ \A p \in Heard(table, o) : table[p].cls # 0 => table[o].cls # 0 /\ table[o].cls <= table[p].cls
  /\ table[o].cls # 0 => \E p \in Heard(table, o) : table[p].cls = table[o].cls

ClassesAgree(table, N) ==
  \A o \in N :
    /\ table[o].kind \notin Ends => Highest(table, o)
    /\ table[o].kind = "sink" => Heard(table, o) = {}

OutputsClassed(table, N) == \A o \in N : table[o].kind = "output" => table[o].cls # 0

(* The network has no cycle from its other end either, whoever is in use. *)
OutRanked(table, r) == \A o \in OpIds : \A p \in ToSet(table[o].out) : r[p] < r[o]
OutAcyclic(table) == \E n \in Nat : \E r \in [OpIds -> 0..n] : OutRanked(table, r)

(* The system stream generator reads nothing. *)
StreamGenerated(table) == \A o \in OpIds : table[o].kind = "ssgen" => DOMAIN table[o].in = {}

(* The table has a new operator o, which reads from its inputs. *)
Makes(new, o, kind, in) ==
  /\ new[o].kind = kind /\ new[o].out = <<>> /\ new[o].cls = ops[o].cls /\ new[o].in = in
  /\ \A p \in OpIds \ {o} :
       /\ new[p].kind = ops[p].kind /\ new[p].cls = ops[p].cls /\ new[p].in = ops[p].in
       /\ ToSet(new[p].out) = ToSet(ops[p].out) \cup (IF p \in ToSet(in) THEN {o} ELSE {})

(* So it is when an operator is made. *)
LEMMA CreatedFields ==
  ASSUME OpsFit(ops), NEW o \in OpIds, NEW in \in Seq(OpIds), NEW kind, NEW par,
         NEW new, new = WithReader(o, kind, par, in)
  PROVE  Makes(new, o, kind, in)
<1>1. new[o].kind = kind /\ new[o].out = <<>> /\ new[o].cls = ops[o].cls /\ new[o].in = in
  BY DEF WithReader, NewOp
<1>2. ASSUME NEW p \in OpIds \ {o}
      PROVE  /\ new[p].kind = ops[p].kind /\ new[p].cls = ops[p].cls /\ new[p].in = ops[p].in
             /\ ToSet(new[p].out) = ToSet(ops[p].out) \cup (IF p \in ToSet(in) THEN {o} ELSE {})
  <2> DEFINE more == [k \in 1..Times(in, p) |-> o]
             out2 == ops[p].out \o more
  <2>1. ops[p] \in Operators /\ ops[p].out \in Seq(OpIds)
    BY Fields DEF OpsFit
  <2>2. new[p] = [ops[p] EXCEPT !.out = out2]
    BY DEF WithReader
  <2>3. Times(in, p) \in Nat /\ (Times(in, p) = 0 <=> p \notin ToSet(in))
    BY TimesType
  <2>4. more \in Seq(OpIds) /\ ToSet(more) = IF p \in ToSet(in) THEN {o} ELSE {}
    <3>1. more \in Seq(OpIds) /\ DOMAIN more = 1..Times(in, p)
      BY <2>3
    <3>2. CASE Times(in, p) = 0
      BY <2>3, <3>1, <3>2 DEF ToSet
    <3>3. CASE Times(in, p) # 0
      <4>1. 1 \in 1..Times(in, p)
        BY <2>3, <3>3
      <4>2. ToSet(more) = {o}
        BY <4>1 DEF ToSet
      <4>3. QED
        BY <2>3, <3>1, <3>3, <4>2
    <3>4. QED
      BY <3>2, <3>3
  <2> HIDE DEF more
  <2>5. ToSet(out2) = ToSet(ops[p].out) \cup ToSet(more)
    BY <2>1, <2>4, ConcatSet
  <2> HIDE DEF out2
  <2>6. new[p].kind = ops[p].kind /\ new[p].cls = ops[p].cls /\ new[p].in = ops[p].in /\ new[p].out = out2
    BY <2>1, <2>2 DEF Operators
  <2>7. QED
    BY <2>4, <2>5, <2>6
<1>3. QED
  BY <1>1, <1>2 DEF Makes

(* Making an operator leaves the classes the highest: it has no readers yet, and *)
(* counts as a reader only if it has a class.                                *)
LEMMA CreatedClasses ==
  ASSUME NEW N \in SUBSET OpIds, Wired(ops, N), NEW o \in OpIds \ N, NEW in, NEW kind,
         NEW new, Makes(new, o, kind, in), ClassesAgree(ops, N), kind = "sink" \/ (ops[o].cls = 0 /\ \A p \in N : ops[p].kind # "sink")
  PROVE  ClassesAgree(new, N \cup {o})
<1>1. /\ new[o].kind = kind /\ new[o].out = <<>> /\ new[o].cls = ops[o].cls
      /\ \A p \in OpIds \ {o} :
           /\ new[p].kind = ops[p].kind /\ new[p].cls = ops[p].cls
           /\ ToSet(new[p].out) = ToSet(ops[p].out) \cup (IF p \in ToSet(in) THEN {o} ELSE {})
  BY DEF Makes
<1>2. ASSUME NEW p \in N
      PROVE  /\ new[p].kind = ops[p].kind /\ new[p].cls = ops[p].cls
             /\ Heard(ops, p) \subseteq Heard(new, p)
             /\ \A x \in Heard(new, p) : x \in Heard(ops, p) \/ (x = o /\ kind # "sink")
             /\ \A x \in Heard(ops, p) : new[x].cls = ops[x].cls
  <2>1. \A x \in ToSet(ops[p].out) : x \in N
    BY DEF Wired
  <2>2. \A x \in N : x \in OpIds \ {o}
    OBVIOUS
  <2>3. QED
    BY <1>1, <2>1, <2>2 DEF Heard
<1>3. ASSUME NEW p \in N, ops[p].kind \notin Ends PROVE Highest(new, p)
  <2>1. Highest(ops, p)
    BY <1>3 DEF ClassesAgree
  <2>2. QED
    BY <1>1, <1>2, <2>1 DEF Highest
<1>4. ASSUME NEW p \in N, ops[p].kind = "sink" PROVE Heard(new, p) = {}
  BY <1>2, <1>4 DEF ClassesAgree
<1>5. Heard(new, o) = {}
  BY <1>1 DEF Heard, ToSet
<1>6. kind \notin Ends => Highest(new, o)
  BY <1>1, <1>5 DEF Highest, Ends
<1>7. QED
  BY <1>1, <1>2, <1>3, <1>4, <1>5, <1>6 DEF ClassesAgree

(* Nor does it make a cycle. *)
LEMMA CreatedOutAcyclic ==
  ASSUME OpsFit(ops), OutAcyclic(ops), NEW o \in OpIds, NEW in, NEW kind,
         NEW new, Makes(new, o, kind, in)
  PROVE  OutAcyclic(new)
<1>0. PICK n \in Nat : \E r \in [OpIds -> 0..n] : OutRanked(ops, r)
  BY DEF OutAcyclic
<1>1. PICK r \in [OpIds -> 0..n] : OutRanked(ops, r)
  BY <1>0
<1>2. \A p \in OpIds : r[p] \in Nat /\ r[p] <= n
  OBVIOUS
<1>3. /\ new[o].out = <<>>
      /\ \A p \in OpIds \ {o} : ToSet(new[p].out) = ToSet(ops[p].out) \cup (IF p \in ToSet(in) THEN {o} ELSE {})
  BY DEF Makes
<1> DEFINE s == [p \in OpIds |-> IF p = o THEN 0 ELSE r[p] + 1]
<1>4. s \in [OpIds -> 0..(n + 1)] /\ \A p \in OpIds : s[p] = IF p = o THEN 0 ELSE r[p] + 1
  BY <1>2
<1> HIDE DEF s
<1>5. ASSUME NEW p \in OpIds, NEW q \in ToSet(new[p].out) PROVE s[q] < s[p]
  <2>1. p # o
    BY <1>3, <1>5 DEF ToSet
  <2>2. q = o \/ q \in ToSet(ops[p].out)
    BY <1>3, <1>5, <2>1
  <2>3. q \in OpIds
    <3>1. ops[p].out \in Seq(OpIds)
      BY Fields DEF OpsFit
    <3>2. QED
      BY <2>2, <3>1, InUse
  <2>4. q # o => r[q] < r[p]
    BY <1>1, <2>2 DEF OutRanked
  <2>5. QED
    BY <1>2, <1>4, <2>1, <2>3, <2>4
<1>6. OutRanked(new, s) /\ n + 1 \in Nat
  BY <1>5 DEF OutRanked
<1>7. QED
  BY <1>4, <1>6 DEF OutAcyclic

(* The readers of c are readers of its input i now, and c is one no more. *)
TakenOut(table, new, c, i) ==
  \A p \in OpIds :
    /\ new[p].kind = table[p].kind /\ new[p].cls = table[p].cls
    /\ DOMAIN new[p].in = DOMAIN table[p].in
    /\ ToSet(new[p].out) = IF p = i THEN (ToSet(table[i].out) \ {c}) \cup ToSet(table[c].out)
                           ELSE ToSet(table[p].out)

(* So it is after shortCircuitInputOutput. *)
LEMMA SplicedFields ==
  ASSUME NEW table, OpsFit(table), NEW N \in SUBSET OpIds, Wired(table, N),
         NEW c \in N, table[c].kind \in Through, NEW i, i = table[c].in[1], i # c,
         NEW new, new = Spliced(table, c)
  PROVE  i \in N /\ c \in ToSet(table[i].out) /\ TakenOut(table, new, c, i)
<1> DEFINE outs  == table[i].out \o table[c].out
           place == PlaceOf(table[i].out, c)
           Outs(p) == IF p = i THEN FilledAt(outs, place) ELSE table[p].out
           Ins(p)  == IF p \in ToSet(table[c].out) THEN InsteadOf(table[p].in, c, i) ELSE table[p].in
<1>1. \A p \in OpIds : table[p].in \in Seq(OpIds) /\ table[p].out \in Seq(OpIds) /\ table[p] \in Operators
  BY Fields DEF OpsFit
<1>2. Len(table[c].in) = 1 /\ c \in OpIds
  BY DEF OpsFit
<1>3. i \in N
  <2>1. i \in ToSet(table[c].in)
    BY <1>1, <1>2 DEF ToSet
  <2>2. QED
    BY <2>1 DEF Wired
<1>4. i \in OpIds /\ \A x : Times(table[c].in, x) = IF x = i THEN 1 ELSE 0
  BY <1>1, <1>2, <1>3, TimesType
<1>5. Times(table[i].out, c) = 1 /\ Times(table[c].out, c) = 0
  BY <1>3, <1>4 DEF Wired
<1>6. c \in ToSet(table[i].out) /\ c \notin ToSet(table[c].out)
  <2>1. table[i].out \in Seq(OpIds) /\ table[c].out \in Seq(OpIds)
    BY <1>1, <1>2, <1>4
  <2>2. QED
    BY <1>5, <2>1, TimesType
<1>7. outs \in Seq(OpIds) /\ place \in 1..Len(outs) /\ outs[place] = c
  <2>1. table[i].out \in Seq(OpIds) /\ table[c].out \in Seq(OpIds)
    BY <1>1, <1>2, <1>4
  <2>2. /\ place \in 1..Len(table[i].out) /\ table[i].out[place] = c
    BY <1>6, <2>1, FirstPlace DEF PlaceOf
  <2> DEFINE s == table[i].out
             t == table[c].out
  <2>3. outs = s \o t /\ s \in Seq(OpIds) /\ t \in Seq(OpIds) /\ place \in 1..Len(s) /\ s[place] = c
    BY <2>1, <2>2
  <2> HIDE DEF place, outs, s, t
  <2>4. /\ outs \in Seq(OpIds) /\ \A k \in 1..Len(s) : outs[k] = s[k]
        /\ Len(s) \in Nat /\ Len(t) \in Nat /\ Len(outs) = Len(s) + Len(t)
    BY <2>3, Concat
  <2>5. QED
    BY <2>3, <2>4
<1>8. /\ ToSet(outs) = ToSet(table[i].out) \cup ToSet(table[c].out)
      /\ \A x : Times(outs, x) = Times(table[i].out, x) + Times(table[c].out, x)
  BY <1>1, <1>2, <1>4, ConcatSet, TimesConcat
<1>9. \A p \in OpIds : new[p] = [table[p] EXCEPT !.out = Outs(p), !.in = Ins(p)]
  BY DEF Spliced
<1> HIDE DEF outs, place, Outs, Ins
<1>10. ToSet(FilledAt(outs, place)) = (ToSet(table[i].out) \ {c}) \cup ToSet(table[c].out)
  <2>1. FilledAt(outs, place) \in Seq(OpIds)
    BY <1>7, FilledType
  <2>2. ASSUME NEW x PROVE Times(outs, x) = Times(FilledAt(outs, place), x) + (IF x = c THEN 1 ELSE 0)
    BY <1>7, TimesFilled
  <2>3. ASSUME NEW x PROVE /\ Times(FilledAt(outs, place), x) \in Nat /\ Times(outs, x) \in Nat
                           /\ Times(FilledAt(outs, place), x) = 0 <=> x \notin ToSet(FilledAt(outs, place))
                           /\ Times(outs, x) = 0 <=> x \notin ToSet(outs)
    BY <1>7, <2>1, TimesType
  <2>4. c \notin ToSet(FilledAt(outs, place))
    BY <1>5, <1>8, <2>2, <2>3
  <2>5. ASSUME NEW x, x # c PROVE x \in ToSet(FilledAt(outs, place)) <=> x \in ToSet(outs)
    BY <2>2, <2>3, <2>5
  <2>6. QED
    BY <1>6, <1>8, <2>4, <2>5
<1>11. ASSUME NEW p \in OpIds
       PROVE  /\ new[p].kind = table[p].kind /\ new[p].cls = table[p].cls
              /\ new[p].out = Outs(p) /\ DOMAIN new[p].in = DOMAIN table[p].in
  <2>1. new[p] = [table[p] EXCEPT !.out = Outs(p), !.in = Ins(p)] /\ table[p] \in Operators
    BY <1>1, <1>9
  <2>2. new[p].kind = table[p].kind /\ new[p].cls = table[p].cls /\ new[p].out = Outs(p) /\ new[p].in = Ins(p)
    BY <2>1 DEF Operators
  <2>3. DOMAIN Ins(p) = DOMAIN table[p].in
    <3>1. table[p].in \in Seq(OpIds)
      BY <1>1
    <3>2. QED
      BY <3>1 DEF Ins, InsteadOf, ReplaceAll
  <2>4. QED
    BY <2>2, <2>3
<1>12. TakenOut(table, new, c, i)
  BY <1>10, <1>11 DEF TakenOut, Outs
<1>13. QED
  BY <1>3, <1>6, <1>12

(* Whose class counted for the operator counts for its input, for which the    *)
(* operator's did.                                                           *)
LEMMA SplicedClasses ==
  ASSUME NEW table, OpsFit(table), NEW N \in SUBSET OpIds, Wired(table, N), ClassesAgree(table, N),
         NEW c \in N, table[c].kind \in Through, NEW i \in N, c \in ToSet(table[i].out),
         NEW new, TakenOut(table, new, c, i)
  PROVE  ClassesAgree(new, N \ {c})
<1>1. \A p \in N : /\ new[p].kind = table[p].kind /\ new[p].cls = table[p].cls /\ table[p].cls \in Nat
                   /\ ToSet(table[p].out) \subseteq N
  BY Fields DEF TakenOut, Wired, OpsFit
<1>2. table[c].kind \notin Ends /\ c \in Heard(table, i) /\ Highest(table, c)
  BY DEF Through, Ends, Heard, ClassesAgree
<1>3. ASSUME NEW p \in N, p # i PROVE Heard(new, p) = Heard(table, p)
  <2>1. ToSet(new[p].out) = ToSet(table[p].out)
    BY <1>3 DEF TakenOut
  <2>2. QED
    BY <1>1, <2>1 DEF Heard
<1>4. Heard(new, i) = (Heard(table, i) \ {c}) \cup Heard(table, c)
  <2>1. ToSet(new[i].out) = (ToSet(table[i].out) \ {c}) \cup ToSet(table[c].out)
    BY DEF TakenOut
  <2>2. QED
    BY <1>1, <2>1 DEF Heard
<1>5. ASSUME NEW p \in N PROVE Heard(table, p) \subseteq N
  BY <1>1 DEF Heard
<1>6. ASSUME NEW p \in N \ {c}, table[p].kind \notin Ends PROVE Highest(new, p)
  <2>1. Highest(table, p)
    BY <1>6 DEF ClassesAgree
  <2>2. CASE p # i
    BY <1>1, <1>3, <1>5, <2>1, <2>2 DEF Highest
  <2>3. CASE p = i
    <3>1. ASSUME NEW x \in Heard(new, i), new[x].cls # 0 PROVE new[i].cls # 0 /\ new[i].cls <= new[x].cls
      <4>1. CASE x \in Heard(table, i)
        BY <1>1, <1>5, <2>1, <2>3, <3>1, <4>1 DEF Highest
      <4>2. CASE x \in Heard(table, c)
        <5>1. x \in N /\ table[x].cls # 0
          BY <1>1, <1>5, <3>1, <4>2
        <5>2. table[c].cls # 0 /\ table[c].cls <= table[x].cls
          BY <1>2, <4>2, <5>1 DEF Highest
        <5>3. table[i].cls # 0 /\ table[i].cls <= table[c].cls
          BY <1>2, <2>1, <2>3, <5>2 DEF Highest
        <5>4. QED
          BY <1>1, <5>1, <5>2, <5>3
      <4>3. QED
        BY <1>4, <3>1, <4>1, <4>2
    <3>2. ASSUME new[i].cls # 0 PROVE \E x \in Heard(new, i) : new[x].cls = new[i].cls
      <4>1. PICK x \in Heard(table, i) : table[x].cls = table[i].cls
        BY <1>1, <2>1, <2>3, <3>2 DEF Highest
      <4>2. CASE x # c
        BY <1>1, <1>4, <1>5, <4>1, <4>2
      <4>3. CASE x = c
        <5>1. PICK y \in Heard(table, c) : table[y].cls = table[c].cls
          BY <1>1, <1>2, <3>2, <4>1, <4>3 DEF Highest
        <5>2. QED
          BY <1>1, <1>4, <1>5, <4>1, <4>3, <5>1
      <4>4. QED
        BY <4>2, <4>3
    <3>3. QED
      BY <2>3, <3>1, <3>2 DEF Highest
  <2>4. QED
    BY <2>2, <2>3
<1>7. ASSUME NEW p \in N \ {c}, table[p].kind = "sink" PROVE Heard(new, p) = {}
  <2>1. Heard(table, p) = {}
    BY <1>7 DEF ClassesAgree
  <2>2. p # i
    BY <1>2, <2>1
  <2>3. QED
    BY <1>3, <2>1, <2>2
<1>8. QED
  BY <1>1, <1>6, <1>7 DEF ClassesAgree

(* It makes no cycle, as the readers come one step nearer. *)
LEMMA SplicedOutAcyclic ==
  ASSUME NEW table, OpsFit(table), OutAcyclic(table), NEW c \in OpIds, NEW i \in OpIds, c \in ToSet(table[i].out),
         NEW new, TakenOut(table, new, c, i)
  PROVE  OutAcyclic(new)
<1>0. PICK n \in Nat : \E r \in [OpIds -> 0..n] : OutRanked(table, r)
  BY DEF OutAcyclic
<1>1. PICK r \in [OpIds -> 0..n] : OutRanked(table, r)
  BY <1>0
<1>2. \A p \in OpIds : r[p] \in Nat
  OBVIOUS
<1>3. ASSUME NEW p \in OpIds, NEW q \in ToSet(new[p].out) PROVE r[q] < r[p]
  <2>1. CASE q \in ToSet(table[p].out)
    BY <1>1, <2>1 DEF OutRanked
  <2>2. CASE p = i /\ q \in ToSet(table[c].out)
    <3>1. r[q] < r[c] /\ r[c] < r[i]
      BY <1>1, <2>2 DEF OutRanked
    <3>2. q \in OpIds
      <4>1. table[c].out \in Seq(OpIds)
        BY Fields DEF OpsFit
      <4>2. QED
        BY <2>2, <4>1, InUse
    <3>3. QED
      BY <1>2, <2>2, <3>1, <3>2
  <2>3. QED
    BY <1>3, <2>1, <2>2 DEF TakenOut
<1>4. OutRanked(new, r)
  BY <1>3 DEF OutRanked
<1>5. QED
  BY <1>1, <1>4 DEF OutAcyclic

-----------------------------------------------------------------------------
(* addQueryClasses.                                                           *)

(* Where the walk up from an operator gets. *)
ReachOf(table, class, f, o) ==
  IF Lower(table[o], class) THEN {o} \cup UNION {f[p] : p \in ToSet(table[o].in)} ELSE {}
IsReach(table, class, f) == f = [o \in OpIds |-> ReachOf(table, class, f, o)]
Reach(table, class) == CHOOSE f : IsReach(table, class, f)

(* The walk ends, because the network has no cycle. *)
LEMMA ReachExists ==
  ASSUME NEW table, OpsFit(table), Acyclic(table), NEW class
  PROVE  \A o \in OpIds : Reach(table, class)[o] = ReachOf(table, class, Reach(table, class), o)
<1>0. PICK n \in Nat : \E r \in [OpIds -> 0..n] : Ranked(table, r)
  BY DEF Acyclic
<1>1. PICK r \in [OpIds -> 0..n] : Ranked(table, r)
  BY <1>0
<1> DEFINE E == [o \in OpIds |-> IF Lower(table[o], class) THEN ToSet(table[o].in) ELSE {}]
           B == [o \in OpIds |-> IF Lower(table[o], class) THEN {o} ELSE {}]
<1>2. \A o \in OpIds : /\ E[o] = IF Lower(table[o], class) THEN ToSet(table[o].in) ELSE {}
                       /\ B[o] = IF Lower(table[o], class) THEN {o} ELSE {}
  OBVIOUS
<1> HIDE DEF E, B
<1>3. ASSUME NEW o \in OpIds, NEW p \in E[o] PROVE p \in OpIds /\ r[p] < r[o]
  <2>1. p \in ToSet(table[o].in)
    BY <1>2, <1>3
  <2>2. QED
    BY <1>1, <2>1, InputInPool DEF Ranked, ToSet
<1>4. PICK f : f = [o \in OpIds |-> GatherOf(E, B, f, o)]
  BY <1>3, GatherExists
<1>5. ASSUME NEW o \in OpIds PROVE GatherOf(E, B, f, o) = ReachOf(table, class, f, o)
  BY <1>2 DEF GatherOf, ReachOf
<1>6. IsReach(table, class, f)
  BY <1>4, <1>5 DEF IsReach
<1>7. IsReach(table, class, Reach(table, class))
  BY <1>6 DEF Reach
<1>8. QED
  BY <1>7 DEF IsReach

(* Everything on it gets the class. *)
LEMMA ClassifiedReach ==
  ASSUME NEW table, NEW class, NEW out
  PROVE  Classified(table, class, out) =
           [o \in OpIds |-> IF o \in Reach(table, class)[out] THEN [table[o] EXCEPT !.cls = class] ELSE table[o]]
BY DEF Classified, Reach, IsReach, ReachOf

(* The walk gets to operators that the class is too high for, and up from these *)
(* to all such.                                                              *)
WalksUp(table, class, N, out, S) ==
  /\ S \subseteq N
  /\ \A x \in S : Lower(table[x], class) /\ (x = out \/ \E p \in S : x \in ToSet(table[p].in))
  /\ \A p \in S : \A x \in ToSet(table[p].in) : Lower(table[x], class) => x \in S
  /\ Lower(table[out], class) => out \in S

LEMMA ReachWalksUp ==
  ASSUME NEW table, OpsFit(table), Acyclic(table), NEW N \in SUBSET OpIds, Wired(table, N),
         NEW class, NEW out \in N
  PROVE  WalksUp(table, class, N, out, Reach(table, class)[out])
<1> DEFINE f == Reach(table, class)
           E == [o \in OpIds |-> ToSet(table[o].in)]
           S == {o \in OpIds : o \in N => WalksUp(table, class, N, o, f[o])}
<1>0. PICK n \in Nat : \E r \in [OpIds -> 0..n] : Ranked(table, r)
  BY DEF Acyclic
<1>1. PICK r \in [OpIds -> 0..n] : Ranked(table, r)
  BY <1>0
<1>2. \A o \in OpIds : E[o] = ToSet(table[o].in)
  OBVIOUS
<1>3. \A o \in OpIds : f[o] = ReachOf(table, class, f, o)
  BY ReachExists
<1> HIDE DEF f, E
<1>4. ASSUME NEW o \in OpIds, NEW p \in E[o] PROVE p \in OpIds /\ r[p] < r[o]
  BY <1>1, <1>2, <1>4, InputInPool DEF Ranked, ToSet
<1>5. ASSUME NEW o \in N, \A p \in ToSet(table[o].in) : p \in N /\ WalksUp(table, class, N, p, f[p])
      PROVE  WalksUp(table, class, N, o, f[o])
  <2>1. CASE Lower(table[o], class)
    <3>0. f[o] = {o} \cup UNION {f[p] : p \in ToSet(table[o].in)}
      BY <1>3, <2>1 DEF ReachOf
    <3>1. \A x : x \in f[o] <=> x = o \/ \E p \in ToSet(table[o].in) : x \in f[p]
      BY <3>0
    <3>2. f[o] \subseteq N
      BY <1>5, <3>1 DEF WalksUp
    <3>3. ASSUME NEW x \in f[o]
          PROVE  Lower(table[x], class) /\ (x = o \/ \E p \in f[o] : x \in ToSet(table[p].in))
      <4>1. CASE x = o
        BY <2>1, <4>1
      <4>2. ASSUME NEW p \in ToSet(table[o].in), x \in f[p]
            PROVE  Lower(table[x], class) /\ \E q \in f[o] : x \in ToSet(table[q].in)
        BY <1>5, <3>1, <4>2 DEF WalksUp
      <4>3. QED
        BY <3>1, <3>3, <4>1, <4>2
    <3>4. ASSUME NEW q \in f[o], NEW x \in ToSet(table[q].in), Lower(table[x], class) PROVE x \in f[o]
      <4>1. CASE q = o
        BY <1>5, <3>1, <3>4, <4>1 DEF WalksUp
      <4>2. ASSUME NEW p \in ToSet(table[o].in), q \in f[p] PROVE x \in f[o]
        BY <1>5, <3>1, <3>4, <4>2 DEF WalksUp
      <4>3. QED
        BY <3>1, <3>4, <4>1, <4>2
    <3>5. QED
      BY <3>1, <3>2, <3>3, <3>4 DEF WalksUp
  <2>2. CASE ~Lower(table[o], class)
    BY <1>3, <2>2 DEF ReachOf, WalksUp
  <2>3. QED
    BY <2>1, <2>2
<1>6. ASSUME NEW o \in OpIds, \A p \in E[o] : p \in S PROVE o \in S
  <2>1. SUFFICES ASSUME o \in N PROVE WalksUp(table, class, N, o, f[o])
    OBVIOUS
  <2>2. \A p \in ToSet(table[o].in) : p \in N
    BY <2>1 DEF Wired
  <2>3. QED
    BY <1>2, <1>5, <1>6, <2>1, <2>2
<1> HIDE DEF S
<1>7. OpIds \subseteq S
  BY <1>4, <1>6, AlongRanks
<1>8. QED
  BY <1>7 DEF S, f

(* When an output is made, everything it works with and that has a lower class  *)
(* gets its class, and everything has the highest again.                     *)
LEMMA ClassifiedClasses ==
  ASSUME NEW table, OpsFit(table), Acyclic(table), NEW N \in SUBSET OpIds, Wired(table, N),
         NEW class \in Nat, class # 0, NEW out \in N, table[out].kind = "output", table[out].cls = 0,
         ClassesAgree(table, N), \A o \in N : table[o].kind # "sink",
         \A o \in N \ {out} : table[o].kind = "output" => table[o].cls # 0,
         NEW new, new = Classified(table, class, out)
  PROVE  /\ ClassesAgree(new, N) /\ OutputsClassed(new, N)
         /\ \A o \in OpIds : new[o].kind = table[o].kind /\ new[o].in = table[o].in /\ new[o].out = table[o].out
         /\ \A o \in OpIds \ N : new[o].cls = table[o].cls
<1> DEFINE S == Reach(table, class)[out]
<1>1. WalksUp(table, class, N, out, S) /\ out \in S
  <2>1. Lower(table[out], class)
    BY DEF Lower
  <2>2. QED
    BY <2>1, ReachWalksUp DEF WalksUp
<1>2. new = [o \in OpIds |-> IF o \in S THEN [table[o] EXCEPT !.cls = class] ELSE table[o]]
  BY ClassifiedReach
<1> HIDE DEF S
<1>3. ASSUME NEW o \in OpIds
      PROVE  /\ new[o].kind = table[o].kind /\ new[o].in = table[o].in /\ new[o].out = table[o].out
             /\ new[o].cls = IF o \in S THEN class ELSE table[o].cls
             /\ table[o].cls \in Nat /\ table[o].in \in Seq(OpIds) /\ table[o].out \in Seq(OpIds)
  <2>1. table[o] \in Operators
    BY DEF OpsFit
  <2>2. QED
    BY <1>2, <2>1, Fields DEF Operators
<1>4. ASSUME NEW o \in N PROVE Heard(table, o) = ToSet(table[o].out) /\ Heard(new, o) = ToSet(table[o].out)
                               /\ ToSet(table[o].out) \subseteq N
  <2>1. ToSet(table[o].out) \subseteq N
    BY DEF Wired
  <2>2. ASSUME NEW x \in ToSet(table[o].out) PROVE table[x].kind # "sink" /\ new[x].kind # "sink"
    BY <1>3, <2>1
  <2>3. new[o].out = table[o].out
    BY <1>3
  <2>4. QED
    BY <2>1, <2>2, <2>3 DEF Heard
<1>5. ASSUME NEW o \in N, NEW p \in N PROVE o \in ToSet(table[p].in) <=> p \in ToSet(table[o].out)
  <2>1. Times(table[p].in, o) = Times(table[o].out, p)
    BY DEF Wired
  <2>2. QED
    BY <1>3, <2>1, TimesType
<1>6. ASSUME NEW o \in N, table[o].kind \notin Ends PROVE Highest(new, o)
  <2>1. Highest(table, o)
    BY <1>6 DEF ClassesAgree
  <2>2. CASE o \in S
    <3>1. o # out
      BY <1>6 DEF Ends
    <3>2. PICK p \in S : o \in ToSet(table[p].in)
      BY <1>1, <2>2, <3>1 DEF WalksUp
    <3>3. p \in N /\ p \in ToSet(table[o].out) /\ new[p].cls = class /\ new[o].cls = class
      BY <1>1, <1>3, <1>5, <2>2, <3>2 DEF WalksUp
    <3>4. table[o].cls = 0 \/ table[o].cls > class
      BY <1>1, <2>2 DEF WalksUp, Lower
    <3>5. ASSUME NEW x \in Heard(new, o), new[x].cls # 0 PROVE class <= new[x].cls
      <4>1. x \in N /\ x \in Heard(table, o) /\ x \in OpIds
        BY <1>4, <3>5
      <4>2. CASE x \in S
        BY <1>3, <4>1, <4>2
      <4>3. CASE x \notin S
        <5>1. new[x].cls = table[x].cls /\ table[x].cls \in Nat /\ table[o].cls \in Nat
          BY <1>3, <4>1, <4>3
        <5>2. table[o].cls # 0 /\ table[o].cls <= table[x].cls
          BY <2>1, <3>5, <4>1, <5>1 DEF Highest
        <5>3. QED
          BY <3>4, <5>1, <5>2
      <4>4. QED
        BY <4>2, <4>3
    <3>6. QED
      BY <1>4, <3>3, <3>5 DEF Highest
  <2>3. CASE o \notin S
    <3>1. new[o].cls = table[o].cls /\ table[o].cls \in Nat
      BY <1>3, <2>3
    <3>2. ASSUME NEW p \in N, p \in S, p \in ToSet(table[o].out)
          PROVE  table[o].cls # 0 /\ table[o].cls <= class
      <4>1. o \in ToSet(table[p].in)
        BY <1>5, <3>2
      <4>2. ~Lower(table[o], class)
        BY <1>1, <2>3, <3>2, <4>1 DEF WalksUp
      <4>3. QED
        BY <3>1, <4>2 DEF Lower
    <3>3. ASSUME NEW x \in Heard(new, o), new[x].cls # 0
          PROVE  new[o].cls # 0 /\ new[o].cls <= new[x].cls
      <4>1. x \in N /\ x \in OpIds /\ x \in Heard(table, o) /\ x \in ToSet(table[o].out)
        BY <1>4, <3>3
      <4>2. CASE x \in S
        BY <1>3, <3>1, <3>2, <4>1, <4>2
      <4>3. CASE x \notin S
        BY <1>3, <2>1, <3>1, <3>3, <4>1, <4>3 DEF Highest
      <4>4. QED
        BY <4>2, <4>3
    <3>4. ASSUME new[o].cls # 0 PROVE \E x \in Heard(new, o) : new[x].cls = new[o].cls
      <4>1. PICK x \in Heard(table, o) : table[x].cls = table[o].cls
        BY <2>1, <3>1, <3>4 DEF Highest
      <4>2. x \in N /\ x \in OpIds /\ x \in Heard(new, o) /\ x \in ToSet(table[o].out)
        BY <1>4, <4>1
      <4>3. x \notin S
        <5>1. SUFFICES ASSUME x \in S PROVE FALSE
          OBVIOUS
        <5>2. table[o].cls <= class /\ table[x].cls # 0
          BY <3>1, <3>2, <3>4, <4>1, <4>2, <5>1
        <5>3. table[x].cls > class
          BY <1>1, <5>1, <5>2 DEF WalksUp, Lower
        <5>4. QED
          BY <3>1, <4>1, <5>2, <5>3
      <4>4. QED
        BY <1>3, <3>1, <4>1, <4>2, <4>3
    <3>5. QED
      BY <3>3, <3>4 DEF Highest
  <2>4. QED
    BY <2>2, <2>3
<1>7. ClassesAgree(new, N)
  BY <1>3, <1>6 DEF ClassesAgree
<1>8. OutputsClassed(new, N)
  BY <1>1, <1>3 DEF OutputsClassed
<1>9. QED
  BY <1>1, <1>3, <1>7, <1>8 DEF WalksUp

-----------------------------------------------------------------------------
(* From reader to reader down to the outputs.                                 *)

FeedsOf(f, o) == IF ops[o].kind = "output" THEN {o} ELSE UNION {f[p] : p \in ToSet(ops[o].out)}

(* The outputs an operator works for are those its readers work for. *)
LEMMA FeedsExists ==
  ASSUME OpsFit(ops), OutAcyclic(ops)
  PROVE  \A o \in OpIds : Feeds[o] = FeedsOf(Feeds, o)
<1>0. PICK n \in Nat : \E r \in [OpIds -> 0..n] : OutRanked(ops, r)
  BY DEF OutAcyclic
<1>1. PICK r \in [OpIds -> 0..n] : OutRanked(ops, r)
  BY <1>0
<1> DEFINE E == [o \in OpIds |-> IF ops[o].kind = "output" THEN {} ELSE ToSet(ops[o].out)]
           B == [o \in OpIds |-> IF ops[o].kind = "output" THEN {o} ELSE {}]
           Solves(u) == u = [o \in OpIds |-> FeedsOf(u, o)]
<1>2. \A o \in OpIds : /\ E[o] = IF ops[o].kind = "output" THEN {} ELSE ToSet(ops[o].out)
                       /\ B[o] = IF ops[o].kind = "output" THEN {o} ELSE {}
  OBVIOUS
<1> HIDE DEF E, B
<1>3. ASSUME NEW o \in OpIds, NEW p \in E[o] PROVE p \in OpIds /\ r[p] < r[o]
  <2>1. p \in ToSet(ops[o].out) /\ ops[o].out \in Seq(OpIds)
    BY <1>2, <1>3, Fields DEF OpsFit
  <2>2. QED
    BY <1>1, <2>1, InUse DEF OutRanked
<1>4. PICK f : f = [o \in OpIds |-> GatherOf(E, B, f, o)]
  BY <1>3, GatherExists
<1>5. ASSUME NEW o \in OpIds PROVE GatherOf(E, B, f, o) = FeedsOf(f, o)
  BY <1>2 DEF GatherOf, FeedsOf
<1>6. Solves(f)
  BY <1>4, <1>5
<1>7. Feeds = CHOOSE u : Solves(u)
  BY DEF Feeds, FeedsOf
<1> HIDE DEF Solves
<1>8. Solves(Feeds)
  BY <1>6, <1>7
<1>9. QED
  BY <1>8 DEF Solves

(* An operator works for outputs in use, a sink for none, and the class of any  *)
(* other is the highest of theirs.                                           *)
Serves(o) ==
  /\ \A x \in Feeds[o] : x \in ToSet(used) /\ ops[x].kind = "output"
  /\ ops[o].kind = "sink" => Feeds[o] = {}
  /\ ops[o].kind \notin {"ssgen", "sink"} =>
       /\ \A x \in Feeds[o] : ops[o].cls # 0 /\ ops[o].cls <= ops[x].cls
       /\ ops[o].cls # 0 => \E x \in Feeds[o] : ops[x].cls = ops[o].cls

(* If the class of every operator is the highest of its readers, it is that of *)
(* its outputs.                                                              *)
LEMMA ClassesServe ==
  ASSUME NetFits, NetWired, ClassesAgree(ops, ToSet(used)), OutputsClassed(ops, ToSet(used)),
         OutAcyclic(ops), StreamGenerated(ops)
  PROVE  \A o \in ToSet(used) : Serves(o)
<1> DEFINE N == ToSet(used)
           E == [o \in OpIds |-> ToSet(ops[o].out)]
           S == {o \in OpIds : o \in N => Serves(o)}
<1>0. PICK n \in Nat : \E r \in [OpIds -> 0..n] : OutRanked(ops, r)
  BY DEF OutAcyclic
<1>1. PICK r \in [OpIds -> 0..n] : OutRanked(ops, r)
  BY <1>0
<1>2. OpsFit(ops) /\ N \in SUBSET OpIds /\ Wired(ops, N)
  BY UsedClosed DEF NetFits, PoolFits, NetWired
<1>3. \A o \in OpIds : /\ Feeds[o] = FeedsOf(Feeds, o)
                       /\ ops[o].cls \in Nat /\ ops[o].in \in Seq(OpIds) /\ ops[o].out \in Seq(OpIds)
  BY <1>2, FeedsExists, Fields DEF OpsFit
<1>4. \A o \in OpIds : E[o] = ToSet(ops[o].out)
  OBVIOUS
<1>5. ClassesAgree(ops, N) /\ OutputsClassed(ops, N)
  OBVIOUS
<1> HIDE DEF E, N
<1>6. ASSUME NEW o \in OpIds, NEW p \in E[o] PROVE p \in OpIds /\ r[p] < r[o]
  BY <1>1, <1>3, <1>4, <1>6, InUse DEF OutRanked
<1>7. ASSUME NEW o \in N, NEW p \in ToSet(ops[o].out) PROVE p \in N /\ ops[p].kind # "ssgen"
  <2>1. p \in N /\ o \in OpIds /\ p \in OpIds
    BY <1>2 DEF Wired
  <2>2. Times(ops[p].in, o) = Times(ops[o].out, p)
    BY <1>2, <2>1 DEF Wired
  <2>3. o \in ToSet(ops[p].in)
    BY <1>3, <2>1, <2>2, TimesType
  <2>4. QED
    BY <2>1, <2>3 DEF StreamGenerated, ToSet
<1>8. ASSUME NEW o \in N, \A p \in ToSet(ops[o].out) : Serves(p) PROVE Serves(o)
  <2>1. o \in OpIds
    BY <1>2
  <2>2. CASE ops[o].kind = "output"
    <3>1. Feeds[o] = {o}
      BY <1>3, <2>1, <2>2 DEF FeedsOf
    <3>2. ops[o].cls # 0 /\ ops[o].cls \in Nat
      BY <1>3, <1>5, <2>1, <2>2 DEF OutputsClassed
    <3>3. QED
      BY <2>2, <3>1, <3>2 DEF Serves, N
  <2>3. CASE ops[o].kind # "output"
    <3>1. Feeds[o] = UNION {Feeds[p] : p \in ToSet(ops[o].out)}
      BY <1>3, <2>1, <2>3 DEF FeedsOf
    <3>2. \A x : x \in Feeds[o] <=> \E p \in ToSet(ops[o].out) : x \in Feeds[p]
      BY <3>1
    <3>3. \A x \in Feeds[o] : x \in ToSet(used) /\ ops[x].kind = "output"
      BY <1>8, <3>2 DEF Serves
    <3>4. ASSUME NEW x \in Feeds[o]
          PROVE  \E p \in Heard(ops, o) : x \in Feeds[p] /\ ops[p].cls # 0 /\ ops[p].cls <= ops[x].cls
      <4>1. PICK p \in ToSet(ops[o].out) : x \in Feeds[p]
        BY <3>2, <3>4
      <4>2. ops[p].kind \notin {"sink", "ssgen"}
        BY <1>7, <1>8, <4>1 DEF Serves
      <4>3. QED
        BY <1>8, <4>1, <4>2 DEF Serves, Heard
    <3>5. CASE ops[o].kind = "sink"
      <4>1. Feeds[o] = {}
        BY <1>5, <3>4, <3>5 DEF ClassesAgree
      <4>2. QED
        BY <3>5, <4>1 DEF Serves
    <3>6. CASE ops[o].kind \notin {"sink", "ssgen"}
      <4>1. Highest(ops, o)
        BY <1>5, <2>3, <3>6 DEF ClassesAgree, Ends
      <4>2. ASSUME NEW x \in Feeds[o] PROVE ops[o].cls # 0 /\ ops[o].cls <= ops[x].cls
        <5>1. PICK p \in Heard(ops, o) : x \in Feeds[p] /\ ops[p].cls # 0 /\ ops[p].cls <= ops[x].cls
          BY <3>4
        <5>2. ops[o].cls # 0 /\ ops[o].cls <= ops[p].cls
          BY <4>1, <5>1 DEF Highest
        <5>3. p \in OpIds /\ x \in OpIds
          BY <1>2, <1>7, <3>3, <5>1 DEF Heard, N
        <5>4. QED
          BY <1>3, <2>1, <5>1, <5>2, <5>3
      <4>3. ASSUME ops[o].cls # 0 PROVE \E x \in Feeds[o] : ops[x].cls = ops[o].cls
        <5>1. PICK p \in Heard(ops, o) : ops[p].cls = ops[o].cls
          BY <4>1, <4>3 DEF Highest
        <5>2. p \in ToSet(ops[o].out) /\ ops[p].kind \notin {"sink", "ssgen"}
          BY <1>7, <5>1 DEF Heard
        <5>3. PICK x \in Feeds[p] : ops[x].cls = ops[p].cls
          BY <1>8, <4>3, <5>1, <5>2 DEF Serves
        <5>4. QED
          BY <3>2, <5>1, <5>2, <5>3
      <4>4. QED
        BY <3>3, <3>6, <4>2, <4>3 DEF Serves
    <3>7. CASE ops[o].kind = "ssgen"
      BY <3>3, <3>7 DEF Serves
    <3>8. QED
      BY <3>5, <3>6, <3>7
  <2>4. QED
    BY <2>2, <2>3
<1>9. ASSUME NEW o \in OpIds, \A p \in E[o] : p \in S PROVE o \in S
  <2>1. SUFFICES ASSUME o \in N PROVE Serves(o)
    OBVIOUS
  <2>2. \A p \in ToSet(ops[o].out) : p \in N
    BY <1>7, <2>1
  <2>3. QED
    BY <1>4, <1>8, <1>9, <2>1, <2>2
<1> HIDE DEF S
<1>10. OpIds \subseteq S
  BY <1>6, <1>9, AlongRanks
<1>11. QED
  BY <1>2, <1>10 DEF S, N

(* The lowest of the class numbers of the outputs is the class. *)
LEMMA ServesHighest ==
  ASSUME OpsFit(ops), used \in Seq(OpIds), NEW o \in ToSet(used), Serves(o), ops[o].kind \notin {"ssgen", "sink"}
  PROVE  ops[o].cls = (IF Feeds[o] = {} THEN 0 ELSE Min({ops[p].cls : p \in Feeds[o]}))
<1> DEFINE T == {ops[p].cls : p \in Feeds[o]}
<1>1. \A x \in ToSet(used) : ops[x].cls \in Nat
  BY InUse, Fields DEF OpsFit
<1>2. \A x \in Feeds[o] : ops[o].cls # 0 /\ ops[o].cls <= ops[x].cls /\ ops[x].cls \in Nat
  BY <1>1 DEF Serves
<1>3. ops[o].cls # 0 => \E x \in Feeds[o] : ops[x].cls = ops[o].cls
  BY DEF Serves
<1>4. CASE Feeds[o] = {}
  BY <1>3, <1>4
<1>5. CASE Feeds[o] # {}
  <2>1. T \in SUBSET Nat /\ T # {} /\ ops[o].cls \in T /\ \A y \in T : ops[o].cls <= y
    BY <1>2, <1>3, <1>5
  <2> HIDE DEF T
  <2>2. Min(T) \in T /\ \A y \in T : Min(T) <= y
    BY <2>1, Least
  <2>3. Min(T) = ops[o].cls
    <3>1. Min(T) \in Nat /\ ops[o].cls \in Nat
      BY <2>1, <2>2
    <3>2. QED
      BY <2>1, <2>2, <3>1
  <2>4. QED
    BY <1>5, <2>3 DEF T
<1>6. QED
  BY <1>4, <1>5

-----------------------------------------------------------------------------
(* The invariant.                                                             *)
Classed(table, u) ==
  /\ ClassesAgree(table, ToSet(u)) /\ OutputsClassed(table, ToSet(u))
  /\ OutAcyclic(table) /\ StreamGenerated(table)

(* Nothing was freed yet, and there are no sinks. *)
Fresh(table, u, f) ==
  /\ \A o \in ToSet(f) : table[o].cls = 0
  /\ \A o \in ToSet(u) : table[o].kind # "sink"

ClassInv ==
  /\ step \in Unshared => Classed(ops, used)
  /\ step \in Building => Fresh(ops, used, free)
  /\ step \in {"translate", "qsrc", "output"} => job.cls # 0

(* Parameters have no class. *)
LEMMA SameClasses ==
  ASSUME NEW table, NEW new, NEW u \in Seq(OpIds), NEW f \in Seq(OpIds), OpsFit(table),
         \A p \in OpIds : /\ new[p].kind = table[p].kind /\ new[p].cls = table[p].cls
                          /\ new[p].in = table[p].in /\ new[p].out = table[p].out
  PROVE  /\ Classed(table, u) => Classed(new, u)
         /\ Fresh(table, u, f) => Fresh(new, u, f)
<1>1. /\ \A p \in ToSet(u) : p \in OpIds /\ \A q \in ToSet(table[p].out) : q \in OpIds
      /\ \A p \in ToSet(f) : p \in OpIds
  BY InUse, Fields DEF OpsFit
<1>2. \A p \in ToSet(u) : Heard(new, p) = Heard(table, p) /\ \A q \in Heard(table, p) : q \in OpIds
  BY <1>1 DEF Heard
<1>3. \A p \in ToSet(u) : Highest(table, p) => Highest(new, p)
  BY <1>1, <1>2 DEF Highest
<1>4. ClassesAgree(table, ToSet(u)) => ClassesAgree(new, ToSet(u))
  BY <1>1, <1>2, <1>3 DEF ClassesAgree
<1>5. OutputsClassed(table, ToSet(u)) => OutputsClassed(new, ToSet(u))
  BY <1>1 DEF OutputsClassed
<1>6. OutAcyclic(table) => OutAcyclic(new)
  BY DEF OutAcyclic, OutRanked
<1>7. StreamGenerated(table) => StreamGenerated(new)
  BY DEF StreamGenerated
<1>8. Fresh(table, u, f) => Fresh(new, u, f)
  BY <1>1 DEF Fresh
<1>9. QED
  BY <1>4, <1>5, <1>6, <1>7, <1>8 DEF Classed

(* An operator is made.  An output has no class until it is given one. *)
LEMMA CreatedClassed ==
  ASSUME NetFits, NetWired, Classed(ops, used), NEW in \in Seq(OpIds), ToSet(in) \subseteq ToSet(used),
         CanMake(in), TakeOp, NEW kind, kind # "ssgen", NEW par,
         kind = "sink" \/ Fresh(ops, used, free),
         NEW new, new = WithReader(Head(free), kind, par, in)
  PROVE  /\ ClassesAgree(new, ToSet(used')) /\ OutAcyclic(new) /\ StreamGenerated(new)
         /\ OutputsClassed(new, ToSet(used))
         /\ kind # "output" => Classed(new, used')
         /\ kind # "sink" => Fresh(new, used', free') /\ new[Head(free)].cls = 0
<1> DEFINE o == Head(free)
           N == ToSet(used)
<1>1. /\ o \in OpIds \ N /\ o \in ToSet(free) /\ ToSet(used') = N \cup {o}
      /\ OpsFit(ops) /\ N \in SUBSET OpIds /\ Wired(ops, N)
  BY TakeOpPool, UsedClosed DEF NetFits, PoolFits, CanMake, NetWired
<1>2. ToSet(free') \subseteq ToSet(free) /\ \A p \in ToSet(free') : p \in OpIds \ {o}
  <2>1. free \in Seq(OpIds) /\ free # <<>> /\ IsInjective(free) /\ free' = Tail(free)
    BY DEF NetFits, PoolFits, CanMake, PoolEmpties, TakeOp
  <2>2. ToSet(Tail(free)) = ToSet(free) \ {o} /\ Tail(free) \in Seq(OpIds)
    BY <2>1, TailOf
  <2>3. QED
    BY <2>1, <2>2, InUse
<1>3. /\ ClassesAgree(ops, N) /\ OutputsClassed(ops, N) /\ OutAcyclic(ops) /\ StreamGenerated(ops)
  BY DEF Classed
<1>4. new = WithReader(o, kind, par, in) /\ ToSet(in) \subseteq N
  OBVIOUS
<1>5. kind = "sink" \/ (ops[o].cls = 0 /\ \A p \in N : ops[p].kind # "sink")
  BY <1>1 DEF Fresh
<1> HIDE DEF o, N
<1>6. Makes(new, o, kind, in)
  BY <1>1, <1>4, CreatedFields
<1>7. ClassesAgree(new, N \cup {o})
  BY <1>1, <1>3, <1>4, <1>5, <1>6, CreatedClasses
<1>8. OutAcyclic(new)
  BY <1>1, <1>3, <1>6, CreatedOutAcyclic
<1>9. StreamGenerated(new)
  BY <1>3, <1>6 DEF StreamGenerated, Makes
<1>10. OutputsClassed(new, N)
  BY <1>1, <1>3, <1>6 DEF OutputsClassed, Makes
<1>11. kind # "output" => OutputsClassed(new, N \cup {o})
  BY <1>6, <1>10 DEF OutputsClassed, Makes
<1>12. ASSUME kind # "sink" PROVE Fresh(new, used', free') /\ new[o].cls = 0
  <2>1. \A p \in ToSet(free') : new[p].cls = 0
    BY <1>2, <1>6, <1>12 DEF Fresh, Makes
  <2>2. \A p \in N : new[p].kind # "sink"
    BY <1>1, <1>5, <1>6, <1>12 DEF Makes
  <2>3. new[o].kind # "sink" /\ new[o].cls = 0
    BY <1>5, <1>6, <1>12 DEF Makes
  <2>4. QED
    BY <1>1, <2>1, <2>2, <2>3 DEF Fresh
<1>13. QED
  BY <1>1, <1>7, <1>8, <1>9, <1>10, <1>11, <1>12 DEF Classed, o, N

(* An operator is taken out by a pass. *)
LEMMA BypassedClassed ==
  ASSUME NetFits, NetWired, Acyclic(ops), Classed(ops, used), NEW table, OpsFit(table), cursor \in ToSet(used),
         table[cursor].kind \in Through, Bypass(table),
         \A p \in OpIds : /\ table[p].kind = ops[p].kind /\ table[p].cls = ops[p].cls
                          /\ table[p].in = ops[p].in /\ table[p].out = ops[p].out
  PROVE  Classed(ops', used')
<1> DEFINE N == ToSet(used)
           c == cursor
           i == table[c].in[1]
           new == Spliced(table, c)
<1>1. CASE UNCHANGED net
  BY <1>1 DEF net
<1>2. CASE ops' = new /\ FreeOp(c)
  <2>1. OpsFit(ops) /\ N \in SUBSET OpIds /\ used \in Seq(OpIds) /\ c \in OpIds /\ c # 1
    BY UsedClosed, InUse DEF NetFits, PoolFits, NetWired, OpsFit, Through
  <2>2. Classed(table, used)
    BY <2>1, SameClasses
  <2>3. Wired(table, N)
    BY <2>1, SameEdges DEF NetWired
  <2>4. i # c
    <3>1. PICK n \in Nat : \E r \in [OpIds -> 0..n] : Ranked(ops, r)
      BY DEF Acyclic
    <3>2. PICK r \in [OpIds -> 0..n] : Ranked(ops, r)
      BY <3>1
    <3>3. Len(ops[c].in) = 1 /\ ops[c].in \in Seq(OpIds) /\ i = ops[c].in[1]
      BY <2>1, Fields DEF OpsFit
    <3>4. i \in OpIds /\ r[i] < r[c] /\ r[c] \in Nat
      BY <2>1, <3>2, <3>3 DEF Ranked
    <3>5. QED
      BY <3>4
  <2> HIDE DEF i, new
  <2>5. c \in N /\ table[c].kind \in Through
    OBVIOUS
  <2>6. ToSet(used') = N \ {c}
    BY <1>2, <2>1, FreeOpPool DEF NetFits
  <2> HIDE DEF c, N
  <2>7. i \in N /\ c \in ToSet(table[i].out) /\ TakenOut(table, new, c, i)
    BY <2>1, <2>3, <2>4, <2>5, SplicedFields DEF i, new
  <2>8. ClassesAgree(new, N \ {c})
    BY <2>1, <2>2, <2>3, <2>5, <2>7, SplicedClasses DEF Classed, N
  <2>9. OutAcyclic(new)
    BY <2>1, <2>2, <2>7, SplicedOutAcyclic DEF Classed
  <2>10. OutputsClassed(new, N \ {c})
    BY <2>1, <2>2, <2>7 DEF Classed, OutputsClassed, TakenOut, N
  <2>11. StreamGenerated(new)
    BY <2>2, <2>7 DEF Classed, StreamGenerated, TakenOut
  <2>12. QED
    BY <1>2, <2>6, <2>8, <2>9, <2>10, <2>11 DEF Classed
<1>3. QED
  BY <1>1, <1>2 DEF Bypass, net

(* Until operators are shared every step leaves every class the highest. *)
LEMMA ClassesStep ==
  ASSUME IInv, Acyclic(ops), ClassInv, Next
  PROVE  ClassInv'
<1> DEFINE Making == {"translate", "qsrc", "output"}
<1>1. ASSUME step' \in Making PROVE job'.cls # 0
  <2>1. ASSUME NEW q \in Queries, AddQuery(q) PROVE job'.cls # 0
    BY <2>1, PlanConstants DEF AddQuery
  <2>2. CASE step \in Making /\ UNCHANGED job
    BY <2>2 DEF ClassInv
  <2>3. QED
    BY <1>1, <2>1, <2>2
    DEF Next, Load, Translate, Rewrite, AddBaseTable, MapView, Optimize, TranslateSource,
        TranslateSelect, TranslateOperator, Translated, MakeQuerySource, MakeOutput, NextPass,
        RemoveQuerySource, AddSink, MergeSelect, MergeProject, ComparePair, Merge, EndRow, EndLevel, Bypass,
        Pass, Leave, At, CannotMake, Ended, Over, planVars, Broken, gen
<1>2. SUFFICES ASSUME step' \in Unshared PROVE Classed(ops', used') /\ (step' \in Building => Fresh(ops', used', free'))
  BY <1>1, SMTT(40) DEF ClassInv, Unshared, Building
<1>3. step \in Unshared /\ (step' \in Building => step \in Building)
  BY <1>2 DEF Next, Load, Translate, Rewrite, AddBaseTable, AddQuery, MapView, Optimize, TranslateSource,
         TranslateSelect, TranslateOperator, Translated, MakeQuerySource, MakeOutput, NextPass,
         RemoveQuerySource, AddSink, MergeSelect, MergeProject, ComparePair, Merge, EndRow, EndLevel, Bypass,
         Pass, Leave, At, CannotMake, Ended, Over, planVars, Unshared, Building, Broken
<1>4. /\ NetFits /\ TypeOK /\ OpsFit(ops) /\ PoolFits(used, free) /\ used \in Seq(OpIds) /\ free \in Seq(OpIds)
      /\ NetWired /\ Classed(ops, used) /\ (step \in Building => Fresh(ops, used, free))
  <2>1. NetFits /\ TypeOK
    BY NetOfInv DEF IInv
  <2>2. NetWired
    BY <1>3 DEF IInv, NetInv, EdgesAgree, NewerFirst, NetWired, Wired, InOrder
  <2>3. Classed(ops, used) /\ (step \in Building => Fresh(ops, used, free))
    BY <1>3 DEF ClassInv
  <2>4. QED
    BY <2>1, <2>2, <2>3 DEF NetFits, PoolFits
<1>5. CASE UNCHANGED net
  BY <1>3, <1>4, <1>5 DEF net
<1>6. CASE AddBaseTable
  <2>1. CASE CanMake(<<>>) /\ TakeOp /\ ops' = WithReader(Head(free), "source", <<NextTable>>, <<>>)
    <3> DEFINE in == <<>>
    <3>1. in \in Seq(OpIds) /\ ToSet(in) \subseteq ToSet(used) /\ step \in Building
      BY <1>6 DEF ToSet, AddBaseTable, Building
    <3>2. CanMake(in) /\ TakeOp /\ ops' = WithReader(Head(free), "source", <<NextTable>>, in)
      BY <2>1
    <3> HIDE DEF in
    <3>3. Classed(ops', used') /\ Fresh(ops', used', free')
      BY <1>4, <3>1, <3>2, CreatedClassed
    <3>4. QED
      BY <3>3
  <2>2. QED
    BY <1>5, <1>6, <2>1 DEF AddBaseTable, CannotMake
<1>7. CASE TranslateSelect
  <2>1. Inputs[1] \in OpIds
    BY <1>4, <1>7, ItemFits DEF TranslateSelect, OverSelect, IInv, Arity
  <2>2. /\ ops' = [ops EXCEPT ![Inputs[1]].par = Head(todo).par \o ops[Inputs[1]].par]
        /\ UNCHANGED <<used, free>>
    BY <1>7 DEF TranslateSelect
  <2>3. ASSUME NEW p \in OpIds PROVE /\ ops'[p].kind = ops[p].kind /\ ops'[p].cls = ops[p].cls
                                     /\ ops'[p].in = ops[p].in /\ ops'[p].out = ops[p].out
    BY <1>4, <2>1, <2>2 DEF OpsFit, Operators
  <2>4. Classed(ops', used) /\ (Fresh(ops, used, free) => Fresh(ops', used, free))
    BY <1>4, <2>3, SameClasses
  <2>5. QED
    BY <1>3, <1>4, <2>2, <2>4
<1>8. CASE TranslateOperator
  <2>1. Inputs \in Seq(OpIds) /\ ToSet(Inputs) \subseteq ToSet(used) /\ Head(todo).kind \in LogicalKinds /\ step \in Building
    BY <1>4, <1>8, ItemFits DEF TranslateOperator, IInv, RegisteredInv, Building
  <2>2. CASE CanMake(Inputs) /\ TakeOp /\ ops' = WithReader(Head(free), Head(todo).kind, Head(todo).par, Inputs)
    <3>1. Head(todo).kind \notin {"ssgen", "output", "sink"}
      BY <2>1 DEF LogicalKinds
    <3>2. QED
      BY <1>4, <2>1, <2>2, <3>1, CreatedClassed
  <2>3. QED
    BY <1>5, <1>8, <2>2 DEF TranslateOperator, CannotMake
<1>9. CASE MakeQuerySource
  <2>1. built \in Seq(OpIds) /\ ToSet(built) \subseteq ToSet(used) /\ step \in Building
    BY <1>4, <1>9 DEF MakeQuerySource, IInv, RegisteredInv, TypeOK, Building
  <2>2. CASE CanMake(built) /\ TakeOp /\ ops' = WithReader(Head(free), "qsrc", <<>>, built)
    BY <1>4, <2>1, <2>2, CreatedClassed
  <2>3. QED
    BY <1>5, <1>9, <2>2 DEF MakeQuerySource, CannotMake
<1>10. CASE MakeOutput
  <2> DEFINE o == Head(free)
             par == <<Len(meaning) + 1>>
             table == WithReader(o, "output", par, built)
  <2>1. built \in Seq(OpIds) /\ ToSet(built) \subseteq ToSet(used) /\ step \in Building
    BY <1>4, <1>10 DEF MakeOutput, IInv, RegisteredInv, TypeOK, Building
  <2>2. CASE CanMake(built) /\ TakeOp /\ ops' = Classified(table, job.cls, o)
    <3>1. Wired(table, ToSet(used'))
      BY <1>4, <2>1, <2>2, CreatedEdges
    <3>2. Grown(table, used', o, "output", par, built)
      <4>1. Len(meaning) \in Nat
        BY DEF IInv, MapsInv
      <4>2. par \in Seq(Nat) /\ "output" \in Kinds \ Through
        BY <4>1 DEF Kinds, Through
      <4> HIDE DEF par
      <4>3. QED
        BY <1>4, <2>1, <2>2, <4>2, CreatedKept
    <3>3. /\ ClassesAgree(table, ToSet(used')) /\ OutAcyclic(table) /\ StreamGenerated(table)
          /\ OutputsClassed(table, ToSet(used)) /\ Fresh(table, used', free') /\ table[o].cls = 0
      BY <1>4, <2>1, <2>2, CreatedClassed
    <3>4. /\ PoolFits(used', free') /\ o \in ToSet(used') /\ ToSet(used') = ToSet(used) \cup {o}
      BY <1>4, <2>2, TakeOpPool DEF CanMake
    <3>5. ToSet(used') \in SUBSET OpIds /\ \A p \in ToSet(free') : p \in OpIds \ ToSet(used')
      BY <3>4, InUse DEF PoolFits
    <3>6. OpsFit(table) /\ Acyclic(table) /\ table[o].kind = "output"
      BY <3>2 DEF Grown
    <3>7. job.cls \in Nat /\ job.cls # 0
      BY <1>4, <1>10 DEF TypeOK, ClassInv, MakeOutput
    <3>8. /\ \A p \in ToSet(used') : table[p].kind # "sink"
          /\ \A p \in ToSet(used') \ {o} : table[p].kind = "output" => table[p].cls # 0
      BY <3>3, <3>4 DEF Fresh, OutputsClassed
    <3> HIDE DEF table, o
    <3>9. /\ ClassesAgree(ops', ToSet(used')) /\ OutputsClassed(ops', ToSet(used'))
          /\ \A p \in OpIds : /\ ops'[p].kind = table[p].kind /\ ops'[p].in = table[p].in
                              /\ ops'[p].out = table[p].out
          /\ \A p \in OpIds \ ToSet(used') : ops'[p].cls = table[p].cls
      BY <2>2, <3>1, <3>3, <3>4, <3>5, <3>6, <3>7, <3>8, ClassifiedClasses
    <3>10. OutAcyclic(ops')
      BY <3>3, <3>9 DEF OutAcyclic, OutRanked
    <3>11. StreamGenerated(ops')
      BY <3>3, <3>9 DEF StreamGenerated
    <3>12. Fresh(ops', used', free')
      BY <3>3, <3>5, <3>9 DEF Fresh
    <3>13. QED
      BY <3>9, <3>10, <3>11, <3>12 DEF Classed
  <2>3. QED
    BY <1>5, <1>10, <2>2 DEF MakeOutput, CannotMake
<1>11. CASE RemoveQuerySource
  <2>1. cursor \in ToSet(used) /\ step' \notin Building
    BY <1>2, <1>11 DEF RemoveQuerySource, At, IInv, PlacesInv, Passes, Bypass, Pass, Leave, Building, Unshared
  <2>2. CASE ops[cursor].kind = "qsrc" /\ Bypass(ops)
    BY <1>4, <2>1, <2>2, BypassedClassed DEF Through
  <2>3. QED
    BY <1>5, <1>11, <2>1, <2>2 DEF RemoveQuerySource, Pass
<1>12. CASE AddSink
  <2>1. cursor \in ToSet(used) /\ cursor \in OpIds /\ step' \notin Building
    BY <1>2, <1>12 DEF AddSink, At, IInv, TypeOK, PlacesInv, Passes, CannotMake, Pass, Leave, Building, Unshared
  <2>2. CASE CanMake(<<cursor>>) /\ TakeOp /\ ops' = WithReader(Head(free), "sink", <<>>, <<cursor>>)
    <3> DEFINE in == <<cursor>>
    <3>1. in \in Seq(OpIds) /\ ToSet(in) \subseteq ToSet(used)
      BY <2>1 DEF ToSet
    <3>2. CanMake(in) /\ TakeOp /\ ops' = WithReader(Head(free), "sink", <<>>, in)
      BY <2>2
    <3> HIDE DEF in
    <3>3. Classed(ops', used')
      BY <1>4, <3>1, <3>2, CreatedClassed
    <3>4. QED
      BY <2>1, <3>3
  <2>3. QED
    BY <1>5, <1>12, <2>2 DEF AddSink, CannotMake, Pass
<1>13. CASE MergeSelect
  <2> DEFINE table == [ops EXCEPT ![Below].par = ops[Below].par \o ops[cursor].par]
  <2>1. cursor \in ToSet(used) /\ cursor \in OpIds /\ step' \notin Building
    BY <1>2, <1>4, <1>13, InUse
    DEF MergeSelect, At, IInv, PlacesInv, Passes, PoolFits, Bypass, Pass, Leave, Building, Unshared
  <2>2. CASE MergesSelect /\ Bypass(table)
    <3>1. ops[cursor].kind = "select" /\ "select" \in Through
      BY <2>2 DEF MergesSelect, Through
    <3>2. Below \in OpIds
      BY <1>4, <2>1, <3>1, Fields DEF Below, OpsFit
    <3>3. ops[Below].par \o ops[cursor].par \in Seq(Nat)
      BY <1>4, <2>1, <3>2, Fields DEF OpsFit
    <3>4. OpsFit(table)
      BY <1>4, <3>2, <3>3, NewPar
    <3>5. ASSUME NEW p \in OpIds PROVE /\ table[p].kind = ops[p].kind /\ table[p].cls = ops[p].cls
                                       /\ table[p].in = ops[p].in /\ table[p].out = ops[p].out
      BY <1>4, <3>2 DEF OpsFit, Operators
    <3> HIDE DEF table
    <3>6. table[cursor].kind \in Through
      BY <2>1, <3>1, <3>5
    <3>7. QED
      BY <1>4, <2>1, <2>2, <3>4, <3>5, <3>6, BypassedClassed
  <2>3. QED
    BY <1>5, <1>13, <2>1, <2>2 DEF MergeSelect, Pass
<1>14. CASE MergeProject \/ ComparePair \/ EndRow \/ EndLevel
  <2>1. step \in {"projects", "share"}
    BY <1>14 DEF MergeProject, At, ComparePair, EndRow, EndLevel
  <2>2. QED
    BY <1>3, <2>1 DEF Unshared
<1>15. QED
  BY <1>5, <1>6, <1>7, <1>8, <1>9, <1>10, <1>11, <1>12, <1>13, <1>14
  DEF Next, planVars, Load, Translate, Rewrite, AddQuery, MapView, Optimize, TranslateSource,
      Translated, NextPass, Ended, net

(* The pool starts without a class but for the system stream's. *)
LEMMA InitClasses == Init => ClassInv
<1> SUFFICES ASSUME Init PROVE ClassInv
  OBVIOUS
<1>1. \A o \in OpIds : /\ ops[o].in = <<>> /\ ops[o].out = <<>>
                       /\ ops[o].kind = IF o = 1 THEN "ssgen" ELSE "sink"
                       /\ o # 1 => ops[o].cls = 0
  BY DEF Init, Blank
<1>2. used = <<1>> /\ ToSet(used) = {1} /\ step = "idle" /\ 1 \in OpIds
  BY OneIsOp DEF Init, ToSet
<1>3. \A o \in ToSet(free) : o \in OpIds \ {1}
  BY PlanConstants, SMTT(40) DEF Init, ToSet, OpIds
<1>4. ClassesAgree(ops, ToSet(used)) /\ OutputsClassed(ops, ToSet(used))
  BY <1>1, <1>2 DEF ClassesAgree, OutputsClassed, Ends
<1>5. OutAcyclic(ops)
  <2>1. PICK r : r = [o \in OpIds |-> 0]
    OBVIOUS
  <2>2. 0 \in Nat /\ r \in [OpIds -> 0..0]
    BY <2>1
  <2>3. OutRanked(ops, r)
    BY <1>1 DEF OutRanked, ToSet
  <2>4. QED
    BY <2>2, <2>3 DEF OutAcyclic
<1>6. StreamGenerated(ops)
  BY <1>1 DEF StreamGenerated
<1>7. Fresh(ops, used, free)
  BY <1>1, <1>2, <1>3 DEF Fresh
<1>8. QED
  BY <1>2, <1>4, <1>5, <1>6, <1>7 DEF ClassInv, Classed

(* addQueryClasses: an operator has the highest class of the outputs it works   *)
(* for, and none if it works for none, however queries and views are added and *)
(* whatever is taken out, until operators are shared.                        *)
THEOREM ClassesHighest == Spec => [](step \in Unshared => ClassIsHighest)
<1>1. ASSUME IInv, ClassInv, step \in Unshared PROVE ClassIsHighest
  <2>1. NetFits /\ OpsFit(ops) /\ used \in Seq(OpIds)
    BY <1>1, NetOfInv DEF IInv, NetFits, PoolFits
  <2>2. NetWired
    BY <1>1 DEF IInv, NetInv, EdgesAgree, NewerFirst, NetWired, Wired, InOrder
  <2>3. \A o \in ToSet(used) : Serves(o)
    BY <1>1, <2>1, <2>2, ClassesServe DEF ClassInv, Classed
  <2>4. QED
    BY <2>1, <2>3, ServesHighest DEF ClassIsHighest
<1>2. Init => ClassInv
  BY InitClasses
<1>3. MeansInv /\ ClassInv /\ [Next]_planVars => ClassInv'
  <2>1. ASSUME MeansInv, ClassInv, Next PROVE ClassInv'
    BY <2>1, ClassesStep DEF MeansInv
  <2>2. ASSUME ClassInv, UNCHANGED planVars PROVE ClassInv'
    BY <2>2 DEF planVars, net, gen, ClassInv
  <2>3. QED
    BY <2>1, <2>2
<1>4. MeansInv => IInv
  BY DEF MeansInv
<1>5. QED
  BY <1>1, <1>2, <1>3, <1>4, MeansInvariance, PTL DEF Spec
=============================================================================
