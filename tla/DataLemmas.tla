------------------------------ MODULE DataLemmas ------------------------------
(****************************************************************************)
(* Lemmas about numbers, sequences and sums that the proofs of several      *)
(* components cite.  Induction is by the least counterexample: the theorem  *)
(* of the library on well founded relations takes a set, not an operator.   *)
(****************************************************************************)
EXTENDS Integers, SequencesExt, FiniteSetTheorems, WellFoundedInduction, TLAPS

(* A set of numbers that is not empty has a least one, and Min is it. *)
LEMMA Least ==
  ASSUME NEW T \in SUBSET Nat, T # {}
  PROVE  Min(T) \in T /\ \A y \in T : Min(T) <= y
<1>1. PICK x \in T : \A y \in T : ~(<<y, x>> \in OpToRel(<, Nat))
  <2> DEFINE R == OpToRel(<, Nat)
  <2>1. IsWellFoundedOn(R, Nat)
    BY NatLessThanWellFounded
  <2> HIDE DEF R
  <2>2. \E x \in T : \A y \in T : ~(<<y, x>> \in R)
    BY <2>1, WFMin
  <2>3. QED
    BY <2>2 DEF R
<1>2. ASSUME NEW y \in T PROVE x <= y
  <2>1. <<y, x>> \in {ss \in Nat \X Nat : ss[1] < ss[2]} <=> y < x
    OBVIOUS
  <2>2. <<y, x>> \notin {ss \in Nat \X Nat : ss[1] < ss[2]}
    BY <1>1 DEF OpToRel
  <2>3. QED
    BY <2>1, <2>2
<1>3. QED
  BY <1>2 DEF Min

(* Of a set of numbers that has 0 and the successor of each, nothing of Nat is*)
(* left out.                                                               *)
LEMMA InductiveSet ==
  ASSUME NEW T, 0 \in T, \A n \in Nat : n \in T => n + 1 \in T
  PROVE  Nat \subseteq T
<1> DEFINE bad == {n \in Nat : n \notin T}
<1>1. SUFFICES ASSUME bad # {} PROVE FALSE
  OBVIOUS
<1>2. PICK m \in bad : \A y \in bad : m <= y
  <2>1. bad \in SUBSET Nat
    OBVIOUS
  <2> HIDE DEF bad
  <2>2. QED
    BY <1>1, <2>1, Least
<1>3. m \in Nat /\ m # 0 /\ m - 1 \in Nat /\ m - 1 + 1 = m /\ ~(m <= m - 1)
  BY <1>2
<1>4. m - 1 \in T
  BY <1>2, <1>3
<1>5. QED
  BY <1>2, <1>3, <1>4

-----------------------------------------------------------------------------
(* The positions in K of a sequence of length n, counted.                     *)
LEMMA PositionsFinite ==
  ASSUME NEW n \in Nat, NEW K \in SUBSET (1..n)
  PROVE  /\ IsFiniteSet(K) /\ Cardinality(K) \in Nat /\ Cardinality(K) <= n
         /\ Cardinality(K) = n => K = 1..n
<1>1. IsFiniteSet(1..n) /\ Cardinality(1..n) = n
  BY FS_Interval
<1>2. QED
  BY <1>1, FS_Subset, FS_CardinalityType

(* The first place of x.                                                      *)
LEMMA FirstPlace ==
  ASSUME NEW S, NEW s \in Seq(S), NEW x \in ToSet(s)
  PROVE  /\ SelectInSeq(s, LAMBDA y : y = x) \in 1..Len(s)
         /\ s[SelectInSeq(s, LAMBDA y : y = x)] = x
<1> DEFINE I == {i \in 1..Len(s) : s[i] = x}
<1>1. I \in SUBSET Nat /\ I # {}
  BY DEF ToSet
<1>2. SelectInSeq(s, LAMBDA y : y = x) = Min(I)
  BY <1>1 DEF SelectInSeq
<1> HIDE DEF I
<1>3. Min(I) \in I
  BY <1>1, Least
<1>4. QED
  BY <1>2, <1>3 DEF I

(* What a sequence holds is of its type. *)
LEMMA SeqElement ==
  ASSUME NEW S, NEW s \in Seq(S), NEW k \in 1..Len(s) PROVE s[k] \in S
OBVIOUS

(* A sequence over a set is one over any larger set. *)
LEMMA WiderSeq ==
  ASSUME NEW S, NEW T, S \subseteq T, NEW s \in Seq(S) PROVE s \in Seq(T)
<1>1. Len(s) \in Nat /\ s = [k \in 1..Len(s) |-> s[k]] /\ \A k \in 1..Len(s) : s[k] \in T
  OBVIOUS
<1>2. QED
  BY <1>1

(* Two sequences one after the other: the length, and each element's place. *)
LEMMA Concat ==
  ASSUME NEW S, NEW s \in Seq(S), NEW t \in Seq(S)
  PROVE  /\ s \o t \in Seq(S)
         /\ Len(s) \in Nat /\ Len(t) \in Nat /\ Len(s \o t) = Len(s) + Len(t)
         /\ \A i \in 1..Len(s) : (s \o t)[i] = s[i]
         /\ \A i \in 1..Len(t) : (s \o t)[Len(s) + i] = t[i]
OBVIOUS

(* A list that goes on after another one with an element more.                *)
Appended(t, s, e) ==
  /\ t = [i \in 1..(Len(s) + 1) |-> t[i]] /\ t[Len(s) + 1] = e
  /\ \A i \in 1..Len(s) : t[i] = s[i]

(* A sequence that is one element longer, and otherwise the same, is what Append makes. *)
LEMMA AppendIs ==
  ASSUME NEW S, NEW s \in Seq(S), NEW e \in S, NEW t, Appended(t, s, e)
  PROVE  t = Append(s, e)
<1> DEFINE m == Len(s)
           a == Append(s, e)
<1>1. /\ m \in Nat /\ a = [i \in 1..(m + 1) |-> a[i]] /\ a[m + 1] = e
      /\ \A i \in 1..m : a[i] = s[i]
  <2>1. a \in Seq(S) /\ Len(a) = m + 1 /\ m \in Nat
    OBVIOUS
  <2>2. a[m + 1] = e /\ \A i \in 1..m : a[i] = s[i]
    OBVIOUS
  <2> HIDE DEF a
  <2>3. QED
    BY <2>1, <2>2
<1>2. \A i \in 1..(m + 1) : i \in 1..m \/ i = m + 1
  BY <1>1
<1>3. \A i \in 1..(m + 1) : a[i] = t[i]
  BY <1>1, <1>2 DEF Appended
<1> HIDE DEF a
<1>4. QED
  BY <1>1, <1>3 DEF a, Appended

(* A list of one with an element more.                                       *)
LEMMA TwoList ==
  ASSUME NEW a, NEW b PROVE Append(<<a>>, b) = <<a, b>>
<1> DEFINE S == {a, b}
           s == Append(<<a>>, b)
           t == <<a, b>>
<1>1. s \in Seq(S) /\ Len(s) = 2 /\ s[1] = a /\ s[2] = b
  <2>1. <<a>> \in Seq(S) /\ Len(<<a>>) = 1 /\ <<a>>[1] = a /\ b \in S
    OBVIOUS
  <2> HIDE DEF S
  <2>2. QED
    BY <2>1
<1>2. t \in Seq(S) /\ Len(t) = 2 /\ t[1] = a /\ t[2] = b
  OBVIOUS
<1>3. s = [i \in 1..2 |-> s[i]] /\ t = [i \in 1..2 |-> t[i]]
  <2> HIDE DEF s, t, S
  <2>1. QED
    BY <1>1, <1>2
<1>4. \A i \in 1..2 : s[i] = t[i]
  <2>1. \A i \in 1..2 : i = 1 \/ i = 2
    OBVIOUS
  <2> HIDE DEF s, t
  <2>2. QED
    BY <1>1, <1>2, <2>1
<1> HIDE DEF s, t
<1>5. s = t
  BY <1>3, <1>4
<1>6. QED
  BY <1>5 DEF s, t

(* An element before the first, as the stack of freed operators and lists grow. *)
LEMMA Prepended ==
  ASSUME NEW S, NEW s \in Seq(S), NEW o \in S
  PROVE  /\ <<o>> \o s \in Seq(S) /\ Len(<<o>> \o s) = Len(s) + 1 /\ (<<o>> \o s)[1] = o
         /\ \A k \in 1..Len(s) : (<<o>> \o s)[k + 1] = s[k]
         /\ ToSet(<<o>> \o s) = ToSet(s) \cup {o}
         /\ IsInjective(s) /\ o \notin ToSet(s) => IsInjective(<<o>> \o s)
<1> DEFINE t == <<o>> \o s
           n == Len(s)
<1>1. /\ Len(<<o>>) = 1 /\ <<o>>[1] = o /\ <<o>> \in Seq(S)
      /\ n \in Nat /\ DOMAIN s = 1..n
  OBVIOUS
<1>2. /\ t \in Seq(S) /\ Len(t) = n + 1 /\ t[1] = o
      /\ \A k \in 1..n : t[k + 1] = s[k]
  <2>1. /\ <<o>> \o s \in Seq(S) /\ Len(<<o>> \o s) = Len(<<o>>) + Len(s)
        /\ \A k \in 1..Len(<<o>>) : (<<o>> \o s)[k] = <<o>>[k]
        /\ \A k \in 1..Len(s) : (<<o>> \o s)[Len(<<o>>) + k] = s[k]
    BY <1>1, Concat
  <2>2. /\ 1 \in 1..1 /\ 1 + n = n + 1 /\ \A k \in 1..n : 1 + k = k + 1
    BY <1>1
  <2>3. QED
    BY <1>1, <2>1, <2>2
<1> HIDE DEF t, n
<1>3. DOMAIN t = 1..(n + 1)
  BY <1>2
<1>4. /\ \A k \in 1..(n + 1) : k = 1 \/ (k - 1 \in 1..n /\ (k - 1) + 1 = k)
      /\ \A k \in 1..n : k + 1 \in 1..(n + 1)
      /\ 1 \in 1..(n + 1)
  BY <1>1
<1>5. ToSet(s) = {s[k] : k \in 1..n} /\ ToSet(t) = {t[k] : k \in 1..(n + 1)}
  BY <1>1, <1>3 DEF ToSet
<1>6. ToSet(t) = ToSet(s) \cup {o}
  <2>1. \A k \in 1..(n + 1) : t[k] \in ToSet(s) \cup {o}
    BY <1>2, <1>4, <1>5
  <2>2. QED
    BY <1>2, <1>4, <1>5, <2>1
<1>7. ASSUME IsInjective(s), o \notin ToSet(s) PROVE IsInjective(t)
  <2>1. ASSUME NEW j \in 1..(n + 1), NEW k \in 1..(n + 1), t[j] = t[k] PROVE j = k
    <3>1. CASE j = 1 /\ k = 1
      BY <3>1
    <3>2. CASE j = 1 /\ k # 1
      BY <1>2, <1>4, <1>5, <1>7, <2>1, <3>2
    <3>3. CASE j # 1 /\ k = 1
      BY <1>2, <1>4, <1>5, <1>7, <2>1, <3>3
    <3>4. CASE j # 1 /\ k # 1
      <4>1. s[j - 1] = s[k - 1] /\ j - 1 \in 1..n /\ k - 1 \in 1..n
        BY <1>2, <1>4, <2>1, <3>4
      <4>2. j - 1 = k - 1
        BY <1>1, <1>7, <4>1 DEF IsInjective
      <4>3. QED
        BY <1>1, <4>2
    <3>5. QED
      BY <3>1, <3>2, <3>3, <3>4
  <2>2. QED
    BY <1>3, <2>1 DEF IsInjective
<1>8. QED
  BY <1>2, <1>6, <1>7 DEF t, n

(* What is left of a sequence without its first element. *)
LEMMA TailOf ==
  ASSUME NEW S, NEW s \in Seq(S), s # <<>>
  PROVE  /\ Head(s) \in S /\ Head(s) \in ToSet(s) /\ Head(s) = s[1]
         /\ Tail(s) \in Seq(S) /\ Len(Tail(s)) = Len(s) - 1
         /\ \A k \in 1..(Len(s) - 1) : Tail(s)[k] = s[k + 1]
         /\ IsInjective(s) => IsInjective(Tail(s)) /\ ToSet(Tail(s)) = ToSet(s) \ {Head(s)}
<1> DEFINE t == Tail(s)
           m == Len(s)
           o == Head(s)
<1>1. /\ m \in Nat /\ m >= 1 /\ DOMAIN s = 1..m /\ o = s[1] /\ o \in S
      /\ t \in Seq(S) /\ Len(t) = m - 1 /\ DOMAIN t = 1..(m - 1)
      /\ \A k \in 1..(m - 1) : t[k] = s[k + 1]
  OBVIOUS
<1> HIDE DEF t, m, o
<1>2. /\ \A k \in 1..(m - 1) : k + 1 \in 1..m /\ k + 1 # 1
      /\ \A k \in 1..m : k = 1 \/ (k - 1 \in 1..(m - 1) /\ (k - 1) + 1 = k)
      /\ 1 \in 1..m
  BY <1>1
<1>3. ToSet(s) = {s[k] : k \in 1..m} /\ ToSet(t) = {t[k] : k \in 1..(m - 1)}
  BY <1>1 DEF ToSet
<1>4. ASSUME IsInjective(s) PROVE IsInjective(t) /\ ToSet(t) = ToSet(s) \ {o}
  <2>1. ASSUME NEW j \in 1..(m - 1), NEW k \in 1..(m - 1), t[j] = t[k] PROVE j = k
    <3>1. s[j + 1] = s[k + 1] /\ j + 1 \in 1..m /\ k + 1 \in 1..m
      BY <1>1, <1>2, <2>1
    <3>2. j + 1 = k + 1
      BY <1>1, <1>4, <3>1 DEF IsInjective
    <3>3. QED
      BY <1>1, <3>2
  <2>2. \A k \in 1..(m - 1) : t[k] \in ToSet(s) /\ t[k] # o
    <3>1. ASSUME NEW k \in 1..(m - 1) PROVE t[k] \in ToSet(s) /\ t[k] # o
      <4>1. t[k] = s[k + 1] /\ k + 1 \in 1..m /\ k + 1 # 1
        BY <1>1, <1>2
      <4>2. s[k + 1] # s[1]
        BY <1>1, <1>2, <1>4, <4>1 DEF IsInjective
      <4>3. QED
        BY <1>1, <1>3, <4>1, <4>2
    <3>2. QED
      BY <3>1
  <2>3. ASSUME NEW x \in ToSet(s) \ {o} PROVE \E k \in 1..(m - 1) : x = t[k]
    <3>1. PICK k \in 1..m : x = s[k]
      BY <1>3
    <3>2. k - 1 \in 1..(m - 1) /\ (k - 1) + 1 = k
      BY <1>1, <1>2, <3>1
    <3>3. t[k - 1] = x
      BY <1>1, <3>1, <3>2
    <3>4. QED
      BY <3>2, <3>3
  <2>4. IsInjective(t)
    BY <1>1, <2>1 DEF IsInjective
  <2>5. QED
    BY <1>3, <2>2, <2>3, <2>4
<1>5. QED
  BY <1>1, <1>2, <1>3, <1>4 DEF t, m, o

(* A sequence without one of its elements is one shorter, the later ones move up. *)
LEMMA RemoveAtType ==
  ASSUME NEW S, NEW s \in Seq(S), NEW k \in 1..Len(s)
  PROVE  /\ RemoveAt(s, k) \in Seq(S) /\ Len(RemoveAt(s, k)) = Len(s) - 1
         /\ \A i \in 1..(Len(s) - 1) : RemoveAt(s, k)[i] = s[IF i < k THEN i ELSE i + 1]
<1> DEFINE front == SubSeq(s, 1, k - 1)
           rest  == SubSeq(s, k + 1, Len(s))
<1>1. Len(s) \in Nat /\ k \in Nat /\ 1 <= k /\ k <= Len(s)
  OBVIOUS
<1>2. /\ front \in Seq(S) /\ Len(front) = k - 1
      /\ \A i \in 1..(k - 1) : front[i] = s[i]
  BY <1>1
<1>3. /\ rest \in Seq(S) /\ Len(rest) = Len(s) - k
      /\ \A i \in 1..(Len(s) - k) : rest[i] = s[k + i]
  BY <1>1
<1> HIDE DEF front, rest
<1>4. /\ front \o rest \in Seq(S) /\ Len(front \o rest) = Len(s) - 1
      /\ \A i \in 1..(k - 1) : (front \o rest)[i] = front[i]
      /\ \A i \in 1..(Len(s) - k) : (front \o rest)[k - 1 + i] = rest[i]
  <2>1. /\ front \o rest \in Seq(S) /\ Len(front \o rest) = Len(front) + Len(rest)
        /\ \A i \in 1..Len(front) : (front \o rest)[i] = front[i]
        /\ \A i \in 1..Len(rest) : (front \o rest)[Len(front) + i] = rest[i]
    <3>1. front \in Seq(S) /\ rest \in Seq(S)
      BY <1>2, <1>3
    <3>2. QED
      BY <3>1, Concat
  <2>2. (k - 1) + (Len(s) - k) = Len(s) - 1
    BY <1>1
  <2>3. QED
    BY <1>2, <1>3, <2>1, <2>2
<1>5. RemoveAt(s, k) = front \o rest
  BY DEF RemoveAt, front, rest
<1>6. ASSUME NEW i \in 1..(Len(s) - 1)
      PROVE  RemoveAt(s, k)[i] = s[IF i < k THEN i ELSE i + 1]
  <2>1. CASE i < k
    <3>1. i \in 1..(k - 1)
      BY <1>1, <2>1
    <3>2. QED
      BY <1>2, <1>4, <1>5, <2>1, <3>1
  <2>2. CASE ~(i < k)
    <3>1. /\ i - (k - 1) \in 1..(Len(s) - k)
          /\ k - 1 + (i - (k - 1)) = i /\ k + (i - (k - 1)) = i + 1
      BY <1>1, <2>2
    <3>2. RemoveAt(s, k)[i] = rest[i - (k - 1)]
      BY <1>4, <1>5, <3>1
    <3>3. QED
      BY <1>3, <2>2, <3>1, <3>2
  <2>3. QED
    BY <2>1, <2>2
<1>7. QED
  BY <1>4, <1>5, <1>6

-----------------------------------------------------------------------------
(* Sums.                                                                   *)
AnyOf(s) == CHOOSE x \in s : TRUE
SumStep(f, h, s) == IF s = {} THEN 0 ELSE f[AnyOf(s)] + h[s \ {AnyOf(s)}]

(* The sum of a function is chosen as the library defines it, by sets of its domain. *)
LEMMA SumIsChosen ==
  ASSUME NEW f
  PROVE  SumFunction(f) = (CHOOSE h : h = [s \in SUBSET DOMAIN f |-> SumStep(f, h, s)])[DOMAIN f]
BY DEF SumFunction, SumFunctionOnSet, FoldFunctionOnSet, MapThenFoldSet, SumStep, AnyOf

(* Any element that is taken from a finite set of numbers leaves a set smaller by one. *)
LEMMA SumParts ==
  ASSUME NEW n \in Nat, NEW s \in SUBSET (1..n)
  PROVE  /\ Cardinality(s) \in Nat /\ Cardinality(s) <= n
         /\ Cardinality(s) = 0 <=> s = {}
         /\ s # {} => /\ AnyOf(s) \in 1..n /\ s \ {AnyOf(s)} \in SUBSET (1..n)
                      /\ Cardinality(s \ {AnyOf(s)}) = Cardinality(s) - 1
<1>1. IsFiniteSet(1..n) /\ Cardinality(1..n) = n
  BY FS_Interval
<1>2. IsFiniteSet(s) /\ Cardinality(s) \in Nat /\ Cardinality(s) <= n
  <2> DEFINE S == 1..n
  <2>1. s \in SUBSET S /\ IsFiniteSet(S) /\ Cardinality(S) = n
    BY <1>1
  <2> HIDE DEF S
  <2>2. QED
    BY <2>1, FS_Subset, FS_CardinalityType
<1>3. Cardinality(s) = 0 <=> s = {}
  BY <1>2, FS_EmptySet
<1>4. s # {} => AnyOf(s) \in s
  BY DEF AnyOf
<1>5. s # {} => Cardinality(s \ {AnyOf(s)}) = Cardinality(s) - 1
  BY <1>2, <1>4, FS_RemoveElement
<1>6. QED
  BY <1>2, <1>3, <1>4, <1>5

(* The function that a sum is computed by, and its typing: by induction on the*)
(* size of the sets that are summed over.                                  *)
LEMMA SumUnfolds ==
  ASSUME NEW n \in Nat, NEW f \in [1..n -> Nat]
  PROVE  \E h \in [SUBSET (1..n) -> Nat] :
           /\ SumFunction(f) = h[1..n]
           /\ \A s \in SUBSET (1..n) : h[s] = SumStep(f, h, s)
<1> DEFINE D == SUBSET (1..n)
           IsSum(h, m) == \A s \in D : Cardinality(s) <= m => h[s] = SumStep(f, h, s)
           T == {m \in Nat : \E h \in [D -> Nat] : IsSum(h, m)}
           Next(h) == [s \in D |-> SumStep(f, h, s)]
<1>1a. (1..n) \in D /\ \A s \in D : Cardinality(s) \in Nat /\ Cardinality(s) <= n
  BY SumParts
<1>1b. \A s \in D : Cardinality(s) = 0 <=> s = {}
  BY SumParts
<1>1c. \A s \in D : s # {} => AnyOf(s) \in 1..n /\ s \ {AnyOf(s)} \in D
  BY SumParts
<1>1d. \A s \in D : s # {} => Cardinality(s \ {AnyOf(s)}) = Cardinality(s) - 1
  BY SumParts
<1> HIDE DEF D
<1>2. ASSUME NEW h \in [D -> Nat] PROVE Next(h) \in [D -> Nat]
  <2>1. ASSUME NEW s \in D PROVE SumStep(f, h, s) \in Nat
    BY <1>1c DEF SumStep
  <2>2. QED
    BY <2>1
<1>3. 0 \in T
  <2> DEFINE h == [s \in D |-> 0]
  <2>1. ASSUME NEW s \in D, Cardinality(s) <= 0 PROVE h[s] = SumStep(f, h, s)
    <3>1. s = {}
      BY <1>1a, <1>1b, <1>1c, <1>1d, <2>1
    <3>2. QED
      BY <3>1 DEF SumStep
  <2>2. IsSum(h, 0) /\ h \in [D -> Nat]
    BY <2>1
  <2>3. QED
    BY <2>2
<1>4. ASSUME NEW m \in Nat, m \in T PROVE m + 1 \in T
  <2>1. PICK h \in [D -> Nat] : IsSum(h, m)
    BY <1>4
  <2> DEFINE k == Next(h)
  <2>2. k \in [D -> Nat]
    BY <1>2
  <2>3. ASSUME NEW s \in D, Cardinality(s) <= m + 1 PROVE k[s] = SumStep(f, k, s)
    <3>1. CASE s = {}
      BY <3>1 DEF SumStep
    <3>2. CASE s # {}
      <4> DEFINE t == s \ {AnyOf(s)}
      <4>1. t \in D /\ Cardinality(t) <= m
        <5>1. t \in D /\ Cardinality(t) = Cardinality(s) - 1 /\ Cardinality(s) \in Nat
          BY <1>1a, <1>1c, <1>1d, <3>2
        <5> HIDE DEF t
        <5>2. QED
          BY <5>1, <2>3
      <4>2. h[t] = SumStep(f, h, t) /\ k[t] = SumStep(f, h, t)
        BY <2>1, <4>1
      <4> HIDE DEF t, T
      <4>3. k[s] = SumStep(f, h, s)
        OBVIOUS
      <4> HIDE DEF k
      <4>4. QED
        BY <3>2, <4>2, <4>3 DEF SumStep, t
    <3>3. QED
      BY <3>1, <3>2
  <2> HIDE DEF k
  <2>4. QED
    BY <2>2, <2>3, SMTT(40)
<1>5. n \in T
  <2> HIDE DEF T
  <2>1. Nat \subseteq T
    BY <1>3, <1>4, InductiveSet
  <2>2. QED
    BY <2>1
<1>6. PICK h \in [D -> Nat] : IsSum(h, n)
  BY <1>5
<1>7. h = [s \in D |-> SumStep(f, h, s)]
  <2>1. \A s \in D : h[s] = SumStep(f, h, s)
    BY <1>1a, <1>1b, <1>1c, <1>1d, <1>6
  <2>2. QED
    BY <2>1
<1> DEFINE g == CHOOSE k : k = [s \in D |-> SumStep(f, k, s)]
<1>8. g = [s \in D |-> SumStep(f, g, s)] /\ SumFunction(f) = g[1..n]
  <2>1. DOMAIN f = 1..n
    OBVIOUS
  <2>2. SumFunction(f) = g[1..n]
    BY <2>1, SumIsChosen DEF D
  <2>3. QED
    BY <1>7, <2>2
<1> HIDE DEF g
<1>9. g \in [D -> Nat]
  <2> DEFINE U == {m \in Nat : \A s \in D : Cardinality(s) = m => g[s] \in Nat}
  <2>1. 0 \in U
    <3>1. \A s \in D : Cardinality(s) = 0 => g[s] \in Nat
      BY <1>1a, <1>1b, <1>1c, <1>1d, <1>8 DEF SumStep
    <3>2. QED
      BY <3>1
  <2>2. ASSUME NEW m \in Nat, m \in U PROVE m + 1 \in U
    <3>1. ASSUME NEW s \in D, Cardinality(s) = m + 1 PROVE g[s] \in Nat
      <4>1. /\ s # {} /\ AnyOf(s) \in 1..n
            /\ s \ {AnyOf(s)} \in D /\ Cardinality(s \ {AnyOf(s)}) = m
        <5>1. s # {} /\ Cardinality(s) \in Nat
          BY <1>1a, <1>1b, <3>1
        <5>2. AnyOf(s) \in 1..n /\ s \ {AnyOf(s)} \in D
          BY <1>1c, <5>1
        <5>3. Cardinality(s \ {AnyOf(s)}) = Cardinality(s) - 1
          BY <1>1d, <5>1
        <5>4. QED
          BY <3>1, <5>1, <5>2, <5>3
      <4>2. g[s \ {AnyOf(s)}] \in Nat
        BY <2>2, <4>1
      <4>3. g[s] = f[AnyOf(s)] + g[s \ {AnyOf(s)}]
        BY <1>8, <4>1 DEF SumStep
      <4>4. QED
        BY <4>1, <4>2, <4>3
    <3>2. QED
      BY <3>1
  <2>3. Nat \subseteq U
    <3> HIDE DEF U
    <3>1. QED
      BY <2>1, <2>2, InductiveSet
  <2>4. ASSUME NEW s \in D PROVE g[s] \in Nat
    <3>1. Cardinality(s) \in U
      BY <1>1a, <1>1b, <1>1c, <1>1d, <2>3
    <3>2. QED
      BY <3>1
  <2>5. QED
    BY <1>8, <2>4
<1>10. \A s \in D : g[s] = SumStep(f, g, s)
  <2> DEFINE r == [s \in D |-> SumStep(f, g, s)]
  <2>1. \A s \in D : r[s] = SumStep(f, g, s)
    OBVIOUS
  <2>2. g = r
    BY <1>8
  <2> HIDE DEF r
  <2>3. QED
    BY <2>1, <2>2
<1>11. QED
  BY <1>8, <1>9, <1>10 DEF D

(* A sum of numbers is a number, and no larger than the sum of larger ones.*)
LEMMA SumAtMost ==
  ASSUME NEW n \in Nat, NEW f \in [1..n -> Nat], NEW g \in [1..n -> Nat],
         \A k \in 1..n : f[k] <= g[k]
  PROVE  /\ SumFunction(f) \in Nat /\ SumFunction(g) \in Nat
         /\ SumFunction(f) <= SumFunction(g)
<1> DEFINE D == SUBSET (1..n)
<1>0a. (1..n) \in D /\ \A s \in D : Cardinality(s) \in Nat /\ Cardinality(s) <= n
  BY SumParts
<1>0b. \A s \in D : Cardinality(s) = 0 <=> s = {}
  BY SumParts
<1>0c. \A s \in D : s # {} => AnyOf(s) \in 1..n /\ s \ {AnyOf(s)} \in D
  BY SumParts
<1>0d. \A s \in D : s # {} => Cardinality(s \ {AnyOf(s)}) = Cardinality(s) - 1
  BY SumParts
<1>1. PICK h \in [D -> Nat] :
        SumFunction(f) = h[1..n] /\ \A s \in D : h[s] = SumStep(f, h, s)
  BY SumUnfolds
<1>2. PICK k \in [D -> Nat] :
        SumFunction(g) = k[1..n] /\ \A s \in D : k[s] = SumStep(g, k, s)
  BY SumUnfolds
<1> HIDE DEF D
<1> DEFINE T == {m \in Nat : \A s \in D : Cardinality(s) = m => h[s] <= k[s]}
<1>4. 0 \in T
  <2>1. ASSUME NEW s \in D, Cardinality(s) = 0 PROVE h[s] <= k[s]
    <3>1. s = {}
      BY <1>0a, <1>0b, <1>0c, <1>0d, <2>1
    <3>2. h[s] = 0 /\ k[s] = 0
      BY <1>1, <1>2, <3>1 DEF SumStep
    <3>3. QED
      BY <3>2
  <2>2. QED
    BY <2>1
<1>5. ASSUME NEW m \in Nat, m \in T PROVE m + 1 \in T
  <2>1. ASSUME NEW s \in D, Cardinality(s) = m + 1 PROVE h[s] <= k[s]
    <3> DEFINE x == AnyOf(s)
               t == s \ {x}
    <3>1. s # {} 
      BY <1>0a, <1>0b, <1>0c, <1>0d, <2>1
    <3>2. x \in 1..n /\ t \in D /\ Cardinality(t) = m
      <4>1. x \in 1..n /\ t \in D
        BY <1>0c, <3>1
      <4>2. Cardinality(t) = Cardinality(s) - 1
        BY <1>0d, <3>1
      <4> HIDE DEF x, t
      <4>3. QED
        BY <2>1, <4>1, <4>2
    <3>3. h[s] = f[x] + h[t] /\ k[s] = g[x] + k[t]
      BY <1>1, <1>2, <3>1 DEF SumStep
    <3> HIDE DEF x, t
    <3>4. h[t] <= k[t] /\ f[x] <= g[x]
      BY <1>5, <3>2
    <3>5. h[t] \in Nat /\ k[t] \in Nat /\ f[x] \in Nat /\ g[x] \in Nat
      BY <1>1, <1>2, <3>2
    <3>6. QED
      BY <3>3, <3>4, <3>5
  <2>2. QED
    BY <2>1
<1>6. Nat \subseteq T
  <2> HIDE DEF T
  <2>1. QED
    BY <1>4, <1>5, InductiveSet
<1>7. (1..n) \in D /\ Cardinality(1..n) \in T
  BY <1>0a, <1>0b, <1>0c, <1>0d, <1>6
<1>8. h[1..n] <= k[1..n]
  BY <1>7
<1>9. QED
  BY <1>1, <1>2, <1>7, <1>8

-----------------------------------------------------------------------------
(* Flattening: the function it is computed by exists and gives sequences.     *)
FlatStep(ss, h, i) == IF i = 1 THEN ss[i] ELSE h[i - 1] \o ss[i]

(* The flattening of a list of sequences, one more sequence in each turn. *)
Unfolds(h, ss, S) ==
  /\ h \in [1..Len(ss) -> Seq(S)]
  /\ FlattenSeq(ss) = h[Len(ss)]
  /\ h[1] = ss[1] /\ \A i \in 2..Len(ss) : h[i] = h[i - 1] \o ss[i]

LEMMA FlatUnfolds ==
  ASSUME NEW S, NEW ss \in Seq(Seq(S)), ss # <<>>
  PROVE  \E h : Unfolds(h, ss, S)
<1> DEFINE n == Len(ss)
           D == 1..n
           T == {m \in Nat : \E h \in [D -> Seq(S)] : \A i \in D : i <= m => h[i] = FlatStep(ss, h, i)}
<1>1. n \in Nat /\ n >= 1 /\ \A i \in D : ss[i] \in Seq(S)
  OBVIOUS
<1> HIDE DEF n
<1>2. 0 \in T
  <2>1. [i \in D |-> ss[i]] \in [D -> Seq(S)] /\ \A i \in D : ~(i <= 0)
    BY <1>1
  <2>2. QED
    BY <2>1
<1>3. ASSUME NEW m \in Nat, m \in T PROVE m + 1 \in T
  <2>1. PICK h \in [D -> Seq(S)] : \A i \in D : i <= m => h[i] = FlatStep(ss, h, i)
    BY <1>3
  <2> DEFINE k == [i \in D |-> FlatStep(ss, h, i)]
  <2>2. ASSUME NEW i \in D PROVE FlatStep(ss, h, i) \in Seq(S)
    <3>1. CASE i = 1
      BY <1>1, <3>1 DEF FlatStep
    <3>2. CASE i # 1
      <4>1. i - 1 \in D
        BY <1>1, <3>2
      <4>2. h[i - 1] \in Seq(S) /\ ss[i] \in Seq(S)
        BY <1>1, <4>1
      <4>3. h[i - 1] \o ss[i] \in Seq(S)
        BY <4>2, Concat
      <4>4. QED
        BY <3>2, <4>3 DEF FlatStep
    <3>3. QED
      BY <3>1, <3>2
  <2>3. k \in [D -> Seq(S)] /\ \A i \in D : k[i] = FlatStep(ss, h, i)
    BY <2>2
  <2> HIDE DEF k
  <2>4. ASSUME NEW i \in D, i <= m + 1 PROVE k[i] = FlatStep(ss, k, i)
    <3>1. CASE i = 1
      BY <2>3, <3>1 DEF FlatStep
    <3>2. CASE i # 1
      <4>1. i - 1 \in D /\ i - 1 <= m
        BY <1>1, <2>4, <3>2
      <4>2. h[i - 1] = k[i - 1]
        BY <2>1, <2>3, <4>1
      <4>3. QED
        BY <2>3, <3>2, <4>2 DEF FlatStep
    <3>3. QED
      BY <3>1, <3>2
  <2>5. \E f \in [D -> Seq(S)] : \A i \in D : i <= m + 1 => f[i] = FlatStep(ss, f, i)
    BY <2>3, <2>4, Zenon
  <2>6. m + 1 \in Nat
    OBVIOUS
  <2>7. QED
    BY <2>5, <2>6, Zenon
<1>4. n \in T
  <2> HIDE DEF T
  <2>1. QED
    BY <1>1, <1>2, <1>3, InductiveSet
<1>5. PICK h \in [D -> Seq(S)] : \A i \in D : h[i] = FlatStep(ss, h, i)
  BY <1>1, <1>4
<1>6. h = [i \in D |-> FlatStep(ss, h, i)]
  BY <1>5
<1> DEFINE g == CHOOSE f : f = [i \in D |-> FlatStep(ss, f, i)]
<1>7. FlattenSeq(ss) = g[n]
  <2>1. n # 0
    BY <1>1
  <2>2. QED
    BY <2>1 DEF FlattenSeq, FlatStep, n
<1>8. g = [i \in D |-> FlatStep(ss, g, i)]
  BY <1>6
<1> HIDE DEF g
<1>9. \A i \in D : g[i] = FlatStep(ss, g, i)
  <2> DEFINE r == [i \in D |-> FlatStep(ss, g, i)]
  <2>1. \A i \in D : r[i] = FlatStep(ss, g, i)
    OBVIOUS
  <2>2. g = r
    BY <1>8
  <2> HIDE DEF r
  <2>3. QED
    BY <2>1, <2>2
<1> DEFINE U == {m \in Nat : \A i \in D : i = m => g[i] \in Seq(S)}
<1>10. \A m \in Nat : m + 1 = 1 => m = 0
  OBVIOUS
<1>11. 0 \in U
  BY <1>1
<1>12. ASSUME NEW m \in Nat, m \in U PROVE m + 1 \in U
  <2>1. ASSUME NEW i \in D, i = m + 1 PROVE g[i] \in Seq(S)
    <3>1. CASE i = 1
      BY <1>1, <1>9, <3>1 DEF FlatStep
    <3>2. CASE i # 1
      <4>1. i - 1 \in D /\ i - 1 = m
        BY <1>1, <2>1, <3>2
      <4>2. g[i - 1] \in Seq(S) /\ ss[i] \in Seq(S)
        BY <1>1, <1>12, <4>1
      <4>3. g[i - 1] \o ss[i] \in Seq(S)
        BY <4>2, Concat
      <4>4. QED
        BY <1>9, <3>2, <4>3 DEF FlatStep
    <3>3. QED
      BY <3>1, <3>2
  <2>2. QED
    BY <2>1
<1>13. \A i \in D : g[i] \in Seq(S)
  <2>1. Nat \subseteq U
    <3> HIDE DEF U
    <3>1. QED
      BY <1>11, <1>12, InductiveSet
  <2>2. QED
    BY <1>1, <2>1
<1>14. g \in [D -> Seq(S)]
  BY <1>8, <1>13
<1>15. g[1] = ss[1] /\ \A i \in 2..n : g[i] = g[i - 1] \o ss[i]
  <2>1. 1 \in D /\ \A i \in 2..n : i \in D /\ i # 1
    BY <1>1
  <2>2. QED
    BY <1>9, <2>1 DEF FlatStep
<1>16. QED
  BY <1>7, <1>14, <1>15 DEF n, Unfolds

(* Sequences of one type are flattened to a sequence of that type. *)
LEMMA FlatType ==
  ASSUME NEW S, NEW ss \in Seq(Seq(S)) PROVE FlattenSeq(ss) \in Seq(S)
<1>1. CASE ss = <<>>
  <2>1. Len(ss) = 0 /\ ss \in Seq(S)
    BY <1>1
  <2>2. QED
    BY <2>1 DEF FlattenSeq
<1>2. CASE ss # <<>>
  <2>1. PICK h \in [1..Len(ss) -> Seq(S)] : FlattenSeq(ss) = h[Len(ss)]
    <3>1. \E h : Unfolds(h, ss, S)
      BY <1>2, FlatUnfolds
    <3>2. QED
      BY <3>1 DEF Unfolds
  <2>2. Len(ss) \in 1..Len(ss)
    BY <1>2
  <2>3. QED
    BY <2>1, <2>2
<1>3. QED
  BY <1>1, <1>2
(* A longer list is flattened from the left.                                  *)
LEMMA FlatAppend ==
  ASSUME NEW S, NEW ss \in Seq(Seq(S)), NEW x \in Seq(S)
  PROVE  FlattenSeq(Append(ss, x)) = FlattenSeq(ss) \o x
<1> DEFINE n  == Len(ss)
           tt == Append(ss, x)
           Q  == Seq(S)
<1>1. /\ n \in Nat /\ tt \in Seq(Seq(S)) /\ tt # <<>> /\ Len(tt) = n + 1
      /\ tt[n + 1] = x /\ \A i \in 1..n : tt[i] = ss[i]
  <2>1. ss \in Seq(Q) /\ x \in Q
    OBVIOUS
  <2> HIDE DEF Q
  <2>2. /\ n \in Nat /\ tt \in Seq(Q) /\ tt # <<>> /\ Len(tt) = n + 1
        /\ tt[n + 1] = x /\ \A i \in 1..n : tt[i] = ss[i]
    BY <2>1
  <2>3. QED
    BY <2>2 DEF Q
<1> HIDE DEF tt
<1>2. PICK g \in [1..(n + 1) -> Seq(S)] :
        /\ FlattenSeq(tt) = g[n + 1]
        /\ g[1] = tt[1] /\ \A i \in 2..(n + 1) : g[i] = g[i - 1] \o tt[i]
  <2>1. \E g \in [1..Len(tt) -> Seq(S)] :
          /\ FlattenSeq(tt) = g[Len(tt)]
          /\ g[1] = tt[1] /\ \A i \in 2..Len(tt) : g[i] = g[i - 1] \o tt[i]
    <3>1. tt \in Seq(Seq(S)) /\ tt # <<>>
      BY <1>1
    <3>2. \E h : Unfolds(h, tt, S)
      BY <3>1, FlatUnfolds
    <3>3. QED
      BY <3>2 DEF Unfolds
  <2> HIDE DEF n
  <2>2. QED
    BY <1>1, <2>1
<1>3. CASE n = 0
  <2>1. FlattenSeq(ss) = <<>>
    BY <1>3 DEF FlattenSeq
  <2>2. g[1] = x
    BY <1>1, <1>2, <1>3
  <2>3. QED
    BY <1>1, <1>2, <1>3, <2>1, <2>2 DEF tt
<1>4. CASE n # 0
  <2>1. ss # <<>> /\ n >= 1
    BY <1>1, <1>4
  <2>2. PICK h \in [1..n -> Seq(S)] :
          /\ FlattenSeq(ss) = h[n]
          /\ h[1] = ss[1] /\ \A i \in 2..n : h[i] = h[i - 1] \o ss[i]
    <3>1. \E h : Unfolds(h, ss, S)
      BY <2>1, FlatUnfolds
    <3>2. QED
      BY <3>1 DEF Unfolds
  <2> DEFINE T == {m \in Nat : \A i \in 1..n : i = m => g[i] = h[i]}
  <2>3. 0 \in T
    BY <1>1
  <2>4. ASSUME NEW m \in Nat, m \in T PROVE m + 1 \in T
    <3>1. ASSUME NEW i \in 1..n, i = m + 1 PROVE g[i] = h[i]
      <4>1. CASE i = 1
        BY <1>1, <1>2, <2>2, <4>1
      <4>2. CASE i # 1
        <5>1. i - 1 \in 1..n /\ i - 1 = m /\ i \in 2..n /\ i \in 2..(n + 1)
          BY <1>1, <3>1, <4>2
        <5>2. g[i - 1] = h[i - 1]
          BY <2>4, <5>1
        <5>3. QED
          BY <1>1, <1>2, <2>2, <5>1, <5>2
      <4>3. QED
        BY <4>1, <4>2
    <3>2. QED
      BY <3>1
  <2>5. n \in T
    <3> HIDE DEF T, n
    <3>1. QED
      BY <1>1, <2>3, <2>4, InductiveSet
  <2>6. g[n] = h[n]
    BY <2>1, <2>5
  <2>7. n + 1 \in 2..(n + 1) /\ (n + 1) - 1 = n
    BY <1>1, <2>1
  <2>8. QED
    BY <1>1, <1>2, <2>2, <2>6, <2>7 DEF tt
<1>5. QED
  BY <1>3, <1>4

(* Flattening the two parts of a list.                                        *)
LEMMA FlatSplit ==
  ASSUME NEW S, NEW ss \in Seq(Seq(S)), NEW tt \in Seq(Seq(S))
  PROVE  FlattenSeq(ss \o tt) = FlattenSeq(ss) \o FlattenSeq(tt)
<1> DEFINE P(t) == FlattenSeq(ss \o t) = FlattenSeq(ss) \o FlattenSeq(t)
           T == {m \in Nat : \A t \in Seq(Seq(S)) : Len(t) = m => P(t)}
<1>1. 0 \in T
  <2>1. ASSUME NEW t \in Seq(Seq(S)), Len(t) = 0 PROVE P(t)
    <3>1. t = <<>> /\ FlattenSeq(t) = t
      BY <2>1 DEF FlattenSeq
    <3>2. ss \o <<>> = ss
      OBVIOUS
    <3>3. FlattenSeq(ss) \in Seq(S)
      BY FlatType
    <3>4. FlattenSeq(ss) \o <<>> = FlattenSeq(ss)
      BY <3>3
    <3>5. QED
      BY <3>1, <3>2, <3>4
  <2>2. QED
    BY <2>1
<1>2. ASSUME NEW m \in Nat, m \in T PROVE m + 1 \in T
  <2>1. ASSUME NEW t \in Seq(Seq(S)), Len(t) = m + 1 PROVE P(t)
    <3> DEFINE u == SubSeq(t, 1, m)
               x == t[m + 1]
    <3>1. u \in Seq(Seq(S)) /\ Len(u) = m /\ x \in Seq(S) /\ t = Append(u, x)
      BY <2>1
    <3> HIDE DEF u, x
    <3>2. P(u)
      BY <1>2, <3>1
    <3>3. ss \o t = Append(ss \o u, x) /\ ss \o u \in Seq(Seq(S))
      BY <3>1
    <3>4. FlattenSeq(ss \o t) = FlattenSeq(ss \o u) \o x
      BY <3>1, <3>3, FlatAppend
    <3>5. FlattenSeq(t) = FlattenSeq(u) \o x
      BY <3>1, FlatAppend
    <3>6. FlattenSeq(ss) \in Seq(S) /\ FlattenSeq(u) \in Seq(S)
      BY <3>1, FlatType
    <3>7. (FlattenSeq(ss) \o FlattenSeq(u)) \o x = FlattenSeq(ss) \o (FlattenSeq(u) \o x)
      BY <3>1, <3>6, SMTT(40)
    <3>8. QED
      BY <3>2, <3>4, <3>5, <3>7
  <2>2. QED
    BY <2>1
<1>3. Nat \subseteq T
  <2> HIDE DEF T
  <2>1. QED
    BY <1>1, <1>2, InductiveSet
<1>4. Len(tt) \in Nat
  OBVIOUS
<1>5. QED
  BY <1>3, <1>4

(* The flattening of one sequence is that sequence. *)
LEMMA FlatSingle ==
  ASSUME NEW S, NEW x \in Seq(S) PROVE FlattenSeq(<<x>>) = x
<1>1. <<>> \in Seq(Seq(S)) /\ Append(<<>>, x) = <<x>>
  OBVIOUS
<1>2. FlattenSeq(<<>>) = <<>> /\ <<>> \o x = x
  BY DEF FlattenSeq
<1>3. QED
  BY <1>1, <1>2, FlatAppend

(* The length of a flattened list is given by the lengths of its members.     *)
LEMMA FlatLengths ==
  ASSUME NEW S, NEW ss \in Seq(Seq(S)), NEW tt \in Seq(Seq(S)), Len(ss) = Len(tt),
         \A i \in 1..Len(ss) : Len(ss[i]) = Len(tt[i])
  PROVE  Len(FlattenSeq(ss)) = Len(FlattenSeq(tt))
<1>1. CASE ss = <<>>
  BY <1>1 DEF FlattenSeq
<1>2. CASE ss # <<>>
  <2> DEFINE n == Len(ss)
  <2>1. n \in Nat /\ n >= 1 /\ tt # <<>> /\ Len(tt) = n
        /\ \A i \in 1..n : ss[i] \in Seq(S) /\ tt[i] \in Seq(S)
    BY <1>2
  <2>2. PICK h \in [1..n -> Seq(S)] :
          /\ FlattenSeq(ss) = h[n]
          /\ h[1] = ss[1] /\ \A i \in 2..n : h[i] = h[i - 1] \o ss[i]
    <3>1. \E h : Unfolds(h, ss, S)
      BY <1>2, FlatUnfolds
    <3>2. QED
      BY <3>1 DEF Unfolds
  <2>3. PICK g \in [1..n -> Seq(S)] :
          /\ FlattenSeq(tt) = g[n]
          /\ g[1] = tt[1] /\ \A i \in 2..n : g[i] = g[i - 1] \o tt[i]
    <3>1. \E g : Unfolds(g, tt, S)
      BY <2>1, FlatUnfolds
    <3> HIDE DEF n
    <3>2. QED
      BY <2>1, <3>1 DEF Unfolds
  <2> DEFINE T == {m \in Nat : \A i \in 1..n : i = m => Len(g[i]) = Len(h[i])}
  <2> HIDE DEF n
  <2>4. 0 \in T
    BY <2>1
  <2>5. ASSUME NEW m \in Nat, m \in T PROVE m + 1 \in T
    <3>1. ASSUME NEW i \in 1..n, i = m + 1 PROVE Len(g[i]) = Len(h[i])
      <4>1. CASE i = 1
        BY <2>2, <2>3, <4>1 DEF n
      <4>2. CASE i # 1
        <5>1. i - 1 \in 1..n /\ i - 1 = m /\ i \in 2..n
          BY <2>1, <3>1, <4>2
        <5>2. Len(g[i - 1]) = Len(h[i - 1])
          BY <2>5, <5>1
        <5>3. h[i] = h[i - 1] \o ss[i] /\ g[i] = g[i - 1] \o tt[i]
          BY <2>2, <2>3, <5>1
        <5>4. h[i - 1] \in Seq(S) /\ g[i - 1] \in Seq(S) /\ ss[i] \in Seq(S) /\ tt[i] \in Seq(S)
          BY <2>1, <2>2, <2>3, <5>1
        <5>5. Len(ss[i]) = Len(tt[i])
          BY DEF n
        <5>6. Len(h[i]) = Len(h[i - 1]) + Len(ss[i]) /\ Len(g[i]) = Len(g[i - 1]) + Len(tt[i])
          BY <5>3, <5>4, Concat
        <5>7. QED
          BY <5>2, <5>5, <5>6
      <4>3. QED
        BY <4>1, <4>2
    <3>2. QED
      BY <3>1
  <2>6. n \in T
    <3> HIDE DEF T
    <3>1. QED
      BY <2>1, <2>4, <2>5, InductiveSet
  <2>7. QED
    BY <2>1, <2>2, <2>3, <2>6
<1>3. QED
  BY <1>1, <1>2

(* The members of a concatenation. *)
LEMMA ConcatMembers ==
  ASSUME NEW S, NEW s \in Seq(S), NEW t \in Seq(S)
  PROVE  ToSet(s \o t) = ToSet(s) \cup ToSet(t)
<1>1. /\ Len(s) \in Nat /\ Len(t) \in Nat /\ DOMAIN s = 1..Len(s) /\ DOMAIN t = 1..Len(t)
      /\ DOMAIN (s \o t) = 1..(Len(s) + Len(t))
      /\ \A i \in 1..Len(s) : (s \o t)[i] = s[i]
      /\ \A i \in 1..Len(t) : (s \o t)[Len(s) + i] = t[i]
  OBVIOUS
<1> DEFINE u == s \o t
<1>2. ASSUME NEW i \in DOMAIN u PROVE u[i] \in ToSet(s) \cup ToSet(t)
  <2>1. CASE i <= Len(s)
    <3>1. i \in DOMAIN s /\ u[i] = s[i]
      BY <1>1, <2>1
    <3>2. QED
      BY <3>1 DEF ToSet
  <2>2. CASE ~(i <= Len(s))
    <3>1. i - Len(s) \in 1..Len(t) /\ i = Len(s) + (i - Len(s))
      BY <1>1, <2>2
    <3>2. u[i] = t[i - Len(s)]
      BY <1>1, <3>1
    <3>3. QED
      BY <1>1, <3>1, <3>2 DEF ToSet
  <2>3. QED
    BY <2>1, <2>2
<1>3. ASSUME NEW i \in 1..Len(s) PROVE s[i] \in ToSet(u)
  <2>1. i \in DOMAIN u /\ u[i] = s[i]
    BY <1>1
  <2> HIDE DEF u
  <2>2. QED
    BY <2>1 DEF ToSet
<1>4. ASSUME NEW i \in 1..Len(t) PROVE t[i] \in ToSet(u)
  <2>1. Len(s) + i \in DOMAIN u /\ u[Len(s) + i] = t[i]
    BY <1>1
  <2> HIDE DEF u
  <2>2. QED
    BY <2>1 DEF ToSet
<1> HIDE DEF u
<1>5. ToSet(u) = ToSet(s) \cup ToSet(t)
  BY <1>1, <1>2, <1>3, <1>4 DEF ToSet
<1>6. QED
  BY <1>5 DEF u

(* The members of a flattened list are those of its sequences. *)
LEMMA FlatMembers ==
  ASSUME NEW S, NEW ss \in Seq(Seq(S))
  PROVE  ToSet(FlattenSeq(ss)) = UNION {ToSet(ss[i]) : i \in 1..Len(ss)}
<1> DEFINE Of(t) == UNION {ToSet(t[i]) : i \in 1..Len(t)}
           T == {m \in Nat : \A t \in Seq(Seq(S)) : Len(t) = m => ToSet(FlattenSeq(t)) = Of(t)}
<1>1. 0 \in T
  <2>1. ASSUME NEW t \in Seq(Seq(S)), Len(t) = 0 PROVE ToSet(FlattenSeq(t)) = Of(t)
    <3>1. t = <<>> /\ FlattenSeq(t) = t
      BY <2>1 DEF FlattenSeq
    <3>2. ToSet(<<>>) = {} /\ Of(<<>>) = {}
      BY DEF ToSet
    <3>3. QED
      BY <3>1, <3>2
  <2>2. QED
    BY <2>1
<1>2. ASSUME NEW m \in Nat, m \in T PROVE m + 1 \in T
  <2>1. ASSUME NEW t \in Seq(Seq(S)), Len(t) = m + 1 PROVE ToSet(FlattenSeq(t)) = Of(t)
    <3> DEFINE u == SubSeq(t, 1, m)
               x == t[m + 1]
    <3>1. /\ u \in Seq(Seq(S)) /\ Len(u) = m /\ x \in Seq(S) /\ t = Append(u, x)
          /\ \A i \in 1..m : u[i] = t[i]
      BY <2>1
    <3>2. x = t[m + 1]
      OBVIOUS
    <3> HIDE DEF u, x
    <3>3. FlattenSeq(t) = FlattenSeq(u) \o x
      BY <3>1, FlatAppend
    <3>4. FlattenSeq(u) \in Seq(S)
      BY <3>1, FlatType
    <3>5. ToSet(FlattenSeq(t)) = ToSet(FlattenSeq(u)) \cup ToSet(x)
      BY <3>1, <3>3, <3>4, ConcatMembers
    <3>6. ToSet(FlattenSeq(u)) = Of(u)
      BY <1>2, <3>1
    <3> DEFINE V == UNION {ToSet(t[i]) : i \in 1..m}
    <3>7. Of(u) = V
      BY <3>1
    <3>8. 1..(m + 1) = (1..m) \cup {m + 1}
      OBVIOUS
    <3>9. UNION {ToSet(t[i]) : i \in 1..(m + 1)} = V \cup ToSet(x)
      BY <3>2, <3>8
    <3>10. Of(t) = V \cup ToSet(x)
      BY <2>1, <3>9
    <3> HIDE DEF V, Of
    <3>11. QED
      BY <3>5, <3>6, <3>7, <3>10
  <2>2. QED
    BY <2>1
<1>3. Nat \subseteq T
  <2> HIDE DEF T
  <2>1. QED
    BY <1>1, <1>2, InductiveSet
<1>4. Len(ss) \in Nat
  OBVIOUS
<1>5. QED
  BY <1>3, <1>4

-----------------------------------------------------------------------------
(* A loop of n turns in which every turn keeps to A: its values exist.        *)
Turns(n, A, start, Turn) == n \in Nat /\ start \in A /\ Turn \in [A \X (1..n) -> A]
Values(h, n, A, start, Turn) ==
  h \in [0..n -> A] /\ h[0] = start /\ \A i \in 1..n : h[i] = Turn[<<h[i - 1], i>>]

(* A loop that turns places into places has a value after every number of turns. *)
LEMMA Iteration ==
  ASSUME NEW n, NEW A, NEW start, NEW Turn, Turns(n, A, start, Turn)
  PROVE  \E h : Values(h, n, A, start, Turn)
<1> DEFINE Next(h) == [i \in 0..n |-> IF i = 0 THEN start ELSE Turn[<<h[i - 1], i>>]]
           Good(h, m) == h[0] = start /\ \A i \in 1..n : i <= m => h[i] = Turn[<<h[i - 1], i>>]
           T == {m \in Nat : \E h \in [0..n -> A] : Good(h, m)}
<1>1. n \in Nat /\ start \in A /\ Turn \in [A \X (1..n) -> A]
  BY DEF Turns
<1>2. \A i \in 1..n : i - 1 \in 0..n /\ i # 0 /\ i \in 0..n
  BY <1>1
<1>3. 0 \in T
  <2> DEFINE h == [i \in 0..n |-> start]
  <2>1. h \in [0..n -> A] /\ Good(h, 0)
    BY <1>1
  <2>2. QED
    BY <2>1
<1>4. ASSUME NEW m \in Nat, m \in T PROVE m + 1 \in T
  <2>1. PICK h \in [0..n -> A] : Good(h, m)
    BY <1>4
  <2> DEFINE k == Next(h)
  <2>2. k \in [0..n -> A]
    <3>1. ASSUME NEW i \in 0..n, i # 0 PROVE Turn[<<h[i - 1], i>>] \in A
      <4>1. i - 1 \in 0..n /\ i \in 1..n
        BY <1>1, <3>1
      <4>2. h[i - 1] \in A
        BY <4>1
      <4>3. QED
        BY <1>1, <4>1, <4>2
    <3>2. QED
      BY <1>1, <3>1
  <2>3. k[0] = start /\ \A i \in 1..n : k[i] = Turn[<<h[i - 1], i>>]
    BY <1>1, <1>2
  <2> HIDE DEF k
  <2>4. ASSUME NEW i \in 1..n, i <= m + 1 PROVE k[i - 1] = h[i - 1]
    <3>1. CASE i = 1
      BY <2>1, <2>3, <3>1
    <3>2. CASE i # 1
      <4>1. i - 1 \in 1..n /\ i - 1 <= m
        BY <1>1, <2>4, <3>2
      <4>2. QED
        BY <2>1, <2>3, <4>1
    <3>3. QED
      BY <3>1, <3>2
  <2>5. Good(k, m + 1)
    BY <2>3, <2>4
  <2>6. m + 1 \in Nat
    OBVIOUS
  <2>7. QED
    BY <2>2, <2>5, <2>6
<1>5. n \in T
  <2> HIDE DEF T
  <2>1. QED
    BY <1>1, <1>3, <1>4, InductiveSet
<1>6. PICK h \in [0..n -> A] : Good(h, n)
  BY <1>5
<1>7. Values(h, n, A, start, Turn)
  BY <1>1, <1>6 DEF Values
<1>8. QED
  BY <1>7

(* What holds at the start and is kept by every turn holds throughout a loop.   *)
LEMMA Throughout ==
  ASSUME NEW n \in Nat, NEW A, NEW f, f[0] \in A, \A i \in 1..n : f[i - 1] \in A => f[i] \in A
  PROVE  \A i \in 0..n : f[i] \in A
<1> DEFINE T == {i \in Nat : i <= n => f[i] \in A}
<1>1. 0 \in T
  OBVIOUS
<1>2. ASSUME NEW i \in Nat, i \in T PROVE i + 1 \in T
  <2>1. SUFFICES ASSUME i + 1 <= n PROVE f[i + 1] \in A
    OBVIOUS
  <2>2. i <= n /\ i + 1 \in 1..n /\ (i + 1) - 1 = i
    BY <2>1
  <2>3. QED
    BY <1>2, <2>2
<1> HIDE DEF T
<1>3. Nat \subseteq T
  BY <1>1, <1>2, InductiveSet
<1>4. QED
  BY <1>3 DEF T

-----------------------------------------------------------------------------
(* The first m members of a list of lists, flattened.                          *)
FirstOf(ss, m) == [i \in 1..m |-> ss[i]]

(* The flattening of the first m sequences, from m to m + 1. *)
LEMMA FrontFlat ==
  ASSUME NEW S, NEW ss \in Seq(Seq(S)), NEW m \in 0..Len(ss)
  PROVE  /\ FlattenSeq(FirstOf(ss, m)) \in Seq(S)
         /\ Len(FlattenSeq(FirstOf(ss, m))) <= Len(FlattenSeq(ss))
         /\ m = Len(ss) => FlattenSeq(FirstOf(ss, m)) = FlattenSeq(ss)
         /\ m = 0 => FlattenSeq(FirstOf(ss, m)) = <<>>
         /\ m < Len(ss) => FlattenSeq(FirstOf(ss, m + 1)) = FlattenSeq(FirstOf(ss, m)) \o ss[m + 1]
<1> DEFINE Q == Seq(S)
           f == FirstOf(ss, m)
           n == Len(ss)
           rest == [i \in 1..(n - m) |-> ss[m + i]]
<1>1. n \in Nat /\ m \in Nat /\ m <= n /\ ss \in Seq(Q) /\ ss = [i \in 1..n |-> ss[i]]
      /\ \A i \in 1..n : ss[i] \in Q
  OBVIOUS
<1> HIDE DEF Q
<1>2. f \in Seq(Q) /\ Len(f) = m /\ \A i \in 1..m : f[i] = ss[i]
  <2>1. \A i \in 1..m : ss[i] \in Q
    BY <1>1
  <2>2. m \in Nat
    BY <1>1
  <2> HIDE DEF n
  <2>3. QED
    BY <2>1, <2>2 DEF FirstOf
<1>3. rest \in Seq(Q) /\ Len(rest) = n - m /\ \A i \in 1..(n - m) : rest[i] = ss[m + i]
  <2> DEFINE k == n - m
  <2>1. \A i \in 1..k : m + i \in 1..n
    BY <1>1, SMTT(40)
  <2>2. \A i \in 1..k : ss[m + i] \in Q
    BY <1>1, <2>1
  <2>3. k \in Nat
    BY <1>1
  <2> HIDE DEF k
  <2>4. /\ [i \in 1..k |-> ss[m + i]] \in Seq(Q) /\ Len([i \in 1..k |-> ss[m + i]]) = k
        /\ \A i \in 1..k : [j \in 1..k |-> ss[m + j]][i] = ss[m + i]
    BY <2>2, <2>3, SMTT(40)
  <2>5. QED
    BY <2>4 DEF k
<1> HIDE DEF f, rest
<1>4. ss = f \o rest
  <2> DEFINE t == f \o rest
  <2>1. /\ t \in Seq(Q) /\ Len(t) = m + (n - m)
        /\ \A i \in 1..m : t[i] = f[i]
        /\ \A j \in 1..(n - m) : t[m + j] = rest[j]
    <3>1. /\ t \in Seq(Q) /\ Len(t) = Len(f) + Len(rest)
          /\ \A i \in 1..Len(f) : t[i] = f[i]
          /\ \A j \in 1..Len(rest) : t[Len(f) + j] = rest[j]
      BY <1>2, <1>3, SMTT(40)
    <3>2. QED
      BY <1>2, <1>3, <3>1
  <2>2. Len(t) = n
    BY <1>1, <2>1
  <2>3. ASSUME NEW i \in 1..n PROVE t[i] = ss[i]
    <3>1. CASE i <= m
      BY <1>1, <1>2, <2>1, <3>1
    <3>2. CASE i > m
      <4>1. PICK j \in 1..(n - m) : i = m + j
        <5>1. i - m \in 1..(n - m) /\ i = m + (i - m)
          BY <1>1, <3>2
        <5>2. QED
          BY <5>1
      <4>2. t[m + j] = rest[j]
        <5> HIDE DEF t, n
        <5>1. QED
          BY <2>1, <4>1
      <4>3. QED
        BY <1>3, <4>1, <4>2
    <3>3. i <= m \/ i > m
      BY <1>1
    <3> HIDE DEF t
    <3>4. QED
      BY <3>1, <3>2, <3>3
  <2> HIDE DEF t
  <2>4. t = [i \in 1..n |-> t[i]]
    BY <2>1, <2>2
  <2>5. QED
    BY <1>1, <2>3, <2>4, ZenonT(60) DEF t
<1>5. FlattenSeq(f) \in Seq(S) /\ FlattenSeq(rest) \in Seq(S)
  BY <1>2, <1>3, FlatType DEF Q
<1>6. FlattenSeq(ss) = FlattenSeq(f) \o FlattenSeq(rest)
  BY <1>2, <1>3, <1>4, FlatSplit DEF Q
<1>7. Len(FlattenSeq(f)) <= Len(FlattenSeq(ss))
  BY <1>5, <1>6, Concat
<1>8. m = n => f = ss
  BY <1>1 DEF f, FirstOf
<1>9. m = 0 => FlattenSeq(f) = <<>>
  <2>1. m = 0 => f = <<>>
    BY <1>2
  <2>2. FlattenSeq(<<>>) = <<>>
    BY DEF FlattenSeq
  <2>3. QED
    BY <2>1, <2>2
<1>10. ASSUME m < n PROVE FlattenSeq(FirstOf(ss, m + 1)) = FlattenSeq(f) \o ss[m + 1]
  <2>1. m + 1 \in 1..n /\ ss[m + 1] \in Q
    BY <1>1, <1>10
  <2>2. Appended(FirstOf(ss, m + 1), f, ss[m + 1])
    <3> DEFINE g == FirstOf(ss, m + 1)
    <3>1. \A i \in 1..(m + 1) : g[i] = ss[i]
      BY DEF FirstOf
    <3>2. g = [i \in 1..(m + 1) |-> g[i]]
      BY DEF FirstOf
    <3>3. m + 1 \in 1..(m + 1) /\ \A i \in 1..m : i \in 1..(m + 1)
      BY <1>1
    <3> HIDE DEF g
    <3>4. Appended(g, f, ss[m + 1])
      BY <1>2, <3>1, <3>2, <3>3 DEF Appended
    <3>5. QED
      BY <3>4 DEF g
  <2>3. FirstOf(ss, m + 1) = Append(f, ss[m + 1])
    BY <1>2, <2>1, <2>2, AppendIs
  <2>4. FlattenSeq(Append(f, ss[m + 1])) = FlattenSeq(f) \o ss[m + 1]
    BY <1>2, <2>1, FlatAppend DEF Q
  <2>5. QED
    BY <2>3, <2>4
<1>11. QED
  BY <1>5, <1>7, <1>8, <1>9, <1>10 DEF f

(* The lengths of what the first members come to.                             *)
FrontLen(ss, m) == Len(FlattenSeq(FirstOf(ss, m)))

(* The length of the flattening of the first a sequences grows with a. *)
LEMMA FrontLens ==
  ASSUME NEW S, NEW ss \in Seq(Seq(S)), NEW a \in 0..Len(ss)
  PROVE  /\ FrontLen(ss, a) \in Nat
         /\ \A b \in 0..Len(ss) : b <= a => FrontLen(ss, b) <= FrontLen(ss, a)
         /\ a < Len(ss) => /\ ss[a + 1] \in Seq(S)
                           /\ FrontLen(ss, a + 1) = FrontLen(ss, a) + Len(ss[a + 1])
         /\ a = 0 => FrontLen(ss, a) = 0
         /\ a = Len(ss) => FrontLen(ss, a) = Len(FlattenSeq(ss))
<1>1. /\ FlattenSeq(FirstOf(ss, a)) \in Seq(S)
      /\ a = Len(ss) => FlattenSeq(FirstOf(ss, a)) = FlattenSeq(ss)
      /\ a = 0 => FlattenSeq(FirstOf(ss, a)) = <<>>
      /\ a < Len(ss) => FlattenSeq(FirstOf(ss, a + 1)) = FlattenSeq(FirstOf(ss, a)) \o ss[a + 1]
  BY FrontFlat
<1>2. FrontLen(ss, a) \in Nat
  BY <1>1 DEF FrontLen
<1>3. ASSUME a < Len(ss)
      PROVE  ss[a + 1] \in Seq(S) /\ FrontLen(ss, a + 1) = FrontLen(ss, a) + Len(ss[a + 1])
  <2>1. a + 1 \in 1..Len(ss)
    BY <1>3
  <2>2. ss[a + 1] \in Seq(S)
    <3> DEFINE Q == Seq(S)
    <3>1. ss \in Seq(Q)
      OBVIOUS
    <3> HIDE DEF Q
    <3>2. ss[a + 1] \in Q
      BY <2>1, <3>1
    <3>3. QED
      BY <3>2 DEF Q
  <2> DEFINE u == FlattenSeq(FirstOf(ss, a))
             v == ss[a + 1]
  <2>3. u \in Seq(S) /\ v \in Seq(S) /\ FlattenSeq(FirstOf(ss, a + 1)) = u \o v
    BY <1>1, <1>3, <2>2
  <2> HIDE DEF u, v
  <2>4. Len(u \o v) = Len(u) + Len(v)
    BY <2>3, Concat
  <2>5. QED
    BY <2>2, <2>3, <2>4 DEF FrontLen, u, v
<1>4. a = 0 => FrontLen(ss, a) = 0
  BY <1>1 DEF FrontLen
<1>5. a = Len(ss) => FrontLen(ss, a) = Len(FlattenSeq(ss))
  BY <1>1 DEF FrontLen
<1>6. ASSUME NEW b \in 0..Len(ss), b <= a PROVE FrontLen(ss, b) <= FrontLen(ss, a)
  <2> DEFINE tt == FirstOf(ss, a)
  <2>1. tt \in Seq(Seq(S)) /\ Len(tt) = a
    <3> DEFINE Q == Seq(S)
    <3>1. a \in Nat /\ \A i \in 1..a : i \in 1..Len(ss)
      OBVIOUS
    <3>2. \A i \in 1..a : ss[i] \in Q
      BY <3>1
    <3> HIDE DEF Q
    <3>3. [i \in 1..a |-> ss[i]] \in Seq(Q) /\ Len([i \in 1..a |-> ss[i]]) = a
      BY <3>1, <3>2
    <3>4. QED
      BY <3>3 DEF FirstOf, Q
  <2>2. FirstOf(tt, b) = FirstOf(ss, b)
    <3>1. \A i \in 1..b : i \in 1..a
      BY <1>6
    <3>2. QED
      BY <3>1 DEF FirstOf
  <2>3. b \in 0..Len(tt)
    BY <1>6, <2>1
  <2> HIDE DEF tt
  <2>4. Len(FlattenSeq(FirstOf(tt, b))) <= Len(FlattenSeq(tt))
    BY <2>1, <2>3, FrontFlat
  <2>5. QED
    BY <2>2, <2>4 DEF FrontLen, tt
<1>7. QED
  BY <1>2, <1>3, <1>4, <1>5, <1>6
=============================================================================
