------------------------- MODULE Subsequences_proofs -------------------------
(***************************************************************************)
(* What picking elements of a sequence by position returns, and what loops *)
(* over positions arrive at.                                               *)
(***************************************************************************)
EXTENDS Subsequences, FiniteSetTheorems, TLAPS

Increasing(s) == \A m, n \in DOMAIN s : m < n => s[m] < s[n]

\* Counting the elements up to x numbers a finite set of naturals 1 .. n.
LEMMA RankBijection ==
  ASSUME NEW S \in SUBSET Nat, IsFiniteSet(S)
  PROVE  LET Rank(x) == Cardinality({s \in S : s <= x})
         IN  /\ \A x, y \in S : Rank(x) = Rank(y) => x = y
             /\ {Rank(x) : x \in S} = 1 .. Cardinality(S)
<1> DEFINE Below(x) == {s \in S : s <= x}
           Rank(x) == Cardinality(Below(x))
           n == Cardinality(S)
           f == [x \in S |-> Rank(x)]
<1>0. \A x \in S : x \in Nat
  OBVIOUS
<1>1. n \in Nat
  BY FS_CardinalityType
<1>2. \A x \in S : IsFiniteSet(Below(x)) /\ Rank(x) \in Nat /\ Rank(x) <= n
  BY FS_Subset, FS_CardinalityType
<1>3. \A x \in S : Rank(x) >= 1
  <2> SUFFICES ASSUME NEW x \in S PROVE Rank(x) >= 1
    OBVIOUS
  <2>1. Below(x) # {}
    OBVIOUS
  <2>2. Rank(x) # 0
    BY <1>2, <2>1, FS_EmptySet
  <2> QED BY <1>2, <2>2
<1>4. \A x, y \in S : x < y => Rank(x) # Rank(y)
  <2> SUFFICES ASSUME NEW x \in S, NEW y \in S, x < y, Rank(x) = Rank(y) PROVE FALSE
    OBVIOUS
  <2>1. Below(x) \in SUBSET Below(y)
    <3> SUFFICES ASSUME NEW s \in Below(x) PROVE s \in Below(y)
      OBVIOUS
    <3>1. s \in Nat /\ x \in Nat /\ y \in Nat /\ s <= x
      BY <1>0
    <3> QED BY <3>1
  <2>2. Below(x) = Below(y)
    BY <1>2, <2>1, FS_Subset
  <2>3. y \in Below(y) /\ y \notin Below(x)
    OBVIOUS
  <2> QED BY <2>2, <2>3
<1>5. \A x, y \in S : Rank(x) = Rank(y) => x = y
  BY <1>4
<1> HIDE DEF Rank, Below
<1>6. f \in Injection(S, 1 .. n)
  <2>1. \A x \in S : Rank(x) \in 1 .. n
    BY <1>1, <1>2, <1>3
  <2>2. f \in [S -> 1 .. n]
    BY <2>1
  <2>3. IsInjective(f)
    BY <1>5 DEF IsInjective
  <2> QED BY <2>2, <2>3 DEF Injection
<1>7. IsFiniteSet(1 .. n) /\ Cardinality(1 .. n) = n
  BY <1>1, FS_Interval
<1>8. f \in Surjection(S, 1 .. n)
  BY <1>6, <1>7, FS_Injection
<1>9. {Rank(x) : x \in S} = 1 .. n
  <2>1. \A t \in 1 .. n : \E x \in S : f[x] = t
    BY <1>8 DEF Surjection
  <2>2. \A x \in S : Rank(x) \in 1 .. n
    BY <1>1, <1>2, <1>3
  <2>3. \A t \in 1 .. n : \E x \in S : Rank(x) = t
    BY <2>1
  <2> HIDE DEF n
  <2> QED BY <2>2, <2>3
<1> QED BY <1>5, <1>9 DEF Rank, Below

\* The rank grows with the element.
LEMMA RankMonotone ==
  ASSUME NEW S \in SUBSET Nat, IsFiniteSet(S), NEW x \in S, NEW y \in S, x <= y
  PROVE  Cardinality({s \in S : s <= x}) <= Cardinality({s \in S : s <= y})
<1>1. IsFiniteSet({s \in S : s <= y})
  BY FS_Subset
<1>2. {s \in S : s <= x} \subseteq {s \in S : s <= y}
  <2> SUFFICES ASSUME NEW s \in S, s <= x PROVE s <= y
    OBVIOUS
  <2>1. s \in Nat /\ x \in Nat /\ y \in Nat
    OBVIOUS
  <2> QED BY <2>1
<1> QED BY <1>1, <1>2, FS_Subset

\* The n-th positions are the positions, in their order.
LEMMA NthPosition ==
  ASSUME NEW I \in SUBSET Nat, IsFiniteSet(I)
  PROVE  /\ Cardinality(I) \in Nat
         /\ \A n \in 1 .. Cardinality(I) : Nth(I, n) \in I
         /\ \A i \in I : \E n \in 1 .. Cardinality(I) : Nth(I, n) = i
         /\ \A m, n \in 1 .. Cardinality(I) : m < n => Nth(I, m) < Nth(I, n)
<1> DEFINE Rank(x) == Cardinality({s \in I : s <= x})
           c == Cardinality(I)
<1>1. c \in Nat
  BY FS_CardinalityType
<1>2. /\ \A x, y \in I : Rank(x) = Rank(y) => x = y
      /\ {Rank(x) : x \in I} = 1 .. c
  BY RankBijection
<1>3. \A x, y \in I : x <= y => Rank(x) <= Rank(y)
  BY RankMonotone
<1>4. \A n : Nth(I, n) = CHOOSE i \in I : Rank(i) = n
  BY DEF Nth
<1> HIDE DEF Rank, c
<1>5. \A n \in 1 .. c : Nth(I, n) \in I /\ Rank(Nth(I, n)) = n
  <2> SUFFICES ASSUME NEW n \in 1 .. c PROVE Nth(I, n) \in I /\ Rank(Nth(I, n)) = n
    OBVIOUS
  <2>1. \E i \in I : Rank(i) = n
    BY <1>2
  <2> QED BY <1>4, <2>1
<1>6. \A i \in I : Rank(i) \in 1 .. c /\ Nth(I, Rank(i)) = i
  BY <1>2, <1>5
<1>7. ASSUME NEW m \in 1 .. c, NEW n \in 1 .. c, m < n PROVE Nth(I, m) < Nth(I, n)
  <2>1. Nth(I, m) \in Nat /\ Nth(I, n) \in Nat
    BY <1>5
  <2>2. ASSUME Nth(I, n) <= Nth(I, m) PROVE FALSE
    <3>1. n <= m
      BY <1>3, <1>5, <2>2
    <3> QED BY <1>7, <3>1
  <2> QED BY <2>1, <2>2
<1> QED BY <1>1, <1>5, <1>6, <1>7 DEF c

\* Picking positions of a sequence gives a sequence of the elements there, and
\* keeps the order.
LEMMA AtPositions ==
  ASSUME NEW S, NEW s \in Seq(S), NEW I \in SUBSET DOMAIN s
  PROVE  /\ IsFiniteSet(I) /\ Cardinality(I) \in Nat
         /\ At(s, I) \in Seq(S) /\ DOMAIN At(s, I) = 1 .. Cardinality(I)
         /\ Len(At(s, I)) = Cardinality(I)
         /\ \A n \in DOMAIN At(s, I) : Nth(I, n) \in I /\ At(s, I)[n] = s[Nth(I, n)]
         /\ \A i \in I : \E n \in DOMAIN At(s, I) : Nth(I, n) = i
         /\ \A m, n \in DOMAIN At(s, I) : m < n => Nth(I, m) < Nth(I, n)
<1>1. DOMAIN s = 1 .. Len(s) /\ Len(s) \in Nat
  OBVIOUS
<1>2. I \in SUBSET Nat /\ IsFiniteSet(I)
  <2>1. IsFiniteSet(1 .. Len(s)) /\ I \subseteq 1 .. Len(s)
    BY <1>1, FS_Interval
  <2>2. IsFiniteSet(I)
    BY <2>1, FS_Subset
  <2> QED BY <2>1, <2>2
<1> DEFINE c == Cardinality(I)
<1>3. /\ c \in Nat
      /\ \A n \in 1 .. c : Nth(I, n) \in I
      /\ \A i \in I : \E n \in 1 .. c : Nth(I, n) = i
      /\ \A m, n \in 1 .. c : m < n => Nth(I, m) < Nth(I, n)
  BY <1>2, NthPosition
<1>4. At(s, I) = [n \in 1 .. c |-> s[Nth(I, n)]]
  BY DEF At
<1> HIDE DEF c
<1>5. \A n \in 1 .. c : s[Nth(I, n)] \in S
  BY <1>1, <1>3
<1>6. At(s, I) \in Seq(S) /\ Len(At(s, I)) = c /\ DOMAIN At(s, I) = 1 .. c
  BY <1>3, <1>4, <1>5
<1> QED BY <1>2, <1>3, <1>4, <1>6 DEF c

\* What is picked from an increasing sequence is increasing.
LEMMA AtIncreasing ==
  ASSUME NEW s \in Seq(Nat), NEW I \in SUBSET DOMAIN s, Increasing(s)
  PROVE  Increasing(At(s, I))
<1> SUFFICES ASSUME NEW m \in DOMAIN At(s, I), NEW n \in DOMAIN At(s, I), m < n
             PROVE  At(s, I)[m] < At(s, I)[n]
  BY DEF Increasing
<1>1. /\ Nth(I, m) \in I /\ Nth(I, n) \in I /\ Nth(I, m) < Nth(I, n)
      /\ At(s, I)[m] = s[Nth(I, m)] /\ At(s, I)[n] = s[Nth(I, n)]
  BY AtPositions
<1> QED BY <1>1 DEF Increasing

\* An increasing sequence is what its elements, taken as positions, give.
LEMMA IncreasingIsNth ==
  ASSUME NEW q \in Seq(Nat), Increasing(q)
  PROVE  LET I == {q[n] : n \in DOMAIN q}
         IN  /\ I \in SUBSET Nat /\ IsFiniteSet(I)
             /\ Len(q) = Cardinality(I)
             /\ \A n \in DOMAIN q : q[n] = Nth(I, n)
<1> DEFINE I == {q[n] : n \in DOMAIN q}
           l == Len(q)
           Rank(x) == Cardinality({k \in I : k <= x})
<1>1. DOMAIN q = 1 .. l /\ l \in Nat /\ \A n \in 1 .. l : q[n] \in Nat
  OBVIOUS
<1>2. \A m, n \in 1 .. l : m < n => q[m] < q[n]
  BY <1>1 DEF Increasing
<1> HIDE DEF l
<1>3. I \in SUBSET Nat
  BY <1>1
<1>4. ASSUME NEW n \in 0 .. l
      PROVE  /\ IsFiniteSet({q[m] : m \in 1 .. n})
             /\ Cardinality({q[m] : m \in 1 .. n}) = n
  <2> DEFINE f == [m \in 1 .. n |-> q[m]]
             T == {q[m] : m \in 1 .. n}
  <2>1. n \in Nat /\ IsFiniteSet(1 .. n) /\ Cardinality(1 .. n) = n
    BY <1>1, FS_Interval
  <2>2. f \in [1 .. n -> T]
    OBVIOUS
  <2>3. \A a, b \in 1 .. n : f[a] = f[b] => a = b
    <3> SUFFICES ASSUME NEW a \in 1 .. n, NEW b \in 1 .. n, q[a] = q[b] PROVE a = b
      OBVIOUS
    <3>1. a \in 1 .. l /\ b \in 1 .. l /\ q[a] \in Nat /\ q[b] \in Nat
      BY <1>1
    <3> QED BY <1>2, <3>1
  <2>4. \A t \in T : \E m \in 1 .. n : f[m] = t
    OBVIOUS
  <2>5. f \in Bijection(1 .. n, T)
    BY <2>2, <2>3, <2>4 DEF Bijection, Injection, IsInjective, Surjection
  <2> HIDE DEF f, T
  <2>6. ExistsBijection(1 .. n, T)
    BY <2>5 DEF ExistsBijection
  <2>7. IsFiniteSet(T) /\ Cardinality(T) = n
    BY <2>1, <2>6, FS_Bijection
  <2> QED BY <2>7 DEF T
<1>5. IsFiniteSet(I) /\ Cardinality(I) = l
  <2>1. I = {q[m] : m \in 1 .. l}
    BY <1>1
  <2>2. l \in 0 .. l
    BY <1>1
  <2> QED BY <1>4, <2>1, <2>2
<1>6. ASSUME NEW n \in 1 .. l
      PROVE  q[n] \in I /\ Rank(q[n]) = n
  <2>1. {k \in I : k <= q[n]} = {q[m] : m \in 1 .. n}
    <3>1. ASSUME NEW k \in I, k <= q[n] PROVE k \in {q[m] : m \in 1 .. n}
      <4>1. PICK m \in 1 .. l : k = q[m]
        BY <1>1
      <4>2. ~(n < m)
        <5>1. q[m] \in Nat /\ q[n] \in Nat
          BY <1>1
        <5> QED BY <1>2, <3>1, <4>1, <5>1
      <4> QED BY <4>1, <4>2
    <3>2. ASSUME NEW m \in 1 .. n PROVE q[m] \in I /\ q[m] <= q[n]
      <4>1. m \in 1 .. l /\ q[m] \in Nat /\ q[n] \in Nat
        BY <1>1
      <4>2. m < n \/ m = n
        OBVIOUS
      <4> QED BY <1>1, <1>2, <4>1, <4>2
    <3> HIDE DEF I
    <3> QED BY <3>1, <3>2
  <2>2. n \in 0 .. l
    BY <1>1
  <2> QED BY <1>1, <1>4, <2>1, <2>2
<1>7. \A x, y \in I : Rank(x) = Rank(y) => x = y
  BY <1>3, <1>5, RankBijection
<1>8. \A n : Nth(I, n) = CHOOSE i \in I : Rank(i) = n
  BY DEF Nth
<1> HIDE DEF I, Rank
<1>9. \A n \in 1 .. l : q[n] = Nth(I, n)
  BY <1>6, <1>7, <1>8
<1> QED BY <1>1, <1>3, <1>5, <1>9 DEF I, l

\* Increasing sequences with the same elements are the same.
LEMMA SameElements ==
  ASSUME NEW q \in Seq(Nat), NEW r \in Seq(Nat), Increasing(q), Increasing(r),
         {q[n] : n \in DOMAIN q} = {r[n] : n \in DOMAIN r}
  PROVE  q = r
<1> DEFINE I == {q[n] : n \in DOMAIN q}
<1>1. Len(q) = Cardinality(I) /\ \A n \in DOMAIN q : q[n] = Nth(I, n)
  BY IncreasingIsNth
<1>2. Len(r) = Cardinality(I) /\ \A n \in DOMAIN r : r[n] = Nth(I, n)
  BY IncreasingIsNth
<1> HIDE DEF I
<1>3. DOMAIN q = 1 .. Len(q) /\ DOMAIN r = 1 .. Len(r)
  OBVIOUS
<1>4. DOMAIN q = DOMAIN r /\ \A n \in DOMAIN q : q[n] = r[n]
  BY <1>1, <1>2, <1>3
<1> QED BY <1>4

\* A finite, nonempty set of positions has a last one.
LEMMA LastPosition ==
  ASSUME NEW S \in SUBSET Nat, IsFiniteSet(S), S # {}
  PROVE  \E m \in S : \A i \in S : i <= m
<1> DEFINE c == Cardinality(S)
<1>1. /\ c \in Nat
      /\ \A n \in 1 .. c : Nth(S, n) \in S
      /\ \A i \in S : \E n \in 1 .. c : Nth(S, n) = i
      /\ \A j, n \in 1 .. c : j < n => Nth(S, j) < Nth(S, n)
  BY NthPosition
<1> HIDE DEF c
<1>2. c \in 1 .. c
  <2>1. PICK i \in S : TRUE
    OBVIOUS
  <2>2. \E n \in 1 .. c : Nth(S, n) = i
    BY <1>1, <2>1
  <2> QED BY <1>1, <2>2
<1>3. ASSUME NEW i \in S PROVE i <= Nth(S, c)
  <2>1. PICK n \in 1 .. c : Nth(S, n) = i
    BY <1>1
  <2>2. n = c \/ n < c
    BY <1>1
  <2>3. Nth(S, c) \in Nat /\ i \in Nat
    BY <1>1, <1>2
  <2> QED BY <1>1, <1>2, <2>1, <2>2, <2>3
<1> QED BY <1>1, <1>2, <1>3

-----------------------------------------------------------------------------
(* Loops.                                                                  *)

\* A nonempty set of positions has a first one.
LEMMA FirstPosition ==
  ASSUME NEW S \in SUBSET Nat, S # {}
  PROVE  \E m \in S : \A i \in S : m <= i
<1>1. IsWellFoundedOn(OpToRel(<, Nat), Nat)
  BY NatLessThanWellFounded
<1>2. PICK m \in S : \A i \in S : ~ (<<i, m>> \in OpToRel(<, Nat))
  BY <1>1, WFMin
<1>3. \A i \in S : ~ (i < m)
  BY <1>2 DEF OpToRel
<1> QED BY <1>3

\* What holds at first, and is kept by every stage, holds at the last one.
LEMMA StageInduction ==
  ASSUME NEW n \in Nat, NEW Good, 0 \in Good, \A i \in 1 .. n : i - 1 \in Good => i \in Good
  PROVE  n \in Good
<1> SUFFICES ASSUME n \notin Good PROVE FALSE
  OBVIOUS
<1> DEFINE Bad == {i \in 0 .. n : i \notin Good}
<1>1. Bad \in SUBSET Nat /\ Bad # {}
  OBVIOUS
<1>2. PICK m \in Bad : \A i \in Bad : m <= i
  BY <1>1, FirstPosition
<1>3. m \in 1 .. n /\ m - 1 \in 0 .. n /\ ~(m <= m - 1)
  BY <1>2
<1>4. m - 1 \in Good
  BY <1>2, <1>3
<1> QED BY <1>2, <1>3, <1>4

\* A loop has a record g of its stages.
Recorded(g, n, S, first, F) ==
  g \in [0 .. n -> S] /\ g[0] = first /\ \A i \in 1 .. n : g[i] = F[i][g[i - 1]]

LEMMA StagesOf ==
  ASSUME NEW n \in Nat, NEW S, NEW first \in S, NEW F,
         \A i \in 1 .. n : \A x \in S : F[i][x] \in S
  PROVE  \E g : Recorded(g, n, S, first, F)
<1> DEFINE Good == {k \in 0 .. n : \E g : Recorded(g, k, S, first, F)}
<1>1. 0 \in Good
  <2> DEFINE h == [k \in 0 .. 0 |-> first]
  <2>1. h \in [0 .. 0 -> S] /\ h[0] = first
    OBVIOUS
  <2> HIDE DEF h
  <2>2. \A i \in 1 .. 0 : h[i] = F[i][h[i - 1]]
    OBVIOUS
  <2>3. Recorded(h, 0, S, first, F)
    BY <2>1, <2>2 DEF Recorded
  <2> QED BY <2>3
<1>2. ASSUME NEW i \in 1 .. n, i - 1 \in Good PROVE i \in Good
  <2>1. PICK g : Recorded(g, i - 1, S, first, F)
    BY <1>2
  <2>2. g \in [0 .. (i - 1) -> S] /\ g[0] = first /\ \A j \in 1 .. (i - 1) : g[j] = F[j][g[j - 1]]
    BY <2>1 DEF Recorded
  <2>3. i - 1 \in 0 .. (i - 1) /\ g[i - 1] \in S
    BY <2>2
  <2>4. F[i][g[i - 1]] \in S
    BY <2>3
  <2> DEFINE h == [k \in 0 .. i |-> IF k = i THEN F[i][g[i - 1]] ELSE g[k]]
  <2>5. h \in [0 .. i -> S]
    BY <2>2, <2>4
  <2>6. \A k \in 0 .. (i - 1) : h[k] = g[k]
    OBVIOUS
  <2>7. h[i] = F[i][h[i - 1]]
    <3>1. i \in 0 .. i
      OBVIOUS
    <3>2. h[i] = F[i][g[i - 1]]
      BY <3>1
    <3> HIDE DEF h
    <3> QED BY <2>3, <2>6, <3>2
  <2>8. h[0] = first
    BY <2>2, <2>6
  <2>9. \A j \in 1 .. i : h[j] = F[j][h[j - 1]]
    <3> SUFFICES ASSUME NEW j \in 1 .. i PROVE h[j] = F[j][h[j - 1]]
      OBVIOUS
    <3>1. CASE j = i
      BY <2>7, <3>1
    <3>2. CASE j # i
      <4>1. j \in 1 .. (i - 1) /\ j \in 0 .. (i - 1) /\ j - 1 \in 0 .. (i - 1)
        BY <3>2
      <4> HIDE DEF h
      <4> QED BY <2>2, <2>6, <4>1
    <3> QED BY <3>1, <3>2
  <2> HIDE DEF h
  <2>10. Recorded(h, i, S, first, F) /\ i \in 0 .. n
    BY <2>5, <2>8, <2>9 DEF Recorded
  <2> QED BY <2>10
<1> HIDE DEF Good
<1>3. n \in Good
  BY <1>1, <1>2, StageInduction
<1> QED BY <1>3 DEF Good
=============================================================================
