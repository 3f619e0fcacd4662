--------------------------- MODULE Dashboard_proofs ---------------------------
(***************************************************************************)
(* Theorems about the dashboard, for any bounds and any sets of keys, tabs *)
(* and the like: what Pages_proofs shows of the pages, put together.       *)
(***************************************************************************)
EXTENDS Dashboard, Enumeration, FiniteSetTheorems, SequenceTheorems, TLAPS

-----------------------------------------------------------------------------
(* Enumeration: a set of numbers is in its sequence once and in order.     *)

Rank(S, x) == Cardinality({y \in S : y <= x})

LEMMA RankFacts ==
    ASSUME NEW S \in SUBSET Int, IsFiniteSet(S), NEW x \in S
    PROVE  /\ Cardinality(S) \in Nat
           /\ Rank(S, x) \in 1 .. Cardinality(S)
           /\ \A y \in S : y < x => Rank(S, y) < Rank(S, x)
<1> DEFINE Below(y) == {z \in S : z <= y}
<1>1. \A y \in S : /\ IsFiniteSet(Below(y))
                   /\ Cardinality(Below(y)) <= Cardinality(S)
                   /\ Cardinality(Below(y)) \in Nat
                   /\ y \in Below(y)
  BY FS_Subset, FS_CardinalityType
<1>2. Cardinality(S) \in Nat
  BY FS_CardinalityType
<1>3. \A y \in S : Cardinality(Below(y)) # 0
  BY <1>1, FS_EmptySet
<1>4. ASSUME NEW y \in S, y < x
      PROVE  Cardinality(Below(y)) < Cardinality(Below(x))
  <2>1. Below(y) \subseteq Below(x) /\ x \notin Below(y)
    <3>1. x \in Int /\ \A z \in S : z \in Int
      OBVIOUS
    <3>2. \A z \in S : z <= y => z <= x
      BY <1>4, <3>1
    <3>3. ~(x <= y)
      BY <1>4, <3>1
    <3> QED BY <3>2, <3>3
  <2>2. Below(y) # Below(x)
    BY <1>1, <2>1
  <2>3. /\ Cardinality(Below(y)) <= Cardinality(Below(x))
        /\ Cardinality(Below(x)) = Cardinality(Below(y)) => Below(x) = Below(y)
    BY <1>1, <2>1, FS_Subset
  <2> QED BY <1>1, <2>2, <2>3
<1> HIDE DEF Below
<1>5. \A y \in S : Rank(S, y) = Cardinality(Below(y))
  BY DEF Rank, Below
<1> QED BY <1>1, <1>2, <1>3, <1>4, <1>5

LEMMA NthFacts ==
    ASSUME NEW S \in SUBSET Int, IsFiniteSet(S)
    PROVE  /\ Cardinality(S) \in Nat
           /\ \A n \in 1 .. Cardinality(S) :
                Nth(S, n) \in S /\ Rank(S, Nth(S, n)) = n
           /\ \A x \in S : /\ Rank(S, x) \in 1 .. Cardinality(S)
                           /\ Nth(S, Rank(S, x)) = x
           /\ \A m, n \in 1 .. Cardinality(S) :
                m < n => Nth(S, m) < Nth(S, n)
<1> DEFINE N == Cardinality(S)
           f == [x \in S |-> Rank(S, x)]
<1>1. N \in Nat
  BY FS_CardinalityType
<1>2. \A x \in S : Rank(S, x) \in 1 .. N
  BY RankFacts
<1>3. \A x, y \in S : x < y => Rank(S, x) < Rank(S, y)
  BY RankFacts
<1>4. \A x, y \in S : Rank(S, x) = Rank(S, y) => x = y
  <2> SUFFICES ASSUME NEW x \in S, NEW y \in S, Rank(S, x) = Rank(S, y), x # y
               PROVE  FALSE
    OBVIOUS
  <2>1. x < y \/ y < x
    OBVIOUS
  <2> QED BY <1>1, <1>2, <1>3, <2>1
<1> HIDE DEF N
<1>5. f \in Injection(S, 1 .. N)
  BY <1>2, <1>4 DEF Injection, IsInjective
<1>6. IsFiniteSet(1 .. N) /\ Cardinality(1 .. N) = N
  BY <1>1, FS_Interval
<1>7. f \in Surjection(S, 1 .. N)
  BY <1>5, <1>6, FS_Injection DEF N
<1>8. \A n \in 1 .. N : \E x \in S : Rank(S, x) = n
  BY <1>7 DEF Surjection
<1>9. \A n \in 1 .. N : Nth(S, n) \in S /\ Rank(S, Nth(S, n)) = n
  BY <1>8 DEF Nth, Rank
<1>10. \A x \in S : Nth(S, Rank(S, x)) = x
  BY <1>2, <1>4, <1>9
<1>11. ASSUME NEW m \in 1 .. N, NEW n \in 1 .. N, m < n
       PROVE  Nth(S, m) < Nth(S, n)
  <2>1. Nth(S, m) \in Int /\ Nth(S, n) \in Int
    BY <1>9
  <2>2. ~(Nth(S, n) < Nth(S, m))
    <3> SUFFICES ASSUME Nth(S, n) < Nth(S, m) PROVE FALSE
      OBVIOUS
    <3>1. Rank(S, Nth(S, n)) < Rank(S, Nth(S, m))
      BY <1>3, <1>9
    <3>2. n < m
      BY <1>9, <3>1
    <3> QED BY <1>1, <1>11, <3>2
  <2>3. Nth(S, n) # Nth(S, m)
    BY <1>1, <1>9, <1>11
  <2> QED BY <2>1, <2>2, <2>3
<1> QED BY <1>1, <1>2, <1>9, <1>10, <1>11 DEF N

LEMMA AscendingFacts ==
    ASSUME NEW S \in SUBSET Int, IsFiniteSet(S)
    PROVE  LET s == Ascending(S) IN
           /\ s \in Seq(S) /\ Len(s) = Cardinality(S)
           /\ DOMAIN s = 1 .. Cardinality(S)
           /\ \A m, n \in DOMAIN s : m < n => s[m] < s[n]
           /\ \A x \in S : \E n \in DOMAIN s : s[n] = x
<1>1. /\ Cardinality(S) \in Nat
      /\ \A n \in 1 .. Cardinality(S) : Nth(S, n) \in S
  BY NthFacts
<1>2. Ascending(S) \in [1 .. Cardinality(S) -> S]
  BY <1>1 DEF Ascending
<1>3. /\ Ascending(S) \in Seq(S) /\ Len(Ascending(S)) = Cardinality(S)
      /\ DOMAIN Ascending(S) = 1 .. Cardinality(S)
  BY <1>1, <1>2
<1> QED BY <1>3, NthFacts DEF Ascending

\* Counting along a strictly increasing sequence.
LEMMA IncreasingIsNth ==
    ASSUME NEW S \in SUBSET Int, NEW n \in Nat, NEW f \in [1 .. n -> S],
           \A i, j \in 1 .. n : i < j => f[i] < f[j],
           \A x \in S : \E i \in 1 .. n : f[i] = x
    PROVE  /\ IsFiniteSet(S) /\ Cardinality(S) = n
           /\ \A i \in 1 .. n : Nth(S, i) = f[i]
           /\ f = Ascending(S)
<1>1. \A i, j \in 1 .. n : f[i] = f[j] => i = j
  <2> SUFFICES ASSUME NEW i \in 1 .. n, NEW j \in 1 .. n, f[i] = f[j], i # j
               PROVE  FALSE
    OBVIOUS
  <2>1. i < j \/ j < i
    OBVIOUS
  <2>2. f[i] \in Int /\ f[j] \in Int
    OBVIOUS
  <2> QED BY <2>1, <2>2
<1>2. f \in Bijection(1 .. n, S)
  BY <1>1 DEF Bijection, Injection, Surjection, IsInjective
<1>3. ExistsBijection(1 .. n, S)
  BY <1>2 DEF ExistsBijection
<1>4. IsFiniteSet(S) /\ Cardinality(S) = n
  BY <1>3, FS_NatBijection, FS_CountingElements
<1>5. ASSUME NEW i \in 1 .. n PROVE Rank(S, f[i]) = i
  <2> DEFINE T == {y \in S : y <= f[i]}
             g == [j \in 1 .. i |-> f[j]]
  <2>1. \A j \in 1 .. n : f[j] <= f[i] <=> j <= i
    <3> SUFFICES ASSUME NEW j \in 1 .. n PROVE f[j] <= f[i] <=> j <= i
      OBVIOUS
    <3>1. f[j] \in Int /\ f[i] \in Int
      OBVIOUS
    <3>2. CASE j < i
      BY <3>1, <3>2
    <3>3. CASE j = i
      BY <3>1, <3>3
    <3>4. CASE i < j
      BY <3>1, <3>4
    <3> QED BY <3>2, <3>3, <3>4
  <2>2. 1 .. i \subseteq 1 .. n /\ i \in Nat
    OBVIOUS
  <2>3. g \in [1 .. i -> T]
    BY <2>1, <2>2
  <2>4. \A x \in T : \E j \in 1 .. i : g[j] = x
    BY <2>1, <2>2
  <2>5. g \in Bijection(1 .. i, T)
    BY <1>1, <2>2, <2>3, <2>4 DEF Bijection, Injection, Surjection, IsInjective
  <2> QED BY <2>2, <2>5, FS_CountingElements DEF ExistsBijection, Rank
<1>6. \A i \in 1 .. n : Nth(S, i) = f[i]
  BY <1>4, <1>5, NthFacts
<1> QED BY <1>4, <1>6 DEF Ascending

\* The places chosen from a sequence, one more at its end.
LEMMA NthAppend ==
    ASSUME NEW S \in SUBSET Int, IsFiniteSet(S), NEW x \in Int,
           \A y \in S : y < x
    PROVE  /\ IsFiniteSet(S \union {x})
           /\ Cardinality(S \union {x}) = Cardinality(S) + 1
           /\ \A i \in 1 .. Cardinality(S) : Nth(S \union {x}, i) = Nth(S, i)
           /\ Nth(S \union {x}, Cardinality(S) + 1) = x
<1> DEFINE n == Cardinality(S)
           f == [i \in 1 .. n + 1 |-> IF i = n + 1 THEN x ELSE Nth(S, i)]
<1>1. /\ n \in Nat
      /\ \A i \in 1 .. n : Nth(S, i) \in S
      /\ \A y \in S : \E i \in 1 .. n : Nth(S, i) = y
      /\ \A i, j \in 1 .. n : i < j => Nth(S, i) < Nth(S, j)
  BY NthFacts
<1> HIDE DEF n
<1>2. \A i \in 1 .. n + 1 : i \in 1 .. n \/ i = n + 1
  BY <1>1
<1>3. f \in [1 .. n + 1 -> S \union {x}]
  BY <1>1, <1>2
<1>4. \A i, j \in 1 .. n + 1 : i < j => f[i] < f[j]
  <2> SUFFICES ASSUME NEW i \in 1 .. n + 1, NEW j \in 1 .. n + 1, i < j
               PROVE  f[i] < f[j]
    OBVIOUS
  <2>1. i \in 1 .. n /\ i # n + 1 /\ f[i] = Nth(S, i)
    BY <1>1
  <2>2. CASE j = n + 1
    BY <1>1, <2>1, <2>2
  <2>3. CASE j # n + 1
    BY <1>1, <1>2, <2>1, <2>3
  <2> QED BY <2>2, <2>3
<1>5. \A y \in S \union {x} : \E i \in 1 .. n + 1 : f[i] = y
  <2>1. n + 1 \in 1 .. n + 1 /\ f[n + 1] = x
    BY <1>1
  <2>2. ASSUME NEW y \in S PROVE \E i \in 1 .. n + 1 : f[i] = y
    <3>1. PICK i \in 1 .. n : Nth(S, i) = y
      BY <1>1
    <3>2. i \in 1 .. n + 1 /\ i # n + 1
      BY <1>1
    <3> QED BY <3>1, <3>2
  <2> QED BY <2>1, <2>2
<1> HIDE DEF f
<1>6. n + 1 \in Nat /\ S \union {x} \in SUBSET Int
  BY <1>1
<1>7. /\ IsFiniteSet(S \union {x}) /\ Cardinality(S \union {x}) = n + 1
      /\ \A i \in 1 .. n + 1 : Nth(S \union {x}, i) = f[i]
  BY <1>3, <1>4, <1>5, <1>6, IncreasingIsNth
<1> QED BY <1>1, <1>2, <1>7 DEF f, n
\* The places of a filter are found, in order, and nothing else.
LEMMA AtFacts ==
    ASSUME NEW S, NEW s \in Seq(S), NEW I \in SUBSET DOMAIN s
    PROVE  /\ IsFiniteSet(I) /\ I \in SUBSET Int
           /\ Cardinality(I) \in Nat /\ Cardinality(I) <= Len(s)
           /\ At(s, I) \in Seq(S) /\ Len(At(s, I)) = Cardinality(I)
           /\ \A n \in 1 .. Cardinality(I) :
                Nth(I, n) \in I /\ At(s, I)[n] = s[Nth(I, n)]
           /\ \A n \in I : \E m \in 1 .. Cardinality(I) : Nth(I, m) = n
           /\ \A m, n \in 1 .. Cardinality(I) :
                m < n => Nth(I, m) < Nth(I, n)
<1>1. Len(s) \in Nat /\ DOMAIN s = 1 .. Len(s)
      /\ \A n \in DOMAIN s : s[n] \in S
  BY LenProperties, ElementOfSeq
<1>2. IsFiniteSet(DOMAIN s) /\ Cardinality(DOMAIN s) = Len(s)
  <2>1. \A n \in Nat : IsFiniteSet(1 .. n) /\ Cardinality(1 .. n) = n
    BY FS_Interval
  <2> QED BY <1>1, <2>1
<1>3. /\ IsFiniteSet(I) /\ I \in SUBSET Int
      /\ Cardinality(I) \in Nat /\ Cardinality(I) <= Len(s)
  BY <1>1, <1>2, FS_Subset, FS_CardinalityType
<1>4. /\ \A n \in 1 .. Cardinality(I) : Nth(I, n) \in I
      /\ \A n \in I : \E m \in 1 .. Cardinality(I) : Nth(I, m) = n
      /\ \A m, n \in 1 .. Cardinality(I) : m < n => Nth(I, m) < Nth(I, n)
  BY <1>3, NthFacts
<1>5. At(s, I) \in [1 .. Cardinality(I) -> S]
  BY <1>1, <1>4 DEF At
<1>6. At(s, I) \in Seq(S) /\ Len(At(s, I)) = Cardinality(I)
  BY <1>3, <1>5
<1> QED BY <1>3, <1>4, <1>6 DEF At

-----------------------------------------------------------------------------
(* Lists without repetition: what cutting, reversing, filtering and        *)
(* joining them leaves.                                                    *)

Apart(s) == \A m, n \in 1 .. Len(s) : s[m] = s[n] => m = n
In(s) == {s[n] : n \in 1 .. Len(s)}
CutAt(s, m, n) == SubSeq(s, m, IF n < Len(s) THEN n ELSE Len(s))
Backwards(s) == [i \in 1 .. Len(s) |-> s[(Len(s) - i) + 1]]

LEMMA CountOfList ==
    ASSUME NEW S, NEW s \in Seq(S)
    PROVE  /\ IsFiniteSet(In(s)) /\ Cardinality(In(s)) \in Nat
           /\ Apart(s) => Cardinality(In(s)) = Len(s)
           /\ Cardinality(In(s)) = Len(s) => Apart(s)
<1> DEFINE n == Len(s)
           f == [i \in 1 .. n |-> s[i]]
<1>1. n \in Nat
  BY LenProperties
<1>2. IsFiniteSet(1 .. n) /\ Cardinality(1 .. n) = n
  BY <1>1, FS_Interval
<1>3. f \in [1 .. n -> In(s)] /\ \A x \in In(s) : \E i \in 1 .. n : f[i] = x
  BY DEF In
<1>4. f \in Surjection(1 .. n, In(s))
  BY <1>3 DEF Surjection
<1>5. IsFiniteSet(In(s)) /\ Cardinality(In(s)) \in Nat
  BY <1>2, <1>4, FS_Surjection, FS_CardinalityType
<1>6. Cardinality(In(s)) = n <=> f \in Injection(1 .. n, In(s))
  BY <1>2, <1>4, FS_Surjection
<1>7. f \in Injection(1 .. n, In(s)) <=> Apart(s)
  BY <1>3 DEF Injection, IsInjective, Apart
<1> QED BY <1>5, <1>6, <1>7

LEMMA CutFacts ==
    ASSUME NEW S, NEW s \in Seq(S), NEW m \in Nat \ {0}, NEW n \in Int
    PROVE  LET t == CutAt(s, m, n) IN
           /\ t \in Seq(S) /\ Len(t) \in Nat
           /\ Len(t) <= Len(s)
           /\ n < m => Len(t) = 0
           /\ n >= m => Len(t) <= n - m + 1
           /\ m = 1 /\ n >= Len(s) => Len(t) = Len(s)
           /\ m = 1 /\ n <= Len(s) /\ n >= 0 => Len(t) = n
           /\ \A i \in 1 .. Len(t) : /\ m + i - 1 \in 1 .. Len(s)
                                    /\ t[i] = s[m + i - 1]
<1> DEFINE k == IF n < Len(s) THEN n ELSE Len(s)
           t == SubSeq(s, m, k)
<1>1. /\ Len(s) \in Nat /\ k \in Int /\ k <= Len(s) /\ k <= n
      /\ n >= Len(s) => k = Len(s)
      /\ n <= Len(s) => k = n
  BY LenProperties
<1> HIDE DEF k
<1>2. \A i \in m .. k : s[i] \in S
  BY <1>1, ElementOfSeq
<1>3. /\ t \in Seq(S) /\ Len(t) = IF m <= k THEN k - m + 1 ELSE 0
      /\ \A i \in 1 .. k - m + 1 : t[i] = s[m + i - 1]
  BY <1>1, <1>2, SubSeqProperties
<1>4. t = CutAt(s, m, n)
  BY DEF CutAt, k
<1> HIDE DEF t
<1>5. Len(t) \in Nat /\ Len(t) <= Len(s)
  BY <1>1, <1>3
<1>6. \A i \in 1 .. Len(t) : m + i - 1 \in 1 .. Len(s) /\ t[i] = s[m + i - 1]
  BY <1>1, <1>3
<1> QED BY <1>1, <1>3, <1>4, <1>5, <1>6

LEMMA CutApart ==
    ASSUME NEW S, NEW s \in Seq(S), NEW m \in Nat \ {0}, NEW n \in Int,
           Apart(s)
    PROVE  Apart(CutAt(s, m, n)) /\ In(CutAt(s, m, n)) \subseteq In(s)
<1> DEFINE t == CutAt(s, m, n)
<1>1. \A i \in 1 .. Len(t) : m + i - 1 \in 1 .. Len(s) /\ t[i] = s[m + i - 1]
  BY CutFacts
<1>2. Len(t) \in Nat
  BY CutFacts
<1> HIDE DEF t
<1>3. Apart(t)
  <2> SUFFICES ASSUME NEW i \in 1 .. Len(t), NEW j \in 1 .. Len(t),
                      t[i] = t[j]
               PROVE  i = j
    BY DEF Apart
  <2>1. m + i - 1 = m + j - 1
    BY <1>1 DEF Apart
  <2> QED BY <1>2, <2>1
<1>4. In(t) \subseteq In(s)
  BY <1>1 DEF In
<1> QED BY <1>3, <1>4 DEF t

LEMMA BackwardsFacts ==
    ASSUME NEW S, NEW s \in Seq(S)
    PROVE  LET t == Backwards(s) IN
           /\ t \in Seq(S) /\ Len(t) = Len(s) /\ Len(s) \in Nat
           /\ \A i \in 1 .. Len(s) : /\ Len(s) - i + 1 \in 1 .. Len(s)
                                    /\ t[i] = s[Len(s) - i + 1]
           /\ In(t) = In(s) /\ (Apart(s) => Apart(t))
<1> DEFINE n == Len(s)
           t == Backwards(s)
<1>1. n \in Nat /\ \A i \in 1 .. n : s[i] \in S
  BY LenProperties, ElementOfSeq
<1>2. \A i \in 1 .. n : n - i + 1 \in 1 .. n /\ n - (n - i + 1) + 1 = i
  BY <1>1
<1>3. t = [i \in 1 .. n |-> s[n - i + 1]]
  BY DEF Backwards
<1> HIDE DEF n, t
<1>4. t \in [1 .. n -> S]
  BY <1>1, <1>2, <1>3
<1>5. t \in Seq(S) /\ Len(t) = n
  BY <1>1, <1>4
<1>6. \A i \in 1 .. n : t[i] = s[n - i + 1]
  BY <1>3
<1>7. In(t) = In(s)
  <2>1. In(t) \subseteq In(s)
    BY <1>2, <1>5, <1>6 DEF In, n
  <2>2. \A i \in 1 .. n : s[i] = t[n - i + 1]
    BY <1>2, <1>6
  <2> QED BY <1>2, <1>5, <2>1, <2>2 DEF In, n
<1>8. ASSUME Apart(s) PROVE Apart(t)
  <2> SUFFICES ASSUME NEW i \in 1 .. n, NEW j \in 1 .. n, t[i] = t[j]
               PROVE  i = j
    BY <1>5 DEF Apart
  <2>1. n - i + 1 = n - j + 1
    BY <1>2, <1>6, <1>8 DEF Apart, n
  <2> QED BY <1>1, <2>1
<1> QED BY <1>1, <1>2, <1>5, <1>6, <1>7, <1>8 DEF n, t

LEMMA AscendingApart ==
    ASSUME NEW S \in SUBSET Int, IsFiniteSet(S)
    PROVE  /\ Ascending(S) \in Seq(S) /\ Apart(Ascending(S))
           /\ In(Ascending(S)) = S
<1> DEFINE s == Ascending(S)
<1>1. /\ s \in Seq(S) /\ \A m, n \in DOMAIN s : m < n => s[m] < s[n]
      /\ \A x \in S : \E n \in DOMAIN s : s[n] = x
  BY AscendingFacts
<1> HIDE DEF s
<1>2. Len(s) \in Nat /\ DOMAIN s = 1 .. Len(s) /\ \A i \in 1 .. Len(s) : s[i] \in S
  BY <1>1, LenProperties, ElementOfSeq
<1>3. Apart(s)
  <2> SUFFICES ASSUME NEW i \in 1 .. Len(s), NEW j \in 1 .. Len(s),
                      s[i] = s[j], i # j
               PROVE  FALSE
    BY DEF Apart
  <2>1. s[i] \in S /\ s[j] \in S
    BY <1>2
  <2>2. s[i] \in Int /\ s[j] \in Int
    BY <2>1
  <2>3. i < j \/ j < i
    BY <1>2
  <2> QED BY <1>1, <1>2, <2>2, <2>3
<1>4. In(s) = S
  BY <1>1, <1>2 DEF In
<1> QED BY <1>1, <1>3, <1>4 DEF s

LEMMA AtApart ==
    ASSUME NEW S, NEW s \in Seq(S), NEW I \in SUBSET DOMAIN s
    PROVE  /\ At(s, I) \in Seq(S)
           /\ In(At(s, I)) = {s[n] : n \in I}
           /\ Apart(s) => Apart(At(s, I))
<1> DEFINE t == At(s, I)
           k == Cardinality(I)
<1>1. DOMAIN s = 1 .. Len(s)
  BY LenProperties
<1>2. /\ t \in Seq(S) /\ Len(t) = k /\ k \in Nat
      /\ \A n \in 1 .. k : Nth(I, n) \in I /\ t[n] = s[Nth(I, n)]
      /\ \A n \in I : \E m \in 1 .. k : Nth(I, m) = n
      /\ \A m, n \in 1 .. k : m < n => Nth(I, m) < Nth(I, n)
      /\ I \in SUBSET Int
  BY AtFacts
<1> HIDE DEF t, k
<1>3. In(t) = {s[n] : n \in I}
  BY <1>2 DEF In
<1>4. ASSUME Apart(s) PROVE Apart(t)
  <2> SUFFICES ASSUME NEW i \in 1 .. k, NEW j \in 1 .. k, t[i] = t[j], i # j
               PROVE  FALSE
    BY <1>2 DEF Apart
  <2>1. Nth(I, i) = Nth(I, j)
    BY <1>1, <1>2, <1>4 DEF Apart
  <2>2. (i < j \/ j < i) /\ Nth(I, i) \in Int
    BY <1>2
  <2> QED BY <1>2, <2>1, <2>2
<1> QED BY <1>2, <1>3, <1>4 DEF t

LEMMA JoinFacts ==
    ASSUME NEW S, NEW s \in Seq(S), NEW t \in Seq(S)
    PROVE  /\ s \o t \in Seq(S) /\ In(s \o t) = In(s) \union In(t)
           /\ Len(s \o t) = Len(s) + Len(t)
           /\ \A i \in 1 .. Len(s) : (s \o t)[i] = s[i]
           /\ \A i \in 1 .. Len(t) : (s \o t)[Len(s) + i] = t[i]
           /\ Apart(s) /\ Apart(t) /\ In(s) \intersect In(t) = {}
                => Apart(s \o t)
<1> DEFINE u == s \o t
           m == Len(s)
           n == Len(t)
<1>1. /\ m \in Nat /\ n \in Nat /\ u \in Seq(S) /\ Len(u) = m + n
      /\ \A i \in 1 .. m + n : u[i] = IF i <= m THEN s[i] ELSE t[i - m]
  BY ConcatProperties, LenProperties
<1> HIDE DEF u, m, n
<1>2. \A i \in 1 .. m : u[i] = s[i]
  BY <1>1
<1>3. \A i \in 1 .. n : u[m + i] = t[i]
  BY <1>1
<1>4. \A i \in 1 .. m + n : \/ i \in 1 .. m
                            \/ i - m \in 1 .. n /\ i = m + (i - m)
  BY <1>1
<1>5. \A i \in 1 .. n : m + i \in 1 .. m + n
  BY <1>1
<1>6. \A i \in 1 .. m : i \in 1 .. m + n
  BY <1>1
<1>7. In(u) = In(s) \union In(t)
  <2>1. \A i \in 1 .. m + n : u[i] \in In(s) \union In(t)
    BY <1>2, <1>3, <1>4 DEF In, m, n
  <2>2. In(u) \subseteq In(s) \union In(t)
    BY <1>1, <2>1 DEF In
  <2>3. In(s) \subseteq In(u)
    BY <1>1, <1>2, <1>6 DEF In, m
  <2>4. In(t) \subseteq In(u)
    <3>1. \A i \in 1 .. n : u[m + i] \in In(u)
      BY <1>1, <1>5 DEF In
    <3>2. \A i \in 1 .. n : t[i] \in In(u)
      BY <1>3, <3>1
    <3> QED BY <3>2 DEF In, n
  <2> QED BY <2>2, <2>3, <2>4
<1>8. ASSUME Apart(s), Apart(t), In(s) \intersect In(t) = {}
      PROVE  Apart(u)
  <2> SUFFICES ASSUME NEW i \in 1 .. m + n, NEW j \in 1 .. m + n, u[i] = u[j]
               PROVE  i = j
    BY <1>1 DEF Apart
  <2>1. CASE i \in 1 .. m /\ j \in 1 .. m
    BY <1>2, <1>8, <2>1 DEF Apart, m
  <2>2. CASE i - m \in 1 .. n /\ j - m \in 1 .. n
    <3>1. t[i - m] = t[j - m]
      BY <1>1, <1>3, <1>4, <2>2
    <3>2. i - m = j - m
      BY <1>8, <2>2, <3>1 DEF Apart, n
    <3> QED BY <1>1, <3>2
  <2>3. ASSUME NEW x \in 1 .. m, NEW y \in 1 .. m + n, y - m \in 1 .. n
        PROVE  u[x] # u[y]
    <3>1. u[x] \in In(s)
      BY <1>2 DEF In, m
    <3>2. u[y] = t[y - m]
      BY <1>1, <1>3, <1>4, <2>3
    <3>3. u[y] \in In(t)
      BY <2>3, <3>2 DEF In, n
    <3> QED BY <1>8, <3>1, <3>3
  <2>4. ~(i \in 1 .. m /\ j - m \in 1 .. n)
        /\ ~(i - m \in 1 .. n /\ j \in 1 .. m)
    BY <2>3
  <2> QED BY <1>4, <2>1, <2>2, <2>4
<1> QED BY <1>1, <1>2, <1>3, <1>7, <1>8 DEF u, m, n

LEMMA TailFacts ==
    ASSUME NEW S, NEW s \in Seq(S), s # <<>>
    PROVE  /\ Head(s) \in S /\ Tail(s) \in Seq(S) /\ Len(s) \in Nat \ {0}
           /\ Head(s) = s[1] /\ Len(Tail(s)) = Len(s) - 1
           /\ \A i \in 1 .. Len(s) - 1 : Tail(s)[i] = s[i + 1]
           /\ In(s) = {Head(s)} \union In(Tail(s))
<1> DEFINE n == Len(s)
           t == Tail(s)
<1>1. /\ Head(s) \in S /\ t \in Seq(S) /\ n \in Nat \ {0}
      /\ Head(s) = s[1] /\ Len(t) = n - 1
      /\ \A i \in 1 .. n - 1 : t[i] = s[i + 1]
  BY HeadTailProperties, EmptySeq, LenProperties
<1> HIDE DEF n, t
<1>2. \A i \in 1 .. n : i = 1 \/ (i - 1 \in 1 .. n - 1 /\ (i - 1) + 1 = i)
  BY <1>1
<1>3. \A i \in 1 .. n - 1 : i + 1 \in 1 .. n
  BY <1>1
<1>4. In(s) = {Head(s)} \union In(t)
  <2>1. ASSUME NEW i \in 1 .. n PROVE s[i] \in {Head(s)} \union In(t)
    <3>1. CASE i = 1
      BY <1>1, <3>1
    <3>2. CASE i - 1 \in 1 .. n - 1 /\ (i - 1) + 1 = i
      <4>1. s[i] = t[i - 1]
        BY <1>1, <3>2
      <4> QED BY <1>1, <3>2, <4>1 DEF In
    <3> QED BY <1>2, <3>1, <3>2
  <2>2. 1 \in 1 .. n
    BY <1>1
  <2>3. {Head(s)} \union In(t) \subseteq In(s)
    BY <1>1, <1>3, <2>2 DEF In, n
  <2> QED BY <2>1, <2>3 DEF In, n
<1> QED BY <1>1, <1>4 DEF n, t

\* A list without repetition put in front of another one and cut at a cap
\* loses nothing as long as all there ever was fits.
LEMMA PutInFront ==
    ASSUME NEW S, IsFiniteSet(S), NEW cap \in Nat, NEW seen \in SUBSET S,
           NEW s \in Seq(S), Apart(s), In(s) \subseteq seen,
           Cardinality(seen) <= cap => In(s) = seen,
           NEW t \in Seq(S), Apart(t), In(t) \intersect seen = {}
    PROVE  LET u == CutAt(t \o s, 1, cap)
               now == seen \union In(t)
           IN  /\ u \in Seq(S) /\ Apart(u) /\ In(u) \subseteq now
               /\ Len(u) <= cap
               /\ Cardinality(now) <= cap => In(u) = now
<1> DEFINE w == t \o s
           u == CutAt(w, 1, cap)
           now == seen \union In(t)
<1>1. w \in Seq(S) /\ Apart(w) /\ In(w) = In(t) \union In(s)
  BY JoinFacts
<1>2. In(t) \subseteq S
  BY ElementOfSeq DEF In
<1>3. /\ IsFiniteSet(now) /\ IsFiniteSet(seen)
      /\ Cardinality(now) \in Nat /\ Cardinality(seen) \in Nat
      /\ Cardinality(seen) <= Cardinality(now)
  BY <1>2, FS_Subset, FS_CardinalityType
<1>4. In(w) \subseteq now
  BY <1>1
<1>5. Cardinality(In(w)) = Len(w) /\ Cardinality(In(w)) <= Cardinality(now)
  BY <1>1, <1>3, <1>4, CountOfList, FS_Subset
<1> HIDE DEF w
<1>6. u \in Seq(S) /\ Apart(u) /\ In(u) \subseteq In(w)
  <2>1. 1 \in Nat \ {0} /\ cap \in Int
    OBVIOUS
  <2>2. u \in Seq(S)
    BY <1>1, <2>1, CutFacts
  <2>3. Apart(u) /\ In(u) \subseteq In(w)
    BY <1>1, <2>1, CutApart
  <2> QED BY <2>2, <2>3
<1>7. Len(u) <= cap
  BY <1>1, CutFacts
<1>8. ASSUME Cardinality(now) <= cap PROVE In(u) = now
  <2>1. Len(w) <= cap /\ Len(w) \in Nat
    BY <1>1, <1>3, <1>5, <1>8, LenProperties
  <2>2. Len(u) = Len(w) /\ \A i \in 1 .. Len(w) : u[i] = w[1 + i - 1]
    BY <1>1, <2>1, CutFacts
  <2>3. \A i \in 1 .. Len(w) : u[i] = w[i]
    BY <2>1, <2>2
  <2> HIDE DEF u
  <2>4. In(u) = In(w)
    BY <2>2, <2>3 DEF In
  <2>5. In(s) = seen
    BY <1>3, <1>8
  <2> QED BY <1>1, <2>4, <2>5
<1> QED BY <1>4, <1>6, <1>7, <1>8 DEF w

LEMMA Bounds ==
    /\ MaxOps \in Nat /\ MaxFaults \in Nat /\ PickerCalls \in Nat
    /\ ModalCalls \in Nat /\ MaxEdits \in Nat /\ MaxStarts \in Nat
    /\ MaxSends \in Nat /\ Clicks \in Nat /\ PanelCalls \in Nat
    /\ ContentTurns \in Nat /\ MaxChanges \in Nat /\ MaxTurns \in Nat
    /\ Cap \in Nat /\ PageLen \in Nat /\ Window \in Nat /\ MaxLen \in Nat
    /\ MaxWords \in Nat /\ LogRows \in Nat /\ LogCap \in Nat
    /\ LogTurns \in Nat
    /\ MaxLoads \in Nat \ {0} /\ MaxPages \in Nat \ {0}
    /\ MaxLists \in Nat \ {0} /\ MaxRows \in Nat \ {0}
    /\ PageSize \in Nat \ {0} /\ Take \in Nat \ {0}
BY ConstantsAssumption

-----------------------------------------------------------------------------
(* LiveFeed, the rows: the list and what the stream has still to bring.    *)

FeedScan == [on : BOOLEAN, rows : Seq(Feed!Rows)]

FeedView ==
    /\ DOMAIN view = {"filter", "logs", "seen", "panels"}
    /\ view.filter \in Feed!Filters /\ view.logs \in Seq(Feed!Rows)
    /\ view.seen \in SUBSET Feed!Rows
    /\ view.panels \in [Feed!Panels -> Feed!Filters \union {None}]

FeedNet ==
    /\ DOMAIN net = {"keyOf", "stamped", "committed", "up", "reached", "wire",
                     "scans", "swr", "poll", "turns", "missed", "crossed"}
    /\ net.stamped \in 0 .. MaxRows
    /\ net.committed \in SUBSET (1 .. net.stamped)
    /\ net.up \in BOOLEAN /\ net.reached \in 0 .. MaxRows
    /\ net.wire \in Seq(Feed!Rows) /\ net.scans \in [Feed!ScanIds -> FeedScan]
    /\ net.swr \in {"asked", "idle"}
    /\ net.poll \in Feed!Filters \union {None}
    /\ net.turns \in 0 .. MaxTurns

\* A query under way has found rows, and a slot without one none.
FeedScans ==
    \A i \in Feed!ScanIds :
        IF net.scans[i].on THEN net.scans[i].rows # <<>>
        ELSE net.scans[i].rows = <<>>

\* Every row once, and nothing that was seen is lost below the cap.
FeedMerge ==
    /\ Apart(view.logs) /\ In(view.logs) \subseteq view.seen
    /\ Cardinality(view.seen) <= Cap => In(view.logs) = view.seen

FeedReaches ==
    net.up = TRUE => \A r \in net.committed \ net.missed :
        \/ view.filter.key \notin {None, net.keyOf[r]}
        \/ r \in view.seen \union In(net.wire)
        \/ r > net.reached
        \/ \E i \in Feed!ScanIds : r \in In(net.scans[i].rows)

FeedRows == FeedView /\ FeedNet /\ FeedScans /\ FeedMerge /\ FeedReaches

LEMMA FeedOperators ==
    /\ \A S : Feed!Cardinality(S) = Cardinality(S)
    /\ \A S : Feed!Ascending(S) = Ascending(S)
    /\ \A s, I : Feed!At(s, I) = At(s, I)
    /\ \A s : Feed!Reverse(s) = Backwards(s)
    /\ \A s, m, n : Feed!Slice(s, m, n) = CutAt(s, m, n)
<1>1. \A S : Feed!Cardinality(S) = Cardinality(S)
  BY DEF Feed!Cardinality, Cardinality, Feed!IsFiniteSet, IsFiniteSet
<1>2. \A S, n : Feed!Nth(S, n) = Nth(S, n)
  BY <1>1 DEF Feed!Nth, Nth
<1>3. \A S : Feed!Ascending(S) = Ascending(S)
  BY <1>1, <1>2 DEF Feed!Ascending, Ascending
<1>4. \A s, I : Feed!At(s, I) = At(s, I)
  BY <1>1, <1>2 DEF Feed!At, At
<1>5. \A s : Feed!Reverse(s) = Backwards(s)
  BY DEF Feed!Reverse, Backwards
<1>6. \A s, m, n : Feed!Slice(s, m, n) = CutAt(s, m, n)
  BY DEF Feed!Slice, CutAt
<1> QED BY <1>1, <1>3, <1>4, <1>5, <1>6

LEMMA FeedRange == \A S : \A s \in Seq(S) : Feed!Range(s) = In(s)
BY LenProperties DEF Feed!Range, In

LEMMA FeedRowsType ==
    /\ IsFiniteSet(Feed!Rows) /\ Feed!Rows \in SUBSET Int
    /\ Feed!NoScan \in FeedScan /\ Feed!NoScan.on = FALSE
    /\ Feed!NoScan.rows = <<>> /\ In(<<>>) = {}
<1>1. IsFiniteSet(Feed!Rows) /\ Feed!Rows \in SUBSET Int
  BY FS_Interval, Bounds DEF Feed!Rows
<1>2. <<>> \in Seq(Feed!Rows) /\ Len(<<>>) = 0
  BY EmptySeq
<1> QED BY <1>1, <1>2 DEF Feed!NoScan, FeedScan, In

LEMMA FeedRowsStart == ASSUME Feed!Init PROVE FeedRows
<1>1. PICK keyOf \in [Feed!Rows -> Keys], old \in {{}, {1}} :
        /\ view = [filter |-> [key |-> None, page |-> 1], logs |-> <<>>,
                   seen |-> {}, panels |-> [p \in Feed!Panels |-> None]]
        /\ net = [keyOf |-> keyOf, stamped |-> Feed!Cardinality(old),
                  committed |-> old,
                  up |-> FALSE, reached |-> 0, wire |-> <<>>,
                  scans |-> [i \in Feed!ScanIds |-> Feed!NoScan],
                  swr |-> "asked", poll |-> None, turns |-> 0,
                  missed |-> {}, crossed |-> FALSE]
  BY DEF Feed!Init
<1>2. Cardinality({}) = 0 /\ Cardinality({1}) = 1
  BY FS_EmptySet, FS_Singleton
<1>3. net.stamped \in 0 .. MaxRows /\ net.committed \in SUBSET (1 .. net.stamped)
  <2>1. net.stamped = Cardinality(old) /\ net.committed = old
    BY <1>1, FeedOperators
  <2>2. 0 \in 0 .. MaxRows /\ 1 \in 0 .. MaxRows /\ 1 \in 1 .. 1
    BY Bounds
  <2>3. CASE old = {}
    BY <1>2, <2>1, <2>2, <2>3
  <2>4. CASE old = {1}
    BY <1>2, <2>1, <2>2, <2>4
  <2> QED BY <2>3, <2>4
<1>4. <<>> \in Seq(Feed!Rows) /\ Len(<<>>) = 0
  BY EmptySeq
<1>5. FeedView
  BY <1>1, <1>4 DEF FeedView, Feed!Filters
<1>6. FeedNet
  BY <1>1, <1>3, <1>4, FeedRowsType, Bounds DEF FeedNet
<1>7. FeedScans /\ FeedReaches
  BY <1>1, FeedRowsType DEF FeedScans, FeedReaches
<1>8. FeedMerge
  BY <1>1, <1>4, FeedRowsType DEF FeedMerge, Apart
<1> QED BY <1>5, <1>6, <1>7, <1>8 DEF FeedRows

\* The rows of a filter, oldest first.
LEMMA FeedRowsOf ==
    ASSUME NEW key, NEW S \in SUBSET Feed!Rows
    PROVE  LET s == Feed!RowsOf(key, S) IN
           /\ s \in Seq(Feed!Rows) /\ Apart(s)
           /\ In(s) = {r \in S : key \in {None, net.keyOf[r]}}
<1> DEFINE T == {r \in S : key \in {None, net.keyOf[r]}}
<1>1. T \in SUBSET Int /\ IsFiniteSet(T) /\ T \subseteq Feed!Rows
  BY FeedRowsType, FS_Subset
<1>2. Feed!RowsOf(key, S) = Ascending(T)
  BY FeedOperators DEF Feed!RowsOf
<1> HIDE DEF T
<1>3. Ascending(T) \in Seq(T) /\ Apart(Ascending(T)) /\ In(Ascending(T)) = T
  BY <1>1, AscendingApart
<1>4. Ascending(T) \in Seq(Feed!Rows)
  BY <1>1, <1>3, SeqMonotonic
<1> QED BY <1>2, <1>3, <1>4 DEF T

\* The page of rows SWR is answered.
LEMMA FeedListed ==
    ASSUME FeedRows
    PROVE  Feed!Listed \in Seq(Feed!Rows) /\ Apart(Feed!Listed)
<1> DEFINE rows == Feed!RowsOf(view.filter.key, net.committed)
           first == (view.filter.page - 1) * PageLen + 1
<1>1. net.committed \in SUBSET Feed!Rows
  BY Bounds DEF FeedRows, FeedNet, Feed!Rows
<1>2. rows \in Seq(Feed!Rows) /\ Apart(rows)
  BY <1>1, FeedRowsOf
<1>3. view.filter.page \in 1 .. 2
  BY DEF FeedRows, FeedView, Feed!Filters
<1>4. first \in Nat \ {0} /\ first + PageLen - 1 \in Int
  <2>1. CASE view.filter.page = 1
    BY <2>1, Bounds
  <2>2. CASE view.filter.page = 2
    BY <2>2, Bounds
  <2> QED BY <1>3, <2>1, <2>2
<1>5. Feed!Listed = CutAt(Backwards(rows), first, first + PageLen - 1)
  BY FeedOperators DEF Feed!Listed
<1> HIDE DEF rows, first
<1>6. Backwards(rows) \in Seq(Feed!Rows) /\ Apart(Backwards(rows))
  BY <1>2, BackwardsFacts
<1> QED BY <1>4, <1>5, <1>6, CutFacts, CutApart

\* The rows of an answer that are new are put in front.
LEMMA FeedMerged ==
    ASSUME FeedRows, NEW rows \in Seq(Feed!Rows), Apart(rows)
    PROVE  LET m == Feed!Merged(rows) IN
           /\ m.logs \in Seq(Feed!Rows) /\ Apart(m.logs)
           /\ m.seen \in SUBSET Feed!Rows /\ view.seen \subseteq m.seen
           /\ In(m.logs) \subseteq m.seen
           /\ Cardinality(m.seen) <= Cap => In(m.logs) = m.seen
<1> DEFINE new == At(rows, {n \in DOMAIN rows : rows[n] \notin view.seen})
           back == Backwards(new)
<1>1. /\ new \in Seq(Feed!Rows) /\ Apart(new)
      /\ In(new) \intersect view.seen = {}
  BY AtApart
<1>2. /\ back \in Seq(Feed!Rows) /\ Apart(back) /\ In(back) = In(new)
  BY <1>1, BackwardsFacts
<1>3. /\ Feed!Merged(rows).logs = CutAt(back \o view.logs, 1, Cap)
      /\ Feed!Merged(rows).seen = view.seen \union In(new)
  <2>1. Feed!Range(new) = In(new)
    BY <1>1, FeedRange
  <2> QED BY <2>1, FeedOperators DEF Feed!Merged
<1>4. In(new) \subseteq Feed!Rows
  BY <1>1, ElementOfSeq DEF In
<1> HIDE DEF new, back
<1>5. /\ view.logs \in Seq(Feed!Rows) /\ view.seen \in SUBSET Feed!Rows
      /\ Apart(view.logs) /\ In(view.logs) \subseteq view.seen
      /\ Cardinality(view.seen) <= Cap => In(view.logs) = view.seen
  BY DEF FeedRows, FeedView, FeedMerge
<1> DEFINE u == CutAt(back \o view.logs, 1, Cap)
           now == view.seen \union In(back)
<1>6. IsFiniteSet(Feed!Rows) /\ Cap \in Nat /\ In(back) \intersect view.seen = {}
  BY <1>1, <1>2, FeedRowsType, Bounds
<1>7. /\ u \in Seq(Feed!Rows) /\ Apart(u) /\ In(u) \subseteq now
      /\ Cardinality(now) <= Cap => In(u) = now
  <2> HIDE DEF u, now
  <2>1. u = CutAt(back \o view.logs, 1, Cap) /\ now = view.seen \union In(back)
    BY DEF u, now
  <2>2. back \in Seq(Feed!Rows) /\ Apart(back)
    BY <1>2
  <2> QED BY <1>5, <1>6, <2>1, <2>2, PutInFront
<1> QED BY <1>2, <1>3, <1>4, <1>5, <1>7


\* What a step leaves alone.
LEMMA FeedViewSame ==
    ASSUME FeedRows, UNCHANGED view
    PROVE  FeedView' /\ FeedMerge'
BY DEF FeedRows, FeedView, FeedMerge

LEMMA FeedTurnedOff ==
    ASSUME FeedRows, DOMAIN net' = DOMAIN net,
           UNCHANGED <<net.keyOf, net.stamped, net.committed>>,
           net'.up = FALSE, net'.reached = 0, net'.wire = <<>>,
           net'.scans = [i \in Feed!ScanIds |-> Feed!NoScan],
           net'.swr \in {"asked", "idle"},
           net'.poll \in Feed!Filters \union {None},
           net'.turns \in 0 .. MaxTurns
    PROVE  FeedNet' /\ FeedScans' /\ FeedReaches'
<1>1. <<>> \in Seq(Feed!Rows)
  BY EmptySeq
<1>2. FeedNet'
  <2>1. net'.scans \in [Feed!ScanIds -> FeedScan]
    BY FeedRowsType
  <2>2. 0 \in 0 .. MaxRows
    BY Bounds
  <2> QED BY <1>1, <2>1, <2>2 DEF FeedRows, FeedNet
<1>3. FeedScans' /\ FeedReaches'
  BY FeedRowsType DEF FeedScans, FeedReaches
<1> QED BY <1>2, <1>3

LEMMA FeedRowsKept == ASSUME FeedRows, Feed!Next PROVE FeedRows'
<1>v. FeedView /\ FeedNet /\ FeedScans /\ FeedMerge /\ FeedReaches
  BY DEF FeedRows
<1>n. /\ net.stamped \in Nat /\ net.reached \in Nat /\ net.turns \in Nat
      /\ net.stamped <= MaxRows /\ net.turns <= MaxTurns
      /\ MaxRows \in Nat /\ MaxTurns \in Nat
      /\ \A r \in net.committed : r \in 1 .. net.stamped /\ r \in Nat
      /\ \A r \in Feed!Rows : r \in Nat
  <2>1. net.stamped \in 0 .. MaxRows /\ net.reached \in 0 .. MaxRows
        /\ net.turns \in 0 .. MaxTurns
        /\ net.committed \in SUBSET (1 .. net.stamped)
    BY <1>v DEF FeedNet
  <2>2. MaxRows \in Nat /\ MaxTurns \in Nat
    BY Bounds
  <2> QED BY <2>1, <2>2 DEF Feed!Rows
<1>1. ASSUME Feed!StampRow PROVE FeedRows'
  <2>1. /\ UNCHANGED view /\ net.stamped < MaxRows
        /\ net' = [net EXCEPT !.stamped = net.stamped + 1]
    BY <1>1 DEF Feed!StampRow
  <2>2. net.stamped + 1 \in 0 .. MaxRows
        /\ 1 .. net.stamped \subseteq 1 .. net.stamped + 1
    BY <1>n, <2>1
  <2>3. FeedNet'
    BY <1>v, <2>1, <2>2 DEF FeedNet
  <2>4. FeedScans' /\ FeedReaches'
    BY <1>v, <2>1 DEF FeedNet, FeedScans, FeedReaches
  <2> QED BY <2>1, <2>3, <2>4, FeedViewSame DEF FeedRows
<1>2. ASSUME Feed!CommitRow PROVE FeedRows'
  <2>1. PICK r \in (1 .. net.stamped) \ net.committed :
          /\ net' = [net EXCEPT !.committed = net.committed \union {r},
                        !.missed = IF net.up /\ r <= net.reached
                                   THEN net.missed \union {r} ELSE net.missed]
          /\ UNCHANGED view
    BY <1>2 DEF Feed!CommitRow
  <2>2. FeedNet' /\ FeedScans'
    BY <1>v, <2>1 DEF FeedNet, FeedScans
  <2>3. FeedReaches'
    <3>1. /\ net'.committed = net.committed \union {r}
          /\ net.missed \subseteq net'.missed
          /\ net.up = TRUE /\ r <= net.reached => r \in net'.missed
          /\ UNCHANGED <<net.up, net.keyOf, net.wire, net.reached, net.scans>>
      BY <1>v, <2>1 DEF FeedNet
    <3>2. r > net.reached \/ r <= net.reached
      BY <1>n, <2>1
    <3> QED BY <1>v, <2>1, <3>1, <3>2 DEF FeedReaches
  <2> QED BY <2>1, <2>2, <2>3, FeedViewSame DEF FeedRows
<1>3. ASSUME Feed!Connect PROVE FeedRows'
  <2>1. PICK from \in 0 .. net.stamped :
          /\ net.up = FALSE /\ UNCHANGED view
          /\ net' = [net EXCEPT !.up = TRUE, !.reached = from,
                        !.missed = net.missed \union {r \in net.committed :
                                                    r <= from}]
    BY <1>3, <1>v DEF Feed!Connect, FeedNet
  <2>i. from \in 0 .. MaxRows
    BY <1>n
  <2>2. FeedNet' /\ FeedScans'
    BY <1>v, <2>1, <2>i DEF FeedNet, FeedScans
  <2>3. FeedReaches'
    <3>1. /\ net'.committed = net.committed /\ net'.reached = from
          /\ \A r \in net.committed : r <= from => r \in net'.missed
      BY <1>v, <2>1 DEF FeedNet
    <3>2. \A r \in net.committed : r > from \/ r <= from
      BY <1>n
    <3> QED BY <3>1, <3>2 DEF FeedReaches
  <2> QED BY <2>1, <2>2, <2>3, FeedViewSame DEF FeedRows
<1>4. ASSUME Feed!ConnectionDrops PROVE FeedRows'
  <2>1. /\ DOMAIN net' = DOMAIN net /\ UNCHANGED view
        /\ UNCHANGED <<net.keyOf, net.stamped, net.committed, net.swr, net.poll>>
        /\ net'.up = FALSE /\ net'.reached = 0 /\ net'.wire = <<>>
        /\ net'.scans = [i \in Feed!ScanIds |-> Feed!NoScan]
        /\ net'.turns = net.turns + 1 /\ net.turns < MaxTurns
    BY <1>4, <1>v DEF Feed!ConnectionDrops, Feed!Disconnected, FeedNet
  <2>2. net'.turns \in 0 .. MaxTurns
    BY <1>n, <2>1
  <2>3. FeedNet' /\ FeedScans' /\ FeedReaches'
    BY <1>v, <2>1, <2>2, FeedTurnedOff DEF FeedNet
  <2> QED BY <2>1, <2>3, FeedViewSame DEF FeedRows
<1>5. ASSUME Feed!Event PROVE FeedRows'
  <2> DEFINE r == Head(net.wire)
  <2>1. /\ net.wire # <<>> /\ net' = [net EXCEPT !.wire = Tail(net.wire)]
        /\ r \in view.seen => view' = view
        /\ r \notin view.seen =>
             view' = [view EXCEPT !.seen = view.seen \union {r},
                         !.logs = CutAt(<<r>> \o view.logs, 1, Cap)]
    BY <1>5, FeedOperators DEF Feed!Event
  <2>2. /\ r \in Feed!Rows /\ Tail(net.wire) \in Seq(Feed!Rows)
        /\ In(net.wire) = {r} \union In(Tail(net.wire))
    BY <1>v, <2>1, TailFacts DEF FeedNet
  <2> HIDE DEF r
  <2>3. FeedNet' /\ FeedScans'
    BY <1>v, <2>1, <2>2 DEF FeedNet, FeedScans
  <2>4. FeedView' /\ FeedMerge' /\ view'.seen = view.seen \union {r}
        /\ view'.filter = view.filter
    <3>1. CASE r \in view.seen
      BY <1>v, <2>1, <3>1, FeedViewSame
    <3>2. CASE r \notin view.seen
      <4> DEFINE u == CutAt(<<r>> \o view.logs, 1, Cap)
      <4>1. <<r>> \in Seq(Feed!Rows) /\ Apart(<<r>>) /\ In(<<r>>) = {r}
        BY <2>2 DEF Apart, In
      <4>2. /\ u \in Seq(Feed!Rows) /\ Apart(u)
            /\ In(u) \subseteq view.seen \union {r}
            /\ Cardinality(view.seen \union {r}) <= Cap
                    => In(u) = view.seen \union {r}
        <5>1. /\ IsFiniteSet(Feed!Rows) /\ Cap \in Nat
              /\ view.logs \in Seq(Feed!Rows) /\ view.seen \in SUBSET Feed!Rows
              /\ Apart(view.logs) /\ In(view.logs) \subseteq view.seen
              /\ Cardinality(view.seen) <= Cap => In(view.logs) = view.seen
          BY <1>v, FeedRowsType, Bounds DEF FeedView, FeedMerge
        <5>2. In(<<r>>) \intersect view.seen = {}
          BY <3>2, <4>1
        <5> DEFINE front == <<r>>
        <5> HIDE DEF front, u
        <5>3. /\ front \in Seq(Feed!Rows) /\ Apart(front)
              /\ In(front) \intersect view.seen = {}
              /\ u = CutAt(front \o view.logs, 1, Cap) /\ In(front) = {r}
          BY <4>1, <5>2 DEF front, u
        <5>4. /\ u \in Seq(Feed!Rows) /\ Apart(u)
              /\ In(u) \subseteq view.seen \union In(front)
              /\ Cardinality(view.seen \union In(front)) <= Cap
                    => In(u) = view.seen \union In(front)
          BY <5>1, <5>3, PutInFront
        <5> QED BY <5>3, <5>4
      <4> HIDE DEF u
      <4>3. /\ view'.logs = u /\ view'.seen = view.seen \union {r}
            /\ DOMAIN view' = DOMAIN view
            /\ view'.filter = view.filter /\ view'.panels = view.panels
        BY <1>v, <2>1, <3>2 DEF FeedView, u
      <4> QED BY <1>v, <2>2, <4>2, <4>3 DEF FeedView, FeedMerge
    <3> QED BY <3>1, <3>2
  <2>5. FeedReaches'
    <3>1. /\ net'.wire = Tail(net.wire)
          /\ UNCHANGED <<net.up, net.keyOf, net.committed, net.missed,
                         net.reached, net.scans>>
      BY <1>v, <2>1 DEF FeedNet
    <3> QED BY <1>v, <2>2, <2>4, <3>1 DEF FeedReaches
  <2> QED BY <2>3, <2>4, <2>5 DEF FeedRows
<1>6. ASSUME NEW i \in Feed!ScanIds, Feed!Scan(i) PROVE FeedRows'
  <2> DEFINE S == {r \in net.committed : r > net.reached}
             rows == Feed!RowsOf(view.filter.key, S)
  <2>1. /\ UNCHANGED view /\ net.scans[i].on = FALSE /\ Len(rows) > 0
        /\ net' = [net EXCEPT !.scans[i] = [on |-> TRUE, rows |-> rows]]
    BY <1>6, <1>v DEF Feed!Scan, FeedNet, FeedScan
  <2>2. S \in SUBSET Feed!Rows
    BY <1>v, Bounds DEF FeedNet, Feed!Rows
  <2>3. rows \in Seq(Feed!Rows) /\ rows # <<>>
    BY <2>1, <2>2, FeedRowsOf
  <2> HIDE DEF rows
  <2>4. /\ net'.scans = [net.scans EXCEPT ![i] = [on |-> TRUE, rows |-> rows]]
        /\ DOMAIN net' = DOMAIN net
        /\ UNCHANGED <<net.keyOf, net.stamped, net.committed, net.up,
                       net.reached, net.wire, net.swr, net.poll, net.turns,
                       net.missed>>
    BY <1>v, <2>1 DEF FeedNet
  <2>5. FeedNet'
    BY <1>v, <2>3, <2>4 DEF FeedNet, FeedScan
  <2>6. FeedScans'
    <3>1. \A j \in Feed!ScanIds : net'.scans[j] =
            IF j = i THEN [on |-> TRUE, rows |-> rows] ELSE net.scans[j]
      BY <1>v, <2>4 DEF FeedNet
    <3> QED BY <1>v, <2>3, <3>1 DEF FeedScans
  <2>7. FeedReaches'
    <3>1. In(net.scans[i].rows) = {}
      BY <1>v, <2>1, FeedRowsType DEF FeedScans
    <3>2. \A j \in Feed!ScanIds :
            In(net.scans[j].rows) \subseteq In(net'.scans[j].rows)
      BY <1>v, <2>4, <3>1 DEF FeedNet
    <3> QED BY <1>v, <2>1, <2>4, <3>2 DEF FeedReaches
  <2> QED BY <2>1, <2>5, <2>6, <2>7, FeedViewSame DEF FeedRows
<1>7. ASSUME NEW i \in Feed!ScanIds, Feed!ScanAnswered(i) PROVE FeedRows'
  <2> DEFINE rows == net.scans[i].rows
             last == rows[Len(rows)]
  <2>1. /\ UNCHANGED view /\ net.scans[i].on = TRUE
        /\ rows \in Seq(Feed!Rows) /\ rows # <<>>
    BY <1>7, <1>v DEF Feed!ScanAnswered, FeedNet, FeedScan, FeedScans
  <2>2. net' = [net EXCEPT
            !.scans[i] = Feed!NoScan, !.wire = net.wire \o rows,
            !.reached = last,
            !.missed = net.missed \union {r \in net.committed :
                /\ r <= last /\ r > net.reached /\ r \notin In(rows)}]
    <3>1. Feed!Range(rows) = In(rows) /\ Feed!Last(rows) = last
      BY <2>1, FeedRange DEF Feed!Last
    <3> QED BY <1>7, <3>1 DEF Feed!ScanAnswered
  <2>3. last \in Feed!Rows /\ last \in 0 .. MaxRows
    <3>1. Len(rows) \in 1 .. Len(rows)
      BY <2>1, EmptySeq
    <3>2. last \in Feed!Rows
      BY <2>1, <3>1, ElementOfSeq
    <3> QED BY <3>2, Bounds DEF Feed!Rows
  <2> HIDE DEF last
  <2>4. /\ net'.scans = [net.scans EXCEPT ![i] = Feed!NoScan]
        /\ net'.wire = net.wire \o rows /\ net'.reached = last
        /\ net'.missed = net.missed \union {r \in net.committed :
                /\ r <= last /\ r > net.reached /\ r \notin In(rows)}
        /\ DOMAIN net' = DOMAIN net
        /\ UNCHANGED <<net.keyOf, net.stamped, net.committed, net.up,
                       net.swr, net.poll, net.turns>>
    BY <1>v, <2>2 DEF FeedNet
  <2>5. /\ net.wire \o rows \in Seq(Feed!Rows)
        /\ In(net.wire \o rows) = In(net.wire) \union In(rows)
    BY <1>v, <2>1, JoinFacts DEF FeedNet
  <2>6. FeedNet'
    BY <1>v, <2>3, <2>4, <2>5, FeedRowsType DEF FeedNet
  <2>7. FeedScans'
    BY <1>v, <2>4, FeedRowsType DEF FeedNet, FeedScans
  <2>8. FeedReaches'
    <3>1. \A j \in Feed!ScanIds : In(net.scans[j].rows) \subseteq
              In(net'.scans[j].rows) \union In(rows)
      BY <1>v, <2>4 DEF FeedNet
    <3>2. \A r \in net.committed : r > last \/ r <= last
      BY <1>n, <2>3
    <3> HIDE DEF rows
    <3> QED BY <1>v, <2>1, <2>4, <2>5, <3>1, <3>2 DEF FeedReaches
  <2> QED BY <2>1, <2>6, <2>7, <2>8, FeedViewSame DEF FeedRows
<1>8. ASSUME Feed!SwrAnswers PROVE FeedRows'
  <2> DEFINE m == Feed!Merged(Feed!Listed)
  <2>1. /\ net' = [net EXCEPT !.swr = "idle"]
        /\ view' = [view EXCEPT !.logs = m.logs, !.seen = m.seen,
                        !.panels = [p \in Feed!Panels |-> view.filter]]
    BY <1>8 DEF Feed!SwrAnswers
  <2>2. /\ m.logs \in Seq(Feed!Rows) /\ Apart(m.logs)
        /\ m.seen \in SUBSET Feed!Rows /\ view.seen \subseteq m.seen
        /\ In(m.logs) \subseteq m.seen
        /\ Cardinality(m.seen) <= Cap => In(m.logs) = m.seen
    BY FeedListed, FeedMerged
  <2> HIDE DEF m
  <2>3. /\ view'.logs = m.logs /\ view'.seen = m.seen
        /\ view'.panels = [p \in Feed!Panels |-> view.filter]
        /\ view'.filter = view.filter /\ DOMAIN view' = DOMAIN view
    BY <1>v, <2>1 DEF FeedView
  <2>4. FeedView' /\ FeedMerge'
    BY <1>v, <2>2, <2>3 DEF FeedView, FeedMerge
  <2>5. FeedNet' /\ FeedScans'
    BY <1>v, <2>1 DEF FeedNet, FeedScans
  <2>6. FeedReaches'
    BY <1>v, <2>1, <2>2, <2>3 DEF FeedNet, FeedReaches
  <2> QED BY <2>4, <2>5, <2>6 DEF FeedRows
<1>9. ASSUME Feed!Focus \/ Feed!Poll PROVE FeedRows'
  <2>1. /\ UNCHANGED view /\ DOMAIN net' = DOMAIN net
        /\ UNCHANGED <<net.keyOf, net.stamped, net.committed, net.up,
                       net.reached, net.wire, net.scans, net.missed>>
        /\ net'.swr \in {"asked", "idle"}
        /\ net'.poll \in Feed!Filters \union {None}
        /\ net'.turns \in 0 .. MaxTurns
    <3>1. CASE Feed!Focus
      <4>1. net.turns + 1 \in 0 .. MaxTurns
        BY <1>n, <3>1 DEF Feed!Focus
      <4> QED BY <1>v, <3>1, <4>1 DEF Feed!Focus, FeedNet
    <3>2. CASE Feed!Poll
      BY <1>v, <3>2 DEF Feed!Poll, FeedNet, FeedView
    <3> QED BY <1>9, <3>1, <3>2
  <2>2. FeedNet' /\ FeedScans' /\ FeedReaches'
    BY <1>v, <2>1 DEF FeedNet, FeedScans, FeedReaches
  <2> QED BY <2>1, <2>2, FeedViewSame DEF FeedRows
<1>10. ASSUME Feed!PollAnswers PROVE FeedRows'
  <2>1. /\ net.poll # None /\ net' = [net EXCEPT !.poll = None]
        /\ view' = [view EXCEPT !.panels["headline"] = net.poll]
    BY <1>10 DEF Feed!PollAnswers
  <2>2. FeedView' /\ FeedMerge'
    BY <1>v, <2>1 DEF FeedView, FeedMerge, FeedNet
  <2>3. FeedNet' /\ FeedScans' /\ FeedReaches'
    BY <1>v, <2>1 DEF FeedNet, FeedView, FeedScans, FeedReaches
  <2> QED BY <2>2, <2>3 DEF FeedRows
<1>11. ASSUME NEW f \in Feed!Filters, Feed!Filter(f) PROVE FeedRows'
  <2>1. /\ DOMAIN net' = DOMAIN net
        /\ view' = [view EXCEPT !.filter = f]
        /\ UNCHANGED <<net.keyOf, net.stamped, net.committed, net.poll>>
        /\ net'.up = FALSE /\ net'.reached = 0 /\ net'.wire = <<>>
        /\ net'.scans = [i \in Feed!ScanIds |-> Feed!NoScan]
        /\ net'.swr = "asked"
        /\ net'.turns = net.turns + 1 /\ net.turns < MaxTurns
    BY <1>11, <1>v DEF Feed!Filter, Feed!Disconnected, FeedNet
  <2>2. net'.turns \in 0 .. MaxTurns
    BY <1>n, <2>1
  <2>3. FeedNet' /\ FeedScans' /\ FeedReaches'
    BY <1>v, <2>1, <2>2, FeedTurnedOff DEF FeedNet
  <2>4. FeedView' /\ FeedMerge'
    BY <1>v, <2>1 DEF FeedView, FeedMerge
  <2> QED BY <2>3, <2>4 DEF FeedRows
<1> QED BY <1>1, <1>2, <1>3, <1>4, <1>5, <1>6, <1>7, <1>8, <1>9, <1>10, <1>11
        DEF Feed!Next

LEMMA FeedRowsStutter ==
    ASSUME FeedRows, UNCHANGED <<view, net>> PROVE FeedRows'
BY DEF FeedRows, FeedView, FeedNet, FeedScans, FeedMerge, FeedReaches

LEMMA FeedRowsShow ==
    ASSUME FeedRows
    PROVE  Feed!TypeOK /\ Feed!LiveRowsMerge /\ Feed!NothingSkipped
<1>v. FeedView /\ FeedNet /\ FeedScans /\ FeedMerge /\ FeedReaches
  BY DEF FeedRows
<1>1. Feed!TypeOK
  BY <1>v DEF FeedView, FeedNet, Feed!TypeOK
<1>2. Feed!Range(view.logs) = In(view.logs) /\ Feed!Range(net.wire) = In(net.wire)
  BY <1>v, FeedRange DEF FeedView, FeedNet
<1>3. Feed!LiveRowsMerge
  <2>1. Cardinality(In(view.logs)) = Len(view.logs)
    BY <1>v, CountOfList DEF FeedView, FeedMerge
  <2> QED BY <1>v, <1>2, <2>1, FeedOperators DEF FeedMerge, Feed!LiveRowsMerge
<1>4. Feed!NothingSkipped
  <2>1. \A i \in Feed!ScanIds :
          Feed!Range(net.scans[i].rows) = In(net.scans[i].rows)
    BY <1>v, FeedRange DEF FeedNet, FeedScan
  <2> QED BY <1>v, <1>2, <2>1 DEF FeedReaches, Feed!NothingSkipped, FeedNet
<1> QED BY <1>1, <1>3, <1>4

-----------------------------------------------------------------------------
(* TelemetryBoard, the rows: the groups are ranked without gaps, so no     *)
(* page between the first and the last is empty, and a bucket under a      *)
(* snapshot lies within the window that is asked for.                      *)

BoardAsked(a) ==
    /\ DOMAIN a = {"key", "bucket", "by", "end"}
    /\ a.by \in Board!Groupings
    /\ a.bucket # {} /\ a.bucket \subseteq view.records
    /\ a.end \in view.records /\ a.bucket \subseteq 1 .. a.end

BoardTypes ==
    /\ DOMAIN view = {"records", "by", "filter", "page", "expanded", "known",
                      "toasts", "snapshot", "of", "diff", "payload", "loading",
                      "error"}
    /\ DOMAIN net = {"rows", "ask", "fetch", "toasted", "turns"}
    /\ \E n \in 0 .. MaxRows : view.records = 1 .. n
    /\ net.rows \in [view.records -> Board!LiveRequest]
    /\ view.by \in Board!Groupings /\ view.page \in 1 .. MaxRows
    /\ view.known \subseteq Agents /\ view.toasts \subseteq net.toasted
    /\ view.snapshot \subseteq view.records

BoardAsks ==
    /\ net.ask # None => BoardAsked(net.ask)
    /\ view.of # None => BoardAsked(view.of)

BoardRows == BoardTypes /\ BoardAsks /\ Board!SummaryIsTheBucket

LEMMA BoardCount == \A S : Board!Cardinality(S) = Cardinality(S)
BY DEF Board!Cardinality, Cardinality, Board!IsFiniteSet, IsFiniteSet

LEMMA BoardLeast ==
    ASSUME NEW S \in SUBSET Int, IsFiniteSet(S), S # {}
    PROVE  Board!Least(S) \in S /\ \A m \in S : Board!Least(S) <= m
<1>1. /\ Cardinality(S) \in Nat
      /\ \A n \in 1 .. Cardinality(S) : Nth(S, n) \in S
      /\ \A x \in S : /\ Rank(S, x) \in 1 .. Cardinality(S)
                      /\ Nth(S, Rank(S, x)) = x
      /\ \A m, n \in 1 .. Cardinality(S) : m < n => Nth(S, m) < Nth(S, n)
  BY NthFacts
<1>2. 1 \in 1 .. Cardinality(S)
  <2>1. PICK x \in S : TRUE
    OBVIOUS
  <2>2. Rank(S, x) \in 1 .. Cardinality(S)
    BY <1>1
  <2> QED BY <1>1, <2>2
<1>3. ASSUME NEW x \in S PROVE Nth(S, 1) <= x
  <2>1. PICK n \in 1 .. Cardinality(S) : Nth(S, n) = x
    BY <1>1
  <2>2. Nth(S, 1) \in S /\ x \in Int
    BY <1>1, <1>2
  <2>3. CASE n = 1
    BY <2>1, <2>2, <2>3
  <2>4. CASE n # 1
    <3>1. 1 < n
      BY <2>4
    <3>2. Nth(S, 1) < x
      BY <1>1, <1>2, <2>1, <3>1
    <3>3. Nth(S, 1) \in Int
      BY <2>2
    <3> QED BY <2>2, <3>2, <3>3
  <2> QED BY <2>3, <2>4
<1>4. \E n \in S : \A m \in S : n <= m
  BY <1>1, <1>2, <1>3
<1> QED BY <1>4 DEF Board!Least

LEMMA Greatest ==
    ASSUME NEW S \in SUBSET Int, IsFiniteSet(S), S # {}
    PROVE  \E x \in S : \A y \in S : y <= x
<1> DEFINE n == Cardinality(S)
<1>1. /\ n \in Nat
      /\ \A i \in 1 .. n : Nth(S, i) \in S
      /\ \A x \in S : Rank(S, x) \in 1 .. n /\ Nth(S, Rank(S, x)) = x
      /\ \A i, j \in 1 .. n : i < j => Nth(S, i) < Nth(S, j)
  BY NthFacts
<1> HIDE DEF n
<1>2. n \in 1 .. n
  <2>1. PICK x \in S : TRUE
    OBVIOUS
  <2>2. Rank(S, x) \in 1 .. n
    BY <1>1
  <2> QED BY <1>1, <2>2
<1>3. ASSUME NEW x \in S PROVE x <= Nth(S, n)
  <2>1. PICK i \in 1 .. n : Nth(S, i) = x
    BY <1>1
  <2>2. Nth(S, n) \in Int /\ x \in Int
    BY <1>1, <1>2
  <2>3. CASE i = n
    BY <2>1, <2>2, <2>3
  <2>4. CASE i # n
    <3>1. i < n
      BY <1>1, <2>4
    <3>2. x < Nth(S, n)
      BY <1>1, <1>2, <2>1, <3>1
    <3> QED BY <2>2, <3>2
  <2> QED BY <2>3, <2>4
<1> QED BY <1>1, <1>2, <1>3

\* G groups on T pages of ps: there is a first group on each page.
PagesFit(T, G, ps) ==
    /\ T \in Nat /\ T <= G /\ (G > 0 => T > 0)
    /\ \A p \in 1 .. T : /\ (p - 1) * ps + 1 \in 1 .. G
                        /\ (p - 1) * ps + 1 > (p - 1) * ps
                        /\ (p - 1) * ps + 1 <= p * ps

LEMMA PagesOf ==
    ASSUME NEW G \in Nat, NEW ps \in Nat \ {0}
    PROVE  PagesFit((G + ps - 1) \div ps, G, ps)
<1> DEFINE T == (G + ps - 1) \div ps
<1> HIDE DEF T
<1>1. T \in Int /\ T * ps <= G + ps - 1 /\ G + ps - 1 < (T + 1) * ps
  BY Z3 DEF T
<1>2. T >= 0
  BY <1>1, Z3
<1>3. T <= G
  BY <1>1, <1>2, Z3
<1>4. G > 0 => T > 0
  BY <1>1, <1>2, Z3
<1>5. ASSUME NEW p \in 1 .. T
      PROVE  /\ (p - 1) * ps + 1 \in 1 .. G
             /\ (p - 1) * ps + 1 > (p - 1) * ps
             /\ (p - 1) * ps + 1 <= p * ps
  <2>1. (p - 1) * ps = p * ps - ps /\ p * ps \in Int /\ (p - 1) * ps \in Int
    BY <1>1, Z3
  <2>2. p * ps <= T * ps /\ (p - 1) * ps >= 0
    BY <1>1, Z3
  <2> QED BY <1>1, <2>1, <2>2, Z3
<1>6. PagesFit(T, G, ps)
  BY <1>1, <1>2, <1>3, <1>4, <1>5 DEF PagesFit
<1> QED BY <1>6 DEF T

LEMMA BoardRecords ==
    ASSUME BoardTypes
    PROVE  /\ view.records \in SUBSET Int /\ IsFiniteSet(view.records)
           /\ Cardinality(view.records) \in 0 .. MaxRows
           /\ view.records = 1 .. Cardinality(view.records)
           /\ DOMAIN net.rows = view.records
           /\ \A S \in SUBSET view.records :
                IsFiniteSet(S) /\ Cardinality(S) \in Nat
                /\ Cardinality(S) <= Cardinality(view.records)
<1>1. PICK n \in 0 .. MaxRows : view.records = 1 .. n
  BY DEF BoardTypes
<1>2. n \in Nat /\ n <= MaxRows
  BY Bounds, <1>1
<1>3. IsFiniteSet(1 .. n) /\ Cardinality(1 .. n) = n
  BY <1>2, FS_Interval
<1>4. view.records \in SUBSET Int
  BY <1>1
<1>5. \A S \in SUBSET view.records :
        IsFiniteSet(S) /\ Cardinality(S) \in Nat
        /\ Cardinality(S) <= Cardinality(view.records)
  BY <1>1, <1>3, FS_Subset, FS_CardinalityType
<1> QED BY <1>1, <1>3, <1>4, <1>5 DEF BoardTypes

\* The groups of a list of rows, latest first.
LEMMA BoardGroups ==
    ASSUME BoardTypes
    PROVE  /\ IsFiniteSet(Board!Groups)
           /\ Cardinality(Board!Groups) \in 0 .. MaxRows
           /\ \A k \in Board!Groups :
                /\ Board!Bucket(k) # {}
                /\ Board!Rank(k) \in 1 .. Cardinality(Board!Groups)
           /\ \A n \in 1 .. Cardinality(Board!Groups) :
                \E k \in Board!Groups : Board!Rank(k) = n
<1> DEFINE F == Board!Filtered
           G == Board!Groups
           key == [i \in F |-> Board!KeyOf(i, view.by)]
           last(k) == Board!LastSeen(k)
           later(k) == {l \in G : last(l) >= last(k)}
<1>1. F \subseteq view.records
  BY DEF Board!Filtered
<1>2. IsFiniteSet(F) /\ Cardinality(F) \in Nat /\ Cardinality(F) <= MaxRows
  <2>1. IsFiniteSet(F) /\ Cardinality(F) \in Nat
        /\ Cardinality(F) <= Cardinality(view.records)
    BY <1>1, BoardRecords
  <2>2. Cardinality(view.records) \in Nat
        /\ Cardinality(view.records) <= MaxRows /\ MaxRows \in Nat
    BY BoardRecords, Bounds
  <2> QED BY <2>1, <2>2
<1>3. key \in Surjection(F, G)
  BY DEF Surjection, Board!Groups
<1>4. IsFiniteSet(G) /\ Cardinality(G) \in Nat /\ Cardinality(G) <= Cardinality(F)
  BY <1>2, <1>3, FS_Surjection, FS_CardinalityType
<1>5. ASSUME NEW k \in G
      PROVE  /\ Board!Bucket(k) # {} /\ last(k) \in Int
             /\ last(k) \in F /\ Board!KeyOf(last(k), view.by) = k
  <2>1. PICK i \in F : k = Board!KeyOf(i, view.by)
    BY DEF Board!Groups
  <2>2. i \in Board!Bucket(k)
    BY <2>1 DEF Board!Bucket
  <2>3. Board!Bucket(k) \subseteq F
    BY DEF Board!Bucket
  <2>4. Board!Bucket(k) \in SUBSET Int /\ IsFiniteSet(Board!Bucket(k))
    BY <1>1, <1>2, <2>3, BoardRecords, FS_Subset
  <2>5. \E x \in Board!Bucket(k) : \A y \in Board!Bucket(k) : y <= x
    BY <2>2, <2>4, Greatest
  <2>6. last(k) \in Board!Bucket(k)
    BY <2>5 DEF Board!LastSeen
  <2> QED BY <2>2, <2>4, <2>6 DEF Board!Bucket
<1>6. ASSUME NEW k \in G
      PROVE  /\ Board!Rank(k) = Cardinality(later(k)) /\ later(k) \subseteq G
             /\ k \in later(k) /\ IsFiniteSet(later(k))
             /\ Cardinality(later(k)) \in 1 .. Cardinality(G)
  <2>1. Board!Rank(k) = Cardinality(later(k))
    BY BoardCount DEF Board!Rank
  <2>2. later(k) \subseteq G /\ k \in later(k)
    BY <1>5
  <2> HIDE DEF later
  <2>3. /\ IsFiniteSet(later(k)) /\ Cardinality(later(k)) \in Nat
        /\ Cardinality(later(k)) <= Cardinality(G)
        /\ Cardinality(later(k)) # 0
    BY <1>4, <2>2, FS_Subset, FS_EmptySet, FS_CardinalityType
  <2> QED BY <1>4, <2>1, <2>2, <2>3
<1>7. ASSUME NEW k \in G, NEW l \in G, last(k) < last(l)
      PROVE  Board!Rank(l) < Board!Rank(k)
  <2>1. /\ later(l) \subseteq later(k) /\ k \in later(k) /\ k \notin later(l)
    BY <1>5, <1>7
  <2>2. later(l) # later(k)
    BY <2>1
  <2> HIDE DEF later
  <2>3. /\ Cardinality(later(l)) <= Cardinality(later(k))
        /\ Cardinality(later(l)) # Cardinality(later(k))
        /\ Cardinality(later(l)) \in Nat /\ Cardinality(later(k)) \in Nat
    BY <1>6, <2>1, <2>2, FS_Subset, FS_CardinalityType
  <2> QED BY <1>6, <2>3
<1>8. ASSUME NEW k \in G, NEW l \in G, Board!Rank(k) = Board!Rank(l)
      PROVE  k = l
  <2>1. last(k) = last(l)
    <3>1. last(k) \in Int /\ last(l) \in Int
      BY <1>5
    <3>2. ~(last(k) < last(l)) /\ ~(last(l) < last(k))
      <4> HIDE DEF later
      <4>1. \A x \in G : Board!Rank(x) \in 1 .. Cardinality(G)
        BY <1>6
      <4>2. Board!Rank(k) \in Int /\ Board!Rank(l) \in Int
        BY <1>4, <4>1
      <4> QED BY <1>7, <1>8, <4>2
    <3> QED BY <3>1, <3>2
  <2> QED BY <1>5, <2>1
<1> HIDE DEF later
<1> DEFINE N == Cardinality(G)
           f == [k \in G |-> Board!Rank(k)]
<1>9. \A k \in G : Board!Rank(k) \in 1 .. N
  BY <1>6
<1>10. f \in Injection(G, 1 .. N)
  BY <1>8, <1>9 DEF Injection, IsInjective
<1>11. IsFiniteSet(1 .. N) /\ Cardinality(1 .. N) = N
  BY <1>4, FS_Interval
<1>12. f \in Surjection(G, 1 .. N)
  BY <1>4, <1>10, <1>11, FS_Injection
<1>13. \A n \in 1 .. N : \E k \in G : Board!Rank(k) = n
  BY <1>12 DEF Surjection
<1>14. N \in 0 .. MaxRows
  BY <1>2, <1>4, Bounds
<1> QED BY <1>4, <1>5, <1>9, <1>13, <1>14

LEMMA BoardPages ==
    ASSUME BoardTypes
    PROVE  /\ Board!TotalPages \in 0 .. MaxRows
           /\ Board!Groups # {} => Board!PagedGroups # {}
<1> DEFINE N == Cardinality(Board!Groups)
           T == Board!TotalPages
           p == Board!SafePage
<1>1. /\ N \in Nat /\ N <= MaxRows /\ MaxRows \in Nat
      /\ PageSize \in Nat \ {0} /\ view.page \in Nat \ {0}
      /\ Board!Groups # {} => N > 0
  <2>1. N \in 0 .. MaxRows /\ IsFiniteSet(Board!Groups)
    BY BoardGroups
  <2>2. MaxRows \in Nat /\ PageSize \in Nat \ {0}
    BY Bounds
  <2>3. Board!Groups # {} => N # 0
    BY <2>1, FS_EmptySet
  <2> QED BY <2>1, <2>2, <2>3 DEF BoardTypes
<1>2. T = (N + PageSize - 1) \div PageSize
  BY BoardCount DEF Board!TotalPages
<1>g. \A n \in 1 .. N : \E k \in Board!Groups : Board!Rank(k) = n
  BY BoardGroups
<1> HIDE DEF N, T
<1>3. /\ T \in Nat /\ T <= N /\ (N > 0 => T > 0)
      /\ \A q \in 1 .. T : /\ (q - 1) * PageSize + 1 \in 1 .. N
                           /\ (q - 1) * PageSize + 1 > (q - 1) * PageSize
                           /\ (q - 1) * PageSize + 1 <= q * PageSize
  <2>1. PagesFit((N + PageSize - 1) \div PageSize, N, PageSize)
    BY <1>1, PagesOf
  <2> QED BY <1>2, <2>1 DEF PagesFit
<1>4. ASSUME Board!Groups # {} PROVE Board!PagedGroups # {}
  <2>1. p \in 1 .. T
    BY <1>1, <1>3, <1>4 DEF Board!SafePage, T
  <2>2. PICK k \in Board!Groups : Board!Rank(k) = (p - 1) * PageSize + 1
    BY <1>3, <1>g, <2>1
  <2>3. Board!Bucket(k) # {}
    BY BoardGroups
  <2>4. /\ Board!Rank(k) > (p - 1) * PageSize
        /\ Board!Rank(k) <= p * PageSize
    BY <1>3, <2>1, <2>2
  <2>5. k \in Board!PagedGroups
    BY <2>3, <2>4 DEF Board!PagedGroups
  <2> QED BY <2>5
<1>5. T \in 0 .. MaxRows
  BY <1>1, <1>3
<1> QED BY <1>4, <1>5 DEF T

LEMMA BoardRowsStart == ASSUME Board!Init PROVE BoardRows
<1>1. PICK known \in SUBSET Agents, by \in Board!Groupings :
        /\ view = [records |-> {}, by |-> by, filter |-> None, page |-> 1,
                   expanded |-> {}, known |-> known, toasts |-> {},
                   snapshot |-> {}, of |-> None, diff |-> None,
                   payload |-> None, loading |-> FALSE, error |-> FALSE]
        /\ net = [rows |-> [i \in {} |-> None], ask |-> None, fetch |-> None,
                  toasted |-> {}, turns |-> 0]
  BY DEF Board!Init
<1>2. 1 \in 1 .. MaxRows /\ 0 \in 0 .. MaxRows /\ {} = 1 .. 0
  BY Bounds
<1>3. net.rows \in [view.records -> Board!LiveRequest]
  BY <1>1
<1>4. BoardTypes
  BY <1>1, <1>2, <1>3 DEF BoardTypes
<1> QED BY <1>1, <1>4 DEF BoardRows, BoardAsks, Board!SummaryIsTheBucket,
                          Board!SnapshotShown

\* The rows of the window that is asked for, when all there are fit.
LEMMA BoardSessionRows ==
    ASSUME BoardTypes, NEW a, BoardAsked(a)
    PROVE  LET rows == Board!SessionRows(Board!Least(a.bucket), a.end,
                                         a.key, a.by)
           IN  /\ rows \subseteq view.records
               /\ \A i \in rows : a.by = "session" =>
                                   Board!Row(i).session = a.key[2]
               /\ Cardinality(view.records) <= Window =>
                    \A i \in a.bucket :
                        (a.by = "session" => Board!Row(i).session = a.key[2])
                            => i \in rows
<1> DEFINE least == Board!Least(a.bucket)
           window == {i \in least .. a.end : a.by = "session" =>
                                             Board!Row(i).session = a.key[2]}
           rows == Board!SessionRows(least, a.end, a.key, a.by)
           n == Cardinality(view.records)
<1>1. /\ view.records = 1 .. n /\ n \in Nat /\ Window \in Nat
      /\ \A S \in SUBSET view.records :
           IsFiniteSet(S) /\ Cardinality(S) \in Nat /\ Cardinality(S) <= n
  <2>1. n \in 0 .. MaxRows /\ MaxRows \in Nat /\ Window \in Nat
    BY BoardRecords, Bounds
  <2> QED BY <2>1, BoardRecords
<1>2. least \in a.bucket /\ \A m \in a.bucket : least <= m
  <2>1. a.bucket \in SUBSET Int /\ IsFiniteSet(a.bucket) /\ a.bucket # {}
    BY BoardRecords DEF BoardAsked
  <2> QED BY <2>1, BoardLeast
<1> HIDE DEF least, n
<1>3. least \in 1 .. n /\ a.end \in 1 .. n /\ a.bucket \subseteq 1 .. a.end
  BY <1>1, <1>2 DEF BoardAsked
<1>4. /\ window \subseteq view.records
      /\ \A i \in window : a.by = "session" =>
                            Board!Row(i).session = a.key[2]
  BY <1>1, <1>3
<1>5. rows = {i \in window : Cardinality({j \in window : j <= i}) <= Window}
  BY BoardCount DEF Board!SessionRows
<1>6. ASSUME n <= Window, NEW i \in a.bucket,
             a.by = "session" => Board!Row(i).session = a.key[2]
      PROVE  i \in rows
  <2>1. i \in window
    BY <1>1, <1>2, <1>3, <1>6
  <2> HIDE DEF window
  <2>2. {j \in window : j <= i} \in SUBSET view.records
    BY <1>4
  <2>3. Cardinality({j \in window : j <= i}) <= Window
    BY <1>1, <1>6, <2>2
  <2> QED BY <1>5, <2>1, <2>3
<1> QED BY <1>4, <1>5, <1>6 DEF least, n

LEMMA BoardRowsKept == ASSUME BoardRows, Board!Next PROVE BoardRows'
<1>v. BoardTypes /\ BoardAsks /\ Board!SummaryIsTheBucket
  BY DEF BoardRows
<1>1. ASSUME Board!Arrive PROVE BoardRows'
  <2> DEFINE n == Cardinality(view.records)
  <2>1. PICK r \in Board!LiveRequest :
          LET i == n + 1
              new == {r.agent} \ (view.known \union {None})
          IN  /\ i \in 1 .. MaxRows
              /\ view' = [view EXCEPT !.records = view.records \union {i},
                                      !.known = view.known \union new,
                                      !.toasts = view.toasts \union new]
              /\ net' = [net EXCEPT !.rows = [j \in 1 .. i |->
                                        IF j = i THEN r ELSE net.rows[j]],
                                    !.toasted = net.toasted \union new]
    BY <1>1, BoardCount DEF Board!Arrive, Board!Ids
  <2>2. /\ n \in Nat /\ view.records = 1 .. n /\ MaxRows \in Nat
    BY <1>v, BoardRecords, Bounds
  <2> HIDE DEF n
  <2>3. /\ DOMAIN view' = DOMAIN view /\ DOMAIN net' = DOMAIN net
        /\ view'.records = view.records \union {n + 1} /\ n + 1 \in 1 .. MaxRows
        /\ UNCHANGED <<view.by, view.page, view.snapshot, view.of, net.ask>>
        /\ view'.known = view.known \union
                            ({r.agent} \ (view.known \union {None}))
        /\ view'.toasts \subseteq net'.toasted
        /\ net'.rows = [j \in 1 .. n + 1 |->
                            IF j = n + 1 THEN r ELSE net.rows[j]]
    BY <1>v, <2>1 DEF BoardTypes
  <2>4. /\ view'.records = 1 .. n + 1 /\ n + 1 \in 0 .. MaxRows
        /\ \A j \in 1 .. n : net'.rows[j] = net.rows[j] /\ j # n + 1
        /\ \A j \in 1 .. n + 1 : j \in 1 .. n \/ j = n + 1
    BY <2>2, <2>3
  <2>5. net'.rows \in [view'.records -> Board!LiveRequest]
    BY <1>v, <2>2, <2>3, <2>4 DEF BoardTypes
  <2>6. view'.known \subseteq Agents
    BY <1>v, <2>3 DEF BoardTypes, Board!LiveRequest
  <2>7. BoardTypes'
    BY <1>v, <2>3, <2>4, <2>5, <2>6 DEF BoardTypes
  <2>8. \A a : BoardAsked(a) => BoardAsked(a)'
    BY <2>3 DEF BoardAsked
  <2>9. BoardAsks'
    BY <1>v, <2>3, <2>8 DEF BoardAsks
  <2>10. Cardinality(DOMAIN net'.rows) <= Window
            => Cardinality(DOMAIN net.rows) <= Window
    <3>1. Cardinality(1 .. n) = n /\ Cardinality(1 .. n + 1) = n + 1
      BY <2>2, FS_Interval
    <3>2. DOMAIN net.rows = 1 .. n /\ DOMAIN net'.rows = 1 .. n + 1
      BY <1>v, <2>2, <2>4, <2>5 DEF BoardTypes
    <3> QED BY <2>2, <3>1, <3>2, Bounds
  <2>11. Board!SummaryIsTheBucket'
    <3>1. \A i \in 1 .. n : Board!Row(i)' = Board!Row(i)
      BY <2>4 DEF Board!Row
    <3>2. /\ view.of # None => view.of.bucket \subseteq 1 .. n
          /\ view.snapshot \subseteq 1 .. n
      BY <1>v, <2>2 DEF BoardAsks, BoardAsked, BoardTypes
    <3> QED BY <1>v, <2>3, <2>10, <3>1, <3>2, BoardCount
            DEF Board!SummaryIsTheBucket, Board!SnapshotShown,
                Board!RequestsShown
  <2> QED BY <2>7, <2>9, <2>11 DEF BoardRows
\* Any other step leaves the rows alone.
<1>2. ASSUME UNCHANGED <<view.records, net.rows>>, DOMAIN view' = DOMAIN view,
             DOMAIN net' = DOMAIN net, view'.by \in Board!Groupings,
             view'.page \in 1 .. MaxRows, view'.known = view.known,
             view'.toasts \subseteq net'.toasted,
             net'.ask \in {net.ask, None} \/ BoardAsked(net'.ask),
             \/ view'.of = view.of /\ view'.snapshot = view.snapshot
             \/ view'.of = None /\ view'.snapshot = {}
      PROVE  BoardRows'
  <2>1. BoardTypes'
    BY <1>v, <1>2 DEF BoardTypes
  <2>2. PICK a : a = net'.ask
    OBVIOUS
  <2>3. PICK o : o = view'.of
    OBVIOUS
  <2>4. /\ BoardAsked(a)' <=> BoardAsked(a)
        /\ BoardAsked(o)' <=> BoardAsked(o)
    BY <1>2 DEF BoardAsked
  <2>5. BoardAsks'
    BY <1>v, <1>2, <2>2, <2>3, <2>4 DEF BoardAsks
  <2>6. Board!SummaryIsTheBucket'
    BY <1>v, <1>2 DEF Board!SummaryIsTheBucket, Board!SnapshotShown,
                      Board!RequestsShown, Board!Row
  <2> QED BY <2>1, <2>5, <2>6 DEF BoardRows
<1>3. ASSUME Board!ToastFades PROVE BoardRows'
  <2>1. UNCHANGED net /\ \E a \in view.toasts :
            view' = [view EXCEPT !.toasts = view.toasts \ {a}]
    BY <1>3 DEF Board!ToastFades
  <2>2. view'.toasts \subseteq net'.toasted
    BY <1>v, <2>1 DEF BoardTypes
  <2> QED BY <1>v, <1>2, <2>1, <2>2 DEF BoardTypes
<1>4. ASSUME Board!Regroup \/ Board!TypeFilter PROVE BoardRows'
  <2>1. CASE Board!Regroup
    <3>1. /\ net' = [net EXCEPT !.turns = net.turns + 1]
          /\ \E by \in Board!Groupings :
               view' = [view EXCEPT !.by = by, !.page = 1]
      BY <2>1 DEF Board!Regroup, Board!Turned
    <3>2. 1 \in 1 .. MaxRows
      BY Bounds
    <3> QED BY <1>v, <1>2, <3>1, <3>2 DEF BoardTypes
  <2>2. CASE Board!TypeFilter
    <3>1. /\ net' = [net EXCEPT !.turns = net.turns + 1]
          /\ \E f : view' = [view EXCEPT !.filter = f]
      BY <2>2 DEF Board!TypeFilter, Board!Turned
    <3> QED BY <1>v, <1>2, <3>1 DEF BoardTypes
  <2> QED BY <1>4, <2>1, <2>2
<1>5. ASSUME Board!ChangePage PROVE BoardRows'
  <2>1. /\ net' = [net EXCEPT !.turns = net.turns + 1]
        /\ \E p \in 1 .. Board!TotalPages : view' = [view EXCEPT !.page = p]
    BY <1>5 DEF Board!ChangePage, Board!Turned, Board!PagesOffered
  <2>2. 1 .. Board!TotalPages \subseteq 1 .. MaxRows
    <3>1. Board!TotalPages \in 0 .. MaxRows /\ MaxRows \in Nat
      BY <1>v, BoardPages, Bounds
    <3> QED BY <3>1
  <2> QED BY <1>v, <1>2, <2>1, <2>2 DEF BoardTypes
<1>6. ASSUME Board!Toggle PROVE BoardRows'
  <2>1. /\ net' = [net EXCEPT !.turns = net.turns + 1]
        /\ \E e : view' = [view EXCEPT !.expanded = e]
    BY <1>6 DEF Board!Toggle, Board!Turned
  <2> QED BY <1>v, <1>2, <2>1 DEF BoardTypes
<1>7. ASSUME Board!SnapshotGroup PROVE BoardRows'
  <2>1. PICK k \in Board!PagedGroups :
          /\ UNCHANGED view
          /\ net' = [net EXCEPT !.turns = net.turns + 1,
                    !.ask = [key |-> k, bucket |-> Board!Bucket(k),
                            by |-> view.by, end |-> Cardinality(view.records)]]
    BY <1>7, BoardCount DEF Board!SnapshotGroup, Board!Turned
  <2>2. Board!Bucket(k) # {} /\ Board!Bucket(k) \subseteq view.records
    BY <2>1 DEF Board!PagedGroups, Board!Bucket, Board!Filtered
  <2>3. view.records = 1 .. Cardinality(view.records)
        /\ Cardinality(view.records) \in Nat
    BY <1>v, BoardRecords, Bounds
  <2>4. Cardinality(view.records) \in view.records
    BY <2>2, <2>3
  <2>5. net'.ask = [key |-> k, bucket |-> Board!Bucket(k),
                   by |-> view.by, end |-> Cardinality(view.records)]
        /\ DOMAIN net' = DOMAIN net
        /\ UNCHANGED <<net.rows, net.toasted>>
    BY <1>v, <2>1 DEF BoardTypes
  <2>6. view.by \in Board!Groupings
    BY <1>v DEF BoardTypes
  <2>7. BoardAsked(net'.ask)
    BY <2>2, <2>3, <2>4, <2>5, <2>6 DEF BoardAsked
  <2> QED BY <1>v, <1>2, <2>1, <2>5, <2>7 DEF BoardTypes
<1>8. ASSUME Board!SnapshotAnswered PROVE BoardRows'
  <2> DEFINE a == net.ask
             rows == Board!SessionRows(Board!Least(a.bucket), a.end,
                                       a.key, a.by)
             shown == IF a.by = "session" THEN rows ELSE rows \intersect a.bucket
  <2>1. /\ a # None /\ net' = [net EXCEPT !.ask = None]
        /\ view' = [view EXCEPT !.of = a, !.snapshot = shown]
    BY <1>8 DEF Board!SnapshotAnswered, Board!Reduced
  <2>2. BoardAsked(a)
    BY <1>v, <2>1 DEF BoardAsks
  <2>3. /\ rows \subseteq view.records
        /\ \A i \in rows : a.by = "session" =>
                            Board!Row(i).session = a.key[2]
        /\ Cardinality(view.records) <= Window =>
             \A i \in a.bucket :
                (a.by = "session" => Board!Row(i).session = a.key[2])
                    => i \in rows
    BY <1>v, <2>2, BoardSessionRows
  <2> HIDE DEF rows
  <2>4. /\ view'.of = net.ask /\ view'.snapshot = shown
        /\ DOMAIN view' = DOMAIN view
        /\ DOMAIN net' = DOMAIN net /\ net'.ask = None
        /\ UNCHANGED <<view.records, view.by, view.page, view.known, view.toasts,
                       net.rows, net.toasted>>
    BY <1>v, <2>1 DEF BoardTypes
  <2>5. BoardTypes'
    BY <1>v, <2>3, <2>4 DEF BoardTypes
  <2>6. BoardAsks'
    <3>1. PICK o : o = net.ask
      OBVIOUS
    <3>2. BoardAsked(o)'
      BY <2>2, <2>4, <3>1 DEF BoardAsked
    <3> QED BY <2>4, <3>1, <3>2 DEF BoardAsks
  <2>7. Board!SummaryIsTheBucket'
    <3>1. DOMAIN net'.rows = view.records
      BY <1>v, <2>4 DEF BoardTypes
    <3>2. \A i : Board!Row(i)' = Board!Row(i)
      BY <2>4 DEF Board!Row
    <3>3. Board!Cardinality(DOMAIN net'.rows) <= Window
            => Cardinality(view.records) <= Window
      BY <3>1, BoardCount
    <3> QED BY <2>3, <2>4, <3>2, <3>3
            DEF Board!SummaryIsTheBucket, Board!RequestsShown
  <2> QED BY <2>5, <2>6, <2>7 DEF BoardRows
<1>9. ASSUME Board!CloseSnapshot PROVE BoardRows'
  <2>1. UNCHANGED net /\ view' = [view EXCEPT !.of = None, !.snapshot = {}]
    BY <1>9 DEF Board!CloseSnapshot
  <2> QED BY <1>v, <1>2, <2>1 DEF BoardTypes
<1>10. ASSUME Board!OpenDiff \/ Board!PayloadArrives \/ Board!CloseDiff
       PROVE  BoardRows'
  <2>1. /\ UNCHANGED <<view.records, view.by, view.page, view.known,
                       view.toasts, view.of, view.snapshot,
                       net.rows, net.ask, net.toasted>>
        /\ DOMAIN view' = DOMAIN view /\ DOMAIN net' = DOMAIN net
    <3>1. CASE Board!OpenDiff
      BY <1>v, <3>1 DEF Board!OpenDiff, Board!Turned, BoardTypes
    <3>2. CASE Board!PayloadArrives
      BY <1>v, <3>2 DEF Board!PayloadArrives, BoardTypes
    <3>3. CASE Board!CloseDiff
      BY <1>v, <3>3 DEF Board!CloseDiff, BoardTypes
    <3> QED BY <1>10, <3>1, <3>2, <3>3
  <2> QED BY <1>v, <1>2, <2>1 DEF BoardTypes
<1> QED BY <1>1, <1>3, <1>4, <1>5, <1>6, <1>7, <1>8, <1>9, <1>10
        DEF Board!Next

LEMMA BoardRowsStutter ==
    ASSUME BoardRows, UNCHANGED <<view, net>> PROVE BoardRows'
<1>1. BoardTypes' /\ Board!SummaryIsTheBucket'
  BY DEF BoardRows, BoardTypes, Board!SummaryIsTheBucket,
         Board!SnapshotShown, Board!RequestsShown, Board!Row
<1>2. BoardAsks'
  BY DEF BoardRows, BoardAsks, BoardAsked
<1> QED BY <1>1, <1>2 DEF BoardRows

LEMMA BoardRowsShow ==
    ASSUME BoardRows
    PROVE  /\ Board!TypeOK /\ Board!EveryRowCountedOnce
           /\ Board!SummaryIsTheBucket
<1>1. BoardTypes
  BY DEF BoardRows
<1>2. view.records \subseteq Board!Ids
  <2>1. PICK n \in 0 .. MaxRows : view.records = 1 .. n
    BY <1>1 DEF BoardTypes
  <2>2. MaxRows \in Nat
    BY Bounds
  <2> QED BY <2>1, <2>2 DEF Board!Ids
<1>3. Board!TypeOK
  BY <1>1, <1>2 DEF BoardTypes, Board!TypeOK
<1>4. Board!EveryRowCountedOnce
  <2>1. UNION {Board!Bucket(k) : k \in Board!Groups} = Board!Filtered
    BY DEF Board!Bucket, Board!Groups
  <2>2. \A k, l \in Board!Groups :
            k # l => Board!Bucket(k) \intersect Board!Bucket(l) = {}
    BY DEF Board!Bucket
  <2> QED BY <1>1, <2>1, <2>2, BoardPages DEF Board!EveryRowCountedOnce
<1> QED BY <1>3, <1>4 DEF BoardRows

-----------------------------------------------------------------------------
(* LogConsole: stamps never fall, so what a poll brings comes after all    *)
(* that was sent, and the rows sent are among those the stream has reached.*)

Rising(s) == \A m, n \in 1 .. Len(s) : m < n => s[m] < s[n]
Falling(s) == \A m, n \in 1 .. Len(s) : m < n => s[m] > s[n]

ConsolePoll == [on : BOOLEAN, rows : Seq(Console!Row)]
Logged == 1 .. Len(net.at)
Reached == {r \in Logged : net.at[r] <= net.last}
Sent == view.received + net.uncounted + Len(net.wire)

ConsoleView ==
    /\ DOMAIN view = {"logs", "connected", "paused", "levels", "received",
                      "filtered"}
    /\ view.logs \in Seq(Console!Row) /\ Len(view.logs) <= LogCap
    /\ view.levels \subseteq Levels
    /\ view.received \in Nat /\ view.filtered = view.received

ConsoleNet ==
    /\ DOMAIN net = {"at", "level", "up", "last", "polls", "wire", "lives",
                     "crossed", "skipped", "turns", "dropped", "uncounted"}
    /\ net.at \in Seq(Console!Row)
    /\ net.up \in BOOLEAN /\ net.last \in 0 .. LogRows
    /\ net.polls \in [Console!PollIds -> ConsolePoll]
    /\ net.wire \in Seq(Console!Row) /\ net.lives \in Nat
    /\ net.crossed \in BOOLEAN /\ net.skipped \subseteq Console!Row
    /\ net.turns \in 0 .. LogTurns /\ net.uncounted \in Nat

ConsoleStamps ==
    /\ Len(net.at) <= LogRows
    /\ \A n \in Logged : net.at[n] \in 1 .. n
    /\ \A m, n \in Logged : m <= n => net.at[m] <= net.at[n]

\* Only rows that were logged are on their way, and none without a connection.
ConsoleWays ==
    /\ In(view.logs) \subseteq Logged /\ In(net.wire) \subseteq Logged
    /\ \A i \in Console!PollIds :
        LET p == net.polls[i] IN
        /\ In(p.rows) \subseteq Logged
        /\ p.on = TRUE => p.rows # <<>> /\ net.up = TRUE
    /\ net.up = FALSE => net.wire = <<>>
    /\ net.lives = 0 => /\ net.up = FALSE /\ view.logs = <<>>
                        /\ view.received = 0 /\ net.uncounted = 0

\* A poll without overlap has the oldest rows the stream has not reached.
ConsolePolls ==
    net.crossed = FALSE => \A i \in Console!PollIds :
        LET rows == net.polls[i].rows IN
        net.polls[i].on = TRUE =>
            /\ \A j \in Console!PollIds : net.polls[j].on = TRUE => j = i
            /\ Rising(rows) /\ \A r \in In(rows) : net.at[r] > net.last
            /\ \A r \in Logged : net.at[r] > net.last /\ r <= rows[Len(rows)]
                                    => r \in In(rows)

ConsoleOrder ==
    net.lives <= 1 /\ net.crossed = FALSE =>
        /\ Falling(view.logs) /\ Rising(net.wire)
        /\ \A x \in In(view.logs), y \in In(net.wire) : x < y
        /\ net.up = TRUE =>
             \A x \in In(view.logs) \union In(net.wire) : net.at[x] <= net.last
        /\ Sent <= IF net.up THEN Cardinality(Reached) ELSE Len(net.at)

ConsoleSkips ==
    net.crossed = FALSE /\ net.up = TRUE => \A r \in Logged :
        \/ net.at[r] > net.last
        \/ r \in net.skipped \union net.dropped \union In(net.wire)
                    \union In(view.logs)

ConsoleInv == /\ ConsoleView /\ ConsoleNet /\ ConsoleStamps /\ ConsoleWays
              /\ ConsolePolls /\ ConsoleOrder /\ ConsoleSkips

LEMMA ConsoleOperators ==
    /\ \A S : Console!Cardinality(S) = Cardinality(S)
    /\ \A S : Console!Ascending(S) = Ascending(S)
    /\ \A s : Console!Reverse(s) = Backwards(s)
    /\ \A s : Console!Last(s) = s[Len(s)]
    /\ \A S, n : \A s \in Seq(S) : n \in Int => Console!UpTo(n, s) = CutAt(s, 1, n)
    /\ \A S : \A s \in Seq(S) : Console!Range(s) = In(s)
<1>1. \A S : Console!Cardinality(S) = Cardinality(S)
  BY DEF Console!Cardinality, Cardinality, Console!IsFiniteSet, IsFiniteSet
<1>2. \A S, n : Console!Nth(S, n) = Nth(S, n)
  BY <1>1 DEF Console!Nth, Nth
<1>3. \A S : Console!Ascending(S) = Ascending(S)
  BY <1>1, <1>2 DEF Console!Ascending, Ascending
<1>4. \A s : Console!Reverse(s) = Backwards(s)
  BY DEF Console!Reverse, Backwards
<1>5. \A s : Console!Last(s) = s[Len(s)]
  BY DEF Console!Last
<1>6. \A S, n : \A s \in Seq(S) : n \in Int => Console!UpTo(n, s) = CutAt(s, 1, n)
  <2> SUFFICES ASSUME NEW S, NEW n \in Int, NEW s \in Seq(S)
               PROVE  Console!UpTo(n, s) = CutAt(s, 1, n)
    OBVIOUS
  <2>1. (IF Len(s) < n THEN Len(s) ELSE n) = (IF n < Len(s) THEN n ELSE Len(s))
    BY LenProperties
  <2> QED BY <2>1 DEF Console!UpTo, CutAt
<1>7. \A S : \A s \in Seq(S) : Console!Range(s) = In(s)
  BY LenProperties DEF Console!Range, In
<1> QED BY <1>1, <1>3, <1>4, <1>5, <1>6, <1>7

LEMMA ConsoleRowType ==
    /\ Console!Row \in SUBSET Int /\ IsFiniteSet(Console!Row)
    /\ Console!NoPoll \in ConsolePoll /\ Console!NoPoll.on = FALSE
    /\ Console!NoPoll.rows = <<>>
    /\ In(<<>>) = {} /\ Len(<<>>) = 0 /\ <<>> \in Seq(Console!Row)
    /\ Rising(<<>>) /\ Falling(<<>>)
<1>1. IsFiniteSet(Console!Row) /\ Console!Row \in SUBSET Int
  BY FS_Interval, Bounds DEF Console!Row
<1>2. <<>> \in Seq(Console!Row) /\ Len(<<>>) = 0
  BY EmptySeq
<1> QED BY <1>1, <1>2 DEF Console!NoPoll, ConsolePoll, In, Rising, Falling

\* What there is to know of the numbers of a state.
LEMMA ConsoleNumbers ==
    ASSUME ConsoleInv
    PROVE  /\ LogRows \in Nat /\ LogTurns \in Nat /\ LogCap \in Nat
           /\ Take \in Nat \ {0}
           /\ Len(net.at) \in Nat /\ Len(net.wire) \in Nat
           /\ Len(view.logs) \in Nat /\ net.last \in Nat
           /\ Logged \subseteq Console!Row /\ DOMAIN net.at = Logged
           /\ \A r \in Logged : r \in Nat /\ net.at[r] \in Nat
                                /\ net.at[r] \in 0 .. LogRows
           /\ IsFiniteSet(Logged) /\ Cardinality(Logged) = Len(net.at)
           /\ IsFiniteSet(Reached) /\ Cardinality(Reached) \in Nat
           /\ Cardinality(Reached) <= Len(net.at)
<1>1. LogRows \in Nat /\ LogTurns \in Nat /\ LogCap \in Nat /\ Take \in Nat \ {0}
  BY Bounds
<1>2. /\ Len(net.at) \in Nat /\ Len(net.wire) \in Nat /\ Len(view.logs) \in Nat
      /\ DOMAIN net.at = Logged
  BY LenProperties DEF ConsoleInv, ConsoleView, ConsoleNet, Logged
<1>3. net.last \in Nat /\ Len(net.at) <= LogRows
  BY <1>1 DEF ConsoleInv, ConsoleNet, ConsoleStamps
<1>4. Logged \subseteq Console!Row
  BY <1>1, <1>2, <1>3 DEF Logged, Console!Row
<1>5. \A r \in Logged : r \in Nat /\ net.at[r] \in 1 .. r /\ r <= LogRows
  BY <1>1, <1>2, <1>3 DEF ConsoleInv, ConsoleStamps, Logged
<1>6. \A r \in Logged : r \in Nat /\ net.at[r] \in Nat /\ net.at[r] \in 0 .. LogRows
  BY <1>1, <1>5
<1>7. \A n \in Nat : IsFiniteSet(1 .. n) /\ Cardinality(1 .. n) = n
  BY FS_Interval
<1>8. IsFiniteSet(Logged) /\ Cardinality(Logged) = Len(net.at)
  BY <1>2, <1>7 DEF Logged
<1>9. IsFiniteSet(Reached) /\ Cardinality(Reached) <= Cardinality(Logged)
  BY <1>8, FS_Subset DEF Reached
<1> QED BY <1>1, <1>2, <1>3, <1>4, <1>6, <1>8, <1>9, FS_CardinalityType

\* A query takes the oldest rows, and some when there are any.
LEMMA OldestFacts ==
    ASSUME NEW S \in SUBSET Console!Row, S # {}
    PROVE  LET s == Console!Oldest(S) IN
           /\ s \in Seq(Console!Row) /\ s # <<>> /\ Rising(s)
           /\ In(s) \subseteq S
           /\ \A r \in S : r <= s[Len(s)] => r \in In(s)
<1> DEFINE a == Ascending(S)
           s == CutAt(a, 1, Take)
<1>1. S \in SUBSET Int /\ IsFiniteSet(S) /\ Take \in Nat \ {0}
  BY ConsoleRowType, FS_Subset, Bounds
<1>2. /\ a \in Seq(S) /\ Len(a) = Cardinality(S)
      /\ \A m, n \in DOMAIN a : m < n => a[m] < a[n]
      /\ \A x \in S : \E n \in DOMAIN a : a[n] = x
      /\ DOMAIN a = 1 .. Len(a) /\ Len(a) \in Nat
      /\ \A n \in 1 .. Len(a) : a[n] \in S
  BY <1>1, AscendingFacts, LenProperties, ElementOfSeq
<1>3. Len(a) # 0
  BY <1>1, <1>2, FS_EmptySet
<1>4. Console!Oldest(S) = s
  BY <1>1, <1>2, ConsoleOperators DEF Console!Oldest
<1> HIDE DEF a
<1>5. /\ s \in Seq(S) /\ Len(s) \in Nat /\ Len(s) <= Len(a)
      /\ Take >= Len(a) => Len(s) = Len(a)
      /\ Take <= Len(a) => Len(s) = Take
      /\ \A i \in 1 .. Len(s) : 1 + i - 1 \in 1 .. Len(a) /\ s[i] = a[1 + i - 1]
  BY <1>1, <1>2, CutFacts
<1>6. Len(s) >= 1
  BY <1>1, <1>2, <1>3, <1>5
<1> HIDE DEF s
<1>7. \A i \in 1 .. Len(s) : i \in 1 .. Len(a) /\ s[i] = a[i]
  BY <1>5
<1>8. s \in Seq(Console!Row) /\ s # <<>>
  <2>1. S \subseteq Console!Row /\ s \in Seq(S)
    BY <1>5
  <2>2. s \in Seq(Console!Row)
    BY <2>1, SeqMonotonic
  <2>3. Len(s) # 0
    BY <1>5, <1>6
  <2> QED BY <2>2, <2>3, ConsoleRowType
<1>9. Rising(s)
  BY <1>2, <1>7 DEF Rising
<1>10. In(s) \subseteq S
  BY <1>2, <1>7 DEF In
<1>11. ASSUME NEW r \in S, r <= s[Len(s)] PROVE r \in In(s)
  <2>1. PICK n \in 1 .. Len(a) : a[n] = r
    BY <1>2
  <2>2. CASE n <= Len(s)
    BY <1>5, <1>7, <2>1, <2>2 DEF In
  <2>3. CASE n > Len(s)
    <3>1. Len(s) \in 1 .. Len(s) /\ Len(s) \in 1 .. Len(a)
      BY <1>5, <1>6
    <3>2. a[Len(s)] < a[n] /\ s[Len(s)] = a[Len(s)]
      BY <1>2, <1>7, <2>1, <2>3, <3>1
    <3>3. a[Len(s)] \in Int /\ a[n] \in Int
      BY <1>1, <1>2, <2>1, <3>1
    <3> QED BY <1>11, <2>1, <3>2, <3>3
  <2> QED BY <1>5, <2>1, <2>2, <2>3
<1> QED BY <1>4, <1>8, <1>9, <1>10, <1>11

LEMMA ConsoleStart == ASSUME Console!Init PROVE ConsoleInv
<1>1. PICK level \in [Console!Row -> Levels] :
        /\ view = [logs |-> <<>>, connected |-> FALSE, paused |-> FALSE,
                   levels |-> Levels, received |-> 0, filtered |-> 0]
        /\ net = [at |-> <<>>, level |-> level, up |-> FALSE, last |-> 0,
               polls |-> [i \in Console!PollIds |-> Console!NoPoll],
               wire |-> <<>>,
               lives |-> 0, crossed |-> FALSE, skipped |-> {}, turns |-> 0,
               dropped |-> {}, uncounted |-> 0]
  BY DEF Console!Init
<1>2. /\ LogCap \in Nat /\ LogRows \in Nat /\ 0 \in 0 .. LogRows
      /\ 0 \in 0 .. LogTurns
  BY Bounds
<1>3. /\ Len(view.logs) = 0 /\ Len(net.at) = 0 /\ Len(net.wire) = 0
      /\ In(view.logs) = {} /\ In(net.wire) = {} /\ Logged = {}
  BY <1>1, ConsoleRowType DEF Logged
<1>4. ConsoleView
  BY <1>1, <1>2, <1>3, ConsoleRowType DEF ConsoleView
<1>5. ConsoleNet
  BY <1>1, <1>2, ConsoleRowType DEF ConsoleNet
<1>6. ConsoleStamps
  BY <1>2, <1>3 DEF ConsoleStamps
<1>7. ConsoleWays /\ ConsolePolls /\ ConsoleSkips
  BY <1>1, <1>3, ConsoleRowType DEF ConsoleWays, ConsolePolls, ConsoleSkips
<1>8. ConsoleOrder
  <2>1. Sent <= Len(net.at)
    BY <1>1, <1>3 DEF Sent
  <2> QED BY <1>1, <1>3, <2>1, ConsoleRowType DEF ConsoleOrder
<1> QED BY <1>4, <1>5, <1>6, <1>7, <1>8 DEF ConsoleInv

\* A step that only takes queries back.
LEMMA ConsoleQuiet ==
    ASSUME ConsoleInv, DOMAIN view' = DOMAIN view, DOMAIN net' = DOMAIN net,
           UNCHANGED <<view.logs, view.received, view.filtered>>,
           view'.levels \subseteq Levels,
           UNCHANGED <<net.at, net.up, net.last, net.wire, net.lives,
                       net.crossed, net.skipped, net.dropped, net.uncounted>>,
           net'.turns \in 0 .. LogTurns,
           net'.polls \in [Console!PollIds -> ConsolePoll],
           \A i \in Console!PollIds :
                net'.polls[i] \in {net.polls[i], Console!NoPoll}
    PROVE  ConsoleInv'
<1>v. /\ ConsoleView /\ ConsoleNet /\ ConsoleStamps /\ ConsoleWays
      /\ ConsolePolls /\ ConsoleOrder /\ ConsoleSkips
  BY DEF ConsoleInv
<1>1. ConsoleView' /\ ConsoleNet'
  BY <1>v DEF ConsoleView, ConsoleNet
<1>2. ConsoleStamps' /\ ConsoleOrder' /\ ConsoleSkips'
  BY <1>v DEF ConsoleStamps, ConsoleOrder, ConsoleSkips, Logged, Reached, Sent
<1>3. ConsoleWays'
  BY <1>v, ConsoleRowType DEF ConsoleWays, Logged
<1>4. ConsolePolls'
  BY <1>v, ConsoleRowType DEF ConsolePolls, Logged
<1> QED BY <1>1, <1>2, <1>3, <1>4 DEF ConsoleInv

LEMMA ConsoleKeptLog == ASSUME ConsoleInv, Console!LogRow PROVE ConsoleInv'
<1>v. /\ ConsoleView /\ ConsoleNet /\ ConsoleStamps /\ ConsoleWays
      /\ ConsolePolls /\ ConsoleOrder /\ ConsoleSkips
  BY DEF ConsoleInv
<1> DEFINE n == Len(net.at)
<1> DEFINE Now(t) == IF net.at = <<>> THEN 1 ELSE net.at[Len(net.at)] + t
<1>0. PICK t \in {0, 1} :
        /\ net' = [net EXCEPT !.at = Append(net.at, Now(t)),
                    !.skipped = IF net.up /\ Now(t) <= net.last
                                THEN net.skipped \union {n + 1}
                                ELSE net.skipped]
        /\ n < LogRows /\ UNCHANGED view
  BY ConsoleOperators DEF Console!LogRow
<1> DEFINE now == Now(t)
<1>1. /\ now = (IF net.at = <<>> THEN 1 ELSE net.at[Len(net.at)] + t)
        /\ net' = [net EXCEPT !.at = Append(net.at, now),
                    !.skipped = IF net.up /\ now <= net.last
                                THEN net.skipped \union {n + 1}
                                ELSE net.skipped]
        /\ n < LogRows /\ UNCHANGED view
  BY <1>0
<1> HIDE DEF now
<1>2. /\ n \in Nat /\ LogRows \in Nat /\ net.last \in Nat /\ n < LogRows
      /\ DOMAIN net.at = 1 .. n /\ net.at \in Seq(Console!Row)
  BY <1>v, <1>1, ConsoleNumbers DEF Logged, ConsoleNet
<1>3. now \in 1 .. n + 1 /\ \A m \in 1 .. n : net.at[m] <= now
  <2>1. CASE net.at = <<>>
    <3>1. n = 0 /\ now = 1
      BY <1>1, <2>1
    <3> QED BY <3>1
  <2>2. CASE net.at # <<>>
    <3>1. n # 0
      BY <1>2, <2>2, EmptySeq
    <3>2. n \in 1 .. n
      BY <1>2, <3>1
    <3>3. net.at[n] \in 1 .. n /\ \A m \in 1 .. n : net.at[m] <= net.at[n]
      BY <1>v, <1>2, <3>2 DEF ConsoleStamps, Logged
    <3>4. now = net.at[n] + t
      BY <1>1, <2>2
    <3>5. \A m \in 1 .. n : net.at[m] \in 1 .. n
      <4>1. \A m \in 1 .. n : net.at[m] \in 1 .. m
        BY <1>v DEF ConsoleStamps, Logged
      <4> QED BY <1>2, <4>1
    <3> QED BY <1>1, <1>2, <3>3, <3>4, <3>5
  <2> QED BY <2>1, <2>2
<1>4. /\ net'.at = Append(net.at, now) /\ DOMAIN net' = DOMAIN net
      /\ net'.skipped = IF net.up /\ now <= net.last
                        THEN net.skipped \union {n + 1} ELSE net.skipped
      /\ UNCHANGED <<net.up, net.last, net.wire, net.lives, net.polls,
                     net.crossed, net.turns, net.dropped, net.uncounted>>
  BY <1>v, <1>1 DEF ConsoleNet
<1> HIDE DEF n
<1>5. now \in Console!Row /\ n + 1 \in Console!Row
  BY <1>2, <1>3 DEF Console!Row
<1>6. /\ net'.at \in Seq(Console!Row) /\ Len(net'.at) = n + 1
      /\ \A m \in 1 .. n : net'.at[m] = net.at[m]
      /\ net'.at[n + 1] = now
  BY <1>2, <1>4, <1>5, AppendProperties DEF n
<1>7. /\ Logged = 1 .. n /\ Logged' = 1 .. n + 1
      /\ Logged' = Logged \union {n + 1} /\ n + 1 \notin Logged
      /\ \A m \in Logged : m \in Nat /\ m < n + 1 /\ net'.at[m] = net.at[m]
  BY <1>2, <1>6 DEF Logged, n
<1>8. ConsoleView' /\ ConsoleNet'
  <2>1. net'.skipped \subseteq Console!Row
    BY <1>v, <1>4, <1>5 DEF ConsoleNet
  <2> QED BY <1>v, <1>1, <1>4, <1>6, <2>1 DEF ConsoleView, ConsoleNet
<1>9. ConsoleStamps'
  <2>1. Len(net'.at) <= LogRows
    BY <1>2, <1>6
  <2>2. \A m \in Logged' : net'.at[m] \in 1 .. m
    BY <1>v, <1>3, <1>6, <1>7 DEF ConsoleStamps
  <2>3. ASSUME NEW k \in Logged', NEW m \in Logged', k <= m
        PROVE  net'.at[k] <= net'.at[m]
    <3>1. CASE k \in Logged /\ m \in Logged
      BY <1>v, <1>7, <2>3, <3>1 DEF ConsoleStamps
    <3>2. CASE k \in Logged /\ m = n + 1
      BY <1>3, <1>6, <1>7, <3>2
    <3>3. CASE k = n + 1 /\ m = n + 1
      BY <1>3, <1>6, <3>3
    <3>4. CASE k = n + 1 /\ m \in Logged
      BY <1>2, <1>7, <2>3, <3>4
    <3> QED BY <1>7, <2>3, <3>1, <3>2, <3>3, <3>4
  <2> QED BY <2>1, <2>2, <2>3 DEF ConsoleStamps
<1>10. ConsoleWays'
  BY <1>v, <1>1, <1>4, <1>7 DEF ConsoleWays
<1>11. ConsolePolls'
  <2> SUFFICES ASSUME net.crossed = FALSE, NEW i \in Console!PollIds,
                      net.polls[i].on = TRUE
               PROVE  LET rows == net.polls[i].rows IN
            /\ \A j \in Console!PollIds : net.polls[j].on = TRUE => j = i
            /\ Rising(rows) /\ \A r \in In(rows) : net'.at[r] > net.last
            /\ \A r \in Logged' : net'.at[r] > net.last /\ r <= rows[Len(rows)]
                                    => r \in In(rows)
    BY <1>4 DEF ConsolePolls
  <2> DEFINE rows == net.polls[i].rows
  <2>1. /\ \A j \in Console!PollIds : net.polls[j].on = TRUE => j = i
        /\ Rising(rows) /\ \A r \in In(rows) : net.at[r] > net.last
        /\ \A r \in Logged : net.at[r] > net.last /\ r <= rows[Len(rows)]
                                    => r \in In(rows)
        /\ rows # <<>> /\ rows \in Seq(Console!Row) /\ In(rows) \subseteq Logged
    BY <1>v DEF ConsolePolls, ConsoleWays, ConsoleNet, ConsolePoll
  <2> HIDE DEF rows
  <2>2. rows[Len(rows)] \in In(rows)
    <3>1. Len(rows) \in 1 .. Len(rows)
      BY <2>1, EmptySeq
    <3> QED BY <3>1 DEF In
  <2>3. ~(n + 1 <= rows[Len(rows)])
    BY <1>2, <1>7, <2>1, <2>2
  <2>4. \A r \in Logged' : net'.at[r] > net.last /\ r <= rows[Len(rows)]
                                    => r \in In(rows)
    BY <1>7, <2>1, <2>3
  <2>5. \A r \in In(rows) : net'.at[r] > net.last
    BY <1>7, <2>1
  <2> QED BY <2>1, <2>4, <2>5 DEF rows
<1>12. ConsoleOrder'
  <2> SUFFICES ASSUME net.lives <= 1, net.crossed = FALSE
               PROVE  ConsoleOrder'
    BY <1>4 DEF ConsoleOrder
  <2>1. /\ Falling(view.logs) /\ Rising(net.wire)
        /\ \A x \in In(view.logs), y \in In(net.wire) : x < y
        /\ net.up = TRUE =>
             \A x \in In(view.logs) \union In(net.wire) : net.at[x] <= net.last
        /\ Sent <= IF net.up THEN Cardinality(Reached) ELSE n
    BY <1>v DEF ConsoleOrder, n
  <2>2. net.up = TRUE => \A x \in In(view.logs) \union In(net.wire) :
                            net'.at[x] <= net.last
    BY <1>v, <1>7, <2>1 DEF ConsoleWays
  <2>3. Sent' = Sent /\ Sent \in Nat
    <3>1. Len(net.wire) \in Nat
      BY ConsoleNumbers
    <3> QED BY <1>v, <1>1, <1>4, <3>1 DEF Sent, ConsoleView, ConsoleNet
  <2>4. /\ IsFiniteSet(Reached') /\ Reached \subseteq Reached'
        /\ Cardinality(Reached) \in Nat
    <3>1. IsFiniteSet(1 .. n + 1)
      BY <1>2, FS_Interval
    <3>2. IsFiniteSet(Reached')
      BY <1>7, <3>1, FS_Subset DEF Reached
    <3>3. Reached \subseteq Reached'
      BY <1>4, <1>7 DEF Reached
    <3> QED BY <3>2, <3>3, ConsoleNumbers
  <2>5. Cardinality(Reached) <= Cardinality(Reached') /\ Cardinality(Reached') \in Nat
    BY <2>4, FS_Subset, FS_CardinalityType
  <2>6. Sent' <= IF net.up THEN Cardinality(Reached') ELSE Len(net'.at)
    BY <1>2, <1>6, <2>1, <2>3, <2>4, <2>5
  <2> QED BY <1>1, <1>4, <2>1, <2>2, <2>6 DEF ConsoleOrder
<1>13. ConsoleSkips'
  <2>1. now <= net.last \/ now > net.last
    BY <1>2, <1>3
  <2>2. net.skipped \subseteq net'.skipped
        /\ (net.up = TRUE /\ now <= net.last => n + 1 \in net'.skipped)
    BY <1>4
  <2>3. net'.at[n + 1] = now
    BY <1>6
  <2> QED BY <1>v, <1>1, <1>4, <1>7, <2>1, <2>2, <2>3 DEF ConsoleSkips
<1> QED BY <1>8, <1>9, <1>10, <1>11, <1>12, <1>13 DEF ConsoleInv

LEMMA ConsoleKeptConnect == ASSUME ConsoleInv, Console!Connect PROVE ConsoleInv'
<1>v. /\ ConsoleView /\ ConsoleNet /\ ConsoleStamps /\ ConsoleWays
      /\ ConsolePolls /\ ConsoleOrder /\ ConsoleSkips
  BY DEF ConsoleInv
<1>1. PICK from \in {0} \union Console!Range(net.at) :
        /\ net.up = FALSE
        /\ net' = [net EXCEPT !.up = TRUE, !.last = from,
                    !.lives = net.lives + 1, !.skipped = net.skipped \union
                        {r \in DOMAIN net.at : net.at[r] <= from}]
        /\ view' = [view EXCEPT !.connected = TRUE]
  BY <1>v DEF Console!Connect, ConsoleNet
<1>2. /\ LogRows \in Nat /\ DOMAIN net.at = Logged /\ Logged \subseteq Console!Row
      /\ \A r \in Logged : net.at[r] \in 0 .. LogRows
      /\ IsFiniteSet(Logged) /\ Cardinality(Reached) <= Len(net.at)
      /\ Len(net.at) \in Nat
  BY ConsoleNumbers
<1>3. from \in 0 .. LogRows
  <2>1. 0 \in 0 .. LogRows
    BY <1>2
  <2>2. Console!Range(net.at) \subseteq 0 .. LogRows
    <3>1. Console!Range(net.at) = In(net.at)
      BY <1>v, ConsoleOperators DEF ConsoleNet
    <3> QED BY <1>2, <3>1 DEF In, Logged
  <2> QED BY <1>1, <2>1, <2>2
<1>4. /\ DOMAIN net' = DOMAIN net /\ DOMAIN view' = DOMAIN view
      /\ net'.up = TRUE /\ net'.last = from /\ net'.lives = net.lives + 1
      /\ net'.skipped = net.skipped \union {r \in Logged : net.at[r] <= from}
      /\ UNCHANGED <<net.at, net.wire, net.polls, net.crossed, net.turns,
                     net.dropped, net.uncounted>>
      /\ UNCHANGED <<view.logs, view.levels, view.received, view.filtered>>
  BY <1>v, <1>1, <1>2 DEF ConsoleNet, ConsoleView
<1>5. ConsoleView' /\ ConsoleStamps'
  BY <1>v, <1>4 DEF ConsoleView, ConsoleStamps, Logged
<1>6. ConsoleNet'
  <2>1. net.lives + 1 \in Nat
    BY <1>v DEF ConsoleNet
  <2>2. net'.skipped \subseteq Console!Row
    BY <1>v, <1>2, <1>4 DEF ConsoleNet
  <2> QED BY <1>v, <1>3, <1>4, <2>1, <2>2 DEF ConsoleNet
<1>7. \A i \in Console!PollIds : net.polls[i].on # TRUE
  BY <1>v, <1>1 DEF ConsoleWays
<1>8. ConsolePolls'
  BY <1>4, <1>7 DEF ConsolePolls
<1>9. ConsoleWays'
  <2>1. net.lives + 1 # 0
    BY <1>v DEF ConsoleNet
  <2> QED BY <1>v, <1>4, <1>7, <2>1 DEF ConsoleWays, Logged
<1>10. ConsoleSkips'
  <2>1. \A r \in Logged : net.at[r] <= from \/ net.at[r] > from
    BY <1>2, <1>3
  <2>2. Logged' = Logged
    BY <1>4 DEF Logged
  <2> QED BY <1>4, <2>1, <2>2 DEF ConsoleSkips
\* Within the first connection nothing was sent before it.
<1>11. ConsoleOrder'
  <2> SUFFICES ASSUME net.lives + 1 <= 1 PROVE ConsoleOrder'
    BY <1>4 DEF ConsoleOrder
  <2>1. net.lives = 0
    BY <1>v DEF ConsoleNet
  <2>2. /\ view.logs = <<>> /\ net.wire = <<>> /\ view.received = 0
        /\ net.uncounted = 0
    BY <1>v, <1>1, <2>1 DEF ConsoleWays
  <2>3. IsFiniteSet(Reached') /\ Cardinality(Reached') \in Nat
    <3>1. Reached' \subseteq Logged
      BY <1>4 DEF Reached, Logged
    <3> QED BY <1>2, <3>1, FS_Subset, FS_CardinalityType
  <2>4. Sent' = 0
    BY <1>4, <2>2, ConsoleRowType DEF Sent
  <2>5. Sent' <= Cardinality(Reached')
    BY <2>3, <2>4
  <2> QED BY <1>4, <2>2, <2>5, ConsoleRowType DEF ConsoleOrder
<1> QED BY <1>5, <1>6, <1>8, <1>9, <1>10, <1>11 DEF ConsoleInv

LEMMA ConsoleKeptPoll ==
    ASSUME ConsoleInv, NEW i \in Console!PollIds, Console!Poll(i)
    PROVE  ConsoleInv'
<1>v. /\ ConsoleView /\ ConsoleNet /\ ConsoleStamps /\ ConsoleWays
      /\ ConsolePolls /\ ConsoleOrder /\ ConsoleSkips
  BY DEF ConsoleInv
<1> DEFINE overlaps == \E j \in Console!PollIds : net.polls[j].on = TRUE
           S == {r \in Logged : net.at[r] > net.last}
           rows == Console!Oldest(S)
<1>1. /\ net.up = TRUE /\ net.polls[i].on = FALSE /\ S # {} /\ UNCHANGED view
      /\ DOMAIN net' = DOMAIN net
      /\ net'.polls = [net.polls EXCEPT ![i] = [on |-> TRUE, rows |-> rows]]
      /\ UNCHANGED <<net.at, net.up, net.last, net.wire, net.lives,
                     net.skipped, net.dropped, net.uncounted>>
      /\ overlaps => net'.crossed = TRUE
      /\ ~overlaps => net'.crossed = net.crossed
      /\ net'.crossed \in BOOLEAN
      /\ net.crossed = TRUE => net'.crossed = TRUE
      /\ IF overlaps THEN net.turns < LogTurns /\ net'.turns = net.turns + 1
                     ELSE net'.turns = net.turns
  <2>1. Console!After(net.last) = S
    BY ConsoleNumbers DEF Console!After
  <2>2. (\E j \in Console!PollIds : net.polls[j].on) <=> overlaps
    BY <1>v DEF ConsoleNet, ConsolePoll
  <2>3. CASE overlaps
    BY <1>v, <2>1, <2>2, <2>3
       DEF Console!Poll, Console!Turned, Console!Turn, ConsoleNet, ConsolePoll
  <2>4. CASE ~overlaps
    BY <1>v, <2>1, <2>2, <2>4 DEF Console!Poll, ConsoleNet, ConsolePoll
  <2> QED BY <2>3, <2>4
<1>2. Logged \subseteq Console!Row /\ S \in SUBSET Console!Row
  BY ConsoleNumbers
<1>3. /\ rows \in Seq(Console!Row) /\ rows # <<>> /\ Rising(rows)
      /\ In(rows) \subseteq S
      /\ \A r \in S : r <= rows[Len(rows)] => r \in In(rows)
  BY <1>1, <1>2, OldestFacts
<1> HIDE DEF rows
<1>4. \A j \in Console!PollIds : net'.polls[j] =
        IF j = i THEN [on |-> TRUE, rows |-> rows] ELSE net.polls[j]
  BY <1>v, <1>1 DEF ConsoleNet
<1>5. ConsoleView' /\ ConsoleStamps'
  BY <1>v, <1>1 DEF ConsoleView, ConsoleStamps, Logged
<1>6. ConsoleNet'
  <2>1. net'.polls \in [Console!PollIds -> ConsolePoll]
    BY <1>v, <1>1, <1>3 DEF ConsoleNet, ConsolePoll
  <2>2. net'.turns \in 0 .. LogTurns
    <3>1. LogTurns \in Nat /\ net.turns \in 0 .. LogTurns
      BY <1>v, Bounds DEF ConsoleNet
    <3> QED BY <1>1, <3>1
  <2> QED BY <1>v, <1>1, <2>1, <2>2 DEF ConsoleNet
<1>7. ConsoleWays'
  BY <1>v, <1>1, <1>3, <1>4 DEF ConsoleWays, Logged
<1>8. ConsoleOrder' /\ ConsoleSkips'
  BY <1>v, <1>1 DEF ConsoleOrder, ConsoleSkips, Logged, Reached, Sent
<1>9. ConsolePolls'
  <2>1. CASE overlaps
    BY <1>1, <2>1 DEF ConsolePolls
  <2>2. CASE ~overlaps
    <3>1. \A j \in Console!PollIds : net'.polls[j].on = TRUE => j = i
      BY <1>4, <2>2
    <3>2. net'.polls[i].rows = rows
      BY <1>4
    <3>3. /\ \A r \in In(rows) : net.at[r] > net.last
          /\ \A r \in Logged : net.at[r] > net.last /\ r <= rows[Len(rows)]
                                    => r \in In(rows)
      BY <1>3
    <3> QED BY <1>1, <1>3, <3>1, <3>2, <3>3 DEF ConsolePolls, Logged
  <2> QED BY <2>1, <2>2
<1> QED BY <1>5, <1>6, <1>7, <1>8, <1>9 DEF ConsoleInv

LEMMA ConsoleKeptAnswer ==
    ASSUME ConsoleInv, NEW i \in Console!PollIds, Console!PollAnswered(i)
    PROVE  ConsoleInv'
<1>v. /\ ConsoleView /\ ConsoleNet /\ ConsoleStamps /\ ConsoleWays
      /\ ConsolePolls /\ ConsoleOrder /\ ConsoleSkips
  BY DEF ConsoleInv
<1> DEFINE rows == net.polls[i].rows
           end == rows[Len(rows)]
           last == net.at[end]
<1>1. /\ net.polls[i].on = TRUE /\ net.up = TRUE /\ UNCHANGED view
      /\ rows # <<>> /\ rows \in Seq(Console!Row) /\ In(rows) \subseteq Logged
  BY <1>v DEF Console!PollAnswered, ConsoleNet, ConsolePoll, ConsoleWays
<1>2. /\ DOMAIN net' = DOMAIN net
      /\ net'.polls = [net.polls EXCEPT ![i] = Console!NoPoll]
      /\ net'.last = last /\ net'.wire = net.wire \o rows
      /\ net'.skipped = net.skipped \union {r \in DOMAIN net.at :
                    net.at[r] = last /\ r \notin In(rows)}
      /\ UNCHANGED <<net.at, net.up, net.lives, net.crossed, net.turns,
                     net.dropped, net.uncounted>>
  <2>1. Console!Last(rows) = end /\ Console!Range(rows) = In(rows)
    BY <1>1, ConsoleOperators
  <2> QED BY <1>v, <2>1 DEF Console!PollAnswered, ConsoleNet
<1> HIDE DEF rows
<1>3. /\ Len(rows) \in Nat /\ Len(rows) \in 1 .. Len(rows)
      /\ end \in In(rows) /\ end \in Logged
  <2>1. Len(rows) \in Nat /\ Len(rows) # 0
    BY <1>1, EmptySeq, LenProperties
  <2>2. Len(rows) \in 1 .. Len(rows)
    BY <2>1
  <2>3. end \in In(rows)
    BY <2>2 DEF In
  <2> QED BY <1>1, <2>1, <2>2, <2>3
<1>4. /\ LogRows \in Nat /\ DOMAIN net.at = Logged
      /\ Logged \subseteq Console!Row /\ net.last \in Nat
      /\ \A r \in Logged : r \in Nat /\ net.at[r] \in Nat
                           /\ net.at[r] \in 0 .. LogRows
      /\ IsFiniteSet(Logged) /\ IsFiniteSet(Reached)
      /\ Cardinality(Reached) \in Nat /\ Len(net.wire) \in Nat
  BY ConsoleNumbers
<1>5. last \in 0 .. LogRows /\ last \in Nat
  BY <1>3, <1>4
<1> HIDE DEF last, end
<1>6. /\ net.wire \o rows \in Seq(Console!Row)
      /\ In(net.wire \o rows) = In(net.wire) \union In(rows)
      /\ Len(net.wire \o rows) = Len(net.wire) + Len(rows)
      /\ \A k \in 1 .. Len(net.wire) : (net.wire \o rows)[k] = net.wire[k]
      /\ \A k \in 1 .. Len(rows) :
            (net.wire \o rows)[Len(net.wire) + k] = rows[k]
  BY <1>v, <1>1, JoinFacts DEF ConsoleNet
<1>7. \A j \in Console!PollIds :
        net'.polls[j] = IF j = i THEN Console!NoPoll ELSE net.polls[j]
  BY <1>v, <1>2 DEF ConsoleNet
<1>8. ConsoleView' /\ ConsoleStamps'
  BY <1>v, <1>1, <1>2 DEF ConsoleView, ConsoleStamps, Logged
<1>9. ConsoleNet'
  <2>1. net'.polls \in [Console!PollIds -> ConsolePoll]
    BY <1>v, <1>2, ConsoleRowType DEF ConsoleNet
  <2>2. net'.skipped \subseteq Console!Row
    BY <1>v, <1>2, <1>4 DEF ConsoleNet
  <2> QED BY <1>v, <1>2, <1>5, <1>6, <2>1, <2>2 DEF ConsoleNet
<1>10. ConsoleWays'
  BY <1>v, <1>1, <1>2, <1>6, <1>7, ConsoleRowType DEF ConsoleWays, Logged
\* What the answer brings comes after what the stream had reached.
<1>11. CASE net.crossed = TRUE
  BY <1>2, <1>8, <1>9, <1>10, <1>11
     DEF ConsoleInv, ConsolePolls, ConsoleOrder, ConsoleSkips
<1>12. CASE net.crossed = FALSE
  <2>1. /\ \A j \in Console!PollIds : net.polls[j].on = TRUE => j = i
        /\ Rising(rows) /\ \A r \in In(rows) : net.at[r] > net.last
        /\ \A r \in Logged : net.at[r] > net.last /\ r <= end => r \in In(rows)
    BY <1>v, <1>1, <1>12 DEF ConsolePolls, rows, end
  <2>2. ConsolePolls'
    BY <1>7, <2>1, ConsoleRowType DEF ConsolePolls
  <2>3. \A k \in 1 .. Len(rows) : rows[k] \in Logged /\ rows[k] \in Nat
    BY <1>1, <1>4 DEF In
  <2>4. \A r \in In(rows) : net.at[r] <= last /\ r <= end
    <3> SUFFICES ASSUME NEW k \in 1 .. Len(rows)
                 PROVE  net.at[rows[k]] <= last /\ rows[k] <= end
      BY DEF In
    <3>1. k = Len(rows) \/ k < Len(rows)
      BY <1>3
    <3>2. rows[k] <= end
      <4>1. CASE k = Len(rows)
        BY <1>3, <2>3, <4>1 DEF end
      <4>2. CASE k < Len(rows)
        <5>1. rows[k] < end
          BY <1>3, <2>1, <4>2 DEF Rising, end
        <5> QED BY <1>3, <1>4, <2>3, <5>1
      <4> QED BY <3>1, <4>1, <4>2
    <3> QED BY <1>v, <1>3, <2>3, <3>2 DEF ConsoleStamps, last
  <2>5. net.last < last
    BY <1>3, <2>1 DEF last
  <2>6. \A x \in Logged : net.at[x] <= net.last => net.at[x] <= last
    BY <1>4, <1>5, <2>5
  <2>7. ConsoleSkips'
    <3> SUFFICES ASSUME NEW r \in Logged, ~(net.at[r] > last)
                 PROVE  r \in net'.skipped \union net'.dropped
                            \union In(net'.wire) \union In(view'.logs)
      BY <1>2 DEF ConsoleSkips, Logged
    <3>1. CASE net.at[r] <= net.last
      <4>1. r \in net.skipped \union net.dropped \union In(net.wire)
                    \union In(view.logs)
        BY <1>v, <1>1, <1>4, <1>12, <3>1 DEF ConsoleSkips
      <4> QED BY <1>1, <1>2, <1>6, <4>1
    <3>2. CASE net.at[r] > net.last /\ r <= end
      BY <1>2, <1>6, <2>1, <3>2
    <3>3. CASE net.at[r] > net.last /\ ~(r <= end)
      <4>1. end <= r
        BY <1>3, <1>4, <3>3
      <4>2. last <= net.at[r]
        BY <1>v, <1>3, <4>1 DEF ConsoleStamps, last
      <4>3. net.at[r] = last
        BY <1>4, <1>5, <4>2
      <4>4. r \notin In(rows)
        BY <2>4, <3>3
      <4> QED BY <1>2, <1>4, <4>3, <4>4
    <3>4. net.at[r] <= net.last \/ net.at[r] > net.last
      BY <1>4
    <3> QED BY <3>1, <3>2, <3>3, <3>4
  <2>8. ConsoleOrder'
    <3> SUFFICES ASSUME net.lives <= 1 PROVE ConsoleOrder'
      BY <1>2 DEF ConsoleOrder
    <3>1. /\ Falling(view.logs) /\ Rising(net.wire)
          /\ \A x \in In(view.logs), y \in In(net.wire) : x < y
          /\ \A x \in In(view.logs) \union In(net.wire) : net.at[x] <= net.last
          /\ Sent <= Cardinality(Reached)
      BY <1>v, <1>1, <1>12 DEF ConsoleOrder
    <3>2. \A x \in In(view.logs) \union In(net.wire) : x \in Logged
      BY <1>v DEF ConsoleWays
    <3>3. \A x \in In(view.logs) \union In(net.wire), y \in In(rows) : x < y
      <4> SUFFICES ASSUME NEW x \in In(view.logs) \union In(net.wire),
                          NEW y \in In(rows), ~(x < y)
                   PROVE  FALSE
        OBVIOUS
      <4>1. /\ x \in Logged /\ y \in Logged
            /\ net.at[x] <= net.last /\ net.at[y] > net.last
        BY <1>1, <2>1, <3>1, <3>2
      <4>2. y <= x
        BY <1>4, <4>1
      <4>3. net.at[y] <= net.at[x]
        BY <1>v, <4>1, <4>2 DEF ConsoleStamps
      <4> QED BY <1>4, <4>1, <4>3
    <3>4. Rising(net'.wire)
      <4> DEFINE w == net.wire \o rows
      <4> SUFFICES ASSUME NEW m \in 1 .. Len(w), NEW n \in 1 .. Len(w), m < n
                   PROVE  w[m] < w[n]
        BY <1>2 DEF Rising
      <4> HIDE DEF w
      <4>1. /\ Len(w) = Len(net.wire) + Len(rows)
            /\ \A k \in 1 .. Len(net.wire) : w[k] = net.wire[k]
            /\ \A k \in 1 .. Len(rows) : w[Len(net.wire) + k] = rows[k]
        BY <1>6 DEF w
      <4>2. CASE n <= Len(net.wire)
        <5>1. m \in 1 .. Len(net.wire) /\ n \in 1 .. Len(net.wire)
          BY <1>3, <1>4, <4>1, <4>2
        <5> QED BY <3>1, <4>1, <5>1 DEF Rising
      <4>3. CASE m <= Len(net.wire) /\ n > Len(net.wire)
        <5>1. /\ m \in 1 .. Len(net.wire) /\ n - Len(net.wire) \in 1 .. Len(rows)
              /\ n = Len(net.wire) + (n - Len(net.wire))
          BY <1>3, <1>4, <4>1, <4>3
        <5>2. w[m] = net.wire[m] /\ w[n] = rows[n - Len(net.wire)]
          BY <4>1, <5>1
        <5>3. w[m] \in In(net.wire) /\ w[n] \in In(rows)
          BY <5>1, <5>2 DEF In
        <5> QED BY <3>3, <5>3
      <4>4. CASE m > Len(net.wire)
        <5> DEFINE k == m - Len(net.wire)
                   l == n - Len(net.wire)
        <5>1. /\ k \in 1 .. Len(rows) /\ l \in 1 .. Len(rows) /\ k < l
              /\ m = Len(net.wire) + k /\ n = Len(net.wire) + l
          BY <1>3, <1>4, <4>1, <4>4
        <5> HIDE DEF k, l
        <5>2. w[m] = rows[k] /\ w[n] = rows[l]
          BY <4>1, <5>1
        <5> QED BY <2>1, <5>1, <5>2 DEF Rising
      <4>5. n <= Len(net.wire) \/ (m <= Len(net.wire) /\ n > Len(net.wire))
            \/ m > Len(net.wire)
        BY <1>4, <4>1, <1>3
      <4> QED BY <4>2, <4>3, <4>4, <4>5
    <3>5. \A x \in In(view.logs), y \in In(net'.wire) : x < y
      BY <1>2, <1>6, <3>1, <3>3
    <3>6. \A x \in In(view.logs) \union In(net'.wire) : net.at[x] <= last
      BY <1>2, <1>6, <2>4, <2>6, <3>1, <3>2
    <3>7. Sent' <= Cardinality(Reached')
      <4>1. Reached' = {r \in Logged : net.at[r] <= last}
        BY <1>2 DEF Reached, Logged
      <4>2. /\ Reached \intersect In(rows) = {}
            /\ Reached \union In(rows) \subseteq Reached'
        <5>1. \A r \in In(rows) : ~(net.at[r] <= net.last)
          BY <1>1, <1>4, <2>1
        <5>2. Reached \intersect In(rows) = {}
          BY <5>1 DEF Reached
        <5>3. Reached \subseteq Reached' /\ In(rows) \subseteq Reached'
          BY <1>1, <2>4, <2>6, <4>1 DEF Reached
        <5> QED BY <5>2, <5>3
      <4>3. IsFiniteSet(In(rows)) /\ Cardinality(In(rows)) = Len(rows)
        <5>1. Apart(rows)
          <6> SUFFICES ASSUME NEW m \in 1 .. Len(rows), NEW n \in 1 .. Len(rows),
                              rows[m] = rows[n], m # n
                       PROVE  FALSE
            BY DEF Apart
          <6>1. m < n \/ n < m
            BY <1>3
          <6>2. rows[m] < rows[n] \/ rows[n] < rows[m]
            BY <2>1, <6>1 DEF Rising
          <6> QED BY <2>3, <6>2
        <5> QED BY <1>1, <5>1, CountOfList
      <4>4. IsFiniteSet(Reached') /\ Cardinality(Reached') \in Nat
        <5>1. Reached' \subseteq Logged
          BY <4>1
        <5> QED BY <1>4, <5>1, FS_Subset, FS_CardinalityType
      <4>5. /\ Cardinality(Reached \union In(rows))
                    = Cardinality(Reached) + Cardinality(In(rows))
                        - Cardinality(Reached \intersect In(rows))
            /\ Cardinality(Reached \intersect In(rows)) = 0
        BY <1>4, <4>2, <4>3, FS_Union, FS_EmptySet
      <4>6. Cardinality(Reached \union In(rows)) = Cardinality(Reached) + Len(rows)
        BY <1>3, <1>4, <4>3, <4>5
      <4>7. Cardinality(Reached \union In(rows)) <= Cardinality(Reached')
        BY <4>2, <4>4, FS_Subset
      <4>8. Sent' = Sent + Len(rows) /\ Sent \in Nat
        <5>1. view.received \in Nat /\ net.uncounted \in Nat
          BY <1>v DEF ConsoleView, ConsoleNet
        <5>2. /\ Sent' = view.received + net.uncounted + Len(net.wire \o rows)
              /\ Sent = view.received + net.uncounted + Len(net.wire)
          BY <1>1, <1>2 DEF Sent
        <5>3. PICK s \in Nat : s = view.received + net.uncounted
          BY <5>1
        <5>4. Len(net.wire \o rows) = Len(net.wire) + Len(rows)
          BY <1>6
        <5>5. Sent' = s + (Len(net.wire) + Len(rows)) /\ Sent = s + Len(net.wire)
          BY <5>2, <5>3, <5>4
        <5> QED BY <1>3, <1>4, <5>3, <5>5
      <4> QED BY <1>3, <1>4, <3>1, <4>4, <4>6, <4>7, <4>8
    <3> QED BY <1>1, <1>2, <3>1, <3>4, <3>5, <3>6, <3>7 DEF ConsoleOrder
  <2> QED BY <1>8, <1>9, <1>10, <2>2, <2>7, <2>8 DEF ConsoleInv
<1>13. net.crossed \in BOOLEAN
  BY <1>v DEF ConsoleNet
<1> QED BY <1>11, <1>12, <1>13

LEMMA ConsoleKeptDrop ==
    ASSUME ConsoleInv, Console!ConnectionDrops PROVE ConsoleInv'
<1>v. /\ ConsoleView /\ ConsoleNet /\ ConsoleStamps /\ ConsoleWays
      /\ ConsolePolls /\ ConsoleOrder /\ ConsoleSkips
  BY DEF ConsoleInv
<1>1. /\ DOMAIN net' = DOMAIN net /\ DOMAIN view' = DOMAIN view
      /\ net.up = TRUE /\ net'.up = FALSE /\ net'.last = 0 /\ net'.wire = <<>>
      /\ net'.polls = [j \in Console!PollIds |-> Console!NoPoll]
      /\ net.turns < LogTurns /\ net'.turns = net.turns + 1
      /\ UNCHANGED <<net.at, net.lives, net.crossed, net.skipped, net.uncounted>>
      /\ UNCHANGED <<view.logs, view.levels, view.received, view.filtered>>
  BY <1>v DEF Console!ConnectionDrops, Console!Turn, Console!Turned,
              ConsoleNet, ConsoleView
<1>2. ConsoleView' /\ ConsoleStamps'
  BY <1>v, <1>1 DEF ConsoleView, ConsoleStamps, Logged
<1>3. ConsoleNet'
  <2>1. net'.polls \in [Console!PollIds -> ConsolePoll]
    BY <1>1, ConsoleRowType
  <2>2. LogTurns \in Nat /\ net.turns \in 0 .. LogTurns /\ LogRows \in Nat
    BY <1>v, Bounds DEF ConsoleNet
  <2>3. net'.turns \in 0 .. LogTurns /\ net'.last \in 0 .. LogRows
    BY <1>1, <2>2
  <2> QED BY <1>v, <1>1, <2>1, <2>3, ConsoleRowType DEF ConsoleNet
<1>4. \A j \in Console!PollIds : net'.polls[j] = Console!NoPoll
  BY <1>1
<1>5. ConsoleWays'
  <2>1. net.lives # 0
    BY <1>v, <1>1 DEF ConsoleWays
  <2> QED BY <1>v, <1>1, <1>4, <2>1, ConsoleRowType DEF ConsoleWays, Logged
<1>6. ConsolePolls' /\ ConsoleSkips'
  BY <1>1, <1>4, ConsoleRowType DEF ConsolePolls, ConsoleSkips
<1>7. ConsoleOrder'
  <2> SUFFICES ASSUME net.lives <= 1, net.crossed = FALSE PROVE ConsoleOrder'
    BY <1>1 DEF ConsoleOrder
  <2>1. Falling(view.logs) /\ Sent <= Cardinality(Reached)
    BY <1>v, <1>1 DEF ConsoleOrder
  <2>2. /\ Cardinality(Reached) <= Len(net.at) /\ Cardinality(Reached) \in Nat
        /\ Len(net.at) \in Nat /\ Len(net.wire) \in Nat
    BY ConsoleNumbers
  <2>3. view.received \in Nat /\ net.uncounted \in Nat
    BY <1>v DEF ConsoleView, ConsoleNet
  <2>4. Sent' = view.received + net.uncounted + 0
    BY <1>1, ConsoleRowType DEF Sent
  <2>5. Sent' <= Sent /\ Sent \in Nat /\ Sent' \in Nat
    BY <2>2, <2>3, <2>4 DEF Sent
  <2>6. Sent' <= Len(net.at)
    BY <2>1, <2>2, <2>5
  <2> QED BY <1>1, <2>1, <2>6, ConsoleRowType DEF ConsoleOrder
<1> QED BY <1>2, <1>3, <1>5, <1>6, <1>7 DEF ConsoleInv

\* A list with the largest number put in front still falls.
LEMMA FallsOn ==
    ASSUME NEW S \in SUBSET Int, NEW s \in Seq(S), NEW x \in S, Falling(s),
           \A y \in In(s) : y < x, NEW n \in Nat
    PROVE  LET t == CutAt(<<x>> \o s, 1, n) IN
           /\ t \in Seq(S) /\ Len(t) <= n /\ Falling(t)
           /\ In(t) \subseteq In(s) \union {x}
<1> DEFINE h == <<x>>
           w == h \o s
           t == CutAt(w, 1, n)
<1>1. h \in Seq(S) /\ Len(h) = 1 /\ h[1] = x /\ In(h) = {x}
  BY DEF In
<1> HIDE DEF h, w, t
<1>2. /\ w \in Seq(S) /\ Len(w) = Len(h) + Len(s)
      /\ \A i \in 1 .. Len(h) : w[i] = h[i]
      /\ \A i \in 1 .. Len(s) : w[Len(h) + i] = s[i]
      /\ In(w) = In(h) \union In(s)
  <2>1. w = h \o s /\ h \in Seq(S) /\ s \in Seq(S)
    BY <1>1 DEF w
  <2>2. /\ h \o s \in Seq(S) /\ In(h \o s) = In(h) \union In(s)
        /\ Len(h \o s) = Len(h) + Len(s)
        /\ \A i \in 1 .. Len(h) : (h \o s)[i] = h[i]
        /\ \A i \in 1 .. Len(s) : (h \o s)[Len(h) + i] = s[i]
    BY <2>1, JoinFacts
  <2> QED BY <2>1, <2>2
<1>3. Len(s) \in Nat /\ Len(w) = 1 + Len(s) /\ w[1] = x
  BY <1>1, <1>2, LenProperties
<1>4. /\ t \in Seq(S) /\ Len(t) \in Nat /\ Len(t) <= Len(w)
      /\ (n >= 1 => Len(t) <= n - 1 + 1) /\ (n < 1 => Len(t) = 0)
      /\ \A i \in 1 .. Len(t) : /\ 1 + i - 1 \in 1 .. Len(w)
                               /\ t[i] = w[1 + i - 1]
  <2>1. t = CutAt(w, 1, n)
    BY DEF t
  <2> QED BY <1>2, <2>1, CutFacts
<1>5. Len(t) <= n
  BY <1>4
<1>6. \A i \in 1 .. Len(t) : i \in 1 .. Len(w) /\ t[i] = w[i]
  BY <1>4
<1>7. Falling(w)
  <2> SUFFICES ASSUME NEW i \in 1 .. Len(w), NEW j \in 1 .. Len(w), i < j
               PROVE  w[i] > w[j]
    BY DEF Falling
  <2>1. /\ j - 1 \in 1 .. Len(s) /\ j = 1 + (j - 1)
    BY <1>3
  <2>2. w[j] = s[j - 1]
    BY <1>1, <1>2, <2>1
  <2>3. CASE i = 1
    <3>1. s[j - 1] \in In(s)
      BY <2>1 DEF In
    <3> QED BY <1>3, <2>2, <2>3, <3>1
  <2>4. CASE i # 1
    <3>1. i - 1 \in 1 .. Len(s) /\ i = 1 + (i - 1) /\ i - 1 < j - 1
      BY <1>3, <2>4
    <3>2. w[i] = s[i - 1]
      BY <1>1, <1>2, <3>1
    <3> QED BY <2>1, <2>2, <3>1, <3>2 DEF Falling
  <2> QED BY <2>3, <2>4
<1>8. Falling(t)
  BY <1>6, <1>7 DEF Falling
<1>9. In(t) \subseteq In(w)
  BY <1>6 DEF In
<1> QED BY <1>1, <1>2, <1>4, <1>5, <1>8, <1>9 DEF t, w, h

LEMMA ConsoleKeptEvent == ASSUME ConsoleInv, Console!Event PROVE ConsoleInv'
<1>v. /\ ConsoleView /\ ConsoleNet /\ ConsoleStamps /\ ConsoleWays
      /\ ConsolePolls /\ ConsoleOrder /\ ConsoleSkips
  BY DEF ConsoleInv
<1> DEFINE x == Head(net.wire)
           cut == CutAt(<<x>> \o view.logs, 1, LogCap)
           logs == IF view.paused THEN view.logs ELSE cut
<1>0. /\ net.wire # <<>> /\ net.wire \in Seq(Console!Row)
      /\ view.logs \in Seq(Console!Row)
  BY <1>v DEF Console!Event, Console!Received, ConsoleNet, ConsoleView
<1>1. /\ x \in Console!Row /\ Tail(net.wire) \in Seq(Console!Row)
      /\ Len(net.wire) \in Nat \ {0} /\ Len(Tail(net.wire)) = Len(net.wire) - 1
      /\ x = net.wire[1]
      /\ \A k \in 1 .. Len(net.wire) - 1 : Tail(net.wire)[k] = net.wire[k + 1]
      /\ In(net.wire) = {x} \union In(Tail(net.wire))
  BY <1>0, TailFacts
<1>2. x \in Logged /\ In(Tail(net.wire)) \subseteq Logged
  BY <1>v, <1>1 DEF ConsoleWays
<1>3. /\ LogCap \in Nat /\ Console!Row \in SUBSET Int
      /\ <<x>> \o view.logs \in Seq(Console!Row)
      /\ In(<<x>> \o view.logs) = {x} \union In(view.logs)
  <2>1. <<x>> \in Seq(Console!Row) /\ In(<<x>>) = {x}
    BY <1>1 DEF In
  <2> DEFINE h == <<x>>
  <2>2. h \in Seq(Console!Row) /\ In(h) = {x}
    BY <2>1
  <2> HIDE DEF h, x
  <2>3. h \o view.logs \in Seq(Console!Row)
        /\ In(h \o view.logs) = {x} \union In(view.logs)
    BY <1>0, <2>2, JoinFacts
  <2> QED BY <2>3, ConsoleRowType, Bounds DEF h
<1>4. /\ logs \in Seq(Console!Row) /\ Len(logs) <= LogCap
      /\ In(logs) \subseteq In(view.logs) \union {x}
  <2>1. CASE view.paused
    BY <1>v, <2>1 DEF ConsoleView
  <2>2. CASE ~view.paused
    <3> DEFINE w == <<x>> \o view.logs
    <3>1. w \in Seq(Console!Row) /\ In(w) = {x} \union In(view.logs)
      BY <1>3
    <3> HIDE DEF w, x
    <3> DEFINE t == CutAt(w, 1, LogCap)
    <3>2. /\ t \in Seq(Console!Row) /\ Len(t) \in Nat
          /\ (LogCap >= 1 => Len(t) <= LogCap - 1 + 1)
          /\ (LogCap < 1 => Len(t) = 0) /\ Len(t) <= Len(w)
          /\ \A k \in 1 .. Len(t) : /\ 1 + k - 1 \in 1 .. Len(w)
                                   /\ t[k] = w[1 + k - 1]
      BY <1>3, <3>1, CutFacts
    <3>3. Len(t) <= LogCap /\ In(t) \subseteq In(w)
      BY <1>3, <3>2 DEF In
    <3>4. logs = t
      BY <2>2 DEF w, x
    <3> QED BY <3>1, <3>2, <3>3, <3>4
  <2> QED BY <2>1, <2>2
<1>5. /\ DOMAIN net' = DOMAIN net /\ DOMAIN view' = DOMAIN view
      /\ view'.received = view.received + 1
      /\ view'.filtered = view.filtered + 1 /\ view'.logs = logs
      /\ view'.levels = view.levels
      /\ net'.wire = Tail(net.wire)
      /\ net'.dropped = net.dropped \union
            (({x} \union In(view.logs)) \ In(logs))
      /\ UNCHANGED <<net.at, net.up, net.last, net.polls, net.lives,
                     net.crossed, net.skipped, net.turns, net.uncounted>>
  <2>1. Console!UpTo(LogCap, <<x>> \o view.logs) = cut
    <3>1. LogCap \in Int
      BY <1>3
    <3> DEFINE w == <<x>> \o view.logs
    <3>2. w \in Seq(Console!Row)
      BY <1>3
    <3> HIDE DEF w
    <3>3. Console!UpTo(LogCap, w) = CutAt(w, 1, LogCap)
      BY <3>1, <3>2, ConsoleOperators
    <3> QED BY <3>3 DEF w
  <2>2. Console!Received(logs)
    BY <2>1 DEF Console!Event
  <2>3. Console!Range(view.logs) = In(view.logs) /\ Console!Range(logs) = In(logs)
    BY <1>0, <1>4, ConsoleOperators
  <2> HIDE DEF logs
  <2> QED BY <1>v, <2>2, <2>3 DEF Console!Received, ConsoleNet, ConsoleView
<1> DEFINE rest == Tail(net.wire)
<1>6. ConsoleView' /\ ConsoleStamps'
  <2>1. view.received + 1 \in Nat /\ view.filtered = view.received
    BY <1>v DEF ConsoleView
  <2> HIDE DEF logs
  <2> QED BY <1>v, <1>4, <1>5, <2>1 DEF ConsoleView, ConsoleStamps, Logged
<1>7. ConsoleNet'
  BY <1>v, <1>1, <1>5 DEF ConsoleNet
<1> HIDE DEF rest, x, logs
<1>8. ConsoleWays'
  <2>1. net.up = TRUE
    BY <1>v, <1>0 DEF ConsoleWays, ConsoleNet
  <2>2. In(logs) \subseteq Logged /\ In(rest) \subseteq Logged
    BY <1>v, <1>2, <1>4 DEF ConsoleWays, rest
  <2>3. net.lives # 0
    BY <1>v, <2>1 DEF ConsoleWays
  <2> QED BY <1>v, <1>5, <2>1, <2>2, <2>3 DEF ConsoleWays, Logged, rest
<1>9. ConsolePolls'
  BY <1>v, <1>5 DEF ConsolePolls, Logged
<1>10. ConsoleSkips'
  <2>1. In(net.wire) \union In(view.logs) \subseteq
            net'.dropped \union In(net'.wire) \union In(view'.logs)
    BY <1>1, <1>5
  <2>2. net.dropped \subseteq net'.dropped
    BY <1>5
  <2> QED BY <1>v, <1>5, <2>1, <2>2 DEF ConsoleSkips, Logged
<1>11. ConsoleOrder'
  <2> SUFFICES ASSUME net.lives <= 1, net.crossed = FALSE PROVE ConsoleOrder'
    BY <1>5 DEF ConsoleOrder
  <2>1. /\ Falling(view.logs) /\ Rising(net.wire)
        /\ \A a \in In(view.logs), b \in In(net.wire) : a < b
        /\ net.up = TRUE =>
             \A a \in In(view.logs) \union In(net.wire) : net.at[a] <= net.last
        /\ Sent <= IF net.up THEN Cardinality(Reached) ELSE Len(net.at)
    BY <1>v DEF ConsoleOrder
  <2>2. /\ x \in In(net.wire) /\ In(rest) \subseteq In(net.wire)
        /\ rest \in Seq(Console!Row) /\ Len(rest) = Len(net.wire) - 1
        /\ \A k \in 1 .. Len(net.wire) - 1 : rest[k] = net.wire[k + 1]
    BY <1>1 DEF rest
  <2>3. Falling(logs)
    <3>1. CASE view.paused
      BY <2>1, <3>1 DEF logs
    <3>2. CASE ~view.paused
      <4>1. \A a \in In(view.logs) : a < x
        BY <2>1, <2>2
      <4>2. Falling(CutAt(<<x>> \o view.logs, 1, LogCap))
        <5>1. x \in Console!Row /\ Falling(view.logs)
          BY <1>1, <2>1 DEF x
        <5> QED BY <1>0, <1>3, <4>1, <5>1, FallsOn
      <4> QED BY <3>2, <4>2 DEF logs
    <3> QED BY <3>1, <3>2
  <2>4. \A k \in 1 .. Len(rest) : x < rest[k]
    <3> SUFFICES ASSUME NEW k \in 1 .. Len(rest) PROVE x < rest[k]
      OBVIOUS
    <3>1. /\ k \in 1 .. Len(net.wire) - 1 /\ k + 1 \in 1 .. Len(net.wire)
          /\ 1 \in 1 .. Len(net.wire) /\ 1 < k + 1
      BY <1>1, <2>2
    <3>2. rest[k] = net.wire[k + 1] /\ x = net.wire[1]
      BY <1>1, <2>2, <3>1
    <3> QED BY <2>1, <3>1, <3>2 DEF Rising
  <2>5. Rising(rest)
    <3> SUFFICES ASSUME NEW m \in 1 .. Len(rest), NEW n \in 1 .. Len(rest), m < n
                 PROVE  rest[m] < rest[n]
      BY DEF Rising
    <3>1. /\ m \in 1 .. Len(net.wire) - 1 /\ n \in 1 .. Len(net.wire) - 1
          /\ m + 1 \in 1 .. Len(net.wire) /\ n + 1 \in 1 .. Len(net.wire)
          /\ m + 1 < n + 1
      BY <1>1, <2>2
    <3>2. rest[m] = net.wire[m + 1] /\ rest[n] = net.wire[n + 1]
      BY <2>2, <3>1
    <3> QED BY <2>1, <3>1, <3>2 DEF Rising
  <2>6. \A a \in In(logs), b \in In(rest) : a < b
    <3>1. \A b \in In(rest) : x < b
      BY <2>4 DEF In
    <3> QED BY <1>4, <2>1, <2>2, <3>1
  <2>7. net.up = TRUE =>
            \A a \in In(logs) \union In(rest) : net.at[a] <= net.last
    BY <1>4, <2>1, <2>2
  <2>8. Sent' = Sent
    <3>1. view.received \in Nat /\ net.uncounted \in Nat
      BY <1>v DEF ConsoleView, ConsoleNet
    <3>2. Len(net.wire) \in Nat /\ Len(rest) = Len(net.wire) - 1
      BY <1>1, <2>2
    <3>3. /\ Sent = view.received + net.uncounted + Len(net.wire)
          /\ Sent' = view.received + 1 + net.uncounted + Len(rest)
      BY <1>5 DEF Sent, rest
    <3> QED BY <3>1, <3>2, <3>3
  <2>9. Reached' = Reached
    BY <1>5 DEF Reached, Logged
  <2>10. view'.logs = logs /\ net'.wire = rest
    BY <1>5 DEF rest
  <2> QED BY <1>5, <2>1, <2>3, <2>5, <2>6, <2>7, <2>8, <2>9, <2>10
          DEF ConsoleOrder
<1> QED BY <1>6, <1>7, <1>8, <1>9, <1>10, <1>11 DEF ConsoleInv

LEMMA ConsoleKeptClear ==
    ASSUME ConsoleInv, Console!ClearBuffer PROVE ConsoleInv'
<1>v. /\ ConsoleView /\ ConsoleNet /\ ConsoleStamps /\ ConsoleWays
      /\ ConsolePolls /\ ConsoleOrder /\ ConsoleSkips
  BY DEF ConsoleInv
<1>1. /\ DOMAIN net' = DOMAIN net /\ DOMAIN view' = DOMAIN view
      /\ view'.logs = <<>> /\ view'.received = 0 /\ view'.filtered = 0
      /\ view'.levels = view.levels
      /\ net.turns < LogTurns /\ net'.turns = net.turns + 1
      /\ net'.dropped = net.dropped \union In(view.logs)
      /\ net'.uncounted = net.uncounted + view.received
      /\ UNCHANGED <<net.at, net.up, net.last, net.polls, net.wire, net.lives,
                     net.crossed, net.skipped>>
  <2>1. Console!Range(view.logs) = In(view.logs)
    BY <1>v, ConsoleOperators DEF ConsoleView
  <2> QED BY <1>v, <2>1 DEF Console!ClearBuffer, Console!Turn, Console!Turned,
                            ConsoleNet, ConsoleView
<1>2. ConsoleView' /\ ConsoleStamps'
  <2>1. LogCap \in Nat
    BY Bounds
  <2>2. Len(view'.logs) <= LogCap /\ view'.logs \in Seq(Console!Row)
    BY <1>1, <2>1, ConsoleRowType
  <2>3. ConsoleView'
    BY <1>v, <1>1, <2>2 DEF ConsoleView
  <2>4. ConsoleStamps'
    BY <1>v, <1>1 DEF ConsoleStamps, Logged
  <2> QED BY <2>3, <2>4
<1>3. ConsoleNet'
  <2>1. LogTurns \in Nat /\ net.turns \in 0 .. LogTurns
        /\ net.uncounted \in Nat /\ view.received \in Nat
    BY <1>v, Bounds DEF ConsoleNet, ConsoleView
  <2>2. net'.turns \in 0 .. LogTurns /\ net'.uncounted \in Nat
    BY <1>1, <2>1
  <2> QED BY <1>v, <1>1, <2>2 DEF ConsoleNet
<1>4. ConsoleWays'
  <2>1. net.lives = 0 => net'.uncounted = 0
    BY <1>v, <1>1 DEF ConsoleWays
  <2> QED BY <1>v, <1>1, <2>1, ConsoleRowType DEF ConsoleWays, Logged
<1>5. ConsolePolls' /\ ConsoleSkips'
  BY <1>v, <1>1 DEF ConsolePolls, ConsoleSkips, Logged
<1>6. ConsoleOrder'
  <2>1. Sent' = Sent
    <3>1. view.received \in Nat /\ net.uncounted \in Nat /\ Len(net.wire) \in Nat
      BY <1>v, ConsoleNumbers DEF ConsoleView, ConsoleNet
    <3>2. Sent' = 0 + (net.uncounted + view.received) + Len(net.wire)
          /\ Sent = view.received + net.uncounted + Len(net.wire)
      BY <1>1 DEF Sent
    <3> QED BY <3>1, <3>2
  <2>2. Reached' = Reached
    BY <1>1 DEF Reached, Logged
  <2> QED BY <1>v, <1>1, <2>1, <2>2, ConsoleRowType DEF ConsoleOrder
<1> QED BY <1>2, <1>3, <1>4, <1>5, <1>6 DEF ConsoleInv

LEMMA ConsoleKept == ASSUME ConsoleInv, Console!Next PROVE ConsoleInv'
<1>v. ConsoleView /\ ConsoleNet
  BY DEF ConsoleInv
<1>n. LogTurns \in Nat /\ net.turns \in 0 .. LogTurns
  BY <1>v, Bounds DEF ConsoleNet
<1>1. ASSUME NEW i \in Console!PollIds, Console!PollFails(i) PROVE ConsoleInv'
  <2>1. /\ DOMAIN net' = DOMAIN net /\ DOMAIN view' = DOMAIN view
        /\ UNCHANGED <<view.logs, view.received, view.filtered, view.levels>>
        /\ UNCHANGED <<net.at, net.up, net.last, net.wire, net.lives,
                       net.crossed, net.skipped, net.dropped, net.uncounted>>
        /\ net.turns < LogTurns /\ net'.turns = net.turns + 1
        /\ net'.polls = [net.polls EXCEPT ![i] = Console!NoPoll]
    BY <1>v, <1>1 DEF Console!PollFails, Console!Turn, Console!Turned,
                      ConsoleNet, ConsoleView
  <2>2. net'.turns \in 0 .. LogTurns
    BY <1>n, <2>1
  <2>3. /\ net'.polls \in [Console!PollIds -> ConsolePoll]
        /\ \A j \in Console!PollIds :
                net'.polls[j] \in {net.polls[j], Console!NoPoll}
    BY <1>v, <2>1, ConsoleRowType DEF ConsoleNet
  <2> QED BY <1>v, <2>1, <2>2, <2>3, ConsoleQuiet DEF ConsoleView
<1>2. ASSUME Console!Pause \/ Console!ToggleLevel PROVE ConsoleInv'
  <2>1. /\ DOMAIN net' = DOMAIN net /\ DOMAIN view' = DOMAIN view
        /\ UNCHANGED <<view.logs, view.received, view.filtered>>
        /\ UNCHANGED <<net.at, net.up, net.last, net.wire, net.lives, net.polls,
                       net.crossed, net.skipped, net.dropped, net.uncounted>>
        /\ net.turns < LogTurns /\ net'.turns = net.turns + 1
        /\ view'.levels \subseteq Levels
    <3>1. CASE Console!Pause
      BY <1>v, <3>1 DEF Console!Pause, Console!Turn, Console!Turned,
                        ConsoleNet, ConsoleView
    <3>2. CASE Console!ToggleLevel
      BY <1>v, <3>2 DEF Console!ToggleLevel, Console!Turn, Console!Turned,
                        ConsoleNet, ConsoleView
    <3> QED BY <1>2, <3>1, <3>2
  <2>2. net'.turns \in 0 .. LogTurns
    BY <1>n, <2>1
  <2>3. /\ net'.polls \in [Console!PollIds -> ConsolePoll]
        /\ \A j \in Console!PollIds :
                net'.polls[j] \in {net.polls[j], Console!NoPoll}
    BY <1>v, <2>1 DEF ConsoleNet
  <2> QED BY <2>1, <2>2, <2>3, ConsoleQuiet
<1> QED BY <1>1, <1>2, ConsoleKeptLog, ConsoleKeptConnect, ConsoleKeptPoll,
           ConsoleKeptAnswer, ConsoleKeptDrop, ConsoleKeptEvent,
           ConsoleKeptClear DEF Console!Next

LEMMA ConsoleStutter ==
    ASSUME ConsoleInv, UNCHANGED <<view, net>> PROVE ConsoleInv'
BY DEF ConsoleInv, ConsoleView, ConsoleNet, ConsoleStamps, ConsoleWays,
       ConsolePolls, ConsoleOrder, ConsoleSkips, Logged, Reached, Sent

\* The buffer read from its end, and the wire behind it, rise.
LEMMA ConsoleRises ==
    ASSUME NEW S \in SUBSET Int, NEW s \in Seq(S), NEW w \in Seq(S),
           Falling(s), Rising(w), \A x \in In(s), y \in In(w) : x < y
    PROVE  LET all == Backwards(s) \o w IN
           \A m, n \in DOMAIN all : m < n => all[m] < all[n]
<1> DEFINE b == Backwards(s)
           all == b \o w
<1>1. /\ b \in Seq(S) /\ Len(b) = Len(s) /\ Len(s) \in Nat
      /\ \A i \in 1 .. Len(s) : /\ Len(s) - i + 1 \in 1 .. Len(s)
                               /\ b[i] = s[Len(s) - i + 1]
      /\ In(b) = In(s)
  BY BackwardsFacts
<1> HIDE DEF b, all
<1>2. /\ all \in Seq(S) /\ Len(all) = Len(b) + Len(w)
      /\ \A i \in 1 .. Len(b) : all[i] = b[i]
      /\ \A i \in 1 .. Len(w) : all[Len(b) + i] = w[i]
  <2>1. b \in Seq(S) /\ w \in Seq(S) /\ all = b \o w
    BY <1>1 DEF all
  <2>2. /\ b \o w \in Seq(S) /\ Len(b \o w) = Len(b) + Len(w)
        /\ \A i \in 1 .. Len(b) : (b \o w)[i] = b[i]
        /\ \A i \in 1 .. Len(w) : (b \o w)[Len(b) + i] = w[i]
    BY <2>1, JoinFacts
  <2> QED BY <2>1, <2>2
<1>3. DOMAIN all = 1 .. Len(s) + Len(w) /\ Len(w) \in Nat
  BY <1>1, <1>2, LenProperties
<1>4. ASSUME NEW m \in 1 .. Len(s) + Len(w), NEW n \in 1 .. Len(s) + Len(w),
             m < n
      PROVE  all[m] < all[n]
  <2>1. CASE n <= Len(s)
    <3> DEFINE k == Len(s) - m + 1
               l == Len(s) - n + 1
    <3>1. m \in 1 .. Len(s) /\ n \in 1 .. Len(s)
      BY <1>1, <1>3, <1>4, <2>1
    <3>2. /\ k \in 1 .. Len(s) /\ l \in 1 .. Len(s) /\ l < k
          /\ all[m] = s[k] /\ all[n] = s[l]
      <4>1. b[m] = s[k] /\ b[n] = s[l] /\ k \in 1 .. Len(s) /\ l \in 1 .. Len(s)
        BY <1>1, <3>1
      <4>2. all[m] = b[m] /\ all[n] = b[n]
        BY <1>1, <1>2, <3>1
      <4>3. l < k
        BY <1>1, <1>4, <3>1
      <4> QED BY <4>1, <4>2, <4>3
    <3> HIDE DEF k, l
    <3>3. s[l] > s[k]
      BY <3>2 DEF Falling
    <3>4. s[l] \in Int /\ s[k] \in Int
      BY <3>2, ElementOfSeq
    <3> QED BY <3>2, <3>3, <3>4
  <2>2. CASE m <= Len(s) /\ n > Len(s)
    <3> DEFINE l == n - Len(s)
    <3>1. m \in 1 .. Len(b) /\ l \in 1 .. Len(w) /\ n = Len(b) + l
      BY <1>1, <1>3, <2>2
    <3> HIDE DEF l
    <3>2. all[m] = b[m] /\ all[n] = w[l]
      BY <1>2, <3>1
    <3>3. b[m] \in In(b) /\ w[l] \in In(w)
      BY <1>1, <3>1 DEF In
    <3> QED BY <1>1, <3>2, <3>3
  <2>3. CASE m > Len(s)
    <3> DEFINE k == m - Len(s)
               l == n - Len(s)
    <3>1. /\ k \in 1 .. Len(w) /\ l \in 1 .. Len(w) /\ k < l
          /\ m = Len(b) + k /\ n = Len(b) + l
      BY <1>1, <1>3, <1>4, <2>3
    <3> HIDE DEF k, l
    <3>2. all[m] = w[k] /\ all[n] = w[l]
      BY <1>2, <3>1
    <3> QED BY <3>1, <3>2 DEF Rising
  <2>4. n <= Len(s) \/ (m <= Len(s) /\ n > Len(s)) \/ m > Len(s)
    BY <1>1, <1>3
  <2> QED BY <2>1, <2>2, <2>3, <2>4
<1> QED BY <1>3, <1>4 DEF all, b

LEMMA ConsoleShows ==
    ASSUME ConsoleInv
    PROVE  Console!TypeOK /\ Console!RowsComeOnce /\ Console!NothingSkipped
<1>v. /\ ConsoleView /\ ConsoleNet /\ ConsoleStamps /\ ConsoleWays
      /\ ConsolePolls /\ ConsoleOrder /\ ConsoleSkips
  BY DEF ConsoleInv
<1>1. Console!TypeOK
  BY <1>v DEF ConsoleView, ConsoleNet, Console!TypeOK
<1>2. Console!RowsComeOnce
  <2> SUFFICES ASSUME net.lives <= 1, net.crossed = FALSE
               PROVE  Console!RowsComeOnce
    BY <1>v DEF Console!RowsComeOnce, ConsoleNet
  <2>1. /\ Falling(view.logs) /\ Rising(net.wire)
        /\ \A x \in In(view.logs), y \in In(net.wire) : x < y
        /\ Sent <= IF net.up THEN Cardinality(Reached) ELSE Len(net.at)
    BY <1>v DEF ConsoleOrder
  <2>2. /\ Console!Row \in SUBSET Int /\ view.logs \in Seq(Console!Row)
        /\ net.wire \in Seq(Console!Row)
    BY <1>v, ConsoleRowType DEF ConsoleView, ConsoleNet
  <2> DEFINE all == Backwards(view.logs) \o net.wire
  <2>3. \A m, n \in DOMAIN all : m < n => all[m] < all[n]
    BY <2>1, <2>2, ConsoleRises
  <2>4. Console!Reverse(view.logs) \o net.wire = all
    BY ConsoleOperators
  <2>5. Sent <= Len(net.at)
    <3>1. /\ Cardinality(Reached) <= Len(net.at) /\ Len(net.at) \in Nat
          /\ Cardinality(Reached) \in Nat /\ Len(net.wire) \in Nat
      BY ConsoleNumbers
    <3>2. view.received \in Nat /\ net.uncounted \in Nat
      BY <1>v DEF ConsoleView, ConsoleNet
    <3>3. Sent \in Nat
      BY <3>1, <3>2 DEF Sent
    <3> QED BY <2>1, <3>1, <3>3
  <2> HIDE DEF all
  <2> QED BY <2>3, <2>4, <2>5 DEF Console!RowsComeOnce, Sent
<1>3. Console!NothingSkipped
  <2>1. /\ Console!Range(net.wire) = In(net.wire)
        /\ Console!Range(view.logs) = In(view.logs)
    BY <1>v, ConsoleOperators DEF ConsoleView, ConsoleNet
  <2>2. DOMAIN net.at = Logged
    BY ConsoleNumbers
  <2>3. net.crossed \in BOOLEAN /\ net.up \in BOOLEAN
    BY <1>v DEF ConsoleNet
  <2> QED BY <1>v, <2>1, <2>2, <2>3 DEF ConsoleSkips, Console!NothingSkipped
<1> QED BY <1>1, <1>2, <1>3

-----------------------------------------------------------------------------
(* PayloadDiff: each column spells out what the walk has passed.           *)

DiffRow == [kind : {"same", "del", "add", "mod"}, left : Texts \union {None},
            right : Texts \union {None}]

\* f at the chosen places, in their order, is the beginning of s.
Spells(I, f, s, k) ==
    Cardinality(I) = k /\ \A n \in 1 .. k : f[Nth(I, n)] = s[n]

LEMMA SpellsOn ==
    ASSUME NEW N \in Nat, NEW I \in SUBSET (1 .. N), NEW f, NEW g, NEW s,
           NEW k \in Nat, Spells(I, f, s, k),
           \A n \in 1 .. N : g[n] = f[n], g[N + 1] = s[k + 1]
    PROVE  Spells(I \union {N + 1}, g, s, k + 1)
<1> DEFINE J == I \union {N + 1}
<1>1. /\ IsFiniteSet(I) /\ I \in SUBSET Int
      /\ \A y \in I : y < N + 1 /\ N + 1 \in Int
  <2>1. IsFiniteSet(1 .. N)
    BY FS_Interval
  <2>2. IsFiniteSet(I)
    BY <2>1, FS_Subset
  <2>3. I \in SUBSET Int /\ \A y \in I : y < N + 1 /\ N + 1 \in Int
    OBVIOUS
  <2> QED BY <2>2, <2>3
<1>2. /\ Cardinality(I) = k
      /\ Cardinality(J) = Cardinality(I) + 1
      /\ \A i \in 1 .. Cardinality(I) : Nth(J, i) = Nth(I, i)
      /\ Nth(J, Cardinality(I) + 1) = N + 1
  <2> DEFINE x == N + 1
  <2>1. x \in Int /\ \A y \in I : y < x
    BY <1>1
  <2> HIDE DEF x
  <2>2. /\ Cardinality(I \union {x}) = Cardinality(I) + 1
        /\ \A i \in 1 .. Cardinality(I) : Nth(I \union {x}, i) = Nth(I, i)
        /\ Nth(I \union {x}, Cardinality(I) + 1) = x
    BY <1>1, <2>1, NthAppend
  <2>3. Cardinality(I) = k
    BY DEF Spells
  <2> QED BY <2>2, <2>3 DEF x
<1>3. \A n \in 1 .. k : Nth(I, n) \in 1 .. N
  BY <1>1, <1>2, NthFacts
<1> HIDE DEF J
<1>4. \A n \in 1 .. k : g[Nth(J, n)] = s[n]
  BY <1>2, <1>3 DEF Spells
<1>5. \A n \in 1 .. k + 1 : n \in 1 .. k \/ n = k + 1
  OBVIOUS
<1>6. \A n \in 1 .. k + 1 : g[Nth(J, n)] = s[n]
  BY <1>2, <1>4, <1>5
<1> QED BY <1>2, <1>6 DEF Spells, J

LeftPlaces == {n \in DOMAIN view.rows : view.rows[n].kind # "add"}
RightPlaces == {n \in DOMAIN view.rows : view.rows[n].kind # "del"}
LeftTexts == [n \in DOMAIN view.rows |-> view.rows[n].left]
RightTexts == [n \in DOMAIN view.rows |-> view.rows[n].right]

DiffTypes ==
    /\ DOMAIN view = {"i", "j", "rows"} /\ DOMAIN net = {"a", "b", "level"}
    /\ net.a \in Seq(Texts) /\ Len(net.a) <= MaxLen
    /\ net.b \in Seq(Texts) /\ Len(net.b) <= MaxLen
    /\ net.level \in Diff!Loops
    /\ view.i \in 1 .. Len(net.a) + 1 /\ view.j \in 1 .. Len(net.b) + 1
    /\ view.rows \in Seq(DiffRow) /\ Len(view.rows) <= view.i + view.j - 2

DiffColumns ==
    Diff!Fits => /\ Spells(LeftPlaces, LeftTexts, net.a, view.i - 1)
                 /\ Spells(RightPlaces, RightTexts, net.b, view.j - 1)

DiffInv == DiffTypes /\ DiffColumns

LEMMA DiffStarts == ASSUME Diff!Init PROVE DiffInv
<1>1. PICK a \in Diff!BoundedSeq(Texts, MaxLen),
           b \in Diff!BoundedSeq(Texts, MaxLen), level \in Diff!Loops :
        /\ net = [a |-> a, b |-> b, level |-> level]
        /\ view = [i |-> 1, j |-> 1, rows |-> <<>>]
  BY DEF Diff!Init
<1>2. \A s \in Diff!BoundedSeq(Texts, MaxLen) : s \in Seq(Texts) /\ Len(s) <= MaxLen
  <2> SUFFICES ASSUME NEW m \in 0 .. MaxLen, NEW s \in [1 .. m -> Texts]
               PROVE  s \in Seq(Texts) /\ Len(s) <= MaxLen
    BY DEF Diff!BoundedSeq
  <2>1. m \in Nat /\ m <= MaxLen
    BY Bounds
  <2> QED BY <2>1
<1>3. Len(net.a) \in Nat /\ Len(net.b) \in Nat /\ <<>> \in Seq(DiffRow)
      /\ Len(view.rows) = 0 /\ DOMAIN view.rows = {}
  BY <1>1, <1>2, LenProperties, EmptySeq
<1>4. DiffTypes
  BY <1>1, <1>2, <1>3 DEF DiffTypes
<1>5. DiffColumns
  <2>1. LeftPlaces = {} /\ RightPlaces = {}
    BY <1>3 DEF LeftPlaces, RightPlaces
  <2>2. view.i - 1 = 0 /\ view.j - 1 = 0
    BY <1>1
  <2> QED BY <2>1, <2>2, FS_EmptySet DEF DiffColumns, Spells
<1> QED BY <1>4, <1>5 DEF DiffInv

\* One row, with a text of the left side unless it is added, and one of the
\* right side unless it is removed.
LEMMA DiffPushed ==
    ASSUME DiffInv, NEW kind \in {"same", "del", "add", "mod"},
           NEW di \in {0, 1}, NEW dj \in {0, 1},
           di = (IF kind = "add" THEN 0 ELSE 1),
           dj = (IF kind = "del" THEN 0 ELSE 1),
           di = 1 => view.i <= Len(net.a), dj = 1 => view.j <= Len(net.b),
           Diff!Push(kind, di, dj), UNCHANGED net
    PROVE  DiffInv'
<1> DEFINE r == [kind |-> kind,
                 left |-> IF di = 1 THEN Diff!A(view.i) ELSE None,
                 right |-> IF dj = 1 THEN Diff!B(view.j) ELSE None]
           N == Len(view.rows)
<1>v. DiffTypes /\ DiffColumns
  BY DEF DiffInv
<1>1. view' = [i |-> view.i + di, j |-> view.j + dj,
               rows |-> Append(view.rows, r)]
  BY DEF Diff!Push
<1>2. /\ Len(net.a) \in Nat /\ Len(net.b) \in Nat /\ N \in Nat
      /\ view.i \in Nat \ {0} /\ view.j \in Nat \ {0}
      /\ view.i <= Len(net.a) + 1 /\ view.j <= Len(net.b) + 1
      /\ view.rows \in Seq(DiffRow) /\ DOMAIN view.rows = 1 .. N
      /\ N <= view.i + view.j - 2
  BY <1>v, LenProperties DEF DiffTypes
<1>3. /\ di = 1 => Diff!A(view.i) \in Texts \union {None}
      /\ dj = 1 => Diff!B(view.j) \in Texts \union {None}
      /\ Diff!Fits /\ di = 1 => Diff!A(view.i) = net.a[view.i]
      /\ Diff!Fits /\ dj = 1 => Diff!B(view.j) = net.b[view.j]
  <2>1. ASSUME di = 1
        PROVE  /\ Diff!A(view.i) \in Texts \union {None}
               /\ Diff!Fits => Diff!A(view.i) = net.a[view.i]
    <3>1. view.i \in 1 .. Len(net.a)
      BY <1>2, <2>1
    <3>2. net.a[view.i] \in Texts
      BY <1>v, <3>1, ElementOfSeq DEF DiffTypes
    <3>3. Diff!Fits => ~(net.level = "word" /\ view.i > MaxWords)
      BY <1>2, <3>1, Bounds DEF Diff!Fits
    <3>4. ~(view.i > Len(net.a))
      BY <1>2, <3>1
    <3> QED BY <3>2, <3>3, <3>4 DEF Diff!A, Diff!Cut
  <2>2. ASSUME dj = 1
        PROVE  /\ Diff!B(view.j) \in Texts \union {None}
               /\ Diff!Fits => Diff!B(view.j) = net.b[view.j]
    <3>1. view.j \in 1 .. Len(net.b)
      BY <1>2, <2>2
    <3>2. net.b[view.j] \in Texts
      BY <1>v, <3>1, ElementOfSeq DEF DiffTypes
    <3>3. Diff!Fits => ~(net.level = "word" /\ view.j > MaxWords)
      BY <1>2, <3>1, Bounds DEF Diff!Fits
    <3>4. ~(view.j > Len(net.b))
      BY <1>2, <3>1
    <3> QED BY <3>2, <3>3, <3>4 DEF Diff!B, Diff!Cut
  <2> QED BY <2>1, <2>2
<1>4. /\ r \in DiffRow /\ r.kind = kind
      /\ Diff!Fits /\ di = 1 => r.left = net.a[view.i]
      /\ Diff!Fits /\ dj = 1 => r.right = net.b[view.j]
  BY <1>3 DEF DiffRow
<1> HIDE DEF r, N
<1>5. /\ view'.rows \in Seq(DiffRow) /\ Len(view'.rows) = N + 1
      /\ \A n \in 1 .. N : view'.rows[n] = view.rows[n]
      /\ view'.rows[N + 1] = r
      /\ DOMAIN view'.rows = 1 .. N + 1
  <2>1. view'.rows = Append(view.rows, r)
    BY <1>1
  <2>2. /\ view'.rows \in Seq(DiffRow) /\ Len(view'.rows) = N + 1
        /\ \A n \in 1 .. N : view'.rows[n] = view.rows[n]
        /\ view'.rows[N + 1] = r
    BY <1>2, <1>4, <2>1, AppendProperties DEF N
  <2> QED BY <2>2, LenProperties
<1>6. view'.i = view.i + di /\ view'.j = view.j + dj
      /\ DOMAIN view' = {"i", "j", "rows"}
  BY <1>1
<1>7. DiffTypes'
  <2>1. /\ view.i + di \in 1 .. Len(net.a) + 1
        /\ view.j + dj \in 1 .. Len(net.b) + 1
    <3>1. view.i + di \in 1 .. Len(net.a) + 1
      <4>1. CASE di = 1
        BY <1>2, <4>1
      <4>2. CASE di = 0
        BY <1>2, <4>2
      <4> QED BY <4>1, <4>2
    <3>2. view.j + dj \in 1 .. Len(net.b) + 1
      <4>1. CASE dj = 1
        BY <1>2, <4>1
      <4>2. CASE dj = 0
        BY <1>2, <4>2
      <4> QED BY <4>1, <4>2
    <3> QED BY <3>1, <3>2
  <2>2. N + 1 <= (view.i + di) + (view.j + dj) - 2
    BY <1>2
  <2> QED BY <1>v, <1>5, <1>6, <2>1, <2>2 DEF DiffTypes
<1>8. ASSUME Diff!Fits
      PROVE  /\ Spells(LeftPlaces, LeftTexts, net.a, view.i - 1)
             /\ Spells(RightPlaces, RightTexts, net.b, view.j - 1)
  BY <1>v, <1>8 DEF DiffColumns
<1>9. /\ LeftPlaces \in SUBSET (1 .. N) /\ RightPlaces \in SUBSET (1 .. N)
      /\ \A n \in 1 .. N : /\ LeftTexts'[n] = LeftTexts[n]
                           /\ RightTexts'[n] = RightTexts[n]
      /\ LeftTexts'[N + 1] = r.left /\ RightTexts'[N + 1] = r.right
  <2>1. \A n \in 1 .. N : n \in 1 .. N + 1
    BY <1>2
  <2>2. N + 1 \in 1 .. N + 1
    BY <1>2
  <2> QED BY <1>2, <1>5, <2>1, <2>2
          DEF LeftPlaces, RightPlaces, LeftTexts, RightTexts
<1>10. /\ LeftPlaces' = IF di = 1 THEN LeftPlaces \union {N + 1} ELSE LeftPlaces
       /\ RightPlaces' = IF dj = 1 THEN RightPlaces \union {N + 1}
                         ELSE RightPlaces
  <2>1. \A n \in 1 .. N + 1 : n \in 1 .. N \/ n = N + 1
    BY <1>2
  <2>2. N + 1 \in 1 .. N + 1 /\ N + 1 \notin 1 .. N
        /\ \A n \in 1 .. N : n \in 1 .. N + 1
    BY <1>2
  <2>3. LeftPlaces' = {n \in 1 .. N + 1 : view'.rows[n].kind # "add"}
        /\ RightPlaces' = {n \in 1 .. N + 1 : view'.rows[n].kind # "del"}
    BY <1>5 DEF LeftPlaces, RightPlaces
  <2>4. LeftPlaces = {n \in 1 .. N : view'.rows[n].kind # "add"}
        /\ RightPlaces = {n \in 1 .. N : view'.rows[n].kind # "del"}
    BY <1>2, <1>5 DEF LeftPlaces, RightPlaces
  <2>5. view'.rows[N + 1].kind = kind
    BY <1>4, <1>5
  <2> QED BY <2>1, <2>2, <2>3, <2>4, <2>5
\* The side that is passed over by the row stays as it was.
<1>11. ASSUME NEW I \in SUBSET (1 .. N), NEW f, NEW g, NEW s, NEW k,
              Spells(I, f, s, k), k \in Nat, \A n \in 1 .. N : g[n] = f[n]
       PROVE  Spells(I, g, s, k)
  <2>1. IsFiniteSet(I) /\ I \in SUBSET Int /\ Cardinality(I) = k
    <3>1. IsFiniteSet(1 .. N)
      BY <1>2, FS_Interval
    <3>2. IsFiniteSet(I)
      BY <3>1, FS_Subset
    <3>3. I \in SUBSET Int
      BY <1>2
    <3> QED BY <1>11, <3>2, <3>3 DEF Spells
  <2>2. \A n \in 1 .. k : Nth(I, n) \in 1 .. N
    BY <2>1, NthFacts
  <2> QED BY <1>11, <2>2 DEF Spells
<1>12. DiffColumns'
  <2> SUFFICES ASSUME Diff!Fits
               PROVE  /\ Spells(LeftPlaces', LeftTexts', net.a, view'.i - 1)
                      /\ Spells(RightPlaces', RightTexts', net.b, view'.j - 1)
    BY DEF DiffColumns, Diff!Fits
  <2>1. PICK k \in Nat : k = view.i - 1 /\ k + 1 = view.i
    BY <1>2
  <2>2. PICK l \in Nat : l = view.j - 1 /\ l + 1 = view.j
    BY <1>2
  <2>3. /\ Spells(LeftPlaces, LeftTexts, net.a, k)
        /\ Spells(RightPlaces, RightTexts, net.b, l)
    BY <1>8, <2>1, <2>2
  <2> DEFINE L == LeftPlaces
             R == RightPlaces
             lt == LeftTexts
             rt == RightTexts
             ltn == LeftTexts'
             rtn == RightTexts'
  <2> HIDE DEF L, R, lt, rt, ltn, rtn
  <2>4. /\ L \in SUBSET (1 .. N) /\ R \in SUBSET (1 .. N)
        /\ \A n \in 1 .. N : ltn[n] = lt[n] /\ rtn[n] = rt[n]
        /\ ltn[N + 1] = r.left /\ rtn[N + 1] = r.right
        /\ Spells(L, lt, net.a, k) /\ Spells(R, rt, net.b, l)
    BY <1>9, <2>3 DEF L, R, lt, rt, ltn, rtn
  <2>5. Spells(IF di = 1 THEN L \union {N + 1} ELSE L, ltn, net.a, k + di)
    <3>1. CASE di = 1
      <4>1. ltn[N + 1] = net.a[k + 1]
        BY <1>4, <2>1, <2>4, <3>1
      <4> QED BY <1>2, <2>4, <3>1, <4>1, SpellsOn
    <3>2. CASE di = 0
      <4>1. k + di = k
        BY <3>2
      <4> QED BY <1>11, <2>4, <3>2, <4>1
    <3> QED BY <3>1, <3>2
  <2>6. Spells(IF dj = 1 THEN R \union {N + 1} ELSE R, rtn, net.b, l + dj)
    <3>1. CASE dj = 1
      <4>1. rtn[N + 1] = net.b[l + 1]
        BY <1>4, <2>2, <2>4, <3>1
      <4> QED BY <1>2, <2>4, <3>1, <4>1, SpellsOn
    <3>2. CASE dj = 0
      <4>1. l + dj = l
        BY <3>2
      <4> QED BY <1>11, <2>4, <3>2, <4>1
    <3> QED BY <3>1, <3>2
  <2>7. k + di = view'.i - 1 /\ l + dj = view'.j - 1
    <3>1. view'.i = (k + 1) + di /\ view'.j = (l + 1) + dj
      BY <1>6, <2>1, <2>2
    <3> QED BY <3>1
  <2>8. /\ LeftPlaces' = (IF di = 1 THEN L \union {N + 1} ELSE L)
        /\ RightPlaces' = (IF dj = 1 THEN R \union {N + 1} ELSE R)
        /\ LeftTexts' = ltn /\ RightTexts' = rtn
    BY <1>10 DEF L, R, ltn, rtn
  <2> QED BY <2>5, <2>6, <2>7, <2>8
<1> QED BY <1>7, <1>12 DEF DiffInv

LEMMA DiffKept == ASSUME DiffInv, Diff!Next PROVE DiffInv'
<1>1. CASE Diff!Same \/ Diff!Modified
  <2>1. view.i <= Len(net.a) /\ view.j <= Len(net.b) /\ UNCHANGED net
    BY <1>1 DEF Diff!Next, Diff!Same, Diff!Modified, Diff!Both
  <2>2. \E kind \in {"same", "mod"} : Diff!Push(kind, 1, 1)
    BY <1>1 DEF Diff!Same, Diff!Modified
  <2> QED BY <2>1, <2>2, DiffPushed
<1>2. CASE Diff!Removed \/ Diff!RestRemoved
  <2>1. /\ view.i <= Len(net.a) /\ UNCHANGED net
        /\ Diff!Push("del", 1, 0)
    BY <1>2 DEF Diff!Next, Diff!Removed, Diff!RestRemoved, Diff!Both
  <2> QED BY <2>1, DiffPushed
<1>3. CASE Diff!Added \/ Diff!RestAdded
  <2>1. /\ view.j <= Len(net.b) /\ UNCHANGED net
        /\ Diff!Push("add", 0, 1)
    BY <1>3 DEF Diff!Next, Diff!Added, Diff!RestAdded, Diff!Both
  <2> QED BY <2>1, DiffPushed
<1> QED BY <1>1, <1>2, <1>3 DEF Diff!Next

LEMMA DiffStutters ==
    ASSUME DiffInv, UNCHANGED <<view, net>> PROVE DiffInv'
BY DEF DiffInv, DiffTypes, DiffColumns, Diff!Fits, LeftPlaces, RightPlaces,
       LeftTexts, RightTexts

LEMMA DiffShows ==
    ASSUME DiffInv PROVE Diff!TypeOK /\ Diff!DiffLosesNothing
<1>v. DiffTypes /\ DiffColumns
  BY DEF DiffInv
<1>1. /\ Len(net.a) \in Nat /\ Len(net.b) \in Nat /\ MaxLen \in Nat
      /\ view.i \in Nat \ {0} /\ view.j \in Nat \ {0}
      /\ view.i <= Len(net.a) + 1 /\ view.j <= Len(net.b) + 1
      /\ Len(net.a) <= MaxLen /\ Len(net.b) <= MaxLen
      /\ \A n \in DOMAIN view.rows : view.rows[n] \in DiffRow
  BY <1>v, LenProperties, ElementOfSeq, Bounds DEF DiffTypes
<1>2. Diff!TypeOK
  <2>1. view.i \in 1 .. MaxLen + 1 /\ view.j \in 1 .. MaxLen + 1
    BY <1>1
  <2> QED BY <1>1, <2>1 DEF Diff!TypeOK, DiffRow
<1>3. \A I : Diff!At(view.rows, I) = At(view.rows, I)
  <2>1. \A S : Diff!Cardinality(S) = Cardinality(S)
    BY DEF Diff!Cardinality, Cardinality, Diff!IsFiniteSet, IsFiniteSet
  <2>2. \A S, n : Diff!Nth(S, n) = Nth(S, n)
    BY <2>1 DEF Diff!Nth, Nth
  <2> QED BY <2>1, <2>2 DEF Diff!At, At
<1>4. Diff!LeftColumn = At(view.rows, LeftPlaces)
      /\ Diff!RightColumn = At(view.rows, RightPlaces)
  BY <1>3 DEF Diff!LeftColumn, Diff!RightColumn, Diff!Without, LeftPlaces,
              RightPlaces
<1>5. LeftPlaces \in SUBSET DOMAIN view.rows
      /\ RightPlaces \in SUBSET DOMAIN view.rows
  BY DEF LeftPlaces, RightPlaces
<1>6. \A s \in Seq(Texts), n \in Nat : n <= Len(s) + 1 /\ n # 0 =>
        SubSeq(s, 1, n - 1) = [m \in 1 .. n - 1 |-> s[m]]
  OBVIOUS
<1>7. ASSUME NEW I \in SUBSET DOMAIN view.rows
      PROVE  /\ DOMAIN At(view.rows, I) = 1 .. Cardinality(I)
             /\ \A n \in 1 .. Cardinality(I) :
                    /\ At(view.rows, I)[n] = view.rows[Nth(I, n)]
                    /\ Nth(I, n) \in DOMAIN view.rows
  <2>1. \A n \in 1 .. Cardinality(I) : Nth(I, n) \in I
    BY <1>v, <1>7, AtFacts DEF DiffTypes
  <2> QED BY <1>7, <2>1 DEF At
<1>8. ASSUME Diff!Fits
      PROVE  /\ [n \in DOMAIN Diff!LeftColumn |-> Diff!LeftColumn[n].left]
                    = SubSeq(net.a, 1, view.i - 1)
             /\ [n \in DOMAIN Diff!RightColumn |-> Diff!RightColumn[n].right]
                    = SubSeq(net.b, 1, view.j - 1)
  <2>1. /\ Spells(LeftPlaces, LeftTexts, net.a, view.i - 1)
        /\ Spells(RightPlaces, RightTexts, net.b, view.j - 1)
    BY <1>v, <1>8 DEF DiffColumns
  <2>2. /\ SubSeq(net.a, 1, view.i - 1) = [m \in 1 .. view.i - 1 |-> net.a[m]]
        /\ SubSeq(net.b, 1, view.j - 1) = [m \in 1 .. view.j - 1 |-> net.b[m]]
    BY <1>v, <1>1, <1>6 DEF DiffTypes
  <2>3. \A n \in 1 .. view.i - 1 : Diff!LeftColumn[n].left = net.a[n]
    BY <1>4, <1>5, <1>7, <2>1 DEF Spells, LeftTexts
  <2>4. \A n \in 1 .. view.j - 1 : Diff!RightColumn[n].right = net.b[n]
    BY <1>4, <1>5, <1>7, <2>1 DEF Spells, RightTexts
  <2>5. DOMAIN Diff!LeftColumn = 1 .. view.i - 1
        /\ DOMAIN Diff!RightColumn = 1 .. view.j - 1
    BY <1>4, <1>5, <1>7, <2>1 DEF Spells
  <2> QED BY <2>2, <2>3, <2>4, <2>5
<1>9. Len(Diff!Unified) <= view.i + view.j - 2
  BY <1>v DEF DiffTypes, Diff!Unified
<1> QED BY <1>2, <1>8, <1>9 DEF Diff!DiffLosesNothing

\* Induction, over a set of numbers: were m the first one missing, m - 1 would
\* be missing too; so the numbers missing up to m map into those below m.
LEMMA SetInduction ==
    ASSUME NEW T, 0 \in T, \A n \in Nat : n \in T => n + 1 \in T
    PROVE  \A n \in Nat : n \in T
<1> SUFFICES ASSUME NEW m \in Nat, m \notin T PROVE FALSE
  OBVIOUS
<1> DEFINE S == {n \in 0 .. m : n \notin T}
           R == S \ {m}
           f == [n \in S |-> n - 1]
<1>1. IsFiniteSet(S) /\ m \in S
  <2>1. IsFiniteSet(0 .. m)
    BY FS_Interval
  <2>2. IsFiniteSet(S)
    BY <2>1, FS_Subset
  <2> QED BY <2>2
<1>2. \A n \in S : n - 1 \in R
  <2> SUFFICES ASSUME NEW n \in S PROVE n - 1 \in R
    OBVIOUS
  <2>1. n \in 0 .. m /\ n \notin T /\ n # 0
    OBVIOUS
  <2>2. n - 1 \in 0 .. m /\ n - 1 # m /\ n - 1 \in Nat /\ n = (n - 1) + 1
    BY <2>1
  <2>3. n - 1 \notin T
    BY <2>1, <2>2
  <2> QED BY <2>2, <2>3
<1>3. f \in [S -> R]
  BY <1>2
<1>4. Cardinality(R) < Cardinality(S) /\ IsFiniteSet(R)
  <2>1. /\ IsFiniteSet(R) /\ Cardinality(R) = Cardinality(S) - 1
        /\ Cardinality(S) \in Nat
    BY <1>1, FS_RemoveElement, FS_CardinalityType
  <2> QED BY <2>1
<1>5. PICK x \in S, y \in S : x # y /\ f[x] = f[y]
  <2> HIDE DEF S, R, f
  <2> QED BY <1>1, <1>3, <1>4, FS_PigeonHole
<1>6. x - 1 = y - 1 /\ x \in Nat /\ y \in Nat
  BY <1>5
<1> QED BY <1>5, <1>6

-----------------------------------------------------------------------------
(* LineDiff: the table exists, and the walk along it is as short as it     *)
(* says.                                                                   *)

Cells(m, n) == (0 .. m) \X (0 .. n)
LcsOf(f, a, b, i, j) ==
    IF i = 0 \/ j = 0 THEN 0
    ELSE IF a[i] = b[j] THEN f[<<i - 1, j - 1>>] + 1
    ELSE Lines!MaxOf(f[<<i - 1, j>>], f[<<i, j - 1>>])
Tabulates(f, a, b, m, n) ==
    /\ f \in [Cells(m, n) -> Nat]
    /\ \A i \in 0 .. m, j \in 0 .. n : f[<<i, j>>] = LcsOf(f, a, b, i, j)

\* By the sum of the two places: what is below it is there already.
LEMMA LcsExists ==
    ASSUME NEW a, NEW b, NEW m \in Nat, NEW n \in Nat
    PROVE  \E f : Tabulates(f, a, b, m, n)
<1> DEFINE D == Cells(m, n)
           Solves(f, k) == \A i \in 0 .. m, j \in 0 .. n :
                i + j <= k => f[<<i, j>>] = LcsOf(f, a, b, i, j)
           T == {k \in Nat : \E f \in [D -> Nat] : Solves(f, k)}
<1>1. 0 \in T
  <2> DEFINE f == [p \in D |-> 0]
  <2>1. f \in [D -> Nat]
    OBVIOUS
  <2>2. \A i \in 0 .. m, j \in 0 .. n : f[<<i, j>>] = 0 /\ (i + j <= 0 => i = 0)
    BY DEF Cells
  <2>3. Solves(f, 0)
    BY <2>2 DEF LcsOf
  <2> QED BY <2>1, <2>3
<1>2. ASSUME NEW f \in [D -> Nat], NEW i \in 0 .. m, NEW j \in 0 .. n
      PROVE  LcsOf(f, a, b, i, j) \in Nat
  <2>1. CASE i = 0 \/ j = 0
    BY <2>1 DEF LcsOf
  <2>2. CASE i # 0 /\ j # 0
    <3>1. /\ i - 1 \in 0 .. m /\ j - 1 \in 0 .. n
      BY <2>2
    <3>2. /\ f[<<i - 1, j - 1>>] \in Nat /\ f[<<i - 1, j>>] \in Nat
          /\ f[<<i, j - 1>>] \in Nat
      BY <3>1 DEF Cells
    <3> QED BY <2>2, <3>2 DEF LcsOf, Lines!MaxOf
  <2> QED BY <2>1, <2>2
<1>3. ASSUME NEW k \in Nat, k \in T PROVE k + 1 \in T
  <2>1. PICK f \in [D -> Nat] : Solves(f, k)
    BY <1>3
  <2> DEFINE g == [p \in D |-> IF p[1] + p[2] = k + 1
                               THEN LcsOf(f, a, b, p[1], p[2]) ELSE f[p]]
  <2>2. \A p \in D : p[1] \in 0 .. m /\ p[2] \in 0 .. n
    BY DEF Cells
  <2>3. g \in [D -> Nat]
    BY <1>2, <2>2
  <2>4. \A i \in 0 .. m, j \in 0 .. n :
            g[<<i, j>>] = IF i + j = k + 1 THEN LcsOf(f, a, b, i, j)
                          ELSE f[<<i, j>>]
    BY DEF Cells
  <2> HIDE DEF g
  <2>5. ASSUME NEW i \in 0 .. m, NEW j \in 0 .. n, i + j <= k + 1
        PROVE  LcsOf(g, a, b, i, j) = LcsOf(f, a, b, i, j)
    <3>1. CASE i = 0 \/ j = 0
      BY <3>1 DEF LcsOf
    <3>2. CASE i # 0 /\ j # 0
      <4>1. /\ i - 1 \in 0 .. m /\ j - 1 \in 0 .. n
            /\ (i - 1) + (j - 1) # k + 1 /\ (i - 1) + j # k + 1
            /\ i + (j - 1) # k + 1
        BY <2>5, <3>2
      <4>2. g[<<i - 1, j - 1>>] = f[<<i - 1, j - 1>>]
        BY <2>4, <4>1
      <4>3. g[<<i - 1, j>>] = f[<<i - 1, j>>]
        BY <2>4, <4>1
      <4>4. g[<<i, j - 1>>] = f[<<i, j - 1>>]
        BY <2>4, <4>1
      <4> QED BY <3>2, <4>2, <4>3, <4>4 DEF LcsOf
    <3> QED BY <3>1, <3>2
  <2>6. Solves(g, k + 1)
    <3> SUFFICES ASSUME NEW i \in 0 .. m, NEW j \in 0 .. n, i + j <= k + 1
                 PROVE  g[<<i, j>>] = LcsOf(g, a, b, i, j)
      OBVIOUS
    <3>1. i + j = k + 1 \/ (i + j # k + 1 /\ i + j <= k)
      OBVIOUS
    <3> QED BY <2>1, <2>4, <2>5, <3>1
  <2>7. k + 1 \in Nat
    OBVIOUS
  <2> HIDE DEF Solves
  <2> QED BY <2>3, <2>6, <2>7
<1> HIDE DEF Solves
<1>4. m + n \in Nat /\ (\A k \in Nat : k \in T => k + 1 \in T)
  BY <1>3
<1> DEFINE U == T
<1> HIDE DEF U
<1>5. \A k \in Nat : k \in U
  <2>1. 0 \in U /\ \A k \in Nat : k \in U => k + 1 \in U
    BY <1>1, <1>4 DEF U
  <2> QED BY <2>1, SetInduction
<1>6. PICK f \in [D -> Nat] : Solves(f, m + n)
  BY <1>4, <1>5 DEF U
<1>7. \A i \in 0 .. m, j \in 0 .. n : i + j <= m + n
  OBVIOUS
<1> QED BY <1>6, <1>7 DEF Solves, Tabulates

\* Whatever satisfies the equation of the table has numbers in it.
LEMMA LcsNumbers ==
    ASSUME NEW a, NEW b, NEW m \in Nat, NEW n \in Nat, NEW f,
           \A i \in 0 .. m, j \in 0 .. n : f[<<i, j>>] = LcsOf(f, a, b, i, j)
    PROVE  \A i \in 0 .. m, j \in 0 .. n : f[<<i, j>>] \in Nat
<1> DEFINE T == {k \in Nat : \A i \in 0 .. m, j \in 0 .. n :
                                i + j <= k => f[<<i, j>>] \in Nat}
<1>1. 0 \in T
  <2>1. \A i \in 0 .. m, j \in 0 .. n : i + j <= 0 => i = 0
    OBVIOUS
  <2>2. \A i \in 0 .. m, j \in 0 .. n : i = 0 => f[<<i, j>>] \in Nat
    <3> SUFFICES ASSUME NEW i \in 0 .. m, NEW j \in 0 .. n, i = 0
                 PROVE  f[<<i, j>>] \in Nat
      OBVIOUS
    <3>1. f[<<i, j>>] = LcsOf(f, a, b, i, j)
      OBVIOUS
    <3> QED BY <3>1 DEF LcsOf
  <2> QED BY <2>1, <2>2
<1>2. ASSUME NEW k \in Nat, k \in T PROVE k + 1 \in T
  <2> SUFFICES ASSUME NEW i \in 0 .. m, NEW j \in 0 .. n, i + j <= k + 1
               PROVE  f[<<i, j>>] \in Nat
    OBVIOUS
  <2>1. CASE i = 0 \/ j = 0
    <3>1. f[<<i, j>>] = LcsOf(f, a, b, i, j)
      OBVIOUS
    <3> QED BY <2>1, <3>1 DEF LcsOf
  <2>2. CASE i # 0 /\ j # 0
    <3>1. /\ i - 1 \in 0 .. m /\ j - 1 \in 0 .. n
          /\ (i - 1) + (j - 1) <= k /\ (i - 1) + j <= k /\ i + (j - 1) <= k
      BY <2>2
    <3>2. /\ f[<<i - 1, j - 1>>] \in Nat /\ f[<<i - 1, j>>] \in Nat
          /\ f[<<i, j - 1>>] \in Nat
      BY <1>2, <3>1
    <3>3. f[<<i, j>>] = LcsOf(f, a, b, i, j)
      OBVIOUS
    <3> QED BY <2>2, <3>2, <3>3 DEF LcsOf, Lines!MaxOf
  <2> QED BY <2>1, <2>2
<1> DEFINE U == T
<1> HIDE DEF U
<1>3. \A k \in Nat : k \in U
  <2>1. 0 \in U /\ \A k \in Nat : k \in U => k + 1 \in U
    BY <1>1, <1>2 DEF U
  <2> QED BY <2>1, SetInduction
<1>4. m + n \in T
  BY <1>3 DEF U
<1>5. \A i \in 0 .. m, j \in 0 .. n : i + j <= m + n
  OBVIOUS
<1> QED BY <1>4, <1>5

LEMMA LinesTable ==
    ASSUME Len(net.a) \in Nat, Len(net.b) \in Nat
    PROVE  \A i \in 0 .. Len(net.a), j \in 0 .. Len(net.b) :
            /\ Lines!Lcs(i, j) \in Nat
            /\ i = 0 \/ j = 0 => Lines!Lcs(i, j) = 0
            /\ i # 0 /\ j # 0 => Lines!Lcs(i, j) =
                IF net.a[i] = net.b[j] THEN Lines!Lcs(i - 1, j - 1) + 1
                ELSE Lines!MaxOf(Lines!Lcs(i - 1, j), Lines!Lcs(i, j - 1))
<1> DEFINE m == Len(net.a)
           n == Len(net.b)
           D == Cells(m, n)
           M == Lines!Matrix
           Whole(f) == f = [p \in D |-> LcsOf(f, net.a, net.b, p[1], p[2])]
<1>1. PICK f : Tabulates(f, net.a, net.b, m, n)
  <2>1. m \in Nat /\ n \in Nat
    OBVIOUS
  <2> HIDE DEF m, n
  <2> QED BY <2>1, LcsExists
<1>2. Whole(f)
  <2>1. \A p \in D : p[1] \in 0 .. m /\ p[2] \in 0 .. n /\ p = <<p[1], p[2]>>
    BY DEF Cells
  <2>2. \A p \in D : f[p] = LcsOf(f, net.a, net.b, p[1], p[2])
    BY <1>1, <2>1 DEF Tabulates
  <2>3. f \in [D -> Nat]
    BY <1>1 DEF Tabulates
  <2> QED BY <2>2, <2>3
<1>3. M = CHOOSE g : Whole(g)
  BY DEF Lines!Matrix, LcsOf, Cells
<1> HIDE DEF M
<1>4. Whole(M)
  <2> HIDE DEF Whole
  <2> QED BY <1>2, <1>3
<1>5. \A i \in 0 .. m, j \in 0 .. n :
            M[<<i, j>>] = LcsOf(M, net.a, net.b, i, j)
  <2> SUFFICES ASSUME NEW i \in 0 .. m, NEW j \in 0 .. n
               PROVE  M[<<i, j>>] = LcsOf(M, net.a, net.b, i, j)
    OBVIOUS
  <2>1. <<i, j>> \in D
    BY DEF Cells
  <2> QED BY <1>4, <2>1
<1>6. \A i \in 0 .. m, j \in 0 .. n : M[<<i, j>>] \in Nat
  BY <1>5, LcsNumbers
<1>7. \A i, j : Lines!Lcs(i, j) = M[<<i, j>>]
  BY DEF Lines!Lcs, M
<1> QED BY <1>5, <1>6, <1>7 DEF LcsOf

\* The places chosen from a list, with one more element in front of it.
LEMMA NthBefore ==
    ASSUME NEW N \in Nat, NEW I \in SUBSET (1 .. N)
    PROVE  LET J == {n + 1 : n \in I}
               K == {1} \union J
               c == Cardinality(I)
           IN  /\ c \in Nat /\ \A n \in 1 .. c : Nth(I, n) \in 1 .. N
               /\ Cardinality(J) = c /\ Cardinality(K) = c + 1
               /\ \A n \in 1 .. c : /\ Nth(J, n) = Nth(I, n) + 1
                                    /\ Nth(K, n + 1) = Nth(I, n) + 1
               /\ Nth(K, 1) = 1
<1> DEFINE J == {n + 1 : n \in I}
           K == {1} \union J
           c == Cardinality(I)
           f == [n \in 1 .. c |-> Nth(I, n) + 1]
           g == [n \in 1 .. c + 1 |-> IF n = 1 THEN 1 ELSE Nth(I, n - 1) + 1]
<1>1. IsFiniteSet(I) /\ I \in SUBSET Int
  <2>1. IsFiniteSet(1 .. N)
    BY FS_Interval
  <2>2. IsFiniteSet(I)
    BY <2>1, FS_Subset
  <2>3. I \in SUBSET Int
    OBVIOUS
  <2> QED BY <2>2, <2>3
<1>2. /\ c \in Nat /\ \A n \in 1 .. c : Nth(I, n) \in I
      /\ \A x \in I : \E n \in 1 .. c : Nth(I, n) = x
      /\ \A m, n \in 1 .. c : m < n => Nth(I, m) < Nth(I, n)
  BY <1>1, NthFacts
<1> HIDE DEF c
<1>3. \A n \in 1 .. c : Nth(I, n) \in 1 .. N /\ Nth(I, n) + 1 \in J
  BY <1>2
<1>4. J \in SUBSET Int /\ K \in SUBSET Int
  BY <1>1
<1>5. /\ Cardinality(J) = c /\ \A n \in 1 .. c : Nth(J, n) = f[n]
  <2>1. f \in [1 .. c -> J]
    BY <1>3
  <2>2. \A m, n \in 1 .. c : m < n => f[m] < f[n]
    BY <1>2, <1>3
  <2>3. \A x \in J : \E n \in 1 .. c : f[n] = x
    BY <1>2
  <2> HIDE DEF f, J
  <2> QED BY <1>2, <1>4, <2>1, <2>2, <2>3, IncreasingIsNth
<1>6. /\ Cardinality(K) = c + 1 /\ \A n \in 1 .. c + 1 : Nth(K, n) = g[n]
  <2>1. \A n \in 1 .. c + 1 : n = 1 \/ (n # 1 /\ n - 1 \in 1 .. c)
    BY <1>2
  <2>2. g \in [1 .. c + 1 -> K]
    BY <1>3, <2>1
  <2>3. ASSUME NEW m \in 1 .. c + 1, NEW n \in 1 .. c + 1, m < n
        PROVE  g[m] < g[n]
    <3>1. n # 1 /\ n - 1 \in 1 .. c /\ g[n] = Nth(I, n - 1) + 1
      BY <1>2, <2>3
    <3>2. CASE m = 1
      BY <1>3, <3>1, <3>2
    <3>3. CASE m # 1
      <4>1. m - 1 \in 1 .. c /\ m - 1 < n - 1 /\ g[m] = Nth(I, m - 1) + 1
        BY <1>2, <2>3, <3>3
      <4>2. Nth(I, m - 1) < Nth(I, n - 1)
        BY <1>2, <3>1, <4>1
      <4> QED BY <1>3, <3>1, <4>1, <4>2
    <3> QED BY <3>2, <3>3
  <2>4. \A x \in K : \E n \in 1 .. c + 1 : g[n] = x
    <3>1. 1 \in 1 .. c + 1 /\ g[1] = 1
      BY <1>2
    <3>2. ASSUME NEW n \in 1 .. c
          PROVE  n + 1 \in 1 .. c + 1 /\ g[n + 1] = Nth(I, n) + 1
      BY <1>2
    <3>3. \A x \in J : \E n \in 1 .. c : Nth(I, n) + 1 = x
      BY <1>2
    <3> HIDE DEF g, J
    <3> QED BY <3>1, <3>2, <3>3
  <2> HIDE DEF g, K
  <2>5. c + 1 \in Nat
    BY <1>2
  <2> DEFINE d == c + 1
  <2>6. /\ d \in Nat /\ g \in [1 .. d -> K]
        /\ \A m, n \in 1 .. d : m < n => g[m] < g[n]
        /\ \A x \in K : \E n \in 1 .. d : g[n] = x
    BY <2>2, <2>3, <2>4, <2>5
  <2> HIDE DEF d
  <2>7. Cardinality(K) = d /\ \A n \in 1 .. d : Nth(K, n) = g[n]
    BY <1>4, <2>6, IncreasingIsNth
  <2> QED BY <2>7 DEF d
<1>7. \A n \in 1 .. c : n + 1 \in 1 .. c + 1 /\ g[n + 1] = Nth(I, n) + 1
  BY <1>2
<1>8. 1 \in 1 .. c + 1 /\ g[1] = 1
  BY <1>2
<1>9. \A n \in 1 .. c : f[n] = Nth(I, n) + 1
  OBVIOUS
<1> HIDE DEF f, g, J, K
<1>10. /\ c \in Nat /\ \A n \in 1 .. c : Nth(I, n) \in 1 .. N
       /\ Cardinality(J) = c /\ Cardinality(K) = c + 1
       /\ \A n \in 1 .. c : /\ Nth(J, n) = Nth(I, n) + 1
                            /\ Nth(K, n + 1) = Nth(I, n) + 1
       /\ Nth(K, 1) = 1
  BY <1>2, <1>3, <1>5, <1>6, <1>7, <1>8, <1>9
<1> QED BY <1>10 DEF J, K, c

\* f at the chosen places, in their order, is what s has after k.
Ends(I, f, s, k) ==
    /\ Cardinality(I) = Len(s) - k
    /\ \A n \in 1 .. Len(s) - k : f[Nth(I, n)] = s[k + n]

\* An element in front: it is passed over, or it is the one before.
LEMMA EndsBefore ==
    ASSUME NEW N \in Nat, NEW I \in SUBSET (1 .. N), NEW f, NEW g, NEW s,
           Len(s) \in Nat, NEW k \in 0 .. Len(s), Ends(I, f, s, k),
           \A n \in 1 .. N : g[n + 1] = f[n]
    PROVE  /\ Ends({n + 1 : n \in I}, g, s, k)
           /\ k # 0 /\ g[1] = s[k]
                => Ends({1} \union {n + 1 : n \in I}, g, s, k - 1)
<1> DEFINE J == {n + 1 : n \in I}
           K == {1} \union J
           c == Len(s) - k
<1>1. /\ c \in Nat /\ Cardinality(I) = c
      /\ \A n \in 1 .. c : f[Nth(I, n)] = s[k + n]
  BY DEF Ends
<1>2. /\ \A n \in 1 .. c : Nth(I, n) \in 1 .. N
      /\ Cardinality(J) = c /\ Cardinality(K) = c + 1
      /\ \A n \in 1 .. c : /\ Nth(J, n) = Nth(I, n) + 1
                           /\ Nth(K, n + 1) = Nth(I, n) + 1
      /\ Nth(K, 1) = 1
  <2> HIDE DEF c
  <2> QED BY <1>1, NthBefore
<1> HIDE DEF J, K
<1>3. \A n \in 1 .. c : g[Nth(J, n)] = s[k + n] /\ g[Nth(K, n + 1)] = s[k + n]
  <2> HIDE DEF c
  <2>1. \A n \in 1 .. c : g[Nth(I, n) + 1] = f[Nth(I, n)]
    BY <1>2
  <2> QED BY <1>1, <1>2, <2>1
<1>4. Ends(J, g, s, k)
  BY <1>1, <1>2, <1>3 DEF Ends
<1>5. ASSUME k # 0, g[1] = s[k] PROVE Ends(K, g, s, k - 1)
  <2>1. Len(s) - (k - 1) = c + 1
    OBVIOUS
  <2>2. \A n \in 1 .. c + 1 :
            n = 1 \/ (n - 1 \in 1 .. c /\ n = (n - 1) + 1 /\ k + (n - 1) = k - 1 + n)
    OBVIOUS
  <2>3. k = k - 1 + 1
    OBVIOUS
  <2> HIDE DEF c
  <2>4. ASSUME NEW n \in 1 .. c + 1 PROVE g[Nth(K, n)] = s[k - 1 + n]
    <3>1. CASE n = 1
      BY <1>2, <1>5, <2>3, <3>1
    <3>2. CASE n # 1
      <4>1. PICK m \in 1 .. c : n = m + 1 /\ k + m = k - 1 + n
        BY <2>2, <3>2
      <4>2. g[Nth(K, m + 1)] = s[k + m]
        BY <1>3
      <4> QED BY <4>1, <4>2
    <3> QED BY <3>1, <3>2
  <2> QED BY <1>2, <2>1, <2>4 DEF Ends
<1> QED BY <1>4, <1>5 DEF J, K

LineRow == [type : {"unchanged", "added", "removed"}, value : Texts]
Keeps(type) == {n \in DOMAIN view.result : view.result[n].type # type}
Values == [n \in DOMAIN view.result |-> view.result[n].value]

LinesTypes ==
    /\ DOMAIN view = {"i", "j", "result"} /\ DOMAIN net = {"a", "b"}
    /\ net.a \in Seq(Texts) /\ Len(net.a) <= MaxLen
    /\ net.b \in Seq(Texts) /\ Len(net.b) <= MaxLen
    /\ view.i \in 0 .. Len(net.a) /\ view.j \in 0 .. Len(net.b)
    /\ view.result \in Seq(LineRow)

LinesSides ==
    /\ Ends(Keeps("added"), Values, net.a, view.i)
    /\ Ends(Keeps("removed"), Values, net.b, view.j)

\* So many lines less than both sides have as the table counts in common.
LinesShort ==
    Len(view.result) = (Len(net.a) - view.i) + (Len(net.b) - view.j)
        - (Lines!Lcs(Len(net.a), Len(net.b)) - Lines!Lcs(view.i, view.j))

LinesInv == LinesTypes /\ LinesSides /\ LinesShort

LEMMA LinesStart == ASSUME Lines!Init PROVE LinesInv
<1>1. PICK a \in Lines!BoundedSeq(Texts, MaxLen),
           b \in Lines!BoundedSeq(Texts, MaxLen) :
        /\ net = [a |-> a, b |-> b]
        /\ view = [i |-> Len(a), j |-> Len(b), result |-> <<>>]
  BY DEF Lines!Init
<1>2. \A s \in Lines!BoundedSeq(Texts, MaxLen) : s \in Seq(Texts) /\ Len(s) <= MaxLen
  <2> SUFFICES ASSUME NEW m \in 0 .. MaxLen, NEW s \in [1 .. m -> Texts]
               PROVE  s \in Seq(Texts) /\ Len(s) <= MaxLen
    BY DEF Lines!BoundedSeq
  <2>1. m \in Nat /\ m <= MaxLen
    BY Bounds
  <2> QED BY <2>1
<1>3. Len(net.a) \in Nat /\ Len(net.b) \in Nat /\ <<>> \in Seq(LineRow)
      /\ Len(view.result) = 0 /\ DOMAIN view.result = {}
  BY <1>1, <1>2, LenProperties, EmptySeq
<1>4. LinesTypes
  BY <1>1, <1>2, <1>3 DEF LinesTypes
<1>5. view.i = Len(net.a) /\ view.j = Len(net.b)
  BY <1>1
<1>6. LinesSides
  <2>1. Keeps("added") = {} /\ Keeps("removed") = {}
    BY <1>3 DEF Keeps
  <2>2. Len(net.a) - view.i = 0 /\ Len(net.b) - view.j = 0
    BY <1>3, <1>5
  <2>3. Cardinality({}) = 0 /\ 1 .. 0 = {}
    BY FS_EmptySet
  <2>4. Ends({}, Values, net.a, view.i)
    BY <2>2, <2>3 DEF Ends
  <2>5. Ends({}, Values, net.b, view.j)
    BY <2>2, <2>3 DEF Ends
  <2> QED BY <2>1, <2>4, <2>5 DEF LinesSides
<1>7. LinesShort
  <2> DEFINE l == Lines!Lcs(Len(net.a), Len(net.b))
  <2>1. l \in Nat
    <3>1. Len(net.a) \in 0 .. Len(net.a) /\ Len(net.b) \in 0 .. Len(net.b)
      BY <1>3
    <3> QED BY <1>3, <3>1, LinesTable
  <2>2. Lines!Lcs(view.i, view.j) = l
    BY <1>5
  <2> HIDE DEF l
  <2>3. l - l = 0 /\ Len(net.a) - view.i = 0 /\ Len(net.b) - view.j = 0
    BY <1>3, <1>5, <2>1
  <2> QED BY <1>3, <2>2, <2>3 DEF LinesShort, l
<1> QED BY <1>4, <1>6, <1>7 DEF LinesInv

\* One row in front, with the text before place i of the left side unless it
\* is added, and before place j of the right side unless it is removed.
LEMMA LinesPushed ==
    ASSUME LinesInv, NEW type \in {"unchanged", "added", "removed"}, NEW value,
           NEW di \in {0, 1}, NEW dj \in {0, 1},
           di = (IF type = "added" THEN 0 ELSE 1),
           dj = (IF type = "removed" THEN 0 ELSE 1),
           di = 1 => view.i > 0 /\ value = net.a[view.i],
           dj = 1 => view.j > 0 /\ value = net.b[view.j],
           Lines!Lcs(view.i - di, view.j - dj)
                = Lines!Lcs(view.i, view.j) - (di + dj - 1),
           Lines!Unshift(type, value, di, dj), UNCHANGED net
    PROVE  LinesInv'
<1> DEFINE r == [type |-> type, value |-> value]
           N == Len(view.result)
           m == Len(net.a)
           n == Len(net.b)
<1>v. LinesTypes /\ LinesSides /\ LinesShort
  BY DEF LinesInv
<1>1. /\ view'.i = view.i - di /\ view'.j = view.j - dj
      /\ view'.result = <<r>> \o view.result
      /\ DOMAIN view' = {"i", "j", "result"}
  BY DEF Lines!Unshift
<1>2. /\ m \in Nat /\ n \in Nat /\ N \in Nat
      /\ view.i \in 0 .. m /\ view.j \in 0 .. n
      /\ view.result \in Seq(LineRow) /\ DOMAIN view.result = 1 .. N
      /\ net.a \in Seq(Texts) /\ net.b \in Seq(Texts)
  BY <1>v, LenProperties DEF LinesTypes
<1>3. value \in Texts
  <2>1. CASE di = 1
    <3>1. view.i \in 1 .. m
      BY <1>2, <2>1
    <3> QED BY <1>2, <2>1, <3>1, ElementOfSeq
  <2>2. CASE dj = 1
    <3>1. view.j \in 1 .. n
      BY <1>2, <2>2
    <3> QED BY <1>2, <2>2, <3>1, ElementOfSeq
  <2>3. di = 1 \/ dj = 1
    OBVIOUS
  <2> QED BY <2>1, <2>2, <2>3
<1>4. r \in LineRow /\ r.type = type /\ r.value = value
  BY <1>3 DEF LineRow
<1> HIDE DEF r, N
<1>5. /\ view'.result \in Seq(LineRow) /\ Len(view'.result) = N + 1
      /\ view'.result[1] = r
      /\ \A k \in 1 .. N : view'.result[k + 1] = view.result[k]
      /\ DOMAIN view'.result = 1 .. N + 1
  <2> DEFINE h == <<r>>
  <2>1. h \in Seq(LineRow) /\ Len(h) = 1 /\ h[1] = r
    BY <1>4
  <2>2. view'.result = h \o view.result
    BY <1>1
  <2> HIDE DEF h
  <2>3. /\ view'.result \in Seq(LineRow)
        /\ Len(view'.result) = Len(h) + Len(view.result)
        /\ \A k \in 1 .. Len(h) : view'.result[k] = h[k]
        /\ \A k \in 1 .. Len(view.result) :
                view'.result[Len(h) + k] = view.result[k]
    <3>1. /\ h \o view.result \in Seq(LineRow)
          /\ Len(h \o view.result) = Len(h) + Len(view.result)
          /\ \A k \in 1 .. Len(h) : (h \o view.result)[k] = h[k]
          /\ \A k \in 1 .. Len(view.result) :
                (h \o view.result)[Len(h) + k] = view.result[k]
      <4> DEFINE t == view.result
      <4>1. h \in Seq(LineRow) /\ t \in Seq(LineRow)
        BY <1>2, <2>1
      <4> HIDE DEF t
      <4>2. /\ h \o t \in Seq(LineRow) /\ Len(h \o t) = Len(h) + Len(t)
            /\ \A k \in 1 .. Len(h) : (h \o t)[k] = h[k]
            /\ \A k \in 1 .. Len(t) : (h \o t)[Len(h) + k] = t[k]
        BY <4>1, JoinFacts
      <4> QED BY <4>2 DEF t
    <3> QED BY <2>2, <3>1
  <2>4. /\ Len(view'.result) = 1 + N
        /\ \A k \in 1 .. N : view'.result[1 + k] = view.result[k]
        /\ view'.result[1] = r
    <3>1. 1 \in 1 .. Len(h)
      BY <2>1
    <3>2. view'.result[1] = r
      BY <2>1, <2>3, <3>1
    <3> QED BY <2>1, <2>3, <3>2 DEF N
  <2>5. /\ 1 + N = N + 1 /\ \A k \in 1 .. N : 1 + k = k + 1
    BY <1>2
  <2>6. DOMAIN view'.result = 1 .. Len(view'.result)
    BY <2>3, LenProperties
  <2> QED BY <2>3, <2>4, <2>5, <2>6
<1>6. LinesTypes'
  <2>1. view.i - di \in 0 .. m
    <3>1. CASE di = 1
      BY <1>2, <3>1
    <3>2. CASE di = 0
      BY <1>2, <3>2
    <3> QED BY <3>1, <3>2
  <2>2. view.j - dj \in 0 .. n
    <3>1. CASE dj = 1
      BY <1>2, <3>1
    <3>2. CASE dj = 0
      BY <1>2, <3>2
    <3> QED BY <3>1, <3>2
  <2> QED BY <1>v, <1>1, <1>5, <2>1, <2>2 DEF LinesTypes
<1>7. \A t \in {"added", "removed"} :
        /\ Keeps(t) \in SUBSET (1 .. N)
        /\ Keeps(t)' = IF t = type THEN {k + 1 : k \in Keeps(t)}
                       ELSE {1} \union {k + 1 : k \in Keeps(t)}
  <2> SUFFICES ASSUME NEW t \in {"added", "removed"}
               PROVE  /\ Keeps(t) \in SUBSET (1 .. N)
                      /\ Keeps(t)' = IF t = type THEN {k + 1 : k \in Keeps(t)}
                                     ELSE {1} \union {k + 1 : k \in Keeps(t)}
    OBVIOUS
  <2>1. /\ Keeps(t) = {k \in 1 .. N : view.result[k].type # t}
        /\ Keeps(t)' = {k \in 1 .. N + 1 : view'.result[k].type # t}
    BY <1>2, <1>5 DEF Keeps
  <2>2. \A k \in 1 .. N + 1 : k = 1 \/ (k # 1 /\ k - 1 \in 1 .. N /\ k = k - 1 + 1)
    BY <1>2
  <2>3. \A k \in 1 .. N : k + 1 \in 1 .. N + 1 /\ k + 1 # 1
    BY <1>2
  <2>4. \A k \in 1 .. N : view'.result[k + 1].type = view.result[k].type
    BY <1>5
  <2>5. 1 \in 1 .. N + 1 /\ view'.result[1].type = type
    BY <1>2, <1>4, <1>5
  <2>6. \A k \in 1 .. N + 1 : k \in Keeps(t)' <=>
            IF k = 1 THEN t # type ELSE k - 1 \in Keeps(t)
    BY <2>1, <2>2, <2>4, <2>5
  <2>7. \A k : k \in Keeps(t)' => k \in 1 .. N + 1
    BY <2>1
  <2>8. \A k : k \in Keeps(t) => k \in 1 .. N
    BY <2>1
  <2>9. {k + 1 : k \in Keeps(t)} = {k \in 1 .. N + 1 : k # 1 /\ k - 1 \in Keeps(t)}
    BY <1>2, <2>2, <2>3, <2>8
  <2> DEFINE old == Keeps(t)
             now == Keeps(t)'
             J == {k + 1 : k \in Keeps(t)}
  <2>10. \A k : k \in J <=> k \in 1 .. N + 1 /\ k # 1 /\ k - 1 \in old
    BY <2>9
  <2> HIDE DEF J, now, old
  <2>11. now = IF t = type THEN J ELSE {1} \union J
    BY <2>5, <2>6, <2>7, <2>10 DEF now, old
  <2> QED BY <2>8, <2>11 DEF now, J
<1>8. /\ \A k \in 1 .. N : Values'[k + 1] = Values[k]
      /\ Values'[1] = value
  <2>1. \A k \in 1 .. N : k + 1 \in 1 .. N + 1
    BY <1>2
  <2>2. 1 \in 1 .. N + 1
    BY <1>2
  <2> QED BY <1>2, <1>4, <1>5, <2>1, <2>2 DEF Values
<1>9. LinesSides'
  <2> DEFINE L == Keeps("added")
             R == Keeps("removed")
             f == Values
             g == Values'
             a == net.a
             b == net.b
  <2>1. /\ L \in SUBSET (1 .. N) /\ R \in SUBSET (1 .. N)
        /\ Ends(L, f, a, view.i) /\ Ends(R, f, b, view.j)
        /\ \A k \in 1 .. N : g[k + 1] = f[k]
        /\ g[1] = value
        /\ Len(a) \in Nat /\ Len(b) \in Nat
        /\ view.i \in 0 .. Len(a) /\ view.j \in 0 .. Len(b)
    BY <1>v, <1>2, <1>7, <1>8 DEF LinesSides
  <2> HIDE DEF L, R, f, g, a, b
  <2>2. /\ Ends({k + 1 : k \in L}, g, a, view.i)
        /\ view.i # 0 /\ g[1] = a[view.i]
                => Ends({1} \union {k + 1 : k \in L}, g, a, view.i - 1)
    BY <1>2, <2>1, EndsBefore
  <2>3. /\ Ends({k + 1 : k \in R}, g, b, view.j)
        /\ view.j # 0 /\ g[1] = b[view.j]
                => Ends({1} \union {k + 1 : k \in R}, g, b, view.j - 1)
    BY <1>2, <2>1, EndsBefore
  <2>4. Ends(Keeps("added")', g, a, view'.i)
    <3>1. CASE di = 0
      <4>1. view'.i = view.i /\ type = "added"
        BY <1>1, <1>2, <3>1
      <4>2. Keeps("added")' = {k + 1 : k \in L}
        BY <1>7, <4>1 DEF L
      <4> QED BY <2>2, <4>1, <4>2
    <3>2. CASE di = 1
      <4>1. view'.i = view.i - 1 /\ type # "added" /\ view.i # 0
        BY <1>1, <1>2, <3>2
      <4>2. Keeps("added")' = {1} \union {k + 1 : k \in L}
        BY <1>7, <4>1 DEF L
      <4>3. g[1] = a[view.i]
        BY <2>1, <3>2 DEF a
      <4> QED BY <2>2, <4>1, <4>2, <4>3
    <3> QED BY <3>1, <3>2
  <2>5. Ends(Keeps("removed")', g, b, view'.j)
    <3>1. CASE dj = 0
      <4>1. view'.j = view.j /\ type = "removed"
        BY <1>1, <1>2, <3>1
      <4>2. Keeps("removed")' = {k + 1 : k \in R}
        BY <1>7, <4>1 DEF R
      <4> QED BY <2>3, <4>1, <4>2
    <3>2. CASE dj = 1
      <4>1. view'.j = view.j - 1 /\ type # "removed" /\ view.j # 0
        BY <1>1, <1>2, <3>2
      <4>2. Keeps("removed")' = {1} \union {k + 1 : k \in R}
        BY <1>7, <4>1 DEF R
      <4>3. g[1] = b[view.j]
        BY <2>1, <3>2 DEF b
      <4> QED BY <2>3, <4>1, <4>2, <4>3
    <3> QED BY <3>1, <3>2
  <2> QED BY <2>4, <2>5 DEF LinesSides, g, a, b
<1>10. LinesShort'
  <2> DEFINE l == Lines!Lcs(m, n)
             c == Lines!Lcs(view.i, view.j)
             d == Lines!Lcs(view'.i, view'.j)
  <2>1. \A i, j : Lines!Lcs(i, j)' = Lines!Lcs(i, j)
    BY DEF Lines!Lcs, Lines!Matrix
  <2>2. l \in Nat /\ c \in Nat /\ d = c - (di + dj - 1)
    <3>1. m \in 0 .. m /\ n \in 0 .. n
      BY <1>2
    <3> QED BY <1>1, <1>2, <3>1, LinesTable
  <2>3. N = (m - view.i) + (n - view.j) - (l - c)
    BY <1>v DEF LinesShort, N
  <2> HIDE DEF l, c, d
  <2>4. N + 1 = (m - view'.i) + (n - view'.j) - (l - d)
    <3>1. view'.i = view.i - di /\ view'.j = view.j - dj
      BY <1>1
    <3>2. PICK i \in Nat, j \in Nat : i = view.i /\ j = view.j
      BY <1>2
    <3>3. view'.i = i - di /\ view'.j = j - dj /\ N = (m - i) + (n - j) - (l - c)
      BY <2>3, <3>1, <3>2
    <3>4. m \in Nat /\ n \in Nat
      BY <1>2
    <3> HIDE DEF m, n
    <3>5. (m - (i - di)) + (n - (j - dj)) - (l - (c - (di + dj - 1)))
            = (m - i) + (n - j) - (l - c) + 1
      BY <2>2, <3>4
    <3> QED BY <2>2, <3>3, <3>5
  <2> QED BY <1>5, <2>1, <2>4 DEF LinesShort, l, d
<1> QED BY <1>6, <1>9, <1>10 DEF LinesInv

LEMMA LinesKept == ASSUME LinesInv, Lines!Next PROVE LinesInv'
<1> DEFINE i == view.i
           j == view.j
<1>1. /\ i \in 0 .. Len(net.a) /\ j \in 0 .. Len(net.b)
      /\ Len(net.a) \in Nat /\ Len(net.b) \in Nat
  BY LenProperties DEF LinesInv, LinesTypes
<1>2. i \in Nat /\ j \in Nat
  BY <1>1
<1>3. /\ Lines!Lcs(i, j) \in Nat
      /\ i = 0 \/ j = 0 => Lines!Lcs(i, j) = 0
      /\ i # 0 /\ j # 0 => Lines!Lcs(i, j) =
            IF net.a[i] = net.b[j] THEN Lines!Lcs(i - 1, j - 1) + 1
            ELSE Lines!MaxOf(Lines!Lcs(i - 1, j), Lines!Lcs(i, j - 1))
  BY <1>1, LinesTable
<1>4. i # 0 => /\ i - 1 \in 0 .. Len(net.a)
               /\ Lines!Lcs(i - 1, j) \in Nat
               /\ j = 0 => Lines!Lcs(i - 1, j) = 0
  BY <1>1, LinesTable
<1>5. j # 0 => /\ j - 1 \in 0 .. Len(net.b)
               /\ Lines!Lcs(i, j - 1) \in Nat
               /\ i = 0 => Lines!Lcs(i, j - 1) = 0
  BY <1>1, LinesTable
<1>6. i - 0 = i /\ j - 0 = j /\ (1 + 1 - 1) = 1 /\ (0 + 1 - 1) = 0
      /\ (1 + 0 - 1) = 0
  BY <1>2
<1>7. CASE Lines!Unchanged
  <2>1. /\ i > 0 /\ j > 0 /\ net.a[i] = net.b[j] /\ UNCHANGED net
        /\ Lines!Unshift("unchanged", net.a[i], 1, 1)
    BY <1>7 DEF Lines!Next, Lines!Unchanged, Lines!Same
  <2>2. i # 0 /\ j # 0
    BY <1>2, <2>1
  <2>3. Lines!Lcs(i - 1, j - 1) \in Nat
    BY <1>1, <1>4, <1>5, <2>2, LinesTable
  <2>4. Lines!Lcs(i - 1, j - 1) = Lines!Lcs(i, j) - (1 + 1 - 1)
    BY <1>3, <2>1, <2>2, <2>3
  <2> QED BY <2>1, <2>4, LinesPushed
<1>8. CASE Lines!Added
  <2>1. /\ ~Lines!Same /\ Lines!AddsFirst /\ UNCHANGED net
        /\ Lines!Unshift("added", net.b[j], 0, 1)
    BY <1>8 DEF Lines!Next, Lines!Added
  <2>2. j > 0 /\ j # 0
    BY <1>2, <2>1 DEF Lines!AddsFirst
  <2>3. Lines!Lcs(i, j - 1) = Lines!Lcs(i, j)
    <3>1. CASE i = 0
      BY <1>3, <1>5, <2>2, <3>1
    <3>2. CASE i # 0
      <4>1. net.a[i] # net.b[j]
        BY <1>2, <2>1, <2>2, <3>2 DEF Lines!Same
      <4>2. Lines!Lcs(i, j - 1) >= Lines!Lcs(i - 1, j)
        BY <2>1, <2>2, <3>2 DEF Lines!AddsFirst
      <4>3. Lines!Lcs(i, j) =
                Lines!MaxOf(Lines!Lcs(i - 1, j), Lines!Lcs(i, j - 1))
        BY <1>3, <2>2, <3>2, <4>1
      <4> QED BY <1>4, <1>5, <2>2, <3>2, <4>2, <4>3 DEF Lines!MaxOf
    <3> QED BY <3>1, <3>2
  <2>4. Lines!Lcs(i - 0, j - 1) = Lines!Lcs(i, j) - (0 + 1 - 1)
    BY <1>3, <1>6, <2>3
  <2> QED BY <2>1, <2>2, <2>4, LinesPushed
<1>9. CASE Lines!Removed
  <2>1. /\ ~Lines!Same /\ ~Lines!AddsFirst /\ i > 0 /\ UNCHANGED net
        /\ Lines!Unshift("removed", net.a[i], 1, 0)
    BY <1>9 DEF Lines!Next, Lines!Removed
  <2>2. i # 0
    BY <1>2, <2>1
  <2>3. Lines!Lcs(i - 1, j) = Lines!Lcs(i, j)
    <3>1. CASE j = 0
      BY <1>3, <1>4, <2>2, <3>1
    <3>2. CASE j # 0
      <4>1. net.a[i] # net.b[j]
        BY <1>2, <2>1, <2>2, <3>2 DEF Lines!Same
      <4>2. ~(Lines!Lcs(i, j - 1) >= Lines!Lcs(i - 1, j))
        BY <2>1, <2>2, <3>2 DEF Lines!AddsFirst
      <4>3. Lines!Lcs(i, j) =
                Lines!MaxOf(Lines!Lcs(i - 1, j), Lines!Lcs(i, j - 1))
        BY <1>3, <2>2, <3>2, <4>1
      <4> QED BY <1>4, <1>5, <2>2, <3>2, <4>2, <4>3 DEF Lines!MaxOf
    <3> QED BY <3>1, <3>2
  <2>4. Lines!Lcs(i - 1, j - 0) = Lines!Lcs(i, j) - (1 + 0 - 1)
    BY <1>3, <1>6, <2>3
  <2> QED BY <2>1, <2>2, <2>4, LinesPushed
<1> QED BY <1>7, <1>8, <1>9 DEF Lines!Next

LEMMA LinesStutter ==
    ASSUME LinesInv, UNCHANGED <<view, net>> PROVE LinesInv'
<1>1. \A i, j : Lines!Lcs(i, j)' = Lines!Lcs(i, j)
  BY DEF Lines!Lcs, Lines!Matrix
<1>2. LinesShort'
  BY <1>1 DEF LinesInv, LinesShort
<1>3. LinesTypes' /\ LinesSides'
  BY DEF LinesInv, LinesTypes, LinesSides, Keeps, Values
<1> QED BY <1>2, <1>3 DEF LinesInv

LEMMA LinesShow ==
    ASSUME LinesInv PROVE Lines!TypeOK /\ Lines!DiffLosesNothing
<1>v. LinesTypes /\ LinesSides /\ LinesShort
  BY DEF LinesInv
<1>1. /\ Len(net.a) \in Nat /\ Len(net.b) \in Nat /\ MaxLen \in Nat
      /\ view.i \in 0 .. Len(net.a) /\ view.j \in 0 .. Len(net.b)
      /\ Len(net.a) <= MaxLen /\ Len(net.b) <= MaxLen
      /\ net.a \in Seq(Texts) /\ net.b \in Seq(Texts)
  BY <1>v, LenProperties, Bounds DEF LinesTypes
<1>2. Lines!TypeOK
  <2>1. view.i \in 0 .. MaxLen /\ view.j \in 0 .. MaxLen
    BY <1>1
  <2> QED BY <1>v, <2>1 DEF LinesTypes, Lines!TypeOK, LineRow
<1> DEFINE side(type) == At(view.result, Keeps(type))
           lside(type) == Lines!At(view.result, {n \in DOMAIN view.result :
                                            view.result[n].type # type})
<1>3. \A type : lside(type) = side(type)
  <2>1. \A S : Lines!Cardinality(S) = Cardinality(S)
    BY DEF Lines!Cardinality, Cardinality, Lines!IsFiniteSet, IsFiniteSet
  <2>2. \A S, n : Lines!Nth(S, n) = Nth(S, n)
    BY <2>1 DEF Lines!Nth, Nth
  <2> QED BY <2>1, <2>2 DEF Lines!At, At, Keeps
<1>4. ASSUME NEW type
      PROVE  /\ DOMAIN side(type) = 1 .. Cardinality(Keeps(type))
             /\ \A n \in 1 .. Cardinality(Keeps(type)) :
                    side(type)[n].value = Values[Nth(Keeps(type), n)]
  <2>1. Keeps(type) \in SUBSET DOMAIN view.result
    BY DEF Keeps
  <2>2. \A n \in 1 .. Cardinality(Keeps(type)) : Nth(Keeps(type), n) \in Keeps(type)
    BY <1>v, <2>1, AtFacts DEF LinesTypes
  <2> QED BY <2>1, <2>2 DEF At, Values
<1>5. ASSUME NEW s \in Seq(Texts), NEW k \in 0 .. Len(s), NEW type,
             Ends(Keeps(type), Values, s, k)
      PROVE  [n \in DOMAIN side(type) |-> side(type)[n].value]
                = SubSeq(s, k + 1, Len(s))
  <2>1. Len(s) \in Nat /\ Len(s) - (k + 1) + 1 = Len(s) - k
    BY LenProperties
  <2>2. SubSeq(s, k + 1, Len(s)) = [n \in 1 .. Len(s) - k |-> s[k + n]]
    BY <2>1
  <2>3. DOMAIN side(type) = 1 .. Len(s) - k
        /\ \A n \in 1 .. Len(s) - k : side(type)[n].value = s[k + n]
    BY <1>4, <1>5 DEF Ends
  <2> HIDE DEF side
  <2> QED BY <2>2, <2>3
<1> HIDE DEF side
<1>6. /\ [n \in DOMAIN side("added") |-> side("added")[n].value]
            = SubSeq(net.a, view.i + 1, Len(net.a))
      /\ [n \in DOMAIN side("removed") |-> side("removed")[n].value]
            = SubSeq(net.b, view.j + 1, Len(net.b))
  BY <1>v, <1>1, <1>5 DEF LinesSides
<1>7. view.i = 0 /\ view.j = 0 =>
        Len(view.result) = Len(net.a) + Len(net.b)
                            - Lines!Lcs(Len(net.a), Len(net.b))
  <2> SUFFICES ASSUME view.i = 0, view.j = 0
               PROVE  Len(view.result) = Len(net.a) + Len(net.b)
                            - Lines!Lcs(Len(net.a), Len(net.b))
    OBVIOUS
  <2>1. /\ Lines!Lcs(view.i, view.j) = 0
        /\ Lines!Lcs(Len(net.a), Len(net.b)) \in Nat
    <3>1. Len(net.a) \in 0 .. Len(net.a) /\ Len(net.b) \in 0 .. Len(net.b)
      BY <1>1
    <3> QED BY <1>1, <3>1, LinesTable
  <2> QED BY <1>v, <1>1, <2>1 DEF LinesShort
<1>8. Lines!DiffLosesNothing
  <2> HIDE DEF lside
  <2>1. lside("added") = side("added") /\ lside("removed") = side("removed")
    BY <1>3
  <2> QED BY <1>6, <1>7, <2>1 DEF Lines!DiffLosesNothing, lside
<1> QED BY <1>2, <1>8

USE ConstantsAssumption

-----------------------------------------------------------------------------
(* TelemetryBoard: what the dialog of the payloads waits for and shows is  *)
(* the row it was opened for.                                              *)

BoardView ==
    /\ {"diff", "payload", "loading", "error", "records"} \subseteq DOMAIN view
    /\ {"fetch", "turns", "rows", "ask", "toasted"} \subseteq DOMAIN net
    /\ view.loading \in BOOLEAN /\ view.records \subseteq Int

BoardInv ==
    /\ BoardView
    /\ net.fetch # None => net.fetch = view.diff
    /\ view.loading = TRUE => net.fetch # None
    /\ view.payload # None => view.payload = view.diff

LEMMA BoardStarts == ASSUME Board!Init PROVE BoardInv
BY DEF Board!Init, BoardInv, BoardView

LEMMA BoardKept == ASSUME BoardInv, Board!Next PROVE BoardInv'
<1>1. ASSUME \/ Board!Arrive \/ Board!ToastFades \/ Board!Regroup
             \/ Board!TypeFilter \/ Board!ChangePage \/ Board!Toggle
             \/ Board!SnapshotGroup \/ Board!SnapshotAnswered
             \/ Board!CloseSnapshot
      PROVE  /\ UNCHANGED <<net.fetch, view.diff, view.payload, view.loading>>
             /\ DOMAIN view' = DOMAIN view /\ DOMAIN net' = DOMAIN net
             /\ view'.records \subseteq Int
  <2>1. CASE Board!Arrive
    BY <2>1 DEF BoardInv, BoardView, Board!Arrive, Board!Ids
  <2>2. CASE Board!ToastFades
    BY <2>2 DEF BoardInv, BoardView, Board!ToastFades
  <2>3. CASE \/ Board!Regroup \/ Board!TypeFilter \/ Board!ChangePage
             \/ Board!Toggle
    BY <2>3 DEF BoardInv, BoardView, Board!Regroup, Board!TypeFilter,
                Board!ChangePage, Board!Toggle, Board!Turned
  <2>4. CASE Board!SnapshotGroup
    BY <2>4 DEF BoardInv, BoardView, Board!SnapshotGroup, Board!Turned
  <2>5. CASE Board!SnapshotAnswered \/ Board!CloseSnapshot
    BY <2>5 DEF BoardInv, BoardView, Board!SnapshotAnswered,
                Board!CloseSnapshot
  <2> QED BY <1>1, <2>1, <2>2, <2>3, <2>4, <2>5
<1>2. ASSUME Board!OpenDiff PROVE BoardInv'
  <2>1. PICK i \in Board!RowsOffered :
          /\ view' = [view EXCEPT !.diff = i, !.payload = None,
                                  !.loading = TRUE, !.error = FALSE]
          /\ net' = [Board!Turned EXCEPT !.fetch = i]
    BY <1>2 DEF Board!OpenDiff
  <2>2. i # None
    <3>1. i \in view.records
      BY DEF Board!RowsOffered, Board!Bucket, Board!Filtered
    <3> QED BY <3>1, ConstantsAssumption DEF BoardInv, BoardView
  <2> QED BY <2>1, <2>2 DEF BoardInv, BoardView, Board!Turned
<1>3. ASSUME Board!PayloadArrives \/ Board!CloseDiff PROVE BoardInv'
  BY <1>3 DEF BoardInv, BoardView, Board!PayloadArrives, Board!CloseDiff
<1>4. ASSUME /\ UNCHANGED <<net.fetch, view.diff, view.payload, view.loading>>
             /\ DOMAIN view' = DOMAIN view /\ DOMAIN net' = DOMAIN net
             /\ view'.records \subseteq Int
      PROVE  BoardInv'
  BY <1>4 DEF BoardInv, BoardView
<1> QED BY <1>1, <1>2, <1>3, <1>4 DEF Board!Next

LEMMA BoardStutters ==
    ASSUME BoardInv, UNCHANGED <<view, net>> PROVE BoardInv'
BY DEF BoardInv, BoardView

LEMMA BoardShows ==
    ASSUME BoardInv PROVE Board!ShownIsCurrent /\ Board!LoadingHasAnEnd
BY DEF BoardInv, BoardView, Board!ShownIsCurrent, Board!DiffShown,
       Board!LoadingHasAnEnd

-----------------------------------------------------------------------------
(* LiveFeed: an answer of SWR sets every panel to the filter selected, and *)
(* a poll that no change of the filter crossed asks for that filter.       *)

FeedFields ==
    /\ DOMAIN view = {"filter", "logs", "seen", "panels"}
    /\ DOMAIN net = {"keyOf", "stamped", "committed", "up", "reached", "wire",
                     "scans", "swr", "poll", "turns", "missed", "crossed"}
    /\ DOMAIN view.panels = Feed!Panels
    /\ net.swr \in {"asked", "idle"} /\ net.crossed \in BOOLEAN

FeedInv ==
    /\ FeedFields
    /\ net.crossed = FALSE => net.poll \in {None, view.filter}
    /\ net.crossed = FALSE /\ net.swr = "idle" =>
            \A p \in Feed!Panels : view.panels[p] = view.filter

FeedSame == UNCHANGED <<view.filter, view.panels, net.swr, net.poll,
                        net.crossed>>

LEMMA FeedStarts == ASSUME Feed!Init PROVE FeedInv
BY DEF Feed!Init, FeedInv, FeedFields

LEMMA FeedQuiet == ASSUME FeedInv, FeedSame, FeedFields' PROVE FeedInv'
BY DEF FeedInv, FeedSame

LEMMA FeedKept == ASSUME FeedInv, Feed!Next PROVE FeedInv'
<1> USE DEF FeedInv, FeedFields
<1>1. ASSUME Feed!StampRow \/ Feed!CommitRow \/ Feed!Connect
      PROVE  FeedSame /\ FeedFields'
  BY <1>1, ZenonT(60) DEF FeedSame, Feed!StampRow, Feed!CommitRow, Feed!Connect
<1>2. ASSUME Feed!ConnectionDrops \/ Feed!Event
      PROVE  FeedSame /\ FeedFields'
  <2>1. CASE Feed!ConnectionDrops
    BY <2>1 DEF FeedSame, Feed!ConnectionDrops, Feed!Disconnected
  <2>2. CASE Feed!Event
    <3>1. /\ \/ view' = view
             \/ \E seen, logs : view' = [view EXCEPT !.seen = seen,
                                                     !.logs = logs]
          /\ \E wire : net' = [net EXCEPT !.wire = wire]
      BY <2>2 DEF Feed!Event
    <3> QED BY <3>1 DEF FeedSame
  <2> QED BY <1>2, <2>1, <2>2
<1>3. ASSUME NEW i \in Feed!ScanIds, Feed!Scan(i) \/ Feed!ScanAnswered(i)
      PROVE  FeedSame /\ FeedFields'
  BY <1>3 DEF FeedSame, Feed!Scan, Feed!ScanAnswered
<1>4. ASSUME Feed!SwrAnswers PROVE FeedInv'
  BY <1>4 DEF Feed!SwrAnswers
<1>5. ASSUME Feed!Focus PROVE FeedInv'
  BY <1>5 DEF Feed!Focus
<1>6. ASSUME Feed!Poll PROVE FeedInv'
  BY <1>6 DEF Feed!Poll
<1>7. ASSUME Feed!PollAnswers PROVE FeedInv'
  BY <1>7 DEF Feed!PollAnswers
<1>8. ASSUME NEW f \in Feed!Filters, Feed!Filter(f) PROVE FeedInv'
  BY <1>8 DEF Feed!Filter, Feed!Disconnected
<1> QED BY <1>1, <1>2, <1>3, <1>4, <1>5, <1>6, <1>7, <1>8, FeedQuiet
        DEF Feed!Next

LEMMA FeedShows == ASSUME FeedInv PROVE Feed!ShownIsCurrent
BY DEF FeedInv, FeedFields, Feed!ShownIsCurrent, Feed!Shown, Feed!Gauges,
       Feed!ValueSaved, Feed!HitRatio, Feed!CostChart, Feed!IntentShare,
       Feed!ClassTable, Feed!ProviderCards, Feed!Panels

LEMMA FeedStutters ==
    ASSUME FeedInv, UNCHANGED <<view, net>> PROVE FeedInv'
BY DEF FeedInv, FeedFields

-----------------------------------------------------------------------------
(* AlertRules: unless two requests crossed, at most one is on its way, and *)
(* what it has brought is what the server holds, but for the changes whose *)
(* answers will make the panel ask again.                                  *)

RulesFields ==
    /\ DOMAIN view = {"rules", "events", "unacked", "showForm", "editing",
                      "error"}
    /\ DOMAIN net = {"rules", "events", "used", "fetches", "calls", "changes",
                     "crossed", "stale"}
    /\ net.crossed \in BOOLEAN /\ net.stale \in BOOLEAN
    /\ net.changes \in Nat

RulesFetch(f) == /\ DOMAIN f = {"at", "rules", "events"}
                 /\ f.at \in {"none", "sent"}
                 /\ f.at = "none" => f.rules = None /\ f.events = None

RulesCall(c) == /\ DOMAIN c = {"at", "op", "id", "data"}
                /\ c.at \in {"none", "sent", "ok", "bad"}
                /\ c.at # "none" => c.op \in {"create", "update", "delete",
                                              "ack"}

RulesNet == /\ RulesFields
            /\ DOMAIN net.fetches = Rules!FetchIds
            /\ DOMAIN net.calls = Rules!CallIds
            /\ \A i \in Rules!FetchIds : RulesFetch(net.fetches[i])
            /\ \A c \in Rules!CallIds :
                /\ RulesCall(net.calls[c])
                /\ c > net.changes => net.calls[c].at = "none"

\* What an answer shows is what there is.
RulesFresh(f) ==
    /\ f.rules # None => /\ f.rules.rules = net.rules
                         /\ f.rules.unacked = Rules!Cardinality(net.events)
    /\ f.events # None => f.events.open = net.events

\* No change has been made that is not answered yet.
RulesSettled == \A c \in Rules!CallIds : net.calls[c].at # "ok"

RulesCurrent ==
    net.crossed = FALSE =>
        /\ \A i, j \in Rules!FetchIds :
            net.fetches[i].at = "sent" /\ net.fetches[j].at = "sent" => i = j
        /\ net.stale = FALSE /\ RulesSettled =>
            /\ \A i \in Rules!FetchIds : RulesFresh(net.fetches[i])
            /\ (\A i \in Rules!FetchIds : net.fetches[i].at = "none") =>
                /\ view.rules = net.rules /\ view.events = net.events
                /\ view.unacked = Rules!Cardinality(net.events)

RulesInv == RulesNet /\ RulesCurrent

\* A request for everything: it crosses another one, or its answers are what
\* the panel will show.
LEMMA RulesAsks ==
    ASSUME NEW n, net' = Rules!Asked(n), DOMAIN n = DOMAIN net, RulesFields,
           n.crossed \in BOOLEAN, DOMAIN n.fetches = Rules!FetchIds,
           \A i \in Rules!FetchIds : RulesFetch(n.fetches[i])
    PROVE  /\ DOMAIN net' = DOMAIN net
           /\ net'.rules = n.rules /\ net'.events = n.events
           /\ net'.calls = n.calls /\ net'.changes = n.changes
           /\ net'.crossed \in BOOLEAN /\ net'.stale \in BOOLEAN
           /\ DOMAIN net'.fetches = Rules!FetchIds
           /\ \A i \in Rules!FetchIds : RulesFetch(net'.fetches[i])
           /\ RulesCurrent'
<1> DEFINE free == {i \in Rules!FetchIds : n.fetches[i].at = "none"}
           i0 == CHOOSE i \in free : TRUE
           new == [Rules!NoFetch EXCEPT !.at = "sent"]
<1>1. CASE free = {}
  <2>1. net' = [n EXCEPT !.crossed = TRUE, !.stale = TRUE]
    BY <1>1 DEF Rules!Asked
  <2> QED BY <2>1 DEF RulesFields, RulesCurrent
<1>2. CASE free # {}
  <2>1. net' = [n EXCEPT !.crossed = @ \/ free # Rules!FetchIds,
                         !.fetches[i0] = new, !.stale = FALSE]
    BY <1>2 DEF Rules!Asked
  <2>2. i0 \in Rules!FetchIds
    BY <1>2
  <2>3. /\ DOMAIN net' = DOMAIN net
        /\ net'.rules = n.rules /\ net'.events = n.events
        /\ net'.calls = n.calls /\ net'.changes = n.changes
        /\ net'.crossed = (n.crossed \/ free # Rules!FetchIds)
        /\ net'.fetches = [n.fetches EXCEPT ![i0] = new]
        /\ net'.stale = FALSE
    BY <2>1 DEF RulesFields
  <2>4. RulesFetch(new) /\ new.at = "sent" /\ new.rules = None
            /\ new.events = None
    BY DEF Rules!NoFetch, RulesFetch
  <2> HIDE DEF new, i0
  <2>5. /\ DOMAIN net'.fetches = Rules!FetchIds
        /\ net'.fetches[i0] = new
        /\ \A i \in Rules!FetchIds : i # i0 => net'.fetches[i] = n.fetches[i]
    BY <2>2, <2>3
  <2>6. \A i \in Rules!FetchIds : RulesFetch(net'.fetches[i])
    BY <2>4, <2>5
  <2>7. RulesCurrent'
    <3> SUFFICES ASSUME net'.crossed = FALSE PROVE RulesCurrent'
      BY DEF RulesCurrent
    <3>1. \A i \in Rules!FetchIds : i # i0 =>
            /\ net'.fetches[i].at = "none" /\ net'.fetches[i].rules = None
            /\ net'.fetches[i].events = None
      BY <2>3, <2>5, ZenonT(60) DEF RulesFetch
    <3>2. \A i \in Rules!FetchIds : RulesFresh(net.fetches[i])'
      BY <2>4, <2>5, <3>1 DEF RulesFresh
    <3> QED BY <2>2, <2>4, <2>5, <3>1, <3>2 DEF RulesCurrent
  <2> QED BY <2>3, <2>5, <2>6, <2>7
<1> QED BY <1>1, <1>2

LEMMA RulesStarts == ASSUME Rules!Init PROVE RulesInv
<1>1. PICK ids \in SUBSET Alerts : \E open \in {{}, ids} :
        /\ view = [rules |-> Rules!NoRules, events |-> {}, unacked |-> 0,
                   showForm |-> FALSE, editing |-> None, error |-> FALSE]
        /\ net = [rules |-> [r \in ids |-> [metric |-> "error_rate",
                                            enabled |-> TRUE]],
                  events |-> open, used |-> ids,
                  fetches |-> [i \in Rules!FetchIds |-> IF i = 1
                        THEN [Rules!NoFetch EXCEPT !.at = "sent"]
                        ELSE Rules!NoFetch],
                  calls |-> [i \in Rules!CallIds |-> Rules!NoCall],
                  changes |-> 0, crossed |-> FALSE, stale |-> FALSE]
  BY DEF Rules!Init
<1>2. 1 \in Rules!FetchIds
  BY DEF Rules!FetchIds
<1>3. \A i \in Rules!FetchIds :
        /\ RulesFetch(net.fetches[i]) /\ RulesFresh(net.fetches[i])
        /\ net.fetches[i].at = "sent" => i = 1
        /\ i = 1 => net.fetches[i].at = "sent"
  BY <1>1 DEF Rules!NoFetch, RulesFetch, RulesFresh
<1>4. \A c \in Rules!CallIds :
        RulesCall(net.calls[c]) /\ net.calls[c].at = "none"
  BY <1>1 DEF Rules!NoCall, RulesCall
<1>5. RulesFields
  BY <1>1 DEF RulesFields
<1>6. DOMAIN net.fetches = Rules!FetchIds /\ DOMAIN net.calls = Rules!CallIds
  BY <1>1
<1> QED BY <1>2, <1>3, <1>4, <1>5, <1>6 DEF RulesInv, RulesNet, RulesCurrent

LEMMA RulesShows == ASSUME RulesInv PROVE Rules!ShownIsCurrent
<1> SUFFICES ASSUME Rules!Pending = {}, Rules!InFlight = {}, ~net.stale,
                    ~net.crossed
             PROVE  /\ view.rules = net.rules /\ view.events = net.events
                    /\ view.unacked = Rules!Cardinality(view.events)
  BY DEF Rules!ShownIsCurrent
<1>1. net.crossed = FALSE /\ net.stale = FALSE
  BY DEF RulesInv, RulesNet, RulesFields
<1>2. RulesSettled
  BY DEF RulesSettled, Rules!InFlight
<1>3. \A i \in Rules!FetchIds : net.fetches[i].at = "none"
  BY DEF Rules!Pending
<1> QED BY <1>1, <1>2, <1>3 DEF RulesInv, RulesCurrent

LEMMA RulesSend ==
    ASSUME RulesInv, NEW op \in {"create", "update", "delete", "ack"},
           NEW r, NEW d, Rules!Send(op, r, d)
    PROVE  RulesInv'
<1> DEFINE c == net.changes + 1
           new == [at |-> "sent", op |-> op, id |-> r, data |-> d]
<1>1. /\ net.changes < MaxChanges /\ UNCHANGED view
      /\ net' = [net EXCEPT !.changes = c, !.calls[c] = new]
  BY DEF Rules!Send
<1>2. c \in Rules!CallIds /\ c \in Nat /\ net.changes \in Nat
  BY <1>1, Bounds, SMTT(30) DEF RulesInv, RulesNet, RulesFields, Rules!CallIds
<1> HIDE DEF c
<1>3. /\ net'.calls = [net.calls EXCEPT ![c] = new]
      /\ net'.changes = c /\ DOMAIN net' = DOMAIN net
      /\ UNCHANGED <<net.rules, net.events, net.fetches, net.crossed,
                     net.stale>>
  BY <1>1 DEF RulesInv, RulesNet, RulesFields
<1>4. RulesCall(new) /\ new.at = "sent"
  BY DEF RulesCall
<1> HIDE DEF new
<1>5. /\ net'.calls[c] = new /\ DOMAIN net'.calls = Rules!CallIds
      /\ \A j \in Rules!CallIds : j # c => net'.calls[j] = net.calls[j]
  BY <1>2, <1>3 DEF RulesInv, RulesNet
<1>6. net.calls[c].at = "none"
  BY <1>2 DEF RulesInv, RulesNet, c
<1>7. \A j \in Rules!CallIds :
        /\ RulesCall(net'.calls[j])
        /\ j > net'.changes => net'.calls[j].at = "none"
  <2> SUFFICES ASSUME NEW j \in Rules!CallIds
               PROVE  /\ RulesCall(net'.calls[j])
                      /\ j > net'.changes => net'.calls[j].at = "none"
    OBVIOUS
  <2>1. CASE j = c
    BY <1>2, <1>3, <1>4, <1>5, <2>1
  <2>2. CASE j # c
    <3>1. j > net'.changes => j > net.changes
      BY <1>2, <1>3, Bounds DEF c, Rules!CallIds
    <3> QED BY <1>5, <2>2, <3>1 DEF RulesInv, RulesNet
  <2> QED BY <2>1, <2>2
<1>8. RulesNet'
  BY <1>1, <1>2, <1>3, <1>5, <1>7 DEF RulesInv, RulesNet, RulesFields
<1>9. RulesSettled' => RulesSettled
  BY <1>5, <1>6 DEF RulesSettled
<1>10. RulesCurrent'
  BY <1>1, <1>3, <1>9 DEF RulesInv, RulesCurrent, RulesFresh
<1> QED BY <1>8, <1>10 DEF RulesInv

LEMMA RulesForms ==
    ASSUME RulesInv, Rules!NewRule \/ Rules!Edit \/ Rules!Cancel
    PROVE  RulesInv'
<1>1. /\ UNCHANGED <<net, view.rules, view.events, view.unacked>>
      /\ DOMAIN view' = DOMAIN view
  BY DEF Rules!NewRule, Rules!Edit, Rules!Cancel, RulesInv, RulesNet,
         RulesFields
<1> QED BY <1>1 DEF RulesInv, RulesNet, RulesFields, RulesCurrent, RulesFresh,
                    RulesSettled

\* What follows an answer: the call is over and everything is asked for.
LEMMA RulesAnswered ==
    ASSUME RulesInv, NEW c \in Rules!CallIds, Rules!Answered(c)
    PROVE  RulesInv'
<1> DEFINE done == [net EXCEPT !.calls[c] = Rules!NoCall]
<1>1. /\ done.calls = [net.calls EXCEPT ![c] = Rules!NoCall]
      /\ DOMAIN done = DOMAIN net
      /\ done.rules = net.rules /\ done.events = net.events
      /\ done.fetches = net.fetches /\ done.crossed = net.crossed
      /\ done.stale = net.stale /\ done.changes = net.changes
  BY DEF RulesInv, RulesNet, RulesFields
<1>2. /\ DOMAIN view' = DOMAIN view
      /\ UNCHANGED <<view.rules, view.events, view.unacked>>
      /\ \/ net' = Rules!Asked(done)
         \/ net' = done /\ net.calls[c].at = "bad"
  BY DEF Rules!Answered, RulesInv, RulesNet, RulesFields
<1> HIDE DEF done
<1>3. RulesCall(Rules!NoCall) /\ Rules!NoCall.at = "none"
  BY DEF RulesCall, Rules!NoCall
<1>4. /\ DOMAIN done.calls = Rules!CallIds /\ done.calls[c] = Rules!NoCall
      /\ \A j \in Rules!CallIds : j # c => done.calls[j] = net.calls[j]
  BY <1>1 DEF RulesInv, RulesNet
<1>5. \A j \in Rules!CallIds :
        /\ RulesCall(done.calls[j])
        /\ j > done.changes => done.calls[j].at = "none"
  BY <1>1, <1>3, <1>4 DEF RulesInv, RulesNet
<1>6. CASE net' = Rules!Asked(done)
  <2>1. /\ DOMAIN net' = DOMAIN net
        /\ net'.calls = done.calls /\ net'.changes = done.changes
        /\ net'.crossed \in BOOLEAN /\ net'.stale \in BOOLEAN
        /\ DOMAIN net'.fetches = Rules!FetchIds
        /\ \A i \in Rules!FetchIds : RulesFetch(net'.fetches[i])
        /\ RulesCurrent'
    BY <1>1, <1>6, RulesAsks DEF RulesInv, RulesNet, RulesFields
  <2> QED BY <1>1, <1>2, <1>4, <1>5, <2>1 DEF RulesInv, RulesNet, RulesFields
<1>7. CASE net' = done /\ net.calls[c].at = "bad"
  <2>1. RulesNet'
    BY <1>1, <1>2, <1>4, <1>5, <1>7 DEF RulesInv, RulesNet, RulesFields
  <2>2. RulesSettled' => RulesSettled
    BY <1>4, <1>7 DEF RulesSettled
  <2>3. RulesCurrent'
    BY <1>1, <1>2, <1>7, <2>2 DEF RulesInv, RulesCurrent, RulesFresh
  <2> QED BY <2>1, <2>3 DEF RulesInv
<1> QED BY <1>2, <1>6, <1>7

LEMMA RulesPoll == ASSUME RulesInv, Rules!Poll PROVE RulesInv'
<1> DEFINE n == [net EXCEPT !.changes = @ + 1]
<1>1. /\ UNCHANGED view /\ net' = Rules!Asked(n)
      /\ DOMAIN n = DOMAIN net /\ n.changes = net.changes + 1
      /\ n.calls = net.calls /\ n.fetches = net.fetches
      /\ n.crossed = net.crossed
  BY DEF Rules!Poll, RulesInv, RulesNet, RulesFields
<1> HIDE DEF n
<1>2. /\ DOMAIN net' = DOMAIN net
      /\ net'.calls = net.calls /\ net'.changes = net.changes + 1
      /\ net'.crossed \in BOOLEAN /\ net'.stale \in BOOLEAN
      /\ DOMAIN net'.fetches = Rules!FetchIds
      /\ \A i \in Rules!FetchIds : RulesFetch(net'.fetches[i])
      /\ RulesCurrent'
  BY <1>1, RulesAsks DEF RulesInv, RulesNet, RulesFields
<1>3. net'.changes \in Nat /\ \A c \in Rules!CallIds :
        c > net'.changes => net'.calls[c].at = "none"
  BY <1>2, Bounds DEF RulesInv, RulesNet, RulesFields, Rules!CallIds
<1> QED BY <1>1, <1>2, <1>3 DEF RulesInv, RulesNet, RulesFields

LEMMA RulesFails ==
    ASSUME RulesInv,
           (\E i \in Rules!FetchIds : Rules!FetchFails(i)) \/ Rules!OtherDeletes
    PROVE  RulesInv'
<1>1. /\ net'.stale = TRUE /\ DOMAIN net' = DOMAIN net
      /\ net'.changes = net.changes + 1
      /\ UNCHANGED <<net.calls, net.crossed>>
      /\ DOMAIN view' = DOMAIN view
      /\ \/ net'.fetches = net.fetches
         \/ \E i \in Rules!FetchIds :
              net'.fetches = [net.fetches EXCEPT ![i] = Rules!NoFetch]
  <2>1. CASE Rules!OtherDeletes
    BY <2>1 DEF Rules!OtherDeletes, Rules!Deleted, RulesInv, RulesNet,
                RulesFields
  <2>2. ASSUME NEW i \in Rules!FetchIds, Rules!FetchFails(i)
        PROVE  /\ net'.stale = TRUE /\ DOMAIN net' = DOMAIN net
               /\ net'.changes = net.changes + 1
               /\ UNCHANGED <<net.calls, net.crossed>>
               /\ DOMAIN view' = DOMAIN view
               /\ net'.fetches = [net.fetches EXCEPT ![i] = Rules!NoFetch]
    BY <2>2 DEF Rules!FetchFails, RulesInv, RulesNet, RulesFields
  <2> QED BY <2>1, <2>2
<1>2. RulesFetch(Rules!NoFetch) /\ Rules!NoFetch.at = "none"
  BY DEF RulesFetch, Rules!NoFetch
<1>3. /\ DOMAIN net'.fetches = Rules!FetchIds
      /\ \A i \in Rules!FetchIds :
          net'.fetches[i] \in {net.fetches[i], Rules!NoFetch}
  BY <1>1 DEF RulesInv, RulesNet
<1>4. net'.changes \in Nat /\ \A c \in Rules!CallIds :
        c > net'.changes => net'.calls[c].at = "none"
  BY <1>1, Bounds DEF RulesInv, RulesNet, RulesFields, Rules!CallIds
<1>5. RulesNet'
  BY <1>1, <1>2, <1>3, <1>4 DEF RulesInv, RulesNet, RulesFields
<1>6. RulesCurrent'
  BY <1>1, <1>2, <1>3 DEF RulesInv, RulesCurrent
<1> QED BY <1>5, <1>6 DEF RulesInv

\* A request that is answered in part, and one that arrives.
LEMMA RulesServed ==
    ASSUME RulesInv, NEW i \in Rules!FetchIds,
           Rules!ServeRules(i) \/ Rules!ServeEvents(i)
    PROVE  RulesInv'
<1> DEFINE f == net.fetches[i]
<1>1. PICK new :
        /\ net' = [net EXCEPT !.fetches[i] = new]
        /\ UNCHANGED view /\ f.at = "sent"
        /\ RulesFetch(new) /\ new.at = "sent"
        /\ RulesFresh(f) => RulesFresh(new)
  <2>1. CASE Rules!ServeRules(i)
    <3> DEFINE new == [f EXCEPT !.rules =
                        [rules |-> net.rules,
                         unacked |-> Rules!Cardinality(net.events)]]
    <3>1. /\ net' = [net EXCEPT !.fetches[i] = new]
          /\ UNCHANGED view /\ f.at = "sent"
      BY <2>1 DEF Rules!ServeRules
    <3>2. /\ RulesFetch(new) /\ new.at = "sent"
          /\ RulesFresh(f) => RulesFresh(new)
      BY <3>1 DEF RulesInv, RulesNet, RulesFetch, RulesFresh
    <3> HIDE DEF new
    <3> QED BY <3>1, <3>2
  <2>2. CASE Rules!ServeEvents(i)
    <3> DEFINE new == [f EXCEPT !.events = [open |-> net.events]]
    <3>1. /\ net' = [net EXCEPT !.fetches[i] = new]
          /\ UNCHANGED view /\ f.at = "sent"
      BY <2>2 DEF Rules!ServeEvents
    <3>2. /\ RulesFetch(new) /\ new.at = "sent"
          /\ RulesFresh(f) => RulesFresh(new)
      BY <3>1 DEF RulesInv, RulesNet, RulesFetch, RulesFresh
    <3> HIDE DEF new
    <3> QED BY <3>1, <3>2
  <2> QED BY <2>1, <2>2
<1>2. /\ net'.fetches = [net.fetches EXCEPT ![i] = new]
      /\ DOMAIN net' = DOMAIN net
      /\ UNCHANGED <<net.rules, net.events, net.calls, net.changes,
                     net.crossed, net.stale>>
  BY <1>1 DEF RulesInv, RulesNet, RulesFields
<1>3. /\ DOMAIN net'.fetches = Rules!FetchIds /\ net'.fetches[i] = new
      /\ \A j \in Rules!FetchIds : j # i => net'.fetches[j] = net.fetches[j]
  BY <1>2 DEF RulesInv, RulesNet
<1>4. RulesNet'
  BY <1>1, <1>2, <1>3 DEF RulesInv, RulesNet, RulesFields
<1>5. \A j \in Rules!FetchIds : net'.fetches[j].at = net.fetches[j].at
  BY <1>1, <1>3
<1>6. \A j \in Rules!FetchIds :
        RulesFresh(net.fetches[j]) => RulesFresh(net'.fetches[j])
  BY <1>1, <1>3
<1>7. \A j \in Rules!FetchIds :
        RulesFresh(net.fetches[j])' <=> RulesFresh(net'.fetches[j])
  BY <1>2 DEF RulesFresh
<1>8. RulesCurrent'
  BY <1>1, <1>2, <1>5, <1>6, <1>7 DEF RulesInv, RulesCurrent, RulesSettled
<1> QED BY <1>4, <1>8 DEF RulesInv

LEMMA RulesArrives ==
    ASSUME RulesInv, NEW i \in Rules!FetchIds, Rules!Arrives(i)
    PROVE  RulesInv'
<1> DEFINE f == net.fetches[i]
<1>1. /\ f.rules # None /\ f.events # None
      /\ DOMAIN view' = DOMAIN view
      /\ view'.rules = f.rules.rules /\ view'.unacked = f.rules.unacked
      /\ view'.events = f.events.open
      /\ net'.fetches = [net.fetches EXCEPT ![i] = Rules!NoFetch]
      /\ DOMAIN net' = DOMAIN net
      /\ UNCHANGED <<net.rules, net.events, net.calls, net.changes,
                     net.crossed, net.stale>>
  BY DEF Rules!Arrives, RulesInv, RulesNet, RulesFields
<1>2. f.at = "sent" /\ f = net.fetches[i]
  BY <1>1 DEF RulesInv, RulesNet, RulesFetch
<1>3. /\ RulesFetch(Rules!NoFetch) /\ Rules!NoFetch.at = "none"
      /\ RulesFresh(Rules!NoFetch)'
  BY DEF RulesFetch, RulesFresh, Rules!NoFetch
<1> HIDE DEF f
<1>4. /\ DOMAIN net'.fetches = Rules!FetchIds
      /\ net'.fetches[i] = Rules!NoFetch
      /\ \A j \in Rules!FetchIds : j # i => net'.fetches[j] = net.fetches[j]
  BY <1>1 DEF RulesInv, RulesNet
<1>5. RulesNet'
  BY <1>1, <1>3, <1>4 DEF RulesInv, RulesNet, RulesFields
<1>6. RulesCurrent'
  <2> SUFFICES ASSUME net'.crossed = FALSE PROVE RulesCurrent'
    BY DEF RulesCurrent
  <2>1. \A j \in Rules!FetchIds : j # i => net.fetches[j].at # "sent"
    BY <1>1, <1>2 DEF RulesInv, RulesCurrent
  <2>2. \A j \in Rules!FetchIds : net'.fetches[j].at = "none"
    BY <1>3, <1>4, <2>1 DEF RulesInv, RulesNet, RulesFetch
  <2>3. ASSUME net'.stale = FALSE, RulesSettled'
        PROVE  /\ \A j \in Rules!FetchIds : RulesFresh(net.fetches[j])'
               /\ view'.rules = net'.rules /\ view'.events = net'.events
               /\ view'.unacked = Rules!Cardinality(net'.events)
    <3>1. \A j \in Rules!FetchIds : RulesFresh(net.fetches[j])
      BY <1>1, <2>3 DEF RulesInv, RulesCurrent, RulesSettled
    <3>2. \A j \in Rules!FetchIds : RulesFresh(net.fetches[j])'
      <4>1. \A j \in Rules!FetchIds :
              /\ net'.fetches[j].rules = None
              /\ net'.fetches[j].events = None
        BY <1>5, <2>2 DEF RulesNet, RulesFetch
      <4> QED BY <4>1 DEF RulesFresh
    <3>3. /\ f.rules.rules = net.rules /\ f.events.open = net.events
          /\ f.rules.unacked = Rules!Cardinality(net.events)
      BY <1>1, <1>2, <3>1 DEF RulesFresh
    <3> QED BY <1>1, <3>2, <3>3
  <2> QED BY <2>2, <2>3 DEF RulesCurrent
<1> QED BY <1>5, <1>6 DEF RulesInv

\* A change that succeeds will be followed by a request for everything.
LEMMA RulesServe ==
    ASSUME RulesInv, NEW c \in Rules!CallIds, Rules!Serve(c)
    PROVE  RulesInv'
<1> DEFINE call == net.calls[c]
<1>1. PICK how \in {"ok", "bad"} :
        /\ call.at = "sent" /\ UNCHANGED view
        /\ net'.calls = [net.calls EXCEPT ![c].at = how]
        /\ DOMAIN net' = DOMAIN net
        /\ UNCHANGED <<net.fetches, net.changes, net.crossed, net.stale>>
        /\ how = "bad" => UNCHANGED <<net.rules, net.events>>
  <2>1. CASE call.op = "create" /\ Rules!Created(c)
    <3>1. PICK r \in Alerts \ net.used :
            net' = [net EXCEPT !.used = @ \union {r}, !.calls[c].at = "ok",
                    !.rules = [x \in DOMAIN @ \union {r} |->
                        IF x = r THEN net.calls[c].data ELSE @[x]]]
      BY <2>1 DEF Rules!Created
    <3>2. call.at = "sent" /\ UNCHANGED view
      BY DEF Rules!Serve
    <3>3. /\ net'.calls = [net.calls EXCEPT ![c].at = "ok"]
          /\ DOMAIN net' = DOMAIN net
          /\ UNCHANGED <<net.fetches, net.changes, net.crossed, net.stale>>
      BY <3>1 DEF RulesInv, RulesNet, RulesFields
    <3> QED BY <3>2, <3>3
  <2>2. CASE net' = [net EXCEPT !.calls[c].at = "bad"]
    BY <2>2 DEF Rules!Serve, RulesInv, RulesNet, RulesFields
  <2>3. CASE net' = [net EXCEPT !.calls[c].at = "ok",
                        !.rules[call.id] = Rules!Patched(@, call.data)]
    BY <2>3 DEF Rules!Serve, RulesInv, RulesNet, RulesFields
  <2>4. CASE net' = Rules!Deleted([net EXCEPT !.calls[c].at = "ok"], call.id)
    BY <2>4 DEF Rules!Serve, Rules!Deleted, RulesInv, RulesNet, RulesFields
  <2>5. CASE net' = [net EXCEPT !.calls[c].at = "ok",
                                !.events = @ \ {call.id}]
    BY <2>5 DEF Rules!Serve, RulesInv, RulesNet, RulesFields
  <2> QED BY <2>1, <2>2, <2>3, <2>4, <2>5 DEF Rules!Serve
<1> DEFINE new == [call EXCEPT !.at = how]
<1>2. RulesCall(new) /\ new.at = how
  BY <1>1 DEF RulesInv, RulesNet, RulesCall
<1> HIDE DEF new
<1>3. /\ DOMAIN net'.calls = Rules!CallIds /\ net'.calls[c] = new
      /\ \A j \in Rules!CallIds : j # c => net'.calls[j] = net.calls[j]
  BY <1>1 DEF RulesInv, RulesNet, new
<1>4. ~(c > net.changes)
  BY <1>1 DEF RulesInv, RulesNet
<1>5. RulesNet'
  BY <1>1, <1>2, <1>3, <1>4 DEF RulesInv, RulesNet, RulesFields
<1>6. RulesSettled' => RulesSettled /\ how = "bad"
  BY <1>1, <1>2, <1>3 DEF RulesSettled
<1>7. RulesCurrent'
  BY <1>1, <1>6 DEF RulesInv, RulesCurrent, RulesFresh
<1> QED BY <1>5, <1>7 DEF RulesInv

LEMMA RulesKept == ASSUME RulesInv, Rules!Next PROVE RulesInv'
<1>1. ASSUME \/ Rules!CreateRule \/ Rules!UpdateRule \/ Rules!Toggle
             \/ Rules!DeleteRule \/ Rules!AckEvent
      PROVE  RulesInv'
  <2>1. PICK op \in {"create", "update", "delete", "ack"} :
          \E r, d : Rules!Send(op, r, d)
    BY <1>1 DEF Rules!CreateRule, Rules!UpdateRule, Rules!Toggle,
                Rules!DeleteRule, Rules!AckEvent
  <2> QED BY <2>1, RulesSend
<1>2. ASSUME NEW i \in Rules!FetchIds,
             \/ Rules!ServeRules(i) \/ Rules!ServeEvents(i)
             \/ Rules!Arrives(i) \/ Rules!FetchFails(i)
      PROVE  RulesInv'
  BY <1>2, RulesServed, RulesArrives, RulesFails
<1>3. ASSUME NEW c \in Rules!CallIds, Rules!Serve(c) \/ Rules!Answered(c)
      PROVE  RulesInv'
  BY <1>3, RulesServe, RulesAnswered
<1> QED BY <1>1, <1>2, <1>3, RulesPoll, RulesForms, RulesFails
        DEF Rules!Next

LEMMA RulesStutters ==
    ASSUME RulesInv, UNCHANGED <<view, net>> PROVE RulesInv'
BY DEF RulesInv, RulesNet, RulesFields, RulesFetch, RulesCall, RulesCurrent,
       RulesSettled, RulesFresh

\* A list of rules, an answer with one, and what a call sends.
RuleTable(t, ids) ==
    DOMAIN t \subseteq ids /\ \A r \in DOMAIN t : t[r] \in Rules!Rule
RuleAnswer(f) == /\ f.rules # None => RuleTable(f.rules.rules, Alerts)
                 /\ f.events # None => f.events.open \subseteq Alerts
RuleData(c) ==
    c.at # "none" =>
        /\ c.op = "create" => c.data \in Rules!Rule
        /\ c.op = "update" =>
            /\ "metric" \in DOMAIN c.data =>
                c.data.metric \in {"error_rate", "panic_rate"}
            /\ "enabled" \in DOMAIN c.data => c.data.enabled \in BOOLEAN

RulesTypes ==
    /\ net.used \subseteq Alerts
    /\ RuleTable(view.rules, Alerts) /\ RuleTable(net.rules, net.used)
    /\ view.events \subseteq Alerts /\ net.events \subseteq DOMAIN net.rules
    /\ view.editing \in Alerts \union {None}
    /\ net.changes \in 0 .. MaxChanges
    /\ \A i \in Rules!FetchIds : RuleAnswer(net.fetches[i])
    /\ \A c \in Rules!CallIds : RuleData(net.calls[c])

LEMMA RulesTyped == ASSUME RulesTypes PROVE Rules!TypeOK
<1>1. Rules!Range(view.rules) \subseteq Rules!Rule
  BY DEF RulesTypes, RuleTable, Rules!Range
<1>2. Rules!Range(net.rules) \subseteq Rules!Rule
  BY DEF RulesTypes, RuleTable, Rules!Range
<1> QED BY <1>1, <1>2 DEF RulesTypes, RuleTable, Rules!TypeOK

LEMMA RulesTypesStart == ASSUME Rules!Init PROVE RulesTypes
<1>1. PICK ids \in SUBSET Alerts : \E open \in {{}, ids} :
        /\ view = [rules |-> Rules!NoRules, events |-> {}, unacked |-> 0,
                   showForm |-> FALSE, editing |-> None, error |-> FALSE]
        /\ net = [rules |-> [r \in ids |-> [metric |-> "error_rate",
                                            enabled |-> TRUE]],
                  events |-> open, used |-> ids,
                  fetches |-> [i \in Rules!FetchIds |-> IF i = 1
                        THEN [Rules!NoFetch EXCEPT !.at = "sent"]
                        ELSE Rules!NoFetch],
                  calls |-> [i \in Rules!CallIds |-> Rules!NoCall],
                  changes |-> 0, crossed |-> FALSE, stale |-> FALSE]
  BY DEF Rules!Init
<1>2. RuleTable(view.rules, Alerts)
  BY <1>1 DEF RuleTable, Rules!NoRules
<1>3. RuleTable(net.rules, net.used)
  BY <1>1 DEF RuleTable, Rules!Rule
<1>4. \A i \in Rules!FetchIds : RuleAnswer(net.fetches[i])
  BY <1>1 DEF RuleAnswer, Rules!NoFetch
<1>5. \A c \in Rules!CallIds : RuleData(net.calls[c])
  BY <1>1 DEF RuleData, Rules!NoCall
<1>6. net.changes \in 0 .. MaxChanges
  BY <1>1, Bounds
<1>7. /\ net.used \subseteq Alerts /\ view.events \subseteq Alerts
      /\ net.events \subseteq DOMAIN net.rules /\ view.editing = None
  BY <1>1
<1> QED BY <1>2, <1>3, <1>4, <1>5, <1>6, <1>7 DEF RulesTypes

\* A step that changes nothing but the calls, the requests and their number.
LEMMA RulesRest ==
    ASSUME RulesTypes, UNCHANGED <<net.used, net.rules, net.events>>,
           UNCHANGED <<view.rules, view.events>>,
           view'.editing \in Alerts \union {None},
           net'.changes \in 0 .. MaxChanges,
           \A i \in Rules!FetchIds : RuleAnswer(net'.fetches[i]),
           \A c \in Rules!CallIds : RuleData(net'.calls[c])
    PROVE  RulesTypes'
BY DEF RulesTypes

LEMMA RulesTypesForms ==
    ASSUME RulesInv, RulesTypes, Rules!NewRule \/ Rules!Edit \/ Rules!Cancel
    PROVE  RulesTypes'
<1>1. /\ UNCHANGED net /\ UNCHANGED <<view.rules, view.events>>
      /\ view'.editing \in DOMAIN view.rules \union {None}
  BY DEF Rules!NewRule, Rules!Edit, Rules!Cancel, RulesInv, RulesNet,
         RulesFields, Rules!RowsShown
<1>2. view'.editing \in Alerts \union {None}
  BY <1>1 DEF RulesTypes, RuleTable
<1> QED BY <1>1, <1>2 DEF RulesTypes

LEMMA RulesTypesSend ==
    ASSUME RulesInv, RulesTypes, NEW op, NEW r, NEW d, Rules!Send(op, r, d),
           RuleData([at |-> "sent", op |-> op, id |-> r, data |-> d])
    PROVE  RulesTypes'
<1> DEFINE c == net.changes + 1
           new == [at |-> "sent", op |-> op, id |-> r, data |-> d]
<1>1. /\ net.changes < MaxChanges /\ UNCHANGED view
      /\ net' = [net EXCEPT !.changes = c, !.calls[c] = new]
  BY DEF Rules!Send
<1>2. /\ net'.changes \in 0 .. MaxChanges
      /\ net'.calls = [net.calls EXCEPT ![c] = new]
      /\ UNCHANGED <<net.used, net.rules, net.events, net.fetches>>
  BY <1>1, Bounds DEF RulesInv, RulesNet, RulesFields, RulesTypes
<1>3. RuleData(new)
  OBVIOUS
<1> HIDE DEF c, new
<1>4. \A b \in Rules!CallIds : RuleData(net'.calls[b])
  BY <1>2, <1>3 DEF RulesInv, RulesNet, RulesTypes
<1> QED BY <1>1, <1>2, <1>4 DEF RulesTypes

LEMMA RulesTypesChanges ==
    ASSUME RulesInv, RulesTypes,
           \/ Rules!CreateRule \/ Rules!UpdateRule \/ Rules!Toggle
           \/ Rules!DeleteRule \/ Rules!AckEvent
    PROVE  RulesTypes'
<1>1. CASE Rules!CreateRule
  <2>1. PICK d \in Rules!Rule : Rules!Send("create", None, d)
    BY <1>1 DEF Rules!CreateRule
  <2>2. RuleData([at |-> "sent", op |-> "create", id |-> None, data |-> d])
    BY DEF RuleData
  <2> QED BY <2>1, <2>2, RulesTypesSend
<1>2. CASE Rules!UpdateRule
  <2>1. PICK d \in Rules!Rule : Rules!Send("update", view.editing, d)
    BY <1>2 DEF Rules!UpdateRule
  <2>2. RuleData([at |-> "sent", op |-> "update", id |-> view.editing,
                  data |-> d])
    BY DEF RuleData, Rules!Rule
  <2> QED BY <2>1, <2>2, RulesTypesSend
<1>3. CASE Rules!Toggle
  <2>1. PICK r \in DOMAIN view.rules :
            Rules!Send("update", r, [enabled |-> ~view.rules[r].enabled])
    BY <1>3 DEF Rules!Toggle, Rules!RowsShown
  <2>2. RuleData([at |-> "sent", op |-> "update", id |-> r,
                  data |-> [enabled |-> ~view.rules[r].enabled]])
    BY DEF RuleData
  <2> QED BY <2>1, <2>2, RulesTypesSend
<1>4. CASE Rules!DeleteRule \/ Rules!AckEvent
  <2>1. PICK op \in {"delete", "ack"} : \E r : Rules!Send(op, r, None)
    BY <1>4 DEF Rules!DeleteRule, Rules!AckEvent
  <2>2. PICK r : Rules!Send(op, r, None)
    BY <2>1
  <2>3. RuleData([at |-> "sent", op |-> op, id |-> r, data |-> None])
    BY <2>1 DEF RuleData
  <2> QED BY <2>2, <2>3, RulesTypesSend
<1> QED BY <1>1, <1>2, <1>3, <1>4

\* A request for everything changes nothing else.
LEMMA RulesAskedFor ==
    ASSUME NEW n, net' = Rules!Asked(n), DOMAIN n = DOMAIN net, RulesFields,
           DOMAIN n.fetches = Rules!FetchIds,
           \A i \in Rules!FetchIds : RuleAnswer(n.fetches[i])
    PROVE  /\ net'.used = n.used /\ net'.rules = n.rules
           /\ net'.events = n.events /\ net'.calls = n.calls
           /\ net'.changes = n.changes
           /\ \A i \in Rules!FetchIds : RuleAnswer(net'.fetches[i])
<1> DEFINE free == {i \in Rules!FetchIds : n.fetches[i].at = "none"}
           i0 == CHOOSE i \in free : TRUE
           new == [Rules!NoFetch EXCEPT !.at = "sent"]
<1>1. CASE free = {}
  <2>1. net' = [n EXCEPT !.crossed = TRUE, !.stale = TRUE]
    BY <1>1 DEF Rules!Asked
  <2> QED BY <2>1 DEF RulesFields
<1>2. CASE free # {}
  <2>1. net' = [n EXCEPT !.crossed = @ \/ free # Rules!FetchIds,
                         !.fetches[i0] = new, !.stale = FALSE]
    BY <1>2 DEF Rules!Asked
  <2>2. /\ net'.used = n.used /\ net'.rules = n.rules
        /\ net'.events = n.events /\ net'.calls = n.calls
        /\ net'.changes = n.changes
        /\ net'.fetches = [n.fetches EXCEPT ![i0] = new]
    BY <2>1 DEF RulesFields
  <2>3. RuleAnswer(new)
    BY DEF RuleAnswer, Rules!NoFetch
  <2> HIDE DEF new, i0
  <2>4. \A i \in Rules!FetchIds : RuleAnswer(net'.fetches[i])
    BY <2>2, <2>3
  <2> QED BY <2>2, <2>4
<1> QED BY <1>1, <1>2

LEMMA RulesTypesPoll ==
    ASSUME RulesInv, RulesTypes, Rules!Poll PROVE RulesTypes'
<1> DEFINE n == [net EXCEPT !.changes = @ + 1]
<1>1. /\ UNCHANGED view /\ net' = Rules!Asked(n) /\ net.changes < MaxChanges
      /\ DOMAIN n = DOMAIN net /\ n.changes = net.changes + 1
      /\ n.calls = net.calls /\ n.fetches = net.fetches
      /\ n.used = net.used /\ n.rules = net.rules /\ n.events = net.events
  BY DEF Rules!Poll, RulesInv, RulesNet, RulesFields
<1> HIDE DEF n
<1>2. /\ net'.used = n.used /\ net'.rules = n.rules
      /\ net'.events = n.events /\ net'.calls = n.calls
      /\ net'.changes = n.changes
      /\ \A i \in Rules!FetchIds : RuleAnswer(net'.fetches[i])
  BY <1>1, RulesAskedFor DEF RulesInv, RulesNet, RulesTypes
<1>3. net'.changes \in 0 .. MaxChanges
  BY <1>1, <1>2, Bounds DEF RulesTypes
<1> QED BY <1>1, <1>2, <1>3 DEF RulesTypes

LEMMA RulesTypesAnswered ==
    ASSUME RulesInv, RulesTypes, NEW c \in Rules!CallIds, Rules!Answered(c)
    PROVE  RulesTypes'
<1> DEFINE done == [net EXCEPT !.calls[c] = Rules!NoCall]
<1>1. /\ done.calls = [net.calls EXCEPT ![c] = Rules!NoCall]
      /\ DOMAIN done = DOMAIN net /\ done.used = net.used
      /\ done.rules = net.rules /\ done.events = net.events
      /\ done.fetches = net.fetches /\ done.changes = net.changes
  BY DEF RulesInv, RulesNet, RulesFields
<1>2. /\ UNCHANGED <<view.rules, view.events>>
      /\ view'.editing \in {view.editing, None}
      /\ net' = Rules!Asked(done) \/ net' = done
  BY DEF Rules!Answered, RulesInv, RulesNet, RulesFields
<1> HIDE DEF done
<1>3. RuleData(Rules!NoCall)
  BY DEF RuleData, Rules!NoCall
<1>4. \A b \in Rules!CallIds : RuleData(done.calls[b])
  BY <1>1, <1>3 DEF RulesInv, RulesNet, RulesTypes
<1>5. /\ net'.used = done.used /\ net'.rules = done.rules
      /\ net'.events = done.events /\ net'.calls = done.calls
      /\ net'.changes = done.changes
      /\ \A i \in Rules!FetchIds : RuleAnswer(net'.fetches[i])
  <2>1. CASE net' = done
    BY <1>1, <2>1 DEF RulesTypes
  <2>2. CASE net' = Rules!Asked(done)
    BY <1>1, <2>2, RulesAskedFor DEF RulesInv, RulesNet, RulesTypes
  <2> QED BY <1>2, <2>1, <2>2
<1> QED BY <1>1, <1>2, <1>4, <1>5 DEF RulesTypes

LEMMA RulesTypesFetch ==
    ASSUME RulesInv, RulesTypes, NEW i \in Rules!FetchIds,
           \/ Rules!ServeRules(i) \/ Rules!ServeEvents(i)
           \/ Rules!Arrives(i) \/ Rules!FetchFails(i)
    PROVE  RulesTypes'
<1> DEFINE f == net.fetches[i]
<1>1. RuleAnswer(f) /\ RuleAnswer(Rules!NoFetch)
  BY DEF RuleAnswer, Rules!NoFetch, RulesTypes
<1>2. DOMAIN net.fetches = Rules!FetchIds /\ DOMAIN f = {"at", "rules", "events"}
  BY DEF RulesInv, RulesNet, RulesFetch
<1>3. RuleTable(net.rules, Alerts) /\ net.events \subseteq Alerts
  BY DEF RulesTypes, RuleTable
<1>4. ASSUME NEW new, RuleAnswer(new),
             net'.fetches = [net.fetches EXCEPT ![i] = new]
      PROVE  \A j \in Rules!FetchIds : RuleAnswer(net'.fetches[j])
  BY <1>2, <1>4 DEF RulesTypes
<1>5. CASE Rules!ServeRules(i)
  <2> DEFINE new == [f EXCEPT !.rules =
                        [rules |-> net.rules,
                         unacked |-> Rules!Cardinality(net.events)]]
  <2>1. /\ net' = [net EXCEPT !.fetches[i] = new] /\ UNCHANGED view
    BY <1>5 DEF Rules!ServeRules
  <2>2. /\ UNCHANGED <<net.used, net.rules, net.events, net.calls,
                       net.changes>>
        /\ net'.fetches = [net.fetches EXCEPT ![i] = new]
    BY <2>1 DEF RulesInv, RulesNet, RulesFields
  <2>3. RuleAnswer(new)
    BY <1>1, <1>2, <1>3 DEF RuleAnswer
  <2> HIDE DEF new
  <2>4. \A j \in Rules!FetchIds : RuleAnswer(net'.fetches[j])
    BY <1>4, <2>2, <2>3
  <2> QED BY <2>1, <2>2, <2>4 DEF RulesTypes
<1>6. CASE Rules!ServeEvents(i)
  <2> DEFINE new == [f EXCEPT !.events = [open |-> net.events]]
  <2>1. /\ net' = [net EXCEPT !.fetches[i] = new] /\ UNCHANGED view
    BY <1>6 DEF Rules!ServeEvents
  <2>2. /\ UNCHANGED <<net.used, net.rules, net.events, net.calls,
                       net.changes>>
        /\ net'.fetches = [net.fetches EXCEPT ![i] = new]
    BY <2>1 DEF RulesInv, RulesNet, RulesFields
  <2>3. RuleAnswer(new)
    BY <1>1, <1>2, <1>3 DEF RuleAnswer
  <2> HIDE DEF new
  <2>4. \A j \in Rules!FetchIds : RuleAnswer(net'.fetches[j])
    BY <1>4, <2>2, <2>3
  <2> QED BY <2>1, <2>2, <2>4 DEF RulesTypes
<1>7. CASE Rules!Arrives(i)
  <2>1. /\ f.rules # None /\ f.events # None
        /\ view'.rules = f.rules.rules /\ view'.events = f.events.open
        /\ UNCHANGED view.editing
        /\ net'.fetches = [net.fetches EXCEPT ![i] = Rules!NoFetch]
        /\ UNCHANGED <<net.used, net.rules, net.events, net.calls,
                       net.changes>>
    BY <1>7 DEF Rules!Arrives, RulesInv, RulesNet, RulesFields
  <2>2. RuleTable(view'.rules, Alerts) /\ view'.events \subseteq Alerts
    BY <1>1, <2>1 DEF RuleAnswer
  <2>3. \A j \in Rules!FetchIds : RuleAnswer(net'.fetches[j])
    BY <1>1, <1>4, <2>1
  <2> QED BY <2>1, <2>2, <2>3 DEF RulesTypes
<1>8. CASE Rules!FetchFails(i)
  <2>1. /\ UNCHANGED <<view.rules, view.events, view.editing>>
        /\ net.changes < MaxChanges /\ net'.changes = net.changes + 1
        /\ net'.fetches = [net.fetches EXCEPT ![i] = Rules!NoFetch]
        /\ UNCHANGED <<net.used, net.rules, net.events, net.calls>>
    BY <1>8 DEF Rules!FetchFails, RulesInv, RulesNet, RulesFields
  <2>2. net'.changes \in 0 .. MaxChanges
    BY <2>1, Bounds DEF RulesTypes
  <2>3. \A j \in Rules!FetchIds : RuleAnswer(net'.fetches[j])
    BY <1>1, <1>4, <2>1
  <2> QED BY <2>1, <2>2, <2>3 DEF RulesTypes
<1> QED BY <1>5, <1>6, <1>7, <1>8

\* Nothing but the rules, the events and the call served change.
LEMMA RulesChanged ==
    ASSUME RulesTypes, UNCHANGED view,
           UNCHANGED net.fetches, net'.changes \in 0 .. MaxChanges,
           net'.used \subseteq Alerts, RuleTable(net'.rules, net'.used),
           net'.events \subseteq DOMAIN net'.rules,
           \A c \in Rules!CallIds : RuleData(net'.calls[c])
    PROVE  RulesTypes'
BY DEF RulesTypes

LEMMA RulesTypesDeleted ==
    ASSUME RulesTypes, NEW n, NEW r, n.rules = net.rules, n.used = net.used,
           n.events = net.events,
           {"rules", "used", "events", "calls", "fetches", "changes"}
                \subseteq DOMAIN n,
           net' = Rules!Deleted(n, r)
    PROVE  /\ net'.used = net.used /\ RuleTable(net'.rules, net'.used)
           /\ net'.events \subseteq DOMAIN net'.rules
           /\ net'.calls = n.calls /\ net'.fetches = n.fetches
           /\ net'.changes = n.changes
<1> DEFINE left == Rules!Restrict(n.rules, DOMAIN n.rules \ {r})
<1>1. net' = [n EXCEPT !.rules = left, !.events = n.events \ {r}]
  BY DEF Rules!Deleted
<1>2. /\ DOMAIN left = DOMAIN net.rules \ {r}
      /\ \A x \in DOMAIN left : left[x] = net.rules[x]
  BY DEF Rules!Restrict
<1> HIDE DEF left
<1>3. /\ net'.rules = left /\ net'.events = net.events \ {r}
      /\ net'.used = net.used /\ net'.calls = n.calls
      /\ net'.fetches = n.fetches /\ net'.changes = n.changes
  BY <1>1
<1>4. RuleTable(left, net.used) /\ net.events \ {r} \subseteq DOMAIN left
  BY <1>2 DEF RulesTypes, RuleTable
<1> QED BY <1>3, <1>4

LEMMA RulesTypesServe ==
    ASSUME RulesInv, RulesTypes, NEW c \in Rules!CallIds, Rules!Serve(c)
    PROVE  RulesTypes'
<1> DEFINE call == net.calls[c]
<1>1. /\ call.at = "sent" /\ UNCHANGED view /\ RuleData(call)
      /\ DOMAIN call = {"at", "op", "id", "data"}
      /\ DOMAIN net.calls = Rules!CallIds
  BY DEF Rules!Serve, RulesTypes, RulesInv, RulesNet, RulesCall
<1>2. ASSUME NEW how \in {"ok", "bad"},
             net'.calls = [net.calls EXCEPT ![c].at = how]
      PROVE  \A b \in Rules!CallIds : RuleData(net'.calls[b])
  <2> DEFINE new == [call EXCEPT !.at = how]
  <2>1. RuleData(new)
    BY <1>1 DEF RuleData
  <2>2. net'.calls = [net.calls EXCEPT ![c] = new]
    BY <1>2
  <2> HIDE DEF new
  <2> QED BY <1>1, <2>1, <2>2 DEF RulesTypes
<1>3. CASE call.op = "create" /\ Rules!Created(c)
  <2>1. PICK r \in Alerts \ net.used :
            net' = [net EXCEPT !.used = @ \union {r}, !.calls[c].at = "ok",
                    !.rules = [x \in DOMAIN @ \union {r} |->
                        IF x = r THEN net.calls[c].data ELSE @[x]]]
    BY <1>3 DEF Rules!Created
  <2> DEFINE table == [x \in DOMAIN net.rules \union {r} |->
                        IF x = r THEN call.data ELSE net.rules[x]]
  <2>2. /\ net'.used = net.used \union {r} /\ net'.rules = table
        /\ net'.calls = [net.calls EXCEPT ![c].at = "ok"]
        /\ UNCHANGED <<net.events, net.fetches, net.changes>>
    BY <2>1 DEF RulesInv, RulesNet, RulesFields
  <2>3. call.data \in Rules!Rule
    BY <1>1, <1>3 DEF RuleData
  <2>4. RuleTable(table, net.used \union {r}) /\ net.events \subseteq DOMAIN table
    BY <2>3 DEF RuleTable, RulesTypes
  <2> HIDE DEF table, call
  <2>5. \A b \in Rules!CallIds : RuleData(net'.calls[b])
    BY <1>2, <2>2
  <2>6. net.changes \in 0 .. MaxChanges /\ net.used \union {r} \subseteq Alerts
    BY DEF RulesTypes
  <2> QED BY <1>1, <2>2, <2>4, <2>5, <2>6, RulesChanged
<1>4. CASE net' = [net EXCEPT !.calls[c].at = "bad"]
  <2>1. /\ net'.calls = [net.calls EXCEPT ![c].at = "bad"]
        /\ UNCHANGED <<net.used, net.rules, net.events, net.fetches,
                       net.changes>>
    BY <1>4 DEF RulesInv, RulesNet, RulesFields
  <2>2. \A b \in Rules!CallIds : RuleData(net'.calls[b])
    BY <1>2, <2>1
  <2> QED BY <1>1, <2>1, <2>2 DEF RulesTypes
<1>5. CASE /\ call.op = "update" /\ call.id \in DOMAIN net.rules
           /\ net' = [net EXCEPT !.calls[c].at = "ok",
                        !.rules[call.id] = Rules!Patched(@, call.data)]
  <2> DEFINE new == Rules!Patched(net.rules[call.id], call.data)
             table == [net.rules EXCEPT ![call.id] = new]
  <2>1. /\ net'.calls = [net.calls EXCEPT ![c].at = "ok"]
        /\ net'.rules = table
        /\ UNCHANGED <<net.used, net.events, net.fetches, net.changes>>
    BY <1>5 DEF RulesInv, RulesNet, RulesFields
  <2>2. new \in Rules!Rule
    <3>1. net.rules[call.id] \in Rules!Rule
      BY <1>5 DEF RulesTypes, RuleTable
    <3>2. /\ "metric" \in DOMAIN call.data =>
                call.data.metric \in {"error_rate", "panic_rate"}
          /\ "enabled" \in DOMAIN call.data => call.data.enabled \in BOOLEAN
      BY <1>1, <1>5 DEF RuleData
    <3> HIDE DEF call
    <3> QED BY <3>1, <3>2 DEF Rules!Patched, Rules!Rule
  <2> HIDE DEF new
  <2>3. RuleTable(table, net.used) /\ net.events \subseteq DOMAIN table
    BY <2>2 DEF RuleTable, RulesTypes
  <2> HIDE DEF table, call
  <2>4. \A b \in Rules!CallIds : RuleData(net'.calls[b])
    BY <1>2, <2>1
  <2>5. net.changes \in 0 .. MaxChanges /\ net.used \subseteq Alerts
    BY DEF RulesTypes
  <2> QED BY <1>1, <2>1, <2>3, <2>4, <2>5, RulesChanged
<1>6. CASE net' = Rules!Deleted([net EXCEPT !.calls[c].at = "ok"], call.id)
  <2> DEFINE n == [net EXCEPT !.calls[c].at = "ok"]
  <2>1. /\ n.calls = [net.calls EXCEPT ![c].at = "ok"]
        /\ DOMAIN n = DOMAIN net
        /\ n.used = net.used /\ n.rules = net.rules /\ n.events = net.events
        /\ n.fetches = net.fetches /\ n.changes = net.changes
    BY DEF RulesInv, RulesNet, RulesFields
  <2>2. net' = Rules!Deleted(n, call.id)
    BY <1>6
  <2> HIDE DEF n, call
  <2>3. /\ net'.used = net.used /\ RuleTable(net'.rules, net'.used)
        /\ net'.events \subseteq DOMAIN net'.rules
        /\ net'.calls = n.calls /\ net'.fetches = n.fetches
        /\ net'.changes = n.changes
    BY <2>1, <2>2, RulesTypesDeleted DEF RulesInv, RulesNet, RulesFields
  <2>4. \A b \in Rules!CallIds : RuleData(net'.calls[b])
    BY <1>2, <2>1, <2>3
  <2>5. net.changes \in 0 .. MaxChanges /\ net.used \subseteq Alerts
    BY DEF RulesTypes
  <2> QED BY <1>1, <2>1, <2>3, <2>4, <2>5, RulesChanged
<1>7. CASE net' = [net EXCEPT !.calls[c].at = "ok",
                              !.events = @ \ {call.id}]
  <2>1. /\ net'.calls = [net.calls EXCEPT ![c].at = "ok"]
        /\ net'.events = net.events \ {call.id}
        /\ UNCHANGED <<net.used, net.rules, net.fetches, net.changes>>
    BY <1>7 DEF RulesInv, RulesNet, RulesFields
  <2>2. \A b \in Rules!CallIds : RuleData(net'.calls[b])
    BY <1>2, <2>1
  <2> QED BY <1>1, <2>1, <2>2 DEF RulesTypes
<1> QED BY <1>3, <1>4, <1>5, <1>6, <1>7 DEF Rules!Serve

LEMMA RulesTypesOther ==
    ASSUME RulesInv, RulesTypes, Rules!OtherDeletes PROVE RulesTypes'
<1> DEFINE n == [net EXCEPT !.changes = @ + 1, !.stale = TRUE]
<1>1. /\ DOMAIN n = DOMAIN net /\ n.calls = net.calls
      /\ n.used = net.used /\ n.rules = net.rules /\ n.events = net.events
      /\ n.fetches = net.fetches /\ n.changes = net.changes + 1
  BY DEF RulesInv, RulesNet, RulesFields
<1>2. PICK r : net' = Rules!Deleted(n, r)
  BY DEF Rules!OtherDeletes
<1>3. net.changes < MaxChanges /\ UNCHANGED view
  BY DEF Rules!OtherDeletes
<1> HIDE DEF n
<1>4. /\ net'.used = net.used /\ RuleTable(net'.rules, net'.used)
      /\ net'.events \subseteq DOMAIN net'.rules
      /\ net'.calls = n.calls /\ net'.fetches = n.fetches
      /\ net'.changes = n.changes
  BY <1>1, <1>2, RulesTypesDeleted DEF RulesInv, RulesNet, RulesFields
<1>5. net'.changes \in 0 .. MaxChanges /\ net.used \subseteq Alerts
  BY <1>1, <1>3, <1>4, Bounds DEF RulesTypes
<1>6. \A b \in Rules!CallIds : RuleData(net'.calls[b])
  BY <1>1, <1>4 DEF RulesTypes
<1> QED BY <1>1, <1>3, <1>4, <1>5, <1>6, RulesChanged

LEMMA RulesTypesKept ==
    ASSUME RulesInv, RulesTypes, Rules!Next PROVE RulesTypes'
<1>1. ASSUME NEW i \in Rules!FetchIds,
             \/ Rules!ServeRules(i) \/ Rules!ServeEvents(i)
             \/ Rules!Arrives(i) \/ Rules!FetchFails(i)
      PROVE  RulesTypes'
  BY <1>1, RulesTypesFetch
<1>2. ASSUME NEW c \in Rules!CallIds, Rules!Serve(c) \/ Rules!Answered(c)
      PROVE  RulesTypes'
  BY <1>2, RulesTypesServe, RulesTypesAnswered
<1> QED BY <1>1, <1>2, RulesTypesPoll, RulesTypesForms, RulesTypesChanges,
           RulesTypesOther DEF Rules!Next

LEMMA RulesTypesStutter ==
    ASSUME RulesTypes, UNCHANGED <<view, net>> PROVE RulesTypes'
BY DEF RulesTypes

-----------------------------------------------------------------------------
(* What Pages_proofs says of its pages it says of the same pages here.     *)

P == INSTANCE Pages_proofs

LEMMA SameRecord ==
    /\ Record!Init <=> P!Record!Init
    /\ Record!Next <=> P!Record!Next
    /\ Record!TypeOK <=> P!Record!TypeOK
    /\ Record!RecordingIsTagged <=> P!Record!RecordingIsTagged
    /\ Record!StopRemovesItsTag <=> P!Record!StopRemovesItsTag
BY DEF Record!Sids, P!Record!Sids, Record!CallIds, P!Record!CallIds,
       Record!NoCall, P!Record!NoCall, Record!Free, P!Record!Free,
       Record!Init, P!Record!Init, Record!RecordButton, P!Record!RecordButton,
       Record!ConfigDialog, P!Record!ConfigDialog, Record!SummaryDialog,
       P!Record!SummaryDialog, Record!SnapshotButton, P!Record!SnapshotButton,
       Record!Call, P!Record!Call, Record!OpenConfig, P!Record!OpenConfig,
       Record!CloseConfig, P!Record!CloseConfig, Record!StartRecording,
       P!Record!StartRecording, Record!StopRecording, P!Record!StopRecording,
       Record!Snapshot, P!Record!Snapshot, Record!CloseSummary,
       P!Record!CloseSummary, Record!ServeStart, P!Record!ServeStart,
       Record!Untagged, P!Record!Untagged, Record!ServeStop,
       P!Record!ServeStop, Record!Fails, P!Record!Fails, Record!TagExpires,
       P!Record!TagExpires, Record!Started, P!Record!Started, Record!Stopped,
       P!Record!Stopped, Record!Summarised, P!Record!Summarised, Record!Next,
       P!Record!Next, Record!TypeOK, P!Record!TypeOK,
       Record!RecordingIsTagged, P!Record!RecordingIsTagged,
       Record!StopRemovesItsTag, P!Record!StopRemovesItsTag

LEMMA SamePlay ==
    /\ Play!Init <=> P!Play!Init
    /\ Play!Next <=> P!Play!Next
    /\ Play!TypeOK <=> P!Play!TypeOK
    /\ Play!AnswersStayInTurn <=> P!Play!AnswersStayInTurn
    /\ Play!LoadingHasAnEnd <=> P!Play!LoadingHasAnEnd
BY DEF Play!Panels, P!Play!Panels, Play!Turns, P!Play!Turns, Play!Bubble,
       P!Play!Bubble, Play!Idle, P!Play!Idle, Play!Init, P!Play!Init,
       Play!Turn, P!Play!Turn, Play!Turned, P!Play!Turned, Play!SettingsOf,
       P!Play!SettingsOf, Play!KeysOffered, P!Play!KeysOffered, Play!Bubbles,
       P!Play!Bubbles, Play!PanelsShown, P!Play!PanelsShown,
       Play!ClearOffered, P!Play!ClearOffered, Play!SendOffered,
       P!Play!SendOffered, Play!KeysArrive, P!Play!KeysArrive,
       Play!ForkArrives, P!Play!ForkArrives, Play!ForkFails, P!Play!ForkFails,
       Play!SelectKey, P!Play!SelectKey, Play!ToggleLinked,
       P!Play!ToggleLinked, Play!ToggleSideBySide, P!Play!ToggleSideBySide,
       Play!HandleClear, P!Play!HandleClear, Play!Asked, P!Play!Asked,
       Play!Said, P!Play!Said, Play!HandleSend, P!Play!HandleSend,
       Play!OnLast, P!Play!OnLast, Play!Advance, P!Play!Advance, Play!Chunk,
       P!Play!Chunk, Play!Stats, P!Play!Stats, Play!DoneSeen, P!Play!DoneSeen,
       Play!EndStats, P!Play!EndStats, Play!Ended, P!Play!Ended, Play!Broken,
       P!Play!Broken, Play!AllEnded, P!Play!AllEnded, Play!Next, P!Play!Next,
       Play!TypeOK, P!Play!TypeOK, Play!AnswersStayInTurn,
       P!Play!AnswersStayInTurn, Play!LoadingHasAnEnd, P!Play!LoadingHasAnEnd

LEMMA SameContent ==
    /\ Content!Init <=> P!Content!Init
    /\ Content!Next <=> P!Content!Next
    /\ Content!TypeOK <=> P!Content!TypeOK
    /\ Content!SavedWhereItBelongs <=> P!Content!SavedWhereItBelongs
    /\ Content!UploadsStayInSection <=> P!Content!UploadsStayInSection
    /\ Content!ToastsAreHonest <=> P!Content!ToastsAreHonest
    /\ Content!ShownIsCurrent <=> P!Content!ShownIsCurrent
    /\ Content!LoadingHasAnEnd <=> P!Content!LoadingHasAnEnd
BY DEF Content!LoadIds, P!Content!LoadIds, Content!Section, P!Content!Section,
       Content!Content, P!Content!Content, Content!Empty, P!Content!Empty,
       Content!NoLoad, P!Content!NoLoad, Content!NoSave, P!Content!NoSave,
       Content!NoUpload, P!Content!NoUpload, Content!Init, P!Content!Init,
       Content!Pending, P!Content!Pending, Content!Uploading,
       P!Content!Uploading, Content!FieldsOffered, P!Content!FieldsOffered,
       Content!SectionsOffered, P!Content!SectionsOffered,
       Content!MediaOffered, P!Content!MediaOffered, Content!TableOffered,
       P!Content!TableOffered, Content!SaveOffered, P!Content!SaveOffered,
       Content!Select, P!Content!Select, Content!ServeLoad,
       P!Content!ServeLoad, Content!LoadArrives, P!Content!LoadArrives,
       Content!LoadFails, P!Content!LoadFails, Content!Turn, P!Content!Turn,
       Content!Edited, P!Content!Edited, Content!ChangeField,
       P!Content!ChangeField, Content!ChangeTable, P!Content!ChangeTable,
       Content!AddSection, P!Content!AddSection, Content!DeleteSection,
       P!Content!DeleteSection, Content!Upload, P!Content!Upload,
       Content!Placed, P!Content!Placed, Content!UploadArrives,
       P!Content!UploadArrives, Content!UploadFails, P!Content!UploadFails,
       Content!HandleSave, P!Content!HandleSave, Content!ServeSave,
       P!Content!ServeSave, Content!SaveFails, P!Content!SaveFails,
       Content!SaveEnds, P!Content!SaveEnds, Content!Next, P!Content!Next,
       Content!TypeOK, P!Content!TypeOK, Content!SavedWhereItBelongs,
       P!Content!SavedWhereItBelongs, Content!UploadsStayInSection,
       P!Content!UploadsStayInSection, Content!ToastsAreHonest,
       P!Content!ToastsAreHonest, Content!ShownIsCurrent,
       P!Content!ShownIsCurrent, Content!LoadingHasAnEnd,
       P!Content!LoadingHasAnEnd, Content!RemoveAt, P!Content!RemoveAt

LEMMA SamePicker ==
    /\ Picker!Init <=> P!Picker!Init
    /\ Picker!Next <=> P!Picker!Next
    /\ Picker!TypeOK <=> P!Picker!TypeOK
    /\ Picker!ShownIsCurrent <=> P!Picker!ShownIsCurrent
    /\ Picker!LoadingHasAnEnd <=> P!Picker!LoadingHasAnEnd
BY DEF Picker!CallIds, P!Picker!CallIds, Picker!Init, P!Picker!Init,
       Picker!Pending, P!Picker!Pending, Picker!ListOffered,
       P!Picker!ListOffered, Picker!SelectProvider, P!Picker!SelectProvider,
       Picker!TypeKey, P!Picker!TypeKey, Picker!NothingToAsk,
       P!Picker!NothingToAsk, Picker!Ask, P!Picker!Ask, Picker!Answer,
       P!Picker!Answer, Picker!Next, P!Picker!Next, Picker!TypeOK,
       P!Picker!TypeOK, Picker!ShownIsCurrent, P!Picker!ShownIsCurrent,
       Picker!LoadingHasAnEnd, P!Picker!LoadingHasAnEnd

LEMMA SamePanel ==
    /\ Panel!Init <=> P!Panel!Init
    /\ Panel!Next <=> P!Panel!Next
    /\ Panel!TypeOK <=> P!Panel!TypeOK
    /\ Panel!ShownIsCurrent <=> P!Panel!ShownIsCurrent
    /\ Panel!LoadingHasAnEnd <=> P!Panel!LoadingHasAnEnd
BY DEF Panel!CallIds, P!Panel!CallIds, Panel!Choices, P!Panel!Choices,
       Panel!Call, P!Panel!Call, Panel!Init, P!Panel!Init, Panel!Pending,
       P!Panel!Pending, Panel!Live, P!Panel!Live, Panel!ListOffered,
       P!Panel!ListOffered, Panel!HeaderOffered, P!Panel!HeaderOffered,
       Panel!Cancelled, P!Panel!Cancelled, Panel!SelectKey, P!Panel!SelectKey,
       Panel!Answer, P!Panel!Answer, Panel!Settle, P!Panel!Settle, Panel!Next,
       P!Panel!Next, Panel!TypeOK, P!Panel!TypeOK, Panel!ShownIsCurrent,
       P!Panel!ShownIsCurrent, Panel!LoadingHasAnEnd, P!Panel!LoadingHasAnEnd

LEMMA SameExplorer ==
    /\ Explorer!Init <=> P!Explorer!Init
    /\ Explorer!Next <=> P!Explorer!Next
    /\ Explorer!TypeOK <=> P!Explorer!TypeOK
    /\ Explorer!ShownIsCurrent <=> P!Explorer!ShownIsCurrent
    /\ Explorer!LoadingHasAnEnd <=> P!Explorer!LoadingHasAnEnd
BY DEF Explorer!ListIds, P!Explorer!ListIds, Explorer!Rows, P!Explorer!Rows,
       Explorer!DrawerTabs, P!Explorer!DrawerTabs, Explorer!Cursor,
       P!Explorer!Cursor, Explorer!NoList, P!Explorer!NoList, Explorer!Idle,
       P!Explorer!Idle, Explorer!Init, P!Explorer!Init, Explorer!Pending,
       P!Explorer!Pending, Explorer!Turn, P!Explorer!Turn, Explorer!Turned,
       P!Explorer!Turned, Explorer!FiltersOffered, P!Explorer!FiltersOffered,
       Explorer!RowsOffered, P!Explorer!RowsOffered, Explorer!PagesOffered,
       P!Explorer!PagesOffered, Explorer!DrawerShown, P!Explorer!DrawerShown,
       Explorer!ResponseShown, P!Explorer!ResponseShown, Explorer!Ask,
       P!Explorer!Ask, Explorer!Filter, P!Explorer!Filter,
       Explorer!ChangePage, P!Explorer!ChangePage, Explorer!ServeList,
       P!Explorer!ServeList, Explorer!ListArrives, P!Explorer!ListArrives,
       Explorer!ListFails, P!Explorer!ListFails, Explorer!OpenRow,
       P!Explorer!OpenRow, Explorer!CloseRow, P!Explorer!CloseRow,
       Explorer!RowArrives, P!Explorer!RowArrives, Explorer!Fetched,
       P!Explorer!Fetched, Explorer!OpenTab, P!Explorer!OpenTab,
       Explorer!PayloadArrives, P!Explorer!PayloadArrives, Explorer!Next,
       P!Explorer!Next, Explorer!TypeOK, P!Explorer!TypeOK,
       Explorer!ShownIsCurrent, P!Explorer!ShownIsCurrent,
       Explorer!LoadingHasAnEnd, P!Explorer!LoadingHasAnEnd

LEMMA SameFirewall ==
    /\ Firewall!Init <=> P!Firewall!Init
    /\ Firewall!Next <=> P!Firewall!Next
    /\ Firewall!TypeOK <=> P!Firewall!TypeOK
    /\ Firewall!DenialIsListed <=> P!Firewall!DenialIsListed
BY DEF Firewall!CallIds, P!Firewall!CallIds, Firewall!Slot, P!Firewall!Slot,
       Firewall!Free, P!Firewall!Free, Firewall!Init, P!Firewall!Init,
       Firewall!FieldsOffered, P!Firewall!FieldsOffered,
       Firewall!ToolsOffered, P!Firewall!ToolsOffered, Firewall!Edits,
       P!Firewall!Edits, Firewall!Send, P!Firewall!Send, Firewall!Poll,
       P!Firewall!Poll, Firewall!ToggleTool, P!Firewall!ToggleTool,
       Firewall!EditForm, P!Firewall!EditForm, Firewall!Close,
       P!Firewall!Close, Firewall!Remount, P!Firewall!Remount,
       Firewall!ReadDiscovered, P!Firewall!ReadDiscovered,
       Firewall!ReadDenied, P!Firewall!ReadDenied, Firewall!Post,
       P!Firewall!Post, Firewall!DiscoveredExpires,
       P!Firewall!DiscoveredExpires, Firewall!Lost, P!Firewall!Lost,
       Firewall!Arrives, P!Firewall!Arrives, Firewall!Serve, P!Firewall!Serve,
       Firewall!Next, P!Firewall!Next, Firewall!TypeOK, P!Firewall!TypeOK,
       Firewall!DenialIsListed, P!Firewall!DenialIsListed

LEMMA SameSettings ==
    /\ Settings!Init <=> P!Settings!Init
    /\ Settings!Next <=> P!Settings!Next
    /\ Settings!TypeOK <=> P!Settings!TypeOK
    /\ Settings!ShownIsCurrent <=> P!Settings!ShownIsCurrent
    /\ Settings!LoadingHasAnEnd <=> P!Settings!LoadingHasAnEnd
    /\ Settings!ToastsAreHonest <=> P!Settings!ToastsAreHonest
BY DEF Settings!OpIds, P!Settings!OpIds, Settings!Row, P!Settings!Row,
       Settings!Tables, P!Settings!Tables, Settings!Kinds, P!Settings!Kinds,
       Settings!Stages, P!Settings!Stages, Settings!FirstKey,
       P!Settings!FirstKey, Settings!NoTable, P!Settings!NoTable,
       Settings!Fresh, P!Settings!Fresh, Settings!UnusedOp,
       P!Settings!UnusedOp, Settings!InFlight, P!Settings!InFlight,
       Settings!Fetching, P!Settings!Fetching, Settings!NextId,
       P!Settings!NextId, Settings!Init, P!Settings!Init, Settings!Ready,
       P!Settings!Ready, Settings!KeysOffered, P!Settings!KeysOffered,
       Settings!KeyInputs, P!Settings!KeyInputs, Settings!KeyToggles,
       P!Settings!KeyToggles, Settings!KeyActions, P!Settings!KeyActions,
       Settings!SnippetOffered, P!Settings!SnippetOffered,
       Settings!CreationOffered, P!Settings!CreationOffered,
       Settings!PlansOffered, P!Settings!PlansOffered,
       Settings!LicenseOffered, P!Settings!LicenseOffered, Settings!Start,
       P!Settings!Start, Settings!SessionResolves, P!Settings!SessionResolves,
       Settings!ParamsCleared, P!Settings!ParamsCleared,
       Settings!ProfileArrives, P!Settings!ProfileArrives,
       Settings!GenerateKey, P!Settings!GenerateKey, Settings!ToggleSetting,
       P!Settings!ToggleSetting, Settings!EditSetting, P!Settings!EditSetting,
       Settings!OpenFirewall, P!Settings!OpenFirewall, Settings!CloseFirewall,
       P!Settings!CloseFirewall, Settings!SaveFirewall,
       P!Settings!SaveFirewall, Settings!DeleteKey, P!Settings!DeleteKey,
       Settings!PurgeCache, P!Settings!PurgeCache, Settings!Checkout,
       P!Settings!Checkout, Settings!ActivateLicense,
       P!Settings!ActivateLicense, Settings!CloseSnippet,
       P!Settings!CloseSnippet, Settings!Committed, P!Settings!Committed,
       Settings!Targets, P!Settings!Targets, Settings!ServerCommits,
       P!Settings!ServerCommits, Settings!ServerRefuses,
       P!Settings!ServerRefuses, Settings!PurgesInPart,
       P!Settings!PurgesInPart, Settings!ServerLists, P!Settings!ServerLists,
       Settings!Changes, P!Settings!Changes, Settings!Reloads,
       P!Settings!Reloads, Settings!Verdict, P!Settings!Verdict,
       Settings!Reply, P!Settings!Reply, Settings!Finish, P!Settings!Finish,
       Settings!ListArrives, P!Settings!ListArrives, Settings!ListIsRefused,
       P!Settings!ListIsRefused, Settings!ListIsLost, P!Settings!ListIsLost,
       Settings!Step, P!Settings!Step, Settings!Next, P!Settings!Next,
       Settings!Op, P!Settings!Op, Settings!TypeOK, P!Settings!TypeOK,
       Settings!ShownIsCurrent, P!Settings!ShownIsCurrent,
       Settings!LoadingHasAnEnd, P!Settings!LoadingHasAnEnd,
       Settings!ToastsAreHonest, P!Settings!ToastsAreHonest

-----------------------------------------------------------------------------
(* One invariant per page, and what each of them shows.                    *)

PagesInv ==
    /\ route = "settings" => P!SettingsInv /\ P!SettingsRecord
    /\ route = "picker" => P!PickerInv
    /\ route = "firewall" => P!FirewallInv
    /\ route = "feed" => FeedInv
    /\ route = "record" => P!RecordInv
    /\ route = "board" => BoardInv
    /\ route = "play" => P!PlayInv
    /\ route = "panel" => P!PanelInv
    /\ route = "content" => P!ContentInv
    /\ route = "explorer" => P!ExplorerInv
    /\ route = "rules" => RulesInv

LEMMA PagesStart == ASSUME Init PROVE PagesInv
<1>1. route = "settings" => P!SettingsInv /\ P!SettingsRecord
  BY P!SettingsStarts, SameSettings, Bounds DEF Init, P!SettingsConstants
<1>2. route = "picker" => P!PickerInv
  BY P!PickerStarts, SamePicker, Bounds DEF Init, P!PickerConstants
<1>3. route = "firewall" => P!FirewallInv
  BY P!FirewallStarts, SameFirewall, Bounds DEF Init, P!FirewallConstants
<1>4. route = "feed" => FeedInv
  BY FeedStarts DEF Init
<1>5. route = "record" => P!RecordInv
  BY P!RecordStarts, SameRecord, Bounds DEF Init, P!RecordConstants
<1>6. route = "board" => BoardInv
  BY BoardStarts DEF Init
<1>7. route = "play" => P!PlayInv
  BY P!PlayStarts, SamePlay, Bounds DEF Init, P!PlayConstants
<1>8. route = "panel" => P!PanelInv
  <2>1. None \notin P!Panel!Call
    BY DEF P!Panel!Call, Panel!Call
  <2> QED BY <2>1, P!PanelStarts, SamePanel, Bounds DEF Init, P!PanelConstants
<1>9. route = "content" => P!ContentInv
  BY P!ContentStarts, SameContent, Bounds DEF Init, P!ContentConstants
<1>10. route = "explorer" => P!ExplorerInv
  <2>1. None \notin P!Explorer!Cursor
    BY DEF P!Explorer!Cursor, Explorer!Cursor
  <2> QED BY <2>1, P!ExplorerStarts, SameExplorer, Bounds
          DEF Init, P!ExplorerConstants
<1>11. route = "rules" => RulesInv
  BY RulesStarts DEF Init
<1> QED BY <1>1, <1>2, <1>3, <1>4, <1>5, <1>6, <1>7, <1>8, <1>9, <1>10,
           <1>11 DEF PagesInv

LEMMA PagesKept == ASSUME PagesInv, [Next]_vars PROVE PagesInv'
<1>1. CASE Next
  <2>1. UNCHANGED route
    BY <1>1 DEF Next
  <2>2. route = "settings" => P!SettingsInv' /\ P!SettingsRecord'
    BY <1>1, P!SettingsKept, SameSettings DEF PagesInv, Next, Page
  <2>3. route = "picker" => P!PickerInv'
    BY <1>1, P!PickerKept, SamePicker DEF PagesInv, Next, Page
  <2>4. route = "firewall" => P!FirewallInv'
    BY <1>1, P!FirewallKept, SameFirewall DEF PagesInv, Next, Page
  <2>5. route = "feed" => FeedInv'
    BY <1>1, FeedKept DEF PagesInv, Next, Page
  <2>6. route = "record" => P!RecordInv'
    BY <1>1, P!RecordKept, SameRecord DEF PagesInv, Next, Page
  <2>7. route = "board" => BoardInv'
    BY <1>1, BoardKept DEF PagesInv, Next, Page
  <2>8. route = "play" => P!PlayInv'
    BY <1>1, P!PlayKept, SamePlay DEF PagesInv, Next, Page
  <2>9. route = "panel" => P!PanelInv'
    BY <1>1, P!PanelKept, SamePanel DEF PagesInv, Next, Page
  <2>10. route = "content" => P!ContentInv'
    BY <1>1, P!ContentKept, SameContent DEF PagesInv, Next, Page
  <2>11. route = "explorer" => P!ExplorerInv'
    BY <1>1, P!ExplorerKept, SameExplorer DEF PagesInv, Next, Page
  <2>12. route = "rules" => RulesInv'
    BY <1>1, RulesKept DEF PagesInv, Next, Page
  <2> QED BY <2>1, <2>2, <2>3, <2>4, <2>5, <2>6, <2>7, <2>8, <2>9, <2>10,
             <2>11, <2>12 DEF PagesInv
<1>2. CASE UNCHANGED vars
  BY <1>2, P!SettingsStutters, P!PickerStutters, P!FirewallStutters,
     FeedStutters, P!RecordStutters, BoardStutters, P!PlayStutters,
     P!PanelStutters, P!ContentStutters, P!ExplorerStutters, RulesStutters
     DEF PagesInv, vars
<1> QED BY <1>1, <1>2

\* Every page keeps its invariant, whichever page is shown.
THEOREM PagesHold == Spec => []PagesInv
BY PagesStart, PagesKept, PTL DEF Spec

\* While a page records its keys are tagged, and a stop takes the tag away,
\* for any number of tabs, starts, expiries and failing calls.
THEOREM RecordingTagged == Spec => []RecordingIsTagged
<1>1. PagesInv => RecordingIsTagged
  BY P!RecordTagged, SameRecord DEF PagesInv, RecordingIsTagged
<1> QED BY <1>1, PagesHold, PTL

\* With nothing on its way every page shows what belongs to its selection and
\* what the server holds: SettingsPage, ModelPicker, FirewallModal, LiveFeed,
\* TelemetryBoard, PanelModels, ContentEditor, RequestExplorer, AlertRules.
THEOREM ShownCurrent == Spec => []ShownIsCurrent
<1>1. PagesInv => ShownIsCurrent
  <2> SUFFICES ASSUME PagesInv PROVE ShownIsCurrent
    OBVIOUS
  <2>1. route = "settings" => Settings!ShownIsCurrent
    BY P!SettingsShows, SameSettings DEF PagesInv
  <2>2. route = "picker" => Picker!ShownIsCurrent
    BY P!PickerShows, SamePicker DEF PagesInv
  <2>3. route = "firewall" => Firewall!DenialIsListed
    BY SameFirewall DEF PagesInv, P!FirewallInv
  <2>4. route = "panel" => Panel!ShownIsCurrent
    BY P!PanelShows, SamePanel DEF PagesInv
  <2>5. route = "content" => Content!ShownIsCurrent
    BY P!ContentShows, SameContent DEF PagesInv
  <2>6. route = "explorer" => Explorer!ShownIsCurrent
    BY P!ExplorerShows, SameExplorer DEF PagesInv
  <2>7. /\ route = "feed" => Feed!ShownIsCurrent
        /\ route = "board" => Board!ShownIsCurrent
        /\ route = "rules" => Rules!ShownIsCurrent
    BY FeedShows, BoardShows, RulesShows DEF PagesInv
  <2> QED BY <2>1, <2>2, <2>3, <2>4, <2>5, <2>6, <2>7 DEF ShownIsCurrent
<1> QED BY <1>1, PagesHold, PTL

\* No spinner stands for ever for want of somebody to take it away, and the
\* toasts of the settings and of the content page tell the truth.
THEOREM FeedbackHonest == Spec => []FeedbackIsHonest
<1>1. PagesInv => FeedbackIsHonest
  <2> SUFFICES ASSUME PagesInv PROVE FeedbackIsHonest
    OBVIOUS
  <2>1. route = "settings" =>
            Settings!LoadingHasAnEnd /\ Settings!ToastsAreHonest
    BY P!SettingsShows, SameSettings DEF PagesInv
  <2>2. route = "picker" => Picker!LoadingHasAnEnd
    BY P!PickerShows, SamePicker DEF PagesInv
  <2>3. route = "board" => Board!LoadingHasAnEnd
    BY BoardShows DEF PagesInv
  <2>4. route = "play" => Play!LoadingHasAnEnd
    BY P!PlayShows, SamePlay DEF PagesInv
  <2>5. route = "panel" => Panel!LoadingHasAnEnd
    BY P!PanelShows, SamePanel DEF PagesInv
  <2>6. route = "content" =>
            Content!LoadingHasAnEnd /\ Content!ToastsAreHonest
    BY P!ContentShows, SameContent DEF PagesInv
  <2>7. route = "explorer" => Explorer!LoadingHasAnEnd
    BY P!ExplorerShows, SameExplorer DEF PagesInv
  <2> QED BY <2>1, <2>2, <2>3, <2>4, <2>5, <2>6, <2>7 DEF FeedbackIsHonest
<1> QED BY <1>1, PagesHold, PTL

\* A streamed answer stays below its prompt, an upload in its section and a
\* saved form on its page, however the answers are ordered.
THEOREM AnswersInPlace == Spec => []AnswersFindTheirPlace
<1>1. PagesInv => AnswersFindTheirPlace
  BY P!PlayShows, SamePlay, P!ContentShows, SameContent
     DEF PagesInv, AnswersFindTheirPlace
<1> QED BY <1>1, PagesHold, PTL
-----------------------------------------------------------------------------
(* The rows, the comparisons and the types, put together in the same way.  *)

RowsInv ==
    /\ route = "feed" => FeedRows
    /\ route = "board" => BoardRows
    /\ route = "console" => ConsoleInv
    /\ route = "diff" => DiffInv
    /\ route = "lines" => LinesInv
    /\ route = "rules" => RulesTypes

LEMMA RowsStart == ASSUME Init PROVE RowsInv
<1>1. route = "feed" => FeedRows
  BY FeedRowsStart DEF Init
<1>2. route = "board" => BoardRows
  BY BoardRowsStart DEF Init
<1>3. route = "console" => ConsoleInv
  BY ConsoleStart DEF Init
<1>4. route = "diff" => DiffInv
  BY DiffStarts DEF Init
<1>5. route = "lines" => LinesInv
  BY LinesStart DEF Init
<1>6. route = "rules" => RulesTypes
  BY RulesTypesStart DEF Init
<1> QED BY <1>1, <1>2, <1>3, <1>4, <1>5, <1>6 DEF RowsInv

LEMMA RowsKept == ASSUME PagesInv, RowsInv, [Next]_vars PROVE RowsInv'
<1>1. CASE Next
  <2>1. UNCHANGED route
    BY <1>1 DEF Next
  <2>2. route = "feed" => FeedRows'
    BY <1>1, FeedRowsKept DEF RowsInv, Next, Page
  <2>3. route = "board" => BoardRows'
    BY <1>1, BoardRowsKept DEF RowsInv, Next, Page
  <2>4. route = "console" => ConsoleInv'
    BY <1>1, ConsoleKept DEF RowsInv, Next, Page
  <2>5. route = "diff" => DiffInv'
    BY <1>1, DiffKept DEF RowsInv, Next, Page
  <2>6. route = "lines" => LinesInv'
    BY <1>1, LinesKept DEF RowsInv, Next, Page
  <2>7. route = "rules" => RulesTypes'
    BY <1>1, RulesTypesKept DEF PagesInv, RowsInv, Next, Page
  <2> QED BY <2>1, <2>2, <2>3, <2>4, <2>5, <2>6, <2>7 DEF RowsInv
<1>2. CASE UNCHANGED vars
  BY <1>2, FeedRowsStutter, BoardRowsStutter, ConsoleStutter, DiffStutters,
     LinesStutter, RulesTypesStutter DEF RowsInv, vars
<1> QED BY <1>1, <1>2

\* The pages that list or compare keep their invariant as well.
THEOREM RowsHold == Spec => [](PagesInv /\ RowsInv)
<1>1. Init => PagesInv /\ RowsInv
  BY PagesStart, RowsStart
<1>2. PagesInv /\ RowsInv /\ [Next]_vars => (PagesInv /\ RowsInv)'
  BY PagesKept, RowsKept
<1> QED BY <1>1, <1>2, PTL DEF Spec

\* The live list merges what comes over the stream, from the poll and from a
\* page of the table without showing a row twice, the console shows no row of
\* a connection twice, neither stream passes over a row that it could have
\* found, and the groups of the board divide its rows among them, each with
\* the summary of its own: for any number of rows, whatever order they are
\* committed and answered in.
THEOREM RowsOnce == Spec => []EveryRowOnce
<1>1. RowsInv => EveryRowOnce
  BY FeedRowsShow, ConsoleShows, BoardRowsShow DEF RowsInv, EveryRowOnce
<1> QED BY <1>1, RowsHold, PTL

\* Two payloads of any length can be read off their comparison, word by word
\* and line by line, and the comparison of the lines is as short as the longest
\* common subsequence allows.
THEOREM DiffsComplete == Spec => []DiffLosesNothing
<1>1. RowsInv => DiffLosesNothing
  BY DiffShows, LinesShow DEF RowsInv, DiffLosesNothing
<1> QED BY <1>1, RowsHold, PTL

\* The state of every page has its type.
THEOREM TypeCorrect == Spec => []TypeOK
<1>1. PagesInv /\ RowsInv => TypeOK
  <2> SUFFICES ASSUME PagesInv, RowsInv PROVE TypeOK
    OBVIOUS
  <2>1. route = "settings" => Settings!TypeOK
    <3>1. P!SettingsInv /\ P!SettingsRecord => P!Settings!TypeOK
      BY DEF P!SettingsInv, P!SettingsRecord, P!SettingsView, P!SettingsNet,
             P!Settings!TypeOK
    <3> QED BY <3>1, SameSettings DEF PagesInv
  <2>2. route = "picker" => Picker!TypeOK
    BY SamePicker DEF PagesInv, P!PickerInv
  <2>3. route = "firewall" => Firewall!TypeOK
    BY SameFirewall DEF PagesInv, P!FirewallInv
  <2>4. route = "record" => Record!TypeOK
    <3>1. P!RecordInv => P!Record!TypeOK
      BY DEF P!RecordInv, P!RecordType, P!RecordTab, P!RecordCalls,
             P!RecordCall, P!Record!TypeOK
    <3> QED BY <3>1, SameRecord DEF PagesInv
  <2>5. route = "play" => Play!TypeOK
    <3>1. ASSUME P!PlayInv PROVE P!Play!TypeOK
      <4>1. P!PlayType
        BY <3>1 DEF P!PlayInv
      <4>2. \A p \in P!Play!Panels : net.stream[p] \in P!PlayStream
        BY <4>1 DEF P!PlayType
      <4>3. \A p \in P!Play!Panels : net.stream[p].at \in
                {"idle", "sent", "text", "done", "ending", "over"}
        BY <4>2 DEF P!PlayStream
      <4> QED BY <4>1, <4>3 DEF P!PlayType, P!Play!TypeOK
    <3> QED BY <3>1, SamePlay DEF PagesInv
  <2>6. route = "panel" => Panel!TypeOK
    BY SamePanel DEF PagesInv, P!PanelInv, P!PanelType
  <2>7. route = "content" => Content!TypeOK
    <3>1. ASSUME P!ContentInv PROVE P!Content!TypeOK
      <4>1. P!ContentType
        BY <3>1 DEF P!ContentInv
      <4>2. view.form \in P!Contents /\ net.save \in P!Saves
        BY <4>1 DEF P!ContentType
      <4>3. view.form.of \in Pages \union {None}
        BY <4>2 DEF P!Contents
      <4>4. net.save.at \in {"none", "sent", "ok", "failed", "over"}
        BY <4>2 DEF P!Saves
      <4> QED BY <4>1, <4>3, <4>4 DEF P!ContentType, P!Content!TypeOK
    <3> QED BY <3>1, SameContent DEF PagesInv
  <2>8. route = "explorer" => Explorer!TypeOK
    <3>1. P!ExplorerInv => P!Explorer!TypeOK
      BY DEF P!ExplorerInv, P!ExplorerView, P!ExplorerNet, P!Explorer!TypeOK
    <3> QED BY <3>1, SameExplorer DEF PagesInv
  <2>9. /\ route = "feed" => Feed!TypeOK
        /\ route = "board" => Board!TypeOK
        /\ route = "console" => Console!TypeOK
    BY FeedRowsShow, BoardRowsShow, ConsoleShows DEF RowsInv
  <2>10. /\ route = "diff" => Diff!TypeOK
         /\ route = "lines" => Lines!TypeOK
         /\ route = "rules" => Rules!TypeOK
    BY DiffShows, LinesShow, RulesTyped DEF RowsInv
  <2> QED BY <2>1, <2>2, <2>3, <2>4, <2>5, <2>6, <2>7, <2>8, <2>9, <2>10
          DEF TypeOK
<1> QED BY <1>1, RowsHold, PTL
=============================================================================
