------------------------------ MODULE Sums_proofs ------------------------------
(***************************************************************************)
(* Sums over finite sets, as the models take them with MapThenSumSet: they *)
(* are numbers, depend on the summed elements alone, and are the value of  *)
(* any element and the sum of the rest.  Each is shown by looking at a     *)
(* least set of which it would fail.  With them, what a fold over a        *)
(* sequence needs of the last index it takes (MaxIsIn, PrefixIs).          *)
(***************************************************************************)
EXTENDS Integers, FiniteSetsExt, FiniteSetTheorems, WellFoundedInduction, NaturalsInduction,
        TLAPS

\* A non-empty set of naturals has a least member.
LEMMA LeastNat ==
    ASSUME NEW T, T \subseteq Nat, T # {}
    PROVE  \E n \in T : \A m \in T : n <= m
<1>1. PICK n \in T : \A m \in T : ~ (<<m, n>> \in OpToRel(<, Nat))
  BY WFMin, NatLessThanWellFounded, Zenon
<1>2. ASSUME NEW m \in T PROVE n <= m
  <2>1. <<m, n>> \notin OpToRel(<, Nat)
    BY <1>1
  <2>2. ~ (m < n)
    BY <2>1 DEF OpToRel
  <2> QED
    BY <2>2
<1> QED
  BY <1>2

\* Among some subsets of a finite set there is one from which no element can be taken.
LEMMA LeastSubset ==
    ASSUME NEW S, IsFiniteSet(S), NEW T, T \subseteq SUBSET S, T # {}
    PROVE  \E B \in T : \A x \in B : B \ {x} \notin T
<1> DEFINE sizes == {n \in Nat : \E B \in T : Cardinality(B) = n}
<1>1. \A B \in T : IsFiniteSet(B) /\ Cardinality(B) \in Nat
  BY FS_Subset, FS_CardinalityType
<1>2. sizes # {}
  BY <1>1
<1>3. PICK n \in sizes : \A m \in sizes : n <= m
  BY <1>2, LeastNat
<1>4. PICK B \in T : Cardinality(B) = n
  BY <1>3
<1>5. ASSUME NEW x \in B, B \ {x} \in T PROVE FALSE
  <2>1. Cardinality(B \ {x}) = n - 1
    BY <1>1, <1>4, FS_RemoveElement
  <2>2. n - 1 \in sizes
    BY <1>1, <1>5, <2>1
  <2> QED
    BY <1>3, <2>2
<1> QED
  BY <1>5

\* The sum of e over S.
SumOf(e, S) == MapThenSumSet(LAMBDA x : e[x], S)

Anything(s) == CHOOSE x \in s : TRUE

\* The function the fold is made of.
IsSum(e, S, sum) ==
    sum = [s \in SUBSET S |-> IF s = {} THEN 0 ELSE e[Anything(s)] + sum[s \ {Anything(s)}]]

LEMMA SumIsFold ==
    ASSUME NEW e, NEW S
    PROVE  SumOf(e, S) = (CHOOSE sum : IsSum(e, S, sum))[S]
BY DEF SumOf, MapThenSumSet, MapThenFoldSet, IsSum, Anything

LEMMA AnyIsIn == \A s : s # {} => Anything(s) \in s
BY DEF Anything

LEMMA FoldExists ==
    ASSUME NEW e, NEW S, IsFiniteSet(S)
    PROVE  \E sum : IsSum(e, S, sum)
<1> DEFINE Small(n) == {s \in SUBSET S : Cardinality(s) <= n}
           IsSumTo(n, f) ==
             f = [s \in Small(n) |-> IF s = {} THEN 0 ELSE e[Anything(s)] + f[s \ {Anything(s)}]]
           bad == {n \in Nat : ~ \E f : IsSumTo(n, f)}
<1>0. \A s \in SUBSET S : IsFiniteSet(s) /\ Cardinality(s) \in Nat
  BY FS_Subset, FS_CardinalityType
<1>1. bad = {}
  <2> SUFFICES ASSUME bad # {} PROVE FALSE
    OBVIOUS
  <2>1. PICK n \in bad : \A m \in bad : n <= m
    BY LeastNat
  <2>2. CASE n = 0
    <3> DEFINE f == [s \in Small(0) |-> 0]
    <3>1. \A s \in Small(0) : s = {}
      BY <1>0, FS_EmptySet
    <3>2. IsSumTo(0, f)
      BY <3>1
    <3> QED
      BY <2>1, <2>2, <3>2
  <2>3. CASE n # 0
    <3>1. n - 1 \in Nat /\ n - 1 \notin bad
      <4>1. n \in Nat /\ n - 1 \in Nat
        BY <2>3
      <4> HIDE DEF bad
      <4> QED
        BY <2>1, <4>1
    <3>2. PICK g : IsSumTo(n - 1, g)
      BY <3>1
    <3> DEFINE f == [s \in Small(n) |-> IF s = {} THEN 0 ELSE e[Anything(s)] + g[s \ {Anything(s)}]]
    <3>3. Small(n - 1) \subseteq Small(n)
      BY <1>0
    <3>4. \A s \in Small(n - 1) : f[s] = g[s]
      BY <3>2, <3>3
    <3>5. \A s \in Small(n) : s # {} => s \ {Anything(s)} \in Small(n - 1)
      <4> SUFFICES ASSUME NEW s \in Small(n), s # {} PROVE s \ {Anything(s)} \in Small(n - 1)
        OBVIOUS
      <4>1. Anything(s) \in s
        BY AnyIsIn
      <4>2. Cardinality(s \ {Anything(s)}) = Cardinality(s) - 1
        BY <1>0, <4>1, FS_RemoveElement
      <4> QED
        BY <1>0, <4>2
    <3>6. IsSumTo(n, f)
      BY <3>4, <3>5
    <3> QED
      BY <2>1, <3>6
  <2> QED
    BY <2>2, <2>3
<1> DEFINE c == Cardinality(S)
<1>2. c \in Nat /\ Small(c) = SUBSET S
  BY <1>0, FS_Subset, FS_CardinalityType
<1>3. PICK f : IsSumTo(c, f)
  BY <1>1, <1>2
<1> QED
  BY <1>2, <1>3 DEF IsSum

\* Sums that agree on the elements agree.
LEMMA SumsAgree ==
    ASSUME NEW S, NEW A, A \subseteq S, IsFiniteSet(A), NEW e, NEW d, \A x \in A : e[x] = d[x],
           NEW f, IsSum(e, S, f), NEW g, IsSum(d, A, g)
    PROVE  \A s \in SUBSET A : f[s] = g[s]
<1> DEFINE bad == {s \in SUBSET A : f[s] # g[s]}
<1> SUFFICES ASSUME bad # {} PROVE FALSE
  OBVIOUS
<1>1. PICK s \in bad : \A x \in s : s \ {x} \notin bad
  BY LeastSubset
<1>2. f[s] = IF s = {} THEN 0 ELSE e[Anything(s)] + f[s \ {Anything(s)}]
  BY DEF IsSum
<1>3. g[s] = IF s = {} THEN 0 ELSE d[Anything(s)] + g[s \ {Anything(s)}]
  BY DEF IsSum
<1>4. s # {}
  BY <1>2, <1>3
<1>5. Anything(s) \in s /\ e[Anything(s)] = d[Anything(s)]
  BY <1>4, AnyIsIn
<1>6. f[s \ {Anything(s)}] = g[s \ {Anything(s)}]
  BY <1>1, <1>5
<1> QED
  BY <1>2, <1>3, <1>5, <1>6

LEMMA SumAdds ==
    ASSUME NEW e, NEW S, IsFiniteSet(S)
    PROVE  \E f : IsSum(e, S, f) /\ SumOf(e, S) = f[S]
<1>1. \E f : IsSum(e, S, f)
  BY FoldExists
<1> QED
  BY <1>1, SumIsFold

\* Only the summed elements matter.
LEMMA SumOfSame ==
    ASSUME NEW A, IsFiniteSet(A), NEW e, NEW d, \A x \in A : e[x] = d[x]
    PROVE  SumOf(e, A) = SumOf(d, A)
<1>1. PICK f : IsSum(e, A, f) /\ SumOf(e, A) = f[A]
  BY SumAdds
<1>2. PICK g : IsSum(d, A, g) /\ SumOf(d, A) = g[A]
  BY SumAdds
<1>3. \A s \in SUBSET A : f[s] = g[s]
  BY <1>1, <1>2, SumsAgree
<1> QED
  BY <1>1, <1>2, <1>3

LEMMA SumOfNone == ASSUME NEW e PROVE SumOf(e, {}) = 0
<1>1. PICK f : IsSum(e, {}, f) /\ SumOf(e, {}) = f[{}]
  BY SumAdds, FS_EmptySet
<1> QED
  BY <1>1 DEF IsSum

LEMMA SumIsInt ==
    ASSUME NEW A, IsFiniteSet(A), NEW e, \A x \in A : e[x] \in Int
    PROVE  SumOf(e, A) \in Int
<1>1. PICK f : IsSum(e, A, f) /\ SumOf(e, A) = f[A]
  BY SumAdds
<1> DEFINE bad == {s \in SUBSET A : f[s] \notin Int}
<1>2. SUFFICES ASSUME bad # {} PROVE FALSE
  BY <1>1
<1>3. PICK s \in bad : \A x \in s : s \ {x} \notin bad
  BY <1>2, LeastSubset
<1>4. f[s] = IF s = {} THEN 0 ELSE e[Anything(s)] + f[s \ {Anything(s)}]
  BY <1>1 DEF IsSum
<1>5. s # {}
  BY <1>4
<1>6. Anything(s) \in s /\ e[Anything(s)] \in Int
  BY <1>5, AnyIsIn
<1> QED
  BY <1>3, <1>4, <1>5, <1>6

LEMMA SumIsNat ==
    ASSUME NEW A, IsFiniteSet(A), NEW e, \A x \in A : e[x] \in Nat
    PROVE  SumOf(e, A) \in Nat
<1>1. PICK f : IsSum(e, A, f) /\ SumOf(e, A) = f[A]
  BY SumAdds
<1> DEFINE bad == {s \in SUBSET A : f[s] \notin Nat}
<1>2. SUFFICES ASSUME bad # {} PROVE FALSE
  BY <1>1
<1>3. PICK s \in bad : \A x \in s : s \ {x} \notin bad
  BY <1>2, LeastSubset
<1>4. f[s] = IF s = {} THEN 0 ELSE e[Anything(s)] + f[s \ {Anything(s)}]
  BY <1>1 DEF IsSum
<1>5. s # {}
  BY <1>4
<1>6. Anything(s) \in s /\ e[Anything(s)] \in Nat
  BY <1>5, AnyIsIn
<1> QED
  BY <1>3, <1>4, <1>5, <1>6

\* Whichever element is taken out, the sum is its value and the sum of the rest.
LEMMA SumWithout ==
    ASSUME NEW A, IsFiniteSet(A), NEW e, \A x \in A : e[x] \in Int, NEW y \in A
    PROVE  SumOf(e, A) = e[y] + SumOf(e, A \ {y})
<1>1. PICK f : IsSum(e, A, f) /\ SumOf(e, A) = f[A]
  BY SumAdds
<1>2. \A s \in SUBSET A : SumOf(e, s) = f[s]
  <2> SUFFICES ASSUME NEW s \in SUBSET A PROVE SumOf(e, s) = f[s]
    OBVIOUS
  <2>1. IsFiniteSet(s)
    BY FS_Subset
  <2>2. PICK g : IsSum(e, s, g) /\ SumOf(e, s) = g[s]
    BY <2>1, SumAdds
  <2> QED
    BY <1>1, <2>1, <2>2, SumsAgree
<1>3. \A s \in SUBSET A : f[s] \in Int
  <2> SUFFICES ASSUME NEW s \in SUBSET A PROVE f[s] \in Int
    OBVIOUS
  <2>1. IsFiniteSet(s)
    BY FS_Subset
  <2> QED
    BY <1>2, <2>1, SumIsInt
<1> DEFINE bad == {s \in SUBSET A : \E x \in s : f[s] # e[x] + f[s \ {x}]}
<1>4. SUFFICES ASSUME bad # {} PROVE FALSE
  <2>1. SumOf(e, A) = f[A] /\ SumOf(e, A \ {y}) = f[A \ {y}]
    BY <1>2
  <2>2. bad = {} => f[A] = e[y] + f[A \ {y}]
    OBVIOUS
  <2> QED
    BY <2>1, <2>2
<1>5. PICK s \in bad : \A x \in s : s \ {x} \notin bad
  BY <1>4, LeastSubset
<1>6. PICK x \in s : f[s] # e[x] + f[s \ {x}]
  BY <1>5
<1> DEFINE z == Anything(s)
<1>7. z \in s /\ f[s] = e[z] + f[s \ {z}]
  BY <1>1, AnyIsIn DEF IsSum
<1>8. x # z
  BY <1>6, <1>7
<1>9. f[s \ {z}] = e[x] + f[(s \ {z}) \ {x}]
  BY <1>5, <1>7, <1>8
<1>10. f[s \ {x}] = e[z] + f[(s \ {x}) \ {z}]
  BY <1>5, <1>6, <1>7, <1>8
<1>11. (s \ {x}) \ {z} = (s \ {z}) \ {x}
  OBVIOUS
<1>12. e[x] \in Int /\ e[z] \in Int /\ f[(s \ {z}) \ {x}] \in Int
  BY <1>3, <1>7
<1> DEFINE rest == f[(s \ {z}) \ {x}]
<1>13. f[s] = e[z] + (e[x] + rest) /\ f[s \ {x}] = e[z] + rest
  BY <1>7, <1>9, <1>10, <1>11
<1>14. e[x] \in Int /\ e[z] \in Int /\ rest \in Int
  BY <1>12
<1> HIDE DEF z, rest, bad
<1> QED
  BY <1>6, <1>13, <1>14

\* A function that adds up one element after the other has the sum of them all.
AddsUp(e, S, f) ==
    \A s \in SUBSET S : f[s] = IF s = {} THEN 0 ELSE e[Anything(s)] + f[s \ {Anything(s)}]

LEMMA SumFound ==
    ASSUME NEW e, NEW S, IsFiniteSet(S), NEW f, AddsUp(e, S, f)
    PROVE  SumOf(e, S) = f[S]
<1> USE DEF AddsUp
<1>1. PICK g : IsSum(e, S, g) /\ SumOf(e, S) = g[S]
  BY SumAdds
<1> DEFINE bad == {s \in SUBSET S : f[s] # g[s]}
<1> SUFFICES ASSUME bad # {} PROVE FALSE
  BY <1>1
<1>2. PICK s \in bad : \A x \in s : s \ {x} \notin bad
  BY LeastSubset
<1>3. g[s] = IF s = {} THEN 0 ELSE e[Anything(s)] + g[s \ {Anything(s)}]
  BY <1>1 DEF IsSum
<1>4. f[s] = IF s = {} THEN 0 ELSE e[Anything(s)] + f[s \ {Anything(s)}]
  OBVIOUS
<1>5. s # {} /\ Anything(s) \in s
  BY <1>3, <1>4, AnyIsIn
<1>6. f[s \ {Anything(s)}] = g[s \ {Anything(s)}]
  BY <1>2, <1>5
<1> QED
  BY <1>2, <1>3, <1>4, <1>5, <1>6

\* The sum of what is no larger is no larger.
LEMMA SumGrows ==
    ASSUME NEW A, IsFiniteSet(A), NEW e, NEW d,
           \A x \in A : e[x] \in Int /\ d[x] \in Int /\ e[x] <= d[x]
    PROVE  SumOf(e, A) <= SumOf(d, A)
<1> DEFINE bad == {s \in SUBSET A : ~ (SumOf(e, s) <= SumOf(d, s))}
<1> SUFFICES ASSUME bad # {} PROVE FALSE
  OBVIOUS
<1>1. PICK s \in bad : \A x \in s : s \ {x} \notin bad
  BY LeastSubset
<1>2. s # {}
  <2>1. SumOf(e, {}) = 0 /\ SumOf(d, {}) = 0
    BY SumOfNone
  <2> QED
    BY <2>1
<1>3. PICK y \in s : TRUE
  BY <1>2
<1>4. PICK r : r = s \ {y}
  OBVIOUS
<1>5. IsFiniteSet(s) /\ IsFiniteSet(r) /\ r \subseteq A
  BY <1>4, FS_Subset
<1>6. SumOf(e, s) = e[y] + SumOf(e, r) /\ SumOf(d, s) = d[y] + SumOf(d, r)
  BY <1>3, <1>4, <1>5, SumWithout
<1>7. SumOf(e, r) \in Int /\ SumOf(d, r) \in Int
  BY <1>5, SumIsInt
<1>8. SumOf(e, r) <= SumOf(d, r)
  BY <1>1, <1>3, <1>4, <1>5
<1>9. e[y] \in Int /\ d[y] \in Int /\ e[y] <= d[y]
  BY <1>3
<1> QED
  BY <1>6, <1>7, <1>8, <1>9

\* The sum of what is always the same.
LEMMA SumOfConstant ==
    ASSUME NEW A, IsFiniteSet(A), NEW c \in Int, NEW e, \A x \in A : e[x] = c
    PROVE  SumOf(e, A) = Cardinality(A) * c
<1> DEFINE bad == {s \in SUBSET A : SumOf(e, s) # Cardinality(s) * c}
<1> SUFFICES ASSUME bad # {} PROVE FALSE
  OBVIOUS
<1>1. PICK s \in bad : \A x \in s : s \ {x} \notin bad
  BY LeastSubset
<1>2. s # {}
  <2>1. SumOf(e, {}) = 0 /\ Cardinality({}) = 0
    BY SumOfNone, FS_EmptySet
  <2>2. 0 * c = 0
    OBVIOUS
  <2> QED
    BY <2>1, <2>2
<1>3. PICK y \in s : TRUE
  BY <1>2
<1>4. PICK r : r = s \ {y}
  OBVIOUS
<1>5. IsFiniteSet(s) /\ IsFiniteSet(r) /\ r \subseteq A
  BY <1>4, FS_Subset
<1>6. SumOf(e, s) = c + SumOf(e, r)
  BY <1>3, <1>4, <1>5, SumWithout
<1>7. Cardinality(r) = Cardinality(s) - 1 /\ Cardinality(s) \in Nat
  BY <1>3, <1>4, <1>5, FS_RemoveElement, FS_CardinalityType
<1>8. SumOf(e, r) = Cardinality(r) * c
  BY <1>1, <1>3, <1>4, <1>5
<1>9. PICK k \in Nat : k = Cardinality(s)
  BY <1>7
<1>10. c + (k - 1) * c = k * c
  OBVIOUS
<1> QED
  BY <1>6, <1>7, <1>8, <1>9, <1>10

\* A non-empty finite set of naturals has a greatest member.
LEMMA GreatestNat ==
    ASSUME NEW S, S \subseteq Nat, IsFiniteSet(S), S # {}
    PROVE  \E n \in S : \A m \in S : m <= n
<1> DEFINE bad == {s \in SUBSET S : s # {} /\ ~ \E n \in s : \A m \in s : m <= n}
<1> SUFFICES ASSUME bad # {} PROVE FALSE
  OBVIOUS
<1>1. PICK s \in bad : \A x \in s : s \ {x} \notin bad
  BY LeastSubset
<1>2. PICK y \in s : TRUE
  OBVIOUS
<1>3. CASE s \ {y} = {}
  <2>1. \A m \in s : m = y
    BY <1>3
  <2> QED
    BY <1>2, <2>1
<1>4. CASE s \ {y} # {}
  <2>1. PICK n \in s \ {y} : \A m \in s \ {y} : m <= n
    BY <1>1, <1>2, <1>4
  <2>2. y \in Nat /\ n \in Nat /\ n \in s
    BY <1>2
  <2>3. CASE y <= n
    BY <2>1, <2>2, <2>3
  <2>4. CASE ~ (y <= n)
    <3>1. \A m \in s : m <= y
      BY <2>1, <2>2, <2>4
    <3> QED
      BY <1>2, <3>1
  <2> QED
    BY <2>3, <2>4
<1> QED
  BY <1>3, <1>4

\* The number a fold takes next.
LEMMA MaxIsIn ==
    ASSUME NEW S, IsFiniteSet(S), S \subseteq Nat, S # {}
    PROVE  Max(S) \in S /\ \A y \in S : y <= Max(S)
<1>1. PICK n \in S : \A m \in S : m <= n
  BY GreatestNat
<1>2. \A y \in S : n >= y
  BY <1>1
<1>3. Max(S) \in S /\ \A y \in S : Max(S) >= y
  BY <1>2 DEF Max
<1>4. Max(S) \in Nat
  BY <1>3
<1> QED
  BY <1>3, <1>4

\* A prefix of a sequence is what comes before it and one more.
LEMMA PrefixIs ==
    ASSUME NEW n \in Nat, NEW k \in Nat, k < n
    PROVE  /\ 1 .. (k + 1) \subseteq 1 .. n /\ IsFiniteSet(1 .. (k + 1)) /\ k + 1 \in 1 .. (k + 1)
           /\ (1 .. (k + 1)) \ {k + 1} = 1 .. k /\ Max(1 .. (k + 1)) = k + 1
           /\ 1 .. (k + 1) # {}
<1>1. IsFiniteSet(1 .. (k + 1))
  BY FS_Interval
<1>2. /\ 1 .. (k + 1) \subseteq 1 .. n /\ k + 1 \in 1 .. (k + 1)
      /\ (1 .. (k + 1)) \ {k + 1} = 1 .. k /\ 1 .. (k + 1) # {}
  <2>1. k + 1 \in 1 .. (k + 1)
    OBVIOUS
  <2>2. \A i \in 1 .. (k + 1) : i \in 1 .. n
    OBVIOUS
  <2>3. \A i : i \in (1 .. (k + 1)) \ {k + 1} <=> i \in 1 .. k
    OBVIOUS
  <2> QED
    BY <2>1, <2>2, <2>3
<1>3. Max(1 .. (k + 1)) \in 1 .. (k + 1) /\ \A y \in 1 .. (k + 1) : y <= Max(1 .. (k + 1))
  BY <1>1, <1>2, MaxIsIn
<1>4. Max(1 .. (k + 1)) = k + 1
  BY <1>2, <1>3
<1> QED
  BY <1>1, <1>2, <1>4
=============================================================================
