--------------------------- MODULE ArithmeticProof ---------------------------
(***************************************************************************)
(* Induction over the natural numbers, for a set instead of an operator,   *)
(* and what follows from it for recursive definitions, sums and powers.    *)
(***************************************************************************)
EXTENDS Arithmetic, FiniteSetTheorems, WellFoundedInduction, TLAPS

\* A set of natural numbers has a smallest.
LEMMA Smallest ==
  ASSUME NEW S \in SUBSET Nat, S # {}
  PROVE  \E n \in S : \A m \in S : n <= m
<1>1. PICK n \in S : \A m \in S : ~(<<m, n>> \in OpToRel(<, Nat))
  BY WFMin, NatLessThanWellFounded
<1>2. \A m \in S : ~(m < n)
  BY <1>1 DEF OpToRel
<1> QED
  BY <1>2

\* A set that has 0 and with every number the next has all of them.
LEMMA Induction ==
  ASSUME NEW S \in SUBSET Nat, 0 \in S, \A n \in S : n + 1 \in S
  PROVE  S = Nat
<1> SUFFICES ASSUME Nat \ S # {} PROVE FALSE
  OBVIOUS
<1>1. PICK n \in Nat \ S : \A m \in Nat \ S : n <= m
  BY Smallest
<1>2. n - 1 \in Nat /\ n - 1 \in S
  BY <1>1
<1> QED
  BY <1>1, <1>2

LEMMA SubsetSizes ==
  ASSUME NEW S, IsFiniteSet(S), NEW s \in SUBSET S
  PROVE  /\ IsFiniteSet(s) /\ Cardinality(s) \in Nat /\ Cardinality(s) <= Cardinality(S)
         /\ Cardinality(s) = 0 <=> s = {}
         /\ \A x \in s : Cardinality(s \ {x}) = Cardinality(s) - 1
BY FS_Subset, FS_EmptySet, FS_RemoveElement, FS_CardinalityType

\* A set of finite sets that has {} and with all the sets one smaller a set.
LEMMA SubsetInduction ==
  ASSUME NEW S, IsFiniteSet(S), NEW P \in SUBSET (SUBSET S), {} \in P,
         \A s \in SUBSET S : s # {} /\ (\A x \in s : s \ {x} \in P) => s \in P
  PROVE  \A s \in SUBSET S : s \in P
<1> DEFINE N == {n \in Nat : \A s \in SUBSET S : Cardinality(s) <= n => s \in P}
<1>1. 0 \in N
  <2>1. ASSUME NEW s \in SUBSET S, Cardinality(s) <= 0 PROVE s \in P
    <3>1. s = {}
      BY <2>1, SubsetSizes
    <3> QED
      BY <3>1
  <2> QED
    BY <2>1
<1>2. ASSUME NEW n \in N PROVE n + 1 \in N
  <2>1. ASSUME NEW s \in SUBSET S, Cardinality(s) <= n + 1, s # {} PROVE s \in P
    <3>1. ASSUME NEW x \in s PROVE s \ {x} \in P
      <4>1. s \ {x} \in SUBSET S /\ Cardinality(s \ {x}) <= n
        BY <2>1, SubsetSizes
      <4> QED
        BY <4>1
    <3> QED
      BY <2>1, <3>1
  <2>2. \A s \in SUBSET S : Cardinality(s) <= n + 1 => s \in P
    BY <2>1
  <2> QED
    BY <2>2
<1>3. N = Nat
  <2> HIDE DEF N
  <2>1. N \in SUBSET Nat
    BY DEF N
  <2> QED
    BY <1>1, <1>2, <2>1, Induction
<1> QED
  BY <1>3, SubsetSizes

\* A function of the subsets of S that takes one element away at a time.
Unfolds(it, S, base, c, h) ==
  \A s \in SUBSET S : it[s] = IF s = {} THEN base ELSE h[<<c[s], it[s \ {c[s]}]>>]

\* There is one, whatever is done with the element and the value of the rest.
LEMMA FoldExists ==
  ASSUME NEW S, IsFiniteSet(S), NEW V, NEW base \in V,
         NEW c, \A s \in SUBSET S : s # {} => c[s] \in s,
         NEW h \in [S \X V -> V]
  PROVE  \E it \in [SUBSET S -> V] : Unfolds(it, S, base, c, h)
<1> DEFINE Good(g, n) == \A s \in SUBSET S : Cardinality(s) <= n =>
                           g[s] = IF s = {} THEN base ELSE h[<<c[s], g[s \ {c[s]}]>>]
           N == {n \in Nat : \E g \in [SUBSET S -> V] : Good(g, n)}
<1>1. 0 \in N
  <2>1. Good([s \in SUBSET S |-> base], 0)
    BY SubsetSizes
  <2> QED
    BY <2>1
<1>2. ASSUME NEW n \in N PROVE n + 1 \in N
  <2>1. PICK g \in [SUBSET S -> V] : Good(g, n)
    OBVIOUS
  <2> DEFINE k == [s \in SUBSET S |->
                     IF Cardinality(s) <= n THEN g[s]
                     ELSE IF s = {} THEN base ELSE h[<<c[s], g[s \ {c[s]}]>>]]
  <2>2. ASSUME NEW s \in SUBSET S, s # {} PROVE <<c[s], g[s \ {c[s]}]>> \in S \X V
    BY <2>2
  <2>3. k \in [SUBSET S -> V]
    BY <2>2
  <2>4. ASSUME NEW s \in SUBSET S, Cardinality(s) <= n + 1
        PROVE  k[s] = IF s = {} THEN base ELSE h[<<c[s], k[s \ {c[s]}]>>]
    <3>1. CASE s = {}
      <4>1. Cardinality(s) <= n
        BY <3>1, SubsetSizes
      <4> QED
        BY <2>1, <3>1, <4>1
    <3>2. CASE s # {}
      <4>1. /\ c[s] \in s /\ s \ {c[s]} \in SUBSET S /\ Cardinality(s) \in Nat
            /\ Cardinality(s \ {c[s]}) = Cardinality(s) - 1
        BY <3>2, SubsetSizes
      <4>2. Cardinality(s \ {c[s]}) <= n
        BY <2>4, <4>1
      <4>3. k[s \ {c[s]}] = g[s \ {c[s]}]
        BY <4>1, <4>2
      <4> QED
        BY <2>1, <3>2, <4>3
    <3> QED
      BY <3>1, <3>2
  <2> HIDE DEF k
  <2>5. Good(k, n + 1)
    BY <2>4
  <2>6. \E f \in [SUBSET S -> V] : Good(f, n + 1)
    BY <2>3, <2>5, Zenon
  <2> HIDE DEF Good
  <2> QED
    BY <2>6
<1>3. N = Nat
  <2> HIDE DEF N
  <2>1. N \in SUBSET Nat
    BY DEF N
  <2> QED
    BY <1>1, <1>2, <2>1, Induction
<1>4. PICK g \in [SUBSET S -> V] : Good(g, Cardinality(S))
  BY <1>3, SubsetSizes
<1>5. Unfolds(g, S, base, c, h)
  BY <1>4, SubsetSizes DEF Unfolds
<1> QED
  BY <1>5

(***************************************************************************)
(* Sums.                                                                   *)
(***************************************************************************)
Some(s) == CHOOSE x \in s : TRUE
Adds(f, S) == [p \in S \X Int |-> f[p[1]] + p[2]]
Chosen(S) == [s \in SUBSET S |-> Some(s)]

SumsUp(it, f, S) ==
  \A s \in SUBSET S : it[s] = IF s = {} THEN 0 ELSE f[Some(s)] + it[s \ {Some(s)}]

\* Only one function takes away the elements that SumOver takes away.
LEMMA SumsOnce ==
  ASSUME NEW S, IsFiniteSet(S), NEW f, NEW g, NEW h, SumsUp(g, f, S), SumsUp(h, f, S)
  PROVE  \A s \in SUBSET S : g[s] = h[s]
<1> DEFINE P == {s \in SUBSET S : g[s] = h[s]}
<1>1. {} \in P
  BY DEF SumsUp
<1>2. ASSUME NEW s \in SUBSET S, s # {}, \A x \in s : s \ {x} \in P PROVE s \in P
  <2>1. Some(s) \in s
    BY <1>2 DEF Some
  <2> QED
    BY <1>2, <2>1 DEF SumsUp
<1>3. P \in SUBSET (SUBSET S)
  OBVIOUS
<1> HIDE DEF P
<1>4. \A s \in SUBSET S : s \in P
  BY <1>1, <1>2, <1>3, SubsetInduction
<1> QED
  BY <1>4 DEF P

\* SumOver is a choice among the functions that satisfy its recursion; it is
\* that function because there is one.
LEMMA SumUnfolds ==
  ASSUME NEW S, IsFiniteSet(S), NEW f, \A x \in S : f[x] \in Int
  PROVE  \E it \in [SUBSET S -> Int] : SumOver(f, S) = it[S] /\ SumsUp(it, f, S)
<1> DEFINE Rec(it) == it = [s \in SUBSET S |->
             IF s = {} THEN 0 ELSE f[CHOOSE x \in s : TRUE] + it[s \ {CHOOSE x \in s : TRUE}]]
           sum == CHOOSE it : Rec(it)
<1>1. SumOver(f, S) = sum[S]
  BY DEF SumOver, MapThenSumSet, MapThenFoldSet
<1>2. /\ \A s \in SUBSET S : s # {} => Chosen(S)[s] \in s /\ Chosen(S)[s] = Some(s)
      /\ Adds(f, S) \in [S \X Int -> Int] /\ 0 \in Int
  BY DEF Some, Chosen, Adds
<1>3. PICK g \in [SUBSET S -> Int] : Unfolds(g, S, 0, Chosen(S), Adds(f, S))
  BY <1>2, FoldExists
<1>4. SumsUp(g, f, S)
  <2>1. ASSUME NEW s \in SUBSET S, s # {} PROVE g[s] = f[Some(s)] + g[s \ {Some(s)}]
    <3>1. <<Some(s), g[s \ {Some(s)}]>> \in S \X Int
      BY <1>2, <2>1
    <3> QED
      BY <1>2, <1>3, <2>1, <3>1 DEF Unfolds, Adds
  <2> QED
    BY <1>3, <2>1 DEF SumsUp, Unfolds
<1>5. Rec(g)
  BY <1>4 DEF SumsUp, Some
<1>6. Rec(sum)
  <2> HIDE DEF Rec
  <2> QED
    BY <1>5
<1> HIDE DEF sum
<1>7. SumsUp(sum, f, S)
  BY <1>6 DEF SumsUp, Some
<1>8. sum[S] = g[S]
  BY <1>4, <1>7, SumsOnce
<1> QED
  BY <1>1, <1>3, <1>4, <1>8

\* Any element can be taken out first.
LEMMA SumTakesOut ==
  ASSUME NEW S, IsFiniteSet(S), NEW f, \A x \in S : f[x] \in Int
  PROVE  /\ SumOver(f, S) \in Int /\ (S = {} => SumOver(f, S) = 0)
         /\ \A x \in S : SumOver(f, S) = f[x] + SumOver(f, S \ {x}) /\ SumOver(f, S \ {x}) \in Int
<1>1. PICK it \in [SUBSET S -> Int] : SumOver(f, S) = it[S] /\ SumsUp(it, f, S)
  BY SumUnfolds
<1>2. ASSUME NEW s \in SUBSET S PROVE SumOver(f, s) = it[s]
  <2>1. IsFiniteSet(s) /\ \A x \in s : f[x] \in Int
    BY SubsetSizes
  <2>2. PICK h \in [SUBSET s -> Int] : SumOver(f, s) = h[s] /\ SumsUp(h, f, s)
    BY <2>1, SumUnfolds
  <2>3. SumsUp(it, f, s)
    BY <1>1 DEF SumsUp
  <2> QED
    BY <2>1, <2>2, <2>3, SumsOnce
<1>3. \A s \in SUBSET S : \A x \in s : it[s] = f[x] + it[s \ {x}]
  <2> DEFINE P == {s \in SUBSET S : \A x \in s : it[s] = f[x] + it[s \ {x}]}
  <2>1. {} \in P
    OBVIOUS
  <2>2. ASSUME NEW s \in SUBSET S, s # {}, \A x \in s : s \ {x} \in P PROVE s \in P
    <3> DEFINE c == Some(s)
    <3>1. c \in s /\ it[s] = f[c] + it[s \ {c}]
      BY <1>1, <2>2 DEF SumsUp, Some
    <3> HIDE DEF c
    <3>2. ASSUME NEW x \in s, x # c PROVE it[s] = f[x] + it[s \ {x}]
      <4>1. it[s \ {c}] = f[x] + it[(s \ {c}) \ {x}]
        BY <2>2, <3>1, <3>2
      <4>2. it[s \ {x}] = f[c] + it[(s \ {x}) \ {c}]
        BY <2>2, <3>1, <3>2
      <4>3. (s \ {c}) \ {x} = (s \ {x}) \ {c}
        OBVIOUS
      <4>4. PICK a, b, r \in Int : a = f[x] /\ b = f[c] /\ r = it[(s \ {c}) \ {x}]
        BY <3>1, Zenon
      <4>5. it[s \ {c}] = a + r /\ it[s \ {x}] = b + r
        BY <4>1, <4>2, <4>3, <4>4, Zenon
      <4>6. b + (a + r) = a + (b + r)
        OBVIOUS
      <4> QED
        BY <3>1, <4>4, <4>5, <4>6, Zenon
    <3> QED
      BY <3>1, <3>2
  <2>3. P \in SUBSET (SUBSET S)
    OBVIOUS
  <2> HIDE DEF P
  <2>4. \A s \in SUBSET S : s \in P
    BY <2>1, <2>2, <2>3, SubsetInduction
  <2> QED
    BY <2>4 DEF P
<1>4. S = {} => it[S] = 0
  BY <1>1 DEF SumsUp
<1> QED
  BY <1>1, <1>2, <1>3, <1>4

LEMMA SumExtends ==
  ASSUME NEW S, IsFiniteSet(S), NEW x, x \notin S, NEW f, \A y \in S \cup {x} : f[y] \in Int
  PROVE  SumOver(f, S \cup {x}) = f[x] + SumOver(f, S) /\ SumOver(f, S) \in Int
<1>1. IsFiniteSet(S \cup {x}) /\ (S \cup {x}) \ {x} = S
  BY FS_AddElement
<1> QED
  BY <1>1, SumTakesOut

\* Only the terms count.
LEMMA SumAgrees ==
  ASSUME NEW S, IsFiniteSet(S), NEW f, NEW g, \A x \in S : f[x] \in Int /\ g[x] = f[x]
  PROVE  SumOver(f, S) = SumOver(g, S)
<1> DEFINE P == {s \in SUBSET S : SumOver(f, s) = SumOver(g, s)}
<1>1. {} \in P
  BY SumTakesOut, FS_EmptySet
<1>2. ASSUME NEW s \in SUBSET S, s # {}, \A x \in s : s \ {x} \in P PROVE s \in P
  <2>1. IsFiniteSet(s) /\ \A x \in s : f[x] \in Int /\ g[x] \in Int
    BY SubsetSizes
  <2>2. PICK x \in s : TRUE
    BY <1>2
  <2>3. SumOver(f, s) = f[x] + SumOver(f, s \ {x}) /\ SumOver(g, s) = g[x] + SumOver(g, s \ {x})
    BY <2>1, <2>2, SumTakesOut
  <2> QED
    BY <1>2, <2>2, <2>3
<1>3. P \in SUBSET (SUBSET S)
  OBVIOUS
<1> HIDE DEF P
<1>4. \A s \in SUBSET S : s \in P
  BY <1>1, <1>2, <1>3, SubsetInduction
<1> QED
  BY <1>4 DEF P

\* Two sets that have nothing in common.
LEMMA SumSplits ==
  ASSUME NEW S, NEW T, IsFiniteSet(S), IsFiniteSet(T), S \cap T = {},
         NEW f, \A x \in S \cup T : f[x] \in Int
  PROVE  SumOver(f, S \cup T) = SumOver(f, S) + SumOver(f, T)
<1> DEFINE P == {s \in SUBSET T : SumOver(f, S \cup s) = SumOver(f, S) + SumOver(f, s)}
<1>1. {} \in P
  <2>1. SumOver(f, {}) = 0 /\ SumOver(f, S) \in Int
    BY SumTakesOut, FS_EmptySet
  <2>2. S \cup {} = S
    OBVIOUS
  <2> QED
    BY <2>1, <2>2
<1>2. ASSUME NEW s \in SUBSET T, s # {}, \A x \in s : s \ {x} \in P PROVE s \in P
  <2>1. IsFiniteSet(s) /\ IsFiniteSet(S \cup s) /\ \A y \in S \cup s : f[y] \in Int
    BY SubsetSizes, FS_Union
  <2>2. PICK x \in s : TRUE
    BY <1>2
  <2>3. (S \cup s) \ {x} = S \cup (s \ {x}) /\ x \in S \cup s
    BY <2>2
  <2>4. SumOver(f, S \cup s) = f[x] + SumOver(f, S \cup (s \ {x}))
    <3> DEFINE U == S \cup s
    <3>1. IsFiniteSet(U) /\ (\A y \in U : f[y] \in Int) /\ x \in U
      BY <2>1, <2>3
    <3> HIDE DEF U
    <3>2. SumOver(f, U) = f[x] + SumOver(f, U \ {x})
      BY <3>1, SumTakesOut
    <3> QED
      BY <2>3, <3>2, Zenon DEF U
  <2>5. /\ SumOver(f, S \cup s) = f[x] + SumOver(f, S \cup (s \ {x}))
        /\ SumOver(f, s) = f[x] + SumOver(f, s \ {x})
        /\ f[x] \in Int /\ SumOver(f, s \ {x}) \in Int /\ SumOver(f, S) \in Int
    BY <2>1, <2>2, <2>4, SumTakesOut
  <2>6. SumOver(f, S \cup (s \ {x})) = SumOver(f, S) + SumOver(f, s \ {x})
    BY <1>2, <2>2
  <2>7. \A a, b, c \in Int : a + (b + c) = b + (a + c)
    OBVIOUS
  <2> QED
    BY <2>5, <2>6, <2>7
<1>3. P \in SUBSET (SUBSET T)
  OBVIOUS
<1> HIDE DEF P
<1>4. \A s \in SUBSET T : s \in P
  BY <1>1, <1>2, <1>3, SubsetInduction
<1> QED
  BY <1>4 DEF P

\* A common factor.
LEMMA SumScales ==
  ASSUME NEW S, IsFiniteSet(S), NEW f, NEW g, NEW c \in Int,
         \A x \in S : f[x] \in Int /\ g[x] = c * f[x]
  PROVE  SumOver(g, S) = c * SumOver(f, S)
<1> DEFINE P == {s \in SUBSET S : SumOver(g, s) = c * SumOver(f, s)}
<1>1. {} \in P
  <2>1. SumOver(f, {}) = 0 /\ SumOver(g, {}) = 0
    BY SumTakesOut, FS_EmptySet
  <2> QED
    BY <2>1
<1>2. ASSUME NEW s \in SUBSET S, s # {}, \A x \in s : s \ {x} \in P PROVE s \in P
  <2>1. IsFiniteSet(s) /\ \A x \in s : f[x] \in Int /\ g[x] \in Int
    BY SubsetSizes
  <2>2. PICK x \in s : TRUE
    BY <1>2
  <2>3. /\ SumOver(f, s) = f[x] + SumOver(f, s \ {x}) /\ SumOver(g, s) = g[x] + SumOver(g, s \ {x})
        /\ SumOver(f, s \ {x}) \in Int /\ f[x] \in Int
    BY <2>1, <2>2, SumTakesOut
  <2>4. SumOver(g, s \ {x}) = c * SumOver(f, s \ {x}) /\ g[x] = c * f[x]
    BY <1>2, <2>2
  <2>5. \A a, b \in Int : c * (a + b) = c * a + c * b
    OBVIOUS
  <2>6. SumOver(g, s) = c * SumOver(f, s)
    BY <2>3, <2>4, <2>5
  <2> QED
    BY <2>6
<1>3. P \in SUBSET (SUBSET S)
  OBVIOUS
<1> HIDE DEF P
<1>4. \A s \in SUBSET S : s \in P
  BY <1>1, <1>2, <1>3, SubsetInduction
<1> QED
  BY <1>4 DEF P

\* One term changes.
LEMMA SumChanges ==
  ASSUME NEW S, IsFiniteSet(S), NEW x \in S, NEW f, NEW g, \A y \in S : f[y] \in Int,
         g[x] \in Int, \A y \in S \ {x} : g[y] = f[y]
  PROVE  SumOver(g, S) = SumOver(f, S) + (g[x] - f[x])
<1>1. IsFiniteSet(S \ {x})
  BY SubsetSizes
<1>2. SumOver(f, S \ {x}) = SumOver(g, S \ {x})
  BY <1>1, SumAgrees
<1>3. SumOver(f, S) = f[x] + SumOver(f, S \ {x}) /\ SumOver(f, S \ {x}) \in Int
  BY SumTakesOut
<1>4. SumOver(g, S) = g[x] + SumOver(g, S \ {x})
  BY SumTakesOut
<1> QED
  BY <1>2, <1>3, <1>4

\* Each index becomes a pair with the same first part.
LEMMA SumPairs ==
  ASSUME NEW S, IsFiniteSet(S), NEW t, NEW f, NEW g, \A k \in S : f[k] \in Int /\ g[<<t, k>>] = f[k]
  PROVE  IsFiniteSet({t} \X S) /\ SumOver(g, {t} \X S) = SumOver(f, S)
<1>1. IsFiniteSet({t} \X S)
  BY FS_Singleton, FS_Product
<1> DEFINE P == {s \in SUBSET S : SumOver(g, {t} \X s) = SumOver(f, s)}
<1>2. {} \in P
  <2>1. {t} \X {} = {} /\ SumOver(f, {}) = 0 /\ SumOver(g, {}) = 0
    BY SumTakesOut, FS_EmptySet
  <2> QED
    BY <2>1
<1>3. ASSUME NEW s \in SUBSET S, s # {}, \A k \in s : s \ {k} \in P PROVE s \in P
  <2>1. IsFiniteSet(s) /\ \A k \in s : f[k] \in Int
    BY SubsetSizes
  <2>2. PICK k \in s : TRUE
    BY <1>3
  <2>3. SumOver(f, s) = f[k] + SumOver(f, s \ {k})
    BY <2>1, <2>2, SumTakesOut
  <2> DEFINE U == {t} \X s
  <2>4. IsFiniteSet(U) /\ (\A y \in U : g[y] \in Int) /\ <<t, k>> \in U /\ U \ {<<t, k>>} = {t} \X (s \ {k})
    <3>1. U \in SUBSET ({t} \X S)
      OBVIOUS
    <3>2. IsFiniteSet(U)
      BY <1>1, <3>1, FS_Subset
    <3>3. \A y \in U : g[y] \in Int
      OBVIOUS
    <3>4. <<t, k>> \in U /\ U \ {<<t, k>>} = {t} \X (s \ {k})
      BY <2>2
    <3> QED
      BY <3>2, <3>3, <3>4
  <2> HIDE DEF U
  <2>5. SumOver(g, U) = g[<<t, k>>] + SumOver(g, U \ {<<t, k>>})
    BY <2>4, SumTakesOut
  <2>6. SumOver(g, {t} \X (s \ {k})) = SumOver(f, s \ {k}) /\ g[<<t, k>>] = f[k]
    BY <1>3, <2>2
  <2>7. SumOver(g, U) = SumOver(f, s)
    BY <2>3, <2>4, <2>5, <2>6
  <2> QED
    BY <2>7 DEF U
<1>4. P \in SUBSET (SUBSET S)
  OBVIOUS
<1> HIDE DEF P
<1>5. \A s \in SUBSET S : s \in P
  BY <1>2, <1>3, <1>4, SubsetInduction
<1> QED
  BY <1>1, <1>5 DEF P

(***************************************************************************)
(* Recursion over the natural numbers, and powers.                         *)
(***************************************************************************)
Recurs(f, base, h) == f[0] = base /\ \A n \in Nat : f[n + 1] = h[<<n, f[n]>>]

\* Functions that agree as far as both go, one for each n, make up one for all.
LEMMA RecursionExists ==
  ASSUME NEW V, NEW base \in V, NEW h \in [Nat \X V -> V]
  PROVE  \E f \in [Nat -> V] : Recurs(f, base, h)
<1> DEFINE Good(g, n) == g[0] = base /\ \A k \in Nat : k < n => g[k + 1] = h[<<k, g[k]>>]
           N == {n \in Nat : \E g \in [Nat -> V] : Good(g, n)}
           Part(n) == CHOOSE g : g \in [Nat -> V] /\ Good(g, n)
           f == [n \in Nat |-> Part(n)[n]]
<1>1. 0 \in N
  <2>1. Good([n \in Nat |-> base], 0)
    OBVIOUS
  <2>2. \E g \in [Nat -> V] : Good(g, 0)
    BY <2>1
  <2> QED
    BY <2>2
<1>2. ASSUME NEW n \in N PROVE n + 1 \in N
  <2>1. PICK g \in [Nat -> V] : Good(g, n)
    OBVIOUS
  <2> DEFINE k == [i \in Nat |-> IF i <= n THEN g[i] ELSE h[<<n, g[n]>>]]
  <2>2. k \in [Nat -> V]
    OBVIOUS
  <2>3. Good(k, n + 1)
    BY <2>1
  <2> HIDE DEF k
  <2>4. \E x \in [Nat -> V] : Good(x, n + 1)
    BY <2>2, <2>3, Zenon
  <2> HIDE DEF Good
  <2> QED
    BY <2>4
<1>3. N = Nat
  <2> HIDE DEF N
  <2>1. N \in SUBSET Nat
    BY DEF N
  <2> QED
    BY <1>1, <1>2, <2>1, Induction
<1>4. ASSUME NEW n \in Nat PROVE Part(n) \in [Nat -> V] /\ Good(Part(n), n)
  <2>1. \E g : g \in [Nat -> V] /\ Good(g, n)
    BY <1>3
  <2> QED
    BY <2>1
<1> HIDE DEF Part
<1>5. ASSUME NEW n \in Nat, NEW m \in Nat, n <= m PROVE Part(n)[n] = Part(m)[n]
  <2> DEFINE S == {k \in Nat : k <= n => Part(n)[k] = Part(m)[k]}
  <2>1. 0 \in S
    BY <1>4
  <2>2. ASSUME NEW k \in S PROVE k + 1 \in S
    <3>1. ASSUME k + 1 <= n PROVE Part(n)[k + 1] = Part(m)[k + 1]
      <4>1. k < n /\ k < m /\ Part(n)[k] = Part(m)[k]
        BY <1>5, <3>1
      <4>2. Part(n)[k + 1] = h[<<k, Part(n)[k]>>] /\ Part(m)[k + 1] = h[<<k, Part(m)[k]>>]
        BY <1>4, <4>1
      <4> QED
        BY <4>1, <4>2
    <3> QED
      BY <3>1
  <2>3. S = Nat
    <3> HIDE DEF S
    <3>1. S \in SUBSET Nat
      BY DEF S
    <3> QED
      BY <2>1, <2>2, <3>1, Induction
  <2> QED
    BY <2>3
<1>6. f \in [Nat -> V]
  BY <1>4
<1>7. ASSUME NEW n \in Nat PROVE f[n + 1] = h[<<n, f[n]>>]
  <2>1. f[n + 1] = Part(n + 1)[n + 1] /\ f[n] = Part(n + 1)[n]
    BY <1>5
  <2> QED
    BY <1>4, <2>1
<1>8. f[0] = base
  BY <1>4
<1> HIDE DEF f
<1> QED
  BY <1>6, <1>7, <1>8 DEF Recurs

LEMMA PowerUnfolds ==
  ASSUME NEW b \in Nat \ {0}
  PROVE  Power(b, 0) = 1 /\ \A n \in Nat : Power(b, n + 1) = b * Power(b, n)
<1> DEFINE Rec(p) == p = [k \in Nat |-> IF k = 0 THEN 1 ELSE b * p[k - 1]]
           power == CHOOSE p : Rec(p)
           h == [x \in Nat \X Int |-> b * x[2]]
<1>1. \A n \in Nat : Power(b, n) = power[n]
  BY DEF Power
<1>2. h \in [Nat \X Int -> Int] /\ 1 \in Int
  OBVIOUS
<1>3. PICK f \in [Nat -> Int] : Recurs(f, 1, h)
  <2> HIDE DEF h
  <2> QED
    BY <1>2, RecursionExists
<1>4. Rec(f)
  <2>1. ASSUME NEW k \in Nat, k # 0 PROVE f[k] = b * f[k - 1]
    <3>1. k - 1 \in Nat /\ (k - 1) + 1 = k
      BY <2>1
    <3> QED
      BY <1>3, <3>1 DEF Recurs
  <2> QED
    BY <1>3, <2>1 DEF Recurs
<1>5. Rec(power)
  <2> HIDE DEF Rec
  <2> QED
    BY <1>4
<1> HIDE DEF power
<1>6. power[0] = 1
  BY <1>5
<1>7. ASSUME NEW n \in Nat PROVE power[n + 1] = b * power[n]
  BY <1>5
<1> QED
  BY <1>1, <1>6, <1>7

LEMMA PowerType ==
  ASSUME NEW b \in Nat \ {0}
  PROVE  \A n \in Nat : Power(b, n) \in Nat \ {0}
<1> DEFINE S == {n \in Nat : Power(b, n) \in Nat \ {0}}
<1>1. 0 \in S
  BY PowerUnfolds
<1>2. ASSUME NEW n \in S PROVE n + 1 \in S
  <2>1. \A p \in Nat \ {0} : b * p \in Nat \ {0}
    OBVIOUS
  <2> QED
    BY <2>1, PowerUnfolds
<1>3. S = Nat
  <2> HIDE DEF S
  <2>1. S \in SUBSET Nat
    BY DEF S
  <2> QED
    BY <1>1, <1>2, <2>1, Induction
<1> QED
  BY <1>3
=============================================================================
