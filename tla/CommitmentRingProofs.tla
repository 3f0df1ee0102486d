------------------------- MODULE CommitmentRingProofs -------------------------
(***************************************************************************)
(* The anticipated-thermal ring for every number of plants, every calendar *)
(* and every lead: the validator asks for exactly the past windows the     *)
(* resolver needs, the ring is deep enough, no fishing equality is         *)
(* impossible to meet, and the ring keeps the book of commitments.         *)
(***************************************************************************)
EXTENDS CommitmentRing, FiniteSetTheorems, WellFoundedInduction, TLAPS

----------------------------------------------------------------------------
(* Sums *)

\* The element a fold takes out of s, and the recursion of a sum of f over S.
Taken(s) == CHOOSE x \in s : TRUE
Sums(f, S, iter) ==
    iter = [s \in SUBSET S |-> IF s = {} THEN 0 ELSE f[Taken(s)] + iter[s \ {Taken(s)}]]

\* Induction over the naturals, the property given as the set of those that have it.
LEMMA NaturalInduction ==
    ASSUME NEW P, 0 \in P, \A n \in P \cap Nat : n + 1 \in P
    PROVE  Nat \subseteq P
<1> SUFFICES ASSUME Nat \ P # {} PROVE FALSE
    OBVIOUS
<1>1. PICK n \in Nat \ P : \A m \in Nat \ P : ~(<<m, n>> \in OpToRel(<, Nat))
    BY NatLessThanWellFounded, WFMin
<1>2. n # 0 /\ n - 1 \in Nat
    OBVIOUS
<1>3. \A m \in Nat \ P : ~(m < n)
    BY <1>1 DEF OpToRel
<1>4. n - 1 \in P
    BY <1>2, <1>3
<1> QED
    BY <1>2, <1>4

\* Induction over the subsets of a finite set, one element taken out at a time.
LEMMA SubsetInduction ==
    ASSUME NEW S, IsFiniteSet(S), NEW P, {} \in P,
           \A s \in SUBSET S : s # {} /\ s \ {Taken(s)} \in P => s \in P
    PROVE  SUBSET S \subseteq P
<1> DEFINE Q == {n \in Nat : \A s \in SUBSET S : Cardinality(s) = n => s \in P}
<1>0. ASSUME NEW s \in SUBSET S
      PROVE  IsFiniteSet(s) /\ Cardinality(s) \in Nat
    BY FS_Subset, FS_CardinalityType
<1>1. 0 \in Q
    BY <1>0, FS_EmptySet
<1>2. ASSUME NEW n \in Q
      PROVE  n + 1 \in Q
  <2> SUFFICES ASSUME NEW s \in SUBSET S, Cardinality(s) = n + 1
               PROVE  s \in P
      OBVIOUS
  <2>0. n \in Nat
      OBVIOUS
  <2>1. s # {}
      BY <2>0, FS_EmptySet
  <2>2. Taken(s) \in s
      BY <2>1 DEF Taken
  <2>3. Cardinality(s \ {Taken(s)}) = n
    <3>1. Cardinality(s \ {Taken(s)}) = Cardinality(s) - 1
        BY <1>0, <2>2, FS_RemoveElement
    <3> QED BY <2>0, <3>1
  <2> QED BY <2>1, <2>3
<1>3. Nat \subseteq Q
  <2> HIDE DEF Q
  <2> QED BY <1>1, <1>2, NaturalInduction
<1> QED BY <1>0, <1>3

LEMMA TakenFrom ==
    ASSUME NEW S, NEW s \in SUBSET S, s # {}
    PROVE  Taken(s) \in s /\ Taken(s) \in S /\ s \ {Taken(s)} \in SUBSET S
BY DEF Taken

\* A sum exists.
LEMMA SumExists ==
    ASSUME NEW S, IsFiniteSet(S), NEW f, \A x \in S : f[x] \in Int
    PROVE  \E iter : Sums(f, S, iter)
<1> DEFINE Step(g, s) == IF s = {} THEN 0 ELSE f[Taken(s)] + g[s \ {Taken(s)}]
           Up(n) == {s \in SUBSET S : Cardinality(s) <= n}
           Q == {n \in Nat : \E g \in [SUBSET S -> Int] : \A s \in Up(n) : g[s] = Step(g, s)}
<1>0. ASSUME NEW s \in SUBSET S
      PROVE  IsFiniteSet(s) /\ Cardinality(s) \in Nat
    BY FS_Subset, FS_CardinalityType
<1>1. 0 \in Q
  <2> DEFINE g == [s \in SUBSET S |-> 0]
  <2>1. \A s \in Up(0) : s = {}
      BY <1>0, FS_EmptySet
  <2>2. \A s \in Up(0) : g[s] = Step(g, s)
      BY <2>1
  <2>3. g \in [SUBSET S -> Int]
      OBVIOUS
  <2> QED BY <2>2, <2>3
<1>2. ASSUME NEW n \in Q
      PROVE  n + 1 \in Q
  <2>1. PICK g \in [SUBSET S -> Int] : \A s \in Up(n) : g[s] = Step(g, s)
      OBVIOUS
  <2> DEFINE h == [s \in SUBSET S |-> Step(g, s)]
  <2>2. h \in [SUBSET S -> Int]
    <3>1. ASSUME NEW s \in SUBSET S PROVE Step(g, s) \in Int
        BY TakenFrom
    <3> HIDE DEF Step
    <3> QED BY <3>1
  <2>3. ASSUME NEW s \in Up(n + 1)
        PROVE  h[s] = Step(h, s)
    <3>1. CASE s = {}
        BY <3>1
    <3>2. CASE s # {}
      <4>1. Taken(s) \in s /\ s \ {Taken(s)} \in SUBSET S
          BY <3>2, TakenFrom
      <4>2. s \ {Taken(s)} \in Up(n)
          BY <1>0, <4>1, FS_RemoveElement
      <4>3. h[s \ {Taken(s)}] = g[s \ {Taken(s)}]
        <5> HIDE DEF Step
        <5> QED BY <2>1, <4>1, <4>2
      <4> QED BY <3>2, <4>3
    <3> QED BY <3>1, <3>2
  <2>4. n + 1 \in Nat
      OBVIOUS
  <2> HIDE DEF h, Step, Up
  <2> QED BY <2>2, <2>3, <2>4
<1>3. Nat \subseteq Q
  <2> HIDE DEF Q
  <2> QED BY <1>1, <1>2, NaturalInduction
<1>4. PICK g \in [SUBSET S -> Int] : \A s \in Up(Cardinality(S)) : g[s] = Step(g, s)
    BY <1>0, <1>3
<1>5. \A s \in SUBSET S : s \in Up(Cardinality(S))
    BY FS_Subset
<1>6. g = [s \in SUBSET S |-> Step(g, s)]
  <2> HIDE DEF Step, Up
  <2> QED BY <1>4, <1>5
<1> QED BY <1>6 DEF Sums

\* The sum of f over S, as the folds of the community modules compute it.
SumOver(f, S) == (CHOOSE iter : Sums(f, S, iter))[S]

\* The two cases of its recursion.
LEMMA SumUnfolds ==
    ASSUME NEW S, NEW f, NEW iter, Sums(f, S, iter)
    PROVE  /\ iter[{}] = 0
           /\ \A s \in SUBSET S : s # {} => iter[s] = f[Taken(s)] + iter[s \ {Taken(s)}]
BY DEF Sums

\* A sum of integers is one.
LEMMA SumType ==
    ASSUME NEW S, IsFiniteSet(S), NEW f, \A x \in S : f[x] \in Int
    PROVE  SumOver(f, S) \in Int
<1> DEFINE iter == CHOOSE i : Sums(f, S, i)
<1>1. Sums(f, S, iter)
    BY SumExists
<1> DEFINE P == {s \in SUBSET S : iter[s] \in Int}
<1> HIDE DEF iter
<1>2. {} \in P
    BY <1>1, SumUnfolds
<1>3. \A s \in SUBSET S : s # {} /\ s \ {Taken(s)} \in P => s \in P
    BY <1>1, SumUnfolds, TakenFrom
<1>4. S \in P
  <2> HIDE DEF P
  <2> QED BY <1>2, <1>3, SubsetInduction
<1> QED BY <1>4 DEF SumOver, iter

\* MapThenSumSet adds up a function over a set.
LEMMA MapThenSumIsSumOver ==
    ASSUME NEW f, NEW S
    PROVE  MapThenSumSet(LAMBDA x : f[x], S) = SumOver(f, S)
BY Zenon DEF MapThenSumSet, MapThenFoldSet, Sums, Taken, SumOver

\* Every value of the recursion is an integer.
LEMMA SumIntegers ==
    ASSUME NEW S, IsFiniteSet(S), NEW f, \A x \in S : f[x] \in Int, NEW F, Sums(f, S, F)
    PROVE  \A s \in SUBSET S : F[s] \in Int
<1> DEFINE P == {s \in SUBSET S : F[s] \in Int}
<1>1. {} \in P
    BY SumUnfolds
<1>2. \A s \in SUBSET S : s # {} /\ s \ {Taken(s)} \in P => s \in P
    BY SumUnfolds, TakenFrom
<1>3. SUBSET S \subseteq P
  <2> HIDE DEF P
  <2> QED BY <1>1, <1>2, SubsetInduction
<1> QED BY <1>3

\* The recursion may take out any element, not only the one the fold picks.
LEMMA SumTakesAny ==
    ASSUME NEW S, IsFiniteSet(S), NEW f, \A x \in S : f[x] \in Int, NEW F, Sums(f, S, F)
    PROVE  \A s \in SUBSET S : F[s] \in Int /\ \A x \in s : F[s] = f[x] + F[s \ {x}]
<1>0. ASSUME NEW s \in SUBSET S
      PROVE  IsFiniteSet(s) /\ Cardinality(s) \in Nat
    BY FS_Subset, FS_CardinalityType
<1>a. F[{}] = 0 /\ \A s \in SUBSET S : s # {} => F[s] = f[Taken(s)] + F[s \ {Taken(s)}]
    BY SumUnfolds
<1>b. \A s \in SUBSET S : F[s] \in Int
    BY SumIntegers
<1> DEFINE Good(s) == F[s] \in Int /\ \A x \in s : F[s] = f[x] + F[s \ {x}]
           Q == {n \in Nat : \A s \in SUBSET S : Cardinality(s) = n => Good(s)}
<1>1. 0 \in Q
  <2> SUFFICES ASSUME NEW s \in SUBSET S, Cardinality(s) = 0 PROVE Good(s)
      OBVIOUS
  <2>1. s = {}
      BY <1>0, FS_EmptySet
  <2> QED BY <2>1, SumUnfolds
<1>2. ASSUME NEW n \in Q
      PROVE  n + 1 \in Q
  <2> SUFFICES ASSUME NEW s \in SUBSET S, Cardinality(s) = n + 1
               PROVE  Good(s)
      OBVIOUS
  <2> HIDE DEF Good
  <2>0. n \in Nat /\ Cardinality(s) = n + 1
      OBVIOUS
  <2>1. ASSUME NEW x \in s
        PROVE  s \ {x} \in SUBSET S /\ Cardinality(s \ {x}) = n /\ Good(s \ {x})
    <3>1. Cardinality(s \ {x}) = Cardinality(s) - 1
        BY <1>0, FS_RemoveElement
    <3>2. s \ {x} \in SUBSET S /\ Cardinality(s \ {x}) = n
        BY <2>0, <3>1
    <3> QED BY <3>2
  <2> DEFINE t == Taken(s)
  <2>2. s # {}
    <3>1. Cardinality(s) # 0
        BY ONLY <2>0
    <3> QED BY <3>1, FS_EmptySet
  <2>3. t \in s /\ F[s] = f[t] + F[s \ {t}] /\ f[t] \in Int /\ F[s \ {t}] \in Int
    <3>1. t \in s /\ t \in S /\ s \ {t} \in SUBSET S
        BY <2>2, TakenFrom
    <3>2. F[s] = f[t] + F[s \ {t}]
        BY <1>a, <2>2
    <3> QED BY <3>1, <3>2, SumIntegers
  <2> HIDE DEF t
  <2>4. ASSUME NEW x \in s
        PROVE  F[s] = f[x] + F[s \ {x}]
    <3>1. CASE x = t
        BY <2>3, <3>1
    <3>2. CASE x # t
      <4>1. x \in s \ {t} /\ t \in s \ {x} /\ (s \ {t}) \ {x} = (s \ {x}) \ {t}
          BY <2>3, <3>2
      <4>2. F[s \ {t}] = f[x] + F[(s \ {t}) \ {x}]
          BY <2>1, <2>3, <4>1 DEF Good
      <4>3. F[s \ {x}] = f[t] + F[(s \ {x}) \ {t}]
          BY <2>1, <4>1 DEF Good
      <4>4. (s \ {x}) \ {t} \in SUBSET S /\ F[s \ {x}] \in Int
          BY <2>1, SumIntegers
      <4>5. F[(s \ {t}) \ {x}] \in Int
        <5>1. (s \ {t}) \ {x} \in SUBSET S
            OBVIOUS
        <5> QED BY <5>1, SumIntegers
      <4>6. f[x] \in Int
          OBVIOUS
      <4>7. F[(s \ {t}) \ {x}] = F[(s \ {x}) \ {t}]
          BY <4>1
      <4> QED BY <2>3, <4>2, <4>3, <4>4, <4>5, <4>6, <4>7
    <3> QED BY <3>1, <3>2
  <2>5. F[s] \in Int
      BY SumIntegers
  <2> QED BY <2>4, <2>5 DEF Good
<1>3. Nat \subseteq Q
  <2> HIDE DEF Q
  <2> QED BY <1>1, <1>2, NaturalInduction
<1> QED BY <1>0, <1>3

\* One summand more.
LEMMA SumExtends ==
    ASSUME NEW S, IsFiniteSet(S), NEW x, x \notin S, NEW f, \A y \in S \cup {x} : f[y] \in Int
    PROVE  SumOver(f, S \cup {x}) = SumOver(f, S) + f[x]
<1> DEFINE T == S \cup {x}
           F == CHOOSE i : Sums(f, T, i)
           G == CHOOSE i : Sums(f, S, i)
<1>1. IsFiniteSet(T)
    BY FS_AddElement
<1>2. Sums(f, T, F) /\ Sums(f, S, G)
    BY <1>1, SumExists
<1>3. T \in SUBSET T /\ x \in T /\ T \ {x} = S /\ S \in SUBSET T
    OBVIOUS
<1>4. SumOver(f, T) = F[T] /\ SumOver(f, S) = G[S]
    BY DEF SumOver
<1> HIDE DEF F, G, T
<1>5. \A y \in T : f[y] \in Int
    BY DEF T
<1>6. F[T] = f[x] + F[S] /\ F[S] \in Int /\ f[x] \in Int
    BY <1>1, <1>2, <1>3, <1>5, SumTakesAny
<1> DEFINE P == {s \in SUBSET S : G[s] = F[s]}
<1>7. {} \in P
    BY <1>2, SumUnfolds
<1>8. ASSUME NEW s \in SUBSET S, s # {}, s \ {Taken(s)} \in P
      PROVE  s \in P
  <2>1. s \in SUBSET T
      BY <1>3
  <2> QED BY <1>2, <1>8, <2>1, SumUnfolds
<1>9. S \in P
  <2> HIDE DEF P
  <2> QED BY <1>7, <1>8, SubsetInduction
<1>10. SumOver(f, T) = SumOver(f, S) + f[x]
    BY <1>4, <1>6, <1>9
<1> QED BY <1>10 DEF T

\* Sums over 0 .. t and 1 .. t, one term at a time.
LEMMA PrefixSums ==
    ASSUME NEW lo \in Int, NEW t \in Int, lo <= t + 1, NEW f, \A y \in lo .. t + 1 : f[y] \in Int
    PROVE  /\ SumOver(f, lo .. t + 1) = SumOver(f, lo .. t) + f[t + 1]
           /\ SumOver(f, lo .. t) \in Int
<1>1. IsFiniteSet(lo .. t)
    BY FS_Interval
<1>2. lo .. t + 1 = (lo .. t) \cup {t + 1} /\ t + 1 \notin lo .. t
    OBVIOUS
<1>3. \A y \in (lo .. t) \cup {t + 1} : f[y] \in Int
    BY <1>2
<1>4. SumOver(f, (lo .. t) \cup {t + 1}) = SumOver(f, lo .. t) + f[t + 1]
  <2> DEFINE S == lo .. t
             x == t + 1
  <2>1. IsFiniteSet(S) /\ x \notin S /\ \A y \in S \cup {x} : f[y] \in Int
      BY <1>1, <1>2, <1>3
  <2> HIDE DEF S, x
  <2>2. SumOver(f, S \cup {x}) = SumOver(f, S) + f[x]
      BY <2>1, SumExtends
  <2> QED BY <2>2 DEF S, x
<1>5. SumOver(f, lo .. t) \in Int
    BY <1>1, <1>3, SumType
<1> QED BY <1>2, <1>4, <1>5

\* The empty sum.
LEMMA EmptySum ==
    ASSUME NEW f
    PROVE  SumOver(f, {}) = 0
<1> DEFINE iter == CHOOSE i : Sums(f, {}, i)
<1>1. Sums(f, {}, iter)
    BY FS_EmptySet, SumExists
<1> QED BY <1>1, SumUnfolds DEF SumOver

----------------------------------------------------------------------------
(* Sets of numbers *)

\* A non-empty set of naturals has a least element.
LEMMA LeastNatural ==
    ASSUME NEW S \in SUBSET Nat, S # {}
    PROVE  Min(S) \in S /\ \A m \in S : Min(S) <= m
<1>1. PICK n \in S : \A m \in S : ~(<<m, n>> \in OpToRel(<, Nat))
    BY NatLessThanWellFounded, WFMin
<1>2. \A m \in S : ~(m < n)
    BY <1>1 DEF OpToRel
<1>3. \A m \in S : n <= m
    BY <1>2
<1> QED
    BY <1>3 DEF Min

\* A set of consecutive numbers from lo on is told by its size.
LEMMA ClosedBelow ==
    ASSUME NEW lo \in Nat, NEW hi \in Int, NEW D \in SUBSET (lo .. hi),
           \A m \in D : \A j \in lo .. m : j \in D
    PROVE  /\ IsFiniteSet(D) /\ Cardinality(D) \in Nat
           /\ D = lo .. lo + Cardinality(D) - 1
<1> DEFINE gaps == {k \in Nat : lo + k \notin D}
<1>1. gaps # {}
  <2> DEFINE k == IF hi < lo THEN 0 ELSE hi - lo + 1
  <2>1. k \in Nat /\ lo + k \notin D
      OBVIOUS
  <2> QED BY <2>1
<1>2. PICK k \in gaps : \A j \in gaps : k <= j
    BY <1>1, LeastNatural
<1>3. D = lo .. lo + k - 1
  <2>1. ASSUME NEW m \in D PROVE m \in lo .. lo + k - 1
    <3>1. m < lo + k
        BY <1>2
    <3> QED BY <1>2, <3>1
  <2>2. ASSUME NEW m \in lo .. lo + k - 1 PROVE m \in D
    <3>1. m - lo \in Nat /\ m - lo < k /\ lo + (m - lo) = m
        BY <1>2
    <3>2. m - lo \notin gaps
        BY <1>2, <3>1
    <3> QED BY <3>1, <3>2
  <2> QED BY <2>1, <2>2
<1>4. IsFiniteSet(D) /\ Cardinality(D) = k
  <2>1. lo \in Int /\ lo + k - 1 \in Int
      BY <1>2
  <2>2. /\ IsFiniteSet(lo .. lo + k - 1)
        /\ Cardinality(lo .. lo + k - 1) = IF lo > lo + k - 1 THEN 0 ELSE (lo + k - 1) - lo + 1
      BY <2>1, FS_Interval
  <2> QED BY <1>2, <1>3, <2>2
<1> QED BY <1>2, <1>3, <1>4

\* A finite set of integers that is not empty has a greatest element.
LEMMA GreatestInteger ==
    ASSUME NEW S \in SUBSET Int, IsFiniteSet(S), S # {}
    PROVE  Max(S) \in S /\ \A x \in S : x <= Max(S)
<1> DEFINE P == {s \in SUBSET S : s # {} => \E m \in s : \A x \in s : x <= m}
<1>1. {} \in P
    OBVIOUS
<1>2. ASSUME NEW s \in SUBSET S, s # {}, s \ {Taken(s)} \in P
      PROVE  s \in P
  <2>1. PICK t \in s : t = Taken(s)
      BY <1>2, TakenFrom
  <2>0. \A x \in s : x \in Int
      OBVIOUS
  <2>2. CASE s \ {t} = {}
    <3>1. \A x \in s : x = t
        BY <2>2
    <3>2. \A x \in s : x <= t
        BY <2>0, <3>1
    <3> QED BY <3>2
  <2>3. CASE s \ {t} # {}
    <3>1. PICK m \in s \ {t} : \A x \in s \ {t} : x <= m
        BY <1>2, <2>1, <2>3
    <3>2. \A x \in s : x \in Int /\ (x = t \/ x <= m)
        BY <2>0, <3>1
    <3>3. CASE m <= t
      <4>1. \A x \in s : x <= t
          BY <3>1, <3>2, <3>3
      <4> QED BY <4>1
    <3>4. CASE ~(m <= t)
      <4>1. \A x \in s : x <= m
          BY <3>1, <3>2, <3>4
      <4> QED BY <3>1, <4>1
    <3> QED BY <3>3, <3>4
  <2> QED BY <2>2, <2>3
<1>3. S \in P
  <2> HIDE DEF P
  <2> QED BY <1>1, <1>2, SubsetInduction
<1>4. \E m \in S : \A x \in S : m >= x
    BY <1>3
<1> QED BY <1>4 DEF Max

\* A sequence of integers in which no step goes down never goes down.
LEMMA NeverDown ==
    ASSUME NEW N \in Nat, NEW b, \A k \in 0 .. N : b[k] \in Int,
           \A k \in 0 .. N - 1 : b[k] <= b[k + 1],
           NEW k \in 0 .. N, NEW l \in 0 .. N, k <= l
    PROVE  b[k] <= b[l]
<1> DEFINE P == {d \in Nat : k + d \in 0 .. N => b[k] <= b[k + d]}
<1>1. 0 \in P
    OBVIOUS
<1>2. ASSUME NEW d \in P \cap Nat
      PROVE  d + 1 \in P
  <2> SUFFICES ASSUME k + (d + 1) \in 0 .. N PROVE b[k] <= b[k + (d + 1)]
      OBVIOUS
  <2>1. k + d \in 0 .. N - 1 /\ k + d \in 0 .. N /\ k + (d + 1) = (k + d) + 1
      OBVIOUS
  <2>2. b[k] <= b[k + d] /\ b[k + d] <= b[(k + d) + 1]
      BY <2>1
  <2>3. b[k] \in Int /\ b[k + d] \in Int /\ b[(k + d) + 1] \in Int
      BY <2>1
  <2> QED BY <2>1, <2>2, <2>3
<1>3. Nat \subseteq P
  <2> HIDE DEF P
  <2> QED BY <1>1, <1>2, NaturalInduction
<1>4. l - k \in Nat /\ k + (l - k) = l
    OBVIOUS
<1> QED BY <1>3, <1>4

\* Two numbers of a window no longer than K have different residues.
LEMMA ResiduesDiffer ==
    ASSUME NEW K \in Nat \ {0}, NEW x \in Nat, NEW y \in Nat, NEW lo \in Int,
           x \in lo .. lo + K - 1, y \in lo .. lo + K - 1, x % K = y % K
    PROVE  x = y
<1>1. x = K * (x \div K) + (x % K) /\ y = K * (y \div K) + (y % K)
    OBVIOUS
<1> DEFINE p == x \div K
           q == y \div K
<1>2. p \in Int /\ q \in Int
    OBVIOUS
<1>3. x - y = K * (p - q)
    BY <1>1, <1>2
<1>4. x - y < K /\ y - x < K
    OBVIOUS
<1> HIDE DEF p, q
<1>5. CASE p - q >= 1
  <2>1. K * (p - q) >= K * 1
      BY <1>2, <1>5
  <2> QED BY <1>3, <1>4, <2>1
<1>6. CASE q - p >= 1
  <2>1. K * (q - p) >= K * 1 /\ K * (q - p) = - (K * (p - q))
      BY <1>2, <1>6
  <2> QED BY <1>2, <1>3, <1>4, <2>1
<1>7. CASE p = q
    BY <1>2, <1>3, <1>7
<1> QED BY <1>2, <1>5, <1>6, <1>7

----------------------------------------------------------------------------
(* The calendar and the decider *)

\* A calendar as the assumption on the studies describes it, and a lead.
IsAxis(axis) == axis.hours \in Seq(Nat) /\ axis.study \in 1 .. Len(axis.hours)
IsLead(lead) == lead.kind \in {"hours", "stages"} /\ lead.span \in Nat

\* The boundaries start at zero, and each is its stage's hours after the one before.
LEMMA Boundaries ==
    ASSUME NEW axis, IsAxis(axis)
    PROVE  /\ Len(axis.hours) \in Nat
           /\ Boundary(axis, 0) = 0
           /\ \A k \in 0 .. Len(axis.hours) : Boundary(axis, k) \in Int
           /\ \A k, l \in 0 .. Len(axis.hours) : k <= l => Boundary(axis, k) <= Boundary(axis, l)
<1>1. \A k : Boundary(axis, k) = SumOver(axis.hours, 1 .. k)
    BY MapThenSumIsSumOver DEF Boundary
<1>2. PICK N \in Nat : N = Len(axis.hours)
    BY DEF IsAxis
<1>3. \A y \in 1 .. N : axis.hours[y] \in Nat
    BY <1>2 DEF IsAxis
<1>4. Boundary(axis, 0) = 0
  <2>1. 1 .. 0 = {}
      OBVIOUS
  <2> QED BY <1>1, <2>1, EmptySum
<1>5. ASSUME NEW k \in 0 .. N - 1
      PROVE  /\ Boundary(axis, k + 1) = Boundary(axis, k) + axis.hours[k + 1]
             /\ Boundary(axis, k) \in Int /\ axis.hours[k + 1] \in Nat
  <2>1. \A y \in 1 .. k + 1 : axis.hours[y] \in Int
      BY <1>2, <1>3
  <2>2. 1 \in Int /\ k \in Int /\ 1 <= k + 1
      OBVIOUS
  <2>3. /\ SumOver(axis.hours, 1 .. k + 1) = SumOver(axis.hours, 1 .. k) + axis.hours[k + 1]
        /\ SumOver(axis.hours, 1 .. k) \in Int
      BY <2>1, <2>2, PrefixSums
  <2>4. k + 1 \in 1 .. N
      BY <1>2
  <2> QED BY <1>1, <1>3, <2>3, <2>4
<1>6. ASSUME NEW k \in 0 .. N
      PROVE  Boundary(axis, k) \in Int
  <2>1. CASE k = 0
      BY <1>4, <2>1
  <2>2. CASE k # 0
    <3>1. k - 1 \in 0 .. N - 1 /\ (k - 1) + 1 = k
        BY <1>2, <2>2
    <3> QED BY <1>5, <3>1
  <2> QED BY <2>1, <2>2
<1> DEFINE b == [k \in 0 .. N |-> Boundary(axis, k)]
<1>7. \A k \in 0 .. N : b[k] \in Int
    BY <1>6
<1>8. \A k \in 0 .. N - 1 : b[k] <= b[k + 1]
  <2> SUFFICES ASSUME NEW k \in 0 .. N - 1 PROVE b[k] <= b[k + 1]
      OBVIOUS
  <2>1. k \in 0 .. N /\ k + 1 \in 0 .. N
      BY <1>2
  <2> QED BY <1>5, <2>1
<1>9. \A k, l \in 0 .. N : k <= l => b[k] <= b[l]
  <2> HIDE DEF b
  <2> QED BY <1>2, <1>7, <1>8, NeverDown
<1> QED BY <1>2, <1>4, <1>6, <1>9

\* The stage that contains an hour, by the boundaries on both of its sides.
LEMMA Containing ==
    ASSUME NEW axis, IsAxis(axis), NEW target \in Int
    PROVE  /\ ContainingStage(axis, target) \in -1 .. Len(axis.hours)
           /\ \A k \in 0 .. Len(axis.hours) :
                 Boundary(axis, k) < target <=> k <= ContainingStage(axis, target)
<1>1. PICK N \in Nat : N = Len(axis.hours)
    BY Boundaries
<1> DEFINE D == {k \in 0 .. N : Boundary(axis, k) < target}
<1>2. \A m \in D : \A j \in 0 .. m : j \in D
  <2> SUFFICES ASSUME NEW m \in D, NEW j \in 0 .. m PROVE j \in D
      OBVIOUS
  <2>1. j \in 0 .. N /\ m \in 0 .. N /\ j <= m /\ Boundary(axis, m) < target
      BY <1>1
  <2>2. Boundary(axis, j) <= Boundary(axis, m) /\ Boundary(axis, j) \in Int /\ Boundary(axis, m) \in Int
      BY <1>1, <2>1, Boundaries
  <2> QED BY <2>1, <2>2
<1>3. D \in SUBSET (0 .. N) /\ 0 \in Nat /\ N \in Int
    BY <1>1
<1>4. ContainingStage(axis, target) = Cardinality(D) - 1
    BY <1>1 DEF ContainingStage
<1>5. Cardinality(D) \in Nat /\ D = 0 .. Cardinality(D) - 1
  <2> HIDE DEF D
  <2>1. Cardinality(D) \in Nat /\ D = 0 .. 0 + Cardinality(D) - 1
      BY <1>2, <1>3, ClosedBelow
  <2> QED BY <2>1
<1>6. PICK c \in Nat : c = Cardinality(D)
    BY <1>5
<1>7. \A k \in 0 .. N : Boundary(axis, k) < target <=> k <= c - 1
  <2>1. \A k \in 0 .. N : Boundary(axis, k) < target <=> k \in D
      OBVIOUS
  <2> HIDE DEF D
  <2> QED BY <1>1, <1>5, <1>6, <2>1
<1>8. c - 1 <= N
  <2>1. CASE c = 0
      BY <1>1, <2>1
  <2>2. CASE c # 0
    <3>1. c - 1 \in D
      <4> HIDE DEF D
      <4> QED BY <1>5, <1>6, <2>2
    <3> QED BY <1>1, <3>1
  <2> QED BY <2>1, <2>2
<1> QED BY <1>1, <1>4, <1>6, <1>7, <1>8

\* Each delivery is decided in one stage no later than itself, or before the study, and a later
\* delivery no earlier: the order the excised window rests on (fixed_post_horizon_width).
LEMMA DeciderFacts ==
    ASSUME NEW axis, IsAxis(axis), NEW lead, IsLead(lead)
    PROVE  /\ \A m \in DeliveryStages(axis) : Decider(lead, axis)[m] \in -1 .. m
           /\ \A m, n \in DeliveryStages(axis) :
                 m <= n => Decider(lead, axis)[m] <= Decider(lead, axis)[n]
           /\ lead.kind = "hours" => \A m \in DeliveryStages(axis) :
                 \A k \in 0 .. Len(axis.hours) :
                    Boundary(axis, k) < Boundary(axis, m + 1) - lead.span
                        <=> k <= Decider(lead, axis)[m]
<1>1. PICK N \in Nat : N = Len(axis.hours)
    BY Boundaries
<1>2. DeliveryStages(axis) = 0 .. N - 1
    BY <1>1 DEF DeliveryStages
<1> DEFINE c == Decider(lead, axis)
<1>3. CASE lead.kind = "stages"
  <2>1. \A m \in 0 .. N - 1 : c[m] = IF m >= lead.span THEN m - lead.span ELSE -1
      BY <1>2, <1>3 DEF Decider, PreStudy
  <2> HIDE DEF c
  <2>2. lead.span \in Nat
      BY DEF IsLead
  <2>3. /\ \A m \in 0 .. N - 1 : c[m] \in -1 .. m
        /\ \A m, n \in 0 .. N - 1 : m <= n => c[m] <= c[n]
      BY <1>1, <2>1, <2>2
  <2> QED BY <1>2, <1>3, <2>3 DEF c
<1>4. CASE lead.kind = "hours"
  <2> DEFINE target(m) == Boundary(axis, m + 1) - lead.span
  <2>1. \A m \in 0 .. N - 1 : c[m] = ContainingStage(axis, target(m))
      BY <1>2, <1>4 DEF Decider
  <2>2. ASSUME NEW m \in 0 .. N - 1
        PROVE  m + 1 \in 0 .. N /\ Boundary(axis, m + 1) \in Int /\ target(m) \in Int
    <3>1. m + 1 \in 0 .. N
        BY <1>1
    <3>2. Boundary(axis, m + 1) \in Int
        BY <1>1, <3>1, Boundaries
    <3> QED BY <3>1, <3>2 DEF IsLead
  <2> HIDE DEF c
  <2>3. ASSUME NEW m \in 0 .. N - 1
        PROVE  /\ c[m] \in Int /\ c[m] >= -1
               /\ \A k \in 0 .. N : Boundary(axis, k) < target(m) <=> k <= c[m]
    <3>1. target(m) \in Int /\ c[m] = ContainingStage(axis, target(m))
        BY <2>1, <2>2
    <3> HIDE DEF target
    <3>2. c[m] \in -1 .. N /\ \A k \in 0 .. N : Boundary(axis, k) < target(m) <=> k <= c[m]
        BY <1>1, <3>1, Containing
    <3> QED BY <1>1, <3>2
  <2>4. ASSUME NEW m \in 0 .. N - 1
        PROVE  c[m] <= m
    <3>1. ~ (Boundary(axis, m + 1) < target(m))
        BY <2>2 DEF IsLead
    <3>2. ~ (m + 1 <= c[m])
        BY <2>2, <2>3, <3>1
    <3> QED BY <1>1, <2>3, <3>2
  <2>5. ASSUME NEW m \in 0 .. N - 1, NEW n \in 0 .. N - 1, m <= n
        PROVE  c[m] <= c[n]
    <3>1. CASE c[m] = -1
        BY <2>3, <3>1
    <3>2. CASE c[m] # -1
      <4>1. c[m] \in 0 .. N /\ m \in Int
          BY <1>1, <2>3, <2>4, <3>2
      <4>2. Boundary(axis, c[m]) < target(m) /\ Boundary(axis, c[m]) \in Int
          BY <1>1, <2>3, <4>1, Boundaries
      <4>3. m + 1 <= n + 1
          BY <1>1, <2>5
      <4>4. Boundary(axis, m + 1) <= Boundary(axis, n + 1)
          BY <1>1, <2>2, <4>3, Boundaries
      <4>5. target(m) <= target(n)
          BY <2>2, <4>4 DEF IsLead
      <4>6. Boundary(axis, c[m]) < target(n)
          BY <2>2, <4>2, <4>5
      <4> QED BY <2>3, <4>1, <4>6
    <3> QED BY <3>1, <3>2
  <2>6. /\ \A m \in 0 .. N - 1 : c[m] \in -1 .. m
        /\ \A m, n \in 0 .. N - 1 : m <= n => c[m] <= c[n]
        /\ \A m \in 0 .. N - 1 : \A k \in 0 .. N : Boundary(axis, k) < target(m) <=> k <= c[m]
      BY <2>3, <2>4, <2>5
  <2> QED BY <1>1, <1>2, <2>6 DEF c
<1> QED BY <1>3, <1>4 DEF IsLead

\* Min of two integers.
LEMMA MinPair ==
    ASSUME NEW a \in Int, NEW b \in Int
    PROVE  Min({a, b}) = IF a <= b THEN a ELSE b
BY DEF Min

\* The values of a function on a finite domain are finitely many.
LEMMA ImageFinite ==
    ASSUME NEW S, IsFiniteSet(S), NEW f, S = DOMAIN f, f = [x \in S |-> f[x]]
    PROVE  IsFiniteSet({f[x] : x \in S})
<1> DEFINE T == {f[x] : x \in S}
<1>1. f \in [S -> T] /\ \A y \in T : \E x \in S : f[x] = y
    OBVIOUS
<1>2. f \in Surjection(S, T)
    BY <1>1 DEF Surjection
<1> HIDE DEF T
<1>3. IsFiniteSet(T)
    BY <1>2, FS_Surjection
<1> QED BY <1>3 DEF T

\* The validator's walk counts the study deliveries that are decided before the study.
LEMMA LeadingCount ==
    ASSUME NEW axis, IsAxis(axis), NEW lead, IsLead(lead)
    PROVE  /\ LeadDeliveryStageCount(lead, axis) \in 0 .. axis.study
           /\ 0 .. LeadDeliveryStageCount(lead, axis) - 1
                 = {m \in DecisionStages(axis) : Decider(lead, axis)[m] = PreStudy}
<1>1. PICK N \in Nat : N = Len(axis.hours)
    BY Boundaries
<1>2. PICK n \in Nat : n = axis.study
    BY <1>1 DEF IsAxis
<1>3. DecisionStages(axis) = 0 .. n - 1 /\ DeliveryStages(axis) = 0 .. N - 1 /\ n <= N
    BY <1>1, <1>2 DEF DecisionStages, DeliveryStages, IsAxis
<1> DEFINE c == Decider(lead, axis)
<1>4. PICK span \in Nat : span = lead.span
    BY DEF IsLead
<1>5. CASE lead.kind = "stages"
  <2>1. \A m \in 0 .. N - 1 : c[m] = IF m >= span THEN m - span ELSE -1
      BY <1>3, <1>4, <1>5 DEF Decider, PreStudy
  <2>2. LeadDeliveryStageCount(lead, axis) = IF span <= n THEN span ELSE n
      BY <1>2, <1>4, <1>5, MinPair DEF LeadDeliveryStageCount
  <2> HIDE DEF c
  <2>3. PICK k \in 0 .. n : k = LeadDeliveryStageCount(lead, axis) /\ (k = span \/ (k = n /\ n < span))
      BY <2>2
  <2>4. \A m \in 0 .. n - 1 : c[m] = -1 <=> m < span
      BY <1>3, <2>1
  <2>5. 0 .. k - 1 = {m \in 0 .. n - 1 : c[m] = -1}
      BY <2>3, <2>4
  <2> QED BY <1>2, <1>3, <2>3, <2>5 DEF c, PreStudy
<1>6. CASE lead.kind = "hours"
  <2> DEFINE D == {k \in 1 .. n : Boundary(axis, k) <= span}
  <2>1. ASSUME NEW k \in 0 .. N
        PROVE  Boundary(axis, k) \in Int
      BY <1>1, Boundaries
  <2>2. \A m \in D : \A j \in 1 .. m : j \in D
    <3> SUFFICES ASSUME NEW m \in D, NEW j \in 1 .. m PROVE j \in D
        OBVIOUS
    <3>1. j \in 0 .. N /\ m \in 0 .. N /\ j <= m /\ j \in 1 .. n
        BY <1>3
    <3>2. Boundary(axis, j) <= Boundary(axis, m)
        BY <1>1, <3>1, Boundaries
    <3>3. Boundary(axis, j) \in Int /\ Boundary(axis, m) \in Int /\ Boundary(axis, m) <= span
        BY <2>1, <3>1
    <3> QED BY <3>1, <3>2, <3>3
  <2>3. LeadDeliveryStageCount(lead, axis) = Cardinality(D)
    <3>1. lead.kind # "stages"
        BY <1>6
    <3> QED BY <1>2, <1>4, <3>1 DEF LeadDeliveryStageCount
  <2>4. Cardinality(D) \in Nat /\ D = 1 .. Cardinality(D) /\ IsFiniteSet(D)
    <3>1. D \in SUBSET (1 .. n) /\ 1 \in Nat /\ n \in Int
        BY <1>2
    <3> HIDE DEF D
    <3>2. Cardinality(D) \in Nat /\ D = 1 .. 1 + Cardinality(D) - 1 /\ IsFiniteSet(D)
        BY <2>2, <3>1, ClosedBelow
    <3> QED BY <3>2
  <2>5. PICK k \in Nat : k = Cardinality(D)
      BY <2>4
  <2>6. k <= n
    <3>1. CASE k = 0
        BY <1>2, <3>1
    <3>2. CASE k # 0
      <4>1. k \in D
        <5> HIDE DEF D
        <5> QED BY <2>4, <2>5, <3>2
      <4> QED BY <1>2, <4>1
    <3> QED BY <3>1, <3>2
  <2>7. ASSUME NEW m \in 0 .. n - 1
        PROVE  c[m] = -1 <=> m < k
    <3>1. m \in 0 .. N - 1 /\ 0 \in 0 .. N /\ m + 1 \in 0 .. N /\ m + 1 \in 1 .. n
        BY <1>1, <1>2, <1>3
    <3>2. Boundary(axis, 0) < Boundary(axis, m + 1) - span <=> 0 <= c[m]
        BY <1>1, <1>3, <1>4, <1>6, <3>1, DeciderFacts
    <3>3. c[m] \in -1 .. m
        BY <1>3, <3>1, DeciderFacts
    <3>4. Boundary(axis, 0) = 0 /\ Boundary(axis, m + 1) \in Int
        BY <2>1, <3>1, Boundaries
    <3>5. m + 1 \in D <=> Boundary(axis, m + 1) <= span
        BY <3>1
    <3>6. m + 1 \in D <=> m < k
      <4> HIDE DEF D
      <4> QED BY <2>4, <2>5, <3>1
    <3> HIDE DEF c, D
    <3> QED BY <3>2, <3>3, <3>4, <3>5, <3>6
  <2> HIDE DEF c
  <2>8. 0 .. k - 1 = {m \in 0 .. n - 1 : c[m] = -1}
      BY <2>6, <2>7
  <2> QED BY <1>2, <1>3, <2>3, <2>5, <2>6, <2>8 DEF c, PreStudy
<1> QED BY <1>5, <1>6 DEF IsLead

----------------------------------------------------------------------------
(* The deliveries in flight, and the depth of the ring *)

\* Decided before stage t and not due before it, and no part of the fixed window.
Due(axis, c, t) ==
    {m \in DeliveryStages(axis) : m >= t /\ c[m] <= t - 1 /\ (c[m] # -1 \/ m < axis.study)}

\* The excised window is the deliveries past the study that are decided before it.
LEMMA Excision ==
    ASSUME NEW axis, IsAxis(axis), NEW lead, IsLead(lead)
    PROVE  LET point == Resolve(lead, axis)
           IN  /\ point.fixed \in Nat /\ point.study + point.fixed <= Len(axis.hours)
               /\ Excised(point) = {m \in DeliveryStages(axis) :
                                      m >= axis.study /\ point.decider[m] = -1}
<1>1. PICK N \in Nat : N = Len(axis.hours)
    BY Boundaries
<1>2. PICK n \in Nat : n = axis.study
    BY <1>1 DEF IsAxis
<1>3. DeliveryStages(axis) = 0 .. N - 1 /\ n <= N
    BY <1>1, <1>2 DEF DeliveryStages, IsAxis
<1> DEFINE c == Decider(lead, axis)
           D == {m \in n .. N - 1 : \A j \in n .. m : c[j] = -1}
<1>4. /\ \A m \in 0 .. N - 1 : c[m] \in -1 .. m
      /\ \A m, k \in 0 .. N - 1 : m <= k => c[m] <= c[k]
    BY <1>3, DeciderFacts
<1>5. PreStudyRun(c, axis.study, Len(axis.hours) - 1) = Cardinality(D)
    BY <1>1, <1>2 DEF PreStudyRun, PreStudy
<1> HIDE DEF c
<1>6. D = {m \in 0 .. N - 1 : m >= n /\ c[m] = -1}
  <2>1. ASSUME NEW m \in 0 .. N - 1, m >= n, c[m] = -1, NEW j \in n .. m
        PROVE  c[j] = -1
    <3>1. j \in 0 .. N - 1 /\ j <= m
        BY <1>2, <2>1
    <3>2. c[j] <= c[m] /\ c[j] \in -1 .. j
        BY <1>4, <2>1, <3>1
    <3> QED BY <2>1, <3>1, <3>2
  <2>2. \A m \in n .. N - 1 : m \in 0 .. N - 1 /\ m \in n .. m
      BY <1>2
  <2>3. \A m \in 0 .. N - 1 : m >= n => m \in n .. N - 1
      BY <1>2
  <2> QED BY <2>1, <2>2, <2>3
<1>7. Cardinality(D) \in Nat /\ D = n .. n + Cardinality(D) - 1
  <2>1. D \in SUBSET (n .. N - 1) /\ N - 1 \in Int
      BY <1>1
  <2>2. ASSUME NEW m \in D, NEW j \in n .. m PROVE j \in D
    <3>1. m \in n .. N - 1 /\ \A i \in n .. m : c[i] = -1
        OBVIOUS
    <3>2. j \in n .. N - 1 /\ \A i \in n .. j : i \in n .. m
        BY <3>1, <1>2
    <3> QED BY <3>1, <3>2
  <2> HIDE DEF D
  <2> QED BY <2>1, <2>2, ClosedBelow
<1>8. PICK k \in Nat : k = Cardinality(D)
    BY <1>7
<1>9. n + k <= N
  <2>1. CASE k = 0
      BY <1>3, <2>1
  <2>2. CASE k # 0
    <3>1. n + k - 1 \in D
      <4> HIDE DEF D
      <4> QED BY <1>7, <1>8, <2>2
    <3> QED BY <3>1, <1>8, <1>2
  <2> QED BY <2>1, <2>2
<1> DEFINE point == Resolve(lead, axis)
<1>10. point.fixed = k /\ point.study = n /\ point.decider = c
    BY <1>2, <1>5, <1>8 DEF Resolve, c
<1>11. Excised(point) = D
  <2> HIDE DEF D, point
  <2> QED BY <1>7, <1>8, <1>10 DEF Excised
<1> HIDE DEF point, D
<1>12. Excised(point) = {m \in DeliveryStages(axis) : m >= axis.study /\ point.decider[m] = -1}
    BY <1>2, <1>3, <1>6, <1>10, <1>11
<1> QED BY <1>1, <1>9, <1>10, <1>12 DEF point

\* What is in flight at t is not due before the axis ends, and its number is finite.
LEMMA DueFinite ==
    ASSUME NEW axis, IsAxis(axis), NEW c, NEW t
    PROVE  IsFiniteSet(Due(axis, c, t)) /\ Cardinality(Due(axis, c, t)) \in Nat
<1>1. IsFiniteSet(DeliveryStages(axis))
  <2>1. 0 \in Int /\ Len(axis.hours) - 1 \in Int
      BY Boundaries
  <2> QED BY <2>1, FS_Interval DEF DeliveryStages
<1> QED BY <1>1, FS_Subset, FS_CardinalityType DEF Due

\* Stage t turns what is in flight before it into what is in flight after it: the delivery
\* of t leaves, and the deliveries decided in t enter.
LEMMA DueStep ==
    ASSUME NEW axis, IsAxis(axis), NEW lead, IsLead(lead), NEW t \in DecisionStages(axis)
    PROVE  LET c == Decider(lead, axis)
               before == IF t = 0 THEN {} ELSE Due(axis, c, t)
           IN  /\ OccupancyDelta(c, axis, t) \in Int
               /\ Cardinality(Due(axis, c, t + 1)) = Cardinality(before) + OccupancyDelta(c, axis, t)
<1>1. PICK N \in Nat : N = Len(axis.hours)
    BY Boundaries
<1>2. PICK n \in Nat : n = axis.study
    BY <1>1 DEF IsAxis
<1>3. /\ DecisionStages(axis) = 0 .. n - 1 /\ DeliveryStages(axis) = 0 .. N - 1 /\ n <= N
      /\ t \in 0 .. n - 1
    BY <1>1, <1>2 DEF DecisionStages, DeliveryStages, IsAxis
<1> DEFINE c == Decider(lead, axis)
           before == IF t = 0 THEN {} ELSE Due(axis, c, t)
           entering == {m \in DOMAIN c : c[m] = t \/ (t = 0 /\ c[m] = PreStudy /\ m \in DecisionStages(axis))}
           after == Due(axis, c, t + 1)
<1>4. DOMAIN c = 0 .. N - 1
    BY <1>3 DEF Decider
<1>5. \A m \in 0 .. N - 1 : c[m] \in -1 .. m
    BY <1>3, DeciderFacts
<1>6. OccupancyDelta(c, axis, t) = Cardinality(entering) - 1
  <2>1. c[t] \in DecisionStages(axis) \cup {PreStudy}
      BY <1>2, <1>3, <1>5 DEF PreStudy
  <2> HIDE DEF c
  <2> QED BY <2>1 DEF OccupancyDelta
<1> HIDE DEF c
<1>7. \A m : m \in entering <=> m \in 0 .. N - 1 /\ (c[m] = t \/ (t = 0 /\ c[m] = -1 /\ m < n))
    BY <1>3, <1>4 DEF PreStudy
<1>8. \A m : m \in after <=> m \in 0 .. N - 1 /\ m >= t + 1 /\ c[m] <= t /\ (c[m] # -1 \/ m < n)
    BY <1>2, <1>3 DEF Due
<1>9. \A m : m \in before <=> m \in 0 .. N - 1 /\ t # 0 /\ m >= t /\ c[m] <= t - 1 /\ (c[m] # -1 \/ m < n)
    BY <1>2, <1>3 DEF Due
<1>10. IsFiniteSet(before) /\ IsFiniteSet(after) /\ IsFiniteSet(entering)
  <2>1. IsFiniteSet(0 .. N - 1)
      BY FS_Interval
  <2>2. before \in SUBSET (0 .. N - 1) /\ after \in SUBSET (0 .. N - 1) /\ entering \in SUBSET (0 .. N - 1)
      BY <1>7, <1>8, <1>9
  <2> QED BY <2>1, <2>2, FS_Subset
<1> HIDE DEF before, entering, after
<1>11. before \cap entering = {}
    BY <1>3, <1>5, <1>7, <1>9
<1>12. t \notin after
    BY <1>3, <1>8
<1>13. before \cup entering = after \cup {t}
  <2>1. ASSUME NEW m \in before PROVE m \in after \cup {t}
      BY SMTT(20), <1>3, <1>5, <1>8, <1>9
  <2>2. ASSUME NEW m \in entering PROVE m \in after \cup {t}
      BY <1>3, <1>5, <1>7, <1>8
  <2>3. ASSUME NEW m \in after PROVE m \in before \cup entering
      BY <1>3, <1>5, <1>7, <1>8, <1>9
  <2>4. t \in before \cup entering
      BY <1>3, <1>5, <1>7, <1>9
  <2> QED BY <2>1, <2>2, <2>3, <2>4
<1>14. Cardinality(before \cup entering) = Cardinality(before) + Cardinality(entering) - 0
  <2>1. Cardinality(before \cup entering)
            = Cardinality(before) + Cardinality(entering) - Cardinality(before \cap entering)
      BY <1>10, FS_Union
  <2> QED BY <1>11, <2>1, FS_EmptySet
<1>15. Cardinality(after \cup {t}) = Cardinality(after) + 1
    BY <1>10, <1>12, FS_AddElement
<1>16. Cardinality(before) \in Nat /\ Cardinality(entering) \in Nat /\ Cardinality(after) \in Nat
    BY <1>10, FS_CardinalityType
<1>17. /\ Cardinality(after) = Cardinality(before) + (Cardinality(entering) - 1)
       /\ Cardinality(entering) - 1 \in Int
  <2>1. PICK a \in Nat, b \in Nat, d \in Nat :
            a = Cardinality(before) /\ b = Cardinality(entering) /\ d = Cardinality(after)
      BY <1>16
  <2>2. d + 1 = a + b - 0
      BY <1>13, <1>14, <1>15, <2>1
  <2>3. d = a + (b - 1) /\ b - 1 \in Int
      BY <2>2
  <2> QED BY <2>1, <2>3
<1> QED BY <1>6, <1>17 DEF c, before, after

\* The prefix sums of build_decision_sets_and_depth count what is in flight after each stage.
LEMMA OccupancyCounts ==
    ASSUME NEW axis, IsAxis(axis), NEW lead, IsLead(lead)
    PROVE  LET c == Decider(lead, axis)
           IN  \A t \in DecisionStages(axis) : Occupancy(c, axis)[t] = Cardinality(Due(axis, c, t + 1))
<1>1. PICK n \in Nat : n = axis.study
    BY Boundaries DEF IsAxis
<1>2. DecisionStages(axis) = 0 .. n - 1
    BY <1>1 DEF DecisionStages
<1> DEFINE c == Decider(lead, axis)
           delta == [t \in DecisionStages(axis) |-> OccupancyDelta(c, axis, t)]
           flight(t) == Cardinality(Due(axis, c, t + 1))
<1>3. \A t \in DecisionStages(axis) : Occupancy(c, axis)[t] = SumOver(delta, 0 .. t)
  <2> HIDE DEF delta, c
  <2>1. \A t : MapThenSumSet(LAMBDA s : delta[s], 0 .. t) = SumOver(delta, 0 .. t)
      BY MapThenSumIsSumOver
  <2> QED BY <2>1 DEF Occupancy, delta
<1>4. ASSUME NEW t \in 0 .. n - 1
      PROVE  /\ delta[t] \in Int
             /\ flight(t) = (IF t = 0 THEN 0 ELSE flight(t - 1)) + delta[t]
  <2>1. delta[t] = OccupancyDelta(c, axis, t)
      BY <1>2
  <2>2. /\ OccupancyDelta(c, axis, t) \in Int
        /\ flight(t) = Cardinality(IF t = 0 THEN {} ELSE Due(axis, c, t)) + OccupancyDelta(c, axis, t)
      BY <1>2, DueStep
  <2>3. CASE t = 0
      BY <2>1, <2>2, <2>3, FS_EmptySet
  <2>4. CASE t # 0
    <3>1. (t - 1) + 1 = t
        OBVIOUS
    <3> HIDE DEF c, delta
    <3> QED BY <2>1, <2>2, <2>4, <3>1
  <2> QED BY <2>3, <2>4
<1>5. ASSUME NEW t \in Nat
      PROVE  flight(t) \in Nat
    BY DueFinite
<1> HIDE DEF delta, c, flight
<1> DEFINE P == {t \in Nat : t \in 0 .. n - 1 => SumOver(delta, 0 .. t) = flight(t)}
<1>6. ASSUME NEW t \in 0 .. n - 1
      PROVE  /\ SumOver(delta, 0 .. t) = SumOver(delta, 0 .. t - 1) + delta[t]
             /\ SumOver(delta, 0 .. t - 1) \in Int
  <2> DEFINE u == t - 1
  <2>1. 0 \in Int /\ u \in Int /\ 0 <= u + 1 /\ u + 1 = t
      BY <1>1
  <2>2. \A y \in 0 .. u + 1 : delta[y] \in Int
      BY <1>1, <1>4, <2>1
  <2> HIDE DEF u
  <2>3. /\ SumOver(delta, 0 .. u + 1) = SumOver(delta, 0 .. u) + delta[u + 1]
        /\ SumOver(delta, 0 .. u) \in Int
      BY <2>1, <2>2, PrefixSums
  <2> QED BY <2>1, <2>3 DEF u
<1>7. 0 \in P
  <2> SUFFICES ASSUME 0 \in 0 .. n - 1 PROVE SumOver(delta, 0 .. 0) = flight(0)
      OBVIOUS
  <2>1. 0 .. 0 - 1 = {}
      OBVIOUS
  <2>2. SumOver(delta, 0 .. 0 - 1) = 0
      BY <2>1, EmptySum
  <2>3. SumOver(delta, 0 .. 0) = 0 + delta[0] /\ flight(0) = 0 + delta[0]
      BY <1>4, <1>6, <2>2
  <2> QED BY <2>3
<1>8. ASSUME NEW t \in P
      PROVE  t + 1 \in P
  <2> SUFFICES ASSUME t + 1 \in 0 .. n - 1 PROVE SumOver(delta, 0 .. t + 1) = flight(t + 1)
      OBVIOUS
  <2>1. t \in 0 .. n - 1 /\ t + 1 # 0 /\ (t + 1) - 1 = t /\ t \in Nat
      OBVIOUS
  <2>2. SumOver(delta, 0 .. t) = flight(t)
      BY <2>1
  <2>3. SumOver(delta, 0 .. t + 1) = SumOver(delta, 0 .. t) + delta[t + 1]
      BY <1>6, <2>1
  <2>4. flight(t + 1) = flight(t) + delta[t + 1]
      BY <1>4, <2>1
  <2> QED BY <2>2, <2>3, <2>4
<1>9. Nat \subseteq P
  <2> HIDE DEF P
  <2> QED BY <1>7, <1>8, NaturalInduction
<1>10. \A t \in 0 .. n - 1 : SumOver(delta, 0 .. t) = flight(t)
    BY <1>1, <1>9
<1> QED BY <1>2, <1>3, <1>10 DEF c, flight

\* The ring is as deep as the deliveries in flight at any moment: before the first stage,
\* when every past commitment is, and after each stage.
LEMMA DepthSuffices ==
    ASSUME NEW axis, IsAxis(axis), NEW lead, IsLead(lead)
    PROVE  LET point == Resolve(lead, axis)
           IN  /\ RingDepth(point) \in Nat
               /\ \A t \in 0 .. axis.study : Cardinality(Due(axis, point.decider, t)) <= RingDepth(point)
<1>1. PICK n \in Nat : n = axis.study
    BY Boundaries DEF IsAxis
<1>2. PICK N \in Nat : N = Len(axis.hours)
    BY Boundaries
<1>3. DecisionStages(axis) = 0 .. n - 1 /\ DeliveryStages(axis) = 0 .. N - 1 /\ n <= N
    BY <1>1, <1>2 DEF DecisionStages, DeliveryStages, IsAxis
<1> DEFINE c == Decider(lead, axis)
           o == Occupancy(c, axis)
           point == Resolve(lead, axis)
           first == PreStudyRun(c, 0, n - 1)
           depths == {o[t] : t \in 0 .. n - 1} \cup {first}
<1>4. DOMAIN o = 0 .. n - 1 /\ o = [t \in 0 .. n - 1 |-> o[t]]
    BY <1>3 DEF Occupancy
<1>5. point.decider = c /\ RingDepth(point) = Max(depths)
  <2>1. point.decider = c /\ point.occupancy = o /\ point.study = n
      BY <1>1 DEF Resolve
  <2> HIDE DEF point, o, c
  <2> QED BY <1>4, <2>1 DEF RingDepth
<1>6. \A t \in 0 .. n - 1 : o[t] = Cardinality(Due(axis, c, t + 1)) /\ o[t] \in Nat
    BY <1>3, OccupancyCounts, DueFinite
<1>7. first = Cardinality(Due(axis, c, 0)) /\ first \in Nat
  <2>1. /\ \A m \in 0 .. N - 1 : c[m] \in -1 .. m
        /\ \A m, k \in 0 .. N - 1 : m <= k => c[m] <= c[k]
      BY <1>3, DeciderFacts
  <2> DEFINE run == {m \in 0 .. n - 1 : \A j \in 0 .. m : c[j] = -1}
  <2>2. first = Cardinality(run)
      BY DEF PreStudyRun, PreStudy
  <2> HIDE DEF c
  <2>3. ASSUME NEW m \in run PROVE m \in Due(axis, c, 0)
    <3>1. m \in 0 .. m /\ m \in 0 .. N - 1 /\ m < n /\ m >= 0 /\ c[m] = -1
        BY <1>3
    <3> QED BY <1>1, <1>3, <3>1 DEF Due
  <2>4. ASSUME NEW m \in Due(axis, c, 0) PROVE m \in run
    <3>1. m \in 0 .. N - 1 /\ c[m] <= 0 - 1 /\ (c[m] # -1 \/ m < n)
        BY <1>1, <1>3 DEF Due
    <3>2. c[m] = -1 /\ m < n
        BY <2>1, <3>1
    <3>3. \A j \in 0 .. m : j \in 0 .. N - 1 /\ j <= m
        BY <1>3, <3>1
    <3>4. \A j \in 0 .. m : c[j] <= -1 /\ c[j] \in -1 .. j
        BY <2>1, <3>1, <3>2, <3>3
    <3>5. \A j \in 0 .. m : c[j] = -1
        BY <3>3, <3>4
    <3> QED BY <3>1, <3>2, <3>5
  <2> HIDE DEF run
  <2>5. run = Due(axis, c, 0)
      BY <2>3, <2>4
  <2> QED BY <2>2, <2>5, DueFinite
<1> HIDE DEF c, o, first, point
<1>8. IsFiniteSet(depths) /\ depths \in SUBSET Int /\ depths # {}
  <2>1. IsFiniteSet({o[t] : t \in 0 .. n - 1})
    <3>1. IsFiniteSet(0 .. n - 1)
        BY FS_Interval
    <3> QED BY <1>4, <3>1, ImageFinite
  <2>2. IsFiniteSet(depths)
      BY <2>1, FS_AddElement
  <2> QED BY <1>6, <1>7, <2>2
<1>9. Max(depths) \in depths /\ \A x \in depths : x <= Max(depths)
  <2> HIDE DEF depths
  <2> QED BY <1>8, GreatestInteger
<1>10. Max(depths) \in Nat
    BY <1>6, <1>7, <1>9
<1>11. ASSUME NEW t \in 0 .. n
       PROVE  Cardinality(Due(axis, c, t)) <= Max(depths)
  <2>1. CASE t = 0
      BY <1>7, <1>9, <2>1
  <2>2. CASE t # 0
    <3>1. t - 1 \in 0 .. n - 1 /\ (t - 1) + 1 = t
        BY <2>2
    <3>2. o[t - 1] = Cardinality(Due(axis, c, t)) /\ o[t - 1] \in depths
        BY <1>6, <3>1
    <3> QED BY <1>9, <3>2
  <2> QED BY <2>1, <2>2
<1> HIDE DEF depths
<1> QED BY <1>1, <1>5, <1>10, <1>11 DEF point

----------------------------------------------------------------------------
(* Ring indices and slots *)

\* What a slot must hold before stage t, in terms of the decider alone.
LEMMA HeldIsDue ==
    ASSUME NEW axis, IsAxis(axis), NEW lead, IsLead(lead), NEW t \in Int
    PROVE  LET point == Resolve(lead, axis)
           IN  {m \in DeliveryStages(axis) \ Excised(point) : m >= t /\ IsReadyAt(point, m, t - 1)}
                   = Due(axis, point.decider, t)
<1> DEFINE point == Resolve(lead, axis)
<1>1. Excised(point) = {m \in DeliveryStages(axis) : m >= axis.study /\ point.decider[m] = -1}
    BY Excision
<1>2. DOMAIN point.decider = DeliveryStages(axis)
    BY DEF Resolve, Decider
<1>3. PICK N \in Nat : N = Len(axis.hours)
    BY Boundaries
<1>4. PICK n \in Nat : n = axis.study
    BY <1>3 DEF IsAxis
<1>5. DeliveryStages(axis) = 0 .. N - 1
    BY <1>3 DEF DeliveryStages
<1> HIDE DEF point
<1>6. \A m \in 0 .. N - 1 : m \notin Excised(point) <=> (point.decider[m] # -1 \/ m < n)
    BY <1>1, <1>4, <1>5
<1> QED BY <1>2, <1>4, <1>5, <1>6 DEF IsReadyAt, Due, point

\* The deliveries in flight have consecutive ring indices from t on, from which they are
\* found again: the excised window leaves no gap.
LEMMA RingWindow ==
    ASSUME NEW axis, IsAxis(axis), NEW lead, IsLead(lead), NEW t \in 0 .. axis.study
    PROVE  LET point == Resolve(lead, axis)
               due == Due(axis, point.decider, t)
           IN  \A m \in due :
                 /\ RingIndex(point, m) \in Nat
                 /\ RingIndex(point, m) \in t .. t + Cardinality(due) - 1
                 /\ PhysicalTarget(point, RingIndex(point, m)) = m
<1> DEFINE point == Resolve(lead, axis)
           due == Due(axis, point.decider, t)
<1>1. PICK N \in Nat : N = Len(axis.hours)
    BY Boundaries
<1>2. PICK n \in Nat : n = axis.study
    BY <1>1 DEF IsAxis
<1>3. DeliveryStages(axis) = 0 .. N - 1 /\ n <= N /\ t \in 0 .. n
    BY <1>1, <1>2 DEF DeliveryStages, IsAxis
<1>4. PICK g \in Nat : g = point.fixed /\ n + g <= N
    BY <1>1, <1>2, Excision DEF Resolve
<1>5. point.study = n
    BY <1>2 DEF Resolve
<1> DEFINE c == point.decider
<1>6. /\ \A m \in 0 .. N - 1 : c[m] \in -1 .. m
      /\ \A m, k \in 0 .. N - 1 : m <= k => c[m] <= c[k]
  <2>1. c = Decider(lead, axis)
      BY DEF Resolve
  <2> HIDE DEF c
  <2> QED BY <1>3, <2>1, DeciderFacts
<1>7. \A m \in 0 .. N - 1 : (m >= n /\ c[m] = -1) <=> m \in n .. n + g - 1
  <2>1. Excised(point) = {m \in DeliveryStages(axis) : m >= axis.study /\ point.decider[m] = -1}
      BY Excision
  <2>2. Excised(point) = n .. n + g - 1
      BY <1>4, <1>5 DEF Excised
  <2> HIDE DEF point
  <2> QED BY <1>2, <1>3, <2>1, <2>2
<1>8. \A m : m \in due <=> m \in 0 .. N - 1 /\ m >= t /\ c[m] <= t - 1 /\ (c[m] # -1 \/ m < n)
    BY <1>2, <1>3 DEF Due
<1>9. IsFiniteSet(due)
    BY DueFinite
<1>10. /\ \A m : RingIndex(point, m) = IF m < n THEN m ELSE m - g
       /\ \A r : PhysicalTarget(point, r) = IF r < n THEN r ELSE r + g
    BY <1>4, <1>5 DEF RingIndex, PhysicalTarget
<1> HIDE DEF point, due, c
<1>11. ASSUME NEW m \in due
       PROVE  /\ RingIndex(point, m) \in t .. N
              /\ PhysicalTarget(point, RingIndex(point, m)) = m
  <2>1. m \in 0 .. N - 1 /\ m >= t /\ m \notin n .. n + g - 1
      BY <1>2, <1>4, <1>7, <1>8
  <2>2. CASE m < n
    <3>1. RingIndex(point, m) = m /\ PhysicalTarget(point, m) = m
        BY <1>10, <2>2
    <3> QED BY <1>3, <2>1, <3>1
  <2>3. CASE m >= n + g
    <3>1. ~(m < n) /\ ~(m - g < n) /\ (m - g) + g = m
        BY <1>2, <1>4, <2>1, <2>3
    <3>2. RingIndex(point, m) = m - g /\ PhysicalTarget(point, m - g) = m
        BY <1>10, <3>1
    <3>3. m - g \in t .. N
      <4>1. m \in Int /\ m <= N /\ m >= n + g /\ t <= n /\ t \in Int
          BY <1>1, <1>2, <1>3, <2>1, <2>3
      <4> QED BY <1>1, <1>2, <1>4, <4>1
    <3> QED BY <3>2, <3>3
  <2> QED BY <1>2, <1>4, <2>1, <2>2, <2>3
<1> DEFINE indices == {RingIndex(point, m) : m \in due}
<1>12. indices \in SUBSET (t .. N)
    BY <1>11
<1>13. ASSUME NEW i \in indices, NEW j \in t .. i
       PROVE  j \in indices
  <2>1. PICK m \in due : i = RingIndex(point, m)
      OBVIOUS
  <2>2. m \in 0 .. N - 1 /\ m >= t /\ c[m] <= t - 1 /\ m \notin n .. n + g - 1 /\ c[m] \in -1 .. m
      BY <1>2, <1>4, <1>6, <1>7, <1>8
  <2>3. i = IF m < n THEN m ELSE m - g
      BY <1>10, <2>1
  <2>4. i \in t .. N /\ j \in Int /\ t <= j /\ j <= i
      BY <1>3, <1>12
  <2> DEFINE q == IF j < n THEN j ELSE j + g
  <2>5. q \in 0 .. N - 1 /\ q >= t /\ q <= m /\ q \notin n .. n + g - 1
    <3>0. m \in Int /\ m <= N - 1 /\ t \in Nat /\ (m < n \/ m >= n + g)
      <4>1. m \in 0 .. N - 1 /\ m \notin n .. n + g - 1
          BY <2>2
      <4>2. t \in Nat
          BY <1>1, <1>2
      <4> QED BY ONLY N \in Nat, n \in Nat, g \in Nat, <4>1, <4>2
    <3>1. CASE j < n
      <4>1. q = j /\ j <= m
          BY <1>2, <1>4, <2>3, <2>4, <3>0, <3>1
      <4> HIDE DEF q
      <4> QED BY <1>1, <1>2, <1>4, <2>4, <3>0, <3>1, <4>1
    <3>2. CASE ~(j < n)
      <4>1. q = j + g /\ m >= n + g /\ i = m - g
          BY <1>2, <1>4, <2>3, <2>4, <3>0, <3>2
      <4> HIDE DEF q
      <4>2. j >= n /\ j + g <= m
          BY <1>2, <1>4, <2>4, <3>0, <3>2, <4>1
      <4>3. q <= m /\ q >= n + g /\ q \in Int
          BY <1>2, <1>4, <2>4, <4>1, <4>2
      <4> QED BY ONLY N \in Nat, n \in Nat, g \in Nat, <2>4, <3>0, <4>1, <4>2, <4>3
    <3> QED BY <3>1, <3>2
  <2>6. RingIndex(point, q) = j
    <3>1. CASE j < n
        BY <1>10, <3>1
    <3>2. CASE ~(j < n)
      <4>1. ~(j + g < n) /\ (j + g) - g = j
          BY <1>2, <1>4, <2>4, <3>2
      <4> QED BY <1>10, <3>2, <4>1
    <3> QED BY <3>1, <3>2
  <2> HIDE DEF q
  <2>7. c[q] <= c[m] /\ c[q] \in -1 .. q
      BY <1>6, <2>2, <2>5
  <2>8. c[q] # -1 \/ q < n
      BY <1>2, <1>7, <2>5
  <2>9. q \in due
    <3>1. c[q] <= t - 1
        BY <1>3, <2>2, <2>5, <2>7
    <3> QED BY <1>8, <2>5, <2>8, <3>1
  <2> QED BY <2>6, <2>9
<1>14. Cardinality(indices) \in Nat /\ indices = t .. t + Cardinality(indices) - 1 /\ IsFiniteSet(indices)
  <2> HIDE DEF indices
  <2>1. t \in Nat /\ N \in Int
      BY <1>1, <1>3
  <2> QED BY <1>12, <1>13, <2>1, ClosedBelow
<1>15. Cardinality(indices) = Cardinality(due)
  <2> DEFINE f == [m \in due |-> RingIndex(point, m)]
  <2>1. f \in [due -> indices] /\ \A y \in indices : \E m \in due : f[m] = y
      OBVIOUS
  <2>2. \A m, k \in due : f[m] = f[k] => m = k
      BY <1>11
  <2> HIDE DEF f, indices
  <2>3. f \in Surjection(due, indices) /\ f \in Injection(due, indices)
      BY <2>1, <2>2 DEF Surjection, Injection, IsInjective
  <2> QED BY <1>9, <2>3, FS_Surjection
<1>16. \A m \in due : RingIndex(point, m) \in indices
    OBVIOUS
<1> HIDE DEF indices
<1>17. \A m \in due : RingIndex(point, m) \in Nat
    BY <1>3, <1>11
<1> QED BY <1>11, <1>14, <1>15, <1>16, <1>17 DEF point, due

\* A ring of at least that many slots keeps them apart.
LEMMA SlotsApart ==
    ASSUME NEW axis, IsAxis(axis), NEW lead, IsLead(lead), NEW t \in 0 .. axis.study,
           NEW K \in Nat, Cardinality(Due(axis, Resolve(lead, axis).decider, t)) <= K
    PROVE  LET point == Resolve(lead, axis)
               due == Due(axis, point.decider, t)
           IN  /\ due # {} => K # 0
               /\ \A m \in due : RingIndex(point, m) % K \in 0 .. K - 1
               /\ \A m, n \in due : RingIndex(point, m) % K = RingIndex(point, n) % K => m = n
<1> DEFINE point == Resolve(lead, axis)
           due == Due(axis, point.decider, t)
<1>1. IsFiniteSet(due) /\ Cardinality(due) \in Nat /\ Cardinality(due) <= K
    BY DueFinite
<1>2. \A m \in due :
         /\ RingIndex(point, m) \in Nat
         /\ RingIndex(point, m) \in t .. t + Cardinality(due) - 1
         /\ PhysicalTarget(point, RingIndex(point, m)) = m
    BY RingWindow
<1>0. t \in Int
    BY Boundaries DEF IsAxis
<1> HIDE DEF point, due
<1>3. due # {} => K # 0
  <2>1. due # {} => Cardinality(due) # 0
      BY <1>1, FS_EmptySet
  <2> QED BY <1>1, <2>1
<1>4. ASSUME NEW m \in due
      PROVE  RingIndex(point, m) \in t .. t + K - 1
    BY <1>0, <1>1, <1>2
<1>5. ASSUME NEW m \in due, NEW n \in due, RingIndex(point, m) % K = RingIndex(point, n) % K
      PROVE  m = n
  <2>1. K \in Nat \ {0}
      BY <1>3
  <2>2. RingIndex(point, m) = RingIndex(point, n)
      BY <1>0, <1>2, <1>4, <1>5, <2>1, ResiduesDiffer
  <2> QED BY <1>2, <2>2
<1>6. ASSUME NEW m \in due
      PROVE  RingIndex(point, m) % K \in 0 .. K - 1
  <2>1. K \in Nat \ {0} /\ RingIndex(point, m) \in Nat
      BY <1>2, <1>3
  <2> QED BY <2>1
<1> QED BY <1>3, <1>5, <1>6 DEF point, due

\* The window a stage walks gives each slot the delivery it holds after the stage.
LEMMA TargetsFound ==
    ASSUME NEW axis, IsAxis(axis), NEW lead, IsLead(lead), NEW t \in DecisionStages(axis),
           NEW K \in Nat, Cardinality(Due(axis, Resolve(lead, axis).decider, t + 1)) <= K,
           NEW m \in Due(axis, Resolve(lead, axis).decider, t + 1)
    PROVE  LET point == Resolve(lead, axis)
           IN  PhysicalTarget(point,
                   CHOOSE r \in t + 1 .. t + K : r % K = RingIndex(point, m) % K) = m
<1> DEFINE point == Resolve(lead, axis)
           due == Due(axis, point.decider, t + 1)
           x == RingIndex(point, m)
           r == CHOOSE i \in t + 1 .. t + K : i % K = x % K
<1>0. t \in Nat /\ t + 1 \in 0 .. axis.study
    BY Boundaries DEF IsAxis, DecisionStages
<1>1. /\ x \in Nat
      /\ x \in t + 1 .. t + 1 + Cardinality(due) - 1
      /\ PhysicalTarget(point, x) = m
    BY <1>0, RingWindow
<1>2. Cardinality(due) \in Nat /\ Cardinality(due) <= K
    BY DueFinite
<1> HIDE DEF point, due, x
<1>3. K # 0 /\ x \in t + 1 .. t + K
    BY <1>0, <1>1, <1>2
<1>4. r \in t + 1 .. t + K /\ r % K = x % K
    BY <1>3
<1> HIDE DEF r
<1>5. r = x
  <2>1. /\ r \in Nat /\ t + 1 \in Int
        /\ r \in t + 1 .. (t + 1) + K - 1 /\ x \in t + 1 .. (t + 1) + K - 1
      BY <1>0, <1>3, <1>4
  <2> QED BY <1>1, <1>3, <1>4, <2>1, ResiduesDiffer
<1> QED BY <1>1, <1>5 DEF point, x, r

----------------------------------------------------------------------------
(* The ring of a study *)

PointOf(s, p) == Resolve(s.lead[p], s.axis)
DueOf(s, p, t) == Due(s.axis, PointOf(s, p).decider, t)
SlotIn(s, p, k, m) == RingIndex(PointOf(s, p), m) % k

\* The layout of the state is that of the study, and no decision stage anchors two deliveries.
LaidOut(s, l) ==
    \A p \in Plants :
        /\ l.points[p] = PointOf(s, p)
        /\ l.kMax \in Nat /\ RingDepth(PointOf(s, p)) <= l.kMax
        /\ l.leads[p] = IF s.lead[p].kind = "stages" THEN s.lead[p].span ELSE RingDepth(PointOf(s, p))

NoFanOut(s) ==
    \A p \in Plants, t \in DecisionStages(s.axis) :
        ~ (Cardinality(GenuineDecisionsAt(PointOf(s, p), t)) > 1)

\* The assumption on the studies, by name.
LEMMA StudyFacts ==
    ASSUME NEW s \in Studies
    PROVE  /\ IsAxis(s.axis)
           /\ s.axis.study \in Nat \ {0} /\ Len(s.axis.hours) \in Nat
           /\ s.axis.study <= Len(s.axis.hours)
           /\ DeliveryStages(s.axis) \in SUBSET Nat
           /\ DecisionStages(s.axis) \in SUBSET DeliveryStages(s.axis)
           /\ \A p \in Plants :
                 /\ IsLead(s.lead[p])
                 /\ \A m \in DeliveryStages(s.axis) :
                       s.lo[p][m] \in Int /\ s.hi[p][m] \in Int /\ s.lo[p][m] <= s.hi[p][m]
<1>1. IsAxis(s.axis)
    BY RingAssumption DEF IsAxis
<1>2. Len(s.axis.hours) \in Nat
    BY <1>1, Boundaries
<1>3. s.axis.study \in Nat \ {0} /\ s.axis.study <= Len(s.axis.hours)
    BY <1>1, <1>2 DEF IsAxis
<1> QED BY <1>1, <1>2, <1>3, RingAssumption DEF IsLead, DeliveryStages, DecisionStages

\* resolve_anticipated_commitments_core sizes the ring for the deepest plant.
LEMMA LayoutFacts ==
    ASSUME study \in Studies
    PROVE  /\ LaidOut(study, StateLayout)
           /\ ~ FansOut(StateLayout) => NoFanOut(study)
<1> DEFINE points == [p \in Plants |-> Resolve(Lead(p), Axis)]
           leads == [p \in Plants |-> LeadStages(p, points[p])]
           depth == [p \in Plants |-> RingDepth(points[p])]
           sizes == {depth[p] : p \in Plants} \cup {leads[p] : p \in Plants}
<1>1. \A p \in Plants : points[p] = PointOf(study, p)
    BY DEF PointOf, Lead, Axis
<1>2. /\ StateLayout.points = points /\ StateLayout.leads = leads
      /\ StateLayout.kMax = Max({RingDepth(points[p]) : p \in Plants} \cup {leads[p] : p \in Plants})
    BY DEF StateLayout
<1>3. {RingDepth(points[p]) : p \in Plants} = {depth[p] : p \in Plants}
    OBVIOUS
<1> HIDE DEF points
<1>4. ASSUME NEW p \in Plants
      PROVE  /\ depth[p] = RingDepth(PointOf(study, p))
             /\ leads[p] = IF study.lead[p].kind = "stages" THEN study.lead[p].span
                           ELSE RingDepth(PointOf(study, p))
             /\ depth[p] \in Nat /\ leads[p] \in Nat
  <2>1. depth[p] = RingDepth(PointOf(study, p))
      BY <1>1
  <2>2. leads[p] = IF study.lead[p].kind = "stages" THEN study.lead[p].span
                   ELSE RingDepth(PointOf(study, p))
      BY <1>1 DEF LeadStages, Lead
  <2>3. IsAxis(study.axis) /\ IsLead(study.lead[p])
      BY StudyFacts
  <2>4. RingDepth(PointOf(study, p)) \in Nat
      BY <2>3, DepthSuffices DEF PointOf
  <2> QED BY <2>1, <2>2, <2>3, <2>4 DEF IsLead
<1>5. depth = [p \in Plants |-> depth[p]] /\ leads = [p \in Plants |-> leads[p]]
    OBVIOUS
<1> HIDE DEF depth, leads
<1>6. ASSUME NEW p \in Plants
      PROVE  Max(sizes) \in Nat /\ depth[p] <= Max(sizes)
  <2>1. IsFiniteSet({depth[q] : q \in Plants}) /\ IsFiniteSet({leads[q] : q \in Plants})
      BY <1>5, RingAssumption, ImageFinite
  <2>2. IsFiniteSet(sizes)
      BY <2>1, FS_Union
  <2>3. sizes \in SUBSET Nat /\ depth[p] \in sizes
      BY <1>4
  <2>4. Max(sizes) \in sizes /\ \A x \in sizes : x <= Max(sizes)
    <3> HIDE DEF sizes
    <3>1. sizes \in SUBSET Int /\ sizes # {}
        BY <2>3
    <3> QED BY <2>2, <3>1, GreatestInteger
  <2> QED BY <2>3, <2>4
<1>7. LaidOut(study, StateLayout)
  <2> HIDE DEF sizes
  <2>1. StateLayout.kMax = Max(sizes)
      BY <1>2, <1>3 DEF sizes
  <2> QED BY <1>1, <1>2, <1>4, <1>6, <2>1 DEF LaidOut
<1>8. ~ FansOut(StateLayout) => NoFanOut(study)
    BY <1>1, <1>2 DEF FansOut, NoFanOut, Axis
<1> QED BY <1>7, <1>8

\* The facts about slots, in a ring laid out for the study.
LEMMA SlotFacts ==
    ASSUME NEW s \in Studies, NEW l, LaidOut(s, l), NEW p \in Plants, NEW t \in 0 .. s.axis.study
    PROVE  /\ DueOf(s, p, t) # {} => l.kMax \in Nat \ {0}
           /\ \A m \in DueOf(s, p, t) : SlotIn(s, p, l.kMax, m) \in 0 .. l.kMax - 1
           /\ \A m, n \in DueOf(s, p, t) :
                 SlotIn(s, p, l.kMax, m) = SlotIn(s, p, l.kMax, n) => m = n
           /\ \A m \in DueOf(s, p, t) : \A u \in DecisionStages(s.axis) : u + 1 = t =>
                 PhysicalTarget(PointOf(s, p),
                     CHOOSE r \in u + 1 .. u + l.kMax : r % l.kMax = SlotIn(s, p, l.kMax, m)) = m
<1>1. IsAxis(s.axis) /\ IsLead(s.lead[p]) /\ l.kMax \in Nat
    BY StudyFacts DEF LaidOut
<1> DEFINE axis == s.axis
           lead == s.lead[p]
           K == l.kMax
<1>2. Cardinality(Due(axis, Resolve(lead, axis).decider, t)) <= K
  <2>1. RingDepth(Resolve(lead, axis)) <= K
      BY DEF LaidOut, PointOf
  <2>2. /\ RingDepth(Resolve(lead, axis)) \in Nat
        /\ Cardinality(Due(axis, Resolve(lead, axis).decider, t)) <= RingDepth(Resolve(lead, axis))
      BY <1>1, DepthSuffices
  <2>3. Cardinality(Due(axis, Resolve(lead, axis).decider, t)) \in Nat
      BY <1>1, DueFinite
  <2> HIDE DEF axis, lead, K
  <2>4. K \in Nat
      BY <1>1 DEF K
  <2> QED BY <2>1, <2>2, <2>3, <2>4
<1>3. /\ IsAxis(axis) /\ IsLead(lead) /\ K \in Nat /\ t \in 0 .. axis.study
      /\ DueOf(s, p, t) = Due(axis, Resolve(lead, axis).decider, t)
      /\ PointOf(s, p) = Resolve(lead, axis)
      /\ \A m : SlotIn(s, p, K, m) = RingIndex(Resolve(lead, axis), m) % K
      /\ DecisionStages(s.axis) = DecisionStages(axis)
    BY <1>1 DEF DueOf, PointOf, SlotIn
<1> HIDE DEF axis, lead
<1>4. ASSUME NEW u \in DecisionStages(axis), u + 1 = t, NEW m \in DueOf(s, p, t)
      PROVE  PhysicalTarget(PointOf(s, p),
                 CHOOSE r \in u + 1 .. u + K : r % K = SlotIn(s, p, K, m)) = m
  <2>1. /\ Cardinality(Due(axis, Resolve(lead, axis).decider, u + 1)) <= K
        /\ m \in Due(axis, Resolve(lead, axis).decider, u + 1)
      BY <1>2, <1>3, <1>4
  <2> HIDE DEF K
  <2>2. PhysicalTarget(Resolve(lead, axis),
            CHOOSE r \in u + 1 .. u + K : r % K = RingIndex(Resolve(lead, axis), m) % K) = m
      BY <1>3, <2>1, TargetsFound
  <2> QED BY <1>3, <2>2
<1>5. /\ DueOf(s, p, t) # {} => K # 0
      /\ \A m \in DueOf(s, p, t) : SlotIn(s, p, K, m) \in 0 .. K - 1
      /\ \A m, n \in DueOf(s, p, t) : SlotIn(s, p, K, m) = SlotIn(s, p, K, n) => m = n
  <2> HIDE DEF K
  <2> QED BY <1>2, <1>3, SlotsApart
<1> QED BY <1>3, <1>4, <1>5

\* What is in flight after stage t: the deliveries before it but for its own, and the one it
\* decides for later.
LEMMA DueTurn ==
    ASSUME NEW s \in Studies, NoFanOut(s), NEW p \in Plants, NEW t \in DecisionStages(s.axis)
    PROVE  LET c == PointOf(s, p).decider
               new == GenuineDecisionsAt(PointOf(s, p), t)
           IN  /\ DueOf(s, p, t + 1) = (DueOf(s, p, t) \ {t}) \cup new
               /\ \A m \in DueOf(s, p, t) : m \in DeliveryStages(s.axis) /\ c[m] <= t /\ c[m] # t
               /\ \A m \in new : m \in DeliveryStages(s.axis) /\ c[m] = t /\ m > t /\ new = {m}
               /\ \A m \in DeliveryStages(s.axis) : m > t /\ c[m] = t => m \in new
               /\ t \in DueOf(s, p, t) <=> c[t] # t
               /\ RingIndex(PointOf(s, p), t) = t
<1> DEFINE c == PointOf(s, p).decider
           new == GenuineDecisionsAt(PointOf(s, p), t)
<1>1. PICK N \in Nat : N = Len(s.axis.hours)
    BY StudyFacts
<1>2. PICK n \in Nat : n = s.axis.study
    BY StudyFacts
<1>3. /\ DecisionStages(s.axis) = 0 .. n - 1 /\ DeliveryStages(s.axis) = 0 .. N - 1 /\ n <= N
      /\ t \in 0 .. n - 1
    BY <1>1, <1>2, StudyFacts DEF DecisionStages, DeliveryStages
<1>4. \A m \in 0 .. N - 1 : c[m] \in -1 .. m
  <2>1. c = Decider(s.lead[p], s.axis)
      BY DEF PointOf, Resolve
  <2>2. IsAxis(s.axis) /\ IsLead(s.lead[p])
      BY StudyFacts
  <2> HIDE DEF c
  <2> QED BY <1>3, <2>1, <2>2, DeciderFacts
<1>5. DOMAIN c = 0 .. N - 1
    BY <1>3 DEF PointOf, Resolve, Decider
<1>6. PointOf(s, p).study = n
    BY <1>2 DEF PointOf, Resolve
<1>7. \A m : m \in new <=> m \in 0 .. N - 1 /\ c[m] = t /\ m # t
    BY <1>5 DEF GenuineDecisionsAt
<1>8. \A u, m : m \in DueOf(s, p, u) <=> m \in 0 .. N - 1 /\ m >= u /\ c[m] <= u - 1 /\ (c[m] # -1 \/ m < n)
    BY <1>2, <1>3 DEF DueOf, Due
<1>9. IsFiniteSet(new) /\ (Cardinality(new) > 1 => FALSE)
  <2>1. ~ (Cardinality(new) > 1)
      BY DEF NoFanOut
  <2>2. IsFiniteSet(0 .. N - 1)
      BY FS_Interval
  <2>3. new \in SUBSET (0 .. N - 1)
      BY <1>7
  <2> QED BY <2>1, <2>2, <2>3, FS_Subset
<1>10. RingIndex(PointOf(s, p), t) = t
    BY <1>3, <1>6 DEF RingIndex
<1> HIDE DEF c, new
<1>11. ASSUME NEW m \in new
       PROVE  new = {m}
  <2>1. Cardinality(new) \in Nat /\ Cardinality(new) # 0
      BY <1>9, <1>11, FS_CardinalityType, FS_EmptySet
  <2>2. Cardinality(new) = 1
      BY <1>9, <2>1
  <2>3. \E x : new = {x}
      BY <1>9, <2>2, FS_Singleton
  <2> QED BY <1>11, <2>3
<1>12. \A m \in new : m > t
    BY <1>3, <1>4, <1>7
<1>13. DueOf(s, p, t + 1) = (DueOf(s, p, t) \ {t}) \cup new
  <2>1. ASSUME NEW m \in DueOf(s, p, t + 1) PROVE m \in (DueOf(s, p, t) \ {t}) \cup new
    <3>1. m \in 0 .. N - 1 /\ m >= t + 1 /\ c[m] <= (t + 1) - 1 /\ (c[m] # -1 \/ m < n)
        BY <1>8
    <3>2. CASE c[m] = t
        BY <1>3, <1>7, <3>1, <3>2
    <3>3. CASE c[m] # t
      <4>1. m >= t /\ c[m] <= t - 1 /\ m # t
          BY <1>3, <1>4, <3>1, <3>3
      <4> QED BY <1>8, <3>1, <4>1
    <3> QED BY <3>2, <3>3
  <2>2. ASSUME NEW m \in DueOf(s, p, t), m # t PROVE m \in DueOf(s, p, t + 1)
    <3>1. m \in 0 .. N - 1 /\ m >= t /\ c[m] <= t - 1 /\ (c[m] # -1 \/ m < n)
        BY <1>8
    <3>2. m >= t + 1 /\ c[m] <= (t + 1) - 1
        BY <1>3, <1>4, <2>2, <3>1
    <3> QED BY <1>8, <3>1, <3>2
  <2>3. ASSUME NEW m \in new PROVE m \in DueOf(s, p, t + 1)
    <3>1. m \in 0 .. N - 1 /\ c[m] = t /\ m >= t + 1 /\ c[m] <= (t + 1) - 1 /\ c[m] # -1
        BY <1>3, <1>7, <1>12
    <3> QED BY <1>8, <3>1
  <2> QED BY <2>1, <2>2, <2>3
<1>14. \A m \in DueOf(s, p, t) : m \in 0 .. N - 1 /\ c[m] <= t /\ c[m] # t
    BY <1>3, <1>4, <1>8
<1>15. t \in DueOf(s, p, t) <=> c[t] # t
    BY <1>3, <1>4, <1>8
<1> QED BY <1>3, <1>7, <1>10, <1>11, <1>12, <1>13, <1>14, <1>15 DEF c, new

\* Before the first stage: the leading deliveries, which the past commitments cover.
LEMMA DueFirst ==
    ASSUME NEW s \in Studies, NEW p \in Plants
    PROVE  LET count == LeadDeliveryStageCount(s.lead[p], s.axis)
           IN  /\ DueOf(s, p, 0) = 0 .. count - 1
               /\ DueOf(s, p, 0) = {m \in DecisionStages(s.axis) : Decider(s.lead[p], s.axis)[m] = PreStudy}
               /\ count \in Nat
               /\ count <= RingDepth(PointOf(s, p)) /\ RingDepth(PointOf(s, p)) \in Nat
               /\ s.lead[p].kind = "stages" => count <= s.lead[p].span
<1> DEFINE count == LeadDeliveryStageCount(s.lead[p], s.axis)
           c == Decider(s.lead[p], s.axis)
<1>1. PICK N \in Nat : N = Len(s.axis.hours)
    BY StudyFacts
<1>2. PICK n \in Nat : n = s.axis.study
    BY StudyFacts
<1>3. /\ DecisionStages(s.axis) = 0 .. n - 1 /\ DeliveryStages(s.axis) = 0 .. N - 1 /\ n <= N
    BY <1>1, <1>2, StudyFacts DEF DecisionStages, DeliveryStages
<1>4. IsAxis(s.axis) /\ IsLead(s.lead[p])
    BY StudyFacts
<1>5. PointOf(s, p).decider = c
    BY DEF PointOf, Resolve
<1>6. /\ count \in 0 .. n
      /\ 0 .. count - 1 = {m \in 0 .. n - 1 : c[m] = -1}
    BY <1>2, <1>3, <1>4, LeadingCount DEF PreStudy
<1>7. \A m \in 0 .. N - 1 : c[m] \in -1 .. m
    BY <1>3, <1>4, DeciderFacts
<1>8. s.lead[p].kind = "stages" => count <= s.lead[p].span
  <2>1. ASSUME s.lead[p].kind = "stages" PROVE count <= s.lead[p].span
    <3>1. count = Min({s.lead[p].span, n}) /\ s.lead[p].span \in Nat
        BY <1>2, <1>4, <2>1 DEF LeadDeliveryStageCount, IsLead
    <3>2. Min({s.lead[p].span, n}) = IF s.lead[p].span <= n THEN s.lead[p].span ELSE n
        BY <1>2, <3>1, MinPair
    <3> QED BY <1>2, <3>1, <3>2
  <2> QED BY <2>1
<1> HIDE DEF c, count
<1>9. \A m : m \in DueOf(s, p, 0) <=> m \in 0 .. N - 1 /\ m >= 0 /\ c[m] <= 0 - 1 /\ (c[m] # -1 \/ m < n)
    BY <1>2, <1>3, <1>5 DEF DueOf, Due
<1>10. DueOf(s, p, 0) = {m \in 0 .. n - 1 : c[m] = -1}
  <2>1. ASSUME NEW m \in DueOf(s, p, 0) PROVE m \in 0 .. n - 1 /\ c[m] = -1
      BY <1>2, <1>3, <1>7, <1>9
  <2>2. ASSUME NEW m \in 0 .. n - 1, c[m] = -1 PROVE m \in DueOf(s, p, 0)
      BY <1>2, <1>3, <1>9, <2>2
  <2> QED BY <2>1, <2>2
<1>11. RingDepth(PointOf(s, p)) \in Nat /\ count <= RingDepth(PointOf(s, p))
  <2>1. /\ RingDepth(PointOf(s, p)) \in Nat
        /\ Cardinality(Due(s.axis, PointOf(s, p).decider, 0)) <= RingDepth(PointOf(s, p))
    <3>1. 0 \in 0 .. s.axis.study
        BY <1>2
    <3> QED BY <1>4, <3>1, DepthSuffices DEF PointOf
  <2>2. Due(s.axis, PointOf(s, p).decider, 0) = 0 .. count - 1
      BY <1>6, <1>10 DEF DueOf
  <2>3. Cardinality(0 .. count - 1) = count
    <3>1. 0 \in Int /\ count - 1 \in Int
        BY <1>6
    <3>2. Cardinality(0 .. count - 1) = IF 0 > count - 1 THEN 0 ELSE (count - 1) - 0 + 1
        BY <3>1, FS_Interval
    <3> QED BY <1>6, <3>2
  <2> QED BY <2>1, <2>2, <2>3
<1>12. DueOf(s, p, 0) = {m \in DecisionStages(s.axis) : c[m] = PreStudy}
    BY <1>3, <1>10 DEF PreStudy
<1>13. DueOf(s, p, 0) = 0 .. count - 1 /\ count \in Nat
  <2>1. count \in Nat
      BY <1>2, <1>6
  <2>2. DueOf(s, p, 0) = 0 .. count - 1
      BY ONLY <1>6, <1>10, Zenon
  <2> QED BY <2>1, <2>2
<1> QED BY <1>8, <1>11, <1>12, <1>13 DEF c, count

----------------------------------------------------------------------------
(* The invariant *)

\* Where the setup and the stages stand, and what they know of the layout.
RingInv ==
    /\ study \in Studies
    /\ status \in {"setup", "rejected", "running", "done"}
    /\ status \in {"setup", "rejected"} => stage = -1
    /\ status = "setup" => \E end \in [Plants -> Ends] : past = [p \in Plants |-> PastOf(p, end[p])]
    /\ status = "running" => stage \in DecisionStages(Axis)
    /\ status = "done" => stage = Axis.study
    /\ status \in {"running", "done"} =>
          LaidOut(study, layout) /\ NoFanOut(study) /\ DOMAIN ring = 0 .. layout.kMax - 1

\* Every commitment the ring owes can be generated at its delivery stage.
Served ==
    status \in {"running", "done"} =>
        \A p \in Plants : \A m \in DueOf(study, p, stage) :
            ring[SlotIn(study, p, layout.kMax, m)][p] \in Generation(p, m)

LEMMA InvariantHoldsFirst == Init => RingInv /\ Served
BY DEF Init, RingInv, Served

\* The steps of the setup and the stages.
LEMMA InvariantIsInductive == RingInv /\ [Next]_vars => RingInv'
<1> SUFFICES ASSUME RingInv, [Next]_vars PROVE RingInv'
    OBVIOUS
<1>1. CASE RejectFanOut
    BY <1>1 DEF RingInv, RejectFanOut
<1>2. CASE BuildInitialState
  <2>1. LaidOut(study, StateLayout) /\ NoFanOut(study)
      BY <1>2, LayoutFacts DEF RingInv, BuildInitialState
  <2>2. layout' = StateLayout /\ study' = study /\ stage' = 0 /\ status' = "running"
      BY <1>2 DEF BuildInitialState
  <2>3. DOMAIN ring' = 0 .. StateLayout.kMax - 1
      BY <1>2 DEF BuildInitialState, InitialState
  <2>4. 0 \in DecisionStages(study.axis)
      BY StudyFacts DEF RingInv, DecisionStages
  <2> QED BY <2>1, <2>2, <2>3, <2>4 DEF RingInv, Axis
<1>3. CASE SolveStage
  <2>1. /\ status = "running" /\ study' = study /\ layout' = layout /\ stage' = stage + 1
        /\ status' = IF stage = LastStage THEN "done" ELSE "running"
        /\ DOMAIN ring' = DOMAIN ring
      BY <1>3 DEF SolveStage
  <2>2. PICK n \in Nat : n = study.axis.study
      BY StudyFacts DEF RingInv
  <2>3. stage \in 0 .. n - 1 /\ LastStage = n - 1
      BY <2>1, <2>2 DEF RingInv, DecisionStages, Axis, LastStage
  <2>4. status' = "running" => stage' \in 0 .. n - 1
      BY <2>1, <2>2, <2>3
  <2>5. status' = "done" => stage' = n
      BY <2>1, <2>2, <2>3
  <2>6. status' \in {"running", "done"}
      BY <2>1
  <2> QED BY <2>1, <2>2, <2>4, <2>5, <2>6 DEF RingInv, Axis, DecisionStages
<1>4. CASE UNCHANGED vars
    BY <1>4 DEF RingInv, vars, Axis, PastOf, Leading, PastValue, CommissioningActive, AtEnd, Lead
<1> QED BY <1>1, <1>2, <1>3, <1>4 DEF Next

\* What the slots must hold, by the deliveries in flight, in any state laid out for its study.
LEMMA HeldByDecider ==
    ASSUME NEW s \in Studies, NEW l, LaidOut(s, l), NEW p \in Plants, NEW t \in Int
    PROVE  {m \in DeliveryStages(s.axis) \ Excised(l.points[p]) : m >= t /\ IsReadyAt(l.points[p], m, t - 1)}
                = DueOf(s, p, t)
<1>1. IsAxis(s.axis) /\ IsLead(s.lead[p]) /\ l.points[p] = Resolve(s.lead[p], s.axis)
    BY StudyFacts DEF LaidOut, PointOf
<1> DEFINE axis == s.axis
           lead == s.lead[p]
<1>2. IsAxis(axis) /\ IsLead(lead) /\ l.points[p] = Resolve(lead, axis)
    BY <1>1
<1>3. DueOf(s, p, t) = Due(axis, Resolve(lead, axis).decider, t) /\ DeliveryStages(s.axis) = DeliveryStages(axis)
    BY DEF DueOf, PointOf
<1> HIDE DEF axis, lead
<1> QED BY <1>2, <1>3, HeldIsDue

\* The bounds at a delivery stage, and the extreme values inputs and solver may take.
LEMMA BoundFacts ==
    ASSUME study \in Studies, NEW p \in Plants, NEW m \in DeliveryStages(study.axis), NEW end
    PROVE  /\ study.lo[p][m] \in Int /\ study.hi[p][m] \in Int /\ study.lo[p][m] <= study.hi[p][m]
           /\ AtEnd(p, m, end) \in Int
           /\ Generation(p, m) \in SUBSET Int
<1>1. study.lo[p][m] \in Int /\ study.hi[p][m] \in Int /\ study.lo[p][m] <= study.hi[p][m]
    BY StudyFacts
<1>2. Slack \in Nat
    BY RingAssumption
<1> QED BY <1>1, <1>2 DEF AtEnd, Generation

----------------------------------------------------------------------------
(* The powers in the slots *)

\* The setup seeds each leading delivery, and nothing else, into the delivery's slot.
LEMMA SeedsAreServable ==
    ASSUME PastIsServable, RingInv, BuildInitialState
    PROVE  Served'
<1> DEFINE l == StateLayout
<1>1. /\ layout' = l /\ study' = study /\ stage' = 0 /\ status' = "running"
      /\ ring' = InitialState(l) /\ status = "setup"
    BY DEF BuildInitialState
<1>2. study \in Studies /\ LaidOut(study, l)
    BY LayoutFacts DEF RingInv
<1>3. PICK end \in [Plants -> Ends] : past = [p \in Plants |-> PastOf(p, end[p])]
    BY <1>1 DEF RingInv
<1> HIDE DEF l
<1>4. ASSUME NEW p \in Plants, NEW m \in DueOf(study, p, 0)
      PROVE  ring'[SlotIn(study, p, l.kMax, m)][p] \in Generation(p, m)
  <2> DEFINE count == LeadDeliveryStageCount(study.lead[p], study.axis)
             slot == SlotIn(study, p, l.kMax, m)
             seeded == {k \in DOMAIN past[p] : k < l.leads[p] /\ SlotOf(l, p, k) = slot}
  <2>1. /\ DueOf(study, p, 0) = 0 .. count - 1
        /\ DueOf(study, p, 0)
              = {k \in DecisionStages(study.axis) : Decider(study.lead[p], study.axis)[k] = PreStudy}
        /\ count \in Nat
        /\ count <= RingDepth(PointOf(study, p)) /\ RingDepth(PointOf(study, p)) \in Nat
        /\ study.lead[p].kind = "stages" => count <= study.lead[p].span
      BY <1>2, DueFirst
  <2>2. DOMAIN past[p] = 0 .. count - 1 /\ past[p][m] = PastValue(p, m, end[p])
      BY <1>3, <2>1 DEF PastOf, Leading, Lead, Axis
  <2>3. \A k : SlotOf(l, p, k) = SlotIn(study, p, l.kMax, k)
      BY <1>2 DEF SlotOf, SlotIn, LaidOut
  <2>4. 0 \in 0 .. study.axis.study
      BY <1>2, StudyFacts
  <2>5. /\ slot \in 0 .. l.kMax - 1
        /\ \A k, j \in DueOf(study, p, 0) :
              SlotIn(study, p, l.kMax, k) = SlotIn(study, p, l.kMax, j) => k = j
      BY <1>2, <2>4, SlotFacts
  <2>6. l.leads[p] \in Int /\ count <= l.leads[p]
    <3>1. IsLead(study.lead[p])
        BY <1>2, StudyFacts
    <3>2. l.leads[p] = IF study.lead[p].kind = "stages" THEN study.lead[p].span
                       ELSE RingDepth(PointOf(study, p))
        BY <1>2 DEF LaidOut
    <3> HIDE DEF count
    <3> QED BY <2>1, <3>1, <3>2 DEF IsLead
  <2>7. m \in 0 .. count - 1 /\ m \in DeliveryStages(study.axis) /\ m \in Int
    <3> HIDE DEF count
    <3>1. m \in 0 .. count - 1 /\ m \in DecisionStages(study.axis)
        BY ONLY <2>1, m \in DueOf(study, p, 0), Zenon
    <3>2. m \in DeliveryStages(study.axis)
        BY <1>2, <3>1, StudyFacts
    <3> QED BY <2>1, <3>1, <3>2
  <2>8. \A k \in 0 .. count - 1 : k < l.leads[p]
    <3> HIDE DEF count
    <3> QED BY <2>1, <2>6
  <2> HIDE DEF count, slot
  <2>9. seeded = {m}
    <3>1. ASSUME NEW k \in seeded PROVE k = m
      <4>1. k \in DueOf(study, p, 0) /\ SlotIn(study, p, l.kMax, k) = slot
          BY <2>1, <2>2, <2>3
      <4> QED BY <2>5, <4>1 DEF slot
    <3>2. m \in seeded
        BY <2>2, <2>3, <2>7, <2>8 DEF slot
    <3> QED BY <3>1, <3>2
  <2>10. Max(seeded) = m
    <3>1. \A x \in {m} : m >= x
        BY <2>7
    <3>2. Max({m}) = m
        BY <3>1 DEF Max
    <3> HIDE DEF seeded
    <3> QED BY <2>9, <3>2
  <2>11. ring'[slot][p] = Seed(p, m, past[p][m])
    <3>1. ring'[slot][p] = IF seeded = {} THEN 0 ELSE Seed(p, Max(seeded), past[p][Max(seeded)])
        BY <1>1, <2>5 DEF InitialState, slot
    <3> HIDE DEF seeded
    <3> QED BY <2>9, <2>10, <3>1
  <2>12. /\ study.lo[p][m] \in Int /\ study.hi[p][m] \in Int /\ study.lo[p][m] <= study.hi[p][m]
         /\ AtEnd(p, m, end[p]) \in Int
      BY <1>2, <2>7, BoundFacts
  <2>13. CASE CommissioningActive(p, m)
    <3>1. past[p][m] = AtEnd(p, m, end[p])
        BY <2>2, <2>13 DEF PastValue
    <3>2. Seed(p, m, past[p][m]) \in study.lo[p][m] .. study.hi[p][m]
      <4>1. PICK v \in Int, lo \in Int, hi \in Int :
                v = past[p][m] /\ lo = study.lo[p][m] /\ hi = study.hi[p][m] /\ lo <= hi
          BY <2>12, <3>1
      <4>2. Clamp(v, lo, hi) \in lo .. hi
          BY <4>1 DEF Clamp
      <4> QED BY <4>1, <4>2 DEF Seed
    <3> QED BY <2>11, <2>13, <3>2 DEF Generation, slot
  <2>14. CASE ~ CommissioningActive(p, m)
    <3>1. past[p][m] = 0
        BY <2>2, <2>14 DEF PastValue
    <3>2. 0 \in study.lo[p][m] .. study.hi[p][m]
        BY <1>2, <2>7, <2>14 DEF PastIsServable, CommissioningActive, count
    <3>3. Seed(p, m, past[p][m]) = 0
      <4>1. PICK lo \in Int, hi \in Int :
                lo = study.lo[p][m] /\ hi = study.hi[p][m] /\ lo <= hi /\ 0 \in lo .. hi
          BY <2>12, <3>2
      <4>2. Clamp(0, lo, hi) = 0
          BY <4>1 DEF Clamp
      <4> QED BY <3>1, <4>1, <4>2 DEF Seed
    <3> QED BY <2>11, <2>14, <3>3 DEF Generation, slot
  <2> QED BY <2>13, <2>14
<1>5. \A p \in Plants : \A m : Generation(p, m)' = Generation(p, m)
    BY <1>1 DEF Generation, CommissioningActive
<1> QED BY <1>1, <1>4, <1>5 DEF Served

\* A stage keeps the powers in flight, unchanged, and latches one it can serve.
LEMMA StageKeepsPowers ==
    ASSUME RingInv, Served, SolveStage, NEW p \in Plants, NEW m \in DueOf(study, p, stage + 1)
    PROVE  LET slot == SlotIn(study, p, layout.kMax, m)
           IN  /\ ring'[slot][p] \in Generation(p, m)
               /\ m \in DueOf(study, p, stage) => ring'[slot][p] = ring[slot][p]
<1> DEFINE slot == SlotIn(study, p, layout.kMax, m)
           new == GenuineDecisionsAt(PointOf(study, p), stage)
<1>1. /\ study \in Studies /\ stage \in DecisionStages(study.axis) /\ LaidOut(study, layout)
      /\ NoFanOut(study) /\ DOMAIN ring = 0 .. layout.kMax - 1
      /\ status = "running"
    BY DEF RingInv, SolveStage, Axis
<1>2. PICK end \in [Plants -> Ends] :
          ring' = [s \in DOMAIN ring |-> [q \in Plants |-> Outgoing(q, s, end[q])]]
    BY DEF SolveStage
<1>3. stage \in Nat /\ stage \in 0 .. study.axis.study /\ stage + 1 \in 0 .. study.axis.study
    BY <1>1, StudyFacts DEF DecisionStages
<1>4. Point(p) = PointOf(study, p)
    BY <1>1 DEF Point, LaidOut
<1>5. /\ slot \in 0 .. layout.kMax - 1
      /\ Target(p, slot, stage) = m
  <2>1. slot \in 0 .. layout.kMax - 1
      BY <1>1, <1>3, SlotFacts
  <2>2. PhysicalTarget(PointOf(study, p),
            CHOOSE r \in stage + 1 .. stage + layout.kMax : r % layout.kMax = slot) = m
      BY <1>1, <1>3, SlotFacts
  <2> HIDE DEF slot
  <2>3. Target(p, slot, stage) = m
      BY <1>4, <2>2 DEF Target, WindowIndex
  <2> QED BY <2>1, <2>3
<1> HIDE DEF slot
<1>6. ring'[slot][p] = IF Latches(p, m, stage) THEN Boxed(p, m, AtEnd(p, m, end[p]))
                       ELSE IF Carries(p, m, stage) THEN Boxed(p, m, ring[slot][p])
                       ELSE 0
    BY <1>1, <1>2, <1>5 DEF Outgoing, Carried
<1>7. /\ DueOf(study, p, stage + 1) = (DueOf(study, p, stage) \ {stage}) \cup new
      /\ \A k \in DueOf(study, p, stage) :
            /\ k \in DeliveryStages(study.axis)
            /\ PointOf(study, p).decider[k] <= stage /\ PointOf(study, p).decider[k] # stage
      /\ \A k \in new : /\ k \in DeliveryStages(study.axis) /\ k > stage /\ new = {k}
                        /\ PointOf(study, p).decider[k] = stage
    BY <1>1, DueTurn
<1>8. m \in DeliveryStages(study.axis)
    BY <1>7
<1>9. /\ study.lo[p][m] \in Int /\ study.hi[p][m] \in Int /\ study.lo[p][m] <= study.hi[p][m]
      /\ AtEnd(p, m, end[p]) \in Int
      /\ Generation(p, m) \in SUBSET Int
    BY <1>1, <1>8, BoundFacts
<1>10. ASSUME NEW v \in Int
       PROVE  /\ Boxed(p, m, v) \in Generation(p, m)
              /\ v \in Generation(p, m) => Boxed(p, m, v) = v
  <2>1. PICK lo \in Int, hi \in Int : lo = study.lo[p][m] /\ hi = study.hi[p][m] /\ lo <= hi
      BY <1>9
  <2>2. Clamp(v, lo, hi) \in lo .. hi /\ (v \in lo .. hi => Clamp(v, lo, hi) = v)
      BY <2>1 DEF Clamp
  <2>3. CASE CommissioningActive(p, m)
      BY <2>1, <2>2, <2>3 DEF Boxed, Generation
  <2>4. CASE ~ CommissioningActive(p, m)
      BY <2>4 DEF Boxed, Generation
  <2> QED BY <2>3, <2>4
<1>11. CASE m \in DueOf(study, p, stage)
  <2>1. /\ PointOf(study, p).decider[m] <= stage /\ PointOf(study, p).decider[m] # stage
      BY <1>7, <1>11
  <2>2. ~ Latches(p, m, stage)
    <3> SUFFICES ASSUME Latches(p, m, stage) PROVE FALSE
        OBVIOUS
    <3>1. new # {} /\ m = Min(new)
        BY <1>4 DEF Latches
    <3>2. PICK k \in new : new = {k}
        BY <1>7, <3>1
    <3>3. k \in Nat
        BY <1>1, <1>7, <3>2, StudyFacts
    <3>4. Min({k}) = k
      <4>1. \A x \in {k} : k <= x
          BY <3>3
      <4> QED BY <4>1 DEF Min
    <3>5. m \in new
      <4> HIDE DEF new
      <4> QED BY <3>1, <3>2, <3>4
    <3> QED BY <1>7, <2>1, <3>5
  <2>3. Carries(p, m, stage)
    <3>1. DOMAIN PointOf(study, p).decider = DeliveryStages(study.axis)
        BY DEF PointOf, Resolve, Decider
    <3> QED BY <1>4, <1>8, <2>1, <3>1 DEF Carries, IsReadyAt, Axis
  <2>4. ring[slot][p] \in Generation(p, m)
      BY <1>1, <1>11 DEF Served, slot
  <2>5. ring[slot][p] \in Int
      BY <1>9, <2>4
  <2>6. ring'[slot][p] = Boxed(p, m, ring[slot][p])
      BY <1>6, <2>2, <2>3
  <2>7. ring'[slot][p] = ring[slot][p]
      BY <1>10, <2>4, <2>5, <2>6
  <2> QED BY <2>4, <2>7 DEF slot
<1>12. CASE m \notin DueOf(study, p, stage)
  <2>1. m \in new /\ new = {m} /\ PointOf(study, p).decider[m] = stage
      BY <1>7, <1>12
  <2>2. ~ Carries(p, m, stage)
      BY <1>4, <2>1 DEF Carries
  <2>3. Latches(p, m, stage) <=> CommissioningActive(p, m)
    <3>1. m \in Nat
        BY <1>1, <1>8, StudyFacts
    <3>2. Min({m}) = m
      <4>1. \A x \in {m} : m <= x
          BY <3>1
      <4> QED BY <4>1 DEF Min
    <3>3. GenuineDecisionsAt(Point(p), stage) = {m}
        BY <1>4, <2>1
    <3> HIDE DEF new
    <3> QED BY <1>8, <3>2, <3>3 DEF Latches, Axis
  <2>4. CASE CommissioningActive(p, m)
    <3>1. ring'[slot][p] = Boxed(p, m, AtEnd(p, m, end[p]))
        BY <1>6, <2>3, <2>4
    <3> QED BY <1>9, <1>10, <1>12, <3>1 DEF slot
  <2>5. CASE ~ CommissioningActive(p, m)
    <3>1. ring'[slot][p] = 0
        BY <1>6, <2>2, <2>3, <2>5
    <3> QED BY <1>12, <2>5, <3>1 DEF slot, Generation
  <2> QED BY <2>4, <2>5
<1> QED BY <1>11, <1>12

LEMMA PowersStayServed ==
    ASSUME PastIsServable
    PROVE  RingInv /\ Served /\ [Next]_vars => Served'
<1> SUFFICES ASSUME RingInv, Served, [Next]_vars PROVE Served'
    OBVIOUS
<1>1. CASE RejectFanOut
    BY <1>1 DEF Served, RejectFanOut
<1>2. CASE BuildInitialState
    BY <1>2, SeedsAreServable
<1>3. CASE SolveStage
  <2>1. study' = study /\ layout' = layout /\ stage' = stage + 1
      BY <1>3 DEF SolveStage
  <2>2. ASSUME NEW p \in Plants, NEW m \in DueOf(study, p, stage + 1)
        PROVE  ring'[SlotIn(study, p, layout.kMax, m)][p] \in Generation(p, m)
      BY <1>3, <2>2, StageKeepsPowers
  <2>3. \A p \in Plants : \A m : Generation(p, m)' = Generation(p, m)
      BY <2>1 DEF Generation, CommissioningActive
  <2> QED BY <2>1, <2>2, <2>3 DEF Served
<1>4. CASE UNCHANGED vars
  <2>1. \A p \in Plants : \A m : Generation(p, m)' = Generation(p, m)
      BY <1>4 DEF Generation, CommissioningActive, vars
  <2> QED BY <1>4, <2>1 DEF Served, vars
<1> QED BY <1>1, <1>2, <1>3, <1>4 DEF Next

----------------------------------------------------------------------------
(* The theorems *)

\* In every reachable state the setup and the stages stand where RingInv says
\* (resolve_state_layout, build_initial_state, the stage loop).
THEOREM RingInvariant == Spec => []RingInv
<1>1. Init => RingInv
    BY InvariantHoldsFirst
<1>2. RingInv /\ [Next]_vars => RingInv'
    BY InvariantIsInductive
<1> QED BY <1>1, <1>2, PTL DEF Spec

\* With past windows that the leading stages can generate, every commitment in the ring can
\* be generated when it falls due.
THEOREM ServedInvariant ==
    ASSUME PastIsServable
    PROVE  Spec => [](RingInv /\ Served)
<1>1. Init => RingInv /\ Served
    BY InvariantHoldsFirst
<1>2. RingInv /\ Served /\ [Next]_vars => (RingInv /\ Served)'
    BY InvariantIsInductive, PowersStayServed
<1> QED BY <1>1, <1>2, PTL DEF Spec

\* Once the initial state is built: the layout, and what the slots must hold.
LEMMA InFlight ==
    ASSUME RingInv, Running
    PROVE  /\ status \in {"running", "done"} /\ study \in Studies
           /\ LaidOut(study, layout) /\ NoFanOut(study)
           /\ stage \in Nat /\ stage \in 0 .. study.axis.study
           /\ stage <= LastStage => stage \in DecisionStages(study.axis)
           /\ \A p \in Plants : /\ Held(p, stage) = DueOf(study, p, stage)
                                /\ Point(p) = PointOf(study, p)
                                /\ \A m : SlotOf(layout, p, m) = SlotIn(study, p, layout.kMax, m)
<1>1. status \in {"running", "done"} /\ study \in Studies /\ LaidOut(study, layout) /\ NoFanOut(study)
    BY DEF RingInv, Running
<1>2. PICK n \in Nat : n = study.axis.study
    BY <1>1, StudyFacts
<1>3. stage \in DecisionStages(study.axis) \/ stage = study.axis.study
    BY <1>1 DEF RingInv, Axis
<1>4. stage \in Nat /\ stage \in 0 .. n
    BY <1>2, <1>3 DEF DecisionStages
<1>5. stage <= LastStage => stage \in DecisionStages(study.axis)
    BY <1>2, <1>4 DEF LastStage, Axis, DecisionStages
<1>6. ASSUME NEW p \in Plants
      PROVE  /\ Held(p, stage) = DueOf(study, p, stage)
             /\ Point(p) = PointOf(study, p)
             /\ \A m : SlotOf(layout, p, m) = SlotIn(study, p, layout.kMax, m)
  <2>1. stage \in Int
      BY <1>4
  <2>2. {m \in DeliveryStages(study.axis) \ Excised(layout.points[p]) :
             m >= stage /\ IsReadyAt(layout.points[p], m, stage - 1)} = DueOf(study, p, stage)
      BY <1>1, <2>1, HeldByDecider
  <2>3. Held(p, stage) = DueOf(study, p, stage)
      BY <2>2 DEF Held, Axis, Point
  <2>4. Point(p) = PointOf(study, p) /\ \A m : SlotOf(layout, p, m) = SlotIn(study, p, layout.kMax, m)
      BY <1>1 DEF LaidOut, Point, SlotOf, SlotIn
  <2> QED BY <2>3, <2>4
<1> QED BY <1>1, <1>2, <1>4, <1>5, <1>6

\* The validator's calendar walk asks for exactly the past windows that the resolver needs,
\* for every calendar and every lead (lead_delivery_stage_count and resolve_point).
THEOREM CoverageIsExact == Spec => []CoverageMatchesDecider
<1>1. RingInv => CoverageMatchesDecider
  <2> SUFFICES ASSUME RingInv, NEW p \in Plants
               PROVE  0 .. LeadDeliveryStageCount(Lead(p), Axis) - 1
                          = {m \in DecisionStages(Axis) : Decider(Lead(p), Axis)[m] = PreStudy}
      BY DEF CoverageMatchesDecider
  <2>1. IsAxis(study.axis) /\ IsLead(study.lead[p])
      BY StudyFacts DEF RingInv
  <2> QED BY <2>1, LeadingCount DEF Lead, Axis
<1> QED BY <1>1, RingInvariant, PTL

\* The ring is deep enough and the excision right, for every calendar and every lead:
\* deliveries held at once are in different slots, and in the window the stage walks.
THEOREM RingIsDeepEnough == Spec => []SlotsHoldOneDelivery
<1>1. RingInv => SlotsHoldOneDelivery
  <2> SUFFICES ASSUME RingInv, Running, stage <= LastStage, NEW p \in Plants
               PROVE  /\ \A m, n \in Held(p, stage) :
                            SlotOf(layout, p, m) = SlotOf(layout, p, n) => m = n
                      /\ \A m \in Held(p, stage) : m > stage => Target(p, SlotOf(layout, p, m), stage) = m
      BY DEF SlotsHoldOneDelivery
  <2>1. /\ study \in Studies /\ LaidOut(study, layout) /\ NoFanOut(study)
        /\ stage \in Nat /\ stage \in 0 .. study.axis.study /\ stage \in DecisionStages(study.axis)
        /\ Held(p, stage) = DueOf(study, p, stage) /\ Point(p) = PointOf(study, p)
        /\ \A m : SlotOf(layout, p, m) = SlotIn(study, p, layout.kMax, m)
      BY InFlight
  <2>2. \A m, n \in DueOf(study, p, stage) :
            SlotIn(study, p, layout.kMax, m) = SlotIn(study, p, layout.kMax, n) => m = n
      BY <2>1, SlotFacts
  <2>3. ASSUME NEW m \in DueOf(study, p, stage), m > stage
        PROVE  Target(p, SlotIn(study, p, layout.kMax, m), stage) = m
    <3>1. stage + 1 \in 0 .. study.axis.study
      <4>1. PICK n \in Nat : n = study.axis.study
          BY <2>1, StudyFacts
      <4> QED BY <2>1, <4>1 DEF DecisionStages
    <3>2. m \in DueOf(study, p, stage + 1)
      <4>1. m # stage
          BY <2>1, <2>3
      <4>2. DueOf(study, p, stage + 1)
                = (DueOf(study, p, stage) \ {stage}) \cup GenuineDecisionsAt(PointOf(study, p), stage)
          BY <2>1, DueTurn
      <4> QED BY <2>3, <4>1, <4>2
    <3>3. PhysicalTarget(PointOf(study, p),
              CHOOSE r \in stage + 1 .. stage + layout.kMax :
                  r % layout.kMax = SlotIn(study, p, layout.kMax, m)) = m
        BY <2>1, <3>1, <3>2, SlotFacts
    <3> QED BY <2>1, <3>3 DEF Target, WindowIndex
  <2> QED BY <2>1, <2>2, <2>3
<1> QED BY <1>1, RingInvariant, PTL

\* A stage that fishes generates the slot of its own delivery.
LEMMA MaturingSlot ==
    ASSUME RingInv, status = "running", NEW p \in Plants
    PROVE  /\ Fishes(p, stage) <=> stage \in DueOf(study, p, stage)
           /\ SlotIn(study, p, layout.kMax, stage) = stage % layout.kMax
<1>1. study \in Studies /\ LaidOut(study, layout) /\ NoFanOut(study) /\ stage \in DecisionStages(study.axis)
    BY DEF RingInv, Axis
<1>2. stage \in 0 .. study.axis.study
  <2>1. PICK n \in Nat : n = study.axis.study
      BY <1>1, StudyFacts
  <2> QED BY <1>1, <2>1 DEF DecisionStages
<1>3. /\ stage \in DueOf(study, p, stage) <=> PointOf(study, p).decider[stage] # stage
      /\ RingIndex(PointOf(study, p), stage) = stage
    BY <1>1, DueTurn
<1>4. stage \in DueOf(study, p, stage) => layout.kMax > 0
  <2>1. stage \in DueOf(study, p, stage) => layout.kMax \in Nat \ {0}
      BY <1>1, <1>2, SlotFacts
  <2> QED BY <2>1
<1>5. Point(p) = PointOf(study, p)
    BY <1>1 DEF Point, LaidOut
<1> QED BY <1>3, <1>4, <1>5 DEF Fishes, IsAnticipatedAt, SlotIn

\* No fishing equality is impossible to meet, when the past windows can be generated
\* (fill_anticipated_fishing_entries has no slack).
THEOREM FishingIsFeasible ==
    ASSUME PastIsServable
    PROVE  Spec => []NeverInfeasible
<1>1. RingInv /\ Served => NeverInfeasible
  <2> SUFFICES ASSUME RingInv, Served, status = "running", NEW p \in Plants, Fishes(p, stage)
               PROVE  ring[stage % layout.kMax][p] \in Generation(p, stage)
      BY DEF NeverInfeasible, Feasible
  <2>1. stage \in DueOf(study, p, stage) /\ SlotIn(study, p, layout.kMax, stage) = stage % layout.kMax
      BY MaturingSlot
  <2>2. ring[SlotIn(study, p, layout.kMax, stage)][p] \in Generation(p, stage)
      BY <2>1 DEF Served
  <2> QED BY <2>1, <2>2
<1> QED BY <1>1, ServedInvariant, PTL

----------------------------------------------------------------------------
(* The book of commitments *)

\* What the ring owes plant p: the refinement mapping of Book.
Owed ==
    [p \in Plants |->
        IF Running THEN [m \in Held(p, stage) |-> ring[SlotOf(layout, p, m)][p]] ELSE << >>]

OwedOf(s, p, l, t, slots) == [m \in DueOf(s, p, t) |-> slots[SlotIn(s, p, l.kMax, m)][p]]

LEMMA OwedWhenRunning ==
    ASSUME RingInv, Running
    PROVE  \A p \in Plants : Owed[p] = OwedOf(study, p, layout, stage, ring)
BY InFlight DEF Owed, OwedOf

\* The same after a step that leaves the ring running.
LEMMA OwedAfterwards ==
    ASSUME RingInv', status' \in {"running", "done"}
    PROVE  \A p \in Plants : Owed'[p] = OwedOf(study', p, layout', stage', ring')
<1> SUFFICES ASSUME NEW p \in Plants
             PROVE  Owed'[p] = OwedOf(study', p, layout', stage', ring')
    OBVIOUS
<1>1. study' \in Studies /\ LaidOut(study', layout')
    BY DEF RingInv
<1>2. PICK n \in Nat : n = study'.axis.study
    BY <1>1, StudyFacts
<1>3. stage' \in DecisionStages(study'.axis) \/ stage' = study'.axis.study
    BY DEF RingInv, Axis
<1>4. stage' \in Int /\ stage' >= 0
    BY <1>2, <1>3 DEF DecisionStages
<1>5. {m \in DeliveryStages(study'.axis) \ Excised(layout'.points[p]) :
           m >= stage' /\ IsReadyAt(layout'.points[p], m, stage' - 1)} = DueOf(study', p, stage')
    BY <1>1, <1>4, HeldByDecider
<1>6. \A m : RingIndex(layout'.points[p], m) % layout'.kMax = SlotIn(study', p, layout'.kMax, m)
    BY <1>1 DEF LaidOut, SlotIn
<1>7. Owed'[p] = [m \in {m \in DeliveryStages(study'.axis) \ Excised(layout'.points[p]) :
                            m >= stage' /\ IsReadyAt(layout'.points[p], m, stage' - 1)} |->
                     ring'[RingIndex(layout'.points[p], m) % layout'.kMax][p]]
    BY <1>4 DEF Owed, Running, Held, SlotOf, Axis, Point
<1> QED BY <1>5, <1>6, <1>7 DEF OwedOf

\* The calendar of the book is that of the ring.
LEMMA SameCalendar ==
    /\ \A axis : /\ Book!DecisionStages(axis) = DecisionStages(axis)
                 /\ Book!DeliveryStages(axis) = DeliveryStages(axis)
    /\ \A axis, k : Book!Boundary(axis, k) = Boundary(axis, k)
<1>1. \A axis : /\ Book!DecisionStages(axis) = DecisionStages(axis)
                /\ Book!DeliveryStages(axis) = DeliveryStages(axis)
    BY DEF Book!DecisionStages, Book!DeliveryStages, DecisionStages, DeliveryStages
<1>2. \A axis, k : Book!Boundary(axis, k) = Boundary(axis, k)
    BY Zenon DEF Book!Boundary, Boundary, Book!MapThenSumSet, MapThenSumSet,
                 Book!MapThenFoldSet, MapThenFoldSet
<1> QED BY <1>1, <1>2

\* The decider of a delivery is the stage its lead points to.
LEMMA LeadPointsToDecider ==
    ASSUME study \in Studies, NEW p \in Plants, NEW m \in DeliveryStages(study.axis)
    PROVE  /\ \A t \in DecisionStages(study.axis) :
                 Book!DueAt(p, m, t) <=> Decider(study.lead[p], study.axis)[m] = t
           /\ Book!DueBefore(p, m) <=> Decider(study.lead[p], study.axis)[m] = PreStudy
<1> DEFINE c == Decider(study.lead[p], study.axis)
           deadline == Boundary(study.axis, m + 1) - study.lead[p].span
<1>1. IsAxis(study.axis) /\ IsLead(study.lead[p])
    BY StudyFacts
<1>2. PICK N \in Nat : N = Len(study.axis.hours)
    BY StudyFacts
<1>3. PICK n \in Nat : n = study.axis.study
    BY StudyFacts
<1>4. PICK span \in Nat : span = study.lead[p].span
    BY <1>1 DEF IsLead
<1>5. /\ DecisionStages(study.axis) = 0 .. n - 1 /\ DeliveryStages(study.axis) = 0 .. N - 1
      /\ n <= N /\ m \in 0 .. N - 1
    BY <1>2, <1>3, StudyFacts DEF DecisionStages, DeliveryStages
<1>6. c[m] \in -1 .. m
    BY <1>1, DeciderFacts
<1>7. study.lead[p].kind = "stages" \/ study.lead[p].kind = "hours"
    BY <1>1 DEF IsLead
<1>8. CASE study.lead[p].kind = "stages"
  <2>1. c[m] = IF m >= span THEN m - span ELSE -1
      BY <1>4, <1>8 DEF Decider, PreStudy
  <2>2. /\ \A t : Book!DueAt(p, m, t) <=> m - span = t
        /\ Book!DueBefore(p, m) <=> m < span
      BY <1>4, <1>8 DEF Book!DueAt, Book!DueBefore
  <2> HIDE DEF c
  <2>3. \A t \in 0 .. n - 1 : m - span = t <=> c[m] = t
      BY <1>5, <2>1
  <2>4. m < span <=> c[m] = -1
      BY <1>5, <2>1
  <2> QED BY <1>5, <2>2, <2>3, <2>4 DEF c, PreStudy
<1>9. CASE study.lead[p].kind = "hours"
  <2>1. \A k \in 0 .. N : Boundary(study.axis, k) < deadline <=> k <= c[m]
      BY <1>1, <1>2, <1>9, DeciderFacts
  <2>2. Boundary(study.axis, 0) = 0 /\ \A k \in 0 .. N : Boundary(study.axis, k) \in Int
      BY <1>1, <1>2, Boundaries
  <2>3. \A t : Book!DueAt(p, m, t)
                  <=> Boundary(study.axis, t) < deadline /\ deadline <= Boundary(study.axis, t + 1)
      BY <1>9, SameCalendar DEF Book!DueAt
  <2>4. Book!DueBefore(p, m) <=> Boundary(study.axis, m + 1) <= span
      BY <1>4, <1>9, SameCalendar DEF Book!DueBefore
  <2>5. m + 1 \in 0 .. N /\ Boundary(study.axis, m + 1) \in Int
      BY <1>5, <2>2
  <2>6. deadline = Boundary(study.axis, m + 1) - span /\ deadline \in Int
      BY <1>4, <2>5
  <2> HIDE DEF c, deadline
  <2>7. ASSUME NEW t \in 0 .. n - 1
        PROVE  Book!DueAt(p, m, t) <=> c[m] = t
    <3>1. t \in 0 .. N /\ t + 1 \in 0 .. N /\ t \in Int
        BY <1>5
    <3>2. Boundary(study.axis, t) < deadline <=> t <= c[m]
        BY <2>1, <3>1
    <3>3. deadline <= Boundary(study.axis, t + 1) <=> ~ (t + 1 <= c[m])
      <4>1. Boundary(study.axis, t + 1) < deadline <=> t + 1 <= c[m]
          BY <2>1, <3>1
      <4>2. Boundary(study.axis, t + 1) \in Int
          BY <2>2, <3>1
      <4> QED BY <2>6, <4>1, <4>2
    <3>4. t <= c[m] /\ ~ (t + 1 <= c[m]) <=> c[m] = t
        BY <1>5, <1>6, <3>1
    <3> QED BY <2>3, <3>2, <3>3, <3>4
  <2>8. Book!DueBefore(p, m) <=> c[m] = -1
    <3>1. 0 \in 0 .. N
        OBVIOUS
    <3>2. Boundary(study.axis, 0) < deadline <=> 0 <= c[m]
        BY <2>1, <3>1
    <3>3. Boundary(study.axis, m + 1) <= span <=> ~ (0 < deadline)
        BY <2>5, <2>6
    <3>4. ~ (0 <= c[m]) <=> c[m] = -1
        BY <1>5, <1>6
    <3> QED BY <2>2, <2>4, <3>2, <3>3, <3>4
  <2> QED BY <1>5, <2>7, <2>8 DEF c, PreStudy
<1> QED BY <1>7, <1>8, <1>9

\* The ring keeps the book: every commitment is made in the stage its lead points to, or before
\* the study, at a power the plant can deliver, stays what it was, and is generated when it
\* falls due (build_initial_state, the carry, latch and fishing rows together).
THEOREM RingKeepsBook ==
    ASSUME PastIsServable
    PROVE  Spec => ImplementsBook
<1>1. Init => Book!Init
  <2> SUFFICES ASSUME Init PROVE Book!Init
      OBVIOUS
  <2>1. ~ Running
      BY DEF Init, Running
  <2>2. Owed = [p \in Plants |-> << >>]
      BY <2>1 DEF Owed
  <2> QED BY <2>2 DEF Book!Init, Owed, Init
<1>2. RingInv /\ Served /\ RingInv' /\ Served' /\ [Next]_vars => [Book!Next]_(Book!vars)
  <2> SUFFICES ASSUME RingInv, Served, RingInv', Served', [Next]_vars
               PROVE  [Book!Next]_(Book!vars)
      OBVIOUS
  <2>1. ASSUME study' = study, layout' = layout, stage' = stage, ring' = ring, dispatch' = dispatch
        PROVE  UNCHANGED Book!vars
    <3>1. Owed' = Owed
        BY <2>1 DEF Owed, Running, Held, SlotOf, Axis, Point
    <3> QED BY <2>1, <3>1 DEF Book!vars, Owed
  <2>2. CASE RejectFanOut
      BY <2>1, <2>2 DEF RejectFanOut
  <2>3. CASE UNCHANGED vars
      BY <2>1, <2>3 DEF vars
  <2>4. CASE BuildInitialState
    <3>1. /\ study' = study /\ stage' = 0 /\ status' = "running" /\ dispatch' = dispatch
          /\ study \in Studies /\ stage = -1
        BY <2>4 DEF BuildInitialState, RingInv
    <3>2. ASSUME NEW p \in Plants
          PROVE  /\ DOMAIN Owed'[p] = {m \in Book!DecisionStages(study.axis) : Book!DueBefore(p, m)}
                 /\ \A m \in DOMAIN Owed'[p] : Owed'[p][m] \in Book!Deliverable(p, m)
      <4>1. Owed'[p] = OwedOf(study, p, layout', 0, ring')
          BY <3>1, OwedAfterwards
      <4>2. DOMAIN Owed'[p] = DueOf(study, p, 0)
          BY <4>1 DEF OwedOf
      <4>3. DueOf(study, p, 0) = {m \in DecisionStages(study.axis) : Decider(study.lead[p], study.axis)[m] = PreStudy}
          BY <3>1, DueFirst
      <4>4. \A m \in DecisionStages(study.axis) :
                Book!DueBefore(p, m) <=> Decider(study.lead[p], study.axis)[m] = PreStudy
          BY <3>1, StudyFacts, LeadPointsToDecider
      <4>5. DOMAIN Owed'[p] = {m \in Book!DecisionStages(study.axis) : Book!DueBefore(p, m)}
          BY <4>2, <4>3, <4>4, SameCalendar
      <4>6. ASSUME NEW m \in DueOf(study, p, 0)
            PROVE  Owed'[p][m] \in Book!Deliverable(p, m)
        <5>1. Owed'[p][m] = ring'[SlotIn(study, p, layout'.kMax, m)][p]
            BY <4>1 DEF OwedOf
        <5>2. ring'[SlotIn(study, p, layout'.kMax, m)][p] \in Generation(p, m)'
            BY <3>1, <4>6 DEF Served
        <5>3. Generation(p, m)' = Book!Deliverable(p, m)
            BY <3>1 DEF Generation, CommissioningActive, Book!Deliverable, Book!InOperation
        <5> QED BY <5>1, <5>2, <5>3
      <4> QED BY <4>2, <4>5, <4>6
    <3>3. Book!Open
        BY <3>1, <3>2 DEF Book!Open, Owed
    <3> QED BY <3>3 DEF Book!Next
  <2>5. CASE SolveStage
    <3>1. /\ study' = study /\ layout' = layout /\ stage' = stage + 1 /\ status = "running"
          /\ status' \in {"running", "done"}
          /\ study \in Studies /\ NoFanOut(study) /\ stage \in DecisionStages(study.axis)
          /\ dispatch' = [p \in Plants |->
                             IF Fishes(p, stage) THEN ring[stage % layout.kMax][p] ELSE NoCommitment]
      <4>1. status' = IF stage = LastStage THEN "done" ELSE "running"
          BY <2>5 DEF SolveStage
      <4> QED BY <2>5, <4>1 DEF SolveStage, RingInv, Axis
    <3>2. Running
        BY <3>1, StudyFacts DEF Running
    <3>3. ASSUME NEW p \in Plants
          PROVE  LET kept == DOMAIN Owed[p] \ {stage}
                     new == {m \in Book!DeliveryStages(study.axis) : m > stage /\ Book!DueAt(p, m, stage)}
                 IN  /\ DOMAIN Owed'[p] = kept \cup new
                     /\ \A m \in kept : Owed'[p][m] = Owed[p][m]
                     /\ \A m \in new : Owed'[p][m] \in Book!Deliverable(p, m)
      <4> DEFINE new == GenuineDecisionsAt(PointOf(study, p), stage)
      <4>1. /\ Owed[p] = OwedOf(study, p, layout, stage, ring)
            /\ Owed'[p] = OwedOf(study, p, layout, stage + 1, ring')
        <5>1. Owed[p] = OwedOf(study, p, layout, stage, ring)
            BY <3>2, OwedWhenRunning
        <5>2. Owed'[p] = OwedOf(study', p, layout', stage', ring')
            BY <3>1, OwedAfterwards
        <5> QED BY <3>1, <5>1, <5>2
      <4>2. /\ DOMAIN Owed[p] = DueOf(study, p, stage)
            /\ DOMAIN Owed'[p] = DueOf(study, p, stage + 1)
          BY <4>1 DEF OwedOf
      <4>3. /\ DueOf(study, p, stage + 1) = (DueOf(study, p, stage) \ {stage}) \cup new
            /\ \A m \in new : /\ m \in DeliveryStages(study.axis) /\ m > stage
                              /\ PointOf(study, p).decider[m] = stage
            /\ \A m \in DeliveryStages(study.axis) :
                  m > stage /\ PointOf(study, p).decider[m] = stage => m \in new
          BY <3>1, DueTurn
      <4>4. \A m \in DeliveryStages(study.axis) :
                Book!DueAt(p, m, stage) <=> PointOf(study, p).decider[m] = stage
        <5>1. PointOf(study, p).decider = Decider(study.lead[p], study.axis)
            BY DEF PointOf, Resolve
        <5> QED BY <3>1, <5>1, LeadPointsToDecider
      <4>5. {m \in Book!DeliveryStages(study.axis) : m > stage /\ Book!DueAt(p, m, stage)} = new
        <5> HIDE DEF new
        <5> QED BY <4>3, <4>4, SameCalendar
      <4> HIDE DEF new
      <4>6. ASSUME NEW m \in DueOf(study, p, stage + 1)
            PROVE  /\ Owed'[p][m] \in Book!Deliverable(p, m)
                   /\ m \in DueOf(study, p, stage) => Owed'[p][m] = Owed[p][m]
        <5>1. Owed'[p][m] = ring'[SlotIn(study, p, layout.kMax, m)][p]
            BY <4>1 DEF OwedOf
        <5>2. m \in DueOf(study, p, stage) => Owed[p][m] = ring[SlotIn(study, p, layout.kMax, m)][p]
            BY <4>1 DEF OwedOf
        <5>3. /\ ring'[SlotIn(study, p, layout.kMax, m)][p] \in Generation(p, m)
              /\ m \in DueOf(study, p, stage) =>
                    ring'[SlotIn(study, p, layout.kMax, m)][p] = ring[SlotIn(study, p, layout.kMax, m)][p]
            BY <2>5, StageKeepsPowers
        <5>4. Generation(p, m) = Book!Deliverable(p, m)
            BY DEF Generation, CommissioningActive, Book!Deliverable, Book!InOperation
        <5> QED BY <5>1, <5>2, <5>3, <5>4
      <4>7. DOMAIN Owed'[p] = (DOMAIN Owed[p] \ {stage}) \cup new
          BY <4>2, <4>3
      <4>8. \A m \in DOMAIN Owed[p] \ {stage} : Owed'[p][m] = Owed[p][m]
          BY <4>2, <4>3, <4>6
      <4>9. \A m \in new : Owed'[p][m] \in Book!Deliverable(p, m)
          BY <4>3, <4>6
      <4> QED BY <4>5, <4>7, <4>8, <4>9
    <3>4. dispatch' = [p \in Plants |->
                          IF stage \in DOMAIN Owed[p] THEN Owed[p][stage] ELSE NoCommitment]
      <4>1. ASSUME NEW p \in Plants
            PROVE  /\ Fishes(p, stage) <=> stage \in DOMAIN Owed[p]
                   /\ Fishes(p, stage) => Owed[p][stage] = ring[stage % layout.kMax][p]
        <5>1. Owed[p] = OwedOf(study, p, layout, stage, ring)
            BY <3>2, OwedWhenRunning
        <5>2. /\ Fishes(p, stage) <=> stage \in DueOf(study, p, stage)
              /\ SlotIn(study, p, layout.kMax, stage) = stage % layout.kMax
            BY <3>1, MaturingSlot
        <5> QED BY <5>1, <5>2 DEF OwedOf
      <4> QED BY <3>1, <4>1
    <3>5. stage \in Book!DecisionStages(study.axis)
        BY <3>1, SameCalendar
    <3>6. Book!Turn
        BY <3>1, <3>3, <3>4, <3>5 DEF Book!Turn, Owed
    <3> QED BY <3>6 DEF Book!Next
  <2> QED BY <2>2, <2>3, <2>4, <2>5 DEF Next
<1>3. Spec => [](RingInv /\ Served)
    BY ServedInvariant
<1> QED BY <1>1, <1>2, <1>3, PTL DEF Spec, ImplementsBook, Book!Spec

=============================================================================
