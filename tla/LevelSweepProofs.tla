-------------------------- MODULE LevelSweepProofs --------------------------
(***************************************************************************)
(* The workers of a parallel region share a node's units among them, and   *)
(* the ranks exchange the cuts they find.  For any number of ranks,        *)
(* workers, trial points and units and any interleaving, each unit up to   *)
(* the counter is claimed by one worker (ClaimInv); each worker holds the  *)
(* results of the units it finished, which do not depend on who ran them   *)
(* nor in which order the blocks were claimed (BufferInv); every pool of   *)
(* a level behind is the one a sequential pass over all ranks' trial       *)
(* points would leave (PoolInv).  Hence the sweep implements the abstract  *)
(* one, in which a level is added to the pools all at once.  Where the     *)
(* levels behind the first hold one node and no child is listed twice, the *)
(* binding counters of every pool are the sums of the shares the workers   *)
(* found (CountInv), so that no cut is credited with another's uses.       *)
(***************************************************************************)
EXTENDS LevelSweep, FiniteSetTheorems, WellFoundedInduction, TLAPS

----------------------------------------------------------------------------
(* Sums *)

\* The element a fold takes out of s, and the recursion of a sum of f over S.
Taken(s) == CHOOSE x \in s : TRUE
Sums(f, S, iter) ==
    iter = [s \in SUBSET S |-> IF s = {} THEN 0 ELSE f[Taken(s)] + iter[s \ {Taken(s)}]]

\* Induction over the naturals, the property given as the set of those that have it.
LEMMA NaturalInduction ==
    ASSUME NEW P, 0 \in P, \A n \in P \cap Nat : n + 1 \in P
    PROVE  Nat \subseteq P
<1> SUFFICES ASSUME Nat \ P # {} PROVE FALSE  OBVIOUS
<1>1. PICK n \in Nat \ P : \A m \in Nat \ P : ~(<<m, n>> \in OpToRel(<, Nat))
  BY NatLessThanWellFounded, WFMin
<1>2. n # 0 /\ n - 1 \in Nat  OBVIOUS
<1>3. \A m \in Nat \ P : ~(m < n)
  BY <1>1 DEF OpToRel
<1>4. n - 1 \in P  BY <1>2, <1>3
<1> QED BY <1>2, <1>4

\* Induction over the subsets of a finite set, one element taken out at a time.
LEMMA SubsetInduction ==
    ASSUME NEW S, IsFiniteSet(S), NEW P, {} \in P,
           \A s \in SUBSET S : s # {} /\ s \ {Taken(s)} \in P => s \in P
    PROVE  SUBSET S \subseteq P
<1> DEFINE Q == {n \in Nat : \A s \in SUBSET S : Cardinality(s) = n => s \in P}
<1>0. ASSUME NEW s \in SUBSET S
      PROVE  IsFiniteSet(s) /\ Cardinality(s) \in Nat
  BY FS_Subset, FS_CardinalityType
<1>1. 0 \in Q  BY <1>0, FS_EmptySet
<1>2. ASSUME NEW n \in Q
      PROVE  n + 1 \in Q
  <2> SUFFICES ASSUME NEW s \in SUBSET S, Cardinality(s) = n + 1
               PROVE  s \in P
    OBVIOUS
  <2>0. n \in Nat  OBVIOUS
  <2>1. s # {}  BY <2>0, FS_EmptySet
  <2>2. Taken(s) \in s
    BY <2>1 DEF Taken
  <2>3. Cardinality(s \ {Taken(s)}) = n
    <3>1. Cardinality(s \ {Taken(s)}) = Cardinality(s) - 1
      BY <1>0, <2>2, FS_RemoveElement
    <3> QED BY <2>0, <3>1
  <2> QED BY <2>1, <2>3
<1>3. Nat \subseteq Q
  <2> HIDE DEF Q
  <2> QED BY <1>1, <1>2, NaturalInduction
<1> QED BY <1>0, <1>3

\* What is taken out of a set is in it.
LEMMA TakenFrom ==
    ASSUME NEW S, NEW s \in SUBSET S, s # {}
    PROVE  Taken(s) \in s /\ Taken(s) \in S /\ s \ {Taken(s)} \in SUBSET S
BY DEF Taken

\* A sum exists.
LEMMA SumExists ==
    ASSUME NEW S, IsFiniteSet(S), NEW f, \A x \in S : f[x] \in Int
    PROVE  \E iter : Sums(f, S, iter)
<1> DEFINE Step(g, s) == IF s = {} THEN 0 ELSE f[Taken(s)] + g[s \ {Taken(s)}]
           Up(n) == {s \in SUBSET S : Cardinality(s) <= n}
           Q == {n \in Nat : \E g \in [SUBSET S -> Int] : \A s \in Up(n) : g[s] = Step(g, s)}
<1>0. ASSUME NEW s \in SUBSET S
      PROVE  IsFiniteSet(s) /\ Cardinality(s) \in Nat
  BY FS_Subset, FS_CardinalityType
<1>1. 0 \in Q
  <2> DEFINE g == [s \in SUBSET S |-> 0]
  <2>1. \A s \in Up(0) : s = {}  BY <1>0, FS_EmptySet
  <2>2. \A s \in Up(0) : g[s] = Step(g, s)  BY <2>1
  <2>3. g \in [SUBSET S -> Int]  OBVIOUS
  <2> QED BY <2>2, <2>3
<1>2. ASSUME NEW n \in Q
      PROVE  n + 1 \in Q
  <2>1. PICK g \in [SUBSET S -> Int] : \A s \in Up(n) : g[s] = Step(g, s)  OBVIOUS
  <2> DEFINE h == [s \in SUBSET S |-> Step(g, s)]
  <2>2. h \in [SUBSET S -> Int]
    <3>1. ASSUME NEW s \in SUBSET S PROVE Step(g, s) \in Int
      BY TakenFrom
    <3> HIDE DEF Step
    <3> QED BY <3>1
  <2>3. ASSUME NEW s \in Up(n + 1)
        PROVE  h[s] = Step(h, s)
    <3>1. CASE s = {}  BY <3>1
    <3>2. CASE s # {}
      <4>1. Taken(s) \in s /\ s \ {Taken(s)} \in SUBSET S
        BY <3>2, TakenFrom
      <4>2. s \ {Taken(s)} \in Up(n)
        BY <1>0, <4>1, FS_RemoveElement
      <4>3. h[s \ {Taken(s)}] = g[s \ {Taken(s)}]
        <5> HIDE DEF Step
        <5> QED BY <2>1, <4>1, <4>2
      <4> QED BY <3>2, <4>3
    <3> QED BY <3>1, <3>2
  <2>4. n + 1 \in Nat  OBVIOUS
  <2> HIDE DEF h, Step, Up
  <2> QED BY <2>2, <2>3, <2>4
<1>3. Nat \subseteq Q
  <2> HIDE DEF Q
  <2> QED BY <1>1, <1>2, NaturalInduction
<1>4. PICK g \in [SUBSET S -> Int] : \A s \in Up(Cardinality(S)) : g[s] = Step(g, s)
  BY <1>0, <1>3
<1>5. \A s \in SUBSET S : s \in Up(Cardinality(S))  BY FS_Subset
<1>6. g = [s \in SUBSET S |-> Step(g, s)]
  <2> HIDE DEF Step, Up
  <2> QED BY <1>4, <1>5
<1> QED BY <1>6 DEF Sums

\* A sum is a value of this recursion.
LEMMA SumIsFolded ==
    ASSUME NEW f, NEW S
    PROVE  SumOver(f, S) = (CHOOSE iter : Sums(f, S, iter))[S]
BY Zenon DEF SumOver, FoldSet, MapThenFoldSet, Sums, Taken

\* The two cases of its recursion.
LEMMA SumUnfolds ==
    ASSUME NEW S, NEW f, NEW iter, Sums(f, S, iter)
    PROVE  /\ iter[{}] = 0
           /\ \A s \in SUBSET S : s # {} => iter[s] = f[Taken(s)] + iter[s \ {Taken(s)}]
BY DEF Sums

\* A sum of integers is one.
LEMMA SumType ==
    ASSUME NEW S, IsFiniteSet(S), NEW f, \A x \in S : f[x] \in Int
    PROVE  SumOver(f, S) \in Int
<1> DEFINE iter == CHOOSE i : Sums(f, S, i)
<1>1. Sums(f, S, iter)  BY SumExists
<1> DEFINE P == {s \in SUBSET S : iter[s] \in Int}
<1> HIDE DEF iter
<1>2. {} \in P  BY <1>1, SumUnfolds
<1>3. \A s \in SUBSET S : s # {} /\ s \ {Taken(s)} \in P => s \in P
  BY <1>1, SumUnfolds, TakenFrom
<1>4. S \in P
  <2> HIDE DEF P
  <2> QED BY <1>2, <1>3, SubsetInduction
<1> QED BY <1>4, SumIsFolded DEF iter

\* Every value of the recursion is an integer.
LEMMA SumIntegers ==
    ASSUME NEW S, IsFiniteSet(S), NEW f, \A x \in S : f[x] \in Int, NEW F, Sums(f, S, F)
    PROVE  \A s \in SUBSET S : F[s] \in Int
<1> DEFINE P == {s \in SUBSET S : F[s] \in Int}
<1>1. {} \in P  BY SumUnfolds
<1>2. \A s \in SUBSET S : s # {} /\ s \ {Taken(s)} \in P => s \in P
  BY SumUnfolds, TakenFrom
<1>3. SUBSET S \subseteq P
  <2> HIDE DEF P
  <2> QED BY <1>1, <1>2, SubsetInduction
<1> QED BY <1>3

\* The recursion may take out any element, not only the one the fold picks.
LEMMA SumTakesAny ==
    ASSUME NEW S, IsFiniteSet(S), NEW f, \A x \in S : f[x] \in Int, NEW F, Sums(f, S, F)
    PROVE  \A s \in SUBSET S : F[s] \in Int /\ \A x \in s : F[s] = f[x] + F[s \ {x}]
<1>0. ASSUME NEW s \in SUBSET S
      PROVE  IsFiniteSet(s) /\ Cardinality(s) \in Nat
  BY FS_Subset, FS_CardinalityType
<1>a. F[{}] = 0 /\ \A s \in SUBSET S : s # {} => F[s] = f[Taken(s)] + F[s \ {Taken(s)}]
  BY SumUnfolds
<1>b. \A s \in SUBSET S : F[s] \in Int
  BY SumIntegers
<1> DEFINE Good(s) == F[s] \in Int /\ \A x \in s : F[s] = f[x] + F[s \ {x}]
           Q == {n \in Nat : \A s \in SUBSET S : Cardinality(s) = n => Good(s)}
<1>1. 0 \in Q
  <2> SUFFICES ASSUME NEW s \in SUBSET S, Cardinality(s) = 0 PROVE Good(s)  OBVIOUS
  <2>1. s = {}  BY <1>0, FS_EmptySet
  <2> QED BY <2>1, SumUnfolds
<1>2. ASSUME NEW n \in Q
      PROVE  n + 1 \in Q
  <2> SUFFICES ASSUME NEW s \in SUBSET S, Cardinality(s) = n + 1
               PROVE  Good(s)
    OBVIOUS
  <2> HIDE DEF Good
  <2>0. n \in Nat /\ Cardinality(s) = n + 1  OBVIOUS
  <2>1. ASSUME NEW x \in s
        PROVE  s \ {x} \in SUBSET S /\ Cardinality(s \ {x}) = n /\ Good(s \ {x})
    <3>1. Cardinality(s \ {x}) = Cardinality(s) - 1
      BY <1>0, FS_RemoveElement
    <3>2. s \ {x} \in SUBSET S /\ Cardinality(s \ {x}) = n
      BY <2>0, <3>1
    <3> QED BY <3>2
  <2> DEFINE t == Taken(s)
  <2>2. s # {}
    <3>1. Cardinality(s) # 0  BY ONLY <2>0
    <3> QED BY <3>1, FS_EmptySet
  <2>3. t \in s /\ F[s] = f[t] + F[s \ {t}] /\ f[t] \in Int /\ F[s \ {t}] \in Int
    <3>1. t \in s /\ t \in S /\ s \ {t} \in SUBSET S
      BY <2>2, TakenFrom
    <3>2. F[s] = f[t] + F[s \ {t}]  BY <1>a, <2>2
    <3> QED BY <3>1, <3>2, SumIntegers
  <2> HIDE DEF t
  <2>4. ASSUME NEW x \in s
        PROVE  F[s] = f[x] + F[s \ {x}]
    <3>1. CASE x = t  BY <2>3, <3>1
    <3>2. CASE x # t
      <4>1. x \in s \ {t} /\ t \in s \ {x} /\ (s \ {t}) \ {x} = (s \ {x}) \ {t}
        BY <2>3, <3>2
      <4>2. F[s \ {t}] = f[x] + F[(s \ {t}) \ {x}]
        BY <2>1, <2>3, <4>1 DEF Good
      <4>3. F[s \ {x}] = f[t] + F[(s \ {x}) \ {t}]
        BY <2>1, <4>1 DEF Good
      <4>4. (s \ {x}) \ {t} \in SUBSET S /\ F[s \ {x}] \in Int
        BY <2>1, SumIntegers
      <4>5. F[(s \ {t}) \ {x}] \in Int
        <5>1. (s \ {t}) \ {x} \in SUBSET S  OBVIOUS
        <5> QED BY <5>1, SumIntegers
      <4>6. f[x] \in Int  OBVIOUS
      <4>7. F[(s \ {t}) \ {x}] = F[(s \ {x}) \ {t}]  BY <4>1
      <4> QED BY <2>3, <4>2, <4>3, <4>4, <4>5, <4>6, <4>7
    <3> QED BY <3>1, <3>2
  <2>5. F[s] \in Int  BY SumIntegers
  <2> QED BY <2>4, <2>5 DEF Good
<1>3. Nat \subseteq Q
  <2> HIDE DEF Q
  <2> QED BY <1>1, <1>2, NaturalInduction
<1> QED BY <1>0, <1>3

\* One summand more.
LEMMA SumExtends ==
    ASSUME NEW S, IsFiniteSet(S), NEW x, x \notin S, NEW f, \A y \in S \cup {x} : f[y] \in Int
    PROVE  SumOver(f, S \cup {x}) = SumOver(f, S) + f[x]
<1> DEFINE T == S \cup {x}
           F == CHOOSE i : Sums(f, T, i)
           G == CHOOSE i : Sums(f, S, i)
<1>1. IsFiniteSet(T)  BY FS_AddElement
<1>2. Sums(f, T, F) /\ Sums(f, S, G)  BY <1>1, SumExists
<1>3. T \in SUBSET T /\ x \in T /\ T \ {x} = S /\ S \in SUBSET T  OBVIOUS
<1>4. SumOver(f, T) = F[T] /\ SumOver(f, S) = G[S]  BY SumIsFolded
<1> HIDE DEF F, G, T
<1>5. \A y \in T : f[y] \in Int
  BY DEF T
<1>6. F[T] = f[x] + F[S] /\ F[S] \in Int /\ f[x] \in Int
  BY <1>1, <1>2, <1>3, <1>5, SumTakesAny
<1> DEFINE P == {s \in SUBSET S : G[s] = F[s]}
<1>7. {} \in P  BY <1>2, SumUnfolds
<1>8. ASSUME NEW s \in SUBSET S, s # {}, s \ {Taken(s)} \in P
      PROVE  s \in P
  <2>1. s \in SUBSET T  BY <1>3
  <2> QED BY <1>2, <1>8, <2>1, SumUnfolds
<1>9. S \in P
  <2> HIDE DEF P
  <2> QED BY <1>7, <1>8, SubsetInduction
<1>10. SumOver(f, T) = SumOver(f, S) + f[x]  BY <1>4, <1>6, <1>9
<1> QED BY <1>10 DEF T

\* Sums over 0 .. t and 1 .. t, one term at a time.
LEMMA PrefixSums ==
    ASSUME NEW lo \in Int, NEW t \in Int, lo <= t + 1, NEW f, \A y \in lo .. t + 1 : f[y] \in Int
    PROVE  /\ SumOver(f, lo .. t + 1) = SumOver(f, lo .. t) + f[t + 1]
           /\ SumOver(f, lo .. t) \in Int
<1>1. IsFiniteSet(lo .. t)  BY FS_Interval
<1>2. lo .. t + 1 = (lo .. t) \cup {t + 1} /\ t + 1 \notin lo .. t  OBVIOUS
<1>3. \A y \in (lo .. t) \cup {t + 1} : f[y] \in Int  BY <1>2
<1>4. SumOver(f, (lo .. t) \cup {t + 1}) = SumOver(f, lo .. t) + f[t + 1]
  <2> DEFINE S == lo .. t
             x == t + 1
  <2>1. IsFiniteSet(S) /\ x \notin S /\ \A y \in S \cup {x} : f[y] \in Int
    BY <1>1, <1>2, <1>3
  <2> HIDE DEF S, x
  <2>2. SumOver(f, S \cup {x}) = SumOver(f, S) + f[x]
    BY <2>1, SumExtends
  <2> QED BY <2>2 DEF S, x
<1>5. SumOver(f, lo .. t) \in Int  BY <1>1, <1>3, SumType
<1> QED BY <1>2, <1>4, <1>5

\* The empty sum.
LEMMA EmptySum ==
    ASSUME NEW f
    PROVE  SumOver(f, {}) = 0
<1> DEFINE iter == CHOOSE i : Sums(f, {}, i)
<1>1. Sums(f, {}, iter)  BY FS_EmptySet, SumExists
<1> QED BY <1>1, SumUnfolds, SumIsFolded

\* A non-empty set of naturals has a least element.
LEMMA LeastNatural ==
    ASSUME NEW S \in SUBSET Nat, S # {}
    PROVE  Min(S) \in S /\ \A m \in S : Min(S) <= m
<1>1. PICK n \in S : \A m \in S : ~(<<m, n>> \in OpToRel(<, Nat))
  BY NatLessThanWellFounded, WFMin
<1>2. \A m \in S : ~(m < n)
  BY <1>1 DEF OpToRel
<1>3. \A m \in S : n <= m  BY <1>2
<1> QED BY <1>3 DEF Min

\* A sum depends on the summands only.
LEMMA SumSame ==
    ASSUME NEW S, IsFiniteSet(S), NEW f, NEW g, \A x \in S : f[x] = g[x] /\ f[x] \in Int
    PROVE  SumOver(f, S) = SumOver(g, S)
<1> DEFINE F == CHOOSE i : Sums(f, S, i)
           G == CHOOSE i : Sums(g, S, i)
<1>1. Sums(f, S, F) /\ Sums(g, S, G)  BY SumExists
<1>2. SumOver(f, S) = F[S] /\ SumOver(g, S) = G[S]  BY SumIsFolded
<1> HIDE DEF F, G
<1> DEFINE P == {s \in SUBSET S : F[s] = G[s]}
<1>3. {} \in P  BY <1>1, SumUnfolds
<1>4. ASSUME NEW s \in SUBSET S, s # {}, s \ {Taken(s)} \in P
      PROVE  s \in P
  <2>1. Taken(s) \in S  BY <1>4, TakenFrom
  <2>2. F[s] = f[Taken(s)] + F[s \ {Taken(s)}] /\ G[s] = g[Taken(s)] + G[s \ {Taken(s)}]
    BY <1>1, <1>4, SumUnfolds
  <2> QED BY <1>4, <2>1, <2>2
<1>5. S \in P
  <2> HIDE DEF P
  <2> QED BY <1>3, <1>4, SubsetInduction
<1> QED BY <1>2, <1>5

----------------------------------------------------------------------------
(* Numbers in order *)

Below(S, s) == {t \in S : t < s}
Rank(S, s) == Cardinality(Below(S, s))

\* A non-empty finite set of integers has a greatest element.
LEMMA GreatestInteger ==
    ASSUME NEW S \in SUBSET Int, IsFiniteSet(S), S # {}
    PROVE  Max(S) \in S /\ \A x \in S : x <= Max(S)
<1> DEFINE Above(x) == {y \in S : x < y}
           tallies == {Cardinality(Above(x)) : x \in S}
<1>1. \A x \in S : IsFiniteSet(Above(x)) /\ Cardinality(Above(x)) \in Nat
  BY FS_Subset, FS_CardinalityType
<1>2. tallies \in SUBSET Nat /\ tallies # {}  BY <1>1
<1>3. PICK m \in S : \A x \in S : Cardinality(Above(m)) <= Cardinality(Above(x))
  <2>1. Min(tallies) \in tallies /\ \A k \in tallies : Min(tallies) <= k
    BY <1>2, LeastNatural
  <2> QED BY <2>1
<1>4. ASSUME NEW y \in S, m < y PROVE FALSE
  <2>0. \A x \in S : x \in Int  OBVIOUS
  <2>1. Above(y) \in SUBSET Above(m) /\ y \in Above(m) /\ y \notin Above(y)
    <3>1. \A x \in S : y < x => m < x  BY <1>4, <2>0
    <3>2. y \in Int /\ ~(y < y)  BY <2>0
    <3> QED BY <1>4, <3>1, <3>2
  <2>2. /\ Cardinality(Above(y)) <= Cardinality(Above(m))
        /\ Cardinality(Above(m)) = Cardinality(Above(y)) => Above(m) = Above(y)
    BY <1>1, <2>1, FS_Subset
  <2>3. Cardinality(Above(m)) <= Cardinality(Above(y))
    BY <1>3, <1>4
  <2>4. Cardinality(Above(m)) = Cardinality(Above(y))
    BY <1>1, <1>4, <2>2, <2>3
  <2> QED BY <2>1, <2>2, <2>4
<1>5. \A y \in S : y <= m  BY <1>4
<1> QED BY <1>5 DEF Max

\* The rank of a member is below the number of members and grows with the member.
LEMMA RankFacts ==
    ASSUME NEW S \in SUBSET Nat, IsFiniteSet(S), NEW s \in S
    PROVE  /\ Rank(S, s) \in 0 .. Cardinality(S) - 1
           /\ \A t \in S : s < t => Rank(S, s) < Rank(S, t)
<1>1. ASSUME NEW T \in SUBSET S, Below(S, s) \subseteq T, s \in T
      PROVE  Rank(S, s) \in Nat /\ Rank(S, s) < Cardinality(T) /\ Cardinality(T) \in Nat
  <2>1. IsFiniteSet(T) /\ Cardinality(T) \in Nat
    BY FS_Subset, FS_CardinalityType
  <2>2. s \notin Below(S, s)
    BY DEF Below
  <2>3. /\ IsFiniteSet(Below(S, s)) /\ Cardinality(Below(S, s)) <= Cardinality(T)
        /\ Cardinality(T) = Cardinality(Below(S, s)) => T = Below(S, s)
    BY <1>1, <2>1, FS_Subset
  <2>4. Cardinality(Below(S, s)) \in Nat
    BY <2>3, FS_CardinalityType
  <2> QED BY <1>1, <2>1, <2>2, <2>3, <2>4 DEF Rank
<1>2. Below(S, s) \subseteq S
  BY DEF Below
<1>3. Rank(S, s) \in 0 .. Cardinality(S) - 1  BY <1>1, <1>2
<1>4. ASSUME NEW t \in S, s < t PROVE Rank(S, s) < Rank(S, t)
  <2>1. Below(S, t) \in SUBSET S /\ Below(S, s) \subseteq Below(S, t) /\ s \in Below(S, t)
    <3>1. \A x \in S : x \in Nat  OBVIOUS
    <3>2. \A x \in S : x < s => x < t  BY <1>4, <3>1
    <3> QED BY <1>4, <3>2 DEF Below
  <2> QED BY <1>1, <2>1 DEF Rank
<1> QED BY <1>3, <1>4

\* What lies below the greatest slot is all but that slot.
LEMMA GreatestRank ==
    ASSUME NEW S \in SUBSET Nat, NEW B \in SUBSET S, IsFiniteSet(B), B # {},
           \A t \in S, b \in B : t < b => t \in B
    PROVE  \E m \in B : Rank(S, m) = Cardinality(B) - 1
<1>1. PICK m \in B : \A x \in B : x <= m
  <2>1. B \in SUBSET Int  OBVIOUS
  <2> QED BY <2>1, GreatestInteger
<1>2. \A x \in S : x \in Nat  OBVIOUS
<1>3. Below(S, m) = B \ {m}
  <2>1. ASSUME NEW x \in S PROVE x < m <=> x \in B \ {m}
    <3>1. x \in Nat /\ m \in Nat  BY <1>2
    <3>2. x < m => x \in B /\ x # m  BY <3>1
    <3>3. x \in B /\ x # m => x < m  BY <1>1, <3>1
    <3> QED BY <3>2, <3>3
  <2> QED BY <2>1 DEF Below
<1>4. Cardinality(B \ {m}) = Cardinality(B) - 1
  BY <1>1, FS_RemoveElement
<1> QED BY <1>3, <1>4 DEF Rank

\* Every rank below the number of members is taken.
LEMMA RankExists ==
    ASSUME NEW S \in SUBSET Nat, IsFiniteSet(S), NEW k \in 0 .. Cardinality(S) - 1
    PROVE  \E s \in S : Rank(S, s) = k
<1> DEFINE T == {t \in S : k <= Rank(S, t)}
<1>0. Cardinality(S) \in Nat /\ k \in Nat /\ k < Cardinality(S)
  BY FS_CardinalityType
<1>1. T # {}
  <2>1. S # {}  BY <1>0, FS_EmptySet
  <2>2. PICK m \in S : Rank(S, m) = Cardinality(S) - 1
    BY <2>1, GreatestRank
  <2> QED BY <1>0, <2>2
<1>2. PICK low \in T : \A t \in T : low <= t
  <2>1. T \in SUBSET Nat  OBVIOUS
  <2> HIDE DEF T
  <2> QED BY <1>1, <2>1, LeastNatural
<1>3. low \in S /\ low \in Nat /\ k <= Rank(S, low)  BY <1>2
<1>4. Rank(S, low) \in Nat  BY <1>0, <1>3, RankFacts
<1>5. ASSUME k < Rank(S, low) PROVE FALSE
  <2> DEFINE B == Below(S, low)
  <2>1. B \in SUBSET S /\ \A t \in B : t < low
    BY DEF Below
  <2>2. IsFiniteSet(B)  BY <2>1, FS_Subset
  <2>3. B # {}
    BY <1>0, <1>4, <1>5, FS_EmptySet DEF Rank
  <2>4. \A t \in S, b \in B : t < b => t \in B
    BY <1>3 DEF Below
  <2>5. PICK m \in B : Rank(S, m) = Cardinality(B) - 1
    BY <2>1, <2>2, <2>3, <2>4, GreatestRank
  <2>6. Cardinality(B) = Rank(S, low)
    BY DEF Rank
  <2>7. m \in T  BY <1>0, <1>4, <1>5, <2>1, <2>5, <2>6
  <2>8. m < low /\ low <= m /\ m \in Nat  BY <1>2, <2>1, <2>7
  <2> QED BY <1>3, <2>8
<1> QED BY <1>0, <1>3, <1>4, <1>5

\* InOrder lists every member of a finite set once, by rank.
LEMMA InOrderFacts ==
    ASSUME NEW S \in SUBSET Nat, IsFiniteSet(S)
    PROVE  /\ Cardinality(S) \in Nat
           /\ InOrder(S) \in [1 .. Cardinality(S) -> S]
           /\ Len(InOrder(S)) = Cardinality(S)
           /\ \A i \in 1 .. Cardinality(S) : Rank(S, InOrder(S)[i]) = i - 1
           /\ \A s \in S : \E i \in 1 .. Cardinality(S) : InOrder(S)[i] = s
           /\ Range(InOrder(S)) = S
           /\ IsInjective(InOrder(S))
<1> DEFINE n == Cardinality(S)
           o == InOrder(S)
<1>1. n \in Nat  BY FS_CardinalityType
<1>2. ASSUME NEW i \in 1 .. n
      PROVE  o[i] \in S /\ Rank(S, o[i]) = i - 1
  <2>1. \E s \in S : Rank(S, s) = i - 1  BY <1>1, RankExists
  <2>2. o[i] = CHOOSE s \in S : Rank(S, s) = i - 1
    BY DEF InOrder, Rank, Below
  <2> QED BY <2>1, <2>2
<1>3. DOMAIN o = 1 .. n
  BY DEF InOrder
<1>4. o \in [1 .. n -> S]
  BY <1>2, <1>3 DEF InOrder
<1>5. Len(o) = n
  BY <1>1 DEF InOrder
<1>6. ASSUME NEW s \in S PROVE \E i \in 1 .. n : o[i] = s
  <2> DEFINE i == Rank(S, s) + 1
  <2>1. i \in 1 .. n  BY <1>1, RankFacts
  <2>2. o[i] \in S /\ Rank(S, o[i]) = Rank(S, s)
    BY <1>2, <2>1, RankFacts
  <2>3. o[i] \in Nat /\ s \in Nat  BY <2>2
  <2>4. ~(o[i] < s) /\ ~(s < o[i])
    <3>1. o[i] < s => Rank(S, o[i]) < Rank(S, s)
      BY <2>2, RankFacts
    <3>2. s < o[i] => Rank(S, s) < Rank(S, o[i])
      BY <2>2, RankFacts
    <3>3. Rank(S, s) \in Int  BY <1>1, RankFacts
    <3> QED BY <2>2, <3>1, <3>2, <3>3
  <2>5. o[i] = s  BY <2>3, <2>4
  <2> QED BY <2>1, <2>5
<1>7. \A i, j \in 1 .. n : o[i] = o[j] => i = j  BY <1>1, <1>2
<1> HIDE DEF n, o
<1>8. Range(o) = S
  BY <1>2, <1>3, <1>6 DEF Range
<1>9. IsInjective(o)
  BY <1>3, <1>7 DEF IsInjective
<1> QED BY <1>1, <1>2, <1>4, <1>5, <1>6, <1>8, <1>9 DEF n, o

\* InOrder is strictly ascending.
LEMMA InOrderAscends ==
    ASSUME NEW S \in SUBSET Nat, IsFiniteSet(S), NEW i \in 1 .. Cardinality(S),
           NEW j \in 1 .. Cardinality(S), i < j
    PROVE  InOrder(S)[i] < InOrder(S)[j]
<1>1. /\ InOrder(S)[i] \in S /\ Rank(S, InOrder(S)[i]) = i - 1
      /\ InOrder(S)[j] \in S /\ Rank(S, InOrder(S)[j]) = j - 1
  BY InOrderFacts
<1>2. PICK x \in S, y \in S : x = InOrder(S)[i] /\ y = InOrder(S)[j]
  BY <1>1
<1>3. Rank(S, x) = i - 1 /\ Rank(S, y) = j - 1  BY <1>1, <1>2
<1>4. CASE y < x
  <2>1. Rank(S, y) < Rank(S, x)  BY <1>4, RankFacts
  <2> QED BY <1>3, <2>1, FS_CardinalityType
<1>5. x # y  BY <1>3, FS_CardinalityType
<1> QED BY <1>2, <1>4, <1>5

\* The values of a function on a finite domain are finitely many.
LEMMA ImageFinite ==
    ASSUME NEW S, IsFiniteSet(S), NEW f, S = DOMAIN f, f = [x \in S |-> f[x]]
    PROVE  IsFiniteSet({f[x] : x \in S})
<1> DEFINE T == {f[x] : x \in S}
<1>1. f \in [S -> T] /\ \A y \in T : \E x \in S : f[x] = y  OBVIOUS
<1>2. f \in Surjection(S, T)
  BY <1>1 DEF Surjection
<1> HIDE DEF T
<1>3. IsFiniteSet(T)  BY <1>2, FS_Surjection
<1> QED BY <1>3 DEF T

----------------------------------------------------------------------------
(* Levels *)

CutStages == {StageOf[n] : n \in {m \in Nodes : CutGenerating(m)}}
AtStage(s) == {n \in Nodes : CutGenerating(n) /\ StageOf[n] = s}

\* The stage of a level.
LevelStage(l) == Reverse(InOrder(CutStages))[l]

\* The stages that generate cuts, deepest first.
LEMMA StagesDescend ==
    /\ Len(Levels) \in Nat /\ Len(Levels) > 0 /\ DOMAIN Levels = 1 .. Len(Levels)
    /\ \A l \in 1 .. Len(Levels) : LevelStage(l) \in CutStages /\ LevelStage(l) \in Nat
    /\ \A l, k \in 1 .. Len(Levels) : l < k => LevelStage(k) < LevelStage(l)
    /\ \A s \in CutStages : \E l \in 1 .. Len(Levels) : LevelStage(l) = s
    /\ \A l \in 1 .. Len(Levels) : Levels[l] = InOrder(AtStage(LevelStage(l)))
<1>1. IsFiniteSet(CutStages) /\ CutStages \in SUBSET Nat /\ CutStages # {}
  <2> DEFINE G == {m \in Nodes : CutGenerating(m)}
           stage == [n \in G |-> StageOf[n]]
  <2>1. IsFiniteSet(G)  BY GraphAssumption, FS_Subset
  <2>2. CutStages = {stage[n] : n \in G}
    BY DEF CutStages
  <2>3. 0 \in G
    BY GraphAssumption DEF CutGenerating
  <2> HIDE DEF G
  <2>4. IsFiniteSet(CutStages)
    <3>1. stage = [n \in G |-> stage[n]] /\ G = DOMAIN stage  OBVIOUS
    <3> HIDE DEF stage
    <3> QED BY <2>1, <2>2, <3>1, ImageFinite
  <2>5. CutStages # {}  BY <2>2, <2>3
  <2>6. CutStages \in SUBSET Nat
    BY GraphAssumption DEF CutStages
  <2> QED BY <2>4, <2>5, <2>6
<1>2. PICK n \in Nat : n = Cardinality(CutStages) /\ n # 0
  BY <1>1, FS_CardinalityType, FS_EmptySet
<1> DEFINE o == InOrder(CutStages)
<1>3. /\ o \in [1 .. n -> CutStages] /\ Len(o) = n
      /\ \A s \in CutStages : \E i \in 1 .. n : o[i] = s
      /\ \A i, j \in 1 .. n : i < j => o[i] < o[j]
  BY <1>1, <1>2, InOrderFacts, InOrderAscends
<1>4. Levels = [i \in 1 .. n |-> InOrder(AtStage(LevelStage(i)))]
  <2>1. DOMAIN Reverse(o) = 1 .. n
    BY <1>3 DEF Reverse
  <2> HIDE DEF o
  <2>2. Levels = [i \in DOMAIN Reverse(o) |->
                    InOrder({m \in Nodes : CutGenerating(m) /\ StageOf[m] = Reverse(o)[i]})]
    BY Zenon DEF Levels, o, CutStages
  <2> QED BY <2>1, <2>2, Zenon DEF LevelStage, AtStage, o
<1>5. Len(Levels) = n /\ DOMAIN Levels = 1 .. n  BY <1>4
<1>6. \A l \in 1 .. n : LevelStage(l) = o[(n - l) + 1] /\ (n - l) + 1 \in 1 .. n
  <2> HIDE DEF o
  <2> QED BY <1>3 DEF LevelStage, Reverse, o
<1> HIDE DEF o
<1>7. \A l \in 1 .. n : LevelStage(l) \in CutStages /\ LevelStage(l) \in Nat
  BY <1>1, <1>3, <1>6
<1>8. ASSUME NEW l \in 1 .. n, NEW k \in 1 .. n, l < k
      PROVE  LevelStage(k) < LevelStage(l)
  <2>1. (n - k) + 1 < (n - l) + 1  BY <1>8
  <2> QED BY <1>3, <1>6, <2>1
<1>9. ASSUME NEW s \in CutStages
      PROVE  \E l \in 1 .. n : LevelStage(l) = s
  <2>1. PICK i \in 1 .. n : o[i] = s  BY <1>3
  <2>2. (n - i) + 1 \in 1 .. n /\ (n - ((n - i) + 1)) + 1 = i  OBVIOUS
  <2> QED BY <1>6, <2>1, <2>2
<1> QED BY <1>2, <1>4, <1>5, <1>7, <1>8, <1>9

\* The nodes of a level are those of its stage, each once; a cut-generating node is in
\* exactly one level.
LEMMA LevelFacts ==
    ASSUME NEW l \in 1 .. Len(Levels)
    PROVE  /\ Len(Levels[l]) \in Nat /\ Len(Levels[l]) > 0
           /\ DOMAIN Levels[l] = 1 .. Len(Levels[l])
           /\ \A i \in DOMAIN Levels[l] : Levels[l][i] \in Nodes
           /\ IsInjective(Levels[l])
           /\ Range(Levels[l]) = AtStage(LevelStage(l))
<1>1. LevelStage(l) \in CutStages /\ Levels[l] = InOrder(AtStage(LevelStage(l)))
  BY StagesDescend
<1> DEFINE S == AtStage(LevelStage(l))
<1>2. S \in SUBSET Nodes /\ S \in SUBSET Nat /\ IsFiniteSet(S)
  BY GraphAssumption, FS_Subset DEF AtStage
<1>3. S # {}
  BY <1>1 DEF CutStages, AtStage
<1> HIDE DEF S
<1>4. PICK n \in Nat : n = Cardinality(S) /\ n # 0
  BY <1>2, <1>3, FS_CardinalityType, FS_EmptySet
<1>5. InOrder(S) \in [1 .. n -> S] /\ Len(InOrder(S)) = n /\ Range(InOrder(S)) = S
      /\ IsInjective(InOrder(S))
  BY <1>2, <1>4, InOrderFacts
<1>6. Levels[l] = InOrder(S)
  BY <1>1 DEF S
<1> QED BY <1>2, <1>4, <1>5, <1>6 DEF S

----------------------------------------------------------------------------
(* Arithmetic *)

\* Quotient and remainder.
LEMMA Division ==
    ASSUME NEW n \in Nat, NEW d \in Nat \ {0}
    PROVE  /\ n \div d \in Nat /\ n % d \in 0 .. d - 1
           /\ n = (n \div d) * d + (n % d)
<1>1. n = d * (n \div d) + (n % d) /\ n \div d \in Int /\ n % d \in 0 .. d - 1  OBVIOUS
<1> DEFINE q == n \div d
<1>2. q \in Nat
  <2> HIDE DEF q
  <2>1. CASE q < 0
    <3>1. d * q <= d * (-1)
      BY <1>1, <2>1 DEF q
    <3> QED BY <1>1, <3>1 DEF q
  <2> QED BY <1>1, <2>1 DEF q
<1> QED BY <1>1, <1>2

\* Multiplying by a natural keeps the order.
LEMMA Products ==
    ASSUME NEW a \in Int, NEW b \in Int, NEW c \in Nat
    PROVE  /\ a <= b => a * c <= b * c
           /\ a + 1 <= b => a * c + c <= b * c
<1>1. a <= b => a * c <= b * c  OBVIOUS
<1>2. ASSUME a + 1 <= b PROVE (a + 1) * c <= b * c  BY <1>2
<1>3. (a + 1) * c = a * c + c  OBVIOUS
<1> QED BY <1>1, <1>2, <1>3

\* They are unique.
LEMMA DivisionUnique ==
    ASSUME NEW d \in Nat \ {0}, NEW q \in Nat, NEW m \in 0 .. d - 1
    PROVE  /\ q * d + m \in Nat
           /\ (q * d + m) \div d = q
           /\ (q * d + m) % d = m
<1>1. q * d \in Nat  OBVIOUS
<1> DEFINE n == q * d + m
           p == n \div d
           k == n % d
<1>2. n \in Nat /\ m \in Nat /\ m < d  BY <1>1
<1>3. p \in Nat /\ k \in 0 .. d - 1 /\ n = p * d + k
  BY <1>2, Division
<1> HIDE DEF p, k
<1>4. q * d + m = p * d + k  BY <1>3
<1>5. CASE p + 1 <= q
  <2>1. p * d + d <= q * d  BY <1>3, <1>5, Products
  <2> QED BY <1>1, <1>2, <1>3, <1>4, <2>1
<1>6. CASE q + 1 <= p
  <2>1. q * d + d <= p * d  BY <1>3, <1>6, Products
  <2> QED BY <1>1, <1>2, <1>3, <1>4, <2>1
<1>7. CASE p = q
  BY <1>1, <1>2, <1>3, <1>4, <1>7 DEF p, k
<1> QED BY <1>3, <1>5, <1>6, <1>7

\* How many pieces of d cover c: every piece has something to cover, and each of c has one.
LEMMA Pieces ==
    ASSUME NEW c \in Nat, NEW d \in Nat \ {0}, NEW T, T = (c + d - 1) \div d
    PROVE  /\ T \in Nat
           /\ \A x \in 0 .. c - 1 : x \div d \in 0 .. T - 1
           /\ \A t \in 0 .. T - 1 : t * d \in Nat /\ t * d < c
           /\ c > 0 => T > 0
<1>1. c + d - 1 \in Nat  OBVIOUS
<1>2. /\ T \in Nat /\ (c + d - 1) % d \in 0 .. d - 1
      /\ c + d - 1 = T * d + ((c + d - 1) % d)
  BY <1>1, Division
<1> DEFINE m == (c + d - 1) % d
<1> HIDE DEF m
<1>3. m \in 0 .. d - 1 /\ c + d - 1 = T * d + m /\ T * d \in Nat
  BY <1>2 DEF m
<1>4. c <= T * d /\ T * d <= c + d - 1  BY <1>3
<1>5. ASSUME NEW x \in 0 .. c - 1
      PROVE  x \div d \in 0 .. T - 1
  <2>0. x \in Nat  OBVIOUS
  <2>1. x \div d \in Nat /\ x = (x \div d) * d + (x % d) /\ x % d \in 0 .. d - 1
    BY <2>0, Division
  <2> DEFINE q == x \div d
             k == x % d
  <2> HIDE DEF q, k
  <2>2. CASE T <= q
    <3>1. T * d <= q * d /\ q * d \in Nat
      BY <1>2, <2>1, <2>2, Products DEF q
    <3> QED BY <1>4, <1>3, <2>1, <3>1 DEF q, k
  <2> QED BY <1>2, <2>1, <2>2 DEF q
<1>6. ASSUME NEW t \in 0 .. T - 1
      PROVE  t * d \in Nat /\ t * d < c
  <2>1. t \in Int /\ t + 1 <= T /\ t * d \in Nat  BY <1>2
  <2>2. t * d + d <= T * d  BY <1>2, <2>1, Products
  <2> QED BY <1>3, <1>4, <2>1, <2>2
<1>7. ASSUME c > 0 PROVE T > 0
  <2>1. CASE T = 0  BY <1>3, <1>4, <1>7, <2>1
  <2> QED BY <1>2, <2>1
<1> QED BY <1>2, <1>5, <1>6, <1>7

\* Numbers that never fall, from zero on: each one below the last lies on one step.
LEMMA Staircase ==
    ASSUME NEW K \in Nat, NEW S, S[1] = 0,
           \A i \in 1 .. K + 1 : S[i] \in Nat,
           \A i \in 1 .. K : S[i] <= S[i + 1]
    PROVE  /\ \A i, j \in 1 .. K + 1 : i <= j => S[i] <= S[j]
           /\ \A x \in 0 .. S[K + 1] - 1 : \E i \in 1 .. K : S[i] <= x /\ x < S[i + 1]
           /\ \A i, j \in 1 .. K : \A x \in Nat :
                  S[i] <= x /\ x < S[i + 1] /\ S[j] <= x /\ x < S[j + 1] => i = j
<1>1. ASSUME NEW i \in 1 .. K + 1
      PROVE  \A j \in 1 .. K + 1 : i <= j => S[i] <= S[j]
  <2> DEFINE P == {d \in Nat : i + d \in 1 .. K + 1 => S[i] <= S[i + d]}
  <2>1. 0 \in P
    <3>1. i + 0 = i /\ S[i] \in Nat  OBVIOUS
    <3> QED BY <3>1
  <2>2. ASSUME NEW d \in P \cap Nat PROVE d + 1 \in P
    <3>1. CASE i + (d + 1) \in 1 .. K + 1
      <4>1. i + d \in 1 .. K /\ (i + d) + 1 = i + (d + 1) /\ i + d \in 1 .. K + 1
        BY <3>1
      <4>2. S[i] <= S[i + d] /\ S[i + d] <= S[i + (d + 1)]
        BY <2>2, <4>1
      <4>3. S[i] \in Nat /\ S[i + d] \in Nat /\ S[i + (d + 1)] \in Nat
        BY <3>1, <4>1
      <4> QED BY <4>2, <4>3
    <3> QED BY <3>1
  <2>3. Nat \subseteq P
    <3> HIDE DEF P
    <3> QED BY <2>1, <2>2, NaturalInduction
  <2> SUFFICES ASSUME NEW j \in 1 .. K + 1, i <= j PROVE S[i] <= S[j]  OBVIOUS
  <2>4. j - i \in Nat /\ i + (j - i) = j  OBVIOUS
  <2>5. j - i \in P  BY <2>3, <2>4
  <2> QED BY <2>4, <2>5
<1>2. ASSUME NEW x \in 0 .. S[K + 1] - 1
      PROVE  \E i \in 1 .. K : S[i] <= x /\ x < S[i + 1]
  <2> DEFINE U == {i \in 1 .. K + 1 : x < S[i]}
  <2>0. S[K + 1] \in Nat /\ K + 1 \in 1 .. K + 1  OBVIOUS
  <2>1. U \in SUBSET Nat /\ K + 1 \in U  BY <2>0
  <2>2. PICK m \in U : \A i \in U : m <= i
    <3> HIDE DEF U
    <3>1. U # {}  BY <2>1
    <3> QED BY <2>1, <3>1, LeastNatural
  <2>3. m # 1  BY <2>0
  <2>4. m - 1 \in 1 .. K /\ (m - 1) + 1 = m /\ m - 1 \in 1 .. K + 1
    BY <2>3
  <2>5. ~(x < S[m - 1])  BY <2>2, <2>4
  <2>6. S[m - 1] \in Nat  BY <2>4
  <2> QED BY <2>0, <2>4, <2>5, <2>6
<1>3. ASSUME NEW i \in 1 .. K, NEW j \in 1 .. K, NEW x \in Nat, i < j,
             S[i] <= x, x < S[i + 1], S[j] <= x, x < S[j + 1]
      PROVE  FALSE
  <2>1. i + 1 <= j /\ i + 1 \in 1 .. K + 1 /\ j \in 1 .. K + 1
    BY <1>3
  <2>2. S[i + 1] <= S[j] /\ S[i + 1] \in Nat /\ S[j] \in Nat
    BY <1>1, <2>1
  <2> QED BY <1>3, <2>2
<1>4. ASSUME NEW i \in 1 .. K, NEW j \in 1 .. K, NEW x \in Nat,
             S[i] <= x, x < S[i + 1], S[j] <= x, x < S[j + 1]
      PROVE  i = j
  <2>1. i < j \/ j < i \/ i = j  OBVIOUS
  <2> QED BY <1>3, <1>4, <2>1
<1> QED BY <1>1, <1>2, <1>4

----------------------------------------------------------------------------
(* Outcomes *)

\* The number of openings of each child.
Widths(n) == [i \in DOMAIN Children[n] |-> Openings[Children[n][i]]]

\* The children's openings follow each other: each outcome is one opening of one child.
LEMMA OutcomeFacts ==
    ASSUME NEW n \in Nodes, NEW K, K = Len(Children[n])
    PROVE  /\ K \in Nat /\ DOMAIN Children[n] = 1 .. K
           /\ OutcomeStart(n, 1) = 0 /\ OutcomeStart(n, K + 1) = OutcomeCount(n)
           /\ OutcomeCount(n) \in Nat
           /\ \A i \in 1 .. K + 1 : OutcomeStart(n, i) \in Nat /\ OutcomeStart(n, i) <= OutcomeCount(n)
           /\ \A i \in 1 .. K :
                  /\ Children[n][i] \in Nodes /\ Openings[Children[n][i]] \in Nat \ {0}
                  /\ OutcomeStart(n, i + 1) = OutcomeStart(n, i) + Openings[Children[n][i]]
           /\ \A x \in 0 .. OutcomeCount(n) - 1 : \E i \in 1 .. K :
                  OutcomeStart(n, i) <= x /\ x < OutcomeStart(n, i + 1)
           /\ \A i, j \in 1 .. K : \A x \in Nat :
                  /\ OutcomeStart(n, i) <= x /\ x < OutcomeStart(n, i + 1)
                  /\ OutcomeStart(n, j) <= x /\ x < OutcomeStart(n, j + 1)
                  => i = j
           /\ CutGenerating(n) => K > 0 /\ OutcomeCount(n) > 0
<1>1. Children[n] \in Seq(Nodes)  BY GraphAssumption
<1>2. K \in Nat /\ DOMAIN Children[n] = 1 .. K /\ \A i \in 1 .. K : Children[n][i] \in Nodes
  BY <1>1
<1> DEFINE W == Widths(n)
<1>3. \A i \in 1 .. K : W[i] = Openings[Children[n][i]] /\ W[i] \in Nat \ {0}
  BY <1>2, OrderAssumption DEF Widths
<1>4. ASSUME NEW i \in 1 .. K + 1
      PROVE  OutcomeStart(n, i) = SumOver(W, 1 .. i - 1)
  <2> DEFINE V == [j \in 1 .. i - 1 |-> Openings[Children[n][j]]]
  <2>1. OutcomeStart(n, i) = SumOver(V, 1 .. i - 1)
    BY DEF OutcomeStart
  <2>2. IsFiniteSet(1 .. i - 1)  BY FS_Interval
  <2>3. \A j \in 1 .. i - 1 : V[j] = W[j] /\ V[j] \in Int  BY <1>3
  <2> HIDE DEF V, W
  <2> QED BY <2>1, <2>2, <2>3, SumSame
<1>5. OutcomeCount(n) = SumOver(W, 1 .. K)
  BY <1>2 DEF OutcomeCount, Widths
<1> HIDE DEF W
<1>6. ASSUME NEW i \in 1 .. K
      PROVE  /\ SumOver(W, 1 .. i) = SumOver(W, 1 .. i - 1) + W[i]
             /\ SumOver(W, 1 .. i - 1) \in Int
  <2> DEFINE t == i - 1
  <2>1. t \in Int /\ 1 <= t + 1 /\ t + 1 = i /\ \A y \in 1 .. t + 1 : W[y] \in Int
    BY <1>3
  <2> HIDE DEF t
  <2>2. SumOver(W, 1 .. t + 1) = SumOver(W, 1 .. t) + W[t + 1] /\ SumOver(W, 1 .. t) \in Int
    BY <2>1, PrefixSums
  <2> QED BY <2>1, <2>2 DEF t
<1> DEFINE S == [i \in 1 .. K + 1 |-> OutcomeStart(n, i)]
<1>7. S[1] = 0
  <2>1. 1 .. 1 - 1 = {} /\ 1 \in 1 .. K + 1  BY <1>2
  <2> QED BY <1>4, <2>1, EmptySum
<1>8. S[K + 1] = OutcomeCount(n)
  <2>1. K + 1 \in 1 .. K + 1 /\ (K + 1) - 1 = K  BY <1>2
  <2> QED BY <1>4, <1>5, <2>1
<1>9. ASSUME NEW i \in 1 .. K
      PROVE  S[i + 1] = S[i] + W[i]
  <2>1. i + 1 \in 1 .. K + 1 /\ i \in 1 .. K + 1 /\ (i + 1) - 1 = i
    BY <1>2
  <2> QED BY <1>4, <1>6, <2>1
<1>10. \A i \in 1 .. K + 1 : S[i] = OutcomeStart(n, i)  OBVIOUS
<1> HIDE DEF S
<1>11. \A i \in 1 .. K + 1 : S[i] \in Nat
  <2> DEFINE P == {k \in Nat : k + 1 \in 1 .. K + 1 => S[k + 1] \in Nat}
  <2>1. 0 \in P  BY <1>7
  <2>2. ASSUME NEW k \in P \cap Nat PROVE k + 1 \in P
    <3>1. CASE (k + 1) + 1 \in 1 .. K + 1
      <4>1. k + 1 \in 1 .. K /\ k + 1 \in 1 .. K + 1
        BY <1>2, <3>1
      <4> QED BY SMTT(20), <1>3, <1>9, <2>2, <4>1
    <3> QED BY <3>1
  <2>3. Nat \subseteq P
    <3> HIDE DEF P
    <3> QED BY <2>1, <2>2, NaturalInduction
  <2> SUFFICES ASSUME NEW i \in 1 .. K + 1 PROVE S[i] \in Nat  OBVIOUS
  <2>4. i - 1 \in Nat /\ (i - 1) + 1 = i  BY <1>2
  <2>5. i - 1 \in P  BY <2>3, <2>4
  <2> QED BY <2>4, <2>5
<1>12. \A i \in 1 .. K : S[i] <= S[i + 1]
  <2> SUFFICES ASSUME NEW i \in 1 .. K PROVE S[i] <= S[i + 1]  OBVIOUS
  <2>1. i \in 1 .. K + 1  BY <1>2
  <2> QED BY <1>3, <1>9, <1>11, <2>1
<1>13. /\ \A i, j \in 1 .. K + 1 : i <= j => S[i] <= S[j]
       /\ \A x \in 0 .. S[K + 1] - 1 : \E i \in 1 .. K : S[i] <= x /\ x < S[i + 1]
       /\ \A i, j \in 1 .. K : \A x \in Nat :
              S[i] <= x /\ x < S[i + 1] /\ S[j] <= x /\ x < S[j + 1] => i = j
  BY <1>2, <1>7, <1>11, <1>12, Staircase
<1>14. \A i \in 1 .. K : i \in 1 .. K + 1 /\ i + 1 \in 1 .. K + 1
  BY <1>2
<1>15. 1 \in 1 .. K + 1 /\ K + 1 \in 1 .. K + 1  BY <1>2
<1>16. \A i \in 1 .. K + 1 : OutcomeStart(n, i) <= OutcomeCount(n)
  BY <1>8, <1>10, <1>13, <1>15
<1>17. ASSUME CutGenerating(n)
       PROVE  K > 0 /\ OutcomeCount(n) > 0
  <2>1. K > 0
    BY <1>1, <1>2, <1>17 DEF CutGenerating
  <2>2. 1 \in 1 .. K /\ 2 \in 1 .. K + 1 /\ 1 + 1 = 2
    BY <1>2, <2>1
  <2>3. S[2] = 0 + W[1] /\ W[1] \in Nat \ {0}
    BY <1>3, <1>7, <1>9, <2>2
  <2>4. S[2] <= OutcomeCount(n) /\ OutcomeCount(n) \in Nat
    BY <1>8, <1>11, <1>13, <1>15, <2>2
  <2> QED BY <2>1, <2>3, <2>4
<1>a. OutcomeStart(n, 1) = 0 /\ OutcomeStart(n, K + 1) = OutcomeCount(n) /\ OutcomeCount(n) \in Nat
  BY <1>7, <1>8, <1>10, <1>11, <1>15
<1>b. \A i \in 1 .. K + 1 : OutcomeStart(n, i) \in Nat
  BY <1>10, <1>11
<1>c. \A i \in 1 .. K : /\ Children[n][i] \in Nodes /\ Openings[Children[n][i]] \in Nat \ {0}
                        /\ OutcomeStart(n, i + 1) = OutcomeStart(n, i) + Openings[Children[n][i]]
  BY <1>2, <1>3, <1>9, <1>10, <1>14
<1>d. \A x \in 0 .. OutcomeCount(n) - 1 : \E i \in 1 .. K :
          OutcomeStart(n, i) <= x /\ x < OutcomeStart(n, i + 1)
  BY <1>8, <1>10, <1>13, <1>14
<1>e. \A i, j \in 1 .. K : \A x \in Nat :
          /\ OutcomeStart(n, i) <= x /\ x < OutcomeStart(n, i + 1)
          /\ OutcomeStart(n, j) <= x /\ x < OutcomeStart(n, j + 1)
          => i = j
  BY <1>10, <1>13, <1>14
<1> QED BY <1>2, <1>a, <1>b, <1>16, <1>c, <1>d, <1>e, <1>17

----------------------------------------------------------------------------
(* Units *)

\* The least of two numbers.
LEMMA MinPair ==
    ASSUME NEW a \in Int, NEW b \in Int
    PROVE  Min({a, b}) = IF a <= b THEN a ELSE b
BY DEF Min

\* The greatest of two numbers.
LEMMA MaxPair ==
    ASSUME NEW a \in Int, NEW b \in Int
    PROVE  Max({a, b}) = IF a >= b THEN a ELSE b
BY DEF Max

\* A listing misses nothing.
LEMMA ListingOnto ==
    ASSUME NEW k \in Nat, NEW o, Listing(o, k)
    PROVE  \A x \in 0 .. k - 1 : \E j \in 1 .. k : o[j] = x
<1> DEFINE S == 1 .. k
           T == 0 .. k - 1
<1>1. IsFiniteSet(T) /\ Cardinality(S) = k /\ Cardinality(T) = k
  <2>1. Cardinality(1 .. k) = IF 1 > k THEN 0 ELSE k - 1 + 1
    BY FS_Interval
  <2>2. IsFiniteSet(0 .. k - 1) /\ Cardinality(0 .. k - 1) = IF 0 > k - 1 THEN 0 ELSE k - 1 - 0 + 1
    BY FS_Interval
  <2> QED BY <2>1, <2>2
<1>2. o \in Injection(S, T)
  BY DEF Listing, Injection
<1> HIDE DEF S, T
<1>3. o \in Surjection(S, T)  BY <1>1, <1>2, FS_Injection
<1> QED BY <1>3 DEF Surjection, S, T

\* Opening blocks cover the outcomes.
LEMMA BlockFacts ==
    ASSUME NEW n \in Nodes, CutGenerating(n)
    PROVE  /\ BlockLen(n) \in Nat \ {0} /\ BlockCount(n) \in Nat
           /\ \A x \in 0 .. OutcomeCount(n) - 1 : x \div BlockLen(n) \in 0 .. BlockCount(n) - 1
<1>1. PICK oc \in Nat : oc = OutcomeCount(n) /\ oc > 0
  BY OutcomeFacts
<1> DEFINE b == IF BlockSize = 0 THEN (oc + 1) \div 2 ELSE BlockSize
<1>2. b \in Nat \ {0}  BY <1>1, LayoutAssumption
<1>3. BlockLen(n) = Min({oc, b})
  BY <1>1 DEF BlockLen
<1> HIDE DEF b
<1>4. BlockLen(n) \in Nat \ {0}  BY <1>1, <1>2, <1>3, MinPair
<1>5. BlockCount(n) = (oc + BlockLen(n) - 1) \div BlockLen(n)
  BY <1>1 DEF BlockCount
<1> QED BY <1>1, <1>4, <1>5, Pieces

\* Tiles cover the routed positions.
LEMMA TileFacts ==
    ASSUME NEW lay \in Layouts, NEW num \in Nat
    PROVE  /\ lay.points \in Nat \ {0} /\ lay.kind \in {"byNode", "byScenario"}
           /\ Tiles(lay, num) \in Nat
           /\ \A x \in 0 .. num - 1 : x \div lay.points \in 0 .. Tiles(lay, num) - 1
           /\ \A t \in 0 .. Tiles(lay, num) - 1 : t * lay.points \in Nat /\ t * lay.points < num
<1>1. lay.points \in Nat \ {0} /\ lay.kind \in {"byNode", "byScenario"}
  BY LayoutAssumption
<1>2. Tiles(lay, num) = (num + lay.points - 1) \div lay.points
  BY DEF Tiles
<1> QED BY <1>1, <1>2, Pieces

\* The places of the routed positions.
LEMMA PlaceFacts ==
    ASSUME NEW lay \in Layouts, NEW num \in 0 .. TotalPasses
    PROVE  Listing(PlaceOrder(lay, num), num)
<1>1. CASE lay.points > 1
  BY <1>1, OrderAssumption DEF PlaceOrder
<1>2. CASE ~(lay.points > 1)
  <2>1. PlaceOrder(lay, num) = [k \in 1 .. num |-> k - 1] /\ num \in Nat
    BY <1>2, LayoutAssumption DEF PlaceOrder
  <2> QED BY <2>1 DEF Listing, IsInjective
<1> QED BY <1>1, <1>2

\* Unit u of a tiling: tile u % tiles, opening block u \div tiles in claim order.
LEMMA UnitFacts ==
    ASSUME NEW n \in Nodes, CutGenerating(n), NEW lay \in Layouts, NEW num \in Nat,
           lay.kind = "byNode", NEW u \in 0 .. UnitCount(lay, n, num) - 1
    PROVE  /\ Tiles(lay, num) \in Nat \ {0}
           /\ u % Tiles(lay, num) \in 0 .. Tiles(lay, num) - 1
           /\ u \div Tiles(lay, num) \in 0 .. BlockCount(n) - 1
           /\ u = (u \div Tiles(lay, num)) * Tiles(lay, num) + (u % Tiles(lay, num))
<1>1. PICK t \in Nat, b \in Nat : t = Tiles(lay, num) /\ b = BlockCount(n)
  BY BlockFacts, TileFacts
<1>2. UnitCount(lay, n, num) = t * b /\ t * b \in Nat
  BY <1>1 DEF UnitCount
<1>3. u \in Nat /\ u < t * b  BY <1>2
<1>4. t # 0
  <2>1. t = 0 => t * b = 0  OBVIOUS
  <2> QED BY <1>3, <2>1
<1>5. u \div t \in Nat /\ u % t \in 0 .. t - 1 /\ u = (u \div t) * t + (u % t)
  BY <1>3, <1>4, Division
<1> DEFINE q == u \div t
           m == u % t
<1> HIDE DEF q, m
<1>6. q < b
  <2>1. CASE b <= q
    <3>1. b * t <= q * t /\ b * t = t * b /\ q * t \in Nat
      BY <1>5, <2>1, Products DEF q
    <3> QED BY <1>3, <1>5, <3>1 DEF q, m
  <2> QED BY <1>5, <2>1 DEF q
<1> QED BY <1>1, <1>4, <1>5, <1>6 DEF q

\* A by-node unit taken apart: its first place, its number of places, its opening block, the
\* openings of child i in it; and the turning of the points from opening to opening.
Low(lay, num, u) == (u % Tiles(lay, num)) * lay.points
Width(lay, num, u) == Min({lay.points, num - Low(lay, num, u)})
Block(lay, num, blocks, u) == blocks[(u \div Tiles(lay, num)) + 1]
FirstOpening(lay, n, num, blocks, u, i) ==
    Max({OutcomeStart(n, i), Block(lay, num, blocks, u) * BlockLen(n)})
LastOpening(lay, n, num, blocks, u, i) ==
    Min({OutcomeStart(n, i) + Openings[Children[n][i]], (Block(lay, num, blocks, u) + 1) * BlockLen(n)})
Turned(step, turn, width) == IF step % 2 = 0 THEN turn ELSE width - 1 - turn

\* The trial point at a place and the outcome that is opening g of child i.
CellAt(lay, n, num, i, place, g) ==
    <<PlaceOrder(lay, num)[place + 1],
      OutcomeStart(n, i) + SolveOrder[Children[n][i]][g - OutcomeStart(n, i) + 1]>>

\* Where the solves of a run lie.
LEMMA RunShape ==
    ASSUME NEW lay, lay.kind = "byNode", NEW n, NEW num, NEW blocks, NEW u, NEW i,
           NEW first, first = FirstOpening(lay, n, num, blocks, u, i),
           NEW last, last = LastOpening(lay, n, num, blocks, u, i),
           NEW width, width = Width(lay, num, u), NEW low, low = Low(lay, num, u)
    PROVE  Run(lay, n, num, blocks, u, i) =
             [k \in 1 .. Max({0, last - first}) * width |->
                <<PlaceOrder(lay, num)[low + Turned((k - 1) \div width, (k - 1) % width, width) + 1],
                  OutcomeStart(n, i)
                    + SolveOrder[Children[n][i]][first - OutcomeStart(n, i) + ((k - 1) \div width) + 1]>>]
<1>1. lay.kind # "byScenario"  OBVIOUS
<1> QED BY <1>1, Zenon DEF Run, FirstOpening, LastOpening, Width, Low, Block, Turned

\* Turning twice is no turn.
LEMMA TurnedTwice ==
    ASSUME NEW step \in Nat, NEW width \in Nat \ {0}, NEW turn \in 0 .. width - 1
    PROVE  /\ Turned(step, turn, width) \in 0 .. width - 1
           /\ Turned(step, Turned(step, turn, width), width) = turn
<1>1. CASE step % 2 = 0
  BY <1>1 DEF Turned
<1>2. CASE step % 2 # 0
  BY <1>2 DEF Turned
<1> QED BY <1>1, <1>2

\* The geometry of a by-node unit.
LEMMA UnitGeometry ==
    ASSUME NEW n \in Nodes, CutGenerating(n), NEW lay \in Layouts, NEW num \in 0 .. TotalPasses,
           lay.kind = "byNode", NEW blocks, Listing(blocks, BlockCount(n)),
           NEW u \in 0 .. UnitCount(lay, n, num) - 1, NEW i \in DOMAIN Children[n]
    PROVE  /\ Low(lay, num, u) \in Nat /\ Width(lay, num, u) \in Nat \ {0}
           /\ Width(lay, num, u) <= lay.points /\ Low(lay, num, u) + Width(lay, num, u) <= num
           /\ Low(lay, num, u) + Width(lay, num, u) = num \/ Width(lay, num, u) = lay.points
           /\ Block(lay, num, blocks, u) \in 0 .. BlockCount(n) - 1
           /\ FirstOpening(lay, n, num, blocks, u, i) \in Nat /\ LastOpening(lay, n, num, blocks, u, i) \in Nat
           /\ \A g \in Nat :
                (g >= FirstOpening(lay, n, num, blocks, u, i) /\ g < LastOpening(lay, n, num, blocks, u, i)) <=>
                    /\ OutcomeStart(n, i) <= g /\ g < OutcomeStart(n, i + 1)
                    /\ g \div BlockLen(n) = Block(lay, num, blocks, u)
<1>n. num \in Nat /\ num <= TotalPasses
  BY LayoutAssumption
<1>1. PICK t \in Nat \ {0}, p \in Nat \ {0} :
          /\ t = Tiles(lay, num) /\ p = lay.points
          /\ \A x \in 0 .. t - 1 : x * p \in Nat /\ x * p < num
  BY <1>n, TileFacts, UnitFacts
<1>2. u % t \in 0 .. t - 1 /\ u \div t \in 0 .. BlockCount(n) - 1
  BY <1>n, <1>1, UnitFacts
<1> DEFINE low == (u % t) * p
<1>3. low \in Nat /\ low < num /\ Low(lay, num, u) = low
  BY <1>1, <1>2 DEF Low
<1> HIDE DEF low
<1>4. Width(lay, num, u) = Min({p, num - low})
  BY <1>1, <1>3 DEF Width
<1>5. /\ Width(lay, num, u) \in Nat \ {0}
      /\ Width(lay, num, u) <= p /\ low + Width(lay, num, u) <= num
      /\ low + Width(lay, num, u) = num \/ Width(lay, num, u) = p
  BY <1>n, <1>1, <1>3, <1>4, MinPair
<1>6. BlockCount(n) \in Nat /\ BlockLen(n) \in Nat \ {0}
  BY BlockFacts
<1>7. Block(lay, num, blocks, u) \in 0 .. BlockCount(n) - 1
  <2>1. (u \div t) + 1 \in 1 .. BlockCount(n)  BY <1>2, <1>6
  <2> QED BY <1>1, <2>1 DEF Block, Listing
<1>8. PICK b \in Nat, len \in Nat \ {0} : b = Block(lay, num, blocks, u) /\ len = BlockLen(n)
  BY <1>6, <1>7
<1>9. PICK from \in Nat, to \in Nat :
          /\ from = OutcomeStart(n, i) /\ to = OutcomeStart(n, i + 1)
          /\ to = from + Openings[Children[n][i]]
  <2>1. PICK K \in Nat : K = Len(Children[n]) /\ DOMAIN Children[n] = 1 .. K
    BY ZenonT(60), OutcomeFacts
  <2>2. i \in 1 .. K /\ i \in 1 .. K + 1 /\ i + 1 \in 1 .. K + 1
    BY <2>1
  <2>3. /\ OutcomeStart(n, i) \in Nat /\ OutcomeStart(n, i + 1) \in Nat
        /\ OutcomeStart(n, i + 1) = OutcomeStart(n, i) + Openings[Children[n][i]]
    BY ZenonT(60), <2>1, <2>2, OutcomeFacts
  <2> QED BY <2>3, Zenon
<1>10. b * len \in Nat /\ (b + 1) * len \in Nat  OBVIOUS
<1>11. FirstOpening(lay, n, num, blocks, u, i) = Max({from, b * len})
  BY <1>8, <1>9 DEF FirstOpening
<1>12. LastOpening(lay, n, num, blocks, u, i) = Min({to, (b + 1) * len})
  BY <1>8, <1>9 DEF LastOpening
<1>13. FirstOpening(lay, n, num, blocks, u, i) = IF from >= b * len THEN from ELSE b * len
  BY <1>10, <1>11, MaxPair
<1>14. LastOpening(lay, n, num, blocks, u, i) = IF to <= (b + 1) * len THEN to ELSE (b + 1) * len
  BY <1>10, <1>12, MinPair
<1>15. ASSUME NEW g \in Nat
       PROVE  (b * len <= g /\ g < (b + 1) * len) <=> g \div len = b
  <2> DEFINE q == g \div len
             m == g % len
  <2>1. q \in Nat /\ m \in 0 .. len - 1 /\ g = q * len + m
    BY Division
  <2> HIDE DEF q, m
  <2>2. (b + 1) * len = b * len + len  OBVIOUS
  <2>3. CASE q = b
    BY <1>10, <2>1, <2>2, <2>3 DEF q
  <2>4. CASE q + 1 <= b
    <3>1. q * len + len <= b * len  BY <2>1, <2>4, Products
    <3> QED BY <1>10, <2>1, <2>4, <3>1 DEF q
  <2>5. CASE b + 1 <= q
    <3>1. b * len + len <= q * len  BY <2>1, <2>5, Products
    <3> QED BY <1>10, <2>1, <2>2, <2>5, <3>1 DEF q
  <2> QED BY <2>1, <2>3, <2>4, <2>5
<1>16. ASSUME NEW g \in Nat
       PROVE  (g >= FirstOpening(lay, n, num, blocks, u, i) /\ g < LastOpening(lay, n, num, blocks, u, i)) <=>
                  from <= g /\ g < to /\ g \div len = b
  <2> DEFINE x == b * len
             y == (b + 1) * len
  <2>1. x \in Nat /\ y \in Nat /\ ((x <= g /\ g < y) <=> g \div len = b)
    BY <1>10, <1>15
  <2>2. FirstOpening(lay, n, num, blocks, u, i) = IF from >= x THEN from ELSE x
    BY <1>13
  <2>3. LastOpening(lay, n, num, blocks, u, i) = IF to <= y THEN to ELSE y
    BY <1>14
  <2> HIDE DEF x, y
  <2> QED BY <2>1, <2>2, <2>3
<1>17. FirstOpening(lay, n, num, blocks, u, i) \in Nat /\ LastOpening(lay, n, num, blocks, u, i) \in Nat
  BY <1>10, <1>13, <1>14
<1> QED BY <1>1, <1>3, <1>5, <1>7, <1>8, <1>9, <1>16, <1>17

----------------------------------------------------------------------------
(* Claims *)

\* Types of a rank's counter, claims and phase.
ClaimTypes ==
    /\ pc \in [Ranks -> {"exchange", "sweep", "vote", "gather", "insert", "metadata",
                         "ok", "failed", "panicked"}]
    /\ cursor \in [Ranks -> Nat]
    /\ status \in [Ranks -> [Workers -> {"idle", "busy", "done", "failed"}]]
    /\ unit \in [Ranks -> [Workers -> Int]]
    /\ claimed \in [Ranks -> [Workers -> SUBSET Nat]]

\* Outside a region the counter is back at zero and nothing is claimed, so that the next
\* region starts afresh whatever its units are.
ClaimInv ==
    /\ ClaimTypes
    /\ ClaimedOnce
    /\ \A r \in Ranks : pc[r] # "sweep" =>
          cursor[r] = 0 /\ \A w \in Workers : claimed[r][w] = {}

\* No unit is claimed at first.
LEMMA InitClaims == Init => ClaimInv
<1> SUFFICES ASSUME Init PROVE ClaimInv  OBVIOUS
<1>1. ClaimTypes
  BY DEF Init, ClaimTypes
<1>2. \A r \in Ranks : pc[r] # "sweep"
  BY DEF Init
<1>3. \A r \in Ranks : cursor[r] = 0 /\ \A w \in Workers : claimed[r][w] = {}
  BY DEF Init
<1> QED BY <1>1, <1>2, <1>3 DEF ClaimInv, ClaimedOnce

\* A step that leaves the counters and the claims alone, makes no worker busy, and enters a
\* region only from outside with all workers idle, keeps the claims exact.
LEMMA QuietStep ==
    ASSUME ClaimInv, UNCHANGED <<cursor, claimed>>, ClaimTypes',
           \A r \in Ranks : pc'[r] = "sweep" /\ pc[r] = "sweep" =>
               /\ Units(r)' = Units(r)
               /\ \A w \in Workers : status'[r][w] = "busy" =>
                      status[r][w] = "busy" /\ unit'[r][w] = unit[r][w],
           \A r \in Ranks : pc'[r] = "sweep" /\ pc[r] # "sweep" =>
               \A w \in Workers : status'[r][w] # "busy",
           \A r \in Ranks : pc'[r] # "sweep" => pc[r] # "sweep"
    PROVE  ClaimInv'
<1>1. ASSUME NEW r \in Ranks, pc'[r] = "sweep"
      PROVE  /\ UNION {claimed'[r][w] : w \in Workers} = {u \in 0 .. cursor'[r] - 1 : u < Units(r)'}
             /\ \A v, w \in Workers : v # w => claimed'[r][v] \cap claimed'[r][w] = {}
             /\ \A w \in Workers : status'[r][w] = "busy" => unit'[r][w] \in claimed'[r][w]
  <2>1. CASE pc[r] = "sweep"
    BY <1>1, <2>1 DEF ClaimInv, ClaimedOnce
  <2>2. CASE pc[r] # "sweep"
    <3>1. cursor'[r] = 0 /\ \A w \in Workers : claimed'[r][w] = {}
      BY <2>2 DEF ClaimInv
    <3>2. UNION {claimed'[r][w] : w \in Workers} = {}  BY <3>1
    <3>3. {u \in 0 .. cursor'[r] - 1 : u < Units(r)'} = {}
      BY <3>1
    <3> QED BY <1>1, <2>2, <3>1, <3>2, <3>3
  <2> QED BY <2>1, <2>2
<1>2. ClaimedOnce'
  BY <1>1 DEF ClaimedOnce
<1>3. \A r \in Ranks : pc'[r] # "sweep" =>
          cursor'[r] = 0 /\ \A w \in Workers : claimed'[r][w] = {}
  BY DEF ClaimInv
<1> QED BY <1>2, <1>3 DEF ClaimInv

\* One entry of a table by rank and worker is replaced.
LEMMA EntryReplaced ==
    ASSUME NEW S, NEW f \in [Ranks -> [Workers -> S]], NEW r \in Ranks, NEW w \in Workers,
           NEW x \in S, NEW g, g = [f EXCEPT ![r][w] = x]
    PROVE  /\ g \in [Ranks -> [Workers -> S]]
           /\ g[r][w] = x
           /\ \A v \in Workers : v # w => g[r][v] = f[r][v]
           /\ \A q \in Ranks : q # r => g[q] = f[q]
    OBVIOUS

\* A claim below the bound hands out the next unit; past the bound it hands out none.
LEMMA ClaimStep ==
    ASSUME ClaimInv, NEW r \in Ranks, NEW w \in Workers, Claim(r, w)
    PROVE  ClaimInv'
<1>t. ClaimTypes
  BY DEF ClaimInv
<1>c. cursor[r] \in Nat /\ cursor[r] + 1 \in Nat /\ cursor[r] \in Int
  BY <1>t DEF ClaimTypes
<1>d. claimed[r][w] \cup {cursor[r]} \in SUBSET Nat
  BY <1>t, <1>c DEF ClaimTypes
<1>0. pc' = pc /\ cursor' = [cursor EXCEPT ![r] = cursor[r] + 1]
  BY DEF Claim
<1>a. ASSUME cursor[r] < Units(r)
      PROVE  /\ unit' = [unit EXCEPT ![r][w] = cursor[r]]
             /\ claimed' = [claimed EXCEPT ![r][w] = claimed[r][w] \cup {cursor[r]}]
             /\ status' = [status EXCEPT ![r][w] = "busy"]
  BY <1>a, Zenon DEF Claim
<1>b. ASSUME ~ (cursor[r] < Units(r))
      PROVE  /\ unit' = unit /\ claimed' = claimed
             /\ status' = [status EXCEPT ![r][w] = "done"]
  BY <1>b, Zenon DEF Claim
<1>e. ASSUME cursor[r] < Units(r)
      PROVE  /\ unit' \in [Ranks -> [Workers -> Int]]
             /\ claimed' \in [Ranks -> [Workers -> SUBSET Nat]]
             /\ status' \in [Ranks -> [Workers -> {"idle", "busy", "done", "failed"}]]
             /\ unit'[r][w] = cursor[r] /\ claimed'[r][w] = claimed[r][w] \cup {cursor[r]}
             /\ \A v \in Workers : v # w => /\ unit'[r][v] = unit[r][v]
                                            /\ claimed'[r][v] = claimed[r][v]
                                            /\ status'[r][v] = status[r][v]
             /\ \A q \in Ranks : q # r => /\ unit'[q] = unit[q] /\ claimed'[q] = claimed[q]
                                          /\ status'[q] = status[q]
  <2>1. unit \in [Ranks -> [Workers -> Int]] /\ cursor[r] \in Int
    BY <1>t, <1>c DEF ClaimTypes
  <2>2. claimed \in [Ranks -> [Workers -> SUBSET Nat]]
    BY <1>t DEF ClaimTypes
  <2>3. /\ status \in [Ranks -> [Workers -> {"idle", "busy", "done", "failed"}]]
        /\ "busy" \in {"idle", "busy", "done", "failed"}
    BY <1>t DEF ClaimTypes
  <2>4. /\ unit' \in [Ranks -> [Workers -> Int]] /\ unit'[r][w] = cursor[r]
        /\ \A v \in Workers : v # w => unit'[r][v] = unit[r][v]
        /\ \A q \in Ranks : q # r => unit'[q] = unit[q]
    <3>1. unit' = [unit EXCEPT ![r][w] = cursor[r]]
      BY <1>a, <1>e
    <3> QED BY <3>1, <2>1, EntryReplaced
  <2>5. /\ claimed' \in [Ranks -> [Workers -> SUBSET Nat]]
        /\ claimed'[r][w] = claimed[r][w] \cup {cursor[r]}
        /\ \A v \in Workers : v # w => claimed'[r][v] = claimed[r][v]
        /\ \A q \in Ranks : q # r => claimed'[q] = claimed[q]
    <3>1. claimed' = [claimed EXCEPT ![r][w] = claimed[r][w] \cup {cursor[r]}]
      BY <1>a, <1>e
    <3> QED BY <3>1, <1>d, <2>2, EntryReplaced
  <2>6. /\ status' \in [Ranks -> [Workers -> {"idle", "busy", "done", "failed"}]]
        /\ \A v \in Workers : v # w => status'[r][v] = status[r][v]
        /\ \A q \in Ranks : q # r => status'[q] = status[q]
    BY <1>a, <1>e, <2>3, EntryReplaced
  <2> QED BY <2>4, <2>5, <2>6
<1>f. ASSUME ~ (cursor[r] < Units(r))
      PROVE  /\ status' \in [Ranks -> [Workers -> {"idle", "busy", "done", "failed"}]]
             /\ status'[r][w] = "done"
             /\ \A v \in Workers : v # w => status'[r][v] = status[r][v]
             /\ \A q \in Ranks : q # r => status'[q] = status[q]
  <2>1. /\ status \in [Ranks -> [Workers -> {"idle", "busy", "done", "failed"}]]
        /\ "done" \in {"idle", "busy", "done", "failed"}
    BY <1>t DEF ClaimTypes
  <2> QED BY <1>b, <1>f, <2>1, EntryReplaced
<1>1. ClaimTypes'
  <2>1. /\ pc' \in [Ranks -> {"exchange", "sweep", "vote", "gather", "insert", "metadata",
                             "ok", "failed", "panicked"}]
        /\ cursor' \in [Ranks -> Nat]
    BY <1>0, <1>c, <1>t DEF ClaimTypes
  <2>2. CASE cursor[r] < Units(r)
    BY <1>e, <2>1, <2>2 DEF ClaimTypes
  <2>3. CASE ~ (cursor[r] < Units(r))
    BY <1>b, <1>f, <1>t, <2>1, <2>3 DEF ClaimTypes
  <2> QED BY <2>2, <2>3
<1>2. \A q \in Ranks : Units(q)' = Units(q)
  BY DEF Claim, Units, RoutedHere, Node, LevelNodes, layoutVars
<1>3. \A q \in Ranks \ {r} : /\ cursor'[q] = cursor[q] /\ claimed'[q] = claimed[q]
                             /\ status'[q] = status[q] /\ unit'[q] = unit[q]
  <2>1. \A q \in Ranks \ {r} : cursor'[q] = cursor[q]
    BY <1>0, <1>t DEF ClaimTypes
  <2> QED BY <1>b, <1>e, <1>f, <2>1
<1>4. cursor[r] \in Nat /\ cursor'[r] = cursor[r] + 1 /\ pc' = pc /\ pc[r] = "sweep"
  BY <1>0, <1>t, <1>c DEF Claim, ClaimTypes
<1>5. /\ UNION {claimed[r][v] : v \in Workers} = {u \in 0 .. cursor[r] - 1 : u < Units(r)}
      /\ \A v1, v2 \in Workers : v1 # v2 => claimed[r][v1] \cap claimed[r][v2] = {}
      /\ \A v \in Workers : status[r][v] = "busy" => unit[r][v] \in claimed[r][v]
  BY <1>4 DEF ClaimInv, ClaimedOnce
<1>6. /\ UNION {claimed'[r][v] : v \in Workers} = {u \in 0 .. cursor'[r] - 1 : u < Units(r)'}
      /\ \A v1, v2 \in Workers : v1 # v2 => claimed'[r][v1] \cap claimed'[r][v2] = {}
      /\ \A v \in Workers : status'[r][v] = "busy" => unit'[r][v] \in claimed'[r][v]
  <2>1. CASE cursor[r] < Units(r)
    <3>2. {u \in 0 .. cursor'[r] - 1 : u < Units(r)'} =
              {u \in 0 .. cursor[r] - 1 : u < Units(r)} \cup {cursor[r]}
      <4>1. 0 .. cursor'[r] - 1 = (0 .. cursor[r] - 1) \cup {cursor[r]}
        BY <1>4
      <4> QED BY <4>1, <1>2, <2>1
    <3>3. /\ claimed'[r][w] = claimed[r][w] \cup {cursor[r]} /\ unit'[r][w] = cursor[r]
          /\ \A v \in Workers : v # w => /\ claimed'[r][v] = claimed[r][v]
                                         /\ unit'[r][v] = unit[r][v]
                                         /\ status'[r][v] = status[r][v]
      BY <1>e, <2>1
    <3>4. UNION {claimed'[r][v] : v \in Workers} =
              (UNION {claimed[r][v] : v \in Workers}) \cup {cursor[r]}
      <4>1. ASSUME NEW x, NEW v \in Workers, x \in claimed'[r][v]
            PROVE  x \in (UNION {claimed[r][u] : u \in Workers}) \cup {cursor[r]}
        <5>1. x \in claimed[r][v] \/ x = cursor[r]
          BY <3>3, <4>1
        <5>2. CASE x \in claimed[r][v]  BY <5>2, Zenon
        <5> QED BY <5>1, <5>2
      <4>2. ASSUME NEW x, NEW v \in Workers, x \in claimed[r][v]
            PROVE  x \in UNION {claimed'[r][u] : u \in Workers}
        <5>1. CASE v = w  BY <3>3, <4>2, <5>1
        <5>2. CASE v # w  BY <3>3, <4>2, <5>2
        <5> QED BY <5>1, <5>2
      <4>3. cursor[r] \in UNION {claimed'[r][u] : u \in Workers}
        BY <3>3
      <4>4. UNION {claimed'[r][v] : v \in Workers} \subseteq
                (UNION {claimed[r][v] : v \in Workers}) \cup {cursor[r]}
        BY <4>1
      <4>5. UNION {claimed[r][v] : v \in Workers} \subseteq
                UNION {claimed'[r][v] : v \in Workers}
        BY <4>2
      <4> QED BY <4>3, <4>4, <4>5
    <3>5. \A v \in Workers : cursor[r] \notin claimed[r][v]
      <4>1. cursor[r] \notin 0 .. cursor[r] - 1  BY <1>4
      <4>2. cursor[r] \notin UNION {claimed[r][v] : v \in Workers}
        BY <4>1, <1>5
      <4> QED BY <4>2, Zenon
    <3>6. \A v \in Workers : status'[r][v] = "busy" => unit'[r][v] \in claimed'[r][v]
      BY <3>3, <1>5
    <3> QED BY <1>5, <3>2, <3>3, <3>4, <3>5, <3>6
  <2>2. CASE ~ (cursor[r] < Units(r))
    <3>1. /\ claimed' = claimed /\ unit' = unit /\ status'[r][w] = "done"
          /\ \A v \in Workers : v # w => status'[r][v] = status[r][v]
      BY <1>b, <1>f, <2>2
    <3>2. {u \in 0 .. cursor'[r] - 1 : u < Units(r)'} =
              {u \in 0 .. cursor[r] - 1 : u < Units(r)}
      <4>1. 0 .. cursor'[r] - 1 = (0 .. cursor[r] - 1) \cup {cursor[r]}
        BY <1>4
      <4> QED BY <4>1, <1>2, <2>2
    <3>3. \A v \in Workers : status'[r][v] = "busy" => status[r][v] = "busy"
      BY <3>1
    <3> QED BY <1>5, <3>1, <3>2, <3>3
  <2> QED BY <2>1, <2>2
<1>7. ClaimedOnce'
  <2>1. ASSUME NEW q \in Ranks \ {r}, pc'[q] = "sweep"
        PROVE  /\ UNION {claimed'[q][v] : v \in Workers} = {u \in 0 .. cursor'[q] - 1 : u < Units(q)'}
               /\ \A v1, v2 \in Workers : v1 # v2 => claimed'[q][v1] \cap claimed'[q][v2] = {}
               /\ \A v \in Workers : status'[q][v] = "busy" => unit'[q][v] \in claimed'[q][v]
    BY <1>2, <1>3, <1>4, <2>1 DEF ClaimInv, ClaimedOnce
  <2> QED BY <1>6, <2>1 DEF ClaimedOnce
<1>8. \A q \in Ranks : pc'[q] # "sweep" =>
          cursor'[q] = 0 /\ \A v \in Workers : claimed'[q][v] = {}
  BY <1>3, <1>4 DEF ClaimInv
<1> QED BY <1>1, <1>7, <1>8 DEF ClaimInv

\* The merge ends the rank's region and leaves the other ranks' regions alone.
LEMMA FinishStep ==
    ASSUME ClaimInv, NEW r \in Ranks, Finish(r)
    PROVE  ClaimInv'
<1>1. ClaimTypes'
  BY DEF ClaimInv, ClaimTypes, Finish
<1>2. \A q \in Ranks : Units(q)' = Units(q)
  BY DEF Finish, Units, RoutedHere, Node, LevelNodes, layoutVars
<1>3. \A q \in Ranks \ {r} : /\ cursor'[q] = cursor[q] /\ claimed'[q] = claimed[q]
                             /\ pc'[q] = pc[q]
  BY DEF Finish, ClaimInv, ClaimTypes
<1>4. pc'[r] = "vote" /\ cursor'[r] = 0 /\ \A w \in Workers : claimed'[r][w] = {}
  BY DEF Finish, ClaimInv, ClaimTypes
<1>5. status' = status /\ unit' = unit
  BY DEF Finish
<1>6. ClaimedOnce'
  BY <1>2, <1>3, <1>4, <1>5 DEF ClaimInv, ClaimedOnce
<1> QED BY <1>1, <1>3, <1>4, <1>6 DEF ClaimInv

\* Every step keeps the claims.
LEMMA NextClaims == ClaimInv /\ [Next]_vars => ClaimInv'
<1> SUFFICES ASSUME ClaimInv, [Next]_vars PROVE ClaimInv'  OBVIOUS
<1> USE DEF layoutVars, claimVars, workerVars, poolVars
<1>1. CASE ExchangeStates
  <2>1. ClaimTypes' /\ UNCHANGED <<cursor, claimed>>
    BY <1>1 DEF ClaimInv, ClaimTypes, ExchangeStates, StartNode
  <2>2. \A r \in Ranks : pc[r] # "sweep"
    BY <1>1 DEF ExchangeStates, AllAt
  <2>3. \A r \in Ranks : pc'[r] = "sweep" => \A w \in Workers : status'[r][w] # "busy"
    BY <1>1 DEF ExchangeStates, StartNode
  <2> QED BY <2>1, <2>2, <2>3, QuietStep
<1>2. CASE Reconcile
  <2>1. ClaimTypes' /\ UNCHANGED <<cursor, claimed>>
    BY <1>2 DEF ClaimInv, ClaimTypes, Reconcile, StartNode
  <2>2. \A r \in Ranks : pc[r] # "sweep"
    BY <1>2 DEF Reconcile, AllAt
  <2>3. \A r \in Ranks : pc'[r] = "sweep" => \A w \in Workers : status'[r][w] # "busy"
    BY <1>2 DEF Reconcile, StartNode
  <2> QED BY <2>1, <2>2, <2>3, QuietStep
<1>3. CASE Gather \/ SyncMetadata
  <2>1. ClaimTypes' /\ UNCHANGED <<cursor, claimed>>
    BY <1>3 DEF ClaimInv, ClaimTypes, Gather, SyncMetadata
  <2>2. \A r \in Ranks : pc[r] # "sweep" /\ pc'[r] # "sweep"
    BY <1>3 DEF Gather, SyncMetadata, AllAt
  <2> QED BY <2>1, <2>2, QuietStep
<1>4. ASSUME NEW r \in Ranks, InsertRemote(r) PROVE ClaimInv'
  <2>1. ClaimTypes' /\ UNCHANGED <<cursor, claimed, status, unit>>
    BY <1>4 DEF ClaimInv, ClaimTypes, InsertRemote
  <2>2. \A q \in Ranks : (pc'[q] = "sweep") = (pc[q] = "sweep") /\ Units(q)' = Units(q)
    BY <1>4 DEF InsertRemote, ClaimInv, ClaimTypes, Units, RoutedHere, Node, LevelNodes
  <2> QED BY <2>1, <2>2, QuietStep
<1>5. ASSUME NEW r \in Ranks, NEW w \in Workers, Solve(r, w) \/ FailSolve(r, w) PROVE ClaimInv'
  <2>0. /\ UNCHANGED <<cursor, claimed, pc, level, node, route, layout>>
        /\ \/ /\ status' = [status EXCEPT ![r][w] = "idle"]
              /\ unit' = [unit EXCEPT ![r][w] = -1]
           \/ /\ status' = [status EXCEPT ![r][w] = "failed"]
              /\ unit' = unit
    <3>1. CASE Solve(r, w)
      BY <3>1, Zenon DEF Solve
    <3>2. CASE FailSolve(r, w)
      BY <3>2 DEF FailSolve
    <3> QED BY <1>5, <3>1, <3>2
  <2>t. ClaimTypes
    BY DEF ClaimInv
  <2>1. /\ status \in [Ranks -> [Workers -> {"idle", "busy", "done", "failed"}]]
        /\ unit \in [Ranks -> [Workers -> Int]] /\ -1 \in Int
        /\ "idle" \in {"idle", "busy", "done", "failed"}
        /\ "failed" \in {"idle", "busy", "done", "failed"}
    BY <2>t DEF ClaimTypes
  <2>2. /\ status' \in [Ranks -> [Workers -> {"idle", "busy", "done", "failed"}]]
        /\ status'[r][w] \in {"idle", "failed"}
        /\ \A v \in Workers : v # w => status'[r][v] = status[r][v]
        /\ \A q \in Ranks : q # r => status'[q] = status[q]
    <3>1. CASE status' = [status EXCEPT ![r][w] = "idle"]
      BY <2>1, <3>1, EntryReplaced
    <3>2. CASE status' = [status EXCEPT ![r][w] = "failed"]
      BY <2>1, <3>2, EntryReplaced
    <3> QED BY <2>0, <3>1, <3>2
  <2>3. /\ unit' \in [Ranks -> [Workers -> Int]]
        /\ \A v \in Workers : v # w => unit'[r][v] = unit[r][v]
        /\ \A q \in Ranks : q # r => unit'[q] = unit[q]
    <3>1. CASE unit' = [unit EXCEPT ![r][w] = -1]
      BY <2>1, <3>1, EntryReplaced
    <3>2. CASE unit' = unit  BY <2>1, <3>2
    <3> QED BY <2>0, <3>1, <3>2
  <2>4. ClaimTypes'
    BY <2>0, <2>2, <2>3, <2>t DEF ClaimTypes
  <2>5. \A q \in Ranks : Units(q)' = Units(q)
    BY <2>0 DEF Units, RoutedHere, Node, LevelNodes
  <2>6. \A q \in Ranks, v \in Workers : status'[q][v] = "busy" =>
            status[q][v] = "busy" /\ unit'[q][v] = unit[q][v]
    BY <2>2, <2>3
  <2> QED BY <2>0, <2>4, <2>5, <2>6, QuietStep
<1>6. CASE UNCHANGED vars
  BY <1>6 DEF vars, ClaimInv, ClaimTypes, ClaimedOnce, Units, RoutedHere, Node, LevelNodes
<1> QED BY <1>1, <1>2, <1>3, <1>4, <1>5, <1>6, ClaimStep, FinishStep DEF Next, Terminated

\* In a parallel region no unit is claimed twice and none the counter has passed is lost, for
\* any number of ranks, workers and units (ClaimCursor::claim).
THEOREM UnitsClaimedOnce == Spec => []ClaimedOnce
<1>1. ClaimInv => ClaimedOnce
  BY DEF ClaimInv
<1> QED BY <1>1, InitClaims, NextClaims, PTL DEF Spec

----------------------------------------------------------------------------
(* Types *)

\* The ranks are together: in the same collective, or between the same two.
Together ==
    \/ \A r \in Ranks : pc[r] = "exchange"
    \/ \A r \in Ranks : pc[r] \in {"sweep", "vote"}
    \/ \A r \in Ranks : pc[r] = "gather"
    \/ \A r \in Ranks : pc[r] \in {"insert", "metadata"}
    \/ \A r \in Ranks : pc[r] = "ok"
    \/ \A r \in Ranks : pc[r] = "failed"
    \/ \A r \in Ranks : pc[r] = "panicked"

\* The level is past the last one exactly when the sweep has ended well.
Placed ==
    /\ level \in Nat /\ 1 <= level
    /\ \A r \in Ranks : pc[r] = "ok" => level = Len(Levels) + 1
    /\ \A r \in Ranks : pc[r] # "ok" => level <= Len(Levels)
    /\ \A r \in Ranks : pc[r] \notin {"exchange", "ok"} => node \in DOMAIN Levels[level]

SweepTypes ==
    /\ Together /\ Placed
    /\ failures \in 0 .. MaxFailures
    /\ unit \in [Ranks -> [Workers -> Nat \cup {-1}]]
    /\ solved \in [Ranks -> BOOLEAN]

TypesInv == ClaimInv /\ SweepTypes

\* There is a rank.
LEMMA RankZero == 0 \in Ranks /\ Ranks # {} /\ IsFiniteSet(Ranks)
<1>1. 0 \in 0 .. NRanks - 1  BY LayoutAssumption
<1>2. IsFiniteSet(0 .. NRanks - 1)
  BY LayoutAssumption, FS_Interval
<1> QED BY <1>1, <1>2 DEF Ranks

\* The types hold at first.
LEMMA InitTypes == Init => SweepTypes
<1> SUFFICES ASSUME Init PROVE SweepTypes  OBVIOUS
<1>1. \A r \in Ranks : pc[r] = "exchange"
  BY DEF Init
<1>2. Together
  BY <1>1 DEF Together
<1>3. Placed
  BY <1>1, StagesDescend DEF Init, Placed
<1> QED BY <1>2, <1>3, FailureAssumption DEF Init, SweepTypes

\* Where all ranks are together.
LEMMA WholeStep ==
    ASSUME Placed, Together, ExchangeStates \/ Reconcile \/ Gather \/ SyncMetadata
    PROVE  Placed' /\ Together'
<1>0. 0 \in Ranks  BY RankZero
<1>1. CASE ExchangeStates
  <2>1. /\ level' = level /\ node' = 1
        /\ \/ pc' = [r \in Ranks |-> "sweep"]
           \/ pc' = [r \in Ranks |-> "failed"]
    BY <1>1 DEF ExchangeStates
  <2>2. level \in 1 .. Len(Levels)
    BY <1>0, <1>1, StagesDescend DEF ExchangeStates, AllAt, Placed
  <2>3. 1 \in DOMAIN Levels[level]  BY <2>2, LevelFacts
  <2> QED BY <2>1, <2>2, <2>3 DEF Placed, Together
<1>2. CASE Reconcile
  <2>1. level \in 1 .. Len(Levels) /\ node \in DOMAIN Levels[level]
    BY <1>0, <1>2, StagesDescend DEF Reconcile, AllAt, Placed
  <2>2. /\ level' = level
        /\ \/ pc' = [r \in Ranks |-> "failed"] /\ node' = node
           \/ /\ node < Len(LevelNodes) /\ node' = node + 1
              /\ pc' = [r \in Ranks |-> "sweep"]
           \/ pc' = [r \in Ranks |-> "gather"] /\ node' = node
    BY <1>2 DEF Reconcile
  <2>3. node' \in DOMAIN Levels[level]
    <3>1. PICK k \in Nat : k = Len(Levels[level]) /\ DOMAIN Levels[level] = 1 .. k
      BY <2>1, LevelFacts
    <3> QED BY <2>1, <2>2, <3>1 DEF LevelNodes
  <2> QED BY <2>1, <2>2, <2>3 DEF Placed, Together
<1>3. CASE Gather
  <2>1. level' = level /\ node' = node /\ pc' = [r \in Ranks |-> "insert"]
    BY <1>3 DEF Gather
  <2>2. \A r \in Ranks : pc[r] = "gather"
    BY <1>3 DEF Gather, AllAt
  <2> QED BY <1>0, <2>1, <2>2 DEF Placed, Together
<1>4. CASE SyncMetadata
  <2>1. /\ node' = node
        /\ \/ level' = level + 1 /\ pc' = [r \in Ranks |-> IF level = Len(Levels) THEN "ok" ELSE "exchange"]
           \/ level' = level /\ pc' = [r \in Ranks |-> "panicked"]
    BY <1>4 DEF SyncMetadata
  <2>2. level \in 1 .. Len(Levels) /\ node \in DOMAIN Levels[level]
    <3>1. pc[0] = "metadata"
      BY <1>0, <1>4 DEF SyncMetadata, AllAt
    <3>2. level \in Nat /\ 1 <= level /\ level <= Len(Levels) /\ node \in DOMAIN Levels[level]
      BY <1>0, <3>1 DEF Placed
    <3> QED BY <3>2, StagesDescend
  <2> DEFINE n == Len(Levels)
  <2>n. n \in Nat /\ level \in 1 .. n
    BY <2>2, StagesDescend
  <2> HIDE DEF n
  <2>3. CASE level' = level + 1 /\ level = n
    <3>1. \A r \in Ranks : pc'[r] = "ok"
      BY <2>1, <2>n, <2>3 DEF n
    <3> QED BY <2>n, <2>3, <3>1 DEF Placed, Together, n
  <2>4. CASE level' = level + 1 /\ level # n
    <3>1. \A r \in Ranks : pc'[r] = "exchange"
      BY <2>1, <2>n, <2>4 DEF n
    <3>2. level' \in Nat /\ 1 <= level' /\ level' <= n
      BY <2>n, <2>4
    <3> QED BY <3>1, <3>2 DEF Placed, Together, n
  <2>5. CASE level' = level
    BY <2>1, <2>2, <2>5 DEF Placed, Together
  <2> QED BY <2>1, <2>3, <2>4, <2>5
<1> QED BY <1>1, <1>2, <1>3, <1>4

\* Where one rank moves on alone.
LEMMA AloneStep ==
    ASSUME Placed, Together, NEW r \in Ranks, NEW from, NEW to, pc[r] = from,
           pc' = [pc EXCEPT ![r] = to], DOMAIN pc = Ranks,
           <<from, to>> \in {<<"sweep", "vote">>, <<"insert", "metadata">>},
           UNCHANGED <<level, node>>
    PROVE  Placed' /\ Together'
<1>1. \A q \in Ranks : pc'[q] = IF q = r THEN to ELSE pc[q]  OBVIOUS
<1>2. Placed'
  BY <1>1 DEF Placed
<1>3. Together'
  BY <1>1 DEF Together
<1> QED BY <1>2, <1>3

\* Every step keeps the types.
LEMMA NextTypes == TypesInv /\ [Next]_vars => SweepTypes'
<1> SUFFICES ASSUME TypesInv, [Next]_vars PROVE SweepTypes'  OBVIOUS
<1> USE DEF layoutVars, claimVars, workerVars, poolVars
<1>0. /\ DOMAIN pc = Ranks /\ Placed /\ Together
      /\ cursor \in [Ranks -> Nat] /\ claimed \in [Ranks -> [Workers -> SUBSET Nat]]
  <2>1. ClaimTypes /\ Placed /\ Together
    BY DEF TypesInv, ClaimInv, SweepTypes
  <2> QED BY <2>1 DEF ClaimTypes
<1>p. Placed' /\ Together'
  <2>1. CASE ExchangeStates \/ Reconcile \/ Gather \/ SyncMetadata
    BY <1>0, <2>1, WholeStep
  <2>2. ASSUME NEW r \in Ranks, Finish(r) PROVE Placed' /\ Together'
    <3>1. pc[r] = "sweep" /\ pc' = [pc EXCEPT ![r] = "vote"] /\ UNCHANGED <<level, node>>
      BY <2>2 DEF Finish
    <3> QED BY <1>0, <3>1, AloneStep
  <2>3. ASSUME NEW r \in Ranks, InsertRemote(r) PROVE Placed' /\ Together'
    <3>1. pc[r] = "insert" /\ pc' = [pc EXCEPT ![r] = "metadata"] /\ UNCHANGED <<level, node>>
      BY <2>3 DEF InsertRemote
    <3> QED BY <1>0, <3>1, AloneStep
  <2>4. CASE UNCHANGED <<pc, level, node>>
    BY <1>0, <2>4 DEF Placed, Together
  <2>5. ASSUME NEW r \in Ranks, NEW w \in Workers, Claim(r, w) \/ Solve(r, w) \/ FailSolve(r, w)
        PROVE  UNCHANGED <<pc, level, node>>
    BY <2>5, Zenon DEF Claim, Solve, FailSolve
  <2> QED BY <2>1, <2>2, <2>3, <2>4, <2>5 DEF Next, Terminated, vars
<1>f. failures' \in 0 .. MaxFailures
  <2>1. ASSUME NEW r \in Ranks, NEW w \in Workers, FailSolve(r, w)
        PROVE  failures' \in 0 .. MaxFailures
    BY <2>1, FailureAssumption DEF FailSolve, TypesInv, SweepTypes
  <2>2. CASE failures' = failures
    BY <2>2 DEF TypesInv, SweepTypes
  <2>3. ASSUME NEW r \in Ranks, NEW w \in Workers, Claim(r, w) \/ Solve(r, w)
        PROVE  failures' = failures
    BY <2>3, Zenon DEF Claim, Solve
  <2>4. ASSUME ExchangeStates \/ Reconcile \/ Gather \/ SyncMetadata PROVE failures' = failures
    BY <2>4, Zenon DEF ExchangeStates, Reconcile, Gather, SyncMetadata
  <2>5. ASSUME NEW r \in Ranks, Finish(r) \/ InsertRemote(r) PROVE failures' = failures
    BY <2>5, Zenon DEF Finish, InsertRemote
  <2> QED BY <2>1, <2>2, <2>3, <2>4, <2>5 DEF Next, Terminated, vars
<1>u. unit' \in [Ranks -> [Workers -> Nat \cup {-1}]]
  <2>0. unit \in [Ranks -> [Workers -> Nat \cup {-1}]]
    BY DEF TypesInv, SweepTypes
  <2>1. ASSUME NEW r \in Ranks, NEW w \in Workers, Claim(r, w)
        PROVE  unit' \in [Ranks -> [Workers -> Nat \cup {-1}]]
    <3>1. \/ unit' = [unit EXCEPT ![r][w] = cursor[r]]
          \/ unit' = unit
      BY <2>1, Zenon DEF Claim
    <3>2. cursor[r] \in Nat \cup {-1}  BY <1>0
    <3> QED BY <2>0, <3>1, <3>2, EntryReplaced
  <2>2. ASSUME NEW r \in Ranks, NEW w \in Workers, Solve(r, w)
        PROVE  unit' \in [Ranks -> [Workers -> Nat \cup {-1}]]
    <3>1. unit' = [unit EXCEPT ![r][w] = -1]
      BY <2>2, Zenon DEF Solve
    <3>2. -1 \in Nat \cup {-1}  OBVIOUS
    <3> QED BY <2>0, <3>1, <3>2, EntryReplaced
  <2>3. ASSUME NEW r \in Ranks, NEW w \in Workers, FailSolve(r, w) PROVE unit' = unit
    BY <2>3, Zenon DEF FailSolve
  <2>4. ASSUME ExchangeStates \/ Reconcile \/ Gather \/ SyncMetadata PROVE unit' = unit
    BY <2>4, Zenon DEF ExchangeStates, Reconcile, Gather, SyncMetadata, StartNode
  <2>5. ASSUME NEW r \in Ranks, Finish(r) \/ InsertRemote(r) PROVE unit' = unit
    BY <2>5, Zenon DEF Finish, InsertRemote
  <2> QED BY <2>0, <2>1, <2>2, <2>3, <2>4, <2>5 DEF Next, Terminated, vars
<1>s. solved' \in [Ranks -> BOOLEAN]
  <2>0. solved \in [Ranks -> BOOLEAN]
    BY DEF TypesInv, SweepTypes
  <2>1. ASSUME NEW r \in Ranks, Finish(r) PROVE solved' \in [Ranks -> BOOLEAN]
    <3>1. PICK b \in BOOLEAN : b = (\A w \in Workers : status[r][w] = "done")  OBVIOUS
    <3>2. solved' = [solved EXCEPT ![r] = b]
      BY <2>1, <3>1, Zenon DEF Finish
    <3> QED BY <2>0, <3>2
  <2>2. ASSUME NEW r \in Ranks, NEW w \in Workers, Claim(r, w) \/ Solve(r, w) \/ FailSolve(r, w)
        PROVE  solved' = solved
    BY <2>2, Zenon DEF Claim, Solve, FailSolve
  <2>4. ASSUME ExchangeStates \/ Reconcile \/ Gather \/ SyncMetadata PROVE solved' = solved
    BY <2>4, Zenon DEF ExchangeStates, Reconcile, Gather, SyncMetadata
  <2>5. ASSUME NEW r \in Ranks, InsertRemote(r) PROVE solved' = solved
    BY <2>5, Zenon DEF InsertRemote
  <2> QED BY <2>0, <2>1, <2>2, <2>4, <2>5 DEF Next, Terminated, vars
<1> QED BY <1>p, <1>f, <1>u, <1>s DEF SweepTypes

\* Every variable keeps its type, and the sweep stands at a node of its level whenever it is
\* not at a level's first exchange: the position is reset there and moves up within the level
\* (run_one_backward_level).
THEOREM SweepTypeCorrect == Spec => []TypeOK
<1>1. Init => TypesInv
  BY InitClaims, InitTypes DEF TypesInv
<1>2. TypesInv /\ [Next]_vars => TypesInv'
  BY NextClaims, NextTypes DEF TypesInv
<1>3. TypesInv => TypeOK
  <2> SUFFICES ASSUME TypesInv PROVE TypeOK  OBVIOUS
  <2>1. level \in 1 .. Len(Levels) + 1
    <3>1. PICK n \in Nat : n = Len(Levels)  BY StagesDescend
    <3>2. level \in Nat /\ 1 <= level /\ (level = n + 1 \/ level <= n)
      BY <3>1, RankZero DEF TypesInv, SweepTypes, Placed
    <3> QED BY <3>1, <3>2
  <2> QED BY <2>1 DEF TypesInv, ClaimInv, ClaimTypes, SweepTypes, Placed, TypeOK, LevelNodes
<1> QED BY <1>1, <1>2, <1>3, PTL DEF Spec

----------------------------------------------------------------------------
(* The passes of the ranks *)

\* A sum over 0 .. k from the one over 0 .. k - 1.
LEMMA PrefixStep ==
    ASSUME NEW k \in Nat, NEW f, NEW g, \A q \in 0 .. k : f[q] \in Int,
           \A q \in 0 .. k - 1 : g[q] = f[q]
    PROVE  /\ SumOver(f, 0 .. k) = SumOver(g, 0 .. k - 1) + f[k]
           /\ SumOver(g, 0 .. k - 1) \in Int
<1> DEFINE t == k - 1
<1>1. t \in Int /\ 0 <= t + 1 /\ t + 1 = k /\ \A y \in 0 .. t + 1 : f[y] \in Int  OBVIOUS
<1>2. IsFiniteSet(0 .. t) /\ \A q \in 0 .. t : f[q] = g[q] /\ f[q] \in Int
  BY FS_Interval
<1> HIDE DEF t
<1>3. SumOver(f, 0 .. t + 1) = SumOver(f, 0 .. t) + f[t + 1] /\ SumOver(f, 0 .. t) \in Int
  BY <1>1, PrefixSums
<1>4. SumOver(f, 0 .. t) = SumOver(g, 0 .. t)  BY <1>2, SumSame
<1> QED BY <1>1, <1>3, <1>4 DEF t

\* Shares and their first passes.
LEMMA PassSteps ==
    /\ FirstPass(0) = 0
    /\ \A r \in Nat : /\ PassCount(r) \in Nat /\ FirstPass(r) \in Nat
                      /\ FirstPass(r + 1) = FirstPass(r) + PassCount(r)
                      /\ PassCount(r) <= TotalPasses \div NRanks + 1
<1>1. NRanks \in Nat \ {0} /\ TotalPasses \in Nat
  BY LayoutAssumption
<1>2. PICK lean \in Nat, fat \in Nat : lean = TotalPasses \div NRanks /\ fat = TotalPasses % NRanks
  <2>1. TotalPasses \div NRanks \in Nat /\ TotalPasses % NRanks \in 0 .. NRanks - 1
    BY <1>1, Division
  <2> QED BY <1>1, <2>1
<1>3. \A r \in Nat : PassCount(r) \in Nat /\ PassCount(r) <= TotalPasses \div NRanks + 1
  BY <1>2 DEF PassCount
<1>4. FirstPass(0) = 0
  <2>1. 0 .. 0 - 1 = {}  OBVIOUS
  <2> QED BY <2>1, EmptySum DEF FirstPass
<1>5. ASSUME NEW r \in Nat
      PROVE  FirstPass(r + 1) = FirstPass(r) + PassCount(r) /\ FirstPass(r) \in Int
  <2> DEFINE f == [q \in 0 .. r |-> PassCount(q)]
             g == [q \in 0 .. r - 1 |-> PassCount(q)]
  <2>1. (r + 1) - 1 = r  OBVIOUS
  <2>2. FirstPass(r + 1) = SumOver(f, 0 .. r)
    BY <2>1 DEF FirstPass
  <2>3. FirstPass(r) = SumOver(g, 0 .. r - 1)
    BY DEF FirstPass
  <2>4. /\ \A q \in 0 .. r : f[q] \in Int
        /\ \A q \in 0 .. r - 1 : g[q] = f[q]
        /\ f[r] = PassCount(r)
    BY <1>3
  <2> HIDE DEF f, g
  <2>5. SumOver(f, 0 .. r) = SumOver(g, 0 .. r - 1) + f[r] /\ SumOver(g, 0 .. r - 1) \in Int
    BY <2>4, PrefixStep
  <2> QED BY <2>2, <2>3, <2>4, <2>5
<1>6. \A r \in Nat : FirstPass(r) \in Nat
  <2> DEFINE P == {r \in Nat : FirstPass(r) \in Nat}
  <2>1. 0 \in P  BY <1>4
  <2>2. ASSUME NEW r \in P \cap Nat PROVE r + 1 \in P
    BY <1>3, <1>5
  <2> HIDE DEF P
  <2>3. Nat \subseteq P  BY <2>1, <2>2, NaturalInduction
  <2> QED BY <2>3 DEF P
<1> QED BY <1>3, <1>4, <1>5, <1>6

\* All passes are someone's.
LEMMA PassTotal == FirstPass(NRanks) = TotalPasses
<1>1. NRanks \in Nat \ {0} /\ TotalPasses \in Nat
  BY LayoutAssumption
<1>2. PICK lean \in Nat, fat \in Nat :
          /\ lean = TotalPasses \div NRanks /\ fat = TotalPasses % NRanks
          /\ fat < NRanks /\ TotalPasses = lean * NRanks + fat
  <2>1. /\ TotalPasses \div NRanks \in Nat /\ TotalPasses % NRanks \in 0 .. NRanks - 1
        /\ TotalPasses = (TotalPasses \div NRanks) * NRanks + (TotalPasses % NRanks)
    BY <1>1, Division
  <2> QED BY <1>1, <2>1
<1> DEFINE P == {r \in Nat : FirstPass(r) = lean * r + (IF r < fat THEN r ELSE fat)}
<1>3. 0 \in P  BY SMTT(20), <1>2, PassSteps
<1>4. ASSUME NEW r \in P \cap Nat PROVE r + 1 \in P
  <2>1. FirstPass(r + 1) = FirstPass(r) + PassCount(r)
    BY PassSteps
  <2>2. PassCount(r) = lean + (IF r < fat THEN 1 ELSE 0)
    BY <1>2 DEF PassCount
  <2>3. lean * (r + 1) = lean * r + lean /\ lean * r \in Nat
    BY <1>2
  <2>4. FirstPass(r) = lean * r + (IF r < fat THEN r ELSE fat)
    BY <1>4
  <2>5. FirstPass(r + 1) = lean * (r + 1) + (IF r + 1 < fat THEN r + 1 ELSE fat)
    <3>1. PICK a \in Nat, b \in Nat : a = lean * r /\ b = lean * (r + 1) /\ b = a + lean
      BY <1>2, <2>3
    <3>2. r \in Nat  OBVIOUS
    <3>3. FirstPass(r) = a + (IF r < fat THEN r ELSE fat)
      BY <2>4, <3>1
    <3> HIDE DEF P
    <3>4. PICK f \in Nat, p \in Nat : /\ f = FirstPass(r) /\ p = PassCount(r)
                                      /\ FirstPass(r + 1) = f + p
      BY <2>1, PassSteps
    <3>5. f + p = b + (IF r + 1 < fat THEN r + 1 ELSE fat)
      <4>1. f = a + (IF r < fat THEN r ELSE fat) /\ p = lean + (IF r < fat THEN 1 ELSE 0)
        BY <2>2, <3>3, <3>4
      <4>2. lean \in Nat /\ fat \in Nat /\ b = a + lean  BY <3>1
      <4> QED BY ONLY <3>2, <4>1, <4>2, f \in Nat, p \in Nat, a \in Nat, b \in Nat
    <3> QED BY <3>1, <3>4, <3>5
  <2> QED BY <2>5
<1> HIDE DEF P
<1>5. Nat \subseteq P  BY <1>3, <1>4, NaturalInduction
<1>6. FirstPass(NRanks) = lean * NRanks + (IF NRanks < fat THEN NRanks ELSE fat)
  BY <1>1, <1>5 DEF P
<1> QED BY <1>1, <1>2, <1>6

\* The ranks' passes follow each other and are all passes.
LEMMA PassesPartition ==
    /\ \A r \in Ranks : r \in Nat /\ PassesOf(r) \subseteq 0 .. TotalPasses - 1
    /\ \A g \in 0 .. TotalPasses - 1 : \E r \in Ranks : g \in PassesOf(r)
    /\ \A q, r \in Ranks : PassesOf(q) \cap PassesOf(r) # {} => q = r
    /\ \A r \in Nat : \A g \in Nat : g \in PassesOf(r) <=> FirstPass(r) <= g /\ g < FirstPass(r + 1)
<1>1. NRanks \in Nat \ {0} /\ TotalPasses \in Nat
  BY LayoutAssumption
<1> DEFINE S == [i \in 1 .. NRanks + 1 |-> FirstPass(i - 1)]
<1>2. ASSUME NEW r \in Nat, NEW g \in Int
      PROVE  g \in PassesOf(r) <=> FirstPass(r) <= g /\ g < FirstPass(r + 1)
  <2>1. /\ PassCount(r) \in Nat /\ FirstPass(r) \in Nat
        /\ FirstPass(r + 1) = FirstPass(r) + PassCount(r)
    BY PassSteps
  <2> QED BY <2>1 DEF PassesOf
<1>3. \A r \in Ranks : r \in Nat /\ r + 1 \in 1 .. NRanks
  BY <1>1 DEF Ranks
<1>4. \A i \in 1 .. NRanks + 1 : S[i] = FirstPass(i - 1) /\ S[i] \in Nat
  <2>1. \A i \in 1 .. NRanks + 1 : i - 1 \in Nat  BY <1>1
  <2> QED BY <2>1, PassSteps
<1>5. ASSUME NEW i \in 1 .. NRanks
      PROVE  S[i] <= S[i + 1] /\ S[i + 1] = FirstPass(i) /\ S[i] = FirstPass(i - 1) /\ i - 1 \in Nat
  <2>1. i \in 1 .. NRanks + 1 /\ i + 1 \in 1 .. NRanks + 1 /\ (i + 1) - 1 = i /\ i - 1 \in Nat
        /\ (i - 1) + 1 = i
    BY <1>1
  <2>2. /\ PassCount(i - 1) \in Nat /\ FirstPass(i - 1) \in Nat
        /\ FirstPass((i - 1) + 1) = FirstPass(i - 1) + PassCount(i - 1)
    BY <2>1, PassSteps
  <2>3. S[i + 1] = FirstPass(i) /\ S[i] = FirstPass(i - 1)
    BY <2>1
  <2> HIDE DEF S
  <2> QED BY <2>1, <2>2, <2>3
<1>6. S[1] = 0 /\ S[NRanks + 1] = TotalPasses
  BY <1>1, PassSteps, PassTotal
<1> HIDE DEF S
<1>7. /\ \A i, j \in 1 .. NRanks + 1 : i <= j => S[i] <= S[j]
      /\ \A x \in 0 .. S[NRanks + 1] - 1 : \E i \in 1 .. NRanks : S[i] <= x /\ x < S[i + 1]
      /\ \A i, j \in 1 .. NRanks : \A x \in Nat :
              S[i] <= x /\ x < S[i + 1] /\ S[j] <= x /\ x < S[j + 1] => i = j
  BY <1>1, <1>4, <1>5, <1>6, Staircase
<1>8. ASSUME NEW r \in Ranks PROVE r \in Nat /\ PassesOf(r) \subseteq 0 .. TotalPasses - 1
  <2>1. r \in Nat /\ r + 1 \in 1 .. NRanks /\ (r + 1) - 1 = r /\ NRanks + 1 \in 1 .. NRanks + 1
        /\ (r + 1) + 1 \in 1 .. NRanks + 1 /\ (r + 1) + 1 <= NRanks + 1
    BY <1>1, <1>3
  <2>2. S[(r + 1) + 1] = FirstPass(r + 1)  BY <1>5, <2>1
  <2>3. S[(r + 1) + 1] <= S[NRanks + 1]  BY <1>7, <2>1
  <2>4. FirstPass(r + 1) <= TotalPasses  BY <1>6, <2>2, <2>3
  <2>5. FirstPass(r) \in Nat /\ FirstPass(r + 1) \in Nat /\ PassCount(r) \in Nat
        /\ FirstPass(r + 1) = FirstPass(r) + PassCount(r)
    BY <2>1, PassSteps
  <2> QED BY <1>1, <2>1, <2>4, <2>5 DEF PassesOf
<1>9. ASSUME NEW g \in 0 .. TotalPasses - 1 PROVE \E r \in Ranks : g \in PassesOf(r)
  <2>1. PICK i \in 1 .. NRanks : S[i] <= g /\ g < S[i + 1]
    BY <1>6, <1>7
  <2>2. PICK r \in Nat : r = i - 1  BY <1>5
  <2>3. r \in Ranks /\ r + 1 = i
    BY <1>1, <2>2 DEF Ranks
  <2>4. FirstPass(r) <= g /\ g < FirstPass(r + 1)
    BY <1>5, <2>1, <2>2, <2>3
  <2>5. g \in Int  BY <1>1
  <2> QED BY <1>2, <2>3, <2>4, <2>5
<1>10. ASSUME NEW q \in Ranks, NEW r \in Ranks, NEW g \in PassesOf(q) \cap PassesOf(r)
       PROVE  q = r
  <2>1. g \in Nat  BY <1>1, <1>8
  <2>2. q \in Nat /\ r \in Nat /\ q + 1 \in 1 .. NRanks /\ r + 1 \in 1 .. NRanks
    BY <1>3
  <2>3. /\ S[q + 1] = FirstPass(q) /\ S[(q + 1) + 1] = FirstPass(q + 1)
        /\ S[r + 1] = FirstPass(r) /\ S[(r + 1) + 1] = FirstPass(r + 1)
    <3>1. (q + 1) - 1 = q /\ (r + 1) - 1 = r  BY <2>2
    <3> QED BY <1>5, <2>2, <3>1
  <2>4. FirstPass(q) <= g /\ g < FirstPass(q + 1) /\ FirstPass(r) <= g /\ g < FirstPass(r + 1)
    BY <1>2, <1>10, <2>1, <2>2
  <2>5. q + 1 = r + 1  BY <1>7, <2>1, <2>2, <2>3, <2>4
  <2> QED BY <2>2, <2>5
<1> QED BY <1>2, <1>8, <1>9, <1>10

----------------------------------------------------------------------------
(* What a unit computes *)

\* One solve of a run, with the cuts its child's pool holds and the solves before it; what a
\* run, a unit and all units of a node compute, whatever worker runs them.
ItemOf(routed, seen, run, k) ==
    [pos |-> run[k][1], omega |-> run[k][2],
     out |-> [seen |-> seen, chain |-> SubSeq(ByPass(routed, run), 1, k - 1)]]
RunItems(routed, seen, run) == {ItemOf(routed, seen, run, k) : k \in DOMAIN run}
RunFor(rt, lay, r, n, blocks, u, i) == Run(lay, n, Len(Routed(rt, r, n)), blocks, u, i)
UnitItems(rt, lay, held, r, n, blocks, u) ==
    UNION {RunItems(Routed(rt, r, n), held[i], RunFor(rt, lay, r, n, blocks, u, i)) :
              i \in DOMAIN Children[n]}

\* The slots that the pools of a node's children hold.
Held(r, n) == [i \in DOMAIN Children[n] |-> DOMAIN pool[r][Children[n][i]]]

\* The recursion of the fold over the runs of a unit.
Indices(runs) == [i \in DOMAIN runs |-> i]
UnitStep(g, r, n, runs, s, t) ==
    IF t = {} THEN [solver |-> s, outs |-> <<>>]
    ELSE SolveRun(g[t \ {Max(t)}], r, n, runs[Indices(runs)[Max(t)]], Indices(runs)[Max(t)])
UnitFold(r, n, runs, s, iter) ==
    iter = [t \in SUBSET DOMAIN Indices(runs) |-> UnitStep(iter, r, n, runs, s, t)]

\* Solving a unit is a fold over its runs.
LEMMA UnitIsFolded ==
    ASSUME NEW r, NEW n, NEW u, NEW s
    PROVE  SolveUnit(r, n, u, s) =
             (CHOOSE iter : UnitFold(r, n, RunsOf(r, n, u), s, iter))[DOMAIN Indices(RunsOf(r, n, u))]
BY Zenon DEF SolveUnit, FoldLeftDomain, FoldLeft, MapThenFoldSet, UnitFold, UnitStep, Indices

\* The recursion has a value.
LEMMA UnitFoldExists ==
    ASSUME NEW K \in Nat, NEW runs, DOMAIN runs = 1 .. K, NEW r, NEW n, NEW s
    PROVE  \E iter : UnitFold(r, n, runs, s, iter)
<1> DEFINE S == DOMAIN Indices(runs)
           Step(g, t) == UnitStep(g, r, n, runs, s, t)
           Up(m) == {t \in SUBSET S : Cardinality(t) <= m}
           Q == {m \in Nat : \E g : \A t \in Up(m) : g[t] = Step(g, t)}
<1>0. S = 1 .. K /\ IsFiniteSet(S)
  BY FS_Interval DEF Indices
<1> HIDE DEF S
<1>1. ASSUME NEW t \in SUBSET S
      PROVE  IsFiniteSet(t) /\ Cardinality(t) \in Nat
  BY <1>0, FS_Subset, FS_CardinalityType
<1>2. ASSUME NEW g, NEW h, NEW t \in SUBSET S,
             \A x \in SUBSET S : Cardinality(x) < Cardinality(t) => g[x] = h[x]
      PROVE  Step(g, t) = Step(h, t)
  <2>1. CASE t = {}
    BY <2>1 DEF UnitStep
  <2>2. CASE t # {}
    <3>1. Max(t) \in t  BY <1>0, <1>1, <2>2, GreatestInteger
    <3>2. t \ {Max(t)} \in SUBSET S /\ Cardinality(t \ {Max(t)}) < Cardinality(t)
      BY <1>1, <3>1, FS_RemoveElement
    <3>3. g[t \ {Max(t)}] = h[t \ {Max(t)}]  BY <1>2, <3>2
    <3> QED BY <3>3, Zenon DEF UnitStep
  <2> QED BY <2>1, <2>2
<1> HIDE DEF Step
<1>3. 0 \in Q
  <2> DEFINE g == [t \in SUBSET S |-> Step(<<>>, t)]
  <2>1. ASSUME NEW t \in Up(0) PROVE g[t] = Step(g, t)
    <3>1. t \in SUBSET S /\ Cardinality(t) = 0  BY <1>1
    <3>2. \A x \in SUBSET S : ~(Cardinality(x) < Cardinality(t))
      BY <1>1, <3>1
    <3>3. Step(<<>>, t) = Step(g, t)
      <4> HIDE DEF g
      <4> QED BY <1>2, <3>1, <3>2
    <3> QED BY <3>1, <3>3
  <2> HIDE DEF g
  <2> QED BY <2>1
<1>4. ASSUME NEW m \in Q PROVE m + 1 \in Q
  <2>1. PICK g : \A t \in Up(m) : g[t] = Step(g, t)  OBVIOUS
  <2> DEFINE h == [t \in SUBSET S |-> Step(g, t)]
  <2>2. ASSUME NEW t \in Up(m + 1) PROVE h[t] = Step(h, t)
    <3>1. t \in SUBSET S /\ Cardinality(t) <= m + 1  OBVIOUS
    <3>2. ASSUME NEW x \in SUBSET S, Cardinality(x) < Cardinality(t) PROVE g[x] = h[x]
      <4>1. x \in Up(m)  BY <1>1, <3>1, <3>2
      <4> QED BY <2>1, <4>1
    <3>3. Step(g, t) = Step(h, t)
      <4> HIDE DEF h
      <4> QED BY <1>2, <3>1, <3>2
    <3> QED BY <3>1, <3>3
  <2> HIDE DEF h
  <2>3. \E f : \A t \in Up(m + 1) : f[t] = Step(f, t)  BY <2>2
  <2> QED BY <2>3
<1>5. Nat \subseteq Q
  <2> HIDE DEF Q
  <2> QED BY <1>3, <1>4, NaturalInduction
<1>6. PICK g : \A t \in Up(Cardinality(S)) : g[t] = Step(g, t)
  BY <1>0, <1>1, <1>5
<1>7. \A t \in SUBSET S : t \in Up(Cardinality(S))
  BY <1>0, FS_Subset
<1> DEFINE f == [t \in SUBSET S |-> Step(g, t)]
<1>8. ASSUME NEW t \in SUBSET S PROVE f[t] = Step(f, t)
  <2>1. \A x \in SUBSET S : g[x] = f[x]  BY <1>6, <1>7
  <2>2. Step(g, t) = Step(f, t)
    <3> HIDE DEF f
    <3> QED BY <1>2, <2>1
  <2> QED BY <2>2
<1>9. f = [t \in SUBSET S |-> Step(f, t)]
  <2>1. f = [t \in SUBSET S |-> f[t]]  OBVIOUS
  <2> HIDE DEF f
  <2> QED BY <1>8, <2>1
<1> HIDE DEF f
<1> QED BY <1>9 DEF UnitFold, Step, S

----------------------------------------------------------------------------
(* Cells *)

\* The outcomes of child i.
LEMMA ChildOutcomes ==
    ASSUME NEW n \in Nodes, NEW i \in DOMAIN Children[n]
    PROVE  /\ Children[n][i] \in Nodes /\ Openings[Children[n][i]] \in Nat \ {0}
           /\ OutcomeStart(n, i) \in Nat /\ OutcomeStart(n, i + 1) \in Nat
           /\ OutcomeStart(n, i + 1) = OutcomeStart(n, i) + Openings[Children[n][i]]
           /\ OutcomeStart(n, i + 1) <= OutcomeCount(n)
<1>1. PICK K \in Nat : K = Len(Children[n]) /\ DOMAIN Children[n] = 1 .. K
  BY OutcomeFacts
<1>2. i \in 1 .. K /\ i \in 1 .. K + 1 /\ i + 1 \in 1 .. K + 1
  BY <1>1
<1> QED BY <1>1, <1>2, OutcomeFacts

\* Every outcome is of one child.
LEMMA OutcomeSplit ==
    ASSUME NEW n \in Nodes
    PROVE  /\ OutcomeCount(n) \in Nat
           /\ \A x \in 0 .. OutcomeCount(n) - 1 : \E i \in DOMAIN Children[n] :
                  OutcomeStart(n, i) <= x /\ x < OutcomeStart(n, i + 1)
           /\ \A i, j \in DOMAIN Children[n] : \A x \in Nat :
                  /\ OutcomeStart(n, i) <= x /\ x < OutcomeStart(n, i + 1)
                  /\ OutcomeStart(n, j) <= x /\ x < OutcomeStart(n, j + 1)
                  => i = j
<1> DEFINE K == Len(Children[n])
<1>1. /\ DOMAIN Children[n] = 1 .. K /\ OutcomeCount(n) \in Nat
      /\ \A x \in 0 .. OutcomeCount(n) - 1 : \E i \in 1 .. K :
             OutcomeStart(n, i) <= x /\ x < OutcomeStart(n, i + 1)
      /\ \A i, j \in 1 .. K : \A x \in Nat :
             /\ OutcomeStart(n, i) <= x /\ x < OutcomeStart(n, i + 1)
             /\ OutcomeStart(n, j) <= x /\ x < OutcomeStart(n, j + 1)
             => i = j
  BY OutcomeFacts
<1> QED BY <1>1, Zenon

\* A solve of a by-node unit is at a place of the unit's tile and an opening of its block, and
\* these tell its position in the run.
LEMMA RunForward ==
    ASSUME NEW n \in Nodes, CutGenerating(n), NEW lay \in Layouts, NEW num \in 0 .. TotalPasses,
           lay.kind = "byNode", NEW blocks, Listing(blocks, BlockCount(n)),
           NEW u \in 0 .. UnitCount(lay, n, num) - 1, NEW i \in DOMAIN Children[n],
           NEW k \in DOMAIN Run(lay, n, num, blocks, u, i)
    PROVE  \E place \in 0 .. num - 1, g \in Nat :
             /\ OutcomeStart(n, i) <= g /\ g < OutcomeStart(n, i + 1)
             /\ g \div BlockLen(n) = Block(lay, num, blocks, u)
             /\ place \div lay.points = u % Tiles(lay, num)
             /\ Run(lay, n, num, blocks, u, i)[k] = CellAt(lay, n, num, i, place, g)
             /\ k = (g - FirstOpening(lay, n, num, blocks, u, i)) * Width(lay, num, u)
                      + Turned(g - FirstOpening(lay, n, num, blocks, u, i),
                               place - Low(lay, num, u), Width(lay, num, u)) + 1
<1>n. num \in Nat
  BY LayoutAssumption
<1>1. PICK first \in Nat, last \in Nat, low \in Nat, width \in Nat \ {0} :
          /\ first = FirstOpening(lay, n, num, blocks, u, i)
          /\ last = LastOpening(lay, n, num, blocks, u, i)
          /\ low = Low(lay, num, u) /\ width = Width(lay, num, u)
          /\ width <= lay.points /\ low + width <= num
  BY UnitGeometry
<1> DEFINE R == Run(lay, n, num, blocks, u, i)
           c == Children[n][i]
<1>2. R = [j \in 1 .. Max({0, last - first}) * width |->
             <<PlaceOrder(lay, num)[low + Turned((j - 1) \div width, (j - 1) % width, width) + 1],
               OutcomeStart(n, i)
                 + SolveOrder[c][first - OutcomeStart(n, i) + ((j - 1) \div width) + 1]>>]
  <2>1. lay.kind # "byScenario"  OBVIOUS
  <2> QED BY <1>1, <2>1, Zenon DEF Run, FirstOpening, LastOpening, Width, Low, Block, Turned
<1>3. PICK m \in Nat : m = Max({0, last - first}) /\ (m = 0 \/ first + m = last)
  <2>1. Max({0, last - first}) = IF 0 >= last - first THEN 0 ELSE last - first
    BY <1>1, MaxPair
  <2> QED BY <1>1, <2>1
<1>4. m * width \in Nat /\ k \in 1 .. m * width
  BY SMTT(20), <1>1, <1>2, <1>3
<1> DEFINE step == (k - 1) \div width
           turn == (k - 1) % width
           place == low + Turned(step, turn, width)
           g == first + step
<1>5. R[k] = <<PlaceOrder(lay, num)[place + 1],
               OutcomeStart(n, i) + SolveOrder[c][first - OutcomeStart(n, i) + step + 1]>>
  BY <1>2, <1>3, <1>4
<1>6. step \in Nat /\ turn \in 0 .. width - 1 /\ k - 1 = step * width + turn
  <2>1. k - 1 \in Nat  BY <1>4
  <2> QED BY <1>1, <2>1, Division
<1> HIDE DEF step, turn, R
<1>7. step < m
  <2>1. CASE m <= step
    <3>1. m * width <= step * width
      BY <1>1, <1>3, <1>6, <2>1, Products
    <3>2. step * width \in Nat  BY <1>1, <1>6
    <3> QED BY <1>4, <1>6, <3>1, <3>2
  <2> QED BY <1>3, <1>6, <2>1
<1>8. g \in Nat /\ first <= g /\ g < last
  BY <1>1, <1>3, <1>6, <1>7
<1>9. /\ OutcomeStart(n, i) <= g /\ g < OutcomeStart(n, i + 1)
      /\ g \div BlockLen(n) = Block(lay, num, blocks, u)
  <2> HIDE DEF g
  <2>1. g >= first /\ g < last  BY <1>1, <1>8
  <2> QED BY <1>1, <1>8, <2>1, UnitGeometry
<1>10. /\ Turned(step, turn, width) \in 0 .. width - 1
       /\ Turned(step, Turned(step, turn, width), width) = turn
  BY <1>1, <1>6, TurnedTwice
<1>11. place \in 0 .. num - 1 /\ place - low = Turned(step, turn, width)
  BY <1>1, <1>n, <1>10
<1>12. place \div lay.points = u % Tiles(lay, num)
  <2>1. PICK p \in Nat \ {0}, q \in Nat : p = lay.points /\ q = u % Tiles(lay, num) /\ low = q * p
    BY SMTT(20), <1>1, <1>n, TileFacts, UnitFacts DEF Low
  <2>2. PICK t \in 0 .. p - 1 : t = Turned(step, turn, width)
    BY <1>1, <1>10, <2>1
  <2>3. (q * p + t) \div p = q
    BY ZenonT(60), <2>1, <2>2, DivisionUnique
  <2> QED BY <2>1, <2>2, <2>3
<1>13. PICK s0 \in Nat : s0 = OutcomeStart(n, i)  BY ChildOutcomes
<1>14. first - s0 + step + 1 = g - s0 + 1 /\ g - first = step
  BY <1>1, <1>6, <1>13
<1>15. R[k] = CellAt(lay, n, num, i, place, g)
  <2>1. first - OutcomeStart(n, i) + step + 1 = g - OutcomeStart(n, i) + 1
    BY <1>13, <1>14
  <2> HIDE DEF place, g
  <2> QED BY <1>5, <2>1 DEF CellAt
<1>16. k = (g - first) * width + Turned(g - first, place - low, width) + 1
  <2>1. Turned(g - first, place - low, width) = turn
    BY <1>10, <1>11, <1>14
  <2>2. k = step * width + turn + 1  BY <1>4, <1>6
  <2> QED BY <1>14, <2>1, <2>2
<1> HIDE DEF place, g
<1> QED BY <1>1, <1>8, <1>9, <1>11, <1>12, <1>15, <1>16 DEF R

\* And every such place and opening is a solve of the run.
LEMMA RunBackward ==
    ASSUME NEW n \in Nodes, CutGenerating(n), NEW lay \in Layouts, NEW num \in 0 .. TotalPasses,
           lay.kind = "byNode", NEW blocks, Listing(blocks, BlockCount(n)),
           NEW u \in 0 .. UnitCount(lay, n, num) - 1, NEW i \in DOMAIN Children[n],
           NEW place \in 0 .. num - 1, NEW g \in Nat,
           OutcomeStart(n, i) <= g, g < OutcomeStart(n, i + 1),
           g \div BlockLen(n) = Block(lay, num, blocks, u),
           place \div lay.points = u % Tiles(lay, num)
    PROVE  \E k \in DOMAIN Run(lay, n, num, blocks, u, i) :
             Run(lay, n, num, blocks, u, i)[k] = CellAt(lay, n, num, i, place, g)
<1>n. num \in Nat
  BY LayoutAssumption
<1>1. PICK first \in Nat, last \in Nat, low \in Nat, width \in Nat \ {0} :
          /\ first = FirstOpening(lay, n, num, blocks, u, i)
          /\ last = LastOpening(lay, n, num, blocks, u, i)
          /\ low = Low(lay, num, u) /\ width = Width(lay, num, u)
          /\ low + width <= num /\ (low + width = num \/ width = lay.points)
          /\ first <= g /\ g < last
  BY UnitGeometry
<1> DEFINE R == Run(lay, n, num, blocks, u, i)
           c == Children[n][i]
<1>2. R = [j \in 1 .. Max({0, last - first}) * width |->
             <<PlaceOrder(lay, num)[low + Turned((j - 1) \div width, (j - 1) % width, width) + 1],
               OutcomeStart(n, i)
                 + SolveOrder[c][first - OutcomeStart(n, i) + ((j - 1) \div width) + 1]>>]
  <2>1. lay.kind # "byScenario"  OBVIOUS
  <2> QED BY <1>1, <2>1, Zenon DEF Run, FirstOpening, LastOpening, Width, Low, Block, Turned
<1>3. Max({0, last - first}) = last - first
  <2>1. Max({0, last - first}) = IF 0 >= last - first THEN 0 ELSE last - first
    BY <1>1, MaxPair
  <2> QED BY <1>1, <2>1
<1>4. PICK m \in Nat, step \in Nat : m = last - first /\ step = g - first /\ step + 1 <= m
  BY <1>1
<1>5. PICK turn \in 0 .. width - 1 : place = low + turn
  <2>0. PICK p \in Nat \ {0}, q \in Nat : p = lay.points /\ q = u % Tiles(lay, num)
    <3>1. lay.points \in Nat \ {0}  BY <1>n, TileFacts
    <3>2. u % Tiles(lay, num) \in Nat  BY <1>n, UnitFacts
    <3> QED BY <3>1, <3>2
  <2>1. low = q * p /\ place \in Nat
    BY <1>1, <1>n, <2>0 DEF Low
  <2>2. place \div p \in Nat /\ place % p \in 0 .. p - 1 /\ place = (place \div p) * p + (place % p)
    BY <2>1, Division
  <2>3. PICK t \in 0 .. p - 1 : place = low + t
    BY <2>0, <2>1, <2>2
  <2> QED BY <1>1, <1>n, <2>0, <2>3
<1> DEFINE x == Turned(step, turn, width)
           k == step * width + x + 1
<1>6. x \in 0 .. width - 1 /\ Turned(step, x, width) = turn
  <2>1. step \in Nat /\ width \in Nat \ {0} /\ turn \in 0 .. width - 1
    BY <1>1, <1>4, <1>5
  <2>2. /\ Turned(step, turn, width) \in 0 .. width - 1
        /\ Turned(step, Turned(step, turn, width), width) = turn
    BY ONLY <2>1, TurnedTwice
  <2> QED BY ONLY <2>2 DEF x
<1> HIDE DEF x
<1>7. step * width + x \in Nat /\ (step * width + x) \div width = step /\ (step * width + x) % width = x
  <2>1. step \in Nat /\ width \in Nat \ {0} /\ x \in 0 .. width - 1
    BY <1>1, <1>4, <1>6
  <2>2. step * width + x \in Nat  BY ONLY <2>1
  <2> QED BY ONLY <2>1, <2>2, DivisionUnique
<1>8. k - 1 = step * width + x /\ k \in 1 .. m * width
  <2>1. step * width + width <= m * width  BY <1>1, <1>4, Products
  <2>2. step * width \in Nat /\ m * width \in Nat  BY <1>1, <1>4
  <2> QED BY <1>1, <1>6, <2>1, <2>2
<1>9. k \in DOMAIN R  BY <1>2, <1>3, <1>4, <1>8
<1>10. R[k] = <<PlaceOrder(lay, num)[low + Turned(step, x, width) + 1],
                OutcomeStart(n, i) + SolveOrder[c][first - OutcomeStart(n, i) + step + 1]>>
  <2> HIDE DEF k
  <2> QED BY <1>2, <1>3, <1>4, <1>7, <1>8
<1>11. first - OutcomeStart(n, i) + step + 1 = g - OutcomeStart(n, i) + 1
  <2>1. PICK s0 \in Nat : s0 = OutcomeStart(n, i)
    BY ChildOutcomes
  <2> QED BY <1>1, <1>4, <2>1
<1>12. R[k] = CellAt(lay, n, num, i, place, g)
  <2> HIDE DEF k, R
  <2> QED BY <1>5, <1>6, <1>10, <1>11 DEF CellAt
<1> HIDE DEF k
<1> QED BY <1>9, <1>12 DEF R

\* What a cell is a pair of.
LEMMA CellFacts ==
    ASSUME NEW n \in Nodes, NEW lay \in Layouts, NEW num \in 0 .. TotalPasses,
           NEW i \in DOMAIN Children[n], NEW place \in 0 .. num - 1, NEW g \in Nat,
           OutcomeStart(n, i) <= g, g < OutcomeStart(n, i + 1)
    PROVE  \E pos \in 0 .. num - 1, x \in 0 .. Openings[Children[n][i]] - 1 :
             /\ pos = PlaceOrder(lay, num)[place + 1]
             /\ x = SolveOrder[Children[n][i]][g - OutcomeStart(n, i) + 1]
             /\ CellAt(lay, n, num, i, place, g) = <<pos, OutcomeStart(n, i) + x>>
<1>1. PICK k \in Nat : k = num  BY LayoutAssumption
<1>2. PICK s0 \in Nat, w \in Nat \ {0} : /\ s0 = OutcomeStart(n, i) /\ w = Openings[Children[n][i]]
                                         /\ OutcomeStart(n, i + 1) = s0 + w
  BY ChildOutcomes
<1>3. place + 1 \in 1 .. k /\ g - s0 + 1 \in 1 .. w  BY <1>1, <1>2
<1>4. PlaceOrder(lay, num)[place + 1] \in 0 .. num - 1
  BY <1>1, <1>3, PlaceFacts DEF Listing
<1>5. Listing(SolveOrder[Children[n][i]], w)
  BY <1>2, ChildOutcomes, OrderAssumption
<1>6. SolveOrder[Children[n][i]][g - s0 + 1] \in 0 .. w - 1
  BY <1>3, <1>5 DEF Listing
<1> QED BY <1>2, <1>4, <1>6 DEF CellAt

\* The solves of a run are of trial points of the rank and outcomes of its child.
LEMMA RunFacts ==
    ASSUME NEW n \in Nodes, CutGenerating(n), NEW lay \in Layouts, NEW num \in 0 .. TotalPasses,
           NEW blocks, Listing(blocks, BlockCount(n)),
           NEW u \in 0 .. UnitCount(lay, n, num) - 1, NEW i \in DOMAIN Children[n],
           NEW run, run = Run(lay, n, num, blocks, u, i)
    PROVE  /\ \E m \in Nat : DOMAIN run = 1 .. m
           /\ \A k \in DOMAIN run :
                /\ run[k][1] \in 0 .. num - 1 /\ run[k][2] \in Nat
                /\ OutcomeStart(n, i) <= run[k][2] /\ run[k][2] < OutcomeStart(n, i + 1)
                /\ lay.kind = "byScenario" => run[k][1] = u
<1>n. num \in Nat
  BY LayoutAssumption
<1>1. CASE lay.kind = "byScenario"
  <2>1. u \in 0 .. num - 1
    BY <1>1 DEF UnitCount
  <2>2. PICK s0 \in Nat, w \in Nat \ {0} : /\ s0 = OutcomeStart(n, i) /\ w = Openings[Children[n][i]]
                                           /\ OutcomeStart(n, i + 1) = s0 + w
    BY ChildOutcomes
  <2>3. run = [k \in 1 .. w |-> <<u, s0 + SolveOrder[Children[n][i]][k]>>]
    BY <1>1, <2>2, Zenon DEF Run
  <2>4. Listing(SolveOrder[Children[n][i]], w)
    BY <2>2, ChildOutcomes, OrderAssumption
  <2>5. \A k \in 1 .. w : SolveOrder[Children[n][i]][k] \in 0 .. w - 1
    BY <2>4 DEF Listing
  <2>6. DOMAIN run = 1 .. w /\ w \in Nat  BY <2>3
  <2>7. ASSUME NEW k \in DOMAIN run
        PROVE  /\ run[k][1] = u /\ run[k][2] \in Nat
               /\ OutcomeStart(n, i) <= run[k][2] /\ run[k][2] < OutcomeStart(n, i + 1)
    <3>1. PICK x \in 0 .. w - 1 : x = SolveOrder[Children[n][i]][k]
      BY <2>5, <2>6
    <3>2. run[k] = <<u, s0 + x>>  BY <2>3, <2>6, <3>1
    <3> QED BY <2>2, <3>1, <3>2
  <2> QED BY <2>1, <2>6, <2>7
<1>2. CASE lay.kind = "byNode"
  <2>1. PICK first \in Nat, last \in Nat, width \in Nat :
            /\ first = FirstOpening(lay, n, num, blocks, u, i)
            /\ last = LastOpening(lay, n, num, blocks, u, i) /\ width = Width(lay, num, u)
    BY <1>2, UnitGeometry
  <2>2. DOMAIN run = 1 .. Max({0, last - first}) * width
    <3>1. lay.kind # "byScenario"  BY <1>2
    <3> QED BY <2>1, <3>1, Zenon DEF Run, FirstOpening, LastOpening, Width, Low, Block
  <2>3. PICK m \in Nat : m = Max({0, last - first})
    <3>1. Max({0, last - first}) = IF 0 >= last - first THEN 0 ELSE last - first
      BY <2>1, MaxPair
    <3> QED BY <2>1, <3>1
  <2>4. m * width \in Nat  BY <2>1
  <2>5. ASSUME NEW k \in DOMAIN run
        PROVE  /\ run[k][1] \in 0 .. num - 1 /\ run[k][2] \in Nat
               /\ OutcomeStart(n, i) <= run[k][2] /\ run[k][2] < OutcomeStart(n, i + 1)
    <3>1. PICK place \in 0 .. num - 1, g \in Nat :
              /\ OutcomeStart(n, i) <= g /\ g < OutcomeStart(n, i + 1)
              /\ run[k] = CellAt(lay, n, num, i, place, g)
      BY <1>2, <2>5, RunForward
    <3>2. PICK pos \in 0 .. num - 1, x \in 0 .. Openings[Children[n][i]] - 1 :
              /\ pos = PlaceOrder(lay, num)[place + 1]
              /\ x = SolveOrder[Children[n][i]][g - OutcomeStart(n, i) + 1]
              /\ CellAt(lay, n, num, i, place, g) = <<pos, OutcomeStart(n, i) + x>>
      BY ONLY <1>n, <3>1, CellFacts, SMTT(20)
    <3>3. PICK s0 \in Nat, w \in Nat \ {0} :
              /\ s0 = OutcomeStart(n, i) /\ w = Openings[Children[n][i]]
              /\ OutcomeStart(n, i + 1) = s0 + w
      BY ChildOutcomes
    <3> QED BY <3>1, <3>2, <3>3
  <2> QED BY <1>2, <2>2, <2>3, <2>4, <2>5
<1> QED BY <1>n, <1>1, <1>2, TileFacts

\* Every outcome of every trial point of the rank is solved.
LEMMA RunsCover ==
    ASSUME NEW n \in Nodes, CutGenerating(n), NEW lay \in Layouts, NEW num \in 0 .. TotalPasses,
           NEW blocks, Listing(blocks, BlockCount(n)),
           NEW pos \in 0 .. num - 1, NEW omega \in 0 .. OutcomeCount(n) - 1
    PROVE  \E u \in 0 .. UnitCount(lay, n, num) - 1, i \in DOMAIN Children[n] :
             \E k \in DOMAIN Run(lay, n, num, blocks, u, i) :
               Run(lay, n, num, blocks, u, i)[k] = <<pos, omega>>
<1>n. num \in Nat /\ lay.kind \in {"byNode", "byScenario"}
  BY LayoutAssumption, TileFacts
<1>1. PICK i \in DOMAIN Children[n] : OutcomeStart(n, i) <= omega /\ omega < OutcomeStart(n, i + 1)
  BY OutcomeSplit
<1>2. PICK s0 \in Nat, w \in Nat \ {0} : /\ s0 = OutcomeStart(n, i) /\ w = Openings[Children[n][i]]
                                         /\ OutcomeStart(n, i + 1) = s0 + w
  BY ChildOutcomes
<1>3. omega \in Nat /\ omega - s0 \in 0 .. w - 1
  BY <1>1, <1>2, OutcomeFacts
<1>4. PICK j \in 1 .. w : SolveOrder[Children[n][i]][j] = omega - s0
  <2>1. Listing(SolveOrder[Children[n][i]], w)
    BY <1>2, ChildOutcomes, OrderAssumption
  <2> QED BY <1>2, <1>3, <2>1, ListingOnto
<1>5. CASE lay.kind = "byScenario"
  <2>1. Run(lay, n, num, blocks, pos, i)
          = [k \in 1 .. w |-> <<pos, s0 + SolveOrder[Children[n][i]][k]>>]
    BY <1>2, <1>5, Zenon DEF Run
  <2>2. s0 + SolveOrder[Children[n][i]][j] = omega
    BY <1>2, <1>3, <1>4
  <2>3. pos \in 0 .. UnitCount(lay, n, num) - 1
    BY <1>5 DEF UnitCount
  <2>4. j \in DOMAIN Run(lay, n, num, blocks, pos, i)  BY <2>1
  <2>5. Run(lay, n, num, blocks, pos, i)[j] = <<pos, omega>>
    BY <2>1, <2>2
  <2> QED BY <2>3, <2>4, <2>5
<1>6. CASE lay.kind = "byNode"
  <2>1. PICK place \in 0 .. num - 1 : PlaceOrder(lay, num)[place + 1] = pos
    <3>1. PICK q \in 1 .. num : PlaceOrder(lay, num)[q] = pos
      BY <1>n, PlaceFacts, ListingOnto
    <3>2. q - 1 \in 0 .. num - 1 /\ (q - 1) + 1 = q  BY <1>n, <3>1
    <3> QED BY <3>1, <3>2
  <2>2. PICK g \in Nat : g = s0 + j - 1  BY <1>2
  <2>3. /\ OutcomeStart(n, i) <= g /\ g < OutcomeStart(n, i + 1)
        /\ g - s0 + 1 = j /\ g \in 0 .. OutcomeCount(n) - 1
    <3>1. PICK oc \in Nat : oc = OutcomeCount(n)  BY OutcomeSplit
    <3>2. s0 + w <= oc  BY <1>2, <3>1, ChildOutcomes
    <3> QED BY <1>2, <1>4, <2>2, <3>1, <3>2
  <2>4. CellAt(lay, n, num, i, place, g) = <<pos, omega>>
    BY <1>2, <1>3, <1>4, <2>1, <2>3 DEF CellAt
  <2>5. PICK t \in Nat \ {0}, b \in Nat, tile \in Nat, block \in Nat :
            /\ t = Tiles(lay, num) /\ b = BlockCount(n)
            /\ tile \in 0 .. t - 1 /\ block \in 0 .. b - 1
            /\ tile = place \div lay.points /\ block = g \div BlockLen(n)
    <3>1. place \div lay.points \in 0 .. Tiles(lay, num) - 1 /\ Tiles(lay, num) \in Nat
      BY <1>n, TileFacts
    <3>2. g \div BlockLen(n) \in 0 .. BlockCount(n) - 1 /\ BlockCount(n) \in Nat
      BY <2>3, BlockFacts
    <3> QED BY <3>1, <3>2
  <2>6. PICK y \in 1 .. b : blocks[y] = block
    BY <2>5, ListingOnto
  <2>7. PICK z \in Nat, u \in Nat : z = y - 1 /\ u = z * t + tile
    <3>1. y - 1 \in Nat  BY <2>6
    <3>2. (y - 1) * t \in Nat  BY <2>5, <3>1
    <3> QED BY <2>5, <3>1, <3>2
  <2>8. u \div t = y - 1 /\ u % t = tile
    <3>0. t \in Nat \ {0} /\ tile \in 0 .. t - 1 /\ z \in Nat
      BY <2>5, <2>7
    <3>1. (z * t + tile) \div t = z /\ (z * t + tile) % t = tile
      BY ONLY <3>0, DivisionUnique
    <3> QED BY <2>7, <3>1
  <2>9. u \in 0 .. UnitCount(lay, n, num) - 1
    <3>1. z * t + t <= b * t  BY <2>5, <2>6, <2>7, Products
    <3>2. UnitCount(lay, n, num) = t * b /\ t * b = b * t /\ b * t \in Nat
      BY <1>6, <2>5 DEF UnitCount
    <3>3. z * t \in Nat  BY <2>5, <2>7
    <3> QED BY <2>5, <2>7, <3>1, <3>2, <3>3
  <2>10. Block(lay, num, blocks, u) = block
    <3>1. (u \div t) + 1 = y  BY <2>6, <2>8
    <3> QED BY <2>5, <2>6, <3>1 DEF Block
  <2>11. PICK k \in DOMAIN Run(lay, n, num, blocks, u, i) :
            Run(lay, n, num, blocks, u, i)[k] = CellAt(lay, n, num, i, place, g)
    <3>1. /\ g \div BlockLen(n) = Block(lay, num, blocks, u)
          /\ place \div lay.points = u % Tiles(lay, num)
      BY <2>5, <2>8, <2>10
    <3> QED BY <1>6, <2>3, <2>9, <3>1, RunBackward
  <2> QED BY <2>4, <2>9, <2>11
<1> QED BY <1>n, <1>5, <1>6

\* And only once.
LEMMA RunsDiffer ==
    ASSUME NEW n \in Nodes, CutGenerating(n), NEW lay \in Layouts, NEW num \in 0 .. TotalPasses,
           NEW blocks, Listing(blocks, BlockCount(n)),
           NEW u \in 0 .. UnitCount(lay, n, num) - 1, NEW v \in 0 .. UnitCount(lay, n, num) - 1,
           NEW i \in DOMAIN Children[n], NEW j \in DOMAIN Children[n],
           NEW k \in DOMAIN Run(lay, n, num, blocks, u, i),
           NEW l \in DOMAIN Run(lay, n, num, blocks, v, j),
           Run(lay, n, num, blocks, u, i)[k] = Run(lay, n, num, blocks, v, j)[l]
    PROVE  u = v /\ i = j /\ k = l
<1>n. num \in Nat /\ lay.kind \in {"byNode", "byScenario"}
  BY LayoutAssumption, TileFacts
<1>1. i = j
  <2> DEFINE R == Run(lay, n, num, blocks, u, i)
             Q == Run(lay, n, num, blocks, v, j)
  <2>1. /\ R[k][2] \in Nat /\ OutcomeStart(n, i) <= R[k][2] /\ R[k][2] < OutcomeStart(n, i + 1)
        /\ lay.kind = "byScenario" => R[k][1] = u
    BY RunFacts
  <2>2. /\ Q[l][2] \in Nat /\ OutcomeStart(n, j) <= Q[l][2] /\ Q[l][2] < OutcomeStart(n, j + 1)
        /\ lay.kind = "byScenario" => Q[l][1] = v
    BY RunFacts
  <2>3. R[k] = Q[l]  OBVIOUS
  <2> HIDE DEF R, Q
  <2> QED BY <2>1, <2>2, <2>3, OutcomeSplit
<1>2. PICK s0 \in Nat, w \in Nat \ {0} : /\ s0 = OutcomeStart(n, i) /\ w = Openings[Children[n][i]]
                                         /\ OutcomeStart(n, i + 1) = s0 + w
  BY ChildOutcomes
<1>3. Listing(SolveOrder[Children[n][i]], w)
  BY <1>2, ChildOutcomes, OrderAssumption
<1>4. CASE lay.kind = "byScenario"
  <2>1. \A x : Run(lay, n, num, blocks, x, i)
                 = [y \in 1 .. w |-> <<x, s0 + SolveOrder[Children[n][i]][y]>>]
    BY <1>2, <1>4, Zenon DEF Run
  <2>2. k \in 1 .. w /\ l \in 1 .. w  BY <1>1, <2>1
  <2>3. /\ Run(lay, n, num, blocks, u, i)[k] = <<u, s0 + SolveOrder[Children[n][i]][k]>>
        /\ Run(lay, n, num, blocks, v, i)[l] = <<v, s0 + SolveOrder[Children[n][i]][l]>>
    BY <2>1, <2>2
  <2>4. <<u, s0 + SolveOrder[Children[n][i]][k]>> = <<v, s0 + SolveOrder[Children[n][i]][l]>>
    BY <1>1, <2>3
  <2>5. SolveOrder[Children[n][i]][k] \in Nat /\ SolveOrder[Children[n][i]][l] \in Nat
    <3>1. SolveOrder[Children[n][i]] \in [1 .. w -> 0 .. w - 1]
      BY <1>3 DEF Listing
    <3>2. SolveOrder[Children[n][i]][k] \in 0 .. w - 1 /\ SolveOrder[Children[n][i]][l] \in 0 .. w - 1
      BY <2>2, <3>1
    <3> QED BY <1>2, <3>2
  <2>6. SolveOrder[Children[n][i]][k] = SolveOrder[Children[n][i]][l] /\ u = v
    BY <1>2, <2>4, <2>5
  <2> QED BY <1>1, <1>3, <2>2, <2>6 DEF Listing, IsInjective
<1>5. CASE lay.kind = "byNode"
  <2>1. PICK place \in 0 .. num - 1, g \in Nat :
             /\ OutcomeStart(n, i) <= g /\ g < OutcomeStart(n, i + 1)
             /\ g \div BlockLen(n) = Block(lay, num, blocks, u)
             /\ place \div lay.points = u % Tiles(lay, num)
             /\ Run(lay, n, num, blocks, u, i)[k] = CellAt(lay, n, num, i, place, g)
             /\ k = (g - FirstOpening(lay, n, num, blocks, u, i)) * Width(lay, num, u)
                      + Turned(g - FirstOpening(lay, n, num, blocks, u, i),
                               place - Low(lay, num, u), Width(lay, num, u)) + 1
    BY <1>5, RunForward
  <2>2. PICK place2 \in 0 .. num - 1, g2 \in Nat :
             /\ OutcomeStart(n, j) <= g2 /\ g2 < OutcomeStart(n, j + 1)
             /\ g2 \div BlockLen(n) = Block(lay, num, blocks, v)
             /\ place2 \div lay.points = v % Tiles(lay, num)
             /\ Run(lay, n, num, blocks, v, j)[l] = CellAt(lay, n, num, j, place2, g2)
             /\ l = (g2 - FirstOpening(lay, n, num, blocks, v, j)) * Width(lay, num, v)
                      + Turned(g2 - FirstOpening(lay, n, num, blocks, v, j),
                               place2 - Low(lay, num, v), Width(lay, num, v)) + 1
    BY <1>5, RunForward
  <2>3. PICK pos \in 0 .. num - 1, x \in 0 .. Openings[Children[n][i]] - 1 :
             /\ pos = PlaceOrder(lay, num)[place + 1]
             /\ x = SolveOrder[Children[n][i]][g - OutcomeStart(n, i) + 1]
             /\ CellAt(lay, n, num, i, place, g) = <<pos, OutcomeStart(n, i) + x>>
    BY <2>1, CellFacts
  <2>4. PICK pos2 \in 0 .. num - 1, x2 \in 0 .. Openings[Children[n][j]] - 1 :
             /\ pos2 = PlaceOrder(lay, num)[place2 + 1]
             /\ x2 = SolveOrder[Children[n][j]][g2 - OutcomeStart(n, j) + 1]
             /\ CellAt(lay, n, num, j, place2, g2) = <<pos2, OutcomeStart(n, j) + x2>>
    BY <2>2, CellFacts
  <2>5. <<pos, s0 + x>> = <<pos2, s0 + x2>>
    BY <1>1, <1>2, <2>1, <2>2, <2>3, <2>4
  <2>6. pos = pos2 /\ x = x2
    <3>1. x \in Nat /\ x2 \in Nat  BY <1>1, <1>2, <2>3, <2>4
    <3> QED BY <1>2, <2>5, <3>1
  <2>7. place = place2
    <3>1. Listing(PlaceOrder(lay, num), num)  BY PlaceFacts
    <3>2. place + 1 \in 1 .. num /\ place2 + 1 \in 1 .. num
      BY <1>n, <2>1, <2>2
    <3>3. place + 1 = place2 + 1
      BY <2>3, <2>4, <2>6, <3>1, <3>2 DEF Listing, IsInjective
    <3> QED BY <1>n, <2>1, <2>2, <3>3
  <2>8. g = g2
    <3>1. g - s0 + 1 \in 1 .. w /\ g2 - s0 + 1 \in 1 .. w
      BY <1>1, <1>2, <2>1, <2>2
    <3>2. SolveOrder[Children[n][i]][g - s0 + 1] = SolveOrder[Children[n][i]][g2 - s0 + 1]
      BY <1>1, <1>2, <2>3, <2>4, <2>6
    <3>3. g - s0 + 1 = g2 - s0 + 1
      BY <1>3, <3>1, <3>2 DEF Listing, IsInjective
    <3> QED BY <1>2, <2>1, <2>2, <3>3
  <2>9. PICK t \in Nat \ {0}, b \in Nat, qu \in Nat, qv \in Nat :
            /\ qu \in 0 .. b - 1 /\ qv \in 0 .. b - 1
            /\ t = Tiles(lay, num) /\ b = BlockCount(n)
            /\ qu = u \div t /\ qv = v \div t
            /\ u = qu * t + (u % t) /\ v = qv * t + (v % t)
    <3>1. /\ Tiles(lay, num) \in Nat \ {0} /\ BlockCount(n) \in Nat
          /\ u \div Tiles(lay, num) \in 0 .. BlockCount(n) - 1
          /\ u = (u \div Tiles(lay, num)) * Tiles(lay, num) + (u % Tiles(lay, num))
      BY <1>n, <1>5, UnitFacts, BlockFacts
    <3>2. /\ v \div Tiles(lay, num) \in 0 .. BlockCount(n) - 1
          /\ v = (v \div Tiles(lay, num)) * Tiles(lay, num) + (v % Tiles(lay, num))
      BY <1>n, <1>5, UnitFacts
    <3>3. PICK b \in Nat : b = BlockCount(n)  BY <3>1
    <3>4. PICK qu \in Nat, qv \in Nat :
              qu = u \div Tiles(lay, num) /\ qv = v \div Tiles(lay, num)
      BY <3>1, <3>2, <3>3
    <3>5. PICK t \in Nat \ {0} : t = Tiles(lay, num)  BY <3>1
    <3>6. /\ qu \in 0 .. b - 1 /\ qv \in 0 .. b - 1 /\ qu = u \div t /\ qv = v \div t
          /\ u = qu * t + (u % t) /\ v = qv * t + (v % t)
      BY ONLY <3>1, <3>2, <3>3, <3>4, <3>5
    <3> QED BY ONLY <3>3, <3>5, <3>6, Zenon
  <2>10. qu = qv
    <3>1. qu + 1 \in 1 .. b /\ qv + 1 \in 1 .. b  BY <2>9
    <3>2. blocks[qu + 1] = blocks[qv + 1]
      BY <2>1, <2>2, <2>8, <2>9 DEF Block
    <3>3. qu + 1 = qv + 1
      BY <2>9, <3>1, <3>2 DEF Listing, IsInjective
    <3> QED BY <2>9, <3>3
  <2>11. u = v
    <3>1. u % t = v % t  BY <2>1, <2>2, <2>7, <2>9
    <3> QED BY <2>9, <2>10, <3>1, Zenon
  <2> QED BY <1>1, <2>1, <2>2, <2>7, <2>8, <2>11
<1> QED BY <1>n, <1>4, <1>5

\* Whatever the claim order of the blocks, the units are the same, under other numbers.
LEMMA RunsRelabelled ==
    ASSUME NEW n \in Nodes, CutGenerating(n), NEW lay \in Layouts, NEW num \in 0 .. TotalPasses,
           NEW blocks, Listing(blocks, BlockCount(n)), NEW others, Listing(others, BlockCount(n)),
           NEW u \in 0 .. UnitCount(lay, n, num) - 1
    PROVE  \E v \in 0 .. UnitCount(lay, n, num) - 1 : \A i \in DOMAIN Children[n] :
             Run(lay, n, num, blocks, u, i) = Run(lay, n, num, others, v, i)
<1>n. num \in Nat /\ lay.kind \in {"byNode", "byScenario"}
  BY LayoutAssumption, TileFacts
<1>1. CASE lay.kind = "byScenario"
  <2>1. \A i : Run(lay, n, num, blocks, u, i) = Run(lay, n, num, others, u, i)
    BY <1>1, Zenon DEF Run
  <2> QED BY <2>1
<1>2. CASE lay.kind = "byNode"
  <2>1. PICK t \in Nat \ {0}, b \in Nat, tile \in Nat :
            /\ tile \in 0 .. t - 1
            /\ t = Tiles(lay, num) /\ b = BlockCount(n) /\ tile = u % t
            /\ u \div t \in 0 .. b - 1
    <3>1. /\ Tiles(lay, num) \in Nat \ {0} /\ BlockCount(n) \in Nat
          /\ u % Tiles(lay, num) \in 0 .. Tiles(lay, num) - 1
          /\ u \div Tiles(lay, num) \in 0 .. BlockCount(n) - 1
      BY <1>n, <1>2, UnitFacts, BlockFacts
    <3> QED BY <3>1
  <2>2. (u \div t) + 1 \in 1 .. b  BY <2>1
  <2>3. blocks[(u \div t) + 1] \in 0 .. b - 1
    BY <2>1, <2>2 DEF Listing
  <2>4. PICK y \in 1 .. b : others[y] = blocks[(u \div t) + 1]
    BY <2>1, <2>3, ListingOnto
  <2>5. y - 1 \in Nat  BY <2>4
  <2>6. (y - 1) * t \in Nat  BY <2>1, <2>5
  <2>7. PICK z \in Nat, v \in Nat : z = y - 1 /\ v = z * t + tile
    BY <2>1, <2>5, <2>6
  <2>8. v \div t = y - 1 /\ v % t = tile
    <3>1. (z * t + tile) \div t = z /\ (z * t + tile) % t = tile
      BY <2>1, DivisionUnique
    <3> QED BY <2>7, <3>1
  <2>9. v \in 0 .. UnitCount(lay, n, num) - 1
    <3>1. z * t + t <= b * t  BY <2>1, <2>4, <2>7, Products
    <3>2. UnitCount(lay, n, num) = t * b /\ t * b = b * t /\ b * t \in Nat
      BY <1>2, <2>1 DEF UnitCount
    <3>3. z * t \in Nat  BY <2>1, <2>7
    <3> QED BY <2>1, <2>7, <3>1, <3>2, <3>3
  <2>10. (v \div t) + 1 = y  BY <2>4, <2>8
  <2>11. others[(v \div t) + 1] = blocks[(u \div t) + 1] /\ v % t = u % t
    BY <2>1, <2>4, <2>8, <2>10
  <2>12. lay.kind # "byScenario"  BY <1>2
  <2>13. \A i : Run(lay, n, num, blocks, u, i) = Run(lay, n, num, others, v, i)
    BY <2>1, <2>11, <2>12, ZenonT(60) DEF Run
  <2> QED BY <2>9, <2>13
<1> QED BY <1>n, <1>1, <1>2

----------------------------------------------------------------------------
(* The visits of a node, by rank and over all ranks *)

Visitors(rt, n, S) == {g \in S : n \in rt[g]}

\* A rank's visits of a node are its passes through it, in order.
LEMMA RoutedFacts ==
    ASSUME NEW rt, NEW n, NEW r \in Nat
    PROVE  /\ IsFiniteSet(Visitors(rt, n, PassesOf(r)))
           /\ Visitors(rt, n, PassesOf(r)) \in SUBSET Nat
           /\ Routed(rt, r, n) = InOrder(Visitors(rt, n, PassesOf(r)))
           /\ Len(Routed(rt, r, n)) = Cardinality(Visitors(rt, n, PassesOf(r)))
           /\ Len(Routed(rt, r, n)) \in Nat
           /\ Len(Routed(rt, r, n)) <= PassCount(r)
           /\ DOMAIN Routed(rt, r, n) = 1 .. Len(Routed(rt, r, n))
<1> DEFINE V == Visitors(rt, n, PassesOf(r))
<1>1. /\ PassCount(r) \in Nat /\ FirstPass(r) \in Nat
      /\ FirstPass(r) + PassCount(r) - 1 \in Int
  BY PassSteps
<1>2. IsFiniteSet(PassesOf(r)) /\ Cardinality(PassesOf(r)) = PassCount(r)
  <2>1. PICK a \in Nat, c \in Nat : a = FirstPass(r) /\ c = PassCount(r)
    BY <1>1
  <2>2. PICK b \in Int : b = a + c - 1  OBVIOUS
  <2>3. IsFiniteSet(a .. b) /\ Cardinality(a .. b) = IF a > b THEN 0 ELSE b - a + 1
    BY ONLY a \in Int, b \in Int, FS_Interval
  <2>4. PassesOf(r) = a .. b
    BY <2>1, <2>2 DEF PassesOf
  <2>5. Cardinality(a .. b) = c
    BY ONLY <2>2, <2>3, a \in Nat, c \in Nat
  <2> QED BY <2>1, <2>3, <2>4, <2>5
<1>3. V \in SUBSET PassesOf(r) /\ PassesOf(r) \in SUBSET Nat
  BY <1>1 DEF Visitors, PassesOf
<1>4. IsFiniteSet(V) /\ Cardinality(V) <= PassCount(r) /\ V \in SUBSET Nat
  BY <1>2, <1>3, FS_Subset
<1>5. Routed(rt, r, n) = InOrder(V)
  BY DEF Routed, Visitors
<1> HIDE DEF V
<1>6. /\ Cardinality(V) \in Nat /\ InOrder(V) \in [1 .. Cardinality(V) -> V]
      /\ Len(InOrder(V)) = Cardinality(V)
  BY <1>4, InOrderFacts
<1>7. DOMAIN InOrder(V) = 1 .. Cardinality(V)  BY <1>6
<1> QED BY <1>4, <1>5, <1>6, <1>7 DEF V

\* Offsets of the ranks.
LEMMA OffsetSteps ==
    ASSUME NEW rt, NEW n
    PROVE  /\ VisitOffset(rt, 0, n) = 0
           /\ \A r \in Nat :
                 /\ VisitOffset(rt, r, n) \in Nat
                 /\ VisitOffset(rt, r + 1, n) = VisitOffset(rt, r, n) + Len(Routed(rt, r, n))
<1>3. \A r \in Nat : Len(Routed(rt, r, n)) \in Nat  BY RoutedFacts
<1>4. VisitOffset(rt, 0, n) = 0
  <2>1. 0 .. 0 - 1 = {}  OBVIOUS
  <2> QED BY <2>1, EmptySum DEF VisitOffset
<1>5. ASSUME NEW r \in Nat
      PROVE  /\ VisitOffset(rt, r + 1, n) = VisitOffset(rt, r, n) + Len(Routed(rt, r, n))
             /\ VisitOffset(rt, r, n) \in Int
  <2> DEFINE f == [q \in 0 .. r |-> Len(Routed(rt, q, n))]
             g == [q \in 0 .. r - 1 |-> Len(Routed(rt, q, n))]
  <2>1. (r + 1) - 1 = r  OBVIOUS
  <2>2. VisitOffset(rt, r + 1, n) = SumOver(f, 0 .. r)
    BY <2>1 DEF VisitOffset
  <2>3. VisitOffset(rt, r, n) = SumOver(g, 0 .. r - 1)
    BY DEF VisitOffset
  <2>4. /\ \A q \in 0 .. r : f[q] \in Int
        /\ \A q \in 0 .. r - 1 : g[q] = f[q]
        /\ f[r] = Len(Routed(rt, r, n))
    BY <1>3
  <2> HIDE DEF f, g
  <2>5. SumOver(f, 0 .. r) = SumOver(g, 0 .. r - 1) + f[r] /\ SumOver(g, 0 .. r - 1) \in Int
    BY <2>4, PrefixStep
  <2> QED BY <2>2, <2>3, <2>4, <2>5
<1>6. \A r \in Nat : VisitOffset(rt, r, n) \in Nat
  <2> DEFINE P == {r \in Nat : VisitOffset(rt, r, n) \in Nat}
  <2>1. 0 \in P  BY <1>4
  <2>2. ASSUME NEW r \in P \cap Nat PROVE r + 1 \in P
    BY <1>3, <1>5
  <2> HIDE DEF P
  <2>3. Nat \subseteq P  BY <2>1, <2>2, NaturalInduction
  <2> QED BY <2>3 DEF P
<1> QED BY <1>3, <1>4, <1>5, <1>6

\* The offset of a rank counts the visits of the passes before its first.
LEMMA OffsetCounts ==
    ASSUME NEW rt, NEW n, NEW r \in Nat
    PROVE  /\ IsFiniteSet(Visitors(rt, n, 0 .. FirstPass(r) - 1))
           /\ Cardinality(Visitors(rt, n, 0 .. FirstPass(r) - 1)) = VisitOffset(rt, r, n)
<1> DEFINE U(k) == Visitors(rt, n, 0 .. FirstPass(k) - 1)
           V(k) == Visitors(rt, n, PassesOf(k))
           P == {k \in Nat : IsFiniteSet(U(k)) /\ Cardinality(U(k)) = VisitOffset(rt, k, n)}
<1>1. 0 \in P
  <2>1. U(0) = {}
    BY PassSteps DEF Visitors
  <2> QED BY <2>1, FS_EmptySet, OffsetSteps
<1>2. ASSUME NEW k \in P \cap Nat PROVE k + 1 \in P
  <2>1. U(k + 1) = U(k) \cup V(k) /\ U(k) \cap V(k) = {}
    <3>1. /\ FirstPass(k) \in Nat /\ PassCount(k) \in Nat
          /\ FirstPass(k + 1) = FirstPass(k) + PassCount(k)
      BY PassSteps
    <3>2. 0 .. FirstPass(k + 1) - 1 = (0 .. FirstPass(k) - 1) \cup PassesOf(k)
      BY <3>1 DEF PassesOf
    <3>3. (0 .. FirstPass(k) - 1) \cap PassesOf(k) = {}
      BY <3>1 DEF PassesOf
    <3> QED BY <3>2, <3>3, Zenon DEF Visitors
  <2>2. IsFiniteSet(V(k)) /\ Cardinality(V(k)) = Len(Routed(rt, k, n)) /\ Cardinality(V(k)) \in Nat
    BY RoutedFacts
  <2>3. IsFiniteSet(U(k)) /\ Cardinality(U(k)) = VisitOffset(rt, k, n)  OBVIOUS
  <2>4. /\ VisitOffset(rt, k, n) \in Nat
        /\ VisitOffset(rt, k + 1, n) = VisitOffset(rt, k, n) + Len(Routed(rt, k, n))
    BY OffsetSteps
  <2> HIDE DEF U, V
  <2>5. /\ IsFiniteSet(U(k) \cup V(k))
        /\ Cardinality(U(k) \cup V(k)) = Cardinality(U(k)) + Cardinality(V(k)) - Cardinality(U(k) \cap V(k))
    BY <2>2, <2>3, FS_Union
  <2>6. Cardinality(U(k + 1)) = Cardinality(U(k)) + Cardinality(V(k))
    <3>1. Cardinality(U(k) \cap V(k)) = 0  BY <2>1, FS_EmptySet
    <3>2. Cardinality(U(k + 1)) = Cardinality(U(k)) + Cardinality(V(k)) - 0
      BY <2>1, <2>5, <3>1
    <3> QED BY <2>2, <2>3, <2>4, <3>2
  <2>7. IsFiniteSet(U(k + 1)) /\ Cardinality(U(k + 1)) = VisitOffset(rt, k + 1, n)
    BY <2>1, <2>2, <2>3, <2>4, <2>5, <2>6
  <2> QED BY <2>7
<1> HIDE DEF P
<1>3. Nat \subseteq P  BY <1>1, <1>2, NaturalInduction
<1> QED BY <1>3 DEF P

\* A rank's visits are, from its offset on, the visits of all ranks in pass order, and those
\* are all of some rank.
LEMMA VisitsInOrder ==
    ASSUME NEW rt, DOMAIN rt = 0 .. TotalPasses - 1, NEW n,
           NEW all, all = Visitors(rt, n, DOMAIN rt)
    PROVE  /\ all \in SUBSET Nat /\ IsFiniteSet(all)
           /\ \A r \in Ranks : \A i \in 1 .. Len(Routed(rt, r, n)) :
                 /\ VisitOffset(rt, r, n) + i \in 1 .. Cardinality(all)
                 /\ InOrder(all)[VisitOffset(rt, r, n) + i] = Routed(rt, r, n)[i]
           /\ \A k \in 1 .. Cardinality(all) : \E r \in Ranks :
                 \E i \in 1 .. Len(Routed(rt, r, n)) : k = VisitOffset(rt, r, n) + i
<1>1. TotalPasses \in Nat  BY LayoutAssumption
<1>2. all \in SUBSET Nat /\ all \in SUBSET (0 .. TotalPasses - 1) /\ IsFiniteSet(0 .. TotalPasses - 1)
  BY <1>1, FS_Interval DEF Visitors
<1>3. IsFiniteSet(all)  BY <1>2, FS_Subset
<1>4. /\ Cardinality(all) \in Nat /\ InOrder(all) \in [1 .. Cardinality(all) -> all]
      /\ \A i \in 1 .. Cardinality(all) : Rank(all, InOrder(all)[i]) = i - 1
      /\ \A s \in all : \E i \in 1 .. Cardinality(all) : InOrder(all)[i] = s
  BY <1>2, <1>3, InOrderFacts
<1>5. ASSUME NEW r \in Ranks, NEW i \in 1 .. Len(Routed(rt, r, n))
      PROVE  /\ VisitOffset(rt, r, n) + i \in 1 .. Cardinality(all)
             /\ InOrder(all)[VisitOffset(rt, r, n) + i] = Routed(rt, r, n)[i]
  <2> DEFINE V == Visitors(rt, n, PassesOf(r))
             U == Visitors(rt, n, 0 .. FirstPass(r) - 1)
             x == Routed(rt, r, n)[i]
  <2>1. r \in Nat /\ PassesOf(r) \subseteq 0 .. TotalPasses - 1
    BY PassesPartition
  <2>2. /\ IsFiniteSet(V) /\ V \in SUBSET Nat /\ Routed(rt, r, n) = InOrder(V)
        /\ Len(Routed(rt, r, n)) = Cardinality(V)
    BY <2>1, RoutedFacts
  <2>3. IsFiniteSet(U) /\ Cardinality(U) = VisitOffset(rt, r, n) /\ VisitOffset(rt, r, n) \in Nat
    BY <2>1, OffsetCounts, OffsetSteps
  <2>4. V \subseteq all /\ V \subseteq PassesOf(r)
    BY <2>1 DEF Visitors
  <2>5. x \in V /\ Rank(V, x) = i - 1 /\ i \in Nat
    <3> HIDE DEF V
    <3> QED BY <2>2, InOrderFacts
  <2>6. Below(all, x) = U \cup Below(V, x) /\ U \cap Below(V, x) = {}
    <3>1. /\ FirstPass(r) \in Nat /\ PassCount(r) \in Nat
          /\ PassesOf(r) = FirstPass(r) .. FirstPass(r) + PassCount(r) - 1
      BY <2>1, PassSteps DEF PassesOf
    <3>2. x \in Nat /\ FirstPass(r) <= x /\ x <= FirstPass(r) + PassCount(r) - 1
          /\ FirstPass(r) + PassCount(r) - 1 <= TotalPasses - 1
      <4>1. x \in PassesOf(r)  BY <2>4, <2>5
      <4>2. FirstPass(r) + PassCount(r) - 1 \in PassesOf(r)
        <5> HIDE DEF x
        <5> QED BY <3>1, <4>1
      <4> HIDE DEF x
      <4> QED BY <1>1, <2>1, <3>1, <4>1, <4>2
    <3> HIDE DEF x
    <3>3. ASSUME NEW y
          PROVE  (y \in 0 .. TotalPasses - 1 /\ y < x) <=>
                   (y \in 0 .. FirstPass(r) - 1 \/ (y \in PassesOf(r) /\ y < x))
      BY <1>1, <3>1, <3>2
    <3>4. \A y \in 0 .. FirstPass(r) - 1 : y \notin PassesOf(r)
      BY <3>1
    <3>5. \A y : y \in Below(all, x) <=> (y \in 0 .. TotalPasses - 1 /\ y < x) /\ n \in rt[y]
      BY DEF Below, Visitors
    <3>6. \A y : y \in U <=> y \in 0 .. FirstPass(r) - 1 /\ n \in rt[y]
      BY DEF Visitors
    <3>7. \A y : y \in Below(V, x) <=> (y \in PassesOf(r) /\ y < x) /\ n \in rt[y]
      BY DEF Below, Visitors
    <3> HIDE DEF U, V
    <3> QED BY <3>3, <3>4, <3>5, <3>6, <3>7, Zenon
  <2>7. IsFiniteSet(Below(V, x)) /\ Cardinality(Below(V, x)) = i - 1
    <3>1. Below(V, x) \in SUBSET V
      BY DEF Below
    <3> HIDE DEF V, x
    <3> QED BY <2>2, <2>5, <3>1, FS_Subset DEF Rank
  <2>8. Rank(all, x) = VisitOffset(rt, r, n) + i - 1
    <3> HIDE DEF U, V, x
    <3>1. Cardinality(U \cup Below(V, x)) = Cardinality(U) + Cardinality(Below(V, x)) - Cardinality(U \cap Below(V, x))
      BY <2>3, <2>7, FS_Union
    <3>2. Cardinality(U \cap Below(V, x)) = 0
      BY <2>6, FS_EmptySet
    <3>3. Cardinality(Below(all, x)) = Cardinality(U) + Cardinality(Below(V, x)) - 0
      BY <2>6, <3>1, <3>2
    <3> QED BY <2>3, <2>5, <2>7, <3>3 DEF Rank
  <2>9. x \in all  BY <2>4, <2>5
  <2> HIDE DEF U, V, x
  <2>10. PICK j \in 1 .. Cardinality(all) : InOrder(all)[j] = x
    BY <1>4, <2>9
  <2>11. j - 1 = VisitOffset(rt, r, n) + i - 1
    BY <1>4, <2>8, <2>10
  <2>12. j = VisitOffset(rt, r, n) + i
    <3>1. j \in Int /\ VisitOffset(rt, r, n) \in Int /\ i \in Int
      BY <1>4, <2>3, <2>5
    <3> QED BY ONLY <2>11, <3>1
  <2> QED BY <2>10, <2>12 DEF x
<1>6. ASSUME NEW k \in 1 .. Cardinality(all)
      PROVE  \E r \in Ranks : \E i \in 1 .. Len(Routed(rt, r, n)) : k = VisitOffset(rt, r, n) + i
  <2>1. InOrder(all)[k] \in all  BY <1>4
  <2>2. PICK r \in Ranks : InOrder(all)[k] \in PassesOf(r)
    BY <1>2, <2>1, PassesPartition
  <2> DEFINE V == Visitors(rt, n, PassesOf(r))
  <2>3. InOrder(all)[k] \in V
    BY <2>1, <2>2 DEF Visitors
  <2>4. r \in Nat  BY PassesPartition
  <2>5. /\ IsFiniteSet(V) /\ V \in SUBSET Nat /\ Routed(rt, r, n) = InOrder(V)
        /\ Len(Routed(rt, r, n)) = Cardinality(V)
    BY <2>4, RoutedFacts
  <2> HIDE DEF V
  <2>6. PICK i \in 1 .. Cardinality(V) : InOrder(V)[i] = InOrder(all)[k]
    BY <2>3, <2>5, InOrderFacts
  <2>7. /\ VisitOffset(rt, r, n) + i \in 1 .. Cardinality(all)
        /\ InOrder(all)[VisitOffset(rt, r, n) + i] = InOrder(all)[k]
    BY <1>5, <2>5, <2>6
  <2>8. (VisitOffset(rt, r, n) + i) - 1 = k - 1  BY <1>4, <2>7
  <2>9. k = VisitOffset(rt, r, n) + i  BY <1>4, <2>7, <2>8
  <2> QED BY <2>5, <2>9
<1> QED BY <1>2, <1>3, <1>5, <1>6

\* A path follows the graph down to every stage that has nodes.
LEMMA PathReaches ==
    ASSUME NEW path \in Visited, NEW n \in Nodes
    PROVE  \E m \in path : StageOf[m] = StageOf[n]
<1>1. /\ path \in SUBSET Nodes /\ 0 \in path /\ StageOf[0] = 0 /\ StageOf[n] \in Nat
      /\ \A m \in path : CutGenerating(m) => Cardinality(path \cap Range(Children[m])) = 1
  BY GraphAssumption DEF Visited
<1> DEFINE P == {s \in Nat : s <= StageOf[n] => \E m \in path : StageOf[m] = s}
<1>2. 0 \in P  BY <1>1
<1>3. ASSUME NEW s \in P \cap Nat PROVE s + 1 \in P
  <2>1. CASE s + 1 > StageOf[n]  BY <1>1, <2>1
  <2>2. CASE s + 1 <= StageOf[n]
    <3>1. PICK m \in path : StageOf[m] = s  BY <1>1, <2>2
    <3>2. m \in Nodes /\ CutGenerating(m)
      <4>1. m \in Nodes /\ ~(StageOf[n] <= StageOf[m])
        BY <1>1, <2>2, <3>1
      <4> QED BY <4>1, GraphAssumption DEF CutGenerating
    <3>3. path \cap Range(Children[m]) # {}
      BY <1>1, <3>2, FS_EmptySet
    <3>4. PICK c \in path : c \in Range(Children[m])  BY <3>3
    <3>5. PICK i \in DOMAIN Children[m] : c = Children[m][i]
      BY <3>4 DEF Range
    <3>6. StageOf[c] = s + 1  BY <3>1, <3>2, <3>5, GraphAssumption
    <3> QED BY <3>4, <3>6
  <2> QED BY <1>1, <2>1, <2>2
<1> HIDE DEF P
<1>4. Nat \subseteq P  BY <1>2, <1>3, NaturalInduction
<1> QED BY <1>1, <1>4 DEF P

\* Nodes of a level cut, and their children are of a later stage.
LEMMA LevelNodeFacts ==
    ASSUME NEW l \in 1 .. Len(Levels), NEW n \in Range(Levels[l])
    PROVE  /\ n \in Nodes /\ CutGenerating(n) /\ StageOf[n] = LevelStage(l) /\ StageOf[n] \in Nat
           /\ \A i \in DOMAIN Children[n] :
                 Children[n][i] \in Nodes /\ StageOf[Children[n][i]] = StageOf[n] + 1
<1>1. n \in AtStage(LevelStage(l))  BY LevelFacts
<1>2. n \in Nodes /\ CutGenerating(n) /\ StageOf[n] = LevelStage(l)
  BY <1>1 DEF AtStage
<1>3. StageOf[n] \in Nat /\ \A i \in DOMAIN Children[n] : StageOf[Children[n][i]] = StageOf[n] + 1
  BY <1>2, GraphAssumption
<1>4. \A i \in DOMAIN Children[n] : Children[n][i] \in Nodes
  BY <1>2, ChildOutcomes
<1> QED BY <1>2, <1>3, <1>4

\* The only node of a level is visited by every pass.
LEMMA LoneVisited ==
    ASSUME NEW rt \in Routes, NEW l \in 1 .. Len(Levels), Len(Levels[l]) = 1,
           NEW n, n = Levels[l][1], NEW g \in 0 .. TotalPasses - 1
    PROVE  n \in rt[g]
<1>1. rt[g] \in {{m \in path : CutGenerating(m)} : path \in Visited}
  BY DEF Routes
<1>2. PICK path \in Visited : rt[g] = {m \in path : CutGenerating(m)}
  BY <1>1
<1>3. /\ DOMAIN Levels[l] = 1 .. 1 /\ Range(Levels[l]) = AtStage(LevelStage(l))
      /\ Levels[l][1] \in Nodes
  <2>1. /\ DOMAIN Levels[l] = 1 .. Len(Levels[l]) /\ Range(Levels[l]) = AtStage(LevelStage(l))
        /\ \A i \in DOMAIN Levels[l] : Levels[l][i] \in Nodes
    BY LevelFacts
  <2> QED BY <2>1
<1>4. \A m : m \in AtStage(LevelStage(l)) => m = n
  <2>1. \A m \in Range(Levels[l]) : m = n
    BY <1>3 DEF Range
  <2> QED BY <1>3, <2>1
<1>5. n \in Range(Levels[l])
  BY <1>3 DEF Range
<1>6. n \in Nodes /\ CutGenerating(n) /\ StageOf[n] = LevelStage(l) /\ StageOf[n] \in Nat
  BY <1>5, LevelNodeFacts
<1>7. PICK m \in path : StageOf[m] = StageOf[n]
  BY <1>6, PathReaches
<1>8. m \in Nodes /\ path \in SUBSET Nodes
  BY DEF Visited
<1>9. CutGenerating(m)
  <2> SUFFICES ASSUME ~CutGenerating(m) PROVE FALSE  OBVIOUS
  <2>1. PICK i : i \in DOMAIN Children[n]
    <3>1. Children[n] \in Seq(Nodes) /\ Children[n] # <<>>
      BY <1>6, GraphAssumption DEF CutGenerating
    <3>2. 1 \in DOMAIN Children[n]  BY <3>1
    <3> QED BY <3>2
  <2>2. Children[n][i] \in Nodes /\ StageOf[Children[n][i]] = StageOf[n] + 1
    BY <1>5, <2>1, LevelNodeFacts
  <2>3. Children[m] = <<>> => StageOf[Children[n][i]] <= StageOf[m]
    BY <1>8, <2>2, GraphAssumption
  <2> QED BY <1>6, <1>7, <2>2, <2>3 DEF CutGenerating
<1>10. m = n
  <2>1. m \in AtStage(LevelStage(l))
    BY <1>6, <1>7, <1>8, <1>9 DEF AtStage
  <2> QED BY <1>4, <2>1
<1> QED BY <1>2, <1>6, <1>10

\* There its offset is the rank's first pass.
LEMMA LoneOffset ==
    ASSUME NEW rt \in Routes, NEW l \in 1 .. Len(Levels), Len(Levels[l]) = 1,
           NEW n, n = Levels[l][1], NEW r \in Ranks
    PROVE  VisitOffset(rt, r, n) = FirstPass(r)
<1>1. r \in Nat  BY PassesPartition
<1>2. ASSUME NEW q \in 0 .. r - 1 PROVE Len(Routed(rt, q, n)) = PassCount(q)
  <2>1. q \in Ranks /\ q \in Nat
    BY <1>1, LayoutAssumption DEF Ranks
  <2>2. PassesOf(q) \subseteq 0 .. TotalPasses - 1
    BY <2>1, PassesPartition
  <2>3. Visitors(rt, n, PassesOf(q)) = PassesOf(q)
    BY <2>2, LoneVisited DEF Visitors
  <2>4. Len(Routed(rt, q, n)) = Cardinality(PassesOf(q))
    BY <2>1, <2>3, RoutedFacts
  <2>5. PICK a \in Nat, c \in Nat : a = FirstPass(q) /\ c = PassCount(q)
    BY <2>1, PassSteps
  <2>6. PICK b \in Int : b = a + c - 1  OBVIOUS
  <2>7. Cardinality(a .. b) = IF a > b THEN 0 ELSE b - a + 1
    BY ONLY a \in Int, b \in Int, FS_Interval
  <2>8. PassesOf(q) = a .. b
    BY <2>5, <2>6 DEF PassesOf
  <2>9. Cardinality(a .. b) = c
    BY ONLY <2>6, <2>7, a \in Nat, c \in Nat
  <2> QED BY <2>4, <2>5, <2>8, <2>9
<1>3. /\ [q \in 0 .. r - 1 |-> Len(Routed(rt, q, n))] = [q \in 0 .. r - 1 |-> PassCount(q)]
  BY <1>2
<1> QED BY <1>3 DEF VisitOffset, FirstPass

----------------------------------------------------------------------------
(* The results of a unit *)

\* What a concatenation holds.
LEMMA ConcatRange ==
    ASSUME NEW X, NEW s \in Seq(X), NEW t \in Seq(X)
    PROVE  Range(s \o t) = Range(s) \cup Range(t)
<1>1. PICK a \in Nat, b \in Nat : a = Len(s) /\ b = Len(t)  OBVIOUS
<1>2. DOMAIN s = 1 .. a /\ DOMAIN t = 1 .. b /\ DOMAIN (s \o t) = 1 .. a + b
  BY <1>1
<1>3. /\ \A i \in 1 .. a : (s \o t)[i] = s[i]
      /\ \A i \in 1 .. b : (s \o t)[a + i] = t[i]
  BY <1>1
<1>4. ASSUME NEW i \in 1 .. a + b PROVE (s \o t)[i] \in Range(s) \cup Range(t)
  <2>1. CASE i <= a
    BY <1>2, <1>3, <2>1 DEF Range
  <2>2. CASE i > a
    <3>1. PICK j \in 1 .. b : a + j = i
      <4>1. i - a \in 1 .. b /\ a + (i - a) = i  BY <2>2
      <4> QED BY <4>1
    <3>2. (s \o t)[a + j] = t[j] /\ t[j] \in Range(t)
      BY <1>2, <1>3 DEF Range
    <3> QED BY <3>1, <3>2
  <2>3. i <= a \/ i > a
    BY ONLY i \in 1 .. a + b, a \in Nat, b \in Nat
  <2> QED BY ONLY <2>1, <2>2, <2>3, Zenon
<1>5. ASSUME NEW i \in 1 .. a PROVE s[i] \in Range(s \o t)
  <2>1. i \in 1 .. a + b  OBVIOUS
  <2> QED BY <1>2, <1>3, <2>1 DEF Range
<1>6. ASSUME NEW i \in 1 .. b PROVE t[i] \in Range(s \o t)
  <2>1. a + i \in 1 .. a + b  OBVIOUS
  <2> QED BY <1>2, <1>3, <2>1 DEF Range
<1> QED BY <1>2, <1>4, <1>5, <1>6 DEF Range

\* A sequence of whatever it holds.
IsSequence(s) == s \in Seq(Range(s))

\* A sequence is a function on 1 .. m.
LEMMA SequenceShape ==
    ASSUME NEW s
    PROVE  IsSequence(s) <=> (s = [k \in DOMAIN s |-> s[k]] /\ \E m \in Nat : DOMAIN s = 1 .. m)
<1>1. ASSUME IsSequence(s)
      PROVE  s = [k \in DOMAIN s |-> s[k]] /\ \E m \in Nat : DOMAIN s = 1 .. m
  <2>1. s \in Seq(Range(s))
    BY <1>1 DEF IsSequence
  <2>2. Len(s) \in Nat /\ DOMAIN s = 1 .. Len(s) /\ s = [k \in DOMAIN s |-> s[k]]
    BY <2>1
  <2> QED BY <2>2
<1>2. ASSUME s = [k \in DOMAIN s |-> s[k]], NEW m \in Nat, DOMAIN s = 1 .. m
      PROVE  IsSequence(s)
  <2>1. \A k \in 1 .. m : s[k] \in Range(s)
    BY <1>2 DEF Range
  <2>2. s \in [1 .. m -> Range(s)]  BY <1>2, <2>1
  <2> QED BY <2>2 DEF IsSequence
<1> QED BY <1>1, <1>2

\* One run of a unit.
LEMMA RunSolved ==
    ASSUME NEW acc, NEW r, NEW n, NEW i, NEW run,
           IsSequence(run), IsSequence(acc.outs)
    PROVE  /\ IsSequence(SolveRun(acc, r, n, run, i).outs)
           /\ Range(SolveRun(acc, r, n, run, i).outs) =
                Range(acc.outs) \cup RunItems(Routed(route, r, n), DOMAIN pool[r][Children[n][i]], run)
<1>m. PICK m \in Nat : DOMAIN run = 1 .. m
  BY SequenceShape
<1> DEFINE rd == Routed(route, r, n)
           held == DOMAIN pool[r][Children[n][i]]
           passes == ByPass(rd, run)
           tail == [k \in DOMAIN run |-> ItemOf(rd, held, run, k)]
<1>0. run = [k \in 1 .. m |-> run[k]]  BY <1>m, SequenceShape
<1>1. CASE run = <<>>
  <2>1. SolveRun(acc, r, n, run, i) = acc
    BY <1>1, Zenon DEF SolveRun
  <2>2. DOMAIN run = {}  BY <1>1
  <2>3. RunItems(rd, held, run) = {}
    BY <2>2 DEF RunItems
  <2> QED BY <2>1, <2>3
<1>2. CASE run # <<>>
  <2>1. ASSUME NEW k \in DOMAIN run
        PROVE  <<>> \o SubSeq(passes, 1, k - 1) = SubSeq(passes, 1, k - 1)
    <3> DEFINE T == {passes[j] : j \in DOMAIN run}
    <3>1. passes \in [1 .. m -> T]
      BY <1>m DEF ByPass
    <3>2. k \in 1 .. m /\ k - 1 \in 0 .. m  BY <1>m
    <3> HIDE DEF passes, T
    <3>3. passes \in Seq(T) /\ Len(passes) = m  BY <3>1
    <3>4. SubSeq(passes, 1, k - 1) \in Seq(T)  BY <3>1, <3>2, <3>3
    <3> QED BY <3>4
  <2>2. SolveRun(acc, r, n, run, i).outs =
          acc.outs \o [k \in DOMAIN run |->
             [pos |-> run[k][1], omega |-> run[k][2],
              out |-> [seen |-> held, chain |-> <<>> \o SubSeq(passes, 1, k - 1)]]]
    BY <1>2 DEF SolveRun, Prepare
  <2>3. [k \in DOMAIN run |->
           [pos |-> run[k][1], omega |-> run[k][2],
            out |-> [seen |-> held, chain |-> <<>> \o SubSeq(passes, 1, k - 1)]]] = tail
    <3> HIDE DEF passes
    <3>1. \A k \in DOMAIN run : [pos |-> run[k][1], omega |-> run[k][2],
            out |-> [seen |-> held, chain |-> <<>> \o SubSeq(passes, 1, k - 1)]] =
            [pos |-> run[k][1], omega |-> run[k][2],
             out |-> [seen |-> held, chain |-> SubSeq(passes, 1, k - 1)]]
      BY <2>1
    <3> QED BY <3>1, Zenon DEF ItemOf, passes
  <2>4. SolveRun(acc, r, n, run, i).outs = acc.outs \o tail
    BY <2>2, <2>3
  <2>5. Range(tail) = RunItems(rd, held, run)
    BY Zenon DEF RunItems, Range
  <2>6. tail \in [1 .. m -> Range(tail)]
    BY <1>m DEF Range
  <2> HIDE DEF tail
  <2> DEFINE X == Range(acc.outs) \cup Range(tail)
  <2>7. acc.outs \in Seq(X) /\ tail \in Seq(X)
    <3>1. acc.outs \in Seq(Range(acc.outs))
      BY DEF IsSequence
    <3> QED BY <2>6, <3>1
  <2> HIDE DEF X
  <2>8. acc.outs \o tail \in Seq(X)  BY <2>7
  <2>9. Range(acc.outs \o tail) = Range(acc.outs) \cup Range(tail)
    BY ONLY <2>7, ConcatRange
  <2> QED BY <2>4, <2>5, <2>8, <2>9 DEF X, IsSequence
<1> QED BY <1>1, <1>2

\* The results of a unit are its items, whatever the worker solved before.
LEMMA UnitSolved ==
    ASSUME NEW r, NEW n \in Nodes, NEW u, NEW s,
           \A i \in DOMAIN Children[n] : IsSequence(RunFor(route, layout, r, n, order[r], u, i))
    PROVE  /\ SolveUnit(r, n, u, s).outs \in Seq(UnitItems(route, layout, Held(r, n), r, n, order[r], u))
           /\ Range(SolveUnit(r, n, u, s).outs) = UnitItems(route, layout, Held(r, n), r, n, order[r], u)
<1> DEFINE runs == RunsOf(r, n, u)
           X == UnitItems(route, layout, Held(r, n), r, n, order[r], u)
           Items(i) == RunItems(Routed(route, r, n), DOMAIN pool[r][Children[n][i]], runs[i])
<1>1. PICK K \in Nat : DOMAIN Children[n] = 1 .. K
  BY OutcomeFacts
<1>2. /\ DOMAIN runs = 1 .. K
      /\ \A i \in 1 .. K : runs[i] = RunFor(route, layout, r, n, order[r], u, i)
  BY <1>1 DEF RunsOf, RunFor
<1>3. X = UNION {Items(i) : i \in 1 .. K}
  <2>1. \A i \in 1 .. K : Held(r, n)[i] = DOMAIN pool[r][Children[n][i]]
    BY <1>1 DEF Held
  <2>2. \A i \in 1 .. K : Items(i) = RunItems(Routed(route, r, n), Held(r, n)[i],
                                              RunFor(route, layout, r, n, order[r], u, i))
    BY <1>2, <2>1
  <2> HIDE DEF Items
  <2> QED BY <1>1, <2>2 DEF UnitItems
<1>4. ASSUME NEW i \in 1 .. K PROVE IsSequence(runs[i])
  BY <1>1, <1>2
<1> DEFINE iter == CHOOSE f : UnitFold(r, n, runs, s, f)
<1>5. UnitFold(r, n, runs, s, iter)
  <2>1. \E f : UnitFold(r, n, runs, s, f)
    <3> HIDE DEF runs
    <3> QED BY <1>2, UnitFoldExists
  <2> HIDE DEF runs
  <2> QED BY <2>1
<1>6. DOMAIN Indices(runs) = 1 .. K /\ \A i \in 1 .. K : Indices(runs)[i] = i
  <2> HIDE DEF runs
  <2> QED BY <1>2 DEF Indices
<1>7. SolveUnit(r, n, u, s) = iter[1 .. K]  BY <1>6, UnitIsFolded
<1> HIDE DEF iter, runs, X
<1>8. \A t \in SUBSET (1 .. K) : iter[t] = UnitStep(iter, r, n, runs, s, t)
  <2>1. iter = [t \in SUBSET (1 .. K) |-> UnitStep(iter, r, n, runs, s, t)]
    BY <1>5, <1>6, Zenon DEF UnitFold
  <2> DEFINE step(t) == UnitStep(iter, r, n, runs, s, t)
  <2> HIDE DEF step
  <2>2. iter = [t \in SUBSET (1 .. K) |-> step(t)]
    BY <2>1 DEF step
  <2>3. \A t \in SUBSET (1 .. K) : iter[t] = step(t)  BY <2>2
  <2> QED BY <2>3 DEF step
<1>9. IsSequence(iter[1 .. 0].outs) /\ Range(iter[1 .. 0].outs) = UNION {Items(i) : i \in 1 .. 0}
  <2>1. 1 .. 0 = {}  OBVIOUS
  <2>2. iter[{}] = [solver |-> s, outs |-> <<>>]
    <3>1. iter[{}] = UnitStep(iter, r, n, runs, s, {})  BY <1>8
    <3> QED BY <3>1 DEF UnitStep
  <2>3. Range(<<>>) = {} /\ <<>> \in Seq({})
    BY DEF Range
  <2>4. Range(iter[{}].outs) = {} /\ IsSequence(iter[{}].outs)
    BY <2>2, <2>3 DEF IsSequence
  <2>5. UNION {Items(i) : i \in {}} = {}  OBVIOUS
  <2> HIDE DEF Items
  <2> QED BY <2>1, <2>4, <2>5
<1>10. ASSUME NEW j \in Nat, j + 1 <= K, IsSequence(iter[1 .. j].outs),
              Range(iter[1 .. j].outs) = UNION {Items(i) : i \in 1 .. j}
       PROVE  /\ IsSequence(iter[1 .. j + 1].outs)
              /\ Range(iter[1 .. j + 1].outs) = UNION {Items(i) : i \in 1 .. j + 1}
  <2> HIDE DEF Items
  <2>1. PICK k \in Nat : k = j + 1  OBVIOUS
  <2>2. Max(1 .. k) = k
    <3>1. IsFiniteSet(1 .. k)  BY ONLY k \in Nat, FS_Interval
    <3>2. Max(1 .. k) \in 1 .. k /\ \A x \in 1 .. k : x <= Max(1 .. k)
      <4>1. 1 .. k \in SUBSET Int /\ 1 .. k # {}  BY <2>1
      <4> QED BY <3>1, <4>1, GreatestInteger
    <3>3. k \in 1 .. k  BY <2>1
    <3> QED BY <3>2, <3>3
  <2>3. (1 .. k) \ {k} = 1 .. j /\ 1 .. k # {} /\ k \in 1 .. K /\ 1 .. k \in SUBSET (1 .. K)
        /\ 1 .. k = (1 .. j) \cup {k}
    <3>1. j \in Nat /\ k \in Nat /\ K \in Nat /\ k = j + 1 /\ k <= K
      BY <1>1, <1>10, <2>1
    <3>2. (1 .. k) \ {k} = 1 .. j  BY ONLY <3>1
    <3>3. k \in 1 .. k /\ k \in 1 .. K /\ 1 .. k \subseteq 1 .. K
      BY ONLY <3>1
    <3> QED BY <3>2, <3>3, Zenon
  <2>4. iter[1 .. k] = SolveRun(iter[1 .. j], r, n, runs[k], k)
    <3>1. iter[1 .. k] = UnitStep(iter, r, n, runs, s, 1 .. k)
      BY <1>8, <2>3
    <3>2. UnitStep(iter, r, n, runs, s, 1 .. k) =
            SolveRun(iter[(1 .. k) \ {Max(1 .. k)}], r, n,
                     runs[Indices(runs)[Max(1 .. k)]], Indices(runs)[Max(1 .. k)])
      BY <2>3, Zenon DEF UnitStep
    <3>3. Indices(runs)[k] = k  BY <1>6, <2>3
    <3> QED BY <2>2, <2>3, <3>1, <3>2, <3>3
  <2>5. IsSequence(runs[k])  BY <1>4, <2>3
  <2>6. /\ IsSequence(SolveRun(iter[1 .. j], r, n, runs[k], k).outs)
        /\ Range(SolveRun(iter[1 .. j], r, n, runs[k], k).outs) =
             Range(iter[1 .. j].outs) \cup Items(k)
    BY <1>10, <2>5, RunSolved DEF Items
  <2>7. UNION {Items(i) : i \in 1 .. k} = (UNION {Items(i) : i \in 1 .. j}) \cup Items(k)
    BY <2>3, Zenon
  <2> QED BY <1>10, <2>1, <2>4, <2>6, <2>7
<1>11. IsSequence(iter[1 .. K].outs) /\ Range(iter[1 .. K].outs) = UNION {Items(i) : i \in 1 .. K}
  <2> DEFINE P == {j \in Nat : j <= K => /\ IsSequence(iter[1 .. j].outs)
                                         /\ Range(iter[1 .. j].outs) = UNION {Items(i) : i \in 1 .. j}}
  <2> HIDE DEF Items
  <2>1. 0 \in P  BY <1>9
  <2>2. ASSUME NEW j \in P \cap Nat PROVE j + 1 \in P
    <3>1. CASE j + 1 <= K
      <4>1. IsSequence(iter[1 .. j].outs) /\ Range(iter[1 .. j].outs) = UNION {Items(i) : i \in 1 .. j}
        BY <1>1, <3>1
      <4>2. /\ IsSequence(iter[1 .. j + 1].outs)
            /\ Range(iter[1 .. j + 1].outs) = UNION {Items(i) : i \in 1 .. j + 1}
        BY <1>10, <3>1, <4>1
      <4> QED BY <4>2
    <3>2. CASE ~(j + 1 <= K)  BY <3>2
    <3> QED BY <3>1, <3>2
  <2> HIDE DEF P
  <2>3. K \in P  BY <2>1, <2>2, NaturalInduction
  <2> QED BY <2>3 DEF P
<1> QED BY <1>3, <1>7, <1>11 DEF X, IsSequence

\* Concatenation of all workers' results.
LEMMA FlattenRange ==
    ASSUME NEW K \in Nat \ {0}, NEW seqs, DOMAIN seqs = 1 .. K, IsSequence(seqs),
           \A i \in 1 .. K : IsSequence(seqs[i])
    PROVE  /\ IsSequence(FlattenSeq(seqs))
           /\ Range(FlattenSeq(seqs)) = UNION {Range(seqs[i]) : i \in 1 .. K}
<1> DEFINE Step(f, i) == IF i = 1 THEN seqs[i] ELSE f[i - 1] \o seqs[i]
           Eq(f) == f = [i \in 1 .. K |-> Step(f, i)]
           X == UNION {Range(seqs[i]) : i \in 1 .. K}
<1>1. Len(seqs) = K /\ Len(seqs) # 0
  <2>1. seqs \in Seq(Range(seqs))
    BY DEF IsSequence
  <2>2. PICK m \in Nat : m = Len(seqs) /\ DOMAIN seqs = 1 .. m
    BY <2>1
  <2>3. m = K
    <3>1. 1 .. m = 1 .. K  BY <2>2
    <3>2. K \in 1 .. m /\ (m \in 1 .. K \/ m = 0)  BY <3>1
    <3> QED BY <3>2
  <2> QED BY <2>2, <2>3
<1>2. FlattenSeq(seqs) = (CHOOSE f : f = [i \in 1 .. Len(seqs) |-> Step(f, i)])[Len(seqs)]
  BY <1>1 DEF FlattenSeq
<1>3. ASSUME NEW i \in 1 .. K
      PROVE  seqs[i] \in Seq(X) /\ (i # 1 => i - 1 \in 1 .. K)
  <2>1. Range(seqs[i]) \subseteq X  OBVIOUS
  <2>2. seqs[i] \in Seq(Range(seqs[i]))
    BY DEF IsSequence
  <2> HIDE DEF X
  <2> QED BY <2>1, <2>2
<1> HIDE DEF X
<1> DEFINE Upto(f, m) == /\ f = [i \in 1 .. m |-> Step(f, i)]
                         /\ \A i \in 1 .. m : f[i] \in Seq(X)
                         /\ \A i \in 1 .. m : Range(f[i]) = UNION {Range(seqs[j]) : j \in 1 .. i}
           P == {m \in Nat : m <= K => \E f : Upto(f, m)}
<1>4. 0 \in P
  <2> DEFINE f == [i \in 1 .. 0 |-> <<>>]
  <2>1. Upto(f, 0)  OBVIOUS
  <2> HIDE DEF f, Upto
  <2> QED BY <2>1
<1>5. ASSUME NEW m \in Nat, m + 1 <= K, NEW f, Upto(f, m)
      PROVE  \E h : Upto(h, m + 1)
  <2>1. PICK k \in Nat : k = m + 1  OBVIOUS
  <2> DEFINE h == [i \in 1 .. k |-> IF i <= m THEN f[i] ELSE Step(f, i)]
  <2>2. /\ \A i \in 1 .. m : h[i] = f[i] /\ i \in 1 .. k
        /\ h[k] = Step(f, k) /\ k \in 1 .. K /\ k \in 1 .. k
    <3>1. m \in Nat /\ k \in Nat /\ K \in Nat /\ k = m + 1 /\ k <= K
      BY <1>5, <2>1
    <3>2. /\ \A i \in 1 .. m : i \in 1 .. k /\ i <= m
          /\ k \in 1 .. K /\ k \in 1 .. k /\ ~(k <= m)
      BY ONLY <3>1
    <3> HIDE DEF Step
    <3> QED BY <3>2
  <2>3. ASSUME NEW i \in 1 .. k PROVE Step(f, i) = Step(h, i)
    <3>1. i = 1 \/ (i # 1 /\ i - 1 \in 1 .. m)  BY <2>1
    <3> HIDE DEF h
    <3> QED BY <2>2, <3>1
  <2>4. \A i \in 1 .. k : h[i] = Step(f, i)
    <3>1. \A i \in 1 .. m : f[i] = Step(f, i)
      <4> DEFINE st(i) == Step(f, i)
      <4>1. f = [i \in 1 .. m |-> st(i)]  BY <1>5
      <4> HIDE DEF st
      <4>2. \A i \in 1 .. m : f[i] = st(i)  BY <4>1
      <4> QED BY <4>2 DEF st
    <3>2. \A i \in 1 .. k : (IF i <= m THEN f[i] ELSE Step(f, i)) = Step(f, i)
      <4> HIDE DEF Step
      <4> QED BY <2>1, <3>1
    <3> HIDE DEF Step
    <3> QED BY <3>2
  <2>5. h = [i \in 1 .. k |-> Step(h, i)]
    <3>1. h = [i \in 1 .. k |-> h[i]]  OBVIOUS
    <3> HIDE DEF h, Step
    <3> QED BY <2>3, <2>4, <3>1
  <2>6. h[k] \in Seq(X) /\ Range(h[k]) = UNION {Range(seqs[j]) : j \in 1 .. k}
    <3>1. CASE k = 1
      <4>1. h[k] = seqs[1] /\ 1 .. k = {1} /\ 1 \in 1 .. K
        BY <2>2, <3>1
      <4>2. UNION {Range(seqs[j]) : j \in {1}} = Range(seqs[1])
        BY Zenon
      <4> QED BY <1>3, <4>1, <4>2
    <3>2. CASE k # 1
      <4>1. m \in 1 .. m /\ k - 1 = m /\ 1 .. k = (1 .. m) \cup {k}
        BY <2>1, <3>2
      <4>2. h[k] = f[m] \o seqs[k]  BY <2>2, <3>2, <4>1
      <4>3. f[m] \in Seq(X) /\ Range(f[m]) = UNION {Range(seqs[j]) : j \in 1 .. m}
        BY <1>5, <4>1
      <4>4. seqs[k] \in Seq(X)  BY <1>3, <2>2
      <4>5. Range(f[m] \o seqs[k]) = Range(f[m]) \cup Range(seqs[k])
        BY ONLY <4>3, <4>4, ConcatRange
      <4>6. f[m] \o seqs[k] \in Seq(X)  BY ONLY <4>3, <4>4
      <4>7. UNION {Range(seqs[j]) : j \in 1 .. k} = (UNION {Range(seqs[j]) : j \in 1 .. m}) \cup Range(seqs[k])
        BY <4>1, Zenon
      <4> QED BY ONLY <4>2, <4>3, <4>5, <4>6, <4>7
    <3> QED BY <3>1, <3>2
  <2>7. \A i \in 1 .. k : i \in 1 .. m \/ i = k  BY <2>1
  <2>8. Upto(h, k)
    <3> HIDE DEF h, Step
    <3> QED BY <1>5, <2>2, <2>5, <2>6, <2>7
  <2> HIDE DEF h, Upto
  <2> QED BY <2>1, <2>8
<1>6. ASSUME NEW m \in P \cap Nat PROVE m + 1 \in P
  <2>1. CASE m + 1 <= K
    <3>1. \E f : Upto(f, m)
      <4> HIDE DEF Upto
      <4> QED BY <2>1
    <3> HIDE DEF Upto
    <3> QED BY <1>5, <2>1, <3>1
  <2>2. CASE ~(m + 1 <= K)
    <3> HIDE DEF Upto
    <3> QED BY <2>2
  <2> QED BY <2>1, <2>2
<1> HIDE DEF P
<1>7. K \in P  BY <1>4, <1>6, NaturalInduction
<1>8. PICK f : Upto(f, K)
  <2> HIDE DEF Upto
  <2> QED BY <1>7 DEF P
<1>9. Eq(f)  BY <1>8
<1>10. ASSUME NEW g, Eq(g) PROVE \A i \in 1 .. K : g[i] = f[i]
  <2> DEFINE Q == {m \in Nat : m \in 1 .. K => g[m] = f[m]}
             st(x, i) == Step(x, i)
  <2>0. \A i \in 1 .. K : g[i] = Step(g, i) /\ f[i] = Step(f, i)
    <3>1. g = [i \in 1 .. K |-> st(g, i)] /\ f = [i \in 1 .. K |-> st(f, i)]
      BY <1>9, <1>10
    <3> HIDE DEF st
    <3>2. \A i \in 1 .. K : g[i] = st(g, i) /\ f[i] = st(f, i)
      BY <3>1
    <3> QED BY <3>2 DEF st
  <2>1. 0 \in Q  OBVIOUS
  <2>2. ASSUME NEW m \in Q \cap Nat PROVE m + 1 \in Q
    <3> SUFFICES ASSUME m + 1 \in 1 .. K PROVE g[m + 1] = f[m + 1]  OBVIOUS
    <3>1. m + 1 = 1 \/ (m + 1 # 1 /\ m \in 1 .. K /\ (m + 1) - 1 = m)  OBVIOUS
    <3>2. Step(g, m + 1) = Step(f, m + 1)  BY <3>1
    <3> QED BY <2>0, <3>2
  <2> HIDE DEF Q
  <2>3. Nat \subseteq Q  BY <2>1, <2>2, NaturalInduction
  <2> QED BY <2>3 DEF Q
<1>11. FlattenSeq(seqs) = f[K]
  <2>1. FlattenSeq(seqs) = (CHOOSE g : Eq(g))[K]  BY <1>1, <1>2
  <2> HIDE DEF Eq
  <2>2. Eq(CHOOSE g : Eq(g))  BY <1>9
  <2>3. (CHOOSE g : Eq(g))[K] = f[K]
    <3>1. K \in 1 .. K  OBVIOUS
    <3> QED BY <1>10, <2>2, <3>1
  <2> QED BY <2>1, <2>3
<1>12. f[K] \in Seq(X) /\ Range(f[K]) = UNION {Range(seqs[j]) : j \in 1 .. K}
  <2>1. K \in 1 .. K  OBVIOUS
  <2> QED BY <1>8, <2>1
<1> QED BY <1>11, <1>12 DEF X, IsSequence

----------------------------------------------------------------------------
(* The results of a node on one rank *)

\* Units of a node on a rank, their items, the blocks claimed in ascending order, and the
\* outcome, the cuts that belong to the items.
UnitsOf(rt, lay, r, n) == 0 .. UnitCount(lay, n, Len(Routed(rt, r, n))) - 1
NodeItems(rt, lay, held, r, n, blocks) ==
    UNION {UnitItems(rt, lay, held, r, n, blocks, u) : u \in UnitsOf(rt, lay, r, n)}
Ascending(n) == [b \in 1 .. BlockCount(n) |-> b - 1]
OutOf(items, pos, omega) == (CHOOSE o \in items : o.pos = pos /\ o.omega = omega).out
CutFor(rt, lay, held, r, n, pos) ==
    [gen |-> Iteration, pass |-> Routed(rt, r, n)[pos + 1],
     outs |-> [omega \in 0 .. OutcomeCount(n) - 1 |->
                 OutOf(NodeItems(rt, lay, held, r, n, Ascending(n)), pos, omega)]]
LocalOf(rt, lay, held, r, n) ==
    {[fpi |-> VisitOffset(rt, r, n) + pos, cut |-> CutFor(rt, lay, held, r, n, pos)] :
        pos \in 0 .. Len(Routed(rt, r, n)) - 1}

\* A rank has no more visits of a node than passes, and no more passes than a fair share.
LEMMA RoutedBound ==
    ASSUME NEW rt, NEW n, NEW r \in Ranks
    PROVE  /\ Len(Routed(rt, r, n)) \in 0 .. TotalPasses
           /\ Len(Routed(rt, r, n)) <= TotalPasses \div NRanks + 1
<1>1. r \in Nat /\ PassesOf(r) \subseteq 0 .. TotalPasses - 1 /\ TotalPasses \in Nat
  BY PassesPartition, LayoutAssumption
<1>2. /\ PassCount(r) \in Nat /\ FirstPass(r) \in Nat
      /\ PassCount(r) <= TotalPasses \div NRanks + 1
  BY <1>1, PassSteps
<1>3. Len(Routed(rt, r, n)) \in Nat /\ Len(Routed(rt, r, n)) <= PassCount(r)
  BY <1>1, RoutedFacts
<1>4. PassCount(r) <= TotalPasses
  <2>1. CASE PassCount(r) = 0  BY <1>1, <2>1
  <2>2. CASE PassCount(r) # 0
    <3>1. FirstPass(r) + PassCount(r) - 1 \in PassesOf(r)
      BY <1>2, <2>2 DEF PassesOf
    <3>2. FirstPass(r) + PassCount(r) - 1 <= TotalPasses - 1
      BY <1>1, <3>1
    <3> QED BY <1>1, <1>2, <3>2
  <2> QED BY <2>1, <2>2
<1>5. TotalPasses \div NRanks \in Nat
  BY <1>1, LayoutAssumption, Division
<1> QED BY <1>1, <1>2, <1>3, <1>4, <1>5

\* The ascending order lists every block once.
LEMMA AscendingLists ==
    ASSUME NEW n \in Nodes, CutGenerating(n)
    PROVE  Listing(Ascending(n), BlockCount(n))
<1>1. BlockCount(n) \in Nat  BY BlockFacts
<1>2. Ascending(n) \in [1 .. BlockCount(n) -> 0 .. BlockCount(n) - 1]
  BY <1>1 DEF Ascending
<1>3. IsInjective(Ascending(n))
  BY <1>1 DEF Ascending, IsInjective
<1> QED BY <1>2, <1>3 DEF Listing

\* A run is a sequence of pairs of a routed position and an outcome of its child.
LEMMA RunsOfUnit ==
    ASSUME NEW rt, NEW n \in Nodes, CutGenerating(n), NEW lay \in Layouts, NEW r \in Ranks,
           NEW blocks, Listing(blocks, BlockCount(n)), NEW u \in UnitsOf(rt, lay, r, n),
           NEW i \in DOMAIN Children[n],
           NEW run, run = RunFor(rt, lay, r, n, blocks, u, i)
    PROVE  /\ IsSequence(run)
           /\ \A k \in DOMAIN run :
                 /\ run[k] = <<run[k][1], run[k][2]>>
                 /\ run[k][1] \in 0 .. Len(Routed(rt, r, n)) - 1
                 /\ run[k][2] \in 0 .. OutcomeCount(n) - 1
                 /\ OutcomeStart(n, i) <= run[k][2] /\ run[k][2] < OutcomeStart(n, i + 1)
                 /\ lay.kind = "byScenario" => run[k][1] = u
<1> DEFINE num == Len(Routed(rt, r, n))
<1>1. num \in 0 .. TotalPasses /\ u \in 0 .. UnitCount(lay, n, num) - 1
      /\ run = Run(lay, n, num, blocks, u, i)
  BY RoutedBound DEF UnitsOf, RunFor
<1> HIDE DEF num
<1>2. /\ \E m \in Nat : DOMAIN run = 1 .. m
      /\ \A k \in DOMAIN run :
           /\ run[k][1] \in 0 .. num - 1 /\ run[k][2] \in Nat
           /\ OutcomeStart(n, i) <= run[k][2] /\ run[k][2] < OutcomeStart(n, i + 1)
           /\ lay.kind = "byScenario" => run[k][1] = u
  BY <1>1, RunFacts
<1>3. /\ run = [k \in DOMAIN run |-> run[k]]
      /\ \A k \in DOMAIN run : run[k] = <<run[k][1], run[k][2]>>
  <2>1. run = [k \in DOMAIN run |-> run[k]]
    BY <1>1 DEF Run
  <2>2. CASE lay.kind = "byScenario"
    <3>1. run = [k \in 1 .. Openings[Children[n][i]] |-> <<u, OutcomeStart(n, i) + SolveOrder[Children[n][i]][k]>>]
      BY <1>1, <2>2 DEF Run
    <3>2. \A k \in DOMAIN run : run[k] = <<u, OutcomeStart(n, i) + SolveOrder[Children[n][i]][k]>>
      BY <3>1
    <3> QED BY <2>1, <3>2
  <2>3. CASE lay.kind = "byNode"
    <3>1. \A k \in DOMAIN run : \E a, b : run[k] = <<a, b>>
      <4> SUFFICES ASSUME NEW k \in DOMAIN run PROVE \E a, b : run[k] = <<a, b>>  OBVIOUS
      <4>1. k \in DOMAIN Run(lay, n, num, blocks, u, i)  BY <1>1
      <4>2. PICK place \in 0 .. num - 1, g \in Nat :
               Run(lay, n, num, blocks, u, i)[k] = CellAt(lay, n, num, i, place, g)
        <5>1. \E place \in 0 .. num - 1, g \in Nat :
              /\ OutcomeStart(n, i) <= g /\ g < OutcomeStart(n, i + 1)
              /\ g \div BlockLen(n) = Block(lay, num, blocks, u)
              /\ place \div lay.points = u % Tiles(lay, num)
              /\ Run(lay, n, num, blocks, u, i)[k] = CellAt(lay, n, num, i, place, g)
              /\ k = (g - FirstOpening(lay, n, num, blocks, u, i)) * Width(lay, num, u)
                       + Turned(g - FirstOpening(lay, n, num, blocks, u, i),
                                place - Low(lay, num, u), Width(lay, num, u)) + 1
          BY ONLY <1>1, <2>3, <4>1, n \in Nodes, CutGenerating(n), lay \in Layouts,
                  Listing(blocks, BlockCount(n)), i \in DOMAIN Children[n], RunForward
        <5> QED BY <5>1, Zenon
      <4> QED BY <1>1, <4>2, Zenon DEF CellAt
    <3>2. \A k \in DOMAIN run : run[k] = <<run[k][1], run[k][2]>>
      BY <3>1
    <3> QED BY <2>1, <3>2
  <2> QED BY <2>2, <2>3, TileFacts
<1>4. IsSequence(run)  BY <1>2, <1>3, SequenceShape
<1>5. OutcomeStart(n, i + 1) \in Nat /\ OutcomeStart(n, i + 1) <= OutcomeCount(n) /\ OutcomeCount(n) \in Nat
  BY ChildOutcomes, OutcomeSplit
<1>6. \A k \in DOMAIN run : run[k][2] \in 0 .. OutcomeCount(n) - 1
  BY <1>2, <1>5
<1> QED BY <1>2, <1>3, <1>4, <1>6 DEF num

\* Every trial point and outcome has one item, in one unit.
LEMMA ItemsExact ==
    ASSUME NEW rt, NEW n \in Nodes, CutGenerating(n), NEW lay \in Layouts, NEW held, NEW r \in Ranks,
           NEW blocks, Listing(blocks, BlockCount(n))
    PROVE  /\ \A u \in UnitsOf(rt, lay, r, n) : \A o \in UnitItems(rt, lay, held, r, n, blocks, u) :
                 /\ o.pos \in 0 .. Len(Routed(rt, r, n)) - 1
                 /\ o.omega \in 0 .. OutcomeCount(n) - 1
                 /\ lay.kind = "byScenario" => o.pos = u
           /\ \A pos \in 0 .. Len(Routed(rt, r, n)) - 1, omega \in 0 .. OutcomeCount(n) - 1 :
                 \E o \in NodeItems(rt, lay, held, r, n, blocks) : o.pos = pos /\ o.omega = omega
           /\ \A o, p \in NodeItems(rt, lay, held, r, n, blocks) :
                 o.pos = p.pos /\ o.omega = p.omega => o = p
<1> DEFINE num == Len(Routed(rt, r, n))
           rd == Routed(rt, r, n)
           Rn(u, i) == RunFor(rt, lay, r, n, blocks, u, i)
<1>1. num \in 0 .. TotalPasses  BY RoutedBound
<1>2. ASSUME NEW u \in UnitsOf(rt, lay, r, n), NEW o \in UnitItems(rt, lay, held, r, n, blocks, u)
      PROVE  \E i \in DOMAIN Children[n] : \E k \in DOMAIN Rn(u, i) :
                o = ItemOf(rd, held[i], Rn(u, i), k) /\ Rn(u, i)[k] = <<o.pos, o.omega>>
  <2>1. PICK i \in DOMAIN Children[n] : o \in RunItems(rd, held[i], Rn(u, i))
    BY DEF UnitItems
  <2>2. PICK k \in DOMAIN Rn(u, i) : o = ItemOf(rd, held[i], Rn(u, i), k)
    BY <2>1 DEF RunItems
  <2>3. o.pos = Rn(u, i)[k][1] /\ o.omega = Rn(u, i)[k][2]
    BY <2>2 DEF ItemOf
  <2>4. Rn(u, i)[k] = <<Rn(u, i)[k][1], Rn(u, i)[k][2]>>
    <3> HIDE DEF Rn
    <3>1. PICK run : run = Rn(u, i)  OBVIOUS
    <3>2. \A j \in DOMAIN run : run[j] = <<run[j][1], run[j][2]>>
      BY <3>1, RunsOfUnit DEF Rn
    <3> QED BY <3>1, <3>2
  <2> QED BY <2>2, <2>3, <2>4
<1>3. ASSUME NEW u \in UnitsOf(rt, lay, r, n), NEW o \in UnitItems(rt, lay, held, r, n, blocks, u)
      PROVE  /\ o.pos \in 0 .. num - 1
             /\ o.omega \in 0 .. OutcomeCount(n) - 1
             /\ lay.kind = "byScenario" => o.pos = u
  <2>1. PICK i \in DOMAIN Children[n] : \E k \in DOMAIN Rn(u, i) : Rn(u, i)[k] = <<o.pos, o.omega>>
    BY <1>2
  <2>2. PICK run : run = Rn(u, i)  OBVIOUS
  <2>3. PICK k \in DOMAIN run : run[k] = <<o.pos, o.omega>>
    BY <2>1, <2>2
  <2>4. /\ run[k][1] \in 0 .. num - 1
        /\ run[k][2] \in 0 .. OutcomeCount(n) - 1
        /\ lay.kind = "byScenario" => run[k][1] = u
    BY <2>2, <2>3, RunsOfUnit
  <2>5. run[k][1] = o.pos /\ run[k][2] = o.omega  BY <2>3
  <2> QED BY <2>4, <2>5
<1>4. ASSUME NEW pos \in 0 .. num - 1, NEW omega \in 0 .. OutcomeCount(n) - 1
      PROVE  \E o \in NodeItems(rt, lay, held, r, n, blocks) : o.pos = pos /\ o.omega = omega
  <2>1. \E u \in 0 .. UnitCount(lay, n, num) - 1, i \in DOMAIN Children[n] :
           \E k \in DOMAIN Run(lay, n, num, blocks, u, i) :
              Run(lay, n, num, blocks, u, i)[k] = <<pos, omega>>
    <3> HIDE DEF num
    <3> QED BY <1>1, RunsCover
  <2>2. PICK u \in UnitsOf(rt, lay, r, n), i \in DOMAIN Children[n] :
           \E k \in DOMAIN Rn(u, i) : Rn(u, i)[k] = <<pos, omega>>
    BY <2>1, Zenon DEF UnitsOf, RunFor
  <2>3. PICK k \in DOMAIN Rn(u, i) : Rn(u, i)[k] = <<pos, omega>>
    BY <2>2
  <2> DEFINE o == ItemOf(rd, held[i], Rn(u, i), k)
  <2>4. o.pos = pos /\ o.omega = omega
    <3>1. o.pos = Rn(u, i)[k][1] /\ o.omega = Rn(u, i)[k][2]
      BY DEF ItemOf
    <3> HIDE DEF Rn, o
    <3> QED BY <2>3, <3>1
  <2>5. o \in RunItems(rd, held[i], Rn(u, i))
    BY <2>3, Zenon DEF RunItems
  <2>6. o \in UnitItems(rt, lay, held, r, n, blocks, u)
    <3> HIDE DEF o
    <3> QED BY <2>5, Zenon DEF UnitItems
  <2>7. o \in NodeItems(rt, lay, held, r, n, blocks)
    <3> HIDE DEF o
    <3> QED BY <2>6, Zenon DEF NodeItems
  <2> HIDE DEF o
  <2> QED BY <2>4, <2>7
<1>5. ASSUME NEW o \in NodeItems(rt, lay, held, r, n, blocks),
             NEW p \in NodeItems(rt, lay, held, r, n, blocks), o.pos = p.pos, o.omega = p.omega
      PROVE  o = p
  <2>1. PICK u \in UnitsOf(rt, lay, r, n) : o \in UnitItems(rt, lay, held, r, n, blocks, u)
    BY DEF NodeItems
  <2>2. PICK v \in UnitsOf(rt, lay, r, n) : p \in UnitItems(rt, lay, held, r, n, blocks, v)
    BY DEF NodeItems
  <2>3. PICK i \in DOMAIN Children[n] : \E k \in DOMAIN Rn(u, i) :
           o = ItemOf(rd, held[i], Rn(u, i), k) /\ Rn(u, i)[k] = <<o.pos, o.omega>>
    BY <1>2, <2>1
  <2>4. PICK k \in DOMAIN Rn(u, i) :
           o = ItemOf(rd, held[i], Rn(u, i), k) /\ Rn(u, i)[k] = <<o.pos, o.omega>>
    BY <2>3
  <2>5. PICK j \in DOMAIN Children[n] : \E l \in DOMAIN Rn(v, j) :
           p = ItemOf(rd, held[j], Rn(v, j), l) /\ Rn(v, j)[l] = <<p.pos, p.omega>>
    BY <1>2, <2>2
  <2>6. PICK l \in DOMAIN Rn(v, j) :
           p = ItemOf(rd, held[j], Rn(v, j), l) /\ Rn(v, j)[l] = <<p.pos, p.omega>>
    BY <2>5
  <2>7. Rn(u, i)[k] = Rn(v, j)[l]  BY <1>5, <2>4, <2>6
  <2>8. u = v /\ i = j /\ k = l
    <3>1. u \in 0 .. UnitCount(lay, n, num) - 1 /\ v \in 0 .. UnitCount(lay, n, num) - 1
      BY DEF UnitsOf
    <3>2. /\ k \in DOMAIN Run(lay, n, num, blocks, u, i) /\ l \in DOMAIN Run(lay, n, num, blocks, v, j)
          /\ Run(lay, n, num, blocks, u, i)[k] = Run(lay, n, num, blocks, v, j)[l]
      BY <2>7 DEF RunFor
    <3> HIDE DEF num, Rn
    <3> QED BY <1>1, <3>1, <3>2, RunsDiffer
  <2> QED BY <2>4, <2>6, <2>8
<1> QED BY <1>3, <1>4, <1>5

\* The claim order of the blocks does not matter.
LEMMA ItemsRelabelled ==
    ASSUME NEW rt, NEW n \in Nodes, CutGenerating(n), NEW lay \in Layouts, NEW held, NEW r \in Ranks,
           NEW blocks, Listing(blocks, BlockCount(n)), NEW others, Listing(others, BlockCount(n))
    PROVE  NodeItems(rt, lay, held, r, n, blocks) = NodeItems(rt, lay, held, r, n, others)
<1> DEFINE num == Len(Routed(rt, r, n))
<1>1. ASSUME NEW from, Listing(from, BlockCount(n)), NEW to, Listing(to, BlockCount(n)),
             NEW u \in UnitsOf(rt, lay, r, n)
      PROVE  \E v \in UnitsOf(rt, lay, r, n) :
                UnitItems(rt, lay, held, r, n, from, u) = UnitItems(rt, lay, held, r, n, to, v)
  <2>1. num \in 0 .. TotalPasses /\ u \in 0 .. UnitCount(lay, n, num) - 1
    BY RoutedBound DEF UnitsOf
  <2>2. \E v \in 0 .. UnitCount(lay, n, num) - 1 : \A i \in DOMAIN Children[n] :
           Run(lay, n, num, from, u, i) = Run(lay, n, num, to, v, i)
    <3> HIDE DEF num
    <3> QED BY <1>1, <2>1, RunsRelabelled
  <2>3. PICK v \in UnitsOf(rt, lay, r, n) : \A i \in DOMAIN Children[n] :
           RunFor(rt, lay, r, n, from, u, i) = RunFor(rt, lay, r, n, to, v, i)
    BY <2>2, Zenon DEF UnitsOf, RunFor
  <2>4. UnitItems(rt, lay, held, r, n, from, u) = UnitItems(rt, lay, held, r, n, to, v)
    <3> DEFINE A(i) == RunItems(Routed(rt, r, n), held[i], RunFor(rt, lay, r, n, from, u, i))
               B(i) == RunItems(Routed(rt, r, n), held[i], RunFor(rt, lay, r, n, to, v, i))
    <3>1. \A i \in DOMAIN Children[n] : A(i) = B(i)  BY <2>3
    <3> HIDE DEF A, B
    <3>2. UNION {A(i) : i \in DOMAIN Children[n]} = UNION {B(i) : i \in DOMAIN Children[n]}
      BY <3>1
    <3> QED BY <3>2 DEF UnitItems, A, B
  <2> QED BY <2>4
<1>2. \A u \in UnitsOf(rt, lay, r, n) : \E v \in UnitsOf(rt, lay, r, n) :
          UnitItems(rt, lay, held, r, n, blocks, u) = UnitItems(rt, lay, held, r, n, others, v)
  BY <1>1
<1>3. \A u \in UnitsOf(rt, lay, r, n) : \E v \in UnitsOf(rt, lay, r, n) :
          UnitItems(rt, lay, held, r, n, others, u) = UnitItems(rt, lay, held, r, n, blocks, v)
  BY <1>1
<1> QED BY <1>2, <1>3, Zenon DEF NodeItems

\* What a worker keeps of a unit.
Kept(rt, lay, held, r, n, blocks, u) ==
    IF lay.kind = "byNode" THEN UnitItems(rt, lay, held, r, n, blocks, u)
    ELSE {[pos |-> u,
           outs |-> [omega \in 0 .. OutcomeCount(n) - 1 |->
                       (CHOOSE o \in UnitItems(rt, lay, held, r, n, blocks, u) : o.omega = omega).out]]}

\* What a worker puts in its buffer after a unit is what the unit stands for, whatever worker ran it.
LEMMA StagedKept ==
    ASSUME layout \in Layouts, NEW n \in Nodes, CutGenerating(n), NEW r \in Ranks,
           Listing(order[r], BlockCount(n)), NEW u \in UnitsOf(route, layout, r, n), NEW s,
           NEW kept, kept = Staged(n, u, SolveUnit(r, n, u, s).outs)
    PROVE  /\ IsSequence(kept)
           /\ Range(kept) = Kept(route, layout, Held(r, n), r, n, order[r], u)
<1> DEFINE outs == SolveUnit(r, n, u, s).outs
           X == UnitItems(route, layout, Held(r, n), r, n, order[r], u)
<1>1. outs \in Seq(X) /\ Range(outs) = X
  <2>1. \A i \in DOMAIN Children[n] : IsSequence(RunFor(route, layout, r, n, order[r], u, i))
    BY RunsOfUnit
  <2> QED BY <2>1, UnitSolved
<1> HIDE DEF outs, X
<1>2. CASE layout.kind = "byNode"
  <2>1. kept = outs
    BY <1>2 DEF Staged, outs
  <2> QED BY <1>1, <1>2, <2>1 DEF Kept, IsSequence, X
<1>3. CASE layout.kind # "byNode"
  <2> DEFINE c == [pos |-> u, outs |-> [omega \in 0 .. OutcomeCount(n) - 1 |->
                                          (CHOOSE o \in X : o.omega = omega).out]]
  <2>1. kept = <<c>>
    <3>1. kept = <<[pos |-> u, outs |-> [omega \in 0 .. OutcomeCount(n) - 1 |->
                                          (CHOOSE o \in Range(outs) : o.omega = omega).out]]>>
      BY <1>3 DEF Staged, outs
    <3> QED BY <1>1, <3>1
  <2>2. Kept(route, layout, Held(r, n), r, n, order[r], u) = {c}
    BY <1>3 DEF Kept, X
  <2> HIDE DEF c
  <2>3. DOMAIN kept = {1} /\ kept[1] = c /\ kept \in Seq({c})
    BY <2>1
  <2>4. Range(kept) = {c}
    BY <2>3 DEF Range
  <2> QED BY <2>2, <2>3, <2>4 DEF IsSequence
<1> QED BY <1>2, <1>3

\* Places of the arena.
LEMMA ArenaPlaces ==
    ASSUME NEW rt, NEW n \in Nodes, CutGenerating(n), NEW r \in Ranks,
           NEW pos \in 0 .. Len(Routed(rt, r, n)) - 1, NEW omega \in 0 .. OutcomeCount(n) - 1
    PROVE  /\ ArenaIndex(n, pos, omega) \in 0 .. ArenaLen - 1
           /\ \A p \in Nat, x \in 0 .. OutcomeCount(n) - 1 :
                 ArenaIndex(n, p, x) = ArenaIndex(n, pos, omega) => p = pos /\ x = omega
<1>1. OutcomeCount(n) \in Nat \ {0}
  <2>1. PICK K : K = Len(Children[n])  OBVIOUS
  <2>2. OutcomeCount(n) \in Nat /\ (CutGenerating(n) => K > 0 /\ OutcomeCount(n) > 0)
    BY <2>1, OutcomeFacts
  <2> QED BY <2>2
<1>2. PICK q \in Nat : q = TotalPasses \div NRanks /\ pos \in Nat /\ pos <= q
  <2>1. TotalPasses \div NRanks \in Nat
    BY LayoutAssumption, Division
  <2>2. Len(Routed(rt, r, n)) \in 0 .. TotalPasses /\ Len(Routed(rt, r, n)) <= TotalPasses \div NRanks + 1
        /\ TotalPasses \in Nat
    BY RoutedBound, LayoutAssumption
  <2> QED BY <2>1, <2>2
<1> DEFINE f == [m \in Nodes |-> OutcomeCount(m)]
           S == {OutcomeCount(m) : m \in Nodes}
<1>3. PICK M \in Nat : M = Max(S) /\ OutcomeCount(n) <= M
  <2>1. \A m \in Nodes : OutcomeCount(m) \in Nat  BY OutcomeSplit
  <2>2. IsFiniteSet(S)
    <3>1. f \in Surjection(Nodes, S)
      <4>1. f \in [Nodes -> S] /\ \A y \in S : \E m \in Nodes : f[m] = y  OBVIOUS
      <4> HIDE DEF f, S
      <4> QED BY <4>1 DEF Surjection
    <3> HIDE DEF f, S
    <3> QED BY <3>1, GraphAssumption, FS_Surjection
  <2>3. S \in SUBSET Int /\ S # {} /\ OutcomeCount(n) \in S /\ S \subseteq Nat
    BY <2>1
  <2> HIDE DEF S
  <2>4. Max(S) \in S /\ \A x \in S : x <= Max(S)
    BY <2>2, <2>3, GreatestInteger
  <2> QED BY <2>3, <2>4
<1>4. ArenaLen = (q + 1) * M
  BY <1>2, <1>3 DEF ArenaLen
<1>5. PICK oc \in Nat \ {0} : oc = OutcomeCount(n)  BY <1>1
<1>6. omega \in Nat /\ omega < oc  BY <1>5
<1>7. pos * oc + omega \in 0 .. (q + 1) * M - 1
  <2>1. /\ pos + 1 <= q + 1 => (pos + 1) * oc <= (q + 1) * oc
        /\ pos + 1 \in Int /\ q + 1 \in Int
    <3>1. pos + 1 \in Int /\ q + 1 \in Int /\ oc \in Nat  BY <1>2
    <3> QED BY ONLY <3>1, Products
  <2>2. oc * (q + 1) <= M * (q + 1)
    <3>1. oc \in Int /\ M \in Int /\ q + 1 \in Nat /\ oc <= M
      BY <1>3, <1>5
    <3> QED BY ONLY <3>1, Products
  <2>3. (pos + 1) * oc = pos * oc + oc /\ (q + 1) * oc = oc * (q + 1) /\ M * (q + 1) = (q + 1) * M
        /\ pos * oc \in Nat
    BY <1>2
  <2>4. PICK a \in Nat, b \in Int : a = pos * oc /\ b = (q + 1) * M
    <3>1. q + 1 \in Int /\ M \in Int  BY <1>2, <1>3
    <3>2. (q + 1) * M \in Int  BY ONLY <3>1
    <3> QED BY <2>3, <3>2
  <2>5. a + oc <= b
    <3>1. pos + 1 <= q + 1  BY <1>2
    <3>2. (q + 1) * oc \in Int  BY <1>2
    <3>3. a + oc <= (q + 1) * oc /\ (q + 1) * oc <= b
      BY <2>1, <2>2, <2>3, <2>4, <3>1
    <3>4. PICK e \in Int : e = (q + 1) * oc  BY <3>2
    <3> QED BY ONLY <3>3, <3>4, a \in Nat, b \in Int, oc \in Nat \ {0}
  <2>6. a + omega \in 0 .. b - 1
    BY ONLY <2>5, <1>6, a \in Nat, b \in Int, oc \in Nat \ {0}
  <2> QED BY <2>4, <2>6
<1>8. ASSUME NEW p \in Nat, NEW x \in 0 .. OutcomeCount(n) - 1, p * oc + x = pos * oc + omega
      PROVE  p = pos /\ x = omega
  <2>1. x \in 0 .. oc - 1 /\ omega \in 0 .. oc - 1 /\ pos \in Nat
    BY <1>2, <1>5
  <2>2. (p * oc + x) \div oc = p /\ (p * oc + x) % oc = x
    BY ONLY <2>1, p \in Nat, oc \in Nat \ {0}, DivisionUnique
  <2>3. (pos * oc + omega) \div oc = pos /\ (pos * oc + omega) % oc = omega
    BY ONLY <2>1, oc \in Nat \ {0}, DivisionUnique
  <2> QED BY <1>8, <2>2, <2>3
<1> QED BY <1>4, <1>5, <1>7, <1>8 DEF ArenaIndex

\* A chosen element that is the only one.
LEMMA OnlyOne ==
    ASSUME NEW items, NEW pos, NEW omega, NEW x \in items, x.pos = pos, x.omega = omega,
           \A o, p \in items : o.pos = p.pos /\ o.omega = p.omega => o = p
    PROVE  OutOf(items, pos, omega) = x.out
<1>1. \A o \in items : o.pos = pos /\ o.omega = omega => o = x  OBVIOUS
<1>2. (CHOOSE o \in items : o.pos = pos /\ o.omega = omega) = x
  BY <1>1
<1> QED BY <1>2 DEF OutOf

\* The merge of a node's results does not depend on who solved what.
LEMMA MergedOutcomes ==
    ASSUME layout \in Layouts, NEW n \in Nodes, CutGenerating(n), NEW r \in Ranks,
           Listing(order[r], BlockCount(n)),
           NEW items, items = FlattenSeq(buffer[r]), IsSequence(items),
           Range(items) = UNION {Kept(route, layout, Held(r, n), r, n, order[r], u) :
                                    u \in UnitsOf(route, layout, r, n)},
           DOMAIN arena[r] = 0 .. ArenaLen - 1,
           NEW pos \in 0 .. Len(Routed(route, r, n)) - 1
    PROVE  Aggregated(r, n, pos) = CutFor(route, layout, Held(r, n), r, n, pos).outs
<1> DEFINE I == NodeItems(route, layout, Held(r, n), r, n, order[r])
           J == NodeItems(route, layout, Held(r, n), r, n, Ascending(n))
           U(u) == UnitItems(route, layout, Held(r, n), r, n, order[r], u)
<1>1. I = J  BY AscendingLists, ItemsRelabelled
<1>2. /\ \A u \in UnitsOf(route, layout, r, n) : \A o \in U(u) :
            /\ o.pos \in 0 .. Len(Routed(route, r, n)) - 1
            /\ o.omega \in 0 .. OutcomeCount(n) - 1
            /\ layout.kind = "byScenario" => o.pos = u
      /\ \A p \in 0 .. Len(Routed(route, r, n)) - 1, x \in 0 .. OutcomeCount(n) - 1 :
            \E o \in I : o.pos = p /\ o.omega = x
      /\ \A o, p \in I : o.pos = p.pos /\ o.omega = p.omega => o = p
  BY ItemsExact
<1>3. \A o : o \in I <=> \E u \in UnitsOf(route, layout, r, n) : o \in U(u)
  BY DEF NodeItems
<1>4. CutFor(route, layout, Held(r, n), r, n, pos).outs =
        [omega \in 0 .. OutcomeCount(n) - 1 |-> OutOf(J, pos, omega)]
  BY DEF CutFor
<1> HIDE DEF I, J, U
<1>5. CASE layout.kind = "byNode"
  <2>1. Range(items) = I
    <3>1. \A u \in UnitsOf(route, layout, r, n) :
             Kept(route, layout, Held(r, n), r, n, order[r], u) = U(u)
      BY <1>5 DEF Kept, U
    <3> QED BY <1>3, <3>1
  <2>2. ASSUME NEW omega \in 0 .. OutcomeCount(n) - 1
        PROVE  Scatter(r, n)[ArenaIndex(n, pos, omega)] = OutOf(J, pos, omega)
    <3>1. PICK x \in I : x.pos = pos /\ x.omega = omega  BY <1>2
    <3> DEFINE k == ArenaIndex(n, pos, omega)
               W == {j \in DOMAIN items : ArenaIndex(n, items[j].pos, items[j].omega) = k}
    <3>2. k \in DOMAIN arena[r]  BY ArenaPlaces
    <3>3. Scatter(r, n)[k] = IF W = {} THEN arena[r][k] ELSE items[Max(W)].out
      <4> DEFINE writes(l) == {j \in DOMAIN items : ArenaIndex(n, items[j].pos, items[j].omega) = l}
      <4>1. Scatter(r, n) = [l \in DOMAIN arena[r] |->
               IF writes(l) = {} THEN arena[r][l] ELSE items[Max(writes(l))].out]
        BY Zenon DEF Scatter
      <4>2. writes(k) = W  OBVIOUS
      <4> HIDE DEF writes, k, W
      <4> QED BY <3>2, <4>1, <4>2
    <3>4. \A j \in DOMAIN items : items[j] \in I
      BY <2>1 DEF Range
    <3>5. PICK j \in DOMAIN items : items[j] = x
      BY <2>1, <3>1 DEF Range
    <3>6. j \in W  BY <3>1, <3>5
    <3>7. Max(W) \in W
      <4>1. \E m \in Nat : DOMAIN items = 1 .. m  BY SequenceShape
      <4>2. PICK m \in Nat : DOMAIN items = 1 .. m  BY <4>1
      <4>3. W \in SUBSET (1 .. m) /\ W \in SUBSET Int /\ IsFiniteSet(1 .. m)
        BY <4>2, FS_Interval
      <4> HIDE DEF W
      <4>4. IsFiniteSet(W)  BY <4>3, FS_Subset
      <4> QED BY <3>6, <4>3, <4>4, GreatestInteger
    <3>8. items[Max(W)] = x
      <4>1. PICK l \in DOMAIN items : l = Max(W) /\ ArenaIndex(n, items[l].pos, items[l].omega) = k
        BY <3>7
      <4>2. PICK u \in UnitsOf(route, layout, r, n) : items[l] \in U(u)
        BY <1>3, <3>4
      <4>3. items[l].pos \in Nat /\ items[l].omega \in 0 .. OutcomeCount(n) - 1
        <5>1. items[l].pos \in 0 .. Len(Routed(route, r, n)) - 1
          BY <1>2, <4>2
        <5> QED BY <1>2, <4>2, <5>1
      <4>4. items[l].pos = pos /\ items[l].omega = omega
        <5>1. items[l].pos \in Nat /\ items[l].omega \in 0 .. OutcomeCount(n) - 1
              /\ ArenaIndex(n, items[l].pos, items[l].omega) = ArenaIndex(n, pos, omega)
          BY <4>1, <4>3
        <5>2. \A p \in Nat, x2 \in 0 .. OutcomeCount(n) - 1 :
                 ArenaIndex(n, p, x2) = ArenaIndex(n, pos, omega) => p = pos /\ x2 = omega
          <6>1. /\ n \in Nodes /\ CutGenerating(n) /\ r \in Ranks
                /\ pos \in 0 .. Len(Routed(route, r, n)) - 1 /\ omega \in 0 .. OutcomeCount(n) - 1
            OBVIOUS
          <6> QED BY ONLY <6>1, ArenaPlaces, SMTT(20)
        <5> QED BY ONLY <5>1, <5>2, Zenon
      <4> QED BY <1>2, <3>1, <3>4, <4>1, <4>4
    <3>9. OutOf(I, pos, omega) = x.out
      <4> HIDE DEF k, W
      <4> QED BY <1>2, <3>1, OnlyOne
    <3> HIDE DEF k, W
    <3>10. Scatter(r, n)[k] = x.out  BY <3>3, <3>6, <3>8
    <3> QED BY <1>1, <3>9, <3>10 DEF k
  <2>3. Aggregated(r, n, pos) =
          [omega \in 0 .. OutcomeCount(n) - 1 |-> Scatter(r, n)[ArenaIndex(n, pos, omega)]]
    BY <1>5 DEF Aggregated
  <2> QED BY <1>4, <2>2, <2>3
<1>6. CASE layout.kind = "byScenario"
  <2> DEFINE c(u) == [pos |-> u, outs |-> [omega \in 0 .. OutcomeCount(n) - 1 |->
                                             (CHOOSE o \in U(u) : o.omega = omega).out]]
  <2>1. Range(items) = {c(u) : u \in UnitsOf(route, layout, r, n)}
    <3>1. \A u \in UnitsOf(route, layout, r, n) :
             Kept(route, layout, Held(r, n), r, n, order[r], u) = {c(u)}
      BY <1>6 DEF Kept, U
    <3> HIDE DEF c
    <3> QED BY <3>1
  <2>2. pos \in UnitsOf(route, layout, r, n)
    BY <1>6 DEF UnitsOf, UnitCount
  <2>3. (CHOOSE p \in Range(items) : p.pos = pos) = c(pos)
    <3>1. c(pos) \in Range(items) /\ c(pos).pos = pos
      <4>1. c(pos).pos = pos  OBVIOUS
      <4> HIDE DEF c
      <4> QED BY <2>1, <2>2, <4>1
    <3>2. \A p \in Range(items) : p.pos = pos => p = c(pos)
      <4>1. \A u : c(u).pos = u  OBVIOUS
      <4> HIDE DEF c
      <4> QED BY <2>1, <4>1
    <3> HIDE DEF c
    <3> QED BY <3>1, <3>2
  <2>4. Aggregated(r, n, pos) = c(pos).outs
    <3>1. Aggregated(r, n, pos) = (CHOOSE p \in Range(items) : p.pos = pos).outs
      BY <1>6 DEF Aggregated
    <3> HIDE DEF c
    <3> QED BY <2>3, <3>1
  <2>5. ASSUME NEW omega \in 0 .. OutcomeCount(n) - 1
        PROVE  (CHOOSE o \in U(pos) : o.omega = omega).out = OutOf(J, pos, omega)
    <3>1. PICK x \in I : x.pos = pos /\ x.omega = omega  BY <1>2
    <3>2. PICK u \in UnitsOf(route, layout, r, n) : x \in U(u)
      BY <1>3, <3>1
    <3>3. x \in U(pos)  BY <1>2, <1>6, <3>1, <3>2
    <3>4. \A o \in U(pos) : o.omega = omega => o = x
      <4> SUFFICES ASSUME NEW o \in U(pos), o.omega = omega PROVE o = x  OBVIOUS
      <4>1. o.pos = pos /\ o \in I  BY <1>2, <1>3, <1>6, <2>2
      <4> QED BY <1>2, <3>1, <4>1
    <3>5. (CHOOSE o \in U(pos) : o.omega = omega) = x
      BY <3>1, <3>3, <3>4
    <3>6. OutOf(I, pos, omega) = x.out  BY <1>2, <3>1, OnlyOne
    <3> QED BY <1>1, <3>5, <3>6
  <2>6. c(pos).outs = [omega \in 0 .. OutcomeCount(n) - 1 |-> (CHOOSE o \in U(pos) : o.omega = omega).out]
    OBVIOUS
  <2> HIDE DEF c
  <2> QED BY <1>4, <2>4, <2>5, <2>6
<1> QED BY <1>5, <1>6, TileFacts, LayoutAssumption

----------------------------------------------------------------------------
(* Cuts in slots *)

\* New cuts with distinct forward pass indices.
Numbered(cuts) ==
    /\ \A c \in cuts : c.fpi \in Nat /\ c.cut.gen = Iteration /\ c = [fpi |-> c.fpi, cut |-> c.cut]
    /\ \A c, d \in cuts : c.fpi = d.fpi => c = d

\* A function, and nothing else.
IsFunction(f) == f = [x \in DOMAIN f |-> f[x]]

\* Cuts of one iteration with different forward pass indices take different slots.
LEMMA SlotFacts ==
    ASSUME NEW n \in Nodes
    PROVE  /\ VisitStride[n] \in Nat
           /\ \A f \in Nat : SlotIndex(n, Iteration, f) = VisitStride[n] + f
           /\ \A f, g \in Nat : SlotIndex(n, Iteration, f) = SlotIndex(n, Iteration, g) => f = g
<1>1. VisitStride[n] \in Nat  BY OrderAssumption
<1>2. \A f \in Nat : SlotIndex(n, Iteration, f) = VisitStride[n] + f
  BY <1>1 DEF SlotIndex, Iteration
<1> QED BY <1>1, <1>2

\* A pool with new cuts holds each in its slot, and elsewhere what it held.
LEMMA WithCutsFacts ==
    ASSUME NEW n \in Nodes, NEW cuts, Numbered(cuts), NEW held, NEW f, f = WithCuts(held, n, cuts)
    PROVE  /\ IsFunction(f)
           /\ \A s : s \in DOMAIN f <=> s \in DOMAIN held \/ \E c \in cuts : SlotIndex(n, Iteration, c.fpi) = s
           /\ \A c \in cuts : f[SlotIndex(n, Iteration, c.fpi)] = c.cut
           /\ \A s \in DOMAIN held :
                 (\A c \in cuts : SlotIndex(n, Iteration, c.fpi) # s) => f[s] = held[s]
<1> DEFINE slot(c) == SlotIndex(n, c.cut.gen, c.fpi)
           at(c) == SlotIndex(n, Iteration, c.fpi)
           D == DOMAIN held \cup {slot(c) : c \in cuts}
           val(s) == IF \E c \in cuts : slot(c) = s
                     THEN (CHOOSE c \in cuts : slot(c) = s).cut ELSE held[s]
<1>1. \A c \in cuts : slot(c) = at(c)
  BY DEF Numbered
<1>2. \A c, d \in cuts : slot(c) = slot(d) => c = d
  BY <1>1, SlotFacts DEF Numbered
<1>3. f = [s \in D |-> val(s)]
  BY Zenon DEF WithCuts
<1>4. D = DOMAIN held \cup {at(c) : c \in cuts}
  <2> HIDE DEF slot, at
  <2> QED BY <1>1
<1>5. ASSUME NEW c \in cuts PROVE val(slot(c)) = c.cut
  <2>1. (CHOOSE d \in cuts : slot(d) = slot(c)) = c
    <3> HIDE DEF slot
    <3> QED BY <1>2
  <2> HIDE DEF slot
  <2> QED BY <2>1
<1>6. ASSUME NEW s, \A c \in cuts : at(c) # s PROVE val(s) = held[s]
  <2> HIDE DEF slot, at
  <2> QED BY <1>1, <1>6
<1>7. \A c \in cuts : at(c) \in D
  <2> HIDE DEF at
  <2> QED BY <1>4
<1> HIDE DEF val, D
<1>8. IsFunction(f) /\ DOMAIN f = D /\ \A s \in D : f[s] = val(s)
  BY <1>3 DEF IsFunction
<1>9. ASSUME NEW c \in cuts PROVE f[at(c)] = c.cut
  <2>1. f[at(c)] = val(at(c)) /\ val(slot(c)) = c.cut /\ slot(c) = at(c)
    BY <1>1, <1>5, <1>7, <1>8
  <2> HIDE DEF slot, at
  <2> QED BY <2>1
<1>10. ASSUME NEW s \in DOMAIN held, \A c \in cuts : at(c) # s PROVE f[s] = held[s]
  <2>1. s \in D
    BY DEF D
  <2> QED BY <1>6, <1>8, <1>10, <2>1
<1>11. \A s : s \in D <=> s \in DOMAIN held \/ \E c \in cuts : at(c) = s
  <2> HIDE DEF at
  <2> QED BY <1>4
<1> QED BY <1>8, <1>9, <1>10, <1>11

\* Functions that agree are equal.
LEMMA SameFunction ==
    ASSUME NEW f, NEW g, IsFunction(f), IsFunction(g), DOMAIN f = DOMAIN g,
           \A x \in DOMAIN f : f[x] = g[x]
    PROVE  f = g
BY DEF IsFunction

\* No cut, no change.
LEMMA WithNone ==
    ASSUME NEW n \in Nodes, NEW held, IsFunction(held)
    PROVE  WithCuts(held, n, {}) = held
<1>1. Numbered({})
  BY DEF Numbered
<1>2. PICK f : f = WithCuts(held, n, {})  OBVIOUS
<1>3. IsFunction(f) /\ DOMAIN f = DOMAIN held /\ \A s \in DOMAIN held : f[s] = held[s]
  <2>1. /\ IsFunction(f)
        /\ \A s : s \in DOMAIN f <=> s \in DOMAIN held \/ \E c \in {} : SlotIndex(n, Iteration, c.fpi) = s
        /\ \A s \in DOMAIN held :
                 (\A c \in {} : SlotIndex(n, Iteration, c.fpi) # s) => f[s] = held[s]
    BY <1>1, <1>2, WithCutsFacts
  <2> QED BY <2>1
<1> QED BY <1>2, <1>3, SameFunction

\* Two additions are one.
LEMMA WithBoth ==
    ASSUME NEW n \in Nodes, NEW A, NEW B, Numbered(A \cup B), NEW held
    PROVE  WithCuts(WithCuts(held, n, A), n, B) = WithCuts(held, n, A \cup B)
<1> DEFINE at(c) == SlotIndex(n, Iteration, c.fpi)
<1>1. Numbered(A) /\ Numbered(B)
  BY DEF Numbered
<1>2. PICK f, g, h : /\ f = WithCuts(held, n, A) /\ g = WithCuts(f, n, B)
                     /\ h = WithCuts(held, n, A \cup B)
  OBVIOUS
<1>3. /\ IsFunction(f)
      /\ \A s : s \in DOMAIN f <=> s \in DOMAIN held \/ \E c \in A : at(c) = s
      /\ \A c \in A : f[at(c)] = c.cut
      /\ \A s \in DOMAIN held : (\A c \in A : at(c) # s) => f[s] = held[s]
  BY <1>1, <1>2, WithCutsFacts
<1>4. /\ IsFunction(g)
      /\ \A s : s \in DOMAIN g <=> s \in DOMAIN f \/ \E c \in B : at(c) = s
      /\ \A c \in B : g[at(c)] = c.cut
      /\ \A s \in DOMAIN f : (\A c \in B : at(c) # s) => g[s] = f[s]
  BY <1>1, <1>2, WithCutsFacts
<1>5. /\ IsFunction(h)
      /\ \A s : s \in DOMAIN h <=> s \in DOMAIN held \/ \E c \in A \cup B : at(c) = s
      /\ \A c \in A \cup B : h[at(c)] = c.cut
      /\ \A s \in DOMAIN held : (\A c \in A \cup B : at(c) # s) => h[s] = held[s]
  <2>1. PICK C : C = A \cup B  OBVIOUS
  <2>2. Numbered(C) /\ h = WithCuts(held, n, C)  BY <1>2, <2>1
  <2>3. /\ IsFunction(h)
        /\ \A s : s \in DOMAIN h <=> s \in DOMAIN held \/ \E c \in C : at(c) = s
        /\ \A c \in C : h[at(c)] = c.cut
        /\ \A s \in DOMAIN held : (\A c \in C : at(c) # s) => h[s] = held[s]
    BY <2>2, WithCutsFacts
  <2> HIDE DEF at
  <2> QED BY <2>1, <2>3
<1> HIDE DEF at
<1>6. DOMAIN g = DOMAIN h  BY <1>3, <1>4, <1>5
<1>7. ASSUME NEW s \in DOMAIN g PROVE g[s] = h[s]
  <2>1. CASE \E c \in B : at(c) = s  BY <1>4, <1>5, <2>1
  <2>2. CASE ~(\E c \in B : at(c) = s)
    <3>1. s \in DOMAIN f /\ g[s] = f[s]  BY <1>4, <2>2
    <3>2. CASE \E c \in A : at(c) = s  BY <1>3, <1>5, <3>1, <3>2
    <3>3. CASE ~(\E c \in A : at(c) = s)
      <4>1. s \in DOMAIN held /\ f[s] = held[s]
        BY <1>3, <3>1, <3>3
      <4>2. \A c \in A \cup B : at(c) # s  BY <2>2, <3>3
      <4> QED BY <1>5, <3>1, <4>1, <4>2
    <3> QED BY <3>2, <3>3
  <2> QED BY <2>1, <2>2
<1>8. g = h  BY <1>4, <1>5, <1>6, <1>7, SameFunction
<1> QED BY <1>2, <1>8

\* Packing gives the cuts added.
LEMMA PackedCuts ==
    ASSUME NEW n \in Nodes, NEW r, NEW cuts, Numbered(cuts), NEW held,
           \A s \in DOMAIN held : held[s].gen # Iteration,
           pool[r][n] = WithCuts(held, n, cuts)
    PROVE  Packed(r, n) = cuts
<1> DEFINE at(c) == SlotIndex(n, Iteration, c.fpi)
<1>1. PICK f : f = pool[r][n]  OBVIOUS
<1>2. /\ IsFunction(f)
      /\ \A s : s \in DOMAIN f <=> s \in DOMAIN held \/ \E c \in cuts : at(c) = s
      /\ \A c \in cuts : f[at(c)] = c.cut
      /\ \A s \in DOMAIN held : (\A c \in cuts : at(c) # s) => f[s] = held[s]
  BY <1>1, WithCutsFacts
<1>3. /\ VisitStride[n] \in Nat
      /\ \A c \in cuts : at(c) - SlotIndex(n, Iteration, 0) = c.fpi
  <2>1. \A c \in cuts : at(c) = VisitStride[n] + c.fpi /\ c.fpi \in Nat
    BY SlotFacts DEF Numbered
  <2>2. SlotIndex(n, Iteration, 0) = VisitStride[n] + 0 /\ VisitStride[n] \in Nat
    BY SlotFacts
  <2> HIDE DEF at
  <2> QED BY <2>1, <2>2
<1> DEFINE new == {t \in DOMAIN f : f[t].gen = Iteration}
           item(s) == [fpi |-> s - SlotIndex(n, f[s].gen, 0), cut |-> f[s]]
<1>4. Packed(r, n) = {item(s) : s \in new}
  BY <1>1, Zenon DEF Packed
<1>5. ASSUME NEW s \in new PROVE \E c \in cuts : s = at(c)
  <2> SUFFICES ASSUME \A c \in cuts : at(c) # s PROVE FALSE  OBVIOUS
  <2> HIDE DEF at
  <2>1. s \in DOMAIN f /\ f[s].gen = Iteration  OBVIOUS
  <2>2. s \in DOMAIN held /\ f[s] = held[s]  BY <1>2, <2>1
  <2> QED BY <2>1, <2>2
<1>6. ASSUME NEW c \in cuts PROVE at(c) \in new /\ item(at(c)) = c
  <2>1. f[at(c)] = c.cut /\ at(c) \in DOMAIN f /\ c.cut.gen = Iteration
        /\ c = [fpi |-> c.fpi, cut |-> c.cut] /\ at(c) - SlotIndex(n, Iteration, 0) = c.fpi
    BY <1>2, <1>3 DEF Numbered
  <2> HIDE DEF at
  <2> QED BY <2>1
<1> HIDE DEF new, item, at
<1> QED BY <1>4, <1>5, <1>6

----------------------------------------------------------------------------
(* The cuts of a node over all ranks *)

\* The cuts of all ranks; H[r]: the slots the pools of the node's children hold on rank r.
AllCuts(rt, lay, H, n) == UNION {LocalOf(rt, lay, H[r], r, n) : r \in Ranks}

\* Passes and visits, both ways.
LEMMA RoutedPasses ==
    ASSUME NEW rt, DOMAIN rt = 0 .. TotalPasses - 1, NEW n,
           NEW q \in Ranks, NEW r \in Ranks,
           NEW a \in 0 .. Len(Routed(rt, q, n)) - 1, NEW b \in 0 .. Len(Routed(rt, r, n)) - 1
    PROVE  /\ Routed(rt, q, n)[a + 1] = Routed(rt, r, n)[b + 1] => q = r /\ a = b
           /\ VisitOffset(rt, q, n) + a \in Nat
           /\ VisitOffset(rt, q, n) + a = VisitOffset(rt, r, n) + b => q = r /\ a = b
<1>1. ASSUME NEW p \in Ranks, NEW c \in 0 .. Len(Routed(rt, p, n)) - 1
      PROVE  /\ c + 1 \in 1 .. Len(Routed(rt, p, n)) /\ c \in Nat /\ p \in Nat
             /\ VisitOffset(rt, p, n) \in Nat /\ Len(Routed(rt, p, n)) \in Nat
             /\ Routed(rt, p, n)[c + 1] \in PassesOf(p)
             /\ IsInjective(Routed(rt, p, n)) /\ DOMAIN Routed(rt, p, n) = 1 .. Len(Routed(rt, p, n))
  <2>1. p \in Nat  BY PassesPartition
  <2> DEFINE V == Visitors(rt, n, PassesOf(p))
  <2>2. /\ IsFiniteSet(V) /\ V \in SUBSET Nat /\ Routed(rt, p, n) = InOrder(V)
        /\ Len(Routed(rt, p, n)) = Cardinality(V) /\ Len(Routed(rt, p, n)) \in Nat
        /\ DOMAIN Routed(rt, p, n) = 1 .. Len(Routed(rt, p, n))
    BY <2>1, RoutedFacts
  <2>3. VisitOffset(rt, p, n) \in Nat  BY <2>1, OffsetSteps
  <2>4. c + 1 \in 1 .. Len(Routed(rt, p, n)) /\ c \in Nat  BY <2>2
  <2>5. V \subseteq PassesOf(p)
    BY DEF Visitors
  <2> HIDE DEF V
  <2>6. InOrder(V) \in [1 .. Cardinality(V) -> V] /\ IsInjective(InOrder(V))
    BY <2>2, InOrderFacts
  <2>7. InOrder(V)[c + 1] \in V  BY <2>2, <2>4, <2>6
  <2> QED BY <2>1, <2>2, <2>3, <2>4, <2>5, <2>6, <2>7
<1>2. ASSUME Routed(rt, q, n)[a + 1] = Routed(rt, r, n)[b + 1] PROVE q = r /\ a = b
  <2>1. Routed(rt, q, n)[a + 1] \in PassesOf(q) \cap PassesOf(r)
    BY <1>1, <1>2
  <2>2. q = r  BY <2>1, PassesPartition
  <2>3. a + 1 = b + 1
    BY <1>1, <1>2, <2>2 DEF IsInjective
  <2>4. a \in Nat /\ b \in Nat  BY <1>1
  <2> QED BY <2>2, <2>3, <2>4
<1>3. ASSUME VisitOffset(rt, q, n) + a = VisitOffset(rt, r, n) + b PROVE q = r /\ a = b
  <2> DEFINE all == Visitors(rt, n, DOMAIN rt)
  <2>1. \A p \in Ranks : \A i \in 1 .. Len(Routed(rt, p, n)) :
           InOrder(all)[VisitOffset(rt, p, n) + i] = Routed(rt, p, n)[i]
    BY VisitsInOrder
  <2> HIDE DEF all
  <2>2. /\ InOrder(all)[VisitOffset(rt, q, n) + (a + 1)] = Routed(rt, q, n)[a + 1]
        /\ InOrder(all)[VisitOffset(rt, r, n) + (b + 1)] = Routed(rt, r, n)[b + 1]
    BY <1>1, <2>1
  <2>3. VisitOffset(rt, q, n) + (a + 1) = VisitOffset(rt, r, n) + (b + 1)
    <3>1. a \in Nat /\ b \in Nat /\ VisitOffset(rt, q, n) \in Nat /\ VisitOffset(rt, r, n) \in Nat
      BY <1>1
    <3> QED BY ONLY <1>3, <3>1
  <2> QED BY <1>2, <2>2, <2>3
<1> QED BY <1>1, <1>2, <1>3

\* The cuts of a node, of one rank or of all, have distinct forward pass indices.
LEMMA CutsNumbered ==
    ASSUME NEW rt, DOMAIN rt = 0 .. TotalPasses - 1, NEW n, NEW lay, NEW H
    PROVE  /\ Numbered(AllCuts(rt, lay, H, n))
           /\ \A r \in Ranks : Numbered(LocalOf(rt, lay, H[r], r, n))
<1> DEFINE cutAt(r, p) == [fpi |-> VisitOffset(rt, r, n) + p, cut |-> CutFor(rt, lay, H[r], r, n, p)]
<1>1. ASSUME NEW c \in AllCuts(rt, lay, H, n)
      PROVE  \E r \in Ranks : \E p \in 0 .. Len(Routed(rt, r, n)) - 1 : c = cutAt(r, p)
  BY DEF AllCuts, LocalOf
<1>2. \A r, p : /\ cutAt(r, p).fpi = VisitOffset(rt, r, n) + p /\ cutAt(r, p).cut.gen = Iteration
                /\ cutAt(r, p) = [fpi |-> cutAt(r, p).fpi, cut |-> cutAt(r, p).cut]
  BY DEF CutFor
<1> HIDE DEF cutAt
<1>3. \A c \in AllCuts(rt, lay, H, n) :
         c.fpi \in Nat /\ c.cut.gen = Iteration /\ c = [fpi |-> c.fpi, cut |-> c.cut]
  BY <1>1, <1>2, RoutedPasses
<1>4. \A c, d \in AllCuts(rt, lay, H, n) : c.fpi = d.fpi => c = d
  <2> SUFFICES ASSUME NEW c \in AllCuts(rt, lay, H, n), NEW d \in AllCuts(rt, lay, H, n),
                      c.fpi = d.fpi
               PROVE  c = d
    OBVIOUS
  <2>1. PICK q \in Ranks : \E p \in 0 .. Len(Routed(rt, q, n)) - 1 : c = cutAt(q, p)
    BY <1>1
  <2>2. PICK a \in 0 .. Len(Routed(rt, q, n)) - 1 : c = cutAt(q, a)
    BY <2>1
  <2>3. PICK r \in Ranks : \E p \in 0 .. Len(Routed(rt, r, n)) - 1 : d = cutAt(r, p)
    BY <1>1
  <2>4. PICK b \in 0 .. Len(Routed(rt, r, n)) - 1 : d = cutAt(r, b)
    BY <2>3
  <2>5. VisitOffset(rt, q, n) + a = VisitOffset(rt, r, n) + b
    BY <1>2, <2>2, <2>4
  <2>6. q = r /\ a = b  BY <2>5, RoutedPasses
  <2> QED BY <2>2, <2>4, <2>6
<1>5. Numbered(AllCuts(rt, lay, H, n))
  BY <1>3, <1>4 DEF Numbered
<1>6. \A r \in Ranks : LocalOf(rt, lay, H[r], r, n) \subseteq AllCuts(rt, lay, H, n)
  BY DEF AllCuts
<1> QED BY <1>5, <1>6 DEF Numbered

----------------------------------------------------------------------------
(* The pool of a node after its level *)

\* The operators of the abstract sweep, of any pools.
ChainsOf(rt, lay, r, n) ==
    LET routed == Routed(rt, r, n)
        blocks == [b \in 1 .. BlockCount(n) |-> b - 1]
    IN  {ByPass(routed, Run(lay, n, Len(routed), blocks, u, i)) :
            u \in 0 .. UnitCount(lay, n, Len(routed)) - 1, i \in DOMAIN Children[n]}
ChildAt(n, omega) ==
    Children[n][CHOOSE i \in DOMAIN Children[n] :
                    /\ OutcomeStart(n, i) <= omega
                    /\ omega < OutcomeStart(n, i) + Openings[Children[n][i]]]
SolvesOf(rt, lay, pools, r, n) ==
    UNION {{[pass |-> c[k][1], omega |-> c[k][2],
             out |-> [seen |-> DOMAIN pools[r][ChildAt(n, c[k][2])],
                      chain |-> SubSeq(c, 1, k - 1)]] : k \in DOMAIN c} : c \in ChainsOf(rt, lay, r, n)}
ExtendedOf(rt, lay, pools, n) ==
    LET solves == UNION {SolvesOf(rt, lay, pools, r, n) : r \in Ranks}
        visitors == InOrder({g \in DOMAIN rt : n \in rt[g]})
        slots == {SlotIndex(n, Iteration, k - 1) : k \in DOMAIN visitors}
        CutOf(g) ==
            [gen |-> Iteration, pass |-> g,
             outs |-> [omega \in 0 .. OutcomeCount(n) - 1 |->
                         (CHOOSE o \in solves : o.pass = g /\ o.omega = omega).out]]
    IN  [s \in DOMAIN pools[0][n] \cup slots |->
            IF s \in slots THEN CutOf(visitors[s - SlotIndex(n, Iteration, 0) + 1])
            ELSE pools[0][n][s]]

\* By pass, the solves of a rank are the items of its units.
LEMMA SolvesAreItems ==
    ASSUME NEW rt, NEW n \in Nodes, CutGenerating(n), NEW lay \in Layouts, NEW r \in Ranks,
           NEW pools, NEW held, \A i \in DOMAIN Children[n] : held[i] = DOMAIN pools[r][Children[n][i]],
           NEW o
    PROVE  o \in SolvesOf(rt, lay, pools, r, n) <=>
             \E y \in NodeItems(rt, lay, held, r, n, Ascending(n)) :
                o = [pass |-> Routed(rt, r, n)[y.pos + 1], omega |-> y.omega, out |-> y.out]
<1> DEFINE rd == Routed(rt, r, n)
           Rn(u, i) == RunFor(rt, lay, r, n, Ascending(n), u, i)
           Us == UnitsOf(rt, lay, r, n)
           Is == DOMAIN Children[n]
           solve(c, k) == [pass |-> c[k][1], omega |-> c[k][2],
                           out |-> [seen |-> DOMAIN pools[r][ChildAt(n, c[k][2])],
                                    chain |-> SubSeq(c, 1, k - 1)]]
           item(y) == [pass |-> rd[y.pos + 1], omega |-> y.omega, out |-> y.out]
<1>1. ChainsOf(rt, lay, r, n) = {ByPass(rd, Rn(u, i)) : u \in Us, i \in Is}
  BY DEF ChainsOf, RunFor, UnitsOf, Ascending
<1>2. o \in SolvesOf(rt, lay, pools, r, n) <=>
        \E u \in Us, i \in Is : \E k \in DOMAIN ByPass(rd, Rn(u, i)) : o = solve(ByPass(rd, Rn(u, i)), k)
  <2>1. o \in SolvesOf(rt, lay, pools, r, n) <=>
           \E c \in ChainsOf(rt, lay, r, n) : \E k \in DOMAIN c : o = solve(c, k)
    BY DEF SolvesOf
  <2>2. \A c : c \in ChainsOf(rt, lay, r, n) <=> \E u \in Us, i \in Is : c = ByPass(rd, Rn(u, i))
    <3> HIDE DEF Rn, Us, Is, rd
    <3> QED BY <1>1
  <2> HIDE DEF solve, Rn, Us, Is, rd
  <2> QED BY <2>1, <2>2
<1>3. ASSUME NEW u \in Us, NEW i \in Is, NEW k \in DOMAIN Rn(u, i)
      PROVE  solve(ByPass(rd, Rn(u, i)), k) = item(ItemOf(rd, held[i], Rn(u, i), k))
  <2>1. PICK run, c : run = Rn(u, i) /\ c = ByPass(rd, run)  OBVIOUS
  <2>2. run[k][2] \in 0 .. OutcomeCount(n) - 1
        /\ OutcomeStart(n, i) <= run[k][2] /\ run[k][2] < OutcomeStart(n, i + 1)
    BY <2>1, AscendingLists, RunsOfUnit
  <2>3. c[k] = <<rd[run[k][1] + 1], run[k][2]>>
    BY <2>1 DEF ByPass
  <2>4. ChildAt(n, run[k][2]) = Children[n][i]
    <3>1. \A j \in Is : OutcomeStart(n, j + 1) = OutcomeStart(n, j) + Openings[Children[n][j]]
      BY ChildOutcomes
    <3>2. run[k][2] \in Nat  BY <2>2, OutcomeSplit
    <3>3. \A j \in Is : OutcomeStart(n, j) <= run[k][2] /\ run[k][2] < OutcomeStart(n, j + 1) => j = i
      BY <2>2, <3>2, OutcomeSplit
    <3>4. \A j \in Is : (/\ OutcomeStart(n, j) <= run[k][2]
                         /\ run[k][2] < OutcomeStart(n, j) + Openings[Children[n][j]]) <=> j = i
      BY <2>2, <3>1, <3>3
    <3>5. (CHOOSE j \in Is : /\ OutcomeStart(n, j) <= run[k][2]
                             /\ run[k][2] < OutcomeStart(n, j) + Openings[Children[n][j]]) = i
      <4> DEFINE is(j) == /\ OutcomeStart(n, j) <= run[k][2]
                          /\ run[k][2] < OutcomeStart(n, j) + Openings[Children[n][j]]
      <4>1. \A j \in Is : is(j) <=> j = i  BY <3>4
      <4> HIDE DEF is
      <4>2. (CHOOSE j \in Is : is(j)) = i  BY <4>1
      <4> QED BY <4>2 DEF is
    <3> QED BY <3>5 DEF ChildAt
  <2>5. held[i] = DOMAIN pools[r][Children[n][i]]  OBVIOUS
  <2>6. solve(c, k) = [pass |-> rd[run[k][1] + 1], omega |-> run[k][2],
                       out |-> [seen |-> held[i], chain |-> SubSeq(c, 1, k - 1)]]
    <3>1. c[k][1] = rd[run[k][1] + 1] /\ c[k][2] = run[k][2]
      BY <2>3
    <3>2. DOMAIN pools[r][ChildAt(n, c[k][2])] = held[i]
      BY <2>4, <2>5, <3>1
    <3> QED BY <3>1, <3>2
  <2>7. item(ItemOf(rd, held[i], run, k)) = [pass |-> rd[run[k][1] + 1], omega |-> run[k][2],
                       out |-> [seen |-> held[i], chain |-> SubSeq(c, 1, k - 1)]]
    BY <2>1 DEF ItemOf
  <2> HIDE DEF solve, item, Rn
  <2> QED BY <2>1, <2>6, <2>7
<1>4. \A u \in Us, i \in Is : DOMAIN ByPass(rd, Rn(u, i)) = DOMAIN Rn(u, i)
  <2>1. \A run : DOMAIN ByPass(rd, run) = DOMAIN run
    BY DEF ByPass
  <2> HIDE DEF Rn
  <2> QED BY <2>1
<1>5. \A y : y \in NodeItems(rt, lay, held, r, n, Ascending(n)) <=>
        \E u \in Us, i \in Is : \E k \in DOMAIN Rn(u, i) : y = ItemOf(rd, held[i], Rn(u, i), k)
  <2>1. \A y : y \in NodeItems(rt, lay, held, r, n, Ascending(n)) <=>
           \E u \in Us : y \in UnitItems(rt, lay, held, r, n, Ascending(n), u)
    BY DEF NodeItems
  <2>2. \A u, y : y \in UnitItems(rt, lay, held, r, n, Ascending(n), u) <=>
           \E i \in Is : y \in RunItems(rd, held[i], Rn(u, i))
    BY DEF UnitItems
  <2>3. \A z, run, y : y \in RunItems(rd, z, run) <=> \E k \in DOMAIN run : y = ItemOf(rd, z, run, k)
    <3> HIDE DEF rd
    <3> QED BY DEF RunItems
  <2> HIDE DEF Us, Is, rd, Rn
  <2> QED BY <2>1, <2>2, <2>3
<1> HIDE DEF solve, item, Rn, Us, Is, rd
<1>6. o \in SolvesOf(rt, lay, pools, r, n) <=>
         \E y \in NodeItems(rt, lay, held, r, n, Ascending(n)) : o = item(y)
  <2>1. ASSUME o \in SolvesOf(rt, lay, pools, r, n)
        PROVE  \E y \in NodeItems(rt, lay, held, r, n, Ascending(n)) : o = item(y)
    <3>1. PICK u \in Us, i \in Is : \E k \in DOMAIN ByPass(rd, Rn(u, i)) : o = solve(ByPass(rd, Rn(u, i)), k)
      BY <1>2, <2>1
    <3>2. PICK k \in DOMAIN Rn(u, i) : o = solve(ByPass(rd, Rn(u, i)), k)
      BY <1>4, <3>1
    <3>3. o = item(ItemOf(rd, held[i], Rn(u, i), k))
      BY <1>3, <3>2
    <3>4. ItemOf(rd, held[i], Rn(u, i), k) \in NodeItems(rt, lay, held, r, n, Ascending(n))
      BY <1>5, <3>2
    <3> QED BY <3>3, <3>4
  <2>2. ASSUME NEW y \in NodeItems(rt, lay, held, r, n, Ascending(n)), o = item(y)
        PROVE  o \in SolvesOf(rt, lay, pools, r, n)
    <3>1. PICK u \in Us, i \in Is : \E k \in DOMAIN Rn(u, i) : y = ItemOf(rd, held[i], Rn(u, i), k)
      BY <1>5
    <3>2. PICK k \in DOMAIN Rn(u, i) : y = ItemOf(rd, held[i], Rn(u, i), k)
      BY <3>1
    <3>3. o = solve(ByPass(rd, Rn(u, i)), k) /\ k \in DOMAIN ByPass(rd, Rn(u, i))
      BY <1>3, <1>4, <2>2, <3>2
    <3> QED BY <1>2, <3>3
  <2> QED BY <2>1, <2>2
<1> QED BY <1>6 DEF item, rd

\* The abstract pool of a node holds the cuts of all ranks.
LEMMA ExtendedIsAll ==
    ASSUME NEW rt, DOMAIN rt = 0 .. TotalPasses - 1, NEW n \in Nodes, CutGenerating(n),
           NEW lay \in Layouts, NEW pools, NEW H,
           \A r \in Ranks : \A i \in DOMAIN Children[n] : H[r][i] = DOMAIN pools[r][Children[n][i]]
    PROVE  ExtendedOf(rt, lay, pools, n) = WithCuts(pools[0][n], n, AllCuts(rt, lay, H, n))
<1> DEFINE solves == UNION {SolvesOf(rt, lay, pools, r, n) : r \in Ranks}
           all == Visitors(rt, n, DOMAIN rt)
           vis == InOrder(all)
           slots == {SlotIndex(n, Iteration, k - 1) : k \in DOMAIN vis}
           outcome(g, omega) == (CHOOSE o \in solves : o.pass = g /\ o.omega = omega).out
           CutOf(g) == [gen |-> Iteration, pass |-> g,
                        outs |-> [omega \in 0 .. OutcomeCount(n) - 1 |-> outcome(g, omega)]]
           Items(r) == NodeItems(rt, lay, H[r], r, n, Ascending(n))
           old == pools[0][n]
           new(s) == CutOf(vis[s - SlotIndex(n, Iteration, 0) + 1])
           size == Cardinality(all)
           at(r, p) == SlotIndex(n, Iteration, VisitOffset(rt, r, n) + p)
           Ps(r) == 0 .. Len(Routed(rt, r, n)) - 1
           E == ExtendedOf(rt, lay, pools, n)
<1>1. E = [s \in DOMAIN old \cup slots |-> IF s \in slots THEN new(s) ELSE old[s]]
  <2>1. {g \in DOMAIN rt : n \in rt[g]} = all
    BY DEF Visitors
  <2> QED BY Zenon DEF ExtendedOf, Visitors
<1>2. /\ all \in SUBSET Nat /\ IsFiniteSet(all)
      /\ \A r \in Ranks : \A i \in 1 .. Len(Routed(rt, r, n)) :
                 /\ VisitOffset(rt, r, n) + i \in 1 .. Cardinality(all)
                 /\ InOrder(all)[VisitOffset(rt, r, n) + i] = Routed(rt, r, n)[i]
      /\ \A k \in 1 .. Cardinality(all) : \E r \in Ranks :
                 \E i \in 1 .. Len(Routed(rt, r, n)) : k = VisitOffset(rt, r, n) + i
  <2>1. PICK a : a = all  OBVIOUS
  <2>2. rt = rt /\ DOMAIN rt = 0 .. TotalPasses - 1  OBVIOUS
  <2> QED BY ONLY <2>1, <2>2, VisitsInOrder, SMTT(20)
<1>3. size \in Nat /\ DOMAIN vis = 1 .. size
  <2> HIDE DEF all
  <2>1. Cardinality(all) \in Nat /\ InOrder(all) \in [1 .. Cardinality(all) -> all]
    BY <1>2, InOrderFacts
  <2> QED BY <2>1
<1>4. ASSUME NEW r \in Ranks, NEW p \in Ps(r)
      PROVE  /\ p \in Nat /\ VisitOffset(rt, r, n) \in Nat
             /\ VisitOffset(rt, r, n) + p + 1 \in 1 .. size
             /\ vis[VisitOffset(rt, r, n) + p + 1] = Routed(rt, r, n)[p + 1]
  <2>1. r \in Nat  BY PassesPartition
  <2>2. VisitOffset(rt, r, n) \in Nat /\ Len(Routed(rt, r, n)) \in Nat
    BY <2>1, OffsetSteps, RoutedFacts
  <2>3. p \in Nat /\ p + 1 \in 1 .. Len(Routed(rt, r, n))  BY <2>2
  <2>4. VisitOffset(rt, r, n) + (p + 1) = VisitOffset(rt, r, n) + p + 1
    BY ONLY <2>2, <2>3
  <2> HIDE DEF all
  <2>5. /\ VisitOffset(rt, r, n) + (p + 1) \in 1 .. size
        /\ vis[VisitOffset(rt, r, n) + (p + 1)] = Routed(rt, r, n)[p + 1]
    BY <1>2, <2>3
  <2> QED BY <2>2, <2>3, <2>4, <2>5
<1>5. ASSUME NEW k \in 1 .. size
      PROVE  \E r \in Ranks : \E p \in Ps(r) : k - 1 = VisitOffset(rt, r, n) + p
  <2>1. \E r \in Ranks : \E i \in 1 .. Len(Routed(rt, r, n)) : k = VisitOffset(rt, r, n) + i
    <3> HIDE DEF all
    <3> QED BY <1>2
  <2>2. PICK r \in Ranks : \E i \in 1 .. Len(Routed(rt, r, n)) : k = VisitOffset(rt, r, n) + i
    BY <2>1
  <2>3. PICK i \in 1 .. Len(Routed(rt, r, n)) : k = VisitOffset(rt, r, n) + i
    BY <2>2
  <2>4. r \in Nat  BY PassesPartition
  <2>5. VisitOffset(rt, r, n) \in Nat /\ Len(Routed(rt, r, n)) \in Nat
    BY <2>4, OffsetSteps, RoutedFacts
  <2>6. PICK v \in Nat, l \in Nat : v = VisitOffset(rt, r, n) /\ l = Len(Routed(rt, r, n))
    BY <2>5
  <2>7. i - 1 \in 0 .. l - 1 /\ (v + i) - 1 = v + (i - 1)  BY <2>6
  <2> QED BY <2>3, <2>6, <2>7
<1>6. ASSUME NEW r \in Ranks, NEW p \in Ps(r), NEW omega \in 0 .. OutcomeCount(n) - 1
      PROVE  outcome(Routed(rt, r, n)[p + 1], omega) = OutOf(Items(r), p, omega)
  <2> DEFINE g == Routed(rt, r, n)[p + 1]
  <2>1. /\ \A x, y \in Items(r) : x.pos = y.pos /\ x.omega = y.omega => x = y
        /\ \A q \in Ranks : \A y \in Items(q) : y.pos \in Ps(q)
        /\ \E y \in Items(r) : y.pos = p /\ y.omega = omega
    <3>1. \A q \in Ranks :
             /\ \A u \in UnitsOf(rt, lay, q, n) : \A y \in UnitItems(rt, lay, H[q], q, n, Ascending(n), u) :
                    y.pos \in Ps(q)
             /\ \A a \in Ps(q), x \in 0 .. OutcomeCount(n) - 1 : \E y \in Items(q) : y.pos = a /\ y.omega = x
             /\ \A x, y \in Items(q) : x.pos = y.pos /\ x.omega = y.omega => x = y
      <4>1. Listing(Ascending(n), BlockCount(n))
        BY AscendingLists
      <4> SUFFICES ASSUME NEW q \in Ranks
                   PROVE  /\ \A u \in UnitsOf(rt, lay, q, n) :
                              \A y \in UnitItems(rt, lay, H[q], q, n, Ascending(n), u) : y.pos \in Ps(q)
                          /\ \A a \in Ps(q), x \in 0 .. OutcomeCount(n) - 1 :
                                \E y \in Items(q) : y.pos = a /\ y.omega = x
                          /\ \A x, y \in Items(q) : x.pos = y.pos /\ x.omega = y.omega => x = y
        OBVIOUS
      <4>2. PICK held, blocks : held = H[q] /\ blocks = Ascending(n)  OBVIOUS
      <4>3. /\ \A u \in UnitsOf(rt, lay, q, n) : \A y \in UnitItems(rt, lay, held, q, n, blocks, u) :
                   /\ y.pos \in 0 .. Len(Routed(rt, q, n)) - 1
                   /\ y.omega \in 0 .. OutcomeCount(n) - 1
                   /\ lay.kind = "byScenario" => y.pos = u
            /\ \A a \in 0 .. Len(Routed(rt, q, n)) - 1, x \in 0 .. OutcomeCount(n) - 1 :
                   \E y \in NodeItems(rt, lay, held, q, n, blocks) : y.pos = a /\ y.omega = x
            /\ \A x, y \in NodeItems(rt, lay, held, q, n, blocks) :
                   x.pos = y.pos /\ x.omega = y.omega => x = y
        <5>1. Listing(blocks, BlockCount(n))  BY <4>1, <4>2
        <5> QED BY ONLY n \in Nodes, CutGenerating(n), lay \in Layouts, q \in Ranks, <5>1, ItemsExact
      <4> QED BY ONLY <4>2, <4>3
    <3>2. ASSUME NEW q \in Ranks, NEW y \in Items(q)
          PROVE  \E u \in UnitsOf(rt, lay, q, n) : y \in UnitItems(rt, lay, H[q], q, n, Ascending(n), u)
      BY DEF NodeItems
    <3> HIDE DEF Items
    <3> QED BY <3>1, <3>2
  <2>2. PICK x \in Items(r) : x.pos = p /\ x.omega = omega
    BY <2>1
  <2> DEFINE o == [pass |-> g, omega |-> omega, out |-> x.out]
  <2>3. \A q \in Ranks : \A z : z \in SolvesOf(rt, lay, pools, q, n) <=>
          \E y \in Items(q) : z = [pass |-> Routed(rt, q, n)[y.pos + 1], omega |-> y.omega, out |-> y.out]
    <3> SUFFICES ASSUME NEW q \in Ranks, NEW z
                 PROVE  z \in SolvesOf(rt, lay, pools, q, n) <=>
                          \E y \in Items(q) : z = [pass |-> Routed(rt, q, n)[y.pos + 1], omega |-> y.omega, out |-> y.out]
      OBVIOUS
    <3>1. PICK held : held = H[q]  OBVIOUS
    <3>2. \A i \in DOMAIN Children[n] : held[i] = DOMAIN pools[q][Children[n][i]]
      BY <3>1
    <3>3. z \in SolvesOf(rt, lay, pools, q, n) <=>
            \E y \in NodeItems(rt, lay, held, q, n, Ascending(n)) :
               z = [pass |-> Routed(rt, q, n)[y.pos + 1], omega |-> y.omega, out |-> y.out]
      BY ONLY n \in Nodes, CutGenerating(n), lay \in Layouts, q \in Ranks, <3>2, SolvesAreItems
    <3> QED BY ONLY <3>1, <3>3
  <2> HIDE DEF Items
  <2>4. o \in solves
    <3>1. o \in SolvesOf(rt, lay, pools, r, n)  BY <2>2, <2>3
    <3> HIDE DEF o
    <3> QED BY <3>1
  <2>5. ASSUME NEW z \in solves, z.pass = g, z.omega = omega
        PROVE  z = o
    <3>1. PICK q \in Ranks : z \in SolvesOf(rt, lay, pools, q, n)  OBVIOUS
    <3>2. PICK y \in Items(q) : z = [pass |-> Routed(rt, q, n)[y.pos + 1], omega |-> y.omega, out |-> y.out]
      BY <2>3, <3>1
    <3>3. Routed(rt, q, n)[y.pos + 1] = Routed(rt, r, n)[p + 1] /\ y.omega = omega
      BY <2>5, <3>2
    <3>4. q = r /\ y.pos = p
      <4>1. PICK a \in Ps(q) : a = y.pos  BY <2>1, <3>2
      <4>2. Routed(rt, q, n)[a + 1] = Routed(rt, r, n)[p + 1]
        BY <3>3, <4>1
      <4>3. a \in 0 .. Len(Routed(rt, q, n)) - 1 /\ p \in 0 .. Len(Routed(rt, r, n)) - 1
        OBVIOUS
      <4>4. PICK b : b = p  OBVIOUS
      <4>5. b \in 0 .. Len(Routed(rt, r, n)) - 1  BY <4>3, <4>4
      <4>6. /\ Routed(rt, q, n)[a + 1] = Routed(rt, r, n)[b + 1] => q = r /\ a = b
            /\ VisitOffset(rt, q, n) + a \in Nat
            /\ VisitOffset(rt, q, n) + a = VisitOffset(rt, r, n) + b => q = r /\ a = b
        BY ONLY DOMAIN rt = 0 .. TotalPasses - 1, q \in Ranks, r \in Ranks, <4>3, <4>5, RoutedPasses
      <4> QED BY ONLY <4>1, <4>2, <4>4, <4>6
    <3>5. y = x  BY <2>1, <2>2, <3>2, <3>3, <3>4
    <3> QED BY <3>2, <3>3, <3>5
  <2>6. (CHOOSE z \in solves : z.pass = g /\ z.omega = omega) = o
    <3>1. o.pass = g /\ o.omega = omega  OBVIOUS
    <3> HIDE DEF solves, o, g
    <3> QED BY <2>4, <2>5, <3>1
  <2>7. outcome(g, omega) = x.out
    <3>1. outcome(g, omega) = o.out
      <4> HIDE DEF solves, o, g
      <4> QED BY <2>6
    <3>2. o.out = x.out  OBVIOUS
    <3> HIDE DEF o, outcome
    <3> QED BY <3>1, <3>2
  <2>8. OutOf(Items(r), p, omega) = x.out  BY <2>1, <2>2, OnlyOne
  <2> HIDE DEF outcome
  <2> QED BY <2>7, <2>8
<1> HIDE DEF outcome
<1>7. ASSUME NEW r \in Ranks, NEW p \in Ps(r)
      PROVE  CutOf(Routed(rt, r, n)[p + 1]) = CutFor(rt, lay, H[r], r, n, p)
  <2>1. [omega \in 0 .. OutcomeCount(n) - 1 |-> outcome(Routed(rt, r, n)[p + 1], omega)] =
        [omega \in 0 .. OutcomeCount(n) - 1 |-> OutOf(Items(r), p, omega)]
    <3> HIDE DEF Items
    <3> QED BY <1>6
  <2> QED BY <2>1 DEF CutFor
<1> HIDE DEF CutOf, vis, all, solves, Items
<1>8. \A s : s \in slots <=> \E r \in Ranks : \E p \in Ps(r) : s = at(r, p)
  <2>1. ASSUME NEW s \in slots PROVE \E r \in Ranks : \E p \in Ps(r) : s = at(r, p)
    <3>1. PICK k \in 1 .. size : s = SlotIndex(n, Iteration, k - 1)
      BY <1>3
    <3>2. PICK r \in Ranks : \E p \in Ps(r) : k - 1 = VisitOffset(rt, r, n) + p
      BY <1>5
    <3> QED BY <3>1, <3>2
  <2>2. ASSUME NEW r \in Ranks, NEW p \in Ps(r) PROVE at(r, p) \in slots
    <3>1. VisitOffset(rt, r, n) + p + 1 \in DOMAIN vis
      BY <1>3, <1>4
    <3>2. (VisitOffset(rt, r, n) + p + 1) - 1 = VisitOffset(rt, r, n) + p
      BY <1>4
    <3>3. SlotIndex(n, Iteration, (VisitOffset(rt, r, n) + p + 1) - 1) \in slots
      <4> DEFINE kk == VisitOffset(rt, r, n) + p + 1
      <4>1. kk \in DOMAIN vis  BY <3>1
      <4> HIDE DEF kk
      <4>2. SlotIndex(n, Iteration, kk - 1) \in slots  BY <4>1
      <4> QED BY <4>2 DEF kk
    <3> QED BY <3>2, <3>3
  <2> HIDE DEF slots, at
  <2> QED BY <2>1, <2>2
<1>9. ASSUME NEW r \in Ranks, NEW p \in Ps(r)
      PROVE  new(at(r, p)) = CutFor(rt, lay, H[r], r, n, p)
  <2>1. PICK v \in Nat, f \in Nat, w \in Nat :
            f = VisitOffset(rt, r, n) + p /\ v = VisitStride[n] /\ w = p
    <3>1. VisitOffset(rt, r, n) \in Nat /\ p \in Nat /\ VisitStride[n] \in Nat
      BY <1>4, SlotFacts
    <3>2. VisitOffset(rt, r, n) + p \in Nat  BY <3>1
    <3> QED BY <3>1, <3>2
  <2>2. at(r, p) = v + f /\ SlotIndex(n, Iteration, 0) = v + 0
    BY <2>1, SlotFacts
  <2>3. (v + f) - (v + 0) + 1 = f + 1  OBVIOUS
  <2>4. at(r, p) - SlotIndex(n, Iteration, 0) + 1 = VisitOffset(rt, r, n) + p + 1
    <3> HIDE DEF at
    <3> QED BY <2>1, <2>2, <2>3
  <2> HIDE DEF at
  <2> QED BY <1>4, <1>7, <2>4
<1> DEFINE cuts == AllCuts(rt, lay, H, n)
           cutAt(r, p) == [fpi |-> VisitOffset(rt, r, n) + p, cut |-> CutFor(rt, lay, H[r], r, n, p)]
<1>10. /\ \A c \in cuts : \E r \in Ranks : \E p \in Ps(r) : c = cutAt(r, p)
       /\ \A r \in Ranks : \A p \in Ps(r) : cutAt(r, p) \in cuts
  <2>1. \A r \in Ranks : \A c : c \in LocalOf(rt, lay, H[r], r, n) <=> \E p \in Ps(r) : c = cutAt(r, p)
    BY DEF LocalOf
  <2> HIDE DEF cutAt, Ps
  <2>2. \A c : c \in cuts <=> \E r \in Ranks : c \in LocalOf(rt, lay, H[r], r, n)
    BY DEF AllCuts
  <2> HIDE DEF cuts
  <2>3. \A c \in cuts : \E r \in Ranks : \E p \in Ps(r) : c = cutAt(r, p)
    BY ONLY <2>1, <2>2
  <2>4. \A r \in Ranks : \A p \in Ps(r) : cutAt(r, p) \in cuts
    BY ONLY <2>1, <2>2
  <2> QED BY <2>3, <2>4
<1>11. PICK f : f = WithCuts(old, n, cuts)  OBVIOUS
<1>12. /\ IsFunction(f)
       /\ \A s : s \in DOMAIN f <=> s \in DOMAIN old \/ \E c \in cuts : SlotIndex(n, Iteration, c.fpi) = s
       /\ \A c \in cuts : f[SlotIndex(n, Iteration, c.fpi)] = c.cut
       /\ \A s \in DOMAIN old :
             (\A c \in cuts : SlotIndex(n, Iteration, c.fpi) # s) => f[s] = old[s]
  <2>1. Numbered(cuts)  BY CutsNumbered
  <2> HIDE DEF cuts
  <2> QED BY <1>11, <2>1, WithCutsFacts
<1>13. \A r, p : cutAt(r, p).fpi = VisitOffset(rt, r, n) + p /\ cutAt(r, p).cut = CutFor(rt, lay, H[r], r, n, p)
  OBVIOUS
<1> HIDE DEF cuts, cutAt, slots, new, old, Ps
<1>14. \A s : s \in slots <=> \E c \in cuts : SlotIndex(n, Iteration, c.fpi) = s
  BY <1>8, <1>10, <1>13
<1>15. /\ IsFunction(E)
       /\ DOMAIN E = DOMAIN old \cup slots
       /\ \A s \in DOMAIN old \cup slots : E[s] = IF s \in slots THEN new(s) ELSE old[s]
  <2> HIDE DEF E
  <2> QED BY <1>1 DEF IsFunction
<1> HIDE DEF E, at
<1>16. DOMAIN E = DOMAIN f  BY <1>12, <1>14, <1>15
<1>17. ASSUME NEW s \in DOMAIN E PROVE E[s] = f[s]
  <2>1. CASE s \in slots
    <3>1. PICK r \in Ranks : \E p \in Ps(r) : s = at(r, p)
      BY <1>8, <2>1
    <3>2. PICK p \in Ps(r) : s = at(r, p)  BY <3>1
    <3>3. E[s] = CutFor(rt, lay, H[r], r, n, p)
      BY <1>9, <1>15, <2>1, <3>2
    <3>4. cutAt(r, p) \in cuts /\ s = SlotIndex(n, Iteration, cutAt(r, p).fpi)
      BY <1>10, <1>13, <3>2 DEF at
    <3> QED BY <1>12, <1>13, <3>3, <3>4
  <2>2. CASE s \notin slots
    <3>1. s \in DOMAIN old /\ E[s] = old[s]  BY <1>15, <2>2
    <3>2. \A c \in cuts : SlotIndex(n, Iteration, c.fpi) # s
      BY <1>14, <2>2
    <3> QED BY <1>12, <3>1, <3>2
  <2> QED BY <2>1, <2>2
<1>18. E = f  BY <1>12, <1>15, <1>16, <1>17, SameFunction
<1> QED BY <1>11, <1>18 DEF E, cuts, old

----------------------------------------------------------------------------
(* The abstract specification *)

\* The abstract specification reads the layout as this module does.
LEMMA SameLayout ==
    /\ Abstract!Ranks = Ranks
    /\ \A S : Abstract!InOrder(S) = InOrder(S)
    /\ \A f, S : Abstract!SumOver(f, S) = SumOver(f, S)
    /\ \A n : Abstract!CutGenerating(n) = CutGenerating(n)
    /\ Abstract!Levels = Levels
    /\ \A n : Abstract!OutcomeCount(n) = OutcomeCount(n)
    /\ \A n, i : Abstract!OutcomeStart(n, i) = OutcomeStart(n, i)
    /\ \A rt, n : Abstract!StrideSuffices(rt, n) = StrideSuffices(rt, n)
    /\ Abstract!OldPool = OldPool
    /\ Abstract!Routes = Routes
<1>c. \A S : Abstract!Cardinality(S) = Cardinality(S)
  BY Zenon DEF Abstract!Cardinality, Cardinality
<1>1. Abstract!Ranks = Ranks
  BY DEF Abstract!Ranks, Ranks
<1>2. \A S : Abstract!InOrder(S) = InOrder(S)
  BY Zenon DEF Abstract!InOrder, InOrder, Abstract!Cardinality, Cardinality
<1>3. \A f, S : Abstract!SumOver(f, S) = SumOver(f, S)
  BY Zenon DEF Abstract!SumOver, SumOver, Abstract!FoldSet, FoldSet, Abstract!MapThenFoldSet, MapThenFoldSet
<1>4. \A n : Abstract!CutGenerating(n) = CutGenerating(n)
  BY DEF Abstract!CutGenerating, CutGenerating
<1>5. Abstract!Levels = Levels
  BY Zenon, <1>2 DEF Abstract!Levels, Levels, Abstract!Reverse, Reverse, Abstract!CutGenerating, CutGenerating
<1>6. \A n : Abstract!OutcomeCount(n) = OutcomeCount(n)
  BY Zenon, <1>3 DEF Abstract!OutcomeCount, OutcomeCount
<1>7. \A n, i : Abstract!OutcomeStart(n, i) = OutcomeStart(n, i)
  BY Zenon, <1>3 DEF Abstract!OutcomeStart, OutcomeStart
<1>8. \A rt, n : Abstract!StrideSuffices(rt, n) = StrideSuffices(rt, n)
  BY Zenon DEF Abstract!StrideSuffices, StrideSuffices, Abstract!Visits, Visits,
               Abstract!Cardinality, Cardinality
<1>9. Abstract!OldPool = OldPool
  BY Zenon DEF Abstract!OldPool, OldPool, Abstract!OldCut, OldCut, Abstract!OldIteration, OldIteration,
               Abstract!CutGenerating, CutGenerating
<1>10. Abstract!Routes = Routes
  BY Zenon DEF Abstract!Routes, Routes, Abstract!Visited, Visited, Abstract!CutGenerating, CutGenerating,
               Abstract!Range, Range,
               Abstract!Cardinality, Cardinality
<1> QED BY <1>1, <1>2, <1>3, <1>4, <1>5, <1>6, <1>7, <1>8, <1>9, <1>10

\* The pools the abstract specification sees.
SharedPools == [r \in Ranks |-> [n \in Nodes |-> IF Completed(n) THEN pool[r][n] ELSE OldPool[n]]]

\* A run is read alike, and so are the chains, the solves and the pool after the level.
LEMMA SameRuns ==
    ASSUME NEW lay, NEW n, NEW num, NEW blocks, NEW u, NEW i
    PROVE  Abstract!Run(lay, n, num, blocks, u, i) = Run(lay, n, num, blocks, u, i)
<1>1. Abstract!OutcomeStart(n, i) = OutcomeStart(n, i)
  BY SameLayout
<1>2. Abstract!BlockLen(n) = BlockLen(n)
  BY Zenon DEF Abstract!BlockLen, BlockLen, Abstract!Min, Min, Abstract!OutcomeCount, OutcomeCount,
               Abstract!SumOver, SumOver, Abstract!FoldSet, FoldSet, Abstract!MapThenFoldSet, MapThenFoldSet
<1>3. Abstract!PlaceOrder(lay, num) = PlaceOrder(lay, num)
  BY Zenon DEF Abstract!PlaceOrder, PlaceOrder
<1>4. Abstract!Tiles(lay, num) = Tiles(lay, num)
  BY Zenon DEF Abstract!Tiles, Tiles
<1>5. \A S : Abstract!Min(S) = Min(S) /\ Abstract!Max(S) = Max(S)
  BY Zenon DEF Abstract!Min, Min, Abstract!Max, Max
<1> DEFINE c == Children[n][i]
           start == OutcomeStart(n, i)
           tiles == Tiles(lay, num)
           low == (u % tiles) * lay.points
           points == Min({lay.points, num - low})
           block == blocks[(u \div tiles) + 1]
           first == Max({start, block * BlockLen(n)})
           last == Min({start + Openings[c], (block + 1) * BlockLen(n)})
           long == Max({0, last - first})
           place(step, turn) == low + IF step % 2 = 0 THEN turn ELSE points - 1 - turn
           cell(step, turn) == <<PlaceOrder(lay, num)[place(step, turn) + 1],
                                 start + SolveOrder[c][first - start + step + 1]>>
           shape == IF lay.kind = "byScenario"
                    THEN [k \in 1 .. Openings[c] |-> <<u, start + SolveOrder[c][k]>>]
                    ELSE [k \in 1 .. long * points |-> cell((k - 1) \div points, (k - 1) % points)]
<1>6. Run(lay, n, num, blocks, u, i) = shape
  BY Zenon DEF Run
<1>7. Abstract!Run(lay, n, num, blocks, u, i) = shape
  <2>1. Abstract!Min({lay.points, num - low}) = points
    BY Zenon, <1>5
  <2>2. Abstract!Max({start, block * BlockLen(n)}) = first
    BY Zenon, <1>5
  <2>3. Abstract!Min({start + Openings[c], (block + 1) * BlockLen(n)}) = last
    BY Zenon, <1>5
  <2>4. Abstract!Max({0, last - first}) = long  BY Zenon, <1>5
  <2> QED BY <1>1, <1>2, <1>3, <1>4, <2>1, <2>2, <2>3, <2>4 DEF Abstract!Run
<1> QED BY <1>6, <1>7

\* The pool the abstract level adds, with the outcomes of all passes over all ranks.
LEMMA AbstractExtended ==
    ASSUME NEW n
    PROVE  Abstract!Extended(n) = ExtendedOf(route, layout, SharedPools, n)
<1>1. \A rt, r, m : Abstract!Routed(rt, r, m) = Routed(rt, r, m)
  <2> SUFFICES ASSUME NEW rt, NEW r, NEW m PROVE Abstract!Routed(rt, r, m) = Routed(rt, r, m)
    OBVIOUS
  <2>1. \A q : Abstract!PassCount(q) = PassCount(q)
    BY Zenon DEF Abstract!PassCount, PassCount
  <2>2. Abstract!FirstPass(r) = FirstPass(r)
    <3>1. [q \in 0 .. r - 1 |-> Abstract!PassCount(q)] = [q \in 0 .. r - 1 |-> PassCount(q)]
      BY <2>1
    <3> QED BY <3>1, SameLayout DEF Abstract!FirstPass, FirstPass
  <2>3. Abstract!PassesOf(r) = PassesOf(r)
    BY <2>1, <2>2 DEF Abstract!PassesOf, PassesOf
  <2> QED BY Zenon, <2>3, SameLayout DEF Abstract!Routed, Routed
<1>3. Abstract!BlockCount(n) = BlockCount(n)
  BY Zenon DEF Abstract!BlockCount, BlockCount,
               Abstract!BlockLen, BlockLen, Abstract!Min, Min,
               Abstract!OutcomeCount, OutcomeCount,
               Abstract!SumOver, SumOver, Abstract!FoldSet, FoldSet, Abstract!MapThenFoldSet, MapThenFoldSet
<1>2. \A lay, num : Abstract!UnitCount(lay, n, num) = UnitCount(lay, n, num)
  <2>1. \A lay, num : Abstract!Tiles(lay, num) = Tiles(lay, num)
    BY Zenon DEF Abstract!Tiles, Tiles
  <2> QED BY <1>3, <2>1 DEF Abstract!UnitCount, UnitCount
<1>4. \A routed, run : Abstract!ByPass(routed, run) = ByPass(routed, run)
  BY Zenon DEF Abstract!ByPass, ByPass
<1>5. \A r : Abstract!Chains(r, n) = ChainsOf(route, layout, r, n)
  <2> SUFFICES ASSUME NEW r PROVE Abstract!Chains(r, n) = ChainsOf(route, layout, r, n)
    OBVIOUS
  <2> DEFINE routed == Routed(route, r, n)
             blocks == [b \in 1 .. BlockCount(n) |-> b - 1]
             num == Len(routed)
             top == UnitCount(layout, n, num) - 1
           chain(u, i) == ByPass(routed, Run(layout, n, num, blocks, u, i))
             aRouted == Abstract!Routed(route, r, n)
             aNum == Len(aRouted)
             aTop == Abstract!UnitCount(layout, n, aNum) - 1
             aBlocks == [b \in 1 .. Abstract!BlockCount(n) |-> b - 1]
             aChain(u, i) == Abstract!ByPass(aRouted, Abstract!Run(layout, n, aNum, aBlocks, u, i))
  <2>1. ChainsOf(route, layout, r, n) = {chain(u, i) : u \in 0 .. top, i \in DOMAIN Children[n]}
    BY DEF ChainsOf
  <2>2. Abstract!Chains(r, n) = {aChain(u, i) : u \in 0 .. aTop, i \in DOMAIN Children[n]}
    BY DEF Abstract!Chains
  <2>3. aRouted = routed  BY <1>1
  <2>4. aBlocks = blocks  BY Zenon, <1>3
  <2>5. aNum = num  BY Zenon, <2>3
  <2>6. aTop = top  BY Zenon, <1>2, <2>5
  <2>7. \A u, i : aChain(u, i) = chain(u, i)
    <3> HIDE DEF aRouted, aNum, aBlocks, routed, num, blocks
    <3> SUFFICES ASSUME NEW u, NEW i PROVE aChain(u, i) = chain(u, i)  OBVIOUS
    <3>1. aChain(u, i) = Abstract!ByPass(routed, Abstract!Run(layout, n, num, blocks, u, i))
      BY Zenon, <2>3, <2>4, <2>5
    <3> QED BY Zenon, <1>4, <3>1, SameRuns
  <2> HIDE DEF chain, aChain, top, aTop
  <2> QED BY <2>1, <2>2, <2>6, <2>7
<1>6. \A omega : Abstract!ChildOf(n, omega) = ChildAt(n, omega)
  BY Zenon DEF Abstract!ChildOf, ChildAt, Abstract!OutcomeStart, OutcomeStart,
               Abstract!SumOver, SumOver, Abstract!FoldSet, FoldSet, Abstract!MapThenFoldSet, MapThenFoldSet
<1>7. \A r : Abstract!Solves(r, n) = SolvesOf(route, layout, SharedPools, r, n)
  <2> SUFFICES ASSUME NEW r PROVE Abstract!Solves(r, n) = SolvesOf(route, layout, SharedPools, r, n)
    OBVIOUS
  <2> DEFINE solve(c, k, child) == [pass |-> c[k][1], omega |-> c[k][2],
                 out |-> [seen |-> DOMAIN SharedPools[r][child], chain |-> SubSeq(c, 1, k - 1)]]
  <2>1. Abstract!Solves(r, n) = UNION {{solve(c, k, Abstract!ChildOf(n, c[k][2])) : k \in DOMAIN c} :
                                         c \in Abstract!Chains(r, n)}
    BY Zenon DEF Abstract!Solves, SharedPools
  <2>2. SolvesOf(route, layout, SharedPools, r, n) =
          UNION {{solve(c, k, ChildAt(n, c[k][2])) : k \in DOMAIN c} : c \in ChainsOf(route, layout, r, n)}
    BY Zenon DEF SolvesOf
  <2>3. Abstract!Chains(r, n) = ChainsOf(route, layout, r, n)
    BY <1>5
  <2>4. \A c, k : solve(c, k, Abstract!ChildOf(n, c[k][2])) = solve(c, k, ChildAt(n, c[k][2]))
    BY Zenon, <1>6
  <2> HIDE DEF solve
  <2> QED BY <2>1, <2>2, <2>3, <2>4
<1>8. \A m, g, f : Abstract!SlotIndex(m, g, f) = SlotIndex(m, g, f)
  BY Zenon DEF Abstract!SlotIndex, SlotIndex
<1>9. Abstract!Iteration = Iteration
  BY Zenon DEF Abstract!Iteration, Iteration
<1> DEFINE solves == UNION {SolvesOf(route, layout, SharedPools, r, n) : r \in Ranks}
           visitors == InOrder({g \in DOMAIN route : n \in route[g]})
           slots == {SlotIndex(n, Iteration, k - 1) : k \in DOMAIN visitors}
           cutOf(g) ==
              [gen |-> Iteration, pass |-> g,
               outs |-> [omega \in 0 .. OutcomeCount(n) - 1 |->
                           (CHOOSE o \in solves : o.pass = g /\ o.omega = omega).out]]
           pools == SharedPools
<1>10. ExtendedOf(route, layout, SharedPools, n) =
          [s \in DOMAIN pools[0][n] \cup slots |->
            IF s \in slots THEN cutOf(visitors[s - SlotIndex(n, Iteration, 0) + 1])
            ELSE pools[0][n][s]]
  BY Zenon DEF ExtendedOf
<1>11. UNION {Abstract!Solves(r, n) : r \in Abstract!Ranks} = solves
  <2>1. Abstract!Ranks = Ranks  BY SameLayout
  <2> QED BY <1>7, <2>1
<1>12. Abstract!InOrder({g \in DOMAIN route : n \in route[g]}) = visitors
  BY Zenon, SameLayout
<1>13. {Abstract!SlotIndex(n, Abstract!Iteration, k - 1) : k \in DOMAIN visitors} = slots
  <2> HIDE DEF visitors
  <2> QED BY <1>8, <1>9
<1>14. Abstract!SlotIndex(n, Abstract!Iteration, 0) = SlotIndex(n, Iteration, 0)
  BY <1>8, <1>9
<1>15. Abstract!OutcomeCount(n) = OutcomeCount(n)  BY SameLayout
<1> HIDE DEF visitors, slots
<1>16. \A g : [gen |-> Abstract!Iteration, pass |-> g,
               outs |-> [omega \in 0 .. Abstract!OutcomeCount(n) - 1 |->
                           (CHOOSE o \in solves : o.pass = g /\ o.omega = omega).out]] = cutOf(g)
  <2> HIDE DEF solves
  <2> QED BY <1>9, <1>15
<1> DEFINE cutBy(all, g) == [gen |-> Abstract!Iteration, pass |-> g,
               outs |-> [omega \in 0 .. Abstract!OutcomeCount(n) - 1 |->
                           (CHOOSE o \in all : o.pass = g /\ o.omega = omega).out]]
           extBy(all, vis, first, sl) == [s \in DOMAIN pools[0][n] \cup sl |->
                  IF s \in sl THEN cutBy(all, vis[s - first + 1]) ELSE pools[0][n][s]]
<1>17. Abstract!Extended(n) =
         extBy(UNION {Abstract!Solves(r, n) : r \in Abstract!Ranks},
               Abstract!InOrder({g \in DOMAIN route : n \in route[g]}),
               Abstract!SlotIndex(n, Abstract!Iteration, 0),
               {Abstract!SlotIndex(n, Abstract!Iteration, k - 1) :
                  k \in DOMAIN Abstract!InOrder({g \in DOMAIN route : n \in route[g]})})
  BY Zenon DEF Abstract!Extended, SharedPools
<1>18. Abstract!Extended(n) = extBy(solves, visitors, SlotIndex(n, Iteration, 0), slots)
  <2> HIDE DEF extBy, solves
  <2> QED BY Zenon, <1>11, <1>12, <1>13, <1>14, <1>17
<1>19. \A g : cutBy(solves, g) = cutOf(g)  BY Zenon, <1>16
<1> HIDE DEF cutOf, cutBy, solves, pools
<1> QED BY <1>10, <1>18, <1>19

----------------------------------------------------------------------------
(* The buffers *)

\* The units a worker has finished, and what its buffer holds of them.
Finished(r, w) == IF status[r][w] = "busy" THEN claimed[r][w] \ {unit[r][w]} ELSE claimed[r][w]
KeptHere(r, u) == Kept(route, layout, Held(r, Node), r, Node, order[r], u)
KeptBy(r, w) ==
    /\ IsSequence(buffer[r][w])
    /\ Range(buffer[r][w]) = UNION {KeptHere(r, u) : u \in Finished(r, w)}

\* In a region every worker holds the results of the units it finished, and has stopped
\* only when no unit was left; outside, the buffers are empty.
RankBuffers(r) ==
    /\ DOMAIN buffer[r] = Workers /\ IsSequence(buffer[r])
    /\ pc[r] # "sweep" => \A w \in Workers : buffer[r][w] = <<>> /\ status[r][w] # "busy"
    /\ pc[r] = "sweep" =>
          /\ Listing(order[r], BlockCount(Node))
          /\ \A w \in Workers : /\ status[r][w] = "done" => Units(r) <= cursor[r]
                                /\ status[r][w] # "failed" => KeptBy(r, w)

BufferInv ==
    /\ route \in Routes /\ layout \in Layouts
    /\ DOMAIN buffer = Ranks /\ DOMAIN pool = Ranks
    /\ \A r \in Ranks : RankBuffers(r)

\* An empty buffer holds nothing.
LEMMA EmptySequence == IsSequence(<<>>) /\ Range(<<>>) = {}
<1>1. Range(<<>>) = {}
  BY DEF Range
<1> QED BY <1>1 DEF IsSequence

\* The buffers are empty at first.
LEMMA InitBuffers == Init => BufferInv
<1> SUFFICES ASSUME Init PROVE BufferInv  OBVIOUS
<1>1. ASSUME NEW r \in Ranks PROVE RankBuffers(r)
  <2>1. buffer[r] = [w \in Workers |-> <<>>] /\ status[r] = [w \in Workers |-> "done"] /\ pc[r] = "exchange"
    BY DEF Init
  <2>2. IsSequence(buffer[r])
    <3>1. DOMAIN buffer[r] = 1 .. NWorkers /\ NWorkers \in Nat
      BY <2>1, LayoutAssumption DEF Workers
    <3>2. buffer[r] = [k \in DOMAIN buffer[r] |-> buffer[r][k]]
      BY <2>1
    <3> QED BY <3>1, <3>2, SequenceShape
  <2> QED BY <2>1, <2>2 DEF RankBuffers
<1> QED BY <1>1 DEF Init, BufferInv

\* Where a rank's own state stands still, so does what its buffers hold.
LEMMA QuietBuffers ==
    ASSUME NEW r \in Ranks, RankBuffers(r),
           UNCHANGED <<route, layout, level, node>>, order'[r] = order[r],
           buffer'[r] = buffer[r], pc'[r] = pc[r], pool'[r] = pool[r], status'[r] = status[r],
           unit'[r] = unit[r], claimed'[r] = claimed[r], cursor'[r] = cursor[r]
    PROVE  RankBuffers(r)'
<1>1. Node' = Node /\ Units(r)' = Units(r)
  BY DEF Node, LevelNodes, Units, RoutedHere
<1>2. Held(r, Node)' = Held(r, Node)
  BY <1>1 DEF Held
<1>3. \A u : KeptHere(r, u)' = KeptHere(r, u)
  BY <1>1, <1>2 DEF KeptHere
<1>4. \A w \in Workers : Finished(r, w)' = Finished(r, w)
  BY DEF Finished
<1>5. \A w \in Workers : KeptBy(r, w)' = KeptBy(r, w)
  BY <1>3, <1>4 DEF KeptBy
<1> QED BY <1>1, <1>5 DEF RankBuffers

\* The node at hand is a cut-generating node of its level.
LEMMA NodeAtHand ==
    ASSUME Placed, NEW r \in Ranks, pc[r] \notin {"exchange", "ok"}
    PROVE  /\ level \in 1 .. Len(Levels) /\ node \in DOMAIN LevelNodes
           /\ Node \in Range(LevelNodes) /\ Node \in Nodes /\ CutGenerating(Node)
<1>1. level \in 1 .. Len(Levels)
  BY StagesDescend DEF Placed
<1>2. node \in DOMAIN LevelNodes
  BY DEF Placed, LevelNodes
<1>3. Node \in Range(LevelNodes)
  BY <1>2 DEF Node, Range
<1> QED BY <1>1, <1>2, <1>3, LevelNodeFacts DEF LevelNodes

\* A rank enters a region with empty buffers.
LEMMA EntryBuffers ==
    ASSUME BufferInv, ClaimInv, Placed', NEW r \in Ranks, pc[r] # "sweep", pc'[r] = "sweep",
           UNCHANGED <<route, layout>>, StartNode(Node')
    PROVE  RankBuffers(r)'
<1>1. RankBuffers(r) /\ layout \in Layouts
  BY DEF BufferInv
<1>2. buffer' = buffer /\ claimed' = claimed
  BY DEF StartNode
<1>3. /\ order'[r] \in BlockOrders(Node')
      /\ \A w \in Workers : status'[r][w] = "idle"
  BY DEF StartNode
<1>4. Node' \in Nodes /\ CutGenerating(Node')
  <2>1. pc'[r] \notin {"exchange", "ok"}  OBVIOUS
  <2>2. level' \in 1 .. Len(Levels) /\ node' \in DOMAIN Levels[level']
    BY <2>1, StagesDescend DEF Placed
  <2>3. Node' = Levels[level'][node']
    BY DEF Node, LevelNodes
  <2>4. Node' \in Range(Levels[level'])
    BY <2>2, <2>3 DEF Range
  <2> HIDE DEF Node
  <2> QED BY <2>2, <2>4, LevelNodeFacts
<1>5. Listing(order'[r], BlockCount(Node'))
  <2>1. PICK m : m = Node'  OBVIOUS
  <2>2. Listing(Ascending(m), BlockCount(m))
    BY <1>4, <2>1, AscendingLists
  <2>3. order'[r] = Ascending(m) \/ Listing(order'[r], BlockCount(m))
    BY <1>3, <2>1 DEF BlockOrders, Listing, Ascending
  <2> QED BY <2>1, <2>2, <2>3
<1>6. ASSUME NEW w \in Workers PROVE KeptBy(r, w)'
  <2>1. buffer[r][w] = <<>> /\ claimed[r][w] = {}
    BY <1>1 DEF RankBuffers, ClaimInv
  <2>2. Finished(r, w)' = {}
    BY <1>2, <2>1 DEF Finished
  <2>3. UNION {KeptHere(r, u)' : u \in {}} = {}  OBVIOUS
  <2> QED BY <1>2, <2>1, <2>2, <2>3, EmptySequence DEF KeptBy
<1>7. DOMAIN buffer'[r] = Workers /\ IsSequence(buffer'[r])
  BY <1>1, <1>2 DEF RankBuffers
<1> QED BY <1>3, <1>5, <1>6, <1>7 DEF RankBuffers

\* The number of units of a node.
LEMMA UnitsCounted ==
    ASSUME NEW n \in Nodes, CutGenerating(n), NEW lay \in Layouts, NEW rt, NEW r \in Ranks
    PROVE  UnitCount(lay, n, Len(Routed(rt, r, n))) \in Nat
<1>1. PICK num \in Nat : num = Len(Routed(rt, r, n))
  BY RoutedBound
<1>2. PICK t \in Nat, b \in Nat : t = Tiles(lay, num) /\ b = BlockCount(n)
  BY BlockFacts, TileFacts
<1>3. t * b \in Nat  OBVIOUS
<1> QED BY <1>1, <1>2, <1>3 DEF UnitCount

\* Claimed units are units of the node.
LEMMA ClaimedUnits ==
    ASSUME ClaimInv, Placed, layout \in Layouts, NEW r \in Ranks, pc[r] = "sweep", NEW w \in Workers,
           NEW u \in claimed[r][w]
    PROVE  u \in UnitsOf(route, layout, r, Node) /\ u \in Nat /\ u < cursor[r] /\ u < Units(r)
<1>1. cursor[r] \in Nat /\ u \in UNION {claimed[r][v] : v \in Workers}
  BY DEF ClaimInv, ClaimTypes
<1>2. u \in 0 .. cursor[r] - 1 /\ u < Units(r)
  BY <1>1 DEF ClaimInv, ClaimedOnce
<1>3. Node \in Nodes /\ CutGenerating(Node)  BY NodeAtHand
<1>4. UnitCount(layout, Node, Len(Routed(route, r, Node))) \in Nat
  BY <1>3, UnitsCounted
<1>5. Units(r) = UnitCount(layout, Node, Len(Routed(route, r, Node)))
  BY DEF Units, RoutedHere
<1>6. PICK k \in Nat, c \in Nat : k = Units(r) /\ c = cursor[r]
  BY <1>1, <1>4, <1>5
<1>7. u \in 0 .. k - 1 /\ u < c /\ u \in Nat  BY <1>1, <1>2, <1>6
<1> QED BY <1>5, <1>6, <1>7 DEF UnitsOf

\* A claim finishes nothing; the last one finds no unit left.
LEMMA ClaimBuffers ==
    ASSUME BufferInv, ClaimInv, Placed, NEW r \in Ranks, NEW w \in Workers, Claim(r, w)
    PROVE  BufferInv'
<1> USE DEF layoutVars, claimVars, workerVars, poolVars
<1>0. /\ pc[r] = "sweep" /\ status[r][w] = "idle" /\ cursor' = [cursor EXCEPT ![r] = cursor[r] + 1]
      /\ UNCHANGED <<route, layout, level, node, pc, order, buffer, pool>>
  BY DEF Claim
<1>t. ClaimTypes
  BY DEF ClaimInv
<1>1. \/ /\ cursor[r] < Units(r)
         /\ unit' = [unit EXCEPT ![r][w] = cursor[r]]
         /\ claimed' = [claimed EXCEPT ![r][w] = claimed[r][w] \cup {cursor[r]}]
         /\ status' = [status EXCEPT ![r][w] = "busy"]
      \/ /\ ~ (cursor[r] < Units(r)) /\ UNCHANGED <<unit, claimed>>
         /\ status' = [status EXCEPT ![r][w] = "done"]
  BY Zenon DEF Claim
<1>2. ASSUME NEW q \in Ranks, q # r PROVE RankBuffers(q)'
  <2>1. RankBuffers(q)
    BY DEF BufferInv
  <2>2. status'[q] = status[q] /\ unit'[q] = unit[q] /\ claimed'[q] = claimed[q] /\ cursor'[q] = cursor[q]
    BY <1>0, <1>1, <1>2, <1>t DEF ClaimTypes
  <2> QED BY <1>0, <2>1, <2>2, QuietBuffers
<1>3. RankBuffers(r)'
  <2>1. RankBuffers(r)
    BY DEF BufferInv
  <2>2. Node' = Node /\ Units(r)' = Units(r) /\ Held(r, Node)' = Held(r, Node)
    BY <1>0 DEF Node, LevelNodes, Units, RoutedHere, Held
  <2>3. \A u : KeptHere(r, u)' = KeptHere(r, u)
    BY <1>0, <2>2 DEF KeptHere
  <2>4. Node \in Nodes /\ CutGenerating(Node) /\ layout \in Layouts
    BY <1>0, NodeAtHand DEF BufferInv
  <2>5. PICK k \in Nat, c \in Nat : k = Units(r) /\ c = cursor[r]
    <3>1. Units(r) \in Nat
      BY <2>4, UnitsCounted DEF Units, RoutedHere
    <3> QED BY <1>t, <3>1 DEF ClaimTypes
  <2>6. cursor'[r] = c + 1
    BY <1>0, <1>t, <2>5 DEF ClaimTypes
  <2>7. ASSUME NEW v \in Workers, v # w
        PROVE  status'[r][v] = status[r][v] /\ Finished(r, v)' = Finished(r, v)
    <3>1. status'[r][v] = status[r][v] /\ unit'[r][v] = unit[r][v] /\ claimed'[r][v] = claimed[r][v]
      BY <1>1, <1>t, <2>7 DEF ClaimTypes
    <3> QED BY <3>1 DEF Finished
  <2>8. /\ Finished(r, w)' = Finished(r, w)
        /\ status'[r][w] \in {"busy", "done"} /\ (status'[r][w] = "done" => k <= c)
    <3>1. Finished(r, w) = claimed[r][w]
      BY <1>0 DEF Finished
    <3>2. CASE c < k
      <4>1. /\ unit'[r][w] = c /\ claimed'[r][w] = claimed[r][w] \cup {c} /\ status'[r][w] = "busy"
        BY <1>1, <1>t, <2>5, <3>2 DEF ClaimTypes
      <4>2. c \notin claimed[r][w]
        <5>1. \A u \in claimed[r][w] : u \in Nat /\ u < cursor[r]
          BY <1>0, <2>4, ClaimedUnits
        <5> QED BY <2>5, <5>1
      <4> QED BY <3>1, <4>1, <4>2 DEF Finished
    <3>3. CASE ~ (c < k)
      <4>1. claimed' = claimed /\ status'[r][w] = "done"
        BY <1>1, <1>t, <2>5, <3>3 DEF ClaimTypes
      <4> QED BY <2>5, <3>1, <3>3, <4>1 DEF Finished
    <3> QED BY <3>2, <3>3
  <2>9. ASSUME NEW v \in Workers
        PROVE  /\ status'[r][v] = "done" => Units(r)' <= cursor'[r]
               /\ status'[r][v] # "failed" => KeptBy(r, v)'
    <3>0. (status[r][v] = "done" => Units(r) <= cursor[r]) /\ (status[r][v] # "failed" => KeptBy(r, v))
      BY <1>0, <2>1 DEF RankBuffers
    <3>1. Finished(r, v)' = Finished(r, v)  BY <2>7, <2>8
    <3>2. status'[r][v] = "done" => k <= c
      BY <2>5, <2>7, <2>8, <3>0
    <3>3. status'[r][v] # "failed" => status[r][v] # "failed"
      BY <1>0, <2>7
    <3>4. KeptBy(r, v)' <=> KeptBy(r, v)
      BY <1>0, <2>3, <3>1 DEF KeptBy
    <3>5. k <= c => k <= c + 1  OBVIOUS
    <3> QED BY <2>2, <2>5, <2>6, <3>0, <3>2, <3>3, <3>4, <3>5
  <2>10. Listing(order[r], BlockCount(Node)) /\ DOMAIN buffer[r] = Workers /\ IsSequence(buffer[r])
    BY <1>0, <2>1 DEF RankBuffers
  <2> QED BY <1>0, <2>2, <2>9, <2>10 DEF RankBuffers
<1> QED BY <1>0, <1>2, <1>3 DEF BufferInv

\* A finished unit joins what its worker holds.
LEMMA SolveBuffers ==
    ASSUME BufferInv, ClaimInv, Placed, NEW r \in Ranks, NEW w \in Workers, Solve(r, w)
    PROVE  BufferInv'
<1> USE DEF layoutVars, claimVars, workerVars, poolVars
<1>0. /\ status[r][w] = "busy"
      /\ UNCHANGED <<route, layout, level, node, pc, cursor, order, claimed, pool>>
  BY Zenon DEF Solve
<1>t. ClaimTypes
  BY DEF ClaimInv
<1>b. RankBuffers(r) /\ DOMAIN buffer = Ranks
  BY DEF BufferInv
<1>1. pc[r] = "sweep"
  BY <1>0, <1>b DEF RankBuffers
<1>2. PICK u, kept : /\ u = unit[r][w]
                     /\ kept = Staged(Node, u, SolveUnit(r, Node, u, solver[r][w]).outs)
  OBVIOUS
<1>3. /\ status' = [status EXCEPT ![r][w] = "idle"] /\ unit' = [unit EXCEPT ![r][w] = -1]
      /\ buffer' = [buffer EXCEPT ![r][w] = buffer[r][w] \o kept]
  BY Zenon, <1>2 DEF Solve
<1>4. u \in claimed[r][w]
  BY <1>0, <1>1, <1>2 DEF ClaimInv, ClaimedOnce
<1>5. Node \in Nodes /\ CutGenerating(Node) /\ layout \in Layouts /\ u \in UnitsOf(route, layout, r, Node)
  BY <1>1, <1>4, NodeAtHand, ClaimedUnits DEF BufferInv
<1>6. IsSequence(kept) /\ Range(kept) = KeptHere(r, u)
  <2>1. Listing(order[r], BlockCount(Node))
    BY <1>1, <1>b DEF RankBuffers
  <2>2. PICK n : n = Node  OBVIOUS
  <2>3. /\ n \in Nodes /\ CutGenerating(n) /\ u \in UnitsOf(route, layout, r, n)
        /\ Listing(order[r], BlockCount(n)) /\ kept = Staged(n, u, SolveUnit(r, n, u, solver[r][w]).outs)
    BY <1>2, <1>5, <2>1, <2>2
  <2>4. /\ IsSequence(kept)
        /\ Range(kept) = Kept(route, layout, Held(r, n), r, n, order[r], u)
    BY ONLY <1>5, <2>3, r \in Ranks, StagedKept
  <2> QED BY <2>2, <2>4 DEF KeptHere
<1>7. ASSUME NEW q \in Ranks, q # r PROVE RankBuffers(q)'
  <2>1. RankBuffers(q)
    BY DEF BufferInv
  <2>2. status'[q] = status[q] /\ unit'[q] = unit[q] /\ buffer'[q] = buffer[q]
    BY <1>3, <1>7, <1>b, <1>t DEF ClaimTypes
  <2> QED BY <1>0, <2>1, <2>2, QuietBuffers
<1>8. RankBuffers(r)'
  <2>2. Node' = Node /\ Units(r)' = Units(r) /\ Held(r, Node)' = Held(r, Node)
    BY <1>0 DEF Node, LevelNodes, Units, RoutedHere, Held
  <2>3. \A x : KeptHere(r, x)' = KeptHere(r, x)
    BY <1>0, <2>2 DEF KeptHere
  <2>4. /\ buffer'[r] = [buffer[r] EXCEPT ![w] = buffer[r][w] \o kept]
        /\ DOMAIN buffer[r] = Workers
    BY <1>3, <1>b DEF RankBuffers
  <2>5. DOMAIN buffer'[r] = Workers /\ IsSequence(buffer'[r])
    <3>1. DOMAIN buffer'[r] = Workers /\ buffer'[r] = [k \in DOMAIN buffer'[r] |-> buffer'[r][k]]
      BY <2>4
    <3>2. Workers = 1 .. NWorkers /\ NWorkers \in Nat
      BY LayoutAssumption DEF Workers
    <3> QED BY <3>1, <3>2, SequenceShape
  <2>6. \A v \in Workers : (status[r][v] = "done" => Units(r) <= cursor[r])
                           /\ (status[r][v] # "failed" => KeptBy(r, v))
    BY <1>1, <1>b DEF RankBuffers
  <2>7. ASSUME NEW v \in Workers, v # w
        PROVE  /\ status'[r][v] = status[r][v] /\ KeptBy(r, v)' = KeptBy(r, v)
    <3>1. status'[r][v] = status[r][v] /\ unit'[r][v] = unit[r][v] /\ claimed'[r][v] = claimed[r][v]
          /\ buffer'[r][v] = buffer[r][v]
      BY <1>0, <1>3, <1>t, <2>4, <2>7 DEF ClaimTypes
    <3>2. Finished(r, v)' = Finished(r, v)
      BY <3>1 DEF Finished
    <3> QED BY <2>3, <3>1, <3>2 DEF KeptBy
  <2>8. status'[r][w] = "idle" /\ KeptBy(r, w)'
    <3>1. status'[r][w] = "idle" /\ buffer'[r][w] = buffer[r][w] \o kept /\ claimed'[r][w] = claimed[r][w]
      BY <1>0, <1>3, <1>t, <2>4 DEF ClaimTypes
    <3>2. Finished(r, w)' = Finished(r, w) \cup {u}
      BY <1>0, <1>2, <1>4, <3>1 DEF Finished
    <3>3. PICK b : b = buffer[r][w] /\ IsSequence(b)
                   /\ Range(b) = UNION {KeptHere(r, x) : x \in Finished(r, w)}
      BY <1>0, <2>6 DEF KeptBy
    <3>4. IsSequence(b \o kept) /\ Range(b \o kept) = Range(b) \cup Range(kept)
      <4>1. PICK X : X = Range(b) \cup Range(kept)  OBVIOUS
      <4>2. b \in Seq(X) /\ kept \in Seq(X)
        <5>1. b \in Seq(Range(b)) /\ kept \in Seq(Range(kept))
          BY <1>6, <3>3 DEF IsSequence
        <5> QED BY <4>1, <5>1
      <4>3. Range(b \o kept) = X  BY <4>1, <4>2, ConcatRange
      <4>4. b \o kept \in Seq(X)  BY <4>2
      <4> QED BY <4>1, <4>3, <4>4 DEF IsSequence
    <3>5. (UNION {KeptHere(r, x) : x \in Finished(r, w)}) \cup KeptHere(r, u) =
            UNION {KeptHere(r, x) : x \in Finished(r, w) \cup {u}}
      OBVIOUS
    <3>6. Range(b \o kept) = UNION {KeptHere(r, x) : x \in Finished(r, w) \cup {u}}
      BY <1>6, <3>3, <3>4, <3>5
    <3>7. UNION {KeptHere(r, x)' : x \in Finished(r, w)'} =
            UNION {KeptHere(r, x) : x \in Finished(r, w) \cup {u}}
      BY <2>3, <3>2
    <3> QED BY <3>1, <3>3, <3>4, <3>6, <3>7 DEF KeptBy
  <2>9. Listing(order[r], BlockCount(Node))
    BY <1>1, <1>b DEF RankBuffers
  <2>10. \A v \in Workers : (status'[r][v] = "done" => Units(r)' <= cursor'[r])
                           /\ (status'[r][v] # "failed" => KeptBy(r, v)')
    BY <1>0, <2>2, <2>6, <2>7, <2>8
  <2> QED BY <1>0, <1>1, <2>2, <2>5, <2>9, <2>10 DEF RankBuffers
<1>9. DOMAIN buffer' = Ranks  BY <1>3, <1>b
<1> QED BY <1>0, <1>7, <1>8, <1>9 DEF BufferInv

\* A worker that fails no longer counts.
LEMMA FailBuffers ==
    ASSUME BufferInv, ClaimInv, Placed, NEW r \in Ranks, NEW w \in Workers, FailSolve(r, w)
    PROVE  BufferInv'
<1> USE DEF layoutVars, claimVars, workerVars, poolVars
<1>0. /\ status[r][w] = "busy" /\ status' = [status EXCEPT ![r][w] = "failed"]
      /\ UNCHANGED <<route, layout, level, node, pc, cursor, order, unit, claimed, buffer, pool>>
  BY DEF FailSolve
<1>t. ClaimTypes
  BY DEF ClaimInv
<1>1. ASSUME NEW q \in Ranks, q # r PROVE RankBuffers(q)'
  <2>1. RankBuffers(q)
    BY DEF BufferInv
  <2>2. status'[q] = status[q]
    BY <1>0, <1>1, <1>t DEF ClaimTypes
  <2> QED BY <1>0, <2>1, <2>2, QuietBuffers
<1>2. RankBuffers(r)'
  <2>1. RankBuffers(r)
    BY DEF BufferInv
  <2>2. Node' = Node /\ Units(r)' = Units(r) /\ Held(r, Node)' = Held(r, Node)
    BY <1>0 DEF Node, LevelNodes, Units, RoutedHere, Held
  <2>3. \A x : KeptHere(r, x)' = KeptHere(r, x)
    BY <1>0, <2>2 DEF KeptHere
  <2>4. status'[r][w] = "failed" /\ \A v \in Workers : v # w => status'[r][v] = status[r][v]
    BY <1>0, <1>t DEF ClaimTypes
  <2>5. ASSUME NEW v \in Workers, v # w PROVE KeptBy(r, v)' = KeptBy(r, v)
    <3>1. Finished(r, v)' = Finished(r, v)
      BY <1>0, <2>4, <2>5 DEF Finished
    <3> QED BY <1>0, <2>3, <3>1 DEF KeptBy
  <2>6. pc[r] = "sweep"
    BY <1>0, <2>1 DEF RankBuffers
  <2> QED BY <1>0, <2>1, <2>2, <2>4, <2>5, <2>6 DEF RankBuffers
<1> QED BY <1>0, <1>1, <1>2 DEF BufferInv

\* The end of a region empties the rank's buffers.
LEMMA FinishBuffers ==
    ASSUME BufferInv, NEW r \in Ranks, Finish(r), DOMAIN pc = Ranks, DOMAIN cursor = Ranks,
           DOMAIN claimed = Ranks
    PROVE  BufferInv'
<1> USE DEF layoutVars, claimVars, workerVars, poolVars
<1>0. /\ \A w \in Workers : status[r][w] \in {"done", "failed"}
      /\ pc' = [pc EXCEPT ![r] = "vote"] /\ cursor' = [cursor EXCEPT ![r] = 0]
      /\ claimed' = [claimed EXCEPT ![r] = [w \in Workers |-> {}]]
      /\ buffer' = [buffer EXCEPT ![r] = [w \in Workers |-> <<>>]]
      /\ UNCHANGED <<route, layout, level, node, order, status, unit>>
  BY DEF Finish
<1>p. \/ pool' = pool
      \/ \E x : pool' = [pool EXCEPT ![r][Node] = x]
  BY Zenon DEF Finish
<1>b. DOMAIN buffer = Ranks /\ DOMAIN pool = Ranks
  BY DEF BufferInv
<1>1. DOMAIN pool' = Ranks /\ \A q \in Ranks : q # r => pool'[q] = pool[q]
  BY <1>p, <1>b
<1>2. ASSUME NEW q \in Ranks, q # r PROVE RankBuffers(q)'
  <2>1. RankBuffers(q)
    BY DEF BufferInv
  <2>2. pc'[q] = pc[q] /\ cursor'[q] = cursor[q] /\ claimed'[q] = claimed[q] /\ buffer'[q] = buffer[q]
    BY <1>0, <1>2, <1>b
  <2> QED BY <1>0, <1>1, <1>2, <2>1, <2>2, QuietBuffers
<1>3. RankBuffers(r)'
  <2>1. pc'[r] = "vote" /\ buffer'[r] = [w \in Workers |-> <<>>]
    BY <1>0, <1>b
  <2>2. IsSequence(buffer'[r])
    <3>1. DOMAIN buffer'[r] = 1 .. NWorkers /\ NWorkers \in Nat
      BY <2>1, LayoutAssumption DEF Workers
    <3>2. buffer'[r] = [k \in DOMAIN buffer'[r] |-> buffer'[r][k]]
      BY <2>1
    <3> QED BY <3>1, <3>2, SequenceShape
  <2>3. \A w \in Workers : status'[r][w] # "busy"  BY <1>0
  <2> QED BY <2>1, <2>2, <2>3 DEF RankBuffers
<1>4. DOMAIN buffer' = Ranks  BY <1>0, <1>b
<1> QED BY <1>0, <1>1, <1>2, <1>3, <1>4 DEF BufferInv

\* Outside the regions nothing is buffered.
LEMMA OutsideBuffers ==
    ASSUME BufferInv, UNCHANGED <<route, layout, buffer, status>>, DOMAIN pool' = Ranks,
           \A r \in Ranks : pc[r] # "sweep" /\ pc'[r] # "sweep"
    PROVE  BufferInv'
<1>1. ASSUME NEW r \in Ranks PROVE RankBuffers(r)'
  BY <1>1 DEF BufferInv, RankBuffers
<1> QED BY <1>1 DEF BufferInv

SweepInv == TypesInv /\ BufferInv

\* Every step keeps the buffers.
LEMMA NextBuffers == SweepInv /\ [Next]_vars => BufferInv'
<1> SUFFICES ASSUME SweepInv, [Next]_vars PROVE BufferInv'  OBVIOUS
<1> USE DEF layoutVars, claimVars, workerVars, poolVars
<1>0. /\ ClaimInv /\ BufferInv /\ Placed /\ Placed'
  <2>1. TypesInv /\ SweepTypes' /\ BufferInv
    BY NextTypes DEF SweepInv
  <2> QED BY <2>1 DEF TypesInv, SweepTypes
<1>d. /\ DOMAIN pc = Ranks /\ DOMAIN cursor = Ranks /\ DOMAIN claimed = Ranks /\ DOMAIN pool = Ranks
      /\ DOMAIN buffer = Ranks
  BY <1>0 DEF ClaimInv, ClaimTypes, BufferInv
<1>1. CASE ExchangeStates
  <2>1. \A r \in Ranks : pc[r] = "exchange"
    BY <1>1 DEF ExchangeStates, AllAt
  <2>2. UNCHANGED <<route, layout, pool>> /\ node' = 1 /\ level' = level
    BY <1>1 DEF ExchangeStates
  <2>3. CASE StartNode(LevelNodes[1])
    <3>1. Node' = LevelNodes[1]
      BY <2>2 DEF Node, LevelNodes
    <3>2. StartNode(Node') /\ buffer' = buffer
      BY <2>3, <3>1 DEF StartNode
    <3>3. ASSUME NEW r \in Ranks PROVE RankBuffers(r)'
      <4>1. CASE pc'[r] = "sweep"
        BY <1>0, <2>1, <2>2, <3>2, <4>1, EntryBuffers
      <4>2. CASE pc'[r] # "sweep"
        <5>1. \A w \in Workers : status'[r][w] = "idle"
          BY <2>3 DEF StartNode
        <5> QED BY <1>0, <2>1, <3>2, <4>2, <5>1 DEF BufferInv, RankBuffers
      <4> QED BY <4>1, <4>2
    <3> QED BY <1>0, <2>2, <3>2, <3>3 DEF BufferInv
  <2>4. CASE pc' = [r \in Ranks |-> "failed"] /\ UNCHANGED <<claimVars, workerVars>>
    BY <1>0, <1>d, <2>1, <2>2, <2>4, OutsideBuffers
  <2> QED BY <1>1, <2>3, <2>4 DEF ExchangeStates
<1>2. CASE Reconcile
  <2>1. \A r \in Ranks : pc[r] = "vote"
    BY <1>2 DEF Reconcile, AllAt
  <2>2. UNCHANGED <<route, layout, pool>> /\ level' = level
    BY <1>2 DEF Reconcile
  <2>3. CASE StartNode(LevelNodes[node'])
    <3>1. Node' = LevelNodes[node']
      BY <2>2 DEF Node, LevelNodes
    <3>2. StartNode(Node') /\ buffer' = buffer
      BY <2>3, <3>1 DEF StartNode
    <3>3. ASSUME NEW r \in Ranks PROVE RankBuffers(r)'
      <4>1. CASE pc'[r] = "sweep"
        BY <1>0, <2>1, <2>2, <3>2, <4>1, EntryBuffers
      <4>2. CASE pc'[r] # "sweep"
        <5>1. \A w \in Workers : status'[r][w] = "idle"
          BY <2>3 DEF StartNode
        <5> QED BY <1>0, <2>1, <3>2, <4>2, <5>1 DEF BufferInv, RankBuffers
      <4> QED BY <4>1, <4>2
    <3> QED BY <1>0, <2>2, <3>2, <3>3 DEF BufferInv
  <2>4. CASE /\ UNCHANGED <<claimVars, workerVars>>
             /\ pc' \in {[r \in Ranks |-> "failed"], [r \in Ranks |-> "gather"]}
    BY <1>0, <1>d, <2>1, <2>2, <2>4, OutsideBuffers
  <2> QED BY <1>2, <2>3, <2>4 DEF Reconcile
<1>3. CASE Gather \/ SyncMetadata
  <2>1. \A r \in Ranks : pc[r] \in {"gather", "metadata"}
    BY <1>3 DEF Gather, SyncMetadata, AllAt
  <2>2. UNCHANGED <<route, layout, pool, buffer, status>>
    BY <1>3 DEF Gather, SyncMetadata
  <2>3. \A r \in Ranks : pc'[r] # "sweep"
    BY <1>3 DEF Gather, SyncMetadata
  <2> QED BY <1>0, <1>d, <2>1, <2>2, <2>3, OutsideBuffers
<1>4. ASSUME NEW r \in Ranks, InsertRemote(r) PROVE BufferInv'
  <2>1. /\ UNCHANGED <<route, layout, buffer, status>>
        /\ pc[r] = "insert" /\ pc' = [pc EXCEPT ![r] = "metadata"] /\ DOMAIN pool' = Ranks
    BY <1>4, <1>d DEF InsertRemote
  <2>2. \A q \in Ranks : pc[q] # "sweep"
    BY <1>0, <1>4, <2>1 DEF SweepInv, TypesInv, SweepTypes, Together
  <2> QED BY <1>0, <1>d, <2>1, <2>2, OutsideBuffers
<1>5. ASSUME NEW r \in Ranks, NEW w \in Workers, Claim(r, w) \/ Solve(r, w) \/ FailSolve(r, w)
      PROVE  BufferInv'
  BY <1>0, <1>5, ClaimBuffers, SolveBuffers, FailBuffers
<1>6. ASSUME NEW r \in Ranks, Finish(r) PROVE BufferInv'
  BY <1>0, <1>d, <1>6, FinishBuffers
<1>7. CASE UNCHANGED vars
  <2>1. ASSUME NEW r \in Ranks PROVE RankBuffers(r)'
    <3>1. RankBuffers(r)
      BY <1>0 DEF BufferInv
    <3> QED BY <1>7, <3>1, QuietBuffers DEF vars
  <2> QED BY <1>0, <1>7, <2>1 DEF BufferInv, vars
<1> QED BY <1>1, <1>2, <1>3, <1>4, <1>5, <1>6, <1>7 DEF Next, Terminated

----------------------------------------------------------------------------
(* The pools *)

\* Whether the level at hand has the node, the cuts rank r finds for it, and its pool with them.
Current(n) == level \in DOMAIN Levels /\ n \in Range(LevelNodes)
Mine(r, n) == LocalOf(route, layout, Held(r, n), r, n)
Others(r, n) == UNION {Mine(q, n) : q \in Ranks \ {r}}
Added(r, n) == WithCuts(OldPool[n], n, Mine(r, n))

PoolShapes ==
    /\ DOMAIN arena = Ranks /\ \A r \in Ranks : DOMAIN arena[r] = 0 .. ArenaLen - 1
    /\ \A r \in Ranks : DOMAIN pool[r] = Nodes /\ \A n \in Nodes : IsFunction(pool[r][n])

\* The pools of the levels behind are shared, those of the levels ahead as they were.
DonePools == \A n \in Nodes, r \in Ranks : Completed(n) => pool[r][n] = pool[0][n]
LaterPools ==
    \A n \in Nodes, r \in Ranks : ~ Completed(n) /\ ~ Current(n) => pool[r][n] = OldPool[n]

\* The pools of the level at hand, node by node and step by step.
LevelPool(r, k) ==
    LET n == LevelNodes[k]
    IN  /\ pc[r] = "exchange" => pool[r][n] = OldPool[n]
        /\ pc[r] = "sweep" => pool[r][n] = IF k < node THEN Added(r, n) ELSE OldPool[n]
        /\ pc[r] = "vote" /\ solved[r] => pool[r][n] = IF k <= node THEN Added(r, n) ELSE OldPool[n]
        /\ pc[r] \in {"gather", "insert"} => pool[r][n] = Added(r, n)
        /\ pc[r] = "metadata" => pool[r][n] = WithCuts(Added(r, n), n, Others(r, n))
LevelPools == level \in DOMAIN Levels => \A r \in Ranks, k \in DOMAIN LevelNodes : LevelPool(r, k)

\* Past the exchange the visits of the level fit, and the exchanged cuts are those of the level.
Strides ==
    \A r \in Ranks : pc[r] \in {"sweep", "vote", "gather", "insert", "metadata"} =>
        \A n \in Range(LevelNodes) : StrideSuffices(route, n)
SentCuts ==
    \A r \in Ranks : pc[r] \in {"insert", "metadata"} =>
        \A q \in Ranks, n \in Nodes : sent[q][n] = IF Current(n) THEN Mine(q, n) ELSE {}

PoolInv == PoolShapes /\ DonePools /\ LaterPools /\ LevelPools /\ Strides /\ SentCuts

\* A node is in one level only, and its children are in another.
LEMMA LevelsApart ==
    ASSUME level \in Nat, NEW n, Current(n)
    PROVE  /\ n \in Nodes /\ CutGenerating(n) /\ ~ Completed(n)
           /\ \A i \in DOMAIN Children[n] : Children[n][i] \in Nodes /\ ~ Current(Children[n][i])
<1>1. PICK m \in Nat : m = Len(Levels) /\ DOMAIN Levels = 1 .. m
  BY StagesDescend
<1>2. level \in 1 .. m /\ n \in Range(Levels[level])
  BY <1>1 DEF Current, LevelNodes
<1>3. \A l \in 1 .. m : \A x \in Range(Levels[l]) :
         /\ x \in Nodes /\ CutGenerating(x) /\ StageOf[x] = LevelStage(l) /\ StageOf[x] \in Nat
         /\ \A i \in DOMAIN Children[x] :
               Children[x][i] \in Nodes /\ StageOf[Children[x][i]] = StageOf[x] + 1
  BY <1>1, LevelNodeFacts
<1>4. \A l, k \in 1 .. m : l < k => LevelStage(k) < LevelStage(l)
  BY <1>1, StagesDescend
<1>5. ~ Completed(n)
  <2> SUFFICES ASSUME NEW l \in 1 .. level - 1, n \in Range(Levels[l]) PROVE FALSE
    BY DEF Completed
  <2>1. l \in 1 .. m /\ l < level  BY <1>2
  <2>2. LevelStage(level) < LevelStage(l) /\ StageOf[n] = LevelStage(level) /\ StageOf[n] = LevelStage(l)
        /\ StageOf[n] \in Nat
    BY <1>2, <1>3, <1>4, <2>1
  <2> QED BY <2>2
<1>6. ASSUME NEW i \in DOMAIN Children[n] PROVE Children[n][i] \in Nodes /\ ~ Current(Children[n][i])
  <2>1. Children[n][i] \in Nodes /\ StageOf[Children[n][i]] = StageOf[n] + 1 /\ StageOf[n] \in Nat
    BY <1>2, <1>3
  <2>2. ASSUME Current(Children[n][i]) PROVE FALSE
    <3>1. Children[n][i] \in Range(Levels[level])
      BY <2>2 DEF Current, LevelNodes
    <3>2. StageOf[Children[n][i]] = LevelStage(level) /\ StageOf[n] = LevelStage(level)
      BY <1>2, <1>3, <3>1
    <3> QED BY <2>1, <3>2
  <2> QED BY <2>1, <2>2
<1> QED BY <1>2, <1>3, <1>5, <1>6

\* What a rank finds for a node of the level rests on the pools of other levels only.
LEMMA MineStands ==
    ASSUME level \in Nat, UNCHANGED <<route, layout>>, NEW r, NEW n, Current(n),
           \A c \in Nodes : ~ Current(c) => pool'[r][c] = pool[r][c]
    PROVE  Held(r, n)' = Held(r, n) /\ Mine(r, n)' = Mine(r, n)
<1>1. \A i \in DOMAIN Children[n] : pool'[r][Children[n][i]] = pool[r][Children[n][i]]
  BY LevelsApart
<1>2. Held(r, n)' = Held(r, n)
  BY <1>1 DEF Held
<1> QED BY <1>2 DEF Mine

\* When every worker of a rank is done, the cuts it merges are the ones its passes call for.
LEMMA FinishCuts ==
    ASSUME BufferInv, ClaimInv, Placed, PoolShapes, NEW r \in Ranks, pc[r] = "sweep",
           \A w \in Workers : status[r][w] = "done"
    PROVE  LocalCuts(r, Node) = Mine(r, Node)
<1>1. RankBuffers(r) /\ layout \in Layouts /\ route \in Routes
  BY DEF BufferInv
<1>2. PICK n : n = Node  OBVIOUS
<1>3. /\ n \in Nodes /\ CutGenerating(n) /\ level \in 1 .. Len(Levels) /\ node \in DOMAIN LevelNodes
      /\ n \in Range(LevelNodes)
  BY <1>2, NodeAtHand
<1>4. PICK items : items = FlattenSeq(buffer[r])  OBVIOUS
<1>5. \A w \in Workers : /\ IsSequence(buffer[r][w]) /\ Units(r) <= cursor[r]
                         /\ Range(buffer[r][w]) = UNION {KeptHere(r, u) : u \in claimed[r][w]}
  BY <1>1 DEF RankBuffers, KeptBy, Finished
<1>6. IsSequence(items) /\ Range(items) = UNION {Range(buffer[r][w]) : w \in Workers}
  <2>0. PICK K \in Nat \ {0} : K = NWorkers  BY LayoutAssumption
  <2>1. PICK seqs : seqs = buffer[r]  OBVIOUS
  <2>2. DOMAIN seqs = 1 .. K /\ IsSequence(seqs) /\ \A i \in 1 .. K : IsSequence(seqs[i])
    BY <1>1, <1>5, <2>0, <2>1 DEF RankBuffers, Workers
  <2>3. /\ IsSequence(FlattenSeq(seqs))
        /\ Range(FlattenSeq(seqs)) = UNION {Range(seqs[i]) : i \in 1 .. K}
    BY ONLY <2>2, FlattenRange
  <2> QED BY <1>4, <2>0, <2>1, <2>3 DEF Workers
<1>7. UNION {claimed[r][w] : w \in Workers} = UnitsOf(route, layout, r, n)
  <2>1. PICK k \in Nat, c \in Nat : k = Units(r) /\ c = cursor[r]
    <3>1. Units(r) \in Nat
      BY <1>1, <1>2, <1>3, UnitsCounted DEF Units, RoutedHere
    <3> QED BY <3>1 DEF ClaimInv, ClaimTypes
  <2>2. UNION {claimed[r][w] : w \in Workers} = {u \in 0 .. c - 1 : u < k}
    BY <2>1 DEF ClaimInv, ClaimedOnce
  <2>3. 1 \in Workers
    BY LayoutAssumption DEF Workers
  <2>4. k <= c  BY <1>5, <2>1, <2>3
  <2>5. {u \in 0 .. c - 1 : u < k} = 0 .. k - 1  BY <2>4
  <2> QED BY <1>2, <2>1, <2>2, <2>5 DEF UnitsOf, Units, RoutedHere
<1>8. Range(items) = UNION {Kept(route, layout, Held(r, n), r, n, order[r], u) :
                              u \in UnitsOf(route, layout, r, n)}
  <2>1. UNION {UNION {KeptHere(r, u) : u \in claimed[r][w]} : w \in Workers} =
          UNION {KeptHere(r, u) : u \in UNION {claimed[r][w] : w \in Workers}}
    OBVIOUS
  <2>2. {Range(buffer[r][w]) : w \in Workers} = {UNION {KeptHere(r, u) : u \in claimed[r][w]} : w \in Workers}
    BY <1>5
  <2>3. \A u : KeptHere(r, u) = Kept(route, layout, Held(r, n), r, n, order[r], u)
    BY <1>2 DEF KeptHere
  <2>4. UNION {KeptHere(r, u) : u \in UnitsOf(route, layout, r, n)} =
          UNION {Kept(route, layout, Held(r, n), r, n, order[r], u) : u \in UnitsOf(route, layout, r, n)}
    BY <2>3
  <2> QED BY <1>6, <1>7, <2>1, <2>2, <2>4
<1>9. Listing(order[r], BlockCount(n)) /\ DOMAIN arena[r] = 0 .. ArenaLen - 1
  BY <1>1, <1>2 DEF RankBuffers, PoolShapes
<1>10. ASSUME NEW pos \in 0 .. Len(Routed(route, r, n)) - 1
       PROVE  Aggregated(r, n, pos) = CutFor(route, layout, Held(r, n), r, n, pos).outs
  BY ONLY <1>1, <1>3, <1>4, <1>6, <1>8, <1>9, r \in Ranks, <1>10, MergedOutcomes
<1>11. NodeOffset(r, n) = VisitOffset(route, r, n)
  <2>1. ASSUME Len(LevelNodes) = 1 PROVE VisitOffset(route, r, n) = FirstPass(r)
    <3>1. DOMAIN LevelNodes = 1 .. Len(LevelNodes)
      BY <1>3, LevelFacts DEF LevelNodes
    <3>2. node = 1 /\ n = Levels[level][1] /\ Len(Levels[level]) = 1
      BY <1>2, <1>3, <2>1, <3>1 DEF Node, LevelNodes
    <3> QED BY <1>1, <1>3, <3>2, LoneOffset
  <2> QED BY <2>1 DEF NodeOffset
<1>12. ASSUME NEW pos \in 0 .. Len(Routed(route, r, n)) - 1
       PROVE  [gen |-> Iteration, pass |-> Routed(route, r, n)[pos + 1], outs |-> Aggregated(r, n, pos)] =
                CutFor(route, layout, Held(r, n), r, n, pos)
  <2>1. CutFor(route, layout, Held(r, n), r, n, pos) =
          [gen |-> Iteration, pass |-> Routed(route, r, n)[pos + 1],
           outs |-> CutFor(route, layout, Held(r, n), r, n, pos).outs]
    BY DEF CutFor
  <2> QED BY <1>10, <2>1
<1>13. LocalCuts(r, n) = LocalOf(route, layout, Held(r, n), r, n)
  BY <1>11, <1>12 DEF LocalCuts, LocalOf
<1> QED BY <1>2, <1>13 DEF Mine

\* Pools as they were, and pools with cuts, are functions; the former hold no cut of this
\* iteration.
LEMMA PoolsAreFunctions ==
    ASSUME NEW n \in Nodes
    PROVE  /\ IsFunction(OldPool[n])
           /\ \A s \in DOMAIN OldPool[n] : OldPool[n][s].gen # Iteration
           /\ \A held, cuts : IsFunction(WithCuts(held, n, cuts))
<1>1. OldPool[n] = [s \in {0} |-> OldCut] \/ OldPool[n] = << >>
  BY DEF OldPool
<1>2. ASSUME OldPool[n] = [s \in {0} |-> OldCut]
      PROVE  IsFunction(OldPool[n]) /\ \A s \in DOMAIN OldPool[n] : OldPool[n][s].gen # Iteration
  <2>1. OldPool[n] = [x \in {0} |-> OldCut]  BY <1>2
  <2> QED BY <2>1 DEF IsFunction, OldCut, OldIteration, Iteration
<1>3. ASSUME OldPool[n] = << >>
      PROVE  IsFunction(OldPool[n]) /\ \A s \in DOMAIN OldPool[n] : OldPool[n][s].gen # Iteration
  BY <1>3 DEF IsFunction
<1>4. \A held, cuts : IsFunction(WithCuts(held, n, cuts))
  BY DEF WithCuts, IsFunction
<1> QED BY <1>1, <1>2, <1>3, <1>4

\* The pools are as they were at first.
LEMMA InitPools == Init => PoolInv
<1> SUFFICES ASSUME Init PROVE PoolInv  OBVIOUS
<1>1. /\ level = 1 /\ pool = [r \in Ranks |-> OldPool] /\ pc = [r \in Ranks |-> "exchange"]
      /\ arena = [r \in Ranks |-> [k \in 0 .. ArenaLen - 1 |-> NoOutcome]]
  BY DEF Init
<1>2. \A r \in Ranks : pool[r] = OldPool /\ DOMAIN pool[r] = Nodes
  BY <1>1 DEF OldPool
<1>3. PoolShapes
  BY <1>1, <1>2, PoolsAreFunctions DEF PoolShapes
<1>4. DonePools /\ LaterPools
  BY <1>1, <1>2, RankZero DEF DonePools, LaterPools
<1>5. LevelPools
  BY <1>1, <1>2 DEF LevelPools, LevelPool
<1>6. Strides /\ SentCuts
  BY <1>1 DEF Strides, SentCuts
<1> QED BY <1>3, <1>4, <1>5, <1>6 DEF PoolInv

\* Steps that leave the level alone leave what is behind and ahead of it alone.
LEMMA LevelStands ==
    ASSUME UNCHANGED <<route, layout, level>>
    PROVE  /\ LevelNodes' = LevelNodes
           /\ \A n : Completed(n)' = Completed(n) /\ Current(n)' = Current(n)
BY DEF LevelNodes, Completed, Current

\* Steps that leave the pools alone leave what the ranks find alone.
LEMMA PoolStands ==
    ASSUME UNCHANGED <<route, layout, level, pool>>
    PROVE  /\ LevelNodes' = LevelNodes
           /\ \A n : Completed(n)' = Completed(n) /\ Current(n)' = Current(n)
           /\ \A r, n : /\ Held(r, n)' = Held(r, n) /\ Mine(r, n)' = Mine(r, n)
                        /\ Added(r, n)' = Added(r, n) /\ Others(r, n)' = Others(r, n)
<1>1. \A r, n : Held(r, n)' = Held(r, n)
  BY DEF Held
<1>2. \A r, n : Mine(r, n)' = Mine(r, n)
  BY <1>1 DEF Mine
<1> QED BY <1>1, <1>2, LevelStands DEF Added, Others

\* Where pools, arenas and levels stand still, the conjuncts on them alone do too.
LEMMA PoolsKept ==
    ASSUME PoolInv, UNCHANGED <<route, layout, level, pool, arena>>
    PROVE  PoolShapes' /\ DonePools' /\ LaterPools'
<1>1. PoolShapes /\ DonePools /\ LaterPools
  BY DEF PoolInv
<1>2. \A n : Completed(n)' = Completed(n) /\ Current(n)' = Current(n)
  BY PoolStands
<1>3. PoolShapes'
  BY <1>1 DEF PoolShapes
<1>4. DonePools'
  BY <1>1, <1>2 DEF DonePools
<1>5. LaterPools'
  BY <1>1, <1>2 DEF LaterPools
<1> QED BY <1>3, <1>4, <1>5

\* Work within the regions leaves every pool alone.
LEMMA QuietPools ==
    ASSUME PoolInv, UNCHANGED <<route, layout, level, node, pc, pool, arena, solved, sent>>
    PROVE  PoolInv'
<1>1. PoolShapes' /\ DonePools' /\ LaterPools'  BY PoolsKept
<1>2. LevelPools /\ Strides /\ SentCuts
  BY DEF PoolInv
<1>3. LevelNodes' = LevelNodes  BY PoolStands
<1>4. \A r, k : LevelPool(r, k)' <=> LevelPool(r, k)
  <2>1. \A r, n : Added(r, n)' = Added(r, n) /\ Others(r, n)' = Others(r, n)
    BY PoolStands
  <2> QED BY <1>3, <2>1 DEF LevelPool
<1>5. LevelPools'
  BY <1>2, <1>3, <1>4 DEF LevelPools
<1>6. Strides'
  BY <1>2, <1>3 DEF Strides
<1>7. SentCuts'
  <2>1. \A q, n : Mine(q, n)' = Mine(q, n) /\ Current(n)' = Current(n)
    BY PoolStands
  <2> QED BY <1>2, <2>1 DEF SentCuts
<1> QED BY <1>1, <1>5, <1>6, <1>7 DEF PoolInv

\* The exchange checks the strides; no pool has changed yet.
LEMMA ExchangePools ==
    ASSUME PoolInv, Placed, ExchangeStates
    PROVE  PoolInv'
<1> USE DEF layoutVars, claimVars, workerVars, poolVars
<1>1. /\ \A r \in Ranks : pc[r] = "exchange"
      /\ UNCHANGED <<route, layout, level, pool, arena, sent>> /\ node' = 1
      /\ \/ /\ pc' = [r \in Ranks |-> "sweep"] /\ \A n \in Range(LevelNodes) : StrideSuffices(route, n)
         \/ pc' = [r \in Ranks |-> "failed"]
  BY DEF ExchangeStates, AllAt
<1>2. PoolShapes' /\ DonePools' /\ LaterPools'  BY <1>1, PoolsKept
<1>3. LevelPools
  BY DEF PoolInv
<1>4. LevelNodes' = LevelNodes  BY <1>1, PoolStands
<1>5. LevelPools'
  <2> SUFFICES ASSUME level \in DOMAIN Levels, NEW r \in Ranks, NEW k \in DOMAIN LevelNodes
               PROVE  LevelPool(r, k)'
    BY <1>1, <1>4 DEF LevelPools
  <2>1. pool[r][LevelNodes[k]] = OldPool[LevelNodes[k]]
    BY <1>1, <1>3 DEF LevelPools, LevelPool
  <2>2. ~ (k < 1)
    BY LevelFacts, StagesDescend DEF LevelNodes
  <2>3. pc'[r] = "sweep" \/ pc'[r] = "failed"  BY <1>1
  <2> QED BY <1>1, <1>4, <2>1, <2>2, <2>3 DEF LevelPool
<1>6. Strides'
  BY <1>1, <1>4 DEF Strides
<1>7. SentCuts'
  <2>1. \A r \in Ranks : pc'[r] \notin {"insert", "metadata"}
    BY <1>1
  <2> QED BY <2>1 DEF SentCuts
<1> QED BY <1>2, <1>5, <1>6, <1>7 DEF PoolInv

\* The vote passes only when every rank has added its cuts of the node.
LEMMA ReconcilePools ==
    ASSUME PoolInv, Placed, Reconcile
    PROVE  PoolInv'
<1> USE DEF layoutVars, claimVars, workerVars, poolVars
<1>1. /\ \A r \in Ranks : pc[r] = "vote"
      /\ UNCHANGED <<route, layout, level, pool, arena, sent, solved>>
      /\ \/ pc' = [r \in Ranks |-> "failed"]
         \/ /\ \A r \in Ranks : solved[r]
            /\ \/ /\ pc' = [r \in Ranks |-> "sweep"] /\ node' = node + 1
               \/ /\ pc' = [r \in Ranks |-> "gather"] /\ ~ (node < Len(LevelNodes))
  BY DEF Reconcile, AllAt
<1>2. PoolShapes' /\ DonePools' /\ LaterPools'  BY <1>1, PoolsKept
<1>3. LevelPools /\ Strides
  BY DEF PoolInv
<1>4. LevelNodes' = LevelNodes  BY <1>1, PoolStands
<1>5. LevelPools'
  <2> SUFFICES ASSUME level \in DOMAIN Levels, NEW r \in Ranks, NEW k \in DOMAIN LevelNodes,
                      pc'[r] # "failed"
               PROVE  LevelPool(r, k)'
    BY <1>1, <1>4 DEF LevelPools, LevelPool
  <2>1. /\ solved[r] /\ pc[r] = "vote"
        /\ \/ pc'[r] = "sweep" /\ node' = node + 1
           \/ pc'[r] = "gather" /\ ~ (node < Len(LevelNodes))
    BY <1>1
  <2>2. pool[r][LevelNodes[k]] = IF k <= node THEN Added(r, LevelNodes[k]) ELSE OldPool[LevelNodes[k]]
    BY <1>3, <2>1 DEF LevelPools, LevelPool
  <2>3. Added(r, LevelNodes[k])' = Added(r, LevelNodes[k])
    <3>1. \A m : Added(r, m)' = Added(r, m)  BY <1>1, PoolStands
    <3> QED BY <1>4, <3>1
  <2>4. k \in Nat /\ node \in Nat /\ k <= Len(LevelNodes) /\ Len(LevelNodes) \in Nat
    <3>1. level \in 1 .. Len(Levels)  BY StagesDescend
    <3>2. DOMAIN LevelNodes = 1 .. Len(LevelNodes) /\ Len(LevelNodes) \in Nat
      BY <3>1, LevelFacts DEF LevelNodes
    <3>3. node \in DOMAIN LevelNodes
      BY <2>1 DEF Placed, LevelNodes
    <3>4. PICK m \in Nat : m = Len(LevelNodes)  BY <3>2
    <3> QED BY <3>2, <3>3, <3>4
  <2>5. CASE pc'[r] = "sweep" /\ node' = node + 1
    <3>1. k < node' <=> k <= node  BY <2>4, <2>5
    <3> QED BY <1>1, <1>4, <2>2, <2>3, <2>5, <3>1 DEF LevelPool
  <2>6. CASE pc'[r] = "gather" /\ ~ (node < Len(LevelNodes))
    <3>1. k <= node  BY <2>4, <2>6
    <3> QED BY <1>1, <1>4, <2>2, <2>3, <2>6, <3>1 DEF LevelPool
  <2> QED BY <2>1, <2>5, <2>6
<1>6. Strides'
  BY <1>1, <1>3, <1>4, RankZero DEF Strides
<1>7. SentCuts'
  <2>1. \A r \in Ranks : pc'[r] \notin {"insert", "metadata"}
    BY <1>1
  <2> QED BY <2>1 DEF SentCuts
<1> QED BY <1>2, <1>5, <1>6, <1>7 DEF PoolInv

\* A step that changes pools of the level at hand only leaves what its ranks find alone.
LEMMA LevelKept ==
    ASSUME PoolInv, level \in Nat, UNCHANGED <<route, layout, level>>,
           \A q \in Ranks, c \in Nodes : ~ Current(c) => pool'[q][c] = pool[q][c]
    PROVE  /\ DonePools' /\ LaterPools'
           /\ \A q \in Ranks, n \in Nodes : Current(n) =>
                 /\ Mine(q, n)' = Mine(q, n) /\ Added(q, n)' = Added(q, n) /\ Others(q, n)' = Others(q, n)
<1>1. \A n : Completed(n)' = Completed(n) /\ Current(n)' = Current(n)
  BY LevelStands
<1>2. DonePools /\ LaterPools
  BY DEF PoolInv
<1>3. \A n \in Nodes : Completed(n) => ~ Current(n)
  BY LevelsApart
<1>4. DonePools'
  BY <1>1, <1>2, <1>3, RankZero DEF DonePools
<1>5. LaterPools'
  BY <1>1, <1>2 DEF LaterPools
<1>6. ASSUME NEW n \in Nodes, Current(n)
      PROVE  \A q \in Ranks : /\ Mine(q, n)' = Mine(q, n) /\ Added(q, n)' = Added(q, n)
                              /\ Others(q, n)' = Others(q, n)
  <2>1. \A q \in Ranks : Mine(q, n)' = Mine(q, n)
    BY <1>6, MineStands
  <2>2. \A q \in Ranks : Added(q, n)' = Added(q, n)
    BY <2>1 DEF Added
  <2>3. \A q \in Ranks : Others(q, n)' = Others(q, n)
    BY <2>1 DEF Others
  <2> QED BY <2>1, <2>2, <2>3
<1> QED BY <1>4, <1>5, <1>6

\* A rank whose workers are all done adds the cuts its passes call for.
LEMMA FinishPools ==
    ASSUME SweepInv, PoolInv, NEW r \in Ranks, Finish(r)
    PROVE  /\ PoolInv'
           /\ \A q \in Ranks, c \in Nodes : ~ Current(c) => pool'[q][c] = pool[q][c]
<1> USE DEF layoutVars, claimVars, workerVars, poolVars
<1> DEFINE all == \A w \in Workers : status[r][w] = "done"
<1>0. /\ pc[r] = "sweep" /\ pc' = [pc EXCEPT ![r] = "vote"] /\ solved' = [solved EXCEPT ![r] = all]
      /\ UNCHANGED <<route, layout, level, node, sent>>
  BY Zenon DEF Finish
<1>t. /\ ClaimInv /\ BufferInv /\ Placed /\ Together /\ DOMAIN pc = Ranks /\ DOMAIN solved = Ranks
      /\ DOMAIN pool = Ranks
  BY DEF SweepInv, TypesInv, SweepTypes, ClaimInv, ClaimTypes, BufferInv
<1>p. PoolShapes /\ LevelPools /\ Strides
  BY DEF PoolInv
<1>n. /\ level \in 1 .. Len(Levels) /\ node \in DOMAIN LevelNodes /\ Node \in Range(LevelNodes)
      /\ Node \in Nodes /\ CutGenerating(Node) /\ Node = LevelNodes[node]
  BY <1>0, <1>t, NodeAtHand DEF Node
<1>l. level \in DOMAIN Levels /\ level \in Nat /\ LevelNodes' = LevelNodes /\ Current(Node)
  BY <1>0, <1>n, StagesDescend, LevelStands DEF Current
<1>k. /\ DOMAIN LevelNodes = 1 .. Len(LevelNodes) /\ IsInjective(LevelNodes)
      /\ \A k \in DOMAIN LevelNodes : k \in Nat /\ LevelNodes[k] \in Nodes /\ Current(LevelNodes[k])
  <2>1. /\ DOMAIN LevelNodes = 1 .. Len(LevelNodes) /\ IsInjective(LevelNodes)
        /\ \A k \in DOMAIN LevelNodes : LevelNodes[k] \in Nodes
    BY <1>n, LevelFacts DEF LevelNodes
  <2>2. \A k \in DOMAIN LevelNodes : Current(LevelNodes[k])
    BY <1>l DEF Current, Range
  <2> QED BY <2>1, <2>2
<1>v. \A q \in Ranks : pc'[q] \in {"sweep", "vote"} /\ pc'[q] \notin {"insert", "metadata"}
  BY <1>0, <1>t DEF Together
<1>1. /\ \A q \in Ranks, c \in Nodes : (q # r \/ c # Node) => pool'[q][c] = pool[q][c]
      /\ all => pool'[r][Node] = Added(r, Node)
      /\ PoolShapes'
  <2>1. CASE all
    <3>1. /\ arena' = arena \/ arena' = [arena EXCEPT ![r] = Scatter(r, Node)]
          /\ pool' = [pool EXCEPT ![r][Node] = WithCuts(pool[r][Node], Node, LocalCuts(r, Node))]
      <4>1. solved'[r]  BY <1>0, <1>t, <2>1
      <4> QED BY Zenon, <4>1 DEF Finish
    <3>2. LocalCuts(r, Node) = Mine(r, Node)
      BY <1>0, <1>p, <1>t, <2>1, FinishCuts
    <3>3. pool[r][Node] = OldPool[Node]
      <4>1. node \in Nat /\ ~ (node < node)  BY <1>n, <1>k
      <4> QED BY <1>0, <1>l, <1>n, <1>p, <4>1 DEF LevelPools, LevelPool
    <3>4. DOMAIN arena' = Ranks /\ \A q \in Ranks : DOMAIN arena'[q] = 0 .. ArenaLen - 1
      <4>1. DOMAIN Scatter(r, Node) = DOMAIN arena[r]
        BY DEF Scatter
      <4> QED BY <1>p, <3>1, <4>1 DEF PoolShapes
    <3>5. /\ pool'[r][Node] = Added(r, Node) /\ DOMAIN pool'[r] = Nodes
          /\ \A q \in Ranks, c \in Nodes : (q # r \/ c # Node) => pool'[q][c] = pool[q][c]
          /\ \A q \in Ranks : q # r => pool'[q] = pool[q]
      <4>1. DOMAIN pool[r] = Nodes
        BY <1>p DEF PoolShapes
      <4>2. PICK x : x = WithCuts(pool[r][Node], Node, LocalCuts(r, Node))  OBVIOUS
      <4>3. pool' = [pool EXCEPT ![r][Node] = x] /\ x = Added(r, Node)
        BY <3>1, <3>2, <3>3, <4>2 DEF Added
      <4> QED BY <1>n, <1>t, <4>1, <4>3
    <3>6. \A q \in Ranks : DOMAIN pool'[q] = Nodes /\ \A n \in Nodes : IsFunction(pool'[q][n])
      <4>1. IsFunction(Added(r, Node))
        BY <1>n, PoolsAreFunctions DEF Added
      <4> QED BY <1>p, <3>5, <4>1 DEF PoolShapes
    <3> QED BY <3>4, <3>5, <3>6 DEF PoolShapes
  <2>2. CASE ~ all
    <3>1. pool' = pool /\ arena' = arena
      <4>1. ~ solved'[r]  BY <1>0, <1>t, <2>2
      <4> QED BY Zenon, <4>1 DEF Finish
    <3> QED BY <1>p, <2>2, <3>1 DEF PoolShapes
  <2> QED BY <2>1, <2>2
<1>2. /\ DonePools' /\ LaterPools'
      /\ \A q \in Ranks, n \in Nodes : Current(n) => Added(q, n)' = Added(q, n)
  <2>1. \A q \in Ranks, c \in Nodes : ~ Current(c) => pool'[q][c] = pool[q][c]
    BY <1>1, <1>l
  <2> QED BY <1>0, <1>l, <2>1, LevelKept
<1>3. LevelPools'
  <2> SUFFICES ASSUME NEW q \in Ranks, NEW k \in DOMAIN LevelNodes PROVE LevelPool(q, k)'
    BY <1>0, <1>l DEF LevelPools
  <2> DEFINE n == LevelNodes[k]
  <2>1. n \in Nodes /\ Added(q, n)' = Added(q, n) /\ LevelNodes'[k] = n
    BY <1>2, <1>k, <1>l
  <2>2. LevelPool(q, k)
    BY <1>l, <1>p DEF LevelPools
  <2>3. CASE q # r
    <3>1. pc'[q] = pc[q] /\ solved'[q] = solved[q] /\ pool'[q][n] = pool[q][n] /\ node' = node
      BY <1>0, <1>1, <1>t, <2>1, <2>3
    <3> HIDE DEF n
    <3>2. pc'[q] \in {"sweep", "vote"}  BY <1>v
    <3> QED BY <2>1, <2>2, <3>1, <3>2 DEF LevelPool, n
  <2>4. CASE q = r
    <3>1. pc'[r] = "vote" /\ solved'[r] = all /\ node' = node
      BY <1>0, <1>t
    <3>2. ASSUME all PROVE pool'[r][n] = IF k <= node THEN Added(r, n) ELSE OldPool[n]
      <4>1. CASE k = node  BY <1>1, <1>k, <1>n, <3>2, <4>1
      <4>2. CASE k # node
        <5>1. n # Node
          BY <1>k, <1>n, <4>2 DEF IsInjective
        <5>2. pool'[r][n] = pool[r][n] /\ pool[r][n] = IF k < node THEN Added(r, n) ELSE OldPool[n]
          BY <1>0, <1>1, <2>1, <2>2, <2>4, <5>1 DEF LevelPool
        <5>3. k < node <=> k <= node  BY <1>k, <1>n, <4>2
        <5> QED BY <5>2, <5>3
      <4> QED BY <4>1, <4>2
    <3> HIDE DEF n, all
    <3> QED BY <2>1, <2>4, <3>1, <3>2 DEF LevelPool, n
  <2> QED BY <2>3, <2>4
<1>4. Strides'
  BY <1>0, <1>l, <1>p DEF Strides
<1>5. SentCuts'
  BY <1>v DEF SentCuts
<1> QED BY <1>1, <1>2, <1>3, <1>4, <1>5, <1>l DEF PoolInv

\* The cuts of a node, over all ranks.
HeldAll(n) == [q \in Ranks |-> Held(q, n)]
AllMine(n) == AllCuts(route, layout, HeldAll(n), n)

\* The cuts of all ranks are numbered, hence those of each, and they are its own and the others'.
LEMMA MineNumbered ==
    ASSUME route \in Routes, NEW n, NEW r \in Ranks
    PROVE  /\ DOMAIN route = 0 .. TotalPasses - 1
           /\ Numbered(Mine(r, n)) /\ Numbered(AllMine(n))
           /\ Mine(r, n) \cup Others(r, n) = AllMine(n)
<1>1. DOMAIN route = 0 .. TotalPasses - 1
  BY DEF Routes
<1>2. PICK H : H = HeldAll(n)  OBVIOUS
<1>3. /\ Numbered(AllCuts(route, layout, H, n))
      /\ \A q \in Ranks : Numbered(LocalOf(route, layout, H[q], q, n))
  BY ONLY <1>1, CutsNumbered
<1>4. \A q \in Ranks : Mine(q, n) = LocalOf(route, layout, H[q], q, n)
  BY <1>2 DEF Mine, HeldAll
<1>5. AllMine(n) = UNION {Mine(q, n) : q \in Ranks}
  BY <1>2, <1>4 DEF AllMine, AllCuts
<1>6. Mine(r, n) \cup Others(r, n) = AllMine(n)
  BY <1>5 DEF Others
<1>7. Numbered(AllMine(n))
  BY <1>2, <1>3 DEF AllMine
<1> QED BY <1>1, <1>3, <1>4, <1>6, <1>7

\* After its exchange a level's pools hold the cuts of all ranks, whichever rank looks.
LEMMA SyncedPool ==
    ASSUME SweepInv, PoolInv, NEW r \in Ranks, pc[r] = "metadata", NEW n, Current(n)
    PROVE  pool[r][n] = WithCuts(OldPool[n], n, AllMine(n))
<1>1. route \in Routes /\ level \in Nat /\ level \in DOMAIN Levels
  BY DEF SweepInv, BufferInv, TypesInv, SweepTypes, Placed, Current
<1>2. n \in Nodes  BY <1>1, LevelsApart
<1>3. PICK k \in DOMAIN LevelNodes : LevelNodes[k] = n
  BY DEF Current, Range
<1>4. pool[r][n] = WithCuts(Added(r, n), n, Others(r, n))
  BY <1>1, <1>3 DEF PoolInv, LevelPools, LevelPool
<1>5. PICK A, B, held : A = Mine(r, n) /\ B = Others(r, n) /\ held = OldPool[n]  OBVIOUS
<1>6. Numbered(A \cup B) /\ A \cup B = AllMine(n)
  BY <1>1, <1>5, MineNumbered
<1>7. WithCuts(WithCuts(held, n, A), n, B) = WithCuts(held, n, A \cup B)
  BY ONLY <1>2, <1>6, WithBoth
<1> QED BY <1>4, <1>5, <1>6, <1>7 DEF Added

\* What a rank packs for the level is what it found for it.
LEMMA GatherPools ==
    ASSUME SweepInv, PoolInv, Gather
    PROVE  PoolInv'
<1> USE DEF layoutVars, claimVars, workerVars, poolVars
<1>1. /\ \A r \in Ranks : pc[r] = "gather"
      /\ UNCHANGED <<route, layout, level, node, pool, arena, solved>>
      /\ pc' = [r \in Ranks |-> "insert"]
      /\ sent' = [r \in Ranks |-> [n \in Nodes |-> IF n \in Range(LevelNodes) THEN Packed(r, n) ELSE {}]]
  BY DEF Gather, AllAt
<1>2. PoolShapes' /\ DonePools' /\ LaterPools'  BY <1>1, PoolsKept
<1>3. /\ LevelPools /\ Strides /\ route \in Routes /\ level \in Nat /\ level \in DOMAIN Levels
      /\ LevelNodes' = LevelNodes
  <2>1. Placed /\ route \in Routes
    BY DEF SweepInv, BufferInv, TypesInv, SweepTypes
  <2>2. level \in 1 .. Len(Levels)
    BY <1>1, <2>1, RankZero, NodeAtHand
  <2>3. LevelNodes' = LevelNodes  BY <1>1, PoolStands
  <2> QED BY <2>1, <2>2, <2>3, StagesDescend DEF PoolInv
<1>4. \A r, n : /\ Mine(r, n)' = Mine(r, n) /\ Added(r, n)' = Added(r, n)
                /\ Current(n)' = Current(n)
  BY <1>1, PoolStands
<1>5. LevelPools'
  <2> SUFFICES ASSUME NEW r \in Ranks, NEW k \in DOMAIN LevelNodes PROVE LevelPool(r, k)'
    BY <1>1, <1>3 DEF LevelPools
  <2>1. pool[r][LevelNodes[k]] = Added(r, LevelNodes[k])
    BY <1>1, <1>3 DEF LevelPools, LevelPool
  <2>2. Added(r, LevelNodes[k])' = Added(r, LevelNodes[k])
    BY <1>3, <1>4
  <2>3. pc'[r] = "insert"  BY <1>1
  <2> QED BY <1>1, <1>3, <2>1, <2>2, <2>3 DEF LevelPool
<1>6. Strides'
  BY <1>1, <1>3 DEF Strides
<1>7. SentCuts'
  <2> SUFFICES ASSUME NEW q \in Ranks, NEW n \in Nodes
               PROVE  sent'[q][n] = IF Current(n) THEN Mine(q, n) ELSE {}
    BY <1>4 DEF SentCuts
  <2>1. Current(n) <=> n \in Range(LevelNodes)
    BY <1>3 DEF Current
  <2>2. ASSUME Current(n) PROVE Packed(q, n) = Mine(q, n)
    <3>1. PICK cuts, held : cuts = Mine(q, n) /\ held = OldPool[n]  OBVIOUS
    <3>2. Numbered(cuts)  BY <1>3, <3>1, MineNumbered
    <3>3. \A s \in DOMAIN held : held[s].gen # Iteration
      BY <3>1, PoolsAreFunctions
    <3>4. pool[q][n] = WithCuts(held, n, cuts)
      <4>1. PICK k \in DOMAIN LevelNodes : LevelNodes[k] = n
        BY <2>2 DEF Current, Range
      <4> QED BY <1>1, <1>3, <3>1, <4>1 DEF LevelPools, LevelPool, Added
    <3>5. Packed(q, n) = cuts
      BY ONLY n \in Nodes, <3>2, <3>3, <3>4, PackedCuts
    <3> QED BY <3>1, <3>5
  <2> QED BY <1>1, <2>1, <2>2
<1> QED BY <1>2, <1>5, <1>6, <1>7 DEF PoolInv

\* A rank adds the cuts of its peers, to the pools of the level only.
LEMMA InsertPools ==
    ASSUME SweepInv, PoolInv, NEW r \in Ranks, InsertRemote(r)
    PROVE  /\ PoolInv'
           /\ \A q \in Ranks, c \in Nodes : ~ Current(c) => pool'[q][c] = pool[q][c]
<1> USE DEF layoutVars, claimVars, workerVars, poolVars
<1>1. /\ pc[r] = "insert" /\ pc' = [pc EXCEPT ![r] = "metadata"]
      /\ pool' = [pool EXCEPT ![r] = [n \in Nodes |-> WithCuts(pool[r][n], n, Remote(r, n))]]
      /\ UNCHANGED <<route, layout, level, node, arena, solved, sent>>
  BY Zenon DEF InsertRemote
<1>t. Placed /\ Together /\ DOMAIN pc = Ranks /\ DOMAIN pool = Ranks /\ route \in Routes
  BY DEF SweepInv, TypesInv, SweepTypes, ClaimInv, ClaimTypes, BufferInv
<1>p. PoolShapes /\ LevelPools /\ Strides /\ SentCuts
  BY DEF PoolInv
<1>l. level \in DOMAIN Levels /\ level \in Nat /\ LevelNodes' = LevelNodes
  <2>1. level \in 1 .. Len(Levels)  BY <1>1, <1>t, NodeAtHand
  <2> QED BY <1>1, <2>1, StagesDescend, LevelStands
<1>v. \A q \in Ranks : pc[q] \in {"insert", "metadata"} /\ pc'[q] \in {"insert", "metadata"}
  BY <1>1, <1>t DEF Together
<1>2. /\ \A q \in Ranks : q # r => pool'[q] = pool[q]
      /\ \A n \in Nodes : pool'[r][n] = WithCuts(pool[r][n], n, Remote(r, n))
      /\ DOMAIN pool'[r] = Nodes
  BY <1>1, <1>t
<1>3. \A n \in Nodes : Remote(r, n) = IF Current(n) THEN Others(r, n) ELSE {}
  <2> SUFFICES ASSUME NEW n \in Nodes PROVE Remote(r, n) = IF Current(n) THEN Others(r, n) ELSE {}
    OBVIOUS
  <2>1. \A q \in Ranks : sent[q][n] = IF Current(n) THEN Mine(q, n) ELSE {}
    BY <1>1, <1>p DEF SentCuts
  <2> QED BY <2>1 DEF Remote, Others
<1>4. \A q \in Ranks, c \in Nodes : ~ Current(c) => pool'[q][c] = pool[q][c]
  <2> SUFFICES ASSUME NEW c \in Nodes, ~ Current(c) PROVE pool'[r][c] = pool[r][c]
    BY <1>2
  <2>1. PICK held : held = pool[r][c]  OBVIOUS
  <2>2. IsFunction(held)
    BY <1>p, <2>1 DEF PoolShapes
  <2>3. WithCuts(held, c, {}) = held
    BY ONLY <2>2, c \in Nodes, WithNone
  <2> QED BY <1>2, <1>3, <2>1, <2>3
<1>5. /\ DonePools' /\ LaterPools'
      /\ \A q \in Ranks, n \in Nodes : Current(n) =>
            Mine(q, n)' = Mine(q, n) /\ Added(q, n)' = Added(q, n) /\ Others(q, n)' = Others(q, n)
  BY <1>1, <1>4, <1>l, LevelKept
<1>6. PoolShapes'
  <2>1. \A q \in Ranks : DOMAIN pool'[q] = Nodes /\ \A n \in Nodes : IsFunction(pool'[q][n])
    BY <1>2, <1>p, PoolsAreFunctions DEF PoolShapes
  <2> QED BY <1>1, <1>p, <2>1 DEF PoolShapes
<1>7. LevelPools'
  <2> SUFFICES ASSUME NEW q \in Ranks, NEW k \in DOMAIN LevelNodes PROVE LevelPool(q, k)'
    BY <1>1, <1>l DEF LevelPools
  <2> DEFINE n == LevelNodes[k]
  <2>1. n \in Nodes /\ Current(n) /\ LevelNodes'[k] = n
    <3>1. Current(n)
      BY <1>l DEF Current, Range
    <3> QED BY <1>l, <3>1, LevelsApart
  <2>2. LevelPool(q, k)
    BY <1>l, <1>p DEF LevelPools
  <2>3. Added(q, n)' = Added(q, n) /\ Others(q, n)' = Others(q, n)
    BY <1>5, <2>1
  <2>4. CASE q # r
    <3>1. pc'[q] = pc[q] /\ pool'[q][n] = pool[q][n]
      BY <1>1, <1>2, <1>t, <2>4
    <3> HIDE DEF n
    <3> QED BY <1>v, <2>1, <2>2, <2>3, <3>1 DEF LevelPool, n
  <2>5. CASE q = r
    <3>1. pc'[r] = "metadata" /\ pool'[r][n] = WithCuts(pool[r][n], n, Others(r, n))
      BY <1>1, <1>2, <1>3, <1>t, <2>1
    <3>2. pool[r][n] = Added(r, n)
      BY <1>1, <2>2, <2>5 DEF LevelPool
    <3> HIDE DEF n
    <3> QED BY <2>1, <2>3, <2>5, <3>1, <3>2 DEF LevelPool, n
  <2> QED BY <2>4, <2>5
<1>8. Strides'
  BY <1>1, <1>l, <1>p DEF Strides
<1>9. SentCuts'
  <2>1. \A n : Current(n)' = Current(n)  BY <1>1, LevelStands
  <2>2. \A q \in Ranks, n \in Nodes : sent[q][n] = IF Current(n) THEN Mine(q, n) ELSE {}
    BY <1>1, <1>p DEF SentCuts
  <2> QED BY <1>1, <1>5, <2>1, <2>2 DEF SentCuts
<1> QED BY <1>4, <1>5, <1>6, <1>7, <1>8, <1>9 DEF PoolInv

\* With its exchange complete, a level is behind.
LEMMA LevelDone ==
    ASSUME level \in DOMAIN Levels, level' = level + 1, NEW n
    PROVE  Completed(n)' <=> Completed(n) \/ Current(n)
<1>1. level \in Nat /\ level >= 1  BY StagesDescend
<1>2. 1 .. level' - 1 = (1 .. level - 1) \cup {level}  BY <1>1
<1> QED BY <1>2 DEF Completed, Current, LevelNodes

\* The exchange of the metadata gives every rank the cuts of all ranks, and the level is behind.
LEMMA SyncPools ==
    ASSUME SweepInv, PoolInv, SyncMetadata
    PROVE  PoolInv'
<1> USE DEF layoutVars, claimVars, workerVars, poolVars
<1>1. /\ \A r \in Ranks : pc[r] = "metadata"
      /\ UNCHANGED <<route, layout, node, pool, arena, solved, sent>>
      /\ \/ level' = level + 1 /\ \A r \in Ranks : pc'[r] \in {"ok", "exchange"}
         \/ level' = level /\ \A r \in Ranks : pc'[r] = "panicked"
  BY DEF SyncMetadata, AllAt
<1>2. PoolShapes /\ DonePools /\ LaterPools /\ Placed
  BY DEF PoolInv, SweepInv, TypesInv, SweepTypes
<1>3. level \in DOMAIN Levels /\ level \in Nat
  <2>1. level \in 1 .. Len(Levels)
    BY <1>1, <1>2, RankZero, NodeAtHand
  <2> QED BY <2>1, StagesDescend
<1>4. PoolShapes'
  BY <1>1, <1>2 DEF PoolShapes
<1>5. Strides' /\ SentCuts'
  <2>1. \A r \in Ranks : pc'[r] \in {"ok", "exchange", "panicked"}
    BY <1>1
  <2> QED BY <2>1 DEF Strides, SentCuts
<1>6. CASE level' = level
  <2>1. \A n : Completed(n)' = Completed(n) /\ Current(n)' = Current(n)
    BY <1>1, <1>6, LevelStands
  <2>2. DonePools' /\ LaterPools'
    BY <1>1, <1>2, <2>1 DEF DonePools, LaterPools
  <2>3. \A r \in Ranks : pc'[r] = "panicked"  BY <1>1, <1>3, <1>6
  <2>4. LevelPools'
    BY <2>3 DEF LevelPools, LevelPool
  <2> QED BY <1>4, <1>5, <2>2, <2>4 DEF PoolInv
<1>7. CASE level' = level + 1
  <2>1. \A n : Completed(n)' <=> Completed(n) \/ Current(n)
    BY <1>3, <1>7, LevelDone
  <2>2. ASSUME NEW n \in Nodes, NEW r \in Ranks, Completed(n)' PROVE pool'[r][n] = pool'[0][n]
    <3>1. CASE Completed(n)
      BY <1>1, <1>2, <3>1 DEF DonePools
    <3>2. CASE Current(n)
      <4>1. pool[r][n] = WithCuts(OldPool[n], n, AllMine(n)) /\ pool[0][n] = WithCuts(OldPool[n], n, AllMine(n))
        BY <1>1, <3>2, RankZero, SyncedPool
      <4> QED BY <1>1, <4>1
    <3> QED BY <2>1, <2>2, <3>1, <3>2
  <2>3. ASSUME NEW n \in Nodes, NEW r \in Ranks, ~ Completed(n)' PROVE pool'[r][n] = OldPool[n]
    BY <1>1, <1>2, <2>1, <2>3 DEF LaterPools
  <2>4. LevelPools'
    <3> SUFFICES ASSUME level' \in DOMAIN Levels, NEW r \in Ranks, NEW k \in DOMAIN LevelNodes'
                 PROVE  LevelPool(r, k)'
      BY DEF LevelPools
    <3>1. pc'[r] \in {"ok", "exchange"}  BY <1>1, <1>3, <1>7
    <3>2. PICK n : n = LevelNodes'[k]  OBVIOUS
    <3>3. pool'[r][n] = OldPool[n]
      <4>1. Current(n)' /\ level' \in Nat
        BY <1>3, <1>7, <3>2 DEF Current, Range
      <4>2. /\ n \in Nodes /\ ~ Completed(n)'
        <5>1. /\ Levels[level'] = LevelNodes' /\ n \in Range(Levels[level'])
          BY <4>1 DEF Current, LevelNodes
        <5>2. level' \in 1 .. Len(Levels)  BY StagesDescend
        <5>3. n \in Nodes /\ StageOf[n] = LevelStage(level') /\ StageOf[n] \in Nat
          BY <5>1, <5>2, LevelNodeFacts
        <5>4. ASSUME NEW l \in 1 .. level' - 1, n \in Range(Levels[l]) PROVE FALSE
          <6>1. l \in 1 .. Len(Levels) /\ l < level'
            <7>1. PICK m \in Nat : m = Len(Levels)
              BY StagesDescend
            <7> QED BY <5>2, <7>1
          <6>2. StageOf[n] = LevelStage(l)
            BY <5>4, <6>1, LevelNodeFacts
          <6>3. LevelStage(level') < LevelStage(l)
            BY <5>2, <6>1, StagesDescend
          <6> QED BY <5>3, <6>2, <6>3
        <5> QED BY <5>3, <5>4 DEF Completed
      <4> QED BY <2>3, <4>2
    <3> QED BY <3>1, <3>2, <3>3 DEF LevelPool
  <2> QED BY <1>4, <1>5, <2>2, <2>3, <2>4 DEF PoolInv, DonePools, LaterPools
<1> QED BY <1>1, <1>6, <1>7

FullInv == SweepInv /\ PoolInv

\* Every step keeps the pools.
LEMMA NextPools == FullInv /\ [Next]_vars => PoolInv'
<1> SUFFICES ASSUME SweepInv, PoolInv, [Next]_vars PROVE PoolInv'
  BY DEF FullInv
<1>p. Placed
  BY DEF SweepInv, TypesInv, SweepTypes
<1>1. CASE ExchangeStates  BY <1>p, <1>1, ExchangePools
<1>2. CASE Reconcile  BY <1>p, <1>2, ReconcilePools
<1>3. CASE Gather  BY <1>3, GatherPools
<1>4. CASE SyncMetadata  BY <1>4, SyncPools
<1>5. ASSUME NEW r \in Ranks, Finish(r) PROVE PoolInv'
  BY <1>5, FinishPools
<1>6. ASSUME NEW r \in Ranks, InsertRemote(r) PROVE PoolInv'
  BY <1>6, InsertPools
<1>7. CASE UNCHANGED <<route, layout, level, node, pc, pool, arena, solved, sent>>
  BY <1>7, QuietPools
<1>8. ASSUME NEW r \in Ranks, NEW w \in Workers, Claim(r, w) \/ Solve(r, w) \/ FailSolve(r, w)
      PROVE  UNCHANGED <<route, layout, level, node, pc, pool, arena, solved, sent>>
  BY <1>8, Zenon DEF Claim, Solve, FailSolve, layoutVars, poolVars
<1>9. CASE UNCHANGED vars
  BY <1>7, <1>9, Zenon DEF vars, layoutVars, poolVars
<1> QED BY <1>1, <1>2, <1>3, <1>4, <1>5, <1>6, <1>7, <1>8, <1>9 DEF Next, Terminated

\* Claims, types, buffers and pools, in every reachable state.
LEMMA FullInvariant == Spec => []FullInv
<1>1. Init => FullInv
  BY InitClaims, InitTypes, InitBuffers, InitPools DEF FullInv, SweepInv, TypesInv
<1>2. FullInv /\ [Next]_vars => FullInv'
  BY NextClaims, NextTypes, NextBuffers, NextPools DEF FullInv, SweepInv, TypesInv
<1> QED BY <1>1, <1>2, PTL DEF Spec

----------------------------------------------------------------------------
(* The refinement *)

\* The verdict the abstract specification sees.
Verdict == CASE pc[0] = "ok" -> "ok"
             [] pc[0] \in {"failed", "panicked"} -> "failed"
             [] OTHER -> "running"

\* The verdict in each state of rank 0.
LEMMA VerdictFacts ==
    /\ pc[0] = "ok" => Verdict = "ok"
    /\ pc[0] \in {"failed", "panicked"} => Verdict = "failed"
    /\ pc[0] \notin {"ok", "failed", "panicked"} => Verdict = "running"
BY DEF Verdict

\* The sweep starts where the abstract one does.
LEMMA InitRefines == Init => Abstract!Init
<1> SUFFICES ASSUME Init PROVE Abstract!Init  OBVIOUS
<1>1. route \in Routes /\ layout \in Layouts /\ level = 1 /\ pc[0] = "exchange"
  BY RankZero DEF Init
<1>2. SharedPools = [r \in Ranks |-> OldPool]
  <2>1. \A n : ~ Completed(n)
    BY <1>1 DEF Completed
  <2>2. OldPool = [n \in Nodes |-> OldPool[n]]
    BY DEF OldPool
  <2>3. \A r \in Ranks : [n \in Nodes |-> IF Completed(n) THEN pool[r][n] ELSE OldPool[n]] = OldPool
    BY <2>1, <2>2
  <2> QED BY <2>3 DEF SharedPools
<1>3. Verdict = "running"  BY <1>1, VerdictFacts
<1>4. level - 1 = 0  BY <1>1
<1> QED BY <1>1, <1>2, <1>3, <1>4, SameLayout DEF Abstract!Init, SharedPools, Verdict

\* What the abstract specification sees stands still while the pools behind do.
LEMMA SharedStands ==
    ASSUME UNCHANGED <<route, layout, level>>,
           \A r \in Ranks, n \in Nodes : Completed(n) => pool'[r][n] = pool[r][n]
    PROVE  SharedPools' = SharedPools
<1>1. \A n : Completed(n)' = Completed(n)  BY LevelStands
<1>2. \A r \in Ranks : \A n \in Nodes :
         (IF Completed(n)' THEN pool'[r][n] ELSE OldPool[n]) = (IF Completed(n) THEN pool[r][n] ELSE OldPool[n])
  BY <1>1
<1> QED BY <1>2 DEF SharedPools

\* A step that changes neither the level, the shared pools nor the verdict is a stutter.
LEMMA Stutters ==
    ASSUME UNCHANGED <<route, layout, level>>, SharedPools' = SharedPools, Verdict' = Verdict
    PROVE  UNCHANGED Abstract!vars
BY DEF Abstract!vars, SharedPools, Verdict

\* A step that only turns the verdict to failed is a failure of the abstract sweep.
LEMMA Fails ==
    ASSUME UNCHANGED <<route, layout, level>>, SharedPools' = SharedPools,
           Verdict = "running", Verdict' = "failed"
    PROVE  Abstract!Next
<1>1. Abstract!Fail
  BY DEF Abstract!Fail, SharedPools, Verdict
<1> QED BY <1>1 DEF Abstract!Next

\* The exchange of a level adds it, with the pools one process would build.
LEMMA AddsLevel ==
    ASSUME SweepInv, PoolInv, SyncMetadata, level' = level + 1
    PROVE  Abstract!Next
<1> USE DEF layoutVars, claimVars, workerVars, poolVars
<1>1. /\ \A r \in Ranks : pc[r] = "metadata"
      /\ UNCHANGED <<route, layout, pool>>
      /\ pc' = [r \in Ranks |-> IF level = Len(Levels) THEN "ok" ELSE "exchange"]
  <2>1. level \in Nat
    BY DEF SweepInv, TypesInv, SweepTypes, Placed
  <2>2. level' # level  BY <2>1
  <2> QED BY <2>2 DEF SyncMetadata, AllAt
<1>2. /\ DonePools /\ LaterPools /\ Strides /\ Placed /\ route \in Routes /\ layout \in Layouts
  BY DEF PoolInv, SweepInv, BufferInv, TypesInv, SweepTypes
<1>3. level \in DOMAIN Levels /\ level \in Nat /\ pc[0] = "metadata" /\ 0 \in Ranks
  <2>1. level \in 1 .. Len(Levels)
    BY <1>1, <1>2, RankZero, NodeAtHand
  <2>2. level \in DOMAIN Levels /\ level \in Nat
    BY <2>1, StagesDescend
  <2>3. 0 \in Ranks /\ pc[0] = "metadata"  BY <1>1, RankZero
  <2> QED BY <2>2, <2>3
<1>4. \A n : Completed(n)' <=> Completed(n) \/ Current(n)
  BY <1>3, LevelDone
<1>5. ASSUME NEW n, Current(n)
      PROVE  /\ n \in Nodes /\ \A r \in Ranks : pool[r][n] = ExtendedOf(route, layout, SharedPools, n)
  <2>1. n \in Nodes /\ CutGenerating(n) /\ ~ Completed(n)
        /\ \A i \in DOMAIN Children[n] : Children[n][i] \in Nodes /\ ~ Current(Children[n][i])
    BY <1>3, <1>5, LevelsApart
  <2>2. SharedPools[0][n] = OldPool[n]
    BY <1>3, <2>1 DEF SharedPools
  <2>3. ASSUME NEW r \in Ranks, NEW i \in DOMAIN Children[n]
        PROVE  HeldAll(n)[r][i] = DOMAIN SharedPools[r][Children[n][i]]
    <3>1. PICK c \in Nodes : c = Children[n][i] /\ ~ Current(c)
      BY <2>1
    <3>2. SharedPools[r][c] = pool[r][c]
      BY <1>2, <3>1 DEF SharedPools, LaterPools
    <3> QED BY <3>1, <3>2 DEF HeldAll, Held
  <2>4. PICK pools, H : pools = SharedPools /\ H = HeldAll(n)  OBVIOUS
  <2>5. /\ \A r \in Ranks : \A i \in DOMAIN Children[n] : H[r][i] = DOMAIN pools[r][Children[n][i]]
        /\ DOMAIN route = 0 .. TotalPasses - 1
    BY <1>2, <2>3, <2>4 DEF Routes
  <2>6. ExtendedOf(route, layout, pools, n) = WithCuts(pools[0][n], n, AllCuts(route, layout, H, n))
    BY ONLY <1>2, <2>1, <2>5, ExtendedIsAll
  <2>7. \A r \in Ranks : pool[r][n] = WithCuts(OldPool[n], n, AllMine(n))
    BY <1>1, <1>5, SyncedPool
  <2> QED BY <2>1, <2>2, <2>4, <2>6, <2>7 DEF AllMine
<1>6. SharedPools' = [r \in Ranks |-> [n \in Nodes |->
                        IF n \in Range(Levels[level]) THEN Abstract!Extended(n) ELSE SharedPools[0][n]]]
  <2>1. ASSUME NEW r \in Ranks, NEW n \in Nodes
        PROVE  (IF Completed(n)' THEN pool'[r][n] ELSE OldPool[n]) =
                 (IF n \in Range(Levels[level]) THEN Abstract!Extended(n) ELSE SharedPools[0][n])
    <3>1. n \in Range(Levels[level]) <=> Current(n)
      BY <1>3 DEF Current, LevelNodes
    <3>2. CASE Current(n)
      <4>1. Abstract!Extended(n) = ExtendedOf(route, layout, SharedPools, n)
        BY AbstractExtended
      <4> QED BY <1>1, <1>4, <1>5, <3>1, <3>2, <4>1
    <3>3. CASE ~ Current(n)
      <4>1. SharedPools[0][n] = IF Completed(n) THEN pool[0][n] ELSE OldPool[n]
        BY <1>3 DEF SharedPools
      <4>2. Completed(n) => pool[r][n] = pool[0][n]
        BY <1>2 DEF DonePools
      <4> QED BY <1>1, <1>4, <3>1, <3>3, <4>1, <4>2
    <3> QED BY <3>2, <3>3
  <2>2. SharedPools' = [r \in Ranks |-> [n \in Nodes |-> IF Completed(n)' THEN pool'[r][n] ELSE OldPool[n]]]
    BY DEF SharedPools
  <2>3. \A r \in Ranks : [n \in Nodes |-> IF Completed(n)' THEN pool'[r][n] ELSE OldPool[n]] =
          [n \in Nodes |-> IF n \in Range(Levels[level]) THEN Abstract!Extended(n) ELSE SharedPools[0][n]]
    BY <2>1
  <2> QED BY <2>2, <2>3
<1>7. Verdict = "running" /\ Verdict' = IF level = Len(Levels) THEN "ok" ELSE "running"
  <2>1. pc'[0] = IF level = Len(Levels) THEN "ok" ELSE "exchange"
    BY <1>1, <1>3
  <2> QED BY <1>3, <2>1 DEF Verdict
<1>8. \A n \in Range(Levels[level]) : StrideSuffices(route, n)
  BY <1>2, <1>3 DEF Strides, LevelNodes
<1>9. level' - 1 = level /\ level' - 1 = level - 1 + 1  BY <1>3
<1>10. Abstract!AddLevel
  <2>1. Abstract!Ranks = Ranks /\ Abstract!Levels = Levels
        /\ \A rt, n : Abstract!StrideSuffices(rt, n) = StrideSuffices(rt, n)
    BY SameLayout
  <2>2. Abstract!Range(Levels[level]) = Range(Levels[level])
    BY DEF Abstract!Range, Range
  <2>3. \A n \in Abstract!Range(Abstract!Levels[level' - 1]) : Abstract!StrideSuffices(route, n)
    BY <1>8, <1>9, <2>1, <2>2
  <2>4. SharedPools' = [r \in Abstract!Ranks |-> [n \in Nodes |->
            IF n \in Abstract!Range(Abstract!Levels[level' - 1]) THEN Abstract!Extended(n)
            ELSE SharedPools[0][n]]]
    BY Zenon, <1>6, <1>9, <2>1, <2>2
  <2>5. Verdict' = IF level' - 1 = Len(Abstract!Levels) THEN "ok" ELSE "running"
    BY <1>7, <1>9, <2>1
  <2> QED BY Zenon, <1>1, <1>7, <1>9, <2>3, <2>4, <2>5 DEF Abstract!AddLevel, SharedPools, Verdict
<1> QED BY <1>10 DEF Abstract!Next

\* Every other step changes no pool behind, and at most ends the sweep.
LEMMA StepRefines == FullInv /\ [Next]_vars => [Abstract!Next]_(Abstract!vars)
<1> SUFFICES ASSUME SweepInv, PoolInv, [Next]_vars PROVE Abstract!Next \/ UNCHANGED Abstract!vars
  BY DEF FullInv
<1> USE DEF layoutVars, claimVars, workerVars, poolVars
<1>0. /\ Placed /\ Together /\ DOMAIN pc = Ranks /\ 0 \in Ranks /\ level \in Nat
  BY RankZero DEF SweepInv, TypesInv, SweepTypes, ClaimInv, ClaimTypes, Placed
<1>1. ASSUME UNCHANGED <<route, layout, level, pool>>,
             pc[0] \notin {"ok", "failed", "panicked"}, pc'[0] \notin {"ok", "failed", "panicked"}
      PROVE  UNCHANGED Abstract!vars
  BY <1>1, SharedStands, Stutters, VerdictFacts DEF Verdict
<1>2. ASSUME UNCHANGED <<route, layout, level, pool>>,
             pc[0] \notin {"ok", "failed", "panicked"}, pc'[0] \in {"failed", "panicked"}
      PROVE  Abstract!Next
  BY <1>2, SharedStands, Fails, VerdictFacts DEF Verdict
<1>3. CASE ExchangeStates
  <2>1. /\ UNCHANGED <<route, layout, level, pool>> /\ pc[0] = "exchange"
        /\ pc'[0] = "sweep" \/ pc'[0] = "failed"
    BY <1>0, <1>3 DEF ExchangeStates, AllAt
  <2> QED BY <1>1, <1>2, <2>1
<1>4. CASE Reconcile
  <2>1. /\ UNCHANGED <<route, layout, level, pool>> /\ pc[0] = "vote"
        /\ pc'[0] \in {"sweep", "gather", "failed"}
    BY <1>0, <1>4 DEF Reconcile, AllAt
  <2> QED BY <1>1, <1>2, <2>1
<1>5. CASE Gather
  <2>1. UNCHANGED <<route, layout, level, pool>> /\ pc[0] = "gather" /\ pc'[0] = "insert"
    BY <1>0, <1>5 DEF Gather, AllAt
  <2> QED BY <1>1, <2>1
<1>6. CASE SyncMetadata
  <2>1. \/ level' = level + 1
        \/ UNCHANGED <<route, layout, level, pool>> /\ pc[0] = "metadata" /\ pc'[0] = "panicked"
    BY <1>0, <1>6 DEF SyncMetadata, AllAt
  <2> QED BY <1>2, <1>6, <2>1, AddsLevel
<1>7. ASSUME NEW r \in Ranks, Finish(r) \/ InsertRemote(r) PROVE UNCHANGED Abstract!vars
  <2>1. UNCHANGED <<route, layout, level>>
    BY <1>7, Zenon DEF Finish, InsertRemote
  <2>2. \A q \in Ranks, c \in Nodes : ~ Current(c) => pool'[q][c] = pool[q][c]
    BY <1>7, FinishPools, InsertPools
  <2>3. \A n \in Nodes : Completed(n) => ~ Current(n)
    BY <1>0, LevelsApart
  <2>4. SharedPools' = SharedPools
    BY <2>1, <2>2, <2>3, SharedStands
  <2>5. /\ pc[0] \notin {"ok", "failed", "panicked"} /\ pc'[0] \notin {"ok", "failed", "panicked"}
    <3>1. CASE Finish(r)
      <4>1. pc[r] = "sweep" /\ pc' = [pc EXCEPT ![r] = "vote"]
        BY <3>1 DEF Finish
      <4>2. pc[0] \in {"sweep", "vote"}
        BY <1>0, <4>1 DEF Together
      <4> QED BY <1>0, <4>1, <4>2
    <3>2. CASE InsertRemote(r)
      <4>1. pc[r] = "insert" /\ pc' = [pc EXCEPT ![r] = "metadata"]
        BY <3>2 DEF InsertRemote
      <4>2. pc[0] \in {"insert", "metadata"}
        BY <1>0, <4>1 DEF Together
      <4> QED BY <1>0, <4>1, <4>2
    <3> QED BY <1>7, <3>1, <3>2
  <2>6. Verdict' = Verdict
    BY <2>5, VerdictFacts DEF Verdict
  <2> QED BY <2>1, <2>4, <2>6, Stutters
<1>8. CASE UNCHANGED <<route, layout, level, pool, pc>>
  <2>1. SharedPools' = SharedPools  BY <1>8, SharedStands
  <2>2. Verdict' = Verdict
    BY <1>8 DEF Verdict
  <2> QED BY <1>8, <2>1, <2>2, Stutters
<1>9. ASSUME NEW r \in Ranks, NEW w \in Workers, Claim(r, w) \/ Solve(r, w) \/ FailSolve(r, w)
      PROVE  UNCHANGED <<route, layout, level, pool, pc>>
  BY <1>9, Zenon DEF Claim, Solve, FailSolve
<1>10. CASE UNCHANGED vars
  BY <1>8, <1>10, Zenon DEF vars
<1> QED BY <1>3, <1>4, <1>5, <1>6, <1>7, <1>8, <1>9, <1>10 DEF Next, Terminated

\* Whatever worker of whatever rank claims what, and in whatever order, each level ends with the
\* same pools on every rank: those one process would build visiting the trial points in order
\* (run_one_backward_level, by_node_finish, by_scenario_finish, sync_level_records).
THEOREM SweepIsImplemented == Spec => ImplementsSweep
<1>1. Init => Abstract!Init  BY InitRefines
<1>2. FullInv /\ [Next]_vars => [Abstract!Next]_(Abstract!vars)
  BY StepRefines
<1>3. Spec => []FullInv  BY FullInvariant
<1> QED BY <1>1, <1>2, <1>3, PTL DEF Spec, ImplementsSweep, Abstract!Spec

----------------------------------------------------------------------------
(* Counting *)

\* Finite sets F[x] part their union T, and f[x] counts each.
Parted(S, F, f, T) ==
    /\ \A x \in S : IsFiniteSet(F[x]) /\ f[x] = Cardinality(F[x])
    /\ \A x, y \in S : x # y => F[x] \cap F[y] = {}
    /\ \A z : z \in T <=> \E x \in S : z \in F[x]

\* The members of sets that have none in common, counted set by set.
LEMMA CountsAddUp ==
    ASSUME NEW S, IsFiniteSet(S), NEW F, NEW f, NEW T, Parted(S, F, f, T)
    PROVE  IsFiniteSet(T) /\ SumOver(f, S) = Cardinality(T)
<1>0. /\ \A x \in S : IsFiniteSet(F[x]) /\ f[x] = Cardinality(F[x])
      /\ \A x, y \in S : x # y => F[x] \cap F[y] = {}
  BY DEF Parted
<1> DEFINE U(X) == UNION {F[x] : x \in X}
           P == {X \in SUBSET S : IsFiniteSet(U(X)) /\ SumOver(f, X) = Cardinality(U(X))}
<1>1. {} \in P
  <2>1. U({}) = {}  OBVIOUS
  <2> QED BY <2>1, FS_EmptySet, EmptySum
<1>2. ASSUME NEW X \in SUBSET S, X # {}, X \ {Taken(X)} \in P
      PROVE  X \in P
  <2>1. PICK x \in X : x = Taken(X)  BY <1>2, TakenFrom
  <2>2. PICK R \in SUBSET S : R = X \ {x} /\ x \notin R /\ R \cup {x} = X /\ R \in P
    BY <1>2, <2>1
  <2>3. IsFiniteSet(R) /\ x \in S  BY <2>2, FS_Subset
  <2>4. \A y \in R \cup {x} : f[y] \in Int
    <3>1. ASSUME NEW y \in S PROVE f[y] \in Int
      BY <1>0, FS_CardinalityType
    <3> QED BY <2>2, <2>3, <3>1
  <2>5. SumOver(f, X) = SumOver(f, R) + f[x]
    <3>1. SumOver(f, R \cup {x}) = SumOver(f, R) + f[x]
      BY ONLY <2>2, <2>3, <2>4, SumExtends
    <3> QED BY <2>2, <3>1
  <2>6. PICK V, W : V = U(R) /\ W = F[x]  OBVIOUS
  <2>7. /\ IsFiniteSet(V) /\ IsFiniteSet(W) /\ SumOver(f, R) = Cardinality(V) /\ f[x] = Cardinality(W)
    BY <1>0, <2>2, <2>3, <2>6
  <2>8. V \cap W = {}  BY <1>0, <2>2, <2>3, <2>6
  <2>9. U(X) = V \cup W  BY <2>2, <2>6
  <2>10. /\ IsFiniteSet(V \cup W)
         /\ Cardinality(V \cup W) = Cardinality(V) + Cardinality(W) - Cardinality(V \cap W)
    BY ONLY <2>7, FS_Union
  <2>11. Cardinality(V \cap W) = 0 /\ Cardinality(V) \in Nat /\ Cardinality(W) \in Nat
    BY <2>7, <2>8, FS_EmptySet, FS_CardinalityType
  <2>12. SumOver(f, X) = Cardinality(V \cup W)
    BY <2>5, <2>7, <2>10, <2>11
  <2> HIDE DEF U
  <2> QED BY <2>9, <2>10, <2>12
<1>3. S \in P
  <2> HIDE DEF P
  <2> QED BY <1>1, <1>2, SubsetInduction
<1>4. T = U(S)
  BY DEF Parted
<1> QED BY <1>3, <1>4

\* The values of a function that takes none twice are as many as its arguments.
LEMMA ValuesCounted ==
    ASSUME NEW m \in Nat, NEW f, f = [k \in 1 .. m |-> f[k]],
           \A k, l \in 1 .. m : f[k] = f[l] => k = l,
           NEW T, \A y : y \in T <=> \E k \in 1 .. m : f[k] = y
    PROVE  IsFiniteSet(T) /\ Cardinality(T) = m
<1>1. f \in [1 .. m -> T] /\ \A y \in T : \E k \in 1 .. m : f[k] = y  OBVIOUS
<1>2. f \in Bijection(1 .. m, T)
  BY <1>1 DEF Bijection, Injection, Surjection, IsInjective
<1>3. IsFiniteSet(1 .. m) /\ Cardinality(1 .. m) = m
  <2>1. PICK a \in Int, b \in Int : a = 1 /\ b = m  OBVIOUS
  <2>2. IsFiniteSet(a .. b) /\ Cardinality(a .. b) = IF a > b THEN 0 ELSE b - a + 1
    BY ONLY FS_Interval, a \in Int, b \in Int
  <2> QED BY <2>1, <2>2
<1> QED BY <1>2, <1>3, FS_Bijection DEF ExistsBijection

\* Places that follow each other, the i-th W[i] wide.
Follow(K, W, S) ==
    /\ \A i \in 1 .. K + 1 : S[i] \in Nat
    /\ \A i \in 1 .. K : S[i + 1] = S[i] + W[i] /\ S[i + 1] <= S[K + 1]
    /\ \A i, j \in 1 .. K : \A x \in Nat :
           S[i] <= x /\ x < S[i + 1] /\ S[j] <= x /\ x < S[j + 1] => i = j

\* Places at the sums of the widths before them follow each other.
LEMMA WidthsAddUp ==
    ASSUME NEW K \in Nat, NEW W, \A i \in 1 .. K : W[i] \in Nat,
           NEW S, \A i \in 1 .. K + 1 : S[i] = SumOver(W, 1 .. i - 1)
    PROVE  Follow(K, W, S)
<1>1. ASSUME NEW i \in 1 .. K
      PROVE  S[i + 1] = S[i] + W[i]
  <2>1. PICK t \in Int : t = i - 1  OBVIOUS
  <2>2. 1 <= t + 1 /\ t + 1 = i /\ \A y \in 1 .. t + 1 : W[y] \in Int
    BY <2>1
  <2>3. SumOver(W, 1 .. t + 1) = SumOver(W, 1 .. t) + W[t + 1]
    BY ONLY <2>1, <2>2, PrefixSums
  <2>4. i \in 1 .. K + 1 /\ i + 1 \in 1 .. K + 1 /\ (i + 1) - 1 = i  OBVIOUS
  <2> QED BY <2>1, <2>2, <2>3, <2>4
<1>2. S[1] = 0
  <2>1. 1 .. 1 - 1 = {} /\ 1 \in 1 .. K + 1  OBVIOUS
  <2> QED BY <2>1, EmptySum
<1>3. \A i \in 1 .. K + 1 : S[i] \in Nat
  <2> DEFINE P == {k \in Nat : k + 1 \in 1 .. K + 1 => S[k + 1] \in Nat}
  <2>1. 0 \in P  BY <1>2
  <2>2. ASSUME NEW k \in P \cap Nat PROVE k + 1 \in P
    <3>1. CASE (k + 1) + 1 \in 1 .. K + 1
      <4>1. PICK l \in 1 .. K : l = k + 1 /\ l \in 1 .. K + 1 /\ S[l] \in Nat
        BY <2>2, <3>1
      <4>2. S[l + 1] = S[l] + W[l] /\ W[l] \in Nat  BY <1>1, <4>1
      <4> QED BY <4>1, <4>2
    <3> QED BY <3>1
  <2>3. Nat \subseteq P
    <3> HIDE DEF P
    <3> QED BY <2>1, <2>2, NaturalInduction
  <2> SUFFICES ASSUME NEW i \in 1 .. K + 1 PROVE S[i] \in Nat  OBVIOUS
  <2>4. i - 1 \in Nat /\ (i - 1) + 1 = i /\ i - 1 \in P  BY <2>3
  <2> QED BY <2>4
<1>4. \A i \in 1 .. K : S[i] <= S[i + 1]
  <2> SUFFICES ASSUME NEW i \in 1 .. K PROVE S[i] <= S[i + 1]  OBVIOUS
  <2>1. i \in 1 .. K + 1 /\ S[i] \in Nat /\ S[i + 1] = S[i] + W[i] /\ W[i] \in Nat
    BY <1>1, <1>3
  <2> QED BY <2>1
<1>5. /\ \A i, j \in 1 .. K + 1 : i <= j => S[i] <= S[j]
      /\ \A i, j \in 1 .. K : \A x \in Nat :
              S[i] <= x /\ x < S[i + 1] /\ S[j] <= x /\ x < S[j + 1] => i = j
  BY <1>2, <1>3, <1>4, Staircase
<1>6. \A i \in 1 .. K : S[i + 1] <= S[K + 1]
  <2> SUFFICES ASSUME NEW i \in 1 .. K PROVE S[i + 1] <= S[K + 1]  OBVIOUS
  <2>1. i + 1 \in 1 .. K + 1 /\ K + 1 \in 1 .. K + 1 /\ i + 1 <= K + 1  OBVIOUS
  <2> QED BY <1>5, <2>1
<1> QED BY <1>1, <1>3, <1>5, <1>6 DEF Follow

----------------------------------------------------------------------------
(* The solves of a child *)

\* The solves of a unit for child i, by forward pass and outcome, and the child's outcomes.
UnitCells(rt, lay, r, n, blocks, u, i) ==
    Range(ByPass(Routed(rt, r, n), RunFor(rt, lay, r, n, blocks, u, i)))
ChildRange(n, i) == OutcomeStart(n, i) .. OutcomeStart(n, i + 1) - 1

\* The k-th solve of a run, the bounds of a run for child i, and a set made of a run's solves.
SolveOf(rt, r, n, run, k) == <<Routed(rt, r, n)[run[k][1] + 1], run[k][2]>>
RunBounds(rt, r, n, i, run) ==
    /\ Len(run) \in Nat /\ DOMAIN run = 1 .. Len(run)
    /\ \A k \in DOMAIN run :
          /\ run[k] = <<run[k][1], run[k][2]>>
          /\ run[k][1] \in 0 .. Len(Routed(rt, r, n)) - 1 /\ run[k][2] \in ChildRange(n, i)
SolvesMake(rt, r, n, run, S) ==
    \A y : y \in S <=> \E k \in DOMAIN run : y = SolveOf(rt, r, n, run, k)

\* The solves of a unit in terms of its run.
LEMMA RunOfChild ==
    ASSUME NEW rt, NEW n \in Nodes, CutGenerating(n), NEW lay \in Layouts, NEW r \in Ranks,
           NEW blocks, Listing(blocks, BlockCount(n)), NEW u \in UnitsOf(rt, lay, r, n),
           NEW i \in DOMAIN Children[n], NEW run, run = RunFor(rt, lay, r, n, blocks, u, i)
    PROVE  /\ RunBounds(rt, r, n, i, run)
           /\ SolvesMake(rt, r, n, run, UnitCells(rt, lay, r, n, blocks, u, i))
<1>1. /\ IsSequence(run)
      /\ \A k \in DOMAIN run :
            /\ run[k] = <<run[k][1], run[k][2]>>
            /\ run[k][1] \in 0 .. Len(Routed(rt, r, n)) - 1
            /\ run[k][2] \in 0 .. OutcomeCount(n) - 1
            /\ OutcomeStart(n, i) <= run[k][2] /\ run[k][2] < OutcomeStart(n, i + 1)
            /\ lay.kind = "byScenario" => run[k][1] = u
  BY ONLY n \in Nodes, CutGenerating(n), lay \in Layouts, r \in Ranks, Listing(blocks, BlockCount(n)),
          u \in UnitsOf(rt, lay, r, n), i \in DOMAIN Children[n],
          run = RunFor(rt, lay, r, n, blocks, u, i), RunsOfUnit
<1>2. Len(run) \in Nat /\ DOMAIN run = 1 .. Len(run)
  BY <1>1 DEF IsSequence
<1>5. \A k \in DOMAIN run :
         /\ run[k][2] \in Nat
         /\ OutcomeStart(n, i) <= run[k][2] /\ run[k][2] < OutcomeStart(n, i + 1)
  BY <1>1
<1>6. PICK a \in Nat, b \in Nat : a = OutcomeStart(n, i) /\ b = OutcomeStart(n, i + 1)
  BY ChildOutcomes
<1>7. \A k \in DOMAIN run : run[k][2] \in ChildRange(n, i)
  <2>1. \A x \in Nat : a <= x /\ x < b => x \in a .. b - 1  OBVIOUS
  <2> QED BY <1>5, <1>6, <2>1 DEF ChildRange
<1>8. SolvesMake(rt, r, n, run, UnitCells(rt, lay, r, n, blocks, u, i))
  <2>1. UnitCells(rt, lay, r, n, blocks, u, i) = Range(ByPass(Routed(rt, r, n), run))
    BY DEF UnitCells
  <2>2. PICK f : f = ByPass(Routed(rt, r, n), run)  OBVIOUS
  <2>3. f = [k \in DOMAIN run |-> SolveOf(rt, r, n, run, k)]
    BY <2>2 DEF ByPass, SolveOf
  <2>4. \A y : y \in Range(f) <=> \E k \in DOMAIN f : y = f[k]
    BY DEF Range
  <2> QED BY <2>1, <2>2, <2>3, <2>4 DEF SolvesMake
<1>9. RunBounds(rt, r, n, i, run)
  BY <1>1, <1>2, <1>7 DEF RunBounds
<1> QED BY <1>8, <1>9

\* A rank's visits are of different passes.
LEMMA RoutedOnce ==
    ASSUME NEW rt, NEW n, NEW r \in Ranks,
           NEW a \in 0 .. Len(Routed(rt, r, n)) - 1, NEW b \in 0 .. Len(Routed(rt, r, n)) - 1,
           Routed(rt, r, n)[a + 1] = Routed(rt, r, n)[b + 1]
    PROVE  a = b
<1> DEFINE V == Visitors(rt, n, PassesOf(r))
<1>1. /\ IsFiniteSet(V) /\ V \in SUBSET Nat /\ Routed(rt, r, n) = InOrder(V)
      /\ Len(Routed(rt, r, n)) \in Nat /\ DOMAIN Routed(rt, r, n) = 1 .. Len(Routed(rt, r, n))
  <2>1. r \in Nat  BY PassesPartition
  <2> QED BY <2>1, RoutedFacts
<1> HIDE DEF V
<1>2. IsInjective(Routed(rt, r, n))  BY <1>1, InOrderFacts
<1>3. PICK num \in Nat : num = Len(Routed(rt, r, n))  BY <1>1
<1>4. a \in Nat /\ b \in Nat /\ a + 1 \in 1 .. num /\ b + 1 \in 1 .. num
  BY <1>3
<1>5. a + 1 = b + 1
  BY <1>1, <1>2, <1>3, <1>4 DEF IsInjective
<1> QED BY <1>4, <1>5

\* A unit solves each pass and outcome once, so its solves are as many as its run is long.
LEMMA UnitCellsCounted ==
    ASSUME NEW rt, DOMAIN rt = 0 .. TotalPasses - 1, NEW n \in Nodes, CutGenerating(n),
           NEW lay \in Layouts, NEW r \in Ranks,
           NEW blocks, Listing(blocks, BlockCount(n)), NEW u \in UnitsOf(rt, lay, r, n),
           NEW i \in DOMAIN Children[n], NEW run, run = RunFor(rt, lay, r, n, blocks, u, i)
    PROVE  /\ Len(run) \in Nat
           /\ IsFiniteSet(UnitCells(rt, lay, r, n, blocks, u, i))
           /\ Cardinality(UnitCells(rt, lay, r, n, blocks, u, i)) = Len(run)
<1>1. /\ RunBounds(rt, r, n, i, run)
      /\ SolvesMake(rt, r, n, run, UnitCells(rt, lay, r, n, blocks, u, i))
  BY RunOfChild
<1>2. PICK m, T : /\ m \in Nat /\ m = Len(run) /\ DOMAIN run = 1 .. m
                  /\ T = UnitCells(rt, lay, r, n, blocks, u, i)
  BY <1>1 DEF RunBounds
<1>3. PICK f : f = [k \in 1 .. m |-> SolveOf(rt, r, n, run, k)]  OBVIOUS
<1>4. PICK num \in 0 .. TotalPasses : num = Len(Routed(rt, r, n))
  BY RoutedBound
<1>5. \A k \in 1 .. m : run[k] = <<run[k][1], run[k][2]>> /\ run[k][1] \in 0 .. num - 1
  BY <1>1, <1>2, <1>4 DEF RunBounds
<1>6. \A a, b \in 0 .. num - 1 : Routed(rt, r, n)[a + 1] = Routed(rt, r, n)[b + 1] => a = b
  <2> SUFFICES ASSUME NEW a \in 0 .. num - 1, NEW b \in 0 .. num - 1
               PROVE  Routed(rt, r, n)[a + 1] = Routed(rt, r, n)[b + 1] => a = b
    OBVIOUS
  <2> QED BY <1>4, RoutedOnce
<1>7. \A k, l \in 1 .. m : f[k] = f[l] => k = l
  <2> SUFFICES ASSUME NEW k \in 1 .. m, NEW l \in 1 .. m, f[k] = f[l] PROVE k = l  OBVIOUS
  <2>1. Routed(rt, r, n)[run[k][1] + 1] = Routed(rt, r, n)[run[l][1] + 1] /\ run[k][2] = run[l][2]
    BY <1>3 DEF SolveOf
  <2>2. run[k][1] = run[l][1]  BY <1>5, <1>6, <2>1
  <2>3. run[k] = run[l]  BY <1>5, <2>1, <2>2
  <2>5. run = Run(lay, n, num, blocks, u, i) /\ u \in 0 .. UnitCount(lay, n, num) - 1
    BY <1>4 DEF RunFor, UnitsOf
  <2> QED BY <1>2, <2>3, <2>5, RunsDiffer
<1>8. f = [k \in 1 .. m |-> f[k]]  BY <1>3
<1>9. \A y : y \in T <=> \E k \in 1 .. m : f[k] = y
  <2>1. \A y : y \in T <=> \E k \in 1 .. m : y = SolveOf(rt, r, n, run, k)
    BY <1>1, <1>2 DEF SolvesMake
  <2>2. \A k \in 1 .. m : f[k] = SolveOf(rt, r, n, run, k)
    BY <1>3
  <2> QED BY <2>1, <2>2
<1>10. IsFiniteSet(T) /\ Cardinality(T) = m
  BY ONLY <1>2, <1>7, <1>8, <1>9, ValuesCounted
<1> QED BY <1>2, <1>10

\* Two units have no solve in common.
LEMMA UnitCellsApart ==
    ASSUME NEW rt, DOMAIN rt = 0 .. TotalPasses - 1, NEW n \in Nodes, CutGenerating(n),
           NEW lay \in Layouts, NEW r \in Ranks, NEW blocks, Listing(blocks, BlockCount(n)),
           NEW u \in UnitsOf(rt, lay, r, n), NEW v \in UnitsOf(rt, lay, r, n), u # v,
           NEW i \in DOMAIN Children[n]
    PROVE  UnitCells(rt, lay, r, n, blocks, u, i) \cap UnitCells(rt, lay, r, n, blocks, v, i) = {}
<1> SUFFICES ASSUME NEW y, y \in UnitCells(rt, lay, r, n, blocks, u, i),
                           y \in UnitCells(rt, lay, r, n, blocks, v, i)
             PROVE  FALSE
  OBVIOUS
<1>1. PICK run, other : /\ run = RunFor(rt, lay, r, n, blocks, u, i)
                        /\ other = RunFor(rt, lay, r, n, blocks, v, i)
  OBVIOUS
<1>2. /\ RunBounds(rt, r, n, i, run)
      /\ SolvesMake(rt, r, n, run, UnitCells(rt, lay, r, n, blocks, u, i))
  BY <1>1, RunOfChild
<1>3. /\ RunBounds(rt, r, n, i, other)
      /\ SolvesMake(rt, r, n, other, UnitCells(rt, lay, r, n, blocks, v, i))
  BY <1>1, RunOfChild
<1>4. PICK k \in DOMAIN run, l \in DOMAIN other :
          y = SolveOf(rt, r, n, run, k) /\ y = SolveOf(rt, r, n, other, l)
  BY <1>2, <1>3 DEF SolvesMake
<1>5. Routed(rt, r, n)[run[k][1] + 1] = Routed(rt, r, n)[other[l][1] + 1] /\ run[k][2] = other[l][2]
  BY <1>4 DEF SolveOf
<1>6. /\ run[k] = <<run[k][1], run[k][2]>> /\ other[l] = <<other[l][1], other[l][2]>>
      /\ run[k][1] \in 0 .. Len(Routed(rt, r, n)) - 1
      /\ other[l][1] \in 0 .. Len(Routed(rt, r, n)) - 1
  BY <1>2, <1>3 DEF RunBounds
<1>7. run[k][1] = other[l][1]
  <2>1. PICK a \in 0 .. Len(Routed(rt, r, n)) - 1, b \in 0 .. Len(Routed(rt, r, n)) - 1 :
            a = run[k][1] /\ b = other[l][1]
    BY <1>6
  <2>2. Routed(rt, r, n)[a + 1] = Routed(rt, r, n)[b + 1] => a = b
    BY RoutedOnce
  <2> QED BY <1>5, <2>1, <2>2
<1>8. run[k] = other[l]  BY <1>5, <1>6, <1>7
<1>9. PICK num \in 0 .. TotalPasses : num = Len(Routed(rt, r, n))
  BY RoutedBound
<1>10. /\ run = Run(lay, n, num, blocks, u, i) /\ u \in 0 .. UnitCount(lay, n, num) - 1
       /\ other = Run(lay, n, num, blocks, v, i) /\ v \in 0 .. UnitCount(lay, n, num) - 1
  BY <1>1, <1>9 DEF RunFor, UnitsOf
<1> QED BY <1>8, <1>10, RunsDiffer

\* All units solve every pass of the rank through the node with every outcome of the child.
LEMMA UnitCellsWhole ==
    ASSUME NEW rt, NEW n \in Nodes, CutGenerating(n), NEW lay \in Layouts, NEW r \in Ranks,
           NEW blocks, Listing(blocks, BlockCount(n)), NEW i \in DOMAIN Children[n]
    PROVE  UNION {UnitCells(rt, lay, r, n, blocks, u, i) : u \in UnitsOf(rt, lay, r, n)} =
             Visitors(rt, n, PassesOf(r)) \X ChildRange(n, i)
<1> DEFINE V == Visitors(rt, n, PassesOf(r))
           num == Len(Routed(rt, r, n))
<1>1. /\ num = Cardinality(V) /\ num \in Nat /\ Routed(rt, r, n) = InOrder(V)
      /\ IsFiniteSet(V) /\ V \in SUBSET Nat
  BY RoutedFacts, PassesPartition
<1>2. /\ \A k \in 1 .. num : Routed(rt, r, n)[k] \in V
      /\ \A g \in V : \E k \in 1 .. num : Routed(rt, r, n)[k] = g
  <2> HIDE DEF V, num
  <2>1. InOrder(V) \in [1 .. Cardinality(V) -> V]
        /\ \A s \in V : \E k \in 1 .. Cardinality(V) : InOrder(V)[k] = s
    BY <1>1, InOrderFacts
  <2> QED BY <1>1, <2>1
<1>3. ASSUME NEW u \in UnitsOf(rt, lay, r, n), NEW y \in UnitCells(rt, lay, r, n, blocks, u, i)
      PROVE  y \in V \X ChildRange(n, i)
  <2>1. PICK run : run = RunFor(rt, lay, r, n, blocks, u, i)  OBVIOUS
  <2>4. /\ RunBounds(rt, r, n, i, run)
        /\ SolvesMake(rt, r, n, run, UnitCells(rt, lay, r, n, blocks, u, i))
    BY <2>1, RunOfChild
  <2>2. PICK k \in DOMAIN run : /\ y = <<Routed(rt, r, n)[run[k][1] + 1], run[k][2]>>
                                /\ run[k][1] \in 0 .. num - 1 /\ run[k][2] \in ChildRange(n, i)
    BY <2>4 DEF RunBounds, SolvesMake, SolveOf
  <2>3. run[k][1] + 1 \in 1 .. num
    <3> HIDE DEF num
    <3> QED BY <1>1, <2>2
  <2> HIDE DEF V, num
  <2> QED BY <1>2, <2>2, <2>3
<1>4. ASSUME NEW g \in V, NEW x \in ChildRange(n, i)
      PROVE  \E u \in UnitsOf(rt, lay, r, n) : <<g, x>> \in UnitCells(rt, lay, r, n, blocks, u, i)
  <2>1. PICK k \in 1 .. num : Routed(rt, r, n)[k] = g  BY <1>2
  <2>2. PICK pos \in 0 .. num - 1 : pos + 1 = k
    <3>1. k - 1 \in 0 .. num - 1 /\ (k - 1) + 1 = k
      <4> HIDE DEF num
      <4> QED BY <1>1
    <3> QED BY <3>1
  <2>3. x \in Nat /\ OutcomeStart(n, i) <= x /\ x < OutcomeStart(n, i + 1) /\ x \in 0 .. OutcomeCount(n) - 1
    <3>1. PICK a \in Nat, b \in Nat, c \in Nat : /\ a = OutcomeStart(n, i) /\ b = OutcomeStart(n, i + 1)
                                                 /\ c = OutcomeCount(n) /\ b <= c
      <4>1. OutcomeCount(n) \in Nat  BY BlockFacts, OutcomeFacts
      <4> QED BY <4>1, ChildOutcomes
    <3> QED BY <3>1 DEF ChildRange
  <2>4. num \in 0 .. TotalPasses  BY RoutedBound
  <2>5. \E u \in 0 .. UnitCount(lay, n, num) - 1, j \in DOMAIN Children[n] :
           \E l \in DOMAIN Run(lay, n, num, blocks, u, j) :
              Run(lay, n, num, blocks, u, j)[l] = <<pos, x>>
    <3> HIDE DEF num
    <3> QED BY <2>2, <2>3, <2>4, RunsCover
  <2>6. PICK u \in UnitsOf(rt, lay, r, n), j \in DOMAIN Children[n] :
           \E l \in DOMAIN RunFor(rt, lay, r, n, blocks, u, j) :
              RunFor(rt, lay, r, n, blocks, u, j)[l] = <<pos, x>>
    BY <2>5, Zenon DEF UnitsOf, RunFor
  <2>7. PICK run : run = RunFor(rt, lay, r, n, blocks, u, j)  OBVIOUS
  <2>8. PICK l \in DOMAIN run : run[l] = <<pos, x>>  BY <2>6, <2>7
  <2>9. x \in ChildRange(n, j)
    <3>3. RunBounds(rt, r, n, j, run)  BY <2>7, RunOfChild
    <3>1. run[l][2] \in ChildRange(n, j)
      BY <3>3 DEF RunBounds
    <3>2. run[l][2] = x  BY <2>8
    <3> QED BY <3>1, <3>2
  <2>10. i = j
    <3>1. OutcomeStart(n, j) <= x /\ x < OutcomeStart(n, j + 1)
      <4>1. PICK a \in Nat, b \in Nat : a = OutcomeStart(n, j) /\ b = OutcomeStart(n, j + 1)
        BY ChildOutcomes
      <4> QED BY <2>9, <4>1 DEF ChildRange
    <3>2. PICK K \in Nat : K = Len(Children[n]) /\ DOMAIN Children[n] = 1 .. K
      BY OutcomeFacts
    <3>3. \A c, d \in 1 .. K : \A z \in Nat :
                  /\ OutcomeStart(n, c) <= z /\ z < OutcomeStart(n, c + 1)
                  /\ OutcomeStart(n, d) <= z /\ z < OutcomeStart(n, d + 1)
                  => c = d
      BY <3>2, OutcomeFacts
    <3>4. i \in 1 .. K /\ j \in 1 .. K  BY <3>2
    <3> QED BY ONLY <2>3, <3>1, <3>3, <3>4
  <2>11. <<Routed(rt, r, n)[run[l][1] + 1], run[l][2]>> \in UnitCells(rt, lay, r, n, blocks, u, i)
    <3>1. SolvesMake(rt, r, n, run, UnitCells(rt, lay, r, n, blocks, u, i))
      BY <2>7, <2>10, RunOfChild
    <3> QED BY <3>1 DEF SolvesMake, SolveOf
  <2>12. run[l][1] = pos /\ run[l][2] = x  BY <2>8
  <2> QED BY <2>1, <2>2, <2>11, <2>12
<1> HIDE DEF V
<1> DEFINE U == UnitsOf(rt, lay, r, n)
           W(u) == UnitCells(rt, lay, r, n, blocks, u, i)
           C == ChildRange(n, i)
<1>5. (\A u \in U : \A y \in W(u) : y \in V \X C) /\ \A g \in V, x \in C : \E u \in U : <<g, x>> \in W(u)
  BY <1>3, <1>4
<1> HIDE DEF U, W, C
<1>6. UNION {W(u) : u \in U} = V \X C  BY ONLY <1>5
<1> QED BY <1>6 DEF U, W, C, V

----------------------------------------------------------------------------
(* The regions of the children's counters *)

\* A pool whose slots are numbers below its populated size.
Slotted(r, c) ==
    /\ Populated(r, c) \in Nat
    /\ \A s \in DOMAIN pool[r][c] : s \in Nat /\ s < Populated(r, c)
KidsSlotted(r, n) == \A i \in DOMAIN Children[n] : Slotted(r, Children[n][i])

\* A function of no argument is the empty one.
LEMMA NoArguments ==
    ASSUME NEW f, IsFunction(f), DOMAIN f = {}
    PROVE  f = << >>
BY DEF IsFunction

\* A pool with finitely many slots, all numbers, is slotted.
LEMMA PoolSlotted ==
    ASSUME NEW r, NEW c, IsFunction(pool[r][c]), IsFiniteSet(DOMAIN pool[r][c]), DOMAIN pool[r][c] \subseteq Nat
    PROVE  Slotted(r, c)
<1>1. CASE pool[r][c] = << >>
  <2>1. Populated(r, c) = 0 /\ DOMAIN pool[r][c] = {}
    BY <1>1 DEF Populated
  <2> QED BY <2>1 DEF Slotted
<1>2. CASE pool[r][c] # << >>
  <2>1. PICK S : S = DOMAIN pool[r][c] /\ S # {} /\ S \in SUBSET Int /\ IsFiniteSet(S) /\ S \subseteq Nat
    <3>1. DOMAIN pool[r][c] # {}  BY <1>2, NoArguments
    <3> QED BY <3>1
  <2>2. Max(S) \in S /\ \A x \in S : x <= Max(S)
    BY <2>1, GreatestInteger
  <2>3. Populated(r, c) = Max(S) + 1
    BY <1>2, <2>1 DEF Populated
  <2>4. PICK m \in Nat : m = Max(S)  BY <2>1, <2>2
  <2>5. \A x \in S : x \in Nat /\ x <= m  BY <2>1, <2>2, <2>4
  <2>6. \A x \in S : x < m + 1  BY <2>5
  <2> QED BY <2>1, <2>3, <2>4, <2>5, <2>6 DEF Slotted
<1> QED BY <1>1, <1>2

\* The regions follow each other: a slot of a child's pool has a counter in that child's region only.
Regions(r, n) ==
    /\ RegionsLen(r, n) \in Nat
    /\ \A i \in DOMAIN Children[n] : RegionStart(r, n, i) \in Nat /\ RegionStart(r, n, i + 1) \in Nat
    /\ \A i \in DOMAIN Children[n] : \A s \in DOMAIN pool[r][Children[n][i]] :
          RegionStart(r, n, i) + s \in 0 .. RegionsLen(r, n) - 1
    /\ \A i, j \in DOMAIN Children[n] : \A s \in DOMAIN pool[r][Children[n][i]] :
          /\ (RegionStart(r, n, i) + s) - RegionStart(r, n, j) \in DOMAIN pool[r][Children[n][j]]
          /\ RegionStart(r, n, i) + s < RegionStart(r, n, j + 1)
          <=> i = j

\* The regions of slotted pools are laid out so.
LEMMA RegionFacts ==
    ASSUME NEW n \in Nodes, NEW r, KidsSlotted(r, n)
    PROVE  Regions(r, n)
<1>1. PICK K \in Nat : K = Len(Children[n]) /\ DOMAIN Children[n] = 1 .. K
  BY OutcomeFacts
<1>2. PICK W, S : /\ W = [j \in 1 .. K |-> Populated(r, Children[n][j])]
                  /\ S = [i \in 1 .. K + 1 |-> RegionStart(r, n, i)]
  OBVIOUS
<1>3. \A i \in 1 .. K : /\ W[i] \in Nat
                        /\ \A s \in DOMAIN pool[r][Children[n][i]] : s \in Nat /\ s < W[i]
  BY <1>1, <1>2 DEF KidsSlotted, Slotted
<1>4. ASSUME NEW i \in 1 .. K + 1 PROVE S[i] = SumOver(W, 1 .. i - 1)
  <2>1. PICK f, T : f = [j \in 1 .. i - 1 |-> Populated(r, Children[n][j])] /\ T = 1 .. i - 1
    OBVIOUS
  <2>2. IsFiniteSet(T)
    <3>1. PICK b \in Int : b = i - 1  OBVIOUS
    <3>2. IsFiniteSet(1 .. b)  BY FS_Interval
    <3> QED BY <2>1, <3>1, <3>2
  <2>3. \A x \in T : f[x] = W[x] /\ f[x] \in Int
    <3>1. \A x \in T : x \in 1 .. K  BY <2>1
    <3> QED BY <1>2, <1>3, <2>1, <3>1
  <2>4. SumOver(f, T) = SumOver(W, T)  BY ONLY <2>2, <2>3, SumSame
  <2>5. S[i] = SumOver(f, T)
    BY <1>2, <2>1 DEF RegionStart
  <2> QED BY <2>1, <2>4, <2>5
<1>5. /\ \A i \in 1 .. K + 1 : S[i] \in Nat
      /\ \A i \in 1 .. K : S[i + 1] = S[i] + W[i] /\ S[i + 1] <= S[K + 1]
      /\ \A i, j \in 1 .. K : \A x \in Nat :
             S[i] <= x /\ x < S[i + 1] /\ S[j] <= x /\ x < S[j + 1] => i = j
  <2>1. Follow(K, W, S)  BY <1>3, <1>4, WidthsAddUp
  <2> QED BY <2>1 DEF Follow
<1>6. /\ \A i \in 1 .. K : RegionStart(r, n, i) = S[i] /\ RegionStart(r, n, i + 1) = S[i + 1]
      /\ RegionsLen(r, n) = S[K + 1]
  <2>1. K + 1 \in 1 .. K + 1 /\ \A i \in 1 .. K : i \in 1 .. K + 1 /\ i + 1 \in 1 .. K + 1
    OBVIOUS
  <2> QED BY <1>1, <1>2, <2>1 DEF RegionsLen
<1>7. \A i \in 1 .. K : S[i] \in Nat /\ S[i + 1] \in Nat
  <2>1. \A i \in 1 .. K : i \in 1 .. K + 1 /\ i + 1 \in 1 .. K + 1  OBVIOUS
  <2> QED BY <1>5, <2>1
<1>8. S[K + 1] \in Nat
  <2>1. K + 1 \in 1 .. K + 1  OBVIOUS
  <2> QED BY <1>5, <2>1
<1>9. ASSUME NEW i \in 1 .. K, NEW s \in DOMAIN pool[r][Children[n][i]]
      PROVE  /\ S[i] + s \in Nat /\ S[i] <= S[i] + s /\ S[i] + s < S[i + 1] /\ S[i] + s < S[K + 1]
             /\ (S[i] + s) - S[i] = s
  <2>1. s \in Nat /\ s < W[i] /\ W[i] \in Nat /\ S[i] \in Nat
    BY <1>3, <1>7
  <2>2. S[i + 1] = S[i] + W[i] /\ S[i + 1] <= S[K + 1]  BY <1>5
  <2> QED BY <1>8, <2>1, <2>2
<1>10. ASSUME NEW i \in 1 .. K, NEW j \in 1 .. K, NEW s \in DOMAIN pool[r][Children[n][i]],
              (S[i] + s) - S[j] \in DOMAIN pool[r][Children[n][j]], S[i] + s < S[j + 1]
       PROVE  i = j
  <2>1. PICK x \in Nat : x = S[i] + s  BY <1>9
  <2>2. S[i] <= x /\ x < S[i + 1]  BY <1>9, <2>1
  <2>3. x - S[j] \in Nat /\ S[j] \in Nat /\ x < S[j + 1]
    BY <1>3, <1>7, <1>10, <2>1
  <2>4. S[j] <= x  BY <2>3
  <2> QED BY <1>5, <2>2, <2>3, <2>4
<1>11. \A i \in 1 .. K : \A s \in DOMAIN pool[r][Children[n][i]] : S[i] + s \in 0 .. S[K + 1] - 1
  <2>1. \A x \in Nat : x < S[K + 1] => x \in 0 .. S[K + 1] - 1
    BY <1>8
  <2> QED BY <1>9, <2>1
<1>12. ASSUME NEW i \in 1 .. K, NEW j \in 1 .. K, NEW s \in DOMAIN pool[r][Children[n][i]]
       PROVE  /\ (S[i] + s) - S[j] \in DOMAIN pool[r][Children[n][j]] /\ S[i] + s < S[j + 1] => i = j
              /\ i = j => (S[i] + s) - S[j] \in DOMAIN pool[r][Children[n][j]] /\ S[i] + s < S[j + 1]
  <2>1. ASSUME i = j
        PROVE  (S[i] + s) - S[j] \in DOMAIN pool[r][Children[n][j]] /\ S[i] + s < S[j + 1]
    <3>1. (S[i] + s) - S[i] \in DOMAIN pool[r][Children[n][i]] /\ S[i] + s < S[i + 1]
      BY <1>9
    <3> QED BY <2>1, <3>1
  <2>2. (S[i] + s) - S[j] \in DOMAIN pool[r][Children[n][j]] /\ S[i] + s < S[j + 1] => i = j
    BY <1>10
  <2> QED BY <2>1, <2>2
<1>13. \A i, j \in DOMAIN Children[n] : \A s \in DOMAIN pool[r][Children[n][i]] :
          /\ (RegionStart(r, n, i) + s) - RegionStart(r, n, j) \in DOMAIN pool[r][Children[n][j]]
          /\ RegionStart(r, n, i) + s < RegionStart(r, n, j + 1)
          <=> i = j
  <2> SUFFICES ASSUME NEW i \in DOMAIN Children[n], NEW j \in DOMAIN Children[n],
                      NEW s \in DOMAIN pool[r][Children[n][i]]
               PROVE  /\ (RegionStart(r, n, i) + s) - RegionStart(r, n, j) \in DOMAIN pool[r][Children[n][j]]
                      /\ RegionStart(r, n, i) + s < RegionStart(r, n, j + 1)
                      <=> i = j
    OBVIOUS
  <2>1. /\ i \in 1 .. K /\ j \in 1 .. K /\ RegionStart(r, n, i) = S[i]
        /\ RegionStart(r, n, j) = S[j] /\ RegionStart(r, n, j + 1) = S[j + 1]
    BY <1>1, <1>6
  <2>2. /\ (S[i] + s) - S[j] \in DOMAIN pool[r][Children[n][j]] /\ S[i] + s < S[j + 1] => i = j
        /\ i = j => (S[i] + s) - S[j] \in DOMAIN pool[r][Children[n][j]] /\ S[i] + s < S[j + 1]
    BY <1>12, <2>1
  <2> QED BY ONLY <2>1, <2>2
<1>14. \A i \in DOMAIN Children[n] : \A s \in DOMAIN pool[r][Children[n][i]] :
          RegionStart(r, n, i) + s \in 0 .. RegionsLen(r, n) - 1
  BY <1>1, <1>6, <1>11
<1> QED BY <1>1, <1>6, <1>7, <1>8, <1>13, <1>14 DEF Regions

\* A solve counts once for every cut of its child.
LEMMA BindingsAt ==
    ASSUME NEW n \in Nodes, NEW r, KidsSlotted(r, n),
           NEW runs, DOMAIN runs = DOMAIN Children[n], \A i \in DOMAIN runs : Len(runs[i]) \in Nat
    PROVE  /\ DOMAIN Bindings(r, n, runs) = 0 .. RegionsLen(r, n) - 1
           /\ \A i \in DOMAIN Children[n] : \A s \in DOMAIN pool[r][Children[n][i]] :
                 Bindings(r, n, runs)[RegionStart(r, n, i) + s] = Len(runs[i])
<1>1. DOMAIN Bindings(r, n, runs) = 0 .. RegionsLen(r, n) - 1
  BY DEF Bindings
<1>2. ASSUME NEW i \in DOMAIN Children[n], NEW s \in DOMAIN pool[r][Children[n][i]]
      PROVE  Bindings(r, n, runs)[RegionStart(r, n, i) + s] = Len(runs[i])
  <2>1. PICK k, lens : k = RegionStart(r, n, i) + s /\ lens = [j \in DOMAIN runs |-> Len(runs[j])]
    OBVIOUS
  <2>a. Regions(r, n)
    BY RegionFacts
  <2>2. k \in 0 .. RegionsLen(r, n) - 1
    BY <2>1, <2>a DEF Regions
  <2> DEFINE hits == {j \in DOMAIN runs : k - RegionStart(r, n, j) \in DOMAIN pool[r][Children[n][j]]
                                          /\ k < RegionStart(r, n, j + 1)}
  <2>3. Bindings(r, n, runs)[k] = SumOver(lens, hits)
    BY <2>1, <2>2 DEF Bindings
  <2>4. ASSUME NEW j \in DOMAIN runs
        PROVE  /\ k - RegionStart(r, n, j) \in DOMAIN pool[r][Children[n][j]]
               /\ k < RegionStart(r, n, j + 1)
               <=> i = j
    <3>1. /\ (RegionStart(r, n, i) + s) - RegionStart(r, n, j) \in DOMAIN pool[r][Children[n][j]]
          /\ RegionStart(r, n, i) + s < RegionStart(r, n, j + 1)
          <=> i = j
      BY <2>a DEF Regions
    <3>2. RegionStart(r, n, i) + s = k  BY <2>1
    <3> QED BY ONLY <3>1, <3>2, Zenon
  <2>5. hits = {} \cup {i}  BY <2>4
  <2>6. lens[i] = Len(runs[i]) /\ lens[i] \in Int  BY <2>1
  <2> HIDE DEF hits
  <2>7. PICK Z : Z = {}  OBVIOUS
  <2>8. SumOver(lens, Z \cup {i}) = SumOver(lens, Z) + lens[i]
    <3>1. IsFiniteSet(Z) /\ i \notin Z /\ \A y \in Z \cup {i} : lens[y] \in Int
      BY <2>6, <2>7, FS_EmptySet
    <3> QED BY ONLY <3>1, SumExtends
  <2>9. SumOver(lens, Z) = 0  BY <2>7, EmptySum
  <2> QED BY <2>1, <2>3, <2>5, <2>6, <2>7, <2>8, <2>9
<1> QED BY <1>1, <1>2

----------------------------------------------------------------------------
(* What the counters hold *)

Slots(r, i) == DOMAIN pool[r][Children[Node][i]]
Place(r, i, s) == RegionStart(r, Node, i) + s

\* The solves of the i-th child in the units a worker finished.
Cells(r, w, i) == UNION {UnitCells(route, layout, r, Node, order[r], u, i) : u \in Finished(r, w)}

\* A counter of the worker as it stands in the region: what it counted of its finished units, by
\* node in the increments first.
CounterAt(r, w, i, k) ==
    /\ contribution[r][w][k] = IF layout.kind = "byScenario" \/ status[r][w] = "done"
                               THEN Cardinality(Cells(r, w, i)) ELSE 0
    /\ layout.kind = "byNode" => increments[r][w][k] = Cardinality(Cells(r, w, i))
WorkerCounts(r, w) ==
    /\ 0 .. RegionsLen(r, Node) - 1 \subseteq DOMAIN increments[r][w]
    /\ 0 .. RegionsLen(r, Node) - 1 \subseteq DOMAIN contribution[r][w]
    /\ status[r][w] # "failed" => \A i \in DOMAIN Children[Node] :
          IsFiniteSet(Cells(r, w, i)) /\ \A s \in Slots(r, i) : CounterAt(r, w, i, Place(r, i, s))

\* The workers' counters of child i share out the solves F among them.
Shares(r, i, F) ==
    /\ \A w \in Workers : IsFiniteSet(F[w])
    /\ \A w \in Workers : \A s \in Slots(r, i) :
          contribution[r][w][Place(r, i, s)] = Cardinality(F[w])
    /\ \A v, w \in Workers : v # w => F[v] \cap F[w] = {}
    /\ UNION {F[w] : w \in Workers} = Visitors(route, Node, PassesOf(r)) \X ChildRange(Node, i)
RankTotals(r) == \A i \in DOMAIN Children[Node] : \E F : Shares(r, i, F)

UsesShape ==
    /\ DOMAIN uses = Nodes
    /\ \A c \in Nodes : ~ Current(c) => DOMAIN uses[c] = DOMAIN pool[0][c]
PoolSlots ==
    \A c \in Nodes : ~ Current(c) => IsFiniteSet(DOMAIN pool[0][c]) /\ DOMAIN pool[0][c] \subseteq Nat
CounterShapes ==
    /\ DOMAIN increments = Ranks /\ DOMAIN contribution = Ranks
    /\ \A r \in Ranks : DOMAIN increments[r] = Workers /\ DOMAIN contribution[r] = Workers
RegionCounts ==
    \A r \in Ranks :
        /\ pc[r] = "sweep" => \A w \in Workers : WorkerCounts(r, w)
        /\ (pc[r] = "vote" /\ solved[r]) \/ pc[r] \in {"gather", "insert", "metadata"} => RankTotals(r)

CountInv == UsesShape /\ PoolSlots /\ CounterShapes /\ RegionCounts

\* The counters two operations leave.
LEMMA CountersAdded ==
    ASSUME NEW f, NEW g, NEW k, k \in DOMAIN f, k \in DOMAIN g
    PROVE  /\ DOMAIN Plus(f, g) = DOMAIN f /\ Plus(f, g)[k] = f[k] + g[k]
BY DEF Plus

\* Counters readied for len places are zero there.
LEMMA CountersZeroed ==
    ASSUME NEW f, NEW len, NEW k \in 0 .. len - 1, k < len
    PROVE  k \in DOMAIN Zeroed(f, len) /\ Zeroed(f, len)[k] = 0
BY DEF Zeroed

\* The pools of the children of a node of the level.
LEMMA KidsAreSlotted ==
    ASSUME SweepInv, PoolInv, PoolSlots, NEW n, Current(n), NEW r \in Ranks
    PROVE  /\ n \in Nodes /\ CutGenerating(n) /\ KidsSlotted(r, n)
           /\ \A i \in DOMAIN Children[n] : pool[r][Children[n][i]] = pool[0][Children[n][i]]
<1>1. level \in Nat
  BY DEF SweepInv, TypesInv, SweepTypes, Placed
<1>2. n \in Nodes /\ CutGenerating(n)
      /\ \A i \in DOMAIN Children[n] : Children[n][i] \in Nodes /\ ~ Current(Children[n][i])
  BY <1>1, LevelsApart
<1>3. ASSUME NEW c \in Nodes, ~ Current(c)
      PROVE  pool[r][c] = pool[0][c] /\ Slotted(r, c)
  <2>1. pool[r][c] = pool[0][c]
    BY <1>3, RankZero DEF PoolInv, DonePools, LaterPools
  <2>2. IsFunction(pool[r][c])
    BY DEF PoolInv, PoolShapes
  <2>3. IsFiniteSet(DOMAIN pool[r][c]) /\ DOMAIN pool[r][c] \subseteq Nat
    BY <1>3, <2>1 DEF PoolSlots
  <2> QED BY <2>1, <2>2, <2>3, PoolSlotted
<1> QED BY <1>2, <1>3 DEF KidsSlotted

\* Regions rest on the pools of the children.
LEMMA RegionsStand ==
    ASSUME NEW n \in Nodes, NEW r, \A i \in DOMAIN Children[n] : pool'[r][Children[n][i]] = pool[r][Children[n][i]]
    PROVE  /\ RegionsLen(r, n)' = RegionsLen(r, n)
           /\ \A i \in DOMAIN Children[n] : RegionStart(r, n, i)' = RegionStart(r, n, i)
<1>1. PICK K \in Nat : K = Len(Children[n]) /\ DOMAIN Children[n] = 1 .. K
  BY OutcomeFacts
<1>2. \A i \in 1 .. K : Populated(r, Children[n][i])' = Populated(r, Children[n][i])
  BY <1>1 DEF Populated
<1>3. ASSUME NEW i \in 1 .. K + 1 PROVE RegionStart(r, n, i)' = RegionStart(r, n, i)
  <2>1. \A j \in 1 .. i - 1 : j \in 1 .. K  OBVIOUS
  <2>2. [j \in 1 .. i - 1 |-> Populated(r, Children[n][j])'] = [j \in 1 .. i - 1 |-> Populated(r, Children[n][j])]
    BY <1>2, <2>1
  <2> QED BY <2>2 DEF RegionStart
<1>4. K + 1 \in 1 .. K + 1 /\ \A i \in 1 .. K : i \in 1 .. K + 1  OBVIOUS
<1> QED BY <1>1, <1>3, <1>4 DEF RegionsLen

\* The node at hand and its children's regions stand still while the pools of the rank do.
LEMMA NodeStands ==
    ASSUME NEW r, UNCHANGED <<route, layout, level, node>>, pool'[r] = pool[r]
    PROVE  /\ Node' = Node /\ RegionsLen(r, Node)' = RegionsLen(r, Node)
           /\ \A i, s : Place(r, i, s)' = Place(r, i, s)
           /\ \A i : Slots(r, i)' = Slots(r, i)
<1>1. Node' = Node
  BY DEF Node, LevelNodes
<1>2. \A i : RegionStart(r, Node, i)' = RegionStart(r, Node, i)
  BY <1>1 DEF RegionStart, Populated
<1> QED BY <1>1, <1>2 DEF RegionsLen, Place, Slots

\* What a worker counts stands still where its own state does.
LEMMA WorkerStands ==
    ASSUME NEW r, NEW w, WorkerCounts(r, w), UNCHANGED <<route, layout, level, node>>,
           order'[r] = order[r], pool'[r] = pool[r],
           increments'[r][w] = increments[r][w], contribution'[r][w] = contribution[r][w],
           status'[r][w] = status[r][w], unit'[r][w] = unit[r][w], claimed'[r][w] = claimed[r][w]
    PROVE  WorkerCounts(r, w)'
<1>1. /\ Node' = Node /\ RegionsLen(r, Node)' = RegionsLen(r, Node)
      /\ \A i, s : Place(r, i, s)' = Place(r, i, s)
      /\ \A i : Slots(r, i)' = Slots(r, i)
  BY NodeStands
<1>2. Finished(r, w)' = Finished(r, w)
  BY DEF Finished
<1>3. \A i : Cells(r, w, i)' = Cells(r, w, i)
  BY <1>1, <1>2 DEF Cells
<1>4. \A i, k : CounterAt(r, w, i, k)' <=> CounterAt(r, w, i, k)
  BY <1>3 DEF CounterAt
<1> QED BY <1>1, <1>3, <1>4 DEF WorkerCounts

\* The shares of the workers stand still while their contributions and the children's pools do.
LEMMA TotalsStand ==
    ASSUME NEW r, RankTotals(r), UNCHANGED <<route, layout, level, node>>, Node \in Nodes,
           \A i \in DOMAIN Children[Node] : pool'[r][Children[Node][i]] = pool[r][Children[Node][i]],
           contribution'[r] = contribution[r]
    PROVE  RankTotals(r)'
<1>1. Node' = Node
  BY DEF Node, LevelNodes
<1>2. PICK n \in Nodes : n = Node  OBVIOUS
<1>3. \A i \in DOMAIN Children[n] : RegionStart(r, n, i)' = RegionStart(r, n, i)
  BY <1>2, RegionsStand
<1>4. \A i \in DOMAIN Children[n] : /\ \A s : Place(r, i, s)' = Place(r, i, s)
                                    /\ Slots(r, i)' = Slots(r, i)
  BY <1>1, <1>2, <1>3 DEF Place, Slots
<1>5. \A i \in DOMAIN Children[n] : \A F : Shares(r, i, F)' <=> Shares(r, i, F)
  BY <1>1, <1>4 DEF Shares
<1> QED BY <1>1, <1>2, <1>5 DEF RankTotals

\* A worker enters a region with its counters at zero.
LEMMA EntryCounts ==
    ASSUME ClaimInv, CounterShapes, NEW r \in Ranks, pc[r] # "sweep", NEW w \in Workers,
           UNCHANGED <<route, layout, pool>>, StartNode(Node'), Node' \in Nodes, KidsSlotted(r, Node')
    PROVE  WorkerCounts(r, w)'
<1>1. PICK n \in Nodes : n = Node'  OBVIOUS
<1>2. PICK len : len = RegionsLen(r, n)  OBVIOUS
<1>3. /\ increments'[r][w] = Zeroed(increments[r][w], len)
      /\ contribution'[r][w] = Zeroed(contribution[r][w], len)
      /\ status'[r][w] = "idle" /\ claimed' = claimed
  BY <1>1, <1>2 DEF StartNode
<1>4. /\ Regions(r, n) /\ len \in Nat
  BY <1>1, <1>2, RegionFacts DEF Regions
<1>5. /\ RegionsLen(r, Node)' = len
      /\ \A i, s : Place(r, i, s)' = RegionStart(r, n, i) + s
      /\ \A i : Slots(r, i)' = DOMAIN pool[r][Children[n][i]]
  <2>1. \A c : Populated(r, c)' = Populated(r, c)
    BY DEF Populated
  <2>2. \A i : RegionStart(r, Node, i)' = RegionStart(r, n, i)
    BY <1>1, <2>1 DEF RegionStart
  <2> QED BY <1>1, <1>2, <2>2 DEF RegionsLen, Place, Slots
<1>6. Finished(r, w)' = {}
  BY <1>3 DEF Finished, ClaimInv
<1>7. \A i : Cells(r, w, i)' = {}
  BY <1>6 DEF Cells
<1>8. Cardinality({}) = 0 /\ IsFiniteSet({})  BY FS_EmptySet
<1>9. ASSUME NEW i \in DOMAIN Children[n], NEW s \in DOMAIN pool[r][Children[n][i]]
      PROVE  CounterAt(r, w, i, Place(r, i, s))'
  <2>1. PICK k : k = Place(r, i, s)' /\ k \in 0 .. len - 1
    BY <1>2, <1>4, <1>5 DEF Regions
  <2>2. k < len  BY <1>4, <2>1
  <2>3. increments'[r][w][k] = 0 /\ contribution'[r][w][k] = 0
    <3>1. PICK f, g : f = increments[r][w] /\ g = contribution[r][w]  OBVIOUS
    <3>2. Zeroed(f, len)[k] = 0 /\ Zeroed(g, len)[k] = 0
      BY <2>1, <2>2, CountersZeroed
    <3> QED BY <1>3, <3>1, <3>2
  <2> QED BY <1>3, <1>7, <1>8, <2>1, <2>3 DEF CounterAt
<1>10. /\ 0 .. len - 1 \subseteq DOMAIN increments'[r][w]
       /\ 0 .. len - 1 \subseteq DOMAIN contribution'[r][w]
  BY <1>3 DEF Zeroed
<1> QED BY <1>1, <1>5, <1>7, <1>8, <1>9, <1>10 DEF WorkerCounts

\* A step of one worker in a region leaves what the others count alone.
LEMMA RegionStep ==
    ASSUME RegionCounts, Placed, NEW r \in Ranks, NEW w \in Workers, pc[r] = "sweep",
           UNCHANGED <<route, layout, level, node, pc, solved, pool, order>>,
           \A q \in Ranks, v \in Workers : q # r \/ v # w =>
               /\ increments'[q][v] = increments[q][v] /\ contribution'[q][v] = contribution[q][v]
               /\ status'[q][v] = status[q][v] /\ unit'[q][v] = unit[q][v]
               /\ claimed'[q][v] = claimed[q][v],
           \A q \in Ranks : q # r => contribution'[q] = contribution[q],
           WorkerCounts(r, w)'
    PROVE  RegionCounts'
<1>1. Node \in Nodes  BY NodeAtHand
<1>2. ASSUME NEW q \in Ranks, pc[q] = "sweep", NEW v \in Workers PROVE WorkerCounts(q, v)'
  <2>1. CASE q = r /\ v = w  BY <2>1
  <2>2. CASE q # r \/ v # w
    <3>1. WorkerCounts(q, v)
      BY <1>2 DEF RegionCounts
    <3> QED BY <2>2, <3>1, WorkerStands
  <2> QED BY <2>1, <2>2
<1>3. ASSUME NEW q \in Ranks, pc[q] # "sweep",
             (pc[q] = "vote" /\ solved[q]) \/ pc[q] \in {"gather", "insert", "metadata"}
      PROVE  RankTotals(q)'
  <2>1. RankTotals(q) /\ contribution'[q] = contribution[q]
    BY <1>3 DEF RegionCounts
  <2> QED BY <1>1, <2>1, TotalsStand
<1> QED BY <1>2, <1>3 DEF RegionCounts

\* A claim changes no count but by node the last one's fold.
LEMMA ClaimCounts ==
    ASSUME SweepInv, PoolInv, CountInv, NEW r \in Ranks, NEW w \in Workers, Claim(r, w)
    PROVE  CounterShapes' /\ RegionCounts'
<1> USE DEF layoutVars, claimVars, workerVars, poolVars
<1>0. /\ pc[r] = "sweep" /\ status[r][w] = "idle"
      /\ UNCHANGED <<route, layout, level, node, pc, solved, pool, order, increments>>
  BY DEF Claim
<1>t. /\ ClaimInv /\ ClaimTypes /\ BufferInv /\ Placed /\ CounterShapes /\ RegionCounts /\ PoolSlots
      /\ layout \in Layouts
  BY DEF SweepInv, TypesInv, SweepTypes, ClaimInv, CountInv, BufferInv
<1>1. \/ /\ cursor[r] < Units(r)
         /\ unit' = [unit EXCEPT ![r][w] = cursor[r]]
         /\ claimed' = [claimed EXCEPT ![r][w] = claimed[r][w] \cup {cursor[r]}]
         /\ status' = [status EXCEPT ![r][w] = "busy"] /\ contribution' = contribution
      \/ /\ UNCHANGED <<unit, claimed>>
         /\ status' = [status EXCEPT ![r][w] = "done"]
         /\ contribution' = IF layout.kind = "byNode"
                            THEN [contribution EXCEPT ![r][w] = Plus(contribution[r][w], increments[r][w])]
                            ELSE contribution
  BY Zenon DEF Claim
<1>2. WorkerCounts(r, w)
  BY <1>0, <1>t DEF RegionCounts
<1>3. /\ Node' = Node /\ RegionsLen(r, Node)' = RegionsLen(r, Node)
      /\ \A i, s : Place(r, i, s)' = Place(r, i, s)
      /\ \A i : Slots(r, i)' = Slots(r, i)
  BY <1>0, NodeStands
<1>4. Node \in Nodes /\ CutGenerating(Node) /\ KidsSlotted(r, Node)
  <2>1. Current(Node)
    BY <1>0, <1>t, NodeAtHand, StagesDescend DEF Current
  <2> QED BY <1>t, <2>1, KidsAreSlotted
<1>5. CASE /\ unit' = [unit EXCEPT ![r][w] = cursor[r]]
           /\ claimed' = [claimed EXCEPT ![r][w] = claimed[r][w] \cup {cursor[r]}]
           /\ status' = [status EXCEPT ![r][w] = "busy"] /\ contribution' = contribution
  <2>1. PICK c, z : c = cursor[r] /\ z = claimed[r][w] \cup {c}  OBVIOUS
  <2>2. /\ status'[r][w] = "busy" /\ unit'[r][w] = c /\ claimed'[r][w] = z
        /\ \A q \in Ranks, v \in Workers : q # r \/ v # w =>
              /\ status'[q][v] = status[q][v] /\ unit'[q][v] = unit[q][v]
              /\ claimed'[q][v] = claimed[q][v]
    BY <1>5, <1>t, <2>1 DEF ClaimTypes
  <2>3. c \notin claimed[r][w]
    <3>1. \A u \in claimed[r][w] : u \in Nat /\ u < cursor[r]
      BY <1>0, <1>t, ClaimedUnits
    <3> QED BY <2>1, <3>1
  <2>4. Finished(r, w)' = Finished(r, w)
    BY <1>0, <2>1, <2>2, <2>3 DEF Finished
  <2>5. \A i : Cells(r, w, i)' = Cells(r, w, i)
    BY <1>0, <1>3, <2>4 DEF Cells
  <2>6. \A i, k : CounterAt(r, w, i, k) => CounterAt(r, w, i, k)'
    BY <1>0, <1>5, <2>2, <2>5 DEF CounterAt
  <2>7. WorkerCounts(r, w)'
    BY <1>0, <1>2, <1>3, <1>5, <2>2, <2>5, <2>6 DEF WorkerCounts
  <2>8. RegionCounts'  BY <1>0, <1>5, <1>t, <2>2, <2>7, RegionStep
  <2> QED BY <1>0, <1>5, <1>t, <2>8 DEF CounterShapes
<1>6. CASE /\ UNCHANGED <<unit, claimed>>
           /\ status' = [status EXCEPT ![r][w] = "done"]
           /\ contribution' = IF layout.kind = "byNode"
                              THEN [contribution EXCEPT ![r][w] = Plus(contribution[r][w], increments[r][w])]
                              ELSE contribution
  <2>1. PICK x, b : /\ x = claimed[r][w]
                    /\ b = IF layout.kind = "byNode" THEN Plus(contribution[r][w], increments[r][w])
                           ELSE contribution[r][w]
    OBVIOUS
  <2>2. /\ status'[r][w] = "done" /\ unit'[r][w] = unit[r][w] /\ claimed'[r][w] = claimed[r][w]
        /\ \A q \in Ranks, v \in Workers : q # r \/ v # w =>
              /\ status'[q][v] = status[q][v] /\ unit'[q][v] = unit[q][v]
              /\ claimed'[q][v] = claimed[q][v]
    BY <1>6, <1>t DEF ClaimTypes
  <2>3. /\ CounterShapes' /\ contribution'[r][w] = b
        /\ \A q \in Ranks : q # r => contribution'[q] = contribution[q]
        /\ \A q \in Ranks, v \in Workers : q # r \/ v # w =>
              increments'[q][v] = increments[q][v] /\ contribution'[q][v] = contribution[q][v]
    <3>1. contribution' = [contribution EXCEPT ![r][w] = b]
             \/ (contribution' = contribution /\ b = contribution[r][w])
      BY <1>6, <2>1
    <3> QED BY <1>0, <1>t, <3>1 DEF CounterShapes
  <2>4. Finished(r, w)' = Finished(r, w)
    BY <1>0, <2>2 DEF Finished
  <2>5. \A i : Cells(r, w, i)' = Cells(r, w, i)
    BY <1>0, <1>3, <2>4 DEF Cells
  <2>6. DOMAIN b = DOMAIN contribution[r][w]
    BY <2>1 DEF Plus
  <2>7. ASSUME NEW i \in DOMAIN Children[Node], NEW s \in Slots(r, i)
        PROVE  IsFiniteSet(Cells(r, w, i)) /\ CounterAt(r, w, i, Place(r, i, s))'
    <3>1. IsFiniteSet(Cells(r, w, i)) /\ CounterAt(r, w, i, Place(r, i, s))
      BY <1>0, <1>2 DEF WorkerCounts
    <3>2. PICK k, m : k = Place(r, i, s) /\ m = Cardinality(Cells(r, w, i)) /\ m \in Nat
      BY <3>1, FS_CardinalityType
    <3>3. CASE layout.kind = "byScenario"
      <4>1. contribution[r][w][k] = m
        BY <3>1, <3>2, <3>3 DEF CounterAt
      <4>2. b = contribution[r][w] /\ layout.kind # "byNode"
        BY <2>1, <3>3
      <4> QED BY <1>0, <1>3, <2>3, <2>5, <3>1, <3>2, <3>3, <4>1, <4>2 DEF CounterAt
    <3>4. CASE layout.kind = "byNode"
      <4>1. contribution[r][w][k] = 0 /\ increments[r][w][k] = m
        BY <1>0, <3>1, <3>2, <3>4 DEF CounterAt
      <4>2. k \in DOMAIN contribution[r][w] /\ k \in DOMAIN increments[r][w]
        <5>1. Regions(r, Node)  BY <1>4, RegionFacts
        <5>2. k \in 0 .. RegionsLen(r, Node) - 1
          BY <3>2, <5>1 DEF Regions, Place, Slots
        <5> QED BY <1>2, <5>2 DEF WorkerCounts
      <4>3. b[k] = m
        <5>1. PICK f, g : f = contribution[r][w] /\ g = increments[r][w]  OBVIOUS
        <5>2. Plus(f, g)[k] = f[k] + g[k]
          BY <4>2, <5>1, CountersAdded
        <5> QED BY <2>1, <3>2, <3>4, <4>1, <5>1, <5>2
      <4> QED BY <1>0, <1>3, <2>2, <2>3, <2>5, <3>1, <3>2, <3>4, <4>1, <4>3 DEF CounterAt
    <3>5. layout.kind = "byScenario" \/ layout.kind = "byNode"
      BY <1>t, LayoutAssumption
    <3> QED BY <3>3, <3>4, <3>5
  <2>8. WorkerCounts(r, w)'
    <3>1. \A i \in DOMAIN Children[Node] : IsFiniteSet(Cells(r, w, i)) /\ \A s \in Slots(r, i) : CounterAt(r, w, i, Place(r, i, s))'
      <4>1. \A i \in DOMAIN Children[Node] : IsFiniteSet(Cells(r, w, i))
        BY <1>0, <1>2 DEF WorkerCounts
      <4> QED BY <2>7, <4>1
    <3>2. /\ 0 .. RegionsLen(r, Node) - 1 \subseteq DOMAIN increments[r][w]
          /\ 0 .. RegionsLen(r, Node) - 1 \subseteq DOMAIN contribution[r][w]
      BY <1>2 DEF WorkerCounts
    <3> QED BY <1>0, <1>3, <2>3, <2>5, <2>6, <3>1, <3>2 DEF WorkerCounts
  <2>9. RegionCounts'  BY <1>0, <1>t, <2>2, <2>3, <2>8, RegionStep
  <2> QED BY <2>3, <2>9
<1> QED BY <1>1, <1>5, <1>6

\* The worker's finished units and the next one have no solve in common.
LEMMA UnitJoins ==
    ASSUME SweepInv, NEW r \in Ranks, NEW w \in Workers, status[r][w] = "busy",
           NEW i \in DOMAIN Children[Node], IsFiniteSet(Cells(r, w, i)), NEW u, u = unit[r][w],
           NEW cell, cell = UnitCells(route, layout, r, Node, order[r], u, i)
    PROVE  /\ pc[r] = "sweep" /\ u \in claimed[r][w]
           /\ IsFiniteSet(cell) /\ Cardinality(cell) = Len(RunsOf(r, Node, u)[i])
           /\ IsFiniteSet(Cells(r, w, i) \cup cell)
           /\ Cardinality(Cells(r, w, i) \cup cell) = Cardinality(Cells(r, w, i)) + Cardinality(cell)
<1>t. /\ ClaimInv /\ BufferInv /\ Placed /\ RankBuffers(r) /\ layout \in Layouts /\ route \in Routes
  BY DEF SweepInv, TypesInv, SweepTypes, BufferInv
<1>1. pc[r] = "sweep"
  BY <1>t DEF RankBuffers
<1>2. u \in claimed[r][w]
  BY <1>1, <1>t DEF ClaimInv, ClaimedOnce
<1>3. PICK n, blocks : n = Node /\ blocks = order[r]  OBVIOUS
<1>4. /\ n \in Nodes /\ CutGenerating(n) /\ Listing(blocks, BlockCount(n)) /\ i \in DOMAIN Children[n]
      /\ DOMAIN route = 0 .. TotalPasses - 1
  <2>1. Node \in Nodes /\ CutGenerating(Node)
    BY <1>1, <1>t, NodeAtHand
  <2>2. Listing(order[r], BlockCount(Node))
    BY <1>1, <1>t DEF RankBuffers
  <2> QED BY <1>3, <1>t, <2>1, <2>2 DEF Routes
<1>5. \A v \in claimed[r][w] : v \in UnitsOf(route, layout, r, n)
  BY <1>1, <1>3, <1>t, ClaimedUnits
<1>6. PICK run : run = RunFor(route, layout, r, n, blocks, u, i)  OBVIOUS
<1>7. IsFiniteSet(cell) /\ Cardinality(cell) = Len(run)
  <2>1. /\ Len(run) \in Nat
        /\ IsFiniteSet(UnitCells(route, layout, r, n, blocks, u, i))
        /\ Cardinality(UnitCells(route, layout, r, n, blocks, u, i)) = Len(run)
    BY ONLY <1>2, <1>4, <1>5, <1>6, <1>t, r \in Ranks, UnitCellsCounted
  <2> QED BY <1>3, <2>1
<1>8. run = RunsOf(r, Node, u)[i]
  BY <1>3, <1>6 DEF RunsOf, RunFor
<1>9. ASSUME NEW y \in Cells(r, w, i), y \in cell PROVE FALSE
  <2>1. PICK v \in Finished(r, w) : y \in UnitCells(route, layout, r, n, blocks, v, i)
    BY <1>3 DEF Cells
  <2>2. v \in claimed[r][w] /\ v # u
    BY <2>1 DEF Finished
  <2>3. UnitCells(route, layout, r, n, blocks, u, i) \cap UnitCells(route, layout, r, n, blocks, v, i) = {}
    BY ONLY <1>2, <1>4, <1>5, <1>t, <2>2, r \in Ranks, UnitCellsApart
  <2> QED BY <1>3, <1>9, <2>1, <2>3
<1>10. PICK A : A = Cells(r, w, i)  OBVIOUS
<1>11. /\ IsFiniteSet(A \cup cell)
       /\ Cardinality(A \cup cell) = Cardinality(A) + Cardinality(cell) - Cardinality(A \cap cell)
  <2>1. IsFiniteSet(A) /\ IsFiniteSet(cell)  BY <1>7, <1>10
  <2> QED BY ONLY <2>1, FS_Union
<1>12. Cardinality(A \cap cell) = 0 /\ Cardinality(A) \in Nat /\ Cardinality(cell) \in Nat
  <2>1. A \cap cell = {}  BY <1>9, <1>10
  <2>2. Cardinality(A \cap cell) = 0  BY <2>1, FS_EmptySet
  <2> QED BY <1>7, <1>10, <2>2, FS_CardinalityType
<1> QED BY <1>1, <1>2, <1>7, <1>8, <1>10, <1>11, <1>12

\* A finished unit counts each of its solves for every cut of their child, once.
LEMMA SolveCounts ==
    ASSUME SweepInv, PoolInv, CountInv, NEW r \in Ranks, NEW w \in Workers, Solve(r, w)
    PROVE  CounterShapes' /\ RegionCounts'
<1> USE DEF layoutVars, claimVars, workerVars, poolVars
<1>0. /\ status[r][w] = "busy"
      /\ UNCHANGED <<route, layout, level, node, pc, cursor, order, claimed, solved, pool>>
  BY Zenon DEF Solve
<1>t. /\ ClaimInv /\ ClaimTypes /\ BufferInv /\ Placed /\ CounterShapes /\ RegionCounts /\ PoolSlots
      /\ layout \in Layouts
  BY DEF SweepInv, TypesInv, SweepTypes, ClaimInv, CountInv, BufferInv
<1>1. pc[r] = "sweep"
  BY <1>0, <1>t DEF BufferInv, RankBuffers
<1>2. PICK u, bound : u = unit[r][w] /\ bound = Bindings(r, Node, RunsOf(r, Node, u))
  OBVIOUS
<1>3. PICK f, g, before, a, b :
         /\ f = increments[r][w] /\ g = contribution[r][w]
         /\ before = IF layout.kind = "byScenario" THEN Zeroed(f, RegionsLen(r, Node)) ELSE f
         /\ a = Plus(before, bound)
         /\ b = IF layout.kind = "byScenario" THEN Plus(g, a) ELSE g
  OBVIOUS
<1>4. /\ status' = [status EXCEPT ![r][w] = "idle"] /\ unit' = [unit EXCEPT ![r][w] = -1]
      /\ increments' = [increments EXCEPT ![r][w] = a]
      /\ contribution' = IF layout.kind = "byScenario"
                         THEN [contribution EXCEPT ![r][w] = Plus(contribution[r][w], increments'[r][w])]
                         ELSE contribution
  <2>1. status' = [status EXCEPT ![r][w] = "idle"] /\ unit' = [unit EXCEPT ![r][w] = -1]
    BY Zenon DEF Solve
  <2>2. increments' = [increments EXCEPT ![r][w] =
            Plus(IF layout.kind = "byScenario" THEN Zeroed(increments[r][w], RegionsLen(r, Node))
                 ELSE increments[r][w], Bindings(r, Node, RunsOf(r, Node, unit[r][w])))]
    BY Zenon DEF Solve
  <2>3. contribution' = IF layout.kind = "byScenario"
                        THEN [contribution EXCEPT ![r][w] = Plus(contribution[r][w], increments'[r][w])]
                        ELSE contribution
    BY Zenon DEF Solve
  <2>4. a = Plus(IF layout.kind = "byScenario" THEN Zeroed(increments[r][w], RegionsLen(r, Node))
                 ELSE increments[r][w], Bindings(r, Node, RunsOf(r, Node, unit[r][w])))
    BY <1>2, <1>3
  <2> QED BY <2>1, <2>2, <2>3, <2>4
<1>5. increments'[r][w] = a
  BY <1>4, <1>t DEF CounterShapes
<1>6. /\ CounterShapes' /\ contribution'[r][w] = b
      /\ \A q \in Ranks : q # r => contribution'[q] = contribution[q]
      /\ \A q \in Ranks, v \in Workers : q # r \/ v # w =>
            increments'[q][v] = increments[q][v] /\ contribution'[q][v] = contribution[q][v]
  <2>1. contribution' = [contribution EXCEPT ![r][w] = b]
           \/ (contribution' = contribution /\ b = contribution[r][w])
    <3>1. CASE layout.kind = "byScenario"
      <4>1. b = Plus(contribution[r][w], increments'[r][w])
        BY <1>3, <1>5, <3>1
      <4> QED BY <1>4, <3>1, <4>1
    <3>2. CASE layout.kind # "byScenario"  BY <1>3, <1>4, <3>2
    <3> QED BY <3>1, <3>2
  <2> QED BY <1>4, <1>t, <2>1 DEF CounterShapes
<1>7. /\ status'[r][w] = "idle" /\ unit'[r][w] = -1 /\ claimed'[r][w] = claimed[r][w]
      /\ \A q \in Ranks, v \in Workers : q # r \/ v # w =>
            /\ status'[q][v] = status[q][v] /\ unit'[q][v] = unit[q][v]
            /\ claimed'[q][v] = claimed[q][v]
  BY <1>0, <1>4, <1>t DEF ClaimTypes
<1>8. WorkerCounts(r, w)
  BY <1>1, <1>t DEF RegionCounts
<1>9. /\ Node' = Node /\ RegionsLen(r, Node)' = RegionsLen(r, Node)
      /\ \A i, s : Place(r, i, s)' = Place(r, i, s)
      /\ \A i : Slots(r, i)' = Slots(r, i)
  BY <1>0, NodeStands
<1>10. Node \in Nodes /\ CutGenerating(Node) /\ KidsSlotted(r, Node) /\ Regions(r, Node)
  <2>1. Current(Node)
    BY <1>1, <1>t, NodeAtHand, StagesDescend DEF Current
  <2> QED BY <1>t, <2>1, KidsAreSlotted, RegionFacts
<1>11. u \in claimed[r][w] /\ Finished(r, w)' = Finished(r, w) \cup {u}
  <2>1. u \in claimed[r][w]
    BY <1>0, <1>1, <1>2, <1>t DEF ClaimInv, ClaimedOnce
  <2> QED BY <1>0, <1>2, <1>7, <2>1 DEF Finished
<1>12. \A i : Cells(r, w, i)' = Cells(r, w, i) \cup UnitCells(route, layout, r, Node, order[r], u, i)
  <2>1. \A i : (UNION {UnitCells(route, layout, r, Node, order[r], x, i) : x \in Finished(r, w)})
                 \cup UnitCells(route, layout, r, Node, order[r], u, i) =
               UNION {UnitCells(route, layout, r, Node, order[r], x, i) : x \in Finished(r, w) \cup {u}}
    OBVIOUS
  <2> QED BY <1>0, <1>9, <1>11, <2>1 DEF Cells
<1>13. ASSUME NEW i \in DOMAIN Children[Node]
       PROVE  /\ IsFiniteSet(Cells(r, w, i)')
              /\ \A s \in Slots(r, i) : CounterAt(r, w, i, Place(r, i, s))'
  <2>1. IsFiniteSet(Cells(r, w, i)) /\ \A s \in Slots(r, i) : CounterAt(r, w, i, Place(r, i, s))
    BY <1>0, <1>8 DEF WorkerCounts
  <2>2. PICK cell : cell = UnitCells(route, layout, r, Node, order[r], u, i)  OBVIOUS
  <2>3. /\ IsFiniteSet(cell) /\ Cardinality(cell) = Len(RunsOf(r, Node, u)[i])
        /\ IsFiniteSet(Cells(r, w, i) \cup cell)
        /\ Cardinality(Cells(r, w, i) \cup cell) = Cardinality(Cells(r, w, i)) + Cardinality(cell)
    <3>1. IsFiniteSet(Cells(r, w, i))  BY <2>1
    <3> QED BY ONLY SweepInv, r \in Ranks, w \in Workers, <1>0, <1>2, <1>13, <2>2, <3>1, UnitJoins
  <2>4. PICK c, m, l : /\ c = Cardinality(Cells(r, w, i)) /\ c \in Nat
                       /\ m = Cardinality(cell) /\ m \in Nat
                       /\ l = Cardinality(Cells(r, w, i)') /\ l = c + m
    BY <1>12, <2>1, <2>2, <2>3, FS_CardinalityType
  <2>5. ASSUME NEW s \in Slots(r, i) PROVE CounterAt(r, w, i, Place(r, i, s))'
    <3>1. PICK k : k = Place(r, i, s) /\ CounterAt(r, w, i, k)
      BY <2>1
    <3>2. k \in 0 .. RegionsLen(r, Node) - 1 /\ k < RegionsLen(r, Node)
      <4>1. k \in 0 .. RegionsLen(r, Node) - 1 /\ RegionsLen(r, Node) \in Nat
        BY <1>10, <3>1 DEF Regions, Place, Slots
      <4> QED BY <4>1
    <3>3. k \in DOMAIN f /\ k \in DOMAIN g
      BY <1>3, <1>8, <3>2 DEF WorkerCounts
    <3>4. k \in DOMAIN bound /\ bound[k] = m
      <4>1. PICK runs : runs = RunsOf(r, Node, u)  OBVIOUS
      <4>2. DOMAIN runs = DOMAIN Children[Node] /\ \A j \in DOMAIN runs : Len(runs[j]) \in Nat
        <5>1. DOMAIN runs = DOMAIN Children[Node]
          BY <4>1 DEF RunsOf
        <5>2. ASSUME NEW j \in DOMAIN Children[Node] PROVE Len(runs[j]) \in Nat
          <6>1. IsFiniteSet(Cells(r, w, j))
            BY <1>0, <1>8 DEF WorkerCounts
          <6>2. PICK other : other = UnitCells(route, layout, r, Node, order[r], u, j)
            OBVIOUS
          <6>3. /\ pc[r] = "sweep" /\ u \in claimed[r][w]
                /\ IsFiniteSet(other) /\ Cardinality(other) = Len(RunsOf(r, Node, u)[j])
                /\ IsFiniteSet(Cells(r, w, j) \cup other)
                /\ Cardinality(Cells(r, w, j) \cup other) = Cardinality(Cells(r, w, j)) + Cardinality(other)
            BY ONLY SweepInv, r \in Ranks, w \in Workers, <1>0, <1>2, <5>2, <6>1, <6>2, UnitJoins
          <6> QED BY <4>1, <6>3, FS_CardinalityType
        <5> QED BY <5>1, <5>2
      <4>3. /\ DOMAIN Bindings(r, Node, runs) = 0 .. RegionsLen(r, Node) - 1
            /\ \A j \in DOMAIN Children[Node] : \A t \in DOMAIN pool[r][Children[Node][j]] :
                  Bindings(r, Node, runs)[RegionStart(r, Node, j) + t] = Len(runs[j])
        BY ONLY <1>10, <4>2, BindingsAt
      <4>4. Bindings(r, Node, runs)[k] = Len(runs[i])
        BY <3>1, <4>3 DEF Place, Slots
      <4> QED BY <1>2, <2>3, <2>4, <3>2, <4>1, <4>3, <4>4
    <3>5. CASE layout.kind = "byScenario"
      <4>1. g[k] = c
        BY <1>3, <2>4, <3>1, <3>5 DEF CounterAt
      <4>2. k \in DOMAIN before /\ before[k] = 0
        <5>1. before = Zeroed(f, RegionsLen(r, Node))
          BY <1>3, <3>5
        <5>2. PICK len : len = RegionsLen(r, Node)  OBVIOUS
        <5>3. k \in DOMAIN Zeroed(f, len) /\ Zeroed(f, len)[k] = 0
          BY <3>2, <5>2, CountersZeroed
        <5> QED BY <5>1, <5>2, <5>3
      <4>3. k \in DOMAIN a /\ a[k] = m
        <5>1. DOMAIN a = DOMAIN before /\ a[k] = before[k] + bound[k]
          BY <1>3, <3>4, <4>2, CountersAdded
        <5> QED BY <2>4, <3>4, <4>2, <5>1
      <4>4. b[k] = l
        <5>1. b = Plus(g, a)  BY <1>3, <3>5
        <5>2. Plus(g, a)[k] = g[k] + a[k]
          BY <3>3, <4>3, CountersAdded
        <5> QED BY <2>4, <4>1, <4>3, <5>1, <5>2
      <4> QED BY <1>0, <1>6, <1>9, <2>4, <3>1, <3>5, <4>4 DEF CounterAt
    <3>6. CASE layout.kind = "byNode"
      <4>1. f[k] = c /\ g[k] = 0
        BY <1>0, <1>3, <2>4, <3>1, <3>6 DEF CounterAt
      <4>2. before = f /\ b = g  BY <1>3, <3>6
      <4>3. a[k] = l
        <5>1. Plus(f, bound)[k] = f[k] + bound[k]
          BY <3>3, <3>4, CountersAdded
        <5> QED BY <1>3, <2>4, <3>4, <4>1, <4>2, <5>1
      <4> QED BY <1>0, <1>5, <1>6, <1>7, <1>9, <2>4, <3>1, <3>6, <4>1, <4>2, <4>3 DEF CounterAt
    <3>7. layout.kind = "byScenario" \/ layout.kind = "byNode"
      BY <1>t, LayoutAssumption
    <3> QED BY <3>5, <3>6, <3>7
  <2> QED BY <1>12, <2>2, <2>3, <2>5
<1>14. /\ 0 .. RegionsLen(r, Node) - 1 \subseteq DOMAIN a
       /\ 0 .. RegionsLen(r, Node) - 1 \subseteq DOMAIN b
  <2>1. /\ 0 .. RegionsLen(r, Node) - 1 \subseteq DOMAIN f
        /\ 0 .. RegionsLen(r, Node) - 1 \subseteq DOMAIN g
    BY <1>3, <1>8 DEF WorkerCounts
  <2>2. DOMAIN f \subseteq DOMAIN before
    BY <1>3 DEF Zeroed
  <2>3. DOMAIN a = DOMAIN before /\ DOMAIN b = DOMAIN g
    BY <1>3 DEF Plus
  <2> QED BY <2>1, <2>2, <2>3
<1>15. WorkerCounts(r, w)'
  BY <1>5, <1>6, <1>9, <1>13, <1>14 DEF WorkerCounts
<1>16. RegionCounts'
  BY <1>0, <1>1, <1>6, <1>7, <1>15, <1>t, RegionStep
<1> QED BY <1>6, <1>16

\* A worker that fails counts no longer.
LEMMA FailCounts ==
    ASSUME SweepInv, CountInv, NEW r \in Ranks, NEW w \in Workers, FailSolve(r, w)
    PROVE  CounterShapes' /\ RegionCounts'
<1> USE DEF layoutVars, claimVars, workerVars, poolVars
<1>0. /\ status[r][w] = "busy" /\ status' = [status EXCEPT ![r][w] = "failed"]
      /\ UNCHANGED <<route, layout, level, node, pc, order, unit, claimed, solved, pool,
                     increments, contribution>>
  BY DEF FailSolve
<1>t. ClaimTypes /\ BufferInv /\ Placed /\ CounterShapes /\ RegionCounts
  BY DEF SweepInv, TypesInv, SweepTypes, ClaimInv, CountInv, BufferInv
<1>1. pc[r] = "sweep"
  BY <1>0, <1>t DEF BufferInv, RankBuffers
<1>2. /\ status'[r][w] = "failed"
      /\ \A q \in Ranks, v \in Workers : q # r \/ v # w => status'[q][v] = status[q][v]
  BY <1>0, <1>t DEF ClaimTypes
<1>3. WorkerCounts(r, w)
  BY <1>1, <1>t DEF RegionCounts
<1>4. RegionsLen(r, Node)' = RegionsLen(r, Node)
  BY <1>0, NodeStands
<1>5. WorkerCounts(r, w)'
  BY <1>0, <1>2, <1>3, <1>4 DEF WorkerCounts
<1>6. RegionCounts'  BY <1>0, <1>1, <1>2, <1>5, <1>t, RegionStep
<1> QED BY <1>0, <1>6, <1>t DEF CounterShapes

\* When every worker of a rank is done, their counts share out all solves of the rank.
LEMMA SharesAtEnd ==
    ASSUME SweepInv, PoolInv, CountInv, NEW r \in Ranks, pc[r] = "sweep",
           \A w \in Workers : status[r][w] = "done"
    PROVE  RankTotals(r)
<1>t. /\ ClaimInv /\ ClaimTypes /\ BufferInv /\ Placed /\ RegionCounts /\ RankBuffers(r)
      /\ layout \in Layouts /\ route \in Routes
  BY DEF SweepInv, TypesInv, SweepTypes, ClaimInv, CountInv, BufferInv
<1>1. PICK n, blocks : n = Node /\ blocks = order[r]  OBVIOUS
<1>2. /\ n \in Nodes /\ CutGenerating(n) /\ Listing(blocks, BlockCount(n))
      /\ DOMAIN route = 0 .. TotalPasses - 1
  <2>1. Node \in Nodes /\ CutGenerating(Node)  BY <1>t, NodeAtHand
  <2>2. Listing(order[r], BlockCount(Node))
    BY <1>t DEF RankBuffers
  <2> QED BY <1>1, <1>t, <2>1, <2>2 DEF Routes
<1>3. /\ \A w \in Workers : Finished(r, w) = claimed[r][w]
      /\ \A v, w \in Workers : v # w => claimed[r][v] \cap claimed[r][w] = {}
      /\ UNION {claimed[r][w] : w \in Workers} = {u \in 0 .. cursor[r] - 1 : u < Units(r)}
  BY <1>t DEF Finished, ClaimInv, ClaimedOnce
<1>4. UNION {claimed[r][w] : w \in Workers} = UnitsOf(route, layout, r, n)
  <2>1. PICK m \in Nat : m = UnitCount(layout, n, Len(Routed(route, r, n)))
    BY <1>2, <1>t, UnitsCounted
  <2>2. Units(r) = m
    BY <1>1, <2>1 DEF Units, RoutedHere
  <2>3. PICK c \in Nat : c = cursor[r] /\ m <= c
    <3>1. 1 \in Workers
      BY LayoutAssumption DEF Workers
    <3>2. Units(r) <= cursor[r] /\ cursor[r] \in Nat
      BY <1>t, <3>1 DEF RankBuffers, ClaimTypes
    <3> QED BY <2>2, <3>2
  <2>4. {u \in 0 .. c - 1 : u < m} = 0 .. m - 1  BY <2>1, <2>3
  <2> QED BY <1>3, <2>1, <2>2, <2>3, <2>4 DEF UnitsOf
<1>5. SUFFICES ASSUME NEW i \in DOMAIN Children[n] PROVE \E F : Shares(r, i, F)
  BY <1>1 DEF RankTotals
<1>6. PICK F : F = [w \in Workers |-> Cells(r, w, i)]  OBVIOUS
<1>7. \A w \in Workers : F[w] = UNION {UnitCells(route, layout, r, n, blocks, u, i) : u \in claimed[r][w]}
  BY <1>1, <1>3, <1>6 DEF Cells
<1>8. \A w \in Workers : /\ IsFiniteSet(F[w])
                         /\ \A s \in Slots(r, i) : contribution[r][w][Place(r, i, s)] = Cardinality(F[w])
  <2> SUFFICES ASSUME NEW w \in Workers
               PROVE  /\ IsFiniteSet(F[w])
                      /\ \A s \in Slots(r, i) : contribution[r][w][Place(r, i, s)] = Cardinality(F[w])
    OBVIOUS
  <2>1. WorkerCounts(r, w) /\ status[r][w] = "done"
    BY <1>t DEF RegionCounts
  <2>2. IsFiniteSet(Cells(r, w, i)) /\ \A s \in Slots(r, i) : CounterAt(r, w, i, Place(r, i, s))
    BY <1>1, <2>1 DEF WorkerCounts
  <2>3. \A s \in Slots(r, i) : contribution[r][w][Place(r, i, s)] = Cardinality(Cells(r, w, i))
    BY <2>1, <2>2 DEF CounterAt
  <2> QED BY <1>6, <2>2, <2>3
<1>9. ASSUME NEW v \in Workers, NEW w \in Workers, v # w PROVE F[v] \cap F[w] = {}
  <2> SUFFICES ASSUME NEW y, y \in F[v], y \in F[w] PROVE FALSE  OBVIOUS
  <2>1. PICK a \in claimed[r][v], b \in claimed[r][w] :
            /\ y \in UnitCells(route, layout, r, n, blocks, a, i)
            /\ y \in UnitCells(route, layout, r, n, blocks, b, i)
    BY <1>7
  <2>2. a # b /\ a \in UnitsOf(route, layout, r, n) /\ b \in UnitsOf(route, layout, r, n)
    BY <1>3, <1>4, <1>9
  <2>3. UnitCells(route, layout, r, n, blocks, a, i) \cap UnitCells(route, layout, r, n, blocks, b, i) = {}
    BY ONLY <1>2, <1>t, <1>5, <2>2, r \in Ranks, UnitCellsApart
  <2> QED BY <2>1, <2>3
<1>10. UNION {F[w] : w \in Workers} = Visitors(route, n, PassesOf(r)) \X ChildRange(n, i)
  <2>1. UNION {UnitCells(route, layout, r, n, blocks, u, i) : u \in UnitsOf(route, layout, r, n)} =
             Visitors(route, n, PassesOf(r)) \X ChildRange(n, i)
    BY ONLY <1>2, <1>t, <1>5, r \in Ranks, UnitCellsWhole
  <2>2. UNION {F[w] : w \in Workers} =
          UNION {UnitCells(route, layout, r, n, blocks, u, i) : u \in UNION {claimed[r][w] : w \in Workers}}
    BY <1>7
  <2> QED BY <1>4, <2>1, <2>2
<1>11. Shares(r, i, F)
  BY <1>1, <1>8, <1>9, <1>10 DEF Shares
<1> QED BY <1>11

\* The counts of the ranks outlast the end of a region.
LEMMA FinishCounts ==
    ASSUME SweepInv, PoolInv, CountInv, NEW r \in Ranks, Finish(r)
    PROVE  CounterShapes' /\ RegionCounts'
<1> USE DEF layoutVars, claimVars, workerVars, poolVars
<1>0. /\ pc[r] = "sweep" /\ pc' = [pc EXCEPT ![r] = "vote"]
      /\ solved' = [solved EXCEPT ![r] = \A w \in Workers : status[r][w] = "done"]
      /\ claimed' = [claimed EXCEPT ![r] = [w \in Workers |-> {}]]
      /\ UNCHANGED <<route, layout, level, node, order, status, unit, increments, contribution>>
  BY Zenon DEF Finish
<1>p. /\ \A q \in Ranks, c \in Nodes : ~ Current(c) => pool'[q][c] = pool[q][c]
      /\ \A q \in Ranks : q # r => pool'[q] = pool[q]
  <2>1. UNCHANGED pool \/ pool' = [pool EXCEPT ![r][Node] = WithCuts(pool[r][Node], Node, LocalCuts(r, Node))]
    BY Zenon DEF Finish
  <2>2. DOMAIN pool = Ranks
    BY DEF SweepInv, BufferInv
  <2> QED BY <2>1, <2>2, FinishPools
<1>t. /\ Placed /\ Together /\ CounterShapes /\ RegionCounts /\ DOMAIN pc = Ranks /\ DOMAIN solved = Ranks
      /\ DOMAIN claimed = Ranks
  BY DEF SweepInv, TypesInv, SweepTypes, ClaimInv, ClaimTypes, CountInv
<1>1. \A q \in Ranks : q # r => pc'[q] = pc[q] /\ solved'[q] = solved[q] /\ claimed'[q] = claimed[q]
  BY <1>0, <1>t
<1>2. pc'[r] = "vote" /\ (solved'[r] <=> \A w \in Workers : status[r][w] = "done")
  BY <1>0, <1>t
<1>3. /\ Node \in Nodes
      /\ \A i \in DOMAIN Children[Node] : \A q \in Ranks : pool'[q][Children[Node][i]] = pool[q][Children[Node][i]]
  <2>1. Current(Node) /\ level \in Nat
    BY <1>0, <1>t, NodeAtHand, StagesDescend DEF Current, Placed
  <2> QED BY <1>p, <2>1, LevelsApart
<1>4. ASSUME NEW q \in Ranks, pc'[q] = "sweep", NEW w \in Workers PROVE WorkerCounts(q, w)'
  <2>1. q # r  BY <1>2, <1>4
  <2>2. WorkerCounts(q, w)
    BY <1>1, <1>4, <1>t, <2>1 DEF RegionCounts
  <2>3. pool'[q] = pool[q] /\ claimed'[q] = claimed[q]
    BY <1>1, <1>p, <2>1
  <2> QED BY <1>0, <2>2, <2>3, WorkerStands
<1>5. ASSUME NEW q \in Ranks, (pc'[q] = "vote" /\ solved'[q]) \/ pc'[q] \in {"gather", "insert", "metadata"}
      PROVE  RankTotals(q)'
  <2>1. RankTotals(q)
    <3>1. CASE q = r  BY <1>0, <1>2, <1>5, <3>1, SharesAtEnd
    <3>2. CASE q # r
      BY <1>1, <1>5, <1>t, <3>2 DEF RegionCounts
    <3> QED BY <3>1, <3>2
  <2> QED BY <1>0, <1>3, <2>1, TotalsStand
<1>6. CounterShapes'
  BY <1>0, <1>t DEF CounterShapes
<1> QED BY <1>4, <1>5, <1>6 DEF RegionCounts

\* The exchange of the states of a level, or the vote on a node, opens the next region or ends
\* the level, and a vote that goes through leaves every rank's counts whole.
LEMMA EntersCounts ==
    ASSUME SweepInv, PoolInv, CountInv, Placed', NEW n, Node' = n, StartNode(n),
           UNCHANGED <<route, layout, level, pool>>, \A r \in Ranks : pc[r] # "sweep" /\ pc'[r] = "sweep"
    PROVE  CounterShapes' /\ RegionCounts'
<1>t. ClaimInv /\ CounterShapes /\ PoolSlots
  BY DEF SweepInv, TypesInv, CountInv
<1>1. CounterShapes'
  BY DEF StartNode, CounterShapes
<1>2. Current(n)
  <2>1. level' \in 1 .. Len(Levels) /\ Node' \in Range(LevelNodes')
    <3>1. ASSUME Placed, pc[0] \notin {"exchange", "ok"}, level \in Nat
          PROVE  level \in 1 .. Len(Levels) /\ Node \in Range(LevelNodes)
      BY <3>1, RankZero, NodeAtHand
    <3>2. level' \in Nat /\ 1 <= level' /\ level' <= Len(Levels) /\ node' \in DOMAIN Levels[level']
      BY RankZero DEF Placed
    <3>3. level' \in 1 .. Len(Levels)  BY <3>2, StagesDescend
    <3> QED BY <3>2, <3>3 DEF Node, LevelNodes, Range
  <2>2. LevelNodes' = LevelNodes  BY LevelStands
  <2> QED BY <2>1, <2>2, StagesDescend DEF Current
<1>3. ASSUME NEW r \in Ranks, NEW w \in Workers PROVE WorkerCounts(r, w)'
  <2>1. n \in Nodes /\ KidsSlotted(r, n)
    BY <1>t, <1>2, KidsAreSlotted
  <2> QED BY <1>t, <2>1, EntryCounts
<1> QED BY <1>1, <1>3 DEF RegionCounts

\* The values of a function on a finite domain are finitely many, whatever their set is called.
LEMMA ValuesFinite ==
    ASSUME NEW S, IsFiniteSet(S), NEW T, NEW f \in [S -> T], \A y \in T : \E x \in S : f[x] = y
    PROVE  IsFiniteSet(T)
<1>1. f \in Surjection(S, T)
  BY DEF Surjection
<1> QED BY <1>1, FS_Surjection

\* Outside the regions the counts of the ranks stand with the counters.
LEMMA OutsideCounts ==
    ASSUME SweepInv, CounterShapes, RegionCounts,
           UNCHANGED <<route, layout, level, node, increments, contribution>>,
           \A q \in Ranks, c \in Nodes : ~ Current(c) => pool'[q][c] = pool[q][c],
           \A r \in Ranks : pc'[r] # "sweep",
           \A r \in Ranks :
               (pc'[r] = "vote" /\ solved'[r]) \/ pc'[r] \in {"gather", "insert", "metadata"} =>
               (pc[r] = "vote" /\ solved[r]) \/ pc[r] \in {"gather", "insert", "metadata"}
    PROVE  CounterShapes' /\ RegionCounts'
<1>1. ASSUME NEW r \in Ranks,
             (pc'[r] = "vote" /\ solved'[r]) \/ pc'[r] \in {"gather", "insert", "metadata"}
      PROVE  RankTotals(r)'
  <2>1. RankTotals(r) /\ pc[r] \notin {"exchange", "ok"}
    BY <1>1 DEF RegionCounts
  <2>2. /\ Node \in Nodes
        /\ \A i \in DOMAIN Children[Node] : pool'[r][Children[Node][i]] = pool[r][Children[Node][i]]
    <3>1. Placed
      BY DEF SweepInv, TypesInv, SweepTypes
    <3>2. Current(Node) /\ level \in Nat
      BY <2>1, <3>1, NodeAtHand, StagesDescend DEF Current, Placed
    <3> QED BY <3>2, LevelsApart
  <2> QED BY <2>1, <2>2, TotalsStand
<1>2. CounterShapes'
  BY DEF CounterShapes
<1> QED BY <1>1, <1>2 DEF RegionCounts

\* The counters of the cuts, and the slots they are of, stand with the pools behind and ahead.
LEMMA SlotsStand ==
    ASSUME UsesShape, PoolSlots, UNCHANGED <<level, uses>>,
           \A q \in Ranks, c \in Nodes : ~ Current(c) => pool'[q][c] = pool[q][c]
    PROVE  UsesShape' /\ PoolSlots'
<1>1. \A c : Current(c)' = Current(c)
  BY DEF Current, LevelNodes
<1>2. \A c \in Nodes : ~ Current(c) => pool'[0][c] = pool[0][c]
  BY RankZero
<1>3. UsesShape'
  BY <1>1, <1>2 DEF UsesShape
<1>4. PoolSlots'
  BY <1>1, <1>2 DEF PoolSlots
<1> QED BY <1>3, <1>4

\* The ranks' cuts for a node are finitely many.
LEMMA AllMineFinite ==
    ASSUME route \in Routes, NEW n
    PROVE  IsFiniteSet(AllMine(n))
<1>1. ASSUME NEW r \in Ranks PROVE IsFiniteSet(Mine(r, n))
  <2>1. PICK num \in Nat : num = Len(Routed(route, r, n))
    <3>1. r \in Nat  BY PassesPartition
    <3> QED BY <3>1, RoutedFacts
  <2>2. PICK S, f : /\ S = 0 .. num - 1
                    /\ f = [pos \in S |-> [fpi |-> VisitOffset(route, r, n) + pos,
                                           cut |-> CutFor(route, layout, Held(r, n), r, n, pos)]]
    OBVIOUS
  <2>3. IsFiniteSet(S)
    <3>1. PICK a \in Int, b \in Int : a = 0 /\ b = num - 1  OBVIOUS
    <3>2. IsFiniteSet(a .. b)
      BY ONLY FS_Interval, a \in Int, b \in Int
    <3> QED BY <2>2, <3>1, <3>2
  <2>4. f \in [S -> Mine(r, n)] /\ \A y \in Mine(r, n) : \E x \in S : f[x] = y
    BY <2>1, <2>2 DEF Mine, LocalOf
  <2> QED BY ONLY <2>3, <2>4, ValuesFinite
<1>2. PICK g : g = [r \in Ranks |-> Mine(r, n)]  OBVIOUS
<1>3. PICK C : \A T : T \in C <=> \E r \in Ranks : T = g[r]
  <2>1. \A T : T \in {g[r] : r \in Ranks} <=> \E r \in Ranks : T = g[r]  OBVIOUS
  <2> QED BY <2>1
<1>4. IsFiniteSet(C)
  <2>1. g \in [Ranks -> C] /\ (\A y \in C : \E r \in Ranks : g[r] = y) /\ IsFiniteSet(Ranks)
    BY <1>2, <1>3, RankZero
  <2> QED BY ONLY <2>1, ValuesFinite
<1>5. IsFiniteSet(UNION C)
  <2>1. \A T \in C : IsFiniteSet(T)  BY <1>1, <1>2, <1>3
  <2> QED BY ONLY <1>4, <2>1, FS_UNION
<1>6. AllMine(n) = UNION C
  <2>1. AllMine(n) = UNION {Mine(r, n) : r \in Ranks}
    BY DEF AllMine, AllCuts, HeldAll, Mine
  <2>2. C = {Mine(r, n) : r \in Ranks}  BY <1>2, <1>3
  <2> QED BY <2>1, <2>2
<1> QED BY <1>5, <1>6

\* A pool with finitely many numbered slots keeps so with finitely many cuts more.
LEMMA SlotsExtended ==
    ASSUME NEW n \in Nodes, NEW held, NEW cuts, Numbered(cuts), IsFiniteSet(cuts),
           IsFiniteSet(DOMAIN held), DOMAIN held \subseteq Nat, NEW f, f = WithCuts(held, n, cuts)
    PROVE  IsFiniteSet(DOMAIN f) /\ DOMAIN f \subseteq Nat
<1>1. \A s : s \in DOMAIN f <=> s \in DOMAIN held \/ \E c \in cuts : SlotIndex(n, Iteration, c.fpi) = s
  BY ONLY n \in Nodes, Numbered(cuts), f = WithCuts(held, n, cuts), WithCutsFacts
<1>2. PICK g : g = [c \in cuts |-> SlotIndex(n, Iteration, c.fpi)]  OBVIOUS
<1>6. PICK A, B : A = DOMAIN held /\ B = {g[c] : c \in cuts}  OBVIOUS
<1>3. IsFiniteSet(B)
  <2>1. g \in [cuts -> B] /\ \A y \in B : \E c \in cuts : g[c] = y
    BY <1>2, <1>6
  <2> QED BY ONLY <2>1, IsFiniteSet(cuts), ValuesFinite
<1>4. DOMAIN f = A \cup B  BY <1>1, <1>2, <1>6
<1>5. \A c \in cuts : SlotIndex(n, Iteration, c.fpi) \in Nat
  <2> SUFFICES ASSUME NEW c \in cuts PROVE SlotIndex(n, Iteration, c.fpi) \in Nat  OBVIOUS
  <2>1. PICK k \in Nat : k = c.fpi
    BY DEF Numbered
  <2>2. SlotIndex(n, Iteration, k) = VisitStride[n] + k /\ VisitStride[n] \in Nat
    BY SlotFacts
  <2> QED BY <2>1, <2>2
<1>7. IsFiniteSet(A \cup B)
  <2>1. IsFiniteSet(A) /\ IsFiniteSet(B)  BY <1>3, <1>6
  <2> QED BY ONLY <2>1, FS_Union
<1> QED BY <1>2, <1>4, <1>5, <1>6, <1>7

\* The slots before the sweep.
LEMMA OldSlots ==
    ASSUME NEW n \in Nodes
    PROVE  /\ IsFiniteSet(DOMAIN OldPool[n]) /\ DOMAIN OldPool[n] \subseteq Nat
           /\ ~ CutGenerating(n) => DOMAIN OldPool[n] = {}
<1>1. IsFiniteSet({}) /\ IsFiniteSet({0})
  BY FS_EmptySet, FS_Singleton
<1>2. DOMAIN OldPool[n] = IF CutGenerating(n) THEN {0} ELSE {}
  BY DEF OldPool
<1> QED BY <1>1, <1>2

\* Nothing is counted at first.
LEMMA InitCounts == Init => CountInv
<1> SUFFICES ASSUME Init PROVE CountInv  OBVIOUS
<1>1. /\ pool = [r \in Ranks |-> OldPool] /\ uses = [n \in Nodes |-> [s \in DOMAIN OldPool[n] |-> 0]]
      /\ \A r \in Ranks : pc[r] = "exchange"
      /\ increments = [r \in Ranks |-> [w \in Workers |-> << >>]]
      /\ contribution = [r \in Ranks |-> [w \in Workers |-> << >>]]
  BY DEF Init
<1>2. pool[0] = OldPool  BY <1>1, RankZero
<1>3. UsesShape
  BY <1>1, <1>2 DEF UsesShape
<1>4. PoolSlots
  BY <1>2, OldSlots DEF PoolSlots
<1>5. CounterShapes
  BY <1>1 DEF CounterShapes
<1>6. RegionCounts
  BY <1>1 DEF RegionCounts
<1> QED BY <1>3, <1>4, <1>5, <1>6 DEF CountInv

\* The reduction of a level's counts leaves every pool behind or ahead with as many counters as
\* slots.
LEMMA SyncSlots ==
    ASSUME SweepInv, PoolInv, CountInv, SyncMetadata
    PROVE  CountInv'
<1> USE DEF layoutVars, claimVars, workerVars, poolVars
<1>1. /\ \A r \in Ranks : pc[r] = "metadata"
      /\ UNCHANGED <<route, layout, node, pool, increments, contribution>>
      /\ \/ /\ level' = level + 1 /\ \A r \in Ranks : pc'[r] \in {"ok", "exchange"}
            /\ DOMAIN uses' = Nodes /\ \A c \in Nodes : DOMAIN uses'[c] = DOMAIN pool[0][c]
         \/ UNCHANGED <<level, uses>> /\ \A r \in Ranks : pc'[r] = "panicked"
  BY DEF SyncMetadata, AllAt
<1>2. UsesShape /\ PoolSlots /\ CounterShapes /\ Placed /\ route \in Routes
  BY DEF CountInv, SweepInv, TypesInv, SweepTypes, BufferInv
<1>3. level \in DOMAIN Levels /\ level \in Nat
  <2>1. level \in 1 .. Len(Levels)
    BY <1>1, <1>2, RankZero, NodeAtHand
  <2> QED BY <2>1, StagesDescend
<1>4. CounterShapes' /\ RegionCounts'
  <2>1. CounterShapes'
    BY <1>1, <1>2 DEF CounterShapes
  <2>2. \A r \in Ranks : pc'[r] \in {"ok", "exchange", "panicked"}
    BY <1>1
  <2> QED BY <2>1, <2>2 DEF RegionCounts
<1>5. ASSUME NEW c \in Nodes PROVE IsFiniteSet(DOMAIN pool[0][c]) /\ DOMAIN pool[0][c] \subseteq Nat
  <2>1. CASE ~ Current(c)
    BY <1>2, <2>1 DEF PoolSlots
  <2>2. CASE Current(c)
    <3>1. pool[0][c] = WithCuts(OldPool[c], c, AllMine(c))
      BY <1>1, <2>2, RankZero, SyncedPool
    <3>2. PICK held, cuts : held = OldPool[c] /\ cuts = AllMine(c)  OBVIOUS
    <3>3. Numbered(cuts) /\ IsFiniteSet(cuts) /\ IsFiniteSet(DOMAIN held) /\ DOMAIN held \subseteq Nat
      BY <1>2, <3>2, RankZero, MineNumbered, AllMineFinite, OldSlots
    <3>4. PICK f : f = WithCuts(held, c, cuts)  OBVIOUS
    <3>5. IsFiniteSet(DOMAIN f) /\ DOMAIN f \subseteq Nat
      BY ONLY c \in Nodes, <3>3, <3>4, SlotsExtended
    <3> QED BY <3>1, <3>2, <3>4, <3>5
  <2> QED BY <2>1, <2>2
<1>6. PoolSlots'
  BY <1>1, <1>5 DEF PoolSlots
<1>7. UsesShape'
  <2>1. CASE UNCHANGED <<level, uses>>
    BY <1>1, <1>2, <2>1, SlotsStand
  <2>2. CASE DOMAIN uses' = Nodes /\ \A c \in Nodes : DOMAIN uses'[c] = DOMAIN pool[0][c]
    BY <1>1, <2>2 DEF UsesShape
  <2> QED BY <1>1, <2>1, <2>2
<1> QED BY <1>4, <1>6, <1>7 DEF CountInv

\* Counters change nothing where they and all they rest on stand still.
LEMMA QuietCounts ==
    ASSUME CountInv, UNCHANGED vars
    PROVE  CountInv'
<1> USE DEF vars, layoutVars, claimVars, workerVars, poolVars
<1>1. \A c : Current(c)' = Current(c)
  BY DEF Current, LevelNodes
<1>2. Node' = Node
  BY DEF Node, LevelNodes
<1>3. UsesShape' /\ PoolSlots' /\ CounterShapes'
  BY <1>1 DEF CountInv, UsesShape, PoolSlots, CounterShapes
<1>4. ASSUME NEW r \in Ranks, pc[r] = "sweep", NEW w \in Workers PROVE WorkerCounts(r, w)'
  <2>1. WorkerCounts(r, w)
    BY <1>4 DEF CountInv, RegionCounts
  <2> QED BY <2>1, WorkerStands
<1>5. ASSUME NEW r \in Ranks, RankTotals(r) PROVE RankTotals(r)'
  <2>1. /\ \A i : RegionStart(r, Node, i)' = RegionStart(r, Node, i)
        /\ \A i : Slots(r, i)' = Slots(r, i)
    BY <1>2 DEF RegionStart, Populated, Slots
  <2>2. \A i, s : Place(r, i, s)' = Place(r, i, s)
    BY <1>2, <2>1 DEF Place
  <2>3. \A i, F : Shares(r, i, F)' <=> Shares(r, i, F)
    BY <1>2, <2>1, <2>2 DEF Shares
  <2> QED BY <1>2, <1>5, <2>3 DEF RankTotals
<1>6. RegionCounts'
  BY <1>4, <1>5 DEF CountInv, RegionCounts
<1> QED BY <1>3, <1>6 DEF CountInv

\* Every step keeps the counts.
LEMMA NextCounts == FullInv /\ CountInv /\ [Next]_vars => CountInv'
<1> SUFFICES ASSUME SweepInv, PoolInv, CountInv, [Next]_vars PROVE CountInv'
  BY DEF FullInv
<1> USE DEF layoutVars, claimVars, workerVars, poolVars
<1>t. /\ Placed /\ Together /\ DOMAIN pc = Ranks /\ UsesShape /\ PoolSlots /\ CounterShapes /\ RegionCounts
      /\ Placed'
  <2>1. SweepTypes'
    BY NextTypes DEF SweepInv
  <2> QED BY <2>1 DEF SweepInv, TypesInv, SweepTypes, ClaimInv, ClaimTypes, CountInv
<1>1. CASE ExchangeStates
  <2>1. /\ \A r \in Ranks : pc[r] = "exchange"
        /\ UNCHANGED <<route, layout, level, pool, uses>> /\ node' = 1
        /\ \/ pc' = [r \in Ranks |-> "sweep"] /\ StartNode(LevelNodes[1])
           \/ pc' = [r \in Ranks |-> "failed"] /\ UNCHANGED <<increments, contribution>>
    BY <1>1 DEF ExchangeStates, AllAt
  <2>2. UsesShape' /\ PoolSlots'  BY <1>t, <2>1, SlotsStand
  <2>3. CASE pc' = [r \in Ranks |-> "sweep"] /\ StartNode(LevelNodes[1])
    <3>1. PICK n : n = LevelNodes[1] /\ Node' = n
      BY <2>1 DEF Node, LevelNodes
    <3>2. \A r \in Ranks : pc[r] # "sweep" /\ pc'[r] = "sweep"
      BY <2>1, <2>3
    <3>3. CounterShapes' /\ RegionCounts'
      BY <1>t, <2>1, <2>3, <3>1, <3>2, EntersCounts
    <3> QED BY <2>2, <3>3 DEF CountInv
  <2>4. CASE pc' = [r \in Ranks |-> "failed"] /\ UNCHANGED <<increments, contribution>>
    <3>1. CounterShapes' /\ \A r \in Ranks : pc'[r] = "failed"
      BY <1>t, <2>4 DEF CounterShapes
    <3> QED BY <2>2, <3>1 DEF CountInv, RegionCounts
  <2> QED BY <2>1, <2>3, <2>4
<1>2. CASE Reconcile
  <2>1. /\ \A r \in Ranks : pc[r] = "vote"
        /\ UNCHANGED <<route, layout, level, pool, uses>>
        /\ \/ pc' = [r \in Ranks |-> "failed"] /\ UNCHANGED <<increments, contribution>>
           \/ pc' = [r \in Ranks |-> "sweep"] /\ StartNode(LevelNodes[node'])
           \/ /\ pc' = [r \in Ranks |-> "gather"] /\ UNCHANGED <<node, increments, contribution>>
              /\ \A r \in Ranks : solved[r]
    BY <1>2 DEF Reconcile, AllAt
  <2>2. UsesShape' /\ PoolSlots'  BY <1>t, <2>1, SlotsStand
  <2>3. CASE pc' = [r \in Ranks |-> "sweep"] /\ StartNode(LevelNodes[node'])
    <3>1. PICK n : n = LevelNodes[node'] /\ Node' = n
      BY <2>1 DEF Node, LevelNodes
    <3>2. \A r \in Ranks : pc[r] # "sweep" /\ pc'[r] = "sweep"
      BY <2>1, <2>3
    <3>3. CounterShapes' /\ RegionCounts'
      BY <1>t, <2>1, <2>3, <3>1, <3>2, EntersCounts
    <3> QED BY <2>2, <3>3 DEF CountInv
  <2>4. CASE pc' = [r \in Ranks |-> "failed"] /\ UNCHANGED <<increments, contribution>>
    <3>1. CounterShapes' /\ \A r \in Ranks : pc'[r] = "failed"
      BY <1>t, <2>4 DEF CounterShapes
    <3> QED BY <2>2, <3>1 DEF CountInv, RegionCounts
  <2>5. CASE /\ pc' = [r \in Ranks |-> "gather"] /\ UNCHANGED <<node, increments, contribution>>
             /\ \A r \in Ranks : solved[r]
    <3>1. CounterShapes' /\ RegionCounts'
      BY <1>t, <2>1, <2>5, OutsideCounts
    <3> QED BY <2>2, <3>1 DEF CountInv
  <2> QED BY <2>1, <2>3, <2>4, <2>5
<1>3. CASE Gather
  <2>1. /\ \A r \in Ranks : pc[r] = "gather" /\ pc'[r] = "insert"
        /\ UNCHANGED <<route, layout, level, node, pool, uses, increments, contribution>>
    BY <1>3 DEF Gather, AllAt
  <2>2. UsesShape' /\ PoolSlots'  BY <1>t, <2>1, SlotsStand
  <2>3. CounterShapes' /\ RegionCounts'
    BY <1>t, <2>1, OutsideCounts
  <2> QED BY <2>2, <2>3 DEF CountInv
<1>4. CASE SyncMetadata  BY <1>4, SyncSlots
<1>5. ASSUME NEW r \in Ranks, Finish(r) PROVE CountInv'
  <2>1. /\ UNCHANGED <<level, uses>>
        /\ \A q \in Ranks, c \in Nodes : ~ Current(c) => pool'[q][c] = pool[q][c]
    BY <1>5, FinishPools DEF Finish
  <2>2. UsesShape' /\ PoolSlots'  BY <1>t, <2>1, SlotsStand
  <2>3. CounterShapes' /\ RegionCounts'  BY <1>5, FinishCounts
  <2> QED BY <2>2, <2>3 DEF CountInv
<1>6. ASSUME NEW r \in Ranks, InsertRemote(r) PROVE CountInv'
  <2>1. /\ pc[r] = "insert" /\ pc' = [pc EXCEPT ![r] = "metadata"]
        /\ UNCHANGED <<route, layout, level, node, uses, increments, contribution>>
    BY <1>6 DEF InsertRemote
  <2>2. \A q \in Ranks, c \in Nodes : ~ Current(c) => pool'[q][c] = pool[q][c]
    BY <1>6, InsertPools
  <2>3. UsesShape' /\ PoolSlots'  BY <1>t, <2>1, <2>2, SlotsStand
  <2>4. \A q \in Ranks : pc[q] \in {"insert", "metadata"} /\ pc'[q] \in {"insert", "metadata"}
    BY <1>t, <2>1 DEF Together
  <2>5. CounterShapes' /\ RegionCounts'
    BY <1>t, <2>1, <2>2, <2>4, OutsideCounts
  <2> QED BY <2>3, <2>5 DEF CountInv
<1>7. ASSUME NEW r \in Ranks, NEW w \in Workers, Claim(r, w) \/ Solve(r, w) \/ FailSolve(r, w)
      PROVE  CountInv'
  <2>1. UNCHANGED <<level, uses, pool>>
    BY <1>7, Zenon DEF Claim, Solve, FailSolve
  <2>2. UsesShape' /\ PoolSlots'  BY <1>t, <2>1, SlotsStand
  <2>3. CounterShapes' /\ RegionCounts'
    BY <1>7, ClaimCounts, SolveCounts, FailCounts
  <2> QED BY <2>2, <2>3 DEF CountInv
<1>8. CASE UNCHANGED vars  BY <1>8, QuietCounts
<1> QED BY <1>1, <1>2, <1>3, <1>4, <1>5, <1>6, <1>7, <1>8 DEF Next, Terminated

----------------------------------------------------------------------------
(* The reduced counts *)

\* The completed parents of a node, before level l, and the solves its cuts take part in there.
ParentsBefore(c, l) == {n \in UNION {Range(Levels[k]) : k \in 1 .. l - 1} : c \in Range(Children[n])}
Solves(c, l) ==
    SumOver([n \in ParentsBefore(c, l) |-> Visits(route, n) * Openings[c]], ParentsBefore(c, l))

\* What a parent at some level says of the stage of its child.
LEMMA ParentStage ==
    ASSUME NEW c, NEW l \in 1 .. Len(Levels), NEW n \in Range(Levels[l]), c \in Range(Children[n])
    PROVE  n \in Nodes /\ c \in Nodes /\ StageOf[c] = LevelStage(l) + 1 /\ LevelStage(l) \in Nat
<1>1. /\ n \in Nodes /\ StageOf[n] = LevelStage(l) /\ StageOf[n] \in Nat
      /\ \A i \in DOMAIN Children[n] : Children[n][i] \in Nodes /\ StageOf[Children[n][i]] = StageOf[n] + 1
  BY LevelNodeFacts
<1>2. PICK i \in DOMAIN Children[n] : c = Children[n][i]
  BY DEF Range
<1> QED BY <1>1, <1>2

\* No level behind has a parent of a node of the level at hand, or of one of its children.
LEMMA NoParentsBefore ==
    ASSUME level \in 1 .. Len(Levels), NEW c,
           c \in Range(LevelNodes) \/ \E n \in Range(LevelNodes) : c \in Range(Children[n])
    PROVE  ParentsBefore(c, level) = {}
<1> SUFFICES ASSUME NEW m \in ParentsBefore(c, level) PROVE FALSE  OBVIOUS
<1>1. PICK k \in 1 .. level - 1 : m \in Range(Levels[k]) /\ c \in Range(Children[m])
  BY DEF ParentsBefore
<1>2. k \in 1 .. Len(Levels) /\ k < level
  <2>1. PICK len \in Nat : len = Len(Levels)  BY StagesDescend
  <2> QED BY <2>1
<1>3. StageOf[c] = LevelStage(k) + 1 /\ LevelStage(k) \in Nat
  BY <1>1, <1>2, ParentStage
<1>4. LevelStage(level) < LevelStage(k) /\ LevelStage(level) \in Nat
  BY <1>2, StagesDescend
<1>5. CASE c \in Range(LevelNodes)
  <2>1. StageOf[c] = LevelStage(level)
    BY <1>5, LevelNodeFacts DEF LevelNodes
  <2> QED BY <1>3, <1>4, <2>1
<1>6. CASE \E n \in Range(LevelNodes) : c \in Range(Children[n])
  <2>1. StageOf[c] = LevelStage(level) + 1
    BY <1>6, ParentStage DEF LevelNodes
  <2> QED BY <1>3, <1>4, <2>1
<1> QED BY <1>5, <1>6

\* With a level behind, the parents there count too.
LEMMA ParentsGrow ==
    ASSUME level \in 1 .. Len(Levels), NEW c
    PROVE  ParentsBefore(c, level + 1) =
             ParentsBefore(c, level) \cup {n \in Range(LevelNodes) : c \in Range(Children[n])}
<1>1. 1 .. (level + 1) - 1 = (1 .. level - 1) \cup {level}
  <2>1. PICK len \in Nat : len = Len(Levels)  BY StagesDescend
  <2> QED BY <2>1
<1> QED BY <1>1 DEF ParentsBefore, LevelNodes

\* A sum of one number.
LEMMA SingleSum ==
    ASSUME NEW f, NEW x, f[x] \in Int
    PROVE  SumOver(f, {x}) = f[x]
<1>1. PICK S : S = {} /\ IsFiniteSet(S) /\ x \notin S /\ \A y \in S \cup {x} : f[y] \in Int
  BY FS_EmptySet
<1>2. SumOver(f, S \cup {x}) = SumOver(f, S) + f[x]
  BY ONLY <1>1, SumExtends
<1>3. SumOver(f, S) = 0  BY <1>1, EmptySum
<1>4. PICK T : T = S \cup {x}  OBVIOUS
<1>5. T = {x}  BY <1>1, <1>4
<1>6. SumOver(f, T) = f[x]  BY <1>2, <1>3, <1>4
<1> QED BY <1>5, <1>6

\* The children of the deepest level have no cut, hence no slot.
LEMMA LeavesAreBare ==
    ASSUME SweepInv, PoolInv, level = 1, 1 \in 1 .. Len(Levels), NEW n \in Range(LevelNodes),
           NEW c \in Range(Children[n])
    PROVE  DOMAIN pool[0][c] = {}
<1>1. c \in Nodes /\ StageOf[c] = LevelStage(1) + 1 /\ LevelStage(1) \in Nat
  BY ParentStage DEF LevelNodes
<1>2. \A l \in 1 .. Len(Levels) : LevelStage(l) <= LevelStage(1)
  <2> SUFFICES ASSUME NEW l \in 1 .. Len(Levels) PROVE LevelStage(l) <= LevelStage(1)
    OBVIOUS
  <2>1. LevelStage(l) \in Nat /\ LevelStage(1) \in Nat /\ (1 < l => LevelStage(l) < LevelStage(1))
    BY StagesDescend
  <2>2. l = 1 \/ 1 < l
    <3>1. PICK len \in Nat : len = Len(Levels)  BY StagesDescend
    <3> QED BY <3>1
  <2> QED BY <2>1, <2>2
<1>3. ~ CutGenerating(c)
  <2> SUFFICES ASSUME CutGenerating(c) PROVE FALSE  OBVIOUS
  <2>1. StageOf[c] \in CutStages
    BY <1>1 DEF CutStages
  <2>2. PICK l \in 1 .. Len(Levels) : LevelStage(l) = StageOf[c]
    BY <2>1, StagesDescend
  <2> QED BY <1>1, <1>2, <2>2
<1>4. ~ Completed(c) /\ ~ Current(c)
  <2>1. ~ Completed(c)
    BY DEF Completed
  <2>2. ~ Current(c)
    <3>1. \A x \in Range(LevelNodes) : CutGenerating(x)
      BY LevelNodeFacts DEF LevelNodes
    <3> QED BY <1>3, <3>1 DEF Current
  <2> QED BY <2>1, <2>2
<1>5. pool[0][c] = OldPool[c]
  BY <1>1, <1>4, RankZero DEF PoolInv, LaterPools
<1> QED BY <1>1, <1>3, <1>5, OldSlots

\* Every visit of a node is some rank's, and no two ranks'.
LEMMA VisitsOfRanks ==
    ASSUME NEW rt, DOMAIN rt = 0 .. TotalPasses - 1, NEW n
    PROVE  /\ UNION {Visitors(rt, n, PassesOf(r)) : r \in Ranks} = Visitors(rt, n, 0 .. TotalPasses - 1)
           /\ \A q, r \in Ranks : q # r => Visitors(rt, n, PassesOf(q)) \cap Visitors(rt, n, PassesOf(r)) = {}
           /\ IsFiniteSet(Visitors(rt, n, 0 .. TotalPasses - 1))
           /\ Cardinality(Visitors(rt, n, 0 .. TotalPasses - 1)) = Visits(rt, n)
<1>1. /\ \A r \in Ranks : PassesOf(r) \subseteq 0 .. TotalPasses - 1
      /\ \A g \in 0 .. TotalPasses - 1 : \E r \in Ranks : g \in PassesOf(r)
      /\ \A q, r \in Ranks : PassesOf(q) \cap PassesOf(r) # {} => q = r
  BY PassesPartition
<1>2. UNION {Visitors(rt, n, PassesOf(r)) : r \in Ranks} = Visitors(rt, n, 0 .. TotalPasses - 1)
  BY <1>1 DEF Visitors
<1>3. ASSUME NEW q \in Ranks, NEW r \in Ranks, q # r
      PROVE  Visitors(rt, n, PassesOf(q)) \cap Visitors(rt, n, PassesOf(r)) = {}
  BY <1>1, <1>3 DEF Visitors
<1>4. IsFiniteSet(Visitors(rt, n, 0 .. TotalPasses - 1))
  <2>1. PICK a \in Int, b \in Int : a = 0 /\ b = TotalPasses - 1
    BY LayoutAssumption
  <2>2. IsFiniteSet(a .. b)
    BY ONLY FS_Interval, a \in Int, b \in Int
  <2>3. Visitors(rt, n, a .. b) \in SUBSET (a .. b)
    BY DEF Visitors
  <2>4. PICK S, T : S = a .. b /\ T = Visitors(rt, n, a .. b)  OBVIOUS
  <2>5. IsFiniteSet(T)
    <3>1. IsFiniteSet(S) /\ T \in SUBSET S  BY <2>2, <2>3, <2>4
    <3> QED BY ONLY <3>1, FS_Subset
  <2> QED BY <2>1, <2>4, <2>5
<1>5. Visitors(rt, n, 0 .. TotalPasses - 1) = {g \in DOMAIN rt : n \in rt[g]}
  BY DEF Visitors
<1> QED BY <1>2, <1>3, <1>4, <1>5 DEF Visits

\* The outcomes of a child are as many as its openings.
LEMMA ChildRangeCounted ==
    ASSUME NEW n \in Nodes, NEW i \in DOMAIN Children[n]
    PROVE  IsFiniteSet(ChildRange(n, i)) /\ Cardinality(ChildRange(n, i)) = Openings[Children[n][i]]
<1>1. PICK o \in Nat \ {0}, a \in Nat, b \in Nat :
          /\ o = Openings[Children[n][i]] /\ a = OutcomeStart(n, i) /\ b = OutcomeStart(n, i + 1)
          /\ b = a + o
  BY ChildOutcomes
<1>2. PICK lo \in Int, hi \in Int : lo = a /\ hi = b - 1  OBVIOUS
<1>3. IsFiniteSet(lo .. hi) /\ Cardinality(lo .. hi) = IF lo > hi THEN 0 ELSE hi - lo + 1
  BY ONLY FS_Interval, lo \in Int, hi \in Int
<1>4. Cardinality(lo .. hi) = o
  <2>1. ~ (lo > hi) /\ (hi - lo) + 1 = o  BY <1>1, <1>2
  <2>2. hi - lo + 1 = (hi - lo) + 1  OBVIOUS
  <2> QED BY <1>3, <2>1, <2>2
<1> QED BY <1>1, <1>2, <1>3, <1>4 DEF ChildRange

\* What the ranks reduce for a child of the level's last node counts each visit of the node and
\* each opening of the child once.
LEMMA ReducedCounts ==
    ASSUME SweepInv, PoolInv, CountInv, \A r \in Ranks : pc[r] = "metadata",
           NEW i \in DOMAIN Children[Node], NEW s \in DOMAIN pool[0][Children[Node][i]]
    PROVE  Reduced(Node, i, s) = Visits(route, Node) * Openings[Children[Node][i]]
<1>t. /\ Placed /\ PoolSlots /\ RegionCounts /\ DOMAIN route = 0 .. TotalPasses - 1
  BY DEF SweepInv, TypesInv, SweepTypes, CountInv, BufferInv, Routes
<1>1. PICK n, c : n = Node /\ c = Children[n][i]  OBVIOUS
<1>2. /\ n \in Nodes /\ i \in DOMAIN Children[n]
      /\ \A r \in Ranks : pool[r][c] = pool[0][c]
  <2>1. Current(Node)
    BY <1>t, RankZero, NodeAtHand, StagesDescend DEF Current
  <2>2. n \in Nodes  BY <1>1, <1>t, <2>1, RankZero, KidsAreSlotted
  <2>3. ASSUME NEW r \in Ranks PROVE pool[r][c] = pool[0][c]
    <3>1. \A j \in DOMAIN Children[n] : pool[r][Children[n][j]] = pool[0][Children[n][j]]
      BY <1>1, <1>t, <2>1, KidsAreSlotted
    <3> QED BY <1>1, <3>1
  <2> QED BY <1>1, <2>2, <2>3
<1>3. PICK G : G = [r \in Ranks |-> CHOOSE F : Shares(r, i, F)]  OBVIOUS
<1>4. \A r \in Ranks : Shares(r, i, G[r])
  <2>1. \A r \in Ranks : \E F : Shares(r, i, F)
    BY <1>t DEF RegionCounts, RankTotals
  <2> QED BY <1>3, <2>1
<1>5. PICK S, F, f : /\ S = Ranks \X Workers
                     /\ F = [p \in S |-> G[p[1]][p[2]]]
                     /\ f = [p \in S |-> contribution[p[1]][p[2]][RegionStart(p[1], n, i) + s]]
  OBVIOUS
<1>6. IsFiniteSet(S)
  <2>1. PICK A, B : A = Ranks /\ B = Workers  OBVIOUS
  <2>2. IsFiniteSet(A) /\ IsFiniteSet(B)
    <3>1. PICK a \in Int, b \in Int : a = 1 /\ b = NWorkers
      BY LayoutAssumption
    <3>2. IsFiniteSet(a .. b)
      BY ONLY FS_Interval, a \in Int, b \in Int
    <3> QED BY <2>1, <3>1, <3>2, RankZero DEF Workers
  <2>3. IsFiniteSet(A \X B)  BY ONLY <2>2, FS_Product
  <2> QED BY <1>5, <2>1, <2>3
<1>7. \A p \in S : IsFiniteSet(F[p]) /\ f[p] = Cardinality(F[p])
  <2> SUFFICES ASSUME NEW r \in Ranks, NEW w \in Workers
               PROVE  /\ IsFiniteSet(G[r][w])
                      /\ contribution[r][w][RegionStart(r, n, i) + s] = Cardinality(G[r][w])
    BY <1>5
  <2>1. s \in Slots(r, i) /\ Place(r, i, s) = RegionStart(r, n, i) + s
    BY <1>1, <1>2 DEF Slots, Place
  <2> QED BY <1>4, <2>1 DEF Shares
<1>8. \A p, q \in S : p # q => F[p] \cap F[q] = {}
  <2> SUFFICES ASSUME NEW q \in Ranks, NEW v \in Workers, NEW r \in Ranks, NEW w \in Workers,
                      <<q, v>> # <<r, w>>
               PROVE  G[q][v] \cap G[r][w] = {}
    BY <1>5
  <2>1. CASE q = r
    BY <1>4, <2>1 DEF Shares
  <2>2. CASE q # r
    <3>1. Visitors(route, n, PassesOf(q)) \cap Visitors(route, n, PassesOf(r)) = {}
      BY <1>t, <2>2, VisitsOfRanks
    <3>2. /\ G[q][v] \subseteq Visitors(route, n, PassesOf(q)) \X ChildRange(n, i)
          /\ G[r][w] \subseteq Visitors(route, n, PassesOf(r)) \X ChildRange(n, i)
      BY <1>1, <1>4 DEF Shares
    <3> QED BY <3>1, <3>2
  <2> QED BY <2>1, <2>2
<1>9. UNION {F[p] : p \in S} = Visitors(route, n, 0 .. TotalPasses - 1) \X ChildRange(n, i)
  <2>1. UNION {F[p] : p \in S} = UNION {UNION {G[r][w] : w \in Workers} : r \in Ranks}
    <3>1. \A r \in Ranks, w \in Workers : <<r, w>> \in S /\ F[<<r, w>>] = G[r][w]
      BY <1>5
    <3>2. \A p \in S : p[1] \in Ranks /\ p[2] \in Workers /\ F[p] = G[p[1]][p[2]]
      BY <1>5
    <3>5. \A y : y \in UNION {F[p] : p \in S} <=> \E p \in S : y \in F[p]  OBVIOUS
    <3>6. \A y : (\E p \in S : y \in F[p]) => \E r \in Ranks, w \in Workers : y \in G[r][w]
      BY <3>2
    <3>7. \A y : (\E r \in Ranks, w \in Workers : y \in G[r][w]) => \E p \in S : y \in F[p]
      BY <3>1
    <3>3. \A y : y \in UNION {F[p] : p \in S} <=> \E r \in Ranks, w \in Workers : y \in G[r][w]
      BY <3>5, <3>6, <3>7
    <3>4. \A y : y \in UNION {UNION {G[r][w] : w \in Workers} : r \in Ranks}
                   <=> \E r \in Ranks, w \in Workers : y \in G[r][w]
      OBVIOUS
    <3> QED BY <3>3, <3>4
  <2>2. \A r \in Ranks : UNION {G[r][w] : w \in Workers} = Visitors(route, n, PassesOf(r)) \X ChildRange(n, i)
    BY <1>1, <1>4 DEF Shares
  <2>3. UNION {Visitors(route, n, PassesOf(r)) : r \in Ranks} = Visitors(route, n, 0 .. TotalPasses - 1)
    BY <1>t, VisitsOfRanks
  <2>4. PICK V, C : /\ V = [r \in Ranks |-> Visitors(route, n, PassesOf(r))] /\ C = ChildRange(n, i)
    OBVIOUS
  <2>5. UNION {UNION {G[r][w] : w \in Workers} : r \in Ranks} = UNION {V[r] \X C : r \in Ranks}
    BY <2>2, <2>4
  <2>6. UNION {V[r] \X C : r \in Ranks} = (UNION {V[r] : r \in Ranks}) \X C  OBVIOUS
  <2>7. UNION {V[r] : r \in Ranks} = Visitors(route, n, 0 .. TotalPasses - 1)
    BY <2>3, <2>4
  <2> QED BY <2>1, <2>4, <2>5, <2>6, <2>7
<1>10. SumOver(f, S) = Cardinality(UNION {F[p] : p \in S})
  <2>1. PICK T : \A y : y \in T <=> \E p \in S : y \in F[p]
    <3>1. \A y : y \in UNION {F[p] : p \in S} <=> \E p \in S : y \in F[p]  OBVIOUS
    <3> QED BY <3>1
  <2>2. IsFiniteSet(T) /\ SumOver(f, S) = Cardinality(T)
    <3>1. Parted(S, F, f, T)
      BY <1>7, <1>8, <2>1 DEF Parted
    <3> QED BY ONLY <1>6, <3>1, CountsAddUp
  <2>3. T = UNION {F[p] : p \in S}  BY <2>1
  <2> QED BY <2>2, <2>3
<1>11. Cardinality(Visitors(route, n, 0 .. TotalPasses - 1) \X ChildRange(n, i)) =
           Visits(route, n) * Openings[c]
  <2>1. PICK A, B : A = Visitors(route, n, 0 .. TotalPasses - 1) /\ B = ChildRange(n, i)
    OBVIOUS
  <2>2. /\ IsFiniteSet(A) /\ Cardinality(A) = Visits(route, n)
        /\ IsFiniteSet(B) /\ Cardinality(B) = Openings[c]
    BY <1>1, <1>2, <1>t, <2>1, VisitsOfRanks, ChildRangeCounted
  <2>3. Cardinality(A \X B) = Cardinality(A) * Cardinality(B)
    BY ONLY <2>2, FS_Product
  <2> QED BY <2>1, <2>2, <2>3
<1>12. Reduced(n, i, s) = SumOver(f, S)
  BY <1>5 DEF Reduced
<1> QED BY <1>1, <1>9, <1>10, <1>11, <1>12

\* From the second level on each has one node, and no node has a child twice.
LoneLevels == \A l \in 2 .. Len(Levels) : Len(Levels[l]) = 1
ChildrenDiffer == \A n \in Nodes : IsInjective(Children[n])

\* A level of one node has the node at hand only.
LEMMA LoneNode ==
    ASSUME LoneLevels, Placed, 0 \in Ranks, pc[0] = "metadata", level # 1, NEW n \in Range(LevelNodes)
    PROVE  n = Node
<1>1. /\ level \in 1 .. Len(Levels) /\ node \in DOMAIN LevelNodes
  BY NodeAtHand
<1>2. level \in 2 .. Len(Levels)
  <2>1. PICK len \in Nat : len = Len(Levels)  BY StagesDescend
  <2> QED BY <1>1, <2>1
<1>3. Len(LevelNodes) = 1 /\ DOMAIN LevelNodes = 1 .. Len(LevelNodes)
  BY <1>1, <1>2, LevelFacts DEF LoneLevels, LevelNodes
<1>4. DOMAIN LevelNodes = {1}  BY <1>3
<1>5. PICK k \in DOMAIN LevelNodes : n = LevelNodes[k]
  BY DEF Range
<1> QED BY <1>1, <1>4, <1>5 DEF Node

\* A node without a parent in the level has none to reduce, one with a lone parent that one.
LEMMA ParentsOfLevel ==
    ASSUME level \in 1 .. Len(Levels), NEW c
    PROVE  /\ (\A n \in Range(LevelNodes) : c \notin Range(Children[n])) => Parents(c) = {}
           /\ \A n : /\ n \in Range(LevelNodes) /\ c \in Range(Children[n]) /\ ChildrenDiffer
                     /\ \A m \in Range(LevelNodes) : m = n
                     => \E i \in DOMAIN Children[n] : c = Children[n][i] /\ Parents(c) = {<<n, i>>}
<1>1. ASSUME \A n \in Range(LevelNodes) : c \notin Range(Children[n]) PROVE Parents(c) = {}
  BY <1>1 DEF Parents, Range
<1>2. ASSUME NEW n, n \in Range(LevelNodes), c \in Range(Children[n]), ChildrenDiffer,
             \A m \in Range(LevelNodes) : m = n
      PROVE  \E i \in DOMAIN Children[n] : c = Children[n][i] /\ Parents(c) = {<<n, i>>}
  <2>1. PICK i \in DOMAIN Children[n] : c = Children[n][i]
    BY <1>2 DEF Range
  <2>2. n \in Nodes
    BY <1>2, LevelNodeFacts DEF LevelNodes
  <2>3. PICK K \in Nat : K = Len(Children[n]) /\ DOMAIN Children[n] = 1 .. K
                         /\ \A j \in 1 .. K : Children[n][j] \in Nodes
    <3>1. PICK K : K = Len(Children[n])  OBVIOUS
    <3>2. K \in Nat /\ DOMAIN Children[n] = 1 .. K
      BY <2>2, <3>1, OutcomeFacts
    <3>3. \A j \in DOMAIN Children[n] : Children[n][j] \in Nodes
      BY <2>2, ChildOutcomes
    <3> QED BY <3>1, <3>2, <3>3
  <2>4. \A j, k \in 1 .. K : Children[n][j] = Children[n][k] => j = k
    BY <1>2, <2>2, <2>3 DEF ChildrenDiffer, IsInjective
  <2>5. PICK m \in Nat : m = Cardinality(Nodes) /\ K <= m
    <3>1. PICK f, T : f = [k \in 1 .. K |-> Children[n][k]] /\ T = {Children[n][k] : k \in 1 .. K}
      OBVIOUS
    <3>2. f = [k \in 1 .. K |-> f[k]] /\ (\A k, l \in 1 .. K : f[k] = f[l] => k = l)
          /\ \A y : y \in T <=> \E k \in 1 .. K : f[k] = y
      BY <2>4, <3>1
    <3>3. IsFiniteSet(T) /\ Cardinality(T) = K
      BY ONLY K \in Nat, <3>2, ValuesCounted
    <3>4. T \in SUBSET Nodes /\ IsFiniteSet(Nodes)
      BY <2>3, <3>1, GraphAssumption
    <3>5. Cardinality(T) <= Cardinality(Nodes) /\ Cardinality(Nodes) \in Nat
      BY ONLY <3>4, FS_Subset, FS_CardinalityType
    <3> QED BY <3>3, <3>5
  <2>6. i \in 1 .. Cardinality(Nodes)  BY <2>1, <2>3, <2>5
  <2>7. \A p \in Parents(c) : p = <<n, i>>
    <3> SUFFICES ASSUME NEW p \in Parents(c) PROVE p = <<n, i>>  OBVIOUS
    <3>1. /\ p = <<p[1], p[2]>> /\ p[1] \in Range(LevelNodes) /\ p[2] \in DOMAIN Children[p[1]]
          /\ Children[p[1]][p[2]] = c
      BY DEF Parents
    <3>2. p[1] = n  BY <1>2, <3>1
    <3>3. p[2] = i  BY <2>1, <2>3, <2>4, <3>1, <3>2
    <3> QED BY <3>1, <3>2, <3>3
  <2>8. <<n, i>> \in Parents(c)
    BY <1>2, <2>1, <2>6 DEF Parents
  <2> QED BY <2>1, <2>7, <2>8
<1> QED BY <1>1, <1>2

\* What the completed parents' visits come to is a number.
LEMMA SolvesType ==
    ASSUME level \in 1 .. Len(Levels), DOMAIN route = 0 .. TotalPasses - 1, NEW c \in Nodes
    PROVE  Solves(c, level) \in Int
<1>1. PICK S, f : /\ S = ParentsBefore(c, level)
                  /\ f = [n \in S |-> Visits(route, n) * Openings[c]]
  OBVIOUS
<1>2. S \in SUBSET Nodes
  <2> SUFFICES ASSUME NEW n \in S PROVE n \in Nodes  OBVIOUS
  <2>1. PICK l \in 1 .. level - 1 : n \in Range(Levels[l])
    BY <1>1 DEF ParentsBefore
  <2>2. l \in 1 .. Len(Levels)
    <3>1. PICK len \in Nat : len = Len(Levels)  BY StagesDescend
    <3> QED BY <3>1
  <2> QED BY <2>1, <2>2, LevelNodeFacts
<1>3. IsFiniteSet(S)  BY <1>2, GraphAssumption, FS_Subset
<1>4. \A n \in S : f[n] \in Int
  <2> SUFFICES ASSUME NEW n \in S PROVE f[n] \in Int  OBVIOUS
  <2>1. PICK v \in Nat : v = Visits(route, n)
    BY VisitsOfRanks, FS_CardinalityType
  <2>2. Openings[c] \in Nat  BY OrderAssumption
  <2> QED BY <1>1, <2>1, <2>2
<1>5. SumOver(f, S) \in Int  BY ONLY <1>3, <1>4, SumType
<1> QED BY <1>1, <1>5 DEF Solves

\* The reduction of a level records for each slot what its pool took part in.
LEMMA SyncBindings ==
    ASSUME LoneLevels, ChildrenDiffer, SweepInv, PoolInv, CountInv, BindingLandsInOwnPool,
           SyncMetadata, level' = level + 1
    PROVE  BindingLandsInOwnPool'
<1> USE DEF layoutVars, claimVars, workerVars, poolVars
<1>1. /\ \A r \in Ranks : pc[r] = "metadata"
      /\ UNCHANGED <<route, layout, node, pool>>
  BY DEF SyncMetadata, AllAt
<1>2. /\ UsesShape /\ Placed /\ DOMAIN route = 0 .. TotalPasses - 1 /\ 0 \in Ranks
      /\ level \in 1 .. Len(Levels) /\ level \in Nat /\ level \in DOMAIN Levels
  <2>1. UsesShape /\ Placed /\ DOMAIN route = 0 .. TotalPasses - 1 /\ 0 \in Ranks
    BY RankZero DEF CountInv, SweepInv, TypesInv, SweepTypes, BufferInv, Routes
  <2>2. level \in 1 .. Len(Levels)  BY <1>1, <2>1, NodeAtHand
  <2> QED BY <2>1, <2>2, StagesDescend
<1>3. uses' = [c \in Nodes |-> [s \in DOMAIN pool[0][c] |->
                  (IF s \in DOMAIN uses[c] THEN uses[c][s] ELSE 0)
                  + SumOver([p \in Parents(c) |-> Reduced(p[1], p[2], s)], Parents(c))]]
  <2>1. level' # level  BY <1>2
  <2> QED BY <2>1 DEF SyncMetadata
<1>4. SUFFICES ASSUME NEW c \in Nodes, NEW s \in DOMAIN pool[0][c]
               PROVE  uses'[c][s] = Solves(c, level + 1)
  <2>1. /\ \A c \in Nodes : DOMAIN uses'[c] = DOMAIN pool[0][c]
        /\ \A c : Solves(c, level)' = Solves(c, level + 1)
    BY <1>1, <1>3 DEF Solves, ParentsBefore
  <2> QED BY <2>1, <1>4 DEF BindingLandsInOwnPool, Solves, ParentsBefore
<1>5. /\ s \in DOMAIN uses[c] => uses[c][s] = Solves(c, level)
      /\ ~ Current(c) => s \in DOMAIN uses[c]
  BY <1>2 DEF BindingLandsInOwnPool, Solves, ParentsBefore, UsesShape
<1>6. PICK old, more : /\ old = IF s \in DOMAIN uses[c] THEN uses[c][s] ELSE 0
                       /\ more = SumOver([p \in Parents(c) |-> Reduced(p[1], p[2], s)], Parents(c))
                       /\ uses'[c][s] = old + more
  BY <1>3
<1>7. ASSUME ParentsBefore(c, level) = {} PROVE Solves(c, level) = 0
  BY <1>7, EmptySum DEF Solves
<1>8. CASE \A n \in Range(LevelNodes) : c \notin Range(Children[n])
  <2>1. Parents(c) = {}  BY <1>2, <1>8, ParentsOfLevel
  <2>2. more = 0  BY <1>6, <2>1, EmptySum
  <2>3. ParentsBefore(c, level + 1) = ParentsBefore(c, level)
    BY <1>2, <1>8, ParentsGrow
  <2>4. Solves(c, level + 1) = Solves(c, level)
    BY <2>3 DEF Solves
  <2>5. old = Solves(c, level) /\ Solves(c, level) \in Int
    <3>1. CASE s \in DOMAIN uses[c]
      <4>1. old = Solves(c, level)  BY <1>5, <1>6, <3>1
      <4> QED BY <1>2, <4>1, SolvesType
    <3>2. CASE s \notin DOMAIN uses[c]
      <4>1. c \in Range(LevelNodes)
        BY <1>5, <3>2 DEF Current
      <4> QED BY <1>2, <1>6, <1>7, <3>2, <4>1, NoParentsBefore
    <3> QED BY <3>1, <3>2
  <2> QED BY <1>6, <2>2, <2>4, <2>5
<1>9. ASSUME NEW n \in Range(LevelNodes), c \in Range(Children[n])
      PROVE  uses'[c][s] = Solves(c, level + 1)
  <2>1. ParentsBefore(c, level) = {}
    BY <1>2, <1>9, NoParentsBefore
  <2>2. /\ n \in Nodes /\ ~ Current(c)
    <3>1. Current(n)
      BY <1>2 DEF Current
    <3>2. PICK i \in DOMAIN Children[n] : c = Children[n][i]
      BY <1>9 DEF Range
    <3> QED BY <1>2, <3>1, <3>2, LevelsApart
  <2>3. old = 0  BY <1>5, <1>6, <1>7, <2>1, <2>2
  <2>4. level # 1
    <3> SUFFICES ASSUME level = 1 PROVE FALSE  OBVIOUS
    <3>1. DOMAIN pool[0][c] = {}  BY <1>2, <1>9, LeavesAreBare
    <3> QED BY <1>4, <3>1
  <2>5. n = Node /\ \A m \in Range(LevelNodes) : m = n
    BY <1>1, <1>2, <2>4, LoneNode
  <2>6. PICK i \in DOMAIN Children[n] : c = Children[n][i] /\ Parents(c) = {<<n, i>>}
    BY <1>2, <1>9, <2>5, ParentsOfLevel
  <2>7. PICK v \in Nat : v = Visits(route, n) * Openings[c]
    <3>1. Visits(route, n) \in Nat
      BY <1>2, VisitsOfRanks, FS_CardinalityType
    <3>2. Openings[c] \in Nat  BY OrderAssumption
    <3> QED BY <3>1, <3>2
  <2>8. Reduced(n, i, s) = v
    BY <1>1, <1>4, <2>5, <2>6, <2>7, ReducedCounts
  <2>9. more = v
    <3>1. PICK f, x : f = [p \in Parents(c) |-> Reduced(p[1], p[2], s)] /\ x = <<n, i>>
      OBVIOUS
    <3>2. f[x] = v  BY <2>6, <2>8, <3>1
    <3>3. SumOver(f, {x}) = f[x]  BY <2>7, <3>2, SingleSum
    <3> QED BY <1>6, <2>6, <3>1, <3>2, <3>3
  <2>10. Solves(c, level + 1) = v
    <3>1. ParentsBefore(c, level + 1) = {n}
      <4>1. {m \in Range(LevelNodes) : c \in Range(Children[m])} = {n}
        BY <1>9, <2>5
      <4> QED BY <1>2, <2>1, <4>1, ParentsGrow
    <3>2. PICK f : f = [m \in ParentsBefore(c, level + 1) |-> Visits(route, m) * Openings[c]]
      OBVIOUS
    <3>3. f[n] = v  BY <2>7, <3>1, <3>2
    <3>4. SumOver(f, {n}) = f[n]
      <4>1. f[n] \in Int  BY <2>7, <3>3
      <4> QED BY ONLY <4>1, SingleSum
    <3> QED BY <3>1, <3>2, <3>3, <3>4 DEF Solves
  <2> QED BY <1>6, <2>3, <2>7, <2>9, <2>10
<1> QED BY <1>8, <1>9

\* What is recorded stands still but in the exchange of the metadata.
LEMMA BindingsStand ==
    ASSUME BindingLandsInOwnPool, UNCHANGED <<route, level, uses>>
    PROVE  BindingLandsInOwnPool'
BY DEF BindingLandsInOwnPool

\* Nothing is recorded at first.
LEMMA InitBindings == Init => BindingLandsInOwnPool
<1> SUFFICES ASSUME Init, NEW c \in Nodes, NEW s \in DOMAIN uses[c] PROVE uses[c][s] = Solves(c, level)
  BY DEF BindingLandsInOwnPool, Solves, ParentsBefore
<1>1. uses[c][s] = 0
  BY DEF Init
<1>2. ParentsBefore(c, level) = {}
  <2>1. level = 1
    BY DEF Init
  <2> QED BY <2>1 DEF ParentsBefore
<1>3. Solves(c, level) = 0
  BY <1>2, EmptySum DEF Solves
<1> QED BY <1>1, <1>3

\* Every step keeps what is recorded true.
LEMMA NextBindings ==
    ASSUME LoneLevels, ChildrenDiffer, FullInv, CountInv, BindingLandsInOwnPool, [Next]_vars
    PROVE  BindingLandsInOwnPool'
<1> USE DEF layoutVars, claimVars, workerVars, poolVars
<1>1. CASE SyncMetadata
  <2>1. CASE level' = level + 1
    BY <1>1, <2>1, SyncBindings DEF FullInv
  <2>2. CASE level' # level + 1
    <3>1. UNCHANGED <<route, level, uses>>
      BY <1>1, <2>2 DEF SyncMetadata
    <3> QED BY <3>1, BindingsStand
  <2> QED BY <2>1, <2>2
<1>2. CASE UNCHANGED <<route, level, uses>>
  BY <1>2, BindingsStand
<1>3. CASE ExchangeStates \/ Reconcile \/ Gather
  BY <1>2, <1>3 DEF ExchangeStates, Reconcile, Gather
<1>4. ASSUME NEW r \in Ranks, Finish(r) \/ InsertRemote(r) PROVE BindingLandsInOwnPool'
  BY <1>2, <1>4 DEF Finish, InsertRemote
<1>5. ASSUME NEW r \in Ranks, NEW w \in Workers, Claim(r, w) \/ Solve(r, w) \/ FailSolve(r, w)
      PROVE  BindingLandsInOwnPool'
  BY <1>2, <1>5, Zenon DEF Claim, Solve, FailSolve
<1>6. CASE UNCHANGED vars
  BY <1>2, <1>6 DEF vars
<1> QED BY <1>1, <1>3, <1>4, <1>5, <1>6 DEF Next, Terminated

\* What the ranks reduce for the last node of a level, whatever its other nodes are.
LastNodeCounted ==
    (\A r \in Ranks : pc[r] = "metadata") =>
    \A i \in DOMAIN Children[Node] : \A s \in DOMAIN pool[0][Children[Node][i]] :
        Reduced(Node, i, s) = Visits(route, Node) * Openings[Children[Node][i]]

\* At the reduction of any level the workers' counters hold, for its last node, each visit of the
\* node and each opening of the child once, over all ranks, schedulers and claim orders
\* (accumulate_opening_outcome, the folds into metadata_sync_contribution).
THEOREM LastNodeIsCounted == Spec => []LastNodeCounted
<1>1. FullInv /\ CountInv => LastNodeCounted
  BY ReducedCounts DEF FullInv, LastNodeCounted
<1>2. Init => CountInv  BY InitCounts
<1>3. FullInv /\ CountInv /\ [Next]_vars => CountInv'
  BY NextCounts
<1>4. Spec => []FullInv  BY FullInvariant
<1> QED BY <1>1, <1>2, <1>3, <1>4, PTL DEF Spec

\* Where each level from the second on has one node, and no node has a child twice, the activity
\* recorded for a cut counts each solve its pool took part in once, whatever worker of whatever
\* rank ran it (sync_stage_metadata, slot_increments).  With several nodes in such a level the
\* reduction reads the counters of the last one for all of them.
THEOREM BindingIsCounted == LoneLevels /\ ChildrenDiffer => (Spec => []BindingLandsInOwnPool)
<1> SUFFICES ASSUME LoneLevels, ChildrenDiffer PROVE Spec => []BindingLandsInOwnPool  OBVIOUS
<1>1. Init => CountInv /\ BindingLandsInOwnPool
  BY InitCounts, InitBindings
<1>2. FullInv /\ CountInv /\ BindingLandsInOwnPool /\ [Next]_vars => (CountInv /\ BindingLandsInOwnPool)'
  BY NextCounts, NextBindings
<1>3. Spec => []FullInv  BY FullInvariant
<1> QED BY <1>1, <1>2, <1>3, PTL DEF Spec

====
