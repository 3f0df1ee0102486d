-------------------------- MODULE LazySolveProofs --------------------------
(***************************************************************************)
(* A lazy solve is exact: what it returns is optimal over all cuts it      *)
(* should consider, for every pool, tolerance, window and number of rounds. *)
(***************************************************************************)
EXTENDS LazySolve, FiniteSetTheorems, TLAPS

Solved == pc \in {"score", "stored", "counted"}

\* With rows of active cuts only, a solved LP's view is optimal over its rows; a
\* stored one leaves no considered cut violated.
SolveInv ==
    /\ TypeOK
    /\ MapMatchesLp
    /\ pc = "idle" \/ (pc = "open" /\ opening = 0) => rows = <<>>
    /\ pc = "idle" => opening = 0 /\ pool = NoPool
    /\ pc = "open" => opening < Openings
    /\ Solved => opening > 0
    /\ pc \in {"open", "score", "stored", "counted"} => pool \in Pools
    /\ Range(rows) \subseteq Active
    /\ Solved => Optimal(cost, Range(rows), view)
    /\ pc = "stored" => Allows(view.x, view.theta + Eps, Considered)

LEMMA ConstantTypes ==
    /\ K2 \in Nat /\ MaxRounds \in Nat /\ MaxValue \in Nat /\ Eps \in Nat /\ BaseRows \in Nat
    /\ Nadic \in Nat \ {0} /\ Openings \in Nat \ {0}
    BY LazyAssumption

LEMMA PoolIsFinite ==
    ASSUME pool \in Pools \cup {NoPool}
    PROVE  /\ IsFiniteSet(DOMAIN pool) /\ DOMAIN pool \subseteq Nat
           /\ \A s \in DOMAIN pool : pool[s] \in Cut
<1>1. CASE pool \in Pools
    BY <1>1, LazyAssumption
<1>2. CASE pool = NoPool
  <2>1. DOMAIN pool = {}
      BY <1>2 DEF NoPool
  <2> QED BY <2>1, FS_EmptySet
<1> QED BY <1>1, <1>2

\* q lists the slots of S; map and next describe the rows held.
Lists(q, S) ==
    /\ q \in [1 .. Cardinality(S) -> S] /\ Range(q) = S
    /\ \A i, j \in DOMAIN q : q[i] = q[j] => i = j
InStep(held, map, next) ==
    /\ DOMAIN map = Range(held) /\ next = BaseRows + Len(held)
    /\ \A i \in DOMAIN held : map[held[i]] = BaseRows + i - 1

\* Appending the cuts of S in any order keeps map and LP in step.
LEMMA AppendKeepsMap ==
    ASSUME NEW D, NEW held, held \in Seq(D), NEW S, S \subseteq D, IsFiniteSet(S),
           NEW q, Lists(q, S), NEW map, NEW next, InStep(held, map, next), S \cap DOMAIN map = {}
    PROVE  /\ held \o q \in Seq(D)
           /\ Range(held \o q) = Range(held) \cup S
           /\ InStep(held \o q, Mapped(map, next, q), next + Len(q))
<1> USE DEF Lists, InStep
<1>1. Cardinality(S) \in Nat
    BY FS_CardinalityType
<1>a. q \in Seq(D)
    BY <1>1
<1>2. q \in Seq(D) /\ Len(q) = Cardinality(S) /\ DOMAIN q = 1 .. Len(q)
    BY <1>1, <1>a
<1>b. held \o q \in Seq(D) /\ Len(held \o q) = Len(held) + Len(q)
    BY <1>a
<1>c. DOMAIN held = 1 .. Len(held) /\ DOMAIN (held \o q) = 1 .. Len(held) + Len(q)
    BY <1>b
<1>d. \A i \in 1 .. Len(held) + Len(q) :
        (held \o q)[i] = IF i <= Len(held) THEN held[i] ELSE q[i - Len(held)]
    BY <1>a
<1>3. /\ held \o q \in Seq(D) /\ Len(held \o q) = Len(held) + Len(q)
      /\ DOMAIN held = 1 .. Len(held) /\ DOMAIN (held \o q) = 1 .. Len(held) + Len(q)
      /\ \A i \in 1 .. Len(held) + Len(q) :
            (held \o q)[i] = IF i <= Len(held) THEN held[i] ELSE q[i - Len(held)]
    BY <1>b, <1>c, <1>d
<1>4. Range(held \o q) = Range(held) \cup S
  <2>1. ASSUME NEW x \in Range(held \o q)
        PROVE  x \in Range(held) \cup S
      BY <1>2, <1>3 DEF Range
  <2>2. ASSUME NEW x \in Range(held)
        PROVE  x \in Range(held \o q)
    <3>1. PICK i \in 1 .. Len(held) : x = held[i]
        BY <1>3 DEF Range
    <3>2. i \in 1 .. Len(held) + Len(q) /\ (held \o q)[i] = x
        BY <1>2, <1>3, <3>1
    <3> QED BY <1>3, <3>2 DEF Range
  <2>3. ASSUME NEW x \in S
        PROVE  x \in Range(held \o q)
    <3>1. PICK i \in 1 .. Len(q) : x = q[i]
        BY <1>2 DEF Range
    <3>2. i + Len(held) \in 1 .. Len(held) + Len(q) /\ (held \o q)[i + Len(held)] = x
        BY <1>2, <1>3, <3>1
    <3> QED BY <1>3, <3>2 DEF Range
  <2> QED BY <2>1, <2>2, <2>3
<1>5. DOMAIN Mapped(map, next, q) = Range(held \o q)
    BY <1>4 DEF Mapped
<1>6. ASSUME NEW i \in 1 .. Len(held) + Len(q)
      PROVE  Mapped(map, next, q)[(held \o q)[i]] = BaseRows + i - 1
  <2>1. CASE i <= Len(held)
    <3>1. held[i] \in DOMAIN map /\ (held \o q)[i] = held[i]
        BY <1>3, <2>1 DEF Range
    <3>2. Mapped(map, next, q)[held[i]] = map[held[i]]
        BY <3>1 DEF Mapped
    <3>3. map[held[i]] = BaseRows + i - 1
      <4>1. i \in DOMAIN held
          BY <1>2, <1>3, <2>1
      <4> QED BY <4>1
    <3> QED BY <3>1, <3>2, <3>3
  <2>2. CASE i > Len(held)
    <3> DEFINE k == i - Len(held)
    <3>1. k \in DOMAIN q /\ (held \o q)[i] = q[k] /\ q[k] \in S
        BY <1>2, <1>3, <2>2
    <3>2. (CHOOSE j \in DOMAIN q : q[j] = q[k]) = k
        BY <3>1
    <3>3. q[k] \notin DOMAIN map /\ q[k] \in Range(q)
        BY <3>1
    <3>4. Mapped(map, next, q)[q[k]] = next + k - 1
        BY <3>2, <3>3 DEF Mapped
    <3> QED BY SMTT(20), <1>2, <3>1, <3>4, LazyAssumption
  <2> QED BY <1>2, <2>1, <2>2
<1>7. next + Len(q) = BaseRows + Len(held \o q)
    BY <1>1, <1>2, <1>3, LazyAssumption
<1>8. DOMAIN (held \o q) = 1 .. Len(held) + Len(q)
    BY <1>3
<1> QED BY <1>1, <1>2, <1>3, <1>4, <1>5, <1>6, <1>7, <1>8

\* The cuts append_slots_to_lp gives rows, whatever their order, are distinct.
LEMMA OrderedAscending ==
    ASSUME NEW T, T \subseteq Nat, NEW q \in Ordered(T, Ascending)
    PROVE  Lists(q, T)
<1>1. q \in [1 .. Cardinality(T) -> T] /\ Range(q) = T
    BY DEF Ordered
<1>2. ASSUME NEW i \in DOMAIN q, NEW j \in DOMAIN q, i < j
      PROVE  q[i] # q[j]
  <2>1. q[i] < q[j]
      BY <1>1, <1>2 DEF Ordered, Ascending
  <2>2. q[i] \in Nat /\ q[j] \in Nat
      BY <1>1
  <2> QED BY <2>1, <2>2
<1>3. DOMAIN q \subseteq Int
    BY <1>1
<1> QED BY <1>1, <1>2, <1>3 DEF Lists

LEMMA OrderedBefore ==
    ASSUME pool \in Pools \cup {NoPool}, view \in [x : Points, theta : 0 .. MaxValue],
           NEW T, T \subseteq DOMAIN pool, NEW q \in Ordered(T, Before)
    PROVE  Lists(q, T)
<1>1. q \in [1 .. Cardinality(T) -> T] /\ Range(q) = T
    BY DEF Ordered
<1>2. ASSUME NEW i \in DOMAIN q, NEW j \in DOMAIN q, i < j
      PROVE  q[i] # q[j]
  <2> SUFFICES ASSUME q[i] = q[j] PROVE FALSE
      OBVIOUS
  <2>1. Before(q[i], q[j]) /\ q[i] \in DOMAIN pool
      BY <1>1, <1>2 DEF Ordered
  <2>2. q[i] \in Nat /\ pool[q[i]] \in Cut
      BY <2>1, PoolIsFinite
  <2>3. pool[q[i]].value[view.x] \in Int /\ view.theta \in Int
      BY <2>2, ConstantTypes DEF Cut
  <2>4. Violation(q[i]) \in Int
      BY <2>3 DEF Violation
  <2>5. Violation(q[i]) > Violation(q[i]) \/ q[i] < q[i]
      BY <2>1 DEF Before
  <2>6. \A n \in Int : ~(n > n) /\ ~(n < n)
      OBVIOUS
  <2> QED BY <2>2, <2>4, <2>5, <2>6
<1>3. DOMAIN q \subseteq Int
    BY <1>1
<1> QED BY <1>1, <1>2, <1>3 DEF Lists

\* One call of append_slots_to_lp on a map that matches the LP.
LEMMA AppendStep ==
    ASSUME pool \in Pools \cup {NoPool}, pool' = pool,
           rows \in Seq(DOMAIN pool), Range(rows) \subseteq Active,
           NEW map, NEW next, InStep(rows, map, next),
           NEW S, NEW q, Lists(q, Appendable(S, map)),
           rows' = rows \o q, rowOf' = Mapped(map, next, q), nextRow' = next + Len(q)
    PROVE  /\ rows' \in Seq(DOMAIN pool)
           /\ Range(rows') = Range(rows) \cup Appendable(S, map)
           /\ Range(rows') \subseteq Active
           /\ InStep(rows', rowOf', nextRow')
           /\ nextRow' \in Nat
           /\ rowOf' \in [DOMAIN rowOf' -> Nat] /\ DOMAIN rowOf' \subseteq Nat
<1> DEFINE T == Appendable(S, map)
<1>1. /\ T \subseteq Active /\ Active \subseteq DOMAIN pool
      /\ T \cap DOMAIN map = {}
    BY DEF Appendable, Active
<1>2. IsFiniteSet(T) /\ DOMAIN pool \subseteq Nat
    BY <1>1, PoolIsFinite, FS_Subset
<1>3. /\ rows' \in Seq(DOMAIN pool)
      /\ Range(rows') = Range(rows) \cup T
      /\ InStep(rows', rowOf', nextRow')
    BY <1>1, <1>2, AppendKeepsMap
<1>4. Len(rows') \in Nat /\ DOMAIN rows' = 1 .. Len(rows')
    BY <1>3
<1>5. nextRow' \in Nat
    BY <1>3, <1>4, ConstantTypes DEF InStep
<1>6. \A s \in DOMAIN rowOf' : rowOf'[s] \in Nat
  <2> TAKE s \in DOMAIN rowOf'
  <2>1. PICK i \in 1 .. Len(rows') : s = rows'[i]
      BY <1>3, <1>4 DEF Range, InStep
  <2>2. rowOf'[s] = BaseRows + i - 1
      BY <1>3, <1>4, <2>1 DEF InStep
  <2>3. i \in Nat \ {0}
      BY <1>4
  <2> QED BY <2>2, <2>3, ConstantTypes
<1>7. rowOf' \in [DOMAIN rowOf' -> Nat]
    BY <1>6 DEF Mapped
<1>8. Range(rows') \subseteq Active /\ DOMAIN rowOf' \subseteq Nat
    BY <1>1, <1>2, <1>3 DEF InStep
<1> QED BY <1>3, <1>5, <1>7, <1>8

LEMMA InitSolve == Init => SolveInv
<1> SUFFICES ASSUME Init PROVE SolveInv
    OBVIOUS
<1>1. NoView \in [x : Points, theta : 0 .. MaxValue]
    BY LazyAssumption, ConstantTypes DEF NoView
<1>2. DOMAIN pool = {} /\ Range(rows) = {} /\ DOMAIN rowOf = {} /\ rows \in Seq(DOMAIN pool)
    BY DEF Init, NoPool, Unmapped, Range
<1>3. TypeOK
    BY <1>1, <1>2, ConstantTypes DEF Init, TypeOK, Unmapped
<1> QED BY <1>2, <1>3 DEF Init, SolveInv, MapMatchesLp, Solved

\* A solve of the rows an LP was just given.
LEMMA AppendedSolve ==
    ASSUME SolveInv, pool' = pool, study' = study, iteration' = iteration,
           pc \in {"open", "score"}, pc' \in {"score", "stored"},
           cost' \in Costs \cup {NoCost}, opening' \in 1 .. Openings, round' \in 0 .. MaxRounds,
           nadic' \in Nat \ {0}, credited' \subseteq DOMAIN pool,
           NEW map, NEW next, InStep(rows, map, next),
           NEW S, NEW q, Lists(q, Appendable(S, map)),
           rows' = rows \o q, rowOf' = Mapped(map, next, q), nextRow' = next + Len(q),
           view' \in Optima(cost', Range(rows')),
           pc' = "stored" => Considered' \subseteq Range(rows')
    PROVE  SolveInv'
<1>1. /\ rows' \in Seq(DOMAIN pool) /\ Range(rows') \subseteq Active
      /\ InStep(rows', rowOf', nextRow')
      /\ nextRow' \in Nat
      /\ rowOf' \in [DOMAIN rowOf' -> Nat] /\ DOMAIN rowOf' \subseteq Nat
    BY AppendStep DEF SolveInv, TypeOK
<1>2. view' \in [x : Points, theta : 0 .. MaxValue] /\ Optimal(cost', Range(rows'), view')
    BY DEF Optima
<1>3. TypeOK'
    BY <1>1, <1>2 DEF SolveInv, TypeOK
<1>4. MapMatchesLp'
    BY <1>1 DEF MapMatchesLp, InStep
<1>5. Range(rows)' \subseteq Active' /\ Optimal(cost, Range(rows), view)'
    BY <1>1, <1>2 DEF Active, Optimal, Allows, Range
<1>6. pc' = "stored" => Allows(view.x, view.theta + Eps, Considered)'
  <2> SUFFICES ASSUME pc' = "stored", NEW s \in Considered'
               PROVE  view'.theta + Eps >= pool'[s].value[view'.x]
      BY DEF Allows
  <2>1. view'.theta >= pool[s].value[view'.x]
      BY <1>2 DEF Optimal, Allows
  <2>2. pool[s].value[view'.x] \in Nat /\ view'.theta \in Nat
    <3>1. s \in DOMAIN pool
        BY DEF Considered, Active
    <3>2. pool[s] \in Cut
        BY <3>1, PoolIsFinite DEF SolveInv, TypeOK
    <3> QED BY <1>2, <3>2, ConstantTypes DEF Cut
  <2> QED BY SMTT(20), <2>1, <2>2, ConstantTypes
<1>7. pc \in {"open", "score"} => pool \in Pools
    BY DEF SolveInv
<1> QED BY <1>3, <1>4, <1>5, <1>6, <1>7 DEF SolveInv

\* Nothing of the LP or the map changes, and no result is stored.
LEMMA QuietSolve ==
    ASSUME SolveInv, TypeOK', UNCHANGED <<study, pool, iteration, rows, mapVars>>,
           pc' \in {"open", "counted", "failed", "stored"},
           pc' = "open" => pc = "counted" /\ opening' > 0 /\ opening' < Openings,
           pc' \in {"counted", "stored"} => Solved /\ UNCHANGED <<cost, view, opening>>,
           pc' = "stored" => pc = "stored" \/ Allows(view.x, view.theta + Eps, Considered)
    PROVE  SolveInv'
<1>1. Range(rows)' \subseteq Active'
    BY DEF SolveInv, Active
<1>2. MapMatchesLp'
    BY DEF SolveInv, MapMatchesLp, mapVars, Solved
<1>3. Solved' => Optimal(cost, Range(rows), view)'
    BY DEF SolveInv, Solved, Optimal, Allows
<1>4. pc' = "stored" => Allows(view.x, view.theta + Eps, Considered)'
    BY DEF SolveInv, Allows, Considered, Active, InWindow, mapVars
<1>5. pc' \in {"open", "counted", "stored"} => pool' \in Pools
    BY DEF SolveInv, Solved
<1>6. Solved' => opening' > 0
    BY DEF SolveInv, Solved
<1> QED BY <1>1, <1>2, <1>3, <1>4, <1>5, <1>6 DEF SolveInv, Solved

LEMMA NextSolve == SolveInv /\ [Next]_vars => SolveInv'
<1> SUFFICES ASSUME SolveInv, [Next]_vars PROVE SolveInv'
    OBVIOUS
<1> USE DEF lpVars, mapVars
<1>t. NoView \in [x : Points, theta : 0 .. MaxValue]
    BY LazyAssumption, ConstantTypes DEF NoView
<1>s. Active \subseteq DOMAIN pool /\ DOMAIN pool \subseteq Nat
    BY PoolIsFinite DEF SolveInv, TypeOK, Active
<1>m. Solved \/ (pc = "open" /\ opening > 0) => InStep(rows, rowOf, nextRow)
    BY DEF SolveInv, MapMatchesLp, Solved, InStep
<1>1. CASE Prepare
  <2>1. rows' = <<>> /\ rows' \in Seq(DOMAIN pool') /\ Range(rows') = {} /\ credited' = {}
      BY <1>1 DEF Prepare, SolveInv, TypeOK, NoPool, Range
  <2>2. TypeOK'
      BY <1>1, <2>1 DEF Prepare, SolveInv, TypeOK
  <2>3. opening' = 0 /\ opening' < Openings /\ pc' = "open"
      BY <1>1, ConstantTypes DEF Prepare, SolveInv
  <2> QED BY <1>1, <2>1, <2>2, <2>3 DEF Prepare, SolveInv, MapMatchesLp, Solved
<1>2. CASE SolveFresh
  <2>1. PICK q \in Ordered(Appendable(InitialResident, Unmapped), Ascending) :
          /\ rows' = rows \o q /\ rowOf' = Mapped(Unmapped, BaseRows, q)
          /\ nextRow' = BaseRows + Len(q) /\ view' \in Optima(cost', Range(rows'))
      BY <1>2 DEF SolveFresh, AppendAndSolve
  <2>2. Appendable(InitialResident, Unmapped) \subseteq Nat
      BY <1>s DEF Appendable
  <2>3. Lists(q, Appendable(InitialResident, Unmapped))
      BY <2>1, <2>2, OrderedAscending
  <2>4. rows = <<>> /\ pc = "open" /\ opening < Openings
      BY <1>2 DEF SolveFresh, Started, SolveInv
  <2>5. InStep(rows, Unmapped, BaseRows)
      BY <2>4, ConstantTypes DEF InStep, Unmapped, Range
  <2>6. /\ opening' \in 1 .. Openings /\ round' \in 0 .. MaxRounds /\ nadic' \in Nat \ {0}
        /\ cost' \in Costs \cup {NoCost} /\ credited' \subseteq DOMAIN pool
      BY <1>2, <2>4, ConstantTypes DEF SolveFresh, Started, SolveInv, TypeOK
  <2>7. pool' = pool /\ study' = study /\ iteration' = iteration /\ pc' = "score"
      BY <1>2 DEF SolveFresh, Started
  <2> QED BY <2>1, <2>3, <2>4, <2>5, <2>6, <2>7, AppendedSolve
<1>3. CASE SolveCarried
  <2>1. /\ pc = "open" /\ opening > 0 /\ opening < Openings /\ pc' = "score"
        /\ opening' = opening + 1 /\ round' = 0 /\ nadic' = Nadic /\ credited' = {}
        /\ cost' \in Costs /\ view' \in Optima(cost', Range(rows))
        /\ UNCHANGED <<study, pool, iteration, rows, rowOf, nextRow>>
      BY <1>3 DEF SolveCarried, Started, SolveInv
  <2>2. view' \in [x : Points, theta : 0 .. MaxValue] /\ Optimal(cost', Range(rows), view')
      BY <2>1 DEF Optima
  <2>3. TypeOK'
      BY SMTT(20), <2>1, <2>2, ConstantTypes DEF SolveInv, TypeOK
  <2>4. MapMatchesLp'
      BY <2>1 DEF SolveInv, MapMatchesLp
  <2>5. Optimal(cost, Range(rows), view)' /\ Range(rows)' \subseteq Active'
      BY <2>1, <2>2 DEF SolveInv, Optimal, Allows, Active
  <2>6. opening' > 0
      BY <2>1 DEF SolveInv, TypeOK
  <2> QED BY <2>1, <2>3, <2>4, <2>5, <2>6 DEF SolveInv
<1>4. CASE StoreResult
  <2>1. Solved /\ DOMAIN rowOf = Range(rows) /\ view.theta \in Nat
      BY <1>4, <1>m, ConstantTypes DEF StoreResult, Solved, InStep, SolveInv, TypeOK
  <2>2. ASSUME NEW s \in Considered
        PROVE  view.theta + Eps >= pool[s].value[view.x]
    <3>1. s \in DOMAIN pool /\ pool[s] \in Cut
        BY PoolIsFinite DEF Considered, Active, SolveInv, TypeOK
    <3>2. pool[s].value[view.x] \in Nat
        BY <3>1, ConstantTypes DEF Cut, SolveInv, TypeOK
    <3>3. CASE s \in Range(rows)
      <4>1. view.theta >= pool[s].value[view.x]
          BY <2>1, <3>3 DEF SolveInv, Optimal, Allows
      <4> QED BY <2>1, <3>2, <4>1, ConstantTypes
    <3>4. CASE s \notin Range(rows)
      <4>1. s \in Candidates
          BY <2>1, <3>4 DEF Considered, Candidates
      <4>2. ~(pool[s].value[view.x] - view.theta > Eps)
          BY <1>4, <4>1 DEF StoreResult, Violated, Violation
      <4> QED BY <2>1, <3>2, <4>2, ConstantTypes
    <3> QED BY <3>3, <3>4
  <2>3. Allows(view.x, view.theta + Eps, Considered)
      BY <2>2 DEF Allows
  <2>4. TypeOK'
      BY <1>4 DEF StoreResult, SolveInv, TypeOK
  <2> QED BY <1>4, <2>1, <2>3, <2>4, QuietSolve DEF StoreResult
<1>5. CASE AddViolated
  <2>1. PICK q \in Ordered(Appendable(Worst(nadic), rowOf), Before) :
          /\ rows' = rows \o q /\ rowOf' = Mapped(rowOf, nextRow, q)
          /\ nextRow' = nextRow + Len(q) /\ view' \in Optima(cost, Range(rows'))
      BY <1>5 DEF AddViolated, AppendAndSolve
  <2>2. Lists(q, Appendable(Worst(nadic), rowOf))
    <3>1. Appendable(Worst(nadic), rowOf) \subseteq DOMAIN pool
        BY DEF Appendable, Active
    <3> QED BY <3>1, OrderedBefore DEF SolveInv, TypeOK
  <2>3. /\ pc = "score" /\ pc' = "score" /\ opening > 0 /\ opening' = opening
        /\ UNCHANGED <<study, pool, iteration, cost, credited>>
      BY <1>5 DEF AddViolated, SolveInv, Solved
  <2>4. InStep(rows, rowOf, nextRow)
      BY <1>m, <2>3 DEF Solved
  <2>5. round' \in 0 .. MaxRounds /\ opening' \in 1 .. Openings
      BY <1>5, <2>3, ConstantTypes DEF AddViolated, SolveInv, TypeOK
  <2>6. nadic' \in Nat \ {0}
    <3>1. study \in [k1 : Nat, cap : Nat]
        BY LazyAssumption DEF SolveInv, TypeOK
    <3>2. nadic \in Nat \ {0}
        BY DEF SolveInv, TypeOK
    <3> QED BY <1>5, <3>1, <3>2 DEF AddViolated
  <2>7. cost' \in Costs \cup {NoCost} /\ credited' \subseteq DOMAIN pool
        /\ view' \in Optima(cost', Range(rows'))
      BY <2>1, <2>3 DEF SolveInv, TypeOK
  <2> QED BY <2>1, <2>2, <2>3, <2>4, <2>5, <2>6, <2>7, AppendedSolve
<1>6. CASE Fallback
  <2>1. PICK q \in Ordered(Appendable(Candidates, rowOf), Ascending) :
          /\ rows' = rows \o q /\ rowOf' = Mapped(rowOf, nextRow, q)
          /\ nextRow' = nextRow + Len(q) /\ view' \in Optima(cost, Range(rows'))
      BY <1>6 DEF Fallback, AppendAndSolve
  <2>2. Lists(q, Appendable(Candidates, rowOf))
    <3>1. Appendable(Candidates, rowOf) \subseteq Nat
        BY <1>s DEF Appendable
    <3> QED BY <2>1, <3>1, OrderedAscending
  <2>3. /\ pc = "score" /\ pc' = "stored" /\ opening > 0 /\ opening' = opening
        /\ UNCHANGED <<study, pool, iteration, cost, credited, round, nadic>>
      BY <1>6 DEF Fallback, SolveInv, Solved
  <2>4. InStep(rows, rowOf, nextRow)
      BY <1>m, <2>3 DEF Solved
  <2>5. Considered' \subseteq Range(rows')
    <3>1. /\ Range(rows') = Range(rows) \cup Appendable(Candidates, rowOf)
          /\ InStep(rows', rowOf', nextRow')
        BY <2>1, <2>2, <2>3, <2>4, AppendStep DEF SolveInv, TypeOK
    <3>2. Appendable(Candidates, rowOf) = Candidates
        BY DEF Appendable, Candidates
    <3>3. \A s \in Active : InWindow(s) => s \in Candidates \/ s \in Range(rows)
        BY <2>4 DEF Candidates, InStep
    <3>4. Considered' = {s \in Active : InWindow(s) \/ s \in DOMAIN rowOf'}
        BY <2>3 DEF Considered, Active, InWindow
    <3> QED BY <3>1, <3>2, <3>3, <3>4 DEF InStep
  <2>6. /\ round' \in 0 .. MaxRounds /\ opening' \in 1 .. Openings /\ nadic' \in Nat \ {0}
        /\ cost' \in Costs \cup {NoCost} /\ credited' \subseteq DOMAIN pool
        /\ view' \in Optima(cost', Range(rows'))
      BY <2>1, <2>3 DEF SolveInv, TypeOK
  <2> QED BY <2>1, <2>2, <2>3, <2>4, <2>5, <2>6, AppendedSolve
<1>7. CASE CountBindings
  <2>1. credited' \subseteq DOMAIN rowOf
      BY <1>7 DEF CountBindings, Credited
  <2>2. DOMAIN rowOf = Range(rows) /\ Range(rows) \subseteq DOMAIN pool
      BY <1>7, <1>m, <1>s DEF CountBindings, Solved, InStep, SolveInv
  <2>3. TypeOK'
      BY <1>7, <2>1, <2>2 DEF CountBindings, SolveInv, TypeOK
  <2> QED BY <1>7, <2>3, QuietSolve DEF CountBindings, Solved
<1>8. CASE NextOpening
  <2>1. TypeOK'
      BY <1>8, <1>t DEF NextOpening, SolveInv, TypeOK
  <2>2. opening > 0
      BY <1>8 DEF NextOpening, SolveInv, Solved
  <2> QED BY <1>8, <2>1, <2>2, QuietSolve DEF NextOpening
<1>9. CASE Leave
  <2>1. rows' = <<>> /\ Range(rows') = {} /\ rows' \in Seq(DOMAIN pool')
      BY <1>9 DEF Leave, Range
  <2>2. TypeOK'
      BY <1>9, <1>t, <2>1, ConstantTypes DEF Leave, SolveInv, TypeOK
  <2> QED BY <1>9, <2>1, <2>2 DEF Leave, SolveInv, MapMatchesLp, Solved
<1>10. CASE Fail
  <2>1. TypeOK'
      BY <1>10 DEF Fail, SolveInv, TypeOK
  <2> QED BY <1>10, <2>1, QuietSolve DEF Fail
<1>11. CASE UNCHANGED vars
    BY <1>11 DEF vars, SolveInv, TypeOK, MapMatchesLp, Active, Solved, Optimal, Allows, Considered, InWindow
<1> QED
    BY <1>1, <1>2, <1>3, <1>4, <1>5, <1>6, <1>7, <1>8, <1>9, <1>10, <1>11 DEF Next, Stopped

LEMMA SolveInvariant == Spec => []SolveInv
    BY InitSolve, NextSolve, PTL DEF Spec

\* A worker's state is type correct.
THEOREM LazyTypeCorrect == Spec => []TypeOK
<1>1. SolveInv => TypeOK
    BY DEF SolveInv
<1> QED BY <1>1, SolveInvariant, PTL

\* The row map of a worker matches the LP it solves, fresh or carried.
THEOREM RowMapMatches == Spec => []MapMatchesLp
<1>1. SolveInv => MapMatchesLp
    BY DEF SolveInv
<1> QED BY <1>1, SolveInvariant, PTL

\* A lazy solve returns an optimum over all the cuts it should consider, to within the
\* tolerance of its violation test.
THEOREM LazySolveIsExact == Spec => []ResultIsExact
<1>1. ASSUME SolveInv, pc = "stored"
      PROVE  /\ Allows(view.x, view.theta + Eps, Considered)
             /\ \A y \in Points, t \in 0 .. MaxValue :
                   Allows(y, t, Considered) => cost[view.x] + view.theta <= cost[y] + t
  <2>1. Range(rows) \subseteq Considered
      BY <1>1 DEF SolveInv, MapMatchesLp, Considered
  <2>2. \A y, t : Allows(y, t, Considered) => Allows(y, t, Range(rows))
      BY <2>1 DEF Allows
  <2> QED BY <1>1, <2>2 DEF SolveInv, Solved, Optimal
<1>2. SolveInv => ResultIsExact
    BY <1>1 DEF ResultIsExact
<1> QED BY <1>2, SolveInvariant, PTL

\* Until the bindings are counted no cut is credited, and those credited are tight.
CreditInv == (pc # "counted" => credited = {}) /\ CreditedAreTight

\* The binding counts of a lazy solve go to cuts that are tight at its result: the
\* duals are read by the carried row map, which matches the LP.
THEOREM CreditIsDue == Spec => []CreditedAreTight
<1>1. Init => CreditInv
    BY DEF Init, CreditInv, CreditedAreTight
<1>2. ASSUME SolveInv, CreditInv, [Next]_vars
      PROVE  CreditInv'
  <2> USE DEF CreditInv, CreditedAreTight
  <2>1. CASE CountBindings
    <3>1. PICK binding \in SUBSET {BaseRows + i - 1 : i \in {i \in DOMAIN rows : Tight(rows[i])}} :
              credited' = Credited(binding)
        BY <2>1 DEF CountBindings
    <3>2. /\ DOMAIN rowOf = Range(rows)
          /\ \A i \in DOMAIN rows : rowOf[rows[i]] = BaseRows + i - 1
          /\ \A i \in DOMAIN rows : i \in Nat
        BY <1>2, <2>1 DEF CountBindings, SolveInv, MapMatchesLp, TypeOK
    <3>3. ASSUME NEW s \in credited'
          PROVE  Tight(s)
      <4>1. s \in DOMAIN rowOf /\ rowOf[s] \in binding
          BY <3>1, <3>3 DEF Credited
      <4>2. PICK i \in DOMAIN rows : rowOf[s] = BaseRows + i - 1 /\ Tight(rows[i])
          BY <3>1, <4>1
      <4>3. PICK j \in DOMAIN rows : s = rows[j]
          BY <3>2, <4>1 DEF Range
      <4>4. i = j
          BY <3>2, <4>2, <4>3, ConstantTypes
      <4> QED BY <4>2, <4>3, <4>4
    <3> QED BY <2>1, <3>3 DEF CountBindings, Tight, mapVars, lpVars
  <2>2. CASE UNCHANGED vars
      BY <1>2, <2>2 DEF vars, lpVars, Tight
  <2>3. CASE Next /\ ~CountBindings /\ ~UNCHANGED vars
    <3>1. credited' = {}
        BY <1>2, <2>3 DEF Next, Prepare, SolveFresh, SolveCarried, Started, StoreResult,
           AddViolated, Fallback, NextOpening, Leave, Fail, Stopped
    <3> QED BY <3>1
  <2> QED BY <1>2, <2>1, <2>2, <2>3
<1>3. CreditInv => CreditedAreTight
    BY DEF CreditInv
<1> QED BY <1>1, <1>2, <1>3, SolveInvariant, PTL DEF Spec

=============================================================================
