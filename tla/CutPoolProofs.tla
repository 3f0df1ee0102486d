---------------------------- MODULE CutPoolProofs ----------------------------
(***************************************************************************)
(* A cut pool for every number of iterations, forward passes and resumes,  *)
(* every stride, every set of points and values, and every selection       *)
(* strategy.  First slot identity, the active count, the survival of fresh *)
(* cuts, the sizes of the per-slot buffers and the budget; then what the   *)
(* slots stand for: the rows of the lower-bound LP are the cuts of their   *)
(* slots and miss none, a selection loses no value at the states it looks  *)
(* at, a resume starts from the saved value function, and a reloaded basis *)
(* belongs to the reloaded cuts.                                           *)
(***************************************************************************)
EXTENDS CutPool, FiniteSetTheorems, WellFoundedInduction, TLAPS

Phases == {"forward", "exchange", "backward", "manage", "bound", "boundary", "done"}

\* The counters that decide a slot, within their bounds.
Counters ==
    /\ start \in 0 .. MaxIterations
    /\ iteration \in 1 .. MaxIterations + 1
    /\ start < iteration
    /\ phase \in Phases
    /\ phase # "done" => iteration <= MaxIterations
    /\ trials \in 0 .. ForwardPasses
    /\ next \in 0 .. VisitStride
    /\ warm \in Nat /\ populated \in Nat
    /\ allocated = PoolCapacity(warm)
    /\ disk.completed \in 0 .. MaxIterations
    /\ Len(disk.records) \in Nat
    /\ restarts \in Nat

\* The first slot this iteration has not handed out; a finished loop counts its last
\* iteration as full.
Frontier == SlotIndex(iteration, IF phase = "done" THEN VisitStride ELSE next)

\* A cut is a record of these six fields.
IsCut(c) == c = [value |-> c.value, gen |-> c.gen, fpi |-> c.fpi, uses |-> c.uses,
                 last |-> c.last, id |-> c.id]

\* Occupied slots lie below the frontier, and hold cuts of no later iteration.
SlotsBehindFrontier ==
    \A s \in DOMAIN cuts :
        /\ s \in Nat /\ s < Frontier /\ s < populated
        /\ IsCut(cuts[s])
        /\ cuts[s].gen \in 1 .. iteration \cup {WARM_START_ITERATION}

\* The inductive invariant.
IInv == Counters /\ SlotsBehindFrontier /\ CountIsExact /\ FreshCutsActive

----------------------------------------------------------------------------
(* Sets of numbers *)

\* A non-empty set of naturals has a least element.
LEMMA LeastNatural ==
    ASSUME NEW S \in SUBSET Nat, S # {}
    PROVE  Min(S) \in S /\ \A m \in S : Min(S) <= m
<1>1. PICK n \in S : \A m \in S : ~(<<m, n>> \in OpToRel(<, Nat))
    BY NatLessThanWellFounded, WFMin
<1>2. \A m \in S : ~(m < n)
    BY <1>1 DEF OpToRel
<1>3. \A m \in S : n <= m
    BY <1>2
<1> QED
    BY <1>3 DEF Min

\* Min and Max of two integers.
LEMMA MinPair ==
    ASSUME NEW a \in Int, NEW b \in Int
    PROVE  Min({a, b}) = IF a <= b THEN a ELSE b
BY DEF Min

LEMMA MaxPair ==
    ASSUME NEW a \in Int, NEW b \in Int
    PROVE  Max({a, b}) = IF a >= b THEN a ELSE b
BY DEF Max

\* A product with a natural grows with the other factor.
LEMMA ProductMonotone ==
    ASSUME NEW a \in Int, NEW b \in Int, NEW c \in Nat, a <= b
    PROVE  a * c <= b * c
OBVIOUS

\* A product with a successor is one summand more.
LEMMA ProductStep ==
    ASSUME NEW a \in Int, NEW c \in Int
    PROVE  (a + 1) * c = a * c + c
OBVIOUS

\* Replacing a part of a finite set by as many new elements as R has.
LEMMA ExchangeCardinality ==
    ASSUME NEW S, IsFiniteSet(S), NEW D \in SUBSET S, NEW R, IsFiniteSet(R), R \cap S = {}
    PROVE  /\ IsFiniteSet((S \ D) \cup R)
           /\ Cardinality((S \ D) \cup R) = Cardinality(S) - Cardinality(D) + Cardinality(R)
<1> DEFINE K == S \ D
<1>1. S \cap D = D /\ K \cap R = {}
    OBVIOUS
<1>2. IsFiniteSet(K) /\ Cardinality(K) = Cardinality(S) - Cardinality(D)
    BY <1>1, FS_Difference
<1>3. Cardinality(K \cap R) = 0
    BY <1>1, FS_EmptySet
<1>4. /\ IsFiniteSet(K \cup R)
      /\ Cardinality(K \cup R) = Cardinality(K) + Cardinality(R) - Cardinality(K \cap R)
    BY <1>2, FS_Union
<1>5. Cardinality(S) \in Nat /\ Cardinality(D) \in Nat /\ Cardinality(R) \in Nat
    BY FS_Subset, FS_CardinalityType
<1> HIDE DEF K
<1>6. Cardinality(K \cup R) = Cardinality(S) - Cardinality(D) + Cardinality(R)
    BY <1>2, <1>3, <1>4, <1>5
<1> QED
    BY <1>4, <1>6 DEF K

----------------------------------------------------------------------------
(* The pool *)

\* The frontier never passes the slots the session allocated.
LEMMA FrontierBound ==
    ASSUME Counters
    PROVE  Frontier \in Nat /\ Frontier <= allocated
<1> USE SizeAssumption
<1> DEFINE n == IF phase = "done" THEN VisitStride ELSE next
           d == iteration - (start + 1)
<1>1. n \in 0 .. VisitStride /\ d \in Nat /\ d <= MaxIterations /\ warm \in Nat
    BY DEF Counters
<1>2. d * VisitStride <= MaxIterations * VisitStride
    BY <1>1, ProductMonotone
<1>3. (MaxIterations + 1) * VisitStride = MaxIterations * VisitStride + VisitStride
    BY ProductStep
<1>4. d * VisitStride \in Nat
    BY <1>1
<1>5. Frontier = warm + d * VisitStride + n
    BY DEF Frontier, SlotIndex
<1>6. allocated = warm + (MaxIterations + 1) * VisitStride
    BY DEF Counters, PoolCapacity
<1>7. MaxIterations * VisitStride \in Nat
    OBVIOUS
<1> HIDE DEF n, d
<1> QED
    BY <1>1, <1>2, <1>3, <1>4, <1>5, <1>6, <1>7

\* Only finitely many slots are occupied, so only finitely many cuts are active.
LEMMA FiniteSlots ==
    ASSUME IInv
    PROVE  IsFiniteSet(DOMAIN cuts) /\ IsFiniteSet(active)
<1>1. Frontier \in Nat
    BY FrontierBound DEF IInv
<1>2. DOMAIN cuts \subseteq 0 .. Frontier
    BY <1>1 DEF IInv, SlotsBehindFrontier
<1>3. IsFiniteSet(0 .. Frontier)
    BY <1>1, FS_Interval
<1>4. IsFiniteSet(DOMAIN cuts)
    BY <1>2, <1>3, FS_Subset
<1> QED
    BY <1>4, FS_Subset DEF IInv, CountIsExact

\* The selection only ever picks eligible cuts.
LEMMA SelectedEligible ==
    ASSUME IInv
    PROVE  Selected \subseteq Eligible
<1>1. Eligible \subseteq Nat
    BY DEF Eligible, IInv, SlotsBehindFrontier
<1>2. ASSUME NEW p PROVE SelectedAt(p) \subseteq Eligible
    <2> DEFINE near == {s \in Eligible :
                    cuts[s].value[p] >= ValueAt(cuts, DOMAIN cuts, p) - TieTolerance}
    <2>1. near \subseteq Eligible
        OBVIOUS
    <2>2. near # {} => Min(near) \in near
        BY <1>1, <2>1, LeastNatural
    <2>3. SelectedAt(p) = IF Strategy = "lml1" /\ near # {} THEN {Min(near)} ELSE near
        BY DEF SelectedAt
    <2> HIDE DEF near
    <2> QED
        BY <2>1, <2>2, <2>3
<1> QED
    BY <1>2 DEF Selected

\* What a selection does to the set of active cuts and to their count.
LEMMA SelectionEffect ==
    ASSUME IInv
    PROVE  /\ ActiveAfterSelection \subseteq DOMAIN cuts
           /\ IsFiniteSet(ActiveAfterSelection)
           /\ CountAfterSelection = Cardinality(ActiveAfterSelection)
           /\ \A s \in DOMAIN cuts : cuts[s].gen = iteration => s \in ActiveAfterSelection
<1>1. Eligible \subseteq DOMAIN cuts
    BY DEF Eligible
<1>2. Deactivations \subseteq active /\ Deactivations \subseteq Eligible
    BY DEF Deactivations
<1>3. Reactivations \subseteq Eligible /\ Reactivations \cap active = {}
    BY SelectedEligible DEF Reactivations
<1>4. active \subseteq DOMAIN cuts /\ count = Cardinality(active)
    BY DEF IInv, CountIsExact
<1>5. ActiveAfterSelection \subseteq DOMAIN cuts
    BY <1>1, <1>3, <1>4 DEF ActiveAfterSelection
<1>6. IsFiniteSet(Reactivations) /\ IsFiniteSet(active)
    BY <1>1, <1>3, FiniteSlots, FS_Subset
<1>7. /\ IsFiniteSet(ActiveAfterSelection)
      /\ Cardinality(ActiveAfterSelection)
            = Cardinality(active) - Cardinality(Deactivations) + Cardinality(Reactivations)
    BY <1>2, <1>3, <1>6, ExchangeCardinality DEF ActiveAfterSelection
<1>8. ASSUME NEW s \in DOMAIN cuts, cuts[s].gen = iteration
      PROVE  s \in ActiveAfterSelection
    <2>1. s \in active
        BY <1>8 DEF IInv, FreshCutsActive
    <2>2. iteration \in Int
        BY SizeAssumption DEF IInv, Counters
    <2>3. s \notin Eligible
        BY <1>8, <2>2 DEF Eligible
    <2> QED
        BY <1>2, <2>1, <2>3 DEF ActiveAfterSelection
<1> QED
    BY <1>4, <1>5, <1>7, <1>8 DEF CountAfterSelection

\* Every evicted set is made of candidates, and brings the count down to the budget
\* unless no candidate is left.
LEMMA EvictionEffect ==
    ASSUME NEW slots, IsFiniteSet(slots), NEW e \in Evictions(slots, Cardinality(slots))
    PROVE  /\ e \subseteq Candidates(slots)
           /\ HasBudget => \/ Cardinality(slots) - Cardinality(e) <= Budget
                           \/ e = Candidates(slots)
<1> DEFINE n == Cardinality(slots)
           candidates == Candidates(slots)
<1>1. n \in Nat /\ Budget \in Nat
    BY FS_CardinalityType, PolicyAssumption
<1>2. CASE ~HasBudget \/ n <= Budget
    <2>1. e = {}
        BY <1>2 DEF Evictions
    <2>2. Cardinality(e) = 0
        BY <2>1, FS_EmptySet
    <2> QED
        BY <1>1, <1>2, <2>1, <2>2
<1>3. CASE ~(~HasBudget \/ n <= Budget)
    <2>1. e \in SUBSET candidates /\ Cardinality(e) = Min({n - Budget, Cardinality(candidates)})
        BY <1>3 DEF Evictions
    <2>2. candidates \subseteq slots
        BY DEF Candidates
    <2>3. IsFiniteSet(candidates) /\ Cardinality(candidates) \in Nat
        BY <2>2, FS_Subset, FS_CardinalityType
    <2>4. Cardinality(e) = n - Budget \/ Cardinality(e) = Cardinality(candidates)
        BY <1>1, <2>1, <2>3, MinPair
    <2>5. Cardinality(e) = Cardinality(candidates) => e = candidates
        BY <2>1, <2>3, FS_Subset
    <2>6. Cardinality(e) = n - Budget => n - Cardinality(e) <= Budget
        BY <1>1
    <2> QED
        BY <2>1, <2>4, <2>5, <2>6
<1> QED
    BY <1>2, <1>3

\* A checkpoint has finitely many cut records.
LEMMA RecordsLength ==
    ASSUME IInv
    PROVE  Len(CutRecords) \in Nat
<1> DEFINE n == Cardinality(DOMAIN cuts)
           slots == InOrder(DOMAIN cuts)
           rec(i) == LET c == cuts[slots[i]]
                     IN  [slot |-> slots[i], iteration |-> AsU32(c.gen), fpi |-> c.fpi,
                          value |-> c.value, active |-> slots[i] \in active, id |-> c.id]
<1>1. n \in Nat
    BY FiniteSlots, FS_CardinalityType
<1>2. Len(slots) = n
    BY <1>1 DEF InOrder
<1>3. CutRecords = [i \in 1 .. n |-> rec(i)]
    BY <1>2 DEF CutRecords
<1> HIDE DEF n, rec
<1> QED
    BY <1>1, <1>3

----------------------------------------------------------------------------
(* The invariant is inductive *)

\* A new session starts with an empty pool.
LEMMA InitInvariant == Init => IInv
<1> SUFFICES ASSUME Init PROVE IInv
    OBVIOUS
<1>1. Counters
    BY SizeAssumption DEF Init, Counters, Phases, PoolCapacity, NoCheckpoint
<1>2. SlotsBehindFrontier /\ FreshCutsActive
    BY DEF Init, SlotsBehindFrontier, FreshCutsActive
<1>3. CountIsExact
    BY FS_EmptySet DEF Init, CountIsExact
<1> QED
    BY <1>1, <1>2, <1>3 DEF IInv

\* The slot add_cut takes is free.
LEMMA SlotIsFree ==
    ASSUME IInv, phase = "backward"
    PROVE  /\ SlotIndex(iteration, next) = Frontier
           /\ SlotIndex(iteration, next) \in Nat
           /\ SlotIndex(iteration, next) \notin DOMAIN cuts
<1>1. SlotIndex(iteration, next) = Frontier
    BY DEF Frontier
<1>2. Frontier \in Nat
    BY FrontierBound DEF IInv
<1>3. Frontier \notin DOMAIN cuts
    BY <1>2 DEF IInv, SlotsBehindFrontier
<1> QED
    BY <1>1, <1>2, <1>3

\* Using a cut changes neither its shape nor its identity, value or generation.
LEMMA UsageUpdate ==
    ASSUME NEW c, IsCut(c), NEW n
    PROVE  LET d == [c EXCEPT !.uses = @ + 1, !.last = n]
           IN  IsCut(d) /\ d.gen = c.gen /\ d.id = c.id /\ d.value = c.value
<1> DEFINE d == [c EXCEPT !.uses = @ + 1, !.last = n]
<1>1. c \in [value : {c.value}, gen : {c.gen}, fpi : {c.fpi}, uses : {c.uses},
             last : {c.last}, id : {c.id}]
    BY DEF IsCut
<1>2. d \in [value : {c.value}, gen : {c.gen}, fpi : {c.fpi}, uses : {c.uses + 1},
             last : {n}, id : {c.id}]
    BY <1>1
<1>3. IsCut(d) /\ d.gen = c.gen /\ d.id = c.id /\ d.value = c.value
    <2> HIDE DEF d
    <2> QED
        BY <1>2 DEF IsCut
<1> QED
    BY <1>3

\* add_cut
LEMMA AddCutInvariant == IInv /\ AddCut => IInv'
<1> SUFFICES ASSUME IInv, AddCut PROVE IInv'
    OBVIOUS
<1> USE SizeAssumption
<1> DEFINE slot == SlotIndex(iteration, next)
<1>0. /\ slot = Frontier /\ slot \in Nat /\ slot \notin DOMAIN cuts
    BY SlotIsFree DEF AddCut
<1>1. next \in Nat /\ next < VisitStride
    BY MinPair DEF AddCut, IInv, Counters
<1>2. PICK v \in [Points -> Values] :
          cuts' = [s \in DOMAIN cuts \cup {slot} |->
                    IF s = slot
                    THEN [value |-> v, gen |-> iteration, fpi |-> next, uses |-> 0,
                          last |-> iteration, id |-> <<iteration, next>>]
                    ELSE cuts[s]]
    BY DEF AddCut
<1>3. /\ active' = active \cup {slot} /\ count' = count + 1 /\ next' = next + 1
      /\ populated' = Max({populated, slot + 1})
      /\ phase = "backward"
      /\ UNCHANGED <<capacity, allocated, warm, start, kind, iteration, phase, trials, disk, restarts>>
    BY DEF AddCut, sizes, saved
<1>4. populated \in Nat /\ iteration \in 1 .. MaxIterations + 1 /\ warm \in Nat
    BY DEF IInv, Counters
<1>5. populated' \in Nat /\ populated <= populated' /\ slot < populated'
    BY <1>0, <1>3, <1>4, MaxPair
<1>6. Frontier' = Frontier + 1
    <2>1. (iteration - (start + 1)) * VisitStride \in Int
        BY DEF IInv, Counters
    <2>2. Frontier' = warm + (iteration - (start + 1)) * VisitStride + (next + 1)
        BY <1>3 DEF Frontier, SlotIndex
    <2> QED
        BY <1>0, <1>1, <1>4, <2>1, <2>2 DEF SlotIndex
<1>7. Counters'
    BY <1>1, <1>3, <1>5 DEF Counters, IInv, PoolCapacity
<1>8. SlotsBehindFrontier'
    <2>1. ASSUME NEW s \in DOMAIN cuts
          PROVE  s \in DOMAIN cuts' /\ cuts'[s] = cuts[s] /\ s \in Nat /\ s < Frontier
                 /\ s < populated /\ IsCut(cuts[s])
                 /\ cuts[s].gen \in 1 .. iteration \cup {WARM_START_ITERATION}
        BY <1>0, <1>2 DEF IInv, SlotsBehindFrontier
    <2>2. slot \in DOMAIN cuts' /\ IsCut(cuts'[slot]) /\ cuts'[slot].gen = iteration
        BY <1>2 DEF IsCut
    <2>3. DOMAIN cuts' = DOMAIN cuts \cup {slot}
        BY <1>2
    <2>4. slot < Frontier' /\ iteration \in 1 .. iteration
        BY <1>0, <1>4, <1>6
    <2>5. Frontier \in Nat
        BY <1>0
    <2>6. \A s \in DOMAIN cuts : s < Frontier' /\ s < populated'
        BY <1>4, <1>5, <1>6, <2>1, <2>5
    <2>7. UNCHANGED iteration
        BY <1>3
    <2> HIDE DEF slot
    <2> QED
        BY <1>0, <1>5, <2>1, <2>2, <2>3, <2>4, <2>6, <2>7 DEF SlotsBehindFrontier, IsCut,
           WARM_START_ITERATION
<1>9. CountIsExact'
    <2>1. IsFiniteSet(active) /\ slot \notin active
        BY <1>0, FiniteSlots DEF IInv, CountIsExact
    <2>2. Cardinality(active \cup {slot}) = Cardinality(active) + 1
        BY <2>1, FS_AddElement
    <2> QED
        BY <1>2, <1>3, <2>2 DEF IInv, CountIsExact
<1>10. FreshCutsActive'
    BY <1>0, <1>2, <1>3 DEF IInv, FreshCutsActive
<1> QED
    BY <1>7, <1>8, <1>9, <1>10 DEF IInv

\* The parents' solves only touch the usage data of the cuts.
LEMMA ParentsSolveInvariant == IInv /\ ParentsSolve => IInv'
<1> SUFFICES ASSUME IInv, ParentsSolve PROVE IInv'
    OBVIOUS
<1>1. PICK binding \in SUBSET active :
          cuts' = [s \in DOMAIN cuts |->
                    IF s \in binding
                    THEN [cuts[s] EXCEPT !.uses = @ + 1, !.last = iteration]
                    ELSE cuts[s]]
    BY DEF ParentsSolve
<1>2. /\ phase = "backward" /\ phase' = "manage"
      /\ UNCHANGED <<active, count, populated, allocated, warm, start, iteration, trials,
                     next, disk, restarts>>
    BY DEF ParentsSolve, sizes, saved
<1>3. Counters'
    BY <1>2 DEF Counters, IInv, PoolCapacity, Phases
<1>4. DOMAIN cuts' = DOMAIN cuts
    BY <1>1
<1>5. ASSUME NEW s \in DOMAIN cuts
      PROVE  IsCut(cuts'[s]) /\ cuts'[s].gen = cuts[s].gen
    <2>1. IsCut(cuts[s])
        BY DEF IInv, SlotsBehindFrontier
    <2>2. CASE s \in binding
        BY <1>1, <2>1, <2>2, UsageUpdate
    <2>3. CASE s \notin binding
        BY <1>1, <2>1, <2>3
    <2> QED
        BY <2>2, <2>3
<1>6. Frontier' = Frontier
    BY <1>2 DEF Frontier, SlotIndex
<1>7. SlotsBehindFrontier'
    BY <1>2, <1>4, <1>5, <1>6 DEF IInv, SlotsBehindFrontier, WARM_START_ITERATION
<1>8. CountIsExact' /\ FreshCutsActive'
    BY <1>2, <1>4, <1>5 DEF IInv, CountIsExact, FreshCutsActive
<1> QED
    BY <1>3, <1>7, <1>8 DEF IInv

\* run_cut_management keeps the count exact and the fresh cuts active, and respects
\* the budget.
LEMMA ManageCutsInvariant == IInv /\ ManageCuts => IInv' /\ BudgetRespected'
<1> SUFFICES ASSUME IInv, ManageCuts PROVE IInv' /\ BudgetRespected'
    OBVIOUS
<1> DEFINE kept == ActiveAfterSelection
<1>1. PICK e \in Evictions(kept, CountAfterSelection) :
          /\ active' = kept \ e
          /\ count' = CountAfterSelection - Cardinality(e)
    BY DEF ManageCuts
<1>2. /\ phase = "manage" /\ phase' = "bound"
      /\ UNCHANGED <<cuts, populated, allocated, warm, start, iteration, trials, next, disk, restarts>>
    BY DEF ManageCuts, saved
<1>3. /\ kept \subseteq DOMAIN cuts /\ IsFiniteSet(kept)
      /\ CountAfterSelection = Cardinality(kept)
      /\ \A s \in DOMAIN cuts : cuts[s].gen = iteration => s \in kept
    BY SelectionEffect
<1>4. /\ e \subseteq Candidates(kept)
      /\ HasBudget => \/ Cardinality(kept) - Cardinality(e) <= Budget
                      \/ e = Candidates(kept)
    BY <1>1, <1>3, EvictionEffect
<1> HIDE DEF kept
<1>5. e \subseteq kept /\ \A s \in e : cuts[s].gen # iteration
    BY <1>4 DEF Candidates
<1>6. Cardinality(kept \ e) = Cardinality(kept) - Cardinality(e)
    <2>1. kept \cap e = e
        BY <1>5
    <2> QED
        BY <1>3, <2>1, FS_Difference
<1>7. Counters'
    BY <1>2 DEF Counters, IInv, PoolCapacity, Phases
<1>8. Frontier' = Frontier
    BY <1>2 DEF Frontier, SlotIndex
<1>9. SlotsBehindFrontier'
    BY <1>2, <1>8 DEF IInv, SlotsBehindFrontier, WARM_START_ITERATION
<1>10. CountIsExact' /\ FreshCutsActive'
    BY <1>1, <1>2, <1>3, <1>5, <1>6 DEF CountIsExact, FreshCutsActive
<1>11. BudgetRespected'
    <2>1. CASE Cardinality(kept) - Cardinality(e) <= Budget
        BY <1>1, <1>3, <2>1 DEF BudgetRespected
    <2>2. CASE e = Candidates(kept)
        BY <1>1, <1>2, <2>2 DEF BudgetRespected, Candidates
    <2> QED
        BY <1>4, <2>1, <2>2 DEF BudgetRespected
<1> QED
    BY <1>7, <1>9, <1>10, <1>11 DEF IInv

\* The iteration boundary moves the frontier to the first slot of the next iteration,
\* past every slot of this one.
LEMMA EndIterationInvariant == IInv /\ EndIteration => IInv'
<1> SUFFICES ASSUME IInv, EndIteration PROVE IInv'
    OBVIOUS
<1> USE SizeAssumption
<1> DEFINE d == iteration - (start + 1)
<1>1. /\ phase = "boundary" /\ trials' = 0 /\ next' = 0
      /\ UNCHANGED <<cuts, active, count, populated, allocated, warm, start, restarts>>
    BY DEF EndIteration, sizes
<1>2. /\ start \in 0 .. MaxIterations /\ iteration \in 1 .. MaxIterations /\ start < iteration
      /\ next \in 0 .. VisitStride /\ warm \in Nat
    BY <1>1 DEF IInv, Counters
<1>3. \/ iteration < MaxIterations /\ iteration' = iteration + 1 /\ phase' = "forward"
      \/ iteration = MaxIterations /\ iteration' = iteration /\ phase' = "done"
    BY <1>2 DEF EndIteration
<1>4. disk' = disk \/ (disk'.completed = iteration /\ disk'.records = CutRecords)
    BY DEF EndIteration
<1>5. Counters'
    <2>1. disk'.completed \in 0 .. MaxIterations /\ Len(disk'.records) \in Nat
        BY <1>2, <1>4, RecordsLength DEF IInv, Counters
    <2>2. /\ trials' \in 0 .. ForwardPasses /\ next' \in 0 .. VisitStride
          /\ warm' \in Nat /\ populated' \in Nat /\ allocated' = PoolCapacity(warm')
          /\ restarts' \in Nat
        BY <1>1 DEF IInv, Counters, PoolCapacity
    <2>3. /\ start' \in 0 .. MaxIterations /\ iteration' \in 1 .. MaxIterations + 1
          /\ start' < iteration' /\ phase' \in Phases
          /\ phase' # "done" => iteration' <= MaxIterations
        BY <1>1, <1>2, <1>3 DEF Phases
    <2> QED
        BY <2>1, <2>2, <2>3 DEF Counters, PoolCapacity
<1>6. Frontier <= Frontier' /\ Frontier \in Int /\ Frontier' \in Int
    <2>1. d \in Int /\ d * VisitStride \in Int
        BY <1>2
    <2>2. Frontier = warm + d * VisitStride + next
        BY <1>1 DEF Frontier, SlotIndex
    <2>3. CASE iteration' = iteration + 1 /\ phase' = "forward"
        <3>1. Frontier' = warm + (d + 1) * VisitStride + 0
            <4>1. (iteration + 1) - (start + 1) = d + 1
                BY <1>2
            <4>2. Frontier' = warm + ((iteration + 1) - (start + 1)) * VisitStride + 0
                BY <1>1, <2>3 DEF Frontier, SlotIndex
            <4> HIDE DEF d
            <4> QED
                BY <4>1, <4>2
        <3>2. (d + 1) * VisitStride = d * VisitStride + VisitStride
            BY <2>1, ProductStep
        <3> HIDE DEF d
        <3> QED
            BY <1>2, <2>1, <2>2, <3>1, <3>2
    <2>4. CASE iteration' = iteration /\ phase' = "done"
        <3>1. Frontier' = warm + d * VisitStride + VisitStride
            BY <1>1, <2>4 DEF Frontier, SlotIndex
        <3> HIDE DEF d
        <3> QED
            BY <1>2, <2>1, <2>2, <3>1
    <2> QED
        BY <1>3, <2>3, <2>4
<1>7. SlotsBehindFrontier'
    <2>1. ASSUME NEW s \in DOMAIN cuts PROVE s < Frontier'
        BY <1>6 DEF IInv, SlotsBehindFrontier
    <2>2. 1 .. iteration \subseteq 1 .. iteration'
        BY <1>2, <1>3
    <2> QED
        BY <1>1, <2>1, <2>2 DEF IInv, SlotsBehindFrontier, WARM_START_ITERATION
<1>8. CountIsExact'
    BY <1>1 DEF IInv, CountIsExact
<1>9. FreshCutsActive'
    <2>1. CASE iteration' = iteration + 1
        <3>1. iteration' # WARM_START_ITERATION /\ iteration' \notin 1 .. iteration
            BY <1>2, <2>1, WidthAssumption DEF WARM_START_ITERATION
        <3>2. \A s \in DOMAIN cuts : cuts[s].gen # iteration'
            BY <3>1 DEF IInv, SlotsBehindFrontier
        <3> QED
            BY <1>1, <3>2 DEF FreshCutsActive
    <2>2. CASE iteration' = iteration
        BY <1>1, <2>2 DEF IInv, FreshCutsActive
    <2> QED
        BY <1>3, <2>1, <2>2
<1> QED
    BY <1>5, <1>7, <1>8, <1>9 DEF IInv

\* A resume numbers its records from slot 0, so the frontier of the new session is
\* their number.
LEMMA ResumeInvariant == IInv /\ Resume => IInv'
<1> SUFFICES ASSUME IInv, Resume PROVE IInv'
    OBVIOUS
<1> USE SizeAssumption
<1> DEFINE records == disk.records
           n == Len(records)
           live == {s \in 0 .. n - 1 : records[s + 1].active}
           liveIndices == {i \in 1 .. n : records[i].active}
<1>1. /\ cuts' = WarmCuts(records) /\ active' = live /\ count' = Cardinality(liveIndices)
      /\ populated' = n /\ warm' = n /\ capacity' = PoolCapacity(n) /\ allocated' = capacity'
      /\ start' = disk.completed /\ iteration' = disk.completed + 1
      /\ phase' = IF disk.completed < MaxIterations THEN "forward" ELSE "done"
      /\ trials' = 0 /\ next' = 0 /\ disk' = disk /\ restarts' = restarts + 1
    BY DEF Resume
<1>2. n \in Nat /\ disk.completed \in 0 .. MaxIterations
    BY DEF IInv, Counters
<1>3. Counters'
    <2>1. restarts' \in Nat /\ iteration' > start'
        BY <1>1, <1>2 DEF IInv, Counters
    <2>2. allocated' = PoolCapacity(warm')
        BY <1>1
    <2>3. Len(disk'.records) \in Nat /\ disk'.completed \in 0 .. MaxIterations
        BY <1>1, <1>2
    <2> HIDE DEF n, records
    <2> QED
        BY <1>1, <1>2, <2>1, <2>2, <2>3 DEF Counters, PoolCapacity, Phases
<1>4. /\ DOMAIN cuts' = 0 .. n - 1
      /\ \A s \in 0 .. n - 1 : IsCut(cuts'[s]) /\ cuts'[s].gen = WARM_START_ITERATION
    BY <1>1 DEF WarmCuts, IsCut
<1>5. n <= Frontier' /\ Frontier' \in Int
    <2>1. iteration' - (start' + 1) = 0
        BY <1>1, <1>2
    <2>2. Frontier' = n + 0 * VisitStride + (IF phase' = "done" THEN VisitStride ELSE 0)
        BY <1>1, <2>1 DEF Frontier, SlotIndex
    <2> HIDE DEF n
    <2> QED
        BY <1>2, <2>2
<1> HIDE DEF records, n
<1>6. SlotsBehindFrontier'
    BY <1>1, <1>2, <1>4, <1>5 DEF SlotsBehindFrontier, WARM_START_ITERATION
<1>7. CountIsExact'
    <2>1. IsFiniteSet(liveIndices)
        <3>1. liveIndices \in SUBSET (1 .. n)
            OBVIOUS
        <3>2. IsFiniteSet(1 .. n)
            BY <1>2, FS_Interval
        <3> QED
            BY <3>1, <3>2, FS_Subset
    <2> DEFINE shift == [i \in liveIndices |-> i - 1]
    <2>2. shift \in Bijection(liveIndices, live)
        <3>1. \A i \in liveIndices : shift[i] \in live
            BY <1>2
        <3>2. \A i, j \in liveIndices : shift[i] = shift[j] => i = j
            BY <1>2
        <3>3. \A s \in live : s + 1 \in liveIndices /\ shift[s + 1] = s
            BY <1>2
        <3> HIDE DEF live, liveIndices
        <3>4. shift \in [liveIndices -> live]
            BY <3>1
        <3> HIDE DEF shift
        <3> QED
            BY <3>2, <3>3, <3>4 DEF Bijection, Injection, Surjection, IsInjective
    <2> HIDE DEF live, liveIndices, shift
    <2>3. Cardinality(live) = Cardinality(liveIndices)
        BY <2>1, <2>2, FS_Bijection DEF ExistsBijection
    <2>4. live \subseteq 0 .. n - 1
        BY DEF live
    <2> QED
        BY <1>1, <1>4, <2>3, <2>4 DEF CountIsExact
<1>8. FreshCutsActive'
    <2>1. iteration' # WARM_START_ITERATION
        BY <1>1, <1>2, WidthAssumption DEF WARM_START_ITERATION
    <2> QED
        BY <1>4, <2>1 DEF FreshCutsActive
<1> QED
    BY <1>3, <1>6, <1>7, <1>8 DEF IInv

\* The other steps leave the pool alone.
LEMMA FrameInvariant ==
    ASSUME IInv,
           UNCHANGED <<cuts, active, count, populated, allocated, warm, start, iteration,
                       next, disk, restarts>>,
           trials' \in 0 .. ForwardPasses, phase' \in Phases,
           phase' = phase \/ (phase # "done" /\ phase' # "done")
    PROVE  IInv'
<1>1. Counters'
    BY DEF IInv, Counters, PoolCapacity
<1>2. Frontier' = Frontier
    BY DEF Frontier, SlotIndex
<1>3. SlotsBehindFrontier'
    BY <1>2 DEF IInv, SlotsBehindFrontier, WARM_START_ITERATION
<1>4. CountIsExact' /\ FreshCutsActive'
    BY DEF IInv, CountIsExact, FreshCutsActive
<1> QED
    BY <1>1, <1>3, <1>4 DEF IInv

\* Every step keeps the invariant.
LEMMA NextInvariant == IInv /\ [Next]_vars => IInv'
<1> SUFFICES ASSUME IInv, [Next]_vars PROVE IInv'
    OBVIOUS
<1>0. phase \in Phases /\ trials \in 0 .. ForwardPasses
    BY DEF IInv, Counters
<1>1. CASE ForwardPass
    BY <1>0, <1>1, FrameInvariant DEF ForwardPass, Phases, sizes, saved
<1>2. CASE ExchangeStates
    BY <1>0, <1>2, FrameInvariant, SizeAssumption DEF ExchangeStates, Phases, sizes, saved
<1>3. CASE LowerBound
    BY <1>0, <1>3, FrameInvariant DEF LowerBound, Phases, sizes, saved
<1>4. CASE UNCHANGED vars
    BY <1>0, <1>4, FrameInvariant DEF vars, sizes, saved
<1> QED
    BY <1>1, <1>2, <1>3, <1>4, AddCutInvariant, ParentsSolveInvariant, ManageCutsInvariant,
       EndIterationInvariant, ResumeInvariant DEF Next, Terminated

\* The invariant holds in every reachable state.
THEOREM Invariance == Spec => []IInv
BY InitInvariant, NextInvariant, PTL DEF Spec

----------------------------------------------------------------------------
(* What follows from it *)

\* cached_active_count is exact: insertion, selection, budget and reload all keep it.
THEOREM CountStaysExact == Spec => []CountIsExact
<1>1. IInv => CountIsExact
    BY DEF IInv
<1> QED
    BY <1>1, Invariance, PTL

\* No cut is dropped in the iteration that generated it.
THEOREM FreshCutsStayActive == Spec => []FreshCutsActive
<1>1. IInv => FreshCutsActive
    BY DEF IInv
<1> QED
    BY <1>1, Invariance, PTL

\* The buffers sized when the session starts have room for every slot it will ever
\* occupy, however many warm-start cuts it began with.
THEOREM BuffersSuffice == Spec => []AllocatedSuffices
<1>1. IInv => AllocatedSuffices
    <2> SUFFICES ASSUME IInv, NEW s \in DOMAIN cuts
                 PROVE  s < allocated /\ s < populated
        BY DEF AllocatedSuffices
    <2>1. Frontier \in Nat /\ Frontier <= allocated
        BY FrontierBound DEF IInv
    <2>2. s \in Nat /\ s < Frontier /\ s < populated
        BY DEF IInv, SlotsBehindFrontier
    <2>3. allocated \in Int
        BY SizeAssumption DEF IInv, Counters, PoolCapacity
    <2> QED
        BY <2>1, <2>2, <2>3
<1> QED
    BY <1>1, Invariance, PTL

\* After cut management the pool respects the budget, but for the cuts of the running
\* iteration.
THEOREM BudgetIsRespected == Spec => []BudgetRespected
<1>1. Init => BudgetRespected
    BY DEF Init, BudgetRespected
<1>2. IInv /\ BudgetRespected /\ [Next]_vars => BudgetRespected'
    <2> SUFFICES ASSUME IInv, BudgetRespected, [Next]_vars PROVE BudgetRespected'
        OBVIOUS
    <2>1. CASE ManageCuts
        BY <2>1, ManageCutsInvariant
    <2>2. CASE LowerBound
        BY <2>2 DEF LowerBound, BudgetRespected
    <2>3. CASE ForwardPass \/ ExchangeStates \/ AddCut \/ ParentsSolve \/ EndIteration \/ Resume
        <3>1. phase' \notin {"bound", "boundary"}
            BY <2>3 DEF ForwardPass, ExchangeStates, AddCut, ParentsSolve, EndIteration, Resume
        <3> QED
            BY <3>1 DEF BudgetRespected
    <2>4. CASE UNCHANGED vars
        BY <2>4 DEF vars, BudgetRespected
    <2> QED
        BY <2>1, <2>2, <2>3, <2>4 DEF Next, Terminated
<1> QED
    BY <1>1, <1>2, Invariance, PTL DEF Spec

\* The cuts there are keep their slots, identities, values and generations.
KeptCuts ==
    \A s \in DOMAIN cuts :
        /\ s \in DOMAIN cuts'
        /\ cuts'[s].id = cuts[s].id
        /\ cuts'[s].value = cuts[s].value
        /\ cuts'[s].gen = cuts[s].gen

\* So it is in every step but a resume.
LEMMA StableStep ==
    ASSUME IInv, [Next]_vars, ~Resume
    PROVE  KeptCuts
<1>1. CASE AddCut
    <2>1. SlotIndex(iteration, next) \notin DOMAIN cuts
        BY <1>1, SlotIsFree DEF AddCut
    <2> QED
        BY <1>1, <2>1 DEF AddCut, KeptCuts
<1>2. CASE ParentsSolve
    <2> SUFFICES ASSUME NEW s \in DOMAIN cuts
                 PROVE  /\ s \in DOMAIN cuts'
                        /\ cuts'[s].id = cuts[s].id
                        /\ cuts'[s].value = cuts[s].value
                        /\ cuts'[s].gen = cuts[s].gen
        BY DEF KeptCuts
    <2>1. PICK binding \in SUBSET active :
              cuts' = [t \in DOMAIN cuts |->
                        IF t \in binding
                        THEN [cuts[t] EXCEPT !.uses = @ + 1, !.last = iteration]
                        ELSE cuts[t]]
        BY <1>2 DEF ParentsSolve
    <2>2. IsCut(cuts[s])
        BY DEF IInv, SlotsBehindFrontier
    <2>3. \/ cuts'[s] = cuts[s]
          \/ cuts'[s] = [cuts[s] EXCEPT !.uses = @ + 1, !.last = iteration]
        BY <2>1
    <2>4. s \in DOMAIN cuts'
        BY <2>1
    <2>5. CASE cuts'[s] = cuts[s]
        BY <2>4, <2>5
    <2>6. CASE cuts'[s] = [cuts[s] EXCEPT !.uses = @ + 1, !.last = iteration]
        <3> DEFINE c == cuts[s]
                   d == [c EXCEPT !.uses = @ + 1, !.last = iteration]
        <3>1. d.gen = c.gen /\ d.id = c.id /\ d.value = c.value
            BY <2>2, UsageUpdate
        <3>2. cuts'[s] = d
            BY <2>6
        <3> HIDE DEF d
        <3> QED
            BY <2>4, <3>1, <3>2
    <2> QED
        BY <2>3, <2>5, <2>6
<1>3. CASE UNCHANGED cuts
    BY <1>3 DEF KeptCuts
<1> QED
    BY <1>1, <1>2, <1>3
    DEF Next, ForwardPass, ExchangeStates, ManageCuts, LowerBound, EndIteration, Terminated, vars

\* An occupied slot keeps its cut as long as the session lasts.
THEOREM SlotsKeepTheirCuts == Spec => SlotsAreStable
<1>1. ASSUME IInv, [Next]_vars PROVE [restarts' = restarts => KeptCuts]_vars
    <2>1. CASE Resume
        <3>1. restarts' = restarts + 1
            BY <2>1 DEF Resume
        <3> QED
            BY <1>1, <3>1 DEF IInv, Counters
    <2> QED
        BY <1>1, <2>1, StableStep
<1> QED
    BY <1>1, Invariance, PTL DEF Spec, SlotsAreStable, KeptCuts

----------------------------------------------------------------------------
(* Slots in order *)

Below(S, s) == {t \in S : t < s}
Rank(S, s) == Cardinality(Below(S, s))

\* A non-empty finite set of integers has a greatest element.
LEMMA GreatestInteger ==
    ASSUME NEW S \in SUBSET Int, IsFiniteSet(S), S # {}
    PROVE  Max(S) \in S /\ \A x \in S : x <= Max(S)
<1> DEFINE Above(x) == {y \in S : x < y}
           tallies == {Cardinality(Above(x)) : x \in S}
<1>1. \A x \in S : IsFiniteSet(Above(x)) /\ Cardinality(Above(x)) \in Nat
    BY FS_Subset, FS_CardinalityType
<1>2. tallies \in SUBSET Nat /\ tallies # {}
    BY <1>1
<1>3. PICK m \in S : \A x \in S : Cardinality(Above(m)) <= Cardinality(Above(x))
    <2>1. Min(tallies) \in tallies /\ \A k \in tallies : Min(tallies) <= k
        BY <1>2, LeastNatural
    <2> QED
        BY <2>1
<1>4. ASSUME NEW y \in S, m < y PROVE FALSE
    <2>0. \A x \in S : x \in Int
        OBVIOUS
    <2>1. Above(y) \in SUBSET Above(m) /\ y \in Above(m) /\ y \notin Above(y)
        <3>1. \A x \in S : y < x => m < x
            BY <1>4, <2>0
        <3>2. y \in Int /\ ~(y < y)
            BY <2>0
        <3> QED
            BY <1>4, <3>1, <3>2
    <2>2. /\ Cardinality(Above(y)) <= Cardinality(Above(m))
          /\ Cardinality(Above(m)) = Cardinality(Above(y)) => Above(m) = Above(y)
        BY <1>1, <2>1, FS_Subset
    <2>3. Cardinality(Above(m)) <= Cardinality(Above(y))
        BY <1>3, <1>4
    <2>4. Cardinality(Above(m)) = Cardinality(Above(y))
        BY <1>1, <1>4, <2>2, <2>3
    <2> QED
        BY <2>1, <2>2, <2>4
<1>5. \A y \in S : y <= m
    BY <1>4
<1> QED
    BY <1>5 DEF Max

\* The rank of a slot is below the number of slots and grows with the slot.
LEMMA RankFacts ==
    ASSUME NEW S \in SUBSET Nat, IsFiniteSet(S), NEW s \in S
    PROVE  /\ Rank(S, s) \in 0 .. Cardinality(S) - 1
           /\ \A t \in S : s < t => Rank(S, s) < Rank(S, t)
<1>1. ASSUME NEW T \in SUBSET S, Below(S, s) \subseteq T, s \in T
      PROVE  Rank(S, s) \in Nat /\ Rank(S, s) < Cardinality(T) /\ Cardinality(T) \in Nat
    <2>1. IsFiniteSet(T) /\ Cardinality(T) \in Nat
        BY FS_Subset, FS_CardinalityType
    <2>2. s \notin Below(S, s)
        BY DEF Below
    <2>3. /\ IsFiniteSet(Below(S, s)) /\ Cardinality(Below(S, s)) <= Cardinality(T)
          /\ Cardinality(T) = Cardinality(Below(S, s)) => T = Below(S, s)
        BY <1>1, <2>1, FS_Subset
    <2>4. Cardinality(Below(S, s)) \in Nat
        BY <2>3, FS_CardinalityType
    <2> QED
        BY <1>1, <2>1, <2>2, <2>3, <2>4 DEF Rank
<1>2. Below(S, s) \subseteq S
    BY DEF Below
<1>3. Rank(S, s) \in 0 .. Cardinality(S) - 1
    BY <1>1, <1>2
<1>4. ASSUME NEW t \in S, s < t PROVE Rank(S, s) < Rank(S, t)
    <2>1. Below(S, t) \in SUBSET S /\ Below(S, s) \subseteq Below(S, t) /\ s \in Below(S, t)
        <3>1. \A x \in S : x \in Nat
            OBVIOUS
        <3>2. \A x \in S : x < s => x < t
            BY <1>4, <3>1
        <3> QED
            BY <1>4, <3>2 DEF Below
    <2> QED
        BY <1>1, <2>1 DEF Rank
<1> QED
    BY <1>3, <1>4

\* What lies below the greatest slot is all but that slot.
LEMMA GreatestRank ==
    ASSUME NEW S \in SUBSET Nat, NEW B \in SUBSET S, IsFiniteSet(B), B # {},
           \A t \in S, b \in B : t < b => t \in B
    PROVE  \E m \in B : Rank(S, m) = Cardinality(B) - 1
<1>1. PICK m \in B : \A x \in B : x <= m
    <2>1. B \in SUBSET Int
        OBVIOUS
    <2> QED
        BY <2>1, GreatestInteger
<1>2. \A x \in S : x \in Nat
    OBVIOUS
<1>3. Below(S, m) = B \ {m}
    <2>1. ASSUME NEW x \in S PROVE x < m <=> x \in B \ {m}
        <3>1. x \in Nat /\ m \in Nat
            BY <1>2
        <3>2. x < m => x \in B /\ x # m
            BY <3>1
        <3>3. x \in B /\ x # m => x < m
            BY <1>1, <3>1
        <3> QED
            BY <3>2, <3>3
    <2> QED
        BY <2>1 DEF Below
<1>4. Cardinality(B \ {m}) = Cardinality(B) - 1
    BY <1>1, FS_RemoveElement
<1> QED
    BY <1>3, <1>4 DEF Rank

\* Every rank below the number of slots is taken.
LEMMA RankExists ==
    ASSUME NEW S \in SUBSET Nat, IsFiniteSet(S), NEW k \in 0 .. Cardinality(S) - 1
    PROVE  \E s \in S : Rank(S, s) = k
<1> DEFINE T == {t \in S : k <= Rank(S, t)}
<1>0. Cardinality(S) \in Nat /\ k \in Nat /\ k < Cardinality(S)
    BY FS_CardinalityType
<1>1. T # {}
    <2>1. S # {}
        BY <1>0, FS_EmptySet
    <2>2. PICK m \in S : Rank(S, m) = Cardinality(S) - 1
        BY <2>1, GreatestRank
    <2> QED
        BY <1>0, <2>2
<1>2. PICK low \in T : \A t \in T : low <= t
    <2>1. T \in SUBSET Nat
        OBVIOUS
    <2> HIDE DEF T
    <2> QED
        BY <1>1, <2>1, LeastNatural
<1>3. low \in S /\ low \in Nat /\ k <= Rank(S, low)
    BY <1>2
<1>4. Rank(S, low) \in Nat
    BY <1>0, <1>3, RankFacts
<1>5. ASSUME k < Rank(S, low) PROVE FALSE
    <2> DEFINE B == Below(S, low)
    <2>1. B \in SUBSET S /\ \A t \in B : t < low
        BY DEF Below
    <2>2. IsFiniteSet(B)
        BY <2>1, FS_Subset
    <2>3. B # {}
        BY <1>0, <1>4, <1>5, FS_EmptySet DEF Rank
    <2>4. \A t \in S, b \in B : t < b => t \in B
        BY <1>3 DEF Below
    <2>5. PICK m \in B : Rank(S, m) = Cardinality(B) - 1
        BY <2>1, <2>2, <2>3, <2>4, GreatestRank
    <2>6. Cardinality(B) = Rank(S, low)
        BY DEF Rank
    <2>7. m \in T
        BY <1>0, <1>4, <1>5, <2>1, <2>5, <2>6
    <2>8. m < low /\ low <= m /\ m \in Nat
        BY <1>2, <2>1, <2>7
    <2> QED
        BY <1>3, <2>8
<1> QED
    BY <1>0, <1>3, <1>4, <1>5

\* InOrder lists every slot of a finite set once, by rank.
LEMMA InOrderFacts ==
    ASSUME NEW S \in SUBSET Nat, IsFiniteSet(S)
    PROVE  /\ Cardinality(S) \in Nat
           /\ InOrder(S) \in [1 .. Cardinality(S) -> S]
           /\ Len(InOrder(S)) = Cardinality(S)
           /\ \A i \in 1 .. Cardinality(S) : Rank(S, InOrder(S)[i]) = i - 1
           /\ \A s \in S : \E i \in 1 .. Cardinality(S) : InOrder(S)[i] = s
           /\ Range(InOrder(S)) = S
           /\ IsInjective(InOrder(S))
<1> DEFINE n == Cardinality(S)
           o == InOrder(S)
<1>1. n \in Nat
    BY FS_CardinalityType
<1>2. ASSUME NEW i \in 1 .. n
      PROVE  o[i] \in S /\ Rank(S, o[i]) = i - 1
    <2>1. \E s \in S : Rank(S, s) = i - 1
        BY <1>1, RankExists
    <2>2. o[i] = CHOOSE s \in S : Rank(S, s) = i - 1
        BY DEF InOrder, Rank, Below
    <2> QED
        BY <2>1, <2>2
<1>3. DOMAIN o = 1 .. n
    BY DEF InOrder
<1>4. o \in [1 .. n -> S]
    BY <1>2, <1>3 DEF InOrder
<1>5. Len(o) = n
    BY <1>1 DEF InOrder
<1>6. ASSUME NEW s \in S PROVE \E i \in 1 .. n : o[i] = s
    <2> DEFINE i == Rank(S, s) + 1
    <2>1. i \in 1 .. n
        BY <1>1, RankFacts
    <2>2. o[i] \in S /\ Rank(S, o[i]) = Rank(S, s)
        BY <1>2, <2>1, RankFacts
    <2>3. o[i] \in Nat /\ s \in Nat
        BY <2>2
    <2>4. ~(o[i] < s) /\ ~(s < o[i])
        <3>1. o[i] < s => Rank(S, o[i]) < Rank(S, s)
            BY <2>2, RankFacts
        <3>2. s < o[i] => Rank(S, s) < Rank(S, o[i])
            BY <2>2, RankFacts
        <3>3. Rank(S, s) \in Int
            BY <1>1, RankFacts
        <3> QED
            BY <2>2, <3>1, <3>2, <3>3
    <2>5. o[i] = s
        BY <2>3, <2>4
    <2> QED
        BY <2>1, <2>5
<1>7. \A i, j \in 1 .. n : o[i] = o[j] => i = j
    BY <1>1, <1>2
<1> HIDE DEF n, o
<1>8. Range(o) = S
    BY <1>2, <1>3, <1>6 DEF Range
<1>9. IsInjective(o)
    BY <1>3, <1>7 DEF IsInjective
<1> QED
    BY <1>1, <1>2, <1>4, <1>5, <1>6, <1>8, <1>9 DEF n, o

\* The members of an interval are in order as they are.
LEMMA InOrderInterval ==
    ASSUME NEW a \in Nat, NEW b \in Int, NEW S, NEW n \in Nat, S = a .. b, n = b - a + 1
    PROVE  /\ Len(InOrder(S)) = n
           /\ \A i \in 1 .. n : InOrder(S)[i] = a + i - 1
<1>1. S \in SUBSET Nat /\ IsFiniteSet(S) /\ Cardinality(S) = n
    BY FS_Interval
<1>2. ASSUME NEW i \in 1 .. n PROVE InOrder(S)[i] = a + i - 1
    <2>1. InOrder(S)[i] \in S /\ Rank(S, InOrder(S)[i]) = i - 1
        BY <1>1, InOrderFacts
    <2>2. ASSUME NEW s \in S PROVE Rank(S, s) = s - a
        <3>1. s \in Nat /\ a <= s
            BY <1>1
        <3>2. Below(S, s) = a .. s - 1
            <4>1. \A t \in S : t < s => t \in a .. s - 1
                BY <3>1
            <4>2. \A t \in a .. s - 1 : t \in S /\ t < s
                <5>1. s \in a .. b
                    OBVIOUS
                <5>2. \A t \in a .. s - 1 : t \in a .. b /\ t < s
                    BY <3>1, <5>1
                <5> QED
                    BY <5>2
            <4> QED
                BY <4>1, <4>2 DEF Below
        <3>3. Cardinality(a .. s - 1) = s - a
            <4>1. a \in Int /\ s - 1 \in Int
                BY <3>1
            <4>2. Cardinality(a .. s - 1) = IF a > s - 1 THEN 0 ELSE (s - 1) - a + 1
                BY <4>1, FS_Interval, Zenon
            <4> QED
                BY <3>1, <4>2
        <3> QED
            BY <3>2, <3>3 DEF Rank
    <2>4. InOrder(S)[i] - a = i - 1 /\ InOrder(S)[i] \in Nat
        BY <1>1, <2>1, <2>2
    <2> QED
        BY <2>4
<1>3. Len(InOrder(S)) = n
    BY <1>1, InOrderFacts
<1> QED
    BY <1>2, <1>3

\* So are positions.
LEMMA PositionsInOrder ==
    ASSUME NEW n \in Nat
    PROVE  Len(InOrder(1 .. n)) = n /\ \A i \in 1 .. n : InOrder(1 .. n)[i] = i
<1> DEFINE S == 1 .. n
<1>1. 1 \in Nat /\ n \in Int /\ S = 1 .. n /\ n = n - 1 + 1
    OBVIOUS
<1> HIDE DEF S
<1>2. Len(InOrder(S)) = n /\ \A i \in 1 .. n : InOrder(S)[i] = 1 + i - 1
    BY <1>1, InOrderInterval
<1> QED
    BY <1>2 DEF S

\* And so are the slots of a pool without gaps.
LEMMA SlotsInOrder ==
    ASSUME NEW n \in Nat
    PROVE  Len(InOrder(0 .. n - 1)) = n /\ \A i \in 1 .. n : InOrder(0 .. n - 1)[i] = i - 1
<1> DEFINE S == 0 .. n - 1
           a == 0
           b == n - 1
<1>1. a \in Nat /\ b \in Int /\ S = a .. b /\ n = b - a + 1
    OBVIOUS
<1> HIDE DEF S, a, b
<1>2. Len(InOrder(S)) = n /\ \A i \in 1 .. n : InOrder(S)[i] = a + i - 1
    BY <1>1, InOrderInterval
<1> QED
    BY <1>2 DEF S, a

----------------------------------------------------------------------------
(* The cuts and the checkpoint *)

CutValues == [Points -> Values]

\* A cut a step adds comes from add_cut and is of the running iteration.
LEMMA NewCut ==
    ASSUME [Next]_vars, ~Resume, NEW s \in DOMAIN cuts', s \notin DOMAIN cuts
    PROVE  /\ cuts'[s].value \in CutValues /\ cuts'[s].gen = iteration
           /\ iteration' = iteration /\ phase = "backward" /\ phase' = "backward"
<1>1. CASE AddCut
    BY <1>1 DEF AddCut, CutValues
<1>2. CASE ~AddCut
    <2>1. DOMAIN cuts' = DOMAIN cuts
        BY <1>2 DEF Next, vars, ForwardPass, ExchangeStates, ParentsSolve, ManageCuts,
                    LowerBound, EndIteration, Terminated
    <2> QED
        BY <2>1
<1> QED
    BY <1>1, <1>2

\* What the active records of a checkpoint say at p
SavedValues(p) ==
    {disk.records[i].value[p] : i \in {j \in 1 .. Len(disk.records) : disk.records[j].active}}

\* Cuts are defined at every point, and so are the saved ones; the value function
\* that was saved is that of the active records.
Content ==
    /\ \A s \in DOMAIN cuts : cuts[s].value \in CutValues
    /\ \A i \in 1 .. Len(disk.records) : disk.records[i].value \in CutValues
    /\ disk.completed > 0 => \A p \in Points : diskValue[p] = Max({-1} \cup SavedValues(p))

\* The records of a checkpoint, in slot order.
LEMMA RecordFacts ==
    ASSUME IInv
    PROVE  LET slots == InOrder(DOMAIN cuts)
               n == Cardinality(DOMAIN cuts)
           IN  /\ n \in Nat /\ Len(CutRecords) = n /\ Len(slots) = n
               /\ \A i \in 1 .. n :
                     /\ slots[i] \in DOMAIN cuts
                     /\ CutRecords[i].slot = slots[i]
                     /\ CutRecords[i].value = cuts[slots[i]].value
                     /\ CutRecords[i].id = cuts[slots[i]].id
                     /\ CutRecords[i].fpi = cuts[slots[i]].fpi
                     /\ CutRecords[i].iteration = AsU32(cuts[slots[i]].gen)
                     /\ CutRecords[i].active = (slots[i] \in active)
               /\ \A s \in DOMAIN cuts : \E i \in 1 .. n : slots[i] = s
<1> DEFINE slots == InOrder(DOMAIN cuts)
           n == Cardinality(DOMAIN cuts)
           rec(i) == LET c == cuts[slots[i]]
                     IN  [slot |-> slots[i], iteration |-> AsU32(c.gen), fpi |-> c.fpi,
                          value |-> c.value, active |-> slots[i] \in active, id |-> c.id]
<1>1. DOMAIN cuts \in SUBSET Nat /\ IsFiniteSet(DOMAIN cuts)
    BY FiniteSlots DEF IInv, SlotsBehindFrontier
<1>2. /\ n \in Nat /\ Len(slots) = n /\ slots \in [1 .. n -> DOMAIN cuts]
      /\ \A s \in DOMAIN cuts : \E i \in 1 .. n : slots[i] = s
    BY <1>1, InOrderFacts
<1>3. CutRecords = [i \in 1 .. n |-> rec(i)]
    BY <1>2 DEF CutRecords
<1>4. \A i \in 1 .. n : CutRecords[i] = rec(i)
    BY <1>3
<1>5. Len(CutRecords) = n
    <2> HIDE DEF n, rec
    <2> QED
        BY <1>2, <1>3
<1> HIDE DEF n, slots
<1> QED
    BY <1>2, <1>4, <1>5 DEF n, slots

\* A run starts with no cut and no checkpoint.
LEMMA ContentInit == Init => Content
BY SizeAssumption DEF Init, Content, NoCheckpoint

\* add_cut brings the only new values; a checkpoint saves, and a reload takes, what is there.
LEMMA ContentStep == IInv /\ Content /\ [Next]_vars => Content'
<1> SUFFICES ASSUME IInv, Content, [Next]_vars PROVE Content'
    OBVIOUS
<1>1. CASE Resume
    <2>1. disk' = disk /\ diskValue' = diskValue /\ cuts' = WarmCuts(disk.records)
        BY <1>1 DEF Resume
    <2>2. \A s \in DOMAIN cuts' : cuts'[s].value \in CutValues
        <3> SUFFICES ASSUME NEW s \in DOMAIN cuts' PROVE cuts'[s].value \in CutValues
            OBVIOUS
        <3>1. Len(disk.records) \in Nat
            BY DEF IInv, Counters
        <3>2. s + 1 \in 1 .. Len(disk.records)
            BY <2>1, <3>1 DEF WarmCuts
        <3>3. cuts'[s].value = disk.records[s + 1].value
            BY <2>1 DEF WarmCuts
        <3> QED
            BY <3>2, <3>3 DEF Content
    <2> QED
        BY <2>1, <2>2 DEF Content, SavedValues
<1>2. CASE ~Resume
    <2>1. \A s \in DOMAIN cuts' : cuts'[s].value \in CutValues
        BY <1>2, StableStep, NewCut DEF Content, KeptCuts
    <2>2. CASE UNCHANGED <<disk, diskValue>>
        BY <2>1, <2>2 DEF Content, SavedValues
    <2>3. CASE /\ disk' = [completed |-> iteration, records |-> CutRecords, basis |-> BasisRecord]
               /\ diskValue' = [p \in Points |-> Value(p)]
        <3> DEFINE slots == InOrder(DOMAIN cuts)
                   n == Cardinality(DOMAIN cuts)
        <3>1. disk'.records = CutRecords /\ diskValue' = [p \in Points |-> Value(p)]
            BY <2>3
        <3>2. /\ Len(CutRecords) = n
              /\ \A i \in 1 .. n :
                    /\ slots[i] \in DOMAIN cuts
                    /\ CutRecords[i].value = cuts[slots[i]].value
                    /\ CutRecords[i].active = (slots[i] \in active)
              /\ \A s \in DOMAIN cuts : \E i \in 1 .. n : slots[i] = s
            BY RecordFacts
        <3> HIDE DEF slots, n
        <3>3. \A i \in 1 .. Len(disk'.records) : disk'.records[i].value \in CutValues
            BY <3>1, <3>2 DEF Content
        <3>4. ASSUME NEW p \in Points
              PROVE  SavedValues(p)' = {cuts[s].value[p] : s \in active}
            <4> DEFINE live == {j \in 1 .. n : CutRecords[j].active}
            <4>1. SavedValues(p)' = {CutRecords[i].value[p] : i \in live}
                BY <3>1, <3>2 DEF SavedValues
            <4>2. \A i \in live : slots[i] \in active /\ CutRecords[i].value = cuts[slots[i]].value
                BY <3>2
            <4>3. \A s \in active : \E i \in live : slots[i] = s
                BY <3>2 DEF IInv, CountIsExact
            <4> QED
                BY <4>1, <4>2, <4>3
        <3>5. \A p \in Points : diskValue'[p] = Max({-1} \cup {cuts[s].value[p] : s \in active})
            BY <3>1 DEF Value, ValueAt
        <3> QED
            BY <2>1, <3>3, <3>4, <3>5 DEF Content
    <2> QED
        BY <1>2, <2>2, <2>3 DEF Next, vars, saved, ForwardPass, ExchangeStates, AddCut,
           ParentsSolve, ManageCuts, LowerBound, EndIteration, Terminated
<1> QED
    BY <1>1, <1>2

\* A resumed run starts from the value function of its checkpoint, whatever slots its
\* cuts get (new_with_warm_start).
THEOREM ResumeIsFaithful == Spec => ResumeKeepsValue
<1> DEFINE Restored == restarts' = restarts + 1 =>
              \A p \in Points : ValueAt(cuts', active', p) = diskValue[p]
<1>1. ASSUME IInv, Content, [Next]_vars, restarts' = restarts + 1, NEW p \in Points
      PROVE  ValueAt(cuts', active', p) = diskValue[p]
    <2>1. restarts \in Nat
        BY <1>1 DEF IInv, Counters
    <2>2. Resume
        <3>1. restarts' # restarts
            BY <1>1, <2>1
        <3>2. ~UNCHANGED vars
            BY <3>1 DEF vars, saved
        <3>3. ~(ForwardPass \/ ExchangeStates \/ AddCut \/ ParentsSolve \/ ManageCuts \/ LowerBound)
            BY <3>1 DEF saved, ForwardPass, ExchangeStates, AddCut, ParentsSolve, ManageCuts,
               LowerBound
        <3>4. ~EndIteration
            BY <3>1 DEF EndIteration
        <3> QED
            BY <1>1, <3>2, <3>3, <3>4 DEF Next, Terminated
    <2> DEFINE records == disk.records
               n == Len(records)
               live == {j \in 1 .. n : records[j].active}
    <2>3. n \in Nat
        BY <1>1 DEF IInv, Counters
    <2>4. active' = {s \in 0 .. n - 1 : records[s + 1].active}
        BY <2>2 DEF Resume
    <2>5. \A s \in 0 .. n - 1 : cuts'[s].value = records[s + 1].value
        BY <2>2 DEF Resume, WarmCuts
    <2>6. \A s \in active' : s + 1 \in live /\ cuts'[s].value = records[s + 1].value
        BY <2>3, <2>4, <2>5
    <2>7. \A j \in live : j - 1 \in active' /\ (j - 1) + 1 = j
        BY <2>3, <2>4
    <2>8. {cuts'[s].value[p] : s \in active'} = {records[j].value[p] : j \in live}
        <3>1. \A j \in live : cuts'[j - 1].value = records[j].value
            BY <2>6, <2>7
        <3> HIDE DEF live
        <3> QED
            BY <2>6, <2>7, <3>1
    <2>9. disk.completed > 0
        BY <2>2 DEF Resume
    <2> QED
        BY <1>1, <2>8, <2>9 DEF ValueAt, Content, SavedValues
<1>2. Spec => [](IInv /\ Content)
    BY Invariance, ContentInit, ContentStep, PTL DEF Spec
<1>3. IInv /\ Content /\ [Next]_vars => [Restored]_vars
    BY <1>1
<1> QED
    BY <1>2, <1>3, PTL DEF Spec, ResumeKeepsValue

----------------------------------------------------------------------------
(* Selection *)

\* The value of a set of cuts at a point bounds each of them, and is -1 or one of them.
LEMMA ValueFacts ==
    ASSUME IInv, Content, NEW S \in SUBSET DOMAIN cuts, NEW p \in Points
    PROVE  /\ ValueAt(cuts, S, p) \in Int
           /\ -1 <= ValueAt(cuts, S, p)
           /\ \A s \in S : cuts[s].value[p] \in Int /\ cuts[s].value[p] <= ValueAt(cuts, S, p)
           /\ ValueAt(cuts, S, p) = -1 \/ \E s \in S : ValueAt(cuts, S, p) = cuts[s].value[p]
<1> DEFINE image == {cuts[s].value[p] : s \in S}
           f == [s \in S |-> cuts[s].value[p]]
<1>1. \A s \in S : cuts[s].value[p] \in Int
    <2>1. \A s \in S : cuts[s].value \in [Points -> Values]
        BY DEF Content, CutValues
    <2>2. \A s \in S : cuts[s].value[p] \in Values
        BY <2>1
    <2>3. \A v \in Values : v \in Int
        BY PolicyAssumption
    <2> QED
        BY <2>2, <2>3
<1>2. IsFiniteSet(S)
    BY FiniteSlots, FS_Subset
<1>3. IsFiniteSet(image)
    <2>1. f \in Surjection(S, image)
        BY DEF Surjection
    <2> QED
        BY <1>2, <2>1, FS_Surjection
<1>4. IsFiniteSet({-1} \cup image)
    BY <1>3, FS_AddElement
<1>5. {-1} \cup image \in SUBSET Int /\ {-1} \cup image # {}
    BY <1>1
<1>6. ValueAt(cuts, S, p) = Max({-1} \cup image)
    BY DEF ValueAt
<1>7. /\ ValueAt(cuts, S, p) \in {-1} \cup image
      /\ \A x \in {-1} \cup image : x <= ValueAt(cuts, S, p)
    <2> HIDE DEF image
    <2> QED
        BY <1>4, <1>5, <1>6, GreatestInteger
<1>8. ValueAt(cuts, S, p) \in Int
    BY <1>1, <1>7
<1> QED
    BY <1>1, <1>7, <1>8

\* In a run that was not resumed every cut has an iteration of this run.
NoneReloaded ==
    /\ warm = 0
    /\ \A s \in DOMAIN cuts : cuts[s].gen \in 1 .. iteration
    /\ visited \in Seq(Points)

\* The archive of visited states grows by an exchange and shrinks to its window.
LEMMA VisitedStep ==
    ASSUME visited \in Seq(Points), [Next]_vars, ~Resume
    PROVE  visited' \in Seq(Points)
<1>1. CASE ExchangeStates
    <2>1. visited' = visited \/ \E n \in 1 .. ForwardPasses :
              \E states \in [1 .. n -> Points] : visited' = visited \o states
        BY <1>1 DEF ExchangeStates
    <2>2. \A n \in 1 .. ForwardPasses : \A states \in [1 .. n -> Points] : states \in Seq(Points)
        BY SizeAssumption
    <2>3. \A s, t \in Seq(Points) : s \o t \in Seq(Points)
        OBVIOUS
    <2>4. visited \in Seq(Points)
        OBVIOUS
    <2> QED
        BY <2>1, <2>2, <2>3, <2>4, Zenon
<1>2. CASE ManageCuts
    <2>1. visited' = Trimmed
        BY <1>2 DEF ManageCuts
    <2> DEFINE window == CheckFrequency * ForwardPasses
    <2>2. window \in Nat
        BY SizeAssumption, PolicyAssumption
    <2>3. window < Len(visited) =>
             SubSeq(visited, Len(visited) - window + 1, Len(visited)) \in Seq(Points)
        <3> HIDE DEF window
        <3> QED
            BY <2>2
    <2> QED
        BY <2>1, <2>2, <2>3 DEF Trimmed
<1>3. CASE UNCHANGED visited
    BY <1>3
<1> QED
    BY <1>1, <1>2, <1>3 DEF Next, vars, ForwardPass, AddCut, ParentsSolve,
       LowerBound, EndIteration, Terminated

\* Without a resume the cuts stay those of this run.
LEMMA NoneReloadedStep ==
    ASSUME MaxRestarts = 0, IInv, NoneReloaded, [Next]_vars
    PROVE  NoneReloaded'
<1>1. ~Resume
    BY DEF Resume, IInv, Counters
<1>2. iteration \in Int /\ iteration' \in {iteration, iteration + 1}
    <2>1. CASE EndIteration
        BY <2>1 DEF EndIteration, IInv, Counters
    <2>2. CASE UNCHANGED iteration
        BY <2>2 DEF IInv, Counters
    <2> QED
        BY <1>1, <2>1, <2>2 DEF Next, vars, ForwardPass, ExchangeStates, AddCut, ParentsSolve,
           ManageCuts, LowerBound, Terminated
<1>3. \A s \in DOMAIN cuts' : cuts'[s].gen \in 1 .. iteration'
    <2>1. ASSUME NEW s \in DOMAIN cuts PROVE cuts'[s].gen \in 1 .. iteration'
        <3>1. cuts'[s].gen = cuts[s].gen
            BY <1>1, StableStep DEF KeptCuts
        <3> QED
            BY <1>2, <3>1 DEF NoneReloaded
    <2>2. ASSUME NEW s \in DOMAIN cuts', s \notin DOMAIN cuts PROVE cuts'[s].gen \in 1 .. iteration'
        <3>1. cuts'[s].gen = iteration /\ iteration' = iteration
            BY <1>1, <2>2, NewCut
        <3>2. iteration \in Nat /\ 1 <= iteration
            BY SizeAssumption DEF IInv, Counters
        <3> QED
            BY <3>1, <3>2
    <2> QED
        BY <2>1, <2>2
<1>4. warm' = warm
    BY <1>1 DEF Next, vars, sizes, ForwardPass, ExchangeStates, AddCut, ParentsSolve,
                ManageCuts, LowerBound, EndIteration, Terminated
<1>5. visited' \in Seq(Points)
    BY <1>1, VisitedStep DEF NoneReloaded
<1> QED
    BY <1>3, <1>4, <1>5 DEF NoneReloaded

\* At a state looked at, a cut near the best one stays or comes back, unless the best
\* is of this iteration, and stays for that.
LEMMA SelectionLossless ==
    ASSUME IInv, Content, NoneReloaded, SelectionApplies, NEW p \in Range(visited)
    PROVE  ValueAt(cuts, DOMAIN cuts, p) - TieTolerance <= ValueAt(cuts, ActiveAfterSelection, p)
<1> DEFINE best == ValueAt(cuts, DOMAIN cuts, p)
           now == ValueAt(cuts, ActiveAfterSelection, p)
           near == {s \in Eligible : best - TieTolerance <= cuts[s].value[p]}
<1>0. p \in Points /\ TieTolerance \in Nat
    BY PolicyAssumption DEF NoneReloaded, Range
<1>1. /\ best \in Int /\ -1 <= best
      /\ best = -1 \/ \E s \in DOMAIN cuts : best = cuts[s].value[p]
    BY <1>0, ValueFacts
<1>2. ActiveAfterSelection \in SUBSET DOMAIN cuts
    BY SelectionEffect
<1>3. /\ now \in Int /\ -1 <= now
      /\ \A s \in ActiveAfterSelection : cuts[s].value[p] \in Int /\ cuts[s].value[p] <= now
    BY <1>0, <1>2, ValueFacts
<1>4. \A s \in ActiveAfterSelection : best - TieTolerance <= cuts[s].value[p] =>
          best - TieTolerance <= now
    BY <1>0, <1>1, <1>3
<1>5. \A s \in Selected : s \in ActiveAfterSelection
    BY DEF ActiveAfterSelection, Deactivations, Reactivations
<1>6. CASE best = -1
    BY <1>0, <1>3, <1>6
<1>7. ASSUME NEW s \in DOMAIN cuts, best = cuts[s].value[p] PROVE best - TieTolerance <= now
    <2>1. CASE s \in Eligible
        <3>1. s \in near
            BY <1>0, <1>1, <1>7, <2>1
        <3>2. near \in SUBSET Nat
            BY DEF Eligible, IInv, SlotsBehindFrontier
        <3>3. Min(near) \in near
            BY <3>1, <3>2, LeastNatural
        <3>4. SelectedAt(p) = IF Strategy = "lml1" /\ near # {} THEN {Min(near)} ELSE near
            BY <1>0, <1>1 DEF SelectedAt
        <3>5. PICK t \in SelectedAt(p) : t \in near
            BY <3>1, <3>3, <3>4
        <3>6. t \in Selected
            BY DEF Selected
        <3> QED
            BY <1>4, <1>5, <3>5, <3>6
    <2>2. CASE s \notin Eligible
        <3>1. s \in Nat /\ cuts[s].gen \in 1 .. iteration /\ iteration \in Int /\ warm = 0
            BY DEF IInv, SlotsBehindFrontier, NoneReloaded, Counters
        <3>2. cuts[s].gen = iteration
            BY <2>2, <3>1 DEF Eligible
        <3>3. s \in ActiveAfterSelection
            BY <3>2, SelectionEffect
        <3> QED
            BY <1>0, <1>1, <1>4, <1>7, <3>3
    <2> QED
        BY <2>1, <2>2
<1> QED
    BY <1>1, <1>6, <1>7

\* In a run that was not resumed a selection loses no value at the states it looks at
\* (select_for_stage).
THEOREM SelectionIsLossless ==
    ASSUME MaxRestarts = 0
    PROVE  Spec => []SelectionKeepsValue
<1>1. Init => NoneReloaded
    BY DEF Init, NoneReloaded
<1>2. IInv /\ NoneReloaded /\ [Next]_vars => NoneReloaded'
    BY NoneReloadedStep
<1>3. IInv /\ Content /\ NoneReloaded => SelectionKeepsValue
    <2> SUFFICES ASSUME IInv, Content, NoneReloaded, SelectionApplies, NEW p \in Range(visited)
                 PROVE  ValueAt(cuts, ActiveAfterSelection, p)
                            >= ValueAt(cuts, DOMAIN cuts, p) - TieTolerance
        BY DEF SelectionKeepsValue
    <2>1. ActiveAfterSelection \in SUBSET DOMAIN cuts /\ p \in Points
        BY SelectionEffect DEF NoneReloaded, Range
    <2>2. ValueAt(cuts, ActiveAfterSelection, p) \in Int /\ ValueAt(cuts, DOMAIN cuts, p) \in Int
        BY <2>1, ValueFacts
    <2> QED
        BY <2>2, SelectionLossless, PolicyAssumption
<1> QED
    BY <1>1, <1>2, <1>3, Invariance, ContentInit, ContentStep, PTL DEF Spec

----------------------------------------------------------------------------
(* The lower-bound LP *)

\* What two sequences of values look like in their concatenation.
LEMMA Joined ==
    \A a, b \in Seq(CutValues) :
        /\ a \o b \in Seq(CutValues)
        /\ Len(a \o b) = Len(a) + Len(b)
        /\ \A i \in 1 .. Len(a) : (a \o b)[i] = a[i]
        /\ \A i \in 1 .. Len(b) : (a \o b)[Len(a) + i] = b[i]
OBVIOUS

\* Appending other slots to distinct ones.
LEMMA AppendSlots ==
    ASSUME NEW r \in Seq(Nat), NEW q \in Seq(Nat), IsInjective(r), IsInjective(q),
           Range(r) \cap Range(q) = {}
    PROVE  /\ r \o q \in Seq(Nat) /\ Len(r \o q) = Len(r) + Len(q)
           /\ \A i \in 1 .. Len(r) : (r \o q)[i] = r[i]
           /\ \A i \in 1 .. Len(q) : (r \o q)[Len(r) + i] = q[i]
           /\ \A i \in 1 .. Len(r) + Len(q) : i \in 1 .. Len(r) \/ i - Len(r) \in 1 .. Len(q)
           /\ IsInjective(r \o q)
           /\ Range(r \o q) = Range(r) \cup Range(q)
<1> DEFINE c == r \o q
<1>0. Len(r) \in Nat /\ Len(q) \in Nat /\ DOMAIN r = 1 .. Len(r) /\ DOMAIN q = 1 .. Len(q)
    OBVIOUS
<1>1. c \in Seq(Nat) /\ Len(c) = Len(r) + Len(q) /\ DOMAIN c = 1 .. Len(r) + Len(q)
    OBVIOUS
<1>2. \A i \in 1 .. Len(r) : c[i] = r[i]
    OBVIOUS
<1>3. \A i \in 1 .. Len(q) : c[Len(r) + i] = q[i]
    OBVIOUS
<1>4. \A i \in 1 .. Len(r) + Len(q) : i \in 1 .. Len(r) \/ i - Len(r) \in 1 .. Len(q)
    BY <1>0
<1>5. \A i \in 1 .. Len(r) + Len(q) : i \notin 1 .. Len(r) => c[i] = q[i - Len(r)]
    <2> SUFFICES ASSUME NEW i \in 1 .. Len(r) + Len(q), i \notin 1 .. Len(r)
                 PROVE  c[i] = q[i - Len(r)]
        OBVIOUS
    <2>1. i - Len(r) \in 1 .. Len(q) /\ Len(r) + (i - Len(r)) = i
        BY <1>0
    <2> QED
        BY <1>3, <2>1
<1> HIDE DEF c
<1>6. \A i \in 1 .. Len(r), j \in 1 .. Len(q) : r[i] # q[j]
    BY <1>0 DEF Range
<1>7. IsInjective(c)
    <2> SUFFICES ASSUME NEW i \in 1 .. Len(r) + Len(q), NEW j \in 1 .. Len(r) + Len(q), c[i] = c[j]
                 PROVE  i = j
        BY <1>1 DEF IsInjective
    <2>1. CASE i \in 1 .. Len(r) /\ j \in 1 .. Len(r)
        BY <1>0, <1>2, <2>1 DEF IsInjective
    <2>2. CASE i \notin 1 .. Len(r) /\ j \notin 1 .. Len(r)
        <3>1. i - Len(r) \in DOMAIN q /\ j - Len(r) \in DOMAIN q
            BY <1>0, <1>4, <2>2
        <3>2. i - Len(r) = j - Len(r)
            BY <1>5, <2>2, <3>1 DEF IsInjective
        <3> QED
            BY <1>0, <3>2
    <2>3. CASE i \in 1 .. Len(r) /\ j \notin 1 .. Len(r)
        BY <1>2, <1>4, <1>5, <1>6, <2>3
    <2>4. CASE i \notin 1 .. Len(r) /\ j \in 1 .. Len(r)
        BY <1>2, <1>4, <1>5, <1>6, <2>4
    <2> QED
        BY <2>1, <2>2, <2>3, <2>4
<1>8. Range(c) = Range(r) \cup Range(q)
    <2>1. \A x \in Range(c) : x \in Range(r) \cup Range(q)
        BY <1>0, <1>1, <1>2, <1>4, <1>5 DEF Range
    <2>2. \A x \in Range(r) : x \in Range(c)
        BY <1>0, <1>1, <1>2 DEF Range
    <2>3. \A x \in Range(q) : x \in Range(c)
        <3> SUFFICES ASSUME NEW i \in 1 .. Len(q) PROVE q[i] \in Range(c)
            BY <1>0 DEF Range
        <3>1. Len(r) + i \in DOMAIN c
            BY <1>0, <1>1
        <3> QED
            BY <1>3, <3>1 DEF Range
    <2> QED
        BY <2>1, <2>2, <2>3
<1> QED
    BY <1>0, <1>1, <1>2, <1>3, <1>4, <1>7, <1>8 DEF c

\* The rows and their values correspond; a cut of the session without a row is of the
\* running iteration, and none is left once the bound was evaluated.
RowsInv ==
    /\ rows \in Seq(Nat) /\ lpValue \in Seq(CutValues) /\ Len(lpValue) = Len(rows)
    /\ LbRowsFaithful
    /\ IsRoot => \A s \in DOMAIN cuts :
          s >= warm /\ (cuts[s].gen # iteration \/ phase \in {"boundary", "done"})
              => s \in Range(rows)
    /\ IsRoot /\ phase = "boundary" => active \subseteq Range(rows)

\* The lower-bound LP starts without cut rows.
LEMMA RowsInit == Init => RowsInv
BY DEF Init, RowsInv, LbRowsFaithful, IsInjective, Range

\* append_new_cuts_to_lp
LEMMA LowerBoundRows ==
    ASSUME IInv, Content, RowsInv, LowerBound, IsRoot
    PROVE  RowsInv'
<1> DEFINE S == active \ Range(rows)
           new == InOrder(S)
           added == [i \in 1 .. Len(new) |-> cuts[new[i]].value]
<1>1. /\ rows' = rows \o new /\ lpValue' = lpValue \o added
      /\ phase' = "boundary" /\ UNCHANGED <<cuts, active, warm, kind, iteration>>
    BY DEF LowerBound, sizes
<1>2. S \in SUBSET Nat /\ IsFiniteSet(S) /\ S \subseteq DOMAIN cuts
    BY FiniteSlots, FS_Subset DEF IInv, SlotsBehindFrontier, CountIsExact
<1>3. /\ Len(new) \in Nat /\ new \in [1 .. Len(new) -> S] /\ Range(new) = S /\ IsInjective(new)
    <2> HIDE DEF S
    <2> QED
        BY <1>2, InOrderFacts
<1>4. \A i \in 1 .. Len(new) : new[i] \in DOMAIN cuts /\ new[i] \in Nat
    BY <1>2, <1>3
<1> HIDE DEF S, new
<1>5. new \in Seq(Nat) /\ DOMAIN new = 1 .. Len(new)
    BY <1>3, <1>4
<1>6. /\ rows \in Seq(Nat) /\ lpValue \in Seq(CutValues) /\ Len(lpValue) = Len(rows)
      /\ DOMAIN rows = 1 .. Len(rows) /\ Len(rows) \in Nat
      /\ IsInjective(rows)
      /\ \A i \in 1 .. Len(rows) : rows[i] \in DOMAIN cuts /\ lpValue[i] = cuts[rows[i]].value
    BY DEF RowsInv, LbRowsFaithful
<1>7. Range(rows) \cap Range(new) = {}
    BY <1>3 DEF S
<1>8. /\ rows' \in Seq(Nat) /\ Len(rows') = Len(rows) + Len(new)
      /\ \A i \in 1 .. Len(rows) : rows'[i] = rows[i]
      /\ \A i \in 1 .. Len(new) : rows'[Len(rows) + i] = new[i]
      /\ \A i \in 1 .. Len(rows) + Len(new) : i \in 1 .. Len(rows) \/ i - Len(rows) \in 1 .. Len(new)
      /\ IsInjective(rows') /\ Range(rows') = Range(rows) \cup S
    BY <1>1, <1>3, <1>5, <1>6, <1>7, AppendSlots
<1>9. added \in Seq(CutValues) /\ Len(added) = Len(new)
    <2>1. \A i \in 1 .. Len(new) : cuts[new[i]].value \in CutValues
        BY <1>4 DEF Content
    <2> QED
        BY <1>3, <2>1
<1>10. /\ lpValue' \in Seq(CutValues) /\ Len(lpValue') = Len(rows')
       /\ \A i \in 1 .. Len(rows) : lpValue'[i] = lpValue[i]
       /\ \A i \in 1 .. Len(new) : lpValue'[Len(rows) + i] = cuts[new[i]].value
    <2> HIDE DEF added
    <2>1. /\ lpValue' = lpValue \o added /\ Len(lpValue) = Len(rows)
          /\ lpValue \in Seq(CutValues) /\ added \in Seq(CutValues) /\ Len(added) = Len(new)
        BY <1>1, <1>6, <1>9
    <2>2. /\ lpValue' \in Seq(CutValues) /\ Len(lpValue') = Len(rows) + Len(new)
          /\ \A i \in 1 .. Len(rows) : lpValue'[i] = lpValue[i]
          /\ \A i \in 1 .. Len(new) : lpValue'[Len(rows) + i] = added[i]
        <3>1. /\ lpValue \o added \in Seq(CutValues)
              /\ Len(lpValue \o added) = Len(lpValue) + Len(added)
              /\ \A i \in 1 .. Len(lpValue) : (lpValue \o added)[i] = lpValue[i]
              /\ \A i \in 1 .. Len(added) : (lpValue \o added)[Len(lpValue) + i] = added[i]
            BY <2>1, Joined
        <3>2. lpValue' = lpValue \o added /\ Len(lpValue) = Len(rows) /\ Len(added) = Len(new)
            BY <2>1
        <3> QED
            BY <3>1, <3>2
    <2>4. \A i \in 1 .. Len(new) : added[i] = cuts[new[i]].value
        BY DEF added
    <2> QED
        BY <1>8, <2>2, <2>4
<1>11. \A i \in 1 .. Len(rows) + Len(new) :
           rows'[i] \in DOMAIN cuts /\ lpValue'[i] = cuts[rows'[i]].value
    <2> SUFFICES ASSUME NEW i \in 1 .. Len(rows) + Len(new)
                 PROVE  rows'[i] \in DOMAIN cuts /\ lpValue'[i] = cuts[rows'[i]].value
        OBVIOUS
    <2>1. CASE i \in 1 .. Len(rows)
        BY <1>6, <1>8, <1>10, <2>1
    <2>2. CASE i \notin 1 .. Len(rows)
        <3> DEFINE j == i - Len(rows)
        <3>1. j \in 1 .. Len(new) /\ Len(rows) + j = i
            BY <1>6, <1>8, <2>2
        <3> HIDE DEF j
        <3> QED
            BY <1>4, <1>8, <1>10, <3>1
    <2> QED
        BY <2>1, <2>2
<1>12. LbRowsFaithful'
    <2>1. DOMAIN rows' = 1 .. Len(rows) + Len(new)
        BY <1>8
    <2> QED
        BY <1>1, <1>8, <1>11, <2>1 DEF LbRowsFaithful
<1>13. active \subseteq Range(rows')
    BY <1>8 DEF S
<1>14. \A s \in DOMAIN cuts : s >= warm => s \in Range(rows')
    <2> SUFFICES ASSUME NEW s \in DOMAIN cuts, s >= warm PROVE s \in Range(rows')
        OBVIOUS
    <2>1. CASE cuts[s].gen = iteration
        BY <1>13, <2>1 DEF IInv, FreshCutsActive
    <2>2. CASE cuts[s].gen # iteration
        BY <1>8, <2>2 DEF RowsInv
    <2> QED
        BY <2>1, <2>2
<1> QED
    BY <1>1, <1>8, <1>10, <1>12, <1>13, <1>14 DEF RowsInv

\* Rows only come with append_new_cuts_to_lp and only go with the session.
LEMMA RowsStep == IInv /\ Content /\ RowsInv /\ [Next]_vars => RowsInv'
<1> SUFFICES ASSUME IInv, Content, RowsInv, [Next]_vars PROVE RowsInv'
    OBVIOUS
<1>1. CASE Resume
    <2>1. /\ rows' = <<>> /\ lpValue' = <<>> /\ warm' = Len(disk.records)
          /\ phase' \in {"forward", "done"} /\ cuts' = WarmCuts(disk.records)
        BY <1>1 DEF Resume
    <2>2. \A s \in DOMAIN cuts' : ~(s >= warm')
        BY <2>1 DEF WarmCuts, IInv, Counters
    <2> QED
        BY <2>1, <2>2 DEF RowsInv, LbRowsFaithful, IsInjective
<1>2. CASE LowerBound /\ IsRoot
    BY <1>2, LowerBoundRows
<1>3. CASE ~Resume /\ ~(LowerBound /\ IsRoot)
    <2>1. UNCHANGED <<rows, lpValue, warm, kind>>
        BY <1>3 DEF Next, vars, sizes, lp, ForwardPass, ExchangeStates, AddCut, ParentsSolve,
                    ManageCuts, LowerBound, EndIteration, Terminated
    <2>2. KeptCuts
        BY <1>3, StableStep
    <2>3. LbRowsFaithful'
        BY <2>1, <2>2 DEF RowsInv, LbRowsFaithful, KeptCuts
    <2>4. ASSUME IsRoot, NEW s \in DOMAIN cuts', s >= warm',
                 cuts'[s].gen # iteration' \/ phase' \in {"boundary", "done"}
          PROVE  s \in Range(rows')
        <3>1. s \in DOMAIN cuts
            BY <1>3, <2>4, NewCut
        <3>2. cuts'[s].gen = cuts[s].gen
            BY <2>2, <3>1 DEF KeptCuts
        <3>3. CASE EndIteration
            <4>1. phase = "boundary"
                BY <3>3 DEF EndIteration
            <4> QED
                BY <2>1, <2>4, <3>1, <4>1 DEF RowsInv
        <3>4. CASE ~EndIteration
            <4>1. iteration' = iteration /\ (phase' \in {"boundary", "done"} => phase' = phase)
                BY <1>3, <2>4, <3>4 DEF Next, vars, ForwardPass, ExchangeStates, AddCut,
                   ParentsSolve, ManageCuts, LowerBound, Terminated
            <4> QED
                BY <2>1, <2>4, <3>1, <3>2, <4>1 DEF RowsInv
        <3> QED
            BY <3>3, <3>4
    <2>5. ASSUME IsRoot, phase' = "boundary" PROVE active' \subseteq Range(rows')
        <3>1. phase = "boundary" /\ active' = active
            BY <1>3, <2>5 DEF Next, vars, ForwardPass, ExchangeStates, AddCut, ParentsSolve,
               ManageCuts, LowerBound, EndIteration, Terminated
        <3> QED
            BY <2>1, <2>5, <3>1 DEF RowsInv
    <2>6. IsRoot' = IsRoot
        BY <2>1 DEF IsRoot
    <2> QED
        BY <2>1, <2>3, <2>4, <2>5, <2>6 DEF RowsInv
<1> QED
    BY <1>1, <1>2, <1>3

\* A row of the lower-bound LP is the cut its slot maps to, and no cut has two rows
\* (append_new_cuts_to_lp and CutRowMap).
THEOREM LbRowsAreFaithful == Spec => []LbRowsFaithful
<1>1. RowsInv => LbRowsFaithful
    BY DEF RowsInv
<1> QED
    BY <1>1, Invariance, ContentInit, ContentStep, RowsInit, RowsStep, PTL DEF Spec

\* Once evaluated, the lower-bound LP has a row for every cut the session generated at the
\* root and bounds the future cost by at least what the active cuts say
\* (evaluate_lower_bound on rank 0).
THEOREM LbRowsAreComplete == Spec => []LbRowsComplete
<1>1. ASSUME IInv, Content, RowsInv, IsRoot, phase = "boundary"
      PROVE  /\ \A s \in DOMAIN cuts : s >= warm => s \in Range(rows)
             /\ \A p \in Points : Max({-1} \cup {lpValue[i][p] : i \in DOMAIN lpValue}) >= Value(p)
    <2>1. \A s \in DOMAIN cuts : s >= warm => s \in Range(rows)
        BY <1>1 DEF RowsInv
    <2>2. active \subseteq Range(rows)
        BY <1>1 DEF RowsInv
    <2>3. /\ DOMAIN lpValue = DOMAIN rows
          /\ \A i \in DOMAIN rows : rows[i] \in DOMAIN cuts /\ lpValue[i] = cuts[rows[i]].value
        BY <1>1 DEF RowsInv, LbRowsFaithful
    <2>4. Range(rows) \in SUBSET DOMAIN cuts /\ active \in SUBSET DOMAIN cuts
        BY <2>2, <2>3 DEF Range
    <2>5. ASSUME NEW p \in Points
          PROVE  Max({-1} \cup {lpValue[i][p] : i \in DOMAIN lpValue}) >= Value(p)
        <3> DEFINE bound == ValueAt(cuts, Range(rows), p)
        <3>1. {lpValue[i][p] : i \in DOMAIN lpValue} = {cuts[s].value[p] : s \in Range(rows)}
            BY <2>3 DEF Range
        <3>2. Max({-1} \cup {lpValue[i][p] : i \in DOMAIN lpValue}) = bound
            BY <3>1 DEF ValueAt
        <3>3. /\ bound \in Int /\ -1 <= bound
              /\ \A s \in Range(rows) : cuts[s].value[p] <= bound
            BY <1>1, <2>4, <2>5, ValueFacts
        <3>4. Value(p) \in Int /\ (Value(p) = -1 \/ \E s \in active : Value(p) = cuts[s].value[p])
            BY <1>1, <2>4, <2>5, ValueFacts DEF Value
        <3> HIDE DEF bound
        <3> QED
            BY <2>2, <3>2, <3>3, <3>4
    <2> QED
        BY <2>1, <2>5
<1>2. IInv /\ Content /\ RowsInv => LbRowsComplete
    BY <1>1 DEF LbRowsComplete
<1> QED
    BY <1>2, Invariance, ContentInit, ContentStep, RowsInit, RowsStep, PTL DEF Spec

----------------------------------------------------------------------------
(* The captured basis *)

\* The tail of a concatenation.
LEMMA ConcatenationTail ==
    ASSUME NEW n \in Nat, NEW m \in Nat, NEW T, NEW a \in [1 .. n -> T], NEW b \in [1 .. m -> T]
    PROVE  Len(a \o b) = n + m /\ \A i \in 1 .. m : (a \o b)[n + i] = b[i]
OBVIOUS

\* What write_capture_metadata records of a pool.
LEMMA CapturedFacts ==
    ASSUME IInv
    PROVE  /\ Captured.base = TemplateRows /\ Captured.slots = InOrder(active)
           /\ Len(Captured.slots) \in Nat /\ DOMAIN Captured.slots = 1 .. Len(Captured.slots)
           /\ Range(Captured.slots) = active
           /\ Len(Captured.rows) = TemplateRows + Len(Captured.slots)
           /\ \A i \in DOMAIN Captured.slots :
                  /\ Captured.slots[i] \in DOMAIN cuts
                  /\ Captured.rows[TemplateRows + i] = cuts[Captured.slots[i]].id
<1> DEFINE o == InOrder(active)
           n == Cardinality(active)
           ids == {"template"} \cup {cuts[s].id : s \in DOMAIN cuts}
           top == [i \in 1 .. TemplateRows |-> "template"]
           tail == [i \in 1 .. n |-> cuts[o[i]].id]
<1>1. active \in SUBSET Nat /\ IsFiniteSet(active) /\ active \subseteq DOMAIN cuts
    BY FiniteSlots, FS_Subset DEF IInv, SlotsBehindFrontier, CountIsExact
<1>2. n \in Nat /\ o \in [1 .. n -> active] /\ Len(o) = n /\ Range(o) = active
    BY <1>1, InOrderFacts
<1>3. Captured = [rows |-> top \o tail, base |-> TemplateRows, slots |-> o, at |-> iteration]
    BY <1>2 DEF Captured, ActiveSlots
<1>4. top \in [1 .. TemplateRows -> ids]
    OBVIOUS
<1>5. tail \in [1 .. n -> ids]
    BY <1>1, <1>2
<1>6. \A i \in 1 .. n : o[i] \in DOMAIN cuts /\ tail[i] = cuts[o[i]].id
    BY <1>1, <1>2
<1> HIDE DEF o, n, ids, top, tail
<1>7. Len(top \o tail) = TemplateRows + n /\ \A i \in 1 .. n : (top \o tail)[TemplateRows + i] = tail[i]
    BY <1>2, <1>4, <1>5, SizeAssumption, ConcatenationTail
<1>8. DOMAIN o = 1 .. n
    BY <1>2
<1> QED
    BY <1>2, <1>3, <1>6, <1>7, <1>8 DEF o

\* A basis has as many cut rows as slots; one captured in the session belongs to the cuts;
\* and a basis is saved with dense records only, whose number it states.
BasisInv ==
    /\ basis = [rows |-> basis.rows, base |-> basis.base, slots |-> basis.slots, at |-> basis.at]
    /\ basis.base \in Nat /\ Len(basis.slots) \in Nat
    /\ DOMAIN basis.slots = 1 .. Len(basis.slots)
    /\ Len(basis.rows) = basis.base + Len(basis.slots)
    /\ basis.at # 0 => Aligned(basis, cuts)
    /\ DOMAIN disk.records = 1 .. Len(disk.records)
    /\ disk.basis # NoBasis =>
          /\ disk.basis.base = Len(disk.records)
          /\ Len(disk.basis.rows) \in Nat
          /\ \A i \in 1 .. Len(disk.records) : disk.records[i].slot = i - 1

\* Where the parents capture last, past their solves the basis has a row for every active cut,
\* and a saved basis whose cuts are all active has a row for each record, in slot order.
LastInv ==
    /\ Aligned(basis, cuts)
    /\ phase \in {"manage", "bound", "boundary"} =>
          /\ basis.base = TemplateRows
          /\ basis.slots = InOrder(Range(basis.slots))
          /\ active \subseteq Range(basis.slots)
    /\ (disk.basis # NoBasis) /\ (\A i \in 1 .. Len(disk.records) : disk.records[i].active) =>
              /\ Len(disk.basis.rows) = TemplateRows + Len(disk.records)
              /\ \A i \in 1 .. Len(disk.records) :
                    disk.basis.rows[TemplateRows + i] = disk.records[i].id

\* A run starts without a basis.
LEMMA BasisInit == Init => BasisInv /\ LastInv
BY DEF Init, BasisInv, LastInv, Aligned, NoBasis, NoCheckpoint

\* A basis stays that of the cuts as long as the occupied slots keep them.
LEMMA AlignedStays ==
    ASSUME KeptCuts, basis' = basis, Aligned(basis, cuts)
    PROVE  Aligned(basis, cuts)'
BY DEF Aligned, KeptCuts

\* The forward pass and save_basis_at_omega_zero capture the basis of the active cuts.
LEMMA CaptureStep ==
    ASSUME IInv, BasisInv, KeptCuts, basis' = Captured, active' = active, disk' = disk
    PROVE  BasisInv' /\ (LastInv => LastInv')
<1>0. basis' = [rows |-> basis'.rows, base |-> basis'.base, slots |-> basis'.slots, at |-> basis'.at]
    BY DEF Captured
<1>1. /\ basis'.base = TemplateRows /\ basis'.slots = InOrder(active)
      /\ Len(basis'.slots) \in Nat /\ DOMAIN basis'.slots = 1 .. Len(basis'.slots)
      /\ Range(basis'.slots) = active
      /\ Len(basis'.rows) = TemplateRows + Len(basis'.slots)
      /\ \A i \in DOMAIN basis'.slots :
            /\ basis'.slots[i] \in DOMAIN cuts
            /\ basis'.rows[TemplateRows + i] = cuts[basis'.slots[i]].id
    BY CapturedFacts
<1>2. \A s \in DOMAIN cuts : s \in DOMAIN cuts' /\ cuts'[s].id = cuts[s].id
    BY DEF KeptCuts
<1>3. Aligned(basis, cuts)'
    BY <1>1, <1>2 DEF Aligned
<1>4. BasisInv'
    BY <1>0, <1>1, <1>3, SizeAssumption DEF BasisInv
<1>5. LastInv => LastInv'
    BY <1>1, <1>3 DEF LastInv
<1> QED
    BY <1>4, <1>5

\* A checkpoint saves a basis only of a pool without gaps, whose slots are the records'.
LEMMA SavedBasis ==
    ASSUME IInv, BasisInv, EndIteration
    PROVE  BasisInv' /\ (LastInv => LastInv')
<1>1. UNCHANGED <<cuts, active, basis>> /\ phase = "boundary" /\ phase' \in {"forward", "done"}
    BY DEF EndIteration
<1>2. Aligned(basis, cuts)' <=> Aligned(basis, cuts)
    BY <1>1 DEF Aligned
<1>3. CASE disk' = disk
    BY <1>1, <1>2, <1>3 DEF BasisInv, LastInv
<1>4. ASSUME disk'.basis = NoBasis, DOMAIN disk'.records = 1 .. Len(disk'.records)
      PROVE  BasisInv' /\ (LastInv => LastInv')
    BY <1>1, <1>2, <1>4 DEF BasisInv, LastInv
<1>5. ASSUME DOMAIN disk'.records = 1 .. Len(disk'.records), disk'.records = CutRecords, disk'.basis.rows = basis.rows,
             disk'.basis.base = populated,
             \A s \in 0 .. populated - 1 : s \in DOMAIN cuts
      PROVE  BasisInv' /\ (LastInv => LastInv')
    <2>1. populated \in Nat /\ DOMAIN cuts = 0 .. populated - 1
        <3>1. populated \in Nat /\ \A s \in DOMAIN cuts : s \in Nat /\ s < populated
            BY DEF IInv, Counters, SlotsBehindFrontier
        <3>2. \A s \in DOMAIN cuts : s \in 0 .. populated - 1
            BY <3>1
        <3> QED
            BY <1>5, <3>1, <3>2
    <2>2. Cardinality(DOMAIN cuts) = populated
        BY <2>1, FS_Interval
    <2>3. /\ Len(InOrder(DOMAIN cuts)) = populated
          /\ \A i \in 1 .. populated : InOrder(DOMAIN cuts)[i] = i - 1
        BY <2>1, SlotsInOrder
    <2>4. /\ Len(CutRecords) = populated
          /\ \A i \in 1 .. populated :
                /\ CutRecords[i].slot = i - 1
                /\ CutRecords[i].id = cuts[i - 1].id
                /\ CutRecords[i].active = (i - 1 \in active)
        BY <2>2, <2>3, RecordFacts
    <2>5. BasisInv'
        <3>1. Len(basis.rows) \in Nat
            BY DEF BasisInv
        <3>2. \A i \in 1 .. Len(disk'.records) : disk'.records[i].slot = i - 1
            <4> HIDE DEF CutRecords
            <4> QED
                BY <1>5, <2>4
        <3>3. disk'.basis.base = Len(disk'.records)
            <4> HIDE DEF CutRecords
            <4> QED
                BY <1>5, <2>4
        <3> QED
            BY <1>1, <1>2, <1>5, <3>1, <3>2, <3>3 DEF BasisInv
    <2>6. ASSUME LastInv
          PROVE  LastInv'
        <3>1. /\ Len(basis.rows) = TemplateRows + Len(basis.slots) /\ Len(basis.slots) \in Nat
              /\ basis.slots = InOrder(Range(basis.slots))
              /\ active \subseteq Range(basis.slots)
              /\ Range(basis.slots) \subseteq DOMAIN cuts
              /\ \A i \in 1 .. Len(basis.slots) : basis.rows[TemplateRows + i] = cuts[basis.slots[i]].id
            BY <1>1, <2>6 DEF BasisInv, LastInv, Aligned, Range
        <3>2. ASSUME \A i \in 1 .. populated : CutRecords[i].active
              PROVE  /\ Len(basis.rows) = TemplateRows + populated
                     /\ \A i \in 1 .. populated : basis.rows[TemplateRows + i] = CutRecords[i].id
            <4>1. ASSUME NEW s \in DOMAIN cuts PROVE s \in active
                <5>1. s \in Nat /\ s + 1 \in 1 .. populated /\ (s + 1) - 1 = s
                    BY <2>1
                <5> QED
                    BY <2>4, <3>2, <5>1
            <4>2. Range(basis.slots) = DOMAIN cuts
                BY <3>1, <4>1
            <4>3. basis.slots = InOrder(DOMAIN cuts)
                BY <3>1, <4>2
            <4> QED
                BY <2>3, <2>4, <3>1, <4>3
        <3>3. (\A i \in 1 .. Len(disk'.records) : disk'.records[i].active) =>
                  /\ Len(disk'.basis.rows) = TemplateRows + Len(disk'.records)
                  /\ \A i \in 1 .. Len(disk'.records) :
                        disk'.basis.rows[TemplateRows + i] = disk'.records[i].id
            <4> HIDE DEF CutRecords
            <4> QED
                BY <1>5, <2>4, <3>2
        <3> QED
            BY <1>1, <1>2, <2>6, <3>3 DEF LastInv
    <2> QED
        BY <2>5, <2>6
<1>6. CASE disk' = [completed |-> iteration, records |-> CutRecords, basis |-> BasisRecord]
    <2>0. DOMAIN disk'.records = 1 .. Len(disk'.records)
        <3>1. disk'.records = CutRecords
            <4> HIDE DEF CutRecords, BasisRecord
            <4> QED
                BY <1>6
        <3>2. Len(CutRecords) = Len(InOrder(DOMAIN cuts))
            BY RecordFacts
        <3>3. DOMAIN CutRecords = 1 .. Len(InOrder(DOMAIN cuts))
            BY DEF CutRecords
        <3> QED
            BY <3>1, <3>2, <3>3
    <2>1. CASE basis = NoBasis \/ \E s \in 0 .. populated - 1 : s \notin DOMAIN cuts
        BY <1>4, <1>6, <2>0, <2>1 DEF BasisRecord
    <2>2. CASE basis # NoBasis /\ \A s \in 0 .. populated - 1 : s \in DOMAIN cuts
        <3>1. BasisRecord = [rows |-> basis.rows, base |-> populated, slots |-> <<>>, at |-> 0]
            BY <2>2 DEF BasisRecord
        <3>2. disk'.records = CutRecords /\ disk'.basis = BasisRecord
            <4> HIDE DEF CutRecords, BasisRecord
            <4> QED
                BY <1>6
        <3>3. disk'.basis.rows = basis.rows /\ disk'.basis.base = populated
            BY <3>1, <3>2
        <3> QED
            BY <1>5, <2>0, <2>2, <3>2, <3>3
    <2> QED
        BY <2>1, <2>2
<1> QED
    BY <1>3, <1>6 DEF EndIteration

\* What build_basis_cache_from_checkpoint makes of a basis on disk: no cut row unless the records
\* are all active, and then record i is that of slot i - 1.
LEMMA LoadedFacts ==
    ASSUME IInv, BasisInv
    PROVE  LET n == Len(disk.records)
               b == LoadedBasis(disk.basis, disk.records)
               rows_ == disk.basis.rows
           IN  \/ b = NoBasis
               \/ Len(rows_) \in Nat /\ b = [rows |-> rows_, base |-> Len(rows_), slots |-> <<>>, at |-> 0]
               \/ /\ disk.basis # NoBasis /\ n \in Nat /\ Len(rows_) - n \in Nat
                  /\ b = [rows |-> rows_, base |-> Len(rows_) - n, slots |-> [i \in 1 .. n |-> i - 1], at |-> 0]
                  /\ \A i \in 1 .. n : disk.records[i].active
<1> DEFINE records == disk.records
           n == Len(records)
           record == disk.basis
           alive == {i \in DOMAIN records : records[i].active}
           live == InOrder(alive)
           liveSlots == [i \in 1 .. Len(live) |-> records[live[i]].slot]
           b == LoadedBasis(record, records)
<1>2. n \in Nat /\ DOMAIN records = 1 .. n
    BY DEF BasisInv, IInv, Counters
<1>3. alive \in SUBSET (1 .. n) /\ alive \in SUBSET Nat /\ IsFiniteSet(alive)
    <2>1. alive \in SUBSET (1 .. n)
        BY <1>2
    <2>2. IsFiniteSet(1 .. n)
        BY <1>2, FS_Interval
    <2>3. IsFiniteSet(alive)
        <3> HIDE DEF alive, n
        <3> QED
            BY <2>1, <2>2, FS_Subset
    <2>4. \A i \in 1 .. n : i \in Nat
        BY <1>2
    <2> QED
        BY <2>1, <2>3, <2>4
<1>4. Len(live) = Cardinality(alive) /\ Cardinality(alive) \in Nat
    BY <1>3, InOrderFacts
<1>5. b = IF record = NoBasis THEN NoBasis
          ELSE IF Len(live) = record.base /\ record.base <= Len(record.rows)
          THEN [rows |-> record.rows, base |-> Len(record.rows) - record.base,
                slots |-> liveSlots, at |-> 0]
          ELSE [rows |-> record.rows, base |-> Len(record.rows), slots |-> <<>>, at |-> 0]
    BY DEF LoadedBasis
<1>6. CASE record = NoBasis
    BY <1>5, <1>6
<1>7. CASE /\ record # NoBasis
           /\ ~(Len(live) = record.base /\ record.base <= Len(record.rows))
    <2>1. Len(record.rows) \in Nat
        BY <1>7 DEF BasisInv
    <2>2. b = [rows |-> record.rows, base |-> Len(record.rows), slots |-> <<>>, at |-> 0]
        BY <1>5, <1>7
    <2> QED
        BY <2>1, <2>2
<1>8. CASE /\ record # NoBasis
           /\ Len(live) = record.base /\ record.base <= Len(record.rows)
    <2>1. record.base = n /\ Len(record.rows) \in Nat /\ \A i \in 1 .. n : records[i].slot = i - 1
        BY <1>8 DEF BasisInv
    <2>2. alive = 1 .. n
        <3>1. IsFiniteSet(1 .. n) /\ Cardinality(1 .. n) = n
            BY <1>2, FS_Interval
        <3>2. Cardinality(1 .. n) = Cardinality(alive)
            BY <1>4, <1>8, <2>1, <3>1
        <3> HIDE DEF alive
        <3> QED
            BY <1>3, <3>1, <3>2, FS_Subset
    <2>3. \A i \in 1 .. n : records[i].active
        BY <2>2
    <2>5. Len(live) = n /\ \A i \in 1 .. n : live[i] = i
        <3>1. Len(InOrder(1 .. n)) = n /\ \A i \in 1 .. n : InOrder(1 .. n)[i] = i
            BY <1>2, PositionsInOrder
        <3>2. live = InOrder(1 .. n)
            BY <2>2
        <3> QED
            BY <3>1, <3>2
    <2>6. Len(record.rows) - n \in Nat
        BY <1>2, <1>8, <2>1
    <2> HIDE DEF live
    <2>7. liveSlots = [i \in 1 .. n |-> i - 1]
        BY <2>1, <2>5
    <2>8. b = [rows |-> record.rows, base |-> Len(record.rows) - n, slots |-> [i \in 1 .. n |-> i - 1],
               at |-> 0]
        <3> HIDE DEF liveSlots, b, n, records
        <3> QED
            BY <1>5, <1>8, <2>1, <2>7
    <2> QED
        BY <1>2, <1>8, <2>3, <2>6, <2>8
<1> QED
    BY <1>6, <1>7, <1>8

\* A basis on disk whose rows are those of the records' cuts, if all are active, is aligned once
\* it is loaded.
LEMMA LoadedAligned ==
    ASSUME IInv, BasisInv,
           disk.basis # NoBasis /\ (\A i \in 1 .. Len(disk.records) : disk.records[i].active) =>
              /\ Len(disk.basis.rows) = TemplateRows + Len(disk.records)
              /\ \A i \in 1 .. Len(disk.records) :
                    disk.basis.rows[TemplateRows + i] = disk.records[i].id
    PROVE  Aligned(LoadedBasis(disk.basis, disk.records), WarmCuts(disk.records))
<1> DEFINE records == disk.records
           n == Len(records)
           rows_ == disk.basis.rows
<1>0. PICK b, f : b = LoadedBasis(disk.basis, records) /\ f = WarmCuts(records)
    OBVIOUS
<1>1. CASE b = NoBasis
    BY <1>0, <1>1 DEF Aligned, NoBasis
<1>2. CASE Len(rows_) \in Nat /\ b = [rows |-> rows_, base |-> Len(rows_), slots |-> <<>>, at |-> 0]
    BY <1>0, <1>2 DEF Aligned
<1>3. CASE /\ disk.basis # NoBasis /\ n \in Nat
           /\ b = [rows |-> rows_, base |-> Len(rows_) - n, slots |-> [i \in 1 .. n |-> i - 1], at |-> 0]
           /\ \A i \in 1 .. n : records[i].active
    <2>1. /\ Len(rows_) = TemplateRows + n
          /\ \A i \in 1 .. n : rows_[TemplateRows + i] = records[i].id
        BY <1>3
    <2>2. Len(rows_) - n = TemplateRows
        BY <1>3, <2>1, SizeAssumption
    <2>3. Len([i \in 1 .. n |-> i - 1]) = n
        BY <1>3
    <2>4. ASSUME NEW i \in 1 .. n
          PROVE  i - 1 \in DOMAIN f /\ f[i - 1].id = records[i].id
        <3>1. i - 1 \in 0 .. n - 1 /\ (i - 1) + 1 = i
            BY <1>3
        <3> QED
            BY <1>0, <3>1 DEF WarmCuts
    <2>5. Aligned(b, f)
        BY <1>3, <2>1, <2>2, <2>3, <2>4 DEF Aligned
    <2> QED
        BY <1>0, <2>5
<1> QED
    BY <1>0, <1>1, <1>2, <1>3, LoadedFacts

\* A reload keeps the number of rows, and where the parents capture last the meaning of each.
LEMMA ReloadedBasis ==
    ASSUME IInv, BasisInv, Resume
    PROVE  BasisInv' /\ (LastInv => LastInv')
<1>1. /\ disk' = disk /\ phase' \in {"forward", "done"}
      /\ basis' = LoadedBasis(disk.basis, disk.records)
      /\ cuts' = WarmCuts(disk.records)
    BY DEF Resume
<1>2. /\ basis' = [rows |-> basis'.rows, base |-> basis'.base, slots |-> basis'.slots, at |-> 0]
      /\ basis'.base \in Nat /\ Len(basis'.slots) \in Nat
      /\ DOMAIN basis'.slots = 1 .. Len(basis'.slots)
      /\ Len(basis'.rows) = basis'.base + Len(basis'.slots)
    <2> DEFINE n == Len(disk.records)
               rows_ == disk.basis.rows
    <2>1. CASE basis' = NoBasis
        BY <2>1 DEF NoBasis
    <2>2. CASE Len(rows_) \in Nat /\ basis' = [rows |-> rows_, base |-> Len(rows_), slots |-> <<>>, at |-> 0]
        BY <2>2
    <2>3. CASE /\ n \in Nat /\ Len(rows_) - n \in Nat /\ disk.basis # NoBasis
               /\ basis' = [rows |-> rows_, base |-> Len(rows_) - n, slots |-> [i \in 1 .. n |-> i - 1],
                            at |-> 0]
        <3>1. Len([i \in 1 .. n |-> i - 1]) = n /\ DOMAIN [i \in 1 .. n |-> i - 1] = 1 .. n
            BY <2>3
        <3>2. Len(rows_) \in Nat
            BY <2>3 DEF BasisInv
        <3>3. Len(rows_) = (Len(rows_) - n) + n
            BY <2>3, <3>2
        <3> QED
            BY <2>3, <3>1, <3>3
    <2> QED
        BY <1>1, <2>1, <2>2, <2>3, LoadedFacts
<1>3. BasisInv'
    <2>1. basis'.at = 0
        BY <1>2
    <2> QED
        BY <1>1, <1>2, <2>1 DEF BasisInv
<1>4. ASSUME LastInv
      PROVE  LastInv'
    <2>1. Aligned(LoadedBasis(disk.basis, disk.records), WarmCuts(disk.records))
        BY <1>4, LoadedAligned DEF LastInv
    <2>2. Aligned(basis, cuts)'
        BY <1>1, <2>1 DEF Aligned
    <2> QED
        BY <1>1, <1>4, <2>2 DEF LastInv
<1> QED
    BY <1>3, <1>4

\* Every step keeps the rows of a captured basis those of its slots, and where the parents capture
\* last those of any basis.
LEMMA BasisStep ==
    ASSUME IInv, BasisInv, [Next]_vars
    PROVE  BasisInv' /\ (ParentsCaptureLast /\ LastInv => LastInv')
<1>1. ASSUME basis' = basis, disk' = disk, KeptCuts
      PROVE  BasisInv'
    BY <1>1, AlignedStays DEF BasisInv
<1>2. CASE ForwardPass
    <2>1. /\ basis' = Captured \/ (MayMiss /\ basis' = basis)
          /\ active' = active /\ disk' = disk /\ ~Resume
        BY <1>2 DEF ForwardPass, AfterForward, Resume, saved, IInv, Counters
    <2>2. KeptCuts
        BY <2>1, StableStep
    <2>3. CASE basis' = Captured
        BY <2>1, <2>2, <2>3, CaptureStep
    <2>4. CASE MayMiss /\ basis' = basis
        <3>1. ~ParentsCaptureLast
            BY <2>4 DEF MayMiss, ParentsCaptureLast
        <3> QED
            BY <1>1, <2>1, <2>2, <2>4, <3>1
    <2> QED
        BY <2>1, <2>3, <2>4
<1>3. CASE ParentsSolve
    <2>1. /\ basis' = Captured \/ (~ParentsCaptureLast /\ basis' = basis)
          /\ active' = active /\ disk' = disk /\ ~Resume
        BY <1>3 DEF ParentsSolve, AfterParents, MayMiss, ParentsCaptureLast, Resume, saved, IInv, Counters
    <2>2. KeptCuts
        BY <2>1, StableStep
    <2>3. CASE basis' = Captured
        BY <2>1, <2>2, <2>3, CaptureStep
    <2>4. CASE ~ParentsCaptureLast /\ basis' = basis
        BY <1>1, <2>1, <2>2, <2>4
    <2> QED
        BY <2>1, <2>3, <2>4
<1>4. CASE EndIteration
    BY <1>4, SavedBasis
<1>5. CASE Resume
    BY <1>5, ReloadedBasis
<1>6. CASE ~ForwardPass /\ ~ParentsSolve /\ ~EndIteration /\ ~Resume
    <2>1. basis' = basis /\ disk' = disk
        BY <1>6 DEF Next, vars, saved, ExchangeStates, AddCut, ManageCuts, LowerBound, Terminated
    <2>2. KeptCuts
        BY <1>6, StableStep
    <2>3. ASSUME ParentsCaptureLast, LastInv
          PROVE  LastInv'
        <3>1. Aligned(basis, cuts)'
            BY <2>1, <2>2, <2>3, AlignedStays DEF LastInv
        <3>2. phase' \in {"manage", "bound", "boundary"} =>
                  phase \in {"manage", "bound", "boundary"} /\ active' \subseteq active
            <4>1. CASE ManageCuts
                BY <2>3, <4>1 DEF ManageCuts, ActiveAfterSelection, Deactivations, Reactivations,
                   SelectionApplies, ShouldRun, ParentsCaptureLast
            <4>2. CASE ~ManageCuts
                BY <1>6, <4>2 DEF Next, vars, ExchangeStates, AddCut, LowerBound, Terminated
            <4> QED
                BY <4>1, <4>2
        <3> QED
            BY <2>1, <2>3, <3>1, <3>2 DEF LastInv
    <2> QED
        BY <1>1, <2>1, <2>2, <2>3
<1> QED
    BY <1>2, <1>3, <1>4, <1>5, <1>6

\* A saved basis with the rows of the cuts saved with it is aligned once it is loaded.
LEMMA CurrentIsAligned ==
    ASSUME IInv, BasisInv, SavedRowsAreCurrent
    PROVE  Aligned(LoadedBasis(disk.basis, disk.records), WarmCuts(disk.records))
<1>1. ASSUME disk.basis # NoBasis, \A i \in 1 .. Len(disk.records) : disk.records[i].active
      PROVE  /\ Len(disk.basis.rows) = TemplateRows + Len(disk.records)
             /\ \A i \in 1 .. Len(disk.records) :
                   disk.basis.rows[TemplateRows + i] = disk.records[i].id
    <2>1. PICK n, alive : n = Len(disk.records) /\ alive = {i \in DOMAIN disk.records : disk.records[i].active}
        OBVIOUS
    <2>2. n \in Nat /\ DOMAIN disk.records = 1 .. n
        BY <2>1 DEF BasisInv, IInv, Counters
    <2>3. alive = 1 .. n
        BY <1>1, <2>1, <2>2
    <2>4. Len(InOrder(alive)) = n /\ \A i \in 1 .. n : InOrder(alive)[i] = i
        BY <2>2, <2>3, PositionsInOrder
    <2>5. PICK live : live = InOrder(alive)
        OBVIOUS
    <2>6. /\ Len(disk.basis.rows) = TemplateRows + Len(live)
          /\ \A i \in 1 .. Len(live) : disk.basis.rows[TemplateRows + i] = disk.records[live[i]].id
        BY <2>1, <2>5 DEF SavedRowsAreCurrent
    <2>7. Len(live) = n /\ \A i \in 1 .. n : live[i] = i
        BY <2>4, <2>5
    <2> HIDE DEF SavedRowsAreCurrent
    <2> QED
        BY <2>1, <2>6, <2>7
<1> QED
    BY <1>1, LoadedAligned

\* Under any scheduler and any selection, wherever the pool is: a captured basis stays that of its
\* slots' cuts; a saved one is, once reloaded, if its rows are those of the cuts saved with it;
\* and where the parents capture last every basis is, reloaded or not (write_capture_metadata,
\* build_stage_basis_records, build_basis_cache_from_checkpoint).
THEOREM BasisStaysAligned == Spec => []BasisAligned
<1> DEFINE Inv == BasisInv /\ (ParentsCaptureLast => LastInv)
<1>1. Init => Inv
    BY BasisInit
<1>2. IInv /\ Inv /\ [Next]_vars => Inv'
    <2>1. [Next]_vars => (ParentsCaptureLast' <=> ParentsCaptureLast)
        BY DEF Next, vars, sizes, ForwardPass, ExchangeStates, AddCut, ParentsSolve, ManageCuts,
           LowerBound, EndIteration, Resume, Terminated, ParentsCaptureLast
    <2> QED
        BY <2>1, BasisStep
<1>3. IInv /\ Inv => BasisAligned
    <2> SUFFICES ASSUME IInv, Inv PROVE BasisAligned
        OBVIOUS
    <2>1. SavedRowsAreCurrent => Aligned(LoadedBasis(disk.basis, disk.records), WarmCuts(disk.records))
        BY CurrentIsAligned
    <2> QED
        BY <2>1 DEF BasisInv, LastInv, BasisAligned
<1> QED
    BY <1>1, <1>2, <1>3, Invariance, PTL DEF Spec

----------------------------------------------------------------------------
(* Types *)

\* A power of two exceeds its exponent: as many subsets as singletons and the empty set.
LEMMA PowerExceeds ==
    ASSUME NEW k \in Nat
    PROVE  2 ^ k \in Nat /\ k + 1 <= 2 ^ k
<1> DEFINE S == 1 .. k
           singletons == {{x} : x \in S}
           f == [x \in S |-> {x}]
<1>1. IsFiniteSet(S) /\ Cardinality(S) = k
    <2>1. IsFiniteSet(1 .. k) /\ Cardinality(1 .. k) = IF 1 > k THEN 0 ELSE k - 1 + 1
        BY FS_Interval
    <2> QED
        BY <2>1
<1> HIDE DEF S
<1>2. IsFiniteSet(SUBSET S) /\ Cardinality(SUBSET S) = 2 ^ k
    BY <1>1, FS_SUBSET
<1>3. Cardinality(SUBSET S) \in Nat
    BY <1>2, FS_CardinalityType
<1>4. IsFiniteSet(singletons) /\ Cardinality(singletons) \in Nat /\ Cardinality(singletons) <= 2 ^ k
    <2>1. singletons \subseteq SUBSET S
        OBVIOUS
    <2> QED
        BY <1>2, <2>1, FS_Subset, FS_CardinalityType
<1>5. k <= Cardinality(singletons)
    <2>1. f \in Injection(S, singletons)
        BY DEF Injection, IsInjective
    <2> QED
        BY <1>1, <1>4, <2>1, FS_Injection
<1>6. Cardinality(singletons \cup {{}}) = Cardinality(singletons) + 1
    BY <1>4, FS_AddElement
<1>7. Cardinality(singletons \cup {{}}) <= 2 ^ k
    <2>1. singletons \cup {{}} \in SUBSET (SUBSET S)
        OBVIOUS
    <2> QED
        BY <1>2, <2>1, FS_Subset
<1> QED
    BY <1>2, <1>3, <1>4, <1>5, <1>6, <1>7

\* Growth never shrinks a pool, and ends (grow_pools_for_next_iteration).
LEMMA GrownFacts ==
    ASSUME capacity \in Nat, populated \in Nat, populated <= capacity
    PROVE  Grown \in Nat /\ capacity <= Grown
<1> DEFINE least == Max({capacity, 1})
           sizesTried == {least * 2 ^ k : k \in 0 .. ForwardPasses}
           enough == {n \in sizesTried : n - populated >= ForwardPasses}
<1>1. least \in Nat /\ capacity <= least /\ 1 <= least
    BY MaxPair
<1>2. Grown = IF capacity - populated >= ForwardPasses THEN capacity ELSE Min(enough)
    BY DEF Grown
<1> HIDE DEF least
<1>3. \A k \in 0 .. ForwardPasses : 2 ^ k \in Nat /\ k + 1 <= 2 ^ k
    BY SizeAssumption, PowerExceeds
<1>4. ASSUME NEW k \in 0 .. ForwardPasses
      PROVE  least * 2 ^ k \in Nat /\ least <= least * 2 ^ k
    <2>1. PICK q \in Nat : q = 2 ^ k /\ 1 <= q
        BY <1>3, SizeAssumption
    <2>2. least * q \in Nat /\ 1 * least <= q * least /\ 1 * least = least /\ q * least = least * q
        BY <1>1, <2>1, ProductMonotone
    <2> QED
        BY <2>1, <2>2
<1>5. least * 2 ^ ForwardPasses \in enough
    <2>1. PICK q \in Nat : q = 2 ^ ForwardPasses /\ ForwardPasses + 1 <= q
        BY SizeAssumption, PowerExceeds
    <2>2. PICK n \in Nat : n = ForwardPasses
        BY SizeAssumption
    <2>3. (n + 1) * least <= q * least
        BY <1>1, <2>1, <2>2, ProductMonotone
    <2>4. (n + 1) * least = n * least + least
        BY <1>1, <2>2, ProductStep
    <2>5. 1 * n <= least * n /\ least * n = n * least /\ 1 * n = n
        BY <1>1, <2>2, ProductMonotone
    <2>6. n * least \in Int /\ q * least \in Int /\ q * least = least * q
        BY <1>1, <2>1, <2>2
    <2>7. n + populated <= least * q
        BY <1>1, <2>2, <2>3, <2>4, <2>5, <2>6
    <2>8. least * q - populated >= n
        BY <2>2, <2>6, <2>7
    <2>9. ForwardPasses \in 0 .. ForwardPasses
        BY SizeAssumption
    <2> QED
        BY <2>1, <2>2, <2>8, <2>9
<1>6. enough \in SUBSET Nat /\ \A n \in enough : capacity <= n
    BY <1>1, <1>4
<1> HIDE DEF enough
<1>7. Min(enough) \in enough
    BY <1>5, <1>6, LeastNatural
<1> QED
    BY <1>2, <1>6, <1>7

FpiRange == 0 .. VisitStride - 1
CutIds == (1 .. MaxIterations) \X FpiRange

\* What TypeOK leaves to be carried from step to step: the fields of the cuts and of the saved
\* records, a pool that ends at an occupied slot and within what was allocated for it.
Typed ==
    /\ \A s \in DOMAIN cuts : cuts[s] \in Cut
    /\ \A i \in 1 .. Len(disk.records) :
          /\ disk.records[i].fpi \in FpiRange
          /\ disk.records[i].iteration \in 0 .. U32Max
          /\ disk.records[i].id \in CutIds
    /\ populated = 0 \/ populated - 1 \in DOMAIN cuts
    /\ capacity \in Nat /\ allocated <= capacity
    /\ visited \in Seq(Points)
    /\ diskValue \in [Points -> Values \cup {-1}]
    /\ restarts \in 0 .. MaxRestarts

LEMMA TypedInit == Init => Typed
<1> SUFFICES ASSUME Init PROVE Typed
    OBVIOUS
<1>1. PoolCapacity(0) \in Nat
    BY SizeAssumption DEF PoolCapacity
<1>2. capacity \in Nat /\ allocated = capacity
    BY <1>1 DEF Init
<1> QED
    BY <1>2, SizeAssumption DEF Init, Typed, NoCheckpoint

\* The occupied slots lie within the capacity.
LEMMA WithinCapacity ==
    ASSUME IInv, Typed
    PROVE  populated \in Nat /\ populated <= capacity
<1>1. Frontier \in Nat /\ Frontier <= allocated
    BY FrontierBound DEF IInv
<1>2. populated \in Nat /\ allocated \in Nat /\ capacity \in Nat /\ allocated <= capacity
    <2>1. warm \in Nat /\ allocated = PoolCapacity(warm)
        BY DEF IInv, Counters
    <2>2. PoolCapacity(warm) \in Nat
        BY <2>1, SizeAssumption DEF PoolCapacity
    <2> QED
        BY <2>1, <2>2 DEF IInv, Counters, Typed
<1>3. CASE populated = 0
    BY <1>2, <1>3
<1>4. CASE populated - 1 \in DOMAIN cuts
    <2>1. populated - 1 < Frontier
        BY <1>4 DEF IInv, SlotsBehindFrontier
    <2> QED
        BY <1>1, <1>2, <2>1
<1> QED
    BY <1>3, <1>4 DEF Typed

\* A generation fits its 32 bits once truncated (AsU32).
LEMMA Truncated ==
    ASSUME NEW n \in 1 .. MaxIterations \cup {WARM_START_ITERATION}
    PROVE  AsU32(n) \in 0 .. U32Max
<1>1. n \in Nat
    BY WidthAssumption DEF WARM_START_ITERATION
<1>2. PICK w \in Nat : w = U32Max
    BY WidthAssumption
<1>3. n % (w + 1) \in 0 .. w
    BY <1>1, <1>2
<1> QED
    BY <1>2, <1>3 DEF AsU32

\* The cuts stay typed: add_cut, the parents' binding cuts, and the warm start.
LEMMA CutsTyped == IInv /\ Content /\ Typed /\ [Next]_vars => \A s \in DOMAIN cuts' : cuts'[s] \in Cut
<1> SUFFICES ASSUME IInv, Content, Typed, [Next]_vars, NEW s \in DOMAIN cuts'
             PROVE  cuts'[s] \in Cut
    OBVIOUS
<1>1. MaxIterations < U32Max /\ U32Max \in Nat /\ MaxIterations \in Nat /\ VisitStride \in Nat
    BY SizeAssumption, WidthAssumption
<1>2. phase # "done" => iteration \in 1 .. MaxIterations
    BY <1>1 DEF IInv, Counters
<1>3. CASE AddCut
    <2>1. PICK v \in [Points -> Values] :
              cuts' = [t \in DOMAIN cuts \cup {SlotIndex(iteration, next)} |->
                        IF t = SlotIndex(iteration, next)
                        THEN [value |-> v, gen |-> iteration, fpi |-> next, uses |-> 0,
                              last |-> iteration, id |-> <<iteration, next>>]
                        ELSE cuts[t]]
        BY <1>3 DEF AddCut
    <2>2. next \in FpiRange /\ iteration \in 1 .. MaxIterations /\ iteration \in 0 .. U32Max
        <3>1. next < Min({trials, VisitStride}) /\ phase # "done"
            BY <1>3 DEF AddCut
        <3>2. next \in Nat /\ trials \in Int
            BY SizeAssumption DEF IInv, Counters
        <3>3. next < VisitStride
            BY <1>1, <3>1, <3>2, MinPair
        <3> QED
            BY <1>1, <1>2, <3>1, <3>2, <3>3 DEF FpiRange
    <2>3. CASE s = SlotIndex(iteration, next)
        BY <2>1, <2>2, <2>3 DEF Cut, FpiRange
    <2>4. CASE s # SlotIndex(iteration, next)
        BY <2>1, <2>4 DEF Typed
    <2> QED
        BY <2>3, <2>4
<1>4. CASE ParentsSolve
    <2>1. PICK binding \in SUBSET active :
              cuts' = [t \in DOMAIN cuts |->
                        IF t \in binding
                        THEN [cuts[t] EXCEPT !.uses = @ + 1, !.last = iteration]
                        ELSE cuts[t]]
        BY <1>4 DEF ParentsSolve
    <2>2. s \in DOMAIN cuts /\ cuts[s] \in Cut
        BY <2>1 DEF Typed
    <2>3. iteration \in 0 .. U32Max
        <3>1. phase # "done"
            BY <1>4 DEF ParentsSolve
        <3> QED
            BY <1>1, <1>2, <3>1
    <2>4. [cuts[s] EXCEPT !.uses = @ + 1, !.last = iteration] \in Cut
        <3>1. PICK c \in Cut : c = cuts[s]
            BY <2>2
        <3>2. [c EXCEPT !.uses = c.uses + 1] \in Cut
            BY DEF Cut
        <3>3. \A d \in Cut : [d EXCEPT !.last = iteration] \in Cut
            BY <2>3 DEF Cut
        <3>4. [[c EXCEPT !.uses = c.uses + 1] EXCEPT !.last = iteration] \in Cut
            BY <3>2, <3>3
        <3> QED
            BY <3>1, <3>4
    <2> QED
        BY <2>1, <2>2, <2>4
<1>5. CASE Resume
    <2> DEFINE r == disk.records[s + 1]
    <2>1. s + 1 \in 1 .. Len(disk.records)
        <3>1. Len(disk.records) \in Nat
            BY DEF IInv, Counters
        <3> QED
            BY <1>5, <3>1 DEF Resume, WarmCuts
    <2>2. cuts'[s] = [value |-> r.value, gen |-> WARM_START_ITERATION, fpi |-> r.fpi,
                      uses |-> 0, last |-> r.iteration, id |-> r.id]
        BY <1>5 DEF Resume, WarmCuts
    <2>3. /\ r.value \in [Points -> Values] /\ r.fpi \in FpiRange /\ r.iteration \in 0 .. U32Max
          /\ r.id \in CutIds
        BY <2>1 DEF Typed, Content, CutValues
    <2> HIDE DEF r
    <2> QED
        BY <2>2, <2>3 DEF Cut, FpiRange, CutIds
<1>6. CASE cuts' = cuts
    BY <1>6 DEF Typed
<1> QED
    BY <1>3, <1>4, <1>5, <1>6 DEF Next, vars, ForwardPass, ExchangeStates, ManageCuts,
       LowerBound, EndIteration, Terminated

\* A checkpoint saves typed records, and the value function of the active cuts.
LEMMA SavedTyped ==
    ASSUME IInv, Content, Typed, EndIteration
    PROVE  /\ \A i \in 1 .. Len(disk'.records) :
                 /\ disk'.records[i].fpi \in FpiRange
                 /\ disk'.records[i].iteration \in 0 .. U32Max
                 /\ disk'.records[i].id \in CutIds
           /\ diskValue' \in [Points -> Values \cup {-1}]
<1>1. CASE UNCHANGED <<disk, diskValue>>
    BY <1>1 DEF Typed
<1>2. CASE /\ disk' = [completed |-> iteration, records |-> CutRecords, basis |-> BasisRecord]
           /\ diskValue' = [p \in Points |-> Value(p)]
    <2> DEFINE slots == InOrder(DOMAIN cuts)
               n == Cardinality(DOMAIN cuts)
    <2>1. /\ Len(CutRecords) = n
          /\ \A i \in 1 .. n :
                /\ slots[i] \in DOMAIN cuts
                /\ CutRecords[i].id = cuts[slots[i]].id
                /\ CutRecords[i].fpi = cuts[slots[i]].fpi
                /\ CutRecords[i].iteration = AsU32(cuts[slots[i]].gen)
        BY RecordFacts
    <2> HIDE DEF slots, n
    <2>2. ASSUME NEW i \in 1 .. n
          PROVE  /\ CutRecords[i].fpi \in FpiRange
                 /\ CutRecords[i].iteration \in 0 .. U32Max
                 /\ CutRecords[i].id \in CutIds
        <3>1. cuts[slots[i]] \in Cut
            BY <2>1 DEF Typed
        <3>2. /\ cuts[slots[i]].fpi \in FpiRange /\ cuts[slots[i]].id \in CutIds
              /\ cuts[slots[i]].gen \in 1 .. MaxIterations \cup {WARM_START_ITERATION}
            BY <3>1 DEF Cut, FpiRange, CutIds
        <3>3. AsU32(cuts[slots[i]].gen) \in 0 .. U32Max
            BY <3>2, Truncated
        <3> QED
            BY <2>1, <3>2, <3>3
    <2>3. ASSUME NEW p \in Points
          PROVE  Value(p) \in Values \cup {-1}
        <3>1. active \in SUBSET DOMAIN cuts
            BY DEF IInv, CountIsExact
        <3>2. Value(p) = ValueAt(cuts, active, p)
            BY DEF Value
        <3>3. ValueAt(cuts, active, p) = -1 \/ \E t \in active : ValueAt(cuts, active, p) = cuts[t].value[p]
            BY <3>1, ValueFacts
        <3>4. \A t \in active : cuts[t].value[p] \in Values
            <4>1. \A t \in active : cuts[t].value \in [Points -> Values]
                BY <3>1 DEF Content, CutValues
            <4> QED
                BY <4>1
        <3> QED
            BY <3>2, <3>3, <3>4
    <2>4. disk'.records = CutRecords
        BY <1>2
    <2> QED
        BY <1>2, <2>1, <2>2, <2>3, <2>4
<1> QED
    BY <1>1, <1>2 DEF EndIteration

\* Each step keeps the types.
LEMMA TypedStep == IInv /\ Content /\ Typed /\ [Next]_vars => Typed'
<1> SUFFICES ASSUME IInv, Content, Typed, [Next]_vars PROVE Typed'
    OBVIOUS
<1>1. \A s \in DOMAIN cuts' : cuts'[s] \in Cut
    BY CutsTyped
<1>2. /\ \A i \in 1 .. Len(disk'.records) :
            /\ disk'.records[i].fpi \in FpiRange
            /\ disk'.records[i].iteration \in 0 .. U32Max
            /\ disk'.records[i].id \in CutIds
      /\ diskValue' \in [Points -> Values \cup {-1}]
    <2>1. CASE EndIteration
        BY <2>1, SavedTyped
    <2>2. CASE UNCHANGED <<disk, diskValue>>
        BY <2>2 DEF Typed
    <2> QED
        BY <2>1, <2>2 DEF Next, vars, saved, ForwardPass, ExchangeStates, AddCut, ParentsSolve,
           ManageCuts, LowerBound, Resume, Terminated
<1>3. populated' = 0 \/ populated' - 1 \in DOMAIN cuts'
    <2>1. CASE AddCut
        <3> DEFINE slot == SlotIndex(iteration, next)
        <3>1. slot \in Nat /\ populated \in Nat
            BY <2>1, SlotIsFree DEF AddCut, IInv, Counters
        <3>2. populated' = Max({populated, slot + 1}) /\ DOMAIN cuts' = DOMAIN cuts \cup {slot}
            BY <2>1 DEF AddCut
        <3> HIDE DEF slot
        <3>3. populated' = populated \/ populated' = slot + 1
            BY <3>1, <3>2, MaxPair
        <3>4. (slot + 1) - 1 = slot
            BY <3>1
        <3> QED
            BY <3>2, <3>3, <3>4 DEF Typed
    <2>2. CASE Resume
        <3>1. populated' = Len(disk.records) /\ DOMAIN cuts' = 0 .. Len(disk.records) - 1
            BY <2>2 DEF Resume, WarmCuts
        <3>2. Len(disk.records) \in Nat
            BY DEF IInv, Counters
        <3> QED
            BY <3>1, <3>2
    <2>3. CASE ParentsSolve
        <3>1. populated' = populated /\ DOMAIN cuts' = DOMAIN cuts
            BY <2>3 DEF ParentsSolve
        <3> QED
            BY <3>1 DEF Typed
    <2>4. CASE UNCHANGED <<cuts, populated>>
        BY <2>4 DEF Typed
    <2> QED
        BY <2>1, <2>2, <2>3, <2>4 DEF Next, vars, ForwardPass, ExchangeStates, ManageCuts,
           LowerBound, EndIteration, Terminated
<1>4. capacity' \in Nat /\ allocated' <= capacity'
    <2>0. warm \in Nat /\ allocated = PoolCapacity(warm) /\ PoolCapacity(warm) \in Nat
        <3>1. warm \in Nat /\ allocated = PoolCapacity(warm)
            BY DEF IInv, Counters
        <3> QED
            BY <3>1, SizeAssumption DEF PoolCapacity
    <2>1. CASE ManageCuts
        <3>1. capacity' = Grown /\ allocated' = allocated
            BY <2>1 DEF ManageCuts
        <3>2. Grown \in Nat /\ capacity <= Grown
            BY WithinCapacity, GrownFacts DEF Typed
        <3> QED
            BY <2>0, <3>1, <3>2 DEF Typed
    <2>2. CASE Resume
        <3>1. capacity' = PoolCapacity(Len(disk.records)) /\ allocated' = capacity'
            BY <2>2 DEF Resume
        <3>2. PICK n \in Nat : n = Len(disk.records)
            BY DEF IInv, Counters
        <3>3. PoolCapacity(n) \in Nat
            BY SizeAssumption DEF PoolCapacity
        <3> QED
            BY <3>1, <3>2, <3>3
    <2>3. CASE UNCHANGED <<capacity, allocated>>
        BY <2>3 DEF Typed
    <2> QED
        BY <2>1, <2>2, <2>3 DEF Next, vars, sizes, ForwardPass, ExchangeStates, AddCut, ParentsSolve,
           LowerBound, EndIteration, Terminated
<1>5. visited' \in Seq(Points)
    <2>1. CASE Resume
        BY <2>1 DEF Resume
    <2>2. CASE ~Resume
        BY <2>2, VisitedStep DEF Typed
    <2> QED
        BY <2>1, <2>2
<1>6. restarts' \in 0 .. MaxRestarts
    <2>1. CASE Resume
        BY <2>1, SizeAssumption DEF Resume, Typed
    <2>2. CASE UNCHANGED restarts
        BY <2>2 DEF Typed
    <2> QED
        BY <2>1, <2>2 DEF Next, vars, saved, ForwardPass, ExchangeStates, AddCut, ParentsSolve,
           ManageCuts, LowerBound, EndIteration, Terminated
<1> QED
    BY <1>1, <1>2, <1>3, <1>4, <1>5, <1>6 DEF Typed, FpiRange, CutIds

\* Every variable of a pool has its type, the forward pass index stays within the stride
\* (check_visit_bound), and the occupied slots stay within the capacity, through growth and
\* reload (grow_pools_for_next_iteration, new_with_warm_start).
THEOREM PoolTypeCorrect == Spec => []TypeOK
<1>1. Init => Content /\ Typed /\ RowsInv
    BY ContentInit, TypedInit, RowsInit
<1>2. IInv /\ Content /\ Typed /\ RowsInv /\ [Next]_vars => (Content /\ Typed /\ RowsInv)'
    BY ContentStep, TypedStep, RowsStep
<1>3. IInv /\ Content /\ Typed /\ RowsInv => TypeOK
    <2> SUFFICES ASSUME IInv, Content, Typed, RowsInv PROVE TypeOK
        OBVIOUS
    <2>1. populated \in Nat /\ populated <= capacity
        BY WithinCapacity
    <2>2. DOMAIN cuts \subseteq Nat /\ active \subseteq Nat
        BY DEF IInv, SlotsBehindFrontier, CountIsExact
    <2>3. count \in Nat
        BY FiniteSlots, FS_CardinalityType DEF IInv, CountIsExact
    <2>4. warm \in Nat /\ allocated \in Nat
        <3>1. warm \in Nat /\ allocated = PoolCapacity(warm)
            BY DEF IInv, Counters
        <3> QED
            BY <3>1, SizeAssumption DEF PoolCapacity
    <2>5. Range(visited) \subseteq Points
        BY DEF Typed, Range
    <2>6. Range(rows) \subseteq Nat /\ Len(lpValue) = Len(rows)
        BY DEF RowsInv, Range
    <2>7. /\ start \in 0 .. MaxIterations /\ iteration \in 1 .. MaxIterations + 1
          /\ phase \in {"forward", "exchange", "backward", "manage", "bound", "boundary", "done"}
          /\ trials \in 0 .. ForwardPasses /\ next \in 0 .. VisitStride
          /\ disk.completed \in 0 .. MaxIterations
        BY DEF IInv, Counters, Phases
    <2>8. {count, populated, capacity, allocated, warm} \subseteq Nat
        BY <2>1, <2>3, <2>4 DEF Typed
    <2> QED
        BY <2>1, <2>2, <2>5, <2>6, <2>7, <2>8 DEF TypeOK, Typed
<1> QED
    BY <1>1, <1>2, <1>3, Invariance, PTL DEF Spec

=============================================================================
