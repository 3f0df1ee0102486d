----------------------------- MODULE LazySolve -----------------------------
(***************************************************************************)
(* Dynamic cut selection: a worker solves a stage LP with few of its cuts  *)
(* and adds the violated ones until none is left.  The worker's row map    *)
(* outlives the LP; in the backward pass the LP is carried through a run   *)
(* of solves (the openings of a trial point, or a block of both).          *)
(***************************************************************************)
EXTENDS Integers, FiniteSets, SequencesExt

CONSTANTS
    Points,         \* where an LP's stage decision can be
    Pools,          \* pools a stage can have: slot -> cut
    Costs,          \* stage costs an opening's noise can give: Points -> Nat
    Iterations,     \* iterations that solve lazily; 0 is the simulation
    Studies,        \* [k1, cap]: k1 and adaptive_max_added_per_round, 0 for None
    K2, Nadic, MaxRounds,
    MaxValue,       \* bound on what a cut says of the future cost
    Eps,            \* epsilon_viol
    Openings,       \* most solves of a run in the backward pass
    BaseRows        \* rows of the stage template

Cut == [value : [Points -> 0 .. MaxValue], gen : Nat, last : Nat, active : BOOLEAN]

ASSUME LazyAssumption ==
    /\ Points # {} /\ Costs \subseteq [Points -> Nat]
    /\ \A p \in Pools : p \in [DOMAIN p -> Cut] /\ DOMAIN p \subseteq Nat /\ IsFiniteSet(DOMAIN p)
    /\ Iterations \subseteq Nat /\ Studies \subseteq [k1 : Nat, cap : Nat]
    /\ {K2, MaxRounds, MaxValue, Eps, BaseRows} \subseteq Nat
    /\ {Nadic, Openings} \subseteq Nat \ {0}
    /\ \A w \in Studies : w.cap # 0 => w.cap >= Nadic

VARIABLES
    pc,             \* idle, open, score, stored, counted or failed
    study,          \* the parameters of the study
    pool, iteration,
    cost,           \* of the opening whose bounds are patched
    opening,        \* solves of the run begun so far
    rows,           \* cut rows of the LP, the slot of each, in LP order
    rowOf,          \* CutRowMap::slot_to_row, over the slots mapped
    nextRow,        \* CutRowMap::next_row
    view,           \* the solution held: decision and theta
    round, nadic,   \* inner iteration and round_params.nadic
    credited        \* slots counted as binding in the last result

mapVars == <<rowOf, nextRow>>
lpVars == <<rows, cost, view>>
vars == <<pc, study, pool, iteration, opening, mapVars, lpVars, round, nadic, credited>>

SatMinus(a, b) == IF a > b THEN a - b ELSE 0

Active == {s \in DOMAIN pool : pool[s].active}

----------------------------------------------------------------------------
(* The LP: least cost + theta over theta >= 0 and the cut rows              *)

Allows(y, t, slots) == \A s \in slots : t >= pool[s].value[y]
Optimal(c, slots, v) ==
    /\ Allows(v.x, v.theta, slots)
    /\ \A y \in Points, t \in 0 .. MaxValue :
          Allows(y, t, slots) => c[v.x] + v.theta <= c[y] + t
Optima(c, slots) == {v \in [x : Points, theta : 0 .. MaxValue] : Optimal(c, slots, v)}

----------------------------------------------------------------------------
(* Choosing cuts                                                            *)

\* candidate_recency; a warm cut is of iteration u64::MAX
InWindow(s) == study.k1 # 0 => SatMinus(iteration, pool[s].gen) < study.k1

Candidates == {s \in Active : InWindow(s) /\ s \notin DOMAIN rowOf}

\* build_initial_resident_set
InitialResident ==
    {s \in Active : SatMinus(iteration, pool[s].last) <= K2 \/ pool[s].gen = iteration}

Violation(s) == pool[s].value[view.x] - view.theta

Violated == {s \in Candidates : Violation(s) > Eps}

Before(r, s) == Violation(r) > Violation(s) \/ (Violation(r) = Violation(s) /\ r < s)
Worst(n) == {s \in Violated : Cardinality({r \in Violated : Before(r, s)}) < n}

\* S as the sequence append_slots_to_lp is given: worst first, or ascending
Ordered(S, Less(_, _)) ==
    {q \in [1 .. Cardinality(S) -> S] :
        Range(q) = S /\ \A i, j \in DOMAIN q : i < j => Less(q[i], q[j])}
Ascending(r, s) == r < s

----------------------------------------------------------------------------
(* The row map                                                              *)

\* append_slots_to_lp: what is mapped already, or inactive, gets no row.
Appendable(S, map) == {s \in S : s \in Active /\ s \notin DOMAIN map}
Mapped(map, next, q) ==
    [s \in DOMAIN map \cup Range(q) |->
        IF s \in DOMAIN map THEN map[s] ELSE next + (CHOOSE i \in DOMAIN q : q[i] = s) - 1]

\* add_rows in one of the given orders, and one solve of what is then in the LP
AppendAndSolve(held, map, next, c, orders) ==
    \E q \in orders :
        /\ rows' = held \o q
        /\ rowOf' = Mapped(map, next, q)
        /\ nextRow' = next + Len(q)
        /\ view' \in Optima(c, Range(rows'))

Unmapped == [s \in {} |-> 0]
NoPool == [s \in {} |-> {}]
NoView == [x |-> CHOOSE y \in Points : TRUE, theta |-> 0]
NoCost == [y \in Points |-> 0]

----------------------------------------------------------------------------

Init ==
    /\ pc = "idle" /\ study \in Studies
    /\ pool = NoPool /\ iteration = 0
    /\ opening = 0 /\ rows = <<>> /\ rowOf = Unmapped /\ nextRow = 0
    /\ cost = NoCost /\ view = NoView /\ round = 0 /\ nadic = Nadic /\ credited = {}

\* StageOpeningSolver::prepare, or the load of a forward or simulated stage: the
\* core template without cuts.  The row map keeps what the last LP left in it.
Prepare ==
    /\ pc = "idle" /\ pc' = "open"
    /\ pool' \in Pools /\ iteration' \in Iterations
    /\ UNCHANGED <<study, opening, mapVars, lpVars, round, nadic, credited>>

Started ==
    /\ pc = "open" /\ cost' \in Costs
    /\ opening' = opening + 1 /\ round' = 0 /\ nadic' = Nadic /\ credited' = {}
    /\ pc' = "score"
    /\ UNCHANGED <<study, pool, iteration>>

\* Mutant: the carried map is not reset.
SolveFreshStale ==
    /\ opening = 0 /\ Started
    /\ AppendAndSolve(rows, rowOf, nextRow, cost',
                      Ordered(Appendable(InitialResident, rowOf), Ascending))

\* The first of a run, and each forward or simulated stage: reset the map, seed, solve.
SolveFresh ==
    /\ opening = 0 /\ Started
    /\ AppendAndSolve(rows, Unmapped, BaseRows, cost',
                      Ordered(Appendable(InitialResident, Unmapped), Ascending))

\* continue_carry: only the bounds are new.
SolveCarried ==
    /\ opening > 0 /\ Started
    /\ view' \in Optima(cost', Range(rows))
    /\ UNCHANGED <<rows, mapVars>>

StoreResult ==
    /\ pc = "score" /\ round < MaxRounds /\ Violated = {}
    /\ pc' = "stored"
    /\ UNCHANGED <<study, pool, iteration, opening, mapVars, lpVars, round, nadic, credited>>

AddViolated ==
    /\ pc = "score" /\ round < MaxRounds /\ Violated # {}
    /\ AppendAndSolve(rows, rowOf, nextRow, cost, Ordered(Appendable(Worst(nadic), rowOf), Before))
    /\ round' = round + 1
    /\ nadic' = IF study.cap = 0 THEN nadic
                ELSE IF 2 * nadic < study.cap THEN 2 * nadic ELSE study.cap
    /\ UNCHANGED <<pc, study, pool, iteration, cost, opening, credited>>

\* Mutant: only what is violated now.
FallbackViolated ==
    /\ pc = "score" /\ round = MaxRounds
    /\ AppendAndSolve(rows, rowOf, nextRow, cost, Ordered(Appendable(Violated, rowOf), Ascending))
    /\ pc' = "stored"
    /\ UNCHANGED <<study, pool, iteration, cost, opening, round, nadic, credited>>

\* Out of rounds: every eligible cut, violated now or not, and one last solve.
Fallback ==
    /\ pc = "score" /\ round = MaxRounds
    /\ AppendAndSolve(rows, rowOf, nextRow, cost, Ordered(Appendable(Candidates, rowOf), Ascending))
    /\ pc' = "stored"
    /\ UNCHANGED <<study, pool, iteration, cost, opening, round, nadic, credited>>

\* Mutant: row i of the LP taken for the i-th active cut, as in the frozen LP.
CreditedInPoolOrder(binding) ==
    {s \in Active : BaseRows + Cardinality({r \in Active : r < s}) \in binding}

\* accumulate_dcs_binding_counts: the cuts whose row has a positive dual
Credited(binding) == {s \in DOMAIN rowOf : rowOf[s] \in binding}

Tight(s) == pool[s].value[view.x] = view.theta

\* The duals are positive on some tight rows.  Only the backward pass counts them.
CountBindings ==
    /\ pc = "stored" /\ iteration # 0
    /\ \E binding \in SUBSET {BaseRows + i - 1 : i \in {i \in DOMAIN rows : Tight(rows[i])}} :
            credited' = Credited(binding)
    /\ pc' = "counted"
    /\ UNCHANGED <<study, pool, iteration, opening, mapVars, lpVars, round, nadic>>

NextOpening ==
    /\ pc = "counted" /\ opening < Openings
    /\ pc' = "open" /\ cost' = NoCost /\ view' = NoView /\ credited' = {}
    /\ UNCHANGED <<study, pool, iteration, opening, rows, mapVars, round, nadic>>

\* The worker is done with the LP: after any number of solves in a backward run, or
\* after the one solve of a forward or simulated stage.
Leave ==
    /\ \/ pc = "counted"
       \/ pc = "stored" /\ opening = 1
    /\ pc' = "idle" /\ pool' = NoPool /\ iteration' = 0 /\ opening' = 0
    /\ rows' = <<>> /\ cost' = NoCost /\ view' = NoView
    /\ round' = 0 /\ nadic' = Nadic /\ credited' = {}
    /\ UNCHANGED <<study, mapVars>>

\* A solver error of any of the solves ends the pass.
Fail ==
    /\ pc \in {"open", "score"}
    /\ pc' = "failed"
    /\ UNCHANGED <<study, pool, iteration, opening, mapVars, lpVars, round, nadic, credited>>

Stopped == pc = "failed" /\ UNCHANGED vars

Next ==
    \/ Prepare \/ SolveFresh \/ SolveCarried \/ StoreResult \/ AddViolated
    \/ Fallback \/ CountBindings \/ NextOpening \/ Leave \/ Fail \/ Stopped

Spec == Init /\ [][Next]_vars

----------------------------------------------------------------------------

TypeOK ==
    /\ pc \in {"idle", "open", "score", "stored", "counted", "failed"}
    /\ study \in Studies /\ pool \in Pools \cup {NoPool} /\ iteration \in Iterations \cup {0}
    /\ cost \in Costs \cup {NoCost}
    /\ rows \in Seq(DOMAIN pool)
    /\ DOMAIN rowOf \subseteq Nat /\ rowOf \in [DOMAIN rowOf -> Nat] /\ nextRow \in Nat
    /\ view \in [x : Points, theta : 0 .. MaxValue]
    /\ opening \in 0 .. Openings /\ round \in 0 .. MaxRounds
    /\ nadic \in Nat \ {0} /\ credited \subseteq DOMAIN pool

\* The row map and the LP agree: each mapped slot has its own cut in its own row, no
\* cut has two.  CutRowMap outlives the LP ("duplicate rows, broken laziness").
MapMatchesLp ==
    pc \in {"score", "stored", "counted"} \/ (pc = "open" /\ opening > 0) =>
        /\ nextRow = BaseRows + Len(rows)
        /\ DOMAIN rowOf = Range(rows)
        /\ \A i \in DOMAIN rows : rowOf[rows[i]] = BaseRows + i - 1

\* The cuts a result has to respect: all active ones, but for the candidate window.
Considered == {s \in Active : InWindow(s) \/ s \in DOMAIN rowOf}

\* "Exactness makes the converged optimum independent of the seed": a result found
\* with some of the cuts is optimal over all it should consider, to within the
\* tolerance of the violation test, also when the rounds run out, in a carried LP,
\* and on a worker that has just solved another LP.
ResultIsExact ==
    pc = "stored" =>
        /\ Allows(view.x, view.theta + Eps, Considered)
        /\ \A y \in Points, t \in 0 .. MaxValue :
              Allows(y, t, Considered) => cost[view.x] + view.theta <= cost[y] + t

\* A cut counted as binding is tight at the result.  The count keeps a cut in the
\* seeds and the budget; it is read from the duals by row, with the carried map.
CreditedAreTight == \A s \in credited : Tight(s)

=============================================================================
