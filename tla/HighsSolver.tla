---------------------------- MODULE HighsSolver ----------------------------
(***************************************************************************)
(* One worker's HiGHS solver: a first run, and when it fails a ladder of   *)
(* twelve more under changing options and time budgets.  The handle and    *)
(* what its last run left in it serve the next LP.                         *)
(***************************************************************************)
EXTENDS Integers, FiniteSets, Functions

CONSTANTS
    Profiles,       \* what set_profile is called with
    DefaultProfile, \* HighsProfile::default
    Cols,           \* numbers of columns of the LPs
    Unlimited,      \* i32::MAX
    LimitFloor, LimitPerCol,    \* 100000 and 50
    MaxSolves       \* bound on the solves of a run

ASSUME SolverAssumption ==
    /\ DefaultProfile \in Profiles /\ DefaultProfile.presolve = "on"
    /\ DefaultProfile.tol = 1 /\ DefaultProfile.perturb = 0
    /\ \A p \in Profiles : p.tol \in Nat /\ p.perturb \in Nat /\ p.limit \in Nat
    /\ \A p \in Profiles : DOMAIN p = {"presolve", "tol", "perturb", "rest", "limit"}
    /\ Cols \subseteq Nat
    /\ {Unlimited, LimitFloor, LimitPerCol, MaxSolves} \subseteq Nat

VARIABLES
    pc,             \* idle, first (a first run under way), ladder or retry
    options,        \* the options of the HiGHS handle
    profile,        \* current_profile
    cols,           \* num_cols, 0 when no LP is loaded
    nature,         \* what the LP truly is
    warm,           \* the handle may start from a basis of another LP
    unbounded,      \* is_unbounded: what the first run reported
    level,          \* levels of the ladder run
    result,         \* of the last solve
    stats

callVars == <<unbounded, level, result>>
vars == <<pc, options, profile, cols, nature, warm, callVars, stats>>

Levels == 0 .. 11
Natures == {"feasible", "infeasible", "unbounded"}
\* An IterationLimit is among what Terminal can say, but always retried.
Errors == {"Infeasible", "Unbounded", "TimeLimitExceeded", "InternalError",
           "NumericalDifficulty", "BasisRowCountMismatch", "BasisInconsistent"}

----------------------------------------------------------------------------
(* Options.  Tolerances are in units of 1e-9, limit is the iteration cap,   *)
(* rest the eight fields of a profile that no level changes.                *)

Larger(a, b) == IF a > b THEN a ELSE b

Limit(p, n) == IF p.limit = 0 THEN Larger(LimitPerCol * n, LimitFloor) ELSE p.limit

\* A handle as new() leaves it
Fresh == [solver |-> "simplex", presolve |-> "on", tol |-> 1, perturb |-> 0,
          rest |-> DefaultProfile.rest, limit |-> Unlimited, objScale |-> 0, boundScale |-> 0]

Kept == {"limit", "objScale", "boundScale"}
Profiled == {"presolve", "tol", "perturb", "rest"}

\* o with the given fields set as in q
Taking(o, fields, q) ==
    [f \in Kept \cup Profiled \cup {"solver"} |-> IF f \in fields THEN q[f] ELSE o[f]]

\* restore_default_settings: the table of 17 options has no limit and no user scale.
RestoreDefaults(o) == Taking(Fresh, Kept, o)

WithProfile(o, p) == Taking(o, Profiled, p)

Scaled(o, objective, bound) ==
    Taking(o, {"objScale", "boundScale"}, [objScale |-> objective, boundScale |-> bound])

WithLimits(o, p, n) == [o EXCEPT !.limit = Limit(p, n)]

\* Mutant: the scales of the last level stay.
RestoredScaled(o, p) == Taking(WithProfile(RestoreDefaults(o), p), {"limit"}, Fresh)

\* What follows the ladder, whatever came of it
Restored(o, p) == Taking(WithProfile(RestoreDefaults(o), p), Kept, Fresh)

Loosened(o, p, floor) == [o EXCEPT !.tol = Larger(floor, p.tol)]

\* apply_extended_retry_options
Extended(o, p, n, l) ==
    LET restored == WithLimits(RestoreDefaults(o), p, n)
        base == [restored EXCEPT !.presolve = "on"]
    IN  CASE l \in {5, 6} -> base
          [] l = 7 -> Loosened(base, p, 10)
          [] l = 8 -> [base EXCEPT !.objScale = -10]
          [] l = 9 -> Scaled(base, -10, -5)
          [] l = 10 -> Loosened(Scaled(base, -13, -8), p, 100)
          [] l = 11 -> Loosened([Scaled(base, -10, -5) EXCEPT !.solver = "ipm"], p, 100)

\* apply_retry_level_options.  Levels 2, 6 and 9 ask for the dual simplex, which is
\* what the handle has anyway.
AtLevel(o, p, n, l) ==
    CASE l = 0 -> [WithLimits(o, p, n) EXCEPT !.perturb = 1]
      [] l = 1 -> [o EXCEPT !.presolve = "on"]
      [] l = 2 -> o
      [] l = 3 -> Loosened(o, p, 10)
      [] l = 4 -> [o EXCEPT !.solver = "ipm"]
      [] OTHER -> Extended(o, p, n, l)

----------------------------------------------------------------------------
(* What a run reports.  Assumed of HiGHS: "optimal" is true; so is          *)
(* "infeasible" unless the run started from another LP's basis; the limits, *)
(* failures and "unbounded" can be spurious at any time.                    *)

Reports(started) ==
    {"unbounded", "iteration_limit", "time_limit", "error", "other"}
        \cup (IF nature = "feasible" THEN {"optimal"} ELSE {"unbounded_or_infeasible"})
        \cup (IF nature = "infeasible" \/ started THEN {"infeasible"} ELSE {})

\* interpret_terminal_status; a ray decides between the two of the third line.  A
\* solve error or an unknown status is not terminal.
Terminal(status) ==
    CASE status = "infeasible" -> {"Infeasible"}
      [] status = "unbounded" -> {"Unbounded"}
      [] status = "unbounded_or_infeasible" -> {"Infeasible", "Unbounded"}
      [] status = "time_limit" -> {"TimeLimitExceeded"}
      [] status = "iteration_limit" -> {"IterationLimit"}
      [] status = "other" -> {"InternalError"}
      [] OTHER -> {}

FirstRetryable(status, slow) ==
    slow \/ status \in {"unbounded", "infeasible", "iteration_limit", "time_limit"}

LevelRetryable(status, slow) == slow \/ status \in {"unbounded", "iteration_limit"}

----------------------------------------------------------------------------

Init ==
    /\ pc = "idle" /\ options = Fresh /\ profile = DefaultProfile
    /\ cols = 0 /\ nature = "feasible" /\ warm = FALSE
    /\ unbounded = FALSE /\ level = 0 /\ result = "none"
    /\ stats = [solves |-> 0, ok |-> 0, failed |-> 0, firstTry |-> 0, retries |-> 0,
                recovered |-> [l \in Levels |-> 0], offered |-> 0, rejected |-> 0]

\* ProfiledSolver::set_profile at a phase boundary
SetProfile ==
    /\ pc = "idle"
    /\ \E p \in Profiles \ {profile} :
          profile' = p /\ options' = WithProfile(options, p)
    /\ UNCHANGED <<pc, cols, nature, warm, callVars, stats>>

LoadModel ==
    /\ pc = "idle"
    /\ cols' \in Cols /\ nature' \in Natures /\ warm' = FALSE /\ result' = "none"
    /\ UNCHANGED <<pc, options, profile, unbounded, level, stats>>

\* add_rows, set_row_bounds, set_col_bounds: another LP, the same basis
Patch ==
    /\ pc = "idle" /\ cols # 0
    /\ nature' \in Natures /\ result' = "none"
    /\ UNCHANGED <<pc, options, profile, cols, warm, unbounded, level, stats>>

\* reset_loaded_model
ResetLoaded ==
    /\ pc = "idle" /\ cols # 0
    /\ warm' = FALSE /\ result' = "none"
    /\ UNCHANGED <<pc, options, profile, cols, nature, unbounded, level, stats>>

\* Counted as a failure of consistency, but not as offered.
RejectShortBasis ==
    /\ pc = "idle" /\ cols # 0 /\ stats.rejected < MaxSolves
    /\ stats' = [stats EXCEPT !.rejected = @ + 1]
    /\ result' = "BasisRowCountMismatch"
    /\ UNCHANGED <<pc, options, profile, cols, nature, warm, unbounded, level>>

RejectInconsistentBasis ==
    /\ pc = "idle" /\ cols # 0 /\ stats.rejected < MaxSolves
    /\ stats' = [stats EXCEPT !.rejected = @ + 1, !.offered = @ + 1]
    /\ result' = "BasisInconsistent"
    /\ UNCHANGED <<pc, options, profile, cols, nature, warm, unbounded, level>>

\* solve_inner, with an offered basis or what the last run left
BeginSolve ==
    /\ pc = "idle" /\ cols # 0 /\ stats.solves < MaxSolves
    /\ \E offer \in BOOLEAN :
          /\ warm' = (warm \/ offer)
          /\ stats' = [stats EXCEPT !.solves = @ + 1,
                                    !.offered = IF offer THEN @ + 1 ELSE @]
    /\ options' = WithLimits(options, profile, cols)
    /\ pc' = "first" /\ result' = "none"
    /\ UNCHANGED <<profile, cols, nature, unbounded, level>>

\* The call returns.  The basis of its last run stays in the handle.
Return(r, o) ==
    /\ pc' = "idle" /\ result' = r /\ options' = o
    /\ warm' = TRUE /\ level' = 0 /\ unbounded' = FALSE
    /\ UNCHANGED <<profile, cols, nature>>

FirstOptimal ==
    /\ pc = "first" /\ "optimal" \in Reports(warm)
    /\ Return("Ok", [options EXCEPT !.limit = Unlimited])
    /\ stats' = [stats EXCEPT !.ok = @ + 1, !.firstTry = @ + 1]

FirstTerminal ==
    /\ pc = "first"
    /\ \E status \in Reports(warm) \ {"optimal"} :
          /\ ~FirstRetryable(status, FALSE)
          /\ \E e \in Terminal(status) : Return(e, [options EXCEPT !.limit = Unlimited])
    /\ stats' = [stats EXCEPT !.failed = @ + 1]

Escalate ==
    /\ pc = "first"
    /\ \E status \in Reports(warm) \ {"optimal"}, slow \in BOOLEAN :
          /\ FirstRetryable(status, slow) \/ Terminal(status) = {}
          /\ unbounded' = (status = "unbounded")
    /\ pc' = "ladder" /\ level' = 0
    /\ UNCHANGED <<options, profile, cols, nature, warm, result, stats>>

\* Mutant: level 0 keeps the basis.
BeginLevelWarm ==
    /\ pc = "ladder" /\ level \in Levels
    /\ options' = AtLevel(options, profile, cols, level)
    /\ pc' = "retry"
    /\ UNCHANGED <<profile, cols, nature, warm, callVars, stats>>

\* Level 0 clears the solver; the later ones go on from there.
BeginLevel ==
    /\ pc = "ladder" /\ level \in Levels
    /\ options' = AtLevel(options, profile, cols, level)
    /\ warm' = (warm /\ level # 0)
    /\ pc' = "retry"
    /\ UNCHANGED <<profile, cols, nature, callVars, stats>>

\* Mutant: a recovered solve does not pay for the levels that failed.
RecoverUnpaid ==
    /\ pc = "retry" /\ "optimal" \in Reports(warm)
    /\ Return("Ok", Restored(options, profile))
    /\ stats' = [stats EXCEPT !.ok = @ + 1, !.retries = @ + 1, !.recovered[level] = @ + 1]

Recover ==
    /\ pc = "retry" /\ "optimal" \in Reports(warm)
    /\ Return("Ok", Restored(options, profile))
    /\ stats' = [stats EXCEPT !.ok = @ + 1, !.retries = @ + level + 1,
                              !.recovered[level] = @ + 1]

LevelTerminal ==
    /\ pc = "retry"
    /\ \E status \in Reports(warm) \ {"optimal"} :
          /\ ~LevelRetryable(status, FALSE)
          /\ \E e \in Terminal(status) : Return(e, Restored(options, profile))
    /\ stats' = [stats EXCEPT !.failed = @ + 1, !.retries = @ + level + 1]

NextLevel ==
    /\ pc = "retry"
    /\ \E status \in Reports(warm) \ {"optimal"}, slow \in BOOLEAN :
          LevelRetryable(status, slow) \/ Terminal(status) = {}
    /\ pc' = "ladder" /\ level' = level + 1
    /\ UNCHANGED <<options, profile, cols, nature, warm, unbounded, result, stats>>

\* Out of levels, or out of the overall budget before another one
GiveUp ==
    /\ pc = "ladder" /\ level > 0
    /\ Return(IF unbounded THEN "Unbounded" ELSE "NumericalDifficulty",
              Restored(options, profile))
    /\ stats' = [stats EXCEPT !.failed = @ + 1, !.retries = @ + level]

Done ==
    /\ pc = "idle" /\ stats.solves = MaxSolves
    /\ UNCHANGED vars

Next ==
    \/ SetProfile \/ LoadModel \/ Patch \/ ResetLoaded
    \/ RejectShortBasis \/ RejectInconsistentBasis
    \/ BeginSolve \/ FirstOptimal \/ FirstTerminal \/ Escalate
    \/ BeginLevel \/ Recover \/ LevelTerminal \/ NextLevel \/ GiveUp \/ Done

Spec == Init /\ [][Next]_vars

----------------------------------------------------------------------------

TypeOK ==
    /\ pc \in {"idle", "first", "ladder", "retry"}
    /\ options \in [solver : {"simplex", "ipm"},
                    presolve : {"on"} \cup {p.presolve : p \in Profiles}, tol : Nat, perturb : Nat,
                    rest : {p.rest : p \in Profiles}, limit : Nat,
                    objScale : {0, -10, -13}, boundScale : {0, -5, -8}]
    /\ profile \in Profiles /\ cols \in Cols \cup {0} /\ nature \in Natures
    /\ warm \in BOOLEAN /\ unbounded \in BOOLEAN /\ level \in 0 .. 12
    /\ result \in {"none", "Ok"} \cup Errors
    /\ stats \in [solves : Nat, ok : Nat, failed : Nat, firstTry : Nat, retries : Nat,
                  recovered : [Levels -> Nat], offered : Nat, rejected : Nat]

ForPhase(limit) == [WithProfile(Fresh, profile) EXCEPT !.limit = limit]

\* "The inner options already equal current_profile on every solve (set at phase
\* boundaries; the retry path restores them)": each first run, however earlier solves
\* went, has the options of its phase's profile and the limit of its own LP.  Phase 2
\* of the ladder "starts fresh each time": its options depend on the level, the
\* profile and the LP, not on the levels before it.
OptionsInForce ==
    /\ pc = "first" => options = ForPhase(Limit(profile, cols))
    /\ pc = "idle" => options = ForPhase(Unlimited)
    /\ pc = "retry" /\ level >= 5 => options = Extended(Fresh, profile, cols, level)

\* A feasible LP is not called infeasible because of the basis it was started from:
\* the first answer is taken back, and level 0 asks again from a clear solver.
NoFalseInfeasible == result = "Infeasible" => nature # "feasible"

Total(f) == FoldFunction(LAMBDA a, b : a + b, 0, f)

\* Every solve that returned is counted once; recovered ones by their level, "the sum
\* equals success_count - first_try_successes", and with all levels they took.
StatsBalance ==
    /\ stats.solves = stats.ok + stats.failed + (IF pc = "idle" THEN 0 ELSE 1)
    /\ Total(stats.recovered) = stats.ok - stats.firstTry
    /\ stats.retries >= Total([l \in Levels |-> (l + 1) * stats.recovered[l]])
    /\ stats.retries <= 12 * (stats.solves - stats.firstTry)

=============================================================================
