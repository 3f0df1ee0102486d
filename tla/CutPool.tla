------------------------------- MODULE CutPool -------------------------------
(***************************************************************************)
(* The life of one cut pool of the future cost function: CutPool (cut      *)
(* storage by slot), the periodic cut selection, the budget, between-      *)
(* iteration growth, the append-only lower-bound LP fed from the root      *)
(* pool, basis capture by slot, and the pool's way through a checkpoint    *)
(* into the warm-start prefix of a resumed run.                            *)
(*                                                                         *)
(* The coefficients of a cut are abstracted to its values at the finite    *)
(* set Points of states; a captured basis is the sequence of its rows,     *)
(* each a template row or the identity of a cut.  One pool of one session  *)
(* is driven through forward pass, cut insertion, the parents' backward    *)
(* solves, cut management and the lower bound, iteration by iteration; a   *)
(* crash may interrupt it anywhere.                                        *)
(***************************************************************************)
EXTENDS Integers, Sequences, FiniteSets, SequencesExt

CONSTANTS
    MaxIterations,   \* loop_config.max_iterations
    ForwardPasses,   \* loop_config.forward_passes
    VisitStride,     \* CutPool::visit_stride
    PoolKinds,       \* "root", the stage-0 pool that feeds the lower bound; "interior", of a
                     \* chain under the by-scenario scheduler, "byNode" under the by-node
                     \* one; "branch" and "branchByNode", the same in a branching graph
    Points,          \* states a cut can be evaluated at
    Values,          \* values of a cut at a state
    Strategy,        \* "none", "level1" (Dominated is the same rule) or "lml1"
    CheckFrequency,  \* iterations between two selections
    TieTolerance,    \* tie_tolerance or threshold
    HasBudget,       \* a budget is configured
    Budget,          \* most active cuts
    MaxBinding,      \* bound: slots that bind in one backward sweep
    TemplateRows,    \* structural rows of the stage LP
    MaxRestarts,     \* bound: crashes followed by a resume
    U32Max, U64Max   \* u32::MAX and u64::MAX, scaled down

ASSUME SizeAssumption ==
    /\ MaxIterations \in Nat \ {0}
    /\ ForwardPasses \in Nat \ {0}
    /\ VisitStride \in Nat \ {0}
    /\ VisitStride <= ForwardPasses
    /\ TemplateRows \in Nat
    /\ MaxRestarts \in Nat
    /\ MaxBinding \in Nat
ASSUME PolicyAssumption ==
    /\ PoolKinds \subseteq {"root", "interior", "byNode", "branch", "branchByNode"}
    /\ HasBudget \in BOOLEAN
    /\ Strategy \in {"none", "level1", "lml1"}
    /\ CheckFrequency \in Nat \ {0}
    /\ TieTolerance \in Nat
    /\ Budget \in Nat
    /\ Values \subseteq Nat
ASSUME WidthAssumption ==
    /\ U32Max \in Nat /\ U64Max \in Nat
    /\ MaxIterations < U32Max /\ U32Max < U64Max
    /\ U64Max % (U32Max + 1) = U32Max

WARM_START_ITERATION == U64Max
AsU32(n) == n % (U32Max + 1)

NoBasis == [rows |-> <<>>, base |-> 0, slots |-> <<>>, at |-> 0]
NoCheckpoint == [completed |-> 0, records |-> <<>>, basis |-> NoBasis]

VARIABLES
    cuts,        \* slot -> cut, for the occupied slots
    active,      \* slots whose activity flag is set
    count,       \* cached_active_count
    populated,   \* populated_count, the slot high-water mark
    capacity,    \* number of allocated slots
    allocated,   \* capacity when the session started, which sizes every
                 \* per-slot buffer of the workers and the LB row map
    warm,        \* warm_start_count
    start,       \* start_iteration; iteration_base is start + 1
    kind,        \* which pool this is
    iteration,   \* current iteration
    phase,       \* where the iteration is
    trials,      \* trial points of this iteration
    next,        \* next forward_pass_index of this iteration
    visited,     \* the node's visited-state archive
    rows,        \* slots in the lower-bound LP, in row order (CutRowMap)
    lpValue,     \* what those rows bound: value of each row when it was added
    basis,       \* the basis scenario 0 has for the node, the one that is saved; its
                 \* field at, a ghost, is the iteration of the capture, 0 if it was loaded
    disk,        \* the checkpoint a resume would read
    diskValue,   \* value of the active cuts at each point when disk was written
    restarts     \* resumes so far

sizes == <<capacity, allocated, warm, start, kind>>
lp == <<rows, lpValue>>
saved == <<disk, diskValue, restarts>>
vars == <<cuts, active, count, populated, sizes, iteration, phase, trials,
          next, visited, lp, basis, saved>>

IsRoot == kind = "root"

----------------------------------------------------------------------------
(* CutPool: slots and values *)

\* Mutants: the warm prefix is forgotten; the stride is forgotten.
SlotIndexIgnoresWarm(i, fpi) == (i - (start + 1)) * VisitStride + fpi
SlotIndexUnstrided(i, fpi) == warm + (i - (start + 1)) + fpi

\* slot_index
SlotIndex(i, fpi) == warm + (i - (start + 1)) * VisitStride + fpi

\* Mutant: room for one iteration beyond the warm cuts.
PoolCapacityOneIteration(warmCount) == warmCount + VisitStride

\* pool_capacity, with one iteration to spare (setup and load_checkpoint_into_setup)
PoolCapacity(warmCount) == warmCount + (MaxIterations + 1) * VisitStride

\* The slots of S in increasing order
InOrder(S) ==
    [i \in 1 .. Cardinality(S) |-> CHOOSE s \in S : Cardinality({t \in S : t < s}) = i - 1]

\* active_cuts
ActiveSlots == InOrder(active)

\* evaluate_at_state over a set of slots; -1 stands for minus infinity
ValueAt(f, slots, p) == Max({-1} \cup {f[s].value[p] : s \in slots})
Value(p) == ValueAt(cuts, active, p)

\* write_capture_metadata: one row per active cut, tagged with its slot.
Captured ==
    [rows |-> [i \in 1 .. TemplateRows |-> "template"]
                  \o [i \in 1 .. Len(ActiveSlots) |-> cuts[ActiveSlots[i]].id],
     base |-> TemplateRows,
     slots |-> ActiveSlots,
     at |-> iteration]

\* In a branching graph scenario 0 need not pass the node, and need not pass a parent.
MayMiss == kind \in {"branch", "branchByNode"}

\* The bases the forward pass may leave for scenario 0: run_forward_stage captures at the
\* nodes the scenario passes.
AfterForward == {Captured} \cup (IF MayMiss THEN {basis} ELSE {})

\* The bases the parents' solves may leave: the by-scenario scheduler captures where
\* scenario 0 passes a parent (save_basis_at_omega_zero), which it does where it passes the
\* node; the by-node scheduler only reads the store, and the root has no parent.
AfterParents ==
    IF kind \notin {"interior", "branch"} THEN {basis}
    ELSE {Captured} \cup (IF MayMiss /\ basis.at # iteration THEN {basis} ELSE {})

----------------------------------------------------------------------------
(* Cut selection *)

ShouldRun == Strategy # "none" /\ ~IsRoot /\ iteration % CheckFrequency = 0

\* Mutant: the cuts of this iteration are judged too.
EligibleFresh == {s \in DOMAIN cuts : s >= warm}

\* Cuts the selection may switch: not warm-start, not of this iteration.
Eligible == {s \in DOMAIN cuts : s >= warm /\ cuts[s].gen < iteration}

\* Mutant: the best is taken over the active cuts only.
SelectedAtActiveMax(p) ==
    LET near == {s \in Eligible : cuts[s].value[p] >= Value(p) - TieTolerance}
    IN  IF Strategy = "lml1" /\ near # {} THEN {Min(near)} ELSE near

\* apply_column_rule: eligible cuts within tolerance of the best cut of all, or
\* only the oldest of them.
SelectedAt(p) ==
    LET near == {s \in Eligible :
                    cuts[s].value[p] >= ValueAt(cuts, DOMAIN cuts, p) - TieTolerance}
    IN  IF Strategy = "lml1" /\ near # {} THEN {Min(near)} ELSE near

Selected == UNION {SelectedAt(p) : p \in Range(visited)}

SelectionApplies == ShouldRun /\ visited # <<>> /\ Cardinality(Eligible) >= 2

\* select_for_stage, then apply_updates through set_active.
Deactivations == IF SelectionApplies THEN (active \cap Eligible) \ Selected ELSE {}
Reactivations == IF SelectionApplies THEN Selected \ active ELSE {}
ActiveAfterSelection == (active \ Deactivations) \cup Reactivations

\* Mutant: set_active(slot, true) leaves the cached count alone.
CountAfterSelectionDrift == count - Cardinality(Deactivations)

CountAfterSelection == count - Cardinality(Deactivations) + Cardinality(Reactivations)

\* trim_to_window runs after every selection that should run.
Trimmed ==
    LET window == CheckFrequency * ForwardPasses
    IN  IF ShouldRun /\ Len(visited) > window
        THEN SubSeq(visited, Len(visited) - window + 1, Len(visited))
        ELSE visited

----------------------------------------------------------------------------
(* Budget and growth *)

\* (last_active_iter, active_count) of s is not above that of t.
NotStalerThan(s, t) ==
    \/ cuts[t].last < cuts[s].last
    \/ cuts[t].last = cuts[s].last /\ cuts[t].uses <= cuts[s].uses

Candidates(slots) == {s \in slots : cuts[s].gen # iteration}

\* Mutant: one cut too few is evicted.
EvictionsShort(slots, n) ==
    IF ~HasBudget \/ n <= Budget THEN {{}}
    ELSE {e \in SUBSET Candidates(slots) :
            Cardinality(e) = Min({n - Budget - 1, Cardinality(Candidates(slots))})}

\* The sets enforce_budget may evict from n active slots: the excess, stalest and
\* least used first, ties in any order (the sort is unstable).
Evictions(slots, n) ==
    IF ~HasBudget \/ n <= Budget THEN {{}}
    ELSE LET candidates == Candidates(slots)
             excess == Min({n - Budget, Cardinality(candidates)})
         IN  {e \in SUBSET candidates :
                /\ Cardinality(e) = excess
                /\ \A s \in e, t \in candidates \ e : NotStalerThan(t, s)}

\* grow_pools_for_next_iteration doubles until another iteration would fit.
Grown ==
    LET least == Max({capacity, 1})
    IN  IF capacity - populated >= ForwardPasses THEN capacity
        ELSE Min({n \in {least * 2 ^ k : k \in 0 .. ForwardPasses} :
                    n - populated >= ForwardPasses})

----------------------------------------------------------------------------
(* Checkpoint and reload *)

\* Mutant: the number of cuts is taken for the slot high-water mark.
CutRecordsPrefix ==
    LET slots == InOrder(DOMAIN cuts \cap 0 .. Cardinality(DOMAIN cuts) - 1)
    IN  [i \in 1 .. Len(slots) |->
            LET c == cuts[slots[i]]
            IN  [slot |-> slots[i], iteration |-> AsU32(c.gen), fpi |-> c.fpi,
                 value |-> c.value, active |-> slots[i] \in active, id |-> c.id]]

\* build_stage_cut_records: every occupied slot, in slot order.
CutRecords ==
    LET slots == InOrder(DOMAIN cuts)
    IN  [i \in 1 .. Len(slots) |->
            LET c == cuts[slots[i]]
            IN  [slot |-> slots[i], iteration |-> AsU32(c.gen), fpi |-> c.fpi,
                 value |-> c.value, active |-> slots[i] \in active, id |-> c.id]]

\* Mutant: a basis is exported for a pool with gaps.
BasisRecordKeepsGaps ==
    [rows |-> basis.rows, base |-> Cardinality(DOMAIN cuts), slots |-> <<>>, at |-> 0]

\* build_stage_basis_records: no basis for a pool with unoccupied slots, which
\* the reload closes; num_cut_rows is the populated count, whatever number of cut rows
\* was captured.  The slots are not saved.
BasisRecord ==
    IF basis = NoBasis \/ \E s \in 0 .. populated - 1 : s \notin DOMAIN cuts
    THEN NoBasis
    ELSE [rows |-> basis.rows, base |-> populated, slots |-> <<>>, at |-> 0]

\* build_basis_cache_from_checkpoint
LoadedBasis(record, records) ==
    LET live == InOrder({i \in DOMAIN records : records[i].active})
        liveSlots == [i \in 1 .. Len(live) |-> records[live[i]].slot]
        numCut == record.base
    IN  IF record = NoBasis THEN NoBasis
        ELSE IF Len(live) = numCut /\ numCut <= Len(record.rows)
        THEN [rows |-> record.rows, base |-> Len(record.rows) - numCut, slots |-> liveSlots,
              at |-> 0]
        ELSE [rows |-> record.rows, base |-> Len(record.rows), slots |-> <<>>, at |-> 0]

\* CutPool::new_with_warm_start: record i goes to slot i, whatever slot it had.
WarmCuts(records) ==
    [s \in 0 .. Len(records) - 1 |->
        LET r == records[s + 1]
        IN  [value |-> r.value, gen |-> WARM_START_ITERATION, fpi |-> r.fpi,
             uses |-> 0, last |-> r.iteration, id |-> r.id]]

----------------------------------------------------------------------------
Init ==
    /\ cuts = << >> /\ active = {} /\ count = 0 /\ populated = 0
    /\ capacity = PoolCapacity(0)
    /\ allocated = capacity
    /\ warm = 0 /\ start = 0
    /\ kind \in PoolKinds
    /\ iteration = 1 /\ phase = "forward" /\ trials = 0 /\ next = 0
    /\ visited = <<>> /\ rows = <<>> /\ lpValue = <<>>
    /\ basis = NoBasis
    /\ disk = NoCheckpoint
    /\ diskValue = [p \in Points |-> -1]
    /\ restarts = 0

\* The forward pass solves the node with the frozen active cuts; where scenario 0 does, its
\* basis is captured.
ForwardPass ==
    /\ phase = "forward"
    /\ phase' = "exchange"
    /\ basis' \in AfterForward
    /\ UNCHANGED <<cuts, active, count, populated, sizes, iteration, trials, next,
                   visited, lp, saved>>

\* The level's exchange gathers the trial states of every rank and archives them;
\* active_forward_passes may be fewer than forward_passes in early iterations.
ExchangeStates ==
    /\ phase = "exchange"
    /\ phase' = "backward"
    /\ \E n \in 1 .. ForwardPasses :
          /\ trials' = n
          /\ IF Strategy = "none" THEN UNCHANGED visited
             ELSE \E states \in [1 .. n -> Points] : visited' = visited \o states
    /\ UNCHANGED <<cuts, active, count, populated, sizes, iteration, next, lp, basis,
                   saved>>

\* Mutant: check_visit_bound lets one index too many through.
AddCutUnchecked ==
    /\ phase = "backward"
    /\ next <= Min({trials, VisitStride})
    /\ next' = next + 1
    /\ UNCHANGED <<cuts, active, count, populated, sizes, iteration, phase, trials,
                   visited, lp, basis, saved>>

\* add_cut for the next trial point routed to this node and selected for a cut;
\* check_visit_bound keeps the index below the stride.
AddCut ==
    LET slot == SlotIndex(iteration, next)
    IN  /\ phase = "backward"
        /\ next < Min({trials, VisitStride})
        /\ \E v \in [Points -> Values] :
              cuts' = [s \in DOMAIN cuts \cup {slot} |->
                        IF s = slot
                        THEN [value |-> v, gen |-> iteration, fpi |-> next, uses |-> 0,
                              last |-> iteration, id |-> <<iteration, next>>]
                        ELSE cuts[s]]
        /\ active' = active \cup {slot}
        /\ count' = count + 1
        /\ populated' = Max({populated, slot + 1})
        /\ next' = next + 1
        /\ UNCHANGED <<sizes, iteration, phase, trials, visited, lp, basis, saved>>

\* The parents' level solves this node for every opening: sync_stage_metadata
\* records the binding cuts, and the scheduler may capture the basis.  The root has no
\* parent.
ParentsSolve ==
    /\ phase = "backward"
    /\ phase' = "manage"
    /\ \E binding \in {b \in SUBSET active :
                          Cardinality(b) <= MaxBinding /\ (IsRoot => b = {})} :
          cuts' = [s \in DOMAIN cuts |->
                    IF s \in binding
                    THEN [cuts[s] EXCEPT !.uses = @ + 1, !.last = iteration]
                    ELSE cuts[s]]
    /\ basis' \in AfterParents
    /\ UNCHANGED <<active, count, populated, sizes, iteration, trials, next, visited, lp,
                   saved>>

\* run_cut_management, then grow_pools_for_next_iteration.
ManageCuts ==
    /\ phase = "manage"
    /\ phase' = "bound"
    /\ \E evicted \in Evictions(ActiveAfterSelection, CountAfterSelection) :
          /\ active' = ActiveAfterSelection \ evicted
          /\ count' = CountAfterSelection - Cardinality(evicted)
    /\ visited' = Trimmed
    /\ capacity' = Grown
    /\ UNCHANGED <<cuts, populated, allocated, warm, start, kind, iteration, trials, next,
                   lp, basis, saved>>

\* Mutant: the rows are counted instead of looked up by slot.
LowerBoundByCount ==
    LET new == SubSeq(ActiveSlots, Len(rows) + 1, Len(ActiveSlots))
    IN  /\ phase = "bound"
        /\ phase' = "boundary"
        /\ rows' = IF IsRoot THEN rows \o new ELSE rows
        /\ lpValue' = IF IsRoot
                      THEN lpValue \o [i \in 1 .. Len(new) |-> cuts[new[i]].value]
                      ELSE lpValue
        /\ UNCHANGED <<cuts, active, count, populated, sizes, iteration, trials, next,
                       visited, basis, saved>>

\* evaluate_lower_bound on rank 0: append_new_cuts_to_lp adds the active root cuts
\* that have no row yet.
LowerBound ==
    LET new == InOrder(active \ Range(rows))
    IN  /\ phase = "bound"
        /\ phase' = "boundary"
        /\ rows' = IF IsRoot THEN rows \o new ELSE rows
        /\ lpValue' = IF IsRoot
                      THEN lpValue \o [i \in 1 .. Len(new) |-> cuts[new[i]].value]
                      ELSE lpValue
        /\ UNCHANGED <<cuts, active, count, populated, sizes, iteration, trials, next,
                       visited, basis, saved>>

\* The iteration boundary: the callback may be due for a checkpoint, and the loop
\* goes round or ends.
EndIteration ==
    /\ phase = "boundary"
    /\ \/ /\ disk' = [completed |-> iteration, records |-> CutRecords, basis |-> BasisRecord]
          /\ diskValue' = [p \in Points |-> Value(p)]
       \/ UNCHANGED <<disk, diskValue>>
    /\ IF iteration < MaxIterations
       THEN iteration' = iteration + 1 /\ phase' = "forward"
       ELSE iteration' = iteration /\ phase' = "done"
    /\ trials' = 0 /\ next' = 0
    /\ UNCHANGED <<cuts, active, count, populated, sizes, visited, lp, basis, restarts>>

\* The process is gone; a new one resumes from the checkpoint.
Resume ==
    LET records == disk.records
    IN  /\ disk.completed > 0
        /\ restarts < MaxRestarts
        /\ phase # "done"
        /\ cuts' = WarmCuts(records)
        /\ active' = {s \in 0 .. Len(records) - 1 : records[s + 1].active}
        /\ count' = Cardinality({i \in 1 .. Len(records) : records[i].active})
        /\ populated' = Len(records)
        /\ capacity' = PoolCapacity(Len(records))
        /\ allocated' = capacity'
        /\ warm' = Len(records)
        /\ start' = disk.completed
        /\ iteration' = disk.completed + 1
        /\ phase' = IF disk.completed < MaxIterations THEN "forward" ELSE "done"
        /\ trials' = 0 /\ next' = 0
        /\ visited' = <<>> /\ rows' = <<>> /\ lpValue' = <<>>
        /\ basis' = LoadedBasis(disk.basis, records)
        /\ restarts' = restarts + 1
        /\ UNCHANGED <<disk, diskValue, kind>>

Terminated == phase = "done" /\ UNCHANGED vars

Next == ForwardPass \/ ExchangeStates \/ AddCut \/ ParentsSolve \/ ManageCuts \/ LowerBound
        \/ EndIteration \/ Resume \/ Terminated

Spec == Init /\ [][Next]_vars

----------------------------------------------------------------------------
(* Properties *)

Cut == [value : [Points -> Values], gen : 1 .. MaxIterations \cup {WARM_START_ITERATION},
        fpi : 0 .. VisitStride - 1, uses : Nat, last : 0 .. U32Max,
        id : (1 .. MaxIterations) \X (0 .. VisitStride - 1)]

\* Every variable has its type; forward_pass_index never reaches the stride, which
\* check_visit_bound turns into an error before add_cut would spill over; and the
\* occupied slots lie within the capacity.
TypeOK ==
    /\ DOMAIN cuts \subseteq Nat
    /\ \A s \in DOMAIN cuts : cuts[s] \in Cut
    /\ active \subseteq Nat
    /\ {count, populated, capacity, allocated, warm} \subseteq Nat
    /\ populated <= capacity
    /\ start \in 0 .. MaxIterations
    /\ iteration \in 1 .. MaxIterations + 1
    /\ phase \in {"forward", "exchange", "backward", "manage", "bound", "boundary", "done"}
    /\ trials \in 0 .. ForwardPasses
    /\ next \in 0 .. VisitStride
    /\ Range(visited) \subseteq Points
    /\ Range(rows) \subseteq Nat /\ Len(lpValue) = Len(rows)
    /\ disk.completed \in 0 .. MaxIterations
    /\ diskValue \in [Points -> Values \cup {-1}]
    /\ restarts \in 0 .. MaxRestarts

\* cached_active_count equals the number of set activity flags, through insertion,
\* selection, eviction and reload.  active_cuts stops after that many cuts, so a
\* low count silently drops the newest cuts from every LP.
CountIsExact ==
    /\ count = Cardinality(active)
    /\ active \subseteq DOMAIN cuts

\* Slot identity: within a session, and across selection, growth and eviction, an
\* occupied slot keeps its cut.  Bases and the lower-bound rows are keyed by slot;
\* add_cut overwrites whatever its slot held.
SlotsAreStable ==
    [][restarts' = restarts =>
        \A s \in DOMAIN cuts :
            /\ s \in DOMAIN cuts'
            /\ cuts'[s].id = cuts[s].id
            /\ cuts'[s].value = cuts[s].value
            /\ cuts'[s].gen = cuts[s].gen]_vars

\* Every occupied slot lies below the capacity the pool had when the session built
\* its per-slot buffers and the lower bound's CutRowMap, which are not resized with
\* the pool; and below the high-water mark, which bounds every scan of the slots.
AllocatedSuffices ==
    \A s \in DOMAIN cuts : s < allocated /\ s < populated

\* The cuts of the running iteration are active until the iteration ends: neither
\* select_for_stage nor enforce_budget may drop them before they were used once.
FreshCutsActive ==
    \A s \in DOMAIN cuts : cuts[s].gen = iteration => s \in active

\* enforce_budget is a hard cap, except for the cuts of the running iteration.
BudgetRespected ==
    HasBudget /\ phase \in {"bound", "boundary"}
        => count <= Budget \/ \A s \in active : cuts[s].gen = iteration

\* A selection loses nothing at the states it looks at: there the cuts it leaves
\* active reach the best of all occupied cuts, to within the tolerance.  Cuts that
\* an earlier selection or the budget had dropped come back when they are the best.
SelectionKeepsValue ==
    phase = "manage" /\ SelectionApplies =>
        \A p \in Range(visited) :
            ValueAt(cuts, ActiveAfterSelection, p)
                >= ValueAt(cuts, DOMAIN cuts, p) - TieTolerance

\* Append-only lower bound: once evaluated, its LP has a row for every cut this
\* session generated at the root, evicted since or not, and bounds the future cost
\* by at least what the active cuts say at every point.
LbRowsComplete ==
    IsRoot /\ phase = "boundary" =>
        /\ \A s \in DOMAIN cuts : s >= warm => s \in Range(rows)
        /\ \A p \in Points : Max({-1} \cup {lpValue[i][p] : i \in DOMAIN lpValue}) >= Value(p)

\* A row of the lower-bound LP is the cut its slot maps to, and no cut has two rows.
LbRowsFaithful ==
    /\ IsInjective(rows)
    /\ \A i \in DOMAIN rows : rows[i] \in DOMAIN cuts /\ lpValue[i] = cuts[rows[i]].value

\* A resumed run starts from the value function that was checkpointed, although
\* the reload moves every cut behind a gap to another slot.
ResumeKeepsValue ==
    [][restarts' = restarts + 1 =>
        \A p \in Points : ValueAt(cuts', active', p) = diskValue[p]]_vars

\* Row base + i of basis b is the row of the cut in slots[i] of the pool f;
\* reconstruct_basis reads the statuses by that correspondence.
Aligned(b, f) ==
    /\ Len(b.rows) = b.base + Len(b.slots)
    /\ b.slots # <<>> => b.base = TemplateRows
    /\ \A i \in DOMAIN b.slots : b.slots[i] \in DOMAIN f /\ b.rows[b.base + i] = f[b.slots[i]].id

\* The cut rows of the saved basis are those of the active saved cuts, in slot order.
SavedRowsAreCurrent ==
    LET live == InOrder({i \in DOMAIN disk.records : disk.records[i].active})
    IN  /\ Len(disk.basis.rows) = TemplateRows + Len(live)
        /\ \A i \in 1 .. Len(live) : disk.basis.rows[TemplateRows + i] = disk.records[live[i]].id

\* The parents' solves capture last in every iteration, and no selection adds a cut after.
ParentsCaptureLast == kind = "interior" /\ Strategy = "none"

\* The cut rows of a basis are those of its slots: of every basis captured in the session,
\* however long ago (write_capture_metadata); of every saved basis once reloaded, if its
\* rows are those of the cuts saved with it; and where the parents capture last, at
\* all times, reloaded or not.  Elsewhere a basis older than the cuts it is saved with is
\* misread, but has as many cut rows as slots (the assertion of reconstruct_basis).
BasisAligned ==
    /\ Len(basis.rows) = basis.base + Len(basis.slots)
    /\ basis.at # 0 \/ ParentsCaptureLast => Aligned(basis, cuts)
    /\ SavedRowsAreCurrent => Aligned(LoadedBasis(disk.basis, disk.records), WarmCuts(disk.records))

=============================================================================
