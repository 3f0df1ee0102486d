# TLA+ verification of Cobre

Cobre plans hydrothermal power systems by stochastic dual dynamic programming
(SDDP). A run builds a study from input files, trains a *policy* (a future cost
function made of cutting planes, "cuts") in iterations of a forward pass, a
backward pass and a lower bound, saves the policy, and simulates it. Training runs
on several MPI ranks, each with several worker threads; a policy can be
checkpointed, resumed and used as a warm start.

The numerics (linear programs, random processes, risk measures) are not the
subject here. The subject is what surrounds them: ranks that must call the same
collectives in the same order, cut slots that identify cuts across pools, bases,
LP rows and checkpoints, files that must survive a kill, and a ring of commitments
that must deliver, stages later, what was decided.

## Inventory

Paths are under `src/crates/`; `sddp/` abbreviates `cobre-sddp/src/`.

| Component | State it keeps | Operations | Interacts with | Hard behaviour | Correct when |
|---|---|---|---|---|---|
| Training loop and session (`sddp/training/training.rs`, `session/mod.rs`, `rank_reconcile.rs`) | iteration, result, convergence monitor, shutdown flag | `run_iteration`, `checkpoint`, `finalize`, `finalize_with_error`, the `reconcile_*` family | calls the passes, the lower bound, the callback; collectives with the other ranks | a failure on some ranks only; per-rank decisions; a flag set by another thread | all ranks make the same collectives, end together with the same outcome, checkpoint only at a common boundary |
| Backward pass (`sddp/training/backward_pass_state.rs`, `backward/`) | levels, trial routing, staged cuts, per-slot binding counters | `run_sampled_backward`, `run_enumerated_backward`, `run_one_backward_level`, `sync_stage_metadata` | inserts cuts, exchanges them, counts binding slots | a data-dependent number of collectives | the number depends on replicated data only |
| Forward pass (`forward_pass_state.rs`, `forward/`) | trajectories, captured bases | solve stages, capture basis, `sync_forward` | reads the pools | failure on one rank | failure agreed before the next collective |
| Lower bound (`lower_bound.rs`, `cut/row.rs`, `cut/row_map.rs`) | an append-only LP and its slot-to-row map | `evaluate_lower_bound`, `append_new_cuts_to_lp` | reads the root pool, broadcasts | only the root solves; the pool it mirrors loses and regains cuts | every cut has exactly one row, with its own coefficients |
| Cut pool (`cut/pool.rs`, `cut/fcf.rs`) | cuts by slot, activity, cached active count, metadata, capacity | `add_cut`, `set_active`, `apply_updates`, `enforce_budget`, `grow`, `new_with_warm_start` | everything addresses cuts by slot | long histories of insertion, eviction, growth, reload | slots are stable and in range, count exact, budget kept |
| Cut selection, visited states (`cut/cut_selection.rs`, `training/visited_states.rs`) | archive of visited states | `should_run`, `select_for_stage`, `trim_to_window` | deactivates and reactivates | interplay with budget and warm start | nothing is lost at the states looked at; fresh cuts stay |
| Policy export and load (`policy/policy_export.rs`, `policy_load.rs`, `cobre-cli/src/commands/run/policy.rs`) | cut and basis records | build records, load, resume, warm start | pool, basis cache | dense renumbering of gapped slots; integer casts | the resumed run has the saved value function; bases keep their row meaning |
| Policy files (`cobre-io/src/output/policy/checkpoint.rs`, `policy/orchestration.rs`) | directories, `.bin` files, manifest, `checkpoint.json` | `write_policy_checkpoint`, `write_periodic_checkpoint`, read | callback, output phase, later runs | kills and I/O errors between file operations; leftovers | a readable artifact is one whole snapshot |
| Cut synchronisation (`cut/cut_sync.rs`, `cut/wire.rs`, `state_exchange.rs`) | wire buffers | pack, gather, insert in rank order | pool, ranks | order of insertion | all replicas of a pool equal |
| Convergence and stopping rules (`convergence/`) | bound history, start time, shutdown flag | `update`, `evaluate` | the loop | wall clock, `Any` and `All`, the reason of a stop | same decision on all ranks |
| Worker scheduling (`claim_scatter.rs`, `backward/by_node.rs`, `forward/enumerated.rs`) | claim counter, per-worker outputs | claim, canonical scatter | threads | any claim order | result independent of it |
| Simulation (`simulation/`, `run/simulation.rs`) | workers, bounded channel, drain thread | simulate, drain, aggregate | ranks, writer | failure of one rank, worker or writer | ranks stay in lockstep; no result lost |
| CLI run phases (`run/mod.rs`, `run/setup.rs`) | phase plan | broadcast, set up, train, write, simulate, abort | all of the above | a rank leaves early | outputs complete before an abort |
| Dynamic cut selection (`cut/dcs.rs`, `stage_solve`, `backward/by_node.rs`) | the few cut rows of a worker's LP, its row map | `seed_window`, rounds of `score_violated` and append, fallback, carry | reads the pools, credits binding cuts | an LP and a row map that outlive a solve, each in its own way | the result is that of an LP with all the cuts |
| Solver backends (`cobre-solver`) | model, basis, options, statistics | profile, first run, retry ladder | passes | time budgets, options and a basis left by an earlier run | each run has the options meant for it, no verdict of the LP comes from a leftover |
| Anticipated commitments (`sddp/lead_time/`, `sddp/lp/builder/delivery_ring.rs`, `entries.rs`, `state_box.rs`; `cobre-io/src/validation/semantic/thermal.rs`) | a ring of committed powers in the LP state | resolve leads, size and seed the ring; fish, carry, latch, freeze; price and date slots | input checks, setup, LP, cuts, policy files | a slot means another delivery in every stage; leads in hours over uneven stages; a gap after the study | each delivery is decided once, kept, and generated at its stage |
| Communication (`cobre-comm`) | communicator | collectives | ranks | library boundary | wrapper checks |
| Study setup, LP builder, production models, stochastic models, input and validation, core model (the ring apart) | immutable data | pure construction | read by the above | none of order or failure | unit tests fit better |
| Python binding | shutdown flag, event thread | run, drain events | training loop | flag set during an iteration | stop honoured |
| `cobre-emt`, `-flow`, `-mcp`, `-tui`, `-uc` | none | none | none | none | placeholders |

`PROJECT.json` lists the same components with what is modelled of each, and every
hazard at its line.

## Modules

| Module | Models | Extended or used by |
|---|---|---|
| `TrainingSession` | the training loop on all ranks, down to single collectives | `TrainingSessionProofs` |
| `CutPool` | one cut pool through iterations, selection, budget, lower bound, checkpoint and resume | `CutPoolProofs` |
| `PolicyArtifact` | abstract: what a reader of an output directory may rely on | instantiated by `PolicyStore` |
| `PolicyStore` | the files behind it, one file operation per step, with kills and I/O errors | `PolicyStoreProofs` |
| `SweepLayout` | the constant part of a backward pass: levels, trial points of a rank, units, warm-start chains | `BackwardSweep`, `LevelSweep` |
| `BackwardSweep` | abstract: the pools one process would build alone, on every rank | instantiated by `LevelSweep` |
| `LevelSweep` | the sampled backward pass: workers claiming units, merge, vote, cut exchange, binding counts | `MCLevelSweep`, `MCLevelBinding`, `LevelSweepProofs` |
| `LazySolve` | dynamic cut selection of one worker, with the LP and row map it carries | `MCLazySolve`, `LazySolveProofs` |
| `HighsSolver` | one worker's HiGHS handle: profile, first run, twelve-level ladder, statistics | `MCHighsSolver`, `HighsSolverProofs` |
| `RunPhases` | the phases of a `run` command on all ranks, and the simulation's threads | `RunPhasesProofs` |
| `LeadTime` | pure: which stage decides a delivery, how many are in flight, the numbering of the ring | `CommitmentBook`, `CommitmentRing` |
| `CommitmentBook` | abstract: each delivery is committed once and delivered unchanged | instantiated by `CommitmentRing` |
| `CommitmentRing` | the ring along one scenario path: checks, setup, stage solves, cut and policy slots | `MCCommitmentRing`, `CommitmentRingProofs` |
| `CutPoolProofs` | theorems: types, slots, counts, buffers, budget; what slots, rows, records and bases stand for | |
| `TrainingSessionProofs`, `PolicyStoreProofs`, `LevelSweepProofs`, `LazySolveProofs`, `HighsSolverProofs`, `RunPhasesProofs`, `CommitmentRingProofs` | theorems of the module they are named after | |

How they compose: `RunPhases` has training as one meeting with a common outcome,
which is what `TrainingSession` shows (`FailureIsGlobal`); `TrainingSession` has a
node's solves as one step that fails or not, which `LevelSweep` takes apart down to
the workers; `LevelSweep` fills the slots whose further life is `CutPool`'s; a solve
of a worker is `LazySolve` with dynamic selection, and its LP run is `HighsSolver`;
the checkpoint callback and the saving of the policy are `PolicyStore`'s.
`CommitmentRing` is about the content of the state that the passes hand from stage to
stage and stands for itself.

### TrainingSession

`at[r]` is the collective rank `r` is heading for or, when `inCall[r]`, blocked in,
with the loop counters of the program: iteration, cut level, node of the level,
successor region. Local computation between two collectives is one action
(`ForwardPass`, `RouteTrials`, `SolveNode`, `SolveReplicated`, `LowerBound`,
`UpdateConvergence`, `WriteCheckpoint`, `EnterFinalize`, and `EnterPlain` where the
code in between can neither branch nor fail), because ranks share no memory and can
influence each other only in a collective. `Return` is MPI's side: when all ranks
are blocked and their calls match (`Signature`: operation, element type,
reduction), all go on to the place the code goes next (`After`). Ranks in calls
that do not match stay there.

* A failed solve sets `flag[r]`, the integer `reconcile_global_ok` reduces. In the
  enumerated sweep the failure leaves the loop without a reduction, as the code does.
* `sync_stage_metadata` returns before its reduction if the pool is empty, so each
  rank's `populated[r]` decides how many reductions it makes (`PendingRegions`).
* The stopping decision is made on every rank from its copy of the broadcast bound
  (`bound`), its own clock (`late`) and its own flag (`shutdown`).
* The four broadcasts of `broadcast_basis_cache` are one position; message lengths
  are not part of a signature; the rule set combines with `StoppingMode::Any`.
* The number of forward passes is constant, as it is after the ramp of
  `active_forward_passes`.

### CutPool

`cuts` maps an occupied slot to its cut: value at each state of `Points`,
generation, forward pass index, use counters and an identity. The identity is a ghost: it
is what a slot *should* go on meaning in bases, LP rows and records. An iteration is
`ForwardPass` (may capture the basis), `ExchangeStates` (archives visited states),
`AddCut` for each trial point, `ParentsSolve` (binding counters; may capture the basis),
`ManageCuts` (selection, budget, archive window and growth,
as `run_cut_management` and `grow_pools_for_next_iteration` do them),
`LowerBound` (new rows of the root's LP) and `EndIteration` (an optional
checkpoint). `Resume` may replace any state before the end by one built from the
checkpoint: `new_with_warm_start` renumbers records densely, marks them warm, and
`build_basis_cache_from_checkpoint` reconstructs the slots of the basis rows.
The basis is the one of scenario 0, which alone is broadcast and saved
(`broadcast_basis_cache`). Who captures it depends on `kind`. The root has the forward pass's.
In a chain every scenario passes every node, and the by-scenario scheduler captures again in the
parents' solves (`save_basis_at_omega_zero`, kind "interior"), while the by-node scheduler only
reads the store ("byNode"). In a branching graph scenario 0 may pass neither the node nor a
parent of it ("branch", "branchByNode"), and the basis is then that of an earlier iteration,
or none. Dynamic cut selection captures nothing and the enumerated mode only in the
forward pass: both are behaviours of "branchByNode".
`u64` and `u32` are scaled down to `U64Max` and `U32Max`, so that the `as u32` cast of
the warm-start sentinel does what it does in the code. The sort of `enforce_budget` is
unstable: `Evictions` yields every set it may evict.

### PolicyStore and PolicyArtifact

A directory's content is `files`, `manifest` and `json`. File contents are
abstracted to the snapshot (run, iteration, set of files) they were written from. `pc`
follows `write_periodic_checkpoint` (`BeginPeriodic`, `ClearPending`,
`CreatePending`, ..., `WriteJson`, `PublishGeneration`) and
`write_policy_checkpoint` (`WithdrawManifest`, `Sweep`, `PutFile`, `Commit`), which
both use. `Crash` may follow any step, `IoError` replaces any step of the writer: a
failed periodic checkpoint ends training with an error, after which the policy is
still saved, without bases; a failed save ends the run. A single file appears
atomically because `write_bytes_atomic` renames a temporary sibling with another
extension, which neither reader nor sweep looks at; `checkpoint.json` is written in
place and can be cut short. `PolicyArtifact` is the promise to a reader:
a policy directory goes from readable to unreadable to readable, never from one
snapshot to a mixture, and a generation appears once and stays. The refinement
maps a directory without manifest to "nothing", a complete one to its snapshot, and
anything else to a value the abstract specification cannot reach.

### SweepLayout, BackwardSweep and LevelSweep

`SweepLayout` holds what is fixed before a worker runs: `Levels`, the passes of a rank,
the trial points routed to a node, the units of both schedulers (`byScenario`: a trial
point with all its openings; `byNode`: a tile of trial points with a block of openings)
and the order of the solves within a unit (`Run`). A linear program may have several dual
solutions, and which one a solve returns depends on where it starts; so a solve is
represented by the cuts its child's pool held and the *chain* of solves since the last
cold start, and two cuts are equal when all their solves are.

`LevelSweep` has per rank a claim counter (`cursor`, `ClaimCursor::claim`) and per worker
its status, solver chain, staged outcomes and binding counters. `Claim`, `Solve` and
`FailSolve` interleave over workers and ranks; `Finish` scatters the outcomes into the
arena, which is never cleared, and inserts the rank's cuts; `Reconcile` is the vote on the
node's success and starts the next node; after the level's last node `Gather` and
`InsertRemote` exchange the cuts and `SyncMetadata` reduces the binding counts child by
child. `BackwardSweep` has one step per level: every rank gets the same pools, which are
those one process would build visiting the trial points in order; and a failing sweep
fails everywhere. `ImplementsSweep` maps a level to the moment all its steps are over.

Left out: point selection (`backward_selection`), which the session refuses with several
ranks (`training/session/mod.rs:167`); the enumerated engine's merge of outcomes over
ranks; and the choice of binding cuts: every active cut of the child binds in each
solve. `StatsFit` states that the per-opening statistics are read within their length.
It fails when an earlier sibling of a level has more outcomes than the last one. No run
checks it, since the late loop that `MCLevelBinding` shows is its cause as well, and the
instance of `MCLevelSweep` has its siblings in the order that cannot fail.

### LazySolve

A worker solves a *run* of LPs that differ in their bounds only: the openings of a trial
point or a block of both (`backward/by_node.rs:325`), or one forward or simulated stage.
`SolveFresh` resets the row map and seeds the LP with the cuts of a window (at iteration 0,
which is the simulation, with all active cuts), `SolveCarried` keeps rows and map
(`continue_carry`). While cuts without a row are violated, `AddViolated` appends the
worst, a number it doubles up to a cap; out of rounds, `Fallback` appends every eligible
cut and solves once more. `CountBindings` credits cuts through the row map. The LP is its
set of optima over finitely many decisions, so a tie is any choice a solver may make;
bases are left out, violations are integers and `Eps` is the tolerance.

### HighsSolver

`options` is what the HiGHS handle has, grouped by what the code changes together;
tolerances are in units of 1e-9. `BeginSolve` and the actions after it follow
`solve_inner`: a first run with the profile's options and a cap by LP size
(`FirstOptimal`, `FirstTerminal`, `Escalate`), then up to twelve levels (`BeginLevel`,
`Recover`, `LevelTerminal`, `NextLevel`), each with its options, and `GiveUp` between any
two of them when the budget is spent. What HiGHS says of a run is any status its
interface can return, restricted by `Reports`: "optimal" is true, and "infeasible" can be
wrong only when the run started from a basis of another LP. The clock is a choice: any run
may count as slow. Levels 2, 6 and 9 name a simplex strategy that is in force anyway. CLP
is left out; the default build does not contain it.

### RunPhases

`todo[r]` is what rank `r` has still to do, one of the sequences `Phases` can yield. A step
is taken alone (`FallibleAnywhere`, or `FallibleAtRoot` where only the root does anything)
or is a meeting of all ranks; consecutive collectives without a decision between them
are one meeting. A failure is agreed on before the next meeting (exports, simulation)
or ends the process by a return, after which `main` aborts the communicator. A failed load
is broadcast as empty parts; a failure to *serialize* them, on the root alone, is not
modelled.

The simulation is modelled in detail: workers that solve and send, fail or never start
(`Solve`, `Send`, `Refuse`), a channel of bounded capacity, the drain thread with writes
that may fail and a possible panic (`Take`, `Write`, `Panic`, `EndDrain`), the join, the
reconcile, the merged counts and the gathered costs; sampled, or as a census of all
paths. `ResultsAccounted` relates what is reported to what is on disk.

### LeadTime, CommitmentBook and CommitmentRing

An anticipated thermal plant commits the power of a delivery stage some hours or stages
ahead. `Decider` is the stage that commits it (`resolve_decider_*`), `PreStudy` if that lies
before the study; a `K = 0` delivery, decided in its own stage, is not anticipated. The
commitments in flight are in a ring of `kMax` slots per plant, part of the LP's state: the
delivery `m` is in slot `RingIndex(m) % kMax`, where `RingIndex` leaves out the stages after
the study that are committed beforehand (`Excised`).

`CommitmentRing` follows one scenario path. `Init` is an input the checks accept
(`Accepted`, `PastOf`); `BuildInitialState` or `RejectFanOut` is the setup. `SolveStage` is
one stage's LP with the read-back: the slot maturing now fixes the generation (`Fishes`,
without slack: `Feasible`), a slot due later is held (`Carries`), the decision of this stage
is latched (`Latches`), all others are frozen at zero, and the result is clamped (`Boxed`).
Without a feasible generation the solve fails and the path has no further step. A decision is any value
the LP may return; the model takes the two ends of its bounds, each widened by `Slack`,
which stands for the tolerances of the solver and of the input checks. Values in between
are clamped to themselves and take the same way. `CommitmentBook` is what all this is for:
`Open` enters the past commitments, `Turn` delivers what is due, keeps the rest and
commits what the lead places in this stage, computed from the calendar without a ring.

The validator finds the leading stages by its own walk (`LeadDeliveryStageCount`).

Left out: costs and discounts; the commitments in the excised window, which enter the
objective as a constant and never the ring; per-block bounds, which the input checks
refuse for these plants; the expansion of the stage calendar to nodes of the graph, on which
the ring does not depend; what cut rows and policy files read from the slots.

## Runs

| Run | Question | Result |
|---|---|---|
| `MCTrainingSampled` | Two ranks, sampled mode, checkpoints, failures anywhere: lockstep, one result, all or none in the basis broadcast, termination? | holds |
| `MCTrainingSingle` | One rank, enumerated, time limit, shutdown flag: is the flag honoured? | holds |
| `MCTrainingEnumerated` | Two ranks, enumerated: do the ranks stay in matching calls? | violated |
| `MCPoolSelection` | LML1 selection, a budget and growth on an interior pool: exact count, no value lost, fresh cuts kept? | holds |
| `MCPoolResume` | Root, chain and branching pools, both schedulers, gaps, budget, two resumes: slots, buffers, LP rows, value function, bases? | holds |
| `MCPolicyStore` | Two runs over one directory, kills and errors anywhere: readable means complete, generations whole and immutable, refinement of `PolicyArtifact`? | holds |
| `MCLevelSweep` | Two ranks of two workers, both schedulers, any claim order, one failing solve: are the pools those of one process, and equal on both ranks? | holds |
| `MCLevelBinding` | Two levels of two siblings: do binding counts reach the pool of the child that bound? | violated |
| `MCLazySolve` | One worker over many pools, costs and windows: is each result exact, does the row map match, do counts go to tight cuts? | holds |
| `MCHighsSolver` | Two solves under changing profiles, statuses and budgets: the right options in each run, no false infeasibility, balanced counters? | holds |
| `MCRunPhases` | Two ranks of two workers through every phase plan, any step failing: are results accounted for, failures agreed, does the job end? | holds |
| `MCCommitmentRing` | Two plants with all kinds of leads and calendars: one delivery per slot, no infeasible stage, both calendar walks equal, refinement of `CommitmentBook`? | holds |

### What the violated ones show

1. `MCTrainingEnumerated`. `run_backward_node_replicated`
   (`training/backward/replicated.rs:283`) returns a failed slice with `?` before the
   gather of line 291. The failing rank enters the final reduction and its peers the
   gather. The sampled sweep reconciles at the same point.
2. `MCLevelBinding`. A level's binding counts are reduced in a loop after its last node's
   solve (`training/backward_pass_state.rs:1655`), from counters that every node's solve
   zeroes and refills from index 0. The children of an earlier sibling get the counts
   of the last one's, or none, and the budget evicts by these counts.

### Known, without a run

Observations met while modelling that the runs above do not state:

* `TimeLimit` compares a rank's own clock (`stopping_rule.rs:174`); two ranks may disagree
  and one leaves the loop. Both kinds of next call are an integer maximum reduction, so
  the calls *match* and the ranks drift apart one call later, against "`broadcast_basis_cache`
  is entered by all ranks or none" (`session/mod.rs:646`). `TimeLimited = TRUE` in
  `MCTrainingSampled.cfg` shows it.
* `set_nonzero_mask` (`lp/indexer/state_space.rs:724`) and `reachable_delivery_target`
  (`policy/policy_export.rs:61`) take the slots of the ring from a plant's own lead on for
  padding. That would be right if a slot were the distance to the delivery; it is a residue
  modulo the depth of all plants. With leads of one and two stages, the first plant's
  commitments for odd stages are in slot 1: the cut rows leave their coefficient out,
  and the policy file gives them no date. With leads 1 and 3, slot 0 of the first plant gets
  the date of a delivery that is decided later, against the assertion of line 202.
* `build_initial_state` clamps a seed to the delivery stage's bounds (`setup/mod.rs:2893`)
  whether or not the plant is in operation then. For a plant with a positive lower bound the
  accepted zero (`thermal.rs:903`) becomes that bound, meets a generation fixed at zero, and
  the stage is infeasible. `MCCommitmentRing` leaves out exactly these inputs (`Idle`), and the
  theorems assume that there are none (`PastIsServable`), so `NeverInfeasible` says that
  there is no other way.
* `check_commitment_coverage` adds up the past windows of a stage, the seeding takes a window
  only if it covers a stage alone (`setup/mod.rs:2877`): the slot of a leading stage shared
  by two windows stays zero without a message. In `CommitmentRing` each window is of one stage.
* A selection takes the best over all occupied cuts, warm ones that the budget
  deactivated included, but reactivates only later ones: after a resume it can drop cuts
  as dominated by a cut that never returns. `SelectionIsLossless` assumes no resume.
* Exporting a warm cut casts its generation `u64::MAX` to `u32`, and the reload takes the
  result as its last active iteration: the budget then holds it for the freshest of all.
* The exported basis states the populated count as its number of cut rows
  (`policy_export.rs:742`), while the reader takes the trailing `num_cut_rows` rows for the
  active cuts at capture (`policy_load.rs:397`) and foresees only that a selection
  *deactivated* cuts since (`policy_load.rs:407`). Where the basis was captured before the cuts
  it is saved with, the reload reads template rows as cut rows: at the root, under the by-node
  scheduler, in a branching graph where scenario 0 took another way, and where a selection
  *reactivated* a cut after the capture. It spoils the warm start of a solve, not its
  optimum. The model has all four, and `Aligned(basis, cuts)` alone fails under kinds "root",
  "byNode" and "branch" after one iteration and a resume; `BasisAligned` states what holds.
* A generation that exists, from any earlier run, is left alone and reported as written.
* `write_training_results` leaves status "complete" and `training/_SUCCESS` also when the
  run then returns a training error (`results_writer.rs:120`, before `run/mod.rs:237`),
  while the Python reader takes a missing marker for a run that did not complete.
* `MetadataScenarios.total` is documented as dispatched scenarios (`manifest.rs:427`) and
  counts the written ones.
* With several ranks the exit code of the job is that of the rank whose abort comes first.
* A set shutdown flag stops the loop without a triggered rule unless `GracefulShutdown`
  is configured (`stopping_rule.rs:331`); the reason of the stop is then "unknown".
* `broadcast_basis_cache` lets the root fail alone when a payload exceeds `i32::MAX`
  elements (`training.rs:217`), with its peers already in the broadcast.
* CLP only: `new()` does not apply the default profile that `ProfiledSolver::new` takes as
  applied (`profiled.rs:40`), so a solver that is never given another one runs with CLP's
  own perturbation until its first ladder; the histogram of recovered levels stays empty,
  though `types.rs:190` says what it adds up to.

### Bounds

* Training: two ranks are the least that can disagree; two iterations let a
  decision of the first one matter; two levels of two nodes let a level be entered
  again, a node receive no visit (an empty pool whose metadata reduction is
  skipped) and a visit count pass its stride (three passes, stride two). Worker
  counts 1 and 2 make the worker check fail. The theorems remove the bounds for
  the sampled mode.
* Pool: `MaxIterations` 3 with stride 2 and up to two resumes is enough for a gap, a
  renumbering of it, and a second generation of warm cuts. Four iterations with
  two points let a cut be dropped and come back under selection. `MaxBinding`,
  `MaxRestarts`, `Values = {0, 1}` bound the data. The stride is smaller than the
  number of passes in `MCPoolSelection`, as at a node of a branching graph, so the pool
  grows. The run leaves the kind `branchByNode` out: its captures are those of `byNode`
  and `branch` together. The theorems hold for every kind and remove these bounds.
* Store: two runs over one directory, the second with other files than the first;
  two cut files, one basis and one states file show every order of kinds; two
  iterations with the first one not due. The theorems remove the bounds.
* Level sweep: three passes over two ranks make the shares unequal; two workers race; two
  siblings that share a leaf make a level of two nodes with one child's pool used by
  both; a second leaf of one opening makes an opening block cross from one child to the
  next; a tile of two points shows the turning order; a stride of two for three
  possible visits shows the overflow; one failing solve fails a region on one rank. The
  theorems remove these bounds.
* Lazy solve: four cuts of four ages, two rounds that add one cut each, so that the
  fallback is needed, windows and caps on and off, two openings to a run.
* HiGHS: two profiles that differ in every field, two LP sizes around the floor of the
  iteration cap; the second of two solves sees what the first one left behind. The
  theorems remove these bounds.
* Run phases: five scenarios give two ranks with two workers unequal shares at both
  levels; a channel of one makes every worker wait. The theorems remove these bounds but for
  the end of the job, which is liveness.
* Ring: two plants, because the depth is common and the leads are not; two or three
  stages of one or two hours and up to two after the study, leads of one to three stages
  and of 1, 2, 3 and 6 hours. These contain ties of a lead with a boundary, `K = 0`
  deliveries, refused fan-outs, a fixed window after the study with a carried delivery
  behind it, and leads longer than the study. The bounds of delivery stages are disjoint
  intervals, so a power in a wrong stage shows, and one plant may enter late or leave early,
  with a lower bound of zero or a positive one. The theorems remove these bounds.

### Fairness

Two modules have liveness. In `TrainingSession` a rank that can compute does so (weak
fairness of its local step: an operating system runs every process, an LP solve ends by
its iteration and time limits), and MPI completes a collective that all ranks entered
with matching arguments (weak fairness of `Return`). Nothing is assumed about mismatched
calls, clocks, flags or failures. `RunPhases` assumes only that the job as a whole goes on
while anything can happen (weak fairness of `Next`); every behaviour of it is finite,
so this is enough for `EverybodyEnds`. No fairness is assumed of the others: a crash
may end the pool and the store at any time, and the level sweep, the lazy solve, the
solver and the ring are safety only; that they do not get stuck is the deadlock check of their
runs, and for the level sweep, whose state graph has no cycle, that is termination.

`CHECK_DEADLOCK` is on everywhere but in `MCRunPhases` and the runs of the ring, where a
scenario path ends with its last stage. In `MCRunPhases` the end of a run is a state
without successor, and `EverybodyEnds` says which ends there are. One of them is not
good: a rank that fails to bind its communicator leaves before the abort is in reach and
its peers wait.

## Proofs

`TrainingSessionProofs` proves for any number of ranks, iterations, levels, nodes and
passes:

* `TypeCorrect`, in every mode. The only step that is not immediate is `Return`, which
  needs the type of `After`; `NextRegion` chooses a least element, which exists by
  well-foundedness (`LeastNatural`).
* `ShutdownIsHonoured`, in every mode: an iteration begins only where the flag was read
  unset. `FlagRead` carries the reading from the convergence check to the boundary.
* For `~Enumerated`, `~TimeLimited` and `Flagged = {}`: `SampledLockstep`. `Lockstep` is
  itself inductive together with `TypeOK`: besides equal positions it says which
  variables agree *between* which collectives (flags and bounds until they
  have been reduced or broadcast), that a rank with an error heads for
  `finalize` and sends its flag there, and that a stop equals the broadcast
  bound. Local steps keep it because they touch none of the shared part,
  `Return` because equal inputs of `After` give equal results.
* From it `SampledNoMismatchedCall`, `SampledResult`, `SampledFailure`,
  `SampledBasisBroadcast` and `SampledCheckpoint`.

The three assumptions are exactly the modes in which a rank decides on its own:
`MCTrainingEnumerated` shows that dropping the first breaks the theorem, and the same
instance with a time limit that dropping the second does.

`CutPoolProofs` proves `SlotsKeepTheirCuts`, `BuffersSuffice`, `CountStaysExact`,
`FreshCutsStayActive` and `BudgetIsRespected` for all iterations, passes, strides,
strategies, budgets, points and numbers of resumes; the assumptions are those of
`CutPool`. None of the properties is inductive alone. The invariant `IInv` adds the
*frontier*: all occupied slots lie below `SlotIndex(iteration, next)`, so the
slot that `add_cut` takes is free (`SlotIsFree`), the boundary of an iteration moves the
frontier up to the next stride (`EndIterationInvariant`), and it never passes what was
allocated for `MaxIterations + 1` iterations (`FrontierBound`). A generation never
exceeds the running iteration, and the warm-start marker is no iteration because
`MaxIterations < U32Max < U64Max`; this is what makes a fresh cut recognisable. The count is
exact because deactivated cuts are active, reactivated ones are not, and evicted ones
are among the rest (`SelectionEffect`, `EvictionEffect`); for `lml1` this needs that
the oldest of a non-empty set of slots is one of them (`LeastNatural`).

`PoolTypeCorrect` follows: a pool ends at an occupied slot, which lies below the frontier. That
its growth ends needs that a doubling covers the passes of an iteration: `PowerExceeds` counts
the singletons among the subsets of `1 .. k`.

What the cuts mean builds on that invariant. Listing slots in order (`InOrder`) is
defined by rank, and `InOrderFacts` shows that it lists each slot once. Then:

* `LbRowsAreFaithful`, `LbRowsAreComplete`: `RowsInv` says that a cut of the session
  without a row is of the running iteration. Such a cut is still active when the bound is
  evaluated (`FreshCutsStayActive`), so it gets its row then.
* `ResumeIsFaithful`: `Content` says that the saved value function is that of the active
  records; `RecordFacts` that the records are the cuts in slot order.
* `SelectionIsLossless`, without a resume: the best cut at a visited state is either
  eligible, and then something near it is selected, or of the running iteration, and
  then it stays.
* `BasisStaysAligned`: a basis captured in the session was of the active cuts, and its slots
  keep them, however many iterations ago that was. A basis is saved of a pool without gaps only, so
  record `i` is slot `i - 1`; the reload takes cut rows only if all records are active
  (`LoadedFacts`), and they are the right ones if the saved rows are those of the saved
  cuts (`CurrentIsAligned`). `LastInv` adds where that is always so: in a chain, by scenario and
  without selection, the slots captured by the parents' solves contain the active ones,
  so a pool saved with all cuts active has a row for each.

`PolicyStoreProofs` proves for all sets of files, schedules and numbers of runs
`StoreTypeCorrect`, `ReadableComplete`, `GenerationsWhole`, `GenerationsStay` and
`StoreImplementsArtifact`. `ReadableIsComplete` is not inductive: a commit is safe only
because the target has exactly the files put so far. The strengthening (`Inv`) adds what
the writer knows at each step: from the sweep on the target has no manifest; while it puts
files, each is absent or from the snapshot; a pending directory's manifest belongs to a
complete directory of its iteration; and a generation about to be built does not exist.
The refinement needs one thing more, that a generation that is not there has no manifest;
then every file operation maps to a step of the artifact or to a stutter, the commit
and the rename being the only ones that publish.

`LevelSweepProofs` proves, for any number of ranks, workers and units, any node graph that
`check_node_graph` accepts and any solving orders:

* `UnitsClaimedOnce`: the units below the counter are the claimed ones, each by one worker,
  so the unit the next claim takes is nobody's.
* `SweepTypeCorrect`: the ranks are in the same collective or between the same two
  (`Together`), and the level is past the last one exactly when the sweep has ended well
  (`Placed`).
* `SweepIsImplemented`: the sweep implements `BackwardSweep`, so every level ends with the pools
  that one process would build alone, identical on all ranks.
* `LastNodeIsCounted`: when a level's counters are reduced, those of its last node hold each of
  the node's visits with each opening of the child once, over all workers of all ranks.
* `BindingIsCounted`: what is recorded for a pool (`BindingLandsInOwnPool`) is what that pool took
  part in, if each level from the second on has one node (`LoneLevels`) and no node lists a
  child twice (`ChildrenDiffer`).

The sections on levels, outcomes and units hold the lemmas about the layout: `Levels` lists the
cut-generating nodes by descending stage, the outcomes of a node are its children's openings
one after the other, and a by-node unit is the rectangle of its tile and its block
(`UnitGeometry`). `GraphAssumption` is what rules 38 and 39 of
`cobre-io/src/validation/semantic/stages.rs` guarantee, with more than one stage: a study of
one stage has no backward pass. The refinement goes in four steps:

1. *A unit does not depend on its worker.* A run starts cold, so its items follow from the
   child's pool and the run alone: `SolveUnit`, a fold, is the set `UnitItems` whatever solver
   chain the worker comes with. `BufferInv` says that in a region each worker holds exactly
   what the units it finished stand for; with `ClaimInv` no result is there twice or missing.
2. *Nor do the cuts depend on the order of the blocks.* The claim order numbers the units;
   relabelling them maps runs to runs (`RunsRelabelled`, `ItemsRelabelled`), so the items
   of a node are those of the ascending order, each trial point and outcome has exactly one,
   and the merged outcome is `CutFor`, in which neither workers nor claims occur.
3. *The pools follow the levels.* `PoolInv`: pools of levels behind are the same on all
   ranks, those ahead are as they were, and at the level at hand each rank has its own cuts,
   then, after `InsertRemote`, those of all. The forward pass index of a cut is that of its
   visit over all ranks (`VisitOffset` sums the lower ranks' visits), so the cuts of all
   ranks take different slots (`CutsNumbered`), and the order of insertion does not matter.
4. *One exchange of metadata is one level of `BackwardSweep`.* The slots of all ranks' cuts are
   those of the visits in the order of the passes (`ExtendedIsAll`), within the stride or not
   for both; a failed exchange, a failed vote and the panic of the metadata reduction are the
   abstract failure, and all other steps leave the level, the shared pools and the verdict
   alone.

For the binding counts `CountInv` is added to that invariant. During a region (`WorkerCounts`)
each worker's counters of a child hold the number of visits and openings its finished units
cover, in the flat place the node's offsets give it; the by-node scheduler folds them into
the contribution when the worker ends. After the region (`RankTotals`) the workers' shares
are disjoint and make up all of the rank's visits with all openings, because the units do, and
the ranks' visits make up the node's. The reduction reads these counters for every node of
the level but finds those of the last, hence `LoneLevels`: without it `LastNodeIsCounted` is what
remains, and `MCLevelBinding` shows a count that lands in another pool. `ChildrenDiffer` is an
assumption of the model's bookkeeping: a child listed twice is solved once per listing.

`LazySolveProofs` proves `LazyTypeCorrect`, `RowMapMatches`, `LazySolveIsExact` and
`CreditIsDue` for all pools, costs, windows, caps, rounds and lengths of a run. `SolveInv`
says that a solved LP has rows of active cuts only and that the view is optimal over them;
an optimum over some rows that no other cut cuts off by more than `Eps` is within
`Eps` of the optimum over all, and after the fallback no eligible cut lacks a row.

`HighsSolverProofs` proves `SolverTypeCorrect`, `OptionsAreInForce`, `InfeasibleIsTrue` and
`StatsAreBalanced` for any profiles, sizes, caps and number of solves. `LadderInv` says which
options may differ from the defaults at each level: levels 5 to 8 do not reset the user
scales and are right because no level before 8 sets one, and from level 0 on no run starts
from the basis of another LP. `InfeasibleIsTrue` rests on what `Reports` assumes of HiGHS. The counters
balance because one recovery adds one to one level (`RecoveryCounts`, by induction over
the set of levels).

`RunPhasesProofs` proves `AgreedFailuresStopAll` for any number of ranks, workers and
scenarios. A rank's program goes from the simulation to the join and from there to the
reconcile (`Shape`), a drain thread does nothing after it was joined, and a failed worker or
thread stays failed; so a failure is still there when the ranks agree on it. It also proves
`PhasesTypeCorrect` and `ResultsAreAccounted`. `AccountingInv` follows each scenario from the
worker that holds it through the channel and the drain thread to the disk or the
dropped ones, none twice, so that counts and costs add up wherever a rank stops.

`CommitmentRingProofs` proves for all calendars, leads, bounds and numbers of plants:

* `CoverageIsExact`: the decider of a delivery never moves back from one delivery to the next,
  so those decided before the study are the leading ones, which the validator's own walk
  counts.
* `RingIsDeepEnough`: the prefix sums of `Occupancy` count the deliveries in flight (`Due`), at
  every stage their ring indices are consecutive numbers (`RingWindow`), and no more of them
  than the ring is deep, so no two are equal modulo its depth.
* `FishingIsFeasible` and `RingKeepsBook`, under `PastIsServable`: every past window the
  seeding enters lies within its stage's bounds, in operation or out of it. `Served` says
  that what a slot owes can be generated when it falls due; a stage keeps it because the
  carry leaves a slot alone until its delivery, and the latch writes to the slot that was freed.

`PastIsServable` names what the input checks let through (see `Idle` under "Known, without a
run"); the runs leave out the same inputs.

The type invariants of `TrainingSession`, `PolicyStore`, `LazySolve` and `HighsSolver` are
proved for all constants, and no run repeats them.

Inductions over numbers and finite sets are proved with the property given as a set, by
well-foundedness or minimal counterexample (`NaturalInduction`, `SubsetInduction`), and the folds
of the community modules unfold under it; the library's induction theorems, which take
an operator, are not used.

Only model-checked:

* `BindingLandsInOwnPool` of `LevelSweep` where a node lists a child twice; where a level has
  several nodes `MCLevelBinding` refutes it;
* `EventuallyDone` and `EverybodyEnds`: liveness under fairness is out of reach of the
  proof system, as is `ENABLED`.

## Not modelled

* LP construction (but for the ring of commitments) and solution, random processes, risk
  measures, production functions, input parsing and most of the validation: real-valued or pure computation without order or failure
  of its own. They are most of the repository's lines, and no state of theirs outlives
  a call, so a state machine has nothing to say about them.
* The enumerated sweep's merge of per-outcome slices (its collectives are in
  `TrainingSession`), and point selection.
* The byte layout of exchanged cuts and policy records, and the malformed-input errors
  of their readers.
* The real-valued stopping rules, which are one nondeterministic data rule of
  `TrainingSession`, and `StoppingMode::All`.
* CLP's ladder, which the default build leaves out.
* Lengths of messages, and loss of data that was written but not yet on disk.

## Plan

1. `StoppingRules`: rule set, `Any` and `All`, reason of a stop; then as the data rule of
   `TrainingSession`.
2. The enumerated sweep at the detail of `LevelSweep`, once it reconciles before its
   gather.
3. CLP's ladder as a second instance of the solver's contract.
4. The water-travel ring, which shifts where the commitment ring holds, with its seeding and
   its arrival stages.
