--------------------------- MODULE TrainingSession ---------------------------
(***************************************************************************)
(* The training loop of cobre-sddp as its MPI ranks run it: every rank     *)
(* executes the same program (train_with_checkpoint -> run_iteration ->    *)
(* finalize), computes on its own and meets the others only in collective  *)
(* calls.  A collective returns once every rank has entered a call with    *)
(* the same signature; ranks that call different operations wait for each  *)
(* other for ever.                                                         *)
(*                                                                         *)
(* A rank's position is the collective it is heading for (or is blocked    *)
(* in) together with the loop counters.  The local work between two        *)
(* collectives is one action per phase, the return of a collective one     *)
(* action of all ranks.  LP data are left out; what is kept is everything  *)
(* that decides which collective a rank calls next: failures of local      *)
(* solves, the gathered visit counts, which pools hold cuts, the broadcast *)
(* lower bound, the stopping decision.                                     *)
(***************************************************************************)
EXTENDS Integers, FiniteSets, Functions

CONSTANTS
    NumRanks,         \* comm.size()
    StartIteration,   \* completed iterations of a resumed run, else 0
    MaxIterations,    \* loop_config.max_iterations
    NumLevels,        \* reverse-topological cut levels; 1 is the last stage but one
    NodesPerLevel,    \* nodes in each level (1 on a chain)
    ForwardPasses,    \* loop_config.forward_passes, shared out over the ranks
    VisitStride,      \* CutPool::visit_stride of every pool
    WorkerCounts,     \* worker counts a rank may be started with
    BoundaryCuts,     \* the terminal pool holds boundary cuts
    Enumerated,       \* training.selection = enumerated
    Checkpointing,    \* a checkpoint callback is installed
    TimeLimited,      \* the rule set has a TimeLimit, read on each rank's clock
    Flagged           \* ranks that were handed a shutdown flag

ASSUME RanksAssumption == NumRanks \in Nat \ {0}
ASSUME IterationAssumption ==
    /\ StartIteration \in Nat
    /\ MaxIterations \in Nat
    /\ StartIteration <= MaxIterations
ASSUME GraphAssumption ==
    /\ NumLevels \in Nat \ {0}
    /\ NodesPerLevel \in Nat \ {0}
    /\ ForwardPasses \in Nat \ {0}
    /\ VisitStride \in Nat
    /\ WorkerCounts \subseteq Nat
ASSUME ModeAssumption ==
    /\ {BoundaryCuts, Enumerated, Checkpointing, TimeLimited} \subseteq BOOLEAN
    /\ Flagged \subseteq 0 .. NumRanks - 1

Ranks == 0 .. NumRanks - 1
Root == 0

\* RankDistribution: the forward passes in contiguous blocks, the first
\* remainder-many ranks one longer.
LocalWork(r) ==
    ForwardPasses \div NumRanks + (IF r < ForwardPasses % NumRanks THEN 1 ELSE 0)

Levels == 1 .. NumLevels
Nodes == 1 .. NodesPerLevel
Iterations == StartIteration .. MaxIterations

(***************************************************************************)
(* The collective call sites of one iteration and of finalize, in program  *)
(* order.  "ckpt_basis" and "final_basis" stand for the four broadcasts of *)
(* broadcast_basis_cache, between which no rank can branch.                *)
(***************************************************************************)
ReconcileSites == {"forward", "node", "lower_bound", "checkpoint", "finalize"}
ForwardSites == {"forward", "fwd_stats", "fwd_sync"}
SampledSites == {"workers_min", "workers_max", "exchange", "visits", "node",
                 "cut_counts", "cut_bytes", "metadata", "solver_stats"}
EndSites == {"rows_sum", "rows_max", "lower_bound", "lb_bcast", "lp_solves",
             "ckpt_basis", "checkpoint", "finalize", "final_basis", "done"}
Sites == ForwardSites \cup SampledSites \cup {"outcomes"} \cup EndSites

Position == [site : Sites, iter : Iterations, level : Levels,
             node : Nodes, succ : 0 .. NodesPerLevel]

\* What MPI matches on: operation, element type, reduction.
Signature(site) ==
    CASE site \in ReconcileSites -> <<"allreduce", "i32", "max">>
      [] site \in {"fwd_stats", "rows_sum", "lp_solves"} -> <<"allreduce", "f64", "sum">>
      [] site = "rows_max" -> <<"allreduce", "f64", "max">>
      [] site = "workers_min" -> <<"allreduce", "u64", "min">>
      [] site = "workers_max" -> <<"allreduce", "u64", "max">>
      [] site = "metadata" -> <<"allreduce", "u64", "sum">>
      [] site \in {"fwd_sync", "exchange", "outcomes", "solver_stats"} -> <<"allgatherv", "f64">>
      [] site \in {"visits", "cut_counts"} -> <<"allgatherv", "u64">>
      [] site = "cut_bytes" -> <<"allgatherv", "u8">>
      [] site = "lb_bcast" -> <<"broadcast", "f64">>
      [] site \in {"ckpt_basis", "final_basis"} -> <<"broadcast", "basis">>
      [] OTHER -> <<"none">>

VARIABLES
    at,         \* at[r]: rank r's Position
    inCall,     \* inCall[r]: r is blocked in the collective at[r].site
    err,        \* err[r]: r returned Err from run_iteration or checkpoint
    flag,       \* flag[r]: the i32 r sends when it reconciles (1 = local failure)
    workers,    \* workers[r]: solver workspaces of r, fixed at start
    routed,     \* routed[r][n]: trial points r routes to node n of the level
    populated,  \* populated[r]: pools of r's FCF that hold at least one cut
    bound,      \* bound[r]: do r's lower and upper bound satisfy a data rule?
    late,       \* late[r]: r's own clock has passed the time limit
    shutdown,   \* shutdown[r]: r's shutdown flag was set when an iteration began
    stop,       \* stop[r]: should_stop of r's convergence monitor
    completed,  \* completed[r]: results.completed_iterations of r
    saved,      \* saved[r]: iteration r's checkpoint callback wrote last
    outcome     \* outcome[r]: "running", or how train returned on r

vars == <<at, inCall, err, flag, workers, routed, populated, bound, late,
          shutdown, stop, completed, saved, outcome>>

----------------------------------------------------------------------------
(* Where a rank goes when the call it is blocked in returns. *)

Goto(p, site) == [p EXCEPT !.site = site]

\* `?` inside run_iteration: train_with_checkpoint calls finalize_with_error.
Fail(p) == Goto(p, "finalize")

\* Top of the loop body, with the counters of the backward sweep reset.
StartOfIteration(i) ==
    [site |-> "forward", iter |-> i, level |-> 1, node |-> 1, succ |-> 0]

\* The pool a metadata region belongs to: a child's own pool, or the pool all
\* leaves share when the level's successors are terminal.
ChildPool(level, c) == IF level = 1 THEN <<0, 1>> ELSE <<level - 1, c>>

\* Successor regions of p's node that are still to be reduced; sync_stage_metadata
\* returns before the allreduce for a pool without cuts.
PendingRegions(p, pop) ==
    {c \in IF p.level = 1 THEN {1} ELSE Nodes :
        c > p.succ /\ ChildPool(p.level, c) \in pop}

NextRegion(p, pop) ==
    LET pending == PendingRegions(p, pop)
    IN  IF pending = {}
        THEN Goto([p EXCEPT !.succ = 0], "solver_stats")
        ELSE Goto([p EXCEPT !.succ = CHOOSE c \in pending : \A d \in pending : c <= d],
                  "metadata")

\* After the last collective of a node in the sampled sweep.
AfterNodeStats(p, pop) ==
    CASE p.node < NodesPerLevel -> NextRegion([p EXCEPT !.node = @ + 1], pop)
      [] p.node = NodesPerLevel /\ p.level < NumLevels ->
            Goto([p EXCEPT !.level = @ + 1, !.node = 1], "exchange")
      [] OTHER -> Goto(p, "rows_sum")

\* After a node's outcome gather in the enumerated sweep.
AfterOutcomes(p) ==
    CASE p.node < NodesPerLevel -> [p EXCEPT !.node = @ + 1]
      [] p.node = NodesPerLevel /\ p.level < NumLevels ->
            [p EXCEPT !.level = @ + 1, !.node = 1]
      [] OTHER -> Goto(p, "rows_sum")

\* Mutant: the loop counter is not advanced.
AfterIterationAgain(p, stopNow) ==
    IF stopNow \/ p.iter = MaxIterations
    THEN Goto(p, "finalize")
    ELSE StartOfIteration(p.iter)

\* Mutant: the stopping decision is read only at the last iteration.
AfterIterationDeaf(p, stopNow) ==
    IF p.iter = MaxIterations THEN Goto(p, "finalize") ELSE StartOfIteration(p.iter + 1)

\* The end of the loop body: break, the range is exhausted, or go round again.
AfterIteration(p, stopNow) ==
    IF stopNow \/ p.iter = MaxIterations
    THEN Goto(p, "finalize")
    ELSE StartOfIteration(p.iter + 1)

\* good: what the returned call told the rank (no failure flag, uniform worker
\* counts, no visit-bound overflow); pop: its populated pools; stopNow: its
\* stopping decision.
After(p, good, pop, stopNow) ==
    CASE p.site = "forward" -> IF good THEN Goto(p, "fwd_stats") ELSE Fail(p)
      [] p.site = "fwd_stats" -> Goto(p, "fwd_sync")
      [] p.site = "fwd_sync" -> Goto(p, IF Enumerated THEN "outcomes" ELSE "workers_min")
      [] p.site = "workers_min" -> Goto(p, "workers_max")
      [] p.site = "workers_max" -> IF good THEN Goto(p, "exchange") ELSE Fail(p)
      [] p.site = "exchange" ->
            IF ~good THEN Fail(p)
            ELSE Goto(p, IF NodesPerLevel = 1 THEN "node" ELSE "visits")
      [] p.site = "visits" -> IF good THEN Goto(p, "node") ELSE Fail(p)
      [] p.site = "node" ->
            IF ~good THEN Fail(p)
            ELSE IF p.node < NodesPerLevel THEN [p EXCEPT !.node = @ + 1]
            ELSE Goto([p EXCEPT !.node = 1], "cut_counts")
      [] p.site = "cut_counts" -> Goto(p, "cut_bytes")
      [] p.site \in {"cut_bytes", "metadata"} -> NextRegion(p, pop)
      [] p.site = "solver_stats" -> AfterNodeStats(p, pop)
      [] p.site = "outcomes" -> AfterOutcomes(p)
      [] p.site = "rows_sum" -> Goto(p, "rows_max")
      [] p.site = "rows_max" -> Goto(p, "lower_bound")
      [] p.site = "lower_bound" -> IF good THEN Goto(p, "lb_bcast") ELSE Fail(p)
      [] p.site = "lb_bcast" -> Goto(p, "lp_solves")
      [] p.site = "lp_solves" ->
            IF Checkpointing THEN Goto(p, "ckpt_basis") ELSE AfterIteration(p, stopNow)
      [] p.site = "ckpt_basis" -> Goto(p, "checkpoint")
      [] p.site = "checkpoint" -> IF good THEN AfterIteration(p, stopNow) ELSE Fail(p)
      [] p.site = "finalize" -> IF good THEN Goto(p, "final_basis") ELSE Goto(p, "done")
      [] OTHER -> Goto(p, "done")

----------------------------------------------------------------------------
Init ==
    /\ at = [r \in Ranks |->
              IF StartIteration < MaxIterations
              THEN StartOfIteration(StartIteration + 1)
              ELSE Goto(StartOfIteration(StartIteration), "finalize")]
    /\ inCall = [r \in Ranks |-> FALSE]
    /\ err = [r \in Ranks |-> FALSE]
    /\ flag = [r \in Ranks |-> 0]
    /\ workers \in [Ranks -> WorkerCounts]
    /\ routed = [r \in Ranks |-> [n \in Nodes |-> 0]]
    /\ populated = [r \in Ranks |-> IF BoundaryCuts THEN {<<0, 1>>} ELSE {}]
    /\ bound = [r \in Ranks |-> FALSE]
    /\ late = [r \in Ranks |-> FALSE]
    /\ shutdown = [r \in Ranks |-> FALSE]
    /\ stop = [r \in Ranks |-> FALSE]
    /\ completed = [r \in Ranks |-> StartIteration]
    /\ saved = [r \in Ranks |-> StartIteration]
    /\ outcome = [r \in Ranks |-> "running"]

----------------------------------------------------------------------------
(* Local work of rank r up to and including its entry into the next call. *)

Heading(r, site) == ~inCall[r] /\ at[r].site = site

Enter(r) == inCall' = [inCall EXCEPT ![r] = TRUE]

Send(r, failure) == flag' = [flag EXCEPT ![r] = IF failure THEN 1 ELSE 0]

\* run_iteration reads the shutdown flag, then the forward pass solves this
\* rank's scenarios; a failed solve reaches only the reconcile.
ForwardPass(r) ==
    /\ Heading(r, "forward")
    /\ Enter(r)
    /\ \E failure \in BOOLEAN : Send(r, failure)
    /\ \E raised \in IF r \in Flagged THEN BOOLEAN ELSE {FALSE} :
          shutdown' = [shutdown EXCEPT ![r] = @ \/ raised]
    /\ UNCHANGED <<at, err, workers, routed, populated, bound, late, stop,
                   completed, saved, outcome>>

\* build_trial_routing: every local trial point is routed to one node of the level.
RouteTrials(r) ==
    /\ Heading(r, "visits")
    /\ Enter(r)
    /\ \E counts \in [Nodes -> 0 .. LocalWork(r)] :
          /\ FoldFunction(+, 0, counts) = LocalWork(r)
          /\ routed' = [routed EXCEPT ![r] = counts]
    /\ UNCHANGED <<at, err, flag, workers, populated, bound, late, shutdown, stop,
                   completed, saved, outcome>>

\* compute_one_backward_node: solve the routed trial points, then reconcile.
SolveNode(r) ==
    /\ Heading(r, "node")
    /\ Enter(r)
    /\ \E failure \in BOOLEAN : Send(r, failure)
    /\ UNCHANGED <<at, err, workers, routed, populated, bound, late, shutdown,
                   stop, completed, saved, outcome>>

\* run_backward_node_replicated: a failed slice returns before the gather, with
\* no reconcile, and takes the rank to finalize_with_error.
SolveReplicated(r) ==
    /\ Heading(r, "outcomes")
    /\ \/ Enter(r) /\ UNCHANGED <<at, err>>
       \/ /\ at' = [at EXCEPT ![r] = Fail(@)]
          /\ err' = [err EXCEPT ![r] = TRUE]
          /\ UNCHANGED inCall
    /\ UNCHANGED <<flag, workers, routed, populated, bound, late, shutdown, stop,
                   completed, saved, outcome>>

\* evaluate_lower_bound: only the root solves, and only it can fail.
LowerBound(r) ==
    /\ Heading(r, "lower_bound")
    /\ Enter(r)
    /\ \E failure \in IF r = Root THEN BOOLEAN ELSE {FALSE} : Send(r, failure)
    /\ \E met \in IF r = Root THEN BOOLEAN ELSE {bound[r]} :
          bound' = [bound EXCEPT ![r] = met]
    /\ UNCHANGED <<at, err, workers, routed, populated, late, shutdown, stop,
                   completed, saved, outcome>>

\* ConvergenceMonitor::update reads this rank's clock and evaluates the rules.
UpdateConvergence(r) ==
    /\ Heading(r, "lp_solves")
    /\ Enter(r)
    /\ \E passed \in IF TimeLimited THEN BOOLEAN ELSE {FALSE} :
          late' = [late EXCEPT ![r] = @ \/ passed]
    /\ stop' = [stop EXCEPT ![r] = bound[r] \/ late'[r] \/ shutdown[r]]
    /\ UNCHANGED <<at, err, flag, workers, routed, populated, bound, shutdown,
                   completed, saved, outcome>>

\* The checkpoint callback runs on every rank and may fail on any.
WriteCheckpoint(r) ==
    /\ Heading(r, "checkpoint")
    /\ Enter(r)
    /\ \E failure \in BOOLEAN :
          /\ Send(r, failure)
          /\ saved' = [saved EXCEPT ![r] = IF failure THEN @ ELSE completed[r]]
    /\ UNCHANGED <<at, err, workers, routed, populated, bound, late, shutdown,
                   stop, completed, outcome>>

\* Mutant: finalize_with_error forgets its error.
EnterFinalizeAlwaysOk(r) ==
    /\ Heading(r, "finalize")
    /\ Enter(r)
    /\ Send(r, FALSE)
    /\ UNCHANGED <<at, err, workers, routed, populated, bound, late, shutdown,
                   stop, completed, saved, outcome>>

\* finalize sends Ok, finalize_with_error sends its error.
EnterFinalize(r) ==
    /\ Heading(r, "finalize")
    /\ Enter(r)
    /\ Send(r, err[r])
    /\ UNCHANGED <<at, err, workers, routed, populated, bound, late, shutdown,
                   stop, completed, saved, outcome>>

\* The calls whose preceding local work neither branches nor fails.
PlainSites == Sites \ (ReconcileSites \cup {"visits", "outcomes", "lp_solves", "done"})

EnterPlain(r) ==
    /\ ~inCall[r]
    /\ at[r].site \in PlainSites
    /\ Enter(r)
    /\ UNCHANGED <<at, err, flag, workers, routed, populated, bound, late,
                   shutdown, stop, completed, saved, outcome>>

LocalStep(r) ==
    \/ ForwardPass(r) \/ RouteTrials(r) \/ SolveNode(r) \/ SolveReplicated(r)
    \/ LowerBound(r) \/ UpdateConvergence(r) \/ WriteCheckpoint(r)
    \/ EnterFinalize(r) \/ EnterPlain(r)

----------------------------------------------------------------------------
(* The return of a collective, on all ranks. *)

\* Global visit count of a level node, from the gathered (rank, node) counts.
Visits(n) == FoldFunction(+, 0, [r \in Ranks |-> routed[r][n]])

AgreedOk == \A q \in Ranks : flag[q] = 0

\* What the returned call tells a rank at p (see After).
Good(p) ==
    CASE p.site \in ReconcileSites -> AgreedOk
      [] p.site = "workers_max" -> \A q, s \in Ranks : workers[q] = workers[s]
      [] p.site = "exchange" -> NodesPerLevel > 1 \/ ForwardPasses <= VisitStride
      [] p.site = "visits" -> \A n \in Nodes : Visits(n) <= VisitStride
      [] OTHER -> TRUE

\* Pools of the level that received a cut; add_cut runs locally during the sweep
\* and for remote cuts after the byte exchange.
Received(p) ==
    {<<p.level, n>> : n \in {m \in Nodes : NodesPerLevel = 1 \/ Visits(m) > 0}}

PopulatedAfter(r) ==
    CASE at[r].site = "cut_bytes" -> populated[r] \cup Received(at[r])
      [] at[r].site = "outcomes" -> populated[r] \cup {<<at[r].level, at[r].node>>}
      [] OTHER -> populated[r]

\* Mutant: each rank keeps its own bound.
BoundAfterLocal(r) == bound[r]

\* evaluate_lower_bound broadcasts the root's bound.
BoundAfter(r) == IF at[r].site = "lb_bcast" THEN bound[Root] ELSE bound[r]

\* Mutant: only the root records the iteration.
CompletedAfterRootOnly(r) ==
    IF at[r].site = "lp_solves" /\ r = Root THEN at[r].iter ELSE completed[r]

\* Mutant: the iteration is counted from zero.
CompletedAfterZeroBased(r) ==
    IF at[r].site = "lp_solves" THEN at[r].iter - 1 ELSE completed[r]

\* run_iteration counts the iteration after its last reduction.
CompletedAfter(r) == IF at[r].site = "lp_solves" THEN at[r].iter ELSE completed[r]

Return ==
    /\ \A r \in Ranks : inCall[r]
    /\ \A r, s \in Ranks : Signature(at[r].site) = Signature(at[s].site)
    /\ populated' = [r \in Ranks |-> PopulatedAfter(r)]
    /\ at' = [r \in Ranks |-> After(at[r], Good(at[r]), populated'[r], stop[r])]
    /\ inCall' = [r \in Ranks |-> FALSE]
    /\ err' = [r \in Ranks |-> err[r] \/ (at[r].site # "finalize" /\ ~Good(at[r]))]
    /\ bound' = [r \in Ranks |-> BoundAfter(r)]
    /\ completed' = [r \in Ranks |-> CompletedAfter(r)]
    /\ outcome' = [r \in Ranks |->
                    CASE at[r].site = "final_basis" -> "ok"
                      [] at[r].site = "finalize" /\ ~AgreedOk -> "error"
                      [] OTHER -> outcome[r]]
    /\ UNCHANGED <<flag, workers, routed, late, shutdown, stop, saved>>

AllDone == \A r \in Ranks : at[r].site = "done"

\* train has returned everywhere; nothing is left to do.
Terminated == AllDone /\ UNCHANGED vars

Next == (\E r \in Ranks : LocalStep(r)) \/ Return \/ Terminated

\* A rank that can compute does, and MPI completes a matched collective.
Fairness == (\A r \in Ranks : WF_vars(LocalStep(r))) /\ WF_vars(Return)

Spec == Init /\ [][Next]_vars /\ Fairness

----------------------------------------------------------------------------
(* Properties *)

\* Every variable has its type.
TypeOK ==
    /\ at \in [Ranks -> Position]
    /\ inCall \in [Ranks -> BOOLEAN]
    /\ err \in [Ranks -> BOOLEAN]
    /\ flag \in [Ranks -> {0, 1}]
    /\ workers \in [Ranks -> WorkerCounts]
    /\ routed \in [Ranks -> [Nodes -> Nat]]
    /\ populated \in [Ranks -> SUBSET ((0 .. NumLevels) \X Nodes)]
    /\ bound \in [Ranks -> BOOLEAN]
    /\ late \in [Ranks -> BOOLEAN]
    /\ shutdown \in [Ranks -> BOOLEAN]
    /\ stop \in [Ranks -> BOOLEAN]
    /\ completed \in [Ranks -> Iterations]
    /\ saved \in [Ranks -> Iterations]
    /\ outcome \in [Ranks -> {"running", "ok", "error"}]

\* Lockstep of a sampled run that stops on replicated data only: all ranks are
\* at the same position with the same cuts, error state and results; a bound or
\* a stopping decision is shared by the time the program branches on it.
Lockstep ==
    /\ \A r, s \in Ranks :
          /\ at[r] = at[s]
          /\ populated[r] = populated[s]
          /\ err[r] = err[s]
          /\ completed[r] = completed[s]
          /\ outcome[r] = outcome[s]
          /\ at[r].site = "lp_solves" => bound[r] = bound[s]
          /\ at[r].site \in {"ckpt_basis", "checkpoint"} => stop[r] = stop[s]
    /\ \A r \in Ranks :
          /\ at[r].site # "outcomes"
          /\ at[r].site = "done" => ~inCall[r]
          /\ at[r].site = "lp_solves" /\ inCall[r] => stop[r] = bound[r]
          /\ at[r].site \in {"ckpt_basis", "checkpoint"} => completed[r] = at[r].iter
          /\ err[r] => at[r].site \in {"finalize", "done"}
          /\ err[r] /\ inCall[r] => flag[r] = 1
          /\ outcome[r] = "ok" => at[r].site = "done" /\ ~err[r]
          /\ ~late[r] /\ ~shutdown[r]

\* No rank is blocked in a collective while a peer is blocked in a different one
\* or has already returned from train: the ranks "enter or skip the next
\* collective in lockstep" (rank_reconcile.rs).
NoMismatchedCall ==
    \A r, s \in Ranks : inCall[r] =>
        /\ inCall[s] => Signature(at[r].site) = Signature(at[s].site)
        /\ at[s].site # "done"

\* The final broadcast_basis_cache "is entered by all ranks or none"
\* (session/mod.rs, finalize), and then train returns Ok on every rank.
BasisAllOrNone ==
    \A r, s \in Ranks :
        at[r].site = "final_basis" \/ outcome[r] = "ok"
            => at[s].site = "final_basis" \/ outcome[s] = "ok"

\* A failure anywhere is a failure everywhere: train returns Ok on a rank only
\* if no rank met an error.
FailureIsGlobal ==
    \A r, s \in Ranks : outcome[r] = "ok" => ~err[s]

\* When train has returned on two ranks, they report the same outcome and the
\* same number of completed iterations.
SameResult ==
    \A r, s \in Ranks :
        at[r].site = "done" /\ at[s].site = "done"
            => outcome[r] = outcome[s] /\ completed[r] = completed[s]

\* The checkpoint callback persists "only a completed iteration while all ranks
\* are at the same boundary" (session/mod.rs, checkpoint).
CheckpointAtBoundary ==
    [][\A r, s \in Ranks :
          saved'[r] # saved[r] =>
              /\ saved'[r] = completed[s]
              /\ at[s].site = "checkpoint" /\ at[s].iter = saved'[r]]_vars

\* Once a rank has read its shutdown flag it starts no further iteration
\* (run_iteration hands the flag to the monitor, whose answer breaks the loop).
ShutdownHonoured ==
    [][\A r \in Ranks : shutdown[r] => at'[r].iter = at[r].iter]_vars

\* Training ends on every rank: the loop is bounded and no rank is left waiting.
EventuallyDone == <>AllDone

=============================================================================
