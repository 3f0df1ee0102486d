----------------------------- MODULE LevelSweep -----------------------------
(***************************************************************************)
(* The sampled backward pass of one iteration as every rank runs it: per   *)
(* level one exchange of states, then for each node a parallel region in   *)
(* which worker threads claim units from a shared counter, a merge in an   *)
(* order the claims cannot touch, a vote of the ranks; then one exchange   *)
(* of the level's cuts and the reduction of the binding counts.            *)
(***************************************************************************)
EXTENDS SweepLayout

CONSTANT MaxFailures         \* bound on failing solves in a behaviour

ASSUME FailureAssumption == MaxFailures \in Nat

VARIABLES
    route, layout,  \* node visits of each pass, scheduler
    level, node,    \* position in Levels and in Levels[level]
    pc,             \* pc[r]: what rank r does next
    cursor,         \* cursor[r]: ClaimCursor::next
    order,          \* order[r]: claim order of the opening blocks
    status, unit,   \* [r][w]: idle, busy, done or failed; the unit at hand
    claimed,        \* [r][w]: the units claimed so far
    solver,         \* [r][w]: loaded_child, and the solves since its cold head
    buffer,         \* [r][w]: opening_outcomes_buf or staged_cuts_buf
    increments,     \* [r][w]: slot_increments
    contribution,   \* [r][w]: metadata_sync_contribution
    statsLen,       \* [r]: length of the workers' per_opening_stats
    arena,          \* [r]: ByNodeScratch::arena, never cleared
    solved,         \* [r]: whether the node's local solve succeeded
    pool, count,    \* [r][n]: active cuts by slot, cached_active_count
    sent,           \* [r]: the rank's segment of the cut exchange
    uses,           \* [n][slot]: active_count of the pool, equal on every rank
    failures

layoutVars == <<route, layout>>
claimVars == <<cursor, order, status, unit, claimed>>
workerVars == <<solver, buffer, increments, contribution, statsLen>>
poolVars == <<arena, pool, count, uses>>
vars == <<layoutVars, level, node, pc, claimVars, workerVars, solved, poolVars, sent, failures>>

LevelNodes == Levels[level]
Node == LevelNodes[node]
RoutedHere(r) == Routed(route, r, Node)
Units(r) == UnitCount(layout, Node, Len(RoutedHere(r)))
AllAt(step) == \A r \in Ranks : pc[r] = step

----------------------------------------------------------------------------
(* Binding counters: one flat region per child, of its pool's populated size *)

Populated(r, n) == IF pool[r][n] = << >> THEN 0 ELSE Max(DOMAIN pool[r][n]) + 1
RegionStart(r, n, i) ==
    SumOver([j \in 1 .. i - 1 |-> Populated(r, Children[n][j])], 1 .. i - 1)
RegionsLen(r, n) == RegionStart(r, n, Len(Children[n]) + 1)

\* Mutant: the counters of the last node are kept.
ZeroedNever(f, len) == [k \in DOMAIN f \cup 0 .. len - 1 |-> IF k \in DOMAIN f THEN f[k] ELSE 0]

Zeroed(f, len) == [k \in DOMAIN f \cup 0 .. len - 1 |-> IF k < len THEN 0 ELSE f[k]]
Plus(f, g) == [k \in DOMAIN f |-> f[k] + IF k \in DOMAIN g THEN g[k] ELSE 0]

\* accumulate_opening_outcome: a solve counts every active cut of the child as binding
Bindings(r, n, runs) ==
    LET hits(k) == {i \in DOMAIN runs :
                      k - RegionStart(r, n, i) \in DOMAIN pool[r][Children[n][i]]
                      /\ k < RegionStart(r, n, i + 1)}
    IN  [k \in 0 .. RegionsLen(r, n) - 1 |->
            SumOver([i \in DOMAIN runs |-> Len(runs[i])], hits(k))]

----------------------------------------------------------------------------
(* One unit on one worker *)

NoOutcome == [seen |-> {}, chain |-> <<>>]
ColdSolver == [loaded |-> -1, chain |-> <<>>]

\* Mutant: a model already loaded keeps its factorisation.
PrepareWarm(s, c) == IF s.loaded = c THEN s ELSE [loaded |-> c, chain |-> <<>>]

\* StageOpeningSolver::prepare: a reload, or a reset of the model already loaded
Prepare(s, c) == [loaded |-> c, chain |-> <<>>]

\* The run of one child: each solve warm-continues the ones before it.
SolveRun(acc, r, n, run, i) ==
    IF run = <<>> THEN acc
    ELSE LET c == Children[n][i]
             cold == Prepare(acc.solver, c)
             passes == ByPass(Routed(route, r, n), run)
             out(k) == [seen |-> DOMAIN pool[r][c],
                        chain |-> cold.chain \o SubSeq(passes, 1, k - 1)]
         IN  [solver |-> [cold EXCEPT !.chain = @ \o passes],
              outs |-> acc.outs \o
                    [k \in DOMAIN run |-> [pos |-> run[k][1], omega |-> run[k][2], out |-> out(k)]]]

RunsOf(r, n, u) ==
    [i \in DOMAIN Children[n] |-> Run(layout, n, Len(Routed(route, r, n)), order[r], u, i)]

SolveUnit(r, n, u, s) ==
    LET runs == RunsOf(r, n, u)
    IN  FoldLeftDomain(LAMBDA acc, i : SolveRun(acc, r, n, runs[i], i),
                       [solver |-> s, outs |-> <<>>], runs)

\* What a worker keeps of a unit: each outcome (by node), or one staged cut.
Staged(n, u, outs) ==
    IF layout.kind = "byNode" THEN outs
    ELSE <<[pos |-> u,
            outs |-> [omega \in 0 .. OutcomeCount(n) - 1 |->
                        (CHOOSE o \in Range(outs) : o.omega = omega).out]]>>

----------------------------------------------------------------------------
(* Merging a node's results *)

ArenaIndex(n, pos, omega) == pos * OutcomeCount(n) + omega

\* canonical_scatter: worker by worker, item by item, the last write to a place stays
Scatter(r, n) ==
    LET items == FlattenSeq(buffer[r])
        writes(k) == {j \in DOMAIN items : ArenaIndex(n, items[j].pos, items[j].omega) = k}
    IN  [k \in DOMAIN arena[r] |->
            IF writes(k) = {} THEN arena[r][k] ELSE items[Max(writes(k))].out]

\* The aggregated outcomes of routed position pos.
Aggregated(r, n, pos) ==
    IF layout.kind = "byNode"
    THEN [omega \in 0 .. OutcomeCount(n) - 1 |-> Scatter(r, n)[ArenaIndex(n, pos, omega)]]
    ELSE (CHOOSE c \in Range(FlattenSeq(buffer[r])) : c.pos = pos).outs

\* compute_node_visit_offsets, with the single-node shortcut
NodeOffset(r, n) == IF Len(LevelNodes) = 1 THEN FirstPass(r) ELSE VisitOffset(route, r, n)

\* The cuts a rank adds for the node, with their forward pass index.
LocalCuts(r, n) ==
    {[fpi |-> NodeOffset(r, n) + pos,
      cut |-> [gen |-> Iteration, pass |-> Routed(route, r, n)[pos + 1],
               outs |-> Aggregated(r, n, pos)]] : pos \in 0 .. Len(Routed(route, r, n)) - 1}

\* add_cut, for cuts with distinct forward pass indices
WithCuts(held, n, cuts) ==
    LET slot(c) == SlotIndex(n, c.cut.gen, c.fpi)
    IN  [s \in DOMAIN held \cup {slot(c) : c \in cuts} |->
            IF \E c \in cuts : slot(c) = s
            THEN (CHOOSE c \in cuts : slot(c) = s).cut ELSE held[s]]

\* pack_pool_into: the active cuts of this iteration
Packed(r, n) ==
    {[fpi |-> s - SlotIndex(n, pool[r][n][s].gen, 0), cut |-> pool[r][n][s]] :
        s \in {t \in DOMAIN pool[r][n] : pool[r][n][t].gen = Iteration}}

----------------------------------------------------------------------------
BlockOrders(n) ==
    IF layout.kind = "byNode"
    THEN {p \in [1 .. BlockCount(n) -> 0 .. BlockCount(n) - 1] : IsInjective(p)}
    ELSE {[b \in 1 .. BlockCount(n) |-> b - 1]}

ArenaLen == (TotalPasses \div NRanks + 1) * Max({OutcomeCount(n) : n \in Nodes})

Init ==
    /\ route \in Routes /\ layout \in Layouts
    /\ level = 1 /\ node = 1
    /\ pc = [r \in Ranks |-> "exchange"]
    /\ cursor = [r \in Ranks |-> 0]
    /\ order = [r \in Ranks |-> <<>>]
    /\ status = [r \in Ranks |-> [w \in Workers |-> "done"]]
    /\ unit = [r \in Ranks |-> [w \in Workers |-> -1]]
    /\ claimed = [r \in Ranks |-> [w \in Workers |-> {}]]
    /\ solver = [r \in Ranks |-> [w \in Workers |-> ColdSolver]]
    /\ buffer = [r \in Ranks |-> [w \in Workers |-> <<>>]]
    /\ increments = [r \in Ranks |-> [w \in Workers |-> << >>]]
    /\ contribution = [r \in Ranks |-> [w \in Workers |-> << >>]]
    /\ statsLen = [r \in Ranks |-> 0]
    /\ arena = [r \in Ranks |-> [k \in 0 .. ArenaLen - 1 |-> NoOutcome]]
    /\ solved = [r \in Ranks |-> TRUE]
    /\ pool = [r \in Ranks |-> OldPool]
    /\ count = [r \in Ranks |-> [n \in Nodes |-> Cardinality(DOMAIN OldPool[n])]]
    /\ sent = [r \in Ranks |-> [n \in Nodes |-> {}]]
    /\ uses = [n \in Nodes |-> [s \in DOMAIN OldPool[n] |-> 0]]
    /\ failures = 0

\* Entry of a parallel region for node n on every rank: each worker readies its buffers.
StartNode(n) ==
    /\ order' \in [Ranks -> BlockOrders(n)]
    /\ status' = [r \in Ranks |-> [w \in Workers |-> "idle"]]
    /\ increments' = [r \in Ranks |-> [w \in Workers |->
                        Zeroed(increments[r][w], RegionsLen(r, n))]]
    /\ contribution' = [r \in Ranks |-> [w \in Workers |->
                        Zeroed(contribution[r][w], RegionsLen(r, n))]]
    /\ statsLen' = [r \in Ranks |-> OutcomeCount(n)]
    /\ UNCHANGED <<cursor, unit, claimed, solver, buffer>>

\* Mutant: the position in the level is not reset.
ExchangeStatesResumed ==
    /\ AllAt("exchange")
    /\ IF \A n \in Range(LevelNodes) : StrideSuffices(route, n)
       THEN /\ pc' = [r \in Ranks |-> "sweep"]
            /\ StartNode(LevelNodes[1])
       ELSE /\ pc' = [r \in Ranks |-> "failed"]
            /\ UNCHANGED <<claimVars, workerVars>>
    /\ UNCHANGED <<layoutVars, level, node, solved, poolVars, sent, failures>>

\* exchange, routing and check_visit_bound, ahead of the level's first node
ExchangeStates ==
    /\ AllAt("exchange")
    /\ node' = 1
    /\ IF \A n \in Range(LevelNodes) : StrideSuffices(route, n)
       THEN /\ pc' = [r \in Ranks |-> "sweep"]
            /\ StartNode(LevelNodes[1])
       ELSE /\ pc' = [r \in Ranks |-> "failed"]
            /\ UNCHANGED <<claimVars, workerVars>>
    /\ UNCHANGED <<layoutVars, level, solved, poolVars, sent, failures>>

\* Mutant: load and store in place of fetch_add, so two workers may read one value.
ClaimTorn(r, w) ==
    /\ pc[r] = "sweep" /\ status[r][w] = "idle"
    /\ \E u \in {cursor[r], cursor[r] - 1} \cap Nat :
        /\ cursor' = [cursor EXCEPT ![r] = u + 1]
        /\ IF u < Units(r)
           THEN /\ unit' = [unit EXCEPT ![r][w] = u]
                /\ claimed' = [claimed EXCEPT ![r][w] = @ \cup {u}]
                /\ status' = [status EXCEPT ![r][w] = "busy"]
           ELSE /\ status' = [status EXCEPT ![r][w] = "done"]
                /\ UNCHANGED <<unit, claimed>>
    /\ UNCHANGED <<layoutVars, level, node, pc, order, workerVars, solved, poolVars, sent,
                   failures>>

\* ClaimCursor::claim: fetch_add, then the bound; the by-node fold follows the last claim
Claim(r, w) ==
    /\ pc[r] = "sweep" /\ status[r][w] = "idle"
    /\ cursor' = [cursor EXCEPT ![r] = @ + 1]
    /\ \/ /\ cursor[r] < Units(r)
          /\ unit' = [unit EXCEPT ![r][w] = cursor[r]]
          /\ claimed' = [claimed EXCEPT ![r][w] = @ \cup {cursor[r]}]
          /\ status' = [status EXCEPT ![r][w] = "busy"]
          /\ UNCHANGED contribution
       \/ /\ ~ (cursor[r] < Units(r))
          /\ status' = [status EXCEPT ![r][w] = "done"]
          /\ contribution' = IF layout.kind = "byNode"
                             THEN [contribution EXCEPT ![r][w] = Plus(@, increments[r][w])]
                             ELSE contribution
          /\ UNCHANGED <<unit, claimed>>
    /\ UNCHANGED <<layoutVars, level, node, pc, order, solver, buffer, increments, statsLen,
                   solved, poolVars, sent, failures>>

\* The claimed unit; a by-scenario unit counts its own bindings and folds them at its end.
Solve(r, w) ==
    /\ status[r][w] = "busy"
    /\ LET u == unit[r][w]
           result == SolveUnit(r, Node, u, solver[r][w])
           bound == Bindings(r, Node, RunsOf(r, Node, u))
           byScenario == layout.kind = "byScenario"
           before == IF byScenario THEN Zeroed(increments[r][w], RegionsLen(r, Node))
                     ELSE increments[r][w]
       IN  /\ solver' = [solver EXCEPT ![r][w] = result.solver]
           /\ buffer' = [buffer EXCEPT ![r][w] = @ \o Staged(Node, u, result.outs)]
           /\ increments' = [increments EXCEPT ![r][w] = Plus(before, bound)]
           /\ contribution' = IF byScenario
                              THEN [contribution EXCEPT ![r][w] = Plus(@, increments'[r][w])]
                              ELSE contribution
    /\ status' = [status EXCEPT ![r][w] = "idle"]
    /\ unit' = [unit EXCEPT ![r][w] = -1]
    /\ UNCHANGED <<layoutVars, level, node, pc, cursor, order, claimed, statsLen, solved,
                   poolVars, sent, failures>>

\* A solve fails: this worker stops, its siblings go on claiming.
FailSolve(r, w) ==
    /\ status[r][w] = "busy" /\ failures < MaxFailures
    /\ failures' = failures + 1
    /\ status' = [status EXCEPT ![r][w] = "failed"]
    /\ UNCHANGED <<layoutVars, level, node, pc, cursor, order, unit, claimed, workerVars,
                   solved, poolVars, sent>>

\* by_node_finish, by_scenario_finish: no cut unless every worker succeeded.  The claims,
\* buffers and loaded models are not read again before the next region readies them.
Finish(r) ==
    /\ pc[r] = "sweep"
    /\ \A w \in Workers : status[r][w] \in {"done", "failed"}
    /\ solved' = [solved EXCEPT ![r] = \A w \in Workers : status[r][w] = "done"]
    /\ IF solved'[r]
       THEN /\ arena' = IF layout.kind = "byNode" THEN [arena EXCEPT ![r] = Scatter(r, Node)]
                        ELSE arena
            /\ pool' = [pool EXCEPT ![r][Node] = WithCuts(@, Node, LocalCuts(r, Node))]
            /\ count' = [count EXCEPT ![r][Node] = @ + Cardinality(LocalCuts(r, Node))]
       ELSE UNCHANGED <<arena, pool, count>>
    /\ pc' = [pc EXCEPT ![r] = "vote"]
    /\ cursor' = [cursor EXCEPT ![r] = 0]
    /\ claimed' = [claimed EXCEPT ![r] = [w \in Workers |-> {}]]
    /\ buffer' = [buffer EXCEPT ![r] = [w \in Workers |-> <<>>]]
    /\ solver' = [solver EXCEPT ![r] = [w \in Workers |-> ColdSolver]]
    /\ UNCHANGED <<layoutVars, level, node, order, status, unit, increments, contribution,
                   statsLen, uses, sent, failures>>

\* reconcile_result, then the next node of the level or its cut exchange
Reconcile ==
    /\ AllAt("vote")
    /\ IF \E r \in Ranks : ~ solved[r]
       THEN /\ pc' = [r \in Ranks |-> "failed"]
            /\ UNCHANGED <<node, claimVars, workerVars>>
       ELSE IF node < Len(LevelNodes)
       THEN /\ node' = node + 1
            /\ StartNode(LevelNodes[node'])
            /\ pc' = [r \in Ranks |-> "sweep"]
       ELSE /\ pc' = [r \in Ranks |-> "gather"]
            /\ UNCHANGED <<node, claimVars, workerVars>>
    /\ UNCHANGED <<layoutVars, level, solved, poolVars, sent, failures>>

\* sync_level_records, up to its collective
Gather ==
    /\ AllAt("gather")
    /\ sent' = [r \in Ranks |-> [n \in Nodes |->
                    IF n \in Range(LevelNodes) THEN Packed(r, n) ELSE {}]]
    /\ pc' = [r \in Ranks |-> "insert"]
    /\ UNCHANGED <<layoutVars, level, node, claimVars, workerVars, solved, poolVars, failures>>

\* The peers' cuts of node n, in the segments of the other ranks.
Remote(r, n) == UNION {sent[q][n] : q \in Ranks \ {r}}
RemoteCount(r, n) == SumOver([q \in Ranks |-> Cardinality(sent[q][n])], Ranks \ {r})

InsertRemote(r) ==
    /\ pc[r] = "insert"
    /\ pool' = [pool EXCEPT ![r] = [n \in Nodes |-> WithCuts(@[n], n, Remote(r, n))]]
    /\ count' = [count EXCEPT ![r] = [n \in Nodes |-> @[n] + RemoteCount(r, n)]]
    /\ pc' = [pc EXCEPT ![r] = "metadata"]
    /\ UNCHANGED <<layoutVars, level, node, claimVars, workerVars, arena, solved, uses, sent,
                   failures>>

\* The counts reduced for child i of node n, slot s of its pool: the workers' region as
\* it stands after the level's last node.
Reduced(n, i, s) ==
    SumOver([p \in Ranks \X Workers |->
                contribution[p[1]][p[2]][RegionStart(p[1], n, i) + s]], Ranks \X Workers)

Parents(c) == {p \in Range(LevelNodes) \X (1 .. Cardinality(Nodes)) :
                  p[2] \in DOMAIN Children[p[1]] /\ Children[p[1]][p[2]] = c}

\* A region of an earlier node may reach past what its workers' buffers hold.
StatsInBounds(r) == \A n \in Range(LevelNodes) : OutcomeCount(n) <= statsLen[r]

\* sync_stage_metadata and gather_stage_solver_stats, for every node of the level
SyncMetadata ==
    /\ AllAt("metadata")
    /\ IF \A r \in Ranks : StatsInBounds(r)
       THEN /\ uses' = [c \in Nodes |-> [s \in DOMAIN pool[0][c] |->
                    (IF s \in DOMAIN uses[c] THEN uses[c][s] ELSE 0)
                    + SumOver([p \in Parents(c) |-> Reduced(p[1], p[2], s)], Parents(c))]]
            /\ level' = level + 1
            /\ pc' = [r \in Ranks |-> IF level = Len(Levels) THEN "ok" ELSE "exchange"]
       ELSE /\ pc' = [r \in Ranks |-> "panicked"]
            /\ UNCHANGED <<uses, level>>
    /\ UNCHANGED <<layoutVars, node, claimVars, workerVars, arena, solved, pool, count, sent,
                   failures>>

Terminated ==
    /\ \A r \in Ranks : pc[r] \in {"ok", "failed", "panicked"}
    /\ UNCHANGED vars

Next ==
    \/ ExchangeStates \/ Reconcile \/ Gather \/ SyncMetadata
    \/ \E r \in Ranks : Finish(r) \/ InsertRemote(r)
    \/ \E r \in Ranks, w \in Workers : Claim(r, w) \/ Solve(r, w) \/ FailSolve(r, w)
    \/ Terminated

Spec == Init /\ [][Next]_vars

----------------------------------------------------------------------------


\* The variables stay in their ranges, and outside an exchange the sweep stands at a node of
\* its level.
TypeOK ==
    /\ level \in 1 .. Len(Levels) + 1 /\ failures \in 0 .. MaxFailures
    /\ pc \in [Ranks -> {"exchange", "sweep", "vote", "gather", "insert", "metadata",
                         "ok", "failed", "panicked"}]
    /\ \A r \in Ranks : pc[r] \notin {"exchange", "ok"} => node \in DOMAIN LevelNodes
    /\ cursor \in [Ranks -> Nat]
    /\ status \in [Ranks -> [Workers -> {"idle", "busy", "done", "failed"}]]
    /\ unit \in [Ranks -> [Workers -> Nat \cup {-1}]]
    /\ claimed \in [Ranks -> [Workers -> SUBSET Nat]]
    /\ solved \in [Ranks -> BOOLEAN]

\* In a parallel region the workers' claims never overlap and skip nothing: together they
\* are the units the counter has passed, whatever the interleaving, and a busy worker holds
\* one of its own claims.
ClaimedOnce ==
    \A r \in Ranks : pc[r] = "sweep" =>
        /\ UNION {claimed[r][w] : w \in Workers} = {u \in 0 .. cursor[r] - 1 : u < Units(r)}
        /\ \A v, w \in Workers : v # w => claimed[r][v] \cap claimed[r][w] = {}
        /\ \A w \in Workers : status[r][w] = "busy" => unit[r][w] \in claimed[r][w]

\* The activity recorded for a cut counts every solve its pool took part in: each visit of
\* each parent, each opening, over all ranks and workers, and nothing else.
BindingLandsInOwnPool ==
    \A c \in Nodes : \A s \in DOMAIN uses[c] :
        uses[c][s] = LET parents == {n \in UNION {Range(Levels[l]) : l \in 1 .. level - 1} :
                                        c \in Range(Children[n])}
                     IN  SumOver([n \in parents |-> Visits(route, n) * Openings[c]], parents)

\* gather_stage_solver_stats never reads past a worker's per-opening statistics.
StatsFit == \A r \in Ranks : pc[r] # "panicked"

Completed(n) == \E l \in 1 .. level - 1 : n \in Range(Levels[l])

Abstract == INSTANCE BackwardSweep WITH
    done <- level - 1,
    shared <- [r \in Ranks |-> [n \in Nodes |-> IF Completed(n) THEN pool[r][n] ELSE OldPool[n]]],
    verdict <- CASE pc[0] = "ok" -> "ok"
                 [] pc[0] \in {"failed", "panicked"} -> "failed"
                 [] OTHER -> "running"

\* Whatever worker claims what, in whatever order, each level ends with the same pools on
\* every rank, namely those a visit of the trial points in order would build.
ImplementsSweep == Abstract!Spec

=============================================================================
