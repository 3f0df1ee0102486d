---------------------------- MODULE SweepLayout ----------------------------
(***************************************************************************)
(* How the sampled backward pass lays out its work: the node graph and its *)
(* cut-sharing levels, the trial points of a rank and the nodes they visit,*)
(* and the units a node's work is cut into, each a set of warm-start       *)
(* chains whose boundaries are fixed before any worker runs.               *)
(***************************************************************************)
EXTENDS Integers, Sequences, FiniteSets, SequencesExt

CONSTANTS
    NRanks,        \* comm.size()
    NWorkers,      \* solver workspaces per rank
    TotalPasses,   \* forward passes of the iteration, over all ranks
    Nodes,         \* canonical node positions, ascending by declared id
    StageOf,       \* stage of a node
    Children,      \* successors of a node, ascending
    Openings,      \* number of openings of a node
    SolveOrder,    \* SolveOrder[c]: the openings of c in solving order
    PointOrder,    \* PointOrder[k]: k routed points in order_nearby_points' order
    BlockSize,     \* configured opening block size, 0 when absent
    VisitStride,   \* visit_stride of a node's pool
    Layouts        \* schedulers to consider

\* order lists 0 .. k - 1.
Listing(order, k) ==
    /\ order \in [1 .. k -> 0 .. k - 1]
    /\ IsInjective(order)

ASSUME LayoutAssumption ==
    /\ NRanks \in Nat \ {0} /\ NWorkers \in Nat \ {0} /\ TotalPasses \in Nat
    /\ BlockSize \in Nat
    /\ Layouts \subseteq [kind : {"byNode", "byScenario"}, points : Nat \ {0}]

\* check_node_graph: every edge advances one stage and only the last stage has leaves.  A
\* study of one stage has no backward pass.
ASSUME GraphAssumption ==
    /\ Nodes \subseteq Nat /\ IsFiniteSet(Nodes) /\ 0 \in Nodes
    /\ StageOf \in [Nodes -> Nat] /\ StageOf[0] = 0
    /\ Children \in [Nodes -> Seq(Nodes)] /\ Children[0] # <<>>
    /\ \A n \in Nodes : \A i \in DOMAIN Children[n] : StageOf[Children[n][i]] = StageOf[n] + 1
    /\ \A n, m \in Nodes : Children[n] = <<>> => StageOf[m] <= StageOf[n]

\* Openings and the two solving orders: an order lists each member once.
ASSUME OrderAssumption ==
    /\ Openings \in [Nodes -> Nat \ {0}]
    /\ \A n \in Nodes : Listing(SolveOrder[n], Openings[n])
    /\ \A k \in 0 .. TotalPasses : Listing(PointOrder[k], k)
    /\ VisitStride \in [Nodes -> Nat]

Ranks == 0 .. NRanks - 1
Workers == 1 .. NWorkers

\* The members of a finite set of numbers, ascending.
InOrder(S) ==
    [i \in 1 .. Cardinality(S) |-> CHOOSE x \in S : Cardinality({y \in S : y < x}) = i - 1]
SumOver(f, S) == FoldSet(LAMBDA x, acc : f[x] + acc, 0, S)

----------------------------------------------------------------------------
(* The graph *)

CutGenerating(n) == Children[n] # <<>>

\* backward_cut_levels: cut-generating nodes by stage, deepest stage first
Levels ==
    LET stages == {StageOf[n] : n \in {m \in Nodes : CutGenerating(m)}}
        descending == Reverse(InOrder(stages))
    IN  [i \in DOMAIN descending |->
            InOrder({n \in Nodes : CutGenerating(n) /\ StageOf[n] = descending[i]})]

\* total_outcomes: the openings of all children
OutcomeCount(n) == SumOver([i \in DOMAIN Children[n] |-> Openings[Children[n][i]]],
                           DOMAIN Children[n])

\* outcome_range.start of the i-th child
OutcomeStart(n, i) == SumOver([j \in 1 .. i - 1 |-> Openings[Children[n][j]]], 1 .. i - 1)

----------------------------------------------------------------------------
(* Trial points *)

\* per_rank_counts and its prefix: the passes a rank runs
PassCount(r) == TotalPasses \div NRanks + (IF r < TotalPasses % NRanks THEN 1 ELSE 0)
FirstPass(r) == SumOver([q \in 0 .. r - 1 |-> PassCount(q)], 0 .. r - 1)
PassesOf(r) == FirstPass(r) .. FirstPass(r) + PassCount(r) - 1

\* build_trial_routing: the rank's passes that visited the node, ascending
Routed(route, r, n) == InOrder({g \in PassesOf(r) : n \in route[g]})

\* compute_node_visit_offsets
VisitOffset(route, r, n) ==
    SumOver([q \in 0 .. r - 1 |-> Len(Routed(route, q, n))], 0 .. r - 1)

Visits(route, n) == Cardinality({g \in DOMAIN route : n \in route[g]})

----------------------------------------------------------------------------
(* Units and their warm chains *)

\* resolve_block_size, by_node_block_count
BlockLen(n) ==
    Min({OutcomeCount(n), IF BlockSize = 0 THEN (OutcomeCount(n) + 1) \div 2 ELSE BlockSize})
BlockCount(n) == (OutcomeCount(n) + BlockLen(n) - 1) \div BlockLen(n)

Tiles(layout, count) == (count + layout.points - 1) \div layout.points

UnitCount(layout, n, count) ==
    IF layout.kind = "byScenario" THEN count ELSE Tiles(layout, count) * BlockCount(n)

\* order_nearby_points: tiles of several points follow the proximity order
PlaceOrder(layout, count) ==
    IF layout.points > 1 THEN PointOrder[count] ELSE [k \in 1 .. count |-> k - 1]

\* What a unit solves for the node's i-th child, in order: pairs of a routed
\* position and an outcome.  A by-scenario unit is one point and every opening; a
\* by-node unit is a tile of points and a block of openings, and turns round at
\* every opening.  blocks is the claim order of the opening blocks.
Run(layout, n, count, blocks, u, i) ==
    LET c == Children[n][i]
        start == OutcomeStart(n, i)
    IN  IF layout.kind = "byScenario"
        THEN [k \in 1 .. Openings[c] |-> <<u, start + SolveOrder[c][k]>>]
        ELSE LET tiles == Tiles(layout, count)
                 low == (u % tiles) * layout.points
                 points == Min({layout.points, count - low})
                 block == blocks[u \div tiles + 1]
                 first == Max({start, block * BlockLen(n)})
                 last == Min({start + Openings[c], (block + 1) * BlockLen(n)})
             IN  [k \in 1 .. Max({0, last - first}) * points |->
                    LET step == (k - 1) \div points
                        turn == (k - 1) % points
                        place == low + IF step % 2 = 0 THEN turn ELSE points - 1 - turn
                    IN  <<PlaceOrder(layout, count)[place + 1],
                          start + SolveOrder[c][first - start + step + 1]>>]

\* The same run, by forward pass instead of the rank's routed position
ByPass(routed, run) == [k \in DOMAIN run |-> <<routed[run[k][1] + 1], run[k][2]>>]

\* slot_index: one block of VisitStride slots per iteration
SlotIndex(n, generation, fpi) == (generation - 1) * VisitStride[n] + fpi

\* The pool before the sweep: one cut of an earlier iteration
OldIteration == 1
Iteration == 2
OldCut == [gen |-> OldIteration, pass |-> -1, outs |-> <<>>]
OldPool == [n \in Nodes |-> IF CutGenerating(n) THEN [s \in {0} |-> OldCut] ELSE << >>]

\* The node paths of a pass: the root, then a child of each node until a leaf
Visited == {path \in SUBSET Nodes :
              /\ 0 \in path
              /\ \A n \in path : IF CutGenerating(n)
                                   THEN Cardinality(path \cap Range(Children[n])) = 1
                                   ELSE TRUE
              /\ \A n \in path \ {0} : \E m \in path : n \in Range(Children[m])}
Routes == [0 .. TotalPasses - 1 -> {{n \in path : CutGenerating(n)} : path \in Visited}]

\* check_visit_bound
StrideSuffices(route, n) == Visits(route, n) <= VisitStride[n]

=============================================================================
