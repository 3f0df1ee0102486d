--------------------------- MODULE BackwardSweep ---------------------------
(***************************************************************************)
(* What a sampled backward pass promises: level by level, deepest stage    *)
(* first, every rank receives the same pools, and they are the pools one   *)
(* process would build alone, visiting the trial points in order.  The     *)
(* dual solution of a linear program may depend on its warm start, so the  *)
(* promise covers the solves that precede each one in its chain.  A sweep  *)
(* that fails, fails for all ranks together.                               *)
(***************************************************************************)
EXTENDS SweepLayout

VARIABLES
    route, layout,   \* the nodes each pass visited, the scheduler in force
    done,       \* number of levels every rank has received
    shared,     \* shared[r][n]: the pool of n as rank r holds it
    verdict     \* "running", "ok" or "failed"

vars == <<route, layout, done, shared, verdict>>

Init ==
    /\ route \in Routes
    /\ layout \in Layouts
    /\ done = 0
    /\ shared = [r \in Ranks |-> OldPool]
    /\ verdict = "running"

\* The chains of node n on rank r, whatever the claim order of its blocks.
Chains(r, n) ==
    LET routed == Routed(route, r, n)
        blocks == [b \in 1 .. BlockCount(n) |-> b - 1]
    IN  {ByPass(routed, Run(layout, n, Len(routed), blocks, u, i)) :
            u \in 0 .. UnitCount(layout, n, Len(routed)) - 1, i \in DOMAIN Children[n]}

ChildOf(n, omega) ==
    Children[n][CHOOSE i \in DOMAIN Children[n] :
                    /\ OutcomeStart(n, i) <= omega
                    /\ omega < OutcomeStart(n, i) + Openings[Children[n][i]]]

\* The node's solves on rank r.  What one returns rests on the cuts the child's pool held
\* and on the chain of solves before it.
Solves(r, n) ==
    UNION {{[pass |-> c[k][1], omega |-> c[k][2],
             out |-> [seen |-> DOMAIN shared[r][ChildOf(n, c[k][2])],
                      chain |-> SubSeq(c, 1, k - 1)]] : k \in DOMAIN c} : c \in Chains(r, n)}

\* The node's pool after the level: the visits in pass order take the next slots.
Extended(n) ==
    LET solves == UNION {Solves(r, n) : r \in Ranks}
        visitors == InOrder({g \in DOMAIN route : n \in route[g]})
        slots == {SlotIndex(n, Iteration, k - 1) : k \in DOMAIN visitors}
        CutOf(g) ==
            [gen |-> Iteration, pass |-> g,
             outs |-> [omega \in 0 .. OutcomeCount(n) - 1 |->
                         (CHOOSE o \in solves : o.pass = g /\ o.omega = omega).out]]
    IN  [s \in DOMAIN shared[0][n] \cup slots |->
            IF s \in slots THEN CutOf(visitors[s - SlotIndex(n, Iteration, 0) + 1])
            ELSE shared[0][n][s]]

AddLevel ==
    /\ verdict = "running"
    /\ done' = done + 1
    /\ \A n \in Range(Levels[done']) : StrideSuffices(route, n)
    /\ LET pools == [n \in Nodes |->
                        IF n \in Range(Levels[done']) THEN Extended(n) ELSE shared[0][n]]
       IN  shared' = [r \in Ranks |-> pools]
    /\ verdict' = IF done' = Len(Levels) THEN "ok" ELSE "running"
    /\ UNCHANGED <<route, layout>>

Fail ==
    /\ verdict = "running"
    /\ verdict' = "failed"
    /\ UNCHANGED <<route, layout, done, shared>>

Next == Fail \/ AddLevel

Spec == Init /\ [][Next]_vars

=============================================================================
