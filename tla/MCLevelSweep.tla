---------------------------- MODULE MCLevelSweep ----------------------------
(***************************************************************************)
(* A root over two sibling nodes that share a leaf.  The second sibling    *)
(* also leads to an external leaf with a single opening, so an opening     *)
(* block crosses from one child to the next.                               *)
(***************************************************************************)
EXTENDS LevelSweep

MCNodes == 0 .. 4
MCStageOf == [n \in MCNodes |-> <<0, 1, 1, 2, 2>>[n + 1]]
MCChildren == [n \in MCNodes |-> <<<<1, 2>>, <<3>>, <<3, 4>>, <<>>, <<>>>>[n + 1]]
MCOpenings == [n \in MCNodes |-> IF n = 4 THEN 1 ELSE 2]
MCSolveOrder == [n \in MCNodes |-> IF n = 4 THEN <<0>> ELSE <<1, 0>>]
MCPointOrder == [k \in 0 .. 3 |-> Reverse([j \in 1 .. k |-> j - 1])]

\* The siblings expect two visits of the three passes.
MCVisitStride == [n \in MCNodes |-> IF n = 0 THEN 3 ELSE 2]

MCLayouts == {[kind |-> "byScenario", points |-> 1],
              [kind |-> "byNode", points |-> 2]}

=============================================================================
