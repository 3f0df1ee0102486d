--------------------------- MODULE MCLevelBinding ---------------------------
(***************************************************************************)
(* Two levels of two siblings: each of 1 and 2 leads to a node of its own  *)
(* that generates cuts in turn.                                            *)
(***************************************************************************)
EXTENDS LevelSweep

MCNodes == 0 .. 5
MCStageOf == [n \in MCNodes |-> <<0, 1, 1, 2, 2, 3>>[n + 1]]
MCChildren == [n \in MCNodes |-> <<<<1, 2>>, <<3>>, <<4>>, <<5>>, <<5>>, <<>>>>[n + 1]]
MCOpenings == [n \in MCNodes |-> 1]
MCSolveOrder == [n \in MCNodes |-> <<0>>]
MCPointOrder == [k \in 0 .. 3 |-> [j \in 1 .. k |-> j - 1]]
MCVisitStride == [n \in MCNodes |-> 3]
MCLayouts == [kind : {"byScenario", "byNode"}, points : {1}]

=============================================================================
