---------------------------- MODULE MCLazySolve ----------------------------
(***************************************************************************)
(* Four stage decisions, four cuts of all ages, iteration 3 and simulation. *)
(* With two rounds the fallback needs cuts that bind at different points.  *)
(***************************************************************************)
EXTENDS LazySolve

CONSTANTS x1, x2, x3, x4

MCPoints == {x1, x2, x3, x4}
At(a, b, c, d) ==
    [p \in MCPoints |-> CASE p = x1 -> a [] p = x2 -> b [] p = x3 -> c [] p = x4 -> d]
MCCosts == {At(0, 0, 0, 0), At(0, 4, 1, 3), At(2, 0, 3, 5)}
MCStudies == {[k1 |-> 0, cap |-> 0], [k1 |-> 0, cap |-> 2], [k1 |-> 2, cap |-> 0]}

\* Slots follow the age: warm, stale (outside a window of 2), recent, fresh.
Ages == <<[gen |-> 99, last |-> 1], [gen |-> 1, last |-> 1],
          [gen |-> 2, last |-> 2], [gen |-> 3, last |-> 3]>>
OfAge(a, value, on) == [value |-> value, gen |-> Ages[a].gen, last |-> Ages[a].last, active |-> on]

MCPools ==
    {[s \in 0 .. 3 |-> OfAge(s + 1, values[s], s # off)] :
        values \in [0 .. 3 -> {At(0, 2, 0, 4), At(5, 0, 3, 0), At(1, 4, 2, 2)}], off \in {1, 4}}
    \cup
    {[s \in 0 .. 3 |-> OfAge(a, <<At(5, 0, 0, 1), At(0, 4, 1, 0), At(1, 0, 5, 0), At(0, 1, 0, 4)>>[s + 1], TRUE)] :
        a \in {1, 2}}
=============================================================================
