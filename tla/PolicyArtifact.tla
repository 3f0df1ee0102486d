--------------------------- MODULE PolicyArtifact ---------------------------
(***************************************************************************)
(* What a reader of an output directory may rely on: the policy directory  *)
(* holds one whole snapshot or none, and a checkpoint generation, once it  *)
(* appears, holds one whole snapshot of its iteration for ever.            *)
(***************************************************************************)
EXTENDS Integers

CONSTANTS
    Snapshots,     \* what a run may save, each with its iteration
    NoSnapshot,    \* nothing readable
    Generations    \* iterations that have a generation directory

VARIABLES
    policy,        \* the snapshot the policy directory holds
    generation     \* generation[i]: the snapshot of generation i

vars == <<policy, generation>>

Init ==
    /\ policy = NoSnapshot
    /\ generation = [i \in Generations |-> NoSnapshot]

\* A rewrite starts: the old policy is withdrawn.
Withdraw ==
    /\ policy' = NoSnapshot
    /\ UNCHANGED generation

\* A rewrite commits; it never replaces a readable policy directly.
Publish ==
    /\ policy = NoSnapshot
    /\ policy' \in Snapshots
    /\ UNCHANGED generation

\* A generation appears, once.
PublishGeneration ==
    \E i \in Generations, s \in Snapshots :
        /\ generation[i] = NoSnapshot
        /\ s.iter = i
        /\ generation' = [generation EXCEPT ![i] = s]
        /\ UNCHANGED policy

Next == Withdraw \/ Publish \/ PublishGeneration

Spec == Init /\ [][Next]_vars

=============================================================================
