--------------------------- MODULE MCHighsSolver ---------------------------
(* A solver used under the default profile and under one that differs in   *)
(* every field, for LPs below and above the floor of the iteration cap.    *)
EXTENDS HighsSolver

MCDefault == [presolve |-> "on", tol |-> 1, perturb |-> 0, rest |-> "default", limit |-> 0]
MCTuned == [presolve |-> "off", tol |-> 50, perturb |-> 1, rest |-> "tuned", limit |-> 7]
MCProfiles == {MCDefault, MCTuned}

=============================================================================
