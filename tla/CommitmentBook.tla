--------------------------- MODULE CommitmentBook ---------------------------
(***************************************************************************)
(* What anticipation promises a thermal plant: each delivery is committed  *)
(* once, in the stage its lead points to, at a power the plant can deliver *)
(* then; the commitment never changes and is what the plant generates when *)
(* the delivery stage comes.  Commitments past the study stay in the book. *)
(***************************************************************************)
EXTENDS LeadTime

CONSTANTS
    Plants,
    Studies,        \* calendars, leads, operation windows and bounds
    NoCommitment    \* generation that no commitment prescribes

VARIABLES
    study,
    stage,      \* the stage to solve next, -1 before the setup
    owed,       \* owed[p]: delivery stage -> committed power, of what is still due
    dispatch    \* dispatch[p]: what the plant owed in the last stage

vars == <<study, stage, owed, dispatch>>

\* Whether the plant is in operation at delivery stage m.
InOperation(p, m) == study.entry[p] <= m /\ m < study.exit[p]

\* What plant p can generate in stage m.
Deliverable(p, m) ==
    IF InOperation(p, m) THEN study.lo[p][m] .. study.hi[p][m] ELSE {0}

\* Whether the lead of plant p places the decision for m in stage t, or before the study.
DueAt(p, m, t) ==
    LET lead == study.lead[p]
        deadline == Boundary(study.axis, m + 1) - lead.span
    IN  IF lead.kind = "stages" THEN m - lead.span = t
        ELSE Boundary(study.axis, t) < deadline /\ deadline <= Boundary(study.axis, t + 1)

DueBefore(p, m) ==
    LET lead == study.lead[p]
    IN  IF lead.kind = "stages" THEN m < lead.span
        ELSE Boundary(study.axis, m + 1) <= lead.span

----------------------------------------------------------------------------
Init ==
    /\ study \in Studies
    /\ stage = -1
    /\ owed = [p \in Plants |-> << >>]
    /\ dispatch = [p \in Plants |-> NoCommitment]

\* The past commitments of the leading study stages.
Open ==
    /\ stage = -1
    /\ stage' = 0
    /\ \A p \in Plants :
          /\ DOMAIN owed'[p] = {m \in DecisionStages(study.axis) : DueBefore(p, m)}
          /\ \A m \in DOMAIN owed'[p] : owed'[p][m] \in Deliverable(p, m)
    /\ UNCHANGED <<study, dispatch>>

\* One stage: deliver what falls due, keep the rest, commit what is to be decided now.
Turn ==
    /\ stage \in DecisionStages(study.axis)
    /\ stage' = stage + 1
    /\ \A p \in Plants :
          LET kept == DOMAIN owed[p] \ {stage}
              new == {m \in DeliveryStages(study.axis) : m > stage /\ DueAt(p, m, stage)}
          IN  /\ DOMAIN owed'[p] = kept \cup new
              /\ \A m \in kept : owed'[p][m] = owed[p][m]
              /\ \A m \in new : owed'[p][m] \in Deliverable(p, m)
    /\ dispatch' = [p \in Plants |->
                        IF stage \in DOMAIN owed[p] THEN owed[p][stage] ELSE NoCommitment]
    /\ UNCHANGED study

Next == Open \/ Turn

Spec == Init /\ [][Next]_vars

=============================================================================
