--------------------------- MODULE CommitmentRing ---------------------------
(***************************************************************************)
(* The anticipated-thermal ring along one scenario path: the setup sizes   *)
(* and seeds it, then every stage's linear program generates what the      *)
(* maturing slot holds, carries the slots still due, latches its own       *)
(* decision, and freezes the rest at zero.  A slot is a residue of the     *)
(* delivery's ring index.  Powers are integers; Slack is the tolerance of  *)
(* the input checks and of the solver, which the code clamps away.         *)
(***************************************************************************)
EXTENDS LeadTime

CONSTANTS
    Plants,
    Studies,        \* axis, lead, entry, exit, lo and hi of every plant
    Slack,
    NoCommitment    \* generation that no fishing row prescribes

ASSUME RingAssumption ==
    /\ IsFiniteSet(Plants) /\ Slack \in Nat
    /\ \A s \in Studies :
          /\ s.axis.hours \in Seq(Nat) /\ s.axis.study \in 1 .. Len(s.axis.hours)
          /\ \A p \in Plants :
                /\ s.lead[p].kind \in {"hours", "stages"} /\ s.lead[p].span \in Nat
                /\ \A m \in DeliveryStages(s.axis) :
                      s.lo[p][m] \in Int /\ s.hi[p][m] \in Int /\ s.lo[p][m] <= s.hi[p][m]

VARIABLES
    study,      \* the input
    past,       \* past_anticipated_commitments: [p][m], the power of the window over stage m
    layout,     \* points, leads (anticipated_lead_stages) and kMax of the StateSpace
    stage,      \* the stage to solve next, -1 before the initial state is built
    ring,       \* the commitment-hold state: ring[slot][p]
    dispatch,   \* [p]: the power the fishing row fixed in the last stage
    status      \* "setup", "rejected", "running" or "done"

vars == <<study, past, layout, stage, ring, dispatch, status>>

Axis == study.axis
LastStage == Axis.study - 1
Lead(p) == study.lead[p]
Point(p) == layout.points[p]
Clamp(v, lo, hi) == IF v < lo THEN lo ELSE IF v > hi THEN hi ELSE v

\* commissioning_active
CommissioningActive(p, m) == study.entry[p] <= m /\ m < study.exit[p]

----------------------------------------------------------------------------
(* Setup *)

\* check_anticipated_thermals: a lead longer than the study must reach past it
Accepted ==
    \A p \in Plants :
        LET c == Decider(Lead(p), Axis)
            reaches == \E m \in DeliveryStages(Axis) \ DecisionStages(Axis) :
                          CommissioningActive(p, m) /\ c[m] <= LastStage
        IN  IF Lead(p).kind = "stages" THEN Lead(p).span <= Axis.study \/ reaches
            ELSE Lead(p).span <= Boundary(Axis, Axis.study) \/ reaches

\* resolve_anticipated_commitments_core: a stage lead is kept as declared
LeadStages(p, point) == IF Lead(p).kind = "stages" THEN Lead(p).span ELSE RingDepth(point)

StateLayout ==
    LET points == [p \in Plants |-> Resolve(Lead(p), Axis)]
        leads == [p \in Plants |-> LeadStages(p, points[p])]
    IN  [points |-> points, leads |-> leads,
         kMax |-> Max({RingDepth(points[p]) : p \in Plants} \cup {leads[p] : p \in Plants})]

FansOut(l) ==
    \E p \in Plants, t \in DecisionStages(Axis) :
        Cardinality(GenuineDecisionsAt(l.points[p], t)) > 1

\* An end of the interval [lo, hi] widened by the tolerance.
Ends == {"low", "high"}
AtEnd(p, m, end) == IF end = "low" THEN study.lo[p][m] - Slack ELSE study.hi[p][m] + Slack

\* Extreme values the checks accept for a past window over stage m: within the tolerance of
\* the bounds in operation, zero outside (check_committed_value_bounds, check_seed_within_window).
PastValue(p, m, end) == IF CommissioningActive(p, m) THEN AtEnd(p, m, end) ELSE 0

\* check_commitment_coverage: every leading stage is covered, here by one window.
Leading(p) == 0 .. LeadDeliveryStageCount(Lead(p), Axis) - 1
PastOf(p, end) == [m \in Leading(p) |-> PastValue(p, m, end)]

Init ==
    /\ study \in Studies
    /\ Accepted
    /\ \E end \in [Plants -> Ends] : past = [p \in Plants |-> PastOf(p, end[p])]
    /\ layout = << >>
    /\ stage = -1
    /\ ring = << >>
    /\ dispatch = [p \in Plants |-> NoCommitment]
    /\ status = "setup"

\* resolve_state_layout: a decision stage that anchors several deliveries is refused
RejectFanOut ==
    /\ status = "setup"
    /\ FansOut(StateLayout)
    /\ status' = "rejected"
    /\ UNCHANGED <<study, past, layout, stage, ring, dispatch>>

SlotOf(l, p, m) == RingIndex(l.points[p], m) % l.kMax

Seed(p, m, v) == Clamp(v, study.lo[p][m], study.hi[p][m])

\* build_initial_state
InitialState(l) ==
    [slot \in 0 .. l.kMax - 1 |-> [p \in Plants |->
        LET seeded == {m \in DOMAIN past[p] : m < l.leads[p] /\ SlotOf(l, p, m) = slot}
        IN  IF seeded = {} THEN 0 ELSE Seed(p, Max(seeded), past[p][Max(seeded)])]]

BuildInitialState ==
    /\ status = "setup"
    /\ ~ FansOut(StateLayout)
    /\ layout' = StateLayout
    /\ ring' = InitialState(StateLayout)
    /\ stage' = 0
    /\ status' = "running"
    /\ UNCHANGED <<study, past, dispatch>>

----------------------------------------------------------------------------
(* One stage's linear program *)

\* for_each_ring_residue: the window position stage t gives a slot, and its delivery
WindowIndex(slot, t) == CHOOSE r \in t + 1 .. t + layout.kMax : r % layout.kMax = slot
Target(p, slot, t) == PhysicalTarget(Point(p), WindowIndex(slot, t))

\* build_anticipated_fishing_row_pos
Fishes(p, t) == layout.kMax > 0 /\ IsAnticipatedAt(Point(p), t)

\* fill_thermal_columns: the generation the plant's column admits in stage t
Generation(p, t) == IF CommissioningActive(p, t) THEN study.lo[p][t] .. study.hi[p][t] ELSE {0}

\* fill_anticipated_fishing_entries: the maturing slot fixes the generation, without slack
Feasible ==
    \A p \in Plants : Fishes(p, stage) => ring[stage % layout.kMax][p] \in Generation(p, stage)

\* build_anticipated_slot_row_pos
Carries(p, m, t) ==
    /\ m \in DeliveryStages(Axis)
    /\ Point(p).decider[m] # t
    /\ IsReadyAt(Point(p), m, t)

\* fill_anticipated_state_out_def_entries, build_anticipated_decision_row_pos
Latches(p, m, t) ==
    LET decisions == GenuineDecisionsAt(Point(p), t)
    IN  decisions # {} /\ m = Min(decisions) /\ m \in DeliveryStages(Axis) /\ CommissioningActive(p, m)

\* Mutant: the solution is read back as the solver returned it.
BoxedRaw(p, m, v) == v

\* fill_commitment_hold_box: the read-back interval of a slot
Boxed(p, m, v) ==
    IF CommissioningActive(p, m) THEN Clamp(v, study.lo[p][m], study.hi[p][m]) ELSE 0

\* Mutant: the slot shifts down a stage, as in the water ring.
CarriedShift(p, slot) == ring[(slot + 1) % layout.kMax][p]

\* emit_carry_rows: the same slot holds the commitment
Carried(p, slot) == ring[slot][p]

\* The slot after the read-back (assemble_outgoing_state) when the decision, bounded at its
\* own delivery stage (fill_anticipated_columns), is returned at that end within the solver's
\* tolerance; a slot with neither row is frozen at zero (freeze_masked_columns).
Outgoing(p, slot, end) ==
    LET m == Target(p, slot, stage)
    IN  IF Latches(p, m, stage) THEN Boxed(p, m, AtEnd(p, m, end))
        ELSE IF Carries(p, m, stage) THEN Boxed(p, m, Carried(p, slot))
        ELSE 0

\* An infeasible stage ends the path with an error: it has no step.
SolveStage ==
    /\ status = "running"
    /\ Feasible
    /\ \E end \in [Plants -> Ends] :
          ring' = [slot \in DOMAIN ring |-> [p \in Plants |-> Outgoing(p, slot, end[p])]]
    /\ dispatch' = [p \in Plants |->
                        IF Fishes(p, stage) THEN ring[stage % layout.kMax][p] ELSE NoCommitment]
    /\ stage' = stage + 1
    /\ status' = IF stage = LastStage THEN "done" ELSE "running"
    /\ UNCHANGED <<study, past, layout>>

Next == RejectFanOut \/ BuildInitialState \/ SolveStage

Spec == Init /\ [][Next]_vars

----------------------------------------------------------------------------
(* Properties *)

Running == stage >= 0

\* The deliveries of plant p a slot must still hold before stage t is solved: decided by
\* then, not yet due, and no part of the fixed window after the study.
Held(p, t) ==
    {m \in DeliveryStages(Axis) \ Excised(Point(p)) : m >= t /\ IsReadyAt(Point(p), m, t - 1)}

\* The ring is deep enough and the excision right: two commitments that a plant holds at
\* once are never in one slot, and every one lies in the window the stage walks
\* (for_each_ring_residue), or it would be frozen at zero.
SlotsHoldOneDelivery ==
    Running /\ stage <= LastStage =>
        \A p \in Plants :
            /\ \A m, n \in Held(p, stage) :
                  SlotOf(layout, p, m) = SlotOf(layout, p, n) => m = n
            /\ \A m \in Held(p, stage) : m > stage => Target(p, SlotOf(layout, p, m), stage) = m

\* A plant that is out of operation in a leading stage can generate nothing there: the past
\* window, zero, is within its bounds.
PastIsServable ==
    \A s \in Studies : \A p \in Plants : \A m \in 0 .. LeadDeliveryStageCount(s.lead[p], s.axis) - 1 :
        (s.entry[p] <= m /\ m < s.exit[p]) \/ 0 \in s.lo[p][m] .. s.hi[p][m]

\* No input the checks accept and no decision the solver may return makes a later fishing
\* equality impossible to meet (fill_anticipated_fishing_entries has no slack), in studies
\* where PastIsServable.
NeverInfeasible == status = "running" => Feasible

\* The validator's own calendar walk (lead_delivery_stage_count) asks for a past window for
\* exactly the study deliveries the resolver finds decided before the study.
CoverageMatchesDecider ==
    status = "setup" => \A p \in Plants :
        0 .. LeadDeliveryStageCount(Lead(p), Axis) - 1
            = {m \in DecisionStages(Axis) : Decider(Lead(p), Axis)[m] = PreStudy}

\* The ring keeps the book of commitments: the commitments it owes are read from the slots
\* of the deliveries it holds.
Book ==
    INSTANCE CommitmentBook WITH
        owed <- [p \in Plants |->
                    IF Running THEN [m \in Held(p, stage) |-> ring[SlotOf(layout, p, m)][p]]
                    ELSE << >>]

\* Every commitment, past or latched, is generated unchanged at its delivery stage, and is
\* made in the stage its lead points to (fishing, carry and latch rows together).
ImplementsBook == Book!Spec

=============================================================================
