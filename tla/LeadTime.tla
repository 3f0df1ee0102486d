------------------------------ MODULE LeadTime ------------------------------
(***************************************************************************)
(* Which stage commits an anticipated delivery.  The delivery axis is the  *)
(* study's stages, which are also the decision stages, and the post-study  *)
(* stages after them; an axis is [hours |-> stage lengths, study |-> number *)
(* of decision stages].  A lead is a number of hours before the end of the *)
(* delivery stage or a number of stages.                                   *)
(***************************************************************************)
EXTENDS Integers, Sequences, FiniteSetsExt

PreStudy == -1      \* a decider None: committed before the study

DeliveryStages(axis) == 0 .. Len(axis.hours) - 1
DecisionStages(axis) == 0 .. axis.study - 1

\* cumulative_stage_boundaries: the hour stage k begins, and stage k - 1 ends
Boundary(axis, k) == MapThenSumSet(LAMBDA j : axis.hours[j], 1 .. k)

----------------------------------------------------------------------------
(* The decider and what follows from it *)

ContainingStage(axis, target) ==
    Cardinality({k \in 0 .. Len(axis.hours) : Boundary(axis, k) < target}) - 1

Decider(lead, axis) ==
    [m \in DeliveryStages(axis) |->
        IF lead.kind = "hours" THEN ContainingStage(axis, Boundary(axis, m + 1) - lead.span)
        ELSE IF m >= lead.span THEN m - lead.span
        ELSE PreStudy]

\* The commitments entering minus those maturing at t.
OccupancyDelta(c, axis, t) ==
    Cardinality({m \in DOMAIN c :
                    c[m] = t \/ (t = 0 /\ c[m] = PreStudy /\ m \in DecisionStages(axis))})
        - IF c[t] \in DecisionStages(axis) \cup {PreStudy} THEN 1 ELSE 0

\* build_decision_sets_and_depth: the prefix sums of the differences
Occupancy(c, axis) ==
    LET delta == [t \in DecisionStages(axis) |-> OccupancyDelta(c, axis, t)]
    IN  [t \in DecisionStages(axis) |-> MapThenSumSet(LAMBDA s : delta[s], 0 .. t)]

\* Length of the run of pre-study deciders that begins at `from`, up to `to`.
PreStudyRun(c, from, to) ==
    Cardinality({m \in from .. to : \A j \in from .. m : c[j] = PreStudy})

\* resolve_point
Resolve(lead, axis) ==
    LET c == Decider(lead, axis)
    IN  [decider |-> c, occupancy |-> Occupancy(c, axis), study |-> axis.study,
         fixed |-> PreStudyRun(c, axis.study, Len(axis.hours) - 1)]

----------------------------------------------------------------------------
(* PointResolution *)

\* Mutant: the deepest stage alone sizes the ring.
RingDepthOccupied(point) == Max({0} \cup {point.occupancy[t] : t \in DOMAIN point.occupancy})

RingDepth(point) ==
    Max({point.occupancy[t] : t \in DOMAIN point.occupancy}
            \cup {PreStudyRun(point.decider, 0, point.study - 1)})

IsAnticipatedAt(point, m) == point.decider[m] # m
GenuineDecisionsAt(point, t) == {m \in DOMAIN point.decider : point.decider[m] = t /\ m # t}
IsReadyAt(point, m, t) == m \in DOMAIN point.decider /\ point.decider[m] <= t

\* The window [study, study + fixed) is committed beforehand and is no part of the ring.
Excised(point) == point.study .. point.study + point.fixed - 1
RingIndex(point, m) == IF m < point.study THEN m ELSE m - point.fixed

PhysicalTarget(point, r) == IF r < point.study THEN r ELSE r + point.fixed

----------------------------------------------------------------------------
(* The input validator walks the calendar on its own *)

\* Mutant: a stage ending exactly at the lead is left to the study.
LeadDeliveryStageCountStrict(lead, axis) ==
    IF lead.kind = "stages" THEN Min({lead.span, axis.study})
    ELSE Cardinality({k \in 1 .. axis.study : Boundary(axis, k) < lead.span})

\* lead_delivery_stage_count: the leading stages that need a past commitment
LeadDeliveryStageCount(lead, axis) ==
    IF lead.kind = "stages" THEN Min({lead.span, axis.study})
    ELSE Cardinality({k \in 1 .. axis.study : Boundary(axis, k) <= lead.span})

=============================================================================
