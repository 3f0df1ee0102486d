-------------------------- MODULE MCCommitmentRing --------------------------
(***************************************************************************)
(* Two plants over two or three study stages of one or two hours, and up   *)
(* to two post-study stages.                                               *)
(***************************************************************************)
EXTENDS CommitmentRing

CONSTANTS p1, p2

MCPlants == {p1, p2}

Hours(n) == [1 .. n -> 1 .. 2]
Never == 9      \* an exit after every delivery
Stages(n) == [kind |-> "stages", span |-> n]
HoursAhead(n) == [kind |-> "hours", span |-> n]
Leads == {Stages(n) : n \in 1 .. 3} \cup {HoursAhead(n) : n \in {1, 2, 3, 6}}

Axes(n, post) == [hours : Hours(n + post), study : {n}]
Same(x) == [p \in MCPlants |-> x]

\* Bounds that no two delivery stages share, so that a power in the wrong stage shows.
Staircase(axis) ==
    [lo |-> [m \in DeliveryStages(axis) |-> 2 * m + 1], hi |-> [m \in DeliveryStages(axis) |-> 2 * m + 2]]
FromZero(axis) ==
    [lo |-> [m \in DeliveryStages(axis) |-> 0], hi |-> [m \in DeliveryStages(axis) |-> m + 1]]

\* The second plant's operation is limited to [entry, exit).
Study(axis, lead1, lead2, bounds, entry, exit) ==
    [axis |-> axis,
     lead |-> [p \in MCPlants |-> IF p = p1 THEN lead1 ELSE lead2],
     entry |-> [p \in MCPlants |-> IF p = p1 THEN 0 ELSE entry],
     exit |-> [p \in MCPlants |-> IF p = p1 THEN Never ELSE exit],
     lo |-> Same(bounds.lo), hi |-> Same(bounds.hi)]

Uneven == {[hours |-> <<1, 2, 1, 2, 1>>, study |-> 3], [hours |-> <<2, 1, 1, 1, 2>>, study |-> 3],
           [hours |-> <<1, 1, 1, 2>>, study |-> 2], [hours |-> <<2, 2, 1>>, study |-> 3]}

MixedLeads ==
    {Study(axis, lead1, lead2, Staircase(axis), 0, Never) :
        axis \in Axes(3, 0) \cup Axes(2, 2) \cup Uneven, lead1 \in Leads, lead2 \in {Stages(2), HoursAhead(2)}}

Windowed(axis, bounds) ==
    {Study(axis, lead1, lead2, bounds, entry, exit) :
        lead1 \in {Stages(1), Stages(3)}, lead2 \in {Stages(2), HoursAhead(3)},
        entry \in 0 .. 2, exit \in {2, 3, Never}}

\* Plants with a positive lower bound that enter late or leave early, but are in operation
\* in every stage committed before the study (see the README for the others).
Idle(s) ==
    \E p \in MCPlants : \E m \in 0 .. LeadDeliveryStageCount(s.lead[p], s.axis) - 1 :
        m < s.entry[p] \/ s.exit[p] <= m

MCStudies ==
    MixedLeads \cup UNION {Windowed(axis, FromZero(axis)) : axis \in Uneven}
        \cup {s \in UNION {Windowed(axis, Staircase(axis)) : axis \in Uneven} : ~ Idle(s)}

ASSUME PastsAreServable == PastIsServable

=============================================================================
