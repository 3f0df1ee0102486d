SPECIFICATION Spec
CONSTANTS
    p1 = p1
    p2 = p2
    Plants <- MCPlants
    Studies <- MCStudies
    Slack = 1
    NoCommitment = NoCommitment
INVARIANTS
    SlotsHoldOneDelivery
    NeverInfeasible
    CoverageMatchesDecider
PROPERTIES
    ImplementsBook
CHECK_DEADLOCK FALSE
