SPECIFICATION Spec
CONSTANTS
    NRanks = 2
    NWorkers = 2
    TotalPasses = 3
    Nodes <- MCNodes
    StageOf <- MCStageOf
    Children <- MCChildren
    Openings <- MCOpenings
    SolveOrder <- MCSolveOrder
    PointOrder <- MCPointOrder
    BlockSize = 3
    VisitStride <- MCVisitStride
    Layouts <- MCLayouts
    MaxFailures = 1
INVARIANTS
    TypeOK
    ClaimedOnce
    BindingLandsInOwnPool
PROPERTIES
    ImplementsSweep
