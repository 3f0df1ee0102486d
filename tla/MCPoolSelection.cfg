SPECIFICATION Spec
CONSTANTS
    p1 = p1
    p2 = p2
    MaxIterations = 4
    ForwardPasses = 2
    VisitStride = 1
    PoolKinds = {"interior"}
    Points = {p1, p2}
    Values = {0, 1}
    Strategy = "lml1"
    CheckFrequency = 1
    TieTolerance = 0
    HasBudget = TRUE
    Budget = 2
    MaxBinding = 0
    TemplateRows = 1
    MaxRestarts = 0
    U32Max = 7
    U64Max = 15
INVARIANTS
    CountIsExact
    SelectionKeepsValue
    FreshCutsActive
