SPECIFICATION Spec
CONSTANTS
    p1 = p1
    MaxIterations = 3
    ForwardPasses = 2
    VisitStride = 2
    PoolKinds = {"root", "interior", "byNode", "branch"}
    Points = {p1}
    Values = {0, 1}
    Strategy = "none"
    CheckFrequency = 1
    TieTolerance = 0
    HasBudget = TRUE
    Budget = 2
    MaxBinding = 1
    TemplateRows = 1
    MaxRestarts = 2
    U32Max = 7
    U64Max = 15
INVARIANTS
    TypeOK
    AllocatedSuffices
    BasisAligned
    BudgetRespected
    LbRowsComplete
    LbRowsFaithful
PROPERTIES
    SlotsAreStable
    ResumeKeepsValue
