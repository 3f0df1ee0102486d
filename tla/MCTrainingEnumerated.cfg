SPECIFICATION Spec
CONSTANTS
    NumRanks = 2
    StartIteration = 0
    MaxIterations = 1
    NumLevels = 1
    NodesPerLevel = 1
    ForwardPasses = 2
    VisitStride = 2
    WorkerCounts = {1}
    BoundaryCuts = FALSE
    Enumerated = TRUE
    Checkpointing = FALSE
    TimeLimited = FALSE
    Flagged = {}
INVARIANTS
    NoMismatchedCall
