SPECIFICATION Spec
CONSTANTS
    NumRanks = 1
    StartIteration = 0
    MaxIterations = 3
    NumLevels = 2
    NodesPerLevel = 2
    ForwardPasses = 2
    VisitStride = 2
    WorkerCounts = {1}
    BoundaryCuts = TRUE
    Enumerated = TRUE
    Checkpointing = TRUE
    TimeLimited = TRUE
    Flagged = {0}
PROPERTIES
    ShutdownHonoured
