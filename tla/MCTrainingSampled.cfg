SPECIFICATION Spec
CONSTANTS
    NumRanks = 2
    StartIteration = 0
    MaxIterations = 2
    NumLevels = 2
    NodesPerLevel = 2
    ForwardPasses = 3
    VisitStride = 2
    WorkerCounts = {1, 2}
    BoundaryCuts = FALSE
    Enumerated = FALSE
    Checkpointing = TRUE
    TimeLimited = FALSE
    Flagged = {}
INVARIANTS
    Lockstep
    FailureIsGlobal
    SameResult
    BasisAllOrNone
PROPERTIES
    CheckpointAtBoundary
    EventuallyDone
