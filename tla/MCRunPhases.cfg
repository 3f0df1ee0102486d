SPECIFICATION Spec
CONSTANTS
    NumRanks = 2
    NumWorkers = 2
    NumScenarios = 5
    Capacity = 1
INVARIANTS
    TypeOK
    ResultsAccounted
    FailsInLockstep
PROPERTIES
    EverybodyEnds
CHECK_DEADLOCK FALSE
