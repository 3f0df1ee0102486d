SPECIFICATION Spec
CONSTANTS
    Profiles <- MCProfiles
    DefaultProfile <- MCDefault
    Cols = {1, 3}
    Unlimited = 1000
    LimitFloor = 100
    LimitPerCol = 50
    MaxSolves = 2
INVARIANTS
    OptionsInForce
    NoFalseInfeasible
    StatsBalance
