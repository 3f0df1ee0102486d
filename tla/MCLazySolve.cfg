SPECIFICATION Spec
CONSTANTS
    x1 = x1
    x2 = x2
    x3 = x3
    x4 = x4
    Points <- MCPoints
    Pools <- MCPools
    Costs <- MCCosts
    Iterations = {0, 3}
    Studies <- MCStudies
    K2 = 0
    Nadic = 1
    MaxRounds = 2
    MaxValue = 5
    Eps = 1
    Openings = 2
    BaseRows = 2
INVARIANTS
    MapMatchesLp
    ResultIsExact
    CreditedAreTight
