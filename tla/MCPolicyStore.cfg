SPECIFICATION Spec
CONSTANTS
    c1 = c1
    c2 = c2
    b1 = b1
    s1 = s1
    CutFiles = {c1, c2}
    BasisFiles = {b1}
    StateFiles = {s1}
    MaxIterations = 2
    Initial = 2
    Interval = 1
    Enabled = TRUE
    StoreBasis = TRUE
    MaxRuns = 2
INVARIANTS
    ReadableIsComplete
    GenerationWhole
PROPERTIES
    GenerationImmutable
    ImplementsArtifact
