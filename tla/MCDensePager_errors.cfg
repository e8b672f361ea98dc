SPECIFICATION Spec
CONSTANTS
    EvictMode = "dontneed"
    Cgroups <- SomeCgroups
    NLayers = 4
    W = 1
    NSlices = 2
    Ahead = 2
    InOrder = FALSE
    Contexts = {c1}
    Aborts = FALSE
    MaxPasses = 2
    Tokens <- AllLayers
    Slabs <- AllSlabs
    FaultSets <- NoFaults
    Outcomes <- WithErrors
CHECK_DEADLOCK FALSE
INVARIANT ComputedFilled
