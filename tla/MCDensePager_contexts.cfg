SPECIFICATION Spec
CONSTANTS
    EvictMode = "dontneed"
    Cgroups <- SomeCgroups
    NLayers = 4
    W = 1
    NSlices = 1
    Ahead = 2
    InOrder = TRUE
    Contexts = {c1, c2}
    Aborts = FALSE
    MaxPasses = 2
    Tokens <- AllLayers
    Slabs <- AllSlabs
    FaultSets <- NoFaults
    Outcomes <- OkOnly
CHECK_DEADLOCK FALSE
INVARIANT ComputedFilled
