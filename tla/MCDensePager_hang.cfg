SPECIFICATION Spec
CONSTANTS
    EvictMode = "dontneed"
    Cgroups <- SomeCgroups
    NLayers = 5
    W = 1
    NSlices = 1
    Ahead = 2
    InOrder = FALSE
    Contexts = {c1}
    Aborts = FALSE
    MaxPasses = 2
    Tokens <- AllLayers
    Slabs <- AllSlabs
    FaultSets <- NoFaults
    Outcomes <- OkOnly
CHECK_DEADLOCK FALSE
PROPERTY CallbackReturns
