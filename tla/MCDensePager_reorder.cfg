SPECIFICATION Spec
CONSTANTS
    EvictMode = "auto"
    Cgroups <- SomeCgroups
    NLayers = 5
    W = 1
    NSlices = 2
    Ahead = 3
    InOrder = FALSE
    Contexts = {c1}
    Aborts = TRUE
    MaxPasses = 3
    Tokens <- AllLayers
    Slabs <- AllSlabs
    FaultSets <- NoFaults
    Outcomes <- OkOnly
CHECK_DEADLOCK FALSE
INVARIANT ResidentFilled
PROPERTY ServiceProvided
