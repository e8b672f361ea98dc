SPECIFICATION Spec
CONSTANTS
    EvictMode = "dontneed"
    Cgroups <- SomeCgroups
    NLayers = 4
    W = 1
    NSlices = 2
    Ahead = 2
    InOrder = TRUE
    Contexts = {c1}
    Aborts = TRUE
    MaxPasses = 2
    Tokens <- AllLayers
    Slabs <- AllSlabs
    FaultSets <- SomeFaults
    Outcomes <- OkOnly
INVARIANT TypeOK
INVARIANT ResidentFilled
INVARIANT ComputedFilled
INVARIANT InflightExact
INVARIANT OneReadPerSlab
PROPERTY CallbackReturns
