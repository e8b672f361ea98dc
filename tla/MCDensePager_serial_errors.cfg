SPECIFICATION Spec
CONSTANTS
    EvictMode = "auto"
    Cgroups <- SomeCgroups
    NLayers = 5
    W = 2
    NSlices = 3
    Ahead = 1
    InOrder = FALSE
    Contexts = {c1}
    Aborts = FALSE
    MaxPasses = 3
    Tokens <- AllLayers
    Slabs <- AllSlabs
    FaultSets <- NoFaults
    Outcomes <- WithErrors
INVARIANT ResidentFilled
INVARIANT InflightExact
INVARIANT OneReadPerSlab
INVARIANT FootprintNearAhead
PROPERTY CallbackReturns
PROPERTY ServiceProvided
