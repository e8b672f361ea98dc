SPECIFICATION Spec
CONSTANTS
    NLayers = 3
    NTensors = 2
    NumExperts = 3
    MaxActive = 1
    UsePilot = TRUE
    PilotMass = 90
    Warmup = 1
    Cadence = 2
    MaxRecords = 4
    LayerOf <- SparseLayers
    SliceBytes <- UnevenBytes
    Priors <- SomePriors
    Routings <- FewRoutings
    ExpertBudgets <- NoCeiling
INVARIANT PinsWithinMaxExperts
