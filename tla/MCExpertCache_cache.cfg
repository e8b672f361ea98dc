SPECIFICATION Spec
CONSTANTS
    NLayers = 3
    NTensors = 2
    NumExperts = 3
    MaxActive = 2
    UsePilot = TRUE
    PilotMass = 90
    Warmup = 1
    Cadence = 2
    MaxRecords = 4
    LayerOf <- SparseLayers
    SliceBytes <- UnevenBytes
    Priors <- SomePriors
    Routings <- SomeRoutings
    ExpertBudgets <- SomeCeilings
INVARIANT TypeOK
INVARIANT BytesExact
INVARIANT SelectedResident
INVARIANT PinsStayLoaded
INVARIANT OnlyPinsEscape
INVARIANT NoWrapAroundLearned
PROPERTY BudgetMetOrAllPinned
PROPERTY WarmSurvivorsUnused
PROPERTY CeilingMet
