SPECIFICATION Spec
CONSTANTS
    ModelLayers = 2
    ModelExperts = 3
    ModelTopK = 0
    ConfigLayers = 4
    ConfigExperts = 8
    ConfigTopK = 2
    SliceLen = 2
    FileEnd = 7
    ClientBufs = {b1}
    MaxCalls = 2
    MaxUses = 1
    MaxBatches = 1
    MaxCaps = {0, 1, 2}
    Keys <- AllKeys
    Entries <- FusedEntries
    Batches <- SomeBatches
INVARIANT TypeOK
INVARIANT ListMatchesMap
INVARIANT SoloReadsRight
INVARIANT FreshSlotsHeld
PROPERTY AllocationWithinCapacity
PROPERTY WaitsEnd
