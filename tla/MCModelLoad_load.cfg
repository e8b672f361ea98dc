SPECIFICATION Spec
CONSTANTS
    Budgets = {0, 2, 3, 4, 5, 8, 20}
    RamPercent = 70
    SlabsMayFail = TRUE
    Models <- SomeModels
    Machines <- SomeMachines
INVARIANT TypeOK
INVARIANT OneOwner
INVARIANT ExpertsAreRouted
INVARIANT WindowIsLongestPrefix
INVARIANT SharesWithinBudget
INVARIANT SlabsFitMemory
INVARIANT SlabTailBesideExperts
INVARIANT NoCeilingInvented
INVARIANT OwnPriorPreferred
INVARIANT SeedsSound
