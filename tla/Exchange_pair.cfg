\* Two ranks: every program of two calls, and chosen ones of three.
SPECIFICATION Spec
CONSTANTS
    WorldSize = 2
    MaxCalls = 3
    Programs <- PairPrograms
    LentSlots = 2
    StagingSlots = 2
    MaxShapes = 1
    HasRegistry = TRUE
INVARIANTS TypeOK StagedUntilSent OneBarrierPerWindow WindowsOutliveTransfers NeverStuck
PROPERTIES KeepsPromise
