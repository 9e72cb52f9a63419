\* Two ranks, one staging slot, and transfers that throw half way.
SPECIFICATION ThrowingSpec
CONSTANTS
    WorldSize = 2
    MaxCalls = 2
    Programs <- ThrowPrograms
    LentSlots = 2
    StagingSlots = 1
    MaxShapes = 1
    HasRegistry = TRUE
INVARIANTS StagedUntilSent
CHECK_DEADLOCK FALSE
