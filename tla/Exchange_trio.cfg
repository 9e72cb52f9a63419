\* Three ranks, so that the sweep after the XOR pairs is used too.
SPECIFICATION FairSpec
CONSTANTS
    WorldSize = 3
    MaxCalls = 2
    Programs <- TrioPrograms
    LentSlots = 2
    StagingSlots = 1
    MaxShapes = 1
    HasRegistry = FALSE
INVARIANTS WritersWait ReadersWait ResultIntact
PROPERTIES EverythingCompletes
