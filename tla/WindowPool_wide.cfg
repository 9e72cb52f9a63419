\* Two ranks and every program of the bounds.
SPECIFICATION FairSpec
CONSTANTS
    Ranks = {"a", "b"}
    Bounds <- PoolBounds
    LentSlots = 2
INVARIANTS TypeOK  LargeEnough KeptBuffersStay FreedBeforeAllocating  LentExclusively DestroyedIsFinal
 
