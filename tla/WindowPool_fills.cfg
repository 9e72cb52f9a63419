SPECIFICATION Spec
CONSTANTS
    Ranks = {"a", "b"}
    Bounds <- EmptyLent
    LentSlots = 2
INVARIANT PoolFillsFirst
