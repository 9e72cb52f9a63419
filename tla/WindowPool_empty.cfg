SPECIFICATION Spec
CONSTANTS
    Ranks = {"a", "b"}
    Bounds <- EmptyRole
    LentSlots = 2
INVARIANT EmptyCallRaises
