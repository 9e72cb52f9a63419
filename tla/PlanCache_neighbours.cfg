\* Every order of neighbouring requests to a cache that three plans fill.
SPECIFICATION Spec
CONSTANTS
    WorldSize = 2
    Rank = 1
    Elem <- Bytes
    Alignment = 4
    MaxPlans = 3
    Requests <- Neighbours
INVARIANTS TypeOK AnswersAsUncached ReferenceLive
