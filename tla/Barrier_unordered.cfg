\* The contract broken: two streams run kernels on one window, and the pad
\* still holds what an earlier window left in it.
SPECIFICATION FairSpec
CONSTANTS
    Ranks = {r1, r2}
    Lanes = {l1, l2}
    MaxEpoch = 2
    MaxStale = 1
INVARIANTS TypeOK PublishedSticks EpochsDistinct StillInside
PROPERTIES FlagsOnlyRise AllBarriersEnd
