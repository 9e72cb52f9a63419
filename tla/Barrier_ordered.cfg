\* The contract: one stream orders a window's calls.
SPECIFICATION FairSpec
CONSTANTS
    Ranks = {r1, r2, r3}
    Lanes = {l1}
    MaxEpoch = 2
    MaxStale = 0
INVARIANTS Lockstep
PROPERTIES KeepsPromise
