\* Three ranks, every geometry of up to two rows and heads a rank, and integers
\* too small for the largest of them.
SPECIFICATION Spec
CONSTANTS
    WorldSize = 3
    Lengths = {0, 1, 2}
    Batches = {0, 1, 2}
    Cells <- SmallCells
    Alignment = 2
    MaxInt64 = 40
    Calls <- AllCalls
INVARIANTS LayoutExact InsideWindow RefusedTogether FitsInt64 BackwardIsAdjoint
