------------------------------ MODULE MCA2APlan ------------------------------
(* The calls A2APlan is checked with: every geometry of a few rows and heads. *)
EXTENDS A2APlan, Functions

CONSTANTS Lengths,   \* bound: the lengths of a shard
          Batches,   \* bound: the batches
          Cells      \* bound: <<d, elem>>

Splits == [Ranks -> Lengths]

CallOf(mode, b, cell, own, total, splits) ==
    [mode |-> mode, b |-> b, d |-> cell[1], elem |-> cell[2], own |-> own, total |-> total, splits |-> splits]

\* Calls with splits: each rank is handed the shard they give it.
SplitCalls ==
    {CallOf(mode, b, cell, IF mode = 0 THEN s ELSE h, SumFunction(IF mode = 0 THEN h ELSE s),
            {[seq |-> s, head |-> h]}) :
        mode \in {0, 1}, b \in Batches, cell \in Cells, s \in Splits, h \in Splits}

\* Calls without: the sharded axis even, the other of any length.
EvenCalls ==
    {CallOf(mode, b, cell, [r \in Ranks |-> n], total, {}) :
        mode \in {0, 1}, b \in Batches, cell \in Cells, n \in Lengths, total \in 0 .. 2 * WorldSize}

\* Calls that contradict their own splits, or have no such mode.
WrongCalls ==
    {CallOf(mode, 1, <<1, 2>>, [r \in Ranks |-> 1], total,
            {[seq |-> [r \in Ranks |-> n], head |-> [r \in Ranks |-> 1]]}) :
        mode \in {0, 1, 2}, total \in 0 .. WorldSize, n \in {-1, 1}}

SmallCells == {<<1, 2>>, <<2, 1>>, <<1, 1>>}

AllCalls == SplitCalls \cup EvenCalls \cup WrongCalls
==============================================================================
