----------------------------- MODULE MCPlanCache -----------------------------
(***************************************************************************)
(* Requests for TLC, of the second of two ranks: one that passes, and      *)
(* around it the ones that differ from it in a single argument.            *)
(***************************************************************************)
EXTENDS PlanCache

Bytes == [half |-> 2, float |-> 4]

Plain == [sizes |-> <<1, 2, 2, 2>>, mode |-> 0, dtype |-> "half", seq |-> {}, head |-> {}]

Neighbours ==
    {Plain,
     [Plain EXCEPT !.mode = 1],
     [Plain EXCEPT !.mode = 2],
     [Plain EXCEPT !.dtype = "float"],
     [Plain EXCEPT !.dtype = "bool"],
     [Plain EXCEPT !.sizes = <<1, 2, 2>>],
     [Plain EXCEPT !.sizes = <<1, 2, 2, 1>>],
     [Plain EXCEPT !.sizes = <<1, 2, 2, 1>>, !.dtype = "float"],
     [Plain EXCEPT !.sizes = <<1, 2, 3, 2>>],
     [Plain EXCEPT !.sizes = <<0, 2, 2, 2>>],
     [Plain EXCEPT !.seq = {<<>>}, !.head = {<<>>}],
     [Plain EXCEPT !.seq = {<<2, 2>>}],
     [Plain EXCEPT !.seq = {<<2, 2>>}, !.head = {<<1, 1>>}],
     [Plain EXCEPT !.seq = {<<3, 2>>}, !.head = {<<2, 0>>}],
     [Plain EXCEPT !.seq = {<<2, 3>>}, !.head = {<<1, 1>>}],
     [Plain EXCEPT !.mode = 1, !.seq = {<<1, 1>>}, !.head = {<<1, 2>>}]}
==============================================================================
