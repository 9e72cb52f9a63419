---------------------------- MODULE MCWindowPool -----------------------------
(* The programs WindowPool is checked with.  Ranks are two, "a" and "b". *)
EXTENDS WindowPool

Item(do, role, elem, a, b) ==
    [do |-> do, role |-> role, elem |-> elem, shard |-> [r \in Ranks |-> IF r = "a" THEN a ELSE b], of |-> 0]

Drop == Item("drop", "sync", 1, 1, 1)

\* Every kind of step, even and uneven shards, two dtypes, and a call that
\* moves nothing.
WideMenu ==
    {Item("call", "sync", 1, 1, 2), Item("call", "sync", 1, 1, 1), Item("call", "async", 2, 1, 1),
     Item("call", "sync", 1, 0, 0), Item("lend", "async", 1, 1, 1), Item("lend", "async", 1, 2, 1),
     Item("lend", "async", 1, 0, 0), Item("make", "sync", 1, 2, 1), Item("make", "sync", 1, 0, 0),
     Item("out", "sync", 1, 1, 2), Item("out", "sync", 2, 2, 1), Drop}

\* Lent windows only, for a longer program: the rotation comes round twice.
LentMenu == {Item("lend", "async", 1, 1, 1), Item("lend", "async", 1, 1, 2), Item("lend", "async", 1, 2, 1), Drop}

\* One of each, for programs that go on after destroy and for a call that reads
\* the buffer it fills.
LateMenu == {Item("call", "sync", 1, 1, 2), Item("lend", "async", 1, 1, 1), Item("make", "sync", 1, 2, 1),
             Item("out", "sync", 1, 1, 1), Item("self", "sync", 1, 1, 1), Drop}

PoolBounds == {[menu |-> WideMenu, steps |-> 4, late |-> 0],
               [menu |-> LentMenu, steps |-> 6, late |-> 0],
               [menu |-> LateMenu, steps |-> 3, late |-> 2]}

\* Small menus for what comments and docs claim.
EmptyLent == {[menu |-> {Item("lend", "async", 1, 0, 0), Item("lend", "async", 1, 1, 1), Drop},
               steps |-> 4, late |-> 0]}
EmptyRole == {[menu |-> {Item("call", "sync", 1, 0, 0), Item("call", "sync", 1, 1, 2)},
               steps |-> 4, late |-> 0]}
==============================================================================
