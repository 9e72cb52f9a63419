----------------------------- MODULE MCExchange ------------------------------
(***************************************************************************)
(* The programs Exchange is checked with: every choice of the calls, and   *)
(* every place the callers' contract leaves for using their results.       *)
(***************************************************************************)
EXTENDS Exchange

Call(c, k, shape) ==
    [do |-> "call", call |-> c, async |-> k[1], dest |-> k[2], shape |-> shape]
UseOf(c) == [do |-> "use", call |-> c]
End == <<[do |-> "drain"], [do |-> "meet"], [do |-> "destroy"]>>

Sync == <<FALSE, "fresh">>
SyncOwn == <<FALSE, "own">>
Timed == <<FALSE, "fresh", "timed">>
Async == <<TRUE, "fresh">>
AsyncOwn == <<TRUE, "own">>
Lent == <<TRUE, "lent">>
Refused == <<TRUE, "refused">>

Kinds == {Sync, SyncOwn, Async, AsyncOwn, Lent}

\* Every rank's shard has the first shape; or the last rank's, alone or with the
\* others', is of another in the second call.
Even == [c \in Calls |-> [r \in Ranks |-> 1]]
Uneven == [c \in Calls |-> [r \in Ranks |-> IF c = 2 /\ r = WorldSize - 1 THEN 2 ELSE 1]]
Changing == [c \in Calls |-> [r \in Ranks |-> IF c = 2 THEN 2 ELSE 1]]

\* The calls in order, the use of each right behind it, or after all of them, or
\* none; then the group is destroyed.
ProgramOf(kinds, early, late, shapes) ==
    LET n == Len(kinds)
        call(c) == <<Call(c, kinds[c], shapes[c])>>
                     \o (IF kinds[c] = Timed THEN <<[do |-> "timed"]>> ELSE <<>>)
        part(c) == IF c \in early THEN Append(call(c), UseOf(c)) ELSE call(c)
        rest == SelectSeq([c \in 1 .. n |-> c], LAMBDA c : c \in late)
    IN  FlattenSeq([c \in 1 .. n |-> part(c)]) \o [i \in 1 .. Len(rest) |-> UseOf(rest[i])] \o End

\* A window of the caller's is used before the next call that fills it: the one
\* passed as out=, and the lent one the rotation comes back to.
Legal(kinds, early) ==
    LET lent(c) == Cardinality({b \in 1 .. c - 1 : kinds[b][2] = "lent"}) % LentSlots
        same(c, d) == /\ kinds[c][2] = kinds[d][2]
                      /\ kinds[c][2] \in {"own", "lent"}
                      /\ kinds[c][2] = "lent" => lent(c) = lent(d)
    IN  \A c, d \in DOMAIN kinds : c < d /\ same(c, d) => c \in early

Pair == {1, 2}

AllPrograms ==
    {ProgramOf(p[1], p[2], Pair \ p[2], Even) :
        p \in {q \in [Pair -> Kinds] \X {{}, {1}, Pair} : Legal(q[1], q[2])}}

\* Three calls: the lent rotation comes round, and both roles' windows are in
\* use around a third call.
LongPrograms ==
    {ProgramOf(<<Lent, Lent, Lent>>, {1}, {2, 3}, Even),
     ProgramOf(<<Async, Sync, Async>>, {}, 1 .. 3, Even)}

\* A timed call, a call refused after staging, which fills the staging pool up
\* before a third, results nobody waits for, and shapes that evict the pool on
\* one rank or on all.
OddPrograms ==
    {ProgramOf(<<Async, Timed>>, {2}, {1}, Even),
     ProgramOf(<<Async, Refused, Async>>, {}, {1, 3}, Even),
     ProgramOf(<<Async, Lent>>, {}, {}, Even),
     ProgramOf(<<Async, AsyncOwn>>, {}, {1}, Uneven),
     ProgramOf(<<Async, Lent, Async>>, {}, 1 .. 3, Changing)}

PairPrograms == AllPrograms \cup LongPrograms \cup OddPrograms

\* Few programs, for more than two ranks; the second evicts on one rank only.
TrioPrograms == {ProgramOf(<<SyncOwn, Async>>, {1}, {2}, Even),
                 ProgramOf(<<Async, Async>>, {}, Pair, Uneven)}

\* Two asynchronous calls of one shape, nothing else.
ThrowPrograms == {SubSeq(ProgramOf(<<Async, Async>>, {}, {}, Even), 1, 2)}
==============================================================================
