--------------------------- MODULE AbstractBarrier ---------------------------
(***************************************************************************)
(* What one window's barrier promises, without flags or kernels: barriers  *)
(* are numbered per rank from 1 on, and a rank leaves its n-th barrier     *)
(* only when every rank of the group has arrived at its own n-th.  Two     *)
(* barriers of one rank may be under way together -- the caller who breaks *)
(* the per-window ordering contract of include/fast_ulysses/transfer.hpp   *)
(* -- and the promise still holds for each of them.                        *)
(***************************************************************************)
EXTENDS Naturals

CONSTANT Ranks

VARIABLES arrived,   \* arrived[r]: the barriers rank r has started
          inside     \* inside[r]: the numbers of those it has not left yet

vars == <<arrived, inside>>

Init == /\ arrived = [r \in Ranks |-> 0]
        /\ inside = [r \in Ranks |-> {}]

Arrive(r) ==
    /\ arrived' = [arrived EXCEPT ![r] = @ + 1]
    /\ inside' = [inside EXCEPT ![r] = @ \cup {arrived[r] + 1}]

Leave(r, n) ==
    /\ n \in inside[r]
    /\ \A t \in Ranks : arrived[t] >= n
    /\ inside' = [inside EXCEPT ![r] = @ \ {n}]
    /\ UNCHANGED arrived

Next == \E r \in Ranks : Arrive(r) \/ \E n \in inside[r] : Leave(r, n)

Spec == Init /\ [][Next]_vars
==============================================================================
