----------------------------- MODULE Collective ------------------------------
(***************************************************************************)
(* What a caller is promised of the collective calls of a group, without   *)
(* streams, windows, barriers or buffers: a rank contributes to a call at  *)
(* most once, a call's result is read only when every rank has contributed *)
(* to it, and what is read is what they contributed to that call.          *)
(***************************************************************************)
CONSTANTS Ranks, Calls

VARIABLES contributed,  \* contributed[r]: the calls whose payload rank r has delivered
          got           \* got[r][c][s]: the call whose payload of s rank r read as c's

promise == <<contributed, got>>

Unread == [s \in Ranks |-> 0]

Init ==
    /\ contributed = [r \in Ranks |-> {}]
    /\ got = [r \in Ranks |-> [c \in Calls |-> Unread]]

\* Rank r delivers its payload of call c to every rank.
Contribute(r, c) ==
    /\ c \notin contributed[r]
    /\ contributed' = [contributed EXCEPT ![r] = @ \cup {c}]
    /\ UNCHANGED got

\* Rank r reads the result of call c.
Deliver(r, c) ==
    /\ \A s \in Ranks : c \in contributed[s]
    /\ got' = [got EXCEPT ![r][c] = [s \in Ranks |-> c]]
    /\ UNCHANGED contributed

Next == \E r \in Ranks, c \in Calls : Contribute(r, c) \/ Deliver(r, c)

Spec == Init /\ [][Next]_promise
==============================================================================
