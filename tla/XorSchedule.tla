----------------------------- MODULE XorSchedule -----------------------------
(***************************************************************************)
(* The order in which launch_a2a_ce (src/src/transfer.cu) visits the peers *)
(* of a rank: k = 1, 2, ... visits rank XOR k where that is a rank at all, *)
(* and a sweep picks up the peers no k below the world size reaches, which *)
(* only happens when the world size is not a power of two.  The world size *)
(* is at most 8, so three bits are all there are.                          *)
(***************************************************************************)
EXTENDS Naturals, Sequences, SequencesExt

\* The bit of x that is worth v.
Bit(x, v) == (x \div v) % 2

Xor(a, b) ==
    LET differ(v) == IF Bit(a, v) # Bit(b, v) THEN v ELSE 0
    IN  differ(1) + differ(2) + differ(4)

PowerOfTwo(ws) == ws \in {1, 2, 4, 8}

\* The numbers below n in S, in order: a loop that skips the others.
InOrder(S, n) ==
    LET upTo[k \in 0 .. n] ==
          IF k = 0 THEN <<>>
          ELSE IF k - 1 \in S THEN Append(upTo[k - 1], k - 1) ELSE upTo[k - 1]
    IN  upTo[n]

\* The peers XOR reaches, in the order of k.
Paired(rank, ws) ==
    LET ks == InOrder({k \in 1 .. ws - 1 : Xor(rank, k) < ws}, ws)
    IN  [i \in DOMAIN ks |-> Xor(rank, ks[i])]

\* Mutant: XOR is taken to reach everybody.
NoSweep(rank, ws) == <<>>

\* The peers the sweep adds, in rank order.
Swept(rank, ws) ==
    IF PowerOfTwo(ws) THEN <<>>
    ELSE InOrder({p \in 0 .. ws - 1 : p # rank /\ Xor(p, rank) >= ws}, ws)

\* The remote copies, in the order the transfer stream runs them.
PeerOrder(rank, ws) == Paired(rank, ws) \o Swept(rank, ws)
==============================================================================
