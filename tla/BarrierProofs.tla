---------------------------- MODULE BarrierProofs ----------------------------
(***************************************************************************)
(* Proofs about Barrier for every group, every number of lanes and every   *)
(* bound: its invariants, and that it implements AbstractBarrier.          *)
(***************************************************************************)
EXTENDS Barrier, TLAPS

------------------------------------------------------------------------------
(* The inductive invariant, by parts. *)

\* Kernels run only on windows that are set up, and one is set up only once
\* every rank has cleared its pad.
SetupInv ==
    \A r \in Ranks :
        /\ phase[r] # "ready" => \A l \in Lanes : ~ kernel[r][l].running
        /\ phase[r] = "ready" => \A t \in Ranks : phase[t] # "fresh"

\* A cleared flag is never past the barriers its writer has started.
FlagInv ==
    \A r, t \in Ranks : phase[r] # "fresh" => flags[r][t] <= Started(t)

\* A running kernel holds an epoch this rank has drawn, and every peer it has
\* seen has started the barrier of that number.
KernelInv ==
    \A r \in Ranks, l \in Lanes : kernel[r][l].running =>
        /\ 1 <= kernel[r][l].epoch
        /\ kernel[r][l].epoch <= epoch[r]
        /\ \A t \in kernel[r][l].seen : kernel[r][l].epoch <= Started(t)

IInv == /\ TypeOK
        /\ SetupInv
        /\ FlagInv
        /\ KernelInv
        /\ PublishedSticks
        /\ EpochsDistinct
        /\ StillInside

------------------------------------------------------------------------------
\* What changing one kernel leaves of the others.
LEMMA KernelUpdate ==
    ASSUME kernel \in [Ranks -> [Lanes -> Kernels]],
           NEW r \in Ranks, NEW l \in Lanes, NEW k \in Kernels,
           kernel' = [kernel EXCEPT ![r][l] = k]
    PROVE  /\ kernel' \in [Ranks -> [Lanes -> Kernels]]
           /\ \A q \in Ranks, m \in Lanes :
                 kernel'[q][m] = IF q = r /\ m = l THEN k ELSE kernel[q][m]
  OBVIOUS

------------------------------------------------------------------------------
(* What each step of a kernel changes, in terms of its fields. *)

LEMMA StartEffect ==
    ASSUME TypeOK, NEW r \in Ranks, NEW l \in Lanes, Start(r, l)
    PROVE  /\ kernel' \in [Ranks -> [Lanes -> Kernels]]
           /\ phase' = phase /\ flags' = flags
           /\ phase[r] = "ready" /\ ~ kernel[r][l].running
           /\ \A q \in Ranks : epoch'[q] = IF q = r THEN epoch[r] + 1 ELSE epoch[q]
           /\ kernel'[r][l] = Launched(epoch[r] + 1)
           /\ \A q \in Ranks, m \in Lanes :
                 q # r \/ m # l => kernel'[q][m] = kernel[q][m]
<1>1. Launched(epoch[r] + 1) \in Kernels
  BY DEF TypeOK, Kernels, Launched
<1>2. kernel' \in [Ranks -> [Lanes -> Kernels]] /\
      \A q \in Ranks, m \in Lanes :
        kernel'[q][m] = IF q = r /\ m = l THEN Launched(epoch[r] + 1) ELSE kernel[q][m]
  BY <1>1, KernelUpdate DEF Start, TypeOK
<1>. QED
  BY <1>2 DEF Start, TypeOK

LEMMA PublishEffect ==
    ASSUME TypeOK, NEW r \in Ranks, NEW l \in Lanes, NEW t \in Ranks, Publish(r, l, t)
    PROVE  /\ kernel' \in [Ranks -> [Lanes -> Kernels]]
           /\ phase' = phase /\ epoch' = epoch
           /\ kernel[r][l].running
           /\ \A q \in Ranks, m \in Lanes :
                 /\ kernel'[q][m].running = kernel[q][m].running
                 /\ kernel'[q][m].epoch = kernel[q][m].epoch
                 /\ kernel'[q][m].seen = kernel[q][m].seen
                 /\ q # r \/ m # l => kernel'[q][m].published = kernel[q][m].published
           /\ kernel'[r][l].published = kernel[r][l].published \cup {t}
<1>. DEFINE k == [kernel[r][l] EXCEPT !.published = @ \cup {t}]
<1>a. kernel[r][l] \in Kernels
  BY DEF TypeOK
<1>b. k \in Kernels
  BY <1>a DEF Kernels
<1>c. kernel' = [kernel EXCEPT ![r][l] = k]
  BY DEF Publish
<1>1. kernel' \in [Ranks -> [Lanes -> Kernels]]
  BY <1>b, <1>c, KernelUpdate DEF TypeOK
<1>2. /\ k.running = kernel[r][l].running /\ k.epoch = kernel[r][l].epoch
      /\ k.seen = kernel[r][l].seen /\ k.published = kernel[r][l].published \cup {t}
  BY DEF TypeOK, Kernels
<1>. HIDE DEF k
<1>3. \A q \in Ranks, m \in Lanes :
        kernel'[q][m] = IF q = r /\ m = l THEN k ELSE kernel[q][m]
  BY <1>b, <1>c, KernelUpdate DEF TypeOK
<1>. QED
  BY <1>1, <1>2, <1>3 DEF Publish

LEMMA PublishFlags ==
    ASSUME TypeOK, NEW r \in Ranks, NEW l \in Lanes, NEW t \in Ranks, Publish(r, l, t)
    PROVE  /\ flags'[t][r] = flags[t][r] \/ flags'[t][r] = kernel[r][l].epoch
           /\ flags[t][r] <= flags'[t][r] /\ kernel[r][l].epoch <= flags'[t][r]
           /\ \A q, s \in Ranks : q # t \/ s # r => flags'[q][s] = flags[q][s]
<1>4. kernel[r][l].epoch \in Nat
  BY DEF TypeOK, Kernels
<1>5. /\ flags'[t][r] = Raise(flags[t][r], kernel[r][l].epoch)
      /\ \A q, s \in Ranks : q # t \/ s # r => flags'[q][s] = flags[q][s]
  BY DEF Publish, TypeOK
<1>6. /\ flags'[t][r] = flags[t][r] \/ flags'[t][r] = kernel[r][l].epoch
      /\ flags[t][r] <= flags'[t][r] /\ kernel[r][l].epoch <= flags'[t][r]
  BY <1>4, <1>5 DEF Raise, TypeOK
<1>. QED
  BY <1>5, <1>6

LEMMA ObserveEffect ==
    ASSUME TypeOK, NEW r \in Ranks, NEW l \in Lanes, NEW t \in Ranks, Observe(r, l, t)
    PROVE  /\ kernel' \in [Ranks -> [Lanes -> Kernels]]
           /\ phase' = phase /\ epoch' = epoch /\ flags' = flags
           /\ kernel[r][l].running /\ kernel[r][l].epoch <= flags[r][t]
           /\ \A q \in Ranks, m \in Lanes :
                 /\ kernel'[q][m].running = kernel[q][m].running
                 /\ kernel'[q][m].epoch = kernel[q][m].epoch
                 /\ kernel'[q][m].published = kernel[q][m].published
                 /\ q # r \/ m # l => kernel'[q][m].seen = kernel[q][m].seen
           /\ kernel'[r][l].seen = kernel[r][l].seen \cup {t}
<1>. DEFINE k == [kernel[r][l] EXCEPT !.seen = @ \cup {t}]
<1>a. kernel[r][l] \in Kernels
  BY DEF TypeOK
<1>b. k \in Kernels
  BY <1>a DEF Kernels
<1>c. kernel' = [kernel EXCEPT ![r][l] = k]
  BY DEF Observe
<1>1. kernel' \in [Ranks -> [Lanes -> Kernels]]
  BY <1>b, <1>c, KernelUpdate DEF TypeOK
<1>2. /\ k.running = kernel[r][l].running /\ k.epoch = kernel[r][l].epoch
      /\ k.published = kernel[r][l].published /\ k.seen = kernel[r][l].seen \cup {t}
  BY DEF TypeOK, Kernels
<1>. HIDE DEF k
<1>3. \A q \in Ranks, m \in Lanes :
        kernel'[q][m] = IF q = r /\ m = l THEN k ELSE kernel[q][m]
  BY <1>b, <1>c, KernelUpdate DEF TypeOK
<1>4. kernel[r][l].epoch \in Nat /\ flags[r][t] \in Nat
  BY DEF TypeOK, Kernels
<1>. QED
  BY <1>1, <1>2, <1>3, <1>4 DEF Observe

LEMMA ExitEffect ==
    ASSUME TypeOK, NEW r \in Ranks, NEW l \in Lanes, Exit(r, l)
    PROVE  /\ kernel' \in [Ranks -> [Lanes -> Kernels]]
           /\ phase' = phase /\ epoch' = epoch /\ flags' = flags
           /\ kernel[r][l].running /\ kernel[r][l].seen = Ranks
           /\ kernel'[r][l] = Idle
           /\ \A q \in Ranks, m \in Lanes :
                 q # r \/ m # l => kernel'[q][m] = kernel[q][m]
<1>1. Idle \in Kernels
  BY DEF Kernels, Idle
<1>2. kernel' \in [Ranks -> [Lanes -> Kernels]] /\
      \A q \in Ranks, m \in Lanes :
        kernel'[q][m] = IF q = r /\ m = l THEN Idle ELSE kernel[q][m]
  BY <1>1, KernelUpdate DEF Exit, TypeOK
<1>. QED
  BY <1>2 DEF Exit

------------------------------------------------------------------------------
\* The shape of the state is kept by every step, whatever the constants are.
LEMMA TypeInductive == TypeOK /\ [Next]_vars => TypeOK'
<1>. SUFFICES ASSUME TypeOK, [Next]_vars
              PROVE  TypeOK'
  OBVIOUS
<1>1. ASSUME NEW r \in Ranks, ClearPad(r)
      PROVE  TypeOK'
  BY <1>1 DEF ClearPad, TypeOK, Phases
<1>2. ASSUME NEW r \in Ranks, SetupBarrier(r)
      PROVE  TypeOK'
  BY <1>2 DEF SetupBarrier, TypeOK, Phases
<1>3. ASSUME NEW r \in Ranks, NEW l \in Lanes, Start(r, l)
      PROVE  TypeOK'
  <2>1. epoch' \in [Ranks -> Nat] /\ Launched(epoch[r] + 1).seen = {}
    BY <1>3 DEF Start, TypeOK, Launched
  <2>2. /\ kernel' \in [Ranks -> [Lanes -> Kernels]] /\ phase' = phase /\ flags' = flags
        /\ kernel'[r][l] = Launched(epoch[r] + 1)
        /\ \A q \in Ranks, m \in Lanes :
              q # r \/ m # l => kernel'[q][m] = kernel[q][m]
    BY <1>3, StartEffect
  <2>. QED
    BY <2>1, <2>2 DEF TypeOK
<1>4. ASSUME NEW r \in Ranks, NEW l \in Lanes, NEW t \in Ranks, Publish(r, l, t)
      PROVE  TypeOK'
  <2>1. kernel[r][l].epoch \in Nat
    BY DEF TypeOK, Kernels
  <2>2. flags' \in [Ranks -> [Ranks -> Nat]]
    BY <1>4, <2>1 DEF Publish, Raise, TypeOK
  <2>3. /\ kernel' \in [Ranks -> [Lanes -> Kernels]] /\ phase' = phase /\ epoch' = epoch
        /\ \A q \in Ranks, m \in Lanes :
              /\ kernel'[q][m].seen = kernel[q][m].seen
              /\ q # r \/ m # l => kernel'[q][m].published = kernel[q][m].published
        /\ kernel'[r][l].published = kernel[r][l].published \cup {t}
    BY <1>4, PublishEffect
  <2>4. ASSUME NEW q \in Ranks, NEW m \in Lanes
        PROVE  kernel'[q][m].seen \subseteq kernel'[q][m].published
    <3>1. kernel[q][m].seen \subseteq kernel[q][m].published
      BY DEF TypeOK
    <3>. QED
      BY <2>3, <3>1
  <2>. QED
    BY <2>2, <2>3, <2>4 DEF TypeOK
<1>5. ASSUME NEW r \in Ranks, NEW l \in Lanes, NEW t \in Ranks, Observe(r, l, t)
      PROVE  TypeOK'
  <2>1. t \in kernel[r][l].published
    BY <1>5 DEF Observe
  <2>2. /\ kernel' \in [Ranks -> [Lanes -> Kernels]]
        /\ phase' = phase /\ epoch' = epoch /\ flags' = flags
        /\ \A q \in Ranks, m \in Lanes :
              /\ kernel'[q][m].published = kernel[q][m].published
              /\ q # r \/ m # l => kernel'[q][m].seen = kernel[q][m].seen
        /\ kernel'[r][l].seen = kernel[r][l].seen \cup {t}
    BY <1>5, ObserveEffect
  <2>3. ASSUME NEW q \in Ranks, NEW m \in Lanes
        PROVE  kernel'[q][m].seen \subseteq kernel'[q][m].published
    <3>1. kernel[q][m].seen \subseteq kernel[q][m].published
      BY DEF TypeOK
    <3>. QED
      BY <2>1, <2>2, <3>1
  <2>. QED
    BY <2>2, <2>3 DEF TypeOK
<1>6. ASSUME NEW r \in Ranks, NEW l \in Lanes, Exit(r, l)
      PROVE  TypeOK'
  <2>1. Idle.seen = {}
    BY DEF Idle
  <2>2. /\ kernel' \in [Ranks -> [Lanes -> Kernels]]
        /\ phase' = phase /\ epoch' = epoch /\ flags' = flags
        /\ kernel'[r][l] = Idle
        /\ \A q \in Ranks, m \in Lanes :
              q # r \/ m # l => kernel'[q][m] = kernel[q][m]
    BY <1>6, ExitEffect
  <2>. QED
    BY <2>1, <2>2 DEF TypeOK
<1>7. CASE UNCHANGED vars
  BY <1>7 DEF vars, TypeOK
<1>. QED
  BY <1>1, <1>2, <1>3, <1>4, <1>5, <1>6, <1>7 DEF Next, Rest

------------------------------------------------------------------------------
\* The inductive invariant holds initially and is kept by every step.
LEMMA StartedNat == TypeOK => \A q \in Ranks : Started(q) \in Nat /\ epoch[q] \in Nat
  BY DEF TypeOK, Started

LEMMA InitInv == Init => IInv
<1>. SUFFICES ASSUME Init
              PROVE  IInv
  OBVIOUS
<1>1. TypeOK
  BY BoundAssumption DEF Init, TypeOK, Phases, Kernels, Idle
<1>2. /\ \A r \in Ranks : phase[r] = "fresh" /\ Started(r) = 0
      /\ \A r \in Ranks, l \in Lanes : ~ kernel[r][l].running
  BY DEF Init, Idle, Started
<1>3. SetupInv /\ FlagInv /\ KernelInv
  BY <1>2 DEF SetupInv, FlagInv, KernelInv
<1>4. PublishedSticks /\ EpochsDistinct
  BY <1>2 DEF PublishedSticks, EpochsDistinct
<1>5. StillInside
  BY <1>2 DEF StillInside
<1>. QED
  BY <1>1, <1>3, <1>4, <1>5 DEF IInv

LEMMA ClearKeeps ==
    ASSUME IInv, NEW r \in Ranks, ClearPad(r), TypeOK'
    PROVE  IInv'
<1>1. /\ TypeOK /\ SetupInv /\ FlagInv /\ StillInside
      /\ phase[r] = "fresh" /\ kernel' = kernel
  BY DEF IInv, ClearPad
<1>2. \A q \in Ranks, l \in Lanes : ~ kernel[q][l].running
  BY <1>1 DEF SetupInv
<1>3. /\ \A q \in Ranks : phase'[q] = IF q = r THEN "cleared" ELSE phase[q]
      /\ \A q, t \in Ranks : flags'[q][t] = IF q = r THEN 0 ELSE flags[q][t]
      /\ \A q \in Ranks : epoch'[q] = IF q = r THEN 0 ELSE epoch[q]
  BY <1>1 DEF ClearPad, TypeOK
<1>4. \A q \in Ranks : Started(q)' = Started(q)
  BY <1>1, <1>3 DEF Started
<1>5. SetupInv'
  BY <1>1, <1>2, <1>3 DEF SetupInv
<1>6. FlagInv'
  BY <1>1, <1>3, <1>4, StartedNat DEF FlagInv
<1>7. KernelInv' /\ PublishedSticks' /\ EpochsDistinct'
  BY <1>1, <1>2 DEF KernelInv, PublishedSticks, EpochsDistinct
<1>8. StillInside'
  BY <1>1, <1>4 DEF StillInside
<1>. QED
  BY <1>5, <1>6, <1>7, <1>8 DEF IInv

LEMMA SetupKeeps ==
    ASSUME IInv, NEW r \in Ranks, SetupBarrier(r), TypeOK'
    PROVE  IInv'
<1>1. /\ TypeOK /\ SetupInv /\ FlagInv /\ KernelInv
      /\ PublishedSticks /\ EpochsDistinct /\ StillInside
      /\ phase[r] = "cleared" /\ \A t \in Ranks : phase[t] # "fresh"
      /\ epoch' = epoch /\ flags' = flags /\ kernel' = kernel
  BY DEF IInv, SetupBarrier
<1>2. \A q \in Ranks : phase'[q] = IF q = r THEN "ready" ELSE phase[q]
  BY DEF SetupBarrier, IInv, TypeOK
<1>3. \A q \in Ranks : Started(q)' = Started(q)
  BY <1>1, <1>2 DEF Started
<1>4. SetupInv'
  BY <1>1, <1>2 DEF SetupInv
<1>5. FlagInv'
  BY <1>1, <1>2, <1>3 DEF FlagInv
<1>6. KernelInv'
  <2>1. \A q \in Ranks, l \in Lanes : kernel[q][l].seen \subseteq Ranks
    BY <1>1 DEF TypeOK, Kernels
  <2>. QED
    BY <1>1, <1>3, <2>1 DEF KernelInv
<1>7. PublishedSticks' /\ EpochsDistinct'
  BY <1>1 DEF PublishedSticks, EpochsDistinct
<1>8. StillInside'
  BY <1>1, <1>3 DEF StillInside
<1>. QED
  BY <1>4, <1>5, <1>6, <1>7, <1>8 DEF IInv

LEMMA StartKeeps ==
    ASSUME IInv, NEW r \in Ranks, NEW l \in Lanes, Start(r, l), TypeOK'
    PROVE  IInv'
<1>1. /\ TypeOK /\ SetupInv /\ FlagInv /\ KernelInv
      /\ PublishedSticks /\ EpochsDistinct /\ StillInside
  BY DEF IInv
<1>2. /\ phase' = phase /\ flags' = flags
      /\ phase[r] = "ready" /\ ~ kernel[r][l].running
      /\ \A q \in Ranks : epoch'[q] = IF q = r THEN epoch[r] + 1 ELSE epoch[q]
      /\ kernel'[r][l] = Launched(epoch[r] + 1)
      /\ \A q \in Ranks, m \in Lanes :
            q # r \/ m # l => kernel'[q][m] = kernel[q][m]
  BY <1>1, StartEffect
<1>3. /\ kernel'[r][l].running /\ kernel'[r][l].epoch = epoch[r] + 1
      /\ kernel'[r][l].seen = {} /\ kernel'[r][l].published = {}
  BY <1>2 DEF Launched
<1>4. /\ \A q \in Ranks : Started(q)' = IF q = r THEN epoch[r] + 1 ELSE Started(q)
      /\ Started(r) = epoch[r]
  BY <1>2 DEF Started
<1>n. \A q \in Ranks : Started(q) \in Nat /\ epoch[q] \in Nat
  BY <1>1, StartedNat
<1>5. SetupInv'
  BY <1>1, <1>2 DEF SetupInv
<1>6. FlagInv'
  <2>. SUFFICES ASSUME NEW q \in Ranks, NEW t \in Ranks, phase[q] # "fresh"
                PROVE  flags[q][t] <= Started(t)'
    BY <1>2 DEF FlagInv
  <2>1. flags[q][t] <= Started(t) /\ flags[q][t] \in Nat
    BY <1>1 DEF FlagInv, TypeOK
  <2>. QED
    BY <2>1, <1>4, <1>n
<1>7. KernelInv'
  <2>. SUFFICES ASSUME NEW q \in Ranks, NEW m \in Lanes, kernel'[q][m].running
                PROVE  /\ 1 <= kernel'[q][m].epoch
                       /\ kernel'[q][m].epoch <= epoch'[q]
                       /\ \A t \in kernel'[q][m].seen : kernel'[q][m].epoch <= Started(t)'
    BY DEF KernelInv
  <2>1. CASE q = r /\ m = l
    BY <2>1, <1>2, <1>3, <1>n
  <2>2. CASE q # r \/ m # l
    <3>1. /\ 1 <= kernel[q][m].epoch /\ kernel[q][m].epoch <= epoch[q]
          /\ \A t \in kernel[q][m].seen : kernel[q][m].epoch <= Started(t)
      BY <1>1, <1>2, <2>2 DEF KernelInv
    <3>2. kernel[q][m].epoch \in Nat /\ kernel[q][m].seen \subseteq Ranks
      BY <1>1 DEF TypeOK, Kernels
    <3>3. kernel'[q][m] = kernel[q][m]
      BY <1>2, <2>2
    <3>4. kernel[q][m].epoch <= epoch'[q]
      BY <3>1, <3>2, <1>2, <1>n
    <3>5. ASSUME NEW t \in kernel[q][m].seen PROVE kernel[q][m].epoch <= Started(t)'
      BY <3>1, <3>2, <1>4, <1>n
    <3>. QED
      BY <3>1, <3>3, <3>4, <3>5
  <2>. QED
    BY <2>1, <2>2
<1>8. PublishedSticks'
  BY <1>1, <1>2, <1>3 DEF PublishedSticks
<1>9. EpochsDistinct'
  <2>. SUFFICES ASSUME NEW q \in Ranks, NEW k \in Lanes, NEW m \in Lanes, k # m,
                       kernel'[q][k].running, kernel'[q][m].running
                PROVE  kernel'[q][k].epoch # kernel'[q][m].epoch
    BY DEF EpochsDistinct
  <2>1. CASE q = r /\ (k = l \/ m = l)
    <3>1. \A j \in Lanes : j # l /\ kernel'[r][j].running
            => kernel'[r][j].epoch \in Nat /\ kernel'[r][j].epoch <= epoch[r]
      BY <1>1, <1>2 DEF KernelInv, TypeOK, Kernels
    <3>. QED
      BY <2>1, <3>1, <1>3, <1>n
  <2>2. CASE q # r \/ (k # l /\ m # l)
    BY <2>2, <1>1, <1>2 DEF EpochsDistinct
  <2>. QED
    BY <2>1, <2>2
<1>10. StillInside'
  <2>. SUFFICES ASSUME NEW q \in Ranks, NEW t \in Ranks,
                       NEW n \in Started(t)' + 1 .. Started(q)'
                PROVE  \E m \in Lanes : kernel'[q][m].running /\ kernel'[q][m].epoch = n
    BY DEF StillInside
  <2>1. CASE q = r /\ n = epoch[r] + 1
    BY <2>1, <1>3
  <2>2. CASE ~ (q = r /\ n = epoch[r] + 1)
    <3>1. n \in Started(t) + 1 .. Started(q)
      BY <2>2, <1>4, <1>n
    <3>2. PICK m \in Lanes : kernel[q][m].running /\ kernel[q][m].epoch = n
      BY <1>1, <3>1 DEF StillInside
    <3>3. kernel'[q][m] = kernel[q][m]
      BY <3>2, <1>2
    <3>. QED
      BY <3>2, <3>3
  <2>. QED
    BY <2>1, <2>2
<1>. QED
  BY <1>5, <1>6, <1>7, <1>8, <1>9, <1>10 DEF IInv

LEMMA PublishKeeps ==
    ASSUME IInv, NEW r \in Ranks, NEW l \in Lanes, NEW t \in Ranks, Publish(r, l, t), TypeOK'
    PROVE  IInv'
<1>1. /\ TypeOK /\ SetupInv /\ FlagInv /\ KernelInv
      /\ PublishedSticks /\ EpochsDistinct /\ StillInside
  BY DEF IInv
<1>2. /\ phase' = phase /\ epoch' = epoch /\ kernel[r][l].running
      /\ \A q \in Ranks, m \in Lanes :
            /\ kernel'[q][m].running = kernel[q][m].running
            /\ kernel'[q][m].epoch = kernel[q][m].epoch
            /\ kernel'[q][m].seen = kernel[q][m].seen
            /\ q # r \/ m # l => kernel'[q][m].published = kernel[q][m].published
      /\ kernel'[r][l].published = kernel[r][l].published \cup {t}
  BY <1>1, PublishEffect
<1>3. /\ flags'[t][r] = flags[t][r] \/ flags'[t][r] = kernel[r][l].epoch
      /\ flags[t][r] <= flags'[t][r] /\ kernel[r][l].epoch <= flags'[t][r]
      /\ \A q, s \in Ranks : q # t \/ s # r => flags'[q][s] = flags[q][s]
  BY <1>1, PublishFlags
<1>4. \A q \in Ranks : Started(q)' = Started(q)
  BY <1>2 DEF Started
<1>5. /\ \A q, s \in Ranks : flags[q][s] \in Nat /\ flags'[q][s] \in Nat
      /\ \A q \in Ranks, m \in Lanes :
            /\ kernel[q][m].epoch \in Nat /\ kernel[q][m].seen \subseteq Ranks
            /\ kernel[q][m].published \subseteq Ranks
  BY <1>1 DEF TypeOK, Kernels
<1>6. SetupInv'
  BY <1>1, <1>2 DEF SetupInv
<1>7. FlagInv'
  <2>1. kernel[r][l].epoch <= Started(r)
    BY <1>1, <1>2 DEF KernelInv, SetupInv, Started
  <2>. QED
    BY <2>1, <1>1, <1>2, <1>3, <1>4 DEF FlagInv
<1>8. KernelInv'
  BY <1>1, <1>2, <1>4, <1>5 DEF KernelInv
<1>9. PublishedSticks'
  <2>. SUFFICES ASSUME NEW q \in Ranks, NEW m \in Lanes, kernel[q][m].running,
                       NEW s \in kernel'[q][m].published
                PROVE  flags'[s][q] >= kernel[q][m].epoch
    BY <1>2 DEF PublishedSticks
  <2>1. s \in Ranks
    BY <1>2, <1>5
  <2>2. CASE q = r /\ s = t /\ m = l
    BY <2>2, <1>3, <1>5
  <2>3. CASE ~ (q = r /\ s = t /\ m = l)
    <3>1. s \in kernel[q][m].published
      BY <2>3, <1>2
    <3>2. flags[s][q] >= kernel[q][m].epoch
      BY <3>1, <1>1 DEF PublishedSticks
    <3>3. flags'[s][q] >= flags[s][q]
      BY <2>1, <1>3, <1>5
    <3>. QED
      BY <3>2, <3>3, <2>1, <1>5
  <2>. QED
    BY <2>2, <2>3
<1>10. EpochsDistinct'
  BY <1>1, <1>2 DEF EpochsDistinct
<1>11. StillInside'
  BY <1>1, <1>2, <1>4 DEF StillInside
<1>. QED
  BY <1>6, <1>7, <1>8, <1>9, <1>10, <1>11 DEF IInv

LEMMA ObserveKeeps ==
    ASSUME IInv, NEW r \in Ranks, NEW l \in Lanes, NEW t \in Ranks, Observe(r, l, t), TypeOK'
    PROVE  IInv'
<1>1. /\ TypeOK /\ SetupInv /\ FlagInv /\ KernelInv
      /\ PublishedSticks /\ EpochsDistinct /\ StillInside
  BY DEF IInv
<1>2. /\ phase' = phase /\ epoch' = epoch /\ flags' = flags
      /\ kernel[r][l].running /\ kernel[r][l].epoch <= flags[r][t]
      /\ \A q \in Ranks, m \in Lanes :
            /\ kernel'[q][m].running = kernel[q][m].running
            /\ kernel'[q][m].epoch = kernel[q][m].epoch
            /\ kernel'[q][m].published = kernel[q][m].published
            /\ q # r \/ m # l => kernel'[q][m].seen = kernel[q][m].seen
      /\ kernel'[r][l].seen = kernel[r][l].seen \cup {t}
  BY <1>1, ObserveEffect
<1>3. \A q \in Ranks : Started(q)' = Started(q)
  BY <1>2 DEF Started
<1>4. /\ \A q, s \in Ranks : flags[q][s] \in Nat
      /\ \A q \in Ranks, m \in Lanes :
            kernel[q][m].epoch \in Nat /\ kernel[q][m].seen \subseteq Ranks
  BY <1>1 DEF TypeOK, Kernels
<1>5. SetupInv' /\ FlagInv'
  BY <1>1, <1>2, <1>3 DEF SetupInv, FlagInv
<1>6. KernelInv'
  <2>1. kernel[r][l].epoch <= Started(t)
    <3>1. flags[r][t] <= Started(t) /\ Started(t) \in Nat
      BY <1>1, <1>2, StartedNat DEF FlagInv, SetupInv
    <3>. QED
      BY <3>1, <1>2, <1>4
  <2>. SUFFICES ASSUME NEW q \in Ranks, NEW m \in Lanes, kernel[q][m].running,
                       NEW s \in kernel'[q][m].seen
                PROVE  kernel[q][m].epoch <= Started(s)
    BY <1>1, <1>2, <1>3, <1>4 DEF KernelInv
  <2>2. CASE s \in kernel[q][m].seen
    BY <2>2, <1>1 DEF KernelInv
  <2>3. CASE s \notin kernel[q][m].seen
    BY <2>1, <2>3, <1>2
  <2>. QED
    BY <2>2, <2>3
<1>7. PublishedSticks' /\ EpochsDistinct'
  BY <1>1, <1>2 DEF PublishedSticks, EpochsDistinct
<1>8. StillInside'
  BY <1>1, <1>2, <1>3 DEF StillInside
<1>. QED
  BY <1>5, <1>6, <1>7, <1>8 DEF IInv

LEMMA ExitKeeps ==
    ASSUME IInv, NEW r \in Ranks, NEW l \in Lanes, Exit(r, l), TypeOK'
    PROVE  IInv'
<1>1. /\ TypeOK /\ SetupInv /\ FlagInv /\ KernelInv
      /\ PublishedSticks /\ EpochsDistinct /\ StillInside
  BY DEF IInv
<1>2. /\ phase' = phase /\ epoch' = epoch /\ flags' = flags
      /\ kernel[r][l].running /\ kernel[r][l].seen = Ranks
      /\ ~ kernel'[r][l].running
      /\ \A q \in Ranks, m \in Lanes :
            q # r \/ m # l => kernel'[q][m] = kernel[q][m]
  BY <1>1, ExitEffect DEF Idle
<1>3. \A q \in Ranks : Started(q)' = Started(q)
  BY <1>2 DEF Started
<1>4. SetupInv' /\ FlagInv'
  BY <1>1, <1>2, <1>3 DEF SetupInv, FlagInv
<1>5. KernelInv'
  <2>1. \A q \in Ranks, m \in Lanes : kernel[q][m].seen \subseteq Ranks
    BY <1>1 DEF TypeOK, Kernels
  <2>. QED
    BY <1>1, <1>2, <1>3, <2>1 DEF KernelInv
<1>6. PublishedSticks' /\ EpochsDistinct'
  BY <1>1, <1>2 DEF PublishedSticks, EpochsDistinct
<1>7. StillInside'
  <2>. SUFFICES ASSUME NEW q \in Ranks, NEW t \in Ranks,
                       NEW n \in Started(t) + 1 .. Started(q)
                PROVE  \E m \in Lanes : kernel'[q][m].running /\ kernel'[q][m].epoch = n
    BY <1>3 DEF StillInside
  <2>1. PICK m \in Lanes : kernel[q][m].running /\ kernel[q][m].epoch = n
    BY <1>1 DEF StillInside
  <2>2. ~ (q = r /\ m = l)
    <3>. SUFFICES ASSUME q = r, m = l PROVE FALSE
      OBVIOUS
    <3>1. n <= Started(t)
      BY <2>1, <1>1, <1>2 DEF KernelInv
    <3>2. Started(t) \in Nat
      BY <1>1, StartedNat
    <3>. QED
      BY <3>1, <3>2
  <2>. QED
    BY <2>1, <2>2, <1>2
<1>. QED
  BY <1>4, <1>5, <1>6, <1>7 DEF IInv

LEMMA Inductive == IInv /\ [Next]_vars => IInv'
<1>. SUFFICES ASSUME IInv, [Next]_vars
              PROVE  IInv'
  OBVIOUS
<1>1. TypeOK'
  BY TypeInductive DEF IInv
<1>2. CASE UNCHANGED vars
  BY <1>2 DEF vars, IInv, TypeOK, SetupInv, FlagInv, KernelInv, PublishedSticks,
              EpochsDistinct, StillInside, Started
<1>. QED
  BY <1>1, <1>2, ClearKeeps, SetupKeeps, StartKeeps, PublishKeeps, ObserveKeeps, ExitKeeps
     DEF Next, Rest

------------------------------------------------------------------------------
(* The theorems. *)

THEOREM InvariantHolds == Spec => []IInv
  BY InitInv, Inductive, PTL DEF Spec

\* The state keeps its shape, and no thread looks before it has published.
THEOREM TypeCorrect == Spec => []TypeOK
<1>1. IInv => TypeOK
  BY DEF IInv
<1>. QED
  BY <1>1, InvariantHolds, PTL

\* Whatever is published stays visible to the peer until the barrier is over:
\* neither window setup nor a second, out-of-order kernel erases it.
THEOREM PublicationIsNeverLost == Spec => []PublishedSticks
<1>1. IInv => PublishedSticks
  BY DEF IInv
<1>. QED
  BY <1>1, InvariantHolds, PTL

\* Two barriers of one rank never draw the same epoch.
THEOREM NoEpochIsLost == Spec => []EpochsDistinct
<1>1. IInv => EpochsDistinct
  BY DEF IInv
<1>. QED
  BY <1>1, InvariantHolds, PTL

\* A barrier some peer has not started is still running wherever it was started.
THEOREM NobodyPassesAlone == Spec => []StillInside
<1>1. IInv => StillInside
  BY DEF IInv
<1>. QED
  BY <1>1, InvariantHolds, PTL

\* With one lane, which is the ordering contract, no rank is ever two barriers
\* ahead of a peer: both barriers would still be running, on the one lane.
THEOREM OrderedLockstep ==
    ASSUME NEW l, Lanes = {l}
    PROVE  Spec => []Lockstep
<1>1. IInv => Lockstep
  <2>. SUFFICES ASSUME IInv, NEW r \in Ranks, NEW t \in Ranks,
                       ~ (Started(r) <= Started(t) + 1)
                PROVE  FALSE
    BY DEF Lockstep
  <2>1. Started(r) \in Nat /\ Started(t) \in Nat
    BY StartedNat DEF IInv
  <2>2. /\ Started(t) + 1 \in Started(t) + 1 .. Started(r)
        /\ Started(t) + 2 \in Started(t) + 1 .. Started(r)
    BY <2>1
  <2>3. /\ kernel[r][l].epoch = Started(t) + 1
        /\ kernel[r][l].epoch = Started(t) + 2
    BY <2>2 DEF IInv, StillInside
  <2>. QED
    BY <2>1, <2>3
<1>. QED
  BY <1>1, InvariantHolds, PTL

\* A flag its owner has cleared never moves backwards, in whatever order the
\* kernels of one rank publish.
THEOREM FlagsAreMonotone == Spec => FlagsOnlyRise
<1>. DEFINE Rise == \A r, t \in Ranks : phase[r] # "fresh" => flags'[r][t] >= flags[r][t]
<1>1. IInv /\ [Next]_vars => [Rise]_vars
  <2>. SUFFICES ASSUME IInv, [Next]_vars, NEW q \in Ranks, NEW s \in Ranks, phase[q] # "fresh"
                PROVE  flags'[q][s] >= flags[q][s]
    OBVIOUS
  <2>1. TypeOK /\ flags[q][s] \in Nat
    BY DEF IInv, TypeOK
  <2>2. ASSUME NEW r \in Ranks, ClearPad(r)
        PROVE  flags'[q][s] = flags[q][s]
    BY <2>1, <2>2 DEF ClearPad, TypeOK
  <2>3. ASSUME NEW r \in Ranks, NEW l \in Lanes, NEW t \in Ranks, Publish(r, l, t)
        PROVE  flags'[q][s] >= flags[q][s]
    <3>1. /\ flags[t][r] <= flags'[t][r]
          /\ q # t \/ s # r => flags'[q][s] = flags[q][s]
      BY <2>1, <2>3, PublishFlags
    <3>2. TypeOK'
      BY TypeInductive DEF IInv
    <3>3. flags'[q][s] \in Nat
      BY <3>2 DEF TypeOK
    <3>. QED
      BY <3>1, <3>3, <2>1
  <2>4. ASSUME NEW r \in Ranks,
               \/ SetupBarrier(r)
               \/ \E l \in Lanes : \/ Start(r, l) \/ Exit(r, l)
                                  \/ \E t \in Ranks : Observe(r, l, t)
        PROVE  flags'[q][s] = flags[q][s]
    BY <2>4 DEF SetupBarrier, Start, Exit, Observe
  <2>5. CASE UNCHANGED vars
    BY <2>1, <2>5 DEF vars
  <2>. QED
    BY <2>1, <2>2, <2>3, <2>4, <2>5 DEF Next, Rest
<1>. QED
  BY <1>1, InvariantHolds, PTL DEF Spec, FlagsOnlyRise

------------------------------------------------------------------------------
(* The implementation proof: each step is a step of the abstract barrier.  *)

\* The numbers of the barriers rank q has not left yet.
Inside(q) == {kernel[q][l].epoch : l \in {k \in Lanes : kernel[q][k].running}}

LEMMA StepRefines == IInv /\ [Next]_vars => [Promise!Next]_(Promise!vars)
<1>. DEFINE A == [q \in Ranks |-> Started(q)]
            I == [q \in Ranks |-> Inside(q)]
<1>. SUFFICES ASSUME IInv, [Next]_vars
              PROVE  Promise!Next \/ (A' = A /\ I' = I)
  BY DEF Promise!vars, Inside
<1>0. TypeOK /\ SetupInv /\ KernelInv /\ EpochsDistinct
  BY DEF IInv
<1>1. ASSUME NEW r \in Ranks, ClearPad(r)
      PROVE  A' = A /\ I' = I
  <2>1. \A q \in Ranks : Started(q)' = Started(q)
    BY <1>1, <1>0 DEF ClearPad, Started, TypeOK
  <2>2. kernel' = kernel
    BY <1>1 DEF ClearPad
  <2>. QED
    BY <2>1, <2>2 DEF Inside
<1>2. ASSUME NEW r \in Ranks, SetupBarrier(r)
      PROVE  A' = A /\ I' = I
  <2>1. \A q \in Ranks : Started(q)' = Started(q)
    BY <1>2, <1>0 DEF SetupBarrier, Started, TypeOK
  <2>2. kernel' = kernel
    BY <1>2 DEF SetupBarrier
  <2>. QED
    BY <2>1, <2>2 DEF Inside
<1>3. ASSUME NEW r \in Ranks, NEW l \in Lanes, Start(r, l)
      PROVE  Promise!Arrive(r)
  <2>1. /\ phase' = phase /\ phase[r] = "ready" /\ ~ kernel[r][l].running
        /\ \A q \in Ranks : epoch'[q] = IF q = r THEN epoch[r] + 1 ELSE epoch[q]
        /\ kernel'[r][l] = Launched(epoch[r] + 1)
        /\ \A q \in Ranks, m \in Lanes :
              q # r \/ m # l => kernel'[q][m] = kernel[q][m]
    BY <1>3, <1>0, StartEffect
  <2>2. \A q \in Ranks : Started(q)' = IF q = r THEN Started(r) + 1 ELSE Started(q)
    BY <2>1 DEF Started
  <2>3. kernel'[r][l].running /\ kernel'[r][l].epoch = Started(r) + 1
    BY <2>1 DEF Launched, Started
  <2>4. \A q \in Ranks : Inside(q)' = IF q = r THEN Inside(r) \cup {Started(r) + 1} ELSE Inside(q)
    BY <2>1, <2>3 DEF Inside
  <2>5. A' = [A EXCEPT ![r] = @ + 1]
    BY <2>2
  <2>6. I' = [I EXCEPT ![r] = @ \cup {A[r] + 1}]
    BY <2>4
  <2>. QED
    BY <2>5, <2>6 DEF Promise!Arrive, Inside
<1>4. ASSUME NEW r \in Ranks, NEW l \in Lanes, NEW t \in Ranks,
             Publish(r, l, t) \/ Observe(r, l, t)
      PROVE  A' = A /\ I' = I
  <2>1. /\ phase' = phase /\ epoch' = epoch
        /\ \A q \in Ranks, m \in Lanes : /\ kernel'[q][m].running = kernel[q][m].running
                                       /\ kernel'[q][m].epoch = kernel[q][m].epoch
    BY <1>4, <1>0, PublishEffect, ObserveEffect
  <2>2. \A q \in Ranks : Started(q)' = Started(q) /\ Inside(q)' = Inside(q)
    BY <2>1 DEF Started, Inside
  <2>. QED
    BY <2>2
<1>5. ASSUME NEW r \in Ranks, NEW l \in Lanes, Exit(r, l)
      PROVE  \E n \in Inside(r) : Promise!Leave(r, n)
  <2>. DEFINE n == kernel[r][l].epoch
  <2>1. /\ phase' = phase /\ epoch' = epoch
        /\ kernel[r][l].running /\ kernel[r][l].seen = Ranks
        /\ ~ kernel'[r][l].running
        /\ \A q \in Ranks, m \in Lanes :
              q # r \/ m # l => kernel'[q][m] = kernel[q][m]
    BY <1>5, <1>0, ExitEffect DEF Idle
  <2>2. \A q \in Ranks : Started(q)' = Started(q)
    BY <2>1 DEF Started
  <2>3. n \in Inside(r)
    BY <2>1 DEF Inside
  <2>4. \A t \in Ranks : n <= Started(t) /\ n \in Nat /\ Started(t) \in Nat
    BY <2>1, <1>0, StartedNat DEF KernelInv, TypeOK, Kernels
  <2>5. \A m \in Lanes : m # l /\ kernel[r][m].running => kernel[r][m].epoch # n
    BY <2>1, <1>0 DEF EpochsDistinct
  <2>6. Inside(r)' = Inside(r) \ {n}
    BY <2>1, <2>5 DEF Inside
  <2>7. \A q \in Ranks : q # r => Inside(q)' = Inside(q)
    BY <2>1 DEF Inside
  <2>8. A' = A /\ I' = [I EXCEPT ![r] = @ \ {n}]
    BY <2>2, <2>6, <2>7
  <2>9. n \in I[r] /\ \A t \in Ranks : A[t] >= n
    BY <2>3, <2>4
  <2>. QED
    BY <2>3, <2>8, <2>9 DEF Promise!Leave, Inside
<1>6. CASE UNCHANGED vars
  BY <1>6 DEF vars, Started, Inside
<1>. QED
  BY <1>1, <1>2, <1>3, <1>4, <1>5, <1>6 DEF Next, Rest, Promise!Next, Inside

\* The flag barrier implements the abstract one, with any number of lanes.
THEOREM BarrierKeepsPromise == Spec => KeepsPromise
<1>1. Init => Promise!Init
  BY DEF Init, Idle, Promise!Init, Started
<1>. QED
  BY <1>1, StepRefines, InvariantHolds, PTL DEF Spec, KeepsPromise, Promise!Spec
==============================================================================
