------------------------------- MODULE Barrier -------------------------------
(***************************************************************************)
(* The flag barrier of one window: barrier_kernel in src/src/barrier.cu,   *)
(* and the setup of its flags at the end of UlyssesGroup::allocate in      *)
(* src/src/group.cc.                                                       *)
(*                                                                         *)
(* Rank r keeps, in the tail of its signal pad, one flag per peer and one  *)
(* epoch counter.  A barrier is one kernel: its first thread draws the     *)
(* next epoch, then thread t publishes that epoch into peer t's flag for r *)
(* and spins on r's own flag for t.  A lane is a stream that runs r's      *)
(* kernels in order; with one lane the window's calls are ordered, which   *)
(* is the contract, and with two the caller has broken it, which is what   *)
(* the atomicAdd and the MAX are there for.                                *)
(*                                                                         *)
(* Publish and observe are one atomic step each (a release reduction and   *)
(* an acquire load of one 64-bit word).  The words do not wrap: 2^64       *)
(* barriers are out of reach, so epochs are naturals.                      *)
(***************************************************************************)
EXTENDS Naturals

CONSTANTS Ranks,       \* the ranks of the group
          Lanes,       \* the streams that may run one rank's kernels
          MaxEpoch,    \* bound: barriers one rank makes on this window
          MaxStale     \* bound: what an earlier window may have left in the pad

ASSUME BoundAssumption == MaxEpoch \in Nat /\ MaxStale \in Nat

VARIABLES phase,    \* phase[r]: how far rank r is with setting the window up
          epoch,    \* epoch[r]: the word past r's flags
          flags,    \* flags[r][t]: r's own flag that peer t publishes into
          kernel    \* kernel[r][l]: the barrier kernel on lane l of r

vars == <<phase, epoch, flags, kernel>>

Phases == {"fresh", "cleared", "ready"}

Idle == [running |-> FALSE, epoch |-> 0, published |-> {}, seen |-> {}]

Launched(e) == [running |-> TRUE, epoch |-> e, published |-> {}, seen |-> {}]

Kernels == [running : BOOLEAN, epoch : Nat,
            published : SUBSET Ranks, seen : SUBSET Ranks]

\* The flags and the epoch of a new allocation may be what a freed one left.
Init ==
    /\ phase = [r \in Ranks |-> "fresh"]
    /\ epoch \in [Ranks -> 0 .. MaxStale]
    /\ flags \in [Ranks -> [Ranks -> 0 .. MaxStale]]
    /\ kernel = [r \in Ranks |-> [l \in Lanes |-> Idle]]

------------------------------------------------------------------------------
(* Setting the window up. *)

\* Zero the flags and the epoch, nothing else of the pad.
ClearPad(r) ==
    /\ phase[r] = "fresh"
    /\ phase' = [phase EXCEPT ![r] = "cleared"]
    /\ epoch' = [epoch EXCEPT ![r] = 0]
    /\ flags' = [flags EXCEPT ![r] = [t \in Ranks |-> 0]]
    /\ UNCHANGED kernel

\* Mutant: nothing holds the ranks until all have cleared.
SetupWithoutBarrier(r) ==
    /\ phase[r] = "cleared"
    /\ phase' = [phase EXCEPT ![r] = "ready"]
    /\ UNCHANGED <<epoch, flags, kernel>>

\* torch's own barrier holds every rank until all have cleared.
SetupBarrier(r) ==
    /\ phase[r] = "cleared"
    /\ \A t \in Ranks : phase[t] # "fresh"
    /\ phase' = [phase EXCEPT ![r] = "ready"]
    /\ UNCHANGED <<epoch, flags, kernel>>

------------------------------------------------------------------------------
(* The kernel. *)

\* Mutant: a plain increment, of which one of two concurrent ones is lost.
StartLosingEpoch(r, l) ==
    LET taken == IF \E k \in Lanes : kernel[r][k].running THEN epoch[r] ELSE epoch[r] + 1 IN
    /\ phase[r] = "ready"
    /\ ~ kernel[r][l].running
    /\ epoch[r] < MaxEpoch
    /\ epoch' = [epoch EXCEPT ![r] = taken]
    /\ kernel' = [kernel EXCEPT ![r][l] = Launched(taken)]
    /\ UNCHANGED <<phase, flags>>

\* The first thread draws the epoch and releases the others.
Start(r, l) ==
    /\ phase[r] = "ready"
    /\ ~ kernel[r][l].running
    /\ epoch[r] < MaxEpoch
    /\ epoch' = [epoch EXCEPT ![r] = @ + 1]
    /\ kernel' = [kernel EXCEPT ![r][l] = Launched(epoch[r] + 1)]
    /\ UNCHANGED <<phase, flags>>

\* Mutant: a plain store.
PlainStore(old, new) == new

Raise(old, new) == IF new > old THEN new ELSE old

\* Mutant: the value published is one too high.
PublishNext(r, l, t) ==
    /\ kernel[r][l].running
    /\ t \notin kernel[r][l].published
    /\ flags' = [flags EXCEPT ![t][r] = Raise(@, kernel[r][l].epoch + 1)]
    /\ kernel' = [kernel EXCEPT ![r][l].published = @ \cup {t}]
    /\ UNCHANGED <<phase, epoch>>

\* Thread t raises peer t's flag for this rank to the kernel's epoch.
Publish(r, l, t) ==
    /\ kernel[r][l].running
    /\ t \notin kernel[r][l].published
    /\ flags' = [flags EXCEPT ![t][r] = Raise(@, kernel[r][l].epoch)]
    /\ kernel' = [kernel EXCEPT ![r][l].published = @ \cup {t}]
    /\ UNCHANGED <<phase, epoch>>

\* Mutants: the wait comes before the publish; the wait is one short.
ObserveFirst(r, l, t) ==
    /\ kernel[r][l].running
    /\ t \notin kernel[r][l].seen
    /\ flags[r][t] >= kernel[r][l].epoch
    /\ kernel' = [kernel EXCEPT ![r][l].seen = @ \cup {t}]
    /\ UNCHANGED <<phase, epoch, flags>>

ObserveOneShort(r, l, t) ==
    /\ kernel[r][l].running
    /\ t \in kernel[r][l].published \ kernel[r][l].seen
    /\ flags[r][t] + 1 >= kernel[r][l].epoch
    /\ kernel' = [kernel EXCEPT ![r][l].seen = @ \cup {t}]
    /\ UNCHANGED <<phase, epoch, flags>>

\* Thread t, having published, finds its own flag at the epoch or past it.
Observe(r, l, t) ==
    /\ kernel[r][l].running
    /\ t \in kernel[r][l].published \ kernel[r][l].seen
    /\ flags[r][t] >= kernel[r][l].epoch
    /\ kernel' = [kernel EXCEPT ![r][l].seen = @ \cup {t}]
    /\ UNCHANGED <<phase, epoch, flags>>

\* Mutant: the kernel ends as soon as its own flag is through.
ExitOnOwnFlag(r, l) ==
    /\ kernel[r][l].running
    /\ kernel[r][l].published = Ranks
    /\ r \in kernel[r][l].seen
    /\ kernel' = [kernel EXCEPT ![r][l] = Idle]
    /\ UNCHANGED <<phase, epoch, flags>>

\* The kernel ends once every thread has; the lane may run its next one.
Exit(r, l) ==
    /\ kernel[r][l].running
    /\ kernel[r][l].seen = Ranks
    /\ kernel' = [kernel EXCEPT ![r][l] = Idle]
    /\ UNCHANGED <<phase, epoch, flags>>

\* All the barriers of the bound have ended; nothing is left to do.
Finished ==
    \A r \in Ranks : /\ phase[r] = "ready"
                     /\ epoch[r] = MaxEpoch
                     /\ \A l \in Lanes : ~ kernel[r][l].running

Rest == Finished /\ UNCHANGED vars

Next ==
    \/ \E r \in Ranks :
          \/ ClearPad(r)
          \/ SetupBarrier(r)
          \/ \E l \in Lanes :
                \/ Start(r, l)
                \/ \E t \in Ranks : Publish(r, l, t) \/ Observe(r, l, t)
                \/ Exit(r, l)
    \/ Rest

Spec == Init /\ [][Next]_vars

\* The host sets the window up and launches its calls, the device schedules
\* one block per kernel and its threads run until they are through.
Fairness ==
    \A r \in Ranks :
        /\ WF_vars(ClearPad(r))
        /\ WF_vars(SetupBarrier(r))
        /\ \A l \in Lanes :
              /\ WF_vars(Start(r, l))
              /\ WF_vars(Exit(r, l))
              /\ \A t \in Ranks :
                    /\ WF_vars(Publish(r, l, t))
                    /\ WF_vars(Observe(r, l, t))

FairSpec == Spec /\ Fairness

------------------------------------------------------------------------------
(* Properties. *)

\* The shape of the state, and that a thread looks at its flag only after it
\* has published: a thread that waited first would wait for a peer that does
\* the same.
TypeOK ==
    /\ phase \in [Ranks -> Phases]
    /\ epoch \in [Ranks -> Nat]
    /\ flags \in [Ranks -> [Ranks -> Nat]]
    /\ kernel \in [Ranks -> [Lanes -> Kernels]]
    /\ \A r \in Ranks, l \in Lanes : kernel[r][l].seen \subseteq kernel[r][l].published

\* The barriers rank r has started on this window since it was set up.
Started(r) == IF phase[r] = "fresh" THEN 0 ELSE epoch[r]

\* What a thread published is never lost: the peer's flag stays at that epoch
\* or past it for as long as the kernel runs, whatever setup or a second
\* kernel of the same rank does meanwhile (barrier.cu: "a flag can never move
\* backwards"; group.cc: "is erased, and that rank waits forever").
PublishedSticks ==
    \A r \in Ranks, l \in Lanes : kernel[r][l].running =>
        \A t \in kernel[r][l].published : flags[t][r] >= kernel[r][l].epoch

\* No epoch is lost: two kernels of one rank never hold the same one
\* (barrier.cu: "cannot lose an epoch outright").
EpochsDistinct ==
    \A r \in Ranks, k, l \in Lanes :
        k # l /\ kernel[r][k].running /\ kernel[r][l].running
            => kernel[r][k].epoch # kernel[r][l].epoch

\* A barrier that some peer has not started is still running wherever it has
\* been started: nobody gets through its n-th barrier alone.
StillInside ==
    \A r, t \in Ranks : \A n \in Started(t) + 1 .. Started(r) :
        \E l \in Lanes : kernel[r][l].running /\ kernel[r][l].epoch = n

\* With the window's calls ordered (one lane) no rank is ever two barriers
\* ahead of a peer, which is what makes one flag per peer enough.
Lockstep == \A r, t \in Ranks : Started(r) <= Started(t) + 1

\* A flag its owner has cleared never moves backwards, whichever order the
\* kernels of one rank publish in (barrier.cu: "a caller who breaks that
\* ordering cannot pin a peer's flag BELOW the epoch that peer is waiting for").
FlagsOnlyRise ==
    [][\A r, t \in Ranks : phase[r] # "fresh" => flags'[r][t] >= flags[r][t]]_vars

\* Every rank gets through all its barriers, in order or not.
AllBarriersEnd == <>[]Finished

------------------------------------------------------------------------------
(* The barrier as its callers may think of it. *)

Promise == INSTANCE AbstractBarrier WITH
    arrived <- [r \in Ranks |-> Started(r)],
    inside <- [r \in Ranks |-> {kernel[r][l].epoch : l \in {k \in Lanes : kernel[r][k].running}}]

\* Every step of the flags and kernels is a step of the abstract barrier.
KeepsPromise == Promise!Spec
==============================================================================
