# Verification of fast-ulysses

TLA+ models of fast-ulysses, a 4D all-to-all over NVLink peer memory for up to
eight GPUs of one node, with TLC runs on small instances and proofs checked by
TLAPS. Paths below are relative to the repository, so `src/group.cc` is the
C++ file and `python/fast_ulysses/group.py` its Python front.

1. [The system](#1-the-system)
2. [Modules and how they correspond to the code](#2-modules)
3. [Runs](#3-runs)
4. [Proofs](#4-proofs)
5. [Where the code and its docs disagree](#5-disagreements)
6. [What is not modelled](#6-not-modelled)
7. [Plan](#7-plan)

## 1. The system

Every rank is a process with one GPU. All ranks issue the same sequence of
collective calls; a call moves each rank's shares into the peers' *windows*,
symmetric allocations every peer can write, and a *flag barrier* before and
after the copies orders writers against readers.

| component | state it keeps | operations | makes it correct | status |
|---|---|---|---|---|
| flag barrier, `src/barrier.cu` | per window and rank: a flag per peer and an epoch counter, in the tail of the signal pad | `barrier_kernel`: draw the epoch, publish it to every peer, spin on the own flags | nobody passes alone; no publication and no epoch is lost, even when two streams run barriers on one window; everybody gets through | modelled, proved |
| window pool, `src/group.cc` | role windows per dtype, lent rotation per dtype, buffers handed to the caller | `window`, `lend_window`, `make_output`, `window_of`, `prune_owned`, `allocate`, `destroy`, `check_alive` | all ranks take the same window at the same call and meet in every allocation; what is written fits; nothing in use is freed or lent again; a destroyed group fills nothing | modelled, proved |
| transfer and streams, `src/bindings.cc`, `src/transfer.cu` | three streams: the caller's, the comm stream, the transfer stream | `run`, `transfer_on_stream`, `launch_a2a_ce`, `copy_out`, `all_to_all_4d_timed` | writers wait for readers, readers for writers; no circular wait through the shared transfer stream; together they are the collective a caller is promised | modelled, in part proved |
| staging pool, `src/group.cc` | for up to sixteen shapes up to four buffers each, each with a release event | `stage`, `release_staging`, eviction | a buffer is overwritten or freed only when no copy reads it | modelled, proved |
| asynchronous results, `src/work.cc`, `python/.../group.py` | a completion event per result | `register_stream_completion`, `wait` | a use waits for the closing barrier and the copy-out | modelled |
| addressing, `src/a2a_plan.cc`, `make_dims` | none | `build_plan`, `push_batched`, `issue_copy` | the copies of all ranks fill each window exactly; nothing overflows | modelled |
| plan cache, `src/group.cc` | map from key to plan, at most 512 | `plan` | earlier calls never show in an answer; the plan a call refers to stays | modelled, proved |
| autograd, `src/bindings.cc` | saved call in the graph | forward, backward, tangent | the backward is the adjoint and is never refused | backward modelled |
| lifecycle, `python/.../group.py` | `_destroyed`, comm stream | constructor, `destroy`, finalizer | nothing is freed while a peer writes it | `destroy` modelled |
| NVLink check, `src/nvlink.cc` | the matrix of pairs found joined | `nvlink_matrix`, `check_nvlink` | a refusal and a pass each rest on what NVML said | modelled, proved |
| CLI, diagnosis, build, tools, benchmarks | none in a group | | | not modelled |

How they interact: Python picks the streams and calls one operator; the
operator's `prepare` takes a plan and a window; `transfer_on_stream` submits
barrier, copies and barrier to the streams. The host only submits; everything
that can go wrong between ranks happens later, on the devices, in the order
that streams, events and flags leave open.

Behaviours that are hard to test, and that the models are for:

- *Order across ranks.* A window is single buffered. A fast rank may start its
  next call while a slow one has not read the previous result. Only the opening
  barrier holds it back.
- *Order across streams of one rank.* The synchronous call is on the caller's
  stream, the asynchronous one on the comm stream, and both send through one
  transfer stream, whose order is the order of submission by the host. A wait
  recorded a little later than it should be closes a circle.
- *Agreement without communication.* Which window a call fills, and whether it
  allocates one first, are decided on each rank alone. Two ranks that differ
  wait for each other for good, in a rendezvous or in a barrier.
- *Reuse.* Pads, windows, staging buffers and lent slots are all reused.

`PROJECT.json` lists the hazards, each at its line, with the properties that
would catch it.

## 2. Modules

| module | models |
|---|---|
| `AbstractBarrier` | what a barrier promises: numbered arrivals, and nobody leaves the n-th before everybody arrived at it |
| `Barrier` | one window's flags, epochs and kernels, with the setup of the pad |
| `BarrierProofs` | the proofs about `Barrier` |
| `XorSchedule` | the order in which a rank visits its peers |
| `Collective` | what a caller is promised: everybody contributes to a call before it is read, and only that call is read |
| `Exchange`, `MCExchange` | ranks, streams, events, windows, staging, `destroy`, and programs of calls |
| `ExchangeLog`, `ExchangeProofs`, `DeliveryProofs` | the proofs about `Exchange`: the order of the peers and one rank's log, what its order gives, and the ranks together |
| `WindowPool`, `MCWindowPool` | the host side of windows |
| `WindowPoolProofs` | the proofs about `WindowPool` |
| `A2APlan`, `MCA2APlan` | shapes to bytes, forward and backward |
| `A2APlanProofs` | the proofs about `A2APlan` |
| `PlanCache`, `MCPlanCache` | the plans a rank keeps, and who asks for them |
| `PlanCacheProofs` | the proofs about `PlanCache` |
| `NvLink`, `MCNvLink` | the check before a group is built |
| `NvLinkProofs` | the proofs about `NvLink` |

`Exchange` uses the barrier as `AbstractBarrier` describes it, which
`BarrierKeepsPromise` proves of `Barrier`; it requires that one rank's barriers
on one window do not overlap, which `BarriersApart` proves. `Exchange`
fixes which window a call fills; that this choice is the same on every rank is
`SameWindow` of `WindowPool`. `Exchange` moves whole shares; that a plan's
copies are exactly the share is `LayoutExact` of `A2APlan`.

### Barrier

`Start`, `Publish`, `Observe`, `Exit` are the kernel: thread 0's `atomicAdd`,
each thread's `red.release.max` and its spinning `ld.acquire`, and the end of
the block. Each is one atomic access to one word in the code, and one step here.
A *lane* is a stream. One lane is the contract of `transfer.hpp`; two are a
caller who broke it, which is what the comments in `barrier.cu` speak of.
`ClearPad` and `SetupBarrier` are the end of `allocate`; the pad starts with
anything up to `MaxStale` in it. Words do not wrap: 2^64 barriers take longer
than any run.

### Exchange

The host of each rank takes the steps of one program (`HostStep`): a call only
appends operations to its streams, as the code does. An event is a position in a
stream, fixed when it is recorded; a wait is a part of the operation behind it.
`OnStream` is `transfer_on_stream` as the call's stream sees it, `Remote` is what
`launch_a2a_ce` gives to the transfer stream. A stream runs one operation a step
(`StreamStep`). Data are call numbers. A copy is one step: a reader that could
overlap a writer could also run wholly before it, and would see another number.
The bytes' visibility when the flag that announces them arrives is assumed, as
`bindings.cc` says.

A program is the caller's, and `Contract` is what the caller keeps to: calls in
order, a result used after its call and before its buffer is filled again, a wait
between an asynchronous and a synchronous call into one buffer, and nothing after
`destroy`. TLC evaluates it on every program of the runs (`ProgramsAssumption`);
`Filled` is the window a call fills, told from the program alone.

`Staging` is `run_staged` around a transfer: `stage` with its eviction
(`MustEvict`, `EvictionDone`), its choice of a slot (`SlotFor`) and
`release_staging`. The allocator may hand out a freed buffer at once
(`FreshBuffer`), so an eviction that did not wait shows. A step's `shape` is per
rank, because ranks with uneven shards evict at different calls. `RefusedCall` is
a call that `prepare` refuses after it was staged; `Throw`, only in
`ThrowingSpec`, one that fails among its remote copies. `TimedWait` is the host's
wait at the end of the timed call. `destroy` is three steps, in the order of
`group.py`: `DrainComm`, `Met` (the process group's barrier, which drains each
rank's caller stream), `XferDone` (`UlyssesGroup::destroy` waiting for the
transfer stream).

`HostCan` and `StreamCan` say when the two kinds of step are enabled; they are written
out because the provers have no `ENABLED`.

`sent` and `got` are history variables. With `sent` for what a rank contributed,
`Exchange` implements `Collective` (`KeepsPromise`): a rank's contribution to a
call is its last copy of that call, and a read that comes before some rank's, or
finds anything but that call's payload, is no step of `Collective`.

### WindowPool

A step of a program is a call, a call with `out=` (`self` when that is its input
too, which the overlap check refuses), a lent call, `empty_output`, or the caller's
dropping of a tensor. A bound is a menu of steps, a length, and how many steps
follow `destroy`; the initial state chooses one. The first rank to come to a step chooses
it, so all ranks run one program, at their own pace, which is the contract. An
allocation is a rendezvous (`Enter`, `Rendezvous`): the n-th of each rank is
matched with the n-th of the others; a role's window that is too small, or a lent
slot's (`Emptied`), is given back before it. A use count is `held`, the windows some
tensor of the caller refers to. What lies past the end of a pool that is not
full is undefined in the code; such a call has the outcome "stray", and nothing
is claimed of it.

### A2APlan

`Geometry` and `Accepted` are `make_dims` and the checks of `build_plan`;
`Scatter` and `Gather` its two modes; `Batched` is `push_batched`; `Moves` is
what `issue_copy` makes of a copy. `Promised` is the reference: the layout told
from the tensors' shapes alone, as `test/test_plan.py` does with numpy. The
check of dtypes and of the number of dims is left out. `Alignment` stands for
16 bytes, `MaxInt64` for the range of the integers.

After the forward each rank sends the gradient of its output back (`SendBack`),
which is `A2AFunction::backward`: the other mode, the same splits. The reference
for that is the forward itself, read from right to left.

### PlanCache

One rank's `plans_`. A request is the arguments of `plan`; `Passes` is `make_dims`
with the checks of `build_plan` that follow it, `Built` what `build_plan` is then
handed, which decides everything in the plan. Whether the bytes can be counted is
`BytesFit` of `A2APlan`. `PlansAfter` is the order of the code: look up, make room,
check, insert; a request that is refused may have emptied the map. Three callers
differ in what they check first: an operator checks the group and the device
before the plan, `empty_output` the group after it, a traced call neither. The
traced `out=` form also compares `out` with the shape, which is left out.

### NvLink

A machine is a wiring and what NVML does not tell of it. NVML may withhold; it
does not invent. `Begin` is the loading of the library and the handles, `Sweep`
one device's links, `Decide` the fabric and the first pair not joined. The order
of links within a device makes no difference but for where a sweep ends in an
error, which is chosen by the machine ("unreached"). The devices of a group mean
the same GPUs to all its ranks, so every rank's run is this one.

## 3. Runs

All runs but one check deadlock: every model ends in a `Rest` step, taken only when all
work is done, so a state nobody can leave is an error.

| run | instance | shows |
|---|---|---|
| `Barrier_ordered` | 3 ranks, 1 stream, 2 barriers | `Lockstep`, and the refinement `KeepsPromise` |
| `Barrier_unordered` | 2 ranks, 2 streams, 2 barriers, stale pad | no lost publication, no lost epoch, nobody alone, flags only rise, all barriers end |
| `Exchange_pair` | 2 ranks; every program of 2 calls of 5 kinds, and programs of 3; 2 staging slots, 1 shape, 2 lent slots | the refinement `KeepsPromise`; `StagedUntilSent`, `OneBarrierPerWindow`, `WindowsOutliveTransfers`; waits only for what was submitted (`TypeOK`), and never in a circle (`NeverStuck`) |
| `Exchange_trio` | 3 ranks, 2 calls, 1 staging slot, no work registry; an eviction on one rank only | `WritersWait`, `ReadersWait`, `ResultIntact`, `EverythingCompletes` |
| `Exchange_throw` | 2 ranks, 2 asynchronous calls, either may throw | the first disagreement of section 5 |
| `WindowPool_wide` | 2 ranks, 2 lent slots; programs of 4 steps out of 12, of 6 lent calls and drops, of 3 steps and 2 after `destroy` | allocations and windows agree and are large enough; freeing; lending; nothing after `destroy`; completion |
| `WindowPool_fills`, `_empty` | as above, small menus | disagreements of section 5 |
| `A2APlan_layout` | 3 ranks, shards of 0 to 2, batches of 0 to 2, both modes, with and without splits, integers up to 40 | `LayoutExact`, `InsideWindow`, `RefusedTogether`, `FitsInt64`, `BackwardIsAdjoint` |
| `PlanCache_neighbours` | 16 requests around one that passes, 3 plans | `AnswersAsUncached`, `ReferenceLive`, the bound |
| `NvLink_verdict` | 3 GPUs, every set of direct links, 4 switches, at most 2 link ends not told | `RefusalIsFounded`, `PassIsFounded` |
| `NvLink_unmatched` | the same | a disagreement of section 5 |

Bounds. Three ranks are the fewest where XOR misses a peer, and where a rank can
be behind one peer and ahead of another. Two calls are what it takes for one to
overwrite another, three for a rotation of two to come round, and for a staging pool
to be filled by a refused call and found full by a third. Two barriers, the opening
and the closing one of a call, give `Lockstep` its chance to fail, and are enough
for one of two that overlap to undo what the other published; safety for more is
proved. `LentSlots` and `StagingSlots` are four in the code, `MaxShapes` sixteen,
`MaxPlans` 512; one to three bring their limits within reach. Two steps after
`destroy` are enough for one on each of two paths. In `A2APlan` a shard of zero,
one and two rows gives every pattern of empty, single-row and multi-row copies;
the batch of zero is refused. An integer of at most 40 refuses the largest of these
exchanges and accepts, with two batches, up to five rows by two heads or three by
three over three ranks. Two link ends not told are what it takes to lose a direct
link, which either end suffices to find.

Fairness. In `Barrier`: weak fairness of setup and of each thread, since a kernel
is one block that stays resident once launched, and its threads all make progress
on the architectures the code names. In `Exchange`: one weak fairness over the
steps of all hosts and streams, that is, as long as any can move one does; CUDA
starts an operation once those before it and its waits are done, which is more.
It is enough because every step is progress: a behaviour of bounded programs that
never rests ends. In `WindowPool`: of each host. No run needs strong fairness, and
none uses symmetry together with liveness. `Exchange_throw` is the one run that
does not check deadlock: a rank that threw leaves its peers in their barrier.

Every property has a mutant in `PROJECT.json`, a change a plausible bug would
make to one definition, under which TLC finds the property violated. The mutants
stand next to the definitions they replace. `FreedBeforeAllocating` has two: one
that keeps what the caller released and one that keeps a lent slot's window.

## 4. Proofs

`BarrierProofs` proves, for any set of ranks and streams and any bounds:

| theorem | property |
|---|---|
| `TypeCorrect` | `TypeOK` |
| `PublicationIsNeverLost` | `PublishedSticks` |
| `NoEpochIsLost` | `EpochsDistinct` |
| `NobodyPassesAlone` | `StillInside` |
| `OrderedLockstep` | `Lockstep`, for one stream |
| `FlagsAreMonotone` | `FlagsOnlyRise` |
| `BarrierKeepsPromise` | `KeepsPromise`, the refinement |

Assumed: `BoundAssumption` (the bounds are naturals), and for `OrderedLockstep`
that there is one stream.

The argument. `StillInside` says that a barrier some peer has not started still
runs wherever it was started. It is not inductive: a kernel may exit only when all
its flags are at its epoch, so one must know what a flag tells. The invariant
`IInv` adds: a flag never exceeds the epochs its sender has started (`FlagInv`);
a running kernel's epoch is one its rank has started, and what it has seen is
still on its flags (`KernelInv`); and until every rank has cleared, nobody has started
anything (`SetupInv`), without which a late clear would erase a publication. An
exit then implies that every peer has started that barrier. With one stream,
`Lockstep` follows: a rank two ahead would have to hold two kernels of different
epochs on it. The refinement maps `arrived` to the started epochs and `inside` to
those of the running kernels: `Start` is `Arrive`, `Exit` is `Leave`, the rest
stutter. There is one lemma per action; the effect of each action on the kernels
is a lemma of its own, so that no leaf expands a function update twice.

`PlanCacheProofs` proves, for any set of requests, any bound and any order of
callers:

| theorem | property |
|---|---|
| `TypeCorrect` | `TypeOK`, with the bound on the map |
| `CacheIsInvisible` | `AnswersAsUncached` |
| `ReferencesStayLive` | `ReferenceLive` |

Assumed: `PlanCacheAssumption`. That an answer is what an uncached group would say
follows from no earlier answer, so it is not inductive; `KeptAsBuilt` is: whatever
request finds an entry would have passed the checks and built it. It is kept
because requests that share a key agree in every argument the checks look at
(`SameKeySamePlan`), which is what an absent and an empty split list being one key
would break, and because room is made before the insertion (`WithRoomOK`,
`InsertedOK`). `PlanIsFresh` puts the three together; each caller's step is then a
case of it.

`NvLinkProofs` proves, for any machine, any list of devices and anything NVML may
withhold:

| theorem | property |
|---|---|
| `RefusalFounded` | `RefusalIsFounded` |
| `PassFounded` | `PassIsFounded` |

Assumed: `NvLinkAssumption`. The properties speak of the verdict alone, and say
nothing while the sweep is under way; the induction is over what the matrix holds
by then. `Sound`: nothing the machine does not have, which a pass rests on.
`Complete`: of every device already swept, an answer and all it told (`Swept`),
which a refusal rests on. `SweepPreserves` extends both by one device,
`DecidePreserves` closes the matrix over the switch and draws the verdict. That the
device swept and the pair named exist is `LeastNat`, by the well-foundedness of
strict inclusion.

`WindowPoolProofs` proves, for any number of ranks, any size of the rotation, any
menu of calls and any program drawn from it:

| theorem | property |
|---|---|
| `Types` | `TypeOK` |
| `AllocationsAgree` | `SameAllocations` |
| `WindowsAgree` | `SameWindow` |
| `WindowsSuffice` | `LargeEnough` |
| `BuffersStay` | `KeptBuffersStay` |
| `FreesFirst` | `FreedBeforeAllocating` |
| `LendsExclusively` | `LentExclusively` |
| `DestroyIsFinal` | `DestroyedIsFinal` |

Assumed: `PoolAssumption`, which says what a menu is made of. `WindowPool` has no
action that compares two ranks, so agreement cannot be kept step by step between
them. The invariant says instead why it holds: a rank's pool is a function of the
program and of how far the rank is in it. A pool as a value (`State`) has functions for a
step (`Begin`), for the return of an allocation (`Back`), for a step taken whole
(`Through`), for destroy (`Gone`) and for a step after it (`Late`), and each action
of the model is one of them (`TakeIs`, `RendezvousIs`, `DestroyIs`). `IsHistory` is the
one sequence of pools the program leads through, and every rank is somewhere on it
(`On`): between two steps, inside an allocation, or past destroy. A program that
grows leaves what was taken as it was (`HistoryGrows`, `OnGrows`). `SameWindow` and
`SameAllocations` are then that two ranks' outcomes and allocations are prefixes of
one and the same sequence.

The rest is about one pool, `Good`, kept by each function. `LentOnce`, which becomes
`LentExclusively`, is not inductive: that a slot's window is nobody's when it is lent
follows only if a lent result not yet dropped is held (`LentHeld`), and a drop takes
away its own window alone only if no window is both a buffer of the caller's and a
slot, and none is in two slots (`Apart`). `Named` says that what a pool refers to was
allocated, `Waits` what a rank inside an allocation has already done and given back,
`Large` that what was filled was large enough. That a drop names a result kept until then
is part of the program's being one the caller can write (`NextStepsAre`).

`A2APlanProofs` proves, for world sizes from one to eight, any calls whose ranks
agree, any alignment and any width of the integers:

| theorem | property |
|---|---|
| `A2APlanInductive` | the invariant, `Inv` |
| `AllRefuseOrNone` | `RefusedTogether` |
| `LayoutIsExact` | `LayoutExact` |
| `CopiesStayInside` | `InsideWindow` |
| `NumbersFit` | `FitsInt64` |
| `BackwardUndoes` | `BackwardIsAdjoint` |

Assumed: `PlanAssumption`. What it says of a call, `Agreed`, is the contract of
`group.py:126`, that the splits are identical on every rank and match the shapes
handed in, except that it allows all ranks to have the wrong shape at once: nothing
is proved of a call that one rank alone gets wrong, which that rank refuses and the
others wait for. That the shapes and splits are good for anything is not assumed but
checked by the model, as by the code: batches and dims may be zero, splits negative,
axes odd, products too large.

The argument. What a rank hands in differs from rank to rank, but the geometry it
computes from that does not (`OneGeometry`), nor whether it passes (`OneVerdict`), nor
does either change with the direction: what the backward is given, the shape of the
output, leads to the geometry of the forward, and passes (`BackwardIs`). `Inv` is
short: what a rank has planned is the plan for its call, the windows hold what the
plans so far write (`Holds`), and a rank sends back only when all have sent. The rest
is about one plan. Of each batch element and each row of rank q, the heads of rank p
are a *strip*: they lie together in q's tensor and in p's. The n-th byte of a strip
has one position in each (`InRows`, `InHeads`), and a copy moves strips from one to the
other, a fused 3D copy the same ones as the copies it replaces (`MovesAre`,
`BatchedMoves`, `ScatterMoves`, `GatherMoves`). So a strip is what the layouts of the two
tensors share (`StripIs`), which is `LayoutExact`; mode 1 moves the same strips the
other way, which is `BackwardIsAdjoint`. A strip ends inside both tensors (`StripInside`),
by the prefix sums: a rank's part begins where the one before it ends
(`PartInside`), so `InsideWindow`; and every tensor, row, slice and position is bounded by the
one product the code checks (`Bounded`), so `FitsInt64`. The prefix sums are a
recursive function, whose existence and values are proved by least
counterexample (`PrefixExists`, `PrefixIs`).

`ExchangeLog`, `ExchangeProofs` and `DeliveryProofs` prove, for two to eight ranks,
any bounds, with or without the work registry, and any program the contract allows:

| theorem | property |
|---|---|
| `PeersOnce` | `PeerOrder` has each peer once and never the rank itself |
| `Inductive` | the invariant, `IInv` |
| `TypeCorrect` | `TypeOK` |
| `StagedOnce` | `StagedUntilSent` |
| `BarriersApart` | `OneBarrierPerWindow` |
| `FreedLast` | `WindowsOutliveTransfers` |
| `StaysTogether` | `Together`, below |
| `ReadersDoWait` | `ReadersWait` |
| `WritersDoWait` | `WritersWait` |
| `DeliveryInductive` | the invariant, `DInv` |
| `ResultsIntact` | `ResultIntact` |
| `ImplementsCollective` | `KeepsPromise`, the refinement |
| `TurnsTaken` | the invariant, `IInv /\ Turning` |
| `NobodyIsStuck` | `NeverStuck` |

Assumed: `ExchangeAssumption`, and of the programs `Contract`
(`ProgramsAssumption`), which TLC finds true of every program of the runs.

`PeersOnce` is about `XorSchedule` alone. The XOR loop reaches the peers whose
distance is below the world size (`PairedCollects`, from `XorFacts`: XOR is commutative
and undoes itself, bit by bit), the sweep adds the others, and there are none for a
power of two (`XorBelow`).

The argument. The queues of a state have lost what was already run, and with it why
what is left is in order. So `IInv` says of each rank that there is a *log*: what
its host ever gave to each stream, with the place `at` of each step's operations. An
operation keeps its position in the log for good, and a wait is for a position, so
that one operation comes before another (`Before`) is a fact about the log alone,
which running changes nothing of. What `IInv` asks of a log (`Fine`):

- `Told`: no wait is for a later operation; each step's barriers, copies and join
  are where `at` says (`Laid`); each operation is some step's (`Known`); steps that
  share a window, on whichever streams, are before one another (`Ordered`); an
  asynchronous result that somebody waited for is waited for on the caller's stream
  (`Awaited`). `Ordered` is what the properties rest on and `Awaited` what keeps it
  when a window goes from the comm stream to the caller's, which `Contract` allows
  only after a wait.
- `Noted`: a result is noted with the end of its call, so that a use submits
  the right wait.
- `Leftover`, `Waited`: the queues are the end of the log, and what ran had waited.
- `Counted`, `Inside`: the barriers a rank started on a window are those of its
  steps in their order, and a stream in a barrier ran its arrival last. Two streams
  in barriers of one window are then two steps that are before one another, and the
  later has begun while the earlier is inside: `BarriersApart`.
- `Stocked`, `Released`, `Restaged`: the pool is within its bounds, without which
  there might be no buffer left to hand out; a slot is released behind the copies
  out of its buffer; a copy into a buffer is behind the earlier copies out of it, or
  they have run. `StagedOnce` is the last of these at the head of a stream.
- `Reading`, `StagedInTurn`: a read is behind its step's closing barrier and before
  every transfer that follows all uses of the result; what is staged was computed
  just before.

Between ranks `IInv` has only `Drained`: a rank past the meeting of `destroy` found
every caller's stream and, each rank having drained its own, every comm stream
empty. A closing barrier that has run joined its remote copies, so the transfer
stream has no copy left either (`ClosedSent`): `FreedLast`.

Every action is one of two lemmas. A host's step makes the log longer (`HostKeeps`,
with `ToldGrows`: what was told of a log is told of a longer one); a stream's step
runs its next operation (`OpKeeps`). The log is quantified, so TLC cannot evaluate
`IInv`; what it checks on the runs is the properties. The proof of `DrainFirst`
found a misplaced conjunct in `Contract`, which let a program meet without having
drained; no program of the runs did, and with the clause as it was meant they are
still what they were.

`DeliveryProofs` adds the other half, what the ranks owe each other. `Together` says
that a rank has arrived at most once more on a window than any other, and not even
that unless it stands in that barrier; a stream's ticket is its rank's last arrival.
It is inductive given `BarriersApart`, for a rank in two barriers of one window
would be two ahead. The ranks run one program, so the n-th barrier of a window is
the same step's on every rank (`Counted`). A rank past a barrier of a step therefore
finds every peer to have reached that barrier of that step (`AllCame`, `PeersCame`),
and the peer's log says what it did before: past the closing barrier all its copies
of the step have run (`ClosedSent`), so `ReadersWait`; past the opening one it has
read what was in the window before (`HasRead`), so `WritersWait`.

What is read is then a matter of the data, `DInv`: what a rank's buffers hold is told
by its log too (`Stored`), by the last operation that has run and that writes there.
For the input tensor and the staging buffers that is the last in order (`InputIs`,
`StagedIs`); for the rank's part of a window, on which copies of two streams may
fall, the one of the latest call (`SharesAre`). No rank's part is written by another,
so each operation that runs is a step of one rank's `Stored` (`StoredRuns`), given
three facts about the log: a copy takes what was produced or staged for its own call
(`CopiesInput`, from `Restaged` and `StagedInTurn`); a copy is of no earlier call
than those that fell on that window before (`CopiesInOrder`); and no two copies of a
call are to the same rank (`CopiesApart`), so that a call counts as sent with its last
one (`LastCopy`). A rank past a step's closing barrier that still has to read the
window finds every peer's share of that very step in it (`WholeWindow`): the
peer has made its copy, and a copy for a later step would be past an opening barrier
that the reader has not come to. That is what is copied out (`CopiesOutWhole`) and
what is read (`ReadsWhole`): `ResultsIntact`. The refinement maps `contributed` to
`sent`: the last copy of a call is `Contribute`, a read is `Deliver`, the rest stutter.

That nobody waits for good is a matter of one order over all ranks. Every operation of a
log has a number (`TakesTurns`): what step i submits is numbered between 9i and 9i + 8,
the opening barrier 9i + 2 and 9i + 3, the copies, on whichever stream, 9i + 4, the closing
barrier 9i + 5 and 9i + 6 (`Phase`). Along a stream the numbers rise, and what an operation
waits for has a smaller one (`InTurns`, shown of each kind of step: `SyncInTurns`,
`AsyncInTurns`, `RefusedInTurns`, `UseInTurns`), so a longer log is numbered by numbering
what was added behind what was there (`TurnsGrow`, `HostTurns`). `Turning` says that every
rank's log has such numbers, and that a ticket is that of the barrier its stream stands in. Were everybody
stuck with something left to run (`SomebodyCan`), the operation with the least number of any
rank would have its wait behind it (`LeastIsFree`), and so be the leaving of a
barrier some rank has not come to. A rank that had made that call would have the arrival,
a smaller number, behind it (`HasCome`); so one has not made it, and the rank
furthest behind has nothing left to run (`RunOut`). Its host's next step then waits for
nothing (`HostGoes`): not for streams, which are empty, and not for the others, since no call
comes after a meeting. With nothing left to run anywhere, the rank furthest
behind can go on in the same way, a meeting included.

Only model-checked: liveness (`AllBarriersEnd`, `EverythingCompletes` of both modules),
which is out of the prover's reach; of `Exchange` the half of it that is not about
fairness, that the system never comes to a stop before its end, is `NobodyIsStuck`. The theorems on
`Exchange` are about `Spec`, in which no call throws: `ThrowingSpec` has a run of its own.

## 5. Disagreements

- `src/bindings.cc:176` records the staging release even when the transfer throws,
  lest "the next call for that shape overwrites the staging buffer" while it is
  read. The release is on the comm stream, the remote copies on the transfer
  stream, and a throw before the join leaves them unordered: the release completes
  while the copies still read. Run `Exchange_throw`.
- `src/group.cc:278` says the lent pool "fills before it rotates". The counter
  advances before the allocation that may throw, so a lent call that moves no
  data leaves it ahead of the pool, and the next one reads past the end of
  `pool.slots`. Run `WindowPool_fills`.
- `docs/api.md:99` lists "every rank's shard empty, so the call moves no data"
  among what raises. Only an allocation raises; with the role's window in place
  the call returns an empty result. Run `WindowPool_empty`.
- `src/nvlink.cc:30` says a far end that matches no device is "reported as 'cannot
  determine' rather than as a missing link". It is skipped, and a pair whose link
  is unmatched from both ends is refused as not joined. Run `NvLink_unmatched`.

Read, and not the subject of a run: `docs/api.md:137` bounds lent results at four
alive at once, while the rotation refuses as soon as its next slot is alive, which
one result kept over four calls is enough for.

## 6. Not modelled

- Visibility of a copy-engine write when the flag that follows it is read: an
  assumption the code states.
- A rank that dies, and a rendezvous that fails: torch's, and the group is lost.
- A CUDA error elsewhere than among the copies of a call (`ThrowingSpec`). A copy
  may be refused and the context live on; what makes a wait fail, as in the middle
  of an eviction, is an error of earlier work, after which it does not.
- The finalizer (`group.py:279`): it has no barrier, and its comment says `destroy`
  is the supported path.
- A rank whose graph has no gradient for its output, and the tangent: how many
  collectives a graph issues is the caller's contract, and each is a call like any
  other. The refusals of `vmap`, of tracing and of gradients for `out=`: they keep
  no state and come before anything else.
- Processes that number their devices differently: `NvLink` takes the gathered
  numbers to mean the same GPUs to all.
- CUDA graphs, and callers who break the contract that all ranks issue the same
  calls (the barrier under unordered calls is the exception, since the code claims
  something there).
- The command line, the build, the tools, the bindings for tests, the benchmark and
  the tests, which have no part in a running group.

## 7. Plan

1. Done: `AbstractBarrier`, `Barrier`, `BarrierProofs`; `Exchange` with staging,
   failures and `destroy`; `Collective`; `WindowPool`, `WindowPoolProofs`; `A2APlan`
   with the backward, `A2APlanProofs`; `PlanCache`, `PlanCacheProofs`; `NvLink`,
   `NvLinkProofs`; `ExchangeLog` for the order of the peers and for what one rank's
   log tells, `ExchangeProofs` for what that order gives, `DeliveryProofs` for what
   the ranks owe each other and what the buffers hold.
2. Left: to prove of `ThrowingSpec` what holds of `Exchange` also when a copy throws;
   liveness, for which `NobodyIsStuck` is the invariant half.
