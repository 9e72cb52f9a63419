------------------------------ MODULE Exchange -------------------------------
(***************************************************************************)
(* A group of ranks running collectives: what src/src/bindings.cc,         *)
(* src/src/transfer.cu and the staging pool of src/src/group.cc submit to  *)
(* the three streams of each device, and what those streams then do to     *)
(* each other's windows.                                                   *)
(*                                                                         *)
(* Every rank's host runs the same program: calls, synchronous ones on the *)
(* caller's stream and asynchronous ones on the comm stream, uses of their *)
(* results, and the end of the group.  A host step submits operations, and *)
(* where the code makes the host wait it is disabled until then.  A stream *)
(* runs its operations in order; an event is a position in a stream,       *)
(* captured when it is recorded, and a wait, which is a part of the        *)
(* operation behind it here, holds that operation until that position is   *)
(* run.                                                                    *)
(* The barrier is the abstract one: two operations, arrive and leave.      *)
(*                                                                         *)
(* Data are call numbers: the input of call c is c, and rank s's share of  *)
(* a window holds the number of the call whose payload it is.  A copy is   *)
(* one step.  That loses no race: a reader that could overlap a writer     *)
(* could also run wholly before it, and would then see another number.     *)
(***************************************************************************)
EXTENDS Naturals, Sequences, FiniteSets, FiniteSetsExt, XorSchedule

CONSTANTS WorldSize,     \* ranks 0 .. WorldSize - 1
          MaxCalls,      \* bound: calls of a program
          Programs,      \* bound: the programs the ranks may run
          LentSlots,     \* kLentSlots
          StagingSlots,  \* kMaxStagingPerShape
          MaxShapes,     \* stage's bound of 16 shapes
          HasRegistry    \* FAST_ULYSSES_HAS_WORK_REGISTRY

ASSUME ExchangeAssumption ==
    /\ WorldSize \in 2 .. 8 /\ MaxCalls \in Nat /\ HasRegistry \in BOOLEAN
    /\ LentSlots \in Nat \ {0} /\ StagingSlots \in Nat \ {0} /\ MaxShapes \in Nat \ {0}

Ranks == 0 .. WorldSize - 1
Calls == 1 .. MaxCalls
Streams == {"caller", "comm", "xfer"}
Buffers == 1 .. MaxShapes * StagingSlots
Windows == {<<"sync", 0>>, <<"async", 0>>, <<"own", 0>>}
             \cup {<<"lent", i>> : i \in 0 .. LentSlots - 1}

\* A step of a program: a call, which has its number, the stream it is on, where
\* its result goes and each rank's shard; the use of a call's result; the wait of
\* the timed call; the three parts of destroy.
Steps == [do : {"call"}, call : Calls, async : BOOLEAN,
          dest : {"fresh", "own", "lent", "refused"}, shape : [Ranks -> Nat]]
           \cup [do : {"use"}, call : Calls]
           \cup [do : {"timed", "drain", "meet", "destroy"}]

\* Step i is a call that transfers.
Transfers(p, i) == p[i].do = "call" /\ p[i].dest # "refused"

UsedAt(p, u, i) == p[u].do = "use" /\ p[u].call = p[i].call

\* The lent slot step i fills, by the program alone.
LentSlot(p, i) ==
    Cardinality({j \in 1 .. i - 1 : p[j].do = "call" /\ p[j].dest = "lent"}) % LentSlots

\* Steps i and j fill the same window of the caller's.
SharesBuffer(p, i, j) ==
    /\ Transfers(p, i) /\ Transfers(p, j) /\ p[i].dest = p[j].dest /\ p[i].dest \in {"own", "lent"}
    /\ p[i].dest = "lent" => LentSlot(p, i) = LentSlot(p, j)

\* The caller's contract.  Calls are numbered in order.  A result is used after
\* its call and before the caller has its window filled again; a window filled
\* on the comm stream is filled on the caller's only after a wait for what was
\* last there.  destroy ends a program, its parts in their order.
Contract(p) ==
    /\ p \in Seq(Steps)
    /\ \A i \in DOMAIN p : p[i].do = "call" /\ ~ p[i].async => p[i].dest \in {"fresh", "own"}
    /\ \A i, j \in DOMAIN p : i < j /\ p[i].do = "call" /\ p[j].do = "call" => p[i].call < p[j].call
    /\ \A u \in DOMAIN p : p[u].do = "use" => \E i \in 1 .. u - 1 : Transfers(p, i) /\ UsedAt(p, u, i)
    /\ \A i, j \in DOMAIN p : i < j /\ SharesBuffer(p, i, j) =>
          /\ \A u \in DOMAIN p : UsedAt(p, u, i) => u < j
          /\ p[i].async /\ ~ p[j].async =>
                \E k, u \in i .. j - 1 : p[k].do = "call" /\ p[k].async /\ k < u /\ UsedAt(p, u, k)
    /\ \A i, j \in DOMAIN p : i < j /\ p[i].do = "drain" => p[j].do \in {"meet", "destroy"}
    /\ \A j \in DOMAIN p : /\ p[j].do = "meet" => \E i \in 1 .. j - 1 : p[i].do = "drain"
                           /\ p[j].do = "destroy" => \E i \in 1 .. j - 1 : p[i].do = "meet"

ASSUME ProgramsAssumption == \A p \in Programs : Contract(p)

VARIABLES program,   \* the steps every host runs
          pos,       \* pos[r]: the steps rank r's host has taken
          queue,     \* queue[r][s]: the operations stream s of r has yet to run
          ran,       \* ran[r][s]: how many it has run
          lends,     \* lends[r]: lent calls made, the rotation counter
          pool,      \* pool[r]: the staging slots as built: shape, buffer, release position
          result,    \* result[r][c]: where call c's result is and when it is complete
          arrived,   \* arrived[w][r]: barriers r has started on window w
          ticket,    \* ticket[r][s]: the barrier stream s of r is in, 0 when in none
          input,     \* input[r]: the call whose input the caller's tensor holds
          staged,    \* staged[r][m]: the call whose input staging buffer m holds
          window,    \* window[w][r][s]: the call whose payload rank s left there
          output,    \* output[r][c][s]: the same for call c's own output tensor
          sent,      \* history: sent[r] is the calls whose last copy of r's has run
          got        \* history: got[r][c] is what r's kernel read as call c's result

host == <<program, pos, lends, pool, result>>
data == <<input, staged, window, output, sent, got>>
vars == <<host, queue, ran, arrived, ticket, data>>

NoResult == [from |-> <<"none", 0>>, async |-> FALSE, at |-> 0]

Init ==
    /\ program \in Programs
    /\ pos = [r \in Ranks |-> 0]
    /\ queue = [r \in Ranks |-> [s \in Streams |-> <<>>]]
    /\ ran = [r \in Ranks |-> [s \in Streams |-> 0]]
    /\ lends = [r \in Ranks |-> 0]
    /\ pool = [r \in Ranks |-> <<>>]
    /\ result = [r \in Ranks |-> [c \in Calls |-> NoResult]]
    /\ arrived = [w \in Windows |-> [r \in Ranks |-> 0]]
    /\ ticket = [r \in Ranks |-> [s \in Streams |-> 0]]
    /\ input = [r \in Ranks |-> 0]
    /\ staged = [r \in Ranks |-> [m \in Buffers |-> 0]]
    /\ window = [w \in Windows |-> [r \in Ranks |-> [s \in Ranks |-> 0]]]
    /\ output = [r \in Ranks |-> [c \in Calls |-> [s \in Ranks |-> 0]]]
    /\ sent = [r \in Ranks |-> {}]
    /\ got = output

------------------------------------------------------------------------------
(* What a call submits. *)

\* The position an event recorded on stream s now captures.
Mark(r, s) == ran[r][s] + Len(queue[r][s])

\* An operation, on the window w or out of the place w, for call c; the copies
\* also name the rank they go to and the staging buffer they come from (0 when
\* they come from the caller's tensor).
Op(o, w, c) == [op |-> o, win |-> w, call |-> c, to |-> 0, buf |-> 0, on |-> "xfer", upto |-> 0]

\* cudaStreamWaitEvent before operation o, on what stream s had been given.
After(s, n, o) == [o EXCEPT !.on = s, !.upto = n]

Nothing == Op("nothing", <<"none", 0>>, 0)
Push(p, w, m, c) == [Op("push", w, c) EXCEPT !.to = p, !.buf = m]

\* The remote copies, in the order of the peers, behind position ready of s.
Copies(r, s, ready, w, m, c) ==
    LET peers == PeerOrder(r, WorldSize) IN
    [i \in DOMAIN peers |-> IF i = 1 THEN After(s, ready, Push(peers[i], w, m, c))
                                      ELSE Push(peers[i], w, m, c)]

\* Mutant: one event for every call, which the closing barrier re-records, so
\* that the transfer stream waits for what waits for it.
RemoteSharedEvent(r, s, ready, w, m, c) == Copies(r, s, ready + 2, w, m, c)

\* launch_a2a_ce, the transfer stream's part: the remote copies, behind what
\* the call's stream had been given when they were submitted.
Remote(r, s, ready, w, m, c) == Copies(r, s, ready, w, m, c)

\* Where the event of the join is recorded: behind the remote copies.
RemoteDone(r) == Mark(r, "xfer") + Len(PeerOrder(r, WorldSize))

\* Mutants: no opening barrier (its places taken, so positions stay); a join
\* with an event of the transfer stream that is not recorded yet; no join.
NoOpeningBarrier(r, w, m, c) ==
    <<Nothing, Nothing, Push(r, w, m, c),
      After("xfer", RemoteDone(r), Op("arrive", w, c)), Op("leave", w, c)>>

JoinTooLate(r, w, m, c) ==
    <<Op("arrive", w, c), Op("leave", w, c), Push(r, w, m, c),
      After("xfer", RemoteDone(r) + 1, Op("arrive", w, c)), Op("leave", w, c)>>

NoJoin(r, w, m, c) ==
    <<Op("arrive", w, c), Op("leave", w, c), Push(r, w, m, c),
      Op("arrive", w, c), Op("leave", w, c)>>

\* transfer_on_stream, the call's stream's part: the opening barrier, this
\* rank's own share beside the remote copies, the join, the closing barrier.
OnStream(r, w, m, c) ==
    <<Op("arrive", w, c), Op("leave", w, c), Push(r, w, m, c),
      After("xfer", RemoteDone(r), Op("arrive", w, c)), Op("leave", w, c)>>

\* run: copied out only when the result is not the window.
CopyOut(step, w) == IF step.dest = "fresh" THEN <<Op("copyout", w, step.call)>> ELSE <<>>

\* Mutant: one window for both roles.
OneRoleWindow(async) == <<"sync", 0>>

RoleWindow(async) == IF async THEN <<"async", 0>> ELSE <<"sync", 0>>

\* prepare: out= names the caller's own window, lend takes the next of the
\* rotation, any other call fills its role's window.
WindowFor(r, step) ==
    CASE step.dest = "own" -> <<"own", 0>>
      [] step.dest = "lent" -> <<"lent", lends[r] % LentSlots>>
      [] OTHER -> RoleWindow(step.async)

Submit(r, caller, comm, xfer) ==
    queue' = [queue EXCEPT ![r] = [caller |-> @.caller \o caller,
                                   comm |-> @.comm \o comm,
                                   xfer |-> @.xfer \o xfer]]

SetResult(r, step, w, async, at) ==
    result' = [result EXCEPT ![r][step.call] =
        [from |-> IF step.dest = "fresh" THEN <<"output", step.call>> ELSE w,
         async |-> async, at |-> at]]

------------------------------------------------------------------------------
(* The host's steps.  The caller's stream first computes the input, into the
   tensor it used for the call before. *)

Produce(c) == Op("produce", <<"input", 0>>, c)

SyncCall(r, step) ==
    LET c == step.call
        w == WindowFor(r, step)
        ready == Mark(r, "caller") + 3   \* past the opening barrier
    IN  /\ Submit(r, <<Produce(c)>> \o OnStream(r, w, 0, c) \o CopyOut(step, w),
                     <<>>,
                     Remote(r, "caller", ready, w, 0, c))
        /\ SetResult(r, step, w, FALSE, 0)
        /\ UNCHANGED <<lends, pool>>

\* stage's eviction: a shape that is new past the bound drops every slot.
MustEvict(r, sh) ==
    LET held == {pool[r][k].shape : k \in DOMAIN pool[r]}
    IN  Cardinality(held) >= MaxShapes /\ sh \notin held

Kept(r, sh) == IF MustEvict(r, sh) THEN <<>> ELSE pool[r]

\* Mutant: the buffers are freed under whoever still reads them.
EvictWithoutWait(r, sh) == TRUE

\* cudaEventSynchronize of every slot's release, before its buffer is freed.
EvictionDone(r, sh) ==
    MustEvict(r, sh) => \A k \in DOMAIN pool[r] : ran[r].comm >= pool[r][k].upto

SlotsOf(r, sh) == {k \in DOMAIN Kept(r, sh) : Kept(r, sh)[k].shape = sh}

\* Mutant: a release event is not recorded, and one that never was is done.
EverySlot(r, sh) == SlotsOf(r, sh)

\* The staging slots of the shape that the comm stream has finished with.
FreeSlots(r, sh) == {k \in SlotsOf(r, sh) : ran[r].comm >= pool[r][k].upto}

AtBound(r, sh) == FreeSlots(r, sh) = {} /\ Cardinality(SlotsOf(r, sh)) = StagingSlots

\* at::empty: the caching allocator hands out a freed buffer again at once.
FreshBuffer(r, sh) == Min({m \in Buffers : \A k \in DOMAIN Kept(r, sh) : Kept(r, sh)[k].buf # m})

\* stage: the first slot that is free, else a new one, else the first built.
SlotFor(r, sh) ==
    IF FreeSlots(r, sh) # {} THEN Min(FreeSlots(r, sh))
    ELSE IF AtBound(r, sh) THEN Min(SlotsOf(r, sh)) ELSE Len(Kept(r, sh)) + 1

BufferFor(r, sh) ==
    LET k == SlotFor(r, sh) IN IF k \in SlotsOf(r, sh) THEN pool[r][k].buf ELSE FreshBuffer(r, sh)

\* run_staged around the transfer: the staging copy on the caller's stream, comm
\* behind it, and, on scope exit, the slot's release where comm then stands.
Staging(r, step, comm, xfer, behind) ==
    LET sh == step.shape[r]
        k == SlotFor(r, sh)
        copy == [Op("stage", <<"input", 0>>, step.call) EXCEPT !.buf = BufferFor(r, sh)]
        used == [shape |-> sh, buf |-> BufferFor(r, sh), upto |-> Mark(r, "comm") + Len(comm)]
    IN  /\ EvictionDone(r, sh)
        /\ Submit(r, <<Produce(step.call),
                       IF AtBound(r, sh) THEN After("comm", pool[r][k].upto, copy) ELSE copy>> \o behind,
                     <<After("caller", Mark(r, "caller") + 2, Head(comm))>> \o Tail(comm),
                     xfer)
        /\ pool' = [pool EXCEPT ![r] = IF k \in SlotsOf(r, sh) THEN [@ EXCEPT ![k] = used]
                                       ELSE Append(Kept(r, sh), used)]
        /\ lends' = [lends EXCEPT ![r] = @ + (IF step.dest = "lent" THEN 1 ELSE 0)]

\* The two streams' shares of an asynchronous call's transfer.
CommOps(r, step) == OnStream(r, WindowFor(r, step), BufferFor(r, step.shape[r]), step.call)
XferOps(r, step) ==
    Remote(r, "comm", Mark(r, "comm") + 2, WindowFor(r, step), BufferFor(r, step.shape[r]), step.call)

AsyncCall(r, step) ==
    LET w == WindowFor(r, step)
        comm == CommOps(r, step) \o CopyOut(step, w)
        end == Mark(r, "comm") + Len(comm)
        ordered == IF HasRegistry THEN <<>> ELSE <<After("comm", end, Nothing)>>
    IN  /\ Staging(r, step, comm, XferOps(r, step), ordered)
        /\ SetResult(r, step, w, HasRegistry, end)

\* prepare refuses what stage has staged: the release still follows the copy.
RefusedCall(r, step) == Staging(r, step, <<Nothing>>, <<>>, <<>>) /\ UNCHANGED result

\* The caller waits for the result, when it is an asynchronous one, and
\* launches a kernel that reads it.
Use(r, step) ==
    LET res == result[r][step.call]
        read == Op("read", res.from, step.call)
    IN
    /\ Submit(r, <<IF res.async THEN After("comm", res.at, read) ELSE read>>, <<>>, <<>>)
    /\ UNCHANGED <<lends, pool, result>>

\* all_to_all_4d_timed: the host waits for the last of the call's events.
TimedWait(r) ==
    /\ queue[r].caller = <<>>
    /\ UNCHANGED <<queue, lends, pool, result>>

\* Mutant: destroy does not drain the comm stream.
DrainNothing(r) == TRUE

\* destroy, in Python: the comm stream is drained, ...
DrainComm(r) == queue[r].comm = <<>>

\* ... then dist.barrier: every rank is there, its caller's stream run out, ...
Met(r) == \A t \in Ranks : pos[t] >= pos[r] /\ queue[t].caller = <<>>

\* ... and the handle waits for the transfer stream before it drops its windows.
XferDone(r) == queue[r].xfer = <<>>

HostStep(r) ==
    /\ pos[r] < Len(program)
    /\ pos' = [pos EXCEPT ![r] = @ + 1]
    /\ LET step == program[pos[r] + 1] IN
          \/ step.do = "call" /\ ~ step.async /\ SyncCall(r, step)
          \/ step.do = "call" /\ step.async /\ step.dest # "refused" /\ AsyncCall(r, step)
          \/ step.do = "call" /\ step.async /\ step.dest = "refused" /\ RefusedCall(r, step)
          \/ step.do = "use" /\ Use(r, step)
          \/ step.do = "timed" /\ TimedWait(r)
          \/ /\ \/ step.do = "drain" /\ DrainComm(r)
                \/ step.do = "meet" /\ Met(r)
                \/ step.do = "destroy" /\ XferDone(r)
             /\ UNCHANGED <<queue, lends, pool, result>>
    /\ UNCHANGED <<program, ran, arrived, ticket, data>>

\* A transfer that throws after some of its remote copies were issued, in
\* launch_a2a_ce: the opening barrier is on its way, nothing joins the copies,
\* and the release is recorded on comm while the exception propagates.
Throw(r) ==
    /\ pos[r] < Len(program)
    /\ pos' = [pos EXCEPT ![r] = @ + 1]
    /\ LET step == program[pos[r] + 1] IN
          /\ step.do = "call" /\ step.async /\ step.dest # "refused"
          /\ \E n \in DOMAIN XferOps(r, step) :
                Staging(r, step, SubSeq(CommOps(r, step), 1, 2), SubSeq(XferOps(r, step), 1, n), <<>>)
    /\ UNCHANGED <<program, result, ran, arrived, ticket, data>>

------------------------------------------------------------------------------
(* The streams' steps: one operation each. *)

\* The next operation of stream s of rank r is an o, and nothing holds it.
Ready(r, s, o) ==
    /\ queue[r][s] # <<>>
    /\ Head(queue[r][s]).op = o
    /\ ran[r][Head(queue[r][s]).on] >= Head(queue[r][s]).upto

Pop(r, s) ==
    /\ queue' = [queue EXCEPT ![r][s] = Tail(@)]
    /\ ran' = [ran EXCEPT ![r][s] = @ + 1]
    /\ UNCHANGED host

\* Nothing but the wait before it.
WaitDone(r, s) ==
    /\ Ready(r, s, "nothing")
    /\ Pop(r, s)
    /\ UNCHANGED <<arrived, ticket, data>>

Arrive(r, s) ==
    /\ Ready(r, s, "arrive")
    /\ LET w == Head(queue[r][s]).win IN
          /\ arrived' = [arrived EXCEPT ![w][r] = @ + 1]
          /\ ticket' = [ticket EXCEPT ![r][s] = arrived[w][r] + 1]
    /\ Pop(r, s)
    /\ UNCHANGED data

Leave(r, s) ==
    /\ Ready(r, s, "leave")
    /\ LET w == Head(queue[r][s]).win IN \A t \in Ranks : arrived[w][t] >= ticket[r][s]
    /\ ticket' = [ticket EXCEPT ![r][s] = 0]
    /\ Pop(r, s)
    /\ UNCHANGED <<arrived, data>>

\* The copies rank r has yet to run; those of one call all go to different ranks.
Pushes(r) == {o \in UNION {Range(queue[r][s]) : s \in Streams} : o.op = "push"}

\* A copy into a window: from the caller's tensor, or from a staging slot.
PushShare(r, s) ==
    /\ Ready(r, s, "push")
    /\ LET o == Head(queue[r][s])
           left == {p \in Pushes(r) : p.call = o.call}
       IN /\ window' = [window EXCEPT ![o.win][o.to][r] =
                            IF o.buf = 0 THEN input[r] ELSE staged[r][o.buf]]
          /\ sent' = [sent EXCEPT ![r] = IF left = {o} THEN @ \cup {o.call} ELSE @]
    /\ Pop(r, s)
    /\ UNCHANGED <<arrived, ticket, input, staged, output, got>>

RunProduce(r, s) ==
    /\ Ready(r, s, "produce")
    /\ input' = [input EXCEPT ![r] = Head(queue[r][s]).call]
    /\ Pop(r, s)
    /\ UNCHANGED <<arrived, ticket, staged, window, output, sent, got>>

Stage(r, s) ==
    /\ Ready(r, s, "stage")
    /\ staged' = [staged EXCEPT ![r][Head(queue[r][s]).buf] = input[r]]
    /\ Pop(r, s)
    /\ UNCHANGED <<arrived, ticket, input, window, output, sent, got>>

RunCopyOut(r, s) ==
    /\ Ready(r, s, "copyout")
    /\ LET o == Head(queue[r][s]) IN
          output' = [output EXCEPT ![r][o.call] = window[o.win][r]]
    /\ Pop(r, s)
    /\ UNCHANGED <<arrived, ticket, input, staged, window, sent, got>>

\* What an operation that reads a result finds.
Shares(r, o) == IF o.win[1] = "output" THEN output[r][o.call] ELSE window[o.win][r]

Read(r, s) ==
    /\ Ready(r, s, "read")
    /\ LET o == Head(queue[r][s]) IN got' = [got EXCEPT ![r][o.call] = Shares(r, o)]
    /\ Pop(r, s)
    /\ UNCHANGED <<arrived, ticket, input, staged, window, output, sent>>

StreamStep(r, s) ==
    \/ WaitDone(r, s) \/ Arrive(r, s) \/ Leave(r, s) \/ PushShare(r, s)
    \/ RunProduce(r, s) \/ Stage(r, s) \/ RunCopyOut(r, s) \/ Read(r, s)

Finished == \A r \in Ranks : /\ pos[r] = Len(program)
                             /\ \A s \in Streams : queue[r][s] = <<>>

Rest == Finished /\ UNCHANGED vars

Next == \/ \E r \in Ranks : HostStep(r) \/ \E s \in Streams : StreamStep(r, s)
        \/ Rest

Spec == Init /\ [][Next]_vars

\* As long as a host can take its next step or a stream run its next operation,
\* one of them does.  No more is needed: every step is progress.
FairSpec == Spec /\ WF_vars(\E r \in Ranks : HostStep(r) \/ \E s \in Streams : StreamStep(r, s))

\* With calls that throw on the ranks where CUDA reports an error.
ThrowingSpec == Init /\ [][Next \/ \E r \in Ranks : Throw(r)]_vars

------------------------------------------------------------------------------
(* Properties. *)

\* The shape of the state, and that no wait is for an operation submitted
\* after it: an event is captured as it stands when the wait is submitted.
TypeOK ==
    /\ pos \in [Ranks -> 0 .. Len(program)]
    /\ ticket \in [Ranks -> [Streams -> 0 .. 2 * MaxCalls]]
    /\ input \in [Ranks -> 0 .. MaxCalls]
    /\ window \in [Windows -> [Ranks -> [Ranks -> 0 .. MaxCalls]]]
    /\ \A r \in Ranks, s \in Streams : \A i \in DOMAIN queue[r][s] :
          queue[r][s][i].upto <= Mark(r, queue[r][s][i].on)

\* The end to end promise: whenever the caller's kernel may run, the result
\* of a call holds that very call's payload from every rank, whatever calls
\* were issued around it and whichever buffers they reuse.
ResultIntact ==
    \A r \in Ranks : Ready(r, "caller", "read") =>
        LET o == Head(queue[r].caller) IN \A s \in Ranks : Shares(r, o)[s] = o.call

\* The window step i of program p fills, by the program alone, and call c.
Filled(p, i) ==
    CASE p[i].dest = "own" -> <<"own", 0>>
      [] p[i].dest = "lent" -> <<"lent", LentSlot(p, i)>>
      [] p[i].dest = "refused" -> <<"none", 0>>
      [] OTHER -> RoleWindow(p[i].async)

Issued(r, c) == \E i \in 1 .. pos[r] : program[i].do = "call" /\ program[i].call = c

Queued(r, o, c) == \E s \in Streams : \E i \in DOMAIN queue[r][s] :
                      queue[r][s][i].op = o /\ queue[r][s][i].call = c

\* Rank r has yet to read its window for call c.
StillReads(r, c) ==
    \/ ~ Issued(r, c)
    \/ Queued(r, "copyout", c)
    \/ result[r][c].from[1] # "output" /\ ( \/ Queued(r, "read", c)
                                            \/ \E i \in pos[r] + 1 .. Len(program) :
                                                program[i].do = "use" /\ program[i].call = c )

\* Writers wait for readers: a copy into a rank's window is never next while
\* that rank has yet to read what an earlier call left there, or to make that call.
WritersWait ==
    \A r \in Ranks, s \in Streams : Ready(r, s, "push") =>
        LET o == Head(queue[r][s]) IN
        \A i \in DOMAIN program :
            Transfers(program, i) /\ Filled(program, i) = o.win /\ program[i].call < o.call
                => ~ StillReads(o.to, program[i].call)

\* Readers wait for writers: a window is never read next while some rank has
\* yet to copy its share of that call into it.
ReadersWait ==
    \A r \in Ranks, s \in Streams :
        (Ready(r, s, "copyout") \/ Ready(r, s, "read")) /\ Head(queue[r][s]).win[1] # "output" =>
            LET c == Head(queue[r][s]).call IN
            \A t \in Ranks : /\ Issued(t, c)
                             /\ \A o \in Pushes(t) : ~ (o.to = r /\ o.call = c)

\* A call's input is staged once: when the copy of a later input into a staging
\* buffer is next, no copy of an earlier call out of that buffer is still to
\* run, whether the slot was free, waited for, or rebuilt after an eviction.
StagedUntilSent ==
    \A r \in Ranks : Ready(r, "caller", "stage") =>
        LET o == Head(queue[r].caller) IN
        \A p \in Pushes(r) : p.buf = o.buf => p.call >= o.call

\* destroy frees a rank's windows only when no stream of any rank has anything
\* left to do to a window, results nobody waited for included.
WindowsOutliveTransfers ==
    (\E r \in Ranks : pos[r] > 0 /\ program[pos[r]].do = "destroy") =>
        \A t \in Ranks, s \in Streams : \A i \in DOMAIN queue[t][s] :
            queue[t][s][i].op \notin {"arrive", "leave", "push", "copyout"}

Promise == INSTANCE Collective WITH contributed <- sent

\* Streams, windows, barriers and staging implement the collective: nothing is
\* read before every rank has delivered, and only that call's payloads are.
KeepsPromise == Promise!Spec

\* The contract the flag barrier is built on: a rank never has two barriers
\* of one window under way, whichever streams its calls are on.
OneBarrierPerWindow ==
    \A r \in Ranks, s, t \in Streams :
        s # t /\ ticket[r][s] # 0 /\ ticket[r][t] # 0
            => Head(queue[r][s]).win # Head(queue[r][t]).win

\* Rank r's host can take its next step: it has one, and where the code makes it
\* wait, for the releases of an eviction, the timed call's events, the drain, the
\* other ranks or the transfer stream, it need wait no longer.
HostCan(r) ==
    /\ pos[r] < Len(program)
    /\ LET step == program[pos[r] + 1] IN
          /\ step.do = "call" => (step.async => EvictionDone(r, step.shape[r]))
          /\ step.do = "timed" => queue[r].caller = <<>>
          /\ step.do = "drain" => DrainComm(r)
          /\ step.do = "meet" => Met(r)
          /\ step.do = "destroy" => XferDone(r)

\* Stream s of rank r can run its next operation: what that waits for has run, and
\* every rank has come to the barrier it leaves.
StreamCan(r, s) ==
    /\ queue[r][s] # <<>>
    /\ Ready(r, s, Head(queue[r][s]).op)
    /\ Head(queue[r][s]).op = "leave" =>
          \A t \in Ranks : arrived[Head(queue[r][s]).win][t] >= ticket[r][s]

\* Until all is done some host or some stream can go on: the hosts' waits, the
\* transfer stream all calls share, the streams' waits for one another and the
\* barriers between the ranks never make a circle.
NeverStuck == Finished \/ \E r \in Ranks : HostCan(r) \/ \E s \in Streams : StreamCan(r, s)

\* Every call of every rank completes and every result is used: the shared
\* transfer stream and the barriers never wait for one another in a circle.
EverythingCompletes == <>[]Finished
==============================================================================
