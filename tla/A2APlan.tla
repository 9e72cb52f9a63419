------------------------------- MODULE A2APlan -------------------------------
(***************************************************************************)
(* Addressing: which bytes each rank copies where.  make_dims in           *)
(* src/src/group.cc takes the shape and the splits of a call to the        *)
(* geometry of the whole group, build_plan in src/src/a2a_plan.cc takes    *)
(* that to pitched copies, and issue_copy in src/src/transfer.cu takes a   *)
(* pitched copy to the bytes it moves.                                     *)
(*                                                                         *)
(* The behaviour is one exchange and its backward: each rank in its own    *)
(* time plans its call and its copies land in the peers' windows; then it  *)
(* sends the gradient of its output back, as A2AFunction in                *)
(* src/src/bindings.cc does.  A window holds, per byte written, where that *)
(* byte came from.  Mode 0 scatters heads and gathers sequence, mode 1 is  *)
(* the inverse.  A split is a function of the rank.                        *)
(***************************************************************************)
EXTENDS Integers, FiniteSetsExt

CONSTANTS WorldSize,
          Calls,       \* bound: the calls, with the shapes the ranks pass
          Alignment,   \* 16 bytes in the code
          MaxInt64     \* the largest number the code's integers hold

Ranks == 0 .. WorldSize - 1

\* The batch, the head dim, the bytes of an element, each rank's length of the
\* axis that comes sharded, the length of the axis that comes whole, and the
\* splits, a set that holds one pair of them or, when there are none, nothing.
CallType ==
    [mode : Nat, b : Nat, d : Nat, elem : Nat \ {0}, own : [Ranks -> Nat], total : Nat,
     splits : SUBSET [seq : [Ranks -> Int], head : [Ranks -> Int]]]

\* The ranks make one call: with the same splits, and each or none with the
\* shard they give it; without, with shards of one length.
Agreed(c) ==
    /\ \A s, t \in c.splits : s = t
    /\ c.splits = {} => \A r, t \in Ranks : c.own[r] = c.own[t]
    /\ \A s \in c.splits :
          LET side == IF c.mode = 0 THEN s.seq ELSE s.head
          IN  (\A r \in Ranks : c.own[r] = side[r]) \/ (\A r \in Ranks : c.own[r] # side[r])

ASSUME PlanAssumption ==
    /\ WorldSize \in 1 .. 8 /\ Alignment \in Nat \ {0} /\ MaxInt64 \in Nat \ {0}
    /\ Calls \subseteq CallType /\ \A c \in Calls : Agreed(c)

VARIABLES call,     \* the call every rank makes, each with its own shard
          plan,     \* plan[r]: what became of r's call, and the plan for it
          window,   \* window[p]: <<i, r, j>> when its byte i is byte j of r's input
          back,     \* back[r]: the plan of r's backward
          gradient  \* gradient[p]: as window, of the gradients p receives

vars == <<call, plan, window, back, gradient>>

Unplanned == [is |-> "unplanned", numel |-> 0, ops |-> {}, rows |-> 0, heads |-> 0]
Refused == [Unplanned EXCEPT !.is = "refused"]

Init ==
    /\ call \in Calls
    /\ plan = [r \in Ranks |-> Unplanned]
    /\ window = [p \in Ranks |-> {}]
    /\ back = plan
    /\ gradient = window

------------------------------------------------------------------------------
(* The geometry of the group, from what one rank is handed. *)

\* make_dims: the caller's splits, or the even ones the shape implies.
Geometry(c, r) ==
    LET given == CHOOSE s \in c.splits : TRUE
        even == [q \in Ranks |-> c.total \div WorldSize]
        own == [q \in Ranks |-> c.own[r]]
    IN  IF c.splits # {} THEN given
        ELSE IF c.mode = 0 THEN [seq |-> own, head |-> even] ELSE [seq |-> even, head |-> own]

\* exclusive_prefix_sum, and behind the last rank the sum of all.
Prefix(split) ==
    LET sum[q \in 0 .. WorldSize] == IF q = 0 THEN 0 ELSE sum[q - 1] + split[q - 1] IN sum

Offset(split, r) == Prefix(split)[r]

SeqTotal(g) == Prefix(g.seq)[WorldSize]
HeadTotal(g) == Prefix(g.head)[WorldSize]

\* A2ADims::validate
Valid(g) == call.b > 0 /\ call.d > 0 /\ \A r \in Ranks : g.seq[r] >= 0 /\ g.head[r] >= 0

\* The splits say of this rank's input what its shape says.
Matches(c, g, r) ==
    IF c.mode = 0 THEN c.own[r] = g.seq[r] /\ c.total = HeadTotal(g)
                     ELSE c.own[r] = g.head[r] /\ c.total = SeqTotal(g)

\* Mutant: a check of the window's elements only.
WindowFits(c, g) ==
    \A p \in Ranks :
        LET rows == IF c.mode = 0 THEN SeqTotal(g) ELSE g.seq[p]
            heads == IF c.mode = 0 THEN g.head[p] ELSE HeadTotal(g)
        IN  c.b * rows * heads * c.d <= MaxInt64

\* check_byte_products, and the checked sums before it.  The checks on the
\* window's size come after and refuse nothing that this lets pass.
BytesFit(c, g) ==
    LET atLeastOne(n) == IF n > 1 THEN n ELSE 1 IN
    /\ SeqTotal(g) <= MaxInt64 /\ HeadTotal(g) <= MaxInt64
    /\ c.b * atLeastOne(SeqTotal(g)) * atLeastOne(HeadTotal(g)) * c.d * c.elem <= MaxInt64

\* Mutant: a rank that is handed nothing is not checked.
AcceptedUnchecked(c, r) ==
    LET g == Geometry(c, r) IN
    \/ c.own[r] = 0
    \/ (c.d * c.elem) % Alignment = 0 /\ Valid(g) /\ BytesFit(c, g)

\* What make_dims and build_plan check, in their order.
Accepted(c, r) ==
    LET g == Geometry(c, r) IN
    /\ (c.d * c.elem) % Alignment = 0
    /\ c.mode \in {0, 1}
    /\ c.splits = {} => c.total % WorldSize = 0
    /\ Valid(g)
    /\ c.splits # {} => Matches(c, g, r)
    /\ BytesFit(c, g)

------------------------------------------------------------------------------
(* The plan. *)

Bytes == call.d * call.elem

\* The output's sequence and heads on rank r.
Rows(c, g, r) == IF c.mode = 0 THEN SeqTotal(g) ELSE g.seq[r]
Heads(c, g, r) == IF c.mode = 0 THEN g.head[r] ELSE HeadTotal(g)

\* Mutant: the window is as large as this rank's own output.
OwnOutput(c, g, r) == c.b * Rows(c, g, r) * Heads(c, g, r) * c.d

\* The largest receive over all ranks, in elements.
Numel(c, g, r) == Max({OwnOutput(c, g, p) : p \in Ranks})

Copy(p, src, srcPitch, dst, dstPitch, width, rows) ==
    [peer |-> p, src |-> src, srcPitch |-> srcPitch, dst |-> dst, dstPitch |-> dstPitch,
     width |-> width, rows |-> rows, depth |-> 1, srcSlice |-> 0, dstSlice |-> 0]

\* push_batched: one 3D copy when a copy has several rows and the strides are
\* whole rows, else a copy per batch element.
Batched(op, srcStride, dstStride) ==
    LET expressible == /\ call.b > 1 /\ op.rows > 1
                       /\ srcStride % op.srcPitch = 0 /\ dstStride % op.dstPitch = 0
                       /\ srcStride \div op.srcPitch >= op.rows
                       /\ dstStride \div op.dstPitch >= op.rows
    IN  IF expressible
        THEN {[op EXCEPT !.depth = call.b, !.srcSlice = srcStride, !.dstSlice = dstStride]}
        ELSE {[op EXCEPT !.src = @ + i * srcStride, !.dst = @ + i * dstStride] : i \in 0 .. call.b - 1}

\* Mutant: the batches of a window are as far apart as this rank's shard.
ScatterByOwnShard(g, r, p) ==
    LET row == g.head[p] * Bytes IN
    IF row = 0 \/ g.seq[r] = 0 THEN {}
    ELSE Batched(Copy(p, Offset(g.head, p) * Bytes, HeadTotal(g) * Bytes,
                         Offset(g.seq, r) * row, row, row, g.seq[r]),
                 g.seq[r] * HeadTotal(g) * Bytes, g.seq[r] * row)

\* Mode 0: to p the heads it owns, for every local row: read with a stride,
\* written without one.
Scatter(g, r, p) ==
    LET row == g.head[p] * Bytes IN
    IF row = 0 \/ g.seq[r] = 0 THEN {}
    ELSE Batched(Copy(p, Offset(g.head, p) * Bytes, HeadTotal(g) * Bytes,
                         Offset(g.seq, r) * row, row, row, g.seq[r]),
                 g.seq[r] * HeadTotal(g) * Bytes, SeqTotal(g) * row)

\* Mode 1: to p the rows it owns, with this rank's heads only: the reverse.
Gather(g, r, p) ==
    LET row == g.head[r] * Bytes IN
    IF row = 0 \/ g.seq[p] = 0 THEN {}
    ELSE Batched(Copy(p, Offset(g.seq, p) * row, row,
                         Offset(g.head, r) * Bytes, HeadTotal(g) * Bytes, row, g.seq[p]),
                 SeqTotal(g) * row, g.seq[p] * HeadTotal(g) * Bytes)

\* build_plan
PlanFor(c, r) ==
    LET g == Geometry(c, r)
        send(p) == IF c.mode = 0 THEN Scatter(g, r, p) ELSE Gather(g, r, p)
    IN  IF ~ Accepted(c, r) THEN Refused
        ELSE [is |-> "planned", numel |-> Numel(c, g, r), ops |-> UNION {send(p) : p \in Ranks},
              rows |-> Rows(c, g, r), heads |-> Heads(c, g, r)]

\* issue_copy: the bytes a copy moves.  A 3D copy is given its slices as a
\* whole number of rows.
Moves(op) ==
    LET whole(slice, pitch) == pitch * (slice \div pitch)
        srcAt(k, j) == op.src + k * whole(op.srcSlice, op.srcPitch) + j * op.srcPitch
        dstAt(k, j) == op.dst + k * whole(op.dstSlice, op.dstPitch) + j * op.dstPitch
    IN  {<<dstAt(k, j) + i, srcAt(k, j) + i>> :
            k \in 0 .. op.depth - 1, j \in 0 .. op.rows - 1, i \in 0 .. op.width - 1}

------------------------------------------------------------------------------

\* The windows once the copies of rank r's plan have run.
Written(win, r, ops) ==
    [p \in Ranks |-> win[p] \cup
        {<<m[1], r, m[2]>> : m \in UNION {Moves(op) : op \in {o \in ops : o.peer = p}}}]

\* A rank plans its call; the copies of an accepted one are run.
Send(r) ==
    /\ plan[r] = Unplanned
    /\ plan' = [plan EXCEPT ![r] = PlanFor(call, r)]
    /\ window' = Written(window, r, plan'[r].ops)
    /\ UNCHANGED <<call, back, gradient>>

\* Mutant: the splits change their roles with the direction.
SwappedSplits == {[seq |-> s.head, head |-> s.seq] : s \in call.splits}

\* The splits are the group's, whichever way the data moves.
SavedSplits == call.splits

\* A2AFunction::backward: the other mode on a gradient of the output's shape.
Backward(r) ==
    LET out == plan[r]
        own == IF call.mode = 0 THEN out.heads ELSE out.rows
    IN  [call EXCEPT !.mode = 1 - @, !.own = [q \in Ranks |-> own],
                     !.total = IF call.mode = 0 THEN out.rows ELSE out.heads,
                     !.splits = SavedSplits]

\* A rank that has the whole output sends its gradient back.
SendBack(r) ==
    /\ back[r] = Unplanned /\ \A t \in Ranks : plan[t].is = "planned"
    /\ back' = [back EXCEPT ![r] = PlanFor(Backward(r), r)]
    /\ gradient' = Written(gradient, r, back'[r].ops)
    /\ UNCHANGED <<call, plan, window>>

Finished ==
    \A r \in Ranks : /\ plan[r] # Unplanned
                     /\ (\A t \in Ranks : plan[t].is = "planned") => back[r] # Unplanned

Rest == Finished /\ UNCHANGED vars

Next == (\E r \in Ranks : Send(r) \/ SendBack(r)) \/ Rest

Spec == Init /\ [][Next]_vars

------------------------------------------------------------------------------
(* Properties. *)

Planned(r) == plan[r].is = "planned"

\* Row-major position of an element's first byte in a tensor of this shape.
At(b, rows, row, heads, head) == ((b * rows + row) * heads + head) * Bytes

\* What the call promises p, told from the splits and the layouts of the inputs
\* and of the output alone.
Promised(p) ==
    LET g == Geometry(call, p)
        piece(q, b, s, h) ==
            IF call.mode = 0
            THEN <<At(b, SeqTotal(g), Offset(g.seq, q) + s, g.head[p], h),
                   At(b, g.seq[q], s, HeadTotal(g), Offset(g.head, p) + h)>>
            ELSE <<At(b, g.seq[p], s, HeadTotal(g), Offset(g.head, q) + h),
                   At(b, SeqTotal(g), Offset(g.seq, p) + s, g.head[q], h)>>
        rows(q) == IF call.mode = 0 THEN g.seq[q] ELSE g.seq[p]
        heads(q) == IF call.mode = 0 THEN g.head[p] ELSE g.head[q]
        from(q) == {<<piece(q, b, s, h)[1] + i, q, piece(q, b, s, h)[2] + i>> :
                       b \in 0 .. call.b - 1, s \in 0 .. rows(q) - 1,
                       h \in 0 .. heads(q) - 1, i \in 0 .. Bytes - 1}
    IN  UNION {from(q) : q \in Ranks}

\* Once every rank has sent, each window holds exactly the output of its rank,
\* every byte from where the collective takes it and none written twice.
LayoutExact ==
    (\A r \in Ranks : Planned(r)) => \A p \in Ranks : window[p] = Promised(p)

\* Every rank makes its window as large as every other does, or the peers'
\* offsets into it would not line up, and no copy leaves a window of that size.
InsideWindow ==
    \A r, p \in Ranks : Planned(r) =>
        /\ Planned(p) => plan[p].numel = plan[r].numel
        /\ \A m \in window[p] : m[1] < plan[r].numel * call.elem

\* A call is refused by every rank or by none: nobody is left waiting for a
\* rank whose check failed.
RefusedTogether ==
    \A r, t \in Ranks : {plan[r].is, plan[t].is} # {"planned", "refused"}

\* A backward is never refused, and it is the adjoint of the forward: every byte
\* of the input gets the gradient of the one byte of the output it went to.
BackwardIsAdjoint ==
    /\ \A r \in Ranks : back[r].is # "refused"
    /\ (\A r \in Ranks : back[r].is = "planned") =>
          \A p \in Ranks : gradient[p] = UNION {{<<m[3], r, m[1]>> : m \in {w \in window[r] : w[2] = p}} :
                                                r \in Ranks}

\* No number of a plan, nor the end of any copy, is past what an int64 holds.
FitsInt64 ==
    \A r \in Ranks : Planned(r) =>
        /\ plan[r].numel * call.elem <= MaxInt64
        /\ \A op \in plan[r].ops :
              /\ Max({op.srcPitch, op.dstPitch, op.width, op.srcSlice, op.dstSlice}) <= MaxInt64
              /\ \A m \in {<<op.src, op.dst>>} \cup Moves(op) : m[1] <= MaxInt64 /\ m[2] <= MaxInt64
==============================================================================
