----------------------------- MODULE WindowPool ------------------------------
(***************************************************************************)
(* The windows of a group, on the host: which window a call fills, when it *)
(* is allocated, grown, handed back and freed.  UlyssesGroup::window,      *)
(* lend_window, make_output, window_of, prune_owned, allocate and destroy  *)
(* of src/src/group.cc, and the choice prepare makes among them in         *)
(* src/src/bindings.cc.                                                    *)
(*                                                                         *)
(* An allocation is collective: torch's rendezvous matches the n-th one of *)
(* each rank and returns once every rank has come to it, so a window is    *)
(* named by its number n.  Each rank runs the same program at its own      *)
(* pace; the first rank to come to a step chooses it.                      *)
(***************************************************************************)
EXTENDS Naturals, Sequences, FiniteSets, FiniteSetsExt, SequencesExt

CONSTANTS Ranks,
          Bounds,      \* bounds: the steps programs are made of, and how many of them
          LentSlots    \* kLentSlots

\* A step is [do, role, elem, shard, of]: what it does, the role of a call
\* without an output, the bytes of an element, each rank's shard in elements,
\* and the earlier step whose buffer or result it means.  A bound is a menu of
\* steps, how many of them a program takes, and how many after destroy.
Roles == {"sync", "async"}

Items == [do : {"call", "out", "self", "lend", "make", "drop"}, role : Roles,
          elem : Nat \ {0}, shard : [Ranks -> Nat], of : Nat]

ASSUME PoolAssumption ==
    /\ IsFiniteSet(Ranks) /\ Ranks # {}
    /\ LentSlots \in Nat \ {0}
    /\ \A b \in Bounds : b.steps \in Nat /\ b.late \in Nat /\ b.menu \subseteq Items

Elems == UNION {{m.elem : m \in b.menu} : b \in Bounds}

VARIABLES bound,      \* the bound this behaviour keeps to
          program,    \* the steps chosen so far
          outcome,    \* outcome[r]: per step taken, what came of it and the window
          allocs,     \* allocs[r]: the bytes of each allocation r has entered
          waiting,    \* waiting[r]: where the allocation r is in goes, <<>> when in none
          windows,    \* windows[r][role][elem]: the role's window, 0 when none
          lent,       \* lent[r][elem]: the rotation: slots and calls
          owned,      \* owned[r]: the windows of make_output still recorded
          held,       \* held[r]: the windows the caller's tensors refer to
          destroyed   \* destroyed[r]

vars == <<bound, program, outcome, allocs, waiting, windows, lent, owned, held, destroyed>>

Init ==
    /\ bound \in Bounds
    /\ program = <<>>
    /\ outcome = [r \in Ranks |-> <<>>]
    /\ allocs = [r \in Ranks |-> <<>>]
    /\ waiting = [r \in Ranks |-> <<>>]
    /\ windows = [r \in Ranks |-> [role \in Roles |-> [e \in Elems |-> 0]]]
    /\ lent = [r \in Ranks |-> [e \in Elems |-> [slots |-> <<>>, calls |-> 0]]]
    /\ owned = [r \in Ranks |-> {}]
    /\ held = [r \in Ranks |-> {}]
    /\ destroyed = [r \in Ranks |-> FALSE]

\* Bytes of window n of rank r; window 0 is none.
Bytes(r, n) == IF n = 0 THEN 0 ELSE allocs[r][n]

\* The memory rank r has not given back.
Live(r) ==
    owned[r] \cup held[r]
      \cup {windows[r][role][e] : role \in Roles, e \in Elems}
      \cup UNION {ToSet(lent[r][e].slots) : e \in Elems}

\* Mutant: the window is as large as this rank's own shard.
OwnShard(r, step) == step.shard[r]

\* window_numel: the largest shard of the group, which every rank knows.
Numel(r, step) == Max({step.shard[t] : t \in Ranks})

Need(r, step) == Numel(r, step) * step.elem

------------------------------------------------------------------------------
(* The outcome of a step, and the allocation a step may be held in. *)

Done(r, what, n) == outcome' = [outcome EXCEPT ![r] = Append(@, [what |-> what, win |-> n])]

\* allocate refuses a window without elements; otherwise the rank enters the
\* rendezvous, and where is the place the new window is for.
Raises(r, step) == Numel(r, step) = 0

Enter(r, bytes, where) ==
    /\ allocs' = [allocs EXCEPT ![r] = Append(@, bytes)]
    /\ waiting' = [waiting EXCEPT ![r] = where]

\* Mutants: nothing is freed, or whatever the caller still holds.
PrunesNothing(r) == owned
PrunesAll(r) == [owned EXCEPT ![r] = {}]

\* prune_owned: the buffers only the group refers to are freed.
Pruned(r) == [owned EXCEPT ![r] = @ \cap held[r]]

------------------------------------------------------------------------------
(* Calls. *)

\* window: large enough in elements of this dtype.
Fits(r, n, step) == n # 0 /\ Bytes(r, n) >= Need(r, step)

\* A call without a window of its own fills its role's: as it is when that is
\* large enough, else a new one, freeing before allocating.
RoleCall(r, step) ==
    LET old == windows[r][step.role][step.elem] IN
    /\ owned' = Pruned(r)
    /\ \/ /\ Fits(r, old, step)
          /\ Done(r, "filled", old)
          /\ UNCHANGED <<allocs, waiting, windows>>
       \/ /\ ~ Fits(r, old, step)
          /\ windows' = [windows EXCEPT ![r][step.role][step.elem] = 0]
          /\ \/ Raises(r, step) /\ Done(r, "raised", 0) /\ UNCHANGED <<allocs, waiting>>
             \/ /\ ~ Raises(r, step)
                /\ Enter(r, Need(r, step), <<"role", step.role, step.elem>>)
                /\ UNCHANGED outcome
    /\ UNCHANGED <<lent, held>>

\* Mutant: the buffer's own element count against the call's.
OwnedByCount(r, n, step) ==
    n \in owned[r] /\ Bytes(r, n) \div program[step.of].elem >= Numel(r, step)

\* window_of, and the comparison in bytes: the buffer is a window of the
\* group's that is large enough for what the peers write.
OwnedAndLarge(r, n, step) == n \in owned[r] /\ Bytes(r, n) >= Need(r, step)

\* out=: the buffer is filled when it is such a window, and is an ordinary
\* tensor otherwise.  When it is the call's input, too ("self"), it would be read
\* while the peers write it.
OutCall(r, step) ==
    LET n == outcome[r][step.of].win IN
    \/ /\ OwnedAndLarge(r, n, step)
       /\ owned' = Pruned(r)
       /\ \/ step.do = "out" /\ Done(r, "filled", n)
          \/ step.do = "self" /\ Done(r, "raised", 0)
       /\ UNCHANGED <<allocs, waiting, windows, lent, held>>
    \/ ~ OwnedAndLarge(r, n, step) /\ RoleCall(r, step)

\* make_output, through empty_output.
MakeOutput(r, step) ==
    /\ owned' = Pruned(r)
    /\ \/ Raises(r, step) /\ Done(r, "raised", 0) /\ UNCHANGED <<allocs, waiting>>
       \/ /\ ~ Raises(r, step)
          /\ Enter(r, Need(r, step), <<"owned">>)
          /\ UNCHANGED outcome
    /\ UNCHANGED <<windows, lent, held>>

\* Mutant: the slot is handed out whoever refers to it.
NeverHeld(r, n) == TRUE

\* The pool is the only holder of window n.
OnlyOurs(r, n) == n \notin held[r]

\* Mutant: the rotation is one longer than the pool.
OneSlotMore(p) == (p.calls % (LentSlots + 1)) + 1

\* The slot the counter is at.
SlotAt(p) == (p.calls % LentSlots) + 1

\* Mutant: the slot keeps its window until the larger one takes its place.
KeptMeanwhile(p, at) == p

\* A slot whose window is too small gives it back before the larger one is allocated.
Emptied(p, at) == [p EXCEPT !.slots[at] = 0]

\* lend_window.  The counter moves first, whatever comes of the call.  A slot
\* past the end of a pool that is not full is read all the same: what is there
\* is nobody's window ("stray"), and nothing is claimed of what that call does.
Lend(r, step) ==
    LET p == lent[r][step.elem]
        at == SlotAt(p)
        n == p.slots[at]
        counted == [lent EXCEPT ![r][step.elem].calls = @ + 1]
        emptied == [counted EXCEPT ![r][step.elem] = Emptied(@, at)]
        enter(pool) == /\ lent' = pool
                       /\ Enter(r, Need(r, step), <<"lent", step.elem, at>>)
                       /\ UNCHANGED <<outcome, held>>
    IN  /\ owned' = Pruned(r)
        /\ UNCHANGED windows
        /\ \/ at = Len(p.slots) + 1 /\ ~ Raises(r, step) /\ enter(counted)
           \/ /\ at = Len(p.slots) + 1 /\ Raises(r, step)
              /\ lent' = counted /\ Done(r, "raised", 0)
              /\ UNCHANGED <<allocs, waiting, held>>
           \/ /\ at > Len(p.slots) + 1
              /\ lent' = counted /\ Done(r, "stray", 0)
              /\ UNCHANGED <<allocs, waiting, held>>
           \/ /\ at <= Len(p.slots) /\ ~ OnlyOurs(r, n)
              /\ lent' = counted /\ Done(r, "refused", 0)
              /\ UNCHANGED <<allocs, waiting, held>>
           \/ /\ at <= Len(p.slots) /\ OnlyOurs(r, n) /\ Bytes(r, n) >= Need(r, step)
              /\ lent' = counted /\ Done(r, "filled", n)
              /\ held' = [held EXCEPT ![r] = @ \cup {n}]
              /\ UNCHANGED <<allocs, waiting>>
           \/ /\ at <= Len(p.slots) /\ OnlyOurs(r, n) /\ Bytes(r, n) < Need(r, step)
              /\ enter(emptied)

\* The caller drops the result or buffer of an earlier step.
DropTensor(r, step) ==
    /\ held' = [held EXCEPT ![r] = @ \ {outcome[r][step.of].win}]
    /\ Done(r, "dropped", 0)
    /\ UNCHANGED <<allocs, waiting, windows, lent, owned>>

------------------------------------------------------------------------------
(* Steps. *)

\* The steps a program may go on with: a drop names something still held, an
\* out= buffer was made and is still held.
NextSteps(r) ==
    LET dropped(i) == \E k \in DOMAIN program : program[k].do = "drop" /\ program[k].of = i
        kept(i) == outcome[r][i].what = "filled" /\ ~ dropped(i)
        named(m, kinds) ==
            {[m EXCEPT !.of = i] : i \in {j \in DOMAIN outcome[r] : program[j].do \in kinds /\ kept(j)}}
    IN  UNION {CASE m.do = "drop" -> named(m, {"lend", "make"})
                 [] m.do \in {"out", "self"} -> named(m, {"make"})
                 [] OTHER -> {m} : m \in bound.menu}

\* Mutant: only the calls that look for a window of the group's own find out
\* that the group is gone.
AliveForOwned(r, step) == step.do \in {"out", "self"} \/ ~ destroyed[r]

\* check_alive, before anything else a call does.
Alive(r, step) == ~ destroyed[r]

Take(r, step) ==
    \/ /\ step.do # "drop" /\ ~ Alive(r, step)
       /\ Done(r, "raised", 0)
       /\ UNCHANGED <<allocs, waiting, windows, lent, owned, held>>
    \/ step.do = "call" /\ Alive(r, step) /\ RoleCall(r, step)
    \/ step.do \in {"out", "self"} /\ Alive(r, step) /\ OutCall(r, step)
    \/ step.do = "lend" /\ Alive(r, step) /\ Lend(r, step)
    \/ step.do = "make" /\ Alive(r, step) /\ MakeOutput(r, step)
    \/ step.do = "drop" /\ DropTensor(r, step)

\* Rank r takes step i next: it is between two steps, and destroys its group
\* before those after.
At(r, i) ==
    /\ waiting[r] = <<>> /\ i = Len(outcome[r]) + 1
    /\ i <= bound.steps + (IF destroyed[r] THEN bound.late ELSE 0)

Lead(r) ==
    /\ At(r, Len(program) + 1)
    /\ \E step \in NextSteps(r) : program' = Append(program, step) /\ Take(r, step)
    /\ UNCHANGED <<bound, destroyed>>

Follow(r) ==
    /\ \E i \in DOMAIN program : At(r, i) /\ Take(r, program[i])
    /\ UNCHANGED <<bound, program, destroyed>>

\* The rendezvous of rank r's latest allocation returns once every rank has
\* come to the allocation of that number, and the call goes on.
Rendezvous(r) ==
    LET n == Len(allocs[r])
        where == waiting[r]
    IN  /\ where # <<>>
        /\ \A t \in Ranks : Len(allocs[t]) >= n
        /\ waiting' = [waiting EXCEPT ![r] = <<>>]
        /\ Done(r, "filled", n)
        /\ windows' = IF where[1] = "role" THEN [windows EXCEPT ![r][where[2]][where[3]] = n]
                                           ELSE windows
        /\ lent' = IF where[1] = "lent"
                   THEN [lent EXCEPT ![r][where[2]].slots =
                            IF where[3] > Len(@) THEN Append(@, n) ELSE [@ EXCEPT ![where[3]] = n]]
                   ELSE lent
        /\ owned' = IF where[1] = "owned" THEN [owned EXCEPT ![r] = @ \cup {n}] ELSE owned
        /\ held' = IF where[1] = "role" THEN held ELSE [held EXCEPT ![r] = @ \cup {n}]
        /\ UNCHANGED <<bound, program, allocs, destroyed>>

\* destroy, behind the barrier in which Python holds every rank until all have
\* come: the caller's buffers stay, everything else goes.
Destroy(r) ==
    /\ ~ destroyed[r] /\ \A t \in Ranks : Len(outcome[t]) >= bound.steps
    /\ destroyed' = [destroyed EXCEPT ![r] = TRUE]
    /\ windows' = [windows EXCEPT ![r] = [role \in Roles |-> [e \in Elems |-> 0]]]
    /\ lent' = [lent EXCEPT ![r] = [e \in Elems |-> [slots |-> <<>>, calls |-> 0]]]
    /\ owned' = Pruned(r)
    /\ UNCHANGED <<bound, program, outcome, allocs, waiting, held>>

Finished == \A r \in Ranks : destroyed[r] /\ Len(outcome[r]) = bound.steps + bound.late

Rest == Finished /\ UNCHANGED vars

Next == \/ \E r \in Ranks : Lead(r) \/ Follow(r) \/ Rendezvous(r) \/ Destroy(r)
        \/ Rest

Spec == Init /\ [][Next]_vars

\* A host keeps going; a rendezvous all ranks have come to returns.
Fairness == \A r \in Ranks : WF_vars(Lead(r) \/ Follow(r) \/ Rendezvous(r) \/ Destroy(r))

FairSpec == Spec /\ Fairness

------------------------------------------------------------------------------
(* Properties. *)

Fills(i) == program[i].do # "drop"
Filled(r, i) == outcome[r][i].what = "filled"

\* The shape of the state, and that every window referred to was allocated.
TypeOK ==
    \A r \in Ranks :
        /\ Len(outcome[r]) <= Len(program) /\ Len(program) <= bound.steps + bound.late
        /\ allocs[r] \in Seq(Nat \ {0})
        /\ Live(r) \subseteq 0 .. Len(allocs[r])
        /\ \A e \in Elems : Len(lent[r][e].slots) <= LentSlots

\* The n-th allocation has the same size on every rank, or the peers' offsets
\* into it would not line up.
SameAllocations ==
    \A r, t \in Ranks : \A n \in DOMAIN allocs[r] \cap DOMAIN allocs[t] : allocs[r][n] = allocs[t][n]

\* A call fills the same window on every rank, and is refused by all or none:
\* otherwise the ranks write past each other and wait on flags nobody sets.
SameWindow ==
    \A r, t \in Ranks : \A i \in DOMAIN outcome[r] \cap DOMAIN outcome[t] : outcome[r][i] = outcome[t][i]

\* What the peers write fits the window it is written into, on every path:
\* a role's window, one lent, and a caller's buffer of whatever dtype.
LargeEnough ==
    \A r \in Ranks : \A i \in DOMAIN outcome[r] :
        Filled(r, i) => Bytes(r, outcome[r][i].win) >= Need(r, program[i])

DroppedBefore(i, j) == \E k \in i + 1 .. j - 1 : program[k].do = "drop" /\ program[k].of = i

\* A window is lent again only after the result that had it was dropped.
LentExclusively ==
    \A r \in Ranks : \A i, j \in DOMAIN outcome[r] :
        /\ i < j /\ Filled(r, i) /\ program[i].do = "lend"
        /\ Filled(r, j) /\ program[j].do = "lend"
        /\ outcome[r][i].win = outcome[r][j].win
        => DroppedBefore(i, j)

\* A buffer of make_output stays a window of the group for as long as the
\* caller keeps it, whatever else is released, destroy included.
KeptBuffersStay ==
    \A r \in Ranks : \A i \in DOMAIN outcome[r] :
        /\ Filled(r, i) /\ program[i].do = "make" /\ outcome[r][i].win \in held[r]
        => outcome[r][i].win \in owned[r]

\* While a rank allocates it has given back all it can: the buffers the caller
\* has released, and the window the new one replaces, be it a role's or a slot's
\* of the rotation.
FreedBeforeAllocating ==
    \A r \in Ranks : waiting[r] # <<>> =>
        /\ owned[r] \subseteq held[r]
        /\ \A role \in Roles, e \in Elems : waiting[r] = <<"role", role, e>> => windows[r][role][e] = 0
        /\ \A e \in Elems : \A at \in DOMAIN lent[r][e].slots :
              waiting[r] = <<"lent", e, at>> => lent[r][e].slots[at] = 0

\* After destroy no call fills anything, the one path included that needs neither
\* a role's window nor an allocation: a buffer the caller kept, passed as out=.
\* It would run a whole collective on a group that is gone.
DestroyedIsFinal ==
    \A r \in Ranks : \A i \in DOMAIN outcome[r] :
        i > bound.steps /\ Fills(i) => ~ Filled(r, i)

\* Every step of the program is taken by every rank: no rank waits in a
\* rendezvous the others do not come to.
EverythingCompletes == <>Finished

\* What comments and docs say of the pool and the code does not do.

\* group.cc: "The pool fills before it rotates".
PoolFillsFirst == \A r \in Ranks : \A i \in DOMAIN outcome[r] : outcome[r][i].what # "stray"

\* api.md: a call raises when "every rank's shard [is] empty, so the call moves
\* no data".
EmptyCallRaises ==
    \A r \in Ranks : \A i \in DOMAIN outcome[r] :
        Fills(i) /\ Numel(r, program[i]) = 0 => outcome[r][i].what = "raised"
==============================================================================
