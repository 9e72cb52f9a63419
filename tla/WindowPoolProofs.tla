-------------------------- MODULE WindowPoolProofs ---------------------------
(***************************************************************************)
(* For any set of ranks, any menu of calls and any program of them: the    *)
(* ranks' pools agree without ever speaking to each other, and no window   *)
(* is lent, freed or filled while somebody else counts on it.              *)
(*                                                                         *)
(* A rank's pool is a function of the program and of how far the rank is   *)
(* in it, so ranks at different places can be compared: both are somewhere *)
(* on one history.  The first part of the module is that function; then    *)
(* what it keeps true of one rank; then the history.                       *)
(***************************************************************************)
EXTENDS WindowPool, FiniteSetTheorems, TLAPS

------------------------------------------------------------------------------
(* One rank's pool as a value, and each step as a function of it. *)

State(o, a, wt, win, le, ow, he) ==
    [outcome |-> o, allocs |-> a, waiting |-> wt, windows |-> win, lent |-> le, owned |-> ow, held |-> he]

Local(r) == State(outcome[r], allocs[r], waiting[r], windows[r], lent[r], owned[r], held[r])

NoWindows == [role \in Roles |-> [e \in Elems |-> 0]]
NoSlots == [e \in Elems |-> [slots |-> <<>>, calls |-> 0]]

Fresh == State(<<>>, <<>>, <<>>, NoWindows, NoSlots, {}, {})

Size(step) == Max({step.shard[t] : t \in Ranks})
Want(step) == Size(step) * step.elem

BytesIn(s, n) == IF n = 0 THEN 0 ELSE s.allocs[n]
Keep(s) == s.owned \cap s.held
Out(s, what, n) == Append(s.outcome, [what |-> what, win |-> n])

\* What a step that ends without an allocation leaves, and one that enters one.
Ended(s, what, n, win, le, he) == State(Out(s, what, n), s.allocs, <<>>, win, le, Keep(s), he)
Entered(s, step, where, win, le) ==
    State(s.outcome, Append(s.allocs, Want(step)), where, win, le, Keep(s), s.held)

RoleStep(s, step) ==
    LET old == s.windows[step.role][step.elem]
        without == [s.windows EXCEPT ![step.role][step.elem] = 0]
    IN  IF old # 0 /\ BytesIn(s, old) >= Want(step) THEN Ended(s, "filled", old, s.windows, s.lent, s.held)
        ELSE IF Size(step) = 0 THEN Ended(s, "raised", 0, without, s.lent, s.held)
        ELSE Entered(s, step, <<"role", step.role, step.elem>>, without, s.lent)

OutStep(s, step) ==
    LET n == s.outcome[step.of].win IN
    IF n \in s.owned /\ BytesIn(s, n) >= Want(step)
    THEN IF step.do = "out" THEN Ended(s, "filled", n, s.windows, s.lent, s.held)
                            ELSE Ended(s, "raised", 0, s.windows, s.lent, s.held)
    ELSE RoleStep(s, step)

MakeStep(s, step) ==
    IF Size(step) = 0 THEN Ended(s, "raised", 0, s.windows, s.lent, s.held)
    ELSE Entered(s, step, <<"owned">>, s.windows, s.lent)

Counted(s, e) == [s.lent EXCEPT ![e].calls = @ + 1]
EmptiedIn(s, e, at) == [Counted(s, e) EXCEPT ![e].slots[at] = 0]

LendStep(s, step) ==
    LET e == step.elem
        p == s.lent[e]
        at == SlotAt(p)
        n == p.slots[at]
        where == <<"lent", e, at>>
    IN  IF at > Len(p.slots) + 1 THEN Ended(s, "stray", 0, s.windows, Counted(s, e), s.held)
        ELSE IF at = Len(p.slots) + 1
        THEN IF Size(step) = 0 THEN Ended(s, "raised", 0, s.windows, Counted(s, e), s.held)
             ELSE Entered(s, step, where, s.windows, Counted(s, e))
        ELSE IF n \in s.held THEN Ended(s, "refused", 0, s.windows, Counted(s, e), s.held)
        ELSE IF BytesIn(s, n) >= Want(step)
        THEN Ended(s, "filled", n, s.windows, Counted(s, e), s.held \cup {n})
        ELSE Entered(s, step, where, s.windows, EmptiedIn(s, e, at))

DropStep(s, step) ==
    State(Out(s, "dropped", 0), s.allocs, <<>>, s.windows, s.lent, s.owned,
          s.held \ {s.outcome[step.of].win})

\* A step of the program, up to the allocation it may be held in.
Begin(s, step) ==
    CASE step.do = "call" -> RoleStep(s, step)
      [] step.do \in {"out", "self"} -> OutStep(s, step)
      [] step.do = "lend" -> LendStep(s, step)
      [] step.do = "make" -> MakeStep(s, step)
      [] step.do = "drop" -> DropStep(s, step)

\* The return from the allocation.
Back(s) ==
    LET n == Len(s.allocs)
        where == s.waiting
    IN  State(Out(s, "filled", n), s.allocs, <<>>,
              IF where[1] = "role" THEN [s.windows EXCEPT ![where[2]][where[3]] = n] ELSE s.windows,
              IF where[1] = "lent"
              THEN [s.lent EXCEPT ![where[2]].slots =
                       IF where[3] > Len(@) THEN Append(@, n) ELSE [@ EXCEPT ![where[3]] = n]]
              ELSE s.lent,
              IF where[1] = "owned" THEN s.owned \cup {n} ELSE s.owned,
              IF where[1] = "role" THEN s.held ELSE s.held \cup {n})

\* The whole of a step.
Through(s, step) ==
    LET t == Begin(s, step) IN IF t.waiting = <<>> THEN t ELSE Back(t)

\* destroy, and a step after it.
Gone(s) == State(s.outcome, s.allocs, s.waiting, NoWindows, NoSlots, Keep(s), s.held)
Late(s, step) ==
    IF step.do = "drop" THEN DropStep(s, step)
    ELSE State(Out(s, "raised", 0), s.allocs, <<>>, s.windows, s.lent, s.owned, s.held)

------------------------------------------------------------------------------
(* What holds of one rank's pool, told of the value. *)

Ends == [what : {"filled", "raised", "refused", "stray", "dropped"}, win : Nat]

Shape(s) ==
    /\ s.outcome \in Seq(Ends)
    /\ s.allocs \in Seq(Nat \ {0})
    /\ s.windows \in [Roles -> [Elems -> Nat]]
    /\ s.lent \in [Elems -> [slots : Seq(Nat), calls : Nat]]
    /\ s.owned \subseteq Nat /\ s.held \subseteq Nat
    /\ \A e \in Elems : Len(s.lent[e].slots) <= LentSlots

\* The windows there are: not the one still in its rendezvous.
Top(s) == IF s.waiting = <<>> THEN Len(s.allocs) ELSE Len(s.allocs) - 1

\* The slot that is being allocated, which is empty until then.
Pending(s, e, k) == s.waiting = <<"lent", e, k>>

Named(s) ==
    /\ \A i \in DOMAIN s.outcome :
          IF s.outcome[i].what = "filled" THEN s.outcome[i].win \in 1 .. Top(s) ELSE s.outcome[i].win = 0
    /\ \A role \in Roles, e \in Elems : s.windows[role][e] <= Top(s)
    /\ \A e \in Elems : \A k \in DOMAIN s.lent[e].slots :
          s.lent[e].slots[k] <= Top(s) /\ (s.lent[e].slots[k] = 0 => Pending(s, e, k))
    /\ s.owned \subseteq 1 .. Top(s) /\ s.held \subseteq 1 .. Top(s)

\* p is the program.
Waits(p, s) ==
    LET step == p[Len(s.outcome) + 1] IN
    s.waiting # <<>> =>
        /\ Len(s.outcome) + 1 \in DOMAIN p
        /\ Len(s.allocs) > 0 /\ s.allocs[Len(s.allocs)] = Want(step)
        /\ s.owned \subseteq s.held
        /\ \/ /\ s.waiting = <<"role", step.role, step.elem>> /\ step.do \in {"call", "out", "self"}
              /\ s.windows[step.role][step.elem] = 0
           \/ /\ step.do = "lend"
              /\ \E at \in 1 .. LentSlots :
                    /\ s.waiting = <<"lent", step.elem, at>>
                    /\ at <= Len(s.lent[step.elem].slots) + 1
                    /\ at \in DOMAIN s.lent[step.elem].slots => s.lent[step.elem].slots[at] = 0
           \/ s.waiting = <<"owned">> /\ step.do = "make"

FilledBy(p, s, i, do) == s.outcome[i].what = "filled" /\ p[i].do = do
DroppedIn(p, i, lo, hi) == \E k \in lo .. hi : p[k].do = "drop" /\ p[k].of = i

\* The caller's buffers and the lent windows are apart, for good.
Apart(p, s) ==
    \A i \in DOMAIN s.outcome : FilledBy(p, s, i, "make") =>
        /\ \A e \in Elems : \A k \in DOMAIN s.lent[e].slots : s.lent[e].slots[k] # s.outcome[i].win
        /\ \A j \in DOMAIN s.outcome : FilledBy(p, s, j, "lend") => s.outcome[j].win # s.outcome[i].win
        /\ s.outcome[i].win \in s.held => s.outcome[i].win \in s.owned

\* A lent result that was not dropped is held.
LentHeld(p, s) ==
    \A i \in DOMAIN s.outcome :
        FilledBy(p, s, i, "lend") /\ ~ DroppedIn(p, i, 1, Len(s.outcome)) => s.outcome[i].win \in s.held

LentOnce(p, s) ==
    \A i, j \in DOMAIN s.outcome :
        /\ i < j /\ FilledBy(p, s, i, "lend") /\ FilledBy(p, s, j, "lend")
        /\ s.outcome[i].win = s.outcome[j].win
        => DroppedIn(p, i, i + 1, j - 1)

Large(p, s) ==
    \A i \in DOMAIN s.outcome :
        s.outcome[i].what = "filled" => s.allocs[s.outcome[i].win] >= Want(p[i])

Good(p, s) ==
    /\ Shape(s) /\ Named(s) /\ Waits(p, s)
    /\ Apart(p, s) /\ LentHeld(p, s) /\ LentOnce(p, s) /\ Large(p, s)

\* From s to t by the beginning of a step: it has ended, or it allocates.
Ahead(s, t) ==
    \/ /\ t.waiting = <<>> /\ t.allocs = s.allocs
       /\ \E end \in Ends : t.outcome = Append(s.outcome, end)
    \/ /\ t.waiting # <<>> /\ t.outcome = s.outcome
       /\ \E n \in Nat \ {0} : t.allocs = Append(s.allocs, n)

------------------------------------------------------------------------------
(* The history. *)

\* A drop names a result or a buffer of an earlier step, and only once.
LegalStep(p, k) ==
    p[k].do = "drop" =>
        /\ p[k].of \in 1 .. k - 1
        /\ p[p[k].of].do \in {"lend", "make"}
        /\ \A j \in 1 .. k - 1 : ~ (p[j].do = "drop" /\ p[j].of = p[k].of)

IsStep(step) == step \in Items /\ step.elem \in Elems

\* How far a program p goes before destroy, in bound b.
Before(p, b) == IF Len(p) <= b.steps THEN Len(p) ELSE b.steps

Prefix(x, y) == Len(x) <= Len(y) /\ \A i \in 1 .. Len(x) : x[i] = y[i]

\* h[i] is every rank's pool after i steps of p.
IsHistory(h, p, b) ==
    /\ h[0] = Fresh
    /\ \A i \in 1 .. Before(p, b) : h[i] = Through(h[i - 1], p[i])
    /\ \A i \in 0 .. Before(p, b) :
          /\ h[i].waiting = <<>> /\ Len(h[i].outcome) = i
          /\ h[i].outcome \in Seq(Ends) /\ h[i].allocs \in Seq(Nat \ {0})
    /\ \A i \in 0 .. Before(p, b) : \A j \in i .. Before(p, b) :
          Prefix(h[i].outcome, h[j].outcome) /\ Prefix(h[i].allocs, h[j].allocs)

\* After destroy a step comes to one end only.
LateEnd(step) == [what |-> IF step.do = "drop" THEN "dropped" ELSE "raised", win |-> 0]

\* Where on it a rank is whose pool is s, and which has or has not destroyed it.
On(h, p, b, gone, s) ==
    LET i == Len(s.outcome) IN
    IF ~ gone
    THEN /\ i <= Before(p, b)
         /\ IF s.waiting = <<>> THEN s = h[i] ELSE i < Before(p, b) /\ s = Begin(h[i], p[i + 1])
    ELSE /\ Before(p, b) = b.steps /\ i >= b.steps /\ s.waiting = <<>>
         /\ s.allocs = h[b.steps].allocs
         /\ \A k \in 1 .. i :
               s.outcome[k] = IF k <= b.steps THEN h[b.steps].outcome[k] ELSE LateEnd(p[k])

Domains ==
    /\ DOMAIN outcome = Ranks /\ DOMAIN allocs = Ranks /\ DOMAIN waiting = Ranks
    /\ DOMAIN windows = Ranks /\ DOMAIN lent = Ranks /\ DOMAIN owned = Ranks /\ DOMAIN held = Ranks

\* g is f with the value v at r.
Sets(f, g, r, v) == DOMAIN g = Ranks /\ g[r] = v /\ \A t \in Ranks \ {r} : g[t] = f[t]

\* A step takes the pool of rank r to v, and no other.
Moves(r, v) == Local(r)' = v /\ (\A t \in Ranks \ {r} : Local(t)' = Local(t)) /\ Domains'

\* A program of bound b.
IsProgram(p, b) ==
    /\ p \in Seq(Items) /\ Len(p) <= b.steps + b.late
    /\ \A k \in 1 .. Len(p) : IsStep(p[k]) /\ LegalStep(p, k)

\* q is p and one step more.
Grows(p, q) == q \in Seq(Items) /\ Len(q) = Len(p) + 1 /\ \A k \in 1 .. Len(p) : q[k] = p[k]

Typing ==
    /\ bound \in Bounds /\ IsProgram(program, bound)
    /\ Domains /\ destroyed \in [Ranks -> BOOLEAN]

\* Rank r has a good pool, and is somewhere on the history h.
Fine(h, p, b, gone, s) == Len(s.outcome) <= Len(p) /\ Good(p, s) /\ On(h, p, b, gone, s)

IInv ==
    /\ Typing
    /\ \E h : /\ IsHistory(h, program, bound)
              /\ \A r \in Ranks : Fine(h, program, bound, destroyed[r], Local(r))

------------------------------------------------------------------------------
(* Sizes. *)

\* A finite set of sizes has a largest element.
LEMMA MaxIn ==
    ASSUME NEW S \in SUBSET Nat, S # {}, IsFiniteSet(S)
    PROVE  Max(S) \in S
<1> DEFINE from(x) == {y \in S : x <= y}
           family == {from(x) : x \in S}
<1>1. \E T \in family : \A U \in family : ~ (<<U, T>> \in StrictSubsetOrdering(S))
  <2>1. IsWellFoundedOn(StrictSubsetOrdering(S), SUBSET S)
    BY FS_StrictSubsetOrderingWellFounded, FS_FiniteSubsetsOfFinite
  <2>2. PICK x \in S : TRUE
    OBVIOUS
  <2>3. family \subseteq SUBSET S /\ from(x) \in family
    OBVIOUS
  <2> HIDE DEF family, from
  <2>4. QED  BY <2>1, <2>3, WFMin
<1>2. PICK x \in S : \A U \in family : ~ (<<U, from(x)>> \in StrictSubsetOrdering(S))
  BY <1>1
<1>3. ASSUME NEW y \in S, ~ (y <= x)  PROVE FALSE
  <2>1. x \in Nat /\ y \in Nat /\ x < y
    BY <1>3
  <2>2. \A z \in S : z \in Nat /\ (y <= z => x <= z)
    BY <2>1
  <2>3. from(y) \subseteq from(x) /\ from(x) \subseteq S
    BY <2>2
  <2>4. x \in from(x) /\ x \notin from(y)
    BY <2>1
  <2>5. <<from(y), from(x)>> \in StrictSubsetOrdering(S)
    BY <2>3, <2>4 DEF StrictSubsetOrdering
  <2>6. QED  BY <1>2, <1>3, <2>5
<1>4. \E z \in S : \A y \in S : z >= y
  BY <1>3
<1> QED
  BY <1>4 DEF Max

\* What a call needs is a number, and nothing only when it moves nothing.
LEMMA WantNat ==
    ASSUME NEW step, IsStep(step)
    PROVE  /\ Size(step) \in Nat /\ Want(step) \in Nat
           /\ Size(step) # 0 => Want(step) \in Nat \ {0}
           /\ \A r \in Ranks : Numel(r, step) = Size(step) /\ Need(r, step) = Want(step)
<1> DEFINE shards == {step.shard[t] : t \in Ranks}
<1>1. step.shard \in [Ranks -> Nat] /\ step.elem \in Nat \ {0}
  BY DEF IsStep, Items
<1>2. shards \in SUBSET Nat /\ shards # {}
  BY <1>1, PoolAssumption
<1>3. IsFiniteSet(shards)
  <2>1. step.shard \in Surjection(Ranks, shards)
    BY <1>1 DEF Surjection
  <2>2. QED  BY <2>1, PoolAssumption, FS_Surjection
<1>4. Size(step) \in Nat
  BY <1>2, <1>3, MaxIn DEF Size
<1>5. \A a, b \in Nat : a * b \in Nat /\ (a # 0 /\ b # 0 => a * b # 0)
  OBVIOUS
<1>6. QED  BY <1>1, <1>4, <1>5 DEF Want, Numel, Need, Size

\* The rotation stays in the pool.
LEMMA SlotAtRange ==
    ASSUME NEW pool, pool.calls \in Nat
    PROVE  SlotAt(pool) \in 1 .. LentSlots
<1>1. pool.calls % LentSlots \in 0 .. LentSlots - 1
  BY PoolAssumption
<1> QED
  BY <1>1, PoolAssumption DEF SlotAt

\* A sequence with one element more.
LEMMA AppendIs ==
    ASSUME NEW T, NEW q \in Seq(T), NEW x \in T
    PROVE  /\ Append(q, x) \in Seq(T) /\ Len(Append(q, x)) = Len(q) + 1
           /\ DOMAIN Append(q, x) = 1 .. Len(q) + 1 /\ DOMAIN q = 1 .. Len(q) /\ Len(q) \in Nat
           /\ \A i \in 1 .. Len(q) : Append(q, x)[i] = q[i]
           /\ Append(q, x)[Len(q) + 1] = x
OBVIOUS

------------------------------------------------------------------------------
(* What a step keeps true of one rank's pool. *)

LEMMA Fields ==
    ASSUME NEW o, NEW a, NEW wt, NEW win, NEW le, NEW ow, NEW he
    PROVE  LET s == State(o, a, wt, win, le, ow, he) IN
           /\ s.outcome = o /\ s.allocs = a /\ s.waiting = wt /\ s.windows = win
           /\ s.lent = le /\ s.owned = ow /\ s.held = he
BY DEF State

\* What a step leaves that ends at once, that enters an allocation, and that
\* returns from one.
LEMMA EndedIs ==
    ASSUME NEW s, NEW what, NEW n, NEW win, NEW le, NEW he
    PROVE  LET t == Ended(s, what, n, win, le, he) IN
           /\ t.outcome = Out(s, what, n) /\ t.allocs = s.allocs /\ t.waiting = <<>> /\ t.windows = win
           /\ t.lent = le /\ t.owned = Keep(s) /\ t.held = he
BY Fields DEF Ended

LEMMA EnteredIs ==
    ASSUME NEW s, NEW step, NEW where, NEW win, NEW le
    PROVE  LET t == Entered(s, step, where, win, le) IN
           /\ t.outcome = s.outcome /\ t.allocs = Append(s.allocs, Want(step)) /\ t.waiting = where
           /\ t.windows = win /\ t.lent = le /\ t.owned = Keep(s) /\ t.held = s.held
<1> DEFINE a == Append(s.allocs, Want(step))
           t == Entered(s, step, where, win, le)
<1>1. t = State(s.outcome, a, where, win, le, Keep(s), s.held)
  BY DEF Entered
<1> HIDE DEF a, t
<1>2. /\ t.outcome = s.outcome /\ t.allocs = a /\ t.waiting = where /\ t.windows = win
      /\ t.lent = le /\ t.owned = Keep(s) /\ t.held = s.held
  BY <1>1, Fields, SMTT(60)
<1> QED
  BY <1>2 DEF a, t

LEMMA BackIs ==
    ASSUME NEW s
    PROVE  LET t == Back(s)
               n == Len(s.allocs)
               where == s.waiting
           IN  /\ t.outcome = Out(s, "filled", n) /\ t.allocs = s.allocs /\ t.waiting = <<>>
               /\ t.windows = IF where[1] = "role" THEN [s.windows EXCEPT ![where[2]][where[3]] = n]
                                                  ELSE s.windows
               /\ t.lent = IF where[1] = "lent"
                           THEN [s.lent EXCEPT ![where[2]].slots =
                                   IF where[3] > Len(@) THEN Append(@, n) ELSE [@ EXCEPT ![where[3]] = n]]
                           ELSE s.lent
               /\ t.owned = IF where[1] = "owned" THEN s.owned \cup {n} ELSE s.owned
               /\ t.held = IF where[1] = "role" THEN s.held ELSE s.held \cup {n}
BY Fields DEF Back

\* The outcome of a step is put behind those of the earlier ones.
LEMMA OutIs ==
    ASSUME NEW s, s.outcome \in Seq(Ends), NEW n \in Nat,
           NEW what \in {"filled", "raised", "refused", "stray", "dropped"}
    PROVE  /\ Out(s, what, n) \in Seq(Ends) /\ Len(Out(s, what, n)) = Len(s.outcome) + 1
           /\ DOMAIN Out(s, what, n) = 1 .. Len(s.outcome) + 1
           /\ DOMAIN s.outcome = 1 .. Len(s.outcome) /\ Len(s.outcome) \in Nat
           /\ \A i \in 1 .. Len(s.outcome) : Out(s, what, n)[i] = s.outcome[i]
           /\ Out(s, what, n)[Len(s.outcome) + 1].what = what
           /\ Out(s, what, n)[Len(s.outcome) + 1].win = n
<1> DEFINE x == [what |-> what, win |-> n]
<1>1. x \in Ends /\ x.what = what /\ x.win = n
  BY DEF Ends
<1>2. Out(s, what, n) = Append(s.outcome, x)
  BY DEF Out
<1> HIDE DEF x
<1> QED
  BY <1>1, <1>2, AppendIs

\* A step that fills nothing leaves a good pool, when what it gives back is
\* not a lent result.
LEMMA Quiet ==
    ASSUME NEW p, NEW s, Good(p, s), s.waiting = <<>>,
           NEW what \in {"raised", "refused", "stray", "dropped"},
           NEW win \in [Roles -> [Elems -> Nat]],
           \A role \in Roles, e \in Elems : win[role][e] <= s.windows[role][e],
           NEW le \in [Elems -> [slots : Seq(Nat), calls : Nat]],
           \A e \in Elems : le[e].slots = s.lent[e].slots,
           NEW he \in SUBSET s.held, NEW ow \in SUBSET s.owned, s.owned \cap he \subseteq ow,
           LentHeld(p, State(Out(s, what, 0), s.allocs, <<>>, win, le, ow, he))
    PROVE  Good(p, State(Out(s, what, 0), s.allocs, <<>>, win, le, ow, he))
<1> DEFINE t == State(Out(s, what, 0), s.allocs, <<>>, win, le, ow, he)
           n == Len(s.outcome)
<1>1. /\ t.outcome = Out(s, what, 0) /\ t.allocs = s.allocs /\ t.waiting = <<>> /\ t.windows = win
      /\ t.lent = le /\ t.owned = ow /\ t.held = he
  BY Fields
<1> HIDE DEF t
<1>2. /\ t.outcome \in Seq(Ends) /\ Len(t.outcome) = n + 1 /\ n \in Nat
      /\ DOMAIN t.outcome = 1 .. n + 1 /\ DOMAIN s.outcome = 1 .. n
      /\ \A i \in 1 .. n : t.outcome[i] = s.outcome[i]
      /\ t.outcome[n + 1].what # "filled" /\ t.outcome[n + 1].win = 0
  <2>1. s.outcome \in Seq(Ends)
    BY DEF Good, Shape
  <2>2. QED  BY <1>1, <2>1, OutIs, SMTT(60)
<1>3. \A i \in DOMAIN t.outcome :
          \/ i \in DOMAIN s.outcome /\ t.outcome[i] = s.outcome[i]
          \/ t.outcome[i].what # "filled" /\ t.outcome[i].win = 0
  BY <1>2
<1>4. Shape(t)
  BY <1>1, <1>2 DEF Good, Shape
<1>5. Named(t)
  <2>1. Top(t) = Len(s.allocs) /\ Top(s) = Len(s.allocs) /\ Len(s.allocs) \in Nat
    BY <1>1 DEF Top, Good, Shape
  <2>2. \A i \in DOMAIN t.outcome :
           IF t.outcome[i].what = "filled" THEN t.outcome[i].win \in 1 .. Top(t) ELSE t.outcome[i].win = 0
    BY <1>3, <2>1 DEF Good, Named
  <2>3. \A role \in Roles, e \in Elems : t.windows[role][e] <= Top(t)
    <3> TAKE role \in Roles, e \in Elems
    <3>1. win[role][e] <= s.windows[role][e] /\ s.windows[role][e] <= Top(s)
      BY DEF Good, Named
    <3>2. win[role][e] \in Nat /\ s.windows[role][e] \in Nat
      BY DEF Good, Shape
    <3>3. QED  BY <1>1, <2>1, <3>1, <3>2
  <2>4. \A e \in Elems : \A k \in DOMAIN t.lent[e].slots :
           t.lent[e].slots[k] <= Top(t) /\ (t.lent[e].slots[k] = 0 => Pending(t, e, k))
    <3>1. \A e, k : ~ Pending(s, e, k)
      BY DEF Pending
    <3>2. QED  BY <1>1, <2>1, <3>1, ZenonT(60) DEF Good, Named
  <2>5. t.owned \subseteq 1 .. Top(t) /\ t.held \subseteq 1 .. Top(t)
    BY <1>1, <2>1 DEF Good, Named
  <2>6. QED  BY <2>2, <2>3, <2>4, <2>5 DEF Named
<1>6. Waits(p, t)
  BY <1>1 DEF Waits
<1>7. Apart(p, t)
  <2> SUFFICES ASSUME NEW i \in DOMAIN t.outcome, FilledBy(p, t, i, "make")
               PROVE  /\ \A e \in Elems : \A k \in DOMAIN t.lent[e].slots :
                            t.lent[e].slots[k] # t.outcome[i].win
                      /\ \A j \in DOMAIN t.outcome :
                            FilledBy(p, t, j, "lend") => t.outcome[j].win # t.outcome[i].win
                      /\ t.outcome[i].win \in t.held => t.outcome[i].win \in t.owned
    BY DEF Apart
  <2>1. i \in DOMAIN s.outcome /\ t.outcome[i] = s.outcome[i] /\ FilledBy(p, s, i, "make")
    BY <1>3 DEF FilledBy
  <2>2. \A e \in Elems : \A k \in DOMAIN t.lent[e].slots : t.lent[e].slots[k] # t.outcome[i].win
    <3>1. \A e \in Elems : t.lent[e].slots = s.lent[e].slots
      BY <1>1
    <3>2. QED  BY <2>1, <3>1, ZenonT(60) DEF Good, Apart
  <2>3. ASSUME NEW j \in DOMAIN t.outcome, FilledBy(p, t, j, "lend")
        PROVE  t.outcome[j].win # t.outcome[i].win
    BY <1>3, <2>1, <2>3 DEF Good, Apart, FilledBy
  <2>4. t.outcome[i].win \in t.held => t.outcome[i].win \in t.owned
    BY <1>1, <2>1 DEF Good, Apart
  <2>5. QED  BY <2>2, <2>3, <2>4
<1>8. LentOnce(p, t)
  BY <1>3 DEF Good, LentOnce, FilledBy
<1>9. Large(p, t)
  BY <1>1, <1>3 DEF Good, Large
<1>10. LentHeld(p, t)
  BY DEF t
<1> QED
  BY <1>4, <1>5, <1>6, <1>7, <1>8, <1>9, <1>10 DEF Good, t

\* A step that is no drop keeps the lent results that were not dropped.
LEMMA StillHeld ==
    ASSUME NEW p, NEW s, Good(p, s), NEW t,
           t.outcome \in Seq(Ends), Len(t.outcome) = Len(s.outcome) + 1,
           \A i \in 1 .. Len(s.outcome) : t.outcome[i] = s.outcome[i],
           s.held \subseteq t.held,
           FilledBy(p, t, Len(t.outcome), "lend") => t.outcome[Len(t.outcome)].win \in t.held
    PROVE  LentHeld(p, t)
<1> SUFFICES ASSUME NEW i \in DOMAIN t.outcome, FilledBy(p, t, i, "lend"),
                    ~ DroppedIn(p, i, 1, Len(t.outcome))
             PROVE  t.outcome[i].win \in t.held
  BY DEF LentHeld
<1>1. s.outcome \in Seq(Ends) /\ Len(s.outcome) \in Nat
  BY DEF Good, Shape
<1>2. CASE i = Len(t.outcome)
  BY <1>2
<1>3. CASE i # Len(t.outcome)
  <2>1. i \in 1 .. Len(s.outcome) /\ i \in DOMAIN s.outcome
    BY <1>1, <1>3
  <2>2. FilledBy(p, s, i, "lend")
    BY <2>1 DEF FilledBy
  <2>3. ~ DroppedIn(p, i, 1, Len(s.outcome))
    BY <1>1 DEF DroppedIn
  <2>4. QED  BY <2>1, <2>2, <2>3 DEF Good, LentHeld
<1> QED
  BY <1>2, <1>3

\* A step that fills a window there is leaves a good pool: a lent one nobody
\* holds, or any other.
LEMMA Fill ==
    ASSUME NEW p, NEW s, Good(p, s), s.waiting = <<>>,
           p[Len(s.outcome) + 1].do \in {"call", "out", "self", "lend"},
           \A k \in 1 .. Len(s.outcome) : LegalStep(p, k),
           NEW n \in 1 .. Len(s.allocs), s.allocs[n] >= Want(p[Len(s.outcome) + 1]),
           NEW le \in [Elems -> [slots : Seq(Nat), calls : Nat]],
           \A e \in Elems : le[e].slots = s.lent[e].slots,
           NEW he,
           p[Len(s.outcome) + 1].do # "lend" => he = s.held,
           p[Len(s.outcome) + 1].do = "lend" =>
              /\ he = s.held \cup {n} /\ n \notin s.held
              /\ \E e \in Elems : \E k \in DOMAIN s.lent[e].slots : s.lent[e].slots[k] = n
    PROVE  Good(p, Ended(s, "filled", n, s.windows, le, he))
<1> DEFINE t == Ended(s, "filled", n, s.windows, le, he)
           m == Len(s.outcome) + 1
<1>1. /\ t.outcome = Out(s, "filled", n) /\ t.allocs = s.allocs /\ t.waiting = <<>> /\ t.windows = s.windows
      /\ t.lent = le /\ t.owned = Keep(s) /\ t.held = he
  BY Fields DEF Ended
<1> HIDE DEF t
<1>2. /\ t.outcome \in Seq(Ends) /\ Len(t.outcome) = m /\ m - 1 \in Nat
      /\ DOMAIN t.outcome = 1 .. m /\ DOMAIN s.outcome = 1 .. m - 1
      /\ \A i \in 1 .. m - 1 : t.outcome[i] = s.outcome[i]
      /\ t.outcome[m].what = "filled" /\ t.outcome[m].win = n
      /\ s.allocs \in Seq(Nat \ {0}) /\ Len(s.allocs) \in Nat
  <2>1. s.outcome \in Seq(Ends) /\ s.allocs \in Seq(Nat \ {0}) /\ Len(s.allocs) \in Nat /\ n \in Nat
    BY DEF Good, Shape
  <2>2. QED  BY <1>1, <2>1, OutIs
<1>3. \A i \in DOMAIN t.outcome : i = m \/ (i \in DOMAIN s.outcome /\ t.outcome[i] = s.outcome[i])
  BY <1>2
<1>4. s.held \subseteq he /\ he \subseteq s.held \cup {n}
  OBVIOUS
<1>5. Shape(t)
  BY <1>1, <1>2, <1>4, SMTT(60) DEF Good, Shape, Keep
<1>6. Named(t)
  <2>1. Top(t) = Len(s.allocs) /\ Top(s) = Len(s.allocs)
    BY <1>1 DEF Top
  <2>2. \A i \in DOMAIN t.outcome :
           IF t.outcome[i].what = "filled" THEN t.outcome[i].win \in 1 .. Top(t) ELSE t.outcome[i].win = 0
    BY <1>2, <1>3, <2>1, ZenonT(60) DEF Good, Named
  <2>3. \A role \in Roles, e \in Elems : t.windows[role][e] <= Top(t)
    BY <1>1, <2>1 DEF Good, Named
  <2>4. \A e \in Elems : \A k \in DOMAIN t.lent[e].slots :
           t.lent[e].slots[k] <= Top(t) /\ (t.lent[e].slots[k] = 0 => Pending(t, e, k))
    <3>1. \A e, k : ~ Pending(s, e, k)
      BY DEF Pending
    <3>2. \A e \in Elems : t.lent[e].slots = s.lent[e].slots
      BY <1>1
    <3>3. QED  BY <2>1, <3>1, <3>2, ZenonT(60) DEF Good, Named
  <2>5. t.owned \subseteq 1 .. Top(t) /\ t.held \subseteq 1 .. Top(t)
    BY <1>1, <1>4, <2>1 DEF Good, Named, Keep
  <2>6. QED  BY <2>2, <2>3, <2>4, <2>5 DEF Named
<1>7. Waits(p, t)
  BY <1>1 DEF Waits
<1>8. Apart(p, t)
  <2> SUFFICES ASSUME NEW i \in DOMAIN t.outcome, FilledBy(p, t, i, "make")
               PROVE  /\ \A e \in Elems : \A k \in DOMAIN t.lent[e].slots :
                            t.lent[e].slots[k] # t.outcome[i].win
                      /\ \A j \in DOMAIN t.outcome :
                            FilledBy(p, t, j, "lend") => t.outcome[j].win # t.outcome[i].win
                      /\ t.outcome[i].win \in t.held => t.outcome[i].win \in t.owned
    BY DEF Apart
  <2>1. i \in DOMAIN s.outcome /\ t.outcome[i] = s.outcome[i] /\ FilledBy(p, s, i, "make")
    BY <1>3 DEF FilledBy
  <2>2. \A e \in Elems : \A k \in DOMAIN t.lent[e].slots : t.lent[e].slots[k] # t.outcome[i].win
    <3> TAKE e \in Elems
    <3> TAKE k \in DOMAIN t.lent[e].slots
    <3>1. t.lent[e].slots = s.lent[e].slots
      BY <1>1
    <3>2. s.lent[e].slots[k] # s.outcome[i].win
      BY <2>1, <3>1 DEF Good, Apart
    <3>3. QED  BY <2>1, <3>1, <3>2
  <2>3. p[m].do = "lend" => n # t.outcome[i].win
    BY <2>1 DEF Good, Apart
  <2>4. ASSUME NEW j \in DOMAIN t.outcome, FilledBy(p, t, j, "lend")
        PROVE  t.outcome[j].win # t.outcome[i].win
    <3>1. CASE j = m
      BY <1>2, <2>3, <2>4, <3>1 DEF FilledBy
    <3>2. CASE j # m
      <4>1. j \in DOMAIN s.outcome /\ t.outcome[j] = s.outcome[j] /\ FilledBy(p, s, j, "lend")
        BY <1>3, <2>4, <3>2 DEF FilledBy
      <4>2. QED  BY <2>1, <4>1 DEF Good, Apart
    <3>3. QED  BY <3>1, <3>2
  <2>5. t.outcome[i].win \in t.held => t.outcome[i].win \in t.owned
    BY <1>1, <2>1, <2>3 DEF Good, Apart, Keep
  <2>6. QED  BY <2>2, <2>4, <2>5
<1>9. LentHeld(p, t)
  BY <1>1, <1>2, <1>4, StillHeld, SMTT(60) DEF FilledBy
<1>10. LentOnce(p, t)
  <2> SUFFICES ASSUME NEW i \in DOMAIN t.outcome, NEW j \in DOMAIN t.outcome, i < j,
                      FilledBy(p, t, i, "lend"), FilledBy(p, t, j, "lend"),
                      t.outcome[i].win = t.outcome[j].win
               PROVE  DroppedIn(p, i, i + 1, j - 1)
    BY DEF LentOnce
  <2>1. i \in DOMAIN s.outcome /\ t.outcome[i] = s.outcome[i] /\ FilledBy(p, s, i, "lend")
    BY <1>2, <1>3, SMTT(60) DEF FilledBy
  <2>2. CASE j # m
    <3>1. j \in DOMAIN s.outcome /\ t.outcome[j] = s.outcome[j] /\ FilledBy(p, s, j, "lend")
      BY <1>3, <2>2 DEF FilledBy
    <3>2. QED  BY <2>1, <3>1 DEF Good, LentOnce
  <2>3. CASE j = m
    <3>1. s.outcome[i].win \notin s.held
      BY <1>2, <2>1, <2>3 DEF FilledBy
    <3>2. PICK k \in 1 .. m - 1 : p[k].do = "drop" /\ p[k].of = i
      BY <1>2, <2>1, <3>1 DEF Good, LentHeld, DroppedIn
    <3>3. i \in 1 .. k - 1
      BY <3>2, <1>2, SMTT(60) DEF LegalStep
    <3>4. k \in i + 1 .. j - 1
      BY <1>2, <2>3, <3>2, <3>3
    <3>5. QED  BY <3>2, <3>4 DEF DroppedIn
  <2>4. QED  BY <2>2, <2>3
<1>11. Large(p, t)
  BY <1>1, <1>2, <1>3 DEF Good, Large
<1> QED
  BY <1>5, <1>6, <1>7, <1>8, <1>9, <1>10, <1>11 DEF Good, t

\* A step that enters an allocation leaves a good pool, with a slot or a role
\* emptied for the new window.
LEMMA Enters ==
    ASSUME NEW p, NEW s, Good(p, s), s.waiting = <<>>,
           NEW m, m = Len(s.outcome) + 1, m \in DOMAIN p, Want(p[m]) \in Nat \ {0},
           NEW where, where # <<>>,
           NEW win \in [Roles -> [Elems -> Nat]],
           \A role \in Roles, e \in Elems : win[role][e] <= s.windows[role][e],
           NEW le \in [Elems -> [slots : Seq(Nat), calls : Nat]],
           \A e \in Elems :
              /\ Len(le[e].slots) = Len(s.lent[e].slots)
              /\ \A k \in DOMAIN s.lent[e].slots :
                    \/ le[e].slots[k] = s.lent[e].slots[k]
                    \/ le[e].slots[k] = 0 /\ where = <<"lent", e, k>>,
           \/ /\ where = <<"role", p[m].role, p[m].elem>> /\ p[m].do \in {"call", "out", "self"}
              /\ win[p[m].role][p[m].elem] = 0
           \/ /\ p[m].do = "lend"
              /\ \E at \in 1 .. LentSlots :
                    /\ where = <<"lent", p[m].elem, at>> /\ at <= Len(le[p[m].elem].slots) + 1
                    /\ at \in DOMAIN le[p[m].elem].slots => le[p[m].elem].slots[at] = 0
           \/ where = <<"owned">> /\ p[m].do = "make"
    PROVE  Good(p, Entered(s, p[m], where, win, le))
<1> DEFINE t == Entered(s, p[m], where, win, le)
           n == Len(s.allocs)
<1>1. /\ t.outcome = s.outcome /\ t.allocs = Append(s.allocs, Want(p[m])) /\ t.waiting = where
      /\ t.windows = win /\ t.lent = le /\ t.owned = Keep(s) /\ t.held = s.held
  BY EnteredIs
<1> HIDE DEF t
<1>2. /\ s.outcome \in Seq(Ends) /\ n \in Nat
      /\ t.allocs \in Seq(Nat \ {0}) /\ Len(t.allocs) = n + 1 /\ t.allocs[n + 1] = Want(p[m])
      /\ \A i \in 1 .. n : t.allocs[i] = s.allocs[i]
  <2>1. s.outcome \in Seq(Ends) /\ s.allocs \in Seq(Nat \ {0})
    BY DEF Good, Shape
  <2>2. QED  BY <1>1, <2>1, AppendIs, SMTT(60)
<1>3. Top(t) = n /\ Top(s) = n
  BY <1>1, <1>2 DEF Top
<1>4. \A e \in Elems : DOMAIN t.lent[e].slots = DOMAIN s.lent[e].slots
  <2> TAKE e \in Elems
  <2>1. t.lent[e].slots \in Seq(Nat) /\ s.lent[e].slots \in Seq(Nat)
        /\ Len(t.lent[e].slots) = Len(s.lent[e].slots)
    BY <1>1 DEF Good, Shape
  <2>2. QED  BY <2>1, SMTT(60)
<1>5. Shape(t)
  BY <1>1, <1>2, SMTT(60) DEF Good, Shape, Keep
<1>6. Named(t)
  <2>1. \A i \in DOMAIN t.outcome :
           IF t.outcome[i].what = "filled" THEN t.outcome[i].win \in 1 .. Top(t) ELSE t.outcome[i].win = 0
    BY <1>1, <1>3 DEF Good, Named
  <2>2. \A role \in Roles, e \in Elems : t.windows[role][e] <= Top(t)
    <3> TAKE role \in Roles, e \in Elems
    <3>1. win[role][e] <= s.windows[role][e] /\ s.windows[role][e] <= n
      BY <1>3 DEF Good, Named
    <3>2. win[role][e] \in Nat /\ s.windows[role][e] \in Nat
      BY SMTT(60) DEF Good, Shape
    <3>3. QED  BY <1>1, <1>2, <1>3, <3>1, <3>2, SMTT(60)
  <2>3. \A e \in Elems : \A k \in DOMAIN t.lent[e].slots :
           t.lent[e].slots[k] <= Top(t) /\ (t.lent[e].slots[k] = 0 => Pending(t, e, k))
    <3> TAKE e \in Elems
    <3> TAKE k \in DOMAIN t.lent[e].slots
    <3>1. s.lent[e].slots[k] <= n /\ s.lent[e].slots[k] # 0
      BY <1>3, <1>4, SMTT(60) DEF Good, Named, Pending
    <3>2. t.lent[e].slots[k] = s.lent[e].slots[k] \/ (t.lent[e].slots[k] = 0 /\ where = <<"lent", e, k>>)
      BY <1>1, <1>4
    <3>3. QED  BY <1>1, <1>2, <1>3, <3>1, <3>2, SMTT(60) DEF Pending
  <2>4. t.owned \subseteq 1 .. Top(t) /\ t.held \subseteq 1 .. Top(t)
    BY <1>1, <1>3 DEF Good, Named, Keep
  <2>5. QED  BY <2>1, <2>2, <2>3, <2>4, SMTT(60) DEF Named
<1>7. Waits(p, t)
  <2>1. Len(t.outcome) + 1 = m /\ Len(t.allocs) > 0 /\ t.allocs[Len(t.allocs)] = Want(p[m])
    BY <1>1, <1>2
  <2>2. t.owned \subseteq t.held
    BY <1>1 DEF Keep
  <2>3. QED  BY <1>1, <2>1, <2>2 DEF Waits
<1>8. Apart(p, t)
  <2> SUFFICES ASSUME NEW i \in DOMAIN s.outcome, FilledBy(p, s, i, "make")
               PROVE  /\ \A e \in Elems : \A k \in DOMAIN t.lent[e].slots :
                            t.lent[e].slots[k] # s.outcome[i].win
                      /\ \A j \in DOMAIN s.outcome :
                            FilledBy(p, s, j, "lend") => s.outcome[j].win # s.outcome[i].win
                      /\ s.outcome[i].win \in s.held => s.outcome[i].win \in Keep(s)
    BY <1>1 DEF Apart, FilledBy
  <2>1. s.outcome[i].win # 0
    BY <1>2, <1>3, SMTT(60) DEF Good, Named, FilledBy
  <2>2. ASSUME NEW e \in Elems, NEW k \in DOMAIN t.lent[e].slots
        PROVE  t.lent[e].slots[k] # s.outcome[i].win
    <3>1. s.lent[e].slots[k] # s.outcome[i].win
      BY <1>4, ZenonT(60) DEF Good, Apart
    <3>2. t.lent[e].slots[k] = s.lent[e].slots[k] \/ t.lent[e].slots[k] = 0
      BY <1>1, <1>4
    <3>3. QED  BY <2>1, <3>1, <3>2
  <2>3. QED  BY <2>2 DEF Good, Apart, Keep
<1>9. LentHeld(p, t) /\ LentOnce(p, t)
  BY <1>1 DEF Good, LentHeld, LentOnce, FilledBy
<1>10. Large(p, t)
  <2> SUFFICES ASSUME NEW i \in DOMAIN s.outcome, s.outcome[i].what = "filled"
               PROVE  t.allocs[s.outcome[i].win] >= Want(p[i])
    BY <1>1 DEF Large
  <2>1. s.outcome[i].win \in 1 .. n
    BY <1>3 DEF Good, Named
  <2>2. QED  BY <1>2, <2>1 DEF Good, Large
<1> QED
  BY <1>5, <1>6, <1>7, <1>8, <1>9, <1>10 DEF Good, t

\* The slot of a lent window takes the new one, the pool no longer than it may be.
LEMMA SlotTaken ==
    ASSUME NEW q \in Seq(Nat), NEW n \in Nat, NEW at \in 1 .. LentSlots, at <= Len(q) + 1,
           Len(q) <= LentSlots
    PROVE  LET t == IF at > Len(q) THEN Append(q, n) ELSE [q EXCEPT ![at] = n] IN
           /\ t \in Seq(Nat) /\ Len(t) <= LentSlots
           /\ \A k \in DOMAIN t : t[k] = n \/ (k \in DOMAIN q /\ t[k] = q[k] /\ k # at)
<1>1. LentSlots \in Nat /\ Len(q) \in Nat /\ DOMAIN q = 1 .. Len(q)
  BY PoolAssumption
<1>2. CASE at > Len(q)
  <2>1. at = Len(q) + 1
    BY <1>1, <1>2
  <2>2. QED  BY <1>1, <1>2, <2>1, AppendIs
<1>3. CASE ~ (at > Len(q))
  <2> DEFINE t == [q EXCEPT ![at] = n]
  <2>1. at \in DOMAIN q
    BY <1>1, <1>3
  <2>2. t \in Seq(Nat) /\ Len(t) = Len(q) /\ DOMAIN t = DOMAIN q
    BY <2>1, SMTT(60)
  <2>3. \A k \in DOMAIN t : t[k] = n \/ (k \in DOMAIN q /\ t[k] = q[k] /\ k # at)
    BY <2>1, <2>2, SMTT(60)
  <2>4. QED  BY <1>3, <2>2, <2>3
<1> QED
  BY <1>2, <1>3

\* Where the new window goes: to a role, into the rotation, or to the caller.
LEMMA BackPlaces ==
    ASSUME NEW p, NEW s, Good(p, s), s.waiting # <<>>,
           NEW m, m = Len(s.outcome) + 1, IsStep(p[m])
    PROVE  LET t == Back(s)
               n == Len(s.allocs) IN
           /\ t.windows \in [Roles -> [Elems -> Nat]]
           /\ \A role \in Roles, e \in Elems :
                 t.windows[role][e] = s.windows[role][e] \/ t.windows[role][e] = n
           /\ t.lent \in [Elems -> [slots : Seq(Nat), calls : Nat]]
           /\ \A e \in Elems :
                 /\ Len(t.lent[e].slots) <= LentSlots
                 /\ \A k \in DOMAIN t.lent[e].slots :
                       \/ t.lent[e].slots[k] = n /\ p[m].do = "lend"
                       \/ /\ k \in DOMAIN s.lent[e].slots /\ t.lent[e].slots[k] = s.lent[e].slots[k]
                          /\ ~ Pending(s, e, k)
           /\ s.owned \subseteq t.owned /\ t.owned \subseteq s.owned \cup {n}
           /\ s.held \subseteq t.held /\ t.held \subseteq s.held \cup {n}
           /\ p[m].do = "make" => n \in t.owned
           /\ p[m].do = "lend" => n \in t.held
<1> DEFINE t == Back(s)
           n == Len(s.allocs)
           step == p[m]
           e0 == step.elem
           old == s.lent[e0].slots
           slots(at) == IF at > Len(old) THEN Append(old, n) ELSE [old EXCEPT ![at] = n]
<1>1. /\ s.windows \in [Roles -> [Elems -> Nat]] /\ s.lent \in [Elems -> [slots : Seq(Nat), calls : Nat]]
      /\ \A e \in Elems : Len(s.lent[e].slots) <= LentSlots
      /\ n \in Nat
  BY DEF Good, Shape
<1>2. /\ \/ /\ s.waiting = <<"role", step.role, e0>> /\ step.do \in {"call", "out", "self"}
         \/ /\ step.do = "lend"
            /\ \E at \in 1 .. LentSlots : s.waiting = <<"lent", e0, at>> /\ at <= Len(old) + 1
         \/ s.waiting = <<"owned">> /\ step.do = "make"
  BY DEF Good, Waits
<1>3. step.role \in Roles /\ e0 \in Elems
  BY SMTT(60) DEF IsStep, Items
<1>4. /\ t.windows = IF s.waiting[1] = "role" THEN [s.windows EXCEPT ![s.waiting[2]][s.waiting[3]] = n]
                                              ELSE s.windows
      /\ t.lent = IF s.waiting[1] = "lent"
                  THEN [s.lent EXCEPT ![s.waiting[2]].slots =
                          IF s.waiting[3] > Len(@) THEN Append(@, n) ELSE [@ EXCEPT ![s.waiting[3]] = n]]
                  ELSE s.lent
      /\ t.owned = IF s.waiting[1] = "owned" THEN s.owned \cup {n} ELSE s.owned
      /\ t.held = IF s.waiting[1] = "role" THEN s.held ELSE s.held \cup {n}
  BY BackIs, Zenon
<1> HIDE DEF t
<1>5. CASE s.waiting = <<"role", step.role, e0>> /\ step.do \in {"call", "out", "self"}
  <2>1. s.waiting[1] = "role" /\ s.waiting[2] = step.role /\ s.waiting[3] = e0
    BY <1>5
  <2>2. t.windows = [s.windows EXCEPT ![step.role][e0] = n] /\ t.lent = s.lent
        /\ t.owned = s.owned /\ t.held = s.held
    BY <1>4, <2>1, SMTT(60)
  <2>3. t.windows \in [Roles -> [Elems -> Nat]]
        /\ \A role \in Roles, e \in Elems :
              t.windows[role][e] = s.windows[role][e] \/ t.windows[role][e] = n
    BY <1>1, <1>3, <2>2, SMTT(60)
  <2>4. \A e, k : ~ Pending(s, e, k)
    BY <2>1 DEF Pending
  <2>5. QED  BY <1>1, <1>5, <2>2, <2>3, <2>4, Zenon DEF t
<1>6. CASE s.waiting = <<"owned">> /\ step.do = "make"
  <2>1. s.waiting[1] = "owned"
    BY <1>6
  <2>2. t.windows = s.windows /\ t.lent = s.lent /\ t.owned = s.owned \cup {n} /\ t.held = s.held \cup {n}
    BY <1>4, <2>1
  <2>3. \A e, k : ~ Pending(s, e, k)
    BY <2>1, SMTT(60) DEF Pending
  <2>4. QED  BY <1>1, <1>6, <2>2, <2>3 DEF t
<1>7. ASSUME step.do = "lend", NEW at \in 1 .. LentSlots, s.waiting = <<"lent", e0, at>>, at <= Len(old) + 1
      PROVE  /\ \A e \in Elems :
                   /\ t.lent[e].slots \in Seq(Nat) /\ t.lent[e].calls \in Nat
                   /\ Len(t.lent[e].slots) <= LentSlots
                   /\ \A k \in DOMAIN t.lent[e].slots :
                         \/ t.lent[e].slots[k] = n /\ step.do = "lend"
                         \/ /\ k \in DOMAIN s.lent[e].slots /\ t.lent[e].slots[k] = s.lent[e].slots[k]
                            /\ ~ Pending(s, e, k)
             /\ t.lent \in [Elems -> [slots : Seq(Nat), calls : Nat]]
             /\ t.windows = s.windows /\ t.owned = s.owned /\ t.held = s.held \cup {n}
  <2>1. s.waiting[1] = "lent" /\ s.waiting[2] = e0 /\ s.waiting[3] = at
    BY <1>7, SMTT(60)
  <2>2. t.windows = s.windows /\ t.owned = s.owned /\ t.held = s.held \cup {n}
        /\ t.lent = [s.lent EXCEPT ![e0].slots = slots(at)]
    BY <1>4, <2>1, ZenonT(60)
  <2>3. /\ slots(at) \in Seq(Nat) /\ Len(slots(at)) <= LentSlots
        /\ \A k \in DOMAIN slots(at) :
              slots(at)[k] = n \/ (k \in DOMAIN old /\ slots(at)[k] = old[k] /\ k # at)
    <3>1. old \in Seq(Nat) /\ Len(old) <= LentSlots /\ at <= Len(old) + 1 /\ n \in Nat
      BY <1>1, <1>3, <1>7, Zenon
    <3>2. PICK v : v = old
      OBVIOUS
    <3>3. PICK z : z = IF at > Len(v) THEN Append(v, n) ELSE [v EXCEPT ![at] = n]
      OBVIOUS
    <3>4. /\ z \in Seq(Nat) /\ Len(z) <= LentSlots
          /\ \A k \in DOMAIN z : z[k] = n \/ (k \in DOMAIN v /\ z[k] = v[k] /\ k # at)
      <4> HIDE DEF old, slots, e0, step
      <4> QED BY <3>1, <3>2, <3>3, SlotTaken
    <3>5. slots(at) = z
      BY <3>2, <3>3, Zenon
    <3>6. QED  BY <3>2, <3>4, <3>5, Zenon
  <2>4. PICK q \in Seq(Nat) : q = slots(at)
    BY <2>3, Zenon
  <2> HIDE DEF slots
  <2>5. PICK x : x = e0 /\ x \in Elems
    BY <1>3
  <2>6. t.lent = [s.lent EXCEPT ![x].slots = q]
    BY <2>2, <2>4, <2>5
  <2>7. s.lent[x] \in [slots : Seq(Nat), calls : Nat]
    BY <1>1, <2>5
  <2>8. [s.lent[x] EXCEPT !.slots = q] \in [slots : Seq(Nat), calls : Nat]
    BY <2>7
  <2>9. t.lent[x].slots = q /\ \A e \in Elems : e # x => t.lent[e] = s.lent[e]
    BY <1>1, <2>5, <2>6, <2>7, SMTT(60)
  <2>10. /\ t.lent \in [Elems -> [slots : Seq(Nat), calls : Nat]]
        /\ t.lent[e0].slots = slots(at)
        /\ \A e \in Elems : e # e0 => t.lent[e].slots = s.lent[e].slots
    BY <1>1, <2>4, <2>5, <2>6, <2>8, <2>9
  <2>11. \A e, k : Pending(s, e, k) => e = e0 /\ k = at
    BY <1>7 DEF Pending
  <2>12. ASSUME NEW e \in Elems
        PROVE  /\ Len(t.lent[e].slots) <= LentSlots
               /\ \A k \in DOMAIN t.lent[e].slots :
                     \/ t.lent[e].slots[k] = n /\ step.do = "lend"
                     \/ /\ k \in DOMAIN s.lent[e].slots /\ t.lent[e].slots[k] = s.lent[e].slots[k]
                        /\ ~ Pending(s, e, k)
    <3>1. CASE e = e0
      BY <1>7, <2>3, <2>10, <2>11, <3>1, ZenonT(60)
    <3>2. CASE e # e0
      BY <1>1, <2>10, <2>11, <3>2
    <3>3. QED  BY <3>1, <3>2, SMTT(60)
  <2>13. QED  BY <2>2, <2>10, <2>12, Zenon
<1>8. CASE step.do = "lend" /\ \E at \in 1 .. LentSlots : s.waiting = <<"lent", e0, at>> /\ at <= Len(old) + 1
  BY <1>1, <1>7, <1>8 DEF t
<1> QED
  BY <1>2, <1>5, <1>6, <1>8

\* The return from an allocation leaves a good pool: the window it brings is
\* one nobody has yet.
LEMMA BackGood ==
    ASSUME NEW p, NEW s, Good(p, s), s.waiting # <<>>,
           NEW m, m = Len(s.outcome) + 1, IsStep(p[m])
    PROVE  Good(p, Back(s)) /\ Back(s).waiting = <<>>
<1> DEFINE t == Back(s)
<1>1. PICK n : n = Len(s.allocs)
  OBVIOUS
<1>2. /\ t.outcome = Out(s, "filled", n) /\ t.allocs = s.allocs /\ t.waiting = <<>>
  BY <1>1, BackIs
<1>3. /\ t.windows \in [Roles -> [Elems -> Nat]]
      /\ \A role \in Roles, e \in Elems :
            t.windows[role][e] = s.windows[role][e] \/ t.windows[role][e] = n
      /\ t.lent \in [Elems -> [slots : Seq(Nat), calls : Nat]]
      /\ \A e \in Elems :
            /\ Len(t.lent[e].slots) <= LentSlots
            /\ \A k \in DOMAIN t.lent[e].slots :
                  \/ t.lent[e].slots[k] = n /\ p[m].do = "lend"
                  \/ /\ k \in DOMAIN s.lent[e].slots /\ t.lent[e].slots[k] = s.lent[e].slots[k]
                     /\ ~ Pending(s, e, k)
      /\ s.owned \subseteq t.owned /\ t.owned \subseteq s.owned \cup {n}
      /\ s.held \subseteq t.held /\ t.held \subseteq s.held \cup {n}
      /\ p[m].do = "make" => n \in t.owned
      /\ p[m].do = "lend" => n \in t.held
  BY <1>1, BackPlaces
<1> HIDE DEF t
<1>4. /\ t.outcome \in Seq(Ends) /\ Len(t.outcome) = m /\ m - 1 \in Nat
      /\ DOMAIN t.outcome = 1 .. m /\ DOMAIN s.outcome = 1 .. m - 1
      /\ \A i \in 1 .. m - 1 : t.outcome[i] = s.outcome[i]
      /\ t.outcome[m].what = "filled" /\ t.outcome[m].win = n
      /\ s.allocs \in Seq(Nat \ {0}) /\ n \in Nat /\ n > 0 /\ s.allocs[n] = Want(p[m])
      /\ m \in DOMAIN p
  <2>1. s.outcome \in Seq(Ends) /\ s.allocs \in Seq(Nat \ {0}) /\ n \in Nat
    BY <1>1 DEF Good, Shape
  <2>2. n > 0 /\ s.allocs[n] = Want(p[m]) /\ m \in DOMAIN p
    BY <1>1 DEF Good, Waits
  <2>3. m - 1 = Len(s.outcome) /\ Len(s.outcome) \in Nat /\ DOMAIN s.outcome = 1 .. Len(s.outcome)
    BY <2>1, OutIs
  <2>4. /\ t.outcome \in Seq(Ends) /\ Len(t.outcome) = m /\ DOMAIN t.outcome = 1 .. m
        /\ \A i \in 1 .. m - 1 : t.outcome[i] = s.outcome[i]
        /\ t.outcome[m].what = "filled" /\ t.outcome[m].win = n
    BY <1>2, <2>1, <2>3, OutIs
  <2>5. QED  BY <2>1, <2>2, <2>3, <2>4
<1>5. \A i \in DOMAIN t.outcome : i = m \/ (i \in DOMAIN s.outcome /\ t.outcome[i] = s.outcome[i])
  BY <1>4, SMTT(60)
<1>6. Top(t) = n /\ Top(s) = n - 1
  BY <1>1, <1>2 DEF Top
<1>7. /\ \A i \in DOMAIN s.outcome :
            IF s.outcome[i].what = "filled" THEN s.outcome[i].win \in 1 .. n - 1 ELSE s.outcome[i].win = 0
      /\ \A role \in Roles, e \in Elems : s.windows[role][e] <= n - 1 /\ s.windows[role][e] \in Nat
      /\ \A e \in Elems : \A k \in DOMAIN s.lent[e].slots :
            s.lent[e].slots[k] <= n - 1 /\ s.lent[e].slots[k] \in Nat
            /\ (s.lent[e].slots[k] = 0 => Pending(s, e, k))
      /\ s.owned \subseteq 1 .. n - 1 /\ s.held \subseteq 1 .. n - 1
  <2>1. \A e \in Elems : \A k \in DOMAIN s.lent[e].slots : s.lent[e].slots[k] \in Nat
    BY SMTT(60) DEF Good, Shape
  <2>2. \A role \in Roles, e \in Elems : s.windows[role][e] \in Nat
    BY DEF Good, Shape
  <2>3. QED  BY <1>6, <2>1, <2>2 DEF Good, Named
<1>8. Shape(t)
  BY <1>2, <1>3, <1>4, <1>7, SMTT(60) DEF Shape
<1>9. Named(t)
  <2>1. n \in Nat /\ 1 .. n - 1 \subseteq 1 .. n /\ n \in 1 .. n /\ n # 0
    BY <1>4
  <2>2. ASSUME NEW i \in DOMAIN t.outcome
        PROVE  IF t.outcome[i].what = "filled" THEN t.outcome[i].win \in 1 .. n ELSE t.outcome[i].win = 0
    <3>1. CASE i = m
      <4>1. t.outcome[i].what = "filled" /\ t.outcome[i].win = n
        BY <1>4, <3>1, Zenon
      <4>2. QED  BY <2>1, <4>1
    <3>2. CASE i # m
      <4>1. i \in DOMAIN s.outcome /\ t.outcome[i] = s.outcome[i]
        BY <1>5, <2>2, <3>2, Zenon
      <4>2. IF s.outcome[i].what = "filled" THEN s.outcome[i].win \in 1 .. n - 1 ELSE s.outcome[i].win = 0
        BY <1>7, <4>1, Zenon
      <4>3. PICK o : o = s.outcome[i] /\ o = t.outcome[i]
        BY <4>1
      <4>4. IF o.what = "filled" THEN o.win \in 1 .. n - 1 ELSE o.win = 0
        BY <4>2, <4>3, Zenon
      <4>5. IF o.what = "filled" THEN o.win \in 1 .. n ELSE o.win = 0
        <5>1. \A x \in 1 .. n - 1 : x \in 1 .. n
          BY <2>1
        <5>2. QED  BY <4>4, <5>1, Zenon
      <4>6. QED  BY <4>3, <4>5, Zenon
    <3>3. QED  BY <3>1, <3>2
  <2>3. \A role \in Roles, e \in Elems : t.windows[role][e] <= n
    BY <1>3, <1>4, <1>7, SMTT(60)
  <2>4. \A e \in Elems : \A k \in DOMAIN t.lent[e].slots :
           t.lent[e].slots[k] <= n /\ (t.lent[e].slots[k] = 0 => Pending(t, e, k))
    <3> TAKE e \in Elems
    <3> TAKE k \in DOMAIN t.lent[e].slots
    <3>1. CASE t.lent[e].slots[k] = n
      BY <2>1, <3>1
    <3>2. CASE /\ k \in DOMAIN s.lent[e].slots /\ t.lent[e].slots[k] = s.lent[e].slots[k]
               /\ ~ Pending(s, e, k)
      BY <1>7, <2>1, <3>2
    <3>3. QED  BY <1>3, <3>1, <3>2
  <2>5. t.owned \subseteq 1 .. n /\ t.held \subseteq 1 .. n
    <3>1. s.owned \subseteq 1 .. n /\ s.held \subseteq 1 .. n
      BY <1>7, <2>1
    <3>2. QED  BY <1>3, <2>1, <3>1
  <2>6. QED  BY <1>6, <2>2, <2>3, <2>4, <2>5 DEF Named
<1>10. Waits(p, t)
  BY <1>2 DEF Waits
<1>11. Apart(p, t)
  <2> SUFFICES ASSUME NEW i \in DOMAIN t.outcome, FilledBy(p, t, i, "make")
               PROVE  /\ \A e \in Elems : \A k \in DOMAIN t.lent[e].slots :
                            t.lent[e].slots[k] # t.outcome[i].win
                      /\ \A j \in DOMAIN t.outcome :
                            FilledBy(p, t, j, "lend") => t.outcome[j].win # t.outcome[i].win
                      /\ t.outcome[i].win \in t.held => t.outcome[i].win \in t.owned
    BY DEF Apart
  <2>1. CASE i = m
    <3>1. p[m].do = "make" /\ t.outcome[i].win = n
      BY <1>4, <2>1 DEF FilledBy
    <3>2. ASSUME NEW e \in Elems, NEW k \in DOMAIN t.lent[e].slots
          PROVE  t.lent[e].slots[k] # n
      BY <1>3, <1>4, <1>7, <3>1
    <3>3. ASSUME NEW j \in DOMAIN t.outcome, FilledBy(p, t, j, "lend")
          PROVE  t.outcome[j].win # n
      <4>1. j # m
        BY <3>1, <3>3 DEF FilledBy
      <4>2. j \in DOMAIN s.outcome /\ t.outcome[j] = s.outcome[j] /\ s.outcome[j].what = "filled"
        BY <1>5, <3>3, <4>1 DEF FilledBy
      <4>3. s.outcome[j].win \in 1 .. n - 1
        BY <1>7, <4>2
      <4>4. QED  BY <1>4, <4>2, <4>3
    <3>4. QED  BY <1>3, <3>1, <3>2, <3>3
  <2>2. CASE i # m
    <3>1. /\ i \in DOMAIN s.outcome /\ t.outcome[i] = s.outcome[i] /\ FilledBy(p, s, i, "make")
          /\ s.outcome[i].win \in 1 .. n - 1
      BY <1>5, <1>7, <2>2 DEF FilledBy
    <3>2. ASSUME NEW e \in Elems, NEW k \in DOMAIN t.lent[e].slots
          PROVE  t.lent[e].slots[k] # s.outcome[i].win
      <4>1. CASE t.lent[e].slots[k] = n
        BY <1>4, <3>1, <4>1
      <4>2. CASE k \in DOMAIN s.lent[e].slots /\ t.lent[e].slots[k] = s.lent[e].slots[k]
        BY <3>1, <4>2 DEF Good, Apart
      <4>3. QED  BY <1>3, <4>1, <4>2
    <3>3. ASSUME NEW j \in DOMAIN t.outcome, FilledBy(p, t, j, "lend")
          PROVE  t.outcome[j].win # s.outcome[i].win
      <4>1. CASE j = m
        BY <1>4, <3>1, <4>1
      <4>2. CASE j # m
        <5>1. j \in DOMAIN s.outcome /\ t.outcome[j] = s.outcome[j] /\ FilledBy(p, s, j, "lend")
          BY <1>5, <3>3, <4>2 DEF FilledBy
        <5>2. QED  BY <3>1, <5>1 DEF Good, Apart
      <4>3. QED  BY <4>1, <4>2
    <3>4. s.outcome[i].win \in t.held => s.outcome[i].win \in t.owned
      <4>1. s.outcome[i].win \in s.held => s.outcome[i].win \in s.owned
        BY <3>1 DEF Good, Apart
      <4>2. QED  BY <1>3, <1>4, <3>1, <4>1, SMTT(60)
    <3>5. QED  BY <3>1, <3>2, <3>3, <3>4
  <2>3. QED  BY <2>1, <2>2
<1>12. LentHeld(p, t)
  <2>1. FilledBy(p, t, Len(t.outcome), "lend") => t.outcome[Len(t.outcome)].win \in t.held
    BY <1>3, <1>4 DEF FilledBy
  <2>2. QED  BY <1>3, <1>4, <2>1, StillHeld, SMTT(60)
<1>13. LentOnce(p, t)
  <2> SUFFICES ASSUME NEW i \in DOMAIN t.outcome, NEW j \in DOMAIN t.outcome, i < j,
                      FilledBy(p, t, i, "lend"), FilledBy(p, t, j, "lend"),
                      t.outcome[i].win = t.outcome[j].win
               PROVE  DroppedIn(p, i, i + 1, j - 1)
    BY DEF LentOnce
  <2>1. i \in DOMAIN s.outcome /\ t.outcome[i] = s.outcome[i] /\ FilledBy(p, s, i, "lend")
    BY <1>4, <1>5, SMTT(60) DEF FilledBy
  <2>2. s.outcome[i].win \in 1 .. n - 1
    BY <1>7, <2>1 DEF FilledBy
  <2>3. j # m
    BY <1>4, <2>1, <2>2
  <2>4. j \in DOMAIN s.outcome /\ t.outcome[j] = s.outcome[j] /\ FilledBy(p, s, j, "lend")
    BY <1>5, <2>3 DEF FilledBy
  <2>5. QED  BY <2>1, <2>4 DEF Good, LentOnce
<1>14. Large(p, t)
  <2> SUFFICES ASSUME NEW i \in DOMAIN t.outcome, t.outcome[i].what = "filled"
               PROVE  s.allocs[t.outcome[i].win] >= Want(p[i])
    BY <1>2 DEF Large
  <2>1. CASE i = m
    <3>1. s.allocs[n] \in Nat
      BY <1>1, <1>4
    <3>2. QED  BY <1>4, <2>1, <3>1
  <2>2. CASE i # m
    BY <1>5, <2>2 DEF Good, Large
  <2>3. QED  BY <2>1, <2>2
<1> QED
  BY <1>2, <1>8, <1>9, <1>10, <1>11, <1>12, <1>13, <1>14 DEF Good, t

\* How a step that ends, and one that allocates, goes ahead.
LEMMA EndsAhead ==
    ASSUME NEW s, NEW n \in Nat, NEW what \in {"filled", "raised", "refused", "stray", "dropped"},
           NEW t, t.outcome = Out(s, what, n), t.allocs = s.allocs, t.waiting = <<>>
    PROVE  Ahead(s, t)
<1> DEFINE x == [what |-> what, win |-> n]
<1>1. x \in Ends /\ t.outcome = Append(s.outcome, x)
  BY DEF Out, Ends
<1> HIDE DEF x
<1> QED
  BY <1>1 DEF Ahead

LEMMA EntersAhead ==
    ASSUME NEW s, NEW step, NEW where, NEW win, NEW le, where # <<>>, Want(step) \in Nat \ {0}
    PROVE  Ahead(s, Entered(s, step, where, win, le))
<1>1. PICK n \in Nat \ {0} : n = Want(step)
  OBVIOUS
<1>2. PICK t : t = Entered(s, step, where, win, le)
  OBVIOUS
<1>3. t.outcome = s.outcome /\ t.allocs = Append(s.allocs, n) /\ t.waiting = where
  BY <1>1, <1>2, EnteredIs
<1> QED
  BY <1>2, <1>3 DEF Ahead

\* A call that is refused, or raises.
LEMMA QuietEnd ==
    ASSUME NEW p, NEW s, Good(p, s), s.waiting = <<>>,
           NEW what \in {"raised", "refused", "stray"},
           NEW win \in [Roles -> [Elems -> Nat]],
           \A role \in Roles, e \in Elems : win[role][e] <= s.windows[role][e],
           NEW le \in [Elems -> [slots : Seq(Nat), calls : Nat]],
           \A e \in Elems : le[e].slots = s.lent[e].slots,
           NEW ow \in SUBSET s.owned, s.owned \cap s.held \subseteq ow
    PROVE  LET t == State(Out(s, what, 0), s.allocs, <<>>, win, le, ow, s.held)
           IN  Good(p, t) /\ Ahead(s, t)
<1> DEFINE t == State(Out(s, what, 0), s.allocs, <<>>, win, le, ow, s.held)
<1>1. /\ t.outcome = Out(s, what, 0) /\ t.allocs = s.allocs /\ t.waiting = <<>> /\ t.held = s.held
  BY Fields
<1>2. s.outcome \in Seq(Ends)
  BY DEF Good, Shape
<1>3. LentHeld(p, t)
  <2> HIDE DEF t
  <2>1. /\ t.outcome \in Seq(Ends) /\ Len(t.outcome) = Len(s.outcome) + 1
        /\ \A i \in 1 .. Len(s.outcome) : t.outcome[i] = s.outcome[i]
        /\ t.outcome[Len(t.outcome)].what = what
    BY <1>1, <1>2, OutIs, SMTT(60)
  <2>2. ~ FilledBy(p, t, Len(t.outcome), "lend")
    BY <2>1 DEF FilledBy
  <2>3. QED  BY <1>1, <2>1, <2>2, StillHeld
<1>4. Good(p, t)
  BY <1>3, Quiet
<1>5. Ahead(s, t)
  <2> HIDE DEF t
  <2>1. QED  BY <1>1, EndsAhead
<1> QED
  BY <1>4, <1>5

\* A drop takes a result out of the caller's hands that no other result of the
\* caller's is in.
LEMMA DropGood ==
    ASSUME NEW p, NEW s, Good(p, s), s.waiting = <<>>,
           NEW m, m = Len(s.outcome) + 1, NEW step, p[m] = step, step.do = "drop", LegalStep(p, m)
    PROVE  Good(p, DropStep(s, step)) /\ Ahead(s, DropStep(s, step))
<1>1. PICK of : of = step.of
  OBVIOUS
<1>2. PICK he : he = s.held \ {s.outcome[of].win}
  OBVIOUS
<1> DEFINE t == State(Out(s, "dropped", 0), s.allocs, <<>>, s.windows, s.lent, s.owned, he)
<1>3. DropStep(s, step) = t
  BY <1>1, <1>2 DEF DropStep
<1>4. /\ t.outcome = Out(s, "dropped", 0) /\ t.allocs = s.allocs /\ t.waiting = <<>> /\ t.held = he
  BY Fields
<1>5. LentHeld(p, t)
  <2> HIDE DEF t
  <2>1. s.outcome \in Seq(Ends)
    BY DEF Good, Shape
  <2>2. /\ t.outcome \in Seq(Ends) /\ Len(t.outcome) = m /\ m - 1 = Len(s.outcome) /\ m - 1 \in Nat
        /\ DOMAIN t.outcome = 1 .. m /\ DOMAIN s.outcome = 1 .. m - 1
        /\ \A i \in 1 .. m - 1 : t.outcome[i] = s.outcome[i]
        /\ t.outcome[m].what = "dropped"
    BY <1>4, <2>1, OutIs
  <2> SUFFICES ASSUME NEW i \in DOMAIN t.outcome, FilledBy(p, t, i, "lend"), ~ DroppedIn(p, i, 1, m)
               PROVE  t.outcome[i].win \in t.held
    BY <2>2 DEF LentHeld
  <2>3. i # m
    BY <2>2 DEF FilledBy
  <2>4. i \in 1 .. m - 1 /\ i \in DOMAIN s.outcome /\ t.outcome[i] = s.outcome[i]
    BY <2>2, <2>3
  <2>5. FilledBy(p, s, i, "lend")
    BY <2>4 DEF FilledBy
  <2>6. ~ DroppedIn(p, i, 1, m - 1)
    BY <2>2 DEF DroppedIn
  <2>7. s.outcome[i].win \in s.held
    BY <2>2, <2>4, <2>5, <2>6 DEF Good, LentHeld
  <2>8. /\ of \in 1 .. m - 1 /\ p[of].do \in {"lend", "make"}
        /\ \A j \in 1 .. m - 1 : ~ (p[j].do = "drop" /\ p[j].of = of)
    BY <1>1 DEF LegalStep
  <2>9. of # i
    BY <1>1, <2>2 DEF DroppedIn
  <2>10. ASSUME s.outcome[i].win = s.outcome[of].win  PROVE FALSE
    <3>1. of \in DOMAIN s.outcome /\ s.outcome[i].what = "filled"
      BY <2>2, <2>5, <2>8 DEF FilledBy
    <3>2. s.outcome[i].win # 0
      BY <2>4, <3>1 DEF Good, Named
    <3>3. s.outcome[of].what = "filled"
      BY <2>10, <3>1, <3>2 DEF Good, Named
    <3>4. CASE p[of].do = "make"
      BY <2>4, <2>5, <2>10, <3>1, <3>3, <3>4 DEF Good, Apart, FilledBy
    <3>5. CASE p[of].do = "lend"
      <4>1. FilledBy(p, s, of, "lend")
        BY <3>3, <3>5 DEF FilledBy
      <4>2. CASE i < of
        <5>1. DroppedIn(p, i, i + 1, of - 1)
          BY <2>4, <2>5, <2>10, <3>1, <4>1, <4>2 DEF Good, LentOnce
        <5>2. \A k \in i + 1 .. of - 1 : k \in 1 .. m
          BY <2>2, <2>4, <2>8
        <5>3. QED  BY <5>1, <5>2 DEF DroppedIn
      <4>3. CASE of < i
        <5>1. DroppedIn(p, of, of + 1, i - 1)
          BY <2>4, <2>5, <2>10, <3>1, <4>1, <4>3 DEF Good, LentOnce
        <5>2. \A k \in of + 1 .. i - 1 : k \in 1 .. m - 1
          BY <2>2, <2>4, <2>8
        <5>3. QED  BY <2>8, <5>1, <5>2 DEF DroppedIn
      <4>4. QED  BY <2>2, <2>4, <2>8, <2>9, <4>2, <4>3
    <3>6. QED  BY <2>8, <3>4, <3>5
  <2>11. QED  BY <1>2, <1>4, <2>4, <2>7, <2>10
<1>6. /\ s.windows \in [Roles -> [Elems -> Nat]]
      /\ \A role \in Roles, e \in Elems : s.windows[role][e] <= s.windows[role][e]
      /\ s.lent \in [Elems -> [slots : Seq(Nat), calls : Nat]]
  BY DEF Good, Shape
<1>7. Good(p, t)
  BY <1>2, <1>5, <1>6, Quiet
<1>8. Ahead(s, t)
  <2> HIDE DEF t
  <2>1. QED  BY <1>4, EndsAhead
<1> QED
  BY <1>3, <1>7, <1>8

\* A call without a window of its own.
LEMMA RoleGood ==
    ASSUME NEW p, NEW s, Good(p, s), s.waiting = <<>>,
           NEW m, m = Len(s.outcome) + 1, m \in DOMAIN p, NEW step, p[m] = step, IsStep(step),
           \A k \in 1 .. Len(s.outcome) : LegalStep(p, k),
           step.do \in {"call", "out", "self"}
    PROVE  Good(p, RoleStep(s, step)) /\ Ahead(s, RoleStep(s, step))
<1>1. PICK role \in Roles, e \in Elems : role = step.role /\ e = step.elem
  BY DEF IsStep, Items
<1>2. PICK old : old = s.windows[role][e]
  OBVIOUS
<1>3. PICK without : without = [s.windows EXCEPT ![role][e] = 0]
  OBVIOUS
<1>4. /\ s.windows \in [Roles -> [Elems -> Nat]] /\ s.lent \in [Elems -> [slots : Seq(Nat), calls : Nat]]
      /\ Len(s.allocs) \in Nat /\ s.outcome \in Seq(Ends)
  BY DEF Good, Shape
<1>5. old \in Nat /\ old <= Len(s.allocs)
  <2>1. Top(s) = Len(s.allocs)
    BY DEF Top
  <2>2. QED  BY <1>1, <1>2, <1>4, <2>1 DEF Good, Named
<1>6. /\ without \in [Roles -> [Elems -> Nat]] /\ without[role][e] = 0
      /\ \A ro \in Roles, el \in Elems : without[ro][el] <= s.windows[ro][el]
  <2>1. without \in [Roles -> [Elems -> Nat]] /\ without[role][e] = 0
    BY <1>1, <1>3, <1>4
  <2>2. \A ro \in Roles, el \in Elems : without[ro][el] = 0 \/ without[ro][el] = s.windows[ro][el]
    BY <1>1, <1>3, <1>4
  <2>3. \A ro \in Roles, el \in Elems : s.windows[ro][el] \in Nat
    BY <1>4
  <2>4. \A n \in Nat : 0 <= n /\ n <= n
    OBVIOUS
  <2>5. QED  BY <2>1, <2>2, <2>3, <2>4
<1>7. Size(step) # 0 => Want(step) \in Nat \ {0}
  BY WantNat
<1>8. RoleStep(s, step) =
        IF old # 0 /\ BytesIn(s, old) >= Want(step) THEN Ended(s, "filled", old, s.windows, s.lent, s.held)
        ELSE IF Size(step) = 0 THEN Ended(s, "raised", 0, without, s.lent, s.held)
        ELSE Entered(s, step, <<"role", role, e>>, without, s.lent)
  BY <1>1, <1>2, <1>3 DEF RoleStep
<1>9. CASE old # 0 /\ BytesIn(s, old) >= Want(step)
  <2>1. old \in 1 .. Len(s.allocs) /\ s.allocs[old] >= Want(step)
    BY <1>4, <1>5, <1>9 DEF BytesIn
  <2>2. PICK t : t = Ended(s, "filled", old, s.windows, s.lent, s.held)
    OBVIOUS
  <2>3. Good(p, t)
    BY <1>4, <2>1, <2>2, Fill
  <2>4. t.outcome = Out(s, "filled", old) /\ t.allocs = s.allocs /\ t.waiting = <<>>
    BY <2>2, EndedIs
  <2>5. Ahead(s, t)
    BY <1>5, <2>4, EndsAhead
  <2>6. QED  BY <1>8, <1>9, <2>2, <2>3, <2>5
<1>10. CASE ~ (old # 0 /\ BytesIn(s, old) >= Want(step)) /\ Size(step) = 0
  <2>1. Keep(s) \in SUBSET s.owned /\ s.owned \cap s.held \subseteq Keep(s)
    BY DEF Keep
  <2>2. LET t == State(Out(s, "raised", 0), s.allocs, <<>>, without, s.lent, Keep(s), s.held)
        IN  Good(p, t) /\ Ahead(s, t)
    BY <1>4, <1>6, <2>1, QuietEnd
  <2>3. QED  BY <1>8, <1>10, <2>2 DEF Ended
<1>11. CASE ~ (old # 0 /\ BytesIn(s, old) >= Want(step)) /\ Size(step) # 0
  <2>1. Want(step) \in Nat \ {0}
    BY <1>7, <1>11
  <2>2. PICK where : where = <<"role", role, e>>
    OBVIOUS
  <2>3. where # <<>> /\ where = <<"role", step.role, step.elem>> /\ without[step.role][step.elem] = 0
    BY <1>1, <1>6, <2>2
  <2>4. Good(p, Entered(s, step, where, without, s.lent))
    BY <1>4, <1>6, <2>1, <2>3, Enters
  <2>5. Ahead(s, Entered(s, step, where, without, s.lent))
    BY <2>1, <2>3, EntersAhead
  <2>6. QED  BY <1>8, <1>11, <2>2, <2>4, <2>5
<1> QED
  BY <1>9, <1>10, <1>11

\* A call with out=.
LEMMA OutGood ==
    ASSUME NEW p, NEW s, Good(p, s), s.waiting = <<>>,
           NEW m, m = Len(s.outcome) + 1, m \in DOMAIN p, NEW step, p[m] = step, IsStep(step),
           \A k \in 1 .. Len(s.outcome) : LegalStep(p, k),
           step.do \in {"out", "self"}
    PROVE  Good(p, OutStep(s, step)) /\ Ahead(s, OutStep(s, step))
<1>1. PICK n : n = s.outcome[step.of].win
  OBVIOUS
<1>2. /\ s.windows \in [Roles -> [Elems -> Nat]] /\ s.lent \in [Elems -> [slots : Seq(Nat), calls : Nat]]
      /\ Len(s.allocs) \in Nat
      /\ \A role \in Roles, e \in Elems : s.windows[role][e] <= s.windows[role][e]
  BY DEF Good, Shape
<1>3. OutStep(s, step) =
        IF n \in s.owned /\ BytesIn(s, n) >= Want(step)
        THEN IF step.do = "out" THEN Ended(s, "filled", n, s.windows, s.lent, s.held)
                                ELSE Ended(s, "raised", 0, s.windows, s.lent, s.held)
        ELSE RoleStep(s, step)
  BY <1>1 DEF OutStep
<1>4. CASE n \in s.owned /\ BytesIn(s, n) >= Want(step) /\ step.do = "out"
  <2>1. n \in 1 .. Len(s.allocs) /\ s.allocs[n] >= Want(step)
    <3>1. Top(s) = Len(s.allocs)
      BY DEF Top
    <3>2. n \in 1 .. Len(s.allocs)
      BY <1>4, <3>1 DEF Good, Named
    <3>3. QED  BY <1>2, <1>4, <3>2 DEF BytesIn
  <2>2. PICK t : t = Ended(s, "filled", n, s.windows, s.lent, s.held)
    OBVIOUS
  <2>3. Good(p, t)
    BY <1>2, <2>1, <2>2, Fill
  <2>4. t.outcome = Out(s, "filled", n) /\ t.allocs = s.allocs /\ t.waiting = <<>>
    BY <2>2, EndedIs
  <2>5. n \in Nat
    BY <1>2, <2>1
  <2>6. Ahead(s, t)
    BY <2>4, <2>5, EndsAhead
  <2>7. QED  BY <1>3, <1>4, <2>2, <2>3, <2>6
<1>5. CASE n \in s.owned /\ BytesIn(s, n) >= Want(step) /\ step.do # "out"
  <2>1. Keep(s) \in SUBSET s.owned /\ s.owned \cap s.held \subseteq Keep(s)
    BY DEF Keep
  <2>2. LET t == State(Out(s, "raised", 0), s.allocs, <<>>, s.windows, s.lent, Keep(s), s.held)
        IN  Good(p, t) /\ Ahead(s, t)
    BY <1>2, <2>1, QuietEnd
  <2>3. QED  BY <1>3, <1>5, <2>2 DEF Ended
<1>6. CASE ~ (n \in s.owned /\ BytesIn(s, n) >= Want(step))
  BY <1>3, <1>6, RoleGood
<1> QED
  BY <1>4, <1>5, <1>6

\* make_output.
LEMMA MakeGood ==
    ASSUME NEW p, NEW s, Good(p, s), s.waiting = <<>>,
           NEW m, m = Len(s.outcome) + 1, m \in DOMAIN p, NEW step, p[m] = step, IsStep(step),
           step.do = "make"
    PROVE  Good(p, MakeStep(s, step)) /\ Ahead(s, MakeStep(s, step))
<1>1. /\ s.windows \in [Roles -> [Elems -> Nat]] /\ s.lent \in [Elems -> [slots : Seq(Nat), calls : Nat]]
      /\ \A role \in Roles, e \in Elems : s.windows[role][e] <= s.windows[role][e]
  BY DEF Good, Shape
<1>2. CASE Size(step) = 0
  <2>1. Keep(s) \in SUBSET s.owned /\ s.owned \cap s.held \subseteq Keep(s)
    BY DEF Keep
  <2>2. LET t == State(Out(s, "raised", 0), s.allocs, <<>>, s.windows, s.lent, Keep(s), s.held)
        IN  Good(p, t) /\ Ahead(s, t)
    BY <1>1, <2>1, QuietEnd
  <2>3. QED  BY <1>2, <2>2 DEF MakeStep, Ended
<1>3. CASE Size(step) # 0
  <2>1. Want(step) \in Nat \ {0}
    BY <1>3, WantNat
  <2>2. PICK where : where = <<"owned">>
    OBVIOUS
  <2>3. where # <<>>
    BY <2>2
  <2>4. Good(p, Entered(s, step, where, s.windows, s.lent))
    BY <1>1, <2>1, <2>2, <2>3, Enters
  <2>5. Ahead(s, Entered(s, step, where, s.windows, s.lent))
    BY <2>1, <2>3, EntersAhead
  <2>6. QED  BY <1>3, <2>2, <2>4, <2>5 DEF MakeStep
<1> QED
  BY <1>2, <1>3

\* lend_window.
LEMMA LendGood ==
    ASSUME NEW p, NEW s, Good(p, s), s.waiting = <<>>,
           NEW m, m = Len(s.outcome) + 1, m \in DOMAIN p, NEW step, p[m] = step, IsStep(step),
           \A k \in 1 .. Len(s.outcome) : LegalStep(p, k),
           step.do = "lend"
    PROVE  Good(p, LendStep(s, step)) /\ Ahead(s, LendStep(s, step))
<1>1. PICK e \in Elems : e = step.elem
  BY DEF IsStep
<1>2. PICK pool : pool = s.lent[e]
  OBVIOUS
<1>3. PICK at : at = SlotAt(pool)
  OBVIOUS
<1>4. PICK n : n = pool.slots[at]
  OBVIOUS
<1>5. PICK where : where = <<"lent", e, at>>
  OBVIOUS
<1>6. PICK counted : counted = Counted(s, e)
  OBVIOUS
<1>7. PICK emptied : emptied = EmptiedIn(s, e, at)
  OBVIOUS
<1>8. /\ s.windows \in [Roles -> [Elems -> Nat]]
      /\ \A role \in Roles, el \in Elems : s.windows[role][el] <= s.windows[role][el]
      /\ s.lent \in [Elems -> [slots : Seq(Nat), calls : Nat]]
      /\ Len(s.allocs) \in Nat
  BY DEF Good, Shape
<1>9. /\ pool.slots \in Seq(Nat) /\ pool.calls \in Nat /\ Len(pool.slots) \in Nat
      /\ DOMAIN pool.slots = 1 .. Len(pool.slots)
  BY <1>2, <1>8
<1>10. at \in 1 .. LentSlots /\ at \in Nat \ {0}
  BY <1>3, <1>9, SlotAtRange, PoolAssumption
<1>11. /\ counted \in [Elems -> [slots : Seq(Nat), calls : Nat]]
       /\ \A el \in Elems : counted[el].slots = s.lent[el].slots
  <2>1. counted = [s.lent EXCEPT ![e].calls = @ + 1]
    BY <1>6 DEF Counted
  <2>2. \A el \in Elems : s.lent[el] \in [slots : Seq(Nat), calls : Nat]
    BY <1>8
  <2>3. PICK c \in Nat : c = s.lent[e].calls + 1
    BY <1>2, <1>9
  <2>4. counted = [s.lent EXCEPT ![e].calls = c]
    BY <2>1, <2>3
  <2>5. QED  BY <1>8, <2>2, <2>3, <2>4
<1>12. LendStep(s, step) =
         IF at > Len(pool.slots) + 1 THEN Ended(s, "stray", 0, s.windows, counted, s.held)
         ELSE IF at = Len(pool.slots) + 1
         THEN IF Size(step) = 0 THEN Ended(s, "raised", 0, s.windows, counted, s.held)
              ELSE Entered(s, step, where, s.windows, counted)
         ELSE IF n \in s.held THEN Ended(s, "refused", 0, s.windows, counted, s.held)
         ELSE IF BytesIn(s, n) >= Want(step)
         THEN Ended(s, "filled", n, s.windows, counted, s.held \cup {n})
         ELSE Entered(s, step, where, s.windows, emptied)
  BY <1>1, <1>2, <1>3, <1>4, <1>5, <1>6, <1>7 DEF LendStep
<1>13. ASSUME NEW what \in {"raised", "refused", "stray"}
       PROVE  LET t == Ended(s, what, 0, s.windows, counted, s.held) IN Good(p, t) /\ Ahead(s, t)
  <2>1. Keep(s) \in SUBSET s.owned /\ s.owned \cap s.held \subseteq Keep(s)
    BY DEF Keep
  <2>2. LET t == State(Out(s, what, 0), s.allocs, <<>>, s.windows, counted, Keep(s), s.held)
        IN  Good(p, t) /\ Ahead(s, t)
    BY <1>8, <1>11, <2>1, QuietEnd
  <2>3. QED  BY <2>2 DEF Ended
<1>14. where # <<>>
  BY <1>5
<1>15. CASE at > Len(pool.slots) + 1
  BY <1>12, <1>13, <1>15
<1>16. CASE at = Len(pool.slots) + 1
  <2>1. CASE Size(step) = 0
    BY <1>9, <1>12, <1>13, <1>16, <2>1
  <2>2. CASE Size(step) # 0
    <3>1. Want(step) \in Nat \ {0}
      BY <2>2, WantNat
    <3>2. \A el \in Elems : /\ Len(counted[el].slots) = Len(s.lent[el].slots)
                            /\ \A k \in DOMAIN s.lent[el].slots : counted[el].slots[k] = s.lent[el].slots[k]
      BY <1>11
    <3>3. at <= Len(counted[e].slots) + 1 /\ at \notin DOMAIN counted[e].slots
      <4>1. counted[e].slots = pool.slots
        BY <1>2, <1>11
      <4>2. QED  BY <1>9, <1>16, <4>1
    <3>4. Good(p, Entered(s, step, where, s.windows, counted))
      <4>1. /\ p[m].do = "lend"
            /\ \E a \in 1 .. LentSlots :
                  /\ where = <<"lent", p[m].elem, a>> /\ a <= Len(counted[p[m].elem].slots) + 1
                  /\ a \in DOMAIN counted[p[m].elem].slots => counted[p[m].elem].slots[a] = 0
        BY <1>1, <1>5, <1>10, <3>3
      <4>2. m \in DOMAIN p /\ Want(p[m]) \in Nat \ {0} /\ where # <<>>
        BY <1>14, <3>1
      <4>3. \A el \in Elems :
               /\ Len(counted[el].slots) = Len(s.lent[el].slots)
               /\ \A k \in DOMAIN s.lent[el].slots :
                     \/ counted[el].slots[k] = s.lent[el].slots[k]
                     \/ counted[el].slots[k] = 0 /\ where = <<"lent", el, k>>
        BY <3>2
      <4>4. Good(p, Entered(s, p[m], where, s.windows, counted))
        BY <1>8, <1>11, <4>1, <4>2, <4>3, Enters
      <4>5. QED  BY <4>4
    <3>5. Ahead(s, Entered(s, step, where, s.windows, counted))
      BY <1>14, <3>1, EntersAhead
    <3>6. LendStep(s, step) = Entered(s, step, where, s.windows, counted)
      BY <1>9, <1>12, <1>16, <2>2
    <3>7. QED  BY <3>4, <3>5, <3>6
  <2>3. QED  BY <2>1, <2>2
<1>17. CASE at <= Len(pool.slots)
  <2>1. at \in DOMAIN pool.slots /\ ~ (at > Len(pool.slots) + 1) /\ at # Len(pool.slots) + 1
    BY <1>9, <1>10, <1>17
  <2>2. n \in 1 .. Len(s.allocs)
    <3>1. Top(s) = Len(s.allocs)
      BY DEF Top
    <3>2. n <= Len(s.allocs) /\ n # 0
      BY <1>2, <1>4, <2>1, <3>1 DEF Good, Named, Pending
    <3>3. n \in Nat
      BY <1>4, <1>9, <2>1
    <3>4. QED  BY <1>8, <3>2, <3>3
  <2>3. n \in Nat \ {0}
    BY <1>8, <2>2
  <2>4. CASE n \in s.held
    BY <1>12, <1>13, <2>1, <2>4
  <2>5. CASE n \notin s.held /\ BytesIn(s, n) >= Want(step)
    <3>1. s.allocs[n] >= Want(step)
      BY <2>3, <2>5 DEF BytesIn
    <3>2. PICK he : he = s.held \cup {n}
      OBVIOUS
    <3>3. PICK t : t = Ended(s, "filled", n, s.windows, counted, he)
      OBVIOUS
    <3>4. \E el \in Elems : \E k \in DOMAIN s.lent[el].slots : s.lent[el].slots[k] = n
      BY <1>2, <1>4, <2>1
    <3>5. Good(p, t)
      BY <1>8, <1>11, <2>2, <2>5, <3>1, <3>2, <3>3, <3>4, Fill
    <3>6. t.outcome = Out(s, "filled", n) /\ t.allocs = s.allocs /\ t.waiting = <<>>
      BY <3>3, EndedIs
    <3>7. Ahead(s, t)
      BY <2>3, <3>6, EndsAhead
    <3>8. LendStep(s, step) = t
      BY <1>12, <2>1, <2>5, <3>2, <3>3
    <3>9. QED  BY <3>5, <3>7, <3>8
  <2>6. CASE n \notin s.held /\ ~ (BytesIn(s, n) >= Want(step))
    <3>1. Want(step) \in Nat \ {0}
      <4>1. Want(step) \in Nat
        BY WantNat
      <4>2. s.allocs[n] \in Nat
        BY <2>2 DEF Good, Shape
      <4>3. Want(step) # 0
        BY <2>3, <2>6, <4>2 DEF BytesIn
      <4>4. QED  BY <4>1, <4>3
    <3>2. /\ emptied \in [Elems -> [slots : Seq(Nat), calls : Nat]]
          /\ \A el \in Elems : /\ Len(emptied[el].slots) = Len(s.lent[el].slots)
                               /\ \A k \in DOMAIN s.lent[el].slots :
                                     \/ emptied[el].slots[k] = s.lent[el].slots[k]
                                     \/ emptied[el].slots[k] = 0 /\ where = <<"lent", el, k>>
          /\ emptied[e].slots[at] = 0
      <4>1. PICK q : q = [pool.slots EXCEPT ![at] = 0]
        OBVIOUS
      <4>2. /\ q \in Seq(Nat) /\ Len(q) = Len(pool.slots)
            /\ \A k \in DOMAIN pool.slots : q[k] = pool.slots[k] \/ (k = at /\ q[k] = 0)
            /\ q[at] = 0
        BY <1>9, <2>1, <4>1
      <4>3. emptied = [counted EXCEPT ![e].slots[at] = 0]
        BY <1>6, <1>7 DEF EmptiedIn
      <4>4. counted[e].slots = pool.slots /\ counted[e] \in [slots : Seq(Nat), calls : Nat]
        BY <1>2, <1>11
      <4>5. emptied = [counted EXCEPT ![e].slots = q]
        BY <4>1, <4>3, <4>4
      <4>6. /\ emptied \in [Elems -> [slots : Seq(Nat), calls : Nat]]
            /\ emptied[e].slots = q
            /\ \A el \in Elems : el # e => emptied[el] = counted[el]
        BY <1>11, <4>2, <4>4, <4>5
      <4>7. ASSUME NEW el \in Elems
            PROVE  /\ Len(emptied[el].slots) = Len(s.lent[el].slots)
                   /\ \A k \in DOMAIN s.lent[el].slots :
                         \/ emptied[el].slots[k] = s.lent[el].slots[k]
                         \/ emptied[el].slots[k] = 0 /\ where = <<"lent", el, k>>
        <5>1. CASE el = e
          BY <1>2, <1>5, <4>2, <4>6, <5>1
        <5>2. CASE el # e
          BY <1>11, <4>6, <5>2
        <5>3. QED  BY <5>1, <5>2
      <4>8. QED  BY <4>2, <4>6, <4>7
    <3>3. at <= Len(emptied[e].slots) + 1
      BY <1>2, <1>9, <1>10, <1>17, <3>2
    <3>4. Good(p, Entered(s, step, where, s.windows, emptied))
      <4>1. /\ p[m].do = "lend"
            /\ \E a \in 1 .. LentSlots :
                  /\ where = <<"lent", p[m].elem, a>> /\ a <= Len(emptied[p[m].elem].slots) + 1
                  /\ a \in DOMAIN emptied[p[m].elem].slots => emptied[p[m].elem].slots[a] = 0
        BY <1>1, <1>5, <1>10, <3>2, <3>3
      <4>2. /\ s.windows \in [Roles -> [Elems -> Nat]]
            /\ \A role \in Roles, el \in Elems : s.windows[role][el] <= s.windows[role][el]
        BY <1>8
      <4>3. m \in DOMAIN p /\ Want(p[m]) \in Nat \ {0} /\ where # <<>>
        BY <1>14, <3>1
      <4>4. Good(p, Entered(s, p[m], where, s.windows, emptied))
        BY <3>2, <4>1, <4>2, <4>3, Enters
      <4>5. QED  BY <4>4
    <3>5. Ahead(s, Entered(s, step, where, s.windows, emptied))
      BY <1>14, <3>1, EntersAhead
    <3>6. LendStep(s, step) = Entered(s, step, where, s.windows, emptied)
      BY <1>12, <2>1, <2>6
    <3>7. QED  BY <3>4, <3>5, <3>6
  <2>7. QED  BY <2>4, <2>5, <2>6
<1> QED
  BY <1>9, <1>10, <1>15, <1>16, <1>17

\* A step of the program, whatever it is.
LEMMA BeginGood ==
    ASSUME NEW p, NEW s, Good(p, s), s.waiting = <<>>,
           NEW m, m = Len(s.outcome) + 1, m \in DOMAIN p, NEW step, p[m] = step, IsStep(step),
           \A k \in 1 .. m : LegalStep(p, k)
    PROVE  Good(p, Begin(s, step)) /\ Ahead(s, Begin(s, step))
<1>1. step.do \in {"call", "out", "self", "lend", "make", "drop"}
  BY DEF IsStep, Items
<1>2. Len(s.outcome) \in Nat
  BY DEF Good, Shape
<1>3. LegalStep(p, m) /\ \A k \in 1 .. Len(s.outcome) : LegalStep(p, k)
  BY <1>2
<1>4. CASE step.do = "call"
  BY <1>3, <1>4, RoleGood DEF Begin
<1>5. CASE step.do \in {"out", "self"}
  BY <1>3, <1>5, OutGood DEF Begin
<1>6. CASE step.do = "lend"
  BY <1>3, <1>6, LendGood DEF Begin
<1>7. CASE step.do = "make"
  BY <1>3, <1>7, MakeGood DEF Begin
<1>8. CASE step.do = "drop"
  BY <1>3, <1>8, DropGood DEF Begin
<1> QED
  BY <1>1, <1>4, <1>5, <1>6, <1>7, <1>8

\* A step after destroy: a drop, or it raises.
LEMMA LateGood ==
    ASSUME NEW p, NEW s, Good(p, s), s.waiting = <<>>,
           NEW m, m = Len(s.outcome) + 1, NEW step, p[m] = step, LegalStep(p, m)
    PROVE  LET t == Late(s, step) IN
           /\ Good(p, t) /\ t.waiting = <<>> /\ t.allocs = s.allocs
           /\ t.outcome = Append(s.outcome, LateEnd(step))
<1>1. CASE step.do = "drop"
  <2>1. Good(p, DropStep(s, step))
    BY <1>1, DropGood
  <2>2. LET t == DropStep(s, step) IN
        t.waiting = <<>> /\ t.allocs = s.allocs /\ t.outcome = Out(s, "dropped", 0)
    BY Fields DEF DropStep
  <2>3. QED  BY <1>1, <2>1, <2>2 DEF Late, Out, LateEnd
<1>2. CASE step.do # "drop"
  <2>1. PICK t : t = State(Out(s, "raised", 0), s.allocs, <<>>, s.windows, s.lent, s.owned, s.held)
    OBVIOUS
  <2>2. t.waiting = <<>> /\ t.allocs = s.allocs /\ t.outcome = Out(s, "raised", 0)
    BY <2>1, Fields
  <2>3. /\ s.windows \in [Roles -> [Elems -> Nat]] /\ s.lent \in [Elems -> [slots : Seq(Nat), calls : Nat]]
        /\ \A role \in Roles, e \in Elems : s.windows[role][e] <= s.windows[role][e]
    BY DEF Good, Shape
  <2>4. Good(p, t)
    BY <2>1, <2>3, QuietEnd
  <2>5. Late(s, step) = t
    BY <1>2, <2>1 DEF Late
  <2>6. QED  BY <1>2, <2>2, <2>4, <2>5 DEF Out, LateEnd
<1> QED
  BY <1>1, <1>2

\* destroy leaves the outcomes as they are, and no slot.
LEMMA GoneGood ==
    ASSUME NEW p, NEW s, Good(p, s), s.waiting = <<>>
    PROVE  Good(p, Gone(s)) /\ Gone(s).waiting = <<>>
<1> DEFINE t == Gone(s)
<1>1. /\ t.outcome = s.outcome /\ t.allocs = s.allocs /\ t.waiting = <<>> /\ t.windows = NoWindows
      /\ t.lent = NoSlots /\ t.owned = Keep(s) /\ t.held = s.held
  BY Fields DEF Gone
<1> HIDE DEF t
<1>2. \A e \in Elems : t.lent[e].slots = <<>>
  BY <1>1 DEF NoSlots
<1>3. \A role \in Roles, e \in Elems : t.windows[role][e] = 0
  BY <1>1 DEF NoWindows
<1>4. Top(t) = Len(s.allocs) /\ Top(s) = Len(s.allocs) /\ Len(s.allocs) \in Nat
  BY <1>1 DEF Top, Good, Shape
<1>5. Shape(t)
  <2>1. t.lent \in [Elems -> [slots : Seq(Nat), calls : Nat]] /\ t.windows \in [Roles -> [Elems -> Nat]]
    BY <1>1 DEF NoSlots, NoWindows
  <2>2. \A e \in Elems : Len(t.lent[e].slots) <= LentSlots
    BY <1>2, PoolAssumption
  <2>3. QED  BY <1>1, <2>1, <2>2 DEF Good, Shape, Keep
<1>6. Named(t)
  BY <1>1, <1>2, <1>3, <1>4 DEF Good, Named, Keep
<1>7. Waits(p, t) /\ LentHeld(p, t) /\ LentOnce(p, t) /\ Large(p, t)
  BY <1>1 DEF Good, Waits, LentHeld, LentOnce, Large, FilledBy
<1>8. Apart(p, t)
  BY <1>1, <1>2 DEF Good, Apart, FilledBy, Keep
<1> QED
  BY <1>1, <1>5, <1>6, <1>7, <1>8 DEF Good, t

------------------------------------------------------------------------------
(* The actions are those functions. *)

LEMMA SetsIf ==
    ASSUME NEW f, DOMAIN f = Ranks, NEW r \in Ranks
    PROVE  /\ \A v : Sets(f, [f EXCEPT ![r] = v], r, v)
           /\ Sets(f, f, r, f[r])
BY DEF Sets

LEMMA MovesIf ==
    ASSUME Domains, NEW r \in Ranks, NEW o, NEW a, NEW wt, NEW win, NEW le, NEW ow, NEW he,
           Sets(outcome, outcome', r, o), Sets(allocs, allocs', r, a), Sets(waiting, waiting', r, wt),
           Sets(windows, windows', r, win), Sets(lent, lent', r, le), Sets(owned, owned', r, ow),
           Sets(held, held', r, he)
    PROVE  Moves(r, State(o, a, wt, win, le, ow, he))
<1>1. Local(r)' = State(o, a, wt, win, le, ow, he)
  BY DEF Sets, Local
<1>2. ASSUME NEW t \in Ranks \ {r}  PROVE Local(t)' = Local(t)
  BY DEF Sets, Local
<1>3. Domains'
  BY DEF Sets, Domains
<1> QED
  BY <1>1, <1>2, <1>3 DEF Moves

LEMMA LocalIs ==
    ASSUME NEW r
    PROVE  /\ Local(r).outcome = outcome[r] /\ Local(r).allocs = allocs[r] /\ Local(r).waiting = waiting[r]
           /\ Local(r).windows = windows[r] /\ Local(r).lent = lent[r] /\ Local(r).owned = owned[r]
           /\ Local(r).held = held[r]
BY Fields DEF Local

\* What the parts of an action set.
LEMMA PartsAre ==
    ASSUME Domains, NEW r \in Ranks
    PROVE  /\ \A what, n : Done(r, what, n) => Sets(outcome, outcome', r, Out(Local(r), what, n))
           /\ owned' = Pruned(r) => Sets(owned, owned', r, Keep(Local(r)))
           /\ \A step, where : IsStep(step) /\ Enter(r, Need(r, step), where) =>
                 /\ Sets(allocs, allocs', r, Append(Local(r).allocs, Want(step)))
                 /\ Sets(waiting, waiting', r, where)
           /\ outcome' = outcome => Sets(outcome, outcome', r, Local(r).outcome)
           /\ allocs' = allocs => Sets(allocs, allocs', r, Local(r).allocs)
           /\ waiting' = waiting => Sets(waiting, waiting', r, Local(r).waiting)
           /\ windows' = windows => Sets(windows, windows', r, Local(r).windows)
           /\ lent' = lent => Sets(lent, lent', r, Local(r).lent)
           /\ owned' = owned => Sets(owned, owned', r, Local(r).owned)
           /\ held' = held => Sets(held, held', r, Local(r).held)
<1>1. ASSUME NEW what, NEW n, Done(r, what, n)
      PROVE  Sets(outcome, outcome', r, Out(Local(r), what, n))
  <2>1. PICK x : x = Out(Local(r), what, n)
    OBVIOUS
  <2>2. outcome' = [outcome EXCEPT ![r] = x]
    BY <1>1, <2>1, LocalIs DEF Done, Out
  <2>3. QED  BY <2>1, <2>2, SetsIf DEF Domains
<1>2. ASSUME owned' = Pruned(r)  PROVE Sets(owned, owned', r, Keep(Local(r)))
  <2>1. PICK x : x = Keep(Local(r))
    OBVIOUS
  <2>2. owned' = [owned EXCEPT ![r] = x]
    BY <1>2, <2>1, LocalIs DEF Pruned, Keep
  <2>3. QED  BY <2>1, <2>2, SetsIf DEF Domains
<1>3. ASSUME NEW step, NEW where, IsStep(step), Enter(r, Need(r, step), where)
      PROVE  /\ Sets(allocs, allocs', r, Append(Local(r).allocs, Want(step)))
             /\ Sets(waiting, waiting', r, where)
  <2>1. PICK x : x = Append(Local(r).allocs, Want(step))
    OBVIOUS
  <2>2. Need(r, step) = Want(step)
    BY <1>3, WantNat
  <2>3. allocs' = [allocs EXCEPT ![r] = x] /\ waiting' = [waiting EXCEPT ![r] = where]
    BY <1>3, <2>1, <2>2, LocalIs DEF Enter
  <2>4. Sets(allocs, allocs', r, x)
    BY <2>3, SetsIf DEF Domains
  <2>5. Sets(waiting, waiting', r, where)
    BY <2>3, SetsIf DEF Domains
  <2>6. QED  BY <2>1, <2>4, <2>5
<1>4. /\ outcome' = outcome => Sets(outcome, outcome', r, Local(r).outcome)
      /\ allocs' = allocs => Sets(allocs, allocs', r, Local(r).allocs)
      /\ waiting' = waiting => Sets(waiting, waiting', r, Local(r).waiting)
      /\ windows' = windows => Sets(windows, windows', r, Local(r).windows)
      /\ lent' = lent => Sets(lent, lent', r, Local(r).lent)
      /\ owned' = owned => Sets(owned, owned', r, Local(r).owned)
      /\ held' = held => Sets(held, held', r, Local(r).held)
  BY LocalIs DEF Sets, Domains
<1> QED
  BY <1>1, <1>2, <1>3, <1>4

LEMMA RoleIs ==
    ASSUME Domains, NEW r \in Ranks, waiting[r] = <<>>, NEW step, IsStep(step), RoleCall(r, step)
    PROVE  Moves(r, RoleStep(Local(r), step))
<1>1. PICK s : s = Local(r)
  OBVIOUS
<1>2. PICK role, e, old : role = step.role /\ e = step.elem /\ old = s.windows[role][e]
  OBVIOUS
<1>3. PICK without : without = [s.windows EXCEPT ![role][e] = 0]
  OBVIOUS
<1>4. s.waiting = <<>> /\ s.windows = windows[r] /\ s.allocs = allocs[r]
  BY <1>1, LocalIs
<1>5. /\ Need(r, step) = Want(step) /\ Numel(r, step) = Size(step)
      /\ Bytes(r, old) = BytesIn(s, old)
  BY <1>4, WantNat DEF Bytes, BytesIn
<1>6. Fits(r, old, step) <=> old # 0 /\ BytesIn(s, old) >= Want(step)
  BY <1>5 DEF Fits
<1>7. Sets(owned, owned', r, Keep(s)) /\ Sets(lent, lent', r, s.lent) /\ Sets(held, held', r, s.held)
  BY <1>1, PartsAre DEF RoleCall
<1>8. \/ /\ Fits(r, old, step) /\ Done(r, "filled", old)
         /\ allocs' = allocs /\ waiting' = waiting /\ windows' = windows
      \/ /\ ~ Fits(r, old, step)
         /\ windows' = [windows EXCEPT ![r][role][e] = 0]
         /\ \/ Raises(r, step) /\ Done(r, "raised", 0) /\ allocs' = allocs /\ waiting' = waiting
            \/ /\ ~ Raises(r, step)
               /\ Enter(r, Need(r, step), <<"role", role, e>>)
               /\ outcome' = outcome
  BY <1>2, <1>4 DEF RoleCall
<1>9. RoleStep(s, step) =
        IF old # 0 /\ BytesIn(s, old) >= Want(step) THEN Ended(s, "filled", old, s.windows, s.lent, s.held)
        ELSE IF Size(step) = 0 THEN Ended(s, "raised", 0, without, s.lent, s.held)
        ELSE Entered(s, step, <<"role", role, e>>, without, s.lent)
  BY <1>2, <1>3 DEF RoleStep
<1>10. CASE Fits(r, old, step)
  <2>1. /\ Sets(outcome, outcome', r, Out(s, "filled", old)) /\ Sets(allocs, allocs', r, s.allocs)
        /\ Sets(waiting, waiting', r, <<>>) /\ Sets(windows, windows', r, s.windows)
    BY <1>1, <1>4, <1>8, <1>10, PartsAre
  <2>2. Moves(r, Ended(s, "filled", old, s.windows, s.lent, s.held))
    BY <1>7, <2>1, MovesIf DEF Ended
  <2>3. QED  BY <1>1, <1>6, <1>9, <1>10, <2>2
<1>11. CASE ~ Fits(r, old, step)
  <2>1. windows' = [windows EXCEPT ![r] = without]
    BY <1>3, <1>4, <1>8, <1>11
  <2>2. Sets(windows, windows', r, without)
    BY <2>1, SetsIf DEF Domains
  <2>3. CASE Size(step) = 0
    <3>1. Done(r, "raised", 0) /\ allocs' = allocs /\ waiting' = waiting
      BY <1>5, <1>8, <1>11, <2>3 DEF Raises
    <3>2. /\ Sets(outcome, outcome', r, Out(s, "raised", 0)) /\ Sets(allocs, allocs', r, s.allocs)
          /\ Sets(waiting, waiting', r, <<>>)
      BY <1>1, <1>4, <3>1, PartsAre
    <3>3. Moves(r, Ended(s, "raised", 0, without, s.lent, s.held))
      BY <1>7, <2>2, <3>2, MovesIf DEF Ended
    <3>4. QED  BY <1>1, <1>6, <1>9, <1>11, <2>3, <3>3
  <2>4. CASE Size(step) # 0
    <3>1. PICK where : where = <<"role", role, e>>
      OBVIOUS
    <3>2. Enter(r, Need(r, step), where) /\ outcome' = outcome
      BY <1>5, <1>8, <1>11, <2>4, <3>1 DEF Raises
    <3>3. /\ Sets(outcome, outcome', r, s.outcome) /\ Sets(allocs, allocs', r, Append(s.allocs, Want(step)))
          /\ Sets(waiting, waiting', r, where)
      BY <1>1, <3>2, PartsAre
    <3>4. Moves(r, Entered(s, step, where, without, s.lent))
      BY <1>7, <2>2, <3>3, MovesIf DEF Entered
    <3>5. QED  BY <1>1, <1>6, <1>9, <1>11, <2>4, <3>1, <3>4
  <2>5. QED  BY <2>3, <2>4
<1> QED
  BY <1>10, <1>11

LEMMA OutCallIs ==
    ASSUME Domains, NEW r \in Ranks, waiting[r] = <<>>, NEW step, IsStep(step),
           step.do \in {"out", "self"}, OutCall(r, step)
    PROVE  Moves(r, OutStep(Local(r), step))
<1>1. PICK s : s = Local(r)
  OBVIOUS
<1>2. PICK n : n = s.outcome[step.of].win
  OBVIOUS
<1>3. s.waiting = <<>> /\ s.outcome = outcome[r] /\ s.allocs = allocs[r] /\ s.owned = owned[r]
  BY <1>1, LocalIs
<1>4. OwnedAndLarge(r, n, step) <=> n \in s.owned /\ BytesIn(s, n) >= Want(step)
  BY <1>3, WantNat DEF OwnedAndLarge, Bytes, BytesIn
<1>5. \/ /\ OwnedAndLarge(r, n, step) /\ owned' = Pruned(r)
         /\ \/ step.do = "out" /\ Done(r, "filled", n)
            \/ step.do = "self" /\ Done(r, "raised", 0)
         /\ allocs' = allocs /\ waiting' = waiting /\ windows' = windows /\ lent' = lent /\ held' = held
      \/ ~ OwnedAndLarge(r, n, step) /\ RoleCall(r, step)
  BY <1>2, <1>3 DEF OutCall
<1>6. OutStep(s, step) =
        IF n \in s.owned /\ BytesIn(s, n) >= Want(step)
        THEN IF step.do = "out" THEN Ended(s, "filled", n, s.windows, s.lent, s.held)
                                ELSE Ended(s, "raised", 0, s.windows, s.lent, s.held)
        ELSE RoleStep(s, step)
  BY <1>2 DEF OutStep
<1>7. CASE OwnedAndLarge(r, n, step)
  <2>1. /\ Sets(allocs, allocs', r, s.allocs) /\ Sets(waiting, waiting', r, <<>>)
        /\ Sets(windows, windows', r, s.windows) /\ Sets(lent, lent', r, s.lent)
        /\ Sets(owned, owned', r, Keep(s)) /\ Sets(held, held', r, s.held)
    BY <1>1, <1>3, <1>5, <1>7, PartsAre
  <2>2. CASE step.do = "out"
    <3>1. Sets(outcome, outcome', r, Out(s, "filled", n))
      BY <1>1, <1>5, <1>7, <2>2, PartsAre
    <3>2. Moves(r, Ended(s, "filled", n, s.windows, s.lent, s.held))
      BY <2>1, <3>1, MovesIf DEF Ended
    <3>3. QED  BY <1>1, <1>4, <1>6, <1>7, <2>2, <3>2
  <2>3. CASE step.do # "out"
    <3>1. Sets(outcome, outcome', r, Out(s, "raised", 0))
      BY <1>1, <1>5, <1>7, <2>3, PartsAre
    <3>2. Moves(r, Ended(s, "raised", 0, s.windows, s.lent, s.held))
      BY <2>1, <3>1, MovesIf DEF Ended
    <3>3. QED  BY <1>1, <1>4, <1>6, <1>7, <2>3, <3>2
  <2>4. QED  BY <2>2, <2>3
<1>8. CASE ~ OwnedAndLarge(r, n, step)
  <2>1. RoleCall(r, step)
    BY <1>5, <1>8
  <2>2. Moves(r, RoleStep(s, step))
    BY <1>1, <2>1, RoleIs
  <2>3. QED  BY <1>1, <1>4, <1>6, <1>8, <2>2
<1> QED
  BY <1>7, <1>8

LEMMA MakeIs ==
    ASSUME Domains, NEW r \in Ranks, waiting[r] = <<>>, NEW step, IsStep(step), MakeOutput(r, step)
    PROVE  Moves(r, MakeStep(Local(r), step))
<1>1. PICK s : s = Local(r)
  OBVIOUS
<1>2. s.waiting = <<>> /\ (Raises(r, step) <=> Size(step) = 0)
  BY <1>1, LocalIs, WantNat DEF Raises
<1>3. /\ Sets(windows, windows', r, s.windows) /\ Sets(lent, lent', r, s.lent)
      /\ Sets(owned, owned', r, Keep(s)) /\ Sets(held, held', r, s.held)
  BY <1>1, PartsAre DEF MakeOutput
<1>4. CASE Size(step) = 0
  <2>1. Done(r, "raised", 0) /\ allocs' = allocs /\ waiting' = waiting
    BY <1>2, <1>4 DEF MakeOutput
  <2>2. /\ Sets(outcome, outcome', r, Out(s, "raised", 0)) /\ Sets(allocs, allocs', r, s.allocs)
        /\ Sets(waiting, waiting', r, <<>>)
    BY <1>1, <1>2, <2>1, PartsAre
  <2>3. Moves(r, Ended(s, "raised", 0, s.windows, s.lent, s.held))
    BY <1>3, <2>2, MovesIf DEF Ended
  <2>4. QED  BY <1>1, <1>4, <2>3 DEF MakeStep
<1>5. CASE Size(step) # 0
  <2>1. PICK where : where = <<"owned">>
    OBVIOUS
  <2>2. Enter(r, Need(r, step), where) /\ outcome' = outcome
    BY <1>2, <1>5, <2>1 DEF MakeOutput
  <2>3. /\ Sets(outcome, outcome', r, s.outcome) /\ Sets(allocs, allocs', r, Append(s.allocs, Want(step)))
        /\ Sets(waiting, waiting', r, where)
    BY <1>1, <2>2, PartsAre
  <2>4. Moves(r, Entered(s, step, where, s.windows, s.lent))
    BY <1>3, <2>3, MovesIf DEF Entered
  <2>5. QED  BY <1>1, <1>5, <2>1, <2>4 DEF MakeStep
<1> QED
  BY <1>4, <1>5

LEMMA DropIs ==
    ASSUME Domains, NEW r \in Ranks, waiting[r] = <<>>, NEW step, DropTensor(r, step)
    PROVE  Moves(r, DropStep(Local(r), step))
<1>1. PICK s : s = Local(r)
  OBVIOUS
<1>2. s.waiting = <<>> /\ s.held = held[r] /\ s.outcome = outcome[r]
  BY <1>1, LocalIs
<1>3. PICK he : he = s.held \ {s.outcome[step.of].win}
  OBVIOUS
<1>4. held' = [held EXCEPT ![r] = he]
  BY <1>2, <1>3 DEF DropTensor
<1>5. Sets(held, held', r, he)
  BY <1>4, SetsIf DEF Domains
<1>6. /\ Sets(outcome, outcome', r, Out(s, "dropped", 0)) /\ Sets(allocs, allocs', r, s.allocs)
      /\ Sets(waiting, waiting', r, <<>>) /\ Sets(windows, windows', r, s.windows)
      /\ Sets(lent, lent', r, s.lent) /\ Sets(owned, owned', r, s.owned)
  BY <1>1, <1>2, PartsAre DEF DropTensor
<1>7. Moves(r, State(Out(s, "dropped", 0), s.allocs, <<>>, s.windows, s.lent, s.owned, he))
  BY <1>5, <1>6, MovesIf
<1> QED
  BY <1>1, <1>3, <1>7 DEF DropStep

LEMMA LendIs ==
    ASSUME Domains, NEW r \in Ranks, waiting[r] = <<>>, NEW step, IsStep(step), Lend(r, step),
           Shape(Local(r)), Named(Local(r))
    PROVE  Moves(r, LendStep(Local(r), step))
<1>1. PICK s : s = Local(r)
  OBVIOUS
<1>2. PICK e \in Elems : e = step.elem
  BY DEF IsStep
<1>3. PICK pool, at, n : pool = s.lent[e] /\ at = SlotAt(pool) /\ n = pool.slots[at]
  OBVIOUS
<1>4. PICK counted, emptied, where :
         counted = Counted(s, e) /\ emptied = EmptiedIn(s, e, at) /\ where = <<"lent", e, at>>
  OBVIOUS
<1>5. /\ s.waiting = <<>> /\ s.lent = lent[r] /\ s.held = held[r] /\ s.allocs = allocs[r]
      /\ Shape(s) /\ Named(s)
  BY <1>1, LocalIs
<1>6. /\ Len(pool.slots) \in Nat /\ at \in Nat \ {0} /\ DOMAIN pool.slots = 1 .. Len(pool.slots)
  <2>1. pool \in [slots : Seq(Nat), calls : Nat]
    BY <1>3, <1>5 DEF Shape
  <2>2. QED  BY <1>3, <2>1, SlotAtRange, PoolAssumption
<1>7. at <= Len(pool.slots) => BytesIn(s, n) \in Nat
  <2>1. CASE at <= Len(pool.slots)
    <3>1. at \in DOMAIN pool.slots
      BY <1>6, <2>1
    <3>2. n <= Len(s.allocs) /\ n \in Nat /\ Len(s.allocs) \in Nat /\ Top(s) = Len(s.allocs)
      <4>1. n \in Nat /\ s.allocs \in Seq(Nat \ {0})
        BY <1>3, <1>5, <3>1, SMTT(60) DEF Shape
      <4>2. Top(s) = Len(s.allocs)
        BY <1>5 DEF Top
      <4>3. n <= Top(s)
        BY <1>3, <1>5, <3>1 DEF Named
      <4>4. QED  BY <4>1, <4>2, <4>3
    <3>3. n # 0 => s.allocs[n] \in Nat
      BY <1>5, <3>2 DEF Shape
    <3>4. QED  BY <3>3 DEF BytesIn
  <2>2. QED  BY <2>1
<1>8. /\ Need(r, step) = Want(step) /\ Want(step) \in Nat /\ (Raises(r, step) <=> Size(step) = 0)
      /\ (OnlyOurs(r, n) <=> n \notin s.held) /\ Bytes(r, n) = BytesIn(s, n)
  BY <1>5, WantNat DEF Raises, OnlyOurs, Bytes, BytesIn
<1> DEFINE countedAll == [lent EXCEPT ![r][step.elem].calls = @ + 1]
           emptiedAll == [countedAll EXCEPT ![r][step.elem] = Emptied(@, at)]
<1>9. Sets(lent, countedAll, r, counted) /\ Sets(lent, emptiedAll, r, emptied)
  <2>1. Counted(s, e) = [lent[r] EXCEPT ![e].calls = @ + 1]
    BY <1>5 DEF Counted
  <2>2. countedAll = [lent EXCEPT ![r] = counted]
    BY <1>2, <1>4, <2>1
  <2>3. Sets(lent, countedAll, r, counted)
    BY <2>2, SetsIf DEF Domains
  <2> HIDE DEF countedAll
  <2>4. countedAll[r] = counted /\ DOMAIN countedAll = Ranks /\ \A t \in Ranks \ {r} : countedAll[t] = lent[t]
    BY <2>3 DEF Sets
  <2>5. emptied = [countedAll[r] EXCEPT ![e] = Emptied(@, at)]
    BY <1>4, <2>4 DEF EmptiedIn, Emptied
  <2>6. emptiedAll = [countedAll EXCEPT ![r] = emptied]
    BY <1>2, <2>5
  <2>7. Sets(countedAll, emptiedAll, r, emptied)
    BY <2>4, <2>6, SetsIf, Zenon
  <2>8. QED  BY <2>3, <2>4, <2>7 DEF Sets
<1>10. /\ owned' = Pruned(r) /\ windows' = windows
       /\ \/ /\ at = Len(pool.slots) + 1 /\ ~ Raises(r, step) /\ lent' = countedAll
             /\ Enter(r, Need(r, step), where) /\ outcome' = outcome /\ held' = held
          \/ /\ at = Len(pool.slots) + 1 /\ Raises(r, step) /\ lent' = countedAll /\ Done(r, "raised", 0)
             /\ allocs' = allocs /\ waiting' = waiting /\ held' = held
          \/ /\ at > Len(pool.slots) + 1 /\ lent' = countedAll /\ Done(r, "stray", 0)
             /\ allocs' = allocs /\ waiting' = waiting /\ held' = held
          \/ /\ at <= Len(pool.slots) /\ ~ OnlyOurs(r, n) /\ lent' = countedAll /\ Done(r, "refused", 0)
             /\ allocs' = allocs /\ waiting' = waiting /\ held' = held
          \/ /\ at <= Len(pool.slots) /\ OnlyOurs(r, n) /\ Bytes(r, n) >= Need(r, step)
             /\ lent' = countedAll /\ Done(r, "filled", n)
             /\ held' = [held EXCEPT ![r] = @ \cup {n}]
             /\ allocs' = allocs /\ waiting' = waiting
          \/ /\ at <= Len(pool.slots) /\ OnlyOurs(r, n) /\ Bytes(r, n) < Need(r, step)
             /\ lent' = emptiedAll
             /\ Enter(r, Need(r, step), where) /\ outcome' = outcome /\ held' = held
  BY <1>2, <1>3, <1>4, <1>5, Zenon DEF Lend
<1> HIDE DEF countedAll, emptiedAll
<1>11. LendStep(s, step) =
         IF at > Len(pool.slots) + 1 THEN Ended(s, "stray", 0, s.windows, counted, s.held)
         ELSE IF at = Len(pool.slots) + 1
         THEN IF Size(step) = 0 THEN Ended(s, "raised", 0, s.windows, counted, s.held)
              ELSE Entered(s, step, where, s.windows, counted)
         ELSE IF n \in s.held THEN Ended(s, "refused", 0, s.windows, counted, s.held)
         ELSE IF BytesIn(s, n) >= Want(step)
         THEN Ended(s, "filled", n, s.windows, counted, s.held \cup {n})
         ELSE Entered(s, step, where, s.windows, emptied)
  BY <1>2, <1>3, <1>4 DEF LendStep
<1>12. Sets(owned, owned', r, Keep(s)) /\ Sets(windows, windows', r, s.windows)
  BY <1>1, <1>10, PartsAre
<1>13. ASSUME NEW what, Done(r, what, 0), lent' = countedAll,
              allocs' = allocs, waiting' = waiting, held' = held
       PROVE  Moves(r, Ended(s, what, 0, s.windows, counted, s.held))
  <2>1. /\ Sets(outcome, outcome', r, Out(s, what, 0)) /\ Sets(allocs, allocs', r, s.allocs)
        /\ Sets(waiting, waiting', r, <<>>) /\ Sets(held, held', r, s.held)
    BY <1>1, <1>5, <1>13, PartsAre
  <2>2. Sets(lent, lent', r, counted)
    BY <1>9, <1>13
  <2>3. QED  BY <1>12, <2>1, <2>2, MovesIf DEF Ended
<1>14. ASSUME NEW le, Sets(lent, lent', r, le),
              Enter(r, Need(r, step), where), outcome' = outcome, held' = held
       PROVE  Moves(r, Entered(s, step, where, s.windows, le))
  <2>1. /\ Sets(outcome, outcome', r, s.outcome) /\ Sets(allocs, allocs', r, Append(s.allocs, Want(step)))
        /\ Sets(waiting, waiting', r, where) /\ Sets(held, held', r, s.held)
    BY <1>1, <1>14, PartsAre
  <2>2. QED  BY <1>12, <1>14, <2>1, MovesIf DEF Entered
<1>15. CASE at = Len(pool.slots) + 1 /\ Size(step) # 0
  <2>1. lent' = countedAll /\ Enter(r, Need(r, step), where) /\ outcome' = outcome /\ held' = held
    BY <1>6, <1>8, <1>10, <1>15
  <2>2. Moves(r, Entered(s, step, where, s.windows, counted))
    BY <1>9, <1>14, <2>1
  <2>3. QED  BY <1>1, <1>6, <1>11, <1>15, <2>2
<1>16. CASE at = Len(pool.slots) + 1 /\ Size(step) = 0
  <2>1. lent' = countedAll /\ Done(r, "raised", 0) /\ allocs' = allocs /\ waiting' = waiting /\ held' = held
    BY <1>6, <1>8, <1>10, <1>16
  <2>2. Moves(r, Ended(s, "raised", 0, s.windows, counted, s.held))
    BY <1>13, <2>1
  <2>3. QED  BY <1>1, <1>6, <1>11, <1>16, <2>2
<1>17. CASE at > Len(pool.slots) + 1
  <2>1. lent' = countedAll /\ Done(r, "stray", 0) /\ allocs' = allocs /\ waiting' = waiting /\ held' = held
    BY <1>6, <1>8, <1>10, <1>17
  <2>2. Moves(r, Ended(s, "stray", 0, s.windows, counted, s.held))
    BY <1>13, <2>1
  <2>3. QED  BY <1>1, <1>11, <1>17, <2>2
<1>18. CASE at <= Len(pool.slots)
  <2>1. ~ (at > Len(pool.slots) + 1) /\ at # Len(pool.slots) + 1 /\ BytesIn(s, n) \in Nat
    BY <1>6, <1>7, <1>18
  <2>2. CASE n \in s.held
    <3>1. lent' = countedAll /\ Done(r, "refused", 0) /\ allocs' = allocs /\ waiting' = waiting /\ held' = held
      BY <1>8, <1>10, <2>1, <2>2
    <3>2. Moves(r, Ended(s, "refused", 0, s.windows, counted, s.held))
      BY <1>13, <3>1
    <3>3. QED  BY <1>1, <1>11, <2>1, <2>2, <3>2
  <2>3. CASE n \notin s.held /\ BytesIn(s, n) >= Want(step)
    <3>1. /\ lent' = countedAll /\ Done(r, "filled", n) /\ held' = [held EXCEPT ![r] = @ \cup {n}]
          /\ allocs' = allocs /\ waiting' = waiting
      BY <1>8, <1>10, <2>1, <2>3
    <3>2. PICK he : he = s.held \cup {n}
      OBVIOUS
    <3>3. held' = [held EXCEPT ![r] = he]
      BY <1>5, <3>1, <3>2
    <3>4. Sets(held, held', r, he)
      BY <3>3, SetsIf DEF Domains
    <3>5. /\ Sets(outcome, outcome', r, Out(s, "filled", n)) /\ Sets(allocs, allocs', r, s.allocs)
          /\ Sets(waiting, waiting', r, <<>>)
      BY <1>1, <1>5, <3>1, PartsAre
    <3>6. Sets(lent, lent', r, counted)
      BY <1>9, <3>1
    <3>7. Moves(r, Ended(s, "filled", n, s.windows, counted, he))
      BY <1>12, <3>4, <3>5, <3>6, MovesIf DEF Ended
    <3>8. QED  BY <1>1, <1>11, <2>1, <2>3, <3>2, <3>7
  <2>4. CASE n \notin s.held /\ ~ (BytesIn(s, n) >= Want(step))
    <3>1. lent' = emptiedAll /\ Enter(r, Need(r, step), where) /\ outcome' = outcome /\ held' = held
      BY <1>8, <1>10, <2>1, <2>4
    <3>2. Moves(r, Entered(s, step, where, s.windows, emptied))
      BY <1>9, <1>14, <3>1
    <3>3. QED  BY <1>1, <1>11, <2>1, <2>4, <3>2
  <2>5. QED  BY <2>2, <2>3, <2>4
<1> QED
  BY <1>6, <1>15, <1>16, <1>17, <1>18

\* A step of rank r, before and after it destroys its group.
LEMMA TakeIs ==
    ASSUME Domains, NEW r \in Ranks, waiting[r] = <<>>, NEW step, IsStep(step), Take(r, step),
           Shape(Local(r)), Named(Local(r))
    PROVE  Moves(r, IF destroyed[r] THEN Late(Local(r), step) ELSE Begin(Local(r), step))
<1>1. CASE step.do # "drop" /\ destroyed[r]
  <2>1. PICK s : s = Local(r)
    OBVIOUS
  <2>2. s.waiting = <<>>
    BY <2>1, LocalIs
  <2>3. Done(r, "raised", 0) /\ UNCHANGED <<allocs, waiting, windows, lent, owned, held>>
    BY <1>1 DEF Take, Alive
  <2>4. /\ Sets(outcome, outcome', r, Out(s, "raised", 0)) /\ Sets(allocs, allocs', r, s.allocs)
        /\ Sets(waiting, waiting', r, <<>>) /\ Sets(windows, windows', r, s.windows)
        /\ Sets(lent, lent', r, s.lent) /\ Sets(owned, owned', r, s.owned) /\ Sets(held, held', r, s.held)
    BY <2>1, <2>2, <2>3, PartsAre
  <2>5. Moves(r, State(Out(s, "raised", 0), s.allocs, <<>>, s.windows, s.lent, s.owned, s.held))
    BY <2>4, MovesIf
  <2>6. QED  BY <1>1, <2>1, <2>5 DEF Late
<1>2. CASE step.do = "drop"
  <2>1. DropTensor(r, step)
    BY <1>2 DEF Take
  <2>2. Moves(r, DropStep(Local(r), step))
    BY <2>1, DropIs
  <2>3. QED  BY <1>2, <2>2 DEF Late, Begin
<1>3. CASE ~ destroyed[r] /\ step.do = "call"
  <2>1. RoleCall(r, step)
    BY <1>3 DEF Take, Alive
  <2>2. Moves(r, RoleStep(Local(r), step))
    BY <2>1, RoleIs
  <2>3. QED  BY <1>3, <2>2 DEF Begin
<1>4. CASE ~ destroyed[r] /\ step.do \in {"out", "self"}
  <2>1. OutCall(r, step)
    BY <1>4 DEF Take, Alive
  <2>2. Moves(r, OutStep(Local(r), step))
    BY <1>4, <2>1, OutCallIs
  <2>3. QED  BY <1>4, <2>2 DEF Begin
<1>5. CASE ~ destroyed[r] /\ step.do = "lend"
  <2>1. Lend(r, step)
    BY <1>5 DEF Take, Alive
  <2>2. Moves(r, LendStep(Local(r), step))
    BY <2>1, LendIs
  <2>3. QED  BY <1>5, <2>2 DEF Begin
<1>6. CASE ~ destroyed[r] /\ step.do = "make"
  <2>1. MakeOutput(r, step)
    BY <1>6 DEF Take, Alive
  <2>2. Moves(r, MakeStep(Local(r), step))
    BY <2>1, MakeIs
  <2>3. QED  BY <1>6, <2>2 DEF Begin
<1> QED
  BY <1>1, <1>2, <1>3, <1>4, <1>5, <1>6 DEF Take, Alive

LEMMA RendezvousIs ==
    ASSUME Domains, NEW r \in Ranks, Rendezvous(r)
    PROVE  Moves(r, Back(Local(r)))
<1>1. PICK s : s = Local(r)
  OBVIOUS
<1>2. PICK n, where : n = Len(s.allocs) /\ where = s.waiting
  OBVIOUS
<1>3. PICK win : win = IF where[1] = "role" THEN [s.windows EXCEPT ![where[2]][where[3]] = n] ELSE s.windows
  OBVIOUS
<1>4. PICK le : le = IF where[1] = "lent"
                     THEN [s.lent EXCEPT ![where[2]].slots =
                              IF where[3] > Len(@) THEN Append(@, n) ELSE [@ EXCEPT ![where[3]] = n]]
                     ELSE s.lent
  OBVIOUS
<1>5. PICK ow : ow = IF where[1] = "owned" THEN s.owned \cup {n} ELSE s.owned
  OBVIOUS
<1>6. PICK he : he = IF where[1] = "role" THEN s.held ELSE s.held \cup {n}
  OBVIOUS
<1>7. /\ s.waiting = waiting[r] /\ s.windows = windows[r] /\ s.lent = lent[r] /\ s.owned = owned[r]
      /\ s.held = held[r] /\ s.allocs = allocs[r]
  BY <1>1, LocalIs
<1>8. Sets(waiting, waiting', r, <<>>)
  BY SetsIf, Zenon DEF Rendezvous, Domains
<1>9. Sets(outcome, outcome', r, Out(s, "filled", n)) /\ Sets(allocs, allocs', r, s.allocs)
  BY <1>1, <1>2, <1>7, PartsAre, Zenon DEF Rendezvous
<1>10. Sets(windows, windows', r, win)
  <2>1. CASE where[1] = "role"
    <3>1. windows' = [windows EXCEPT ![r] = win]
      BY <1>2, <1>3, <1>7, <2>1 DEF Rendezvous
    <3>2. QED  BY <3>1, SetsIf DEF Domains
  <2>2. CASE where[1] # "role"
    <3>1. windows' = windows /\ win = windows[r]
      BY <1>2, <1>3, <1>7, <2>2 DEF Rendezvous
    <3>2. QED  BY <3>1, SetsIf, SMTT(60) DEF Domains
  <2>3. QED  BY <2>1, <2>2
<1>11. Sets(lent, lent', r, le)
  <2>1. CASE where[1] = "lent"
    <3>1. lent' = [lent EXCEPT ![r] = le]
      BY <1>2, <1>4, <1>7, <2>1 DEF Rendezvous
    <3>2. QED  BY <3>1, SetsIf DEF Domains
  <2>2. CASE where[1] # "lent"
    <3>1. lent' = lent /\ le = lent[r]
      BY <1>2, <1>4, <1>7, <2>2 DEF Rendezvous
    <3>2. QED  BY <3>1, SetsIf DEF Domains
  <2>3. QED  BY <2>1, <2>2
<1>12. Sets(owned, owned', r, ow)
  <2>1. CASE where[1] = "owned"
    <3>1. owned' = [owned EXCEPT ![r] = ow]
      BY <1>2, <1>5, <1>7, <2>1 DEF Rendezvous
    <3>2. QED  BY <3>1, SetsIf DEF Domains
  <2>2. CASE where[1] # "owned"
    <3>1. owned' = owned /\ ow = owned[r]
      BY <1>2, <1>5, <1>7, <2>2 DEF Rendezvous
    <3>2. QED  BY <3>1, SetsIf, SMTT(60) DEF Domains
  <2>3. QED  BY <2>1, <2>2
<1>13. Sets(held, held', r, he)
  <2>1. CASE where[1] = "role"
    <3>1. held' = held /\ he = held[r]
      BY <1>2, <1>6, <1>7, <2>1 DEF Rendezvous
    <3>2. QED  BY <3>1, SetsIf, SMTT(60) DEF Domains
  <2>2. CASE where[1] # "role"
    <3>1. held' = [held EXCEPT ![r] = he]
      BY <1>2, <1>6, <1>7, <2>2 DEF Rendezvous
    <3>2. QED  BY <3>1, SetsIf DEF Domains
  <2>3. QED  BY <2>1, <2>2
<1>14. Moves(r, State(Out(s, "filled", n), s.allocs, <<>>, win, le, ow, he))
  BY <1>8, <1>9, <1>10, <1>11, <1>12, <1>13, MovesIf, SMTT(60)
<1>15. Back(s) = State(Out(s, "filled", n), s.allocs, <<>>, win, le, ow, he)
  BY <1>2, <1>3, <1>4, <1>5, <1>6 DEF Back
<1> QED
  BY <1>1, <1>14, <1>15

LEMMA DestroyIs ==
    ASSUME Domains, NEW r \in Ranks, Destroy(r)
    PROVE  Moves(r, Gone(Local(r)))
<1>1. PICK s : s = Local(r)
  OBVIOUS
<1>2. PICK win, le : win = NoWindows /\ le = NoSlots
  OBVIOUS
<1>3. Sets(windows, windows', r, win) /\ Sets(lent, lent', r, le)
  <2>1. windows' = [windows EXCEPT ![r] = win] /\ lent' = [lent EXCEPT ![r] = le]
    BY <1>2 DEF Destroy, NoWindows, NoSlots
  <2>2. QED  BY <2>1, SetsIf DEF Domains
<1>4. /\ Sets(outcome, outcome', r, s.outcome) /\ Sets(allocs, allocs', r, s.allocs)
      /\ Sets(waiting, waiting', r, s.waiting) /\ Sets(owned, owned', r, Keep(s))
      /\ Sets(held, held', r, s.held)
  BY <1>1, PartsAre DEF Destroy
<1>5. Moves(r, State(s.outcome, s.allocs, s.waiting, win, le, Keep(s), s.held))
  BY <1>3, <1>4, MovesIf
<1> QED
  BY <1>1, <1>2, <1>5 DEF Gone

------------------------------------------------------------------------------
(* The history, and the ranks on it. *)

\* A program that grows leaves what was done of it.
LEMMA GrowGood ==
    ASSUME NEW p \in Seq(Items), NEW q, Grows(p, q), NEW s, Good(p, s), Len(s.outcome) <= Len(p)
    PROVE  Good(q, s)
<1>1. Len(q) = Len(p) + 1 /\ Len(p) \in Nat /\ DOMAIN p = 1 .. Len(p) /\ DOMAIN q = 1 .. Len(p) + 1
  BY DEF Grows
<1>2. \A k \in 1 .. Len(p) : q[k] = p[k] /\ k \in DOMAIN q
  BY <1>1 DEF Grows
<1>3. /\ Len(s.outcome) \in Nat /\ DOMAIN s.outcome = 1 .. Len(s.outcome)
      /\ \A i \in DOMAIN s.outcome : i \in 1 .. Len(p)
  <2>1. s.outcome \in Seq(Ends)
    BY DEF Good, Shape
  <2>2. QED  BY <1>1, <2>1
<1>4. \A i \in DOMAIN s.outcome, do \in {"make", "lend"} : FilledBy(q, s, i, do) <=> FilledBy(p, s, i, do)
  BY <1>2, <1>3 DEF FilledBy
<1>5. ASSUME NEW i, NEW lo \in Nat \ {0}, NEW hi \in Int, hi <= Len(s.outcome)
      PROVE  DroppedIn(q, i, lo, hi) <=> DroppedIn(p, i, lo, hi)
  <2>1. \A k \in lo .. hi : k \in 1 .. Len(p)
    BY <1>1, <1>3, <1>5
  <2>2. QED  BY <1>2, <2>1 DEF DroppedIn
<1>6. Waits(q, s)
  <2>1. CASE s.waiting = <<>>
    BY <2>1, SMTT(60) DEF Waits
  <2>2. CASE s.waiting # <<>>
    <3>1. Len(s.outcome) + 1 \in 1 .. Len(p)
      BY <1>1, <2>2 DEF Good, Waits
    <3>2. q[Len(s.outcome) + 1] = p[Len(s.outcome) + 1] /\ Len(s.outcome) + 1 \in DOMAIN q
      BY <1>2, <3>1
    <3>3. QED  BY <3>2 DEF Good, Waits
  <2>3. QED  BY <2>1, <2>2
<1>7. Apart(q, s)
  BY <1>4 DEF Good, Apart
<1>8. LentHeld(q, s)
  <2>1. \A i : DroppedIn(q, i, 1, Len(s.outcome)) <=> DroppedIn(p, i, 1, Len(s.outcome))
    BY <1>3, <1>5
  <2>2. QED  BY <1>4, <2>1 DEF Good, LentHeld
<1>9. LentOnce(q, s)
  <2> SUFFICES ASSUME NEW i \in DOMAIN s.outcome, NEW j \in DOMAIN s.outcome, i < j,
                      FilledBy(q, s, i, "lend"), FilledBy(q, s, j, "lend"),
                      s.outcome[i].win = s.outcome[j].win
               PROVE  DroppedIn(q, i, i + 1, j - 1)
    BY DEF LentOnce
  <2>1. DroppedIn(p, i, i + 1, j - 1)
    BY <1>4 DEF Good, LentOnce
  <2>2. i + 1 \in Nat \ {0} /\ j - 1 \in Int /\ j - 1 <= Len(s.outcome)
    BY <1>3
  <2>3. QED  BY <1>5, <2>1, <2>2
<1>10. Large(q, s)
  BY <1>2, <1>3 DEF Good, Large
<1> QED
  BY <1>6, <1>7, <1>8, <1>9, <1>10 DEF Good

LEMMA BeforeIs ==
    ASSUME NEW p \in Seq(Items), NEW b \in Bounds
    PROVE  /\ Before(p, b) \in Nat /\ b.steps \in Nat /\ b.late \in Nat /\ Len(p) \in Nat
           /\ Before(p, b) <= Len(p) /\ Before(p, b) <= b.steps
           /\ Before(p, b) = Len(p) \/ Before(p, b) = b.steps
<1>1. b.steps \in Nat /\ b.late \in Nat /\ Len(p) \in Nat
  BY PoolAssumption
<1> QED
  BY <1>1 DEF Before

\* The whole of a step: its outcome, and perhaps an allocation, behind the others.
LEMMA ThroughGood ==
    ASSUME NEW p, NEW s, Good(p, s), s.waiting = <<>>,
           NEW m, m = Len(s.outcome) + 1, m \in DOMAIN p, NEW step, p[m] = step, IsStep(step),
           \A k \in 1 .. m : LegalStep(p, k)
    PROVE  LET t == Through(s, step) IN
           /\ Good(p, t) /\ t.waiting = <<>> /\ Len(t.outcome) = m
           /\ Prefix(s.outcome, t.outcome) /\ Prefix(s.allocs, t.allocs)
           /\ Begin(s, step).waiting # <<>> =>
                 Begin(s, step).outcome = s.outcome /\ t.allocs = Begin(s, step).allocs
<1>1. PICK u : u = Begin(s, step)
  OBVIOUS
<1>2. PICK t : t = Through(s, step)
  OBVIOUS
<1>3. Good(p, u) /\ Ahead(s, u)
  BY <1>1, BeginGood
<1>4. s.outcome \in Seq(Ends) /\ s.allocs \in Seq(Nat \ {0}) /\ Len(s.outcome) \in Nat /\ Len(s.allocs) \in Nat
  BY DEF Good, Shape
<1>5. CASE u.waiting = <<>>
  <2>1. t = u
    BY <1>1, <1>2, <1>5 DEF Through
  <2>2. PICK end \in Ends : u.outcome = Append(s.outcome, end) /\ u.allocs = s.allocs
    BY <1>3, <1>5 DEF Ahead
  <2>3. Len(u.outcome) = m /\ Prefix(s.outcome, u.outcome)
    BY <1>4, <2>2, AppendIs DEF Prefix
  <2>4. Prefix(s.allocs, u.allocs)
    BY <1>4, <2>2 DEF Prefix
  <2>5. QED  BY <1>1, <1>2, <1>3, <1>5, <2>1, <2>3, <2>4
<1>6. CASE u.waiting # <<>>
  <2>1. t = Back(u)
    BY <1>1, <1>2, <1>6 DEF Through
  <2>2. PICK n \in Nat \ {0} : u.outcome = s.outcome /\ u.allocs = Append(s.allocs, n)
    BY <1>3, <1>6 DEF Ahead
  <2>3. Good(p, t) /\ t.waiting = <<>>
    BY <1>3, <1>6, <2>1, <2>2, BackGood
  <2>4. t.outcome = Out(u, "filled", Len(u.allocs)) /\ t.allocs = u.allocs
    BY <2>1, BackIs
  <2>5. Prefix(s.allocs, u.allocs)
    BY <1>4, <2>2, AppendIs DEF Prefix
  <2>6. Len(u.allocs) \in Nat
    BY <1>4, <2>2, AppendIs
  <2>7. Len(t.outcome) = m /\ Prefix(s.outcome, t.outcome)
    BY <1>4, <2>2, <2>4, <2>6, OutIs, SMTT(60) DEF Prefix
  <2>8. QED  BY <1>1, <1>2, <2>2, <2>3, <2>4, <2>5, <2>7
<1> QED
  BY <1>5, <1>6

LEMMA PrefixTrans ==
    ASSUME NEW x, NEW y, NEW z, Len(x) \in Nat, Len(y) \in Nat, Len(z) \in Nat,
           Prefix(x, y), Prefix(y, z)
    PROVE  Prefix(x, z)
BY DEF Prefix

\* The history goes on with the program, until destroy.
LEMMA HistoryGrows ==
    ASSUME NEW b \in Bounds, NEW p \in Seq(Items), NEW h, IsHistory(h, p, b),
           NEW q, Grows(p, q), Len(p) < b.steps,
           Good(q, h[Len(p)]), IsProgram(q, b)
    PROVE  \E g : IsHistory(g, q, b) /\ \A i \in 0 .. Len(p) : g[i] = h[i]
<1>1. PICK n : n = Len(p)
  OBVIOUS
<1>2. PICK step : step = q[n + 1]
  OBVIOUS
<1>3. /\ n \in Nat /\ Len(q) = n + 1 /\ DOMAIN q = 1 .. n + 1 /\ q[n + 1] = step
      /\ \A k \in 1 .. n : q[k] = p[k]
  BY <1>1, <1>2 DEF Grows
<1>4. b.steps \in Nat /\ Before(p, b) = n /\ Before(q, b) = n + 1
  BY <1>1, <1>3, PoolAssumption DEF Before
<1>5. PICK last : last = Through(h[n], step)
  OBVIOUS
<1>6. /\ h[0] = Fresh
      /\ \A i \in 1 .. n : h[i] = Through(h[i - 1], p[i])
      /\ \A i \in 0 .. n : /\ h[i].waiting = <<>> /\ Len(h[i].outcome) = i
                           /\ h[i].outcome \in Seq(Ends) /\ h[i].allocs \in Seq(Nat \ {0})
      /\ \A i \in 0 .. n : \A j \in i .. n :
            Prefix(h[i].outcome, h[j].outcome) /\ Prefix(h[i].allocs, h[j].allocs)
  BY <1>4 DEF IsHistory
<1>7. n \in 0 .. n /\ h[n].waiting = <<>> /\ Len(h[n].outcome) = n
  BY <1>3, <1>6
<1>8. /\ last.waiting = <<>> /\ Len(last.outcome) = n + 1
      /\ last.outcome \in Seq(Ends) /\ last.allocs \in Seq(Nat \ {0})
      /\ Prefix(h[n].outcome, last.outcome) /\ Prefix(h[n].allocs, last.allocs)
  <2>1. n + 1 \in DOMAIN q /\ IsStep(step) /\ \A k \in 1 .. n + 1 : LegalStep(q, k)
    BY <1>3 DEF IsProgram
  <2>2. Good(q, h[n])
    BY <1>1
  <2>3. PICK s : s = h[n]
    OBVIOUS
  <2>4. /\ Good(q, s) /\ s.waiting = <<>> /\ n + 1 = Len(s.outcome) + 1
        /\ n + 1 \in DOMAIN q /\ q[n + 1] = step
    BY <1>3, <1>7, <2>1, <2>2, <2>3
  <2>5. last = Through(s, step)
    BY <1>5, <2>3
  <2>6. /\ Good(q, last) /\ last.waiting = <<>> /\ Len(last.outcome) = n + 1
        /\ Prefix(s.outcome, last.outcome) /\ Prefix(s.allocs, last.allocs)
    BY <2>1, <2>4, <2>5, ThroughGood
  <2>7. QED  BY <2>3, <2>6 DEF Good, Shape
<1> DEFINE g == [i \in 0 .. n + 1 |-> IF i <= n THEN h[i] ELSE last]
<1>9. (\A i \in 0 .. n : g[i] = h[i]) /\ g[n + 1] = last
  BY <1>3
<1> HIDE DEF g
<1>10. IsHistory(g, q, b)
  <2>1. g[0] = Fresh
    BY <1>3, <1>6, <1>9
  <2>2. ASSUME NEW i \in 1 .. n + 1  PROVE g[i] = Through(g[i - 1], q[i])
    <3>1. CASE i = n + 1
      <4>1. i - 1 = n
        BY <1>3, <3>1
      <4>2. QED  BY <1>3, <1>5, <1>7, <1>9, <3>1, <4>1
    <3>2. CASE i # n + 1
      <4>1. i \in 1 .. n /\ i \in 0 .. n /\ i - 1 \in 0 .. n
        BY <1>3, <3>2
      <4>2. QED  BY <1>3, <1>6, <1>9, <4>1
    <3>3. QED  BY <3>1, <3>2
  <2>3. ASSUME NEW i \in 0 .. n + 1
        PROVE  /\ g[i].waiting = <<>> /\ Len(g[i].outcome) = i
               /\ g[i].outcome \in Seq(Ends) /\ g[i].allocs \in Seq(Nat \ {0})
    <3>1. CASE i = n + 1
      BY <1>8, <1>9, <3>1
    <3>2. CASE i # n + 1
      <4>1. i \in 0 .. n
        BY <1>3, <3>2
      <4>2. QED  BY <1>6, <1>9, <4>1
    <3>3. QED  BY <3>1, <3>2
  <2>4. ASSUME NEW i \in 0 .. n + 1, NEW j \in i .. n + 1
        PROVE  Prefix(g[i].outcome, g[j].outcome) /\ Prefix(g[i].allocs, g[j].allocs)
    <3>1. CASE j # n + 1
      <4>1. i \in 0 .. n /\ j \in i .. n /\ j \in 0 .. n
        BY <1>3, <3>1
      <4>2. g[i] = h[i] /\ g[j] = h[j]
        BY <1>9, <4>1
      <4>3. QED  BY <1>6, <4>1, <4>2
    <3>2. CASE i = n + 1
      <4>1. j = n + 1
        BY <1>3, <3>2
      <4>2. Len(last.outcome) \in Nat /\ Len(last.allocs) \in Nat
        BY <1>3, <1>8
      <4>3. QED  BY <1>9, <3>2, <4>1, <4>2 DEF Prefix
    <3>3. CASE i # n + 1 /\ j = n + 1
      <4>1. i \in 0 .. n /\ n \in i .. n
        BY <1>3, <3>3
      <4>2. g[i] = h[i] /\ g[j] = last
        BY <1>9, <3>3, <4>1
      <4>3. Prefix(h[i].outcome, h[n].outcome) /\ Prefix(h[i].allocs, h[n].allocs)
        BY <1>6, <4>1
      <4>4. /\ Len(h[i].outcome) \in Nat /\ Len(h[n].outcome) \in Nat /\ Len(last.outcome) \in Nat
            /\ Len(h[i].allocs) \in Nat /\ Len(h[n].allocs) \in Nat /\ Len(last.allocs) \in Nat
        BY <1>3, <1>6, <1>7, <1>8, <4>1, SMTT(60)
      <4>5. Prefix(h[i].outcome, last.outcome)
        BY <1>8, <4>3, <4>4, PrefixTrans
      <4>6. Prefix(h[i].allocs, last.allocs)
        BY <1>8, <4>3, <4>4, PrefixTrans
      <4>7. QED  BY <4>2, <4>5, <4>6
    <3>4. QED  BY <3>1, <3>2, <3>3
  <2>5. QED  BY <1>4, <2>1, <2>2, <2>3, <2>4 DEF IsHistory
<1> QED
  BY <1>1, <1>9, <1>10

\* Where a rank was it is, when the program goes on.
LEMMA OnGrows ==
    ASSUME NEW b \in Bounds, NEW p \in Seq(Items), NEW q, Grows(p, q),
           NEW h, NEW g, \A i \in 0 .. Before(p, b) : g[i] = h[i],
           NEW gone \in BOOLEAN, NEW s, s.outcome \in Seq(Ends), Len(s.outcome) <= Len(p),
           On(h, p, b, gone, s)
    PROVE  On(g, q, b, gone, s)
<1>1. PICK n, i, m : n = Before(p, b) /\ i = Len(s.outcome) /\ m = Len(p)
  OBVIOUS
<1>2. /\ n \in Nat /\ i \in Nat /\ m \in Nat /\ b.steps \in Nat /\ i <= m
      /\ (n = m \/ n = b.steps) /\ n <= b.steps /\ n <= m
  BY <1>1, BeforeIs
<1>3. Len(q) = m + 1 /\ \A k \in 1 .. m : q[k] = p[k]
  BY <1>1 DEF Grows
<1>4. n <= Before(q, b) /\ (n = b.steps => Before(q, b) = b.steps)
  BY <1>1, <1>2, <1>3 DEF Before
<1>5. Before(q, b) \in Nat
  BY <1>2, <1>3 DEF Before
<1>6. CASE ~ gone
  <2>1. /\ i <= n
        /\ IF s.waiting = <<>> THEN s = h[i] ELSE i < n /\ s = Begin(h[i], p[i + 1])
    BY <1>1, <1>6 DEF On
  <2>2. i \in 0 .. n /\ g[i] = h[i]
    BY <1>1, <1>2, <2>1
  <2>3. s.waiting # <<>> => i + 1 \in 1 .. m /\ q[i + 1] = p[i + 1]
    BY <1>2, <1>3, <2>1
  <2>4. i <= Before(q, b) /\ (s.waiting # <<>> => i < Before(q, b))
    BY <1>2, <1>4, <1>5, <2>1
  <2>5. QED  BY <1>1, <1>6, <2>1, <2>2, <2>3, <2>4 DEF On
<1>7. CASE gone
  <2>1. /\ n = b.steps /\ i >= b.steps /\ s.waiting = <<>>
        /\ s.allocs = h[b.steps].allocs
        /\ \A k \in 1 .. i :
              s.outcome[k] = IF k <= b.steps THEN h[b.steps].outcome[k] ELSE LateEnd(p[k])
    BY <1>1, <1>7 DEF On
  <2>2. g[b.steps] = h[b.steps]
    BY <1>1, <1>2, <2>1
  <2>3. \A k \in 1 .. i : q[k] = p[k]
    BY <1>2, <1>3
  <2>4. QED  BY <1>1, <1>4, <1>7, <2>1, <2>2, <2>3 DEF On
<1> QED
  BY <1>6, <1>7

\* A rank's step takes it on along the history.
LEMMA StepOn ==
    ASSUME NEW b \in Bounds, NEW p, IsProgram(p, b), NEW h, IsHistory(h, p, b),
           NEW s, Good(p, s), s.waiting = <<>>, On(h, p, b, FALSE, s),
           NEW m, m = Len(s.outcome) + 1, m <= Before(p, b)
    PROVE  LET t == Begin(s, p[m]) IN
           Good(p, t) /\ On(h, p, b, FALSE, t) /\ Len(t.outcome) <= Len(p)
<1>1. PICK step, n, i : step = p[m] /\ n = Before(p, b) /\ i = Len(s.outcome)
  OBVIOUS
<1>2. PICK t, u : t = Begin(s, step) /\ u = Through(s, step)
  OBVIOUS
<1>3. i \in Nat /\ n \in Nat /\ n <= Len(p) /\ Len(p) \in Nat /\ m = i + 1 /\ p \in Seq(Items)
  <2>1. s.outcome \in Seq(Ends) /\ p \in Seq(Items)
    BY DEF Good, Shape, IsProgram
  <2>2. QED  BY <1>1, <2>1, BeforeIs
<1>4. /\ m \in 1 .. Len(p) /\ m \in DOMAIN p /\ IsStep(step) /\ \A k \in 1 .. m : LegalStep(p, k)
      /\ m \in 1 .. n
  <2>1. m \in 1 .. Len(p) /\ m \in DOMAIN p /\ m \in 1 .. n
    BY <1>1, <1>3
  <2>2. \A k \in 1 .. m : k \in 1 .. Len(p)
    BY <1>3, <2>1
  <2>3. QED  BY <1>1, <2>1, <2>2 DEF IsProgram
<1>5. Good(p, t) /\ Ahead(s, t)
  BY <1>1, <1>2, <1>4, BeginGood
<1>6. /\ u.waiting = <<>> /\ Len(u.outcome) = m
      /\ t.waiting # <<>> => t.outcome = s.outcome
  BY <1>1, <1>2, <1>4, ThroughGood
<1>7. s = h[i]
  BY <1>1 DEF On
<1>8. h[m] = u
  <2>1. h[m] = Through(h[m - 1], p[m]) /\ m - 1 = i
    BY <1>1, <1>3, <1>4 DEF IsHistory
  <2>2. QED  BY <1>1, <1>2, <1>7, <2>1
<1>9. CASE t.waiting = <<>>
  <2>1. t = u
    BY <1>2, <1>9 DEF Through
  <2>2. t = h[m] /\ Len(t.outcome) = m
    BY <1>6, <1>8, <2>1
  <2>3. On(h, p, b, FALSE, t)
    BY <1>1, <1>9, <2>2 DEF On
  <2>4. Len(t.outcome) <= Len(p)
    BY <1>3, <1>4, <2>2
  <2>5. QED  BY <1>1, <1>2, <1>5, <2>3, <2>4
<1>10. CASE t.waiting # <<>>
  <2>1. Len(t.outcome) = i /\ i < n
    BY <1>1, <1>3, <1>6, <1>10, SMTT(60)
  <2>2. On(h, p, b, FALSE, t)
    BY <1>1, <1>2, <1>3, <1>7, <1>10, <2>1 DEF On
  <2>3. Len(t.outcome) <= Len(p)
    BY <1>3, <2>1
  <2>4. QED  BY <1>1, <1>2, <1>5, <2>2, <2>3
<1> QED
  BY <1>9, <1>10

\* So does the return from an allocation.
LEMMA BackOn ==
    ASSUME NEW b \in Bounds, NEW p, IsProgram(p, b), NEW h, IsHistory(h, p, b),
           NEW s, Good(p, s), s.waiting # <<>>, On(h, p, b, FALSE, s)
    PROVE  LET t == Back(s) IN
           Good(p, t) /\ On(h, p, b, FALSE, t) /\ Len(t.outcome) <= Len(p)
<1>1. PICK m, n, i : m = Len(s.outcome) + 1 /\ n = Before(p, b) /\ i = Len(s.outcome)
  OBVIOUS
<1>2. PICK t : t = Back(s)
  OBVIOUS
<1>3. i \in Nat /\ n \in Nat /\ n <= Len(p) /\ Len(p) \in Nat /\ m = i + 1
  <2>1. s.outcome \in Seq(Ends) /\ p \in Seq(Items)
    BY DEF Good, Shape, IsProgram
  <2>2. QED  BY <1>1, <2>1, BeforeIs
<1>4. i < n /\ s = Begin(h[i], p[m])
  BY <1>1, <1>3 DEF On
<1>5. m \in 1 .. n /\ m \in 0 .. n /\ m - 1 = i /\ m \in 1 .. Len(p)
  BY <1>3, <1>4
<1>6. t = Through(h[i], p[m])
  BY <1>2, <1>4 DEF Through
<1>7. h[m] = t
  BY <1>1, <1>5, <1>6 DEF IsHistory
<1>8. Len(t.outcome) = m /\ t.waiting = <<>>
  BY <1>1, <1>5, <1>7 DEF IsHistory
<1>9. Good(p, t)
  <2>1. IsStep(p[m])
    BY <1>5 DEF IsProgram
  <2>2. QED  BY <1>1, <1>2, <2>1, BackGood
<1>10. On(h, p, b, FALSE, t)
  BY <1>1, <1>3, <1>5, <1>7, <1>8 DEF On
<1>11. Len(t.outcome) <= Len(p)
  BY <1>3, <1>5, <1>8
<1> QED
  BY <1>2, <1>9, <1>10, <1>11

\* A rank that destroys its group has come to the end of the history, and every
\* step after it ends as it does for all.
LEMMA GoneOn ==
    ASSUME NEW b \in Bounds, NEW p, IsProgram(p, b), NEW h, IsHistory(h, p, b),
           NEW s, Good(p, s), On(h, p, b, FALSE, s), Len(s.outcome) >= b.steps
    PROVE  /\ s.waiting = <<>>
           /\ Good(p, Gone(s)) /\ On(h, p, b, TRUE, Gone(s)) /\ Gone(s).outcome = s.outcome
<1>1. PICK n, i : n = Before(p, b) /\ i = Len(s.outcome)
  OBVIOUS
<1>2. i \in Nat /\ n \in Nat /\ n <= b.steps /\ b.steps \in Nat
  <2>1. s.outcome \in Seq(Ends) /\ p \in Seq(Items)
    BY DEF Good, Shape, IsProgram
  <2>2. QED  BY <1>1, <2>1, BeforeIs
<1>3. i <= n /\ IF s.waiting = <<>> THEN s = h[i] ELSE i < n
  BY <1>1 DEF On
<1>4. i = b.steps /\ n = b.steps /\ s.waiting = <<>> /\ s = h[b.steps]
  BY <1>1, <1>2, <1>3
<1>5. PICK t : t = Gone(s)
  OBVIOUS
<1>6. t.outcome = s.outcome /\ t.allocs = s.allocs /\ t.waiting = <<>>
  BY <1>4, <1>5, Fields DEF Gone
<1>7. Good(p, t)
  BY <1>4, <1>5, GoneGood
<1>8. On(h, p, b, TRUE, t)
  <2>1. Len(t.outcome) = b.steps /\ b.steps >= b.steps
    BY <1>1, <1>2, <1>4, <1>6
  <2>2. t.allocs = h[b.steps].allocs /\ t.outcome = h[b.steps].outcome
    BY <1>4, <1>6
  <2>3. \A k \in 1 .. b.steps : k <= b.steps
    BY <1>2
  <2>4. QED  BY <1>1, <1>4, <1>6, <2>1, <2>2, <2>3 DEF On
<1> QED
  BY <1>4, <1>5, <1>6, <1>7, <1>8

LEMMA LateOn ==
    ASSUME NEW b \in Bounds, NEW p, IsProgram(p, b), NEW h,
           NEW s, Good(p, s), On(h, p, b, TRUE, s),
           NEW m, m = Len(s.outcome) + 1, m <= Len(p)
    PROVE  LET t == Late(s, p[m]) IN
           Good(p, t) /\ On(h, p, b, TRUE, t) /\ Len(t.outcome) <= Len(p)
<1>1. PICK step, i : step = p[m] /\ i = Len(s.outcome)
  OBVIOUS
<1>2. PICK t : t = Late(s, step)
  OBVIOUS
<1>3. i \in Nat /\ Len(p) \in Nat /\ m = i + 1 /\ b.steps \in Nat /\ s.outcome \in Seq(Ends)
  <2>1. s.outcome \in Seq(Ends) /\ p \in Seq(Items)
    BY DEF Good, Shape, IsProgram
  <2>2. QED  BY <1>1, <2>1, BeforeIs
<1>4. /\ Before(p, b) = b.steps /\ i >= b.steps /\ s.waiting = <<>> /\ s.allocs = h[b.steps].allocs
      /\ \A k \in 1 .. i : s.outcome[k] = IF k <= b.steps THEN h[b.steps].outcome[k] ELSE LateEnd(p[k])
  BY <1>1 DEF On
<1>5. LegalStep(p, m)
  BY <1>1, <1>3 DEF IsProgram
<1>6. /\ Good(p, t) /\ t.waiting = <<>> /\ t.allocs = s.allocs
      /\ t.outcome = Append(s.outcome, LateEnd(step))
  BY <1>1, <1>2, <1>4, <1>5, LateGood
<1>7. LateEnd(step) \in Ends
  BY DEF LateEnd, Ends
<1>8. PICK x \in Ends : x = LateEnd(step)
  BY <1>7
<1>9. Len(t.outcome) = m /\ t.outcome[m] = x /\ \A k \in 1 .. i : t.outcome[k] = s.outcome[k]
  BY <1>1, <1>3, <1>6, <1>8, AppendIs
<1>10. \A k \in 1 .. m : t.outcome[k] = IF k <= b.steps THEN h[b.steps].outcome[k] ELSE LateEnd(p[k])
  <2> TAKE k \in 1 .. m
  <2>1. CASE k = m
    BY <1>1, <1>3, <1>4, <1>8, <1>9, <2>1
  <2>2. CASE k # m
    <3>1. k \in 1 .. i
      BY <1>3, <2>2
    <3>2. QED  BY <1>4, <1>9, <3>1
  <2>3. QED  BY <2>1, <2>2
<1>11. On(h, p, b, TRUE, t)
  BY <1>3, <1>4, <1>6, <1>9, <1>10, SMTT(60) DEF On
<1> QED
  BY <1>1, <1>2, <1>6, <1>9, <1>11

------------------------------------------------------------------------------
(* The invariant. *)

\* The first rank to come to a step goes on with one the program may go on with.
LEMMA NextStepsAre ==
    ASSUME Typing, NEW r \in Ranks, Shape(Local(r)), Len(outcome[r]) = Len(program),
           NEW step, step \in NextSteps(r),
           Len(program) + 1 <= bound.steps + bound.late
    PROVE  LET q == Append(program, step) IN
           Grows(program, q) /\ IsProgram(q, bound) /\ q[Len(program) + 1] = step
<1>1. PICK p, n : p = program /\ n = Len(program)
  OBVIOUS
<1>2. /\ p \in Seq(Items) /\ n \in Nat /\ n = Len(p) /\ DOMAIN p = 1 .. n
      /\ \A k \in 1 .. n : IsStep(p[k]) /\ LegalStep(p, k)
  BY <1>1 DEF Typing, IsProgram
<1>3. outcome[r] \in Seq(Ends) /\ DOMAIN outcome[r] = 1 .. n
  <2>1. outcome[r] \in Seq(Ends)
    BY LocalIs DEF Shape
  <2>2. QED  BY <1>1, <2>1
<1>4. PICK m \in bound.menu :
         \/ step = m /\ m.do \notin {"drop", "out", "self"}
         \/ /\ m.do \in {"drop", "out", "self"}
            /\ \E i \in 1 .. n : /\ step = [m EXCEPT !.of = i]
                                 /\ m.do = "drop" => p[i].do \in {"lend", "make"}
                                 /\ ~ \E k \in 1 .. n : p[k].do = "drop" /\ p[k].of = i
  <2> DEFINE dropped(i) == \E k \in DOMAIN program : program[k].do = "drop" /\ program[k].of = i
             kept(i) == outcome[r][i].what = "filled" /\ ~ dropped(i)
             named(x, kinds) ==
                 {[x EXCEPT !.of = i] : i \in {j \in DOMAIN outcome[r] : program[j].do \in kinds /\ kept(j)}}
             ways(x) == CASE x.do = "drop" -> named(x, {"lend", "make"})
                          [] x.do \in {"out", "self"} -> named(x, {"make"})
                          [] OTHER -> {x}
  <2>1. NextSteps(r) = UNION {ways(x) : x \in bound.menu}
    BY DEF NextSteps
  <2> HIDE DEF ways
  <2>2. PICK m \in bound.menu : step \in ways(m)
    BY <2>1
  <2> USE DEF ways
  <2> HIDE DEF named
  <2>3. ASSUME NEW kinds, step \in named(m, kinds)
        PROVE  \E i \in 1 .. n : /\ step = [m EXCEPT !.of = i] /\ p[i].do \in kinds
                                 /\ ~ \E k \in 1 .. n : p[k].do = "drop" /\ p[k].of = i
    <3>1. PICK i \in DOMAIN outcome[r] : step = [m EXCEPT !.of = i] /\ program[i].do \in kinds /\ kept(i)
      BY <2>3 DEF named
    <3>2. QED  BY <1>1, <1>2, <1>3, <3>1
  <2>4. CASE m.do = "drop"
    <3>1. step \in named(m, {"lend", "make"})
      BY <2>2, <2>4
    <3>2. QED  BY <2>3, <2>4, <3>1
  <2>5. CASE m.do \in {"out", "self"}
    <3>1. step \in named(m, {"make"})
      BY <2>2, <2>5
    <3>2. QED  BY <2>3, <2>5, <3>1
  <2>6. CASE m.do \notin {"drop", "out", "self"}
    <3>1. step = m
      BY <2>2, <2>6
    <3>2. QED  BY <2>6, <3>1
  <2>7. QED  BY <2>4, <2>5, <2>6
<1>5. m \in Items /\ m.elem \in Elems
  BY PoolAssumption DEF Typing, Elems
<1>6. /\ step \in Items /\ step.elem = m.elem /\ step.do = m.do
      /\ step.do = "drop" => /\ step.of \in 1 .. n
                             /\ p[step.of].do \in {"lend", "make"}
                             /\ ~ \E k \in 1 .. n : p[k].do = "drop" /\ p[k].of = step.of
  <2>1. CASE step = m /\ m.do \notin {"drop", "out", "self"}
    BY <1>5, <2>1
  <2>2. ASSUME NEW i \in 1 .. n, step = [m EXCEPT !.of = i],
               m.do = "drop" => p[i].do \in {"lend", "make"},
               ~ \E k \in 1 .. n : p[k].do = "drop" /\ p[k].of = i
        PROVE  /\ step \in Items /\ step.elem = m.elem /\ step.do = m.do
               /\ step.do = "drop" => /\ step.of \in 1 .. n
                                      /\ p[step.of].do \in {"lend", "make"}
                                      /\ ~ \E k \in 1 .. n : p[k].do = "drop" /\ p[k].of = step.of
    <3>1. i \in Nat
      BY <1>2
    <3>2. step \in Items /\ step.elem = m.elem /\ step.do = m.do /\ step.of = i
      BY <1>5, <2>2, <3>1 DEF Items
    <3>3. QED  BY <2>2, <3>2
  <2>3. QED  BY <1>4, <2>1, <2>2
<1>7. IsStep(step)
  BY <1>5, <1>6 DEF IsStep
<1>8. PICK q : q = Append(p, step)
  OBVIOUS
<1>9. /\ q \in Seq(Items) /\ Len(q) = n + 1 /\ q[n + 1] = step
      /\ \A k \in 1 .. n : q[k] = p[k]
  BY <1>2, <1>6, <1>8, AppendIs
<1>10. ASSUME NEW k \in 1 .. n + 1  PROVE IsStep(q[k]) /\ LegalStep(q, k)
  <2>1. \A j \in 1 .. k - 1 : j \in 1 .. n /\ q[j] = p[j]
    BY <1>2, <1>9
  <2>2. CASE k = n + 1
    <3>1. q[k] = step /\ k - 1 = n
      BY <1>2, <1>9, <2>2
    <3>2. LegalStep(q, k)
      BY <1>6, <2>1, <3>1 DEF LegalStep
    <3>3. QED  BY <1>7, <3>1, <3>2
  <2>3. CASE k # n + 1
    <3>1. k \in 1 .. n /\ q[k] = p[k]
      BY <1>2, <1>9, <2>3
    <3>2. IsStep(p[k]) /\ LegalStep(p, k)
      BY <1>2, <3>1
    <3>3. LegalStep(q, k)
      BY <2>1, <3>1, <3>2 DEF LegalStep
    <3>4. QED  BY <3>1, <3>2, <3>3
  <2>4. QED  BY <2>2, <2>3
<1>11. Grows(p, q)
  BY <1>2, <1>9 DEF Grows
<1>12. IsProgram(q, bound)
  BY <1>1, <1>9, <1>10 DEF IsProgram
<1> QED
  BY <1>1, <1>8, <1>9, <1>11, <1>12

\* A step of one rank leaves the others where they are.
LEMMA OneMoves ==
    ASSUME NEW r \in Ranks, NEW v, Moves(r, v), NEW h, NEW p, NEW b, NEW gone,
           \A t \in Ranks \ {r} : Fine(h, p, b, gone[t], Local(t)), Fine(h, p, b, gone[r], v)
    PROVE  Domains' /\ \A t \in Ranks : Fine(h, p, b, gone[t], Local(t)')
BY DEF Moves

\* A rank takes a step of program p, which may just have grown.
LEMMA TakeKeeps ==
    ASSUME Domains, destroyed \in [Ranks -> BOOLEAN], NEW r \in Ranks,
           NEW p, NEW b \in Bounds, IsProgram(p, b), NEW h, IsHistory(h, p, b),
           \A t \in Ranks : Fine(h, p, b, destroyed[t], Local(t)),
           waiting[r] = <<>>, NEW m, m = Len(outcome[r]) + 1, m <= Len(p),
           ~ destroyed[r] => m <= b.steps,
           Take(r, p[m])
    PROVE  Domains' /\ \A t \in Ranks : Fine(h, p, b, destroyed[t], Local(t)')
<1>1. PICK s : s = Local(r)
  OBVIOUS
<1>2. /\ s.waiting = <<>> /\ m = Len(s.outcome) + 1
      /\ Len(s.outcome) <= Len(p) /\ Good(p, s) /\ On(h, p, b, destroyed[r], s)
  BY <1>1, LocalIs DEF Fine
<1>3. s.outcome \in Seq(Ends) /\ Shape(s) /\ Named(s) /\ p \in Seq(Items)
  BY <1>2 DEF Good, Shape, IsProgram
<1>4. m \in 1 .. Len(p) /\ IsStep(p[m])
  <2>1. m \in 1 .. Len(p)
    BY <1>2, <1>3
  <2>2. QED  BY <2>1 DEF IsProgram
<1>5. Moves(r, IF destroyed[r] THEN Late(s, p[m]) ELSE Begin(s, p[m]))
  BY <1>1, <1>3, <1>4, TakeIs
<1>6. CASE ~ destroyed[r]
  <2>1. destroyed[r] = FALSE /\ On(h, p, b, FALSE, s)
    BY <1>2, <1>6
  <2>2. m <= Before(p, b)
    BY <1>2, <1>3, <1>6, BeforeIs
  <2>3. Fine(h, p, b, destroyed[r], Begin(s, p[m]))
    BY <1>2, <2>1, <2>2, StepOn DEF Fine
  <2>4. Moves(r, Begin(s, p[m]))
    BY <1>5, <1>6
  <2>5. QED  BY <2>3, <2>4, OneMoves
<1>7. CASE destroyed[r]
  <2>1. destroyed[r] = TRUE /\ On(h, p, b, TRUE, s)
    BY <1>2, <1>7
  <2>2. Fine(h, p, b, destroyed[r], Late(s, p[m]))
    BY <1>2, <2>1, LateOn DEF Fine
  <2>3. Moves(r, Late(s, p[m]))
    BY <1>5, <1>7
  <2>4. QED  BY <2>2, <2>3, OneMoves
<1> QED
  BY <1>6, <1>7

LEMMA FollowKeeps ==
    ASSUME IInv, NEW r \in Ranks, Follow(r)
    PROVE  IInv'
<1>1. PICK h : /\ IsHistory(h, program, bound)
               /\ \A t \in Ranks : Fine(h, program, bound, destroyed[t], Local(t))
  BY DEF IInv
<1>2. PICK m \in DOMAIN program : At(r, m) /\ Take(r, program[m])
  BY DEF Follow
<1>3. program' = program /\ bound' = bound /\ destroyed' = destroyed
  BY DEF Follow
<1>4. /\ Domains /\ destroyed \in [Ranks -> BOOLEAN] /\ bound \in Bounds /\ IsProgram(program, bound)
      /\ bound.steps \in Nat
  BY PoolAssumption DEF IInv, Typing
<1>5. /\ waiting[r] = <<>> /\ m = Len(outcome[r]) + 1 /\ m <= Len(program)
      /\ ~ destroyed[r] => m <= bound.steps
  <2>1. m <= Len(program) /\ m \in Nat
    BY <1>4 DEF IsProgram
  <2>2. QED  BY <1>2, <1>4, <2>1 DEF At
<1>6. Domains' /\ \A t \in Ranks : Fine(h, program, bound, destroyed[t], Local(t)')
  BY <1>1, <1>2, <1>4, <1>5, TakeKeeps
<1>7. Typing'
  BY <1>3, <1>4, <1>6 DEF Typing
<1> QED
  BY <1>1, <1>3, <1>6, <1>7 DEF IInv

LEMMA LeadKeeps ==
    ASSUME IInv, NEW r \in Ranks, Lead(r)
    PROVE  IInv'
<1>1. PICK h : /\ IsHistory(h, program, bound)
               /\ \A t \in Ranks : Fine(h, program, bound, destroyed[t], Local(t))
  BY DEF IInv
<1>2. PICK step \in NextSteps(r) : program' = Append(program, step) /\ Take(r, step)
  BY DEF Lead
<1>3. bound' = bound /\ destroyed' = destroyed
  BY DEF Lead
<1>4. /\ Typing /\ Domains /\ destroyed \in [Ranks -> BOOLEAN] /\ bound \in Bounds
      /\ IsProgram(program, bound) /\ program \in Seq(Items)
  BY DEF IInv, Typing, IsProgram
<1>5. PICK p, b, n : p = program /\ b = bound /\ n = Len(program)
  OBVIOUS
<1>6. n \in Nat /\ b.steps \in Nat /\ b.late \in Nat
  BY <1>4, <1>5, PoolAssumption
<1>7. /\ waiting[r] = <<>> /\ n = Len(outcome[r])
      /\ n + 1 <= b.steps + b.late
      /\ ~ destroyed[r] => n + 1 <= b.steps
  <2>1. /\ waiting[r] = <<>> /\ n + 1 = Len(outcome[r]) + 1
        /\ n + 1 <= b.steps + (IF destroyed[r] THEN b.late ELSE 0)
    BY <1>5 DEF Lead, At
  <2>2. Len(outcome[r]) \in Nat
    <3>1. outcome[r] \in Seq(Ends)
      BY <1>1, LocalIs DEF Fine, Good, Shape
    <3>2. QED  BY <3>1
  <2>3. QED  BY <1>6, <2>1, <2>2
<1>8. Shape(Local(r))
  BY <1>1 DEF Fine, Good
<1>9. PICK q : q = Append(program, step)
  OBVIOUS
<1>10. Grows(p, q) /\ IsProgram(q, b) /\ q[n + 1] = step
  BY <1>4, <1>5, <1>7, <1>8, <1>9, NextStepsAre
<1>11. Len(q) = n + 1
  BY <1>5, <1>10 DEF Grows
<1>12. \E g : IsHistory(g, q, b) /\ \A i \in 0 .. Before(p, b) : g[i] = h[i]
  <2>1. CASE n < b.steps
    <3>1. ~ destroyed[r]
      <4>1. CASE destroyed[r]
        <5>1. Before(p, b) = b.steps
          BY <1>1, <1>5, <4>1 DEF Fine, On
        <5>2. Before(p, b) <= n
          BY <1>4, <1>5, BeforeIs
        <5>3. QED  BY <1>6, <2>1, <5>1, <5>2
      <4>2. QED  BY <4>1
    <3>2. Local(r) = h[n]
      <4>1. Len(Local(r).outcome) = n /\ Local(r).waiting = <<>>
        BY <1>7, LocalIs
      <4>2. QED  BY <1>1, <3>1, <4>1 DEF Fine, On
    <3>3. Good(p, h[n])
      BY <1>1, <1>5, <3>2 DEF Fine
    <3>4. Len(h[n].outcome) <= Len(p)
      BY <1>1, <1>5, <3>2 DEF Fine
    <3>5. Good(q, h[n])
      BY <1>4, <1>5, <1>10, <3>3, <3>4, GrowGood
    <3>6. \E g : IsHistory(g, q, b) /\ \A i \in 0 .. Len(p) : g[i] = h[i]
      BY <1>1, <1>4, <1>5, <1>10, <2>1, <3>5, HistoryGrows
    <3>7. Before(p, b) = Len(p)
      BY <1>5, <1>6, <2>1 DEF Before
    <3>8. QED  BY <3>6, <3>7
  <2>2. CASE ~ (n < b.steps)
    <3>1. Before(p, b) = b.steps /\ Before(q, b) = b.steps /\ b.steps <= n
      BY <1>5, <1>6, <1>11, <2>2 DEF Before
    <3>2. \A i \in 1 .. b.steps : q[i] = p[i]
      BY <1>5, <1>6, <1>10, <3>1 DEF Grows
    <3>3. IsHistory(h, p, b)
      BY <1>1, <1>5
    <3>4. IsHistory(h, q, b)
      BY <3>1, <3>2, <3>3 DEF IsHistory
    <3>5. QED  BY <3>4
  <2>3. QED  BY <2>1, <2>2
<1>13. PICK g : IsHistory(g, q, b) /\ \A i \in 0 .. Before(p, b) : g[i] = h[i]
  BY <1>12
<1>14. ASSUME NEW t \in Ranks  PROVE Fine(g, q, b, destroyed[t], Local(t))
  <2>1. PICK s : s = Local(t)
    OBVIOUS
  <2>2. Len(s.outcome) <= Len(p) /\ Good(p, s) /\ On(h, p, b, destroyed[t], s)
    BY <1>1, <1>5, <2>1 DEF Fine
  <2>3. s.outcome \in Seq(Ends)
    BY <2>2 DEF Good, Shape
  <2>4. destroyed[t] \in BOOLEAN
    BY <1>4
  <2>5. Good(q, s)
    BY <1>4, <1>5, <1>10, <2>2, GrowGood
  <2>6. On(g, q, b, destroyed[t], s)
    <3>1. PICK gone \in BOOLEAN : gone = destroyed[t]
      BY <2>4
    <3>2. p \in Seq(Items) /\ b \in Bounds /\ \A i \in 0 .. Before(p, b) : g[i] = h[i]
      BY <1>4, <1>5, <1>13
    <3>3. Grows(p, q) /\ Len(s.outcome) <= Len(p) /\ On(h, p, b, gone, s)
      BY <1>5, <1>10, <2>2, <3>1
    <3>4. On(g, q, b, gone, s)
      BY <2>3, <3>2, <3>3, OnGrows
    <3>5. QED  BY <3>1, <3>4
  <2>7. Len(s.outcome) <= Len(q)
    BY <1>5, <1>6, <1>11, <2>2, <2>3
  <2>8. QED  BY <2>1, <2>5, <2>6, <2>7 DEF Fine
<1>15. Domains' /\ \A t \in Ranks : Fine(g, q, b, destroyed[t], Local(t)')
  <2>1. PICK m : m = n + 1
    OBVIOUS
  <2>2. Take(r, q[m]) /\ m = Len(outcome[r]) + 1 /\ m <= Len(q) /\ (~ destroyed[r] => m <= b.steps)
    BY <1>2, <1>6, <1>7, <1>10, <1>11, <2>1
  <2>3. b \in Bounds
    BY <1>4, <1>5
  <2>4. QED  BY <1>4, <1>7, <1>10, <1>13, <1>14, <2>2, <2>3, TakeKeeps
<1>16. program' = q
  BY <1>2, <1>9
<1>17. Typing'
  BY <1>3, <1>4, <1>5, <1>10, <1>15, <1>16 DEF Typing
<1> QED
  BY <1>3, <1>5, <1>13, <1>15, <1>16, <1>17 DEF IInv

LEMMA RendezvousKeeps ==
    ASSUME IInv, NEW r \in Ranks, Rendezvous(r)
    PROVE  IInv'
<1>1. PICK h : /\ IsHistory(h, program, bound)
               /\ \A t \in Ranks : Fine(h, program, bound, destroyed[t], Local(t))
  BY DEF IInv
<1>2. program' = program /\ bound' = bound /\ destroyed' = destroyed
  BY DEF Rendezvous
<1>3. /\ Typing /\ Domains /\ destroyed \in [Ranks -> BOOLEAN] /\ bound \in Bounds
      /\ IsProgram(program, bound)
  BY SMTT(60) DEF IInv, Typing
<1>4. PICK s : s = Local(r)
  OBVIOUS
<1>5. s.waiting # <<>>
  BY <1>4, LocalIs DEF Rendezvous
<1>6. Good(program, s) /\ On(h, program, bound, destroyed[r], s)
  BY <1>1, <1>4 DEF Fine
<1>7. destroyed[r] = FALSE
  BY <1>3, <1>5, <1>6 DEF On
<1>8. Fine(h, program, bound, destroyed[r], Back(s))
  BY <1>1, <1>3, <1>5, <1>6, <1>7, BackOn DEF Fine
<1>9. Moves(r, Back(s))
  BY <1>3, <1>4, RendezvousIs
<1>10. Domains' /\ \A t \in Ranks : Fine(h, program, bound, destroyed[t], Local(t)')
  BY <1>1, <1>8, <1>9, OneMoves
<1>11. Typing'
  BY <1>2, <1>3, <1>10 DEF Typing
<1> QED
  BY <1>1, <1>2, <1>10, <1>11, SMTT(60) DEF IInv

LEMMA DestroyKeeps ==
    ASSUME IInv, NEW r \in Ranks, Destroy(r)
    PROVE  IInv'
<1>1. PICK h : /\ IsHistory(h, program, bound)
               /\ \A t \in Ranks : Fine(h, program, bound, destroyed[t], Local(t))
  BY DEF IInv
<1>2. program' = program /\ bound' = bound /\ destroyed' = [destroyed EXCEPT ![r] = TRUE]
  BY DEF Destroy
<1>3. /\ Typing /\ Domains /\ destroyed \in [Ranks -> BOOLEAN] /\ bound \in Bounds
      /\ IsProgram(program, bound)
  BY DEF IInv, Typing
<1>4. PICK s : s = Local(r)
  OBVIOUS
<1>5. /\ destroyed[r] = FALSE /\ Len(s.outcome) >= bound.steps
  BY <1>3, <1>4, LocalIs DEF Destroy
<1>6. Len(s.outcome) <= Len(program) /\ Good(program, s) /\ On(h, program, bound, FALSE, s)
  BY <1>1, <1>4, <1>5 DEF Fine
<1>7. Fine(h, program, bound, TRUE, Gone(s))
  BY <1>1, <1>3, <1>5, <1>6, GoneOn, ZenonT(60) DEF Fine
<1>8. /\ destroyed' \in [Ranks -> BOOLEAN] /\ destroyed'[r] = TRUE
      /\ \A t \in Ranks \ {r} : destroyed'[t] = destroyed[t]
  BY <1>2, <1>3
<1>9. Moves(r, Gone(s))
  BY <1>3, <1>4, DestroyIs
<1>10. Domains' /\ \A t \in Ranks : Fine(h, program, bound, destroyed'[t], Local(t)')
  BY <1>1, <1>7, <1>8, <1>9, OneMoves
<1>11. Typing'
  BY <1>2, <1>3, <1>8, <1>10 DEF Typing
<1> QED
  BY <1>1, <1>2, <1>10, <1>11 DEF IInv

\* Nothing is allocated and nothing has been taken at first.
LEMMA InitHolds == Init => IInv
<1> SUFFICES ASSUME Init  PROVE IInv
  OBVIOUS
<1>1. PICK p, b : p = program /\ b = bound
  OBVIOUS
<1>2. p = <<>> /\ b \in Bounds /\ b.steps \in Nat /\ b.late \in Nat
  BY <1>1, PoolAssumption DEF Init
<1>3. Before(p, b) = 0 /\ p \in Seq(Items) /\ Len(p) = 0
  BY <1>2 DEF Before
<1>4. Typing
  <2>1. IsProgram(p, b)
    BY <1>2, <1>3 DEF IsProgram
  <2>2. Domains /\ destroyed \in [Ranks -> BOOLEAN]
    BY DEF Init, Domains
  <2>3. QED  BY <1>1, <1>2, <2>1, <2>2 DEF Typing
<1>5. \A r \in Ranks : Local(r) = Fresh /\ ~ destroyed[r]
  BY DEF Init, Local, Fresh, NoWindows, NoSlots
<1>6. /\ Fresh.outcome = <<>> /\ Fresh.allocs = <<>> /\ Fresh.waiting = <<>>
      /\ Fresh.windows = NoWindows /\ Fresh.lent = NoSlots /\ Fresh.owned = {} /\ Fresh.held = {}
  BY Fields DEF Fresh
<1>7. PICK s : s = Fresh
  OBVIOUS
<1>8. s.outcome \in Seq(Ends) /\ s.allocs \in Seq(Nat \ {0}) /\ s.waiting = <<>> /\ Len(s.outcome) = 0
  <2>1. \A T : <<>> \in Seq(T)
    OBVIOUS
  <2>2. s.outcome \in Seq(Ends)
    BY <1>6, <1>7, <2>1
  <2>3. s.allocs \in Seq(Nat \ {0})
    BY <1>6, <1>7, <2>1
  <2>4. QED  BY <1>6, <1>7, <2>2, <2>3
<1>9. Good(p, s)
  <2>1. Shape(s)
    <3>1. NoSlots \in [Elems -> [slots : Seq(Nat), calls : Nat]] /\ NoWindows \in [Roles -> [Elems -> Nat]]
      BY DEF NoSlots, NoWindows
    <3>2. \A e \in Elems : Len(NoSlots[e].slots) <= LentSlots
      BY PoolAssumption DEF NoSlots
    <3>3. s.windows \in [Roles -> [Elems -> Nat]] /\ s.lent \in [Elems -> [slots : Seq(Nat), calls : Nat]]
          /\ s.owned \subseteq Nat /\ s.held \subseteq Nat
      BY <1>6, <1>7, <3>1
    <3>4. \A e \in Elems : Len(s.lent[e].slots) <= LentSlots
      BY <1>6, <1>7, <3>2
    <3>5. QED  BY <1>8, <3>3, <3>4 DEF Shape
  <2>2. Named(s)
    <3>1. Top(s) = 0
      BY <1>6, <1>7 DEF Top
    <3>2. \A role \in Roles, e \in Elems : s.windows[role][e] = 0
      BY <1>6, <1>7 DEF NoWindows
    <3>3. \A e \in Elems : s.lent[e].slots = <<>>
      BY <1>6, <1>7 DEF NoSlots
    <3>4. QED  BY <1>6, <1>7, <3>1, <3>2, <3>3 DEF Named
  <2>3. Waits(p, s) /\ Apart(p, s) /\ LentHeld(p, s) /\ LentOnce(p, s) /\ Large(p, s)
    BY <1>6, <1>7 DEF Waits, Apart, LentHeld, LentOnce, Large
  <2>4. QED  BY <2>1, <2>2, <2>3 DEF Good
<1>10. PICK h : h = [i \in {0} |-> s]
  OBVIOUS
<1>11. h[0] = s
  BY <1>10
<1>12. IsHistory(h, p, b)
  <2>1. \A i \in 0 .. 0 : i = 0
    OBVIOUS
  <2>2. Prefix(s.outcome, s.outcome) /\ Prefix(s.allocs, s.allocs)
    BY <1>6, <1>7 DEF Prefix
  <2>3. QED  BY <1>3, <1>7, <1>11, <1>8, <2>1, <2>2 DEF IsHistory
<1>13. On(h, p, b, FALSE, s) /\ Len(s.outcome) <= Len(p)
  BY <1>3, <1>6, <1>7, <1>11 DEF On
<1>14. ASSUME NEW r \in Ranks  PROVE Fine(h, p, b, destroyed[r], Local(r))
  <2>1. destroyed[r] = FALSE /\ Local(r) = s
    BY <1>4, <1>5, <1>7 DEF Typing
  <2>2. QED  BY <1>9, <1>13, <2>1 DEF Fine
<1> QED
  BY <1>1, <1>4, <1>12, <1>14 DEF IInv

LEMMA NextKeeps == IInv /\ [Next]_vars => IInv'
<1> SUFFICES ASSUME IInv, [Next]_vars  PROVE IInv'
  OBVIOUS
<1>1. ASSUME NEW r \in Ranks, Lead(r)  PROVE IInv'
  BY <1>1, LeadKeeps
<1>2. ASSUME NEW r \in Ranks, Follow(r)  PROVE IInv'
  BY <1>2, FollowKeeps
<1>3. ASSUME NEW r \in Ranks, Rendezvous(r)  PROVE IInv'
  BY <1>3, RendezvousKeeps
<1>4. ASSUME NEW r \in Ranks, Destroy(r)  PROVE IInv'
  BY <1>4, DestroyKeeps
<1>5. CASE vars' = vars
  BY <1>5 DEF vars, IInv, Typing, Domains, Local
<1>6. CASE Rest
  BY <1>5, <1>6 DEF Rest
<1> QED
  BY <1>1, <1>2, <1>3, <1>4, <1>5, <1>6 DEF Next

\* The invariant holds in every state.
THEOREM Invariance == Spec => []IInv
BY InitHolds, NextKeeps, PTL DEF Spec

------------------------------------------------------------------------------
(* What it gives. *)

\* A rank has given back the allocations of a place on the history, and its
\* outcomes are those every rank has.
LEMMA Places ==
    ASSUME NEW b \in Bounds, NEW p, IsProgram(p, b), NEW h, IsHistory(h, p, b),
           NEW gone \in BOOLEAN, NEW s, Fine(h, p, b, gone, s)
    PROVE  /\ \E j \in 0 .. Before(p, b) : s.allocs = h[j].allocs
           /\ \A k \in DOMAIN s.outcome :
                 s.outcome[k] = IF k <= b.steps THEN h[Before(p, b)].outcome[k] ELSE LateEnd(p[k])
           /\ ~ gone => \A k \in DOMAIN s.outcome : k <= b.steps
<1>1. PICK n, i : n = Before(p, b) /\ i = Len(s.outcome)
  OBVIOUS
<1>2. /\ Good(p, s) /\ s.outcome \in Seq(Ends) /\ i \in Nat /\ DOMAIN s.outcome = 1 .. i
      /\ n \in Nat /\ n <= b.steps /\ b.steps \in Nat /\ n <= Len(p) /\ Len(p) \in Nat
  <2>1. Good(p, s) /\ s.outcome \in Seq(Ends) /\ p \in Seq(Items)
    BY DEF Fine, Good, Shape, IsProgram
  <2>2. QED  BY <1>1, <2>1, BeforeIs
<1>3. CASE gone
  <2>1. /\ n = b.steps /\ s.allocs = h[b.steps].allocs
        /\ \A k \in 1 .. i :
              s.outcome[k] = IF k <= b.steps THEN h[b.steps].outcome[k] ELSE LateEnd(p[k])
    BY <1>1, <1>3 DEF Fine, On
  <2>2. n \in 0 .. n
    BY <1>2
  <2>3. QED  BY <1>1, <1>2, <1>3, <2>1, <2>2
<1>4. CASE ~ gone
  <2>1. /\ i <= n
        /\ IF s.waiting = <<>> THEN s = h[i] ELSE i < n /\ s = Begin(h[i], p[i + 1])
    BY <1>1, <1>4 DEF Fine, On
  <2>2. i \in 0 .. n /\ n \in i .. n /\ \A k \in DOMAIN s.outcome : k <= b.steps /\ k \in 1 .. i
    BY <1>2, <2>1
  <2>3. Prefix(h[i].outcome, h[n].outcome) /\ Len(h[i].outcome) = i
    BY <1>1, <2>2 DEF IsHistory
  <2>4. \A k \in 1 .. i : h[i].outcome[k] = h[n].outcome[k]
    BY <2>3 DEF Prefix
  <2>5. CASE s.waiting = <<>>
    <3>1. s = h[i]
      BY <2>1, <2>5
    <3>2. QED  BY <1>1, <1>4, <2>2, <2>4, <3>1
  <2>6. CASE s.waiting # <<>>
    <3>1. PICK u, m, step : u = h[i] /\ m = i + 1 /\ step = p[m]
      OBVIOUS
    <3>2. s = Begin(u, step) /\ m \in 1 .. n /\ m - 1 = i /\ m \in 0 .. n
      BY <1>2, <2>1, <2>6, <3>1
    <3>3. h[m] = Through(u, step)
      BY <1>1, <3>1, <3>2 DEF IsHistory
    <3>4. h[m] = Back(s)
      BY <2>6, <3>2, <3>3 DEF Through
    <3>5. s.allocs = h[m].allocs
      BY <3>4, BackIs
    <3>6. h[m].outcome = Out(s, "filled", Len(s.allocs)) /\ Len(s.allocs) \in Nat
      <4>1. h[m].outcome = Out(s, "filled", Len(s.allocs))
        BY <3>4, BackIs
      <4>2. Len(s.allocs) \in Nat
        BY <1>2 DEF Good, Shape
      <4>3. QED  BY <4>1, <4>2
    <3>7. \A k \in 1 .. i : h[m].outcome[k] = s.outcome[k]
      BY <1>1, <1>2, <3>6, OutIs, SMTT(60)
    <3>8. Prefix(h[m].outcome, h[n].outcome) /\ Len(h[m].outcome) = m
      <4>1. n \in m .. n
        BY <1>2, <3>2
      <4>2. QED  BY <1>1, <3>2, <4>1 DEF IsHistory
    <3>9. \A k \in 1 .. i : k \in 1 .. m
      BY <1>2, <3>1
    <3>10. \A k \in 1 .. i : h[n].outcome[k] = s.outcome[k]
      BY <3>7, <3>8, <3>9 DEF Prefix
    <3>11. QED  BY <1>1, <1>4, <2>2, <3>2, <3>5, <3>10
  <2>7. QED  BY <2>5, <2>6
<1> QED
  BY <1>3, <1>4

\* The state of every rank's pool has its shape, and every window referred to
\* was allocated: no slot, role, buffer or tensor names one that is not there.
THEOREM Types == Spec => []TypeOK
<1>1. IInv => TypeOK
  <2> SUFFICES ASSUME IInv, NEW r \in Ranks
               PROVE  /\ Len(outcome[r]) <= Len(program) /\ Len(program) <= bound.steps + bound.late
                      /\ allocs[r] \in Seq(Nat \ {0})
                      /\ Live(r) \subseteq 0 .. Len(allocs[r])
                      /\ \A e \in Elems : Len(lent[r][e].slots) <= LentSlots
    BY DEF TypeOK
  <2>1. PICK s : s = Local(r)
    OBVIOUS
  <2>2. /\ Len(s.outcome) <= Len(program) /\ Shape(s) /\ Named(s)
        /\ Len(program) <= bound.steps + bound.late
    BY <2>1 DEF IInv, Fine, Good, Typing, IsProgram
  <2>3. /\ s.outcome = outcome[r] /\ s.allocs = allocs[r] /\ s.windows = windows[r] /\ s.lent = lent[r]
        /\ s.owned = owned[r] /\ s.held = held[r]
    BY <2>1, LocalIs
  <2>4. Len(s.allocs) \in Nat /\ Top(s) \in Int /\ Top(s) <= Len(s.allocs)
    BY <2>2 DEF Top, Shape
  <2>5. owned[r] \cup held[r] \subseteq 0 .. Len(s.allocs)
    BY <2>2, <2>3, <2>4 DEF Named
  <2>6. \A role \in Roles, e \in Elems : windows[r][role][e] \in 0 .. Len(s.allocs)
    <3> TAKE role \in Roles, e \in Elems
    <3>1. windows[r][role][e] \in Nat /\ windows[r][role][e] <= Top(s)
      BY <2>2, <2>3 DEF Named, Shape
    <3>2. QED  BY <2>4, <3>1
  <2>7. \A e \in Elems : ToSet(lent[r][e].slots) \subseteq 0 .. Len(s.allocs)
    <3> SUFFICES ASSUME NEW e \in Elems, NEW k \in DOMAIN s.lent[e].slots
                 PROVE  s.lent[e].slots[k] \in 0 .. Len(s.allocs)
      BY <2>3 DEF ToSet
    <3>1. s.lent[e].slots[k] \in Nat /\ s.lent[e].slots[k] <= Top(s)
      BY <2>2 DEF Named, Shape
    <3>2. QED  BY <2>4, <3>1
  <2>8. Live(r) \subseteq 0 .. Len(s.allocs)
    BY <2>5, <2>6, <2>7 DEF Live
  <2>9. QED  BY <2>2, <2>3, <2>8 DEF Shape
<1> QED
  BY <1>1, Invariance, PTL

\* The n-th allocation has one size on every rank, whichever steps the ranks are
\* at: an offset computed on one rank lands in the same place on another.
THEOREM AllocationsAgree == Spec => []SameAllocations
<1>1. IInv => SameAllocations
  <2> SUFFICES ASSUME IInv, NEW r \in Ranks, NEW t \in Ranks,
                      NEW n \in DOMAIN allocs[r] \cap DOMAIN allocs[t]
               PROVE  allocs[r][n] = allocs[t][n]
    BY DEF SameAllocations
  <2>1. PICK h : /\ IsHistory(h, program, bound)
                 /\ \A u \in Ranks : Fine(h, program, bound, destroyed[u], Local(u))
    BY DEF IInv
  <2>2. bound \in Bounds /\ IsProgram(program, bound) /\ destroyed \in [Ranks -> BOOLEAN]
    BY DEF IInv, Typing
  <2>3. PICK last : last = Before(program, bound)
    OBVIOUS
  <2>4. last \in Nat
    BY <2>2, <2>3, BeforeIs DEF IsProgram
  <2>5. ASSUME NEW u \in Ranks, n \in DOMAIN allocs[u]
        PROVE  allocs[u][n] = h[last].allocs[n]
    <3>1. PICK gone \in BOOLEAN : gone = destroyed[u]
      BY <2>2
    <3>2. PICK s : s = Local(u)
      OBVIOUS
    <3>3. Fine(h, program, bound, gone, s) /\ s.allocs = allocs[u]
      BY <2>1, <3>1, <3>2, LocalIs
    <3>4. PICK j \in 0 .. last : s.allocs = h[j].allocs
      BY <2>1, <2>2, <2>3, <3>3, Places
    <3>5. Prefix(h[j].allocs, h[last].allocs) /\ h[j].allocs \in Seq(Nat \ {0})
      <4>1. last \in j .. last
        BY <2>4
      <4>2. QED  BY <2>1, <2>3, <4>1 DEF IsHistory
    <3>6. n \in 1 .. Len(h[j].allocs)
      BY <2>5, <3>3, <3>4, <3>5
    <3>7. QED  BY <3>3, <3>4, <3>5, <3>6 DEF Prefix
  <2>6. QED  BY <2>5
<1> QED
  BY <1>1, Invariance, PTL

\* Every call fills the same window on every rank and is refused by all or none,
\* though no rank asks another: what a pool decides is the program's alone.
THEOREM WindowsAgree == Spec => []SameWindow
<1>1. IInv => SameWindow
  <2> SUFFICES ASSUME IInv, NEW r \in Ranks, NEW t \in Ranks,
                      NEW i \in DOMAIN outcome[r] \cap DOMAIN outcome[t]
               PROVE  outcome[r][i] = outcome[t][i]
    BY DEF SameWindow
  <2>1. PICK h : /\ IsHistory(h, program, bound)
                 /\ \A u \in Ranks : Fine(h, program, bound, destroyed[u], Local(u))
    BY DEF IInv
  <2>2. bound \in Bounds /\ IsProgram(program, bound) /\ destroyed \in [Ranks -> BOOLEAN]
    BY DEF IInv, Typing
  <2>3. ASSUME NEW u \in Ranks, i \in DOMAIN outcome[u]
        PROVE  outcome[u][i] = IF i <= bound.steps THEN h[Before(program, bound)].outcome[i]
                                                   ELSE LateEnd(program[i])
    <3>1. PICK gone \in BOOLEAN : gone = destroyed[u]
      BY <2>2
    <3>2. PICK s : s = Local(u)
      OBVIOUS
    <3>3. Fine(h, program, bound, gone, s) /\ s.outcome = outcome[u]
      BY <2>1, <3>1, <3>2, LocalIs
    <3>4. QED  BY <2>1, <2>2, <2>3, <3>3, Places
  <2>4. QED  BY <2>3
<1> QED
  BY <1>1, Invariance, PTL

\* What the peers write fits the window they write it into, on every path.
THEOREM WindowsSuffice == Spec => []LargeEnough
<1>1. IInv => LargeEnough
  <2> SUFFICES ASSUME IInv, NEW r \in Ranks, NEW i \in DOMAIN outcome[r], Filled(r, i)
               PROVE  Bytes(r, outcome[r][i].win) >= Need(r, program[i])
    BY DEF LargeEnough
  <2>1. PICK s : s = Local(r)
    OBVIOUS
  <2>2. /\ Len(s.outcome) <= Len(program) /\ Shape(s) /\ Named(s) /\ Large(program, s)
        /\ IsProgram(program, bound)
    BY <2>1 DEF IInv, Fine, Good, Typing
  <2>3. s.outcome = outcome[r] /\ s.allocs = allocs[r]
    BY <2>1, LocalIs
  <2>4. i \in 1 .. Len(program)
    <3>1. Len(program) \in Nat /\ Len(s.outcome) \in Nat /\ i \in 1 .. Len(s.outcome)
      BY <2>2, <2>3 DEF Shape, IsProgram
    <3>2. QED  BY <2>2, <3>1
  <2>5. Need(r, program[i]) = Want(program[i])
    BY <2>2, <2>4, WantNat DEF IsProgram
  <2>6. s.outcome[i].win \in 1 .. Top(s)
    BY <2>2, <2>3 DEF Named, Filled
  <2>7. s.outcome[i].win # 0
    BY <2>6
  <2>8. s.allocs[s.outcome[i].win] >= Want(program[i])
    BY <2>2, <2>3 DEF Large, Filled
  <2>9. QED  BY <2>3, <2>5, <2>7, <2>8 DEF Bytes
<1> QED
  BY <1>1, Invariance, PTL

\* A buffer the caller keeps stays a window of the group: pruning, destroy
\* included, frees only what nobody else refers to.
THEOREM BuffersStay == Spec => []KeptBuffersStay
<1>1. IInv => KeptBuffersStay
  <2> SUFFICES ASSUME IInv, NEW r \in Ranks, NEW i \in DOMAIN outcome[r],
                      Filled(r, i), program[i].do = "make", outcome[r][i].win \in held[r]
               PROVE  outcome[r][i].win \in owned[r]
    BY DEF KeptBuffersStay
  <2>1. PICK s : s = Local(r)
    OBVIOUS
  <2>2. Apart(program, s)
    BY <2>1 DEF IInv, Fine, Good
  <2>3. s.outcome = outcome[r] /\ s.owned = owned[r] /\ s.held = held[r]
    BY <2>1, LocalIs
  <2>4. FilledBy(program, s, i, "make")
    BY <2>3 DEF FilledBy, Filled
  <2>5. QED  BY <2>2, <2>3, <2>4 DEF Apart
<1> QED
  BY <1>1, Invariance, PTL

\* A rank in an allocation has given back all it can: what the caller released,
\* and the window the new one replaces, whether a role's or a slot's.
THEOREM FreesFirst == Spec => []FreedBeforeAllocating
<1>1. IInv => FreedBeforeAllocating
  <2> SUFFICES ASSUME IInv, NEW r \in Ranks, waiting[r] # <<>>
               PROVE  /\ owned[r] \subseteq held[r]
                      /\ \A role \in Roles, e \in Elems :
                            waiting[r] = <<"role", role, e>> => windows[r][role][e] = 0
                      /\ \A e \in Elems : \A at \in DOMAIN lent[r][e].slots :
                            waiting[r] = <<"lent", e, at>> => lent[r][e].slots[at] = 0
    BY DEF FreedBeforeAllocating
  <2>1. PICK s : s = Local(r)
    OBVIOUS
  <2>2. Waits(program, s)
    BY <2>1 DEF IInv, Fine, Good
  <2>3. /\ s.waiting = waiting[r] /\ s.windows = windows[r] /\ s.lent = lent[r]
        /\ s.owned = owned[r] /\ s.held = held[r]
    BY <2>1, LocalIs
  <2>4. PICK step : step = program[Len(s.outcome) + 1]
    BY SMTT(60)
  <2>5. /\ s.owned \subseteq s.held
        /\ \/ s.waiting = <<"role", step.role, step.elem>> /\ s.windows[step.role][step.elem] = 0
           \/ \E at \in 1 .. LentSlots :
                 /\ s.waiting = <<"lent", step.elem, at>>
                 /\ at \in DOMAIN s.lent[step.elem].slots => s.lent[step.elem].slots[at] = 0
           \/ s.waiting = <<"owned">>
    BY <2>2, <2>3, <2>4, Zenon DEF Waits
  <2>6. ASSUME NEW role \in Roles, NEW e \in Elems, s.waiting = <<"role", role, e>>
        PROVE  s.windows[role][e] = 0
    BY <2>5, <2>6
  <2>7. ASSUME NEW e \in Elems, NEW at \in DOMAIN s.lent[e].slots, s.waiting = <<"lent", e, at>>
        PROVE  s.lent[e].slots[at] = 0
    BY <2>5, <2>7
  <2>8. QED  BY <2>3, <2>5, <2>6, <2>7
<1> QED
  BY <1>1, Invariance, PTL

\* A lent window is lent again only after the result in it was dropped, however
\* the rotation, the drops and the refused calls fall.
THEOREM LendsExclusively == Spec => []LentExclusively
<1>1. IInv => LentExclusively
  <2> SUFFICES ASSUME IInv, NEW r \in Ranks, NEW i \in DOMAIN outcome[r], NEW j \in DOMAIN outcome[r],
                      i < j, Filled(r, i), program[i].do = "lend",
                      Filled(r, j), program[j].do = "lend", outcome[r][i].win = outcome[r][j].win
               PROVE  DroppedBefore(i, j)
    BY DEF LentExclusively
  <2>1. PICK s : s = Local(r)
    OBVIOUS
  <2>2. LentOnce(program, s)
    BY <2>1 DEF IInv, Fine, Good
  <2>3. s.outcome = outcome[r]
    BY <2>1, LocalIs
  <2>4. FilledBy(program, s, i, "lend") /\ FilledBy(program, s, j, "lend")
    BY <2>3 DEF FilledBy, Filled
  <2>5. DroppedIn(program, i, i + 1, j - 1)
    BY <2>2, <2>3, <2>4 DEF LentOnce
  <2>6. QED  BY <2>5 DEF DroppedIn, DroppedBefore
<1> QED
  BY <1>1, Invariance, PTL

\* After destroy no call fills anything, a buffer the caller kept included.
THEOREM DestroyIsFinal == Spec => []DestroyedIsFinal
<1>1. IInv => DestroyedIsFinal
  <2> SUFFICES ASSUME IInv, NEW r \in Ranks, NEW i \in DOMAIN outcome[r], i > bound.steps, Fills(i)
               PROVE  ~ Filled(r, i)
    BY DEF DestroyedIsFinal
  <2>1. PICK h : /\ IsHistory(h, program, bound)
                 /\ \A u \in Ranks : Fine(h, program, bound, destroyed[u], Local(u))
    BY DEF IInv
  <2>2. bound \in Bounds /\ IsProgram(program, bound) /\ destroyed \in [Ranks -> BOOLEAN]
        /\ bound.steps \in Nat
    BY PoolAssumption DEF IInv, Typing
  <2>3. PICK gone \in BOOLEAN : gone = destroyed[r]
    BY <2>2
  <2>4. PICK s : s = Local(r)
    OBVIOUS
  <2>5. Fine(h, program, bound, gone, s) /\ s.outcome = outcome[r]
    BY <2>1, <2>3, <2>4, LocalIs
  <2>6. i \in Nat
    BY <2>5 DEF Fine, Good, Shape
  <2>7. s.outcome[i] = LateEnd(program[i])
    <3>1. ~ (i <= bound.steps)
      BY <2>2, <2>6
    <3>2. s.outcome[i] = IF i <= bound.steps THEN h[Before(program, bound)].outcome[i]
                                             ELSE LateEnd(program[i])
      BY <2>1, <2>2, <2>5, Places
    <3>3. QED  BY <3>1, <3>2
  <2>8. QED  BY <2>5, <2>7 DEF LateEnd, Filled, Fills
<1> QED
  BY <1>1, Invariance, PTL
=============================================================================
