------------------------------ MODULE PlanCache ------------------------------
(***************************************************************************)
(* The plans a rank keeps: UlyssesGroup::plan in src/src/group.cc, with    *)
(* the checks make_dims runs on the way, and the callers of plan in        *)
(* src/src/bindings.cc.                                                    *)
(*                                                                         *)
(* What a caller is told must not depend on what was asked before: a plan  *)
(* found in the cache skips every check of make_dims.  A plan is what      *)
(* build_plan reads; A2APlan says what it makes of that, and whether its   *)
(* bytes can be counted at all.                                            *)
(***************************************************************************)
EXTENDS Integers, Sequences, FiniteSets, Functions

CONSTANTS WorldSize,
          Rank,        \* the rank whose cache this is
          Elem,        \* the bytes of an element of each dtype the code lists
          Alignment,   \* 16 bytes in the code
          MaxPlans,    \* 512 in the code
          Requests     \* bound: what callers ask a plan for

\* A request is [sizes, mode, dtype, seq, head], the arguments of plan.  A split
\* list is given or absent: a set that holds one sequence, or nothing.
ASSUME PlanCacheAssumption ==
    /\ WorldSize \in 1 .. 8 /\ Rank \in 0 .. WorldSize - 1
    /\ Alignment \in Nat \ {0} /\ MaxPlans \in Nat \ {0}

VARIABLES plans,      \* the map from key to plan
          destroyed,  \* the group's flag
          asked,      \* the last caller and its request
          answer      \* what it was told

vars == <<plans, destroyed, asked, answer>>

Nobody == [by |-> "nobody"]
Raised == [is |-> "raised"]
NoPlans == [k \in {} |-> Raised]

Init == plans = NoPlans /\ destroyed = FALSE /\ asked = Nobody /\ answer = Raised

------------------------------------------------------------------------------
(* make_dims. *)

The(given) == CHOOSE split \in given : TRUE
Total(split) == SumFunction(split)
Everywhere(n) == [i \in 1 .. WorldSize |-> n]

\* A2ADims::validate, of a split: one length for each rank, none negative.
ValidSplit(split) == Len(split) = WorldSize /\ \A i \in 1 .. WorldSize : split[i] >= 0

\* The splits say of this rank's input what its sizes say.
Matches(sizes, mode, seq, head) ==
    IF mode = 0 THEN sizes[2] = seq[Rank + 1] /\ sizes[3] = Total(head)
                ELSE sizes[2] = Total(seq) /\ sizes[3] = head[Rank + 1]

\* Both splits given and right, or both absent and the axis that is scattered
\* in equal parts.
SplitsPass(sizes, mode, seq, head) ==
    \/ /\ seq # {} /\ head # {}
       /\ ValidSplit(The(seq)) /\ ValidSplit(The(head))
       /\ Matches(sizes, mode, The(seq), The(head))
    \/ /\ seq = {} /\ head = {}
       /\ (IF mode = 0 THEN sizes[3] ELSE sizes[2]) % WorldSize = 0

\* Everything make_dims and build_plan require of a request.
Passes(q) ==
    /\ Len(q.sizes) = 4
    /\ q.dtype \in DOMAIN Elem
    /\ (q.sizes[4] * Elem[q.dtype]) % Alignment = 0
    /\ q.mode \in {0, 1}
    /\ q.sizes[1] > 0 /\ q.sizes[4] > 0
    /\ SplitsPass(q.sizes, q.mode, q.seq, q.head)

\* What build_plan is handed for a request that passes: the caller's splits, or
\* the ones its sizes imply.
Built(q) ==
    LET own(n, part) == IF q.mode = part THEN Everywhere(n) ELSE Everywhere(n \div WorldSize)
    IN  [is |-> "plan", b |-> q.sizes[1], d |-> q.sizes[4], mode |-> q.mode, elem |-> Elem[q.dtype],
         seq |-> IF q.seq = {} THEN own(q.sizes[2], 0) ELSE The(q.seq),
         head |-> IF q.seq = {} THEN own(q.sizes[3], 1) ELSE The(q.head)]

------------------------------------------------------------------------------
(* plan. *)

\* Mutant: bare lists for the splits, so that absent and empty are one key.
BareKey(q) ==
    LET bare(given) == IF given = {} THEN <<>> ELSE The(given)
    IN  [sizes |-> q.sizes, mode |-> q.mode, dtype |-> q.dtype,
         seq |-> bare(q.seq), head |-> bare(q.head)]

\* PlanKey: the arguments, an absent split list apart from an empty one.
KeyOf(q) == [sizes |-> q.sizes, mode |-> q.mode, dtype |-> q.dtype, seq |-> q.seq, head |-> q.head]

Cached(q) == KeyOf(q) \in DOMAIN plans

\* Mutant: the map only grows.
NeverCleared == plans

\* The map a miss starts from: emptied when it is full.
WithRoom == IF Cardinality(DOMAIN plans) >= MaxPlans THEN NoPlans ELSE plans

\* Mutant: a full map is emptied after the plan went in.
InsertThenClear(q) ==
    IF Cardinality(DOMAIN plans) >= MaxPlans THEN NoPlans
    ELSE [k \in DOMAIN plans \cup {KeyOf(q)} |-> IF k = KeyOf(q) THEN Built(q) ELSE plans[k]]

\* emplace
Inserted(q) ==
    [k \in DOMAIN WithRoom \cup {KeyOf(q)} |-> IF k = KeyOf(q) THEN Built(q) ELSE WithRoom[k]]

\* What plan makes of the map: nothing on a hit; a miss makes room before
\* make_dims is asked whether the request passes.
PlansAfter(q) ==
    IF Cached(q) THEN plans ELSE IF Passes(q) THEN Inserted(q) ELSE WithRoom

\* What plan returns, or that it raises.
PlanFor(q) == IF Cached(q) THEN plans[KeyOf(q)] ELSE IF Passes(q) THEN Built(q) ELSE Raised

------------------------------------------------------------------------------
(* Its callers. *)

\* prepare: the checks that no shape can answer come before the plan, on every
\* call.
Operator(q, ours) ==
    /\ asked' = [by |-> "operator", request |-> q, ours |-> ours]
    /\ IF destroyed \/ ~ ours THEN answer' = Raised /\ plans' = plans
                              ELSE answer' = PlanFor(q) /\ plans' = PlansAfter(q)
    /\ UNCHANGED destroyed

\* A traced call: the shape is all it needs, of a group alive or not.
Meta(q) ==
    /\ asked' = [by |-> "meta", request |-> q]
    /\ answer' = PlanFor(q) /\ plans' = PlansAfter(q)
    /\ UNCHANGED destroyed

\* empty_output: plans first; make_output then checks that the group is alive.
EmptyOutput(q) ==
    /\ asked' = [by |-> "empty_output", request |-> q]
    /\ answer' = IF destroyed THEN Raised ELSE PlanFor(q)
    /\ plans' = PlansAfter(q)
    /\ UNCHANGED destroyed

\* destroy.  No call is under way, so no caller holds a plan any more.
Destroy ==
    /\ ~ destroyed /\ destroyed' = TRUE
    /\ plans' = NoPlans
    /\ asked' = Nobody /\ answer' = Raised

Next ==
    \/ \E q \in Requests : Meta(q) \/ EmptyOutput(q) \/ \E ours \in BOOLEAN : Operator(q, ours)
    \/ Destroy

Spec == Init /\ [][Next]_vars

------------------------------------------------------------------------------
(* Properties. *)

\* A plan is kept for requests that pass only, and never more plans than the
\* bound, whatever a caller with changing shapes asks for.
TypeOK ==
    /\ destroyed \in BOOLEAN
    /\ asked = Nobody \/ asked.request \in Requests
    /\ IsFiniteSet(DOMAIN plans) /\ Cardinality(DOMAIN plans) <= MaxPlans
    /\ \A k \in DOMAIN plans : \E q \in Requests : Passes(q) /\ k = KeyOf(q)

\* What a caller would be told by a group that keeps no plans.
Uncached ==
    LET q == asked.request
        fails == \/ asked.by = "operator" /\ (destroyed \/ ~ asked.ours)
                 \/ asked.by = "empty_output" /\ destroyed
    IN  IF fails \/ ~ Passes(q) THEN Raised ELSE Built(q)

\* The cache is invisible: no order of earlier calls makes plan return another
\* request's plan, or answer a request that make_dims would have refused.
AnswersAsUncached == asked # Nobody => answer = Uncached

\* plan returns a reference into the map, and prepare keeps its address over
\* the allocation of windows and the launch: the entry is still there, and
\* still this request's, for as long as its caller may look at it.
ReferenceLive ==
    answer # Raised => /\ KeyOf(asked.request) \in DOMAIN plans
                       /\ plans[KeyOf(asked.request)] = answer
==============================================================================
