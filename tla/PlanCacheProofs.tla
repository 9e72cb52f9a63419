--------------------------- MODULE PlanCacheProofs ---------------------------
(***************************************************************************)
(* Proofs about PlanCache for every set of requests, every bound and every *)
(* order of callers: a kept plan answers as a fresh one would, and it is   *)
(* kept for as long as a caller may look at it.                            *)
(***************************************************************************)
EXTENDS PlanCache, FiniteSetTheorems, TLAPS

------------------------------------------------------------------------------
(* The inductive invariant. *)

\* Whatever request finds a plan would have passed, and would have built it.
\* The answers follow from this about the entries, never the other way round.
KeptAsBuilt ==
    \A q \in Requests : Cached(q) => Passes(q) /\ plans[KeyOf(q)] = Built(q)

IInv == TypeOK /\ KeptAsBuilt /\ AnswersAsUncached /\ ReferenceLive

------------------------------------------------------------------------------
(* Keys. *)

\* A key holds every argument make_dims and build_plan look at: requests that
\* share one are refused together, and plan the same.
LEMMA SameKeySamePlan ==
    ASSUME NEW p, NEW q, KeyOf(p) = KeyOf(q)
    PROVE  /\ Passes(p) <=> Passes(q)
           /\ Built(p) = Built(q)
<1>1. /\ p.sizes = q.sizes /\ p.mode = q.mode /\ p.dtype = q.dtype
      /\ p.seq = q.seq /\ p.head = q.head
  BY DEF KeyOf
<1>2. Passes(p) <=> Passes(q)
  BY <1>1 DEF Passes
<1>3. Built(p) = Built(q)
  BY <1>1 DEF Built
<1> QED
  BY <1>2, <1>3

\* A plan is never taken for a refusal.
LEMMA BuiltIsNoRefusal == ASSUME NEW q PROVE Built(q) # Raised
<1>1. Built(q).is = "plan" /\ Raised.is = "raised"
  BY DEF Built, Raised
<1> QED
  BY <1>1

------------------------------------------------------------------------------
(* The map. *)

\* What the conjuncts of TypeOK about the map say, for a map m.
MapOK(m) ==
    /\ IsFiniteSet(DOMAIN m) /\ Cardinality(DOMAIN m) <= MaxPlans
    /\ \A k \in DOMAIN m : \E q \in Requests : Passes(q) /\ k = KeyOf(q)
    /\ \A q \in Requests : KeyOf(q) \in DOMAIN m => Passes(q) /\ m[KeyOf(q)] = Built(q)

LEMMA NoPlansOK == MapOK(NoPlans)
<1>1. DOMAIN NoPlans = {}
  BY DEF NoPlans
<1> QED
  BY <1>1, FS_EmptySet, PlanCacheAssumption DEF MapOK

\* There is room for one more plan, and what was kept is in order.
LEMMA WithRoomOK ==
    ASSUME MapOK(plans)
    PROVE  MapOK(WithRoom) /\ Cardinality(DOMAIN WithRoom) < MaxPlans
<1>1. Cardinality(DOMAIN plans) \in Nat
  BY FS_CardinalityType DEF MapOK
<1>2. CASE Cardinality(DOMAIN plans) >= MaxPlans
  <2>1. WithRoom = NoPlans /\ DOMAIN NoPlans = {}
    BY <1>2 DEF WithRoom, NoPlans
  <2> QED
    BY <2>1, NoPlansOK, FS_EmptySet, PlanCacheAssumption
<1>3. CASE ~ Cardinality(DOMAIN plans) >= MaxPlans
  BY <1>1, <1>3, PlanCacheAssumption DEF WithRoom
<1> QED
  BY <1>2, <1>3

LEMMA InsertedOK ==
    ASSUME MapOK(plans), NEW q \in Requests, Passes(q)
    PROVE  /\ MapOK(Inserted(q))
           /\ KeyOf(q) \in DOMAIN Inserted(q) /\ Inserted(q)[KeyOf(q)] = Built(q)
<1> DEFINE m == Inserted(q)
           D == DOMAIN WithRoom
<1>1. /\ DOMAIN m = D \cup {KeyOf(q)}
      /\ m[KeyOf(q)] = Built(q)
      /\ \A k \in D : k # KeyOf(q) => m[k] = WithRoom[k]
  BY DEF Inserted
<1>2. /\ IsFiniteSet(D) /\ Cardinality(D) \in Nat /\ Cardinality(D) < MaxPlans
      /\ MapOK(WithRoom)
  BY WithRoomOK, FS_CardinalityType DEF MapOK
<1>3. /\ IsFiniteSet(D \cup {KeyOf(q)})
      /\ Cardinality(D \cup {KeyOf(q)}) <= Cardinality(D) + 1
  <2>1. /\ IsFiniteSet(D \cup {KeyOf(q)})
        /\ Cardinality(D \cup {KeyOf(q)}) =
              IF KeyOf(q) \in D THEN Cardinality(D) ELSE Cardinality(D) + 1
    BY <1>2, FS_AddElement
  <2> QED
    BY <1>2, <2>1
<1>4. IsFiniteSet(DOMAIN m) /\ Cardinality(DOMAIN m) <= MaxPlans
  <2>1. Cardinality(D \cup {KeyOf(q)}) \in Nat
    BY <1>3, FS_CardinalityType
  <2> QED
    BY <1>1, <1>2, <1>3, <2>1, PlanCacheAssumption
<1>5. \A k \in DOMAIN m : \E p \in Requests : Passes(p) /\ k = KeyOf(p)
  BY <1>1, <1>2 DEF MapOK
<1>6. ASSUME NEW p \in Requests, KeyOf(p) \in DOMAIN m
      PROVE  Passes(p) /\ m[KeyOf(p)] = Built(p)
  <2>1. CASE KeyOf(p) = KeyOf(q)
    BY <1>1, <2>1, SameKeySamePlan
  <2>2. CASE KeyOf(p) # KeyOf(q)
    BY <1>1, <1>2, <1>6, <2>2 DEF MapOK
  <2> QED
    BY <2>1, <2>2
<1> HIDE DEF m
<1>7. MapOK(m)
  BY <1>4, <1>5, <1>6 DEF MapOK
<1> QED
  BY <1>1, <1>7 DEF m

\* plan leaves the map in order, returns what a fresh build would, and what it
\* returns is in the map.
LEMMA PlanIsFresh ==
    ASSUME MapOK(plans), NEW q \in Requests
    PROVE  /\ MapOK(PlansAfter(q))
           /\ PlanFor(q) = IF Passes(q) THEN Built(q) ELSE Raised
           /\ PlanFor(q) # Raised => /\ KeyOf(q) \in DOMAIN PlansAfter(q)
                                     /\ PlansAfter(q)[KeyOf(q)] = PlanFor(q)
<1>1. CASE Cached(q)
  <2>1. Passes(q) /\ plans[KeyOf(q)] = Built(q)
    BY <1>1 DEF MapOK, Cached
  <2> QED
    BY <1>1, <2>1 DEF PlansAfter, PlanFor, Cached
<1>2. CASE ~ Cached(q) /\ Passes(q)
  BY <1>2, InsertedOK DEF PlansAfter, PlanFor
<1>3. CASE ~ Cached(q) /\ ~ Passes(q)
  BY <1>3, WithRoomOK DEF PlansAfter, PlanFor
<1> QED
  BY <1>1, <1>2, <1>3

------------------------------------------------------------------------------
(* Theorems. *)

LEMMA MapInOrder == IInv => MapOK(plans)
  BY DEF IInv, TypeOK, KeptAsBuilt, Cached, MapOK

LEMMA InitIInv == Init => IInv
<1> SUFFICES ASSUME Init PROVE IInv
  OBVIOUS
<1>1. MapOK(plans) /\ answer = Raised /\ asked = Nobody /\ destroyed = FALSE
  BY NoPlansOK DEF Init
<1> QED
  BY <1>1 DEF IInv, TypeOK, KeptAsBuilt, Cached, MapOK, AnswersAsUncached, ReferenceLive

LEMMA NextIInv == IInv /\ [Next]_vars => IInv'
<1> SUFFICES ASSUME IInv, [Next]_vars PROVE IInv'
  OBVIOUS
<1>0. MapOK(plans) /\ destroyed \in BOOLEAN
  BY MapInOrder DEF IInv, TypeOK
<1>a. ASSUME MapOK(plans'), destroyed' \in BOOLEAN,
             asked' = Nobody \/ asked'.request \in Requests,
             AnswersAsUncached', ReferenceLive'
      PROVE  IInv'
  BY <1>a DEF IInv, TypeOK, KeptAsBuilt, Cached, MapOK
<1>1. ASSUME NEW q \in Requests, NEW ours \in BOOLEAN, Operator(q, ours) PROVE IInv'
  <2>1. /\ asked' = [by |-> "operator", request |-> q, ours |-> ours]
        /\ destroyed' = destroyed
    BY <1>1 DEF Operator
  <2>2. asked'.by = "operator" /\ asked'.request = q /\ asked'.ours = ours
    BY <2>1
  <2>3. CASE destroyed \/ ~ ours
    <3>1. answer' = Raised /\ plans' = plans
      BY <1>1, <2>3 DEF Operator
    <3> QED
      BY <1>0, <1>a, <2>1, <2>2, <2>3, <3>1 DEF AnswersAsUncached, Uncached, ReferenceLive
  <2>4. CASE ~ (destroyed \/ ~ ours)
    <3>1. answer' = PlanFor(q) /\ plans' = PlansAfter(q)
      BY <1>1, <2>4 DEF Operator
    <3>2. AnswersAsUncached'
      BY <1>0, <2>1, <2>2, <2>4, <3>1, PlanIsFresh DEF AnswersAsUncached, Uncached
    <3>3. ReferenceLive'
      BY <1>0, <2>2, <3>1, PlanIsFresh DEF ReferenceLive
    <3> QED
      BY <1>0, <1>a, <2>1, <2>2, <3>1, <3>2, <3>3, PlanIsFresh
  <2> QED
    BY <2>3, <2>4
<1>2. ASSUME NEW q \in Requests, Meta(q) PROVE IInv'
  <2>1. /\ asked'.by = "meta" /\ asked'.request = q
        /\ destroyed' = destroyed
        /\ answer' = PlanFor(q) /\ plans' = PlansAfter(q)
    BY <1>2 DEF Meta
  <2>2. AnswersAsUncached'
    BY <1>0, <2>1, PlanIsFresh DEF AnswersAsUncached, Uncached
  <2>3. ReferenceLive'
    BY <1>0, <2>1, PlanIsFresh DEF ReferenceLive
  <2> QED
    BY <1>0, <1>a, <2>1, <2>2, <2>3, PlanIsFresh
<1>3. ASSUME NEW q \in Requests, EmptyOutput(q) PROVE IInv'
  <2>1. /\ asked'.by = "empty_output" /\ asked'.request = q
        /\ destroyed' = destroyed
        /\ answer' = IF destroyed THEN Raised ELSE PlanFor(q)
        /\ plans' = PlansAfter(q)
    BY <1>3 DEF EmptyOutput
  <2>2. AnswersAsUncached'
    BY <1>0, <2>1, PlanIsFresh DEF AnswersAsUncached, Uncached
  <2>3. ReferenceLive'
    BY <1>0, <2>1, PlanIsFresh DEF ReferenceLive
  <2> QED
    BY <1>0, <1>a, <2>1, <2>2, <2>3, PlanIsFresh
<1>4. ASSUME Destroy PROVE IInv'
  <2>1. destroyed' = TRUE /\ plans' = NoPlans /\ asked' = Nobody /\ answer' = Raised
    BY <1>4 DEF Destroy
  <2> QED
    BY <1>a, <2>1, NoPlansOK DEF AnswersAsUncached, ReferenceLive
<1>5. CASE UNCHANGED vars
  BY <1>5 DEF vars, IInv, TypeOK, KeptAsBuilt, Cached, AnswersAsUncached, Uncached, ReferenceLive
<1> QED
  BY <1>1, <1>2, <1>3, <1>4, <1>5 DEF Next

LEMMA Invariance == Spec => []IInv
<1> QED
  BY InitIInv, NextIInv, PTL DEF Spec

\* The map never outgrows its bound and holds plans of passing requests only,
\* for every bound and every set of requests: UlyssesGroup::plan.
THEOREM TypeCorrect == Spec => []TypeOK
<1>1. IInv => TypeOK
  BY DEF IInv
<1> QED
  BY <1>1, Invariance, PTL

\* No history of earlier calls shows in an answer of UlyssesGroup::plan: a hit
\* never skips a check that would have failed, nor returns another's plan.
THEOREM CacheIsInvisible == Spec => []AnswersAsUncached
<1>1. IInv => AnswersAsUncached
  BY DEF IInv
<1> QED
  BY <1>1, Invariance, PTL

\* The reference prepare keeps into the map stays good while its call lasts.
THEOREM ReferencesStayLive == Spec => []ReferenceLive
<1>1. IInv => ReferenceLive
  BY DEF IInv
<1> QED
  BY <1>1, Invariance, PTL
==============================================================================
