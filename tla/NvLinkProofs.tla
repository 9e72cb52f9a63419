---------------------------- MODULE NvLinkProofs ----------------------------
(***************************************************************************)
(* For every machine, every list of devices and every way NVML can fall    *)
(* short of an answer: a refusal and a pass of the check are founded.      *)
(***************************************************************************)
EXTENDS NvLink, FiniteSetTheorems, TLAPS

\* What the variables range over; the diagonal is filled before any sweep.
Ranges ==
    /\ machine \in Machines
    /\ devices \in Groups
    /\ todo \subseteq Group
    /\ linked \subseteq Group \X Group
    /\ on_switch \subseteq Group
    /\ linked = {} => todo = {}

\* Nothing is in the matrix that the machine does not have.
Sound ==
    /\ \A i, j \in Group : <<i, j>> \in linked => i = j \/ DirectlyJoined(i, j) \/ ThroughSwitch(i, j)
    /\ on_switch \subseteq machine.switched

\* What a sweep of d leaves behind: an answer, and every link it was told of.
Swept(d) ==
    /\ Answers(d)
    /\ \A far \in Ends(d) \cap Group :
          Told(d, far) => <<d, far>> \in linked /\ <<far, d>> \in linked
    /\ Switch \in Ends(d) /\ Told(d, Switch) => d \in on_switch

\* Once begun, and while no verdict is reached, the matrix has all that the
\* swept devices told.
Complete ==
    verdict.is = "open" /\ linked # {} =>
        \A d \in Group : <<d, d>> \in linked /\ (d \notin todo => Swept(d))

IInv == Ranges /\ Sound /\ Complete /\ RefusalIsFounded /\ PassIsFounded

------------------------------------------------------------------------------
(* The order of the sweep and of the pairs. *)

\* A set of device indices or of ranks has a least element.
LEMMA LeastNat ==
    ASSUME NEW S \in SUBSET Nat, S # {}
    PROVE  \E x \in S : \A y \in S : x <= y
<1>1. PICK top \in S : TRUE
  OBVIOUS
<1> DEFINE low == S \cap 0..top
           upto(y) == S \cap 0..y
           family == {upto(y) : y \in low}
<1>2. \E T \in family : \A U \in family : ~ (<<U, T>> \in StrictSubsetOrdering(low))
  <2>1. IsFiniteSet(low)
    <3>1. IsFiniteSet(0..top)
      BY FS_Interval
    <3>2. QED  BY <3>1, FS_Subset
  <2>2. family \subseteq SUBSET low
    BY <1>1
  <2>3. upto(top) \in family
    BY <1>1
  <2>4. IsWellFoundedOn(StrictSubsetOrdering(low), SUBSET low)
    BY <2>1, FS_StrictSubsetOrderingWellFounded, FS_FiniteSubsetsOfFinite
  <2> HIDE DEF family, low, upto
  <2>5. QED  BY <2>2, <2>3, <2>4, WFMin
<1>3. PICK x \in low : \A U \in family : ~ (<<U, upto(x)>> \in StrictSubsetOrdering(low))
  BY <1>2
<1>4. ASSUME NEW y \in S, y < x  PROVE FALSE
  <2>1. x \in Nat /\ y \in Nat /\ x <= top /\ y \in low /\ top \in Nat
    BY <1>1, <1>4
  <2>2. upto(y) \in family
    BY <2>1
  <2>3. upto(y) \subseteq upto(x) /\ x \in upto(x) /\ x \notin upto(y) /\ upto(x) \subseteq low
    BY <1>4, <2>1
  <2>4. <<upto(y), upto(x)>> \in StrictSubsetOrdering(low)
    BY <2>3 DEF StrictSubsetOrdering
  <2>5. QED  BY <1>3, <2>2, <2>4
<1>5. QED  BY <1>3, <1>4

\* The device a sweep takes is one of those not swept yet.
LEMMA MinIn ==
    ASSUME NEW S \in SUBSET Nat, S # {}
    PROVE  Min(S) \in S
BY LeastNat DEF Min

\* The pair a refusal names is one of the missing pairs.
LEMMA FirstIn ==
    ASSUME NEW S \in SUBSET (Nat \X Nat), S # {}
    PROVE  First(S) \in S
<1> DEFINE rows == {p[1] : p \in S}
<1>1. PICK r \in rows : \A s \in rows : r <= s
  <2>1. rows \in SUBSET Nat /\ rows # {}  OBVIOUS
  <2>2. QED  BY <2>1, LeastNat
<1> DEFINE columns == {p[2] : p \in {q \in S : q[1] = r}}
<1>2. PICK c \in columns : \A d \in columns : c <= d
  <2>1. columns \in SUBSET Nat  OBVIOUS
  <2>2. columns # {}  BY <1>1
  <2>3. QED  BY <2>1, <2>2, LeastNat
<1>3. PICK p \in S : p[1] = r /\ p[2] = c
  BY <1>2
<1>4. ASSUME NEW q \in S  PROVE p[1] < q[1] \/ (p[1] = q[1] /\ p[2] <= q[2])
  <2>1. p[1] <= q[1] /\ p[1] \in Nat /\ q[1] \in Nat
    BY <1>1, <1>3
  <2>2. p[1] = q[1] => p[2] <= q[2]
    BY <1>2, <1>3
  <2>3. QED  BY <2>1, <2>2
<1>5. QED  BY <1>4 DEF First
------------------------------------------------------------------------------
(* The inductive invariant. *)

LEMMA InitHolds == Init => IInv
<1> SUFFICES ASSUME Init  PROVE IInv
  OBVIOUS
<1>1. Ranges
  BY DEF Init, Ranges
<1>2. Sound
  BY DEF Init, Sound
<1>3. Complete
  BY DEF Init, Complete
<1>4. RefusalIsFounded /\ PassIsFounded
  BY DEF Init, Open, RefusalIsFounded, PassIsFounded
<1> QED
  BY <1>1, <1>2, <1>3, <1>4 DEF IInv

\* The devices of a group are devices of the machine.
LEMMA GroupInGpus ==
    ASSUME Ranges
    PROVE  Group \subseteq Gpus
<1>1. devices \in Seq(Gpus)
  BY NvLinkAssumption DEF Ranges
<1> QED
  BY <1>1 DEF Group, ToSet

\* Skipping, and finding no library or no handle, leave an empty matrix.
LEMMA SkipPreserves == IInv /\ Skip => IInv'
<1> SUFFICES ASSUME IInv, Skip  PROVE IInv'
  OBVIOUS
<1>1. verdict'.is = "skipped"
  BY DEF Skip, Skipped
<1>2. Ranges' /\ Sound'
  BY DEF IInv, Ranges, Sound, Skip, Group, DirectlyJoined, ThroughSwitch
<1>3. Complete' /\ RefusalIsFounded' /\ PassIsFounded'
  BY <1>1 DEF Complete, RefusalIsFounded, PassIsFounded
<1> QED
  BY <1>2, <1>3 DEF IInv

LEMMA BeginPreserves == IInv /\ Begin => IInv'
<1> SUFFICES ASSUME IInv, Begin  PROVE IInv'
  OBVIOUS
<1>1. CASE machine.lib /\ Group \subseteq machine.found
  <2>1. /\ todo' = Group /\ linked' = {<<d, d>> : d \in Group} /\ verdict' = verdict
        /\ machine' = machine /\ devices' = devices /\ on_switch' = on_switch /\ Group' = Group
    BY <1>1 DEF Begin, Group
  <2>2. Ranges'
    <3>1. linked' \subseteq Group \X Group /\ \A d \in Group : <<d, d>> \in linked'
      BY <2>1
    <3>2. linked' = {} => todo' = {}
      BY <2>1, <3>1
    <3>3. machine' \in Machines /\ devices' \in Groups /\ on_switch' \subseteq Group
      BY <2>1 DEF IInv, Ranges
    <3>4. QED  BY <2>1, <3>1, <3>2, <3>3 DEF Ranges
  <2>3. Sound'
    BY <2>1 DEF IInv, Sound, DirectlyJoined, ThroughSwitch
  <2>4. Complete'
    BY <2>1 DEF Complete
  <2>5. RefusalIsFounded' /\ PassIsFounded'
    <3>1. verdict'.is = "open"
      BY <2>1 DEF Begin, Open
    <3>2. QED  BY <3>1 DEF RefusalIsFounded, PassIsFounded
  <2>6. QED  BY <2>2, <2>3, <2>4, <2>5 DEF IInv
<1>2. CASE ~ (machine.lib /\ Group \subseteq machine.found)
  <2>1. /\ verdict'.is = "cannot say" /\ todo' = todo /\ linked' = linked
        /\ machine' = machine /\ devices' = devices /\ on_switch' = on_switch /\ Group' = Group
    <3>1. UNCHANGED <<machine, devices, on_switch>>
      BY DEF Begin
    <3>2. verdict' = CannotSay /\ UNCHANGED <<todo, linked>>
      BY <1>2 DEF Begin
    <3>3. Group' = Group
      BY <3>1 DEF Group
    <3>4. CannotSay.is = "cannot say"
      BY DEF CannotSay
    <3>5. QED  BY <3>1, <3>2, <3>3, <3>4
  <2>2. Ranges' /\ Sound'
    BY <2>1 DEF IInv, Ranges, Sound, DirectlyJoined, ThroughSwitch
  <2>3. Complete' /\ RefusalIsFounded'
    BY <2>1 DEF Complete, RefusalIsFounded
  <2>4. PassIsFounded'
    BY <1>2, <2>1 DEF PassIsFounded
  <2>5. QED  BY <2>2, <2>3, <2>4 DEF IInv
<1> QED
  BY <1>1, <1>2

\* NVML answers alike for as long as the machine is the same.
LEMMA SameMachine ==
    ASSUME machine' = machine, NEW e
    PROVE  /\ Ends(e)' = Ends(e)
           /\ Answers(e)' <=> Answers(e)
           /\ \A far : Told(e, far)' <=> Told(e, far)
<1>1. Ends(e)' = Ends(e)
  BY DEF Ends
<1>2. \A far : (Told(e, far)' <=> Told(e, far)) /\ (Unreached(e, far)' <=> Unreached(e, far))
  BY DEF Told, Unreached
<1>3. Answers(e)' <=> Answers(e)
  BY <1>1, <1>2 DEF Answers
<1> QED
  BY <1>1, <1>2, <1>3

\* A sweep adds what its device told, and drops the group if it told nothing.
LEMMA SweepPreserves == IInv /\ Sweep => IInv'
<1> SUFFICES ASSUME IInv, Sweep  PROVE IInv'
  OBVIOUS
<1>1. PICK d \in todo : d = Min(todo)
  <2>1. todo \in SUBSET Nat /\ todo # {}
    BY GroupInGpus, NvLinkAssumption DEF IInv, Ranges, Sweep
  <2>2. QED  BY <2>1, MinIn
<1> DEFINE peers == {far \in Ends(d) \cap Group : Told(d, far)}
<1>2. /\ todo' = todo \ {d}
      /\ linked' = linked \cup {<<d, p>> : p \in peers} \cup {<<p, d>> : p \in peers}
      /\ on_switch' = on_switch \cup (IF Switch \in Ends(d) /\ Told(d, Switch) THEN {d} ELSE {})
      /\ verdict' = IF Answers(d) THEN Open ELSE CannotSay
      /\ machine' = machine /\ devices' = devices
      /\ verdict = Open /\ todo # {}
  BY <1>1 DEF Sweep, Answered
<1>3. Group' = Group /\ d \in Group
  BY <1>1, <1>2 DEF Group, IInv, Ranges
<1>4. peers \subseteq Group /\ \A p \in peers : DirectlyJoined(d, p) /\ DirectlyJoined(p, d)
  <2> SUFFICES ASSUME NEW p \in peers  PROVE DirectlyJoined(d, p) /\ DirectlyJoined(p, d)
    OBVIOUS
  <2>1. p \in Gpus
    BY GroupInGpus DEF IInv
  <2>2. p # Switch
    BY <2>1, NvLinkAssumption
  <2>3. {d, p} \in machine.direct
    BY <2>2 DEF Ends
  <2>4. {p, d} = {d, p}
    OBVIOUS
  <2>5. QED  BY <2>3, <2>4 DEF DirectlyJoined
<1>5. Switch \in Ends(d) => d \in machine.switched
  BY NvLinkAssumption DEF Ends
<1>6. \A e : Ends(e)' = Ends(e) /\ (Answers(e)' <=> Answers(e)) /\ \A far : Told(e, far)' <=> Told(e, far)
  BY <1>2, SameMachine
<1>7. Ranges'
  <2>1. todo' \subseteq Group /\ on_switch' \subseteq Group
    BY <1>2, <1>3 DEF IInv, Ranges
  <2>2. linked' \subseteq Group \X Group
    BY <1>2, <1>3, <1>4 DEF IInv, Ranges
  <2>3. linked \subseteq linked' /\ linked # {}
    BY <1>2 DEF IInv, Ranges
  <2>4. QED  BY <1>2, <1>3, <2>1, <2>2, <2>3 DEF IInv, Ranges
<1>8. Sound'
  <2>1. on_switch' \subseteq machine.switched
    BY <1>2, <1>5 DEF IInv, Sound
  <2>2. ASSUME NEW i \in Group, NEW j \in Group, <<i, j>> \in linked'
        PROVE  i = j \/ DirectlyJoined(i, j) \/ ThroughSwitch(i, j)
    <3>1. CASE <<i, j>> \in linked
      BY <3>1 DEF IInv, Sound
    <3>2. CASE <<i, j>> \notin linked
      BY <1>2, <1>4, <2>2, <3>2
    <3>3. QED  BY <3>1, <3>2
  <2>3. QED  BY <1>2, <1>3, <2>1, <2>2 DEF Sound, DirectlyJoined, ThroughSwitch
<1>9. Complete'
  <2> SUFFICES ASSUME verdict'.is = "open", NEW e \in Group
               PROVE  <<e, e>> \in linked' /\ (e \notin todo' => Swept(e)')
    BY <1>3 DEF Complete
  <2>1. linked # {} /\ verdict.is = "open" /\ linked \subseteq linked' /\ on_switch \subseteq on_switch'
    BY <1>2 DEF IInv, Ranges, Open
  <2>2. <<e, e>> \in linked'
    BY <2>1 DEF IInv, Complete
  <2>3. ASSUME e \notin todo'  PROVE Swept(e)'
    <3>1. CASE e = d
      <4>1. Answers(d)
        BY <1>2 DEF CannotSay
      <4>2. \A far \in Ends(d) \cap Group :
               Told(d, far) => <<d, far>> \in linked' /\ <<far, d>> \in linked'
        BY <1>2
      <4>3. Switch \in Ends(d) /\ Told(d, Switch) => d \in on_switch'
        BY <1>2
      <4>4. QED  BY <1>3, <1>6, <3>1, <4>1, <4>2, <4>3 DEF Swept
    <3>2. CASE e # d
      <4>1. Swept(e)
        BY <1>2, <2>1, <2>3, <3>2 DEF IInv, Complete
      <4>2. QED  BY <1>3, <1>6, <2>1, <4>1 DEF Swept
    <3>3. QED  BY <3>1, <3>2
  <2>4. QED  BY <2>2, <2>3
<1>10. RefusalIsFounded' /\ PassIsFounded'
  <2>1. CASE Answers(d)
    <3>1. verdict'.is = "open"
      BY <1>2, <2>1 DEF Open
    <3>2. QED  BY <3>1 DEF RefusalIsFounded, PassIsFounded
  <2>2. CASE ~ Answers(d)
    <3>1. verdict'.is = "cannot say"
      BY <1>2, <2>2 DEF CannotSay
    <3>2. \E e \in Group : ~ Answers(e)'
      BY <1>3, <1>6, <2>2
    <3>3. QED  BY <1>3, <3>1, <3>2 DEF RefusalIsFounded, PassIsFounded
  <2>3. QED  BY <2>1, <2>2
<1> QED
  BY <1>7, <1>8, <1>9, <1>10 DEF IInv

\* Deciding closes the matrix over the switch and names a pair it still lacks.
LEMMA DecidePreserves == IInv /\ Decide => IInv'
<1> SUFFICES ASSUME IInv, Decide  PROVE IInv'
  OBVIOUS
<1> DEFINE missing == Missing(linked')
           first == First(missing)
<1>1. /\ linked' = linked \cup Fabric(on_switch)
      /\ verdict' = IF missing = {} THEN Accepted ELSE Refused(devices[first[1]], devices[first[2]])
      /\ machine' = machine /\ devices' = devices /\ todo' = todo /\ on_switch' = on_switch
      /\ verdict = Open /\ linked # {} /\ todo = {}
  BY DEF Decide
<1>2. Group' = Group
  BY <1>1 DEF Group
<1>3. \A d \in Group : <<d, d>> \in linked /\ Swept(d)
  BY <1>1 DEF IInv, Complete, Open
<1>4. Ranges'
  BY <1>1, <1>2 DEF IInv, Ranges, Fabric
<1>5. Sound'
  <2>1. \A i, j \in Group : <<i, j>> \in linked' => i = j \/ DirectlyJoined(i, j) \/ ThroughSwitch(i, j)
    BY <1>1 DEF IInv, Sound, Fabric, ThroughSwitch
  <2>2. QED  BY <1>1, <1>2, <2>1 DEF IInv, Sound, DirectlyJoined, ThroughSwitch
<1> HIDE DEF missing, first
<1>6. CASE missing = {}
  <2>1. verdict'.is = "accepted"
    BY <1>1, <1>6 DEF Accepted
  <2>2. \A i, j \in Group : <<i, j>> \in linked'
    <3>1. ASSUME NEW r \in DOMAIN devices, NEW t \in DOMAIN devices
          PROVE  <<devices[r], devices[t]>> \in linked'
      <4>1. <<r, t>> \notin missing
        BY <1>6
      <4>2. QED  BY <4>1 DEF missing, Missing
    <3>2. QED  BY <3>1 DEF Group, ToSet
  <2>3. PassIsFounded'
    BY <1>2, <1>5, <2>1, <2>2 DEF PassIsFounded, Sound
  <2>4. Complete' /\ RefusalIsFounded'
    BY <2>1 DEF Complete, RefusalIsFounded
  <2>5. QED  BY <1>4, <1>5, <2>3, <2>4 DEF IInv
<1>7. CASE missing # {}
  <2>1. first \in missing
    <3>1. devices \in Seq(Gpus)
      BY NvLinkAssumption DEF IInv, Ranges
    <3>2. DOMAIN devices \subseteq Nat
      BY <3>1
    <3>3. missing \in SUBSET (Nat \X Nat)
      BY <3>2 DEF missing, Missing
    <3>4. QED  BY <1>7, <3>3, FirstIn DEF first
  <2>2. PICK i \in Group, j \in Group : i = devices[first[1]] /\ j = devices[first[2]] /\ <<i, j>> \notin linked'
    BY <2>1 DEF missing, Missing, Group, ToSet
  <2>3. verdict'.is = "refused" /\ verdict'.pair[1] = i /\ verdict'.pair[2] = j
    BY <1>1, <1>7, <2>2 DEF Refused
  <2>4. DirectlyJoined(i, j) => ~ Told(i, j) /\ ~ Told(j, i)
    <3>1. i \in Gpus /\ j \in Gpus
      BY GroupInGpus DEF IInv
    <3>2. ASSUME DirectlyJoined(i, j)  PROVE j \in Ends(i) /\ i \in Ends(j)
      <4>1. {i, j} \in machine.direct /\ {i, j} = {j, i}
        BY <3>2 DEF DirectlyJoined
      <4>2. QED  BY <3>1, <4>1 DEF Ends
    <3>3. <<i, j>> \notin linked
      BY <1>1, <2>2
    <3>4. QED  BY <1>3, <3>2, <3>3 DEF Swept
  <2>5. ThroughSwitch(i, j) => ~ Told(i, Switch) \/ ~ Told(j, Switch)
    <3>1. ASSUME ThroughSwitch(i, j)  PROVE Switch \in Ends(i) /\ Switch \in Ends(j)
      BY <3>1 DEF ThroughSwitch, Ends
    <3>2. ~ (i \in on_switch /\ j \in on_switch)
      BY <1>1, <2>2 DEF Fabric
    <3>3. QED  BY <1>3, <3>1, <3>2 DEF Swept
  <2>6. \A d : (Answers(d)' <=> Answers(d)) /\ \A far : Told(d, far)' <=> Told(d, far)
    BY <1>1, SameMachine
  <2>7. RefusalIsFounded'
    <3>1. \A d \in Group' : Answers(d)'
      BY <1>2, <1>3, <2>6 DEF Swept
    <3>2. (DirectlyJoined(i, j)' <=> DirectlyJoined(i, j)) /\ (ThroughSwitch(i, j)' <=> ThroughSwitch(i, j))
      BY <1>1 DEF DirectlyJoined, ThroughSwitch
    <3>3. DirectlyJoined(i, j)' => ~ Told(i, j)' /\ ~ Told(j, i)'
      BY <2>4, <2>6, <3>2
    <3>4. ThroughSwitch(i, j)' => ~ Told(i, Switch)' \/ ~ Told(j, Switch)'
      BY <2>5, <2>6, <3>2
    <3>5. QED  BY <2>3, <3>1, <3>3, <3>4 DEF RefusalIsFounded
  <2>8. Complete' /\ PassIsFounded'
    BY <2>3 DEF Complete, PassIsFounded
  <2>9. QED  BY <1>4, <1>5, <2>7, <2>8 DEF IInv
<1> QED
  BY <1>6, <1>7

LEMMA StutterPreserves == IInv /\ UNCHANGED vars => IInv'
<1> SUFFICES ASSUME IInv, UNCHANGED vars  PROVE IInv'
  OBVIOUS
<1> USE DEF vars
<1>1. Group' = Group /\ machine' = machine
  BY DEF Group
<1>2. \A e : Ends(e)' = Ends(e) /\ (Answers(e)' <=> Answers(e)) /\ \A far : Told(e, far)' <=> Told(e, far)
  BY <1>1, SameMachine
<1>3. Ranges'
  BY <1>1 DEF IInv, Ranges
<1>4. Sound'
  BY <1>1 DEF IInv, Sound, DirectlyJoined, ThroughSwitch
<1>5. Complete'
  BY <1>1, <1>2 DEF IInv, Complete, Swept
<1>6. RefusalIsFounded'
  BY <1>1, <1>2 DEF IInv, RefusalIsFounded, DirectlyJoined, ThroughSwitch
<1>7. PassIsFounded'
  BY <1>1, <1>2, ZenonT(60) DEF IInv, PassIsFounded, DirectlyJoined, ThroughSwitch
<1> QED
  BY <1>3, <1>4, <1>5, <1>6, <1>7 DEF IInv

LEMMA Inductive == IInv /\ [Next]_vars => IInv'
<1> SUFFICES ASSUME IInv, [Next]_vars  PROVE IInv'
  OBVIOUS
<1>1. CASE Skip
  BY <1>1, SkipPreserves
<1>2. CASE Begin
  BY <1>2, BeginPreserves
<1>3. CASE Sweep
  BY <1>3, SweepPreserves
<1>4. CASE Decide
  BY <1>4, DecidePreserves
<1>5. CASE Rest \/ UNCHANGED vars
  BY <1>5, StutterPreserves DEF Rest
<1> QED
  BY <1>1, <1>2, <1>3, <1>4, <1>5 DEF Next

LEMMA Invariance == Spec => []IInv
BY InitHolds, Inductive, PTL DEF Spec

\* check_nvlink refuses a group only over a pair of which NVML, having answered
\* for every device, told no way they are joined: whatever the wiring, the order
\* of the ranks and the link ends it withholds.
THEOREM RefusalFounded == Spec => []RefusalIsFounded
<1>1. IInv => RefusalIsFounded
  BY DEF IInv
<1> QED
  BY Invariance, <1>1, PTL

\* A group passes only with every pair of its devices joined, or when NVML is
\* missing, has no handle for one of them, or had no answer for one at all.
THEOREM PassFounded == Spec => []PassIsFounded
<1>1. IInv => PassIsFounded
  BY DEF IInv
<1> QED
  BY Invariance, <1>1, PTL
=============================================================================
