---------------------------- MODULE A2APlanProofs ----------------------------
(***************************************************************************)
(* Where the bytes of a call go, for every world size, every call whose    *)
(* ranks agree on it, and every alignment and width of the integers.       *)
(*                                                                         *)
(* The invariant says that what a rank has planned is the plan for the     *)
(* call, and that the windows hold what the plans so far write.  All the   *)
(* rest is arithmetic about one plan, since the ranks compute one geometry *)
(* from what each is handed (OneGeometry).  Between rank q, which holds    *)
(* sequence rows, and rank p, which holds heads, a copy moves strips: of   *)
(* each batch element and each of q's rows, p's heads, which lie together  *)
(* in both tensors.  Byte i of a strip has one position in the tensor by   *)
(* heads (InHeads) and one in the tensor by rows (InRows), however the     *)
(* copies are batched.  A mode 0 writes the first from the second, a mode  *)
(* 1 and the backward of a mode 0 the reverse.                             *)
(***************************************************************************)
EXTENDS A2APlan, FiniteSetTheorems, TLAPS

------------------------------------------------------------------------------
(* Numbers. *)

\* A product grows with either factor.
LEMMA ProductLe ==
    ASSUME NEW a \in Nat, NEW b \in Nat, NEW c \in Nat, NEW d \in Nat, a <= c, b <= d
    PROVE  a * b \in Nat /\ c * d \in Nat /\ a * b <= c * d
<1>1. PICK x \in Nat : c = a + x
  <2>1. c - a \in Nat /\ c = a + (c - a)
    OBVIOUS
  <2>2. QED  BY <2>1
<1>2. PICK y \in Nat : d = b + y
  <2>1. d - b \in Nat /\ d = b + (d - b)
    OBVIOUS
  <2>2. QED  BY <2>1
<1>3. c * d = a * b + (a * y + x * b + x * y)
  BY <1>1, <1>2
<1>4. a * y \in Nat /\ x * b \in Nat /\ x * y \in Nat /\ a * b \in Nat
  OBVIOUS
<1>5. QED
  BY <1>3, <1>4

\* The j-th of n in the k-th row of b is one of b * n.
LEMMA RowMajor ==
    ASSUME NEW k \in Nat, NEW b \in Nat, NEW j \in Nat, NEW n \in Nat, k < b, j < n
    PROVE  k * n + j \in Nat /\ b * n \in Nat /\ k * n + j < b * n
<1>1. (k + 1) * n <= b * n /\ b * n \in Nat /\ k * n \in Nat
  BY ProductLe
<1>2. (k + 1) * n = k * n + n
  OBVIOUS
<1>3. QED
  BY <1>1, <1>2

\* Every number is in some row ...
LEMMA RowOf ==
    ASSUME NEW a \in Nat, NEW n \in Nat \ {0}
    PROVE  \E k \in Nat, j \in 0 .. n - 1 : a = k * n + j
<1>1. PICK k : k = a \div n
  OBVIOUS
<1>2. k \in Int
  BY <1>1
<1>3. PICK j \in Int : j = a % n /\ 0 <= j /\ j < n
  OBVIOUS
<1>4. a = k * n + j
  BY <1>1, <1>3
<1>5. ASSUME k < 0  PROVE FALSE
  <2>1. PICK x \in Nat : k = -1 - x
    <3>1. -1 - k \in Nat /\ k = -1 - (-1 - k)
      BY <1>2, <1>5
    <3>2. QED  BY <3>1
  <2>2. k * n = (0 - n) - x * n
    BY <2>1
  <2>3. x * n \in Nat
    OBVIOUS
  <2>4. QED  BY <1>3, <1>4, <2>2, <2>3
<1>6. k \in Nat /\ j \in 0 .. n - 1
  BY <1>2, <1>3, <1>5
<1>7. QED
  BY <1>4, <1>6, Zenon

\* a is the j-th in the k-th of b rows of n.
InRow(a, b, n) == \E k \in 0 .. b - 1, j \in 0 .. n - 1 : a = k * n + j

\* ... and a number below b * n in a row below b.
LEMMA RowBelow ==
    ASSUME NEW b \in Nat, NEW n \in Nat, NEW a \in Nat, a < b * n
    PROVE  InRow(a, b, n)
<1>1. a < b * n /\ b * n \in Nat
  OBVIOUS
<1>2. n # 0
  BY <1>1
<1>3. PICK k \in Nat, j \in 0 .. n - 1 : a = k * n + j
  BY <1>2, RowOf
<1>4. ASSUME b <= k  PROVE FALSE
  <2>1. b * n <= k * n
    BY <1>4, ProductLe
  <2>2. k * n \in Nat
    OBVIOUS
  <2>3. QED  BY <1>1, <1>3, <2>1, <2>2
<1>5. QED
  BY <1>3, <1>4 DEF InRow

\* A set of numbers that is not empty has a least one.
LEMMA LeastNat ==
    ASSUME NEW S \in SUBSET Nat, S # {}
    PROVE  \E x \in S : \A y \in S : x <= y
<1>1. PICK top \in S : TRUE
  OBVIOUS
<1> DEFINE low == S \cap 0..top
           upto(y) == S \cap 0..y
           family == {upto(y) : y \in low}
<1>2. \E T \in family : \A U \in family : ~ (<<U, T>> \in StrictSubsetOrdering(low))
  <2>1. IsFiniteSet(low)
    <3>1. IsFiniteSet(0..top)
      BY FS_Interval
    <3>2. QED  BY <3>1, FS_Subset
  <2>2. family \subseteq SUBSET low
    BY <1>1
  <2>3. upto(top) \in family
    BY <1>1
  <2>4. IsWellFoundedOn(StrictSubsetOrdering(low), SUBSET low)
    BY <2>1, FS_StrictSubsetOrderingWellFounded, FS_FiniteSubsetsOfFinite
  <2> HIDE DEF family, low, upto
  <2>5. QED  BY <2>2, <2>3, <2>4, WFMin
<1>3. PICK x \in low : \A U \in family : ~ (<<U, upto(x)>> \in StrictSubsetOrdering(low))
  BY <1>2
<1>4. ASSUME NEW y \in S, y < x  PROVE FALSE
  <2>1. x \in Nat /\ y \in Nat /\ x <= top /\ y \in low /\ top \in Nat
    BY <1>1, <1>4
  <2>2. upto(y) \in family
    BY <2>1
  <2>3. upto(y) \subseteq upto(x) /\ x \in upto(x) /\ x \notin upto(y) /\ upto(x) \subseteq low
    BY <1>4, <2>1
  <2>4. <<upto(y), upto(x)>> \in StrictSubsetOrdering(low)
    BY <2>3 DEF StrictSubsetOrdering
  <2>5. QED  BY <1>3, <2>2, <2>4
<1>5. QED  BY <1>3, <1>4

\* What holds of 0 and of each next number holds of all up to n.
LEMMA UpTo ==
    ASSUME NEW n \in Nat, NEW S, 0 \in S, \A q \in 0 .. n - 1 : q \in S => q + 1 \in S
    PROVE  \A q \in 0 .. n : q \in S
<1>1. PICK T : T = {q \in 0 .. n : q \notin S}
  OBVIOUS
<1>2. SUFFICES ASSUME T # {}  PROVE FALSE
  BY <1>1
<1>3. T \in SUBSET Nat
  BY <1>1
<1>4. PICK x \in T : \A y \in T : x <= y
  BY <1>2, <1>3, LeastNat
<1>5. x \in 0 .. n /\ x \notin S /\ x # 0
  BY <1>1, <1>4
<1>6. PICK y : y = x - 1
  OBVIOUS
<1>7. y \in 0 .. n - 1 /\ y + 1 = x /\ y < x
  BY <1>5, <1>6
<1>8. y \notin T
  BY <1>4, <1>5, <1>7
<1>9. y \in S
  BY <1>1, <1>7, <1>8
<1>10. QED
  BY <1>5, <1>7, <1>9

\* The greatest of a set of numbers that have a bound.
LEMMA GreatestIs ==
    ASSUME NEW S \in SUBSET Nat, S # {}, NEW n \in Nat, \A x \in S : x <= n
    PROVE  Max(S) \in S /\ \A x \in S : x <= Max(S)
<1>1. PICK T : T = {n - x : x \in S}
  OBVIOUS
<1>2. T \in SUBSET Nat /\ T # {}
  <2>1. ASSUME NEW x \in S  PROVE n - x \in Nat
    OBVIOUS
  <2>2. QED  BY <1>1, <2>1, Zenon
<1>3. PICK y \in T : \A z \in T : y <= z
  BY <1>2, LeastNat
<1>4. PICK x \in S : y = n - x
  BY <1>1, <1>3
<1>5. ASSUME NEW z \in S  PROVE z <= x
  <2>1. n - z \in T
    BY <1>1
  <2>2. QED  BY <1>3, <1>4, <2>1
<1>6. QED
  BY <1>5 DEF Max

------------------------------------------------------------------------------
(* Prefix sums. *)


PrefixUpTo(split, n, f) ==
    f = [q \in 0 .. n |-> IF q = 0 THEN 0 ELSE f[q - 1] + split[q - 1]]

\* There is a function that sums the first q, for every q up to n.
LEMMA PrefixExists ==
    ASSUME NEW split, NEW n \in Nat
    PROVE  \E f : PrefixUpTo(split, n, f)
<1>1. PICK S : S = {m \in 0 .. n : \E f : PrefixUpTo(split, m, f)}
  OBVIOUS
<1>2. 0 \in S
  <2>1. PICK f : f = [q \in 0 .. 0 |-> 0]
    OBVIOUS
  <2>2. PrefixUpTo(split, 0, f)
    BY <2>1 DEF PrefixUpTo
  <2>3. QED  BY <1>1, <2>2
<1>3. ASSUME NEW m \in 0 .. n - 1, m \in S  PROVE m + 1 \in S
  <2>1. PICK f : PrefixUpTo(split, m, f)
    BY <1>1, <1>3
  <2>2. PICK h : h = [q \in 0 .. m + 1 |-> IF q = m + 1 THEN f[m] + split[m] ELSE f[q]]
    OBVIOUS
  <2>3. DOMAIN h = 0 .. m + 1 /\ h[m + 1] = f[m] + split[m] /\ \A q \in 0 .. m : h[q] = f[q]
    BY <2>2
  <2>4. ASSUME NEW q \in 0 .. m + 1
        PROVE  h[q] = IF q = 0 THEN 0 ELSE h[q - 1] + split[q - 1]
    <3>1. CASE q = m + 1
      BY <2>3, <3>1
    <3>2. CASE q \in 0 .. m
      <4>1. f[q] = IF q = 0 THEN 0 ELSE f[q - 1] + split[q - 1]
        BY <2>1, <3>2 DEF PrefixUpTo
      <4>2. q = 0 \/ q - 1 \in 0 .. m
        BY <3>2
      <4>3. QED  BY <2>3, <3>2, <4>1, <4>2
    <3>3. QED  BY <3>1, <3>2
  <2>5. PrefixUpTo(split, m + 1, h)
    BY <2>2, <2>4 DEF PrefixUpTo
  <2>6. QED  BY <1>1, <2>5
<1>4. n \in S
  BY <1>2, <1>3, UpTo
<1>5. QED
  BY <1>1, <1>4

\* What exclusive_prefix_sum returns.
LEMMA PrefixIs ==
    ASSUME NEW split \in [Ranks -> Nat]
    PROVE  /\ Prefix(split)[0] = 0
           /\ \A q \in Ranks : Prefix(split)[q + 1] = Prefix(split)[q] + split[q]
           /\ \A q \in 0 .. WorldSize : Prefix(split)[q] \in Nat
<1>1. WorldSize \in Nat /\ WorldSize # 0
  BY PlanAssumption
<1>2. PICK f : f = Prefix(split)
  OBVIOUS
<1>3. PrefixUpTo(split, WorldSize, f)
  <2>1. f = CHOOSE h : PrefixUpTo(split, WorldSize, h)
    BY <1>2 DEF Prefix, PrefixUpTo
  <2>2. QED  BY <1>1, <2>1, PrefixExists
<1>4. f[0] = 0 /\ \A q \in Ranks : f[q + 1] = f[q] + split[q]
  <2>1. f[0] = 0
    BY <1>1, <1>3 DEF PrefixUpTo
  <2>2. ASSUME NEW q \in Ranks  PROVE f[q + 1] = f[q] + split[q]
    <3>1. q + 1 \in 0 .. WorldSize /\ q + 1 # 0 /\ (q + 1) - 1 = q
      BY <1>1 DEF Ranks
    <3>2. f[q + 1] = f[(q + 1) - 1] + split[(q + 1) - 1]
      BY <1>3, <3>1 DEF PrefixUpTo
    <3>3. QED  BY <3>1, <3>2
  <2>3. QED  BY <2>1, <2>2
<1>5. ASSUME NEW q \in 0 .. WorldSize  PROVE f[q] \in Nat
  <2>1. PICK S : S = {m \in 0 .. WorldSize : f[m] \in Nat}
    OBVIOUS
  <2>2. 0 \in S
    BY <1>1, <1>4, <2>1
  <2>3. ASSUME NEW m \in 0 .. WorldSize - 1, m \in S  PROVE m + 1 \in S
    <3>1. f[m] \in Nat /\ split[m] \in Nat /\ f[m + 1] = f[m] + split[m]
      BY <1>4, <2>1, <2>3 DEF Ranks
    <3>2. QED  BY <1>1, <2>1, <3>1
  <2>4. QED  BY <1>1, <2>1, <2>2, <2>3, UpTo
<1>6. QED
  BY <1>2, <1>4, <1>5

\* The part of a rank lies inside the whole.
LEMMA PartInside ==
    ASSUME NEW split \in [Ranks -> Nat], NEW r \in Ranks
    PROVE  /\ split[r] \in Nat /\ Offset(split, r) \in Nat /\ Prefix(split)[WorldSize] \in Nat
           /\ Offset(split, r) + split[r] <= Prefix(split)[WorldSize]
<1>1. WorldSize \in Nat /\ WorldSize # 0 /\ r \in 0 .. WorldSize - 1 /\ split[r] \in Nat
  BY PlanAssumption DEF Ranks
<1>2. PICK f : f = Prefix(split)
  OBVIOUS
<1>3. /\ \A q \in 0 .. WorldSize - 1 : f[q + 1] = f[q] + split[q] /\ split[q] \in Nat
      /\ \A q \in 0 .. WorldSize : f[q] \in Nat
  BY <1>2, PrefixIs DEF Ranks
<1>4. PICK S : S = {m \in 0 .. WorldSize : m > r => f[r + 1] <= f[m]}
  OBVIOUS
<1>5. 0 \in S
  BY <1>1, <1>4
<1>6. ASSUME NEW m \in 0 .. WorldSize - 1, m \in S  PROVE m + 1 \in S
  <2>1. m + 1 \in 0 .. WorldSize /\ f[m + 1] \in Nat /\ f[m] \in Nat /\ f[m + 1] = f[m] + split[m] /\ split[m] \in Nat
    BY <1>1, <1>3
  <2>2. f[r + 1] \in Nat
    BY <1>1, <1>3
  <2>3. CASE m > r
    BY <1>4, <1>6, <2>1, <2>2, <2>3
  <2>4. CASE m = r
    BY <1>4, <2>1, <2>2, <2>4
  <2>5. CASE m < r
    BY <1>1, <1>4, <2>1, <2>5
  <2>6. QED  BY <1>1, <2>3, <2>4, <2>5
<1>7. WorldSize \in S
  BY <1>1, <1>5, <1>6, UpTo
<1>8. f[r + 1] <= f[WorldSize] /\ f[r] \in Nat /\ f[WorldSize] \in Nat /\ f[r + 1] = f[r] + split[r]
  BY <1>1, <1>3, <1>4, <1>7
<1>9. QED
  BY <1>1, <1>2, <1>8 DEF Offset

\* The sum of equal parts.
LEMMA EvenParts ==
    ASSUME NEW n \in Nat, NEW split \in [Ranks -> Nat], \A q \in Ranks : split[q] = n
    PROVE  Prefix(split)[WorldSize] = WorldSize * n
<1>1. WorldSize \in Nat /\ WorldSize # 0
  BY PlanAssumption
<1>2. PICK f : f = Prefix(split)
  OBVIOUS
<1>3. f[0] = 0 /\ \A q \in 0 .. WorldSize - 1 : f[q + 1] = f[q] + n
  BY <1>2, PrefixIs DEF Ranks
<1>4. PICK S : S = {m \in 0 .. WorldSize : f[m] = m * n}
  OBVIOUS
<1>5. 0 \in S
  BY <1>1, <1>3, <1>4
<1>6. ASSUME NEW m \in 0 .. WorldSize - 1, m \in S  PROVE m + 1 \in S
  <2>1. m + 1 \in 0 .. WorldSize /\ f[m + 1] = m * n + n
    BY <1>1, <1>3, <1>4, <1>6
  <2>2. m * n + n = (m + 1) * n
    OBVIOUS
  <2>3. QED  BY <1>4, <2>1, <2>2
<1>7. WorldSize \in S
  BY <1>1, <1>5, <1>6, UpTo
<1>8. QED
  BY <1>2, <1>4, <1>7

------------------------------------------------------------------------------
(* Copies. *)

CopyType ==
    [peer : Ranks, src : Nat, srcPitch : Nat \ {0}, dst : Nat, dstPitch : Nat \ {0}, width : Nat,
     rows : Nat, depth : Nat, srcSlice : Nat, dstSlice : Nat]

\* Whole rows are what a stride of whole rows has.
LEMMA Whole ==
    ASSUME NEW slice \in Nat, NEW pitch \in Nat \ {0}, slice % pitch = 0
    PROVE  pitch * (slice \div pitch) = slice
<1>1. PICK q : q = slice \div pitch
  OBVIOUS
<1>2. slice = pitch * q
  BY <1>1
<1>3. QED
  BY <1>1, <1>2, Zenon

\* The i-th byte of the j-th row of the k-th block, in the copy's two places.
ByteAt(o, srcStride, dstStride, k, j, i) ==
    <<o.dst + k * dstStride + j * o.dstPitch + i, o.src + k * srcStride + j * o.srcPitch + i>>

\* A byte of n blocks of rows, each so far behind the one before.
Spread(o, n, srcStride, dstStride, m) ==
    \E k \in 0 .. n - 1, j \in 0 .. o.rows - 1, i \in 0 .. o.width - 1 :
        m = ByteAt(o, srcStride, dstStride, k, j, i)

\* The bytes a copy moves, when its slices are whole rows.
LEMMA MovesAre ==
    ASSUME NEW o \in CopyType, o.srcSlice % o.srcPitch = 0, o.dstSlice % o.dstPitch = 0, NEW m
    PROVE  m \in Moves(o) <=> Spread(o, o.depth, o.srcSlice, o.dstSlice, m)
<1> DEFINE X == o.srcPitch * (o.srcSlice \div o.srcPitch)
           Y == o.dstPitch * (o.dstSlice \div o.dstPitch)
<1>1. X = o.srcSlice /\ Y = o.dstSlice
  BY Whole DEF CopyType
<1>2. m \in Moves(o) <=>
          \E k \in 0 .. o.depth - 1, j \in 0 .. o.rows - 1, i \in 0 .. o.width - 1 :
              m = ByteAt(o, X, Y, k, j, i)
  BY DEF Moves, ByteAt
<1> HIDE DEF X, Y
<1>3. \A k, j, i : ByteAt(o, X, Y, k, j, i) = ByteAt(o, o.srcSlice, o.dstSlice, k, j, i)
  BY <1>1, Zenon
<1>4. (\E k \in 0 .. o.depth - 1, j \in 0 .. o.rows - 1, i \in 0 .. o.width - 1 :
              m = ByteAt(o, X, Y, k, j, i))
      <=> \E k \in 0 .. o.depth - 1, j \in 0 .. o.rows - 1, i \in 0 .. o.width - 1 :
              m = ByteAt(o, o.srcSlice, o.dstSlice, k, j, i)
  BY <1>3
<1>5. QED
  BY <1>2, <1>4, Zenon DEF Spread

\* The copy of one batch element.
Shifted(op, x, y) == [op EXCEPT !.src = @ + x, !.dst = @ + y]

\* What of it differs from the copy it is made of.
LEMMA ShiftedIs ==
    ASSUME NEW op \in CopyType, op.depth = 1, op.srcSlice = 0, op.dstSlice = 0, NEW x \in Nat, NEW y \in Nat
    PROVE  LET o == Shifted(op, x, y) IN
           /\ o \in CopyType /\ o.src = op.src + x /\ o.dst = op.dst + y
           /\ o.depth = 1 /\ o.srcSlice = 0 /\ o.dstSlice = 0
           /\ o.srcPitch = op.srcPitch /\ o.dstPitch = op.dstPitch /\ o.rows = op.rows /\ o.width = op.width
<1>1. op.src + x \in Nat /\ op.dst + y \in Nat
  BY DEF CopyType
<1>2. QED
  BY <1>1 DEF Shifted, CopyType

\* push_batched's copies, one or many, move the same bytes.
LEMMA BatchedMoves ==
    ASSUME call.b \in Nat \ {0},
           NEW op \in CopyType, op.depth = 1, op.srcSlice = 0, op.dstSlice = 0,
           NEW srcStride \in Nat, NEW dstStride \in Nat, NEW m
    PROVE  (\E o \in Batched(op, srcStride, dstStride) : m \in Moves(o)) <=> Spread(op, call.b, srcStride, dstStride, m)

<1> DEFINE at(n) == Shifted(op, n * srcStride, n * dstStride)
           deep == [op EXCEPT !.depth = call.b, !.srcSlice = srcStride, !.dstSlice = dstStride]
<1>1. \/ /\ srcStride % op.srcPitch = 0 /\ dstStride % op.dstPitch = 0
         /\ Batched(op, srcStride, dstStride) = {deep}
      \/ Batched(op, srcStride, dstStride) = {at(n) : n \in 0 .. call.b - 1}
  BY Zenon DEF Batched, Shifted
<1>2. CASE /\ srcStride % op.srcPitch = 0 /\ dstStride % op.dstPitch = 0
           /\ Batched(op, srcStride, dstStride) = {deep}
  <2>1. /\ deep \in CopyType /\ deep.depth = call.b /\ deep.srcSlice = srcStride /\ deep.dstSlice = dstStride
        /\ deep.src = op.src /\ deep.dst = op.dst /\ deep.srcPitch = op.srcPitch /\ deep.dstPitch = op.dstPitch
        /\ deep.rows = op.rows /\ deep.width = op.width
    BY DEF CopyType
  <2> HIDE DEF deep
  <2>2. m \in Moves(deep) <=> Spread(deep, call.b, srcStride, dstStride, m)
    BY <1>2, <2>1, MovesAre
  <2>3. Spread(deep, call.b, srcStride, dstStride, m) <=> Spread(op, call.b, srcStride, dstStride, m)
    BY <2>1, Zenon DEF Spread, ByteAt
  <2>4. QED  BY <1>2, <2>2, <2>3
<1>3. CASE Batched(op, srcStride, dstStride) = {at(n) : n \in 0 .. call.b - 1}
  <2>1. ASSUME NEW n \in 0 .. call.b - 1
        PROVE  m \in Moves(at(n)) <=>
                  \E j \in 0 .. op.rows - 1, i \in 0 .. op.width - 1 :
                      m = ByteAt(op, srcStride, dstStride, n, j, i)
    <3>1. PICK o, x, y : x = n * srcStride /\ y = n * dstStride /\ o = at(n) /\ o = Shifted(op, x, y)
      OBVIOUS
    <3>2. x \in Nat /\ y \in Nat /\ o = Shifted(op, x, y)
      BY <3>1
    <3>3. /\ o \in CopyType /\ o.depth = 1 /\ o.srcSlice = 0 /\ o.dstSlice = 0
          /\ o.src = op.src + x /\ o.dst = op.dst + y
          /\ o.srcPitch = op.srcPitch /\ o.dstPitch = op.dstPitch /\ o.rows = op.rows /\ o.width = op.width
      BY <3>2, ShiftedIs, ZenonT(60)
    <3>4. o.srcSlice % o.srcPitch = 0 /\ o.dstSlice % o.dstPitch = 0
      <4>1. \A pitch \in Nat \ {0} : 0 % pitch = 0
        OBVIOUS
      <4>2. QED  BY <3>3, <4>1 DEF CopyType
    <3>5. m \in Moves(o) <=> Spread(o, 1, 0, 0, m)
      BY <3>3, <3>4, MovesAre
    <3>6. 0 .. 1 - 1 = {0}
      OBVIOUS
    <3>7. ASSUME NEW j \in 0 .. o.rows - 1, NEW i \in 0 .. o.width - 1
          PROVE  ByteAt(o, 0, 0, 0, j, i) = ByteAt(op, srcStride, dstStride, n, j, i)
      <4>1. o.dst + 0 * 0 = op.dst + n * dstStride /\ o.src + 0 * 0 = op.src + n * srcStride
        BY <3>1, <3>3 DEF CopyType
      <4>2. QED  BY <3>3, <4>1, Zenon DEF ByteAt
    <3>8. m \in Moves(o) <=>
              \E j \in 0 .. o.rows - 1, i \in 0 .. o.width - 1 : m = ByteAt(o, 0, 0, 0, j, i)
      BY <3>5, <3>6, Zenon DEF Spread
    <3>9. o.rows = op.rows /\ o.width = op.width
      BY <3>3
    <3> HIDE DEF at
    <3>10. QED  BY <3>1, <3>7, <3>8, <3>9, ZenonT(60)
  <2> HIDE DEF at
  <2>2. (\E o \in Batched(op, srcStride, dstStride) : m \in Moves(o)) <=> \E n \in 0 .. call.b - 1 : m \in Moves(at(n))
    BY <1>3, Zenon
  <2>3. QED  BY <2>1, <2>2, Zenon DEF Spread
<1>4. QED
  BY <1>1, <1>2, <1>3

\* The first byte of a copy that has one.
LEMMA FirstByte ==
    ASSUME NEW o \in CopyType, o.depth # 0, o.rows # 0, o.width # 0
    PROVE  <<o.dst, o.src>> \in Moves(o)
<1>1. PICK x, y : /\ x = o.srcPitch * (o.srcSlice \div o.srcPitch)
                  /\ y = o.dstPitch * (o.dstSlice \div o.dstPitch)
  OBVIOUS
<1>2. x \in Int /\ y \in Int
  <2>1. \A n \in Nat, pitch \in Nat \ {0} : n \div pitch \in Int
    OBVIOUS
  <2>2. PICK n, a \in Int, b, c \in Int :
           n = o.srcPitch /\ a = o.srcSlice \div o.srcPitch /\ b = o.dstPitch /\ c = o.dstSlice \div o.dstPitch
    BY <2>1 DEF CopyType
  <2>3. n \in Int /\ b \in Int /\ x = n * a /\ y = b * c
    BY <1>1, <2>2 DEF CopyType
  <2>4. QED  BY <2>3
<1>3. 0 \in 0 .. o.depth - 1 /\ 0 \in 0 .. o.rows - 1 /\ 0 \in 0 .. o.width - 1
  BY DEF CopyType
<1>4. o.dst + 0 * y + 0 * o.dstPitch + 0 = o.dst /\ o.src + 0 * x + 0 * o.srcPitch + 0 = o.src
  BY <1>2 DEF CopyType
<1>5. <<o.dst, o.src>> = ByteAt(o, x, y, 0, 0, 0)
  BY <1>4, Zenon DEF ByteAt
<1>6. \A m : (\E k \in 0 .. o.depth - 1, j \in 0 .. o.rows - 1, i \in 0 .. o.width - 1 : m = ByteAt(o, x, y, k, j, i))
             => m \in Moves(o)
  BY <1>1 DEF Moves, ByteAt
<1>7. QED
  BY <1>3, <1>5, <1>6

\* A batched copy moves the byte its first fields tell of.
LEMMA BatchedFirst ==
    ASSUME call.b \in Nat \ {0},
           NEW op \in CopyType, op.depth = 1, op.srcSlice = 0, op.dstSlice = 0, op.rows # 0, op.width # 0,
           NEW x \in Nat, NEW y \in Nat, NEW o \in Batched(op, x, y)
    PROVE  <<o.dst, o.src>> \in Moves(o)
<1> DEFINE at(n) == Shifted(op, n * x, n * y)
           deep == [op EXCEPT !.depth = call.b, !.srcSlice = x, !.dstSlice = y]
<1>1. o = deep \/ o \in {at(n) : n \in 0 .. call.b - 1}
  BY Zenon DEF Batched, Shifted
<1>2. CASE o = deep
  <2>1. o \in CopyType /\ o.depth # 0 /\ o.rows # 0 /\ o.width # 0
    BY <1>2 DEF CopyType
  <2>2. QED  BY <2>1, FirstByte
<1>3. CASE o \in {at(n) : n \in 0 .. call.b - 1}
  <2>1. PICK n \in Nat : o = Shifted(op, n * x, n * y)
    BY <1>3
  <2>2. PICK a \in Nat, b \in Nat : a = n * x /\ b = n * y
    OBVIOUS
  <2>3. o = Shifted(op, a, b)
    BY <2>1, <2>2, Zenon
  <2>4. o \in CopyType /\ o.depth = 1 /\ o.rows = op.rows /\ o.width = op.width
    BY <2>3, ShiftedIs, ZenonT(60)
  <2>5. QED  BY <2>4, FirstByte
<1>4. QED
  BY <1>1, <1>2, <1>3

------------------------------------------------------------------------------
(* Strips: what a rank q that holds rows and a rank p that holds heads share. *)

GeometryType == [seq : [Ranks -> Nat], head : [Ranks -> Nat]]

\* A byte of the strip: in p's tensor of all rows and its own heads ...
InHeads(g, q, p, k, s, i) == (k * SeqTotal(g) + (Offset(g.seq, q) + s)) * (g.head[p] * Bytes) + i

\* ... and in q's tensor of its own rows and all heads.
InRows(g, q, p, k, s, i) ==
    (k * g.seq[q] + s) * (HeadTotal(g) * Bytes) + (Offset(g.head, p) * Bytes + i)

Strip(g, q, p, m) ==
    \E k \in 0 .. call.b - 1, s \in 0 .. g.seq[q] - 1, i \in 0 .. g.head[p] * Bytes - 1 :
        m = <<InHeads(g, q, p, k, s, i), InRows(g, q, p, k, s, i)>>

Reverse(g, q, p, m) ==
    \E k \in 0 .. call.b - 1, s \in 0 .. g.seq[q] - 1, i \in 0 .. g.head[p] * Bytes - 1 :
        m = <<InRows(g, q, p, k, s, i), InHeads(g, q, p, k, s, i)>>

\* The numbers of a geometry.
LEMMA GeometryNumbers ==
    ASSUME NEW g \in GeometryType, NEW r \in Ranks
    PROVE  /\ g.seq[r] \in Nat /\ Offset(g.seq, r) \in Nat /\ SeqTotal(g) \in Nat
           /\ Offset(g.seq, r) + g.seq[r] <= SeqTotal(g)
           /\ g.head[r] \in Nat /\ Offset(g.head, r) \in Nat /\ HeadTotal(g) \in Nat
           /\ Offset(g.head, r) + g.head[r] <= HeadTotal(g)
<1>1. g.seq \in [Ranks -> Nat] /\ g.head \in [Ranks -> Nat]
  BY DEF GeometryType
<1>2. QED
  BY <1>1, PartInside DEF SeqTotal, HeadTotal

\* Mode 0's copies from r to p move the strip ...
LEMMA ScatterMoves ==
    ASSUME call.b \in Nat \ {0}, Bytes \in Nat \ {0},
           NEW g \in GeometryType, NEW r \in Ranks, NEW p \in Ranks, NEW m
    PROVE  /\ (\E o \in Scatter(g, r, p) : m \in Moves(o)) <=> Strip(g, r, p, m)
           /\ \A o \in Scatter(g, r, p) : <<o.dst, o.src>> \in Moves(o)
<1>1. PICK n, offHeads, heads, rows, offRows, allRows, row, pitch :
         /\ n = g.head[p] /\ offHeads = Offset(g.head, p) /\ heads = HeadTotal(g)
         /\ rows = g.seq[r] /\ offRows = Offset(g.seq, r) /\ allRows = SeqTotal(g)
         /\ row = n * Bytes /\ pitch = heads * Bytes
  OBVIOUS
<1>2. /\ n \in Nat /\ offHeads \in Nat /\ heads \in Nat /\ rows \in Nat /\ offRows \in Nat /\ allRows \in Nat
      /\ offHeads + n <= heads
  BY <1>1, GeometryNumbers
<1>3. PICK bytes \in Nat \ {0} : bytes = Bytes
  OBVIOUS
<1>4. row \in Nat /\ pitch \in Nat
  BY <1>1, <1>2, <1>3
<1>5. CASE row = 0 \/ rows = 0
  <2>1. Scatter(g, r, p) = {}
    BY <1>1, <1>5 DEF Scatter
  <2>2. ~ Strip(g, r, p, m)
    BY <1>1, <1>5 DEF Strip
  <2>3. QED  BY <2>1, <2>2
<1>6. CASE row # 0 /\ rows # 0
  <2>1. PICK src, dst, srcStride, dstStride :
           /\ src = offHeads * bytes /\ dst = offRows * row
           /\ srcStride = rows * pitch /\ dstStride = allRows * row
    OBVIOUS
  <2>2. src \in Nat /\ dst \in Nat /\ srcStride \in Nat /\ dstStride \in Nat
    BY <1>2, <1>3, <1>4, <2>1
  <2>3. pitch # 0
    <3>1. n # 0
      BY <1>1, <1>3, <1>6
    <3>2. heads # 0
      BY <1>2, <3>1
    <3>3. QED  BY <1>1, <1>2, <1>3, <3>2
  <2>4. PICK op : op = Copy(p, src, pitch, dst, row, row, rows)
    OBVIOUS
  <2>5. /\ op \in CopyType /\ op.depth = 1 /\ op.srcSlice = 0 /\ op.dstSlice = 0
        /\ op.src = src /\ op.dst = dst /\ op.srcPitch = pitch /\ op.dstPitch = row
        /\ op.rows = rows /\ op.width = row
    BY <1>2, <1>4, <1>6, <2>2, <2>3, <2>4 DEF Copy, CopyType
  <2>6. Scatter(g, r, p) = Batched(op, srcStride, dstStride)
    <3>1. g.seq[r] * HeadTotal(g) * Bytes = srcStride
      BY <1>1, <1>2, <1>3, <2>1
    <3>2. QED  BY <1>1, <1>3, <1>6, <2>1, <2>4, <3>1, Zenon DEF Scatter
  <2>7. ASSUME NEW k \in 0 .. call.b - 1, NEW s \in 0 .. rows - 1, NEW i \in 0 .. row - 1
        PROVE  ByteAt(op, srcStride, dstStride, k, s, i) = <<InHeads(g, r, p, k, s, i), InRows(g, r, p, k, s, i)>>
    <3>1. k \in Nat /\ s \in Nat /\ i \in Nat
      BY <1>2, <1>4
    <3>2. offRows * row + k * (allRows * row) + s * row + i = (k * allRows + (offRows + s)) * row + i
      BY <1>2, <1>4, <3>1
    <3>3. offHeads * bytes + k * (rows * pitch) + s * pitch + i = (k * rows + s) * pitch + (offHeads * bytes + i)
      BY <1>2, <1>3, <1>4, <3>1
    <3>4. QED  BY <1>1, <1>3, <2>1, <2>5, <3>2, <3>3, Zenon DEF ByteAt, InHeads, InRows
  <2>8. Spread(op, call.b, srcStride, dstStride, m) <=> Strip(g, r, p, m)
    BY <1>1, <2>5, <2>7 DEF Spread, Strip
  <2>9. row # 0 /\ rows # 0
    BY <1>6
  <2>10. QED  BY <2>2, <2>5, <2>6, <2>8, <2>9, BatchedMoves, BatchedFirst
<1>7. QED
  BY <1>5, <1>6

\* ... and mode 1's, from r to p, the strip that p and r share, the other way.
LEMMA GatherMoves ==
    ASSUME call.b \in Nat \ {0}, Bytes \in Nat \ {0},
           NEW g \in GeometryType, NEW r \in Ranks, NEW p \in Ranks, NEW m
    PROVE  /\ (\E o \in Gather(g, r, p) : m \in Moves(o)) <=> Reverse(g, p, r, m)
           /\ \A o \in Gather(g, r, p) : <<o.dst, o.src>> \in Moves(o)
<1>1. PICK n, offHeads, heads, rows, offRows, allRows, row, pitch :
         /\ n = g.head[r] /\ offHeads = Offset(g.head, r) /\ heads = HeadTotal(g)
         /\ rows = g.seq[p] /\ offRows = Offset(g.seq, p) /\ allRows = SeqTotal(g)
         /\ row = n * Bytes /\ pitch = heads * Bytes
  OBVIOUS
<1>2. /\ n \in Nat /\ offHeads \in Nat /\ heads \in Nat /\ rows \in Nat /\ offRows \in Nat /\ allRows \in Nat
      /\ offHeads + n <= heads
  BY <1>1, GeometryNumbers
<1>3. PICK bytes \in Nat \ {0} : bytes = Bytes
  OBVIOUS
<1>4. row \in Nat /\ pitch \in Nat
  BY <1>1, <1>2, <1>3
<1>5. CASE row = 0 \/ rows = 0
  <2>1. Gather(g, r, p) = {}
    BY <1>1, <1>5 DEF Gather
  <2>2. ~ Reverse(g, p, r, m)
    BY <1>1, <1>5 DEF Reverse
  <2>3. QED  BY <2>1, <2>2
<1>6. CASE row # 0 /\ rows # 0
  <2>1. PICK src, dst, srcStride, dstStride :
           /\ src = offRows * row /\ dst = offHeads * bytes
           /\ srcStride = allRows * row /\ dstStride = rows * pitch
    OBVIOUS
  <2>2. src \in Nat /\ dst \in Nat /\ srcStride \in Nat /\ dstStride \in Nat
    BY <1>2, <1>3, <1>4, <2>1
  <2>3. pitch # 0
    <3>1. n # 0
      BY <1>1, <1>3, <1>6
    <3>2. heads # 0
      BY <1>2, <3>1
    <3>3. QED  BY <1>1, <1>2, <1>3, <3>2
  <2>4. PICK op : op = Copy(p, src, row, dst, pitch, row, rows)
    OBVIOUS
  <2>5. /\ op \in CopyType /\ op.depth = 1 /\ op.srcSlice = 0 /\ op.dstSlice = 0
        /\ op.src = src /\ op.dst = dst /\ op.srcPitch = row /\ op.dstPitch = pitch
        /\ op.rows = rows /\ op.width = row
    BY <1>2, <1>4, <1>6, <2>2, <2>3, <2>4 DEF Copy, CopyType
  <2>6. Gather(g, r, p) = Batched(op, srcStride, dstStride)
    <3>1. g.seq[p] * HeadTotal(g) * Bytes = dstStride
      BY <1>1, <1>2, <1>3, <2>1
    <3>2. QED  BY <1>1, <1>3, <1>6, <2>1, <2>4, <3>1, Zenon DEF Gather
  <2>7. ASSUME NEW k \in 0 .. call.b - 1, NEW s \in 0 .. rows - 1, NEW i \in 0 .. row - 1
        PROVE  ByteAt(op, srcStride, dstStride, k, s, i) = <<InRows(g, p, r, k, s, i), InHeads(g, p, r, k, s, i)>>
    <3>1. k \in Nat /\ s \in Nat /\ i \in Nat
      BY <1>2, <1>4
    <3>2. offRows * row + k * (allRows * row) + s * row + i = (k * allRows + (offRows + s)) * row + i
      BY <1>2, <1>4, <3>1
    <3>3. offHeads * bytes + k * (rows * pitch) + s * pitch + i = (k * rows + s) * pitch + (offHeads * bytes + i)
      BY <1>2, <1>3, <1>4, <3>1
    <3>4. QED  BY <1>1, <1>3, <2>1, <2>5, <3>2, <3>3, Zenon DEF ByteAt, InHeads, InRows
  <2>8. Spread(op, call.b, srcStride, dstStride, m) <=> Reverse(g, p, r, m)
    BY <1>1, <2>5, <2>7 DEF Spread, Reverse
  <2>9. row # 0 /\ rows # 0
    BY <1>6
  <2>10. QED  BY <2>2, <2>5, <2>6, <2>8, <2>9, BatchedMoves, BatchedFirst
<1>7. QED
  BY <1>5, <1>6

\* A byte of the strip lies inside either tensor.
LEMMA StripInside ==
    ASSUME call.b \in Nat \ {0}, Bytes \in Nat \ {0},
           NEW g \in GeometryType, NEW q \in Ranks, NEW p \in Ranks,
           NEW k \in 0 .. call.b - 1, NEW s \in 0 .. g.seq[q] - 1, NEW i \in 0 .. g.head[p] * Bytes - 1
    PROVE  /\ InHeads(g, q, p, k, s, i) \in Nat /\ InRows(g, q, p, k, s, i) \in Nat
           /\ InHeads(g, q, p, k, s, i) < (call.b * SeqTotal(g)) * (g.head[p] * Bytes)
           /\ InRows(g, q, p, k, s, i) < (call.b * g.seq[q]) * (HeadTotal(g) * Bytes)
<1>1. PICK n, offHeads, heads, rows, offRows, allRows, row, pitch :
         /\ n = g.head[p] /\ offHeads = Offset(g.head, p) /\ heads = HeadTotal(g)
         /\ rows = g.seq[q] /\ offRows = Offset(g.seq, q) /\ allRows = SeqTotal(g)
         /\ row = n * Bytes /\ pitch = heads * Bytes
  OBVIOUS
<1>2. /\ n \in Nat /\ offHeads \in Nat /\ heads \in Nat /\ rows \in Nat /\ offRows \in Nat /\ allRows \in Nat
      /\ offHeads + n <= heads /\ offRows + rows <= allRows
  BY <1>1, GeometryNumbers
<1>3. PICK bytes \in Nat \ {0}, b \in Nat : bytes = Bytes /\ b = call.b
  OBVIOUS
<1>4. row \in Nat /\ pitch \in Nat
  BY <1>1, <1>2, <1>3
<1>5. k \in Nat /\ k < b /\ s \in Nat /\ s < rows /\ i \in Nat /\ i < row
  BY <1>1, <1>2, <1>3, <1>4
<1>6. /\ k * allRows + (offRows + s) \in Nat /\ b * allRows \in Nat
      /\ k * allRows + (offRows + s) < b * allRows
  <2>1. PICK j \in Nat : j = offRows + s
    BY <1>2, <1>5
  <2>2. j < allRows
    BY <1>2, <1>5, <2>1
  <2>3. QED  BY <1>2, <1>3, <1>5, <2>1, <2>2, RowMajor
<1>7. k * rows + s \in Nat /\ b * rows \in Nat /\ k * rows + s < b * rows
  BY <1>2, <1>3, <1>5, RowMajor
<1>8. offHeads * bytes + i \in Nat /\ offHeads * bytes + i < pitch
  <2>1. (offHeads + n) * bytes <= heads * bytes /\ heads * bytes \in Nat
    BY <1>2, <1>3, ProductLe
  <2>2. (offHeads + n) * bytes = offHeads * bytes + n * bytes
    BY <1>2, <1>3
  <2>3. offHeads * bytes \in Nat /\ n * bytes = row /\ heads * bytes = pitch
    BY <1>1, <1>2, <1>3
  <2>4. QED  BY <1>4, <1>5, <2>1, <2>2, <2>3
<1>9. /\ (k * allRows + (offRows + s)) * row + i \in Nat
      /\ (k * allRows + (offRows + s)) * row + i < (b * allRows) * row
  BY <1>4, <1>5, <1>6, RowMajor
<1>10. /\ (k * rows + s) * pitch + (offHeads * bytes + i) \in Nat
       /\ (k * rows + s) * pitch + (offHeads * bytes + i) < (b * rows) * pitch
  BY <1>4, <1>7, <1>8, RowMajor
<1>11. QED
  BY <1>1, <1>3, <1>9, <1>10, Zenon DEF InHeads, InRows

\* Where the i-th byte of the head h of the row s of the batch element b is, in
\* p's output of a mode 0 and in q's input.
HeadsAt(g, q, p, b, s, h, i) == At(b, SeqTotal(g), Offset(g.seq, q) + s, g.head[p], h) + i
RowsAt(g, q, p, b, s, h, i) == At(b, g.seq[q], s, HeadTotal(g), Offset(g.head, p) + h) + i

SamePlaces(g, q, p, b, s, h, i) ==
    \A a : a = h * Bytes + i => /\ InHeads(g, q, p, b, s, a) = HeadsAt(g, q, p, b, s, h, i)
                               /\ InRows(g, q, p, b, s, a) = RowsAt(g, q, p, b, s, h, i)

\* The strip, byte for byte, is the elements both ranks hold.
LEMMA StripBytes ==
    ASSUME Bytes \in Nat \ {0}, NEW g \in GeometryType, NEW q \in Ranks, NEW p \in Ranks,
           NEW b \in Nat, NEW s \in Nat, NEW h \in Nat, NEW i \in Nat
    PROVE  SamePlaces(g, q, p, b, s, h, i)
<1>1. PICK n, offHeads, heads, rows, offRows, allRows :
         /\ n = g.head[p] /\ offHeads = Offset(g.head, p) /\ heads = HeadTotal(g)
         /\ rows = g.seq[q] /\ offRows = Offset(g.seq, q) /\ allRows = SeqTotal(g)
  OBVIOUS
<1>2. n \in Nat /\ offHeads \in Nat /\ heads \in Nat /\ rows \in Nat /\ offRows \in Nat /\ allRows \in Nat
  BY <1>1, GeometryNumbers
<1>3. PICK bytes \in Nat \ {0} : bytes = Bytes
  OBVIOUS
<1>4. (b * allRows + (offRows + s)) * (n * bytes) + (h * bytes + i)
      = ((b * allRows + (offRows + s)) * n + h) * bytes + i
  BY <1>2, <1>3
<1>5. (b * rows + s) * (heads * bytes) + (offHeads * bytes + (h * bytes + i))
      = ((b * rows + s) * heads + (offHeads + h)) * bytes + i
  BY <1>2, <1>3
<1>6. QED
  BY <1>1, <1>3, <1>4, <1>5, Zenon DEF SamePlaces, InHeads, InRows, HeadsAt, RowsAt, At

\* The element of p's output at y and that of q's input at z are the same.
Shared(g, q, p, y, z) ==
    \E b \in 0 .. call.b - 1, s \in 0 .. g.seq[q] - 1, h \in 0 .. g.head[p] - 1, i \in 0 .. Bytes - 1 :
        y = HeadsAt(g, q, p, b, s, h, i) /\ z = RowsAt(g, q, p, b, s, h, i)

\* A strip is, element by element, what the two tensors share.
LEMMA StripIs ==
    ASSUME call.b \in Nat \ {0}, Bytes \in Nat \ {0},
           NEW g \in GeometryType, NEW q \in Ranks, NEW p \in Ranks, NEW x, NEW y
    PROVE  Strip(g, q, p, <<x, y>>) <=> Shared(g, q, p, x, y)
<1>1. PICK n, rows : n = g.head[p] /\ rows = g.seq[q]
  OBVIOUS
<1>2. n \in Nat /\ rows \in Nat
  BY <1>1, GeometryNumbers
<1>3. ASSUME Strip(g, q, p, <<x, y>>)
      PROVE  Shared(g, q, p, x, y)
  <2>1. PICK b \in 0 .. call.b - 1, s \in 0 .. rows - 1, a \in 0 .. n * Bytes - 1 :
           x = InHeads(g, q, p, b, s, a) /\ y = InRows(g, q, p, b, s, a)
    BY <1>1, <1>3 DEF Strip
  <2>2. PICK h \in 0 .. n - 1, i \in 0 .. Bytes - 1 : a = h * Bytes + i
    <3>1. PICK bytes : bytes = Bytes
      OBVIOUS
    <3>2. bytes \in Nat /\ n \in Nat /\ a \in Nat /\ a < n * bytes
      BY <1>2, <2>1, <3>1
    <3>3. InRow(a, n, bytes)
      BY <3>2, RowBelow
    <3>4. QED  BY <3>1, <3>3 DEF InRow
  <2>3. b \in Nat /\ s \in Nat /\ h \in Nat /\ i \in Nat
    BY <1>2, <2>1, <2>2
  <2>4. x = HeadsAt(g, q, p, b, s, h, i) /\ y = RowsAt(g, q, p, b, s, h, i)
    <3>1. SamePlaces(g, q, p, b, s, h, i)
      BY <2>3, StripBytes
    <3>2. QED  BY <2>1, <2>2, <3>1, Zenon DEF SamePlaces
  <2>5. QED  BY <1>1, <2>1, <2>2, <2>4 DEF Shared
<1>4. ASSUME NEW b \in 0 .. call.b - 1, NEW s \in 0 .. rows - 1, NEW h \in 0 .. n - 1, NEW i \in 0 .. Bytes - 1,
             x = HeadsAt(g, q, p, b, s, h, i) /\ y = RowsAt(g, q, p, b, s, h, i)
      PROVE  Strip(g, q, p, <<x, y>>)
  <2>1. b \in Nat /\ s \in Nat /\ h \in Nat /\ i \in Nat
    BY <1>2
  <2>2. PICK a : a = h * Bytes + i
    OBVIOUS
  <2>3. a \in 0 .. n * Bytes - 1
    <3>1. h * Bytes + i \in Nat /\ n * Bytes \in Nat /\ h * Bytes + i < n * Bytes
      BY <1>2, <2>1, RowMajor
    <3>2. QED  BY <2>2, <3>1
  <2>4. x = InHeads(g, q, p, b, s, a) /\ y = InRows(g, q, p, b, s, a)
    <3>1. SamePlaces(g, q, p, b, s, h, i)
      BY <2>1, StripBytes
    <3>2. QED  BY <1>4, <2>2, <3>1, Zenon DEF SamePlaces
  <2>5. QED  BY <1>1, <2>3, <2>4 DEF Strip
<1>5. QED
  BY <1>1, <1>3, <1>4 DEF Shared

------------------------------------------------------------------------------
(* Geometries. *)

AnyGeometry == [seq : [Ranks -> Int], head : [Ranks -> Int]]

\* What a call without splits implies, and the splits of one that has them.
LEMMA GeometryIs ==
    ASSUME NEW c \in CallType, NEW r \in Ranks
    PROVE  LET g == Geometry(c, r) IN
           /\ g \in AnyGeometry
           /\ c.splits # {} => g \in c.splits
           /\ c.splits = {} => \A q \in Ranks :
                 /\ g.seq[q] = IF c.mode = 0 THEN c.own[r] ELSE c.total \div WorldSize
                 /\ g.head[q] = IF c.mode = 0 THEN c.total \div WorldSize ELSE c.own[r]
<1>1. /\ c.own \in [Ranks -> Nat] /\ c.total \in Nat /\ c.splits \subseteq AnyGeometry
      /\ WorldSize \in Nat \ {0} /\ c.own[r] \in Nat
  BY PlanAssumption DEF CallType, AnyGeometry
<1>2. CASE c.splits # {}
  <2>1. Geometry(c, r) = CHOOSE s \in c.splits : TRUE
    BY <1>2 DEF Geometry
  <2>2. Geometry(c, r) \in c.splits
    BY <1>2, <2>1
  <2>3. QED  BY <1>1, <1>2, <2>2
<1>3. CASE c.splits = {}
  <2>1. PICK e \in Int : e = c.total \div WorldSize
    BY <1>1
  <2>2. PICK n \in Nat : n = c.own[r]
    BY <1>1
  <2>3. Geometry(c, r) = IF c.mode = 0 THEN [seq |-> [q \in Ranks |-> n], head |-> [q \in Ranks |-> e]]
                                       ELSE [seq |-> [q \in Ranks |-> e], head |-> [q \in Ranks |-> n]]
    BY <1>3, <2>1, <2>2, Zenon DEF Geometry
  <2>4. n \in Int
    OBVIOUS
  <2>5. QED  BY <1>3, <2>1, <2>2, <2>3, <2>4 DEF AnyGeometry
<1>4. QED  BY <1>2, <1>3

\* Every rank works out the same geometry ...
LEMMA OneGeometry ==
    ASSUME NEW c \in CallType, Agreed(c), NEW r \in Ranks, NEW t \in Ranks
    PROVE  Geometry(c, r) = Geometry(c, t)
<1>1. CASE c.splits # {}
  BY <1>1 DEF Geometry
<1>2. CASE c.splits = {}
  <2>1. c.own[r] = c.own[t]
    BY <1>2 DEF Agreed
  <2>2. QED  BY <2>1, <1>2 DEF Geometry
<1>3. QED  BY <1>1, <1>2

\* ... and comes to the same verdict on it.
LEMMA OneVerdict ==
    ASSUME NEW c \in CallType, Agreed(c), NEW r \in Ranks, NEW t \in Ranks, Accepted(c, r)
    PROVE  Accepted(c, t)
<1>1. PICK g : g = Geometry(c, r) /\ g = Geometry(c, t)
  BY OneGeometry
<1>2. c.splits # {} => Matches(c, g, t)
  <2>1. SUFFICES ASSUME c.splits # {}  PROVE Matches(c, g, t)
    OBVIOUS
  <2>2. g \in c.splits
    BY <1>1, <2>1, GeometryIs
  <2>3. Matches(c, g, r) /\ c.mode \in {0, 1}
    BY <1>1, <2>1 DEF Accepted
  <2>4. CASE c.mode = 0
    BY <2>2, <2>3, <2>4 DEF Agreed, Matches
  <2>5. CASE c.mode = 1
    BY <2>2, <2>3, <2>5 DEF Agreed, Matches
  <2>6. QED  BY <2>3, <2>4, <2>5
<1>3. QED
  BY <1>1, <1>2 DEF Accepted

\* A call of the same tensors as the one that is made.
Like(c) == c \in CallType /\ c.b = call.b /\ c.d = call.d /\ c.elem = call.elem

\* What is known of an accepted call.
LEMMA AcceptedIs ==
    ASSUME NEW c, Like(c), NEW r \in Ranks, Accepted(c, r)
    PROVE  /\ Geometry(c, r) \in GeometryType /\ c.mode \in {0, 1}
           /\ call.b \in Nat \ {0} /\ call.d \in Nat \ {0} /\ call.elem \in Nat \ {0} /\ Bytes \in Nat \ {0}
<1>1. PICK g : g = Geometry(c, r)
  OBVIOUS
<1>2. g \in AnyGeometry
  BY <1>1, GeometryIs DEF Like
<1>3. Valid(g) /\ c.mode \in {0, 1}
  BY <1>1 DEF Accepted
<1>4. call.b \in Nat \ {0} /\ call.d \in Nat \ {0} /\ call.elem \in Nat \ {0}
  BY <1>3 DEF Like, CallType, Valid
<1>5. Bytes \in Nat \ {0}
  <2>1. PICK d \in Nat \ {0}, e \in Nat \ {0} : d = call.d /\ e = call.elem
    BY <1>4
  <2>2. d * e \in Nat \ {0}
    OBVIOUS
  <2>3. QED  BY <2>1, <2>2 DEF Bytes
<1>6. g \in GeometryType
  <2>1. g = [seq |-> g.seq, head |-> g.head] /\ g.seq \in [Ranks -> Int] /\ g.head \in [Ranks -> Int]
    BY <1>2 DEF AnyGeometry
  <2>2. \A q \in Ranks : g.seq[q] \in Nat /\ g.head[q] \in Nat
    BY <1>3, <2>1 DEF Valid
  <2>3. g.seq \in [Ranks -> Nat] /\ g.head \in [Ranks -> Nat]
    BY <2>1, <2>2
  <2>4. QED  BY <2>1, <2>3 DEF GeometryType
<1>7. QED
  BY <1>1, <1>3, <1>4, <1>5, <1>6

------------------------------------------------------------------------------
(* Plans. *)

\* A plan stays what it is while the call does.
LEMMA Steady ==
    ASSUME call' = call
    PROVE  \A c, r : PlanFor(c, r)' = PlanFor(c, r)
<1>1. Bytes' = Bytes
  BY DEF Bytes
<1>2. \A g : Valid(g)' = Valid(g)
  BY DEF Valid
<1>3. \A o, x, y : Batched(o, x, y)' = Batched(o, x, y)
  BY DEF Batched
<1>4. \A g, r, p : Scatter(g, r, p)' = Scatter(g, r, p) /\ Gather(g, r, p)' = Gather(g, r, p)
  BY <1>1, <1>3 DEF Scatter, Gather
<1>5. \A c, r : Accepted(c, r)' = Accepted(c, r)
  BY <1>2 DEF Accepted
<1>6. QED
  BY <1>4, <1>5, ZenonT(60) DEF PlanFor

\* What push_batched leaves of a copy as it was, and the slices it gives it.
LEMMA BatchedIs ==
    ASSUME NEW p, NEW src, NEW srcPitch, NEW dst, NEW dstPitch, NEW width, NEW rows, NEW x, NEW y,
           NEW o \in Batched(Copy(p, src, srcPitch, dst, dstPitch, width, rows), x, y)
    PROVE  /\ o.peer = p /\ o.srcPitch = srcPitch /\ o.dstPitch = dstPitch /\ o.width = width
           /\ o.srcSlice \in {0, x} /\ o.dstSlice \in {0, y}
<1>1. PICK op : op = Copy(p, src, srcPitch, dst, dstPitch, width, rows)
  OBVIOUS
<1> DEFINE at(n) == Shifted(op, n * x, n * y)
           deep == [op EXCEPT !.depth = call.b, !.srcSlice = x, !.dstSlice = y]
<1>2. o = deep \/ o \in {at(n) : n \in 0 .. call.b - 1}
  BY <1>1, Zenon DEF Batched, Shifted
<1>3. CASE o = deep
  BY <1>1, <1>3 DEF Copy
<1>4. CASE o \in {at(n) : n \in 0 .. call.b - 1}
  <2>1. PICK a, b : o = Shifted(op, a, b)
    BY <1>4
  <2>2. QED  BY <1>1, <2>1 DEF Copy, Shifted
<1>5. QED
  BY <1>2, <1>3, <1>4

\* A copy goes to the peer it was made for.
LEMMA CopiesTo ==
    ASSUME NEW g, NEW r, NEW p, NEW o \in Scatter(g, r, p) \cup Gather(g, r, p)
    PROVE  o.peer = p
  BY BatchedIs DEF Scatter, Gather

\* The copies of a plan, per peer.
LEMMA PlanOps ==
    ASSUME NEW c, NEW r \in Ranks, Accepted(c, r), NEW p \in Ranks, NEW o
    PROVE  (o \in PlanFor(c, r).ops /\ o.peer = p)
              <=> o \in IF c.mode = 0 THEN Scatter(Geometry(c, r), r, p) ELSE Gather(Geometry(c, r), r, p)
<1>1. PICK g : g = Geometry(c, r)
  OBVIOUS
<1> DEFINE send(t) == IF c.mode = 0 THEN Scatter(g, r, t) ELSE Gather(g, r, t)
<1>2. PlanFor(c, r).ops = UNION {send(t) : t \in Ranks}
  BY <1>1, Zenon DEF PlanFor
<1>3. \A t \in Ranks : o \in send(t) => o.peer = t
  BY CopiesTo
<1>4. QED
  BY <1>1, <1>2, <1>3

\* What the copies of rank r's plan write in p's window.
Landing(r, p, ops) == {<<m[1], r, m[2]>> : m \in UNION {Moves(op) : op \in {o \in ops : o.peer = p}}}

\* An accepted plan writes the strips of a mode 0 or those of a mode 1.
HeadsLand(g, r, p, x) ==
    \E k \in 0 .. call.b - 1, s \in 0 .. g.seq[r] - 1, i \in 0 .. g.head[p] * Bytes - 1 :
        x = <<InHeads(g, r, p, k, s, i), r, InRows(g, r, p, k, s, i)>>

RowsLand(g, r, p, x) ==
    \E k \in 0 .. call.b - 1, s \in 0 .. g.seq[p] - 1, i \in 0 .. g.head[r] * Bytes - 1 :
        x = <<InRows(g, p, r, k, s, i), r, InHeads(g, p, r, k, s, i)>>

\* So does the plan for a call or for its backward, with its own geometry.
LEMMA LandingIs ==
    ASSUME NEW c, Like(c), NEW r \in Ranks, Accepted(c, r), NEW p \in Ranks, NEW x
    PROVE  x \in Landing(r, p, PlanFor(c, r).ops)
              <=> IF c.mode = 0 THEN HeadsLand(Geometry(c, r), r, p, x) ELSE RowsLand(Geometry(c, r), r, p, x)
<1>1. PICK g : g = Geometry(c, r)
  OBVIOUS
<1>2. g \in GeometryType /\ c.mode \in {0, 1} /\ call.b \in Nat \ {0} /\ Bytes \in Nat \ {0}
  BY <1>1, AcceptedIs
<1>3. PICK ops : ops = PlanFor(c, r).ops
  OBVIOUS
<1>4. x \in Landing(r, p, ops) <=> \E o \in ops : o.peer = p /\ \E m \in Moves(o) : x = <<m[1], r, m[2]>>
  BY DEF Landing
<1>5. CASE c.mode = 0
  <2>1. \A o : (o \in ops /\ o.peer = p) <=> o \in Scatter(g, r, p)
    BY <1>1, <1>3, <1>5, PlanOps
  <2>2. \A m : (\E o \in Scatter(g, r, p) : m \in Moves(o)) <=> Strip(g, r, p, m)
    BY <1>2, ScatterMoves
  <2>3. x \in Landing(r, p, ops) <=> \E m : Strip(g, r, p, m) /\ x = <<m[1], r, m[2]>>
    BY <1>4, <2>1, <2>2
  <2>4. (\E m : Strip(g, r, p, m) /\ x = <<m[1], r, m[2]>>) <=> HeadsLand(g, r, p, x)
    <3>1. ASSUME NEW m, Strip(g, r, p, m), x = <<m[1], r, m[2]>>  PROVE HeadsLand(g, r, p, x)
      BY <3>1 DEF Strip, HeadsLand
    <3>2. ASSUME HeadsLand(g, r, p, x)  PROVE \E m : Strip(g, r, p, m) /\ x = <<m[1], r, m[2]>>
      <4>1. PICK k \in 0 .. call.b - 1, s \in 0 .. g.seq[r] - 1, i \in 0 .. g.head[p] * Bytes - 1 :
               x = <<InHeads(g, r, p, k, s, i), r, InRows(g, r, p, k, s, i)>>
        BY <3>2, Zenon DEF HeadsLand
      <4>2. PICK m : m = <<InHeads(g, r, p, k, s, i), InRows(g, r, p, k, s, i)>>
        OBVIOUS
      <4>3. Strip(g, r, p, m)
        BY <4>2, Zenon DEF Strip
      <4>4. x = <<m[1], r, m[2]>>
        BY <4>1, <4>2
      <4>5. QED  BY <4>3, <4>4
    <3>3. QED  BY <3>1, <3>2
  <2>5. QED  BY <1>1, <1>3, <1>5, <2>3, <2>4
<1>6. CASE c.mode = 1
  <2>1. \A o : (o \in ops /\ o.peer = p) <=> o \in Gather(g, r, p)
    BY <1>1, <1>3, <1>6, PlanOps
  <2>2. \A m : (\E o \in Gather(g, r, p) : m \in Moves(o)) <=> Reverse(g, p, r, m)
    BY <1>2, GatherMoves
  <2>3. x \in Landing(r, p, ops) <=> \E m : Reverse(g, p, r, m) /\ x = <<m[1], r, m[2]>>
    BY <1>4, <2>1, <2>2
  <2>4. (\E m : Reverse(g, p, r, m) /\ x = <<m[1], r, m[2]>>) <=> RowsLand(g, r, p, x)
    <3>1. ASSUME NEW m, Reverse(g, p, r, m), x = <<m[1], r, m[2]>>  PROVE RowsLand(g, r, p, x)
      BY <3>1 DEF Reverse, RowsLand
    <3>2. ASSUME RowsLand(g, r, p, x)  PROVE \E m : Reverse(g, p, r, m) /\ x = <<m[1], r, m[2]>>
      <4>1. PICK k \in 0 .. call.b - 1, s \in 0 .. g.seq[p] - 1, i \in 0 .. g.head[r] * Bytes - 1 :
               x = <<InRows(g, p, r, k, s, i), r, InHeads(g, p, r, k, s, i)>>
        BY <3>2, Zenon DEF RowsLand
      <4>2. PICK m : m = <<InRows(g, p, r, k, s, i), InHeads(g, p, r, k, s, i)>>
        OBVIOUS
      <4>3. Reverse(g, p, r, m)
        BY <4>2, Zenon DEF Reverse
      <4>4. x = <<m[1], r, m[2]>>
        BY <4>1, <4>2
      <4>5. QED  BY <4>3, <4>4
    <3>3. QED  BY <3>1, <3>2
  <2>5. QED  BY <1>1, <1>3, <1>6, <2>3, <2>4
<1>7. QED
  BY <1>2, <1>5, <1>6

\* Division with rest.
LEMMA DivMod ==
    ASSUME NEW a \in Nat, NEW w \in Nat \ {0}
    PROVE  a \div w \in Int /\ a % w \in 0 .. w - 1 /\ a = w * (a \div w) + (a % w)
<1>1. PICK q : q = a \div w
  OBVIOUS
<1>2. PICK j : j = a % w
  OBVIOUS
<1>3. q \in Int
  BY <1>1
<1>4. j \in 0 .. w - 1
  BY <1>2
<1>5. a = w * q + j
  BY <1>1, <1>2
<1>6. QED
  BY <1>1, <1>2, <1>3, <1>4, <1>5, Zenon

\* Equal parts of a whole number of them.
LEMMA DivideEqually ==
    ASSUME NEW w \in Nat \ {0}, NEW n \in Nat, NEW a, a = w * n
    PROVE  a % w = 0 /\ a \div w = n
<1>1. PICK q \in Int, j \in 0 .. w - 1 : q = a \div w /\ a = w * q + j /\ j = a % w
  <2>1. a \in Nat
    OBVIOUS
  <2>2. QED  BY <2>1, DivMod, Zenon
<1>2. q = n
  <2>1. ASSUME q < n  PROVE FALSE
    <3>1. PICK x \in Nat : n = q + 1 + x
      <4>1. n - q - 1 \in Nat /\ n = q + 1 + (n - q - 1)
        BY <1>1, <2>1
      <4>2. QED  BY <4>1
    <3>2. w * n = w * q + w + w * x /\ w * x \in Nat
      BY <1>1, <3>1
    <3>3. w * n \in Nat /\ w * q \in Int
      BY <1>1
    <3>4. QED  BY <1>1, <3>2, <3>3
  <2>2. ASSUME q > n  PROVE FALSE
    <3>1. PICK x \in Nat : q = n + 1 + x
      <4>1. q - n - 1 \in Nat /\ q = n + 1 + (q - n - 1)
        BY <1>1, <2>2
      <4>2. QED  BY <4>1
    <3>2. w * q = w * n + w + w * x /\ w * x \in Nat
      BY <1>1, <3>1
    <3>3. w * n \in Nat /\ w * q \in Int
      BY <1>1
    <3>4. QED  BY <1>1, <3>2, <3>3
  <2>3. QED  BY <1>1, <2>1, <2>2
<1>3. j = 0
  BY <1>1, <1>2
<1>4. QED
  BY <1>1, <1>2, <1>3, Zenon

\* The backward of an accepted call: the other mode, the same geometry, and it
\* is accepted too.
LEMMA BackwardIs ==
    ASSUME call \in CallType, Agreed(call), NEW r \in Ranks, Accepted(call, r), plan[r] = PlanFor(call, r)
    PROVE  /\ Like(Backward(r)) /\ Backward(r).mode = 1 - call.mode
           /\ Geometry(Backward(r), r) = Geometry(call, r) /\ Accepted(Backward(r), r)
<1>1. PICK c, g : c = Backward(r) /\ g = Geometry(call, r)
  OBVIOUS
<1>2. g \in GeometryType /\ call.mode \in {0, 1}
  BY <1>1, AcceptedIs DEF Like
<1>3. plan[r].rows = Rows(call, g, r) /\ plan[r].heads = Heads(call, g, r)
  BY <1>1 DEF PlanFor
<1>4. PICK own, total :
         /\ own = IF call.mode = 0 THEN g.head[r] ELSE g.seq[r]
         /\ total = IF call.mode = 0 THEN SeqTotal(g) ELSE HeadTotal(g)
  OBVIOUS
<1>5. own \in Nat /\ total \in Nat
  BY <1>2, <1>4, GeometryNumbers
<1>6. /\ c.mode = 1 - call.mode /\ c.b = call.b /\ c.d = call.d /\ c.elem = call.elem
      /\ c.own = [q \in Ranks |-> own] /\ c.total = total /\ c.splits = call.splits
  BY <1>1, <1>2, <1>3, <1>4 DEF CallType, Backward, SavedSplits, Rows, Heads
<1>7. c \in CallType
  <2>1. c = [call EXCEPT !.mode = c.mode, !.own = c.own, !.total = c.total, !.splits = c.splits]
    BY <1>1, <1>6 DEF CallType, Backward
  <2>2. c.mode \in Nat /\ c.own \in [Ranks -> Nat] /\ c.total \in Nat
    BY <1>2, <1>5, <1>6
  <2>3. QED  BY <1>6, <2>1, <2>2 DEF CallType
<1>8. PICK h : h = Geometry(c, r)
  OBVIOUS
<1>9. ASSUME call.splits = {}
      PROVE  c.total % WorldSize = 0 /\ h = g
  <2>1. PICK even, n : even = call.total \div WorldSize /\ n = call.own[r]
    OBVIOUS
  <2>2. \A q \in Ranks : /\ g.seq[q] = IF call.mode = 0 THEN n ELSE even
                         /\ g.head[q] = IF call.mode = 0 THEN even ELSE n
    BY <1>1, <1>9, <2>1, GeometryIs
  <2>3. own = even /\ n \in Nat
    BY <1>2, <1>4, <2>1, <2>2 DEF CallType
  <2>4. total = WorldSize * n
    <3>1. CASE call.mode = 0
      <4>1. g.seq \in [Ranks -> Nat] /\ \A q \in Ranks : g.seq[q] = n
        BY <1>2, <2>2, <3>1 DEF GeometryType
      <4>2. QED  BY <1>4, <2>3, <3>1, <4>1, EvenParts DEF SeqTotal
    <3>2. CASE call.mode = 1
      <4>1. g.head \in [Ranks -> Nat] /\ \A q \in Ranks : g.head[q] = n
        BY <1>2, <2>2, <3>2 DEF GeometryType
      <4>2. QED  BY <1>4, <2>3, <3>2, <4>1, EvenParts DEF HeadTotal
    <3>3. QED  BY <1>2, <3>1, <3>2
  <2>5. total \div WorldSize = n /\ total % WorldSize = 0
    BY <2>3, <2>4, PlanAssumption, DivideEqually
  <2>6. h \in AnyGeometry /\ \A q \in Ranks : /\ h.seq[q] = IF c.mode = 0 THEN own ELSE n
                                              /\ h.head[q] = IF c.mode = 0 THEN n ELSE own
    BY <1>6, <1>7, <1>8, <1>9, <2>5, GeometryIs
  <2>7. \A q \in Ranks : h.seq[q] = g.seq[q] /\ h.head[q] = g.head[q]
    BY <1>2, <1>6, <2>2, <2>3, <2>6
  <2>8. QED  BY <1>2, <1>6, <2>5, <2>6, <2>7 DEF GeometryType, AnyGeometry
<1>10. h = g
  <2>1. CASE call.splits # {}
    BY <1>1, <1>6, <1>8, <2>1 DEF Geometry
  <2>2. QED  BY <1>9, <2>1
<1>11. Accepted(c, r)
  <2>1. (c.d * c.elem) % Alignment = 0 /\ Valid(g)
    BY <1>1, <1>6 DEF Accepted
  <2>2. c.mode \in {0, 1}
    BY <1>2, <1>6
  <2>3. c.splits = {} => c.total % WorldSize = 0
    BY <1>6, <1>9
  <2>4. Matches(c, g, r)
    BY <1>2, <1>4, <1>6 DEF Matches
  <2>5. BytesFit(c, g)
    <3>1. BytesFit(call, g)
      BY <1>1 DEF Accepted
    <3>2. QED  BY <1>6, <3>1, Zenon DEF BytesFit
  <2>6. QED  BY <1>8, <1>10, <2>1, <2>2, <2>3, <2>4, <2>5 DEF Accepted
<1>12. QED
  BY <1>1, <1>6, <1>7, <1>8, <1>10, <1>11 DEF Like

------------------------------------------------------------------------------
(* The exchange and its backward. *)

\* The windows hold what the plans so far have written, and no more.
Holds(win, plans) ==
    \A p \in Ranks : win[p] = UNION {Landing(r, p, plans[r].ops) : r \in Ranks}

\* What a rank has planned is the plan for its call, and for its backward; a
\* rank sends back only what every rank has sent.
Inv ==
    /\ call \in Calls
    /\ DOMAIN plan = Ranks /\ DOMAIN back = Ranks
    /\ \A r \in Ranks : plan[r] \in {Unplanned, PlanFor(call, r)}
    /\ \A r \in Ranks : back[r] # Unplanned => /\ back[r] = PlanFor(Backward(r), r)
                                               /\ \A t \in Ranks : Planned(t)
    /\ Holds(window, plan) /\ Holds(gradient, back)

\* A plan that is run adds what it writes.
LEMMA WrittenHolds ==
    ASSUME NEW win, NEW plans, DOMAIN plans = Ranks, Holds(win, plans),
           NEW r \in Ranks, plans[r].ops = {}, NEW x
    PROVE  Holds(Written(win, r, x.ops), [plans EXCEPT ![r] = x])
<1>1. PICK new : new = [plans EXCEPT ![r] = x]
  OBVIOUS
<1>2. new[r] = x /\ \A t \in Ranks : t # r => new[t] = plans[t]
  BY <1>1
<1>3. ASSUME NEW p \in Ranks
      PROVE  Written(win, r, x.ops)[p] = UNION {Landing(t, p, new[t].ops) : t \in Ranks}
  <2>1. Written(win, r, x.ops)[p] = win[p] \cup Landing(r, p, x.ops)
    BY Zenon DEF Written, Landing
  <2>2. win[p] = UNION {Landing(t, p, plans[t].ops) : t \in Ranks}
    BY DEF Holds
  <2>3. Landing(r, p, plans[r].ops) = {}
    BY DEF Landing
  <2>4. \A t \in Ranks : t # r => Landing(t, p, new[t].ops) = Landing(t, p, plans[t].ops)
    BY <1>2
  <2>5. Landing(r, p, new[r].ops) = Landing(r, p, x.ops)
    BY <1>2
  <2> DEFINE all == UNION {Landing(t, p, new[t].ops) : t \in Ranks}
  <2>6. ASSUME NEW y \in win[p]  PROVE y \in all
    <3>1. PICK t \in Ranks : y \in Landing(t, p, plans[t].ops)
      BY <2>2, <2>6
    <3>2. t # r
      BY <2>3, <3>1
    <3>3. QED  BY <2>4, <3>1, <3>2
  <2>7. ASSUME NEW y \in all, y \notin Landing(r, p, x.ops)  PROVE y \in win[p]
    <3>1. PICK t \in Ranks : y \in Landing(t, p, new[t].ops)
      BY <2>7
    <3>2. t # r
      BY <2>5, <2>7, <3>1
    <3>3. y \in Landing(t, p, plans[t].ops)
      BY <2>4, <3>1, <3>2
    <3>4. QED  BY <2>2, <3>3
  <2>8. Landing(r, p, x.ops) \subseteq all
    BY <2>5
  <2> HIDE DEF all
  <2>9. win[p] \cup Landing(r, p, x.ops) = all
    BY <2>6, <2>7, <2>8
  <2>10. QED  BY <2>1, <2>9 DEF all
<1>4. QED
  BY <1>1, <1>3 DEF Holds

\* What became of a call is told apart by its tag.
LEMMA Verdicts ==
    /\ Unplanned.ops = {} /\ Refused.ops = {} /\ Unplanned # Refused
    /\ Unplanned.is = "unplanned" /\ Refused.is = "refused"
    /\ \A c, r : /\ PlanFor(c, r) # Unplanned
                 /\ PlanFor(c, r).is = IF Accepted(c, r) THEN "planned" ELSE "refused"
                 /\ Accepted(c, r) => PlanFor(c, r).numel = Numel(c, Geometry(c, r), r)
  BY DEF PlanFor, Unplanned, Refused

\* Inv holds at the start and is kept by every step.
THEOREM A2APlanInductive == Spec => []Inv
<1>1. Init => Inv
  <2>1. SUFFICES ASSUME Init  PROVE Inv
    OBVIOUS
  <2>2. \A r \in Ranks : plan[r] = Unplanned /\ back[r] = Unplanned /\ window[r] = {} /\ gradient[r] = {}
    BY <2>1 DEF Init
  <2>3. \A r, p \in Ranks : Landing(r, p, Unplanned.ops) = {}
    BY Verdicts DEF Landing
  <2>4. Holds(window, plan) /\ Holds(gradient, back)
    BY <2>2, <2>3 DEF Holds
  <2>5. QED  BY <2>1, <2>2, <2>4 DEF Init, Inv
<1>2. Inv /\ [Next]_vars => Inv'
  <2> SUFFICES ASSUME Inv, [Next]_vars  PROVE Inv'
    OBVIOUS
  <2>1. ASSUME NEW r \in Ranks, Send(r)  PROVE Inv'
    <3>1. call' = call /\ back' = back /\ gradient' = gradient /\ plan[r] = Unplanned
          /\ plan' = [plan EXCEPT ![r] = PlanFor(call, r)]
      BY <2>1 DEF Send
    <3>2. \A t \in Ranks : PlanFor(call, t)' = PlanFor(call, t)
      BY <3>1, Steady
    <3>3. \A t \in Ranks : plan'[t] = IF t = r THEN PlanFor(call, r) ELSE plan[t]
      BY <3>1 DEF Inv
    <3>4. \A t \in Ranks : back[t] = Unplanned
      BY <3>1, Verdicts DEF Inv, Planned
    <3>5. Holds(window, plan)'
      <4>1. plan'[r].ops = PlanFor(call, r).ops
        BY <3>3
      <4>2. window' = Written(window, r, PlanFor(call, r).ops)
        BY <2>1, <4>1 DEF Send
      <4>3. Holds(Written(window, r, PlanFor(call, r).ops), [plan EXCEPT ![r] = PlanFor(call, r)])
        BY <3>1, Verdicts, WrittenHolds DEF Inv
      <4>4. QED  BY <3>1, <4>2, <4>3
    <3>6. Holds(gradient, back)'
      BY <3>1 DEF Inv
    <3>7. QED
      BY <3>1, <3>2, <3>3, <3>4, <3>5, <3>6 DEF Inv
  <2>2. ASSUME NEW r \in Ranks, SendBack(r)  PROVE Inv'
    <3>1. call' = call /\ plan' = plan /\ window' = window /\ back[r] = Unplanned
          /\ back' = [back EXCEPT ![r] = PlanFor(Backward(r), r)] /\ \A t \in Ranks : Planned(t)
      BY <2>2 DEF SendBack, Planned
    <3>2. \A c, t : PlanFor(c, t)' = PlanFor(c, t)
      BY <3>1, Steady
    <3>3. \A t : Backward(t)' = Backward(t)
      BY <3>1 DEF Backward, SavedSplits
    <3>4. \A t \in Ranks : back'[t] = IF t = r THEN PlanFor(Backward(r), r) ELSE back[t]
      BY <3>1 DEF Inv
    <3>5. Holds(gradient, back)'
      <4>1. back'[r].ops = PlanFor(Backward(r), r).ops
        BY <3>4
      <4>2. gradient' = Written(gradient, r, PlanFor(Backward(r), r).ops)
        BY <2>2, <4>1 DEF SendBack
      <4>3. Holds(Written(gradient, r, PlanFor(Backward(r), r).ops), [back EXCEPT ![r] = PlanFor(Backward(r), r)])
        BY <3>1, Verdicts, WrittenHolds DEF Inv
      <4>4. QED  BY <3>1, <4>2, <4>3
    <3>6. Holds(window, plan)'
      BY <3>1 DEF Inv
    <3>7. \A t \in Ranks : Planned(t)'
      BY <3>1 DEF Planned
    <3>8. \A t \in Ranks : PlanFor(call, t)' = PlanFor(call, t) /\ PlanFor(Backward(t), t)' = PlanFor(Backward(t), t)
      BY <3>1, <3>2, <3>3
    <3>9. QED
      BY <3>1, <3>4, <3>5, <3>6, <3>7, <3>8 DEF Inv
  <2>3. CASE UNCHANGED vars
    <3>1. call' = call /\ plan' = plan /\ window' = window /\ back' = back /\ gradient' = gradient
      BY <2>3 DEF vars
    <3>2. \A t : Backward(t)' = Backward(t)
      BY <3>1 DEF Backward, SavedSplits
    <3>3. \A t \in Ranks : PlanFor(call, t)' = PlanFor(call, t) /\ PlanFor(Backward(t), t)' = PlanFor(Backward(t), t)
      BY <3>1, <3>2, Steady
    <3>4. Holds(window, plan)' /\ Holds(gradient, back)' /\ \A t \in Ranks : Planned(t)' = Planned(t)
      BY <3>1 DEF Inv, Planned
    <3>5. QED  BY <3>1, <3>3, <3>4 DEF Inv
  <2>4. QED
    BY <2>1, <2>2, <2>3 DEF Next, Rest
<1>3. QED
  BY <1>1, <1>2, PTL DEF Spec

------------------------------------------------------------------------------
(* What it comes to. *)

\* The call that is made, and what is known once a rank has planned it.
LEMMA CallIs ==
    ASSUME Inv
    PROVE  /\ call \in CallType /\ Agreed(call) /\ Like(call)
           /\ \A r \in Ranks : /\ Planned(r) <=> plan[r] = PlanFor(call, r) /\ Accepted(call, r)
                               /\ plan[r].is = "refused" => ~ Accepted(call, r)
                               /\ ~ Planned(r) => plan[r].ops = {}
<1>1. call \in CallType /\ Agreed(call)
  BY PlanAssumption DEF Inv
<1>2. ASSUME NEW r \in Ranks
      PROVE  /\ Planned(r) <=> plan[r] = PlanFor(call, r) /\ Accepted(call, r)
             /\ plan[r].is = "refused" => ~ Accepted(call, r)
             /\ ~ Planned(r) => plan[r].ops = {}
  <2>1. ~ Accepted(call, r) => PlanFor(call, r) = Refused
    BY Zenon DEF PlanFor
  <2>2. QED  BY <2>1, Verdicts DEF Inv, Planned
<1>3. QED
  BY <1>1, <1>2 DEF Like

\* A call is refused by every rank or by none (src/src/group.cc make_dims,
\* src/src/a2a_plan.cc build_plan): what they check of a call is the group's.
THEOREM AllRefuseOrNone == Spec => []RefusedTogether
<1>1. Inv => RefusedTogether
  <2>1. SUFFICES ASSUME Inv, NEW r \in Ranks, NEW t \in Ranks, {plan[r].is, plan[t].is} = {"planned", "refused"}
                 PROVE  FALSE
    BY DEF RefusedTogether
  <2>2. \E q, u \in Ranks : plan[q].is = "planned" /\ plan[u].is = "refused"
    BY <2>1
  <2>3. PICK q \in Ranks, u \in Ranks : plan[q].is = "planned" /\ plan[u].is = "refused"
    BY <2>2
  <2>4. Accepted(call, q) /\ ~ Accepted(call, u)
    BY <2>1, <2>3, CallIs DEF Planned
  <2>5. QED  BY <2>1, <2>4, CallIs, OneVerdict
<1>2. QED
  BY <1>1, A2APlanInductive, PTL

\* Where the bytes of a window come from.
Lands(mode, g, r, p, x) == IF mode = 0 THEN HeadsLand(g, r, p, x) ELSE RowsLand(g, r, p, x)

\* A window holds what the ranks that have planned have landed in it.
LEMMA WindowIs ==
    ASSUME Inv, NEW p \in Ranks, NEW x, NEW g, \A r \in Ranks : g = Geometry(call, r)
    PROVE  x \in window[p] <=> \E r \in Ranks : Planned(r) /\ Lands(call.mode, g, r, p, x)
<1>1. x \in window[p] <=> \E r \in Ranks : x \in Landing(r, p, plan[r].ops)
  BY DEF Inv, Holds
<1>2. ASSUME NEW r \in Ranks
      PROVE  x \in Landing(r, p, plan[r].ops) <=> Planned(r) /\ Lands(call.mode, g, r, p, x)
  <2>1. CASE Planned(r)
    <3>1. plan[r] = PlanFor(call, r) /\ Accepted(call, r) /\ Like(call) /\ g = Geometry(call, r)
      BY <2>1, CallIs
    <3>2. QED  BY <2>1, <3>1, LandingIs DEF Lands
  <2>2. CASE ~ Planned(r)
    <3>1. plan[r].ops = {}
      BY <2>2, CallIs
    <3>2. QED  BY <2>2, <3>1 DEF Landing
  <2>3. QED  BY <2>1, <2>2
<1>3. QED
  BY <1>1, <1>2

\* One geometry, which every rank that has planned works with.
LEMMA PlannedIs ==
    ASSUME Inv, NEW r \in Ranks, Planned(r)
    PROVE  \E g \in GeometryType :
              /\ \A t \in Ranks : g = Geometry(call, t)
              /\ call.mode \in {0, 1} /\ BytesFit(call, g)
              /\ call.b \in Nat \ {0} /\ call.d \in Nat \ {0} /\ call.elem \in Nat \ {0} /\ Bytes \in Nat \ {0}
              /\ \A t \in Ranks : Accepted(call, t)
<1>1. Accepted(call, r) /\ call \in CallType /\ Agreed(call) /\ Like(call)
  BY CallIs
<1>2. PICK g : g = Geometry(call, r)
  OBVIOUS
<1>3. g \in GeometryType /\ call.mode \in {0, 1}
      /\ call.b \in Nat \ {0} /\ call.d \in Nat \ {0} /\ call.elem \in Nat \ {0} /\ Bytes \in Nat \ {0}
  BY <1>1, <1>2, AcceptedIs
<1>4. BytesFit(call, g)
  BY <1>1, <1>2 DEF Accepted
<1>5. \A t \in Ranks : g = Geometry(call, t)
  BY <1>1, <1>2, OneGeometry
<1>6. \A t \in Ranks : Accepted(call, t)
  BY <1>1, OneVerdict
<1>7. QED
  BY <1>3, <1>4, <1>5, <1>6

\* The elements that land are those the ranks' tensors share.
LEMMA LandsIs ==
    ASSUME call.b \in Nat \ {0}, Bytes \in Nat \ {0}, NEW g \in GeometryType,
           NEW r \in Ranks, NEW p \in Ranks, NEW x
    PROVE  /\ HeadsLand(g, r, p, x) <=> \E y, z : Shared(g, r, p, y, z) /\ x = <<y, r, z>>
           /\ RowsLand(g, r, p, x) <=> \E y, z : Shared(g, p, r, y, z) /\ x = <<z, r, y>>
<1>1. HeadsLand(g, r, p, x) <=> \E y, z : Strip(g, r, p, <<y, z>>) /\ x = <<y, r, z>>
  BY DEF HeadsLand, Strip
<1>2. RowsLand(g, r, p, x) <=> \E y, z : Strip(g, p, r, <<y, z>>) /\ x = <<z, r, y>>
  BY DEF RowsLand, Strip
<1>3. \A y, z : /\ Strip(g, r, p, <<y, z>>) <=> Shared(g, r, p, y, z)
                /\ Strip(g, p, r, <<y, z>>) <=> Shared(g, p, r, y, z)
  BY StripIs, Zenon
<1>4. QED
  BY <1>1, <1>2, <1>3

\* What is promised, told rank by rank.
LEMMA PromisedIs ==
    ASSUME NEW p \in Ranks, NEW g, g = Geometry(call, p), NEW x
    PROVE  /\ call.mode = 0 =>
                 (x \in Promised(p) <=> \E r \in Ranks : \E y, z : Shared(g, r, p, y, z) /\ x = <<y, r, z>>)
           /\ call.mode # 0 =>
                 (x \in Promised(p) <=> \E r \in Ranks : \E y, z : Shared(g, p, r, y, z) /\ x = <<z, r, y>>)
<1>1. CASE call.mode = 0
  <2>1. x \in Promised(p) <=> \E r \in Ranks :
           \E b \in 0 .. call.b - 1, s \in 0 .. g.seq[r] - 1, h \in 0 .. g.head[p] - 1, i \in 0 .. Bytes - 1 :
               x = <<HeadsAt(g, r, p, b, s, h, i), r, RowsAt(g, r, p, b, s, h, i)>>
    BY <1>1 DEF Promised, HeadsAt, RowsAt
  <2>2. ASSUME NEW r \in Ranks
        PROVE  (\E b \in 0 .. call.b - 1, s \in 0 .. g.seq[r] - 1, h \in 0 .. g.head[p] - 1, i \in 0 .. Bytes - 1 :
                    x = <<HeadsAt(g, r, p, b, s, h, i), r, RowsAt(g, r, p, b, s, h, i)>>)
               <=> \E y, z : Shared(g, r, p, y, z) /\ x = <<y, r, z>>
    BY ZenonT(60) DEF Shared
  <2>3. QED  BY <1>1, <2>1, <2>2
<1>2. CASE call.mode # 0
  <2>1. x \in Promised(p) <=> \E r \in Ranks :
           \E b \in 0 .. call.b - 1, s \in 0 .. g.seq[p] - 1, h \in 0 .. g.head[r] - 1, i \in 0 .. Bytes - 1 :
               x = <<RowsAt(g, p, r, b, s, h, i), r, HeadsAt(g, p, r, b, s, h, i)>>
    BY <1>2 DEF Promised, HeadsAt, RowsAt
  <2>2. ASSUME NEW r \in Ranks
        PROVE  (\E b \in 0 .. call.b - 1, s \in 0 .. g.seq[p] - 1, h \in 0 .. g.head[r] - 1, i \in 0 .. Bytes - 1 :
                    x = <<RowsAt(g, p, r, b, s, h, i), r, HeadsAt(g, p, r, b, s, h, i)>>)
               <=> \E y, z : Shared(g, p, r, y, z) /\ x = <<z, r, y>>
    BY ZenonT(60) DEF Shared
  <2>3. QED  BY <1>2, <2>1, <2>2
<1>3. QED
  BY <1>1, <1>2

\* Once every rank has sent, each window holds exactly what the collective
\* promises its rank (src/src/a2a_plan.cc build_plan, src/src/transfer.cu).
THEOREM LayoutIsExact == Spec => []LayoutExact
<1>1. Inv => LayoutExact
  <2>1. SUFFICES ASSUME Inv, \A r \in Ranks : Planned(r), NEW p \in Ranks  PROVE window[p] = Promised(p)
    BY DEF LayoutExact
  <2>2. PICK g \in GeometryType : /\ \A t \in Ranks : g = Geometry(call, t)
                                  /\ call.mode \in {0, 1} /\ call.b \in Nat \ {0} /\ Bytes \in Nat \ {0}
    BY <2>1, PlannedIs
  <2>3. ASSUME NEW x  PROVE x \in window[p] <=> x \in Promised(p)
    <3>1. x \in window[p] <=> \E r \in Ranks : Lands(call.mode, g, r, p, x)
      BY <2>1, <2>2, WindowIs
    <3>2. CASE call.mode = 0
      <4>1. \A r \in Ranks : HeadsLand(g, r, p, x) <=> \E y, z : Shared(g, r, p, y, z) /\ x = <<y, r, z>>
        BY <2>2, LandsIs
      <4>2. x \in Promised(p) <=> \E r \in Ranks : \E y, z : Shared(g, r, p, y, z) /\ x = <<y, r, z>>
        BY <2>2, <3>2, PromisedIs
      <4>3. QED  BY <3>1, <3>2, <4>1, <4>2 DEF Lands
    <3>3. CASE call.mode = 1
      <4>1. \A r \in Ranks : RowsLand(g, r, p, x) <=> \E y, z : Shared(g, p, r, y, z) /\ x = <<z, r, y>>
        BY <2>2, LandsIs
      <4>2. x \in Promised(p) <=> \E r \in Ranks : \E y, z : Shared(g, p, r, y, z) /\ x = <<z, r, y>>
        BY <2>2, <3>3, PromisedIs
      <4>3. QED  BY <3>1, <3>3, <4>1, <4>2 DEF Lands
    <3>4. QED  BY <2>2, <3>2, <3>3
  <2>4. QED  BY <2>3
<1>2. QED
  BY <1>1, A2APlanInductive, PTL

\* What check_byte_products bounds: a block of the batch, no more rows and heads
\* than the whole has, of whole elements.
LEMMA Bounded ==
    ASSUME NEW g \in GeometryType, BytesFit(call, g),
           call.b \in Nat \ {0}, call.d \in Nat \ {0}, call.elem \in Nat \ {0}, Bytes \in Nat \ {0},
           NEW n \in Nat, n <= call.b, NEW x \in Nat, x <= 1 \/ x <= SeqTotal(g),
           NEW y \in Nat, y <= 1 \/ y <= HeadTotal(g), SeqTotal(g) \in Nat, HeadTotal(g) \in Nat
    PROVE  (n * x) * (y * Bytes) \in Nat /\ (n * x) * (y * Bytes) <= MaxInt64
<1>1. PICK rows \in Nat, heads \in Nat : /\ rows = IF SeqTotal(g) > 1 THEN SeqTotal(g) ELSE 1
                                         /\ heads = IF HeadTotal(g) > 1 THEN HeadTotal(g) ELSE 1
  OBVIOUS
<1>2. call.b * rows * heads * call.d * call.elem <= MaxInt64
  BY <1>1, Zenon DEF BytesFit
<1>3. PICK b \in Nat, d \in Nat, e \in Nat, bytes \in Nat :
         b = call.b /\ d = call.d /\ e = call.elem /\ bytes = Bytes /\ bytes = d * e
  BY DEF Bytes
<1>4. x <= rows /\ y <= heads /\ n <= b
  BY <1>1, <1>3
<1>5. n * x \in Nat /\ b * rows \in Nat /\ n * x <= b * rows
  BY <1>4, ProductLe
<1>6. y * bytes \in Nat /\ heads * bytes \in Nat /\ y * bytes <= heads * bytes
  BY <1>4, ProductLe
<1>7. PICK a \in Nat, c \in Nat, h \in Nat, z \in Nat : a = n * x /\ c = b * rows /\ h = y * bytes /\ z = heads * bytes
  BY <1>5, <1>6
<1>8. a * h \in Nat /\ c * z \in Nat /\ a * h <= c * z
  BY <1>5, <1>6, <1>7, ProductLe
<1>9. c * z = b * rows * heads * d * e
  BY <1>3, <1>7
<1>10. c * z <= MaxInt64
  BY <1>2, <1>3, <1>9, Zenon
<1>11. a * h <= MaxInt64
  BY <1>8, <1>10, PlanAssumption
<1>12. QED
  BY <1>3, <1>7, <1>8, <1>11, Zenon

\* The bytes of a rank's output.
OutputBytes(g, p) ==
    IF call.mode = 0 THEN (call.b * SeqTotal(g)) * (g.head[p] * Bytes)
                     ELSE (call.b * g.seq[p]) * (HeadTotal(g) * Bytes)

\* The window's elements are those of the largest output, and their bytes fit.
LEMMA NumelIs ==
    ASSUME NEW g \in GeometryType, BytesFit(call, g),
           call.b \in Nat \ {0}, call.d \in Nat \ {0}, call.elem \in Nat \ {0}, Bytes \in Nat \ {0}, NEW r
    PROVE  /\ Numel(call, g, r) \in Nat /\ Numel(call, g, r) * call.elem \in Nat
           /\ \A p \in Ranks : OutputBytes(g, p) <= Numel(call, g, r) * call.elem
           /\ Numel(call, g, r) * call.elem <= MaxInt64
<1>1. ASSUME NEW p \in Ranks
      PROVE  /\ OwnOutput(call, g, p) \in Nat
             /\ OwnOutput(call, g, p) * call.elem = OutputBytes(g, p)
             /\ OutputBytes(g, p) \in Nat /\ OutputBytes(g, p) <= MaxInt64
  <2>1. PICK rows, heads : /\ rows = IF call.mode = 0 THEN SeqTotal(g) ELSE g.seq[p]
                           /\ heads = IF call.mode = 0 THEN g.head[p] ELSE HeadTotal(g)
    OBVIOUS
  <2>2. SeqTotal(g) \in Nat /\ HeadTotal(g) \in Nat /\ g.seq[p] \in Nat /\ g.head[p] \in Nat
        /\ g.seq[p] <= SeqTotal(g) /\ g.head[p] <= HeadTotal(g)
    BY GeometryNumbers
  <2>3. rows \in Nat /\ heads \in Nat /\ rows <= SeqTotal(g) /\ heads <= HeadTotal(g)
    BY <2>1, <2>2
  <2>4. OutputBytes(g, p) = (call.b * rows) * (heads * Bytes)
    BY <2>1, Zenon DEF OutputBytes
  <2>5. PICK n \in Nat : n = call.b /\ n <= call.b
    OBVIOUS
  <2>6. (n * rows) * (heads * Bytes) \in Nat /\ (n * rows) * (heads * Bytes) <= MaxInt64
    BY <2>2, <2>3, <2>5, Bounded
  <2>7. PICK d \in Nat, e \in Nat : d = call.d /\ e = call.elem /\ Bytes = d * e
    BY DEF Bytes
  <2>8. OwnOutput(call, g, p) = n * rows * heads * d
    BY <2>1, <2>5, <2>7, Zenon DEF OwnOutput, Rows, Heads
  <2>9. n * rows * heads * d \in Nat
    BY <2>3
  <2>10. (n * rows * heads * d) * e = (n * rows) * (heads * (d * e))
    BY <2>3
  <2>11. QED  BY <2>4, <2>5, <2>6, <2>7, <2>8, <2>9, <2>10, Zenon
<1>2. PICK S : S = {OwnOutput(call, g, p) : p \in Ranks}
  OBVIOUS
<1>3. S \in SUBSET Nat /\ S # {}
  <2>1. 0 \in Ranks
    BY PlanAssumption DEF Ranks
  <2>2. QED  BY <1>1, <1>2, <2>1, Zenon
<1>4. ASSUME NEW n \in S  PROVE n <= MaxInt64
  <2>1. PICK p \in Ranks : n = OwnOutput(call, g, p)
    BY <1>2
  <2>2. PICK e \in Nat \ {0} : e = call.elem
    OBVIOUS
  <2>3. n \in Nat /\ n * e \in Nat /\ n * e <= MaxInt64
    BY <1>1, <2>1, <2>2, Zenon
  <2>4. n * 1 <= n * e
    BY <2>2, <2>3, ProductLe
  <2>5. QED  BY <2>3, <2>4, PlanAssumption
<1>5. Max(S) \in S /\ \A n \in S : n <= Max(S)
  <2>1. MaxInt64 \in Nat
    BY PlanAssumption
  <2>2. QED  BY <1>3, <1>4, <2>1, GreatestIs
<1>6. PICK top \in Nat : top = Max(S) /\ top = Numel(call, g, r)
  BY <1>2, <1>3, <1>5 DEF Numel
<1>7. PICK e \in Nat : e = call.elem
  OBVIOUS
<1>8. top * e \in Nat
  OBVIOUS
<1>9. ASSUME NEW p \in Ranks  PROVE OutputBytes(g, p) <= top * e
  <2>1. PICK n \in Nat : n = OwnOutput(call, g, p)
    BY <1>1
  <2>2. n <= top
    BY <1>2, <1>5, <1>6, <2>1
  <2>3. n * e <= top * e
    BY <2>2, ProductLe
  <2>4. QED  BY <1>1, <1>7, <2>1, <2>3, Zenon
<1>10. top * e <= MaxInt64
  <2>1. PICK p \in Ranks : top = OwnOutput(call, g, p)
    BY <1>2, <1>5, <1>6
  <2>2. QED  BY <1>1, <1>7, <2>1, Zenon
<1>11. QED
  BY <1>6, <1>7, <1>8, <1>9, <1>10, Zenon

\* What lands lies inside the window and comes from inside the input.
LEMMA LandsInside ==
    ASSUME call.b \in Nat \ {0}, Bytes \in Nat \ {0}, call.mode \in {0, 1}, NEW g \in GeometryType,
           NEW r \in Ranks, NEW p \in Ranks, NEW x, Lands(call.mode, g, r, p, x)
    PROVE  x[1] \in Nat /\ OutputBytes(g, p) \in Nat /\ x[1] < OutputBytes(g, p)
<1>1. SeqTotal(g) \in Nat /\ HeadTotal(g) \in Nat /\ g.seq[p] \in Nat /\ g.head[p] \in Nat
  BY GeometryNumbers
<1>2. CASE call.mode = 0
  <2>1. PICK k \in 0 .. call.b - 1, s \in 0 .. g.seq[r] - 1, i \in 0 .. g.head[p] * Bytes - 1 :
           x = <<InHeads(g, r, p, k, s, i), r, InRows(g, r, p, k, s, i)>>
    BY <1>2 DEF Lands, HeadsLand
  <2>2. x[1] = InHeads(g, r, p, k, s, i)
    BY <2>1
  <2>3. InHeads(g, r, p, k, s, i) \in Nat /\ InHeads(g, r, p, k, s, i) < (call.b * SeqTotal(g)) * (g.head[p] * Bytes)
    BY StripInside
  <2>4. OutputBytes(g, p) \in Nat
    <3>1. PICK a \in Nat, b \in Nat, c \in Nat, d \in Nat : a = call.b /\ b = SeqTotal(g) /\ c = g.head[p] /\ d = Bytes
      BY <1>1
    <3>2. (a * b) * (c * d) \in Nat
      OBVIOUS
    <3>3. QED  BY <1>2, <3>1, <3>2, Zenon DEF OutputBytes
  <2>5. QED  BY <1>2, <2>2, <2>3, <2>4, Zenon DEF OutputBytes
<1>3. CASE call.mode = 1
  <2>1. PICK k \in 0 .. call.b - 1, s \in 0 .. g.seq[p] - 1, i \in 0 .. g.head[r] * Bytes - 1 :
           x = <<InRows(g, p, r, k, s, i), r, InHeads(g, p, r, k, s, i)>>
    BY <1>3 DEF Lands, RowsLand
  <2>2. x[1] = InRows(g, p, r, k, s, i)
    BY <2>1
  <2>3. InRows(g, p, r, k, s, i) \in Nat /\ InRows(g, p, r, k, s, i) < (call.b * g.seq[p]) * (HeadTotal(g) * Bytes)
    BY StripInside
  <2>4. OutputBytes(g, p) = (call.b * g.seq[p]) * (HeadTotal(g) * Bytes)
    BY <1>3 DEF OutputBytes
  <2>5. OutputBytes(g, p) \in Nat
    <3>1. PICK a \in Nat, b \in Nat, c \in Nat, d \in Nat : a = call.b /\ b = g.seq[p] /\ c = HeadTotal(g) /\ d = Bytes
      BY <1>1
    <3>2. (a * b) * (c * d) \in Nat
      OBVIOUS
    <3>3. QED  BY <2>4, <3>1, <3>2, Zenon
  <2>6. QED  BY <2>2, <2>3, <2>4, <2>5, Zenon
<1>4. QED
  BY <1>2, <1>3

\* The windows are of one size and no copy leaves them (src/src/a2a_plan.cc
\* max_recv_numel, src/src/group.cc reserve).
THEOREM CopiesStayInside == Spec => []InsideWindow
<1>1. Inv => InsideWindow
  <2>1. SUFFICES ASSUME Inv, NEW r \in Ranks, NEW p \in Ranks, Planned(r)
                 PROVE  /\ Planned(p) => plan[p].numel = plan[r].numel
                        /\ \A m \in window[p] : m[1] < plan[r].numel * call.elem
    BY DEF InsideWindow
  <2>2. PICK g \in GeometryType :
           /\ \A t \in Ranks : g = Geometry(call, t)
           /\ call.mode \in {0, 1} /\ BytesFit(call, g)
           /\ call.b \in Nat \ {0} /\ call.d \in Nat \ {0} /\ call.elem \in Nat \ {0} /\ Bytes \in Nat \ {0}
           /\ \A t \in Ranks : Accepted(call, t)
    BY <2>1, PlannedIs
  <2>3. \A t \in Ranks : Planned(t) => plan[t].numel = Numel(call, g, t)
    BY <2>1, <2>2, CallIs, Verdicts
  <2>4. \A t \in Ranks : Numel(call, g, t) = Numel(call, g, r)
    BY DEF Numel
  <2>5. ASSUME NEW m \in window[p]  PROVE m[1] < plan[r].numel * call.elem
    <3>1. PICK t \in Ranks : Lands(call.mode, g, t, p, m)
      BY <2>1, <2>2, WindowIs
    <3>2. m[1] \in Nat /\ OutputBytes(g, p) \in Nat /\ m[1] < OutputBytes(g, p)
      BY <2>2, <3>1, LandsInside
    <3>3. PICK size : size = Numel(call, g, r) * call.elem
      OBVIOUS
    <3>4. size \in Nat /\ OutputBytes(g, p) <= size
      BY <2>2, <3>3, NumelIs
    <3>5. m[1] < size
      BY <3>2, <3>4
    <3>6. QED  BY <2>1, <2>3, <3>3, <3>5
  <2>6. QED  BY <2>1, <2>3, <2>4, <2>5
<1>2. QED
  BY <1>1, A2APlanInductive, PTL

\* The numbers and the ends of a plan's copies.
LEMMA FieldsFit ==
    ASSUME NEW g \in GeometryType, BytesFit(call, g),
           call.b \in Nat \ {0}, call.d \in Nat \ {0}, call.elem \in Nat \ {0}, Bytes \in Nat \ {0},
           NEW r \in Ranks, NEW p \in Ranks, NEW op \in Scatter(g, r, p) \cup Gather(g, r, p)
    PROVE  Max({op.srcPitch, op.dstPitch, op.width, op.srcSlice, op.dstSlice}) <= MaxInt64
<1>1. PICK S : S = {n \in Nat : n <= MaxInt64}
  OBVIOUS
<1>2. /\ SeqTotal(g) \in Nat /\ HeadTotal(g) \in Nat
      /\ \A t \in Ranks : /\ g.seq[t] \in Nat /\ g.head[t] \in Nat
                          /\ g.seq[t] <= SeqTotal(g) /\ g.head[t] <= HeadTotal(g)
  BY GeometryNumbers
<1>3. ASSUME NEW x \in Nat, x <= 1 \/ x <= SeqTotal(g), NEW y \in Nat, y <= 1 \/ y <= HeadTotal(g)
      PROVE  x * (y * Bytes) \in S
  <2>1. 1 \in Nat /\ 1 <= call.b
    OBVIOUS
  <2>2. (1 * x) * (y * Bytes) \in Nat /\ (1 * x) * (y * Bytes) <= MaxInt64
    BY <1>2, <1>3, <2>1, Bounded
  <2>3. 1 * x = x
    OBVIOUS
  <2>4. QED  BY <1>1, <2>2, <2>3
<1>4. ASSUME NEW y \in Nat, y <= HeadTotal(g)  PROVE y * Bytes \in S
  <2>1. 1 * (y * Bytes) \in S
    BY <1>3, <1>4
  <2>2. PICK bytes \in Nat : bytes = Bytes
    OBVIOUS
  <2>3. 1 * (y * bytes) = y * bytes
    OBVIOUS
  <2>4. QED  BY <2>1, <2>2, <2>3, Zenon
<1>5. 0 \in S
  BY <1>1, PlanAssumption
<1>6. ASSUME NEW x \in Nat  PROVE x * HeadTotal(g) * Bytes = x * (HeadTotal(g) * Bytes)
  <2>1. PICK h \in Nat, bytes \in Nat : h = HeadTotal(g) /\ bytes = Bytes
    BY <1>2
  <2>2. x * h * bytes = x * (h * bytes)
    OBVIOUS
  <2>3. QED  BY <2>1, <2>2, Zenon
<1>7. /\ op.srcPitch \in S /\ op.dstPitch \in S /\ op.width \in S /\ op.srcSlice \in S /\ op.dstSlice \in S
  <2>1. CASE op \in Scatter(g, r, p)
    <3>1. /\ op.srcPitch = HeadTotal(g) * Bytes /\ op.dstPitch = g.head[p] * Bytes /\ op.width = g.head[p] * Bytes
          /\ op.srcSlice \in {0, g.seq[r] * HeadTotal(g) * Bytes}
          /\ op.dstSlice \in {0, SeqTotal(g) * (g.head[p] * Bytes)}
      <4>1. PICK pitch, row, x, y :
               /\ pitch = HeadTotal(g) * Bytes /\ row = g.head[p] * Bytes
               /\ x = g.seq[r] * HeadTotal(g) * Bytes /\ y = SeqTotal(g) * (g.head[p] * Bytes)
        OBVIOUS
      <4>2. PICK src, dst : op \in Batched(Copy(p, src, pitch, dst, row, row, g.seq[r]), x, y)
        BY <2>1, <4>1, Zenon DEF Scatter
      <4>3. /\ op.srcPitch = pitch /\ op.dstPitch = row /\ op.width = row
            /\ op.srcSlice \in {0, x} /\ op.dstSlice \in {0, y}
        BY <4>2, BatchedIs
      <4>4. QED  BY <4>1, <4>3, Zenon
    <3>2. g.seq[r] * HeadTotal(g) * Bytes \in S
      <4>1. g.seq[r] * (HeadTotal(g) * Bytes) \in S
        BY <1>2, <1>3
      <4>2. QED  BY <1>2, <1>6, <4>1
    <3>3. SeqTotal(g) * (g.head[p] * Bytes) \in S
      BY <1>2, <1>3
    <3>4. HeadTotal(g) * Bytes \in S /\ g.head[p] * Bytes \in S
      BY <1>2, <1>4
    <3>5. QED  BY <1>5, <3>1, <3>2, <3>3, <3>4, Zenon
  <2>2. CASE op \in Gather(g, r, p)
    <3>1. /\ op.srcPitch = g.head[r] * Bytes /\ op.dstPitch = HeadTotal(g) * Bytes /\ op.width = g.head[r] * Bytes
          /\ op.srcSlice \in {0, SeqTotal(g) * (g.head[r] * Bytes)}
          /\ op.dstSlice \in {0, g.seq[p] * HeadTotal(g) * Bytes}
      <4>1. PICK pitch, row, x, y :
               /\ pitch = HeadTotal(g) * Bytes /\ row = g.head[r] * Bytes
               /\ x = SeqTotal(g) * (g.head[r] * Bytes) /\ y = g.seq[p] * HeadTotal(g) * Bytes
        OBVIOUS
      <4>2. PICK src, dst : op \in Batched(Copy(p, src, row, dst, pitch, row, g.seq[p]), x, y)
        BY <2>2, <4>1, Zenon DEF Gather
      <4>3. /\ op.srcPitch = row /\ op.dstPitch = pitch /\ op.width = row
            /\ op.srcSlice \in {0, x} /\ op.dstSlice \in {0, y}
        BY <4>2, BatchedIs
      <4>4. QED  BY <4>1, <4>3, Zenon
    <3>2. g.seq[p] * HeadTotal(g) * Bytes \in S
      <4>1. g.seq[p] * (HeadTotal(g) * Bytes) \in S
        BY <1>2, <1>3
      <4>2. QED  BY <1>2, <1>6, <4>1
    <3>3. SeqTotal(g) * (g.head[r] * Bytes) \in S
      BY <1>2, <1>3
    <3>4. HeadTotal(g) * Bytes \in S /\ g.head[r] * Bytes \in S
      BY <1>2, <1>4
    <3>5. QED  BY <1>5, <3>1, <3>2, <3>3, <3>4, Zenon
  <2>3. QED  BY <2>1, <2>2
<1>8. PICK T : T = {op.srcPitch, op.dstPitch, op.width, op.srcSlice, op.dstSlice}
  OBVIOUS
<1>9. T \in SUBSET Nat /\ T # {} /\ (\A n \in T : n <= MaxInt64) /\ MaxInt64 \in Nat
  BY <1>1, <1>7, <1>8, PlanAssumption
<1>10. Max(T) \in T
  BY <1>9, GreatestIs
<1>11. QED
  BY <1>8, <1>9, <1>10

\* Every byte a copy moves, and where it starts, is inside a tensor whose bytes fit.
LEMMA EndsFit ==
    ASSUME NEW g \in GeometryType, BytesFit(call, g),
           call.b \in Nat \ {0}, call.d \in Nat \ {0}, call.elem \in Nat \ {0}, Bytes \in Nat \ {0},
           NEW r \in Ranks, NEW p \in Ranks, NEW op \in Scatter(g, r, p) \cup Gather(g, r, p),
           NEW m \in {<<op.src, op.dst>>} \cup Moves(op)
    PROVE  m[1] <= MaxInt64 /\ m[2] <= MaxInt64
<1>1. ASSUME NEW q \in Ranks, NEW t \in Ranks, NEW k \in 0 .. call.b - 1, NEW s \in 0 .. g.seq[q] - 1,
             NEW i \in 0 .. g.head[t] * Bytes - 1
      PROVE  InHeads(g, q, t, k, s, i) <= MaxInt64 /\ InRows(g, q, t, k, s, i) <= MaxInt64
  <2>1. PICK a, b : a = InHeads(g, q, t, k, s, i) /\ b = InRows(g, q, t, k, s, i)
    OBVIOUS
  <2>2. PICK c, d : c = (call.b * SeqTotal(g)) * (g.head[t] * Bytes) /\ d = (call.b * g.seq[q]) * (HeadTotal(g) * Bytes)
    OBVIOUS
  <2>3. a \in Nat /\ b \in Nat /\ a < c /\ b < d
    BY <2>1, <2>2, StripInside
  <2>4. SeqTotal(g) \in Nat /\ HeadTotal(g) \in Nat /\ g.seq[q] \in Nat /\ g.head[t] \in Nat
        /\ g.seq[q] <= SeqTotal(g) /\ g.head[t] <= HeadTotal(g)
    BY GeometryNumbers
  <2>5. call.b \in Nat /\ call.b <= call.b
    OBVIOUS
  <2>6. c \in Nat /\ c <= MaxInt64
    <3>1. SeqTotal(g) <= 1 \/ SeqTotal(g) <= SeqTotal(g)
      BY <2>4
    <3>2. QED  BY <2>2, <2>4, <2>5, <3>1, Bounded, Zenon
  <2>7. d \in Nat /\ d <= MaxInt64
    <3>1. HeadTotal(g) <= 1 \/ HeadTotal(g) <= HeadTotal(g)
      BY <2>4
    <3>2. QED  BY <2>2, <2>4, <2>5, <3>1, Bounded, Zenon
  <2>8. QED  BY <2>1, <2>3, <2>6, <2>7, PlanAssumption
<1>2. ASSUME NEW x \in Moves(op)  PROVE x[1] <= MaxInt64 /\ x[2] <= MaxInt64
  <2>1. CASE op \in Scatter(g, r, p)
    <3>1. Strip(g, r, p, x)
      BY <1>2, <2>1, ScatterMoves
    <3>2. PICK k \in 0 .. call.b - 1, s \in 0 .. g.seq[r] - 1, i \in 0 .. g.head[p] * Bytes - 1 :
             x = <<InHeads(g, r, p, k, s, i), InRows(g, r, p, k, s, i)>>
      BY <3>1 DEF Strip
    <3>3. QED  BY <1>1, <3>2
  <2>2. CASE op \in Gather(g, r, p)
    <3>1. Reverse(g, p, r, x)
      BY <1>2, <2>2, GatherMoves
    <3>2. PICK k \in 0 .. call.b - 1, s \in 0 .. g.seq[p] - 1, i \in 0 .. g.head[r] * Bytes - 1 :
             x = <<InRows(g, p, r, k, s, i), InHeads(g, p, r, k, s, i)>>
      BY <3>1 DEF Reverse
    <3>3. QED  BY <1>1, <3>2
  <2>3. QED  BY <2>1, <2>2
<1>3. <<op.dst, op.src>> \in Moves(op)
  BY ScatterMoves, GatherMoves
<1>4. op.dst <= MaxInt64 /\ op.src <= MaxInt64
  <2>1. PICK x : x = <<op.dst, op.src>>
    OBVIOUS
  <2>2. QED  BY <1>2, <1>3, <2>1
<1>5. CASE m = <<op.src, op.dst>>
  BY <1>4, <1>5
<1>6. QED
  BY <1>2, <1>5

\* No number of a plan, nor the end of a copy, is past what the code's integers
\* hold (src/src/a2a_plan.cc check_byte_products).
THEOREM NumbersFit == Spec => []FitsInt64
<1>1. Inv => FitsInt64
  <2>1. SUFFICES ASSUME Inv, NEW r \in Ranks, Planned(r)
                 PROVE  /\ plan[r].numel * call.elem <= MaxInt64
                        /\ \A op \in plan[r].ops :
                              /\ Max({op.srcPitch, op.dstPitch, op.width, op.srcSlice, op.dstSlice}) <= MaxInt64
                              /\ \A m \in {<<op.src, op.dst>>} \cup Moves(op) : m[1] <= MaxInt64 /\ m[2] <= MaxInt64
    BY Zenon DEF FitsInt64
  <2>2. PICK g \in GeometryType :
           /\ \A t \in Ranks : g = Geometry(call, t)
           /\ call.mode \in {0, 1} /\ BytesFit(call, g)
           /\ call.b \in Nat \ {0} /\ call.d \in Nat \ {0} /\ call.elem \in Nat \ {0} /\ Bytes \in Nat \ {0}
           /\ \A t \in Ranks : Accepted(call, t)
    BY <2>1, PlannedIs
  <2>3. plan[r] = PlanFor(call, r) /\ plan[r].numel = Numel(call, g, r)
    BY <2>1, <2>2, CallIs, Verdicts
  <2>4. Numel(call, g, r) * call.elem <= MaxInt64
    BY <2>2, NumelIs
  <2>5. ASSUME NEW op \in plan[r].ops
        PROVE  /\ Max({op.srcPitch, op.dstPitch, op.width, op.srcSlice, op.dstSlice}) <= MaxInt64
               /\ \A m \in {<<op.src, op.dst>>} \cup Moves(op) : m[1] <= MaxInt64 /\ m[2] <= MaxInt64
    <3>1. PICK p \in Ranks : op \in Scatter(g, r, p) \cup Gather(g, r, p)
      <4>1. PlanFor(call, r).ops = UNION {IF call.mode = 0 THEN Scatter(g, r, p) ELSE Gather(g, r, p) : p \in Ranks}
        BY <2>2, Zenon DEF PlanFor
      <4>2. PICK p \in Ranks : op \in IF call.mode = 0 THEN Scatter(g, r, p) ELSE Gather(g, r, p)
        BY <2>3, <2>5, <4>1
      <4>3. QED  BY <4>2
    <3>2. Max({op.srcPitch, op.dstPitch, op.width, op.srcSlice, op.dstSlice}) <= MaxInt64
      BY <2>2, <3>1, FieldsFit
    <3>3. ASSUME NEW m \in {<<op.src, op.dst>>} \cup Moves(op)  PROVE m[1] <= MaxInt64 /\ m[2] <= MaxInt64
      BY <2>2, <3>1, EndsFit
    <3>4. QED  BY <3>2, <3>3
  <2>6. QED  BY <2>3, <2>4, <2>5
<1>2. QED
  BY <1>1, A2APlanInductive, PTL

\* A byte of the output goes back to where it came from.
LEMMA ReturnIs ==
    ASSUME call.b \in Nat \ {0}, Bytes \in Nat \ {0}, NEW g \in GeometryType,
           NEW r \in Ranks, NEW p \in Ranks, NEW x, NEW mode \in {0, 1}
    PROVE  Lands(1 - mode, g, r, p, x) <=> \E m : Lands(mode, g, p, r, m) /\ x = <<m[3], r, m[1]>>
<1>1. \A m : /\ HeadsLand(g, p, r, m) <=> \E y, z : Shared(g, p, r, y, z) /\ m = <<y, p, z>>
             /\ RowsLand(g, p, r, m) <=> \E y, z : Shared(g, r, p, y, z) /\ m = <<z, p, y>>
  BY LandsIs
<1>2. /\ HeadsLand(g, r, p, x) <=> \E y, z : Shared(g, r, p, y, z) /\ x = <<y, r, z>>
      /\ RowsLand(g, r, p, x) <=> \E y, z : Shared(g, p, r, y, z) /\ x = <<z, r, y>>
  BY LandsIs
<1>3. (\E m : HeadsLand(g, p, r, m) /\ x = <<m[3], r, m[1]>>) <=> \E y, z : Shared(g, p, r, y, z) /\ x = <<z, r, y>>
  <2>1. ASSUME NEW m, HeadsLand(g, p, r, m), x = <<m[3], r, m[1]>>
        PROVE  \E y, z : Shared(g, p, r, y, z) /\ x = <<z, r, y>>
    <3>1. PICK y, z : Shared(g, p, r, y, z) /\ m = <<y, p, z>>
      BY <1>1, <2>1
    <3>2. x = <<z, r, y>>
      BY <2>1, <3>1
    <3>3. QED  BY <3>1, <3>2
  <2>2. ASSUME NEW y, NEW z, Shared(g, p, r, y, z), x = <<z, r, y>>
        PROVE  \E m : HeadsLand(g, p, r, m) /\ x = <<m[3], r, m[1]>>
    <3>1. PICK m : m = <<y, p, z>>
      OBVIOUS
    <3>2. HeadsLand(g, p, r, m)
      BY <1>1, <2>2, <3>1
    <3>3. x = <<m[3], r, m[1]>>
      BY <2>2, <3>1
    <3>4. QED  BY <3>2, <3>3
  <2>3. QED  BY <2>1, <2>2
<1>4. (\E m : RowsLand(g, p, r, m) /\ x = <<m[3], r, m[1]>>) <=> \E y, z : Shared(g, r, p, y, z) /\ x = <<y, r, z>>
  <2>1. ASSUME NEW m, RowsLand(g, p, r, m), x = <<m[3], r, m[1]>>
        PROVE  \E y, z : Shared(g, r, p, y, z) /\ x = <<y, r, z>>
    <3>1. PICK y, z : Shared(g, r, p, y, z) /\ m = <<z, p, y>>
      BY <1>1, <2>1
    <3>2. x = <<y, r, z>>
      BY <2>1, <3>1
    <3>3. QED  BY <3>1, <3>2
  <2>2. ASSUME NEW y, NEW z, Shared(g, r, p, y, z), x = <<y, r, z>>
        PROVE  \E m : RowsLand(g, p, r, m) /\ x = <<m[3], r, m[1]>>
    <3>1. PICK m : m = <<z, p, y>>
      OBVIOUS
    <3>2. RowsLand(g, p, r, m)
      BY <1>1, <2>2, <3>1
    <3>3. x = <<m[3], r, m[1]>>
      BY <2>2, <3>1
    <3>4. QED  BY <3>2, <3>3
  <2>3. QED  BY <2>1, <2>2
<1>5. CASE mode = 0
  <2>1. 1 - mode = 1
    BY <1>5
  <2>2. QED  BY <1>2, <1>3, <1>5, <2>1 DEF Lands
<1>6. CASE mode = 1
  <2>1. 1 - mode = 0
    BY <1>6
  <2>2. QED  BY <1>2, <1>4, <1>6, <2>1 DEF Lands
<1>7. QED
  BY <1>5, <1>6

\* Whose byte it is that lands is written beside it.
LEMMA LandsFrom ==
    ASSUME NEW mode, NEW g, NEW r, NEW p, NEW m, Lands(mode, g, r, p, m)
    PROVE  m[2] = r
<1>1. CASE mode = 0
  BY <1>1 DEF Lands, HeadsLand
<1>2. CASE mode # 0
  BY <1>2 DEF Lands, RowsLand
<1>3. QED
  BY <1>1, <1>2

\* What is known of a rank's backward once it is sent.
LEMMA BackIs ==
    ASSUME Inv, NEW r \in Ranks, back[r] # Unplanned
    PROVE  /\ \A t \in Ranks : Planned(t)
           /\ back[r] = PlanFor(Backward(r), r) /\ Accepted(Backward(r), r) /\ Like(Backward(r))
           /\ Backward(r).mode = 1 - call.mode /\ Geometry(Backward(r), r) = Geometry(call, r)
<1>1. back[r] = PlanFor(Backward(r), r) /\ \A t \in Ranks : Planned(t)
  BY DEF Inv
<1>2. call \in CallType /\ Agreed(call) /\ plan[r] = PlanFor(call, r) /\ Accepted(call, r)
  BY <1>1, CallIs
<1>3. QED
  BY <1>1, <1>2, BackwardIs

\* A backward is accepted, and it is the adjoint of the forward
\* (src/src/bindings.cc A2AFunction::backward).
THEOREM BackwardUndoes == Spec => []BackwardIsAdjoint
<1>1. Inv => BackwardIsAdjoint
  <2>1. SUFFICES ASSUME Inv  PROVE BackwardIsAdjoint
    OBVIOUS
  <2>2. ASSUME NEW r \in Ranks  PROVE back[r].is # "refused"
    <3>1. CASE back[r] = Unplanned
      BY <3>1, Verdicts
    <3>2. CASE back[r] # Unplanned
      <4>1. PICK c : c = Backward(r)
        OBVIOUS
      <4>2. back[r] = PlanFor(c, r) /\ Accepted(c, r)
        BY <2>1, <3>2, <4>1, BackIs
      <4>3. QED  BY <4>2, Verdicts
    <3>3. QED  BY <3>1, <3>2
  <2>3. ASSUME \A r \in Ranks : back[r].is = "planned", NEW p \in Ranks, NEW x
        PROVE  x \in gradient[p] <=> \E r \in Ranks : \E m \in window[r] : m[2] = p /\ x = <<m[3], r, m[1]>>
    <3>1. \A r \in Ranks : back[r] # Unplanned
      BY <2>3, Verdicts
    <3>2. \A t \in Ranks : Planned(t)
      BY <2>1, <2>3, <3>1, BackIs
    <3>3. PICK g \in GeometryType : /\ \A t \in Ranks : g = Geometry(call, t)
                                    /\ call.mode \in {0, 1} /\ call.b \in Nat \ {0} /\ Bytes \in Nat \ {0}
      BY <2>1, <2>3, <3>2, PlannedIs
    <3>4. x \in gradient[p] <=> \E r \in Ranks : x \in Landing(r, p, back[r].ops)
      BY <2>1 DEF Inv, Holds
    <3>5. ASSUME NEW r \in Ranks
          PROVE  x \in Landing(r, p, back[r].ops) <=>
                 \E m \in window[r] : m[2] = p /\ x = <<m[3], r, m[1]>>
      <4>1. PICK c : c = Backward(r)
        OBVIOUS
      <4>2. back[r] = PlanFor(c, r) /\ Accepted(c, r) /\ Like(c) /\ c.mode = 1 - call.mode /\ Geometry(c, r) = g
        BY <2>1, <3>1, <3>3, <4>1, BackIs
      <4>3. x \in Landing(r, p, back[r].ops) <=> Lands(1 - call.mode, g, r, p, x)
        BY <4>2, LandingIs DEF Lands
      <4>4. Lands(1 - call.mode, g, r, p, x) <=> \E m : Lands(call.mode, g, p, r, m) /\ x = <<m[3], r, m[1]>>
        BY <3>3, ReturnIs
      <4>5. ASSUME NEW m
            PROVE  Lands(call.mode, g, p, r, m) <=> m \in window[r] /\ m[2] = p
        <5>1. m \in window[r] <=> \E t \in Ranks : Lands(call.mode, g, t, r, m)
          BY <2>1, <3>2, <3>3, WindowIs
        <5>2. \A t \in Ranks : Lands(call.mode, g, t, r, m) => m[2] = t
          BY LandsFrom
        <5>3. QED  BY <5>1, <5>2
      <4>6. QED  BY <4>3, <4>4, <4>5
    <3>6. QED  BY <3>4, <3>5
  <2>4. ASSUME \A r \in Ranks : back[r].is = "planned", NEW p \in Ranks
        PROVE  gradient[p] = UNION {{<<m[3], r, m[1]>> : m \in {w \in window[r] : w[2] = p}} : r \in Ranks}
    <3>1. \A x : x \in gradient[p] <=> \E r \in Ranks : \E m \in window[r] : m[2] = p /\ x = <<m[3], r, m[1]>>
      BY <2>3, <2>4
    <3>2. QED  BY <3>1
  <2>5. QED  BY <2>2, <2>4 DEF BackwardIsAdjoint
<1>2. QED
  BY <1>1, A2APlanInductive, PTL
==============================================================================
