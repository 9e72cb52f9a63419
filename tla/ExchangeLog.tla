----------------------------- MODULE ExchangeLog -----------------------------
(***************************************************************************)
(* What the streams of one rank owe to the order in which its host         *)
(* submits, for any number of ranks and any program the contract allows.   *)
(*                                                                         *)
(* A stream runs what it was given in the order it was given, so all that  *)
(* a rank ever does is told by the log of what its host submitted: an      *)
(* operation has a position in the log of its stream, for good, and a wait *)
(* is for a position.  The order between two operations is then a fact     *)
(* about the log alone (Before), which steps of the streams cannot change. *)
(* What is in the log depends on the order in which a rank visits its      *)
(* peers, so that order comes first.                                       *)
(***************************************************************************)
EXTENDS Exchange, FiniteSetTheorems, TLAPS

------------------------------------------------------------------------------
(* The order in which a rank visits its peers: the XOR loop and the sweep. *)

\* A set of numbers that is not empty has a least one.
LEMMA LeastNat ==
    ASSUME NEW S \in SUBSET Nat, S # {}
    PROVE  \E x \in S : \A y \in S : x <= y
<1>1. PICK top \in S : TRUE
  OBVIOUS
<1> DEFINE low == S \cap 0..top
           upto(y) == S \cap 0..y
           family == {upto(y) : y \in low}
<1>2. \E T \in family : \A U \in family : ~ (<<U, T>> \in StrictSubsetOrdering(low))
  <2>1. IsFiniteSet(low)
    <3>1. IsFiniteSet(0..top)
      BY FS_Interval
    <3>2. QED  BY <3>1, FS_Subset
  <2>2. family \subseteq SUBSET low
    BY <1>1
  <2>3. upto(top) \in family
    BY <1>1
  <2>4. IsWellFoundedOn(StrictSubsetOrdering(low), SUBSET low)
    BY <2>1, FS_StrictSubsetOrderingWellFounded, FS_FiniteSubsetsOfFinite
  <2> HIDE DEF family, low, upto
  <2>5. QED  BY <2>2, <2>3, <2>4, WFMin
<1>3. PICK x \in low : \A U \in family : ~ (<<U, upto(x)>> \in StrictSubsetOrdering(low))
  BY <1>2
<1>4. ASSUME NEW y \in S, y < x  PROVE FALSE
  <2>1. x \in Nat /\ y \in Nat /\ x <= top /\ y \in low /\ top \in Nat
    BY <1>1, <1>4
  <2>2. upto(y) \in family /\ upto(y) \subseteq upto(x) /\ upto(x) \subseteq low
    BY <1>4, <2>1
  <2>3. x \in upto(x) /\ x \notin upto(y)
    BY <1>4, <2>1
  <2>4. <<upto(y), upto(x)>> \in StrictSubsetOrdering(low)
    BY <2>2, <2>3 DEF StrictSubsetOrdering
  <2>5. QED  BY <1>3, <2>2, <2>4
<1>5. QED
  BY <1>4

------------------------------------------------------------------------------
(* A loop that skips. *)

\* What the loop has after it went through k - 1, from what it had before.
Longer(S, k, q) == IF k - 1 \in S THEN Append(q, k - 1) ELSE q

\* f tells what the loop has after each number below n.
IsLoop(f, S, n) == f = [k \in 0 .. n |-> IF k = 0 THEN <<>> ELSE Longer(S, k, f[k - 1])]

\* The loop can be told so.
LEMMA LoopExists ==
    ASSUME NEW S, NEW n \in Nat
    PROVE  \E f : IsLoop(f, S, n)
<1> DEFINE bad == {m \in Nat : ~ \E f : IsLoop(f, S, m)}
<1>1. SUFFICES ASSUME bad # {}  PROVE FALSE
  OBVIOUS
<1>2. PICK m \in bad : \A k \in bad : m <= k
  BY <1>1, LeastNat
<1>3. m # 0
  <2>1. IsLoop([k \in 0 .. 0 |-> <<>>], S, 0)
    BY DEF IsLoop
  <2>2. QED  BY <2>1
<1>4. m - 1 \in Nat /\ m - 1 \notin bad
  BY <1>2, <1>3
<1>5. PICK f : IsLoop(f, S, m - 1)
  BY <1>4
<1>6. PICK g : g = [k \in 0 .. m |-> IF k < m THEN f[k] ELSE Longer(S, m, f[m - 1])]
  OBVIOUS
<1>7. ASSUME NEW k \in 0 .. m
      PROVE  g[k] = IF k = 0 THEN <<>> ELSE Longer(S, k, g[k - 1])
  <2>1. CASE k = m
    BY <1>3, <1>4, <1>6, <2>1
  <2>2. CASE k # m
    <3>1. k \in 0 .. m - 1 /\ (k # 0 => k - 1 \in 0 .. m /\ k - 1 < m) /\ k < m
      BY <2>2, <1>4
    <3>2. f[k] = IF k = 0 THEN <<>> ELSE Longer(S, k, f[k - 1])
      BY <1>5, <3>1 DEF IsLoop
    <3>3. QED  BY <1>6, <3>1, <3>2
  <2>3. QED  BY <2>1, <2>2
<1>8. IsLoop(g, S, m)
  BY <1>6, <1>7 DEF IsLoop
<1>9. QED
  BY <1>8

\* The loop collects the members of S, each once, the smaller first.
LEMMA InOrderIs ==
    ASSUME NEW S \in SUBSET Nat, NEW n \in Nat
    PROVE  /\ InOrder(S, n) \in Seq(S)
           /\ \A i, j \in DOMAIN InOrder(S, n) : i < j => InOrder(S, n)[i] < InOrder(S, n)[j]
           /\ \A x \in S : x < n => \E i \in DOMAIN InOrder(S, n) : InOrder(S, n)[i] = x
<1> DEFINE P(f) == IsLoop(f, S, n)
<1>1. \E f : P(f)
  BY LoopExists
<1>8. ASSUME NEW q \in Seq(S)
      PROVE  DOMAIN q = 1 .. Len(q) /\ Len(q) \in Nat /\ \A i \in 1 .. Len(q) : q[i] \in S /\ q[i] \in Nat
  <2>1. DOMAIN q = 1 .. Len(q) /\ Len(q) \in Nat
    BY <1>8
  <2>2. \A i \in 1 .. Len(q) : q[i] \in S
    BY <1>8
  <2>3. \A x \in S : x \in Nat
    OBVIOUS
  <2>4. QED  BY <2>1, <2>2, <2>3
<1>2. PICK f : P(f) /\ InOrder(S, n) = f[n]
  <2>1. P(CHOOSE f : P(f))
    <3> HIDE DEF P
    <3> QED BY <1>1
  <2>2. InOrder(S, n) = (CHOOSE f : P(f))[n]
    BY DEF InOrder, IsLoop, Longer
  <2>3. QED  BY <2>1, <2>2
<1> DEFINE Ok(k) == /\ f[k] \in Seq(S)
                    /\ \A i \in DOMAIN f[k] : f[k][i] < k
                    /\ \A i, j \in DOMAIN f[k] : i < j => f[k][i] < f[k][j]
                    /\ \A x \in S : x < k => \E i \in DOMAIN f[k] : f[k][i] = x
           bad == {k \in 0 .. n : ~ Ok(k)}
<1>3. ASSUME NEW k \in 0 .. n
      PROVE  f[k] = IF k = 0 THEN <<>> ELSE Longer(S, k, f[k - 1])
  BY <1>2 DEF IsLoop
<1>4. Ok(0)
  <2>1. f[0] = <<>>
    BY <1>3
  <2>2. <<>> \in Seq(S) /\ DOMAIN <<>> = {}
    OBVIOUS
  <2>3. QED  BY <2>1, <2>2
<1>5. ASSUME NEW k \in 1 .. n, Ok(k - 1)  PROVE Ok(k)
  <2>1. PICK q : q = f[k - 1]
    OBVIOUS
  <2>2. /\ q \in Seq(S) /\ k \in Nat
        /\ \A i \in DOMAIN q : q[i] < k - 1
        /\ \A i, j \in DOMAIN q : i < j => q[i] < q[j]
        /\ \A x \in S : x < k - 1 => \E i \in DOMAIN q : q[i] = x
    BY <1>5, <2>1
  <2>3. f[k] = Longer(S, k, q)
    BY <1>3, <2>1
  <2> HIDE DEF Ok
  <2>8. DOMAIN q = 1 .. Len(q) /\ Len(q) \in Nat /\ \A i \in DOMAIN q : q[i] \in S /\ q[i] \in Nat
    BY <2>2, <1>8
  <2>4. CASE k - 1 \notin S
    <3>1. f[k] = q
      BY <2>3, <2>4 DEF Longer
    <3>2. \A i \in DOMAIN q : q[i] \in Nat
      BY <2>8
    <3>3. \A x \in S : x < k => x < k - 1
      BY <2>2, <2>4
    <3>4. \A i \in DOMAIN q : q[i] < k
      BY <2>2, <3>2
    <3>5. QED  BY <2>2, <3>1, <3>3, <3>4 DEF Ok
  <2>5. CASE k - 1 \in S
    <3>1. PICK z : z = Append(q, k - 1)
      OBVIOUS
    <3>2. /\ z \in Seq(S) /\ DOMAIN z = 1 .. Len(q) + 1 /\ DOMAIN q = 1 .. Len(q) /\ Len(q) \in Nat
          /\ z[Len(q) + 1] = k - 1 /\ \A i \in 1 .. Len(q) : z[i] = q[i] /\ z[i] \in Nat
      BY <2>2, <2>5, <2>8, <3>1
    <3>3. \A i \in DOMAIN z : z[i] < k
      BY <2>2, <3>2
    <3>4. \A i, j \in DOMAIN z : i < j => z[i] < z[j]
      BY <2>2, <3>2
    <3>5. ASSUME NEW x \in S, x < k  PROVE \E i \in DOMAIN z : z[i] = x
      <4>1. CASE x = k - 1
        BY <3>2, <4>1
      <4>2. CASE x < k - 1
        BY <2>2, <3>2, <4>2
      <4>3. QED  BY <2>2, <3>5, <4>1, <4>2
    <3>6. f[k] = z
      BY <2>3, <2>5, <3>1 DEF Longer
    <3>7. QED  BY <3>2, <3>3, <3>4, <3>5, <3>6 DEF Ok
  <2>6. QED  BY <2>4, <2>5
<1>6. Ok(n)
  <2> HIDE DEF Ok
  <2>1. SUFFICES ASSUME bad # {}  PROVE FALSE
    OBVIOUS
  <2>6. bad \in SUBSET Nat
    OBVIOUS
  <2> HIDE DEF bad
  <2>2. PICK k \in bad : \A m \in bad : k <= m
    BY <2>1, <2>6, LeastNat
  <2> USE DEF bad
  <2>3. k # 0
    BY <1>4
  <2>4. k \in 1 .. n /\ k - 1 \in 0 .. n /\ k - 1 \notin bad
    BY <2>2, <2>3
  <2>5. QED  BY <1>5, <2>2, <2>4
<1>7. QED
  BY <1>2, <1>6

------------------------------------------------------------------------------
(* Visiting the peers. *)

\* A number of three bits is told by its bits.
LEMMA Bits ==
    ASSUME NEW a \in 0 .. 7
    PROVE  /\ Bit(a, 1) \in {0, 1} /\ Bit(a, 2) \in {0, 1} /\ Bit(a, 4) \in {0, 1}
           /\ a = Bit(a, 1) + 2 * Bit(a, 2) + 4 * Bit(a, 4)
BY DEF Bit

\* Two such numbers with the same bits are the same.
LEMMA SameBits ==
    ASSUME NEW a \in 0 .. 7, NEW b \in 0 .. 7, \A v \in {1, 2, 4} : Bit(a, v) = Bit(b, v)
    PROVE  a = b
<1>1. Bit(a, 1) = Bit(b, 1) /\ Bit(a, 2) = Bit(b, 2) /\ Bit(a, 4) = Bit(b, 4)
  OBVIOUS
<1>2. /\ a = Bit(a, 1) + 2 * Bit(a, 2) + 4 * Bit(a, 4)
      /\ b = Bit(b, 1) + 2 * Bit(b, 2) + 4 * Bit(b, 4)
  BY Bits
<1>3. QED
  BY <1>1, <1>2

\* The bits of an exclusive or are where those of its arguments differ.
LEMMA XorBits ==
    ASSUME NEW a \in 0 .. 7, NEW b \in 0 .. 7
    PROVE  /\ Xor(a, b) \in 0 .. 7
           /\ \A v \in {1, 2, 4} : Bit(Xor(a, b), v) = IF Bit(a, v) # Bit(b, v) THEN 1 ELSE 0
<1>1. ASSUME NEW x \in {0, 1}, NEW y \in {0, 1}, NEW z \in {0, 1}
      PROVE  /\ x + 2 * y + 4 * z \in 0 .. 7
             /\ Bit(x + 2 * y + 4 * z, 1) = x /\ Bit(x + 2 * y + 4 * z, 2) = y
             /\ Bit(x + 2 * y + 4 * z, 4) = z
  BY DEF Bit
<1>2. PICK d \in [{1, 2, 4} -> {0, 1}] : \A v \in {1, 2, 4} : d[v] = IF Bit(a, v) # Bit(b, v) THEN 1 ELSE 0
  <2>1. [v \in {1, 2, 4} |-> IF Bit(a, v) # Bit(b, v) THEN 1 ELSE 0] \in [{1, 2, 4} -> {0, 1}]
    OBVIOUS
  <2>2. QED  BY <2>1
<1>3. d[1] \in {0, 1} /\ d[2] \in {0, 1} /\ d[4] \in {0, 1}
  BY <1>2
<1>4. Xor(a, b) = d[1] + 2 * d[2] + 4 * d[4]
  BY <1>2, <1>3 DEF Xor
<1>5. QED
  BY <1>1, <1>2, <1>3, <1>4

\* Xor is commutative, undoes itself, and is 0 of equal numbers only.
LEMMA XorFacts ==
    ASSUME NEW a \in 0 .. 7, NEW b \in 0 .. 7
    PROVE  /\ Xor(a, b) \in 0 .. 7 /\ Xor(a, b) = Xor(b, a)
           /\ Xor(a, Xor(a, b)) = b
           /\ Xor(a, b) = 0 <=> a = b
<1>1. PICK x, y, z : x = Xor(a, b) /\ y = Xor(b, a) /\ z = Xor(a, x)
  OBVIOUS
<1>2. x \in 0 .. 7 /\ y \in 0 .. 7
  BY <1>1, XorBits
<1>3. z \in 0 .. 7
  BY <1>1, <1>2, XorBits
<1>4. ASSUME NEW v \in {1, 2, 4}
      PROVE  /\ Bit(y, v) = Bit(x, v) /\ Bit(z, v) = Bit(b, v)
             /\ Bit(x, v) = 0 <=> Bit(a, v) = Bit(b, v)
  <2>1. Bit(a, v) \in {0, 1} /\ Bit(b, v) \in {0, 1}
    BY Bits
  <2>2. Bit(x, v) = IF Bit(a, v) # Bit(b, v) THEN 1 ELSE 0
    BY <1>1, XorBits
  <2>3. Bit(y, v) = IF Bit(b, v) # Bit(a, v) THEN 1 ELSE 0
    BY <1>1, XorBits
  <2>4. Bit(z, v) = IF Bit(a, v) # Bit(x, v) THEN 1 ELSE 0
    BY <1>1, <1>2, XorBits
  <2>5. QED  BY <2>1, <2>2, <2>3, <2>4
<1>5. y = x
  BY <1>2, <1>4, SameBits
<1>6. z = b
  BY <1>3, <1>4, SameBits
<1>7. ASSUME x = 0  PROVE a = b
  <2>1. \A v \in {1, 2, 4} : Bit(x, v) = 0
    BY <1>7 DEF Bit
  <2>2. \A v \in {1, 2, 4} : Bit(a, v) = Bit(b, v)
    BY <1>4, <2>1
  <2>3. QED  BY <2>2, SameBits
<1>8. ASSUME a = b  PROVE x = 0
  <2>1. Bit(x, 1) = 0 /\ Bit(x, 2) = 0 /\ Bit(x, 4) = 0
    BY <1>4, <1>8
  <2>2. QED  BY <1>2, <2>1, Bits
<1>9. QED
  BY <1>1, <1>2, <1>5, <1>6, <1>7, <1>8

\* Below a power of two, XOR stays below it.
LEMMA XorBelow ==
    ASSUME NEW ws \in 1 .. 8, PowerOfTwo(ws), NEW a \in 0 .. ws - 1, NEW b \in 0 .. ws - 1
    PROVE  Xor(a, b) < ws
<1>1. a \in 0 .. 7 /\ b \in 0 .. 7
  OBVIOUS
<1>2. ws \in {1, 2, 4, 8}
  BY DEF PowerOfTwo
<1>3. CASE ws = 1
  BY <1>1, <1>3 DEF Xor
<1>4. CASE ws = 2
  BY <1>1, <1>4 DEF Xor, Bit
<1>5. CASE ws = 4
  BY <1>1, <1>5 DEF Xor, Bit
<1>6. CASE ws = 8
  BY <1>1, <1>6, XorFacts
<1>7. QED
  BY <1>2, <1>3, <1>4, <1>5, <1>6

\* q has each member of S once, and nothing else.
Collects(q, S) ==
    /\ q \in Seq(S)
    /\ \A x \in S : \E i \in 1 .. Len(q) : q[i] = x
    /\ \A i, j \in 1 .. Len(q) : q[i] = q[j] => i = j

\* What the loop goes through is collected.
LEMMA InOrderCollects ==
    ASSUME NEW n \in Nat, NEW S \in SUBSET (0 .. n - 1)
    PROVE  Collects(InOrder(S, n), S)
<1>1. S \in SUBSET Nat /\ \A x \in S : x \in Nat /\ x < n
  OBVIOUS
<1>2. PICK q : q = InOrder(S, n)
  OBVIOUS
<1>3. /\ q \in Seq(S)
      /\ \A i, j \in DOMAIN q : i < j => q[i] < q[j]
      /\ \A x \in S : \E i \in DOMAIN q : q[i] = x
  BY <1>1, <1>2, InOrderIs
<1>4. DOMAIN q = 1 .. Len(q) /\ Len(q) \in Nat /\ \A i \in 1 .. Len(q) : q[i] \in S
  BY <1>3
<1>5. ASSUME NEW i \in 1 .. Len(q), NEW j \in 1 .. Len(q), q[i] = q[j]  PROVE i = j
  <2>1. q[i] \in Nat /\ q[j] \in Nat
    BY <1>1, <1>4
  <2>2. ~ (q[i] < q[j]) /\ ~ (q[j] < q[i])
    BY <1>5, <2>1
  <2>3. ~ (i < j) /\ ~ (j < i)
    BY <1>3, <1>4, <2>2
  <2>4. QED  BY <1>4, <2>3
<1>6. QED
  BY <1>2, <1>3, <1>4, <1>5 DEF Collects

\* One sequence behind another.
LEMMA ConcatIs ==
    ASSUME NEW T, NEW a \in Seq(T), NEW b \in Seq(T)
    PROVE  /\ a \o b \in Seq(T) /\ Len(a \o b) = Len(a) + Len(b)
           /\ DOMAIN (a \o b) = 1 .. Len(a) + Len(b)
           /\ DOMAIN a = 1 .. Len(a) /\ DOMAIN b = 1 .. Len(b) /\ Len(a) \in Nat /\ Len(b) \in Nat
           /\ \A i \in 1 .. Len(a) : (a \o b)[i] = a[i]
           /\ \A i \in 1 .. Len(b) : (a \o b)[Len(a) + i] = b[i]
           /\ \A i \in 1 .. Len(a) + Len(b) : i <= Len(a) \/ i - Len(a) \in 1 .. Len(b)
OBVIOUS

\* Two collections that have nothing in common make one.
LEMMA TogetherCollect ==
    ASSUME NEW S, NEW T, S \cap T = {}, NEW a, NEW b, Collects(a, S), Collects(b, T)
    PROVE  Collects(a \o b, S \cup T)
<1>1. PICK q : q = a \o b
  OBVIOUS
<1>2. a \in Seq(S) /\ b \in Seq(T) /\ a \in Seq(S \cup T) /\ b \in Seq(S \cup T)
  <2>1. a \in Seq(S) /\ b \in Seq(T)
    BY DEF Collects
  <2>2. a \in Seq(S \cup T)
    BY <2>1
  <2>3. b \in Seq(S \cup T)
    BY <2>1
  <2>4. QED  BY <2>1, <2>2, <2>3
<1>3. /\ q \in Seq(S \cup T) /\ Len(q) = Len(a) + Len(b) /\ Len(a) \in Nat /\ Len(b) \in Nat
      /\ \A i \in 1 .. Len(a) : q[i] = a[i]
      /\ \A i \in 1 .. Len(b) : q[Len(a) + i] = b[i]
  BY <1>1, <1>2, ConcatIs
<1>4. (\A i \in 1 .. Len(a) : a[i] \in S) /\ \A i \in 1 .. Len(b) : b[i] \in T
  BY <1>2
<1>5. ASSUME NEW x \in 1 .. Len(q)
      PROVE  \/ x \in 1 .. Len(a) /\ q[x] = a[x] /\ q[x] \in S
             \/ x - Len(a) \in 1 .. Len(b) /\ q[x] = b[x - Len(a)] /\ q[x] \in T
  <2>1. CASE x <= Len(a)
    BY <1>3, <1>4, <2>1
  <2>2. CASE x > Len(a)
    <3>1. x - Len(a) \in 1 .. Len(b) /\ x = Len(a) + (x - Len(a))
      BY <1>3, <2>2
    <3>2. QED  BY <1>3, <1>4, <3>1
  <2>3. QED  BY <1>3, <2>1, <2>2
<1>6. ASSUME NEW x \in S \cup T  PROVE \E i \in 1 .. Len(q) : q[i] = x
  <2>1. CASE x \in S
    <3>1. PICK i \in 1 .. Len(a) : a[i] = x
      BY <2>1 DEF Collects
    <3>2. i \in 1 .. Len(q)
      BY <1>3
    <3>3. QED  BY <1>3, <3>1, <3>2
  <2>2. CASE x \in T
    <3>1. PICK i \in 1 .. Len(b) : b[i] = x
      BY <2>2 DEF Collects
    <3>2. Len(a) + i \in 1 .. Len(q)
      BY <1>3
    <3>3. QED  BY <1>3, <3>1, <3>2
  <2>3. QED  BY <2>1, <2>2
<1>7. ASSUME NEW i \in 1 .. Len(q), NEW j \in 1 .. Len(q), q[i] = q[j]  PROVE i = j
  <2>1. CASE i \in 1 .. Len(a) /\ q[i] = a[i] /\ q[i] \in S
    <3>1. j \in 1 .. Len(a) /\ q[j] = a[j]
      BY <1>5, <1>7, <2>1
    <3>2. QED  BY <1>7, <2>1, <3>1, ZenonT(60) DEF Collects
  <2>2. CASE i - Len(a) \in 1 .. Len(b) /\ q[i] = b[i - Len(a)] /\ q[i] \in T
    <3>1. j - Len(a) \in 1 .. Len(b) /\ q[j] = b[j - Len(a)]
      BY <1>5, <1>7, <2>2
    <3>2. i - Len(a) = j - Len(a)
      BY <1>7, <2>2, <3>1 DEF Collects
    <3>3. QED  BY <1>3, <3>2
  <2>3. QED  BY <1>5, <2>1, <2>2
<1>8. QED
  BY <1>1, <1>3, <1>6, <1>7 DEF Collects

Reached(rank, ws) == {p \in 0 .. ws - 1 : p # rank /\ Xor(p, rank) < ws}
Missed(rank, ws) == {p \in 0 .. ws - 1 : p # rank /\ Xor(p, rank) >= ws}

\* The peer in round k is one that is reached, by its own distance.
LEMMA RoundIs ==
    ASSUME NEW ws \in 1 .. 8, NEW rank \in 0 .. ws - 1, NEW k \in 1 .. ws - 1, Xor(rank, k) < ws
    PROVE  Xor(rank, k) \in Reached(rank, ws) /\ Xor(rank, Xor(rank, k)) = k
<1>1. PICK p : p = Xor(rank, k)
  OBVIOUS
<1>2. rank \in 0 .. 7 /\ k \in 0 .. 7 /\ k # 0
  OBVIOUS
<1>3. p \in 0 .. 7 /\ Xor(rank, p) = k
  BY <1>1, <1>2, XorFacts
<1>4. Xor(p, rank) = k
  BY <1>2, <1>3, XorFacts
<1>5. p # rank
  BY <1>2, <1>3, XorFacts
<1>6. p \in 0 .. ws - 1
  BY <1>1, <1>3
<1>7. QED
  BY <1>1, <1>3, <1>4, <1>5, <1>6 DEF Reached

\* The peers XOR reaches.
LEMMA PairedCollects ==
    ASSUME NEW ws \in 1 .. 8, NEW rank \in 0 .. ws - 1
    PROVE  Collects(Paired(rank, ws), Reached(rank, ws))
<1>1. PICK K : K = {k \in 1 .. ws - 1 : Xor(rank, k) < ws}
  OBVIOUS
<1>2. PICK ks : ks = InOrder(K, ws)
  OBVIOUS
<1>3. Collects(ks, K)
  <2>1. ws \in Nat /\ K \in SUBSET (0 .. ws - 1)
    BY <1>1
  <2>2. QED  BY <1>2, <2>1, InOrderCollects
<1>4. DOMAIN ks = 1 .. Len(ks) /\ Len(ks) \in Nat /\ \A i \in 1 .. Len(ks) : ks[i] \in K
  <2>1. ks \in Seq(K)
    BY <1>3 DEF Collects
  <2>2. QED  BY <2>1
<1>5. \A k \in K : Xor(rank, k) \in Reached(rank, ws) /\ Xor(rank, Xor(rank, k)) = k
  BY <1>1, RoundIs
<1>6. PICK a : a = Paired(rank, ws)
  OBVIOUS
<1>7. a = [i \in 1 .. Len(ks) |-> Xor(rank, ks[i])]
  BY <1>1, <1>2, <1>4, <1>6 DEF Paired
<1>8. a \in Seq(Reached(rank, ws)) /\ Len(a) = Len(ks) /\ \A i \in 1 .. Len(ks) : a[i] = Xor(rank, ks[i])
  <2>1. \A i \in 1 .. Len(ks) : Xor(rank, ks[i]) \in Reached(rank, ws)
    BY <1>4, <1>5
  <2>2. QED  BY <1>4, <1>7, <2>1
<1>9. ASSUME NEW p \in Reached(rank, ws)  PROVE \E i \in 1 .. Len(a) : a[i] = p
  <2>1. p \in 0 .. 7 /\ rank \in 0 .. 7 /\ p # rank /\ Xor(p, rank) < ws /\ p < ws
    BY DEF Reached
  <2>2. PICK k : k = Xor(p, rank)
    OBVIOUS
  <2>3. k \in 0 .. 7 /\ k # 0 /\ k = Xor(rank, p) /\ k < ws
    BY <2>1, <2>2, XorFacts
  <2>4. Xor(rank, k) = p
    BY <2>1, <2>3, XorFacts
  <2>5. k \in K
    BY <1>1, <2>1, <2>3, <2>4
  <2>6. PICK i \in 1 .. Len(ks) : ks[i] = k
    BY <1>3, <2>5 DEF Collects
  <2>7. QED  BY <1>8, <2>4, <2>6
<1>10. ASSUME NEW i \in 1 .. Len(a), NEW j \in 1 .. Len(a), a[i] = a[j]  PROVE i = j
  <2>1. PICK k, l : k = ks[i] /\ l = ks[j]
    OBVIOUS
  <2>2. k \in K /\ l \in K /\ Xor(rank, k) = Xor(rank, l)
    BY <1>4, <1>8, <1>10, <2>1
  <2>3. k = l
    BY <1>5, <2>2
  <2>4. QED  BY <1>3, <1>8, <2>1, <2>3 DEF Collects
<1>11. QED
  BY <1>6, <1>8, <1>9, <1>10 DEF Collects

\* The peers the sweep adds.
LEMMA SweptCollects ==
    ASSUME NEW ws \in 1 .. 8, NEW rank \in 0 .. ws - 1
    PROVE  Collects(Swept(rank, ws), Missed(rank, ws))
<1>1. CASE PowerOfTwo(ws)
  <2>1. ASSUME NEW p \in 0 .. ws - 1  PROVE ~ (Xor(p, rank) >= ws)
    <3>1. p \in 0 .. 7 /\ rank \in 0 .. 7
      OBVIOUS
    <3>2. Xor(p, rank) \in 0 .. 7
      BY <3>1, XorFacts
    <3>3. Xor(p, rank) < ws
      BY <1>1, XorBelow
    <3>4. QED  BY <3>2, <3>3
  <2>2. Missed(rank, ws) = {}
    BY <2>1 DEF Missed
  <2>3. Swept(rank, ws) = <<>>
    BY <1>1 DEF Swept
  <2>4. <<>> \in Seq({}) /\ Len(<<>>) = 0
    OBVIOUS
  <2>5. QED  BY <2>2, <2>3, <2>4 DEF Collects
<1>2. CASE ~ PowerOfTwo(ws)
  <2>1. Swept(rank, ws) = InOrder(Missed(rank, ws), ws)
    BY <1>2 DEF Swept, Missed
  <2>2. ws \in Nat /\ Missed(rank, ws) \in SUBSET (0 .. ws - 1)
    BY DEF Missed
  <2>3. QED  BY <2>1, <2>2, InOrderCollects
<1>3. QED
  BY <1>1, <1>2

\* A rank visits every peer, none twice, and never itself, though XOR alone
\* misses some where the world size is no power of two.
THEOREM PeersOnce ==
    ASSUME NEW ws \in 1 .. 8, NEW rank \in 0 .. ws - 1
    PROVE  Collects(PeerOrder(rank, ws), (0 .. ws - 1) \ {rank})
<1>1. ASSUME NEW p \in 0 .. ws - 1  PROVE Xor(p, rank) \in 0 .. 7
  <2>1. p \in 0 .. 7 /\ rank \in 0 .. 7
    OBVIOUS
  <2>2. QED  BY <2>1, XorFacts
<1>2. \A p \in 0 .. ws - 1 : Xor(p, rank) >= ws <=> ~ (Xor(p, rank) < ws)
  BY <1>1
<1>3. /\ Reached(rank, ws) \cap Missed(rank, ws) = {}
      /\ Reached(rank, ws) \cup Missed(rank, ws) = (0 .. ws - 1) \ {rank}
  BY <1>2 DEF Reached, Missed
<1>4. QED
  BY <1>3, PairedCollects, SweptCollects, TogetherCollect DEF PeerOrder

------------------------------------------------------------------------------
(* Programs. *)

Lane(step) == IF step.async THEN "comm" ELSE "caller"

\* The transfers before step i into the window of step i.
Earlier(p, i) == {j \in 1 .. i - 1 : Transfers(p, j) /\ Filled(p, j) = Filled(p, i)}

\* How many there are: the barriers of step i are number 2 * Nth + 1 and 2 * Nth + 2.
Nth(p, i) == Cardinality(Earlier(p, i))

\* Some use of step i's result is among the first k steps.
UsedBy(p, i, k) == \E u \in i + 1 .. k : UsedAt(p, u, i)

------------------------------------------------------------------------------
(* One rank's log: L[s][k] is the k-th operation its host gave to stream s. *)

Names == {"nothing", "arrive", "leave", "push", "produce", "stage", "copyout", "read"}
Places == Windows \cup {<<"none", 0>>, <<"input", 0>>} \cup {<<"output", c>> : c \in Calls}
Ops == [op : Names, win : Places, call : 0 .. MaxCalls, to : Ranks, buf : {0} \cup Buffers,
        on : Streams, upto : Nat]

Logs == [Streams -> Seq(Ops)]

\* Whoever has run operation j of stream t has run operation k of stream s before.
Before(L, s, k, t, j) ==
    \/ s = t /\ k <= j
    \/ \E g \in 1 .. Len(L[t]) : g <= j /\ L[t][g].on = s /\ L[t][g].upto >= k

\* Where a step's operations are: its first barrier on the stream of the call,
\* and what comes before its first copy on the transfer stream.
Spots == [near : Nat, far : Nat]

Copied(r) == Len(PeerOrder(r, WorldSize))

\* The last operation of a transfer whose opening barrier is at a.
End(step, a) == IF step.dest = "fresh" THEN a + 5 ELSE a + 4

\* Operations a .. End(step, a) of the stream q are step's, for the window w.
OwnShare(q, r, step, w, a) ==
    /\ a >= 1 /\ End(step, a) <= Len(q)
    /\ q[a].op = "arrive" /\ q[a + 1].op = "leave" /\ q[a + 2].op = "push"
    /\ q[a + 3].op = "arrive" /\ q[a + 4].op = "leave"
    /\ step.dest = "fresh" => q[a + 5].op = "copyout"
    /\ \A j \in a .. End(step, a) : q[j].win = w /\ q[j].call = step.call
    /\ q[a + 2].to = r

\* Operations x + 1 .. x + Copied(r) of the transfer stream f are step's, from
\* the buffer m.
RemoteShares(f, r, step, w, m, x) ==
    /\ x + Copied(r) <= Len(f)
    /\ \A k \in 1 .. Copied(r) :
          /\ f[x + k].op = "push" /\ f[x + k].win = w /\ f[x + k].call = step.call
          /\ f[x + k].buf = m /\ f[x + k].to = PeerOrder(r, WorldSize)[k]

\* The operations that give step its input: in the caller's tensor, for an
\* asynchronous call in the staging buffer too.
Given(L, step, a) ==
    LET q == L[Lane(step)] IN
    IF step.async
    THEN /\ q[a].on = "caller" /\ q[a].upto \in 2 .. Len(L["caller"])
         /\ L["caller"][q[a].upto].op = "stage" /\ L["caller"][q[a].upto].call = step.call
         /\ L["caller"][q[a].upto].buf = q[a + 2].buf
         /\ L["caller"][q[a].upto - 1].op = "produce" /\ L["caller"][q[a].upto - 1].call = step.call
    ELSE a >= 2 /\ q[a - 1].op = "produce" /\ q[a - 1].call = step.call

\* Step i's operations: the remote copies are behind the opening barrier, and
\* the closing one is behind them.
Laid(L, r, p, at, i) ==
    LET q == L[Lane(p[i])]
        a == at[i].near
        x == at[i].far
    IN  /\ OwnShare(q, r, p[i], Filled(p, i), a)
        /\ RemoteShares(L["xfer"], r, p[i], Filled(p, i), q[a + 2].buf, x)
        /\ L["xfer"][x + 1].on = Lane(p[i]) /\ L["xfer"][x + 1].upto >= a + 1
        /\ q[a + 3].on = "xfer" /\ q[a + 3].upto >= x + Copied(r)
        /\ IF p[i].async THEN q[a + 2].buf \in Buffers ELSE q[a + 2].buf = 0
        /\ Given(L, p[i], a)

\* Operation k of stream s is one of step i's transfer.
Within(r, p, at, s, k, i) ==
    /\ Transfers(p, i)
    /\ IF s = "xfer" THEN k - at[i].far \in 1 .. Copied(r)
       ELSE s = Lane(p[i]) /\ k \in at[i].near .. End(p[i], at[i].near)

\* Whose operation k of stream s is, of the first n steps.
Known(L, r, p, n, at, s, k) ==
    LET o == L[s][k] IN
    /\ s = "xfer" \/ o.op \in {"arrive", "leave", "push", "copyout"} =>
          \E i \in 1 .. n : Within(r, p, at, s, k, i)
    /\ o.op \in {"stage", "produce"} => s = "caller" /\ \E i \in 1 .. n : p[i].do = "call" /\ o.call = p[i].call
    /\ o.op = "stage" => o.buf \in Buffers
    /\ o.op = "read" => s = "caller"

\* Step i comes before step j on their streams.
Ordered(L, r, p, at, i, j) ==
    /\ at[i].far + Copied(r) <= at[j].far
    /\ Lane(p[i]) = Lane(p[j]) => End(p[i], at[i].near) < at[j].near
    /\ Filled(p, i) = Filled(p, j) => Before(L, Lane(p[i]), End(p[i], at[i].near), Lane(p[j]), at[j].near)

\* The caller's stream waits for step i's result.
Awaited(L, p, at, i) ==
    \E g \in 1 .. Len(L["caller"]) :
        L["caller"][g].on = "comm" /\ L["caller"][g].upto >= End(p[i], at[i].near)

\* Step i is an asynchronous call that somebody has waited for by step k.
Joined(p, i, k) == Transfers(p, i) /\ p[i].async /\ (HasRegistry => UsedBy(p, i, k))

\* What the log of the first n steps of p is like.
Told(L, r, p, n, at) ==
    /\ L \in Logs /\ at \in [DOMAIN p -> Spots]
    /\ \A s \in Streams : \A k \in 1 .. Len(L[s]) :
          L[s][k].upto <= Len(L[L[s][k].on]) /\ Known(L, r, p, n, at, s, k)
    /\ \A i \in 1 .. n : Transfers(p, i) => Laid(L, r, p, at, i)
    /\ \A i, j \in 1 .. n : i < j /\ Transfers(p, i) /\ Transfers(p, j) => Ordered(L, r, p, at, i, j)
    /\ \A i \in 1 .. n : Joined(p, i, n) => Awaited(L, p, at, i)

\* Where the results of the first n steps are, and when they are complete.
Noted(p, n, at, res) ==
    \A i \in 1 .. n : Transfers(p, i) =>
        LET e == res[p[i].call] IN
        /\ e.from = IF p[i].dest = "fresh" THEN <<"output", p[i].call>> ELSE Filled(p, i)
        /\ e.async = (p[i].async /\ HasRegistry)
        /\ p[i].async => e.at = End(p[i], at[i].near)

------------------------------------------------------------------------------
(* How far the streams are. *)

\* q is what is left of the log when n[s] operations of each stream have run.
Leftover(L, q, n) ==
    \A s \in Streams :
        /\ n[s] \in Nat /\ Len(L[s]) = n[s] + Len(q[s])
        /\ \A i \in 1 .. Len(q[s]) : q[s][i] = L[s][n[s] + i]

\* Nothing ran before what it waits for.
Waited(L, n) ==
    \A s \in Streams : \A k \in 1 .. n[s] : n[L[s][k].on] >= L[s][k].upto

Opened(p, at, n, i) == at[i].near <= n[Lane(p[i])]
Closed(p, at, n, i) == at[i].near + 3 <= n[Lane(p[i])]

\* arr[w] barriers were started on window w: those of the transfers into it, in order.
Counted(p, k, at, n, arr) ==
    \A i \in DOMAIN p : Transfers(p, i) =>
        IF i <= k THEN /\ Opened(p, at, n, i) <=> arr[Filled(p, i)] >= 2 * Nth(p, i) + 1
                       /\ Closed(p, at, n, i) <=> arr[Filled(p, i)] >= 2 * Nth(p, i) + 2
        ELSE arr[Filled(p, i)] <= 2 * Nth(p, i)

\* A stream is in a barrier when the last it ran is the arrival.
Inside(L, n, tk) ==
    \A s \in Streams : tk[s] # 0 => n[s] > 0 /\ L[s][n[s]].op = "arrive"

------------------------------------------------------------------------------
(* The staging pool. *)

Slots == [shape : Nat, buf : Buffers, upto : Nat]
Shapes(pl) == {pl[k].shape : k \in DOMAIN pl}
OfShape(pl, sh) == {k \in DOMAIN pl : pl[k].shape = sh}

\* The pool is within its bounds, and no two slots have one buffer.
Stocked(pl) ==
    /\ pl \in Seq(Slots)
    /\ \A j, k \in DOMAIN pl : pl[j].buf = pl[k].buf => j = k
    /\ Cardinality(Shapes(pl)) <= MaxShapes
    /\ \A sh \in Shapes(pl) : Cardinality(OfShape(pl, sh)) <= StagingSlots

BufferOf(L, p, at, i) == L["comm"][at[i].near + 2].buf

\* A slot is released behind the copies out of its buffer.
Released(L, p, k, at, n, pl) ==
    /\ \A j \in DOMAIN pl : pl[j].upto <= Len(L["comm"])
    /\ \A i \in 1 .. k : Transfers(p, i) /\ p[i].async =>
          \/ Closed(p, at, n, i)
          \/ \E j \in DOMAIN pl : pl[j].buf = BufferOf(L, p, at, i) /\ pl[j].upto >= at[i].near + 3

\* A copy into a buffer is behind the earlier copies out of it.
Restaged(L, p, k, at, n) ==
    \A g \in 1 .. Len(L["caller"]) : L["caller"][g].op = "stage" =>
        \A i \in 1 .. k :
            /\ Transfers(p, i) /\ p[i].async
            /\ p[i].call < L["caller"][g].call /\ BufferOf(L, p, at, i) = L["caller"][g].buf
            => Closed(p, at, n, i) \/ Before(L, "comm", at[i].near + 3, "caller", g)

------------------------------------------------------------------------------
(* What the caller's stream reads and stages. *)

\* Operation g of it reads step i's result, when that is complete.
ReadsFor(L, p, at, g, i) ==
    LET o == L["caller"][g] IN
    /\ Transfers(p, i) /\ o.call = p[i].call
    /\ o.win = IF p[i].dest = "fresh" THEN <<"output", p[i].call>> ELSE Filled(p, i)
    /\ Before(L, Lane(p[i]), End(p[i], at[i].near), "caller", g)

\* A read is of some step's result, and before every transfer that comes after
\* all uses of that result.
Reading(L, p, k, at) ==
    \A g \in 1 .. Len(L["caller"]) : L["caller"][g].op = "read" =>
        /\ \E i \in 1 .. k : ReadsFor(L, p, at, g, i)
        /\ \A h \in 1 .. k :
              /\ Transfers(p, h)
              /\ \A u \in 1 .. k : p[u].do = "use" /\ p[u].call = L["caller"][g].call => u < h
              => Before(L, "caller", g, Lane(p[h]), at[h].near)

\* What is staged was computed just before, and a later call is staged later.
StagedInTurn(L) ==
    \A g \in 1 .. Len(L["caller"]) : L["caller"][g].op = "stage" =>
        /\ g > 1 /\ L["caller"][g - 1].op = "produce" /\ L["caller"][g - 1].call = L["caller"][g].call
        /\ \A f \in 1 .. g - 1 : L["caller"][f].op = "stage" => L["caller"][f].call < L["caller"][g].call

------------------------------------------------------------------------------
(* The end. *)

\* A rank past its drain has nothing left on comm, and every rank has nothing left
\* on the caller's stream either once one is past the meeting.
Drained(p, ps, q) ==
    /\ \A r \in Ranks : \A d \in 1 .. ps[r] : p[d].do = "drain" => q[r]["comm"] = <<>>
    /\ \A r \in Ranks : \A m \in 1 .. ps[r] : p[m].do = "meet" =>
          \A t \in Ranks : ps[t] >= m - 1 /\ q[t]["caller"] = <<>>

------------------------------------------------------------------------------
(* The invariant. *)

\* The lent calls among the first k steps.
LentBy(p, k) == Cardinality({j \in 1 .. k : p[j].do = "call" /\ p[j].dest = "lent"})

Typing ==
    /\ program \in Programs /\ pos \in [Ranks -> 0 .. Len(program)]
    /\ queue \in [Ranks -> Logs]
    /\ ran \in [Ranks -> [Streams -> Nat]]
    /\ lends = [r \in Ranks |-> LentBy(program, pos[r])]
    /\ pool \in [Ranks -> Seq(Slots)]
    /\ result \in [Ranks -> [Calls -> [from : Places, async : BOOLEAN, at : Nat]]]
    /\ arrived \in [Windows -> [Ranks -> 0 .. 2 * MaxCalls]]
    /\ ticket \in [Ranks -> [Streams -> 0 .. 2 * MaxCalls]]
    /\ input \in [Ranks -> 0 .. MaxCalls]
    /\ staged \in [Ranks -> [Buffers -> 0 .. MaxCalls]]
    /\ window \in [Windows -> [Ranks -> [Ranks -> 0 .. MaxCalls]]]

\* The state of one rank, k steps into p: what its streams have left, how far
\* they are, its pool and results, the barriers it is in and has started.
Fine(L, at, r, p, k, q, n, pl, res, tk, arr) ==
    /\ Told(L, r, p, k, at)
    /\ Noted(p, k, at, res)
    /\ Leftover(L, q, n) /\ Waited(L, n)
    /\ Counted(p, k, at, n, arr)
    /\ Inside(L, n, tk)
    /\ Stocked(pl)
    /\ Released(L, p, k, at, n, pl)
    /\ Restaged(L, p, k, at, n)
    /\ Reading(L, p, k, at) /\ StagedInTurn(L)

ArrivedAt(r) == [w \in Windows |-> arrived[w][r]]

Fits(L, at, r) == Fine(L, at, r, program, pos[r], queue[r], ran[r], pool[r], result[r], ticket[r], ArrivedAt(r))

IInv ==
    /\ Typing /\ Drained(program, pos, queue)
    /\ \A r \in Ranks : \E L, at : Fits(L, at, r)
------------------------------------------------------------------------------
(* What a program is like. *)

\* The steps of a program, by number.
LEMMA ProgramIs ==
    ASSUME NEW p, Contract(p)
    PROVE  /\ DOMAIN p = 1 .. Len(p) /\ Len(p) \in Nat
           /\ \A i \in DOMAIN p : p[i] \in Steps
<1>1. p \in Seq(Steps)
  BY DEF Contract
<1>2. QED
  BY <1>1

\* What a call of a program carries.
LEMMA CallIs ==
    ASSUME NEW p, Contract(p), NEW i \in DOMAIN p, p[i].do = "call"
    PROVE  /\ p[i].call \in Calls /\ p[i].call \in Nat /\ p[i].call >= 1 /\ p[i].call <= MaxCalls
           /\ p[i].async \in BOOLEAN /\ p[i].dest \in {"fresh", "own", "lent", "refused"}
           /\ p[i].shape \in [Ranks -> Nat]
           /\ ~ p[i].async => p[i].dest \in {"fresh", "own"}
<1>1. p[i] \in Steps
  BY ProgramIs
<1>2. p[i] \in [do : {"call"}, call : Calls, async : BOOLEAN,
                dest : {"fresh", "own", "lent", "refused"}, shape : [Ranks -> Nat]]
  BY <1>1 DEF Steps
<1>3. p[i].call \in Calls
  BY <1>2
<1>4. p[i].call \in Nat /\ p[i].call >= 1 /\ p[i].call <= MaxCalls
  BY <1>3, ExchangeAssumption DEF Calls
<1>5. ~ p[i].async => p[i].dest \in {"fresh", "own"}
  BY DEF Contract
<1>6. QED
  BY <1>2, <1>3, <1>4, <1>5

\* A use names a call.
LEMMA UseIs ==
    ASSUME NEW p, Contract(p), NEW u \in DOMAIN p, p[u].do = "use"
    PROVE  p[u].call \in Calls
<1>1. p[u] \in Steps
  BY ProgramIs
<1>2. p[u] \in [do : {"use"}, call : Calls]
  BY <1>1 DEF Steps
<1>3. QED
  BY <1>2

\* A call is told by its number.
LEMMA OneStep ==
    ASSUME NEW p, Contract(p), NEW i \in DOMAIN p, NEW j \in DOMAIN p,
           p[i].do = "call", p[j].do = "call", p[i].call = p[j].call
    PROVE  i = j
<1>1. i \in Nat /\ j \in Nat
  BY ProgramIs
<1>2. \A a, b \in DOMAIN p : a < b /\ p[a].do = "call" /\ p[b].do = "call" => p[a].call < p[b].call
  BY DEF Contract
<1>3. p[i].call \in Nat /\ p[j].call \in Nat
  BY CallIs
<1>4. ~ (i < j) /\ ~ (j < i)
  BY <1>2, <1>3
<1>5. QED
  BY <1>1, <1>4

\* The window of a transfer, and which steps fill it.
LEMMA FilledIs ==
    ASSUME NEW p, Contract(p), NEW i \in DOMAIN p, Transfers(p, i)
    PROVE  /\ Filled(p, i) \in Windows
           /\ p[i].dest = "own" => Filled(p, i) = <<"own", 0>>
           /\ p[i].dest = "lent" => p[i].async /\ Filled(p, i) = <<"lent", LentSlot(p, i)>>
           /\ p[i].dest = "fresh" => Filled(p, i) = IF p[i].async THEN <<"async", 0>> ELSE <<"sync", 0>>
           /\ Lane(p[i]) \in {"caller", "comm"}
<1>1. p[i].do = "call" /\ p[i].dest \in {"fresh", "own", "lent"} /\ p[i].async \in BOOLEAN
      /\ (~ p[i].async => p[i].dest \in {"fresh", "own"})
  BY CallIs DEF Transfers
<1>2. IsFiniteSet({j \in 1 .. i - 1 : p[j].do = "call" /\ p[j].dest = "lent"})
  <2>1. i \in Nat
    BY ProgramIs
  <2>2. IsFiniteSet(1 .. i - 1)
    BY <2>1, FS_Interval
  <2>3. QED  BY <2>2, FS_Subset
<1>3. LentSlot(p, i) \in 0 .. LentSlots - 1
  <2>1. PICK n \in Nat : n = Cardinality({j \in 1 .. i - 1 : p[j].do = "call" /\ p[j].dest = "lent"})
    BY <1>2, FS_CardinalityType
  <2>2. n % LentSlots \in 0 .. LentSlots - 1
    BY ExchangeAssumption
  <2>3. QED  BY <2>1, <2>2 DEF LentSlot
<1>4. CASE p[i].dest = "own"
  BY <1>1, <1>4 DEF Filled, Windows, Lane
<1>5. CASE p[i].dest = "lent"
  BY <1>1, <1>3, <1>5 DEF Filled, Windows, Lane
<1>6. CASE p[i].dest = "fresh"
  BY <1>1, <1>6 DEF Filled, Windows, RoleWindow, Lane
<1>7. QED
  BY <1>1, <1>4, <1>5, <1>6

\* Transfers into one window from two streams share a buffer of the caller's.
LEMMA TwoLanesShare ==
    ASSUME NEW p, Contract(p), NEW i \in DOMAIN p, NEW j \in DOMAIN p, Transfers(p, i), Transfers(p, j),
           Filled(p, i) = Filled(p, j), Lane(p[i]) # Lane(p[j])
    PROVE  SharesBuffer(p, i, j)
<1>1. /\ p[i].dest \in {"fresh", "own", "lent"} /\ p[i].async \in BOOLEAN
      /\ p[j].dest \in {"fresh", "own", "lent"} /\ p[j].async \in BOOLEAN
  BY CallIs DEF Transfers
<1>2. p[i].async # p[j].async
  BY <1>1 DEF Lane
<1>3. CASE p[i].dest = "fresh"
  BY <1>1, <1>2, <1>3, FilledIs
<1>4. CASE p[j].dest = "fresh"
  BY <1>1, <1>2, <1>4, FilledIs
<1>5. CASE p[i].dest = "lent" /\ p[j].dest # "fresh"
  BY <1>1, <1>2, <1>5, FilledIs
<1>6. CASE p[j].dest = "lent" /\ p[i].dest # "fresh"
  BY <1>1, <1>2, <1>6, FilledIs
<1>7. CASE p[i].dest = "own" /\ p[j].dest = "own"
  BY <1>7 DEF SharesBuffer
<1>8. QED
  BY <1>1, <1>3, <1>4, <1>5, <1>6, <1>7

------------------------------------------------------------------------------
(* The transfers into one window, numbered. *)

\* The transfers before step i are a finite set.
LEMMA EarlierIs ==
    ASSUME NEW p, Contract(p), NEW i \in DOMAIN p
    PROVE  /\ IsFiniteSet(Earlier(p, i)) /\ Nth(p, i) \in Nat
           /\ Earlier(p, i) \in SUBSET DOMAIN p
           /\ \A j \in Earlier(p, i) : j \in Nat /\ j >= 1 /\ j < i /\ Transfers(p, j) /\ Filled(p, j) = Filled(p, i)
<1>1. i \in Nat /\ DOMAIN p = 1 .. Len(p) /\ Len(p) \in Nat /\ i <= Len(p)
  BY ProgramIs
<1>2. IsFiniteSet(1 .. i - 1)
  BY <1>1, FS_Interval
<1>3. Earlier(p, i) \in SUBSET (1 .. i - 1)
  BY DEF Earlier
<1>4. IsFiniteSet(Earlier(p, i)) /\ Nth(p, i) \in Nat
  BY <1>2, <1>3, FS_Subset, FS_CardinalityType DEF Nth
<1>5. QED
  BY <1>1, <1>3, <1>4 DEF Earlier

\* A later transfer into the same window has the higher number.
LEMMA NthGrows ==
    ASSUME NEW p, Contract(p), NEW i \in DOMAIN p, NEW j \in DOMAIN p, j < i,
           Transfers(p, j), Filled(p, j) = Filled(p, i)
    PROVE  Nth(p, j) + 1 <= Nth(p, i)
<1>1. i \in Nat /\ j \in Nat /\ j >= 1
  BY ProgramIs
<1>2. Earlier(p, j) \cup {j} \in SUBSET Earlier(p, i) /\ j \notin Earlier(p, j)
  BY <1>1 DEF Earlier
<1>3. IsFiniteSet(Earlier(p, j)) /\ IsFiniteSet(Earlier(p, i)) /\ Nth(p, i) \in Nat /\ Nth(p, j) \in Nat
  BY EarlierIs
<1>4. Cardinality(Earlier(p, j) \cup {j}) = Nth(p, j) + 1
  BY <1>2, <1>3, FS_AddElement DEF Nth
<1>5. Cardinality(Earlier(p, j) \cup {j}) <= Nth(p, i)
  BY <1>2, <1>3, FS_Subset DEF Nth
<1>6. QED
  BY <1>4, <1>5

\* A transfer that is not the first into its window has one just before it.
LEMMA JustBefore ==
    ASSUME NEW p, Contract(p), NEW i \in DOMAIN p, Nth(p, i) # 0
    PROVE  \E j \in Earlier(p, i) : Nth(p, i) = Nth(p, j) + 1
<1>1. i \in Nat
  BY ProgramIs
<1>2. Earlier(p, i) # {}
  BY FS_EmptySet DEF Nth
<1>3. PICK S : S = {i - j : j \in Earlier(p, i)}
  OBVIOUS
<1>4. \A j \in Earlier(p, i) : j \in Nat /\ j >= 1 /\ j < i /\ j \in DOMAIN p /\ Transfers(p, j) /\ Filled(p, j) = Filled(p, i)
  BY EarlierIs
<1>5. S \in SUBSET Nat /\ S # {}
  <2>1. \A j \in Earlier(p, i) : i - j \in Nat
    BY <1>1, <1>4
  <2>2. QED  BY <1>2, <1>3, <2>1
<1>6. PICK x \in S : \A y \in S : x <= y
  BY <1>5, LeastNat
<1>7. PICK j \in Earlier(p, i) : x = i - j
  BY <1>3, <1>6
<1>8. \A k \in Earlier(p, i) : k <= j
  <2>1. \A k \in Earlier(p, i) : i - j <= i - k
    BY <1>3, <1>6, <1>7
  <2>2. QED  BY <1>1, <1>4, <2>1
<1>9. Earlier(p, i) = Earlier(p, j) \cup {j}
  <2>1. ASSUME NEW k \in Earlier(p, i), k # j  PROVE k \in Earlier(p, j)
    BY <1>4, <1>8, <2>1 DEF Earlier
  <2>2. ASSUME NEW k \in Earlier(p, j)  PROVE k \in Earlier(p, i)
    BY <1>1, <1>4, <2>2 DEF Earlier
  <2>3. QED  BY <2>1, <2>2
<1>10. j \notin Earlier(p, j) /\ IsFiniteSet(Earlier(p, j)) /\ j \in DOMAIN p
  BY <1>4, EarlierIs
<1>11. Cardinality(Earlier(p, i)) = Cardinality(Earlier(p, j)) + 1
  BY <1>9, <1>10, FS_AddElement
<1>12. QED
  BY <1>11 DEF Nth

\* There are no more transfers into a window than there are calls.
LEMMA NthBelow ==
    ASSUME NEW p, Contract(p), NEW i \in DOMAIN p, Transfers(p, i)
    PROVE  Nth(p, i) + 1 <= MaxCalls
<1>1. i \in Nat /\ IsFiniteSet(Earlier(p, i)) /\ Nth(p, i) \in Nat /\ i \notin Earlier(p, i)
  BY ProgramIs, EarlierIs
<1>2. PICK S : S = Earlier(p, i) \cup {i}
  OBVIOUS
<1>3. Cardinality(S) = Nth(p, i) + 1
  BY <1>1, <1>2, FS_AddElement DEF Nth
<1>4. PICK f : f = [j \in S |-> p[j].call]
  OBVIOUS
<1>5. \A j \in S : j \in DOMAIN p /\ p[j].do = "call"
  BY <1>2, EarlierIs DEF Transfers
<1>6. f \in Injection(S, 1 .. MaxCalls)
  <2>1. \A j \in S : f[j] \in 1 .. MaxCalls
    BY <1>4, <1>5, CallIs DEF Calls
  <2>2. \A j, k \in S : f[j] = f[k] => j = k
    BY <1>4, <1>5, OneStep
  <2>3. f \in [S -> 1 .. MaxCalls]
    BY <1>4, <2>1
  <2>4. QED  BY <2>2, <2>3 DEF Injection, IsInjective
<1>7. IsFiniteSet(1 .. MaxCalls) /\ Cardinality(1 .. MaxCalls) = MaxCalls
  BY ExchangeAssumption, FS_Interval
<1>8. Cardinality(S) <= MaxCalls
  BY <1>6, <1>7, FS_Injection
<1>9. QED
  BY <1>3, <1>8

------------------------------------------------------------------------------
(* A log that grows. *)

\* M has what L has, and more behind it.
Grown(L, M) ==
    /\ L \in Logs /\ M \in Logs
    /\ \A s \in Streams : Len(L[s]) <= Len(M[s]) /\ \A k \in 1 .. Len(L[s]) : M[s][k] = L[s][k]

\* What more is add.
Added(L, add, M) ==
    /\ Grown(L, M) /\ add \in Logs
    /\ \A s \in Streams :
          /\ Len(M[s]) = Len(L[s]) + Len(add[s])
          /\ \A k \in 1 .. Len(add[s]) : M[s][Len(L[s]) + k] = add[s][k]

\* A log is sequences of operations.
LEMMA LogIs ==
    ASSUME NEW L \in Logs, NEW s \in Streams
    PROVE  /\ L[s] \in Seq(Ops) /\ Len(L[s]) \in Nat /\ DOMAIN L[s] = 1 .. Len(L[s])
           /\ \A k \in 1 .. Len(L[s]) : L[s][k] \in Ops
<1>1. L[s] \in Seq(Ops)
  BY DEF Logs
<1>2. QED
  BY <1>1

\* The fields of an operation.
LEMMA OpIs ==
    ASSUME NEW o \in Ops
    PROVE  /\ o.op \in Names /\ o.win \in Places /\ o.call \in 0 .. MaxCalls /\ o.to \in Ranks
           /\ o.buf \in {0} \cup Buffers /\ o.on \in Streams /\ o.upto \in Nat
BY DEF Ops

\* A log that was added to is, up to its old length, the old log.
LEMMA AddedIs ==
    ASSUME NEW L \in Logs, NEW add \in Logs, NEW M, M = [s \in Streams |-> L[s] \o add[s]]
    PROVE  Added(L, add, M)
<1>1. ASSUME NEW s \in Streams
      PROVE  /\ M[s] \in Seq(Ops) /\ Len(M[s]) = Len(L[s]) + Len(add[s]) /\ Len(L[s]) <= Len(M[s])
             /\ \A k \in 1 .. Len(L[s]) : M[s][k] = L[s][k]
             /\ \A k \in 1 .. Len(add[s]) : M[s][Len(L[s]) + k] = add[s][k]
  <2>1. PICK a, b : a = L[s] /\ b = add[s]
    OBVIOUS
  <2>2. a \in Seq(Ops) /\ b \in Seq(Ops) /\ Len(b) \in Nat /\ Len(a) \in Nat
    BY <2>1, LogIs
  <2>3. M[s] = a \o b
    BY <2>1
  <2>4. /\ a \o b \in Seq(Ops) /\ Len(a \o b) = Len(a) + Len(b)
        /\ \A i \in 1 .. Len(a) : (a \o b)[i] = a[i]
        /\ \A i \in 1 .. Len(b) : (a \o b)[Len(a) + i] = b[i]
    BY <2>2, ConcatIs
  <2>5. Len(a) <= Len(a) + Len(b)
    BY <2>2
  <2>6. QED  BY <2>1, <2>3, <2>4, <2>5
<1>2. M \in Logs
  BY <1>1 DEF Logs
<1>3. QED
  BY <1>1, <1>2 DEF Added, Grown

\* An operation of a grown log is an old one or an added one.
LEMMA OldOrNew ==
    ASSUME NEW L, NEW add, NEW M, Added(L, add, M), NEW s \in Streams, NEW k \in 1 .. Len(M[s])
    PROVE  \/ k \in 1 .. Len(L[s]) /\ M[s][k] = L[s][k]
           \/ k - Len(L[s]) \in 1 .. Len(add[s]) /\ M[s][k] = add[s][k - Len(L[s])] /\ k > Len(L[s])
<1>1. Len(L[s]) \in Nat /\ Len(add[s]) \in Nat /\ Len(M[s]) = Len(L[s]) + Len(add[s]) /\ k \in Nat /\ k >= 1 /\ k <= Len(M[s])
  <2>1. Len(L[s]) \in Nat /\ Len(add[s]) \in Nat /\ Len(M[s]) \in Nat
    BY LogIs DEF Added, Grown
  <2>2. Len(M[s]) = Len(L[s]) + Len(add[s])
    BY DEF Added
  <2>3. k \in Nat /\ k >= 1 /\ k <= Len(M[s])
    BY <2>1
  <2>4. QED  BY <2>1, <2>2, <2>3
<1>2. CASE k <= Len(L[s])
  BY <1>1, <1>2 DEF Added, Grown
<1>3. CASE k > Len(L[s])
  <2>1. PICK j : j = k - Len(L[s])
    OBVIOUS
  <2>2. j \in 1 .. Len(add[s]) /\ k = Len(L[s]) + j
    <3>1. PICK m, n : m = Len(L[s]) /\ n = Len(add[s])
      OBVIOUS
    <3>2. m \in Nat /\ n \in Nat /\ k \in Nat /\ k <= m + n /\ k > m /\ j = k - m
      BY <1>1, <1>3, <2>1, <3>1
    <3>3. j \in 1 .. n /\ k = m + j
      BY <3>2
    <3>4. QED  BY <3>1, <3>3
  <2>3. M[s][k] = add[s][j]
    BY <2>2 DEF Added
  <2>4. QED  BY <1>3, <2>1, <2>2, <2>3
<1>4. QED
  BY <1>1, <1>2, <1>3

\* How many remote copies a call has.
LEMMA CopiedIs ==
    ASSUME NEW r \in Ranks
    PROVE  /\ Copied(r) \in Nat /\ Copied(r) >= 1
           /\ \A k \in 1 .. Copied(r) : PeerOrder(r, WorldSize)[k] \in Ranks \ {r}
           /\ \A t \in Ranks \ {r} : \E k \in 1 .. Copied(r) : PeerOrder(r, WorldSize)[k] = t
           /\ \A j, k \in 1 .. Copied(r) :
                 PeerOrder(r, WorldSize)[j] = PeerOrder(r, WorldSize)[k] => j = k
           /\ DOMAIN PeerOrder(r, WorldSize) = 1 .. Copied(r)
<1>1. PICK q : q = PeerOrder(r, WorldSize)
  OBVIOUS
<1>2. WorldSize \in 1 .. 8 /\ WorldSize >= 2 /\ r \in 0 .. WorldSize - 1
  BY ExchangeAssumption DEF Ranks
<1>3. Collects(q, Ranks \ {r})
  BY <1>1, <1>2, PeersOnce DEF Ranks
<1>4. q \in Seq(Ranks \ {r})
  BY <1>3 DEF Collects
<1>5. Len(q) \in Nat /\ DOMAIN q = 1 .. Len(q) /\ \A k \in 1 .. Len(q) : q[k] \in Ranks \ {r}
  BY <1>4
<1>6. \E t : t \in Ranks \ {r}
  <2>1. CASE r = 0
    BY <1>2, <2>1 DEF Ranks
  <2>2. CASE r # 0
    BY <1>2, <2>2 DEF Ranks
  <2>3. QED  BY <2>1, <2>2
<1>7. Len(q) >= 1
  BY <1>3, <1>5, <1>6 DEF Collects
<1>8. QED
  BY <1>1, <1>3, <1>5, <1>7 DEF Collects, Copied

\* What was before something stays so: the log only grows.
LEMMA BeforeGrows ==
    ASSUME NEW L, NEW M, Grown(L, M), NEW s, NEW t \in Streams, NEW j, NEW k, Before(L, s, k, t, j)
    PROVE  Before(M, s, k, t, j)
<1>1. CASE s = t /\ k <= j
  BY <1>1 DEF Before
<1>2. CASE \E g \in 1 .. Len(L[t]) : g <= j /\ L[t][g].on = s /\ L[t][g].upto >= k
  <2>1. PICK g \in 1 .. Len(L[t]) : g <= j /\ L[t][g].on = s /\ L[t][g].upto >= k
    BY <1>2
  <2>2. g \in 1 .. Len(M[t]) /\ M[t][g] = L[t][g]
    <3>1. Len(L[t]) \in Nat /\ Len(M[t]) \in Nat /\ Len(L[t]) <= Len(M[t])
      BY LogIs DEF Grown
    <3>2. QED  BY <3>1 DEF Grown
  <2>3. QED  BY <2>1, <2>2 DEF Before
<1>3. QED
  BY <1>1, <1>2 DEF Before

\* Where a transfer's operations end.
LEMMA EndIs ==
    ASSUME NEW step, NEW a \in Nat
    PROVE  /\ End(step, a) \in Nat /\ End(step, a) >= a + 4 /\ End(step, a) <= a + 5
           /\ End(step, a) = IF step.dest = "fresh" THEN a + 5 ELSE a + 4
BY DEF End

\* A step's operations stay where they are when its log grows: those on its stream, ...
LEMMA OwnShareGrows ==
    ASSUME NEW L, NEW M, Grown(L, M), NEW s \in Streams, NEW r, NEW step, NEW w, NEW a \in Nat,
           OwnShare(L[s], r, step, w, a)
    PROVE  /\ OwnShare(M[s], r, step, w, a)
           /\ M[s][a] = L[s][a] /\ M[s][a + 2] = L[s][a + 2] /\ M[s][a + 3] = L[s][a + 3]
<1>1. PICK q, z : q = L[s] /\ z = M[s]
  OBVIOUS
<1>2. Len(q) \in Nat /\ Len(z) \in Nat /\ Len(q) <= Len(z) /\ \A k \in 1 .. Len(q) : z[k] = q[k]
  BY <1>1, LogIs DEF Grown
<1>3. a >= 1 /\ End(step, a) <= Len(q) /\ End(step, a) \in Nat /\ End(step, a) >= a + 4 /\ End(step, a) <= Len(z)
      /\ (step.dest = "fresh" => End(step, a) = a + 5)
  BY <1>1, <1>2, EndIs, SMTT(60) DEF OwnShare
<1>4. \A j \in a .. End(step, a) : z[j] = q[j]
  BY <1>2, <1>3
<1>5. /\ z[a] = q[a] /\ z[a + 1] = q[a + 1] /\ z[a + 2] = q[a + 2] /\ z[a + 3] = q[a + 3] /\ z[a + 4] = q[a + 4]
      /\ step.dest = "fresh" => z[a + 5] = q[a + 5]
  BY <1>3, <1>4
<1>6. OwnShare(q, r, step, w, a)
  BY <1>1
<1>7. OwnShare(z, r, step, w, a)
  BY <1>3, <1>4, <1>5, <1>6, ZenonT(60) DEF OwnShare
<1>8. QED
  BY <1>1, <1>5, <1>7

\* ... its remote copies, ...
LEMMA RemoteSharesGrow ==
    ASSUME NEW L, NEW M, Grown(L, M), NEW r \in Ranks, NEW step, NEW w, NEW m, NEW x \in Nat,
           RemoteShares(L["xfer"], r, step, w, m, x)
    PROVE  /\ RemoteShares(M["xfer"], r, step, w, m, x)
           /\ M["xfer"][x + 1] = L["xfer"][x + 1]
<1>1. PICK q, z : q = L["xfer"] /\ z = M["xfer"]
  OBVIOUS
<1>2. Len(q) \in Nat /\ Len(z) \in Nat /\ Len(q) <= Len(z) /\ \A k \in 1 .. Len(q) : z[k] = q[k]
  <2>1. "xfer" \in Streams
    BY DEF Streams
  <2>2. QED  BY <1>1, <2>1, LogIs DEF Grown
<1>3. Copied(r) \in Nat /\ Copied(r) >= 1
  BY CopiedIs
<1>4. x + Copied(r) <= Len(q)
  BY <1>1 DEF RemoteShares
<1>5. \A k \in 1 .. Copied(r) : z[x + k] = q[x + k]
  BY <1>2, <1>3, <1>4, SMTT(60)
<1>6. z[x + 1] = q[x + 1] /\ x + Copied(r) <= Len(z)
  BY <1>2, <1>3, <1>4, <1>5
<1>7. RemoteShares(q, r, step, w, m, x)
  BY <1>1
<1>8. RemoteShares(z, r, step, w, m, x)
  BY <1>5, <1>6, <1>7, ZenonT(60) DEF RemoteShares
<1>9. QED
  BY <1>1, <1>6, <1>8

\* ... what gives it its input, ...
LEMMA GivenGrows ==
    ASSUME NEW L, NEW M, Grown(L, M), NEW step, Lane(step) \in Streams, NEW a \in Nat,
           a >= 1, a <= Len(L[Lane(step)]), M[Lane(step)][a + 2] = L[Lane(step)][a + 2], Given(L, step, a)
    PROVE  Given(M, step, a)
<1>1. PICK s : s = Lane(step)
  OBVIOUS
<1>2. PICK q, z, f, h : q = L[s] /\ z = M[s] /\ f = L["caller"] /\ h = M["caller"]
  OBVIOUS
<1>3. /\ Len(q) \in Nat /\ Len(z) \in Nat /\ Len(q) <= Len(z) /\ \A k \in 1 .. Len(q) : z[k] = q[k]
      /\ Len(f) \in Nat /\ Len(h) \in Nat /\ Len(f) <= Len(h) /\ \A k \in 1 .. Len(f) : h[k] = f[k]
  <2>1. "caller" \in Streams
    BY DEF Streams
  <2>2. QED  BY <1>1, <1>2, <2>1, LogIs, SMTT(60) DEF Grown
<1>4. a <= Len(q) /\ z[a + 2] = q[a + 2]
  BY <1>1, <1>2
<1>5. z[a] = q[a]
  BY <1>3, <1>4
<1>6. CASE step.async
  <2>1. PICK b : b = q[a].upto
    OBVIOUS
  <2>2. /\ q[a].on = "caller" /\ b \in 2 .. Len(f) /\ f[b].op = "stage" /\ f[b].call = step.call
        /\ f[b].buf = q[a + 2].buf /\ f[b - 1].op = "produce" /\ f[b - 1].call = step.call
    BY <1>1, <1>2, <1>6, <2>1 DEF Given
  <2>3. b \in 1 .. Len(f) /\ b - 1 \in 1 .. Len(f) /\ b \in 2 .. Len(h)
    <3>1. b \in 2 .. Len(f) /\ Len(f) \in Nat /\ Len(h) \in Nat /\ Len(f) <= Len(h)
      BY <1>3, <2>2
    <3>2. QED  BY <3>1
  <2>4. h[b] = f[b] /\ h[b - 1] = f[b - 1]
    BY <1>3, <2>3
  <2>5. QED  BY <1>1, <1>2, <1>4, <1>5, <1>6, <2>1, <2>2, <2>3, <2>4 DEF Given
<1>7. CASE ~ step.async
  <2>1. a >= 2 /\ q[a - 1].op = "produce" /\ q[a - 1].call = step.call
    BY <1>1, <1>2, <1>7 DEF Given
  <2>2. z[a - 1] = q[a - 1]
    BY <1>3, <1>4, <2>1, SMTT(60)
  <2>3. QED  BY <1>1, <1>2, <1>7, <2>1, <2>2 DEF Given
<1>8. QED
  BY <1>6, <1>7

\* ... and so all that was said of it,
LEMMA LaidGrows ==
    ASSUME NEW p, Contract(p), NEW i \in DOMAIN p, Transfers(p, i), NEW L, NEW M, Grown(L, M), NEW r \in Ranks,
           NEW at, NEW at2, at2[i] = at[i], at[i] \in Spots, Laid(L, r, p, at, i)
    PROVE  Laid(M, r, p, at2, i)
<1>1. PICK s, w, a, x, step : s = Lane(p[i]) /\ w = Filled(p, i) /\ a = at[i].near /\ x = at[i].far /\ step = p[i]
  OBVIOUS
<1>2. s \in Streams /\ a \in Nat /\ x \in Nat /\ a = at2[i].near /\ x = at2[i].far
  <2>1. s \in {"caller", "comm"}
    BY <1>1, FilledIs
  <2>2. QED  BY <1>1, <2>1 DEF Spots, Streams
<1>3. /\ OwnShare(L[s], r, step, w, a) /\ RemoteShares(L["xfer"], r, step, w, L[s][a + 2].buf, x)
      /\ L["xfer"][x + 1].on = s /\ L["xfer"][x + 1].upto >= a + 1
      /\ L[s][a + 3].on = "xfer" /\ L[s][a + 3].upto >= x + Copied(r)
      /\ (IF step.async THEN L[s][a + 2].buf \in Buffers ELSE L[s][a + 2].buf = 0)
      /\ Given(L, step, a)
  BY <1>1 DEF Laid
<1>4. /\ OwnShare(M[s], r, step, w, a)
      /\ M[s][a] = L[s][a] /\ M[s][a + 2] = L[s][a + 2] /\ M[s][a + 3] = L[s][a + 3]
  BY <1>2, <1>3, OwnShareGrows
<1>5. /\ RemoteShares(M["xfer"], r, step, w, M[s][a + 2].buf, x)
      /\ M["xfer"][x + 1] = L["xfer"][x + 1]
  BY <1>2, <1>3, <1>4, RemoteSharesGrow
<1>6. a >= 1 /\ a <= Len(L[s])
  <2>1. a >= 1 /\ End(step, a) <= Len(L[s])
    BY <1>3 DEF OwnShare
  <2>2. Len(L[s]) \in Nat
    BY <1>2, LogIs DEF Grown
  <2>3. QED  BY <1>2, <2>1, <2>2, EndIs
<1>7. Given(M, step, a)
  BY <1>1, <1>2, <1>3, <1>4, <1>6, GivenGrows
<1>8. QED
  BY <1>1, <1>2, <1>3, <1>4, <1>5, <1>7 DEF Laid

\* its order with other steps,
LEMMA OrderedGrows ==
    ASSUME NEW p, Contract(p), NEW i \in DOMAIN p, NEW j \in DOMAIN p, Transfers(p, j),
           NEW L, NEW M, Grown(L, M), NEW r,
           NEW at, NEW at2, at2[i] = at[i], at2[j] = at[j], Ordered(L, r, p, at, i, j)
    PROVE  Ordered(M, r, p, at2, i, j)
<1>1. Lane(p[j]) \in Streams
  BY FilledIs DEF Streams
<1>2. ASSUME Filled(p, i) = Filled(p, j)
      PROVE  Before(M, Lane(p[i]), End(p[i], at[i].near), Lane(p[j]), at[j].near)
  <2>1. Before(L, Lane(p[i]), End(p[i], at[i].near), Lane(p[j]), at[j].near)
    BY <1>2 DEF Ordered
  <2>2. QED  BY <1>1, <2>1, BeforeGrows
<1>3. QED
  BY <1>2 DEF Ordered

\* whose its operations are,
LEMMA KnownGrows ==
    ASSUME NEW L, NEW M, Grown(L, M), NEW r, NEW p, NEW n \in Nat, NEW at, NEW at2,
           \A i \in 1 .. n : at2[i] = at[i], NEW s \in Streams, NEW k \in 1 .. Len(L[s]), Known(L, r, p, n, at, s, k)
    PROVE  Known(M, r, p, n + 1, at2, s, k)
<1>1. PICK o : o = L[s][k]
  OBVIOUS
<1>2. M[s][k] = o
  BY <1>1 DEF Grown
<1>3. \A i \in 1 .. n : i \in 1 .. n + 1
  OBVIOUS
<1>4. ASSUME s = "xfer" \/ o.op \in {"arrive", "leave", "push", "copyout"}
      PROVE  \E i \in 1 .. n + 1 : Within(r, p, at2, s, k, i)
  <2>1. PICK i \in 1 .. n : Within(r, p, at, s, k, i)
    BY <1>1, <1>4 DEF Known
  <2>2. Within(r, p, at2, s, k, i)
    BY <2>1 DEF Within
  <2>3. QED  BY <1>3, <2>2
<1>5. ASSUME o.op \in {"stage", "produce"}
      PROVE  s = "caller" /\ \E i \in 1 .. n + 1 : p[i].do = "call" /\ o.call = p[i].call
  <2>1. s = "caller" /\ \E i \in 1 .. n : p[i].do = "call" /\ o.call = p[i].call
    BY <1>1, <1>5 DEF Known
  <2>2. QED  BY <1>3, <2>1
<1>6. (o.op = "stage" => o.buf \in Buffers) /\ (o.op = "read" => s = "caller")
  BY <1>1 DEF Known
<1>7. QED
  BY <1>2, <1>4, <1>5, <1>6 DEF Known

\* and that it was waited for.
LEMMA AwaitedGrows ==
    ASSUME NEW L, NEW M, Grown(L, M), NEW p, NEW i, NEW at, NEW at2, at2[i] = at[i], Awaited(L, p, at, i)
    PROVE  Awaited(M, p, at2, i)
<1>1. PICK g \in 1 .. Len(L["caller"]) :
        L["caller"][g].on = "comm" /\ L["caller"][g].upto >= End(p[i], at[i].near)
  BY DEF Awaited
<1>2. "caller" \in Streams
  BY DEF Streams
<1>3. g \in 1 .. Len(M["caller"]) /\ M["caller"][g] = L["caller"][g]
  <2>1. Len(L["caller"]) \in Nat /\ Len(M["caller"]) \in Nat /\ Len(L["caller"]) <= Len(M["caller"])
    BY <1>2, LogIs DEF Grown
  <2>2. QED  BY <1>2, <2>1 DEF Grown
<1>4. QED
  BY <1>1, <1>3 DEF Awaited

\* What one more step has to show for the log to stay as it is told.
Continues(L, add, M, r, p, n, at, at2) ==
    /\ Added(L, add, M)
    /\ at2 \in [DOMAIN p -> Spots] /\ \A i \in 1 .. n : at2[i] = at[i]
    /\ \A s \in Streams : \A k \in 1 .. Len(add[s]) :
          add[s][k].upto <= Len(M[add[s][k].on]) /\ Known(M, r, p, n + 1, at2, s, Len(L[s]) + k)
    /\ Transfers(p, n + 1) => Laid(M, r, p, at2, n + 1)
    /\ \A i \in 1 .. n : Transfers(p, i) /\ Transfers(p, n + 1) => Ordered(M, r, p, at2, i, n + 1)
    /\ \A i \in 1 .. n + 1 : Joined(p, i, n + 1) => (i \in 1 .. n /\ Joined(p, i, n)) \/ Awaited(M, p, at2, i)

\* What was told of a log is told of a longer one, for the steps it was told of.
LEMMA ToldGrows ==
    ASSUME NEW p, Contract(p), NEW n \in Nat, n + 1 \in DOMAIN p, NEW r \in Ranks,
           NEW L, NEW add, NEW M, NEW at, Told(L, r, p, n, at), NEW at2, Continues(L, add, M, r, p, n, at, at2)
    PROVE  Told(M, r, p, n + 1, at2)
<1>1. /\ Added(L, add, M)
      /\ at2 \in [DOMAIN p -> Spots] /\ \A i \in 1 .. n : at2[i] = at[i]
      /\ \A s \in Streams : \A k \in 1 .. Len(add[s]) :
            add[s][k].upto <= Len(M[add[s][k].on]) /\ Known(M, r, p, n + 1, at2, s, Len(L[s]) + k)
      /\ Transfers(p, n + 1) => Laid(M, r, p, at2, n + 1)
      /\ \A i \in 1 .. n : Transfers(p, i) /\ Transfers(p, n + 1) => Ordered(M, r, p, at2, i, n + 1)
      /\ \A i \in 1 .. n + 1 : Joined(p, i, n + 1) => (i \in 1 .. n /\ Joined(p, i, n)) \/ Awaited(M, p, at2, i)
  BY DEF Continues
<1>2. Grown(L, M) /\ M \in Logs /\ L \in Logs
  BY <1>1 DEF Added, Grown
<1>3. \A i \in 1 .. n : i \in DOMAIN p
  BY ProgramIs
<1>4. at \in [DOMAIN p -> Spots]
  BY DEF Told
<1>5. ASSUME NEW s \in Streams, NEW k \in 1 .. Len(M[s])
      PROVE  M[s][k].upto <= Len(M[M[s][k].on]) /\ Known(M, r, p, n + 1, at2, s, k)
  <2>1. CASE k \in 1 .. Len(L[s]) /\ M[s][k] = L[s][k]
    <3>1. PICK o : o = L[s][k]
      OBVIOUS
    <3>2. o.on \in Streams /\ o.upto \in Nat
      BY <1>2, <2>1, <3>1, LogIs, OpIs
    <3>3. o.upto <= Len(L[o.on]) /\ Known(L, r, p, n, at, s, k)
      BY <2>1, <3>1 DEF Told
    <3>4. Len(L[o.on]) \in Nat /\ Len(M[o.on]) \in Nat /\ Len(L[o.on]) <= Len(M[o.on])
      BY <1>2, <3>2, LogIs DEF Grown
    <3>5. Known(M, r, p, n + 1, at2, s, k)
      BY <1>1, <1>2, <2>1, <3>3, KnownGrows
    <3>6. o.upto <= Len(M[o.on]) /\ M[s][k] = o
      BY <2>1, <3>1, <3>2, <3>3, <3>4, SMTT(60)
    <3>7. QED  BY <3>5, <3>6
  <2>2. CASE k - Len(L[s]) \in 1 .. Len(add[s]) /\ M[s][k] = add[s][k - Len(L[s])]
    <3>1. PICK j : j = k - Len(L[s])
      OBVIOUS
    <3>2. Len(L[s]) \in Nat /\ k \in Nat
      BY <1>2, LogIs
    <3>3. k = Len(L[s]) + j
      BY <3>1, <3>2
    <3>4. j \in 1 .. Len(add[s]) /\ M[s][k] = add[s][j]
      BY <2>2, <3>1
    <3>5. add[s][j].upto <= Len(M[add[s][j].on]) /\ Known(M, r, p, n + 1, at2, s, Len(L[s]) + j)
      BY <1>1, <3>4
    <3>6. Known(M, r, p, n + 1, at2, s, k)
      BY <3>3, <3>5
    <3>7. M[s][k].upto <= Len(M[M[s][k].on])
      BY <3>4, <3>5
    <3>8. QED  BY <3>6, <3>7
  <2>3. \/ k \in 1 .. Len(L[s]) /\ M[s][k] = L[s][k]
        \/ k - Len(L[s]) \in 1 .. Len(add[s]) /\ M[s][k] = add[s][k - Len(L[s])]
    BY <1>1, OldOrNew
  <2>4. QED  BY <2>1, <2>2, <2>3
<1>6. ASSUME NEW i \in 1 .. n, Transfers(p, i)  PROVE Laid(M, r, p, at2, i)
  <2>1. Laid(L, r, p, at, i) /\ at[i] \in Spots
    BY <1>3, <1>4, <1>6 DEF Told
  <2>2. QED  BY <1>1, <1>2, <1>3, <1>6, <2>1, LaidGrows
<1>7. ASSUME NEW i \in 1 .. n, NEW j \in 1 .. n, i < j, Transfers(p, i), Transfers(p, j)
      PROVE  Ordered(M, r, p, at2, i, j)
  <2>1. Ordered(L, r, p, at, i, j)
    BY <1>7 DEF Told
  <2>2. QED  BY <1>1, <1>2, <1>3, <1>7, <2>1, OrderedGrows
<1>8. ASSUME NEW i \in 1 .. n + 1, Joined(p, i, n + 1)  PROVE Awaited(M, p, at2, i)
  <2>1. CASE i \in 1 .. n /\ Joined(p, i, n)
    <3>1. Awaited(L, p, at, i)
      BY <2>1 DEF Told
    <3>2. QED  BY <1>1, <1>2, <2>1, <3>1, AwaitedGrows
  <2>2. QED  BY <1>1, <1>8, <2>1
<1>9. \A i \in 1 .. n + 1 : i \in 1 .. n \/ i = n + 1
  OBVIOUS
<1>10. \A i \in 1 .. n + 1 : Transfers(p, i) => Laid(M, r, p, at2, i)
  BY <1>1, <1>6, <1>9
<1>11. ASSUME NEW i \in 1 .. n + 1, NEW j \in 1 .. n + 1, i < j, Transfers(p, i), Transfers(p, j)
       PROVE  Ordered(M, r, p, at2, i, j)
  <2>1. i \in 1 .. n
    BY <1>11
  <2>2. CASE j \in 1 .. n
    BY <1>7, <1>11, <2>1, <2>2
  <2>3. CASE j = n + 1
    BY <1>1, <1>11, <2>1, <2>3
  <2>4. QED  BY <1>9, <2>2, <2>3
<1>12. QED
  BY <1>1, <1>2, <1>5, <1>8, <1>10, <1>11 DEF Told

------------------------------------------------------------------------------
(* What a call submits. *)

\* The operations that are submitted are operations.
LEMMA SomeOps ==
    ASSUME NEW c \in Calls
    PROVE  /\ \A w \in Windows, o \in Names : Op(o, w, c) \in Ops
           /\ \A w \in Windows, t \in Ranks, m \in {0} \cup Buffers : Push(t, w, m, c) \in Ops
           /\ Produce(c) \in Ops /\ Nothing \in Ops
           /\ \A m \in Buffers : [Op("stage", <<"input", 0>>, c) EXCEPT !.buf = m] \in Ops
           /\ \A o \in {Op("read", w, c) : w \in Places} : o \in Ops
<1>1. 0 \in Ranks /\ c \in 0 .. MaxCalls /\ 0 \in 0 .. MaxCalls
  BY ExchangeAssumption DEF Ranks, Calls
<1>2. <<"input", 0>> \in Places /\ <<"none", 0>> \in Places /\ \A w \in Windows : w \in Places
  BY DEF Places
<1>3. "xfer" \in Streams
  BY DEF Streams
<1>4. \A w \in Places, o \in Names : Op(o, w, c) \in Ops
  BY <1>1, <1>3 DEF Op, Ops
<1>5. \A w \in Windows, t \in Ranks, m \in {0} \cup Buffers : Push(t, w, m, c) \in Ops
  BY <1>1, <1>2, <1>3 DEF Push, Op, Ops, Names
<1>6. Nothing \in Ops
  BY <1>1, <1>2, <1>3 DEF Nothing, Op, Ops, Names
<1>7. Produce(c) \in Ops
  BY <1>2, <1>4 DEF Produce, Names
<1>8. \A m \in Buffers : [Op("stage", <<"input", 0>>, c) EXCEPT !.buf = m] \in Ops
  BY <1>1, <1>2, <1>3 DEF Op, Ops, Names
<1>9. QED
  BY <1>2, <1>4, <1>5, <1>6, <1>7, <1>8 DEF Names

\* A wait changes nothing of an operation but the wait.
LEMMA AfterIs ==
    ASSUME NEW o \in Ops, NEW s \in Streams, NEW n \in Nat
    PROVE  /\ After(s, n, o) \in Ops /\ After(s, n, o).on = s /\ After(s, n, o).upto = n
           /\ After(s, n, o).op = o.op /\ After(s, n, o).win = o.win /\ After(s, n, o).call = o.call
           /\ After(s, n, o).to = o.to /\ After(s, n, o).buf = o.buf
BY DEF After, Ops

\* z is what a transfer gives to the stream of its call.
IsBlock(z, r, step, w, m, d) ==
    /\ z \in Seq(Ops) /\ Len(z) = End(step, 1)
    /\ OwnShare(z, r, step, w, 1)
    /\ z[3].buf = m /\ z[4].on = "xfer" /\ z[4].upto = d
    /\ \A k \in 1 .. Len(z) : k # 4 => z[k].upto = 0

\* OnStream and the copy-out behind it are a step's own operations.
LEMMA BlockIs ==
    ASSUME NEW r \in Ranks, NEW step, step.call \in Calls, NEW w \in Windows,
           NEW m \in {0} \cup Buffers, NEW d \in Nat, NEW z,
           z = <<Op("arrive", w, step.call), Op("leave", w, step.call), Push(r, w, m, step.call),
                 After("xfer", d, Op("arrive", w, step.call)), Op("leave", w, step.call)>> \o CopyOut(step, w)
    PROVE  IsBlock(z, r, step, w, m, d)
<1>1. PICK c : c = step.call
  OBVIOUS
<1>2. PICK a, l, o, b, e : /\ a = Op("arrive", w, c) /\ l = Op("leave", w, c) /\ o = Push(r, w, m, c)
                           /\ b = After("xfer", d, a) /\ e = Op("copyout", w, c)
  OBVIOUS
<1>3. a \in Ops /\ l \in Ops /\ o \in Ops /\ e \in Ops
  BY <1>1, <1>2, SomeOps DEF Names
<1>4. b \in Ops
  BY <1>2, <1>3, AfterIs DEF Streams
<1>5. /\ a.op = "arrive" /\ l.op = "leave" /\ o.op = "push" /\ b.op = "arrive" /\ e.op = "copyout"
      /\ a.win = w /\ l.win = w /\ o.win = w /\ b.win = w /\ e.win = w
      /\ a.call = c /\ l.call = c /\ o.call = c /\ b.call = c /\ e.call = c
      /\ a.upto = 0 /\ l.upto = 0 /\ o.upto = 0 /\ b.upto = d /\ e.upto = 0
      /\ o.to = r /\ o.buf = m /\ b.on = "xfer"
  BY <1>2 DEF Op, Push, After
<1>6. PICK x : x = <<a, l, o, b, l>>
  OBVIOUS
<1>7. x \in Seq(Ops) /\ Len(x) = 5 /\ x[1] = a /\ x[2] = l /\ x[3] = o /\ x[4] = b /\ x[5] = l
  BY <1>3, <1>4, <1>6
<1>8. CASE step.dest = "fresh"
  <2>1. PICK y : y = <<e>>
    OBVIOUS
  <2>2. y \in Seq(Ops) /\ Len(y) = 1 /\ y[1] = e
    BY <1>3, <2>1
  <2>3. z = x \o y
    BY <1>1, <1>2, <1>6, <1>8, <2>1 DEF CopyOut
  <2>4. z \in Seq(Ops) /\ Len(z) = 6 /\ z[1] = a /\ z[2] = l /\ z[3] = o /\ z[4] = b /\ z[5] = l /\ z[6] = e
    <3>1. /\ x \o y \in Seq(Ops) /\ Len(x \o y) = Len(x) + Len(y)
          /\ \A k \in 1 .. Len(x) : (x \o y)[k] = x[k]
          /\ \A k \in 1 .. Len(y) : (x \o y)[Len(x) + k] = y[k]
      <4>1. x \in Seq(Ops) /\ y \in Seq(Ops)
        BY <1>7, <2>2
      <4>2. QED  BY ONLY <4>1, ConcatIs
    <3>2. /\ z \in Seq(Ops) /\ Len(z) = 5 + 1
          /\ \A k \in 1 .. 5 : z[k] = x[k]
          /\ \A k \in 1 .. 1 : z[5 + k] = y[k]
      BY <1>7, <2>2, <2>3, <3>1
    <3>3. z[5 + 1] = e
      BY <2>2, <3>2
    <3>4. QED  BY <1>7, <3>2, <3>3
  <2>5. End(step, 1) = 6
    BY <1>8 DEF End
  <2>6. \A k \in 1 .. 6 : z[k].win = w /\ z[k].call = c /\ (k # 4 => z[k].upto = 0)
    <3>1. \A k \in 1 .. 6 : k = 1 \/ k = 2 \/ k = 3 \/ k = 4 \/ k = 5 \/ k = 6
      OBVIOUS
    <3>2. QED  BY <1>5, <2>4, <3>1
  <2>7. OwnShare(z, r, step, w, 1)
    BY <1>1, <1>5, <2>4, <2>5, <2>6 DEF OwnShare
  <2>8. QED  BY <1>5, <2>4, <2>5, <2>6, <2>7 DEF IsBlock
<1>9. CASE step.dest # "fresh"
  <2>1. z = x \o <<>>
    BY <1>1, <1>2, <1>6, <1>9 DEF CopyOut
  <2>2. z \in Seq(Ops) /\ Len(z) = 5 /\ z[1] = a /\ z[2] = l /\ z[3] = o /\ z[4] = b /\ z[5] = l
    <3>1. <<>> \in Seq(Ops) /\ Len(<<>>) = 0
      OBVIOUS
    <3>2. /\ x \o <<>> \in Seq(Ops) /\ Len(x \o <<>>) = Len(x) + Len(<<>>)
          /\ \A k \in 1 .. Len(x) : (x \o <<>>)[k] = x[k]
      BY <1>7, <3>1, ConcatIs
    <3>3. z \in Seq(Ops) /\ Len(z) = 5 + 0 /\ \A k \in 1 .. 5 : z[k] = x[k]
      BY <1>7, <2>1, <3>1, <3>2
    <3>4. QED  BY <1>7, <3>3
  <2>3. End(step, 1) = 5
    BY <1>9 DEF End
  <2>4. \A k \in 1 .. 5 : z[k].win = w /\ z[k].call = c /\ (k # 4 => z[k].upto = 0)
    <3>1. \A k \in 1 .. 5 : k = 1 \/ k = 2 \/ k = 3 \/ k = 4 \/ k = 5
      OBVIOUS
    <3>2. QED  BY <1>5, <2>2, <3>1
  <2>5. OwnShare(z, r, step, w, 1)
    BY <1>1, <1>5, <1>9, <2>2, <2>3, <2>4 DEF OwnShare
  <2>6. QED  BY <1>5, <2>2, <2>3, <2>4, <2>5 DEF IsBlock
<1>10. QED
  BY <1>8, <1>9

\* f is what a transfer gives to the transfer stream.
IsCopies(f, r, s, ready, step, w, m) ==
    /\ f \in Seq(Ops) /\ Len(f) = Copied(r)
    /\ RemoteShares(f, r, step, w, m, 0)
    /\ f[1].on = s /\ f[1].upto = ready
    /\ \A k \in 1 .. Len(f) : k # 1 => f[k].upto = 0

\* Remote is its remote copies.
LEMMA CopiesAre ==
    ASSUME NEW r \in Ranks, NEW step, step.call \in Calls, NEW w \in Windows, NEW m \in {0} \cup Buffers,
           NEW s \in Streams, NEW ready \in Nat, NEW f, f = Copies(r, s, ready, w, m, step.call)
    PROVE  IsCopies(f, r, s, ready, step, w, m)
<1>1. PICK c, q, n : c = step.call /\ q = PeerOrder(r, WorldSize) /\ n = Copied(r)
  OBVIOUS
<1>2. n \in Nat /\ n >= 1 /\ DOMAIN q = 1 .. n /\ \A k \in 1 .. n : q[k] \in Ranks
  BY <1>1, CopiedIs
<1>3. f = [k \in 1 .. n |-> IF k = 1 THEN After(s, ready, Push(q[k], w, m, c)) ELSE Push(q[k], w, m, c)]
  BY <1>1, <1>2 DEF Copies
<1>4. ASSUME NEW k \in 1 .. n
      PROVE  /\ f[k] \in Ops /\ f[k].op = "push" /\ f[k].win = w /\ f[k].call = c /\ f[k].buf = m /\ f[k].to = q[k]
             /\ k = 1 => f[k].on = s /\ f[k].upto = ready
             /\ k # 1 => f[k].upto = 0
  <2>1. PICK o : o = Push(q[k], w, m, c)
    OBVIOUS
  <2>2. o \in Ops
    BY <1>1, <1>2, <2>1, SomeOps
  <2>3. o.op = "push" /\ o.win = w /\ o.call = c /\ o.buf = m /\ o.to = q[k] /\ o.upto = 0
    BY <2>1 DEF Push, Op
  <2>4. CASE k = 1
    <3>1. f[k] = After(s, ready, o)
      BY <1>3, <2>1, <2>4
    <3>2. QED  BY <2>2, <2>3, <2>4, <3>1, AfterIs
  <2>5. CASE k # 1
    BY <1>3, <2>1, <2>2, <2>3, <2>5
  <2>6. QED  BY <2>4, <2>5
<1>5. f \in Seq(Ops) /\ Len(f) = n
  BY <1>2, <1>3, <1>4
<1>6. \A k \in 1 .. n : 0 + k = k
  BY <1>2
<1>7. RemoteShares(f, r, step, w, m, 0)
  BY <1>1, <1>2, <1>4, <1>5, <1>6 DEF RemoteShares
<1>8. QED
  BY <1>1, <1>2, <1>4, <1>5, <1>7 DEF IsCopies

\* z is in q, behind its first base elements.
Moved(z, q, base) ==
    /\ Len(z) \in Nat /\ Len(q) \in Nat /\ base \in Nat /\ Len(q) = base + Len(z)
    /\ \A k \in 1 .. Len(z) : q[base + k] = z[k]

\* What is submitted is found in the log behind what was there.
LEMMA AddedMoved ==
    ASSUME NEW L, NEW add, NEW M, Added(L, add, M), NEW s \in Streams
    PROVE  Moved(add[s], M[s], Len(L[s]))
<1>1. L \in Logs /\ M \in Logs /\ add \in Logs
  BY DEF Added, Grown
<1>2. Len(L[s]) \in Nat /\ Len(M[s]) \in Nat /\ Len(add[s]) \in Nat
  BY <1>1, LogIs
<1>3. QED
  BY <1>2 DEF Added, Moved

\* A share in what was added is one in the log.
LEMMA OwnShareMoves ==
    ASSUME NEW z, NEW q, NEW base, Moved(z, q, base), NEW r, NEW step, NEW w, NEW b \in Nat,
           OwnShare(z, r, step, w, b)
    PROVE  /\ OwnShare(q, r, step, w, base + b)
           /\ q[base + b] = z[b] /\ q[base + b + 2] = z[b + 2] /\ q[base + b + 3] = z[b + 3]
<1>1. /\ Len(z) \in Nat /\ Len(q) \in Nat /\ base \in Nat /\ Len(q) = base + Len(z)
      /\ \A k \in 1 .. Len(z) : q[base + k] = z[k]
  BY DEF Moved
<1>2. /\ b >= 1 /\ End(step, b) <= Len(z) /\ End(step, b) \in Nat /\ End(step, b) >= b + 4
      /\ (step.dest = "fresh" => End(step, b) = b + 5)
      /\ End(step, base + b) = base + End(step, b)
  <2>1. b >= 1 /\ End(step, b) <= Len(z)
    BY <1>1 DEF OwnShare
  <2>2. /\ End(step, b) \in Nat /\ End(step, b) >= b + 4
        /\ End(step, b) = IF step.dest = "fresh" THEN b + 5 ELSE b + 4
        /\ End(step, base + b) = IF step.dest = "fresh" THEN base + b + 5 ELSE base + b + 4
    BY DEF End
  <2>3. PICK e, f, n : e = End(step, b) /\ f = End(step, base + b) /\ n = Len(z)
    OBVIOUS
  <2>4. CASE step.dest = "fresh"
    <3>1. e = b + 5 /\ f = base + b + 5 /\ b >= 1 /\ e <= n
      BY <2>1, <2>2, <2>3, <2>4
    <3>2. f = base + e /\ e \in Nat /\ e >= b + 4
      BY <1>1, <3>1
    <3>3. QED  BY <2>1, <2>3, <3>1, <3>2
  <2>5. CASE step.dest # "fresh"
    <3>1. e = b + 4 /\ f = base + b + 4 /\ b >= 1 /\ e <= n
      BY <2>1, <2>2, <2>3, <2>5
    <3>2. f = base + e /\ e \in Nat /\ e >= b + 4
      BY <1>1, <3>1
    <3>3. QED  BY <2>1, <2>3, <2>5, <3>1, <3>2
  <2>6. QED  BY <2>4, <2>5
<1>3. \A j \in b .. End(step, b) : q[base + j] = z[j]
  BY <1>1, <1>2
<1>4. /\ q[base + b] = z[b] /\ q[base + b + 1] = z[b + 1] /\ q[base + b + 2] = z[b + 2]
      /\ q[base + b + 3] = z[b + 3] /\ q[base + b + 4] = z[b + 4]
      /\ step.dest = "fresh" => q[base + b + 5] = z[b + 5]
  <2>1. \A j \in {b, b + 1, b + 2, b + 3, b + 4} : j \in b .. End(step, b)
    BY <1>1, <1>2, SMTT(60)
  <2>2. step.dest = "fresh" => b + 5 \in b .. End(step, b)
    BY <1>2
  <2>3. base + (b + 1) = base + b + 1 /\ base + (b + 2) = base + b + 2 /\ base + (b + 3) = base + b + 3
        /\ base + (b + 4) = base + b + 4 /\ base + (b + 5) = base + b + 5
    BY <1>1
  <2>4. QED  BY <1>3, <2>1, <2>2, <2>3
<1>5. ASSUME NEW j \in base + b .. End(step, base + b)  PROVE q[j].win = w /\ q[j].call = step.call
  <2>1. PICK k : k = j - base
    OBVIOUS
  <2>2. k \in b .. End(step, b) /\ j = base + k
    BY <1>1, <1>2, <2>1
  <2>3. q[j] = z[k]
    BY <1>3, <2>2
  <2>4. QED  BY <2>2, <2>3 DEF OwnShare
<1>6. base + b >= 1 /\ End(step, base + b) <= Len(q)
  BY <1>1, <1>2
<1>7. QED
  BY <1>4, <1>5, <1>6 DEF OwnShare

\* The remote copies, likewise.
LEMMA RemoteSharesMove ==
    ASSUME NEW f, NEW q, NEW base, Moved(f, q, base), NEW r \in Ranks, NEW step, NEW w, NEW m,
           Len(f) = Copied(r), RemoteShares(f, r, step, w, m, 0)
    PROVE  RemoteShares(q, r, step, w, m, base) /\ q[base + 1] = f[1]
<1>1. Copied(r) \in Nat /\ Copied(r) >= 1
  BY CopiedIs
<1>2. \A k \in 1 .. Copied(r) : q[base + k] = f[k] /\ 0 + k = k
  BY <1>1 DEF Moved
<1>3. base + Copied(r) <= Len(q)
  BY <1>1 DEF Moved
<1>4. QED
  BY <1>1, <1>2, <1>3 DEF RemoteShares

\* o is an operation step submits to stream t beside a transfer's own.
Aside(o, t, step) ==
    /\ t # "xfer" /\ o.op \notin {"arrive", "leave", "push", "copyout"}
    /\ o.op \in {"stage", "produce"} => t = "caller" /\ step.do = "call" /\ o.call = step.call
    /\ o.op = "stage" => o.buf \in Buffers
    /\ o.op = "read" => t = "caller"

\* An operation beside the transfer is known to be the step's.
LEMMA AsideKnown ==
    ASSUME NEW M, NEW r, NEW p, NEW n \in Nat, NEW at, NEW s, NEW k, Aside(M[s][k], s, p[n + 1])
    PROVE  Known(M, r, p, n + 1, at, s, k)
<1>1. n + 1 \in 1 .. n + 1
  OBVIOUS
<1>2. QED
  BY <1>1 DEF Aside, Known

\* No wait is for an operation that is not submitted.
WaitsPast(add, M) ==
    \A t \in Streams : \A k \in 1 .. Len(add[t]) : add[t][k].upto <= Len(M[add[t][k].on])

\* A step that transfers nothing.
QuietStep(L, add, M, p, n, at) ==
    /\ Added(L, add, M) /\ ~ Transfers(p, n + 1) /\ WaitsPast(add, M)
    /\ \A s \in Streams : \A k \in 1 .. Len(add[s]) : Aside(add[s][k], s, p[n + 1])
    /\ \A i \in 1 .. n : Joined(p, i, n + 1) => Joined(p, i, n) \/ Awaited(M, p, at, i)

\* A step that submits no transfer keeps what is told of the log.
LEMMA QuietTold ==
    ASSUME NEW p, Contract(p), NEW n \in Nat, n + 1 \in DOMAIN p, NEW r \in Ranks,
           NEW L, NEW add, NEW M, NEW at, Told(L, r, p, n, at), QuietStep(L, add, M, p, n, at)
    PROVE  Told(M, r, p, n + 1, at)
<1>1. at \in [DOMAIN p -> Spots] /\ Added(L, add, M) /\ ~ Transfers(p, n + 1)
  BY DEF Told, QuietStep
<1>2. ASSUME NEW s \in Streams, NEW k \in 1 .. Len(add[s])
      PROVE  Known(M, r, p, n + 1, at, s, Len(L[s]) + k)
  <2>1. PICK j : j = Len(L[s]) + k
    OBVIOUS
  <2>2. M[s][j] = add[s][k]
    BY <1>1, <2>1 DEF Added
  <2>3. Aside(M[s][j], s, p[n + 1])
    BY <2>2 DEF QuietStep
  <2>4. Known(M, r, p, n + 1, at, s, j)
    BY <2>3, AsideKnown
  <2>5. QED  BY <2>1, <2>4
<1>3. \A i \in 1 .. n + 1 : i \in 1 .. n \/ i = n + 1
  OBVIOUS
<1>4. \A i \in 1 .. n + 1 : Joined(p, i, n + 1) => (i \in 1 .. n /\ Joined(p, i, n)) \/ Awaited(M, p, at, i)
  BY <1>1, <1>3 DEF Joined, QuietStep
<1>5. Continues(L, add, M, r, p, n, at, at)
  BY <1>1, <1>2, <1>4 DEF Continues, QuietStep, WaitsPast
<1>6. QED
  BY <1>5, ToldGrows

\* A step that transfers: its own share is from b on what it submits to the
\* stream s of its call, its remote shares all it submits to the transfer stream.
AddsTransfer(L, add, M, r, step, s, w, m, b) ==
    /\ s = Lane(step) /\ b \in {1, 2}
    /\ OwnShare(add[s], r, step, w, b) /\ add[s][b + 2].buf = m
    /\ IF step.async THEN m \in Buffers ELSE m = 0
    /\ add[s][b + 3].on = "xfer" /\ add[s][b + 3].upto >= Len(L["xfer"]) + Copied(r)
    /\ IsCopies(add["xfer"], r, s, Len(L[s]) + b + 1, step, w, m)
    /\ Given(M, step, Len(L[s]) + b)

AddsBeside(add, step, s, b) ==
    \A t \in {"caller", "comm"} : \A k \in 1 .. Len(add[t]) :
        \/ t = s /\ k \in b .. End(step, b) /\ add[t][k].op \notin {"stage", "produce", "read"}
        \/ Aside(add[t][k], t, step)

\* The transfers into w among the first n steps are before operation a of stream s.
Behind(M, p, n, at, w, s, a) ==
    \A i \in 1 .. n : Transfers(p, i) /\ Filled(p, i) = w => Before(M, Lane(p[i]), End(p[i], at[i].near), s, a)

\* Where the operations of the transfer are that is added to the log L.
Spot(L, s, b) == [near |-> Len(L[s]) + b, far |-> Len(L["xfer"])]

\* A transfer that is submitted has its operations where its spot says, ...
LEMMA AddedTransferLaid ==
    ASSUME NEW p, Contract(p), NEW i \in DOMAIN p, NEW r \in Ranks, Transfers(p, i),
           NEW L, NEW add, NEW M, Added(L, add, M), NEW s, NEW b, NEW m,
           NEW at, at[i] = Spot(L, s, b), AddsTransfer(L, add, M, r, p[i], s, Filled(p, i), m, b)
    PROVE  Laid(M, r, p, at, i)
<1>1. PICK base, x, step, w : base = Len(L[s]) /\ x = Len(L["xfer"]) /\ step = p[i] /\ w = Filled(p, i)
  OBVIOUS
<1>2. PICK a : a = base + b
  OBVIOUS
<1>3. s = Lane(step) /\ b \in {1, 2} /\ s \in Streams /\ "xfer" \in Streams
  BY <1>1, FilledIs DEF Streams, AddsTransfer
<1>4. PICK z, q, f, g : z = add[s] /\ q = M[s] /\ f = add["xfer"] /\ g = M["xfer"]
  OBVIOUS
<1>5. Moved(z, q, base) /\ Moved(f, g, x)
  BY <1>1, <1>3, <1>4, AddedMoved
<1>6. base \in Nat /\ x \in Nat /\ a \in Nat /\ b \in Nat
  BY <1>2, <1>3, <1>5 DEF Moved
<1>7. /\ OwnShare(z, r, step, w, b) /\ z[b + 2].buf = m
      /\ (IF step.async THEN m \in Buffers ELSE m = 0)
      /\ z[b + 3].on = "xfer" /\ z[b + 3].upto >= x + Copied(r)
      /\ IsCopies(f, r, s, base + b + 1, step, w, m)
      /\ Given(M, step, base + b)
  BY <1>1, <1>4 DEF AddsTransfer
<1>8. /\ OwnShare(q, r, step, w, a)
      /\ q[a] = z[b] /\ q[a + 2] = z[b + 2] /\ q[a + 3] = z[b + 3]
  <2>1. /\ OwnShare(q, r, step, w, base + b)
        /\ q[base + b] = z[b] /\ q[base + b + 2] = z[b + 2] /\ q[base + b + 3] = z[b + 3]
    BY <1>5, <1>6, <1>7, OwnShareMoves
  <2>2. QED  BY <1>2, <2>1
<1>9. RemoteShares(g, r, step, w, m, x) /\ g[x + 1] = f[1]
  <2>1. Len(f) = Copied(r) /\ RemoteShares(f, r, step, w, m, 0)
    BY <1>7 DEF IsCopies
  <2>2. QED  BY <1>5, <2>1, RemoteSharesMove
<1>10. g[x + 1].on = s /\ g[x + 1].upto >= a + 1
  <2>1. f[1].on = s /\ f[1].upto = a + 1
    BY <1>2, <1>7 DEF IsCopies
  <2>2. QED  BY <1>6, <1>9, <2>1
<1>11. at[i].near = a /\ at[i].far = x
  BY <1>1, <1>2 DEF Spot
<1>12. /\ OwnShare(M[Lane(p[i])], r, p[i], Filled(p, i), at[i].near)
       /\ RemoteShares(M["xfer"], r, p[i], Filled(p, i), M[Lane(p[i])][at[i].near + 2].buf, at[i].far)
  BY <1>1, <1>3, <1>4, <1>7, <1>8, <1>9, <1>11
<1>13. /\ M["xfer"][at[i].far + 1].on = Lane(p[i]) /\ M["xfer"][at[i].far + 1].upto >= at[i].near + 1
       /\ M[Lane(p[i])][at[i].near + 3].on = "xfer"
       /\ M[Lane(p[i])][at[i].near + 3].upto >= at[i].far + Copied(r)
  BY <1>1, <1>3, <1>4, <1>7, <1>8, <1>10, <1>11
<1>14. /\ IF p[i].async THEN M[Lane(p[i])][at[i].near + 2].buf \in Buffers
                       ELSE M[Lane(p[i])][at[i].near + 2].buf = 0
       /\ Given(M, p[i], at[i].near)
  BY <1>1, <1>2, <1>3, <1>4, <1>7, <1>8, <1>11
<1>15. QED
  BY <1>12, <1>13, <1>14 DEF Laid

\* ... they are its own, ...
LEMMA AddedTransferKnown ==
    ASSUME NEW p, Contract(p), NEW n \in Nat, n + 1 \in DOMAIN p, NEW r \in Ranks, Transfers(p, n + 1),
           NEW L, NEW add, NEW M, Added(L, add, M), NEW s, NEW b, NEW w, NEW m, NEW at, at[n + 1] = Spot(L, s, b),
           AddsTransfer(L, add, M, r, p[n + 1], s, w, m, b), AddsBeside(add, p[n + 1], s, b),
           NEW t \in Streams, NEW k \in 1 .. Len(add[t])
    PROVE  Known(M, r, p, n + 1, at, t, Len(L[t]) + k)
<1>1. PICK base, x, step, l : x = Len(L["xfer"]) /\ base = Len(L[s]) /\ step = p[n + 1] /\ l = Len(L[t])
  OBVIOUS
<1>2. PICK a, j : a = base + b /\ j = l + k
  OBVIOUS
<1>3. s \in Streams /\ "xfer" \in Streams /\ s = Lane(step) /\ b \in {1, 2}
  BY <1>1, FilledIs DEF Streams, AddsTransfer
<1>4. base \in Nat /\ x \in Nat /\ l \in Nat /\ k \in Nat /\ b \in Nat /\ M[t][j] = add[t][k]
  <2>1. L \in Logs /\ add \in Logs
    BY DEF Added, Grown
  <2>2. base \in Nat /\ x \in Nat /\ l \in Nat
    BY <1>1, <1>3, <2>1, LogIs
  <2>3. Len(add[t]) \in Nat
    BY <2>1, LogIs
  <2>4. M[t][j] = add[t][k]
    BY <1>1, <1>2 DEF Added
  <2>5. QED  BY <1>3, <2>2, <2>3, <2>4
<1>5. at[n + 1].near = a /\ at[n + 1].far = x
  BY <1>1, <1>2 DEF Spot
<1>6. n + 1 \in 1 .. n + 1
  OBVIOUS
<1>7. ASSUME t = "xfer"  PROVE Known(M, r, p, n + 1, at, t, j)
  <2>1. IsCopies(add["xfer"], r, s, Len(L[s]) + b + 1, p[n + 1], w, m)
    BY DEF AddsTransfer
  <2>2. k \in 1 .. Copied(r)
    BY <1>7, <2>1 DEF IsCopies
  <2>3. j = x + k
    BY <1>1, <1>7, <1>2
  <2>4. j - x = k
    BY <1>4, <2>3
  <2>5. Within(r, p, at, t, j, n + 1)
    BY <1>5, <1>7, <2>2, <2>4 DEF Within
  <2>6. add["xfer"][k].op = "push"
    <3>1. 0 + k = k
      BY <1>4
    <3>2. add["xfer"][0 + k].op = "push"
      BY <2>1, <2>2 DEF IsCopies, RemoteShares
    <3>3. QED  BY <3>1, <3>2
  <2>7. M[t][j].op = "push"
    BY <1>4, <1>7, <2>6
  <2>8. QED  BY <1>6, <2>5, <2>7 DEF Known
<1>8. ASSUME t # "xfer"  PROVE Known(M, r, p, n + 1, at, t, j)
  <2>1. t \in {"caller", "comm"}
    BY <1>8 DEF Streams
  <2>2. CASE Aside(add[t][k], t, step)
    BY <1>1, <1>4, <2>2, AsideKnown
  <2>3. CASE t = s /\ k \in b .. End(step, b) /\ add[t][k].op \notin {"stage", "produce", "read"}
    <3>1. PICK e, f : e = End(step, b) /\ f = End(step, a)
      OBVIOUS
    <3>2. f = base + e /\ e \in Nat
      <4>1. CASE step.dest = "fresh"
        <5>1. e = b + 5 /\ f = a + 5
          BY <3>1, <4>1 DEF End
        <5>2. QED  BY <1>4, <1>2, <5>1
      <4>2. CASE step.dest # "fresh"
        <5>1. e = b + 4 /\ f = a + 4
          BY <3>1, <4>2 DEF End
        <5>2. QED  BY <1>4, <1>2, <5>1
      <4>3. QED  BY <4>1, <4>2
    <3>3. j = base + k /\ b <= k /\ k <= e
      <4>1. k \in b .. e
        BY <2>3, <3>1
      <4>2. b <= k /\ k <= e
        BY <1>4, <3>2, <4>1
      <4>3. QED  BY <1>1, <1>2, <2>3, <4>2
    <3>4. j \in a .. f
      BY <1>4, <1>2, <3>2, <3>3
    <3>5. Within(r, p, at, t, j, n + 1)
      BY <1>1, <1>3, <1>5, <1>8, <2>3, <3>1, <3>4 DEF Within
    <3>6. M[t][j].op \notin {"stage", "produce", "read"}
      BY <1>4, <2>3
    <3>7. QED  BY <1>6, <3>5, <3>6 DEF Known
  <2>4. QED  BY <1>1, <2>1, <2>2, <2>3 DEF AddsBeside
<1>9. Known(M, r, p, n + 1, at, t, j)
  BY <1>7, <1>8
<1>10. QED
  BY <1>1, <1>9, <1>2

\* What was submitted before is before it on its streams.
LEMMA AddedTransferOrdered ==
    ASSUME NEW p, Contract(p), NEW n \in Nat, n + 1 \in DOMAIN p, NEW r \in Ranks, Transfers(p, n + 1),
           NEW L \in Logs, NEW M, NEW at, Told(L, r, p, n, at), NEW s, s = Lane(p[n + 1]), NEW b \in {1, 2},
           NEW at2, at2[n + 1] = Spot(L, s, b), Behind(M, p, n, at, Filled(p, n + 1), s, Len(L[s]) + b), NEW i \in 1 .. n, Transfers(p, i), at2[i] = at[i]
    PROVE  Ordered(M, r, p, at2, i, n + 1)
<1>1. PICK w, base, e, x : /\ x = Len(L["xfer"]) /\ base = Len(L[s]) /\ e = End(p[i], at[i].near)
                           /\ w = Filled(p, n + 1)
  OBVIOUS
<1>2. PICK a : a = base + b
  OBVIOUS
<1>3. at2[n + 1].near = a /\ at2[n + 1].far = x
  BY <1>1, <1>2 DEF Spot
<1>4. Laid(L, r, p, at, i) /\ i \in DOMAIN p /\ at[i] \in Spots
  <2>1. i \in DOMAIN p
    BY ProgramIs
  <2>2. QED  BY <2>1 DEF Told
<1>5. at[i].far + Copied(r) <= x
  BY <1>1, <1>4 DEF Laid, RemoteShares
<1>6. ASSUME Lane(p[i]) = s  PROVE e < a
  <2>1. e <= base
    BY <1>1, <1>4, <1>6 DEF Laid, OwnShare
  <2>2. base \in Nat
    BY <1>1, LogIs, FilledIs DEF Streams
  <2>3. e \in Nat
    <3>1. at[i].near \in Nat
      BY <1>4 DEF Spots
    <3>2. QED  BY <1>1, <3>1, EndIs
  <2>4. QED  BY <1>2, <2>1, <2>2, <2>3, SMTT(60)
<1>7. Filled(p, i) = w => Before(M, Lane(p[i]), e, s, a)
  BY <1>1, <1>2 DEF Behind
<1>8. QED
  BY <1>1, <1>2, <1>3, <1>5, <1>6, <1>7 DEF Ordered

\* ... the call joins none of the steps before it, ...
LEMMA CallJoinsNobody ==
    ASSUME NEW p, NEW n \in Nat, p[n + 1].do = "call", NEW i \in 1 .. n, Joined(p, i, n + 1)
    PROVE  Joined(p, i, n)
<1>1. ~ UsedAt(p, n + 1, i)
  BY DEF UsedAt
<1>2. ASSUME NEW u \in i + 1 .. n + 1, UsedAt(p, u, i)  PROVE u \in i + 1 .. n
  <2>1. u # n + 1 /\ i \in Nat
    BY <1>1, <1>2
  <2>2. QED  BY <2>1
<1>3. UsedBy(p, i, n + 1) => UsedBy(p, i, n)
  BY <1>2 DEF UsedBy
<1>4. QED
  BY <1>3 DEF Joined

\* A step that transfers.
TransferStep(L, add, M, r, p, n, at, s, m, b) ==
    /\ Added(L, add, M) /\ Transfers(p, n + 1) /\ WaitsPast(add, M)
    /\ AddsTransfer(L, add, M, r, p[n + 1], s, Filled(p, n + 1), m, b) /\ AddsBeside(add, p[n + 1], s, b)
    /\ Behind(M, p, n, at, Filled(p, n + 1), s, Len(L[s]) + b)
    /\ Joined(p, n + 1, n + 1) => Len(L[s]) + End(p[n + 1], b) = Len(M[s])
    /\ Joined(p, n + 1, n + 1) =>
          \E g \in 1 .. Len(M["caller"]) : M["caller"][g].on = s /\ M["caller"][g].upto >= Len(M[s])

\* ... and the log with it is told of one step more.
LEMMA TransferTold ==
    ASSUME NEW p, Contract(p), NEW n \in Nat, n + 1 \in DOMAIN p, NEW r \in Ranks,
           NEW L, NEW add, NEW M, NEW at, Told(L, r, p, n, at), NEW s, NEW m, NEW b,
           TransferStep(L, add, M, r, p, n, at, s, m, b),
           NEW at2, at2 = [at EXCEPT ![n + 1] = Spot(L, s, b)]
    PROVE  Told(M, r, p, n + 1, at2)
<1>1. at \in [DOMAIN p -> Spots] /\ Added(L, add, M) /\ Transfers(p, n + 1) /\ L \in Logs
  BY DEF Told, TransferStep
<1>2. /\ AddsTransfer(L, add, M, r, p[n + 1], s, Filled(p, n + 1), m, b) /\ AddsBeside(add, p[n + 1], s, b)
      /\ Behind(M, p, n, at, Filled(p, n + 1), s, Len(L[s]) + b)
  BY DEF TransferStep
<1>3. s = Lane(p[n + 1]) /\ b \in {1, 2}
  BY <1>2 DEF AddsTransfer
<1>4. at2 \in [DOMAIN p -> Spots] /\ at2[n + 1] = Spot(L, s, b) /\ \A i \in 1 .. n : at2[i] = at[i]
  <2>1. Spot(L, s, b) \in Spots
    <3>1. Len(L[s]) \in Nat /\ Len(L["xfer"]) \in Nat
      <4>1. s \in Streams /\ "xfer" \in Streams
        BY <1>1, <1>3, FilledIs DEF Streams
      <4>2. QED  BY <1>1, <4>1, LogIs
    <3>2. QED  BY <1>3, <3>1 DEF Spot, Spots
  <2>2. at2 \in [DOMAIN p -> Spots] /\ at2[n + 1] = Spot(L, s, b)
    BY <1>1, <2>1
  <2>3. \A i \in 1 .. n : i \in DOMAIN p /\ i # n + 1
    BY ProgramIs
  <2>4. QED  BY <1>1, <2>2, <2>3
<1>5. Laid(M, r, p, at2, n + 1)
  BY <1>1, <1>2, <1>4, AddedTransferLaid
<1>6. ASSUME NEW t \in Streams, NEW k \in 1 .. Len(add[t])
      PROVE  add[t][k].upto <= Len(M[add[t][k].on]) /\ Known(M, r, p, n + 1, at2, t, Len(L[t]) + k)
  <2>1. Known(M, r, p, n + 1, at2, t, Len(L[t]) + k)
    BY <1>1, <1>2, <1>4, AddedTransferKnown
  <2>2. add[t][k].upto <= Len(M[add[t][k].on])
    BY DEF TransferStep, WaitsPast
  <2>3. QED  BY <2>1, <2>2
<1>7. ASSUME NEW i \in 1 .. n, Transfers(p, i)  PROVE Ordered(M, r, p, at2, i, n + 1)
  <2>1. at2[i] = at[i]
    BY <1>4
  <2>2. QED  BY <1>1, <1>2, <1>3, <1>4, <1>7, <2>1, AddedTransferOrdered
<1>8. Joined(p, n + 1, n + 1) => Awaited(M, p, at2, n + 1)
  <2>1. SUFFICES ASSUME Joined(p, n + 1, n + 1)  PROVE Awaited(M, p, at2, n + 1)
    OBVIOUS
  <2>2. PICK base, e, f, l : base = Len(L[s]) /\ e = End(p[n + 1], b) /\ f = End(p[n + 1], at2[n + 1].near)
                             /\ l = Len(M[s])
    OBVIOUS
  <2>3. base + e = l
    BY <2>1, <2>2 DEF TransferStep
  <2>4. at2[n + 1].near = base + b
    BY <1>4, <2>2 DEF Spot
  <2>5. base \in Nat /\ s = "comm"
    <3>1. s = "comm"
      BY <1>3, <2>1 DEF Joined, Lane
    <3>2. QED  BY <1>1, <2>2, <3>1, LogIs DEF Streams
  <2>6. f = l
    <3>1. CASE p[n + 1].dest = "fresh"
      <4>1. e = b + 5 /\ f = base + b + 5
        BY <2>2, <2>4, <3>1 DEF End
      <4>2. QED  BY <1>3, <2>3, <2>5, <4>1
    <3>2. CASE p[n + 1].dest # "fresh"
      <4>1. e = b + 4 /\ f = base + b + 4
        BY <2>2, <2>4, <3>2 DEF End
      <4>2. QED  BY <1>3, <2>3, <2>5, <4>1
    <3>3. QED  BY <3>1, <3>2
  <2>7. PICK g \in 1 .. Len(M["caller"]) : M["caller"][g].on = s /\ M["caller"][g].upto >= l
    BY <2>1, <2>2 DEF TransferStep
  <2>8. QED  BY <2>2, <2>5, <2>6, <2>7 DEF Awaited
<1>9. \A i \in 1 .. n + 1 : Joined(p, i, n + 1) => (i \in 1 .. n /\ Joined(p, i, n)) \/ Awaited(M, p, at2, i)
  <2>1. \A i \in 1 .. n + 1 : i \in 1 .. n \/ i = n + 1
    OBVIOUS
  <2>2. p[n + 1].do = "call"
    BY <1>1 DEF Transfers
  <2>3. \A i \in 1 .. n : Joined(p, i, n + 1) => Joined(p, i, n)
    BY <2>2, CallJoinsNobody
  <2>4. QED  BY <1>8, <2>1, <2>3
<1>10. Continues(L, add, M, r, p, n, at, at2)
  BY <1>1, <1>4, <1>5, <1>6, <1>7, <1>9 DEF Continues
<1>11. QED
  BY <1>10, ToldGrows

------------------------------------------------------------------------------
(* How far the streams are, as the log grows and the streams run. *)

\* What a stream has left is the end of its log.
LEMMA LeftoverIs ==
    ASSUME NEW L \in Logs, NEW q \in Logs, NEW n, Leftover(L, q, n), NEW s \in Streams
    PROVE  /\ n[s] \in Nat /\ Len(q[s]) \in Nat /\ Len(L[s]) \in Nat /\ n[s] <= Len(L[s])
           /\ Len(L[s]) = n[s] + Len(q[s])
           /\ \A i \in 1 .. Len(q[s]) : q[s][i] = L[s][n[s] + i]
<1>1. Len(q[s]) \in Nat /\ Len(L[s]) \in Nat
  BY LogIs
<1>2. n[s] \in Nat /\ Len(L[s]) = n[s] + Len(q[s]) /\ \A i \in 1 .. Len(q[s]) : q[s][i] = L[s][n[s] + i]
  BY DEF Leftover
<1>3. QED
  BY <1>1, <1>2

\* The streams were given add behind q.
Appends(q, add, q2) == \A s \in Streams : q2[s] = q[s] \o add[s]

\* Submitting appends to what is left.
LEMMA LeftoverGrows ==
    ASSUME NEW L, NEW add, NEW M, Added(L, add, M), NEW q \in Logs, NEW n, Leftover(L, q, n),
           NEW q2, Appends(q, add, q2)
    PROVE  Leftover(M, q2, n)
<1>1. L \in Logs /\ add \in Logs /\ M \in Logs
  BY DEF Added, Grown
<1>2. ASSUME NEW s \in Streams
      PROVE  /\ n[s] \in Nat /\ Len(M[s]) = n[s] + Len(q2[s])
             /\ \A i \in 1 .. Len(q2[s]) : q2[s][i] = M[s][n[s] + i]
  <2>1. PICK a, b, c, l, m : a = q[s] /\ b = add[s] /\ c = q2[s] /\ l = L[s] /\ m = M[s]
    OBVIOUS
  <2>2. PICK la, lb, ll, k : la = Len(a) /\ lb = Len(b) /\ ll = Len(l) /\ k = n[s]
    OBVIOUS
  <2>3. a \in Seq(Ops) /\ b \in Seq(Ops)
    BY <1>1, <2>1, LogIs
  <2>4. k \in Nat /\ la \in Nat /\ lb \in Nat /\ ll = k + la /\ \A i \in 1 .. la : a[i] = l[k + i]
    BY <1>1, <2>1, <2>2, <2>3, LeftoverIs, LogIs
  <2>5. Len(m) = ll + lb /\ (\A i \in 1 .. lb : m[ll + i] = b[i]) /\ \A i \in 1 .. ll : m[i] = l[i]
    BY <2>1, <2>2 DEF Added, Grown
  <2>6. c = a \o b
    BY <2>1 DEF Appends
  <2>7. /\ Len(a \o b) = Len(a) + Len(b)
        /\ \A i \in 1 .. Len(a) : (a \o b)[i] = a[i]
        /\ \A i \in 1 .. Len(b) : (a \o b)[Len(a) + i] = b[i]
    BY ONLY <2>3, ConcatIs
  <2>8. Len(c) = la + lb /\ (\A i \in 1 .. la : c[i] = a[i]) /\ \A i \in 1 .. lb : c[la + i] = b[i]
    BY <2>2, <2>6, <2>7
  <2>9. Len(m) = k + Len(c)
    BY <2>4, <2>5, <2>8
  <2>10. ASSUME NEW i \in 1 .. Len(c)  PROVE c[i] = m[k + i]
    <3>1. CASE i <= la
      <4>1. i \in 1 .. la /\ k + i \in 1 .. ll
        BY <2>4, <2>8, <3>1
      <4>2. QED  BY <2>4, <2>5, <2>8, <4>1
    <3>2. CASE i > la
      <4>1. PICK j : j = i - la
        OBVIOUS
      <4>2. j \in 1 .. lb /\ i = la + j /\ k + i = ll + j
        BY <2>4, <2>8, <3>2, <4>1
      <4>3. QED  BY <2>5, <2>8, <4>2
    <3>3. i \in Nat
      BY <2>4, <2>8
    <3>4. QED  BY <2>4, <3>1, <3>2, <3>3
  <2>11. QED  BY <2>1, <2>2, <2>4, <2>9, <2>10
<1>3. QED
  BY <1>2 DEF Leftover

\* The stream s runs its next operation.
Steps1(q, n, s, q2, n2) ==
    /\ q \in Logs /\ s \in Streams /\ q[s] # <<>>
    /\ q2 = [q EXCEPT ![s] = Tail(@)] /\ n \in [Streams -> Nat] /\ n2 = [n EXCEPT ![s] = @ + 1]

\* Running takes the first of what is left.
LEMMA LeftoverPops ==
    ASSUME NEW L \in Logs, NEW q, NEW n, Leftover(L, q, n), NEW s, NEW q2, NEW n2, Steps1(q, n, s, q2, n2)
    PROVE  /\ Leftover(L, q2, n2) /\ q2 \in Logs /\ n2 \in [Streams -> Nat]
           /\ n[s] + 1 \in 1 .. Len(L[s]) /\ Head(q[s]) = L[s][n[s] + 1] /\ n2[s] = n[s] + 1
           /\ \A t \in Streams : t # s => n2[t] = n[t]
<1>1. /\ q \in Logs /\ s \in Streams /\ q[s] # <<>>
      /\ q2 = [q EXCEPT ![s] = Tail(@)] /\ n \in [Streams -> Nat] /\ n2 = [n EXCEPT ![s] = @ + 1]
  BY DEF Steps1
<1>2. PICK a, k, l : a = q[s] /\ k = n[s] /\ l = L[s]
  OBVIOUS
<1>3. a \in Seq(Ops) /\ a # <<>> /\ k \in Nat /\ Len(a) \in Nat /\ Len(l) = k + Len(a)
      /\ \A i \in 1 .. Len(a) : a[i] = l[k + i]
  BY <1>1, <1>2, LogIs, LeftoverIs
<1>4. Len(a) >= 1 /\ Head(a) = a[1] /\ Tail(a) \in Seq(Ops) /\ Len(Tail(a)) = Len(a) - 1
      /\ \A i \in 1 .. Len(a) - 1 : Tail(a)[i] = a[i + 1]
  BY <1>3
<1>5. q2[s] = Tail(a) /\ n2[s] = k + 1 /\ n2 \in [Streams -> Nat]
      /\ \A t \in Streams : t # s => q2[t] = q[t] /\ n2[t] = n[t]
  BY <1>1, <1>2, <1>3 DEF Logs
<1>6. q2 \in Logs
  BY <1>1, <1>2, <1>4 DEF Logs
<1>7. /\ Len(l) = (k + 1) + Len(Tail(a))
      /\ \A i \in 1 .. Len(Tail(a)) : Tail(a)[i] = l[(k + 1) + i]
  <2>1. ASSUME NEW i \in 1 .. Len(Tail(a))  PROVE Tail(a)[i] = l[(k + 1) + i]
    <3>1. i \in 1 .. Len(a) - 1 /\ i + 1 \in 1 .. Len(a) /\ k + (i + 1) = (k + 1) + i
      BY <1>3, <1>4
    <3>2. Tail(a)[i] = a[i + 1] /\ a[i + 1] = l[k + (i + 1)]
      BY <1>3, <1>4, <3>1
    <3>3. QED  BY <3>1, <3>2
  <2>2. QED  BY <1>3, <1>4, <2>1
<1>8. ASSUME NEW t \in Streams
      PROVE  /\ n2[t] \in Nat /\ Len(L[t]) = n2[t] + Len(q2[t])
             /\ \A i \in 1 .. Len(q2[t]) : q2[t][i] = L[t][n2[t] + i]
  <2>1. CASE t = s
    BY <1>2, <1>3, <1>5, <1>7, <2>1, ZenonT(60)
  <2>2. CASE t # s
    BY <1>1, <1>5, <2>2, LeftoverIs
  <2>3. QED  BY <2>1, <2>2
<1>9. k + 1 \in 1 .. Len(l) /\ Head(a) = l[k + 1]
  BY <1>3, <1>4
<1>10. Leftover(L, q2, n2)
  BY <1>8 DEF Leftover
<1>11. QED
  BY <1>2, <1>5, <1>6, <1>9, <1>10

\* What ran has waited: when the log grows, ...
LEMMA WaitedGrows ==
    ASSUME NEW L, NEW M, Grown(L, M), NEW q \in Logs, NEW n, Leftover(L, q, n), Waited(L, n)
    PROVE  Waited(M, n)
<1>1. ASSUME NEW s \in Streams, NEW k \in 1 .. n[s]  PROVE n[M[s][k].on] >= M[s][k].upto
  <2>1. n[s] \in Nat /\ Len(L[s]) \in Nat /\ n[s] <= Len(L[s])
    BY LeftoverIs DEF Grown
  <2>2. k \in 1 .. Len(L[s])
    BY <2>1
  <2>3. M[s][k] = L[s][k]
    BY <2>2 DEF Grown
  <2>4. QED  BY <2>3 DEF Waited
<1>2. QED
  BY <1>1 DEF Waited

\* Nothing holds the operation that is next on stream s.
Free1(L, n, s) == n[L[s][n[s] + 1].on] >= L[s][n[s] + 1].upto

\* ... and when the next operation runs, whose wait is over.
LEMMA WaitedPops ==
    ASSUME NEW L \in Logs, NEW q, NEW n, Leftover(L, q, n), Waited(L, n), NEW s, NEW q2, NEW n2,
           Steps1(q, n, s, q2, n2), Free1(L, n, s)
    PROVE  Waited(L, n2)
<1>1. /\ n \in [Streams -> Nat] /\ s \in Streams /\ n2[s] = n[s] + 1 /\ n2 \in [Streams -> Nat]
      /\ \A t \in Streams : t # s => n2[t] = n[t]
      /\ q \in Logs
  BY LeftoverPops DEF Steps1
<1>2. \A t \in Streams : n2[t] >= n[t] /\ n2[t] \in Nat /\ n[t] \in Nat
  BY <1>1
<1>3. ASSUME NEW t \in Streams, NEW k \in 1 .. n2[t]  PROVE n2[L[t][k].on] >= L[t][k].upto
  <2>1. k \in 1 .. Len(L[t])
    <3>1. Leftover(L, q2, n2) /\ q2 \in Logs
      BY LeftoverPops
    <3>2. n2[t] <= Len(L[t]) /\ n2[t] \in Nat /\ Len(L[t]) \in Nat
      BY <3>1, LeftoverIs
    <3>3. QED  BY <3>2
  <2>2. L[t][k].on \in Streams /\ L[t][k].upto \in Nat
    BY <2>1, LogIs, OpIs
  <2>3. n[L[t][k].on] >= L[t][k].upto
    <3>1. CASE k \in 1 .. n[t]
      BY <3>1 DEF Waited
    <3>2. CASE t = s /\ k = n[s] + 1
      BY <3>2 DEF Free1
    <3>3. k \in 1 .. n[t] \/ (t = s /\ k = n[s] + 1)
      BY <1>1, <1>2
    <3>4. QED  BY <3>1, <3>2, <3>3
  <2>4. QED  BY <1>2, <2>2, <2>3
<1>4. QED
  BY <1>3 DEF Waited

\* What comes before what ran has run.
LEMMA WaitedBefore ==
    ASSUME NEW L \in Logs, NEW q \in Logs, NEW n, Leftover(L, q, n), Waited(L, n),
           NEW s \in Streams, NEW t \in Streams, NEW k \in Nat, NEW j \in Nat, Before(L, s, k, t, j), j <= n[t]
    PROVE  k <= n[s]
<1>1. n[s] \in Nat /\ n[t] \in Nat
  BY LeftoverIs
<1>2. CASE s = t /\ k <= j
  BY <1>1, <1>2
<1>3. CASE \E g \in 1 .. Len(L[t]) : g <= j /\ L[t][g].on = s /\ L[t][g].upto >= k
  <2>1. PICK g \in 1 .. Len(L[t]) : g <= j /\ L[t][g].on = s /\ L[t][g].upto >= k
    BY <1>3
  <2>2. g \in 1 .. n[t] /\ L[t][g].upto \in Nat
    <3>1. L[t][g] \in Ops /\ Len(L[t]) \in Nat
      BY LogIs
    <3>2. L[t][g].upto \in Nat
      BY <3>1, OpIs
    <3>3. QED  BY <1>1, <2>1, <3>1, <3>2
  <2>3. n[s] >= L[t][g].upto
    BY <2>1, <2>2 DEF Waited
  <2>4. QED  BY <1>1, <2>1, <2>2, <2>3
<1>4. QED
  BY <1>2, <1>3 DEF Before

\* What comes before what may run next has run.
LEMMA FreeBefore ==
    ASSUME NEW L \in Logs, NEW q, NEW n, Leftover(L, q, n), Waited(L, n), NEW t, NEW q2, NEW n2,
           Steps1(q, n, t, q2, n2), Free1(L, n, t),
           NEW s \in Streams, NEW k \in Nat, Before(L, s, k, t, n[t] + 1), s = t => k <= n[t]
    PROVE  k <= n[s]
<1>1. /\ n \in [Streams -> Nat] /\ t \in Streams /\ q \in Logs /\ n2[t] = n[t] + 1 /\ Leftover(L, q2, n2) /\ q2 \in Logs
      /\ \A u \in Streams : u # t => n2[u] = n[u]
  <2>1. n \in [Streams -> Nat] /\ t \in Streams /\ q \in Logs
    BY DEF Steps1
  <2>2. /\ Leftover(L, q2, n2) /\ q2 \in Logs /\ n2[t] = n[t] + 1
        /\ \A u \in Streams : u # t => n2[u] = n[u]
    BY LeftoverPops
  <2>3. QED  BY <2>1, <2>2
<1>2. Waited(L, n2)
  BY WaitedPops
<1>3. n[t] \in Nat /\ n[t] + 1 \in Nat /\ n[t] + 1 <= n2[t]
  BY <1>1
<1>4. k <= n2[s]
  BY <1>1, <1>2, <1>3, WaitedBefore
<1>5. CASE s = t
  BY <1>5
<1>6. CASE s # t
  BY <1>1, <1>4, <1>6
<1>7. QED
  BY <1>5, <1>6

------------------------------------------------------------------------------
(* One rank, k steps into its program. *)

Going(L, r, p, k, at, q, n) ==
    /\ Contract(p) /\ r \in Ranks /\ k \in Nat /\ k <= Len(p)
    /\ L \in Logs /\ q \in Logs /\ n \in [Streams -> Nat]
    /\ Told(L, r, p, k, at) /\ Leftover(L, q, n) /\ Waited(L, n)

\* Stream s of it runs its next operation.
Runs(L, r, p, k, at, q, n, s, q2, n2) ==
    /\ Going(L, r, p, k, at, q, n)
    /\ Steps1(q, n, s, q2, n2) /\ Free1(L, n, s)

\* A stream that runs an operation goes on as it went before.
LEMMA GoingOn ==
    ASSUME NEW L, NEW r, NEW p, NEW k, NEW at, NEW q, NEW n, NEW s, NEW q2, NEW n2,
           Runs(L, r, p, k, at, q, n, s, q2, n2)
    PROVE  Going(L, r, p, k, at, q2, n2)
<1>1. /\ Going(L, r, p, k, at, q, n) /\ L \in Logs /\ Leftover(L, q, n) /\ Waited(L, n)
      /\ Steps1(q, n, s, q2, n2) /\ Free1(L, n, s)
  BY DEF Runs, Going
<1>2. Leftover(L, q2, n2) /\ q2 \in Logs /\ n2 \in [Streams -> Nat]
  BY <1>1, LeftoverPops
<1>3. Waited(L, n2)
  BY <1>1, WaitedPops
<1>4. QED
  BY <1>1, <1>2, <1>3 DEF Going

\* Where step i's operations are, and what they are.
LEMMA TransferIs ==
    ASSUME NEW L, NEW r, NEW p, NEW k, NEW at, Contract(p), r \in Ranks, k \in Nat, k <= Len(p), Told(L, r, p, k, at),
           NEW i \in 1 .. k, Transfers(p, i)
    PROVE  /\ i \in DOMAIN p /\ Lane(p[i]) \in {"caller", "comm"} /\ Lane(p[i]) \in Streams
           /\ Filled(p, i) \in Windows
           /\ at[i].near \in Nat /\ at[i].near >= 1 /\ at[i].far \in Nat
           /\ End(p[i], at[i].near) \in Nat /\ End(p[i], at[i].near) >= at[i].near + 4
           /\ End(p[i], at[i].near) <= at[i].near + 5
           /\ End(p[i], at[i].near) <= Len(L[Lane(p[i])])
           /\ Laid(L, r, p, at, i)
           /\ p[i].do = "call" /\ p[i].call \in Calls /\ p[i].async \in BOOLEAN
<1>1. i \in DOMAIN p /\ at[i] \in Spots /\ Laid(L, r, p, at, i)
  <2>1. i \in DOMAIN p
    BY ProgramIs
  <2>2. QED  BY <2>1 DEF Told
<1>2. at[i].near \in Nat /\ at[i].far \in Nat
  BY <1>1 DEF Spots
<1>3. OwnShare(L[Lane(p[i])], r, p[i], Filled(p, i), at[i].near)
  BY <1>1 DEF Laid
<1>4. at[i].near >= 1 /\ End(p[i], at[i].near) <= Len(L[Lane(p[i])])
  BY <1>3 DEF OwnShare
<1>5. p[i].do = "call"
  BY DEF Transfers
<1>6. Lane(p[i]) \in {"caller", "comm"} /\ Filled(p, i) \in Windows
  BY <1>1, FilledIs
<1>7. Lane(p[i]) \in Streams
  BY <1>6 DEF Streams
<1>8. p[i].call \in Calls /\ p[i].async \in BOOLEAN
  BY <1>1, <1>5, CallIs
<1>9. QED
  BY <1>1, <1>2, <1>4, <1>5, <1>6, <1>7, <1>8, EndIs

\* What operation k of stream s is when it is one of step i's transfer.
Role(o, s, k, step, a) ==
    \/ s = "xfer" /\ o.op = "push"
    \/ s = Lane(step) /\ k = a /\ o.op = "arrive"
    \/ s = Lane(step) /\ k = a + 1 /\ o.op = "leave"
    \/ s = Lane(step) /\ k = a + 2 /\ o.op = "push"
    \/ s = Lane(step) /\ k = a + 3 /\ o.op = "arrive"
    \/ s = Lane(step) /\ k = a + 4 /\ o.op = "leave"
    \/ s = Lane(step) /\ k = a + 5 /\ o.op = "copyout" /\ step.dest = "fresh"

\* An operation within a step's transfer is on its window, with the part its place gives it.
LEMMA WithinIs ==
    ASSUME NEW L, NEW r, NEW p, NEW k, NEW at, Contract(p), r \in Ranks, k \in Nat, k <= Len(p), Told(L, r, p, k, at),
           NEW s \in Streams, NEW j \in Nat, NEW i \in 1 .. k, Within(r, p, at, s, j, i)
    PROVE  /\ L[s][j].win = Filled(p, i) /\ L[s][j].call = p[i].call
           /\ Role(L[s][j], s, j, p[i], at[i].near)
           /\ L[s][j].op = "push" => L[s][j].buf = L[Lane(p[i])][at[i].near + 2].buf
<1>1. PICK a, x, t, w : a = at[i].near /\ x = at[i].far /\ t = Lane(p[i]) /\ w = Filled(p, i)
  OBVIOUS
<1>2. PICK e : e = End(p[i], a)
  OBVIOUS
<1>3. Transfers(p, i)
  BY DEF Within
<1>4. /\ a \in Nat /\ x \in Nat /\ e \in Nat /\ t \in {"caller", "comm"} /\ Laid(L, r, p, at, i)
      /\ e = IF p[i].dest = "fresh" THEN a + 5 ELSE a + 4
  BY <1>1, <1>2, <1>3, TransferIs, EndIs, ZenonT(60)
<1>5. /\ OwnShare(L[t], r, p[i], w, a) /\ RemoteShares(L["xfer"], r, p[i], w, L[t][a + 2].buf, x)
  BY <1>1, <1>4 DEF Laid
<1>6. CASE s = "xfer"
  <2>1. PICK y : y = j - x
    OBVIOUS
  <2>2. y \in 1 .. Copied(r) /\ j = x + y
    <3>1. y \in 1 .. Copied(r)
      BY <1>1, <1>6, <2>1 DEF Within
    <3>2. Copied(r) \in Nat
      BY CopiedIs
    <3>3. QED  BY <1>4, <2>1, <3>1, <3>2
  <2>3. /\ L["xfer"][j].op = "push" /\ L["xfer"][j].win = w /\ L["xfer"][j].call = p[i].call
        /\ L["xfer"][j].buf = L[t][a + 2].buf
    BY <1>5, <2>2 DEF RemoteShares
  <2>4. QED  BY <1>1, <1>6, <2>3 DEF Role
<1>7. CASE s # "xfer"
  <2>1. s = t /\ j \in a .. e
    BY <1>1, <1>2, <1>3, <1>7 DEF Within
  <2>2. /\ L[t][a].op = "arrive" /\ L[t][a + 1].op = "leave" /\ L[t][a + 2].op = "push"
        /\ L[t][a + 3].op = "arrive" /\ L[t][a + 4].op = "leave"
        /\ p[i].dest = "fresh" => L[t][a + 5].op = "copyout"
        /\ L[t][j].win = w /\ L[t][j].call = p[i].call
    BY <1>2, <1>5, <2>1 DEF OwnShare
  <2>3. \/ j = a \/ j = a + 1 \/ j = a + 2 \/ j = a + 3 \/ j = a + 4
        \/ j = a + 5 /\ p[i].dest = "fresh"
    <3>1. CASE p[i].dest = "fresh"
      <4>1. a \in Nat /\ j \in a .. a + 5
        BY <1>4, <2>1, <3>1
      <4>2. j = a \/ j = a + 1 \/ j = a + 2 \/ j = a + 3 \/ j = a + 4 \/ j = a + 5
        BY ONLY <4>1
      <4>3. QED  BY <3>1, <4>2
    <3>2. CASE p[i].dest # "fresh"
      <4>1. a \in Nat /\ j \in a .. a + 4
        BY <1>4, <2>1, <3>2
      <4>2. j = a \/ j = a + 1 \/ j = a + 2 \/ j = a + 3 \/ j = a + 4
        BY ONLY <4>1
      <4>3. QED  BY <4>2
    <3>3. QED  BY <3>1, <3>2
  <2>4. Role(L[s][j], s, j, p[i], a)
    BY <1>1, <2>1, <2>2, <2>3 DEF Role
  <2>5. L[s][j].op = "push" => j = a + 2
    BY <2>1, <2>2, <2>3
  <2>6. QED  BY <1>1, <2>1, <2>2, <2>4, <2>5
<1>8. QED
  BY <1>6, <1>7

\* An operation on a window is one of a transfer's.
LEMMA WhoseIs ==
    ASSUME NEW L, NEW r, NEW p, NEW k, NEW at, Contract(p), r \in Ranks, k \in Nat, k <= Len(p), Told(L, r, p, k, at),
           NEW s \in Streams, NEW j \in 1 .. Len(L[s]),
           s = "xfer" \/ L[s][j].op \in {"arrive", "leave", "push", "copyout"}
    PROVE  \E i \in 1 .. k :
              /\ Within(r, p, at, s, j, i) /\ Transfers(p, i)
              /\ L[s][j].win = Filled(p, i) /\ L[s][j].call = p[i].call
              /\ Role(L[s][j], s, j, p[i], at[i].near)
              /\ L[s][j].op = "push" => L[s][j].buf = L[Lane(p[i])][at[i].near + 2].buf
<1>1. Known(L, r, p, k, at, s, j)
  BY DEF Told
<1>2. PICK i \in 1 .. k : Within(r, p, at, s, j, i)
  BY <1>1 DEF Known
<1>3. L \in Logs
  BY DEF Told
<1>4. j \in Nat
  <2>1. Len(L[s]) \in Nat
    BY <1>3, LogIs
  <2>2. QED  BY <2>1
<1>5. Transfers(p, i)
  BY <1>2 DEF Within
<1>6. QED
  BY <1>2, <1>4, <1>5, WithinIs

------------------------------------------------------------------------------
(* The barriers a rank has started. *)

\* All transfers into step i's window that come before it have closed once it may open.
LEMMA EarlierClosed ==
    ASSUME NEW L, NEW r, NEW p, NEW k, NEW at, NEW q, NEW n, NEW s, NEW q2, NEW n2, Runs(L, r, p, k, at, q, n, s, q2, n2),
           NEW i \in 1 .. k, Transfers(p, i), s = Lane(p[i]), at[i].near <= n[s] + 1,
           NEW j \in 1 .. k, Transfers(p, j), j < i, Filled(p, j) = Filled(p, i)
    PROVE  End(p[j], at[j].near) <= n[Lane(p[j])]
<1>1. /\ Contract(p) /\ r \in Ranks /\ k \in Nat /\ k <= Len(p) /\ Told(L, r, p, k, at)
      /\ L \in Logs /\ q \in Logs /\ n \in [Streams -> Nat] /\ Leftover(L, q, n) /\ Waited(L, n)
      /\ Steps1(q, n, s, q2, n2) /\ Free1(L, n, s)
  BY DEF Runs, Going
<1>2. PICK t, e, a : t = Lane(p[j]) /\ e = End(p[j], at[j].near) /\ a = at[i].near
  OBVIOUS
<1>3. t \in Streams /\ e \in Nat /\ s \in Streams /\ a \in Nat /\ a >= 1 /\ i \in DOMAIN p /\ j \in DOMAIN p
      /\ n[s] \in Nat
  BY <1>1, <1>2, TransferIs, SMTT(60)
<1>4. Ordered(L, r, p, at, j, i)
  BY <1>1 DEF Told
<1>5. Before(L, t, e, s, a) /\ (t = s => e < a)
  BY <1>2, <1>4 DEF Ordered
<1>6. CASE a <= n[s]
  <2>1. e <= n[t]
    BY <1>1, <1>3, <1>5, <1>6, WaitedBefore
  <2>2. QED  BY <1>2, <2>1
<1>7. CASE a = n[s] + 1
  <2>1. Before(L, t, e, s, n[s] + 1) /\ (t = s => e <= n[s])
    BY <1>3, <1>5, <1>7
  <2>2. e <= n[t]
    BY <1>1, <1>3, <2>1, FreeBefore
  <2>3. QED  BY <1>2, <2>2
<1>8. a <= n[s] \/ a = n[s] + 1
  BY <1>2, <1>3
<1>9. QED
  BY <1>6, <1>7, <1>8

\* A barrier is started by the operation at its place, which is on its window.
LEMMA StartsAt ==
    ASSUME NEW L, NEW r, NEW p, NEW k, NEW at, Contract(p), r \in Ranks, k \in Nat, k <= Len(p), Told(L, r, p, k, at),
           NEW i \in 1 .. k, Transfers(p, i), NEW d \in {0, 3}
    PROVE  /\ L[Lane(p[i])][at[i].near + d].op = "arrive"
           /\ L[Lane(p[i])][at[i].near + d].win = Filled(p, i)
<1>1. PICK a, t, e : a = at[i].near /\ t = Lane(p[i]) /\ e = End(p[i], a)
  OBVIOUS
<1>2. a \in Nat /\ e \in Nat /\ e >= a + 4 /\ Laid(L, r, p, at, i)
  BY <1>1, TransferIs
<1>3. OwnShare(L[t], r, p[i], Filled(p, i), a)
  BY <1>1, <1>2 DEF Laid
<1>4. L[t][a].op = "arrive" /\ L[t][a + 3].op = "arrive" /\ \A j \in a .. e : L[t][j].win = Filled(p, i)
  BY <1>1, <1>3 DEF OwnShare
<1>5. a + d \in a .. e /\ (d = 0 => a + d = a)
  BY <1>2
<1>6. QED
  BY <1>1, <1>4, <1>5, SMTT(60)

\* What runs and starts no barrier on step i's window opens and closes none of its.
LEMMA NotMine ==
    ASSUME NEW L, NEW r, NEW p, NEW k, NEW at, NEW q, NEW n, NEW s, NEW q2, NEW n2, Runs(L, r, p, k, at, q, n, s, q2, n2),
           NEW i \in 1 .. k, Transfers(p, i),
           L[s][n[s] + 1].op # "arrive" \/ L[s][n[s] + 1].win # Filled(p, i)
    PROVE  (Opened(p, at, n2, i) <=> Opened(p, at, n, i)) /\ (Closed(p, at, n2, i) <=> Closed(p, at, n, i))
<1>1. /\ Contract(p) /\ r \in Ranks /\ k \in Nat /\ k <= Len(p) /\ Told(L, r, p, k, at)
      /\ L \in Logs /\ q \in Logs /\ n \in [Streams -> Nat] /\ Leftover(L, q, n)
      /\ Steps1(q, n, s, q2, n2)
  BY DEF Runs, Going
<1>2. n2[s] = n[s] + 1 /\ \A t \in Streams : t # s => n2[t] = n[t]
  BY <1>1, LeftoverPops
<1>3. PICK a, t : a = at[i].near /\ t = Lane(p[i])
  OBVIOUS
<1>4. a \in Nat /\ t \in Streams /\ n[t] \in Nat
  BY <1>1, <1>3, TransferIs
<1>5. /\ L[t][a + 0].op = "arrive" /\ L[t][a + 0].win = Filled(p, i)
      /\ L[t][a + 3].op = "arrive" /\ L[t][a + 3].win = Filled(p, i)
  BY <1>1, <1>3, StartsAt
<1>6. a + 0 = a
  BY <1>4
<1>7. t = s => a # n[s] + 1 /\ a + 3 # n[s] + 1
  BY <1>5, <1>6
<1>8. (a <= n2[t] <=> a <= n[t]) /\ (a + 3 <= n2[t] <=> a + 3 <= n[t])
  BY <1>2, <1>4, <1>7
<1>9. QED
  BY <1>3, <1>8 DEF Opened, Closed

\* The next operation of stream s starts step i's opening (d = 0) or closing (d = 3) barrier.
Turn(p, at, n, s, i, d) ==
    /\ Transfers(p, i) /\ s = Lane(p[i]) /\ d \in {0, 3} /\ n[s] + 1 = at[i].near + d

\* The barrier that is next on a stream is the opening or the closing one of one step.
LEMMA WhoseTurn ==
    ASSUME NEW L, NEW r, NEW p, NEW k, NEW at, NEW q, NEW n, NEW s, NEW q2, NEW n2, Runs(L, r, p, k, at, q, n, s, q2, n2),
           L[s][n[s] + 1].op = "arrive"
    PROVE  \E i \in 1 .. k, d \in {0, 3} : Turn(p, at, n, s, i, d) /\ L[s][n[s] + 1].win = Filled(p, i)
<1>1. /\ Contract(p) /\ r \in Ranks /\ k \in Nat /\ k <= Len(p) /\ Told(L, r, p, k, at)
      /\ L \in Logs /\ q \in Logs /\ n \in [Streams -> Nat] /\ Leftover(L, q, n)
      /\ Steps1(q, n, s, q2, n2)
  BY DEF Runs, Going
<1>2. n[s] + 1 \in 1 .. Len(L[s])
  BY <1>1, LeftoverPops
<1>3. s \in Streams
  BY <1>1 DEF Steps1
<1>4. PICK j : j = n[s] + 1
  OBVIOUS
<1>5. PICK i \in 1 .. k : /\ Transfers(p, i) /\ L[s][j].win = Filled(p, i)
                          /\ Role(L[s][j], s, j, p[i], at[i].near)
  BY <1>1, <1>2, <1>3, <1>4, WhoseIs
<1>6. at[i].near \in Nat
  BY <1>1, <1>5, TransferIs
<1>7. s = Lane(p[i]) /\ (j = at[i].near \/ j = at[i].near + 3)
  BY <1>4, <1>5 DEF Role
<1>8. at[i].near + 0 = at[i].near
  BY <1>6
<1>9. Turn(p, at, n, s, i, 0) \/ Turn(p, at, n, s, i, 3)
  BY <1>4, <1>5, <1>7, <1>8 DEF Turn
<1>10. QED
  BY <1>4, <1>5, <1>9

\* The number of the barrier that starts.
LEMMA TurnNumber ==
    ASSUME NEW L, NEW r, NEW p, NEW k, NEW at, NEW q, NEW n, NEW s, NEW q2, NEW n2, Runs(L, r, p, k, at, q, n, s, q2, n2),
           NEW arr \in [Windows -> Nat], Counted(p, k, at, n, arr),
           NEW i \in 1 .. k, NEW d, Turn(p, at, n, s, i, d)
    PROVE  /\ arr[Filled(p, i)] = 2 * Nth(p, i) + (IF d = 0 THEN 0 ELSE 1)
           /\ arr[Filled(p, i)] + 1 <= 2 * MaxCalls
<1>1. /\ Contract(p) /\ r \in Ranks /\ k \in Nat /\ k <= Len(p) /\ Told(L, r, p, k, at)
      /\ n \in [Streams -> Nat]
  BY DEF Runs, Going
<1>2. Transfers(p, i) /\ s = Lane(p[i]) /\ d \in {0, 3} /\ n[s] + 1 = at[i].near + d
  BY DEF Turn
<1>3. PICK a, w, m, c : a = at[i].near /\ w = Filled(p, i) /\ m = Nth(p, i) /\ c = arr[w]
  OBVIOUS
<1>4. a \in Nat /\ w \in Windows /\ i \in DOMAIN p /\ s \in Streams
  BY <1>1, <1>2, <1>3, TransferIs
<1>5. m \in Nat /\ m + 1 <= MaxCalls /\ c \in Nat /\ n[s] \in Nat /\ MaxCalls \in Nat
  BY <1>1, <1>2, <1>3, <1>4, EarlierIs, NthBelow, ExchangeAssumption
<1>6. i <= k
  BY <1>1
<1>7. (a <= n[s] <=> c >= 2 * m + 1) /\ (a + 3 <= n[s] <=> c >= 2 * m + 2)
  <2>1. (Opened(p, at, n, i) <=> c >= 2 * m + 1) /\ (Closed(p, at, n, i) <=> c >= 2 * m + 2)
    BY <1>2, <1>3, <1>4, <1>6 DEF Counted
  <2>2. QED  BY <1>2, <1>3, <2>1 DEF Opened, Closed
<1>8. CASE d = 0
  <2>1. ~ (a <= n[s])
    BY <1>2, <1>3, <1>4, <1>5, <1>8
  <2>2. c <= 2 * m
    BY <1>5, <1>7, <2>1
  <2>3. c >= 2 * m
    <3>1. CASE m = 0
      BY <1>5, <3>1
    <3>2. CASE m # 0
      <4>1. PICK j \in Earlier(p, i) : m = Nth(p, j) + 1
        BY <1>1, <1>3, <1>4, <3>2, JustBefore
      <4>2. j \in Nat /\ j >= 1 /\ j < i /\ Transfers(p, j) /\ Filled(p, j) = w
        BY <1>1, <1>3, <1>4, EarlierIs
      <4>3. j \in 1 .. k /\ j \in DOMAIN p /\ j <= k /\ i \in Nat
        BY <1>1, <1>6, <4>2, ProgramIs
      <4>4. End(p[j], at[j].near) <= n[Lane(p[j])]
        <5>1. at[i].near <= n[s] + 1
          BY <1>2, <1>8, <1>3, <1>4, <1>5
        <5>2. QED  BY <1>2, <1>3, <4>2, <4>3, <5>1, EarlierClosed
      <4>5. Closed(p, at, n, j)
        <5>1. PICK b, e, t : b = at[j].near /\ e = End(p[j], b) /\ t = Lane(p[j])
          OBVIOUS
        <5>2. b \in Nat /\ e \in Nat /\ e >= b + 4 /\ t \in Streams
          BY <1>1, <4>2, <4>3, <5>1, TransferIs
        <5>3. e <= n[t] /\ n[t] \in Nat
          BY <1>1, <4>4, <5>1, <5>2
        <5>4. b + 3 <= n[t]
          BY <5>2, <5>3
        <5>5. QED  BY <5>1, <5>4 DEF Closed
      <4>6. c >= 2 * Nth(p, j) + 2
        BY <1>3, <4>2, <4>3, <4>5 DEF Counted
      <4>7. Nth(p, j) \in Nat
        BY <1>1, <4>3, EarlierIs
      <4>8. QED  BY <1>5, <4>1, <4>6, <4>7
    <3>3. QED  BY <3>1, <3>2
  <2>4. QED  BY <1>3, <1>5, <1>8, <2>2, <2>3
<1>9. CASE d = 3
  <2>1. a <= n[s] /\ ~ (a + 3 <= n[s])
    BY <1>2, <1>3, <1>4, <1>5, <1>9
  <2>2. c = 2 * m + 1
    BY <1>5, <1>7, <2>1
  <2>3. QED  BY <1>3, <1>5, <1>9, <2>2
<1>10. QED
  BY <1>2, <1>8, <1>9

\* An operation that starts no barrier leaves the count as it is.
LEMMA QuietCounted ==
    ASSUME NEW L, NEW r, NEW p, NEW k, NEW at, NEW q, NEW n, NEW s, NEW q2, NEW n2, Runs(L, r, p, k, at, q, n, s, q2, n2),
           NEW arr, Counted(p, k, at, n, arr), L[s][n[s] + 1].op # "arrive"
    PROVE  Counted(p, k, at, n2, arr)
<1>1. Contract(p) /\ k \in Nat /\ k <= Len(p)
  BY DEF Runs, Going
<1>2. ASSUME NEW i \in DOMAIN p, Transfers(p, i), i <= k
      PROVE  /\ Opened(p, at, n2, i) <=> arr[Filled(p, i)] >= 2 * Nth(p, i) + 1
             /\ Closed(p, at, n2, i) <=> arr[Filled(p, i)] >= 2 * Nth(p, i) + 2
  <2>1. i \in 1 .. k
    BY <1>1, <1>2, ProgramIs
  <2>2. (Opened(p, at, n2, i) <=> Opened(p, at, n, i)) /\ (Closed(p, at, n2, i) <=> Closed(p, at, n, i))
    BY <1>2, <2>1, NotMine
  <2>3. QED  BY <1>2, <2>2 DEF Counted
<1>3. QED
  BY <1>2 DEF Counted

\* Starting one counts it: the barriers on a window start in the order of the steps.
LEMMA ArriveCounted ==
    ASSUME NEW L, NEW r, NEW p, NEW k, NEW at, NEW q, NEW n, NEW s, NEW q2, NEW n2, Runs(L, r, p, k, at, q, n, s, q2, n2),
           NEW arr \in [Windows -> Nat], Counted(p, k, at, n, arr),
           NEW i \in 1 .. k, NEW d, Turn(p, at, n, s, i, d),
           NEW arr2, arr2 = [arr EXCEPT ![Filled(p, i)] = @ + 1]
    PROVE  Counted(p, k, at, n2, arr2)
<1>1. /\ Contract(p) /\ r \in Ranks /\ k \in Nat /\ k <= Len(p) /\ Told(L, r, p, k, at)
      /\ n \in [Streams -> Nat] /\ L \in Logs /\ q \in Logs /\ Leftover(L, q, n) /\ Waited(L, n)
      /\ Steps1(q, n, s, q2, n2) /\ Free1(L, n, s)
  BY DEF Runs, Going
<1>2. Transfers(p, i) /\ s = Lane(p[i]) /\ d \in {0, 3} /\ n[s] + 1 = at[i].near + d
  BY DEF Turn
<1>3. PICK a, w, m, c : a = at[i].near /\ w = Filled(p, i) /\ m = Nth(p, i) /\ c = arr[w]
  OBVIOUS
<1>4. a \in Nat /\ w \in Windows /\ i \in DOMAIN p /\ s \in Streams /\ i <= k /\ i \in Nat /\ m \in Nat /\ n[s] \in Nat
  BY <1>1, <1>2, <1>3, TransferIs, EarlierIs, SMTT(60)
<1>5. c = 2 * m + (IF d = 0 THEN 0 ELSE 1) /\ c \in Nat
  BY <1>3, <1>4, TurnNumber
<1>6. n2[s] = n[s] + 1 /\ n2 \in [Streams -> Nat] /\ (\A t \in Streams : t # s => n2[t] = n[t]) /\ Waited(L, n2)
      /\ Leftover(L, q2, n2) /\ q2 \in Logs
  <2>1. n2[s] = n[s] + 1 /\ n2 \in [Streams -> Nat] /\ (\A t \in Streams : t # s => n2[t] = n[t])
        /\ Leftover(L, q2, n2) /\ q2 \in Logs
    BY <1>1, LeftoverPops
  <2>2. Waited(L, n2)
    BY <1>1, WaitedPops
  <2>3. QED  BY <2>1, <2>2
<1>7. arr2[w] = c + 1 /\ \A v \in Windows : v # w => arr2[v] = arr[v]
  BY <1>3, <1>4
<1>8. L[s][n[s] + 1].win = w
  <2>1. L[s][a + d].win = w
    BY <1>1, <1>2, <1>3, StartsAt, SMTT(60)
  <2>2. QED  BY <1>2, <1>3, <2>1
<1>9. ASSUME NEW j \in DOMAIN p, Transfers(p, j)
      PROVE  IF j <= k THEN /\ Opened(p, at, n2, j) <=> arr2[Filled(p, j)] >= 2 * Nth(p, j) + 1
                            /\ Closed(p, at, n2, j) <=> arr2[Filled(p, j)] >= 2 * Nth(p, j) + 2
             ELSE arr2[Filled(p, j)] <= 2 * Nth(p, j)
  <2>1. j \in Nat /\ Filled(p, j) \in Windows /\ Nth(p, j) \in Nat
    BY <1>1, <1>9, ProgramIs, FilledIs, EarlierIs
  <2>2. /\ j <= k => /\ Opened(p, at, n, j) <=> arr[Filled(p, j)] >= 2 * Nth(p, j) + 1
                     /\ Closed(p, at, n, j) <=> arr[Filled(p, j)] >= 2 * Nth(p, j) + 2
        /\ j > k => arr[Filled(p, j)] <= 2 * Nth(p, j)
    BY <1>1, <1>9, <2>1 DEF Counted
  <2>3. j <= k => j \in 1 .. k
    BY <1>1, <1>9, <2>1, ProgramIs
  <2>4. CASE Filled(p, j) # w
    <3>1. arr2[Filled(p, j)] = arr[Filled(p, j)]
      BY <1>7, <2>1, <2>4
    <3>2. CASE j <= k
      <4>1. (Opened(p, at, n2, j) <=> Opened(p, at, n, j)) /\ (Closed(p, at, n2, j) <=> Closed(p, at, n, j))
        BY <1>8, <1>9, <2>3, <2>4, <3>2, NotMine
      <4>2. QED  BY <2>2, <3>1, <3>2, <4>1
    <3>3. CASE j > k
      BY <2>1, <1>1, <2>2, <3>1, <3>3
    <3>4. QED  BY <1>1, <2>1, <3>2, <3>3
  <2>5. CASE j = i
    <3>1. Opened(p, at, n2, i) /\ (Closed(p, at, n2, i) <=> d = 3)
      <4>1. (a <= n2[s]) /\ (a + 3 <= n2[s] <=> d = 3)
        BY <1>2, <1>3, <1>4, <1>6
      <4>2. QED  BY <1>2, <1>3, <4>1 DEF Opened, Closed
    <3>2. arr2[w] = 2 * m + (IF d = 0 THEN 1 ELSE 2)
      BY <1>2, <1>4, <1>5, <1>7
    <3>3. (arr2[w] >= 2 * m + 1) /\ (arr2[w] >= 2 * m + 2 <=> d = 3)
      BY <1>2, <1>4, <3>2
    <3>4. QED  BY <1>3, <1>4, <2>5, <3>1, <3>3
  <2>6. CASE j < i /\ Filled(p, j) = w
    <3>1. j \in 1 .. k /\ j <= k
      BY <1>1, <1>4, <2>1, <2>3, <2>6
    <3>2. PICK b, e, t : b = at[j].near /\ e = End(p[j], b) /\ t = Lane(p[j])
      OBVIOUS
    <3>3. b \in Nat /\ e \in Nat /\ e >= b + 4 /\ t \in Streams
      BY <1>1, <1>9, <3>1, <3>2, TransferIs
    <3>4. e <= n[t] /\ n[t] \in Nat
      <4>1. at[i].near <= n[s] + 1
        BY <1>2, <1>3, <1>4
      <4>2. End(p[j], at[j].near) <= n[Lane(p[j])]
        BY <1>2, <1>3, <1>9, <2>6, <3>1, <4>1, EarlierClosed
      <4>3. QED  BY <1>1, <3>2, <3>3, <4>2
    <3>5. n2[t] >= n[t] /\ n2[t] \in Nat
      BY <1>4, <1>6, <3>3, <3>4
    <3>6. b <= n2[t] /\ b + 3 <= n2[t] /\ b <= n[t] /\ b + 3 <= n[t]
      BY <3>3, <3>4, <3>5
    <3>7. Opened(p, at, n2, j) /\ Closed(p, at, n2, j) /\ Opened(p, at, n, j) /\ Closed(p, at, n, j)
      BY <3>2, <3>6 DEF Opened, Closed
    <3>8. c >= 2 * Nth(p, j) + 1 /\ c >= 2 * Nth(p, j) + 2
      BY <1>3, <2>2, <2>6, <3>1, <3>7
    <3>9. c + 1 >= 2 * Nth(p, j) + 1 /\ c + 1 >= 2 * Nth(p, j) + 2
      BY <1>5, <2>1, <3>8
    <3>10. QED  BY <1>7, <2>6, <3>1, <3>7, <3>9
  <2>7. CASE j > i /\ Filled(p, j) = w
    <3>1. m + 1 <= Nth(p, j)
      BY <1>1, <1>2, <1>3, <1>4, <1>9, <2>7, NthGrows
    <3>2. arr2[w] <= 2 * Nth(p, j)
      <4>1. c <= 2 * m + 1
        BY <1>2, <1>4, <1>5
      <4>2. c + 1 <= 2 * m + 2
        BY <1>4, <1>5, <4>1
      <4>3. QED  BY <1>4, <1>5, <1>7, <2>1, <3>1, <4>2
    <3>3. CASE j > k
      BY <1>1, <2>1, <2>7, <3>2, <3>3
    <3>4. CASE j <= k
      <4>1. j \in 1 .. k
        BY <2>3, <3>4
      <4>2. PICK b, e, t : b = at[j].near /\ e = End(p[i], a) /\ t = Lane(p[j])
        OBVIOUS
      <4>3. b \in Nat /\ t \in Streams /\ e \in Nat /\ e >= a + 4 /\ n2[t] \in Nat
        BY <1>1, <1>2, <1>3, <1>6, <1>9, <4>1, <4>2, TransferIs, ZenonT(60)
      <4>4. Before(L, s, e, t, b)
        <5>1. Ordered(L, r, p, at, i, j)
          BY <1>1, <1>2, <1>9, <2>7, <4>1 DEF Told
        <5>2. QED  BY <1>2, <1>3, <2>7, <4>2, <5>1 DEF Ordered
      <4>5. ~ (b <= n2[t])
        <5>1. SUFFICES ASSUME b <= n2[t]  PROVE FALSE
          OBVIOUS
        <5>2. e <= n2[s]
          BY <1>1, <1>4, <1>6, <4>3, <4>4, <5>1, WaitedBefore
        <5>3. QED  BY <1>2, <1>3, <1>4, <1>6, <4>3, <5>2
      <4>6. ~ (b + 3 <= n2[t])
        BY <4>3, <4>5
      <4>7. ~ Opened(p, at, n2, j) /\ ~ Closed(p, at, n2, j)
        BY <4>2, <4>5, <4>6 DEF Opened, Closed
      <4>8. ~ (arr2[w] >= 2 * Nth(p, j) + 1) /\ ~ (arr2[w] >= 2 * Nth(p, j) + 2)
        BY <1>5, <1>7, <2>1, <3>2
      <4>9. QED  BY <2>7, <3>4, <4>7, <4>8
    <3>5. QED  BY <1>1, <2>1, <3>3, <3>4
  <2>8. QED
    BY <1>4, <2>1, <2>4, <2>5, <2>6, <2>7
<1>10. QED
  BY <1>9 DEF Counted

\* A stream that is in a barrier leaves it next.
LEMMA InsideIs ==
    ASSUME NEW L, NEW r, NEW p, NEW k, NEW at, NEW q, NEW n, Going(L, r, p, k, at, q, n),
           NEW tk, Inside(L, n, tk), NEW s \in Streams, tk[s] # 0
    PROVE  \E i \in 1 .. k : /\ Transfers(p, i) /\ s = Lane(p[i])
                             /\ n[s] = at[i].near \/ n[s] = at[i].near + 3
                             /\ n[s] + 1 \in 1 .. Len(L[s]) /\ L[s][n[s] + 1].op = "leave"
                             /\ L[s][n[s] + 1].win = Filled(p, i)
<1>1. /\ Contract(p) /\ r \in Ranks /\ k \in Nat /\ k <= Len(p) /\ Told(L, r, p, k, at)
      /\ n \in [Streams -> Nat] /\ L \in Logs /\ q \in Logs /\ Leftover(L, q, n)
  BY DEF Going
<1>2. PICK j : j = n[s]
  OBVIOUS
<1>3. j > 0 /\ L[s][j].op = "arrive" /\ j \in Nat /\ j <= Len(L[s]) /\ Len(L[s]) \in Nat
  BY <1>1, <1>2, LeftoverIs DEF Inside
<1>4. j \in 1 .. Len(L[s])
  BY <1>3
<1>5. PICK i \in 1 .. k : Transfers(p, i) /\ Role(L[s][j], s, j, p[i], at[i].near)
  BY <1>1, <1>3, <1>4, WhoseIs
<1>6. PICK a, e : a = at[i].near /\ e = End(p[i], a)
  OBVIOUS
<1>7. s = Lane(p[i]) /\ (j = a \/ j = a + 3)
  BY <1>3, <1>5, <1>6 DEF Role
<1>8. a \in Nat /\ a >= 1 /\ e \in Nat /\ e >= a + 4 /\ e <= Len(L[s]) /\ Laid(L, r, p, at, i)
  BY <1>1, <1>5, <1>6, <1>7, TransferIs, SMTT(60)
<1>9. OwnShare(L[s], r, p[i], Filled(p, i), a)
  BY <1>6, <1>7, <1>8 DEF Laid
<1>10. L[s][a + 1].op = "leave" /\ L[s][a + 4].op = "leave" /\ \A y \in a .. e : L[s][y].win = Filled(p, i)
  BY <1>6, <1>9 DEF OwnShare
<1>11. j + 1 \in a .. e /\ j + 1 \in 1 .. Len(L[s]) /\ (j + 1 = a + 1 \/ j + 1 = a + 4)
  BY <1>3, <1>7, <1>8, SMTT(60)
<1>12. L[s][j + 1].op = "leave" /\ L[s][j + 1].win = Filled(p, i)
  BY <1>10, <1>11
<1>13. QED
  BY <1>2, <1>5, <1>6, <1>7, <1>11, <1>12

\* A stream that is in a barrier has run its arrival last, whatever runs.
LEMMA InsideRuns ==
    ASSUME NEW L, NEW r, NEW p, NEW k, NEW at, NEW q, NEW n, NEW s, NEW q2, NEW n2, Runs(L, r, p, k, at, q, n, s, q2, n2),
           NEW tk, Inside(L, n, tk), NEW tk2, \A t \in Streams : t # s => tk2[t] = tk[t],
           L[s][n[s] + 1].op = "leave" => tk2[s] = 0,
           L[s][n[s] + 1].op \notin {"arrive", "leave"} => tk2[s] = tk[s]
    PROVE  Inside(L, n2, tk2)
<1>1. /\ Going(L, r, p, k, at, q, n) /\ n \in [Streams -> Nat] /\ L \in Logs /\ Leftover(L, q, n)
      /\ Steps1(q, n, s, q2, n2) /\ s \in Streams
  BY DEF Runs, Going, Steps1
<1>2. n2[s] = n[s] + 1 /\ n[s] \in Nat /\ (\A t \in Streams : t # s => n2[t] = n[t])
  BY <1>1, LeftoverPops
<1>3. ASSUME tk2[s] # 0  PROVE n2[s] > 0 /\ L[s][n2[s]].op = "arrive"
  <2>1. L[s][n[s] + 1].op # "arrive" => tk[s] # 0
    BY <1>3
  <2>2. tk[s] # 0 => L[s][n[s] + 1].op = "leave"
    BY <1>1, InsideIs
  <2>3. L[s][n[s] + 1].op = "arrive"
    BY <1>3, <2>1, <2>2
  <2>4. QED  BY <1>2, <2>3
<1>4. QED
  BY <1>2, <1>3 DEF Inside

\* What was closed stays so, and so the staging pool is as good as it was.
LEMMA PoolRuns ==
    ASSUME NEW L, NEW r, NEW p, NEW k, NEW at, NEW q, NEW n, NEW s, NEW q2, NEW n2, Runs(L, r, p, k, at, q, n, s, q2, n2),
           NEW pl, Released(L, p, k, at, n, pl), Restaged(L, p, k, at, n)
    PROVE  Released(L, p, k, at, n2, pl) /\ Restaged(L, p, k, at, n2)
<1>1. /\ Contract(p) /\ r \in Ranks /\ k \in Nat /\ k <= Len(p) /\ Told(L, r, p, k, at)
      /\ n \in [Streams -> Nat] /\ L \in Logs /\ Leftover(L, q, n) /\ Steps1(q, n, s, q2, n2) /\ s \in Streams
  BY DEF Runs, Going, Steps1
<1>2. n2[s] = n[s] + 1 /\ (\A t \in Streams : t # s => n2[t] = n[t])
  BY <1>1, LeftoverPops
<1>3. ASSUME NEW i \in 1 .. k, Transfers(p, i), Closed(p, at, n, i)  PROVE Closed(p, at, n2, i)
  <2>1. PICK a, t : a = at[i].near /\ t = Lane(p[i])
    OBVIOUS
  <2>2. a \in Nat /\ t \in Streams
    BY <1>1, <1>3, <2>1, TransferIs
  <2>3. a + 3 <= n[t] /\ n[t] \in Nat /\ (n2[t] = n[t] \/ n2[t] = n[t] + 1)
    BY <1>1, <1>2, <1>3, <2>1, <2>2 DEF Closed
  <2>4. a + 3 <= n2[t]
    BY <2>2, <2>3
  <2>5. QED  BY <2>1, <2>4 DEF Closed
<1>4. Released(L, p, k, at, n2, pl)
  BY <1>3 DEF Released
<1>5. Restaged(L, p, k, at, n2)
  <2>1. ASSUME NEW g \in 1 .. Len(L["caller"]), L["caller"][g].op = "stage", NEW i \in 1 .. k,
               Transfers(p, i), p[i].async, p[i].call < L["caller"][g].call,
               BufferOf(L, p, at, i) = L["caller"][g].buf
        PROVE  Closed(p, at, n2, i) \/ Before(L, "comm", at[i].near + 3, "caller", g)
    <3>1. Closed(p, at, n, i) \/ Before(L, "comm", at[i].near + 3, "caller", g)
      BY <2>1 DEF Restaged
    <3>2. QED  BY <1>3, <2>1, <3>1
  <2>2. QED  BY <2>1 DEF Restaged
<1>6. QED
  BY <1>4, <1>5

------------------------------------------------------------------------------
(* What a step of the host leaves as it was. *)

\* at2 places the steps at places, and one more.
Places1(p, k, at, at2) == \A i \in 1 .. k : at2[i] = at[i]

\* A step that submits leaves the count as it is: it starts no barrier.
LEMMA CountedGrows ==
    ASSUME NEW L, NEW r, NEW p, NEW k, NEW at, NEW q, NEW n, Going(L, r, p, k, at, q, n), k + 1 \in DOMAIN p,
           NEW arr \in [Windows -> Nat], Counted(p, k, at, n, arr), NEW at2, Places1(p, k, at, at2),
           NEW near \in Nat, Transfers(p, k + 1) => at2[k + 1].near = near /\ near > n[Lane(p[k + 1])]
    PROVE  Counted(p, k + 1, at2, n, arr)
<1>1. Contract(p) /\ k \in Nat /\ k <= Len(p) /\ n \in [Streams -> Nat]
  BY DEF Going
<1>2. ASSUME NEW i \in DOMAIN p, Transfers(p, i)
      PROVE  IF i <= k + 1 THEN /\ Opened(p, at2, n, i) <=> arr[Filled(p, i)] >= 2 * Nth(p, i) + 1
                                /\ Closed(p, at2, n, i) <=> arr[Filled(p, i)] >= 2 * Nth(p, i) + 2
             ELSE arr[Filled(p, i)] <= 2 * Nth(p, i)
  <2>1. i \in Nat /\ i >= 1 /\ Filled(p, i) \in Windows /\ Nth(p, i) \in Nat /\ Lane(p[i]) \in Streams
    <3>1. i \in Nat /\ i >= 1
      BY <1>1, ProgramIs
    <3>2. Filled(p, i) \in Windows /\ Nth(p, i) \in Nat /\ Lane(p[i]) \in {"caller", "comm"}
      BY <1>1, <1>2, FilledIs, EarlierIs
    <3>3. QED  BY <3>1, <3>2 DEF Streams
  <2>2. CASE i <= k
    <3>1. i \in 1 .. k
      BY <1>1, <2>1, <2>2
    <3>2. (Opened(p, at2, n, i) <=> Opened(p, at, n, i)) /\ (Closed(p, at2, n, i) <=> Closed(p, at, n, i))
      BY <3>1 DEF Places1, Opened, Closed
    <3>3. i <= k + 1
      BY <1>1, <2>1, <2>2
    <3>4. QED  BY <1>2, <2>2, <3>2, <3>3 DEF Counted
  <2>3. CASE i = k + 1
    <3>1. arr[Filled(p, i)] <= 2 * Nth(p, i) /\ arr[Filled(p, i)] \in Nat
      <4>1. ~ (i <= k)
        BY <1>1, <2>3
      <4>2. QED  BY <1>2, <2>1, <4>1 DEF Counted
    <3>2. ~ (arr[Filled(p, i)] >= 2 * Nth(p, i) + 1) /\ ~ (arr[Filled(p, i)] >= 2 * Nth(p, i) + 2)
      BY <2>1, <3>1
    <3>3. at2[i].near = near /\ near > n[Lane(p[i])] /\ n[Lane(p[i])] \in Nat
      BY <1>1, <1>2, <2>1, <2>3
    <3>4. ~ Opened(p, at2, n, i) /\ ~ Closed(p, at2, n, i)
      <4>1. ~ (near <= n[Lane(p[i])]) /\ ~ (near + 3 <= n[Lane(p[i])])
        BY <3>3
      <4>2. QED  BY <3>3, <4>1 DEF Opened, Closed
    <3>5. i <= k + 1
      BY <1>1, <2>3
    <3>6. QED  BY <3>2, <3>4, <3>5
  <2>4. CASE i > k + 1
    <3>1. ~ (i <= k) /\ ~ (i <= k + 1)
      BY <1>1, <2>1, <2>4
    <3>2. QED  BY <1>2, <3>1 DEF Counted
  <2>5. QED  BY <1>1, <2>1, <2>2, <2>3, <2>4
<1>3. QED
  BY <1>2 DEF Counted

\* Nor does it end or begin one.
LEMMA InsideGrows ==
    ASSUME NEW L, NEW r, NEW p, NEW k, NEW at, NEW q, NEW n, Going(L, r, p, k, at, q, n),
           NEW M, Grown(L, M), NEW tk, Inside(L, n, tk)
    PROVE  Inside(M, n, tk)
<1>1. ASSUME NEW s \in Streams, tk[s] # 0  PROVE n[s] > 0 /\ M[s][n[s]].op = "arrive"
  <2>1. n[s] > 0 /\ L[s][n[s]].op = "arrive"
    BY <1>1 DEF Inside
  <2>2. n[s] \in Nat /\ Len(L[s]) \in Nat /\ n[s] <= Len(L[s])
    BY LeftoverIs DEF Going
  <2>3. n[s] \in 1 .. Len(L[s])
    BY <2>1, <2>2
  <2>4. M[s][n[s]] = L[s][n[s]]
    BY <2>3 DEF Grown
  <2>5. QED  BY <2>1, <2>4
<1>2. QED
  BY <1>1 DEF Inside

\* The results become res2: that of step k + 1, if it transfers, is where it has put it.
Notes(p, k, at2, res, res2) ==
    /\ \A c \in Calls : p[k + 1].do # "call" \/ c # p[k + 1].call => res2[c] = res[c]
    /\ Transfers(p, k + 1) =>
          /\ res2[p[k + 1].call].from =
                IF p[k + 1].dest = "fresh" THEN <<"output", p[k + 1].call>> ELSE Filled(p, k + 1)
          /\ res2[p[k + 1].call].async = (p[k + 1].async /\ HasRegistry)
          /\ p[k + 1].async => res2[p[k + 1].call].at = End(p[k + 1], at2[k + 1].near)

\* The results noted stay, and the new one is noted.
LEMMA NotedGrows ==
    ASSUME NEW p, Contract(p), NEW k \in Nat, k + 1 \in DOMAIN p, NEW at, NEW at2, Places1(p, k, at, at2),
           NEW res, NEW res2, Noted(p, k, at, res), Notes(p, k, at2, res, res2)
    PROVE  Noted(p, k + 1, at2, res2)
<1>1. ASSUME NEW i \in 1 .. k + 1, Transfers(p, i)
      PROVE  /\ res2[p[i].call].from = IF p[i].dest = "fresh" THEN <<"output", p[i].call>> ELSE Filled(p, i)
             /\ res2[p[i].call].async = (p[i].async /\ HasRegistry)
             /\ p[i].async => res2[p[i].call].at = End(p[i], at2[i].near)
  <2>1. i \in 1 .. k \/ i = k + 1
    OBVIOUS
  <2>2. CASE i = k + 1
    BY <1>1, <2>2 DEF Notes
  <2>3. CASE i \in 1 .. k
    <3>1. i \in DOMAIN p /\ i # k + 1
      BY <2>3, ProgramIs
    <3>2. p[k + 1].do # "call" \/ p[i].call # p[k + 1].call
      BY <1>1, <3>1, OneStep DEF Transfers
    <3>3. res2[p[i].call] = res[p[i].call]
      <4>1. p[i].call \in Calls
        BY <1>1, <3>1, CallIs DEF Transfers
      <4>2. QED  BY <3>2, <4>1 DEF Notes
    <3>4. at2[i] = at[i]
      BY <2>3 DEF Places1
    <3>5. QED  BY <1>1, <2>3, <3>3, <3>4 DEF Noted
  <2>4. QED  BY <2>1, <2>2, <2>3
<1>2. QED
  BY <1>1 DEF Noted

\* The buffer of a call stays as well.
LEMMA BufferOfGrows ==
    ASSUME NEW L, NEW r, NEW p, NEW k, NEW at, NEW q, NEW n, Going(L, r, p, k, at, q, n),
           NEW M, Grown(L, M), NEW at2, Places1(p, k, at, at2), NEW i \in 1 .. k, Transfers(p, i), p[i].async
    PROVE  BufferOf(M, p, at2, i) = BufferOf(L, p, at, i) /\ at[i].near \in Nat /\ at[i].near + 3 <= Len(L["comm"])
<1>1. /\ Contract(p) /\ r \in Ranks /\ k \in Nat /\ k <= Len(p) /\ Told(L, r, p, k, at) /\ L \in Logs
  BY DEF Going
<1>2. Lane(p[i]) = "comm"
  BY DEF Lane
<1>3. PICK a, e, l : a = at[i].near /\ e = End(p[i], a) /\ l = Len(L["comm"])
  OBVIOUS
<1>4. a \in Nat /\ a >= 1 /\ e \in Nat /\ e >= a + 4 /\ e <= l
  BY <1>1, <1>2, <1>3, TransferIs
<1>5. l \in Nat
  BY <1>1, <1>3, LogIs DEF Streams
<1>6. a + 2 \in 1 .. l /\ a + 3 <= l
  BY <1>4, <1>5
<1>7. M["comm"][a + 2] = L["comm"][a + 2]
  BY <1>3, <1>6 DEF Grown, Streams
<1>8. QED
  BY <1>3, <1>4, <1>6, <1>7 DEF BufferOf, Places1

\* The fields of a slot.
LEMMA SlotIs ==
    ASSUME NEW pl \in Seq(Slots)
    PROVE  /\ DOMAIN pl = 1 .. Len(pl) /\ Len(pl) \in Nat
           /\ \A j \in DOMAIN pl : pl[j] \in Slots /\ pl[j].shape \in Nat /\ pl[j].buf \in Buffers /\ pl[j].upto \in Nat
<1>1. DOMAIN pl = 1 .. Len(pl) /\ Len(pl) \in Nat /\ \A j \in DOMAIN pl : pl[j] \in Slots
  OBVIOUS
<1>2. QED
  BY <1>1 DEF Slots

\* A step that stages nothing leaves the pool as good as it was.
LEMMA PoolGrows ==
    ASSUME NEW L, NEW r, NEW p, NEW k, NEW at, NEW q, NEW n, Going(L, r, p, k, at, q, n),
           NEW add, NEW M, Added(L, add, M), NEW at2, Places1(p, k, at, at2),
           ~ (Transfers(p, k + 1) /\ p[k + 1].async),
           \A j \in 1 .. Len(add["caller"]) : add["caller"][j].op # "stage",
           NEW pl \in Seq(Slots), Released(L, p, k, at, n, pl), Restaged(L, p, k, at, n)
    PROVE  Released(M, p, k + 1, at2, n, pl) /\ Restaged(M, p, k + 1, at2, n)
<1>1. k \in Nat /\ Grown(L, M) /\ L \in Logs /\ M \in Logs
  BY DEF Going, Added, Grown
<1>2. \A i \in 1 .. k + 1 : i \in 1 .. k \/ i = k + 1
  BY <1>1
<1>3. ASSUME NEW i \in 1 .. k, Transfers(p, i), p[i].async
      PROVE  /\ BufferOf(M, p, at2, i) = BufferOf(L, p, at, i) /\ at2[i] = at[i]
             /\ Closed(p, at, n, i) => Closed(p, at2, n, i)
  BY <1>1, <1>3, BufferOfGrows DEF Places1, Closed
<1>4. Released(M, p, k + 1, at2, n, pl)
  <2>1. ASSUME NEW j \in DOMAIN pl  PROVE pl[j].upto <= Len(M["comm"])
    <3>1. pl[j].upto <= Len(L["comm"])
      BY DEF Released
    <3>2. pl[j].upto \in Nat
      BY SlotIs
    <3>3. Len(L["comm"]) \in Nat /\ Len(M["comm"]) \in Nat /\ Len(L["comm"]) <= Len(M["comm"])
      BY <1>1, LogIs DEF Grown, Streams
    <3>4. QED  BY <3>1, <3>2, <3>3
  <2>2. ASSUME NEW i \in 1 .. k + 1, Transfers(p, i), p[i].async
        PROVE  \/ Closed(p, at2, n, i)
               \/ \E j \in DOMAIN pl : pl[j].buf = BufferOf(M, p, at2, i) /\ pl[j].upto >= at2[i].near + 3
    <3>1. i \in 1 .. k
      BY <1>2, <2>2
    <3>2. \/ Closed(p, at, n, i)
          \/ \E j \in DOMAIN pl : pl[j].buf = BufferOf(L, p, at, i) /\ pl[j].upto >= at[i].near + 3
      BY <2>2, <3>1 DEF Released
    <3>3. QED  BY <1>3, <2>2, <3>1, <3>2
  <2>3. QED  BY <2>1, <2>2 DEF Released
<1>5. Restaged(M, p, k + 1, at2, n)
  <2>1. ASSUME NEW g \in 1 .. Len(M["caller"]), M["caller"][g].op = "stage", NEW i \in 1 .. k + 1,
               Transfers(p, i), p[i].async, p[i].call < M["caller"][g].call,
               BufferOf(M, p, at2, i) = M["caller"][g].buf
        PROVE  Closed(p, at2, n, i) \/ Before(M, "comm", at2[i].near + 3, "caller", g)
    <3>1. i \in 1 .. k
      BY <1>2, <2>1
    <3>2. "caller" \in Streams
      BY DEF Streams
    <3>3. g \in 1 .. Len(L["caller"]) /\ M["caller"][g] = L["caller"][g]
      <4>1. \/ g \in 1 .. Len(L["caller"]) /\ M["caller"][g] = L["caller"][g]
            \/ /\ g - Len(L["caller"]) \in 1 .. Len(add["caller"])
               /\ M["caller"][g] = add["caller"][g - Len(L["caller"])]
        BY <3>2, OldOrNew, SMTT(60)
      <4>2. QED  BY <2>1, <4>1
    <3>4. Closed(p, at, n, i) \/ Before(L, "comm", at[i].near + 3, "caller", g)
      BY <1>3, <2>1, <3>1, <3>3 DEF Restaged
    <3>5. Before(L, "comm", at[i].near + 3, "caller", g) => Before(M, "comm", at[i].near + 3, "caller", g)
      BY <1>1, <3>2, BeforeGrows
    <3>6. QED  BY <1>3, <2>1, <3>1, <3>4, <3>5
  <2>2. QED  BY <2>1 DEF Restaged
<1>6. QED
  BY <1>4, <1>5

\* The pool pl becomes pl2: the copy o into the buffer m waits for the slots that
\* had it unless they are done, no slot that is not done is dropped, and m's is
\* released at last, where the comm stream then ends.
Turnover(pl, pl2, done, m, o, last) ==
    /\ \A j \in DOMAIN pl : pl[j].buf = m => done >= pl[j].upto \/ (o.on = "comm" /\ o.upto >= pl[j].upto)
    /\ \A j \in DOMAIN pl : \/ done >= pl[j].upto
                            \/ \E j2 \in DOMAIN pl2 : pl2[j2].buf = pl[j].buf /\ pl2[j2].upto >= pl[j].upto
    /\ \E j2 \in DOMAIN pl2 : pl2[j2].buf = m /\ pl2[j2].upto = last
    /\ \A j2 \in DOMAIN pl2 : pl2[j2].upto <= last

\* A call that stages: its copy is all that it stages, and all there is in its buffer.
StagingStep(L, add, M, p, k, at2, m) ==
    /\ p[k + 1].do = "call" /\ p[k + 1].async
    /\ Len(add["caller"]) >= 2 /\ add["caller"][2].call = p[k + 1].call /\ add["caller"][2].buf = m
    /\ \A j \in 1 .. Len(add["caller"]) : j # 2 => add["caller"][j].op # "stage"
    /\ Transfers(p, k + 1) => /\ M["comm"][at2[k + 1].near + 2].buf = m
                              /\ at2[k + 1].near + 3 <= Len(M["comm"])

\* A slot that is taken keeps the pool released, and the copy into its buffer in order.
LEMMA PoolStages ==
    ASSUME NEW L, NEW r, NEW p, NEW k, NEW at, NEW q, NEW n, Going(L, r, p, k, at, q, n), k + 1 \in DOMAIN p,
           NEW add, NEW M, Added(L, add, M), NEW at2, Places1(p, k, at, at2),
           NEW m, StagingStep(L, add, M, p, k, at2, m),
           NEW pl \in Seq(Slots), NEW pl2 \in Seq(Slots),
           Turnover(pl, pl2, n["comm"], m, add["caller"][2], Len(M["comm"])),
           Released(L, p, k, at, n, pl), Restaged(L, p, k, at, n)
    PROVE  Released(M, p, k + 1, at2, n, pl2) /\ Restaged(M, p, k + 1, at2, n)
<1>1. /\ Contract(p) /\ r \in Ranks /\ k \in Nat /\ k <= Len(p) /\ Told(L, r, p, k, at)
      /\ L \in Logs /\ M \in Logs /\ q \in Logs /\ n \in [Streams -> Nat] /\ Leftover(L, q, n) /\ Grown(L, M)
  BY DEF Going, Added, Grown
<1>2. \A i \in 1 .. k + 1 : i \in 1 .. k \/ i = k + 1
  BY <1>1
<1>3. ASSUME NEW i \in 1 .. k, Transfers(p, i), p[i].async
      PROVE  /\ BufferOf(M, p, at2, i) = BufferOf(L, p, at, i) /\ at2[i] = at[i] /\ at[i].near \in Nat
             /\ Closed(p, at, n, i) => Closed(p, at2, n, i)
             /\ at[i].near + 3 <= n["comm"] => Closed(p, at2, n, i)
  <2>1. BufferOf(M, p, at2, i) = BufferOf(L, p, at, i) /\ at[i].near \in Nat
    BY <1>1, <1>3, BufferOfGrows
  <2>2. at2[i] = at[i] /\ Lane(p[i]) = "comm"
    BY <1>3 DEF Places1, Lane
  <2>3. QED  BY <2>1, <2>2 DEF Closed
<1>4. PICK d, o : d = n["comm"] /\ o = add["caller"][2]
  OBVIOUS
<1>5. d \in Nat /\ "caller" \in Streams /\ "comm" \in Streams
  BY <1>1, <1>4 DEF Streams
<1>6. \A j \in DOMAIN pl : pl[j].upto \in Nat
  BY SlotIs
<1>7. \A j \in DOMAIN pl2 : pl2[j].upto \in Nat
  BY SlotIs
<1>8. Released(M, p, k + 1, at2, n, pl2)
  <2>1. \A j \in DOMAIN pl2 : pl2[j].upto <= Len(M["comm"])
    BY DEF Turnover
  <2>2. ASSUME NEW i \in 1 .. k + 1, Transfers(p, i), p[i].async
        PROVE  \/ Closed(p, at2, n, i)
               \/ \E j \in DOMAIN pl2 : pl2[j].buf = BufferOf(M, p, at2, i) /\ pl2[j].upto >= at2[i].near + 3
    <3>1. CASE i = k + 1
      <4>1. PICK j2 \in DOMAIN pl2 : pl2[j2].buf = m /\ pl2[j2].upto = Len(M["comm"])
        BY DEF Turnover
      <4>2. BufferOf(M, p, at2, i) = m /\ at2[i].near + 3 <= Len(M["comm"])
        BY <2>2, <3>1 DEF StagingStep, BufferOf
      <4>3. pl2[j2].upto >= at2[i].near + 3
        BY <4>1, <4>2
      <4>4. QED  BY <4>1, <4>2, <4>3
    <3>2. CASE i \in 1 .. k
      <4>1. CASE Closed(p, at, n, i)
        BY <1>3, <2>2, <3>2, <4>1
      <4>2. CASE \E j \in DOMAIN pl : pl[j].buf = BufferOf(L, p, at, i) /\ pl[j].upto >= at[i].near + 3
        <5>1. PICK j \in DOMAIN pl : pl[j].buf = BufferOf(L, p, at, i) /\ pl[j].upto >= at[i].near + 3
          BY <4>2
        <5>2. CASE d >= pl[j].upto
          <6>1. at[i].near + 3 <= d
            BY <1>3, <1>5, <1>6, <2>2, <3>2, <5>1, <5>2, SMTT(60)
          <6>2. QED  BY <1>3, <1>4, <2>2, <3>2, <6>1
        <5>3. CASE \E j2 \in DOMAIN pl2 : pl2[j2].buf = pl[j].buf /\ pl2[j2].upto >= pl[j].upto
          <6>1. PICK j2 \in DOMAIN pl2 : pl2[j2].buf = pl[j].buf /\ pl2[j2].upto >= pl[j].upto
            BY <5>3
          <6>2. pl2[j2].upto >= at[i].near + 3
            BY <1>3, <1>6, <1>7, <2>2, <3>2, <5>1, <6>1, SMTT(60)
          <6>3. QED  BY <1>3, <2>2, <3>2, <5>1, <6>1, <6>2
        <5>4. QED  BY <1>4, <5>2, <5>3 DEF Turnover
      <4>3. QED  BY <2>2, <3>2, <4>1, <4>2 DEF Released
    <3>3. QED  BY <1>2, <3>1, <3>2
  <2>3. QED  BY <2>1, <2>2 DEF Released
<1>9. Restaged(M, p, k + 1, at2, n)
  <2>1. ASSUME NEW g \in 1 .. Len(M["caller"]), M["caller"][g].op = "stage", NEW i \in 1 .. k + 1,
               Transfers(p, i), p[i].async, p[i].call < M["caller"][g].call,
               BufferOf(M, p, at2, i) = M["caller"][g].buf
        PROVE  Closed(p, at2, n, i) \/ Before(M, "comm", at2[i].near + 3, "caller", g)
    <3>1. CASE g \in 1 .. Len(L["caller"]) /\ M["caller"][g] = L["caller"][g]
      <4>1. PICK y \in 1 .. k : p[y].do = "call" /\ L["caller"][g].call = p[y].call
        <5>1. Known(L, r, p, k, at, "caller", g)
          BY <1>1, <1>5, <3>1 DEF Told
        <5>2. QED  BY <2>1, <3>1, <5>1 DEF Known
      <4>2. i # k + 1
        <5>1. p[y].call < p[k + 1].call /\ p[y].call \in Nat /\ p[k + 1].call \in Nat
          <6>1. y \in DOMAIN p /\ y < k + 1
            BY <1>1, ProgramIs
          <6>2. p[y].call < p[k + 1].call
            BY <1>1, <4>1, <6>1 DEF Contract, StagingStep
          <6>3. QED  BY <1>1, <4>1, <6>1, <6>2, CallIs DEF StagingStep
        <5>2. QED  BY <2>1, <3>1, <4>1, <5>1
      <4>3. i \in 1 .. k
        BY <1>2, <4>2
      <4>4. Closed(p, at, n, i) \/ Before(L, "comm", at[i].near + 3, "caller", g)
        BY <1>3, <2>1, <3>1, <4>3 DEF Restaged
      <4>5. Before(L, "comm", at[i].near + 3, "caller", g) => Before(M, "comm", at[i].near + 3, "caller", g)
        BY <1>1, <1>5, BeforeGrows
      <4>6. QED  BY <1>3, <2>1, <4>3, <4>4, <4>5
    <3>2. CASE /\ g - Len(L["caller"]) \in 1 .. Len(add["caller"])
               /\ M["caller"][g] = add["caller"][g - Len(L["caller"])]
      <4>1. g - Len(L["caller"]) = 2
        BY <2>1, <3>2 DEF StagingStep
      <4>2. M["caller"][g] = o /\ o.call = p[k + 1].call /\ o.buf = m
        BY <1>4, <3>2, <4>1 DEF StagingStep
      <4>3. i \in 1 .. k
        <5>1. p[k + 1].call \in Nat
          BY <1>1, CallIs DEF StagingStep
        <5>2. i # k + 1
          BY <2>1, <4>2, <5>1
        <5>3. QED  BY <1>2, <5>2
      <4>4. BufferOf(L, p, at, i) = m
        BY <1>3, <2>1, <4>2, <4>3
      <4>5. CASE Closed(p, at, n, i)
        BY <1>3, <2>1, <4>3, <4>5
      <4>6. CASE \E j \in DOMAIN pl : pl[j].buf = m /\ pl[j].upto >= at[i].near + 3
        <5>1. PICK j \in DOMAIN pl : pl[j].buf = m /\ pl[j].upto >= at[i].near + 3
          BY <4>6
        <5>2. CASE d >= pl[j].upto
          <6>1. at[i].near + 3 <= d
            BY <1>3, <1>5, <1>6, <2>1, <4>3, <5>1, <5>2, SMTT(60)
          <6>2. QED  BY <1>3, <1>4, <2>1, <4>3, <6>1
        <5>3. CASE o.on = "comm" /\ o.upto >= pl[j].upto
          <6>1. o.upto \in Nat
            <7>1. o \in Ops
              BY <1>1, <1>5, <2>1, <4>2, LogIs
            <7>2. QED  BY <7>1, OpIs
          <6>2. o.upto >= at2[i].near + 3
            BY <1>3, <1>6, <2>1, <4>3, <5>1, <5>3, <6>1, SMTT(60)
          <6>3. g <= g
            <7>1. Len(M["caller"]) \in Nat
              BY <1>1, <1>5, LogIs
            <7>2. QED  BY <7>1
          <6>4. Before(M, "comm", at2[i].near + 3, "caller", g)
            BY <4>2, <5>3, <6>2, <6>3 DEF Before
          <6>5. QED  BY <6>4
        <5>4. QED  BY <1>4, <5>1, <5>2, <5>3 DEF Turnover
      <4>7. QED  BY <2>1, <4>3, <4>4, <4>5, <4>6 DEF Released
    <3>3. \/ g \in 1 .. Len(L["caller"]) /\ M["caller"][g] = L["caller"][g]
          \/ /\ g - Len(L["caller"]) \in 1 .. Len(add["caller"])
             /\ M["caller"][g] = add["caller"][g - Len(L["caller"])]
      <4>1. "caller" \in Streams
        BY DEF Streams
      <4>2. QED  BY <4>1, OldOrNew
    <3>4. QED
      BY <3>1, <3>2, <3>3
  <2>2. QED  BY <2>1 DEF Restaged
<1>10. QED
  BY <1>8, <1>9

------------------------------------------------------------------------------
(* What a call submits is behind what was submitted. *)

\* One rank about to take step k + 1, which submits add.
Submits(L, r, p, k, at, q, n, add, M) ==
    /\ Going(L, r, p, k, at, q, n) /\ k + 1 \in DOMAIN p
    /\ add \in Logs /\ M = [s \in Streams |-> L[s] \o add[s]]

\* What a submitting step adds to what there was.
LEMMA SubmitsIs ==
    ASSUME NEW L, NEW r, NEW p, NEW k, NEW at, NEW q, NEW n, NEW add, NEW M, Submits(L, r, p, k, at, q, n, add, M)
    PROVE  /\ Contract(p) /\ r \in Ranks /\ k \in Nat /\ k <= Len(p) /\ k + 1 \in DOMAIN p
           /\ Told(L, r, p, k, at) /\ L \in Logs /\ add \in Logs /\ M \in Logs
           /\ Added(L, add, M) /\ Grown(L, M)
           /\ \A i \in 1 .. k : i \in DOMAIN p /\ i < k + 1
<1>1. /\ Contract(p) /\ r \in Ranks /\ k \in Nat /\ k <= Len(p) /\ k + 1 \in DOMAIN p
      /\ Told(L, r, p, k, at) /\ L \in Logs /\ add \in Logs
  BY DEF Submits, Going
<1>2. Added(L, add, M)
  BY <1>1, AddedIs DEF Submits
<1>3. \A i \in 1 .. k : i \in DOMAIN p /\ i < k + 1
  BY <1>1, ProgramIs
<1>4. QED
  BY <1>1, <1>2, <1>3 DEF Added, Grown

\* A transfer of the same stream is behind all of it.
LEMMA BehindOwnLane ==
    ASSUME NEW L, NEW r, NEW p, NEW k, NEW at, NEW q, NEW n, NEW add, NEW M, Submits(L, r, p, k, at, q, n, add, M),
           NEW i \in 1 .. k, Transfers(p, i), NEW s, s = Lane(p[i]), NEW a \in Nat, a >= Len(L[s])
    PROVE  Before(M, Lane(p[i]), End(p[i], at[i].near), s, a)
<1>1. Contract(p) /\ r \in Ranks /\ k \in Nat /\ k <= Len(p) /\ Told(L, r, p, k, at) /\ L \in Logs
  BY SubmitsIs
<1>2. PICK e, l : e = End(p[i], at[i].near) /\ l = Len(L[s])
  OBVIOUS
<1>3. e \in Nat /\ e <= l /\ s \in Streams
  BY <1>1, <1>2, TransferIs
<1>4. l \in Nat
  BY <1>1, <1>2, <1>3, LogIs
<1>5. e <= a
  BY <1>2, <1>3, <1>4
<1>6. QED
  BY <1>2, <1>5 DEF Before

\* The caller waits for what was last in a window that it has filled on its own
\* stream: the contract, through the results that were waited for.
LEMMA BehindTheWait ==
    ASSUME NEW L, NEW r, NEW p, NEW k, NEW at, NEW q, NEW n, NEW add, NEW M, Submits(L, r, p, k, at, q, n, add, M),
           Transfers(p, k + 1), ~ p[k + 1].async, NEW a \in Nat, a >= Len(L["caller"])
    PROVE  Behind(M, p, k, at, Filled(p, k + 1), "caller", a)
<1>1. /\ Contract(p) /\ r \in Ranks /\ k \in Nat /\ k <= Len(p) /\ k + 1 \in DOMAIN p /\ Told(L, r, p, k, at)
      /\ L \in Logs /\ Grown(L, M) /\ \A i \in 1 .. k : i \in DOMAIN p /\ i < k + 1
  BY SubmitsIs
<1>2. ASSUME NEW i \in 1 .. k, Transfers(p, i), Filled(p, i) = Filled(p, k + 1)
      PROVE  Before(M, Lane(p[i]), End(p[i], at[i].near), "caller", a)
  <2>1. i \in DOMAIN p /\ i \in Nat
    BY <1>1
  <2>2. CASE Lane(p[i]) = "caller"
    BY <1>2, <2>2, BehindOwnLane
  <2>3. CASE Lane(p[i]) # "caller"
    <3>1. Lane(p[i]) = "comm" /\ Lane(p[k + 1]) = "caller" /\ p[i].async
      <4>1. Lane(p[k + 1]) = "caller"
        BY DEF Lane
      <4>2. Lane(p[i]) = "comm" /\ p[i].async
        BY <2>3 DEF Lane
      <4>3. QED  BY <4>1, <4>2
    <3>2. SharesBuffer(p, i, k + 1)
      BY <1>1, <1>2, <2>1, <3>1, TwoLanesShare
    <3>3. PICK j \in i .. k, u \in i .. k : p[j].do = "call" /\ p[j].async /\ j < u /\ UsedAt(p, u, j)
      <4>1. \A x, y \in DOMAIN p : x < y /\ SharesBuffer(p, x, y) /\ p[x].async /\ ~ p[y].async =>
               \E j, u \in x .. y - 1 : p[j].do = "call" /\ p[j].async /\ j < u /\ UsedAt(p, u, j)
        BY <1>1 DEF Contract
      <4>2. \E j, u \in i .. (k + 1) - 1 : p[j].do = "call" /\ p[j].async /\ j < u /\ UsedAt(p, u, j)
        BY <1>1, <2>1, <3>1, <3>2, <4>1
      <4>3. (k + 1) - 1 = k
        BY <1>1
      <4>4. QED  BY <4>2, <4>3
    <3>4. j \in 1 .. k /\ u \in 1 .. k /\ u \in j + 1 .. k /\ j \in DOMAIN p /\ u \in DOMAIN p /\ j \in Nat
      <4>1. j \in 1 .. k /\ u \in 1 .. k /\ u \in j + 1 .. k /\ j \in Nat
        BY <1>1, <2>1, <3>3
      <4>2. QED  BY <1>1, <4>1
    <3>5. Transfers(p, j)
      <4>1. PICK x \in 1 .. u - 1 : Transfers(p, x) /\ UsedAt(p, u, x)
        BY <1>1, <3>3, <3>4 DEF Contract, UsedAt
      <4>2. x \in DOMAIN p
        <5>1. x \in 1 .. k
          BY <1>1, <3>4
        <5>2. QED  BY <1>1, <5>1
      <4>3. x = j
        BY <1>1, <3>3, <3>4, <4>1, <4>2, OneStep DEF UsedAt, Transfers
      <4>4. QED  BY <4>1, <4>3
    <3>6. Joined(p, j, k)
      BY <3>3, <3>4, <3>5 DEF Joined, UsedBy
    <3>7. Awaited(L, p, at, j)
      BY <1>1, <3>4, <3>6 DEF Told
    <3>8. PICK g \in 1 .. Len(L["caller"]) :
            L["caller"][g].on = "comm" /\ L["caller"][g].upto >= End(p[j], at[j].near)
      BY <3>7 DEF Awaited
    <3>9. PICK e, f, b : e = End(p[i], at[i].near) /\ f = End(p[j], at[j].near) /\ b = at[j].near
      OBVIOUS
    <3>10. e \in Nat /\ f \in Nat /\ b \in Nat /\ f >= b + 4
      BY <1>1, <1>2, <3>4, <3>5, <3>9, TransferIs
    <3>11. e <= f
      <4>1. CASE i = j
        BY <3>9, <3>10, <4>1
      <4>2. CASE i < j
        <5>1. Ordered(L, r, p, at, i, j)
          BY <1>1, <1>2, <3>4, <3>5, <4>2 DEF Told
        <5>2. Lane(p[j]) = "comm"
          BY <3>3 DEF Lane
        <5>3. e < b
          BY <3>1, <3>9, <5>1, <5>2 DEF Ordered
        <5>4. QED  BY <3>10, <5>3
      <4>3. i = j \/ i < j
        BY <1>1, <2>1, <3>3, <3>4
      <4>4. QED  BY <4>1, <4>2, <4>3
    <3>12. L["caller"][g].upto \in Nat /\ Len(L["caller"]) \in Nat
      <4>1. "caller" \in Streams
        BY DEF Streams
      <4>2. L["caller"][g] \in Ops /\ Len(L["caller"]) \in Nat
        BY <1>1, <4>1, LogIs
      <4>3. QED  BY <4>2, OpIs
    <3>13. L["caller"][g].upto >= e /\ g <= Len(L["caller"]) /\ g <= a
      BY <3>8, <3>9, <3>10, <3>11, <3>12, SMTT(60)
    <3>14. Before(L, "comm", e, "caller", a)
      BY <3>8, <3>13 DEF Before
    <3>15. Before(M, "comm", e, "caller", a)
      BY <1>1, <3>14, BeforeGrows DEF Streams
    <3>16. QED  BY <3>1, <3>9, <3>15
  <2>4. QED  BY <2>2, <2>3
<1>3. QED
  BY <1>2 DEF Behind

\* The comm stream waits for all that the caller's stream was given.
LEMMA BehindTheCaller ==
    ASSUME NEW L, NEW r, NEW p, NEW k, NEW at, NEW q, NEW n, NEW add, NEW M, Submits(L, r, p, k, at, q, n, add, M),
           NEW a \in Nat, a = Len(L["comm"]) + 1, a <= Len(M["comm"]),
           M["comm"][a].on = "caller", M["comm"][a].upto \in Nat, M["comm"][a].upto >= Len(L["caller"])
    PROVE  Behind(M, p, k, at, Filled(p, k + 1), "comm", a)
<1>1. /\ Contract(p) /\ r \in Ranks /\ k \in Nat /\ k <= Len(p) /\ Told(L, r, p, k, at) /\ L \in Logs /\ M \in Logs
  BY SubmitsIs
<1>2. /\ Len(L["comm"]) \in Nat /\ Len(L["caller"]) \in Nat /\ Len(M["comm"]) \in Nat
  BY <1>1, LogIs DEF Streams
<1>3. a \in 1 .. Len(M["comm"]) /\ a <= a
  BY <1>2
<1>4. ASSUME NEW i \in 1 .. k, Transfers(p, i)
      PROVE  Before(M, Lane(p[i]), End(p[i], at[i].near), "comm", a)
  <2>1. CASE Lane(p[i]) = "comm"
    <3>1. a >= Len(L["comm"])
      BY <1>2
    <3>2. QED  BY <1>4, <2>1, <3>1, BehindOwnLane
  <2>2. CASE Lane(p[i]) = "caller"
    <3>1. PICK e : e = End(p[i], at[i].near)
      OBVIOUS
    <3>2. e \in Nat /\ e <= Len(L["caller"])
      BY <1>1, <1>4, <2>2, <3>1, TransferIs
    <3>3. M["comm"][a].upto >= e
      BY <1>2, <3>2, SMTT(60)
    <3>4. Before(M, "caller", e, "comm", a)
      BY <1>3, <3>3 DEF Before
    <3>5. QED  BY <2>2, <3>1, <3>4
  <2>3. Lane(p[i]) \in {"caller", "comm"}
    BY <1>1, <1>4, TransferIs
  <2>4. QED  BY <2>1, <2>2, <2>3
<1>5. QED
  BY <1>4 DEF Behind

------------------------------------------------------------------------------
(* The steps of the host, by what they submit. *)

Prepends(y, o, z) == o \in Ops /\ z \in Seq(Ops) /\ y = <<o>> \o z

\* An operation put before others.
LEMMA Prepended ==
    ASSUME NEW o, NEW z, NEW y, Prepends(y, o, z)
    PROVE  /\ y \in Seq(Ops) /\ Len(y) = 1 + Len(z) /\ y[1] = o /\ Moved(z, y, 1)
           /\ \A k \in 1 .. Len(y) : k = 1 \/ (k - 1 \in 1 .. Len(z) /\ y[k] = z[k - 1])
<1>1. PICK x : x = <<o>>
  OBVIOUS
<1>2. o \in Ops /\ z \in Seq(Ops) /\ y = <<o>> \o z
  BY DEF Prepends
<1>3. x \in Seq(Ops) /\ Len(x) = 1 /\ x[1] = o /\ Len(z) \in Nat
  BY <1>2, <1>1
<1>4. /\ x \o z \in Seq(Ops) /\ Len(x \o z) = Len(x) + Len(z)
      /\ \A i \in 1 .. Len(x) : (x \o z)[i] = x[i]
      /\ \A i \in 1 .. Len(z) : (x \o z)[Len(x) + i] = z[i]
  <2>1. x \in Seq(Ops) /\ z \in Seq(Ops)
    BY <1>2, <1>3
  <2>2. QED  BY ONLY <2>1, ConcatIs
<1>5. y \in Seq(Ops) /\ Len(y) = 1 + Len(z) /\ y[1] = o /\ \A i \in 1 .. Len(z) : y[1 + i] = z[i]
  <2>1. 1 \in 1 .. Len(x) /\ y = x \o z
    BY <1>2, <1>1, <1>3
  <2>2. QED  BY <1>3, <1>4, <2>1
<1>6. Moved(z, y, 1)
  BY <1>3, <1>5 DEF Moved
<1>7. ASSUME NEW k \in 1 .. Len(y), k # 1  PROVE k - 1 \in 1 .. Len(z) /\ y[k] = z[k - 1]
  <2>1. PICK j : j = k - 1
    OBVIOUS
  <2>2. j \in 1 .. Len(z) /\ k = 1 + j
    BY <1>3, <1>5, <1>7, <2>1
  <2>3. QED  BY <1>5, <2>1, <2>2
<1>8. QED
  BY <1>5, <1>6, <1>7

\* The operations of a transfer, and what they wait for.
LEMMA BlockOps ==
    ASSUME NEW z, NEW r, NEW step, NEW w, NEW m, NEW d, IsBlock(z, r, step, w, m, d)
    PROVE  /\ z \in Seq(Ops) /\ Len(z) = End(step, 1) /\ Len(z) \in {5, 6} /\ OwnShare(z, r, step, w, 1)
           /\ z[3].buf = m /\ z[4].on = "xfer" /\ z[4].upto = d
           /\ \A k \in 1 .. Len(z) : /\ z[k] \in Ops /\ z[k].op \notin {"stage", "produce", "read"}
                                     /\ k = 4 \/ z[k].upto = 0
           /\ End(step, 2) = 1 + Len(z)
<1>1. /\ z \in Seq(Ops) /\ Len(z) = End(step, 1) /\ OwnShare(z, r, step, w, 1)
      /\ z[3].buf = m /\ z[4].on = "xfer" /\ z[4].upto = d
      /\ \A k \in 1 .. Len(z) : k # 4 => z[k].upto = 0
  BY DEF IsBlock
<1>2. Len(z) = IF step.dest = "fresh" THEN 6 ELSE 5
  BY <1>1 DEF End
<1>3. /\ z[1].op = "arrive" /\ z[2].op = "leave" /\ z[3].op = "push" /\ z[4].op = "arrive" /\ z[5].op = "leave"
      /\ step.dest = "fresh" => z[6].op = "copyout"
  BY <1>1 DEF OwnShare
<1>4. \A k \in 1 .. Len(z) : k = 1 \/ k = 2 \/ k = 3 \/ k = 4 \/ k = 5 \/ (k = 6 /\ step.dest = "fresh")
  BY <1>2
<1>5. \A k \in 1 .. Len(z) : z[k] \in Ops
  BY <1>1
<1>6. \A k \in 1 .. Len(z) : z[k].op \notin {"stage", "produce", "read"}
  BY <1>3, <1>4
<1>7. End(step, 2) = 1 + Len(z)
  BY <1>2 DEF End
<1>8. QED
  BY <1>1, <1>2, <1>5, <1>6, <1>7

\* The operation that computes the input.
LEMMA ProduceIs ==
    ASSUME NEW c
    PROVE  /\ Produce(c).op = "produce" /\ Produce(c).call = c /\ Produce(c).upto = 0
           /\ Nothing.op = "nothing" /\ Nothing.upto = 0
BY DEF Produce, Nothing, Op

\* The waits of what was added are for what was submitted.
LEMMA NoWait ==
    ASSUME NEW M \in Logs, NEW o \in Ops, o.upto = 0
    PROVE  o.upto <= Len(M[o.on])
<1>1. o.on \in Streams
  BY OpIs
<1>2. Len(M[o.on]) \in Nat
  BY <1>1, LogIs
<1>3. QED
  BY <1>2

\* A synchronous call.
LEMMA SyncAdds ==
    ASSUME NEW L, NEW r, NEW p, NEW k, NEW at, NEW q, NEW n, NEW add, NEW M, Submits(L, r, p, k, at, q, n, add, M),
           Transfers(p, k + 1), ~ p[k + 1].async,
           NEW z, NEW x, x = Len(L["xfer"]), NEW l, l = Len(L["caller"]),
           IsBlock(z, r, p[k + 1], Filled(p, k + 1), 0, x + Copied(r)),
           add["caller"] = <<Produce(p[k + 1].call)>> \o z, add["comm"] = <<>>,
           IsCopies(add["xfer"], r, "caller", l + 3, p[k + 1], Filled(p, k + 1), 0)
    PROVE  TransferStep(L, add, M, r, p, k, at, "caller", 0, 2)
<1>1. /\ Contract(p) /\ r \in Ranks /\ k \in Nat /\ k <= Len(p) /\ Told(L, r, p, k, at) /\ k + 1 \in DOMAIN p
      /\ L \in Logs /\ add \in Logs /\ M \in Logs /\ Added(L, add, M)
  BY SubmitsIs
<1>2. PICK step, w, y, c, f : /\ step = p[k + 1] /\ w = Filled(p, k + 1) /\ y = add["caller"] /\ c = step.call
                              /\ f = add["xfer"]
  OBVIOUS
<1>3. step.do = "call" /\ c \in Calls /\ step.async \in BOOLEAN /\ ~ step.async /\ Lane(step) = "caller"
  BY <1>1, <1>2, CallIs DEF Transfers, Lane
<1>4. /\ z \in Seq(Ops) /\ Len(z) = End(step, 1) /\ Len(z) \in {5, 6} /\ OwnShare(z, r, step, w, 1)
      /\ z[3].buf = 0 /\ z[4].on = "xfer" /\ z[4].upto = x + Copied(r)
      /\ \A j \in 1 .. Len(z) : /\ z[j] \in Ops /\ z[j].op \notin {"stage", "produce", "read"}
                                /\ j = 4 \/ z[j].upto = 0
      /\ End(step, 2) = 1 + Len(z)
  <2>1. IsBlock(z, r, step, w, 0, x + Copied(r))
    BY <1>2
  <2>2. QED  BY <2>1, BlockOps, SMTT(60)
<1>5. Produce(c) \in Ops
  BY <1>3, SomeOps
<1>6. /\ y \in Seq(Ops) /\ Len(y) = 1 + Len(z) /\ y[1] = Produce(c) /\ Moved(z, y, 1)
      /\ \A j \in 1 .. Len(y) : j = 1 \/ (j - 1 \in 1 .. Len(z) /\ y[j] = z[j - 1])
  <2>1. PICK o : o = Produce(c)
    OBVIOUS
  <2>2. Prepends(y, o, z)
    BY <1>2, <1>4, <1>5, <2>1 DEF Prepends
  <2>3. /\ y \in Seq(Ops) /\ Len(y) = 1 + Len(z) /\ y[1] = o /\ Moved(z, y, 1)
        /\ \A j \in 1 .. Len(y) : j = 1 \/ (j - 1 \in 1 .. Len(z) /\ y[j] = z[j - 1])
    BY <2>2, Prepended
  <2>4. QED  BY <2>1, <2>3
<1>7. OwnShare(y, r, step, w, 2) /\ y[4].buf = 0 /\ y[5].on = "xfer" /\ y[5].upto = x + Copied(r)
  <2>1. 1 \in Nat
    OBVIOUS
  <2>2. /\ OwnShare(y, r, step, w, 1 + 1)
        /\ y[1 + 1] = z[1] /\ y[1 + 1 + 2] = z[1 + 2] /\ y[1 + 1 + 3] = z[1 + 3]
    BY <1>4, <1>6, <2>1, OwnShareMoves, SMTT(60)
  <2>3. QED  BY <1>4, <2>2
<1>8. l \in Nat /\ x \in Nat /\ Copied(r) \in Nat /\ Len(f) \in Nat
  <2>1. "caller" \in Streams /\ "xfer" \in Streams
    BY DEF Streams
  <2>2. QED  BY <1>1, <1>2, <2>1, LogIs, CopiedIs
<1>9. IsCopies(f, r, "caller", l + 3, step, w, 0)
  BY <1>2
<1>10. /\ Len(f) = Copied(r) /\ f[1].on = "caller" /\ f[1].upto = l + 3
       /\ f \in Seq(Ops) /\ \A j \in 1 .. Len(f) : j # 1 => f[j].upto = 0
  BY <1>9 DEF IsCopies
<1>11. Len(M["caller"]) = l + Len(y) /\ Len(M["xfer"]) = x + Len(f)
       /\ (\A j \in 1 .. Len(y) : M["caller"][l + j] = y[j])
  BY <1>1, <1>2 DEF Added, Streams
<1>12. Given(M, step, l + 2)
  <2>1. 1 \in 1 .. Len(y) /\ (l + 2) - 1 = l + 1 /\ l + 2 >= 2
    BY <1>4, <1>6, <1>8, SMTT(60)
  <2>2. M["caller"][(l + 2) - 1] = Produce(c)
    BY <1>6, <1>11, <2>1
  <2>3. Produce(c).op = "produce" /\ Produce(c).call = c
    BY ProduceIs
  <2>4. QED  BY <1>2, <1>3, <2>1, <2>2, <2>3 DEF Given
<1>13. AddsTransfer(L, add, M, r, step, "caller", w, 0, 2)
  <2>1. l + 2 + 1 = l + 3 /\ 2 + 2 = 4 /\ 2 + 3 = 5 /\ x + Copied(r) >= x + Copied(r)
    BY <1>8
  <2>2. IsCopies(add["xfer"], r, "caller", Len(L["caller"]) + 2 + 1, step, w, 0)
    BY <1>2, <1>9, <2>1
  <2>3. OwnShare(add["caller"], r, step, w, 2) /\ add["caller"][2 + 2].buf = 0
        /\ add["caller"][2 + 3].on = "xfer" /\ add["caller"][2 + 3].upto >= Len(L["xfer"]) + Copied(r)
    BY <1>2, <1>7, <2>1
  <2>4. Given(M, step, Len(L["caller"]) + 2)
    BY <1>12
  <2>5. QED  BY <1>3, <2>2, <2>3, <2>4 DEF AddsTransfer
<1>14. AddsBeside(add, step, "caller", 2)
  <2>1. ASSUME NEW j \in 1 .. Len(y)
        PROVE  \/ j \in 2 .. End(step, 2) /\ y[j].op \notin {"stage", "produce", "read"}
               \/ Aside(y[j], "caller", step)
    <3>1. CASE j = 1
      <4>1. y[j].op = "produce" /\ y[j].call = c
        BY <1>6, <3>1, ProduceIs
      <4>2. QED  BY <1>2, <1>3, <4>1 DEF Aside
    <3>2. CASE j - 1 \in 1 .. Len(z) /\ y[j] = z[j - 1]
      <4>1. j \in 2 .. 1 + Len(z)
        BY <1>4, <1>6, <3>2
      <4>2. QED  BY <1>4, <3>2, <4>1
    <3>3. QED  BY <1>6, <3>1, <3>2
  <2>2. \A j \in 1 .. Len(add["comm"]) : FALSE
    OBVIOUS
  <2>3. ASSUME NEW t \in {"caller", "comm"}, NEW j \in 1 .. Len(add[t])
        PROVE  \/ t = "caller" /\ j \in 2 .. End(step, 2) /\ add[t][j].op \notin {"stage", "produce", "read"}
               \/ Aside(add[t][j], t, step)
    <3>1. CASE t = "caller"
      BY <1>2, <2>1, <3>1
    <3>2. CASE t = "comm"
      BY <2>2, <3>2
    <3>3. QED  BY <3>1, <3>2
  <2>4. QED  BY <2>3 DEF AddsBeside
<1>15. WaitsPast(add, M)
  <2>1. ASSUME NEW j \in 1 .. Len(y)  PROVE y[j].upto <= Len(M[y[j].on])
    <3>1. CASE j = 1
      <4>1. y[j].upto = 0 /\ y[j] \in Ops
        BY <1>5, <1>6, <3>1, ProduceIs
      <4>2. QED  BY <1>1, <4>1, NoWait
    <3>2. CASE j - 1 \in 1 .. Len(z) /\ y[j] = z[j - 1] /\ j - 1 # 4
      <4>1. y[j].upto = 0 /\ y[j] \in Ops
        BY <1>4, <3>2
      <4>2. QED  BY <1>1, <4>1, NoWait
    <3>3. CASE y[j] = z[j - 1] /\ j - 1 = 4
      <4>1. y[j] = z[4]
        BY <3>3
      <4>2. x + Copied(r) <= Len(M["xfer"])
        BY <1>8, <1>10, <1>11
      <4>3. QED  BY <1>4, <4>1, <4>2
    <3>4. QED  BY <1>6, <3>1, <3>2, <3>3
  <2>2. ASSUME NEW j \in 1 .. Len(f)  PROVE f[j].upto <= Len(M[f[j].on])
    <3>1. CASE j = 1
      <4>1. PICK all, new, b : all = Len(M["caller"]) /\ new = Len(y) /\ b = Len(z)
        OBVIOUS
      <4>2. l \in Nat /\ b \in {5, 6} /\ new = 1 + b /\ all = l + new
        BY <1>4, <1>6, <1>8, <1>11, <4>1
      <4>3. l + 3 <= all
        BY ONLY <4>2
      <4>4. QED  BY <1>10, <3>1, <4>1, <4>3
    <3>2. CASE j # 1
      <4>1. f[j].upto = 0 /\ f[j] \in Ops
        BY <1>10, <3>2
      <4>2. QED  BY <1>1, <4>1, NoWait
    <3>3. QED  BY <3>1, <3>2
  <2>3. \A j \in 1 .. Len(add["comm"]) : FALSE
    OBVIOUS
  <2>4. ASSUME NEW t \in Streams, NEW j \in 1 .. Len(add[t])  PROVE add[t][j].upto <= Len(M[add[t][j].on])
    <3>1. CASE t = "caller"
      BY <1>2, <2>1, <3>1
    <3>2. CASE t = "comm"
      BY <2>3, <3>2
    <3>3. CASE t = "xfer"
      BY <1>2, <2>2, <3>3
    <3>4. QED  BY <3>1, <3>2, <3>3 DEF Streams
  <2>5. QED  BY <2>4 DEF WaitsPast
<1>16. Behind(M, p, k, at, w, "caller", l + 2)
  <2>1. l + 2 \in Nat /\ l + 2 >= l
    BY <1>8
  <2>2. QED  BY <1>2, <2>1, BehindTheWait
<1>17. ~ Joined(p, k + 1, k + 1)
  BY DEF Joined
<1>18. QED
  BY <1>1, <1>2, <1>13, <1>14, <1>15, <1>16, <1>17 DEF TransferStep

\* What a call that stages gives to the caller's stream: the input, the copy o
\* into the buffer m, and where nobody waits for results one by one, a wait
\* for the last of the comm stream's operations, last.
StagingOps(y, L, step, o, m, last) ==
    /\ y \in Seq(Ops) /\ (Len(y) = 2 \/ Len(y) = 3) /\ y[1] = Produce(step.call) /\ y[2] = o
    /\ Len(y) = 3 => y[3] = After("comm", last, Nothing)
    /\ o \in Ops /\ o.op = "stage" /\ o.call = step.call /\ o.buf = m /\ m \in Buffers
    /\ o.upto = 0 \/ (o.on = "comm" /\ o.upto <= Len(L["comm"]))

\* A step that submits add, a call's share of the caller's stream in it.
SubmitsStaging(L, r, p, k, at, q, n, add, M, o, m, last) ==
    /\ Submits(L, r, p, k, at, q, n, add, M)
    /\ StagingOps(add["caller"], L, p[k + 1], o, m, last) /\ last = Len(M["comm"])
    /\ p[k + 1].do = "call"

\* Its share of the caller's stream: nothing of a transfer, one copy to staging, o.
StagingFits(y, M, step, o, m) ==
    /\ \A j \in 1 .. Len(y) : Aside(y[j], "caller", step) /\ y[j].upto <= Len(M[y[j].on])
    /\ \A j \in 1 .. Len(y) : j # 2 => y[j].op # "stage"
    /\ (Len(y) = 2 \/ Len(y) = 3) /\ y[2] = o
    /\ o.op = "stage" /\ o.call = step.call /\ o.buf = m

\* The operation that is only a wait.
LEMMA WaitIs ==
    ASSUME NEW last \in Nat, Nothing \in Ops
    PROVE  /\ After("comm", last, Nothing) \in Ops /\ After("comm", last, Nothing).op = "nothing"
           /\ After("comm", last, Nothing).on = "comm" /\ After("comm", last, Nothing).upto = last
<1>1. PICK s, o : s = "comm" /\ o = Nothing
  OBVIOUS
<1>2. s \in Streams /\ o \in Ops /\ o.op = "nothing"
  BY <1>1, ProduceIs DEF Streams
<1>3. QED
  BY <1>1, <1>2, AfterIs

\* The staging copy and what is around it fit the caller's stream.
LEMMA StagingOpsFit ==
    ASSUME NEW L, NEW r, NEW p, NEW k, NEW at, NEW q, NEW n, NEW add, NEW M, NEW o, NEW m, NEW last,
           SubmitsStaging(L, r, p, k, at, q, n, add, M, o, m, last)
    PROVE  StagingFits(add["caller"], M, p[k + 1], o, m)
<1>1. /\ Submits(L, r, p, k, at, q, n, add, M) /\ p[k + 1].do = "call"
      /\ StagingOps(add["caller"], L, p[k + 1], o, m, last) /\ last = Len(M["comm"])
  BY DEF SubmitsStaging
<1>2. /\ Contract(p) /\ k + 1 \in DOMAIN p /\ L \in Logs /\ add \in Logs /\ M \in Logs /\ Grown(L, M)
  BY <1>1, SubmitsIs
<1>3. PICK y, step : y = add["caller"] /\ step = p[k + 1]
  OBVIOUS
<1>4. step.call \in Calls /\ step.do = "call"
  BY <1>1, <1>2, <1>3, CallIs
<1>5. /\ y \in Seq(Ops) /\ (Len(y) = 2 \/ Len(y) = 3) /\ y[1] = Produce(step.call) /\ y[2] = o
      /\ (Len(y) = 3 => y[3] = After("comm", last, Nothing))
      /\ o \in Ops /\ o.op = "stage" /\ o.call = step.call /\ o.buf = m /\ m \in Buffers
      /\ o.upto = 0 \/ (o.on = "comm" /\ o.upto <= Len(L["comm"]))
  BY <1>1, <1>3 DEF StagingOps
<1>6. /\ "comm" \in Streams /\ last \in Nat /\ Len(L["comm"]) \in Nat /\ Len(M["comm"]) \in Nat
      /\ Len(L["comm"]) <= Len(M["comm"]) /\ Nothing \in Ops /\ Produce(step.call) \in Ops
  <2>1. "comm" \in Streams
    BY DEF Streams
  <2>2. Nothing \in Ops /\ Produce(step.call) \in Ops
    BY <1>4, SomeOps
  <2>3. QED  BY <1>1, <1>2, <2>1, <2>2, LogIs DEF Grown
<1>7. /\ After("comm", last, Nothing).op = "nothing" /\ After("comm", last, Nothing).on = "comm"
      /\ After("comm", last, Nothing).upto = last
  BY <1>6, WaitIs
<1>8. o.upto \in Nat
  BY <1>5, OpIs
<1>9. Aside(Produce(step.call), "caller", step) /\ Aside(o, "caller", step)
      /\ Aside(After("comm", last, Nothing), "caller", step) /\ Produce(step.call).op = "produce"
  BY <1>4, <1>5, <1>7, ProduceIs DEF Aside
<1>10. o.upto <= Len(M[o.on])
  <2>1. CASE o.upto = 0
    BY <1>2, <1>5, <2>1, NoWait
  <2>2. CASE o.on = "comm" /\ o.upto <= Len(L["comm"])
    BY <1>6, <1>8, <2>2
  <2>3. QED  BY <1>5, <2>1, <2>2
<1>11. Produce(step.call).upto <= Len(M[Produce(step.call).on])
  BY <1>2, <1>6, ProduceIs, NoWait
<1>12. After("comm", last, Nothing).upto <= Len(M[After("comm", last, Nothing).on])
  BY <1>1, <1>6, <1>7
<1>13. \A j \in 1 .. Len(y) : j = 1 \/ j = 2 \/ (j = 3 /\ Len(y) = 3)
  <2>1. PICK b : b = Len(y)
    OBVIOUS
  <2>2. b = 2 \/ b = 3
    BY <1>5, <2>1
  <2>3. \A j \in 1 .. b : j = 1 \/ j = 2 \/ (j = 3 /\ b = 3)
    BY ONLY <2>2
  <2>4. QED  BY <2>1, <2>3
<1>14. \A j \in 1 .. Len(y) :
          \/ j = 1 /\ y[j] = Produce(step.call)
          \/ j = 2 /\ y[j] = o
          \/ j = 3 /\ y[j] = After("comm", last, Nothing)
  BY <1>5, <1>13
<1>15. \A j \in 1 .. Len(y) : Aside(y[j], "caller", step) /\ y[j].upto <= Len(M[y[j].on])
                              /\ (j # 2 => y[j].op # "stage")
  BY <1>7, <1>9, <1>10, <1>11, <1>12, <1>14
<1>16. QED
  BY <1>3, <1>5, <1>15 DEF StagingFits

\* What a call gives to the comm stream: z behind all the caller's stream was given.
WaitsFirst(v, z, mark) ==
    /\ v \in Seq(Ops) /\ z \in Seq(Ops) /\ Len(v) = Len(z) /\ Len(z) >= 1
    /\ v[1] = After("caller", mark, z[1])
    /\ \A j \in 1 .. Len(z) : j # 1 => v[j] = z[j]

\* The first operation of comm is behind the staging copy.
LEMMA WaitsFirstIs ==
    ASSUME NEW v, NEW z, NEW mark \in Nat, WaitsFirst(v, z, mark), NEW r, NEW step, NEW w, NEW m, NEW d,
           IsBlock(z, r, step, w, m, d)
    PROVE  /\ OwnShare(v, r, step, w, 1) /\ v[3].buf = m /\ v[4].on = "xfer" /\ v[4].upto = d
           /\ Len(v) = End(step, 1) /\ Len(v) \in {5, 6}
           /\ v[1].on = "caller" /\ v[1].upto = mark
           /\ \A j \in 1 .. Len(v) : /\ v[j] \in Ops /\ v[j].op \notin {"stage", "produce", "read"}
                                     /\ j = 1 \/ j = 4 \/ v[j].upto = 0
<1>1. /\ v \in Seq(Ops) /\ z \in Seq(Ops) /\ Len(v) = Len(z) /\ Len(z) >= 1
      /\ v[1] = After("caller", mark, z[1])
      /\ \A j \in 1 .. Len(z) : j # 1 => v[j] = z[j]
  BY DEF WaitsFirst
<1>2. /\ Len(z) = End(step, 1) /\ Len(z) \in {5, 6} /\ OwnShare(z, r, step, w, 1)
      /\ z[3].buf = m /\ z[4].on = "xfer" /\ z[4].upto = d
      /\ \A j \in 1 .. Len(z) : /\ z[j] \in Ops /\ z[j].op \notin {"stage", "produce", "read"}
                                /\ j = 4 \/ z[j].upto = 0
  BY BlockOps
<1>3. /\ v[1].on = "caller" /\ v[1].upto = mark /\ v[1].op = z[1].op /\ v[1].win = z[1].win
      /\ v[1].call = z[1].call /\ v[1] \in Ops
  <2>1. z[1] \in Ops
    BY <1>1, <1>2
  <2>2. PICK o : o = z[1]
    OBVIOUS
  <2>3. "caller" \in Streams
    BY DEF Streams
  <2>4. After("caller", mark, o) \in Ops /\ After("caller", mark, o).op = o.op /\ After("caller", mark, o).win = o.win
        /\ After("caller", mark, o).call = o.call /\ After("caller", mark, o).on = "caller"
        /\ After("caller", mark, o).upto = mark
    BY <2>1, <2>2, <2>3, AfterIs
  <2>5. QED  BY <1>1, <2>2, <2>4
<1>4. v[2] = z[2] /\ v[3] = z[3] /\ v[4] = z[4] /\ v[5] = z[5] /\ (Len(z) = 6 => v[6] = z[6])
  BY <1>1, <1>2
<1>5. \A j \in 1 .. Len(z) : v[j].op = z[j].op /\ v[j].win = z[j].win /\ v[j].call = z[j].call
                             /\ v[j] \in Ops /\ (j # 1 => v[j].upto = z[j].upto)
  <2>1. \A j \in 1 .. Len(z) : j = 1 \/ v[j] = z[j]
    BY <1>1
  <2>2. QED  BY <1>2, <1>3, <2>1
<1>6. step.dest = "fresh" => Len(z) = 6
  BY <1>2 DEF End
<1>7. OwnShare(v, r, step, w, 1)
  BY <1>1, <1>2, <1>3, <1>4, <1>5, <1>6 DEF OwnShare
<1>8. QED
  BY <1>1, <1>2, <1>3, <1>4, <1>5, <1>7

\* An asynchronous call submits add: z is its transfer's share of the comm stream.
SubmitsAsync(L, r, p, k, at, q, n, add, M, z, x, l, b, m, o) ==
    /\ Submits(L, r, p, k, at, q, n, add, M) /\ Transfers(p, k + 1) /\ p[k + 1].async
    /\ x = Len(L["xfer"]) /\ l = Len(L["caller"]) /\ b = Len(L["comm"])
    /\ IsBlock(z, r, p[k + 1], Filled(p, k + 1), m, x + Copied(r))
    /\ StagingOps(add["caller"], L, p[k + 1], o, m, b + Len(z))
    /\ ~ HasRegistry => Len(add["caller"]) = 3
    /\ WaitsFirst(add["comm"], z, l + 2)
    /\ IsCopies(add["xfer"], r, "comm", b + 2, p[k + 1], Filled(p, k + 1), m)

\* What an asynchronous call submits adds its transfer to the log.
LEMMA AsyncAdds ==
    ASSUME NEW L, NEW r, NEW p, NEW k, NEW at, NEW q, NEW n, NEW add, NEW M, NEW z, NEW x, NEW l, NEW b, NEW m, NEW o,
           SubmitsAsync(L, r, p, k, at, q, n, add, M, z, x, l, b, m, o)
    PROVE  /\ TransferStep(L, add, M, r, p, k, at, "comm", m, 1)
           /\ Len(M["comm"]) = b + End(p[k + 1], 1) /\ M["comm"][b + 3].buf = m
<1>1. /\ Submits(L, r, p, k, at, q, n, add, M) /\ Transfers(p, k + 1) /\ p[k + 1].async
      /\ x = Len(L["xfer"]) /\ l = Len(L["caller"]) /\ b = Len(L["comm"])
      /\ IsBlock(z, r, p[k + 1], Filled(p, k + 1), m, x + Copied(r))
      /\ StagingOps(add["caller"], L, p[k + 1], o, m, b + Len(z))
      /\ (~ HasRegistry => Len(add["caller"]) = 3)
      /\ WaitsFirst(add["comm"], z, l + 2)
      /\ IsCopies(add["xfer"], r, "comm", b + 2, p[k + 1], Filled(p, k + 1), m)
  BY DEF SubmitsAsync
<1>2. /\ Contract(p) /\ r \in Ranks /\ k \in Nat /\ k <= Len(p) /\ Told(L, r, p, k, at) /\ k + 1 \in DOMAIN p
      /\ L \in Logs /\ add \in Logs /\ M \in Logs /\ Added(L, add, M)
  BY <1>1, SubmitsIs
<1>3. PICK step, w, y, v, f : /\ step = p[k + 1] /\ w = Filled(p, k + 1) /\ y = add["caller"] /\ v = add["comm"]
                              /\ f = add["xfer"]
  OBVIOUS
<1>4. step.do = "call" /\ step.call \in Calls /\ step.async /\ Lane(step) = "comm"
  BY <1>1, <1>2, <1>3, CallIs DEF Transfers, Lane
<1>5. l \in Nat /\ x \in Nat /\ b \in Nat /\ Copied(r) \in Nat /\ Len(f) \in Nat /\ Len(y) \in Nat
  <2>1. "caller" \in Streams /\ "xfer" \in Streams /\ "comm" \in Streams
    BY DEF Streams
  <2>2. QED  BY <1>1, <1>2, <1>3, <2>1, LogIs, CopiedIs
<1>6. /\ OwnShare(v, r, step, w, 1) /\ v[3].buf = m /\ v[4].on = "xfer" /\ v[4].upto = x + Copied(r)
      /\ Len(v) = End(step, 1) /\ Len(v) \in {5, 6}
      /\ v[1].on = "caller" /\ v[1].upto = l + 2
      /\ \A j \in 1 .. Len(v) : /\ v[j] \in Ops /\ v[j].op \notin {"stage", "produce", "read"}
                                /\ j = 1 \/ j = 4 \/ v[j].upto = 0
  <2>1. WaitsFirst(v, z, l + 2) /\ IsBlock(z, r, step, w, m, x + Copied(r)) /\ l + 2 \in Nat
    BY <1>1, <1>3, <1>5
  <2>2. QED  BY <2>1, WaitsFirstIs
<1>7. Len(z) = Len(v)
  BY <1>1, <1>3 DEF WaitsFirst
<1>8. /\ Len(M["caller"]) = l + Len(y) /\ Len(M["xfer"]) = x + Len(f) /\ Len(M["comm"]) = b + Len(v)
      /\ (\A j \in 1 .. Len(y) : M["caller"][l + j] = y[j])
      /\ (\A j \in 1 .. Len(v) : M["comm"][b + j] = v[j])
  BY <1>1, <1>2, <1>3 DEF Added, Streams
<1>9. /\ \A j \in 1 .. Len(y) : Aside(y[j], "caller", step)
      /\ \A j \in 1 .. Len(y) : y[j].upto <= Len(M[y[j].on])
      /\ (Len(y) = 2 \/ Len(y) = 3) /\ y[2] = o
      /\ o.op = "stage" /\ o.call = step.call /\ o.buf = m
  <2>1. b + Len(z) = Len(M["comm"])
    BY <1>7, <1>8
  <2>2. PICK last : last = b + Len(z)
    OBVIOUS
  <2>3. SubmitsStaging(L, r, p, k, at, q, n, add, M, o, m, last)
    BY <1>1, <1>3, <1>4, <2>1, <2>2 DEF SubmitsStaging
  <2>4. StagingFits(add["caller"], M, p[k + 1], o, m)
    BY <2>3, StagingOpsFit
  <2>5. StagingFits(y, M, step, o, m)
    BY <1>3, <2>4
  <2>6. QED  BY <2>5 DEF StagingFits
<1>10. /\ y[1] = Produce(step.call) /\ m \in Buffers
       /\ (Len(y) = 3 => y[3] = After("comm", b + Len(z), Nothing))
  BY <1>1, <1>3 DEF StagingOps
<1>11. IsCopies(f, r, "comm", b + 2, step, w, m)
  BY <1>1, <1>3
<1>12. /\ Len(f) = Copied(r) /\ f[1].on = "comm" /\ f[1].upto = b + 2
       /\ f \in Seq(Ops) /\ \A j \in 1 .. Len(f) : j # 1 => f[j].upto = 0
  BY <1>11 DEF IsCopies
<1>13. Len(v) >= 5 /\ Len(v) \in Nat /\ Len(y) >= 2
  BY <1>5, <1>6, <1>9, SMTT(60)
<1>14. /\ b + 2 <= Len(M["comm"]) /\ b + 1 <= Len(M["comm"]) /\ l + 2 <= Len(M["caller"])
       /\ Len(M["comm"]) \in Nat /\ Len(M["caller"]) \in Nat
  <2>1. PICK i, j, x1, x2 : i = Len(v) /\ j = Len(y) /\ x1 = Len(M["comm"]) /\ x2 = Len(M["caller"])
    OBVIOUS
  <2>2. i >= 5 /\ i \in Nat /\ j >= 2 /\ j \in Nat /\ x1 = b + i /\ x2 = l + j /\ b \in Nat /\ l \in Nat
    BY <1>5, <1>8, <1>13, <2>1
  <2>3. b + 2 <= x1 /\ b + 1 <= x1 /\ l + 2 <= x2 /\ x1 \in Nat /\ x2 \in Nat
    BY ONLY <2>2
  <2>4. QED  BY <2>1, <2>3
<1>15. /\ M["comm"][b + 1] = v[1] /\ M["comm"][b + 3] = v[3]
       /\ M["caller"][l + 1] = y[1] /\ M["caller"][l + 2] = y[2]
  <2>1. 1 \in 1 .. Len(v) /\ 3 \in 1 .. Len(v) /\ 1 \in 1 .. Len(y) /\ 2 \in 1 .. Len(y)
    BY <1>6, <1>9
  <2>2. QED  BY <1>8, <2>1
<1>16. Given(M, step, b + 1)
  <2>1. l + 2 \in 2 .. Len(M["caller"]) /\ (l + 2) - 1 = l + 1 /\ b + 1 + 2 = b + 3
    BY <1>5, <1>14
  <2>2. M["caller"][(l + 2) - 1].op = "produce" /\ M["caller"][(l + 2) - 1].call = step.call
    BY <1>10, <1>15, <2>1, ProduceIs
  <2>3. M["comm"][b + 1].on = "caller" /\ M["comm"][b + 1].upto = l + 2
    BY <1>6, <1>15
  <2>4. M["comm"][b + 1 + 2].buf = m
    BY <1>6, <1>15, <2>1
  <2>5. M["caller"][l + 2].op = "stage" /\ M["caller"][l + 2].call = step.call /\ M["caller"][l + 2].buf = m
    BY <1>9, <1>15
  <2>6. QED  BY <1>4, <2>1, <2>2, <2>3, <2>4, <2>5 DEF Given
<1>17. AddsTransfer(L, add, M, r, step, "comm", w, m, 1)
  <2>1. b + 1 + 1 = b + 2 /\ 1 + 2 = 3 /\ 1 + 3 = 4 /\ x + Copied(r) >= x + Copied(r)
    BY <1>5
  <2>2. IsCopies(add["xfer"], r, "comm", Len(L["comm"]) + 1 + 1, step, w, m)
    BY <1>1, <1>3, <1>11, <2>1
  <2>3. OwnShare(add["comm"], r, step, w, 1) /\ add["comm"][1 + 2].buf = m
        /\ add["comm"][1 + 3].on = "xfer" /\ add["comm"][1 + 3].upto >= Len(L["xfer"]) + Copied(r)
    BY <1>1, <1>3, <1>6, <2>1
  <2>4. Given(M, step, Len(L["comm"]) + 1)
    BY <1>1, <1>16
  <2>5. QED  BY <1>1, <1>4, <1>10, <2>2, <2>3, <2>4 DEF AddsTransfer
<1>18. AddsBeside(add, step, "comm", 1)
  <2>1. ASSUME NEW t \in {"caller", "comm"}, NEW j \in 1 .. Len(add[t])
        PROVE  \/ t = "comm" /\ j \in 1 .. End(step, 1) /\ add[t][j].op \notin {"stage", "produce", "read"}
               \/ Aside(add[t][j], t, step)
    <3>1. CASE t = "caller"
      BY <1>3, <1>9, <3>1
    <3>2. CASE t = "comm"
      BY <1>3, <1>6, <3>2
    <3>3. QED  BY <3>1, <3>2
  <2>2. QED  BY <2>1 DEF AddsBeside
<1>19. WaitsPast(add, M)
  <2>1. ASSUME NEW j \in 1 .. Len(v)  PROVE v[j].upto <= Len(M[v[j].on])
    <3>1. CASE j = 1
      <4>1. QED  BY <1>6, <1>14, <3>1
    <3>2. CASE j = 4
      <4>1. x + Copied(r) <= Len(M["xfer"])
        BY <1>5, <1>8, <1>12
      <4>2. QED  BY <1>6, <3>2, <4>1
    <3>3. CASE v[j].upto = 0
      BY <1>2, <1>6, <3>3, NoWait
    <3>4. QED  BY <1>6, <3>1, <3>2, <3>3
  <2>2. ASSUME NEW j \in 1 .. Len(f)  PROVE f[j].upto <= Len(M[f[j].on])
    <3>1. CASE j = 1
      <4>1. QED  BY <1>12, <1>14, <3>1
    <3>2. CASE j # 1
      <4>1. f[j].upto = 0 /\ f[j] \in Ops
        BY <1>12, <3>2
      <4>2. QED  BY <1>2, <4>1, NoWait
    <3>3. QED  BY <3>1, <3>2
  <2>3. ASSUME NEW t \in Streams, NEW j \in 1 .. Len(add[t])  PROVE add[t][j].upto <= Len(M[add[t][j].on])
    <3>1. CASE t = "caller"
      BY <1>3, <1>9, <3>1
    <3>2. CASE t = "comm"
      BY <1>3, <2>1, <3>2
    <3>3. CASE t = "xfer"
      BY <1>3, <2>2, <3>3
    <3>4. QED  BY <3>1, <3>2, <3>3 DEF Streams
  <2>4. QED  BY <2>3 DEF WaitsPast
<1>20. Behind(M, p, k, at, w, "comm", b + 1)
  <2>1. /\ b + 1 \in Nat /\ b + 1 <= Len(M["comm"])
        /\ M["comm"][b + 1].on = "caller" /\ M["comm"][b + 1].upto \in Nat
        /\ M["comm"][b + 1].upto >= Len(L["caller"])
    <3>1. l + 2 \in Nat /\ l + 2 >= l /\ b + 1 \in Nat
      BY <1>5
    <3>2. M["comm"][b + 1].on = "caller" /\ M["comm"][b + 1].upto = l + 2
      BY <1>6, <1>15
    <3>3. QED  BY <1>1, <1>14, <3>1, <3>2
  <2>2. PICK a : a = b + 1
    OBVIOUS
  <2>3. /\ a \in Nat /\ a = Len(L["comm"]) + 1 /\ a <= Len(M["comm"])
        /\ M["comm"][a].on = "caller" /\ M["comm"][a].upto \in Nat
        /\ M["comm"][a].upto >= Len(L["caller"])
    BY <1>1, <2>1, <2>2
  <2>4. Behind(M, p, k, at, Filled(p, k + 1), "comm", a)
    BY <1>1, <2>3, BehindTheCaller
  <2>5. QED  BY <1>3, <2>2, <2>4
<1>21. Len(L["comm"]) + End(step, 1) = Len(M["comm"])
  BY <1>1, <1>6, <1>8
<1>22. ASSUME Joined(p, k + 1, k + 1)
       PROVE  \E g \in 1 .. Len(M["caller"]) : M["caller"][g].on = "comm" /\ M["caller"][g].upto >= Len(M["comm"])
  <2>1. ~ HasRegistry
    <3>1. \A u \in (k + 1) + 1 .. k + 1 : FALSE
      BY <1>2
    <3>2. ~ UsedBy(p, k + 1, k + 1)
      BY <3>1 DEF UsedBy
    <3>3. QED  BY <1>22, <3>2 DEF Joined
  <2>2. Len(y) = 3
    BY <1>1, <1>3, <2>1
  <2>3. 3 \in 1 .. Len(y) /\ l + 3 \in 1 .. Len(M["caller"])
    BY <1>5, <1>8, <2>2, SMTT(60)
  <2>4. M["caller"][l + 3] = After("comm", b + Len(z), Nothing)
    BY <1>8, <1>10, <2>2, <2>3
  <2>5. Nothing \in Ops /\ b + Len(z) \in Nat /\ b + Len(z) = Len(M["comm"])
    <3>1. Nothing \in Ops
      BY <1>4, SomeOps
    <3>2. b + Len(z) = Len(M["comm"]) /\ b + Len(z) \in Nat
      BY <1>7, <1>8, <1>14
    <3>3. QED  BY <3>1, <3>2
  <2>6. M["caller"][l + 3].on = "comm" /\ M["caller"][l + 3].upto = Len(M["comm"])
    <3>1. PICK last : last = b + Len(z)
      OBVIOUS
    <3>2. "comm" \in Streams
      BY DEF Streams
    <3>3. After("comm", last, Nothing).on = "comm" /\ After("comm", last, Nothing).upto = last
      BY <2>5, <3>1, <3>2, AfterIs
    <3>4. QED  BY <2>4, <2>5, <3>1, <3>3
  <2>7. M["caller"][l + 3].upto >= Len(M["comm"])
    BY <2>5, <2>6
  <2>8. QED  BY <2>3, <2>6, <2>7
<1>23. TransferStep(L, add, M, r, p, k, at, "comm", m, 1)
  BY <1>1, <1>2, <1>3, <1>17, <1>18, <1>19, <1>20, <1>21, <1>22 DEF TransferStep
<1>24. QED
  BY <1>3, <1>6, <1>8, <1>15, <1>23

\* A call that prepare refuses gives the comm stream its wait and nothing else.
LEMMA RefusedAdds ==
    ASSUME NEW L, NEW r, NEW p, NEW k, NEW at, NEW q, NEW n, NEW add, NEW M, NEW o, NEW m, NEW last,
           SubmitsStaging(L, r, p, k, at, q, n, add, M, o, m, last),
           ~ Transfers(p, k + 1), Len(add["caller"]) = 2, add["xfer"] = <<>>,
           Len(add["comm"]) = 1, add["comm"][1].op = "nothing", add["comm"][1].on = "caller",
           add["comm"][1].upto = Len(L["caller"]) + 2
    PROVE  QuietStep(L, add, M, p, k, at)
<1>1. /\ Contract(p) /\ r \in Ranks /\ k \in Nat /\ k <= Len(p) /\ Told(L, r, p, k, at) /\ k + 1 \in DOMAIN p
      /\ L \in Logs /\ add \in Logs /\ M \in Logs /\ Added(L, add, M) /\ p[k + 1].do = "call"
  BY SubmitsIs DEF SubmitsStaging
<1>2. StagingFits(add["caller"], M, p[k + 1], o, m)
  BY StagingOpsFit
<1>3. \A j \in 1 .. Len(add["caller"]) : /\ Aside(add["caller"][j], "caller", p[k + 1])
                                         /\ add["caller"][j].upto <= Len(M[add["caller"][j].on])
  BY <1>2 DEF StagingFits
<1>4. Aside(add["comm"][1], "comm", p[k + 1])
  BY DEF Aside
<1>5. Len(M["caller"]) = Len(L["caller"]) + 2
  BY <1>1 DEF Added, Streams
<1>6. \A j \in 1 .. Len(add["comm"]) : /\ Aside(add["comm"][j], "comm", p[k + 1])
                                       /\ add["comm"][j].upto <= Len(M[add["comm"][j].on])
  <2>1. Len(L["caller"]) \in Nat
    BY <1>1, LogIs DEF Streams
  <2>2. add["comm"][1].upto <= Len(M[add["comm"][1].on])
    BY <1>5, <2>1
  <2>3. \A j \in 1 .. Len(add["comm"]) : j = 1
    OBVIOUS
  <2>4. QED  BY <1>4, <2>2, <2>3
<1>7. \A j \in 1 .. Len(add["xfer"]) : FALSE
  OBVIOUS
<1>8. ASSUME NEW t \in Streams, NEW j \in 1 .. Len(add[t])
      PROVE  Aside(add[t][j], t, p[k + 1]) /\ add[t][j].upto <= Len(M[add[t][j].on])
  <2>1. CASE t = "caller"
    BY <1>3, <2>1
  <2>2. CASE t = "comm"
    BY <1>6, <2>2
  <2>3. CASE t = "xfer"
    BY <1>7, <2>3
  <2>4. QED  BY <2>1, <2>2, <2>3 DEF Streams
<1>9. WaitsPast(add, M)
  BY <1>8 DEF WaitsPast
<1>10. \A i \in 1 .. k : Joined(p, i, k + 1) => Joined(p, i, k) \/ Awaited(M, p, at, i)
  BY <1>1, CallJoinsNobody
<1>11. QED
  BY <1>1, <1>8, <1>9, <1>10 DEF QuietStep

\* The use of a result: the caller's stream waits where the result says.
LEMMA UseAdds ==
    ASSUME NEW L, NEW r, NEW p, NEW k, NEW at, NEW q, NEW n, NEW add, NEW M, Submits(L, r, p, k, at, q, n, add, M),
           p[k + 1].do = "use", NEW res, Noted(p, k, at, res), NEW e, e = res[p[k + 1].call],
           e.async \in BOOLEAN, e.at \in Nat,
           Len(add["caller"]) = 1, add["comm"] = <<>>, add["xfer"] = <<>>,
           NEW o, o = add["caller"][1], o.op = "read",
           IF e.async THEN o.on = "comm" /\ o.upto = e.at ELSE o.upto = 0
    PROVE  QuietStep(L, add, M, p, k, at)
<1>1. /\ Contract(p) /\ r \in Ranks /\ k \in Nat /\ k <= Len(p) /\ Told(L, r, p, k, at) /\ k + 1 \in DOMAIN p
      /\ L \in Logs /\ add \in Logs /\ M \in Logs /\ Added(L, add, M)
      /\ \A i \in 1 .. k : i \in DOMAIN p /\ i < k + 1
  BY SubmitsIs
<1>2. ~ Transfers(p, k + 1)
  BY DEF Transfers
<1>3. PICK i \in 1 .. k : Transfers(p, i) /\ UsedAt(p, k + 1, i)
  <2>1. (k + 1) - 1 = k
    BY <1>1
  <2>2. \E i \in 1 .. (k + 1) - 1 : Transfers(p, i) /\ UsedAt(p, k + 1, i)
    BY <1>1 DEF Contract
  <2>3. QED  BY <2>1, <2>2
<1>4. /\ e.async = (p[i].async /\ HasRegistry) /\ p[i].async \in BOOLEAN
      /\ p[i].async => e.at = End(p[i], at[i].near)
  <2>1. e = res[p[i].call]
    BY <1>3 DEF UsedAt
  <2>2. p[i].async \in BOOLEAN
    BY <1>1, <1>3, TransferIs
  <2>3. QED  BY <1>3, <2>1, <2>2 DEF Noted
<1>5. PICK d : d = End(p[i], at[i].near)
  OBVIOUS
<1>6. d \in Nat /\ d <= Len(L[Lane(p[i])])
  BY <1>1, <1>3, <1>5, TransferIs
<1>7. /\ Len(M["caller"]) = Len(L["caller"]) + 1 /\ M["caller"][Len(L["caller"]) + 1] = o
      /\ Len(M["comm"]) = Len(L["comm"])
  <2>1. 1 \in 1 .. Len(add["caller"]) /\ Len(L["comm"]) \in Nat
    BY <1>1, LogIs DEF Streams
  <2>2. Len(add["comm"]) = 0
    OBVIOUS
  <2>3. /\ Len(M["caller"]) = Len(L["caller"]) + Len(add["caller"])
        /\ \A j \in 1 .. Len(add["caller"]) : M["caller"][Len(L["caller"]) + j] = add["caller"][j]
        /\ Len(M["comm"]) = Len(L["comm"]) + Len(add["comm"])
    BY <1>1 DEF Added, Streams
  <2>4. QED  BY <2>1, <2>2, <2>3
<1>8. o.upto <= Len(M[o.on])
  <2>1. CASE e.async
    <3>1. Lane(p[i]) = "comm"
      BY <1>4, <2>1 DEF Lane
    <3>2. o.on = "comm" /\ o.upto = d
      BY <1>4, <1>5, <2>1
    <3>3. d <= Len(M["comm"])
      BY <1>6, <1>7, <3>1
    <3>4. QED  BY <3>2, <3>3
  <2>2. CASE ~ e.async
    <3>1. o \in Ops /\ o.upto = 0
      <4>1. add["caller"] \in Seq(Ops) /\ 1 \in 1 .. Len(add["caller"])
        BY <1>1 DEF Logs, Streams
      <4>2. QED  BY <2>2, <4>1
    <3>2. QED  BY <1>1, <3>1, NoWait
  <2>3. QED  BY <2>1, <2>2
<1>9. Aside(o, "caller", p[k + 1])
  BY DEF Aside
<1>10. ASSUME NEW t \in Streams, NEW j \in 1 .. Len(add[t])
       PROVE  Aside(add[t][j], t, p[k + 1]) /\ add[t][j].upto <= Len(M[add[t][j].on])
  <2>1. CASE t = "caller"
    <3>1. j = 1
      <4>1. \A g \in 1 .. Len(add["caller"]) : g = 1
        OBVIOUS
      <4>2. QED  BY <2>1, <4>1
    <3>2. QED  BY <1>8, <1>9, <2>1, <3>1
  <2>2. t = "caller"
    <3>1. (\A g \in 1 .. Len(add["xfer"]) : FALSE) /\ (\A g \in 1 .. Len(add["comm"]) : FALSE)
      OBVIOUS
    <3>2. QED  BY <3>1 DEF Streams
  <2>3. QED  BY <2>1, <2>2
<1>11. WaitsPast(add, M)
  BY <1>10 DEF WaitsPast
<1>12. ASSUME NEW j \in 1 .. k, Joined(p, j, k + 1), ~ Joined(p, j, k)  PROVE Awaited(M, p, at, j)
  <2>1. HasRegistry /\ Transfers(p, j) /\ p[j].async
    BY <1>12 DEF Joined
  <2>2. PICK u \in j + 1 .. k + 1 : UsedAt(p, u, j)
    BY <1>12, <2>1 DEF Joined, UsedBy
  <2>3. u = k + 1
    <3>1. u \notin j + 1 .. k
      BY <1>12, <2>1, <2>2 DEF Joined, UsedBy
    <3>2. QED  BY <1>1, <2>2, <3>1
  <2>4. j = i
    <3>1. p[j].call = p[i].call /\ i \in DOMAIN p /\ j \in DOMAIN p
      BY <1>1, <1>3, <2>2, <2>3 DEF UsedAt
    <3>2. QED  BY <1>1, <1>3, <2>1, <3>1, OneStep DEF Transfers
  <2>5. o.on = "comm" /\ o.upto = d
    BY <1>4, <1>5, <2>1, <2>4
  <2>6. PICK g : g = Len(L["caller"]) + 1
    OBVIOUS
  <2>7. g \in 1 .. Len(M["caller"]) /\ M["caller"][g] = o
    BY <1>1, <1>7, <2>6, LogIs DEF Streams
  <2>8. M["caller"][g].upto >= End(p[j], at[j].near)
    BY <1>5, <1>6, <2>4, <2>5, <2>7
  <2>9. QED  BY <2>5, <2>7, <2>8 DEF Awaited
<1>13. QED
  BY <1>1, <1>2, <1>10, <1>11, <1>12 DEF QuietStep

\* A step that submits nothing.
LEMMA EmptyAdds ==
    ASSUME NEW L, NEW r, NEW p, NEW k, NEW at, NEW q, NEW n, NEW add, NEW M, Submits(L, r, p, k, at, q, n, add, M),
           p[k + 1].do \notin {"call", "use"}, \A s \in Streams : add[s] = <<>>
    PROVE  QuietStep(L, add, M, p, k, at)
<1>1. /\ k \in Nat /\ Added(L, add, M)
  BY SubmitsIs
<1>2. ~ Transfers(p, k + 1)
  BY DEF Transfers
<1>3. \A t \in Streams : \A j \in 1 .. Len(add[t]) : FALSE
  OBVIOUS
<1>4. ASSUME NEW i \in 1 .. k, Joined(p, i, k + 1)  PROVE Joined(p, i, k)
  <2>1. ASSUME NEW u \in i + 1 .. k + 1, UsedAt(p, u, i)  PROVE u \in i + 1 .. k
    <3>1. u # k + 1
      BY <2>1 DEF UsedAt
    <3>2. QED  BY <1>1, <3>1
  <2>2. QED  BY <1>4, <2>1 DEF Joined, UsedBy
<1>5. QED
  BY <1>1, <1>2, <1>3, <1>4 DEF QuietStep, WaitsPast

------------------------------------------------------------------------------
(* What the caller's stream reads and stages, when more is submitted. *)

\* Step k + 1 adds its own read or staging copy, and transfers behind all of
\* the caller's stream.
CallerAdds(L, add, M, p, k, at2) ==
    /\ \A j \in 1 .. Len(add["caller"]) :
          /\ add["caller"][j].op = "read" =>
                /\ p[k + 1].do = "use" /\ add["caller"][j].call = p[k + 1].call
                /\ \E i \in 1 .. k : ReadsFor(M, p, at2, Len(L["caller"]) + j, i)
          /\ add["caller"][j].op = "stage" =>
                /\ j = 2 /\ p[k + 1].do = "call" /\ add["caller"][j].call = p[k + 1].call
                /\ add["caller"][1].op = "produce" /\ add["caller"][1].call = p[k + 1].call
    /\ Transfers(p, k + 1) =>
          \A g \in 1 .. Len(L["caller"]) : Before(M, "caller", g, Lane(p[k + 1]), at2[k + 1].near)

\* Operation g of the longer stream is an old one or one that is added.
LEMMA OldOrAdded ==
    ASSUME NEW L, NEW add, NEW M, Added(L, add, M), NEW s \in Streams, NEW g \in 1 .. Len(M[s])
    PROVE  \/ g \in 1 .. Len(L[s]) /\ M[s][g] = L[s][g]
           \/ \E j \in 1 .. Len(add[s]) : g = Len(L[s]) + j /\ M[s][g] = add[s][j]
<1>1. /\ Len(M[s]) = Len(L[s]) + Len(add[s]) /\ L \in Logs /\ add \in Logs
      /\ \A k \in 1 .. Len(L[s]) : M[s][k] = L[s][k]
      /\ \A k \in 1 .. Len(add[s]) : M[s][Len(L[s]) + k] = add[s][k]
  BY DEF Added, Grown
<1>2. Len(L[s]) \in Nat /\ Len(add[s]) \in Nat
  BY <1>1, LogIs
<1>3. CASE g <= Len(L[s])
  BY <1>1, <1>2, <1>3
<1>4. CASE g > Len(L[s])
  <2>1. PICK j, x, y : j = g - Len(L[s]) /\ x = Len(L[s]) /\ y = Len(add[s])
    OBVIOUS
  <2>2. x \in Nat /\ y \in Nat /\ g \in 1 .. x + y /\ g > x /\ j = g - x
    BY <1>1, <1>2, <1>4, <2>1
  <2>3. j \in 1 .. y /\ g = x + j
    BY ONLY <2>2
  <2>4. QED  BY <1>1, <2>1, <2>3
<1>5. QED
  BY <1>2, <1>3, <1>4

\* Reads stay in turn: those there were, ...
LEMMA OldReading ==
    ASSUME NEW L, NEW r, NEW p, NEW k, NEW at, NEW q, NEW n, NEW add, NEW M, Submits(L, r, p, k, at, q, n, add, M),
           Reading(L, p, k, at), NEW at2, Places1(p, k, at, at2), CallerAdds(L, add, M, p, k, at2),
           NEW g \in 1 .. Len(L["caller"]), L["caller"][g].op = "read", M["caller"][g] = L["caller"][g]
    PROVE  /\ \E i \in 1 .. k + 1 : ReadsFor(M, p, at2, g, i)
           /\ \A h \in 1 .. k + 1 :
                 /\ Transfers(p, h)
                 /\ \A u \in 1 .. k + 1 : p[u].do = "use" /\ p[u].call = M["caller"][g].call => u < h
                 => Before(M, "caller", g, Lane(p[h]), at2[h].near)
<1>1. /\ Contract(p) /\ k \in Nat /\ Grown(L, M) /\ Told(L, r, p, k, at) /\ r \in Ranks /\ k <= Len(p)
      /\ \A i \in 1 .. k : at2[i] = at[i]
  BY SubmitsIs DEF Places1
<1>2. "caller" \in Streams /\ \A i \in 1 .. k : i \in 1 .. k + 1
  BY <1>1 DEF Streams
<1>3. PICK i \in 1 .. k : ReadsFor(L, p, at, g, i)
  BY DEF Reading
<1>4. ReadsFor(M, p, at2, g, i)
  <2>1. Before(L, Lane(p[i]), End(p[i], at[i].near), "caller", g)
    BY <1>3 DEF ReadsFor
  <2>2. Before(M, Lane(p[i]), End(p[i], at[i].near), "caller", g)
    BY <1>1, <1>2, <2>1, BeforeGrows
  <2>3. QED  BY <1>1, <1>3, <2>2 DEF ReadsFor
<1>5. ASSUME NEW h \in 1 .. k + 1, Transfers(p, h),
             \A u \in 1 .. k + 1 : p[u].do = "use" /\ p[u].call = M["caller"][g].call => u < h
      PROVE  Before(M, "caller", g, Lane(p[h]), at2[h].near)
  <2>1. CASE h = k + 1
    BY <1>5, <2>1 DEF CallerAdds
  <2>2. CASE h # k + 1
    <3>1. h \in 1 .. k
      BY <1>1, <2>2
    <3>2. \A u \in 1 .. k : p[u].do = "use" /\ p[u].call = L["caller"][g].call => u < h
      BY <1>2, <1>5
    <3>3. Before(L, "caller", g, Lane(p[h]), at[h].near)
      BY <1>5, <3>1, <3>2 DEF Reading
    <3>4. Lane(p[h]) \in Streams
      BY DEF Lane, Streams
    <3>5. QED  BY <1>1, <3>1, <3>3, <3>4, BeforeGrows
  <2>3. QED  BY <2>1, <2>2
<1>6. QED
  BY <1>2, <1>4, <1>5

\* ... and the one that is added, behind which nothing is yet.
LEMMA NewReading ==
    ASSUME NEW L, NEW r, NEW p, NEW k, NEW at, NEW q, NEW n, NEW add, NEW M, Submits(L, r, p, k, at, q, n, add, M),
           NEW at2, CallerAdds(L, add, M, p, k, at2),
           NEW g, NEW j \in 1 .. Len(add["caller"]), g = Len(L["caller"]) + j, M["caller"][g] = add["caller"][j],
           add["caller"][j].op = "read"
    PROVE  /\ \E i \in 1 .. k + 1 : ReadsFor(M, p, at2, g, i)
           /\ \A h \in 1 .. k + 1 :
                 /\ Transfers(p, h)
                 /\ \A u \in 1 .. k + 1 : p[u].do = "use" /\ p[u].call = M["caller"][g].call => u < h
                 => Before(M, "caller", g, Lane(p[h]), at2[h].near)
<1>1. k \in Nat /\ (\A i \in 1 .. k : i \in 1 .. k + 1) /\ k + 1 \in 1 .. k + 1
  BY SubmitsIs
<1>2. /\ p[k + 1].do = "use" /\ M["caller"][g].call = p[k + 1].call
      /\ \E i \in 1 .. k : ReadsFor(M, p, at2, g, i)
  BY DEF CallerAdds
<1>3. ASSUME NEW h \in 1 .. k + 1, \A u \in 1 .. k + 1 : p[u].do = "use" /\ p[u].call = M["caller"][g].call => u < h
      PROVE  FALSE
  <2>1. k + 1 < h
    BY <1>1, <1>2, <1>3
  <2>2. QED  BY <1>1, <2>1
<1>4. QED
  BY <1>1, <1>2, <1>3

\* What is staged stays in turn as well.
LEMMA CallerGrows ==
    ASSUME NEW L, NEW r, NEW p, NEW k, NEW at, NEW q, NEW n, NEW add, NEW M, Submits(L, r, p, k, at, q, n, add, M),
           Reading(L, p, k, at), StagedInTurn(L), NEW at2, Places1(p, k, at, at2), CallerAdds(L, add, M, p, k, at2)
    PROVE  Reading(M, p, k + 1, at2) /\ StagedInTurn(M)
<1>1. /\ Contract(p) /\ k \in Nat /\ k + 1 \in DOMAIN p /\ Told(L, r, p, k, at) /\ L \in Logs /\ M \in Logs
      /\ Added(L, add, M) /\ add \in Logs /\ \A i \in 1 .. k : i \in DOMAIN p /\ i < k + 1
  BY SubmitsIs
<1>2. "caller" \in Streams
  BY DEF Streams
<1>3. Reading(M, p, k + 1, at2)
  <2>1. SUFFICES ASSUME NEW g \in 1 .. Len(M["caller"]), M["caller"][g].op = "read"
                 PROVE  /\ \E i \in 1 .. k + 1 : ReadsFor(M, p, at2, g, i)
                        /\ \A h \in 1 .. k + 1 :
                              /\ Transfers(p, h)
                              /\ \A u \in 1 .. k + 1 : p[u].do = "use" /\ p[u].call = M["caller"][g].call => u < h
                              => Before(M, "caller", g, Lane(p[h]), at2[h].near)
    BY DEF Reading
  <2>2. CASE g \in 1 .. Len(L["caller"]) /\ M["caller"][g] = L["caller"][g]
    <3>1. L["caller"][g].op = "read"
      BY <2>1, <2>2
    <3>2. QED  BY <2>2, <3>1, OldReading
  <2>3. CASE \E j \in 1 .. Len(add["caller"]) : g = Len(L["caller"]) + j /\ M["caller"][g] = add["caller"][j]
    <3>1. PICK j \in 1 .. Len(add["caller"]) : g = Len(L["caller"]) + j /\ M["caller"][g] = add["caller"][j]
      BY <2>3
    <3>2. add["caller"][j].op = "read"
      BY <2>1, <3>1
    <3>3. QED  BY <3>1, <3>2, NewReading
  <2>4. \/ g \in 1 .. Len(L["caller"]) /\ M["caller"][g] = L["caller"][g]
        \/ \E j \in 1 .. Len(add["caller"]) : g = Len(L["caller"]) + j /\ M["caller"][g] = add["caller"][j]
    <3>1. PICK t : t = "caller"
      OBVIOUS
    <3>2. Added(L, add, M) /\ t \in Streams /\ g \in 1 .. Len(M[t])
      BY <1>1, <1>2, <2>1, <3>1
    <3>3. \/ g \in 1 .. Len(L[t]) /\ M[t][g] = L[t][g]
          \/ \E j \in 1 .. Len(add[t]) : g = Len(L[t]) + j /\ M[t][g] = add[t][j]
      BY <3>2, OldOrAdded, SMTT(60)
    <3>4. QED  BY <3>1, <3>3
  <2>5. QED  BY <2>2, <2>3, <2>4
<1>4. StagedInTurn(M)
  <2>1. SUFFICES ASSUME NEW g \in 1 .. Len(M["caller"]), M["caller"][g].op = "stage"
                 PROVE  /\ g > 1 /\ M["caller"][g - 1].op = "produce" /\ M["caller"][g - 1].call = M["caller"][g].call
                        /\ \A f \in 1 .. g - 1 : M["caller"][f].op = "stage" => M["caller"][f].call < M["caller"][g].call
    BY DEF StagedInTurn
  <2>2. PICK l : l = Len(L["caller"])
    OBVIOUS
  <2>3. /\ l \in Nat /\ (\A j \in 1 .. l : M["caller"][j] = L["caller"][j])
        /\ \A j \in 1 .. Len(add["caller"]) : M["caller"][l + j] = add["caller"][j]
    BY <1>1, <1>2, <2>2, LogIs DEF Added, Grown
  <2>4. CASE g \in 1 .. l /\ M["caller"][g] = L["caller"][g]
    <3>1. /\ g > 1 /\ L["caller"][g - 1].op = "produce" /\ L["caller"][g - 1].call = L["caller"][g].call
          /\ \A f \in 1 .. g - 1 : L["caller"][f].op = "stage" => L["caller"][f].call < L["caller"][g].call
      BY <2>1, <2>2, <2>4 DEF StagedInTurn
    <3>2. g - 1 \in 1 .. l /\ \A f \in 1 .. g - 1 : f \in 1 .. l
      BY <2>3, <2>4, <3>1
    <3>3. QED  BY <2>3, <2>4, <3>1, <3>2
  <2>5. CASE \E j \in 1 .. Len(add["caller"]) : g = l + j /\ M["caller"][g] = add["caller"][j]
    <3>1. PICK j \in 1 .. Len(add["caller"]) : g = l + j /\ M["caller"][g] = add["caller"][j]
      BY <2>5
    <3>2. /\ j = 2 /\ p[k + 1].do = "call" /\ M["caller"][g].call = p[k + 1].call
          /\ add["caller"][1].op = "produce" /\ add["caller"][1].call = p[k + 1].call
      BY <2>1, <3>1 DEF CallerAdds
    <3>3. g = l + 2 /\ g - 1 = l + 1 /\ g > 1
      BY <2>3, <3>1, <3>2
    <3>4. M["caller"][l + 1] = add["caller"][1]
      <4>1. Len(add["caller"]) \in Nat
        BY <1>1, <1>2, LogIs
      <4>2. 1 \in 1 .. Len(add["caller"])
        BY <3>1, <3>2, <4>1
      <4>3. QED  BY <2>3, <4>2
    <3>5. ASSUME NEW f \in 1 .. g - 1, M["caller"][f].op = "stage"  PROVE M["caller"][f].call < M["caller"][g].call
      <4>1. f \in 1 .. l
        <5>1. f # l + 1
          BY <3>2, <3>4, <3>5
        <5>2. f \in Nat /\ f >= 1 /\ f <= l + 1
          BY <2>3, <3>3
        <5>3. QED  BY <2>3, <5>1, <5>2
      <4>2. M["caller"][f] = L["caller"][f] /\ L["caller"][f].op = "stage"
        BY <2>3, <3>5, <4>1
      <4>3. PICK i \in 1 .. k : p[i].do = "call" /\ L["caller"][f].call = p[i].call
        <5>1. Known(L, r, p, k, at, "caller", f)
          BY <1>1, <1>2, <2>2, <4>1 DEF Told
        <5>2. QED  BY <4>2, <5>1 DEF Known
      <4>4. p[i].call < p[k + 1].call
        BY <1>1, <3>2, <4>3 DEF Contract
      <4>5. QED  BY <3>2, <4>2, <4>3, <4>4
    <3>6. QED  BY <3>2, <3>3, <3>4, <3>5
  <2>6. \/ g \in 1 .. Len(L["caller"]) /\ M["caller"][g] = L["caller"][g]
        \/ \E j \in 1 .. Len(add["caller"]) : g = Len(L["caller"]) + j /\ M["caller"][g] = add["caller"][j]
    <3>1. PICK t : t = "caller"
      OBVIOUS
    <3>2. Added(L, add, M) /\ t \in Streams /\ g \in 1 .. Len(M[t])
      BY <1>1, <1>2, <2>1, <3>1
    <3>3. \/ g \in 1 .. Len(L[t]) /\ M[t][g] = L[t][g]
          \/ \E j \in 1 .. Len(add[t]) : g = Len(L[t]) + j /\ M[t][g] = add[t][j]
      BY <3>2, OldOrAdded
    <3>4. QED  BY <3>1, <3>3
  <2>7. QED  BY <2>2, <2>4, <2>5, <2>6
<1>5. QED
  BY <1>3, <1>4

\* A step that submits nothing.
LEMMA EmptyTurns ==
    ASSUME NEW L, NEW add, NEW M, NEW p, NEW k, NEW at2, ~ Transfers(p, k + 1), add["caller"] = <<>>
    PROVE  CallerAdds(L, add, M, p, k, at2)
<1>1. \A j \in 1 .. Len(add["caller"]) : FALSE
  OBVIOUS
<1>2. QED
  BY <1>1 DEF CallerAdds

\* A use submits the read of its result, when that is complete.
LEMMA UseTurns ==
    ASSUME NEW L, NEW r, NEW p, NEW k, NEW at, NEW q, NEW n, NEW add, NEW M, Submits(L, r, p, k, at, q, n, add, M),
           p[k + 1].do = "use", NEW res, Noted(p, k, at, res), NEW e, e = res[p[k + 1].call],
           Len(add["caller"]) = 1, NEW o, o = add["caller"][1], o.op = "read",
           o.call = p[k + 1].call, o.win = e.from, e.async => o.on = "comm" /\ o.upto = e.at
    PROVE  CallerAdds(L, add, M, p, k, at)
<1>1. /\ Contract(p) /\ r \in Ranks /\ k \in Nat /\ k <= Len(p) /\ Told(L, r, p, k, at) /\ k + 1 \in DOMAIN p
      /\ L \in Logs /\ add \in Logs /\ M \in Logs /\ Added(L, add, M) /\ Grown(L, M)
  BY SubmitsIs
<1>2. ~ Transfers(p, k + 1)
  BY DEF Transfers
<1>3. PICK i \in 1 .. k : Transfers(p, i) /\ p[k + 1].call = p[i].call
  <2>1. (k + 1) - 1 = k
    BY <1>1
  <2>2. \E i \in 1 .. (k + 1) - 1 : Transfers(p, i) /\ UsedAt(p, k + 1, i)
    BY <1>1 DEF Contract
  <2>3. QED  BY <2>1, <2>2 DEF UsedAt
<1>4. /\ e.from = (IF p[i].dest = "fresh" THEN <<"output", p[i].call>> ELSE Filled(p, i))
      /\ e.async = (p[i].async /\ HasRegistry)
      /\ p[i].async => e.at = End(p[i], at[i].near)
  BY <1>3 DEF Noted
<1>5. PICK d, g : d = End(p[i], at[i].near) /\ g = Len(L["caller"]) + 1
  OBVIOUS
<1>6. d \in Nat /\ d <= Len(L[Lane(p[i])]) /\ p[i].async \in BOOLEAN
  BY <1>1, <1>3, <1>5, TransferIs
<1>7. g \in Nat /\ Len(L["caller"]) \in Nat /\ Len(M["caller"]) = g /\ M["caller"][g] = o
  <2>1. 1 \in 1 .. Len(add["caller"]) /\ "caller" \in Streams
    BY DEF Streams
  <2>2. Len(L["caller"]) \in Nat
    BY <1>1, <2>1, LogIs
  <2>3. /\ Len(M["caller"]) = Len(L["caller"]) + Len(add["caller"])
        /\ \A j \in 1 .. Len(add["caller"]) : M["caller"][Len(L["caller"]) + j] = add["caller"][j]
    BY <1>1, <2>1 DEF Added
  <2>4. QED  BY <1>5, <2>1, <2>2, <2>3
<1>8. Before(M, Lane(p[i]), d, "caller", g)
  <2>1. CASE ~ p[i].async
    <3>1. Lane(p[i]) = "caller"
      BY <2>1 DEF Lane
    <3>2. d <= g
      BY <1>5, <1>6, <1>7, <3>1
    <3>3. QED  BY <3>1, <3>2 DEF Before
  <2>2. CASE p[i].async /\ HasRegistry
    <3>1. Lane(p[i]) = "comm" /\ M["caller"][g].on = "comm" /\ M["caller"][g].upto = d
      BY <1>4, <1>5, <1>7, <2>2 DEF Lane
    <3>2. g \in 1 .. Len(M["caller"]) /\ g <= g /\ d >= d
      BY <1>5, <1>6, <1>7
    <3>3. QED  BY <3>1, <3>2 DEF Before
  <2>3. CASE p[i].async /\ ~ HasRegistry
    <3>1. Lane(p[i]) = "comm"
      BY <2>3 DEF Lane
    <3>2. Joined(p, i, k)
      BY <1>3, <2>3 DEF Joined
    <3>3. Awaited(L, p, at, i)
      BY <1>1, <3>2 DEF Told
    <3>4. PICK h \in 1 .. Len(L["caller"]) : L["caller"][h].on = "comm" /\ L["caller"][h].upto >= d
      BY <1>5, <3>3 DEF Awaited
    <3>5. h \in 1 .. Len(M["caller"]) /\ h <= g
      BY <1>5, <1>7
    <3>6. M["caller"][h] = L["caller"][h]
      BY <1>1 DEF Grown, Streams
    <3>7. QED  BY <3>1, <3>4, <3>5, <3>6 DEF Before
  <2>4. QED  BY <1>6, <2>1, <2>2, <2>3, ExchangeAssumption
<1>9. ReadsFor(M, p, at, g, i)
  BY <1>3, <1>4, <1>5, <1>7, <1>8 DEF ReadsFor
<1>10. \A j \in 1 .. Len(add["caller"]) : j = 1
  OBVIOUS
<1>11. QED
  BY <1>2, <1>5, <1>9, <1>10 DEF CallerAdds

\* A synchronous call is behind all its own stream was given.
LEMMA SyncTurns ==
    ASSUME NEW L, NEW add, NEW M, NEW p, NEW k, NEW at2, L \in Logs,
           \A j \in 1 .. Len(add["caller"]) : add["caller"][j].op \notin {"read", "stage"},
           Lane(p[k + 1]) = "caller", at2[k + 1].near \in Nat, at2[k + 1].near > Len(L["caller"])
    PROVE  CallerAdds(L, add, M, p, k, at2)
<1>1. Len(L["caller"]) \in Nat
  BY LogIs DEF Streams
<1>2. \A g \in 1 .. Len(L["caller"]) : g <= at2[k + 1].near
  BY <1>1
<1>3. QED
  BY <1>2 DEF CallerAdds, Before

\* A call that stages submits one copy to staging, behind the input.
LEMMA StagingTurns ==
    ASSUME NEW L, NEW r, NEW p, NEW k, NEW at, NEW q, NEW n, NEW add, NEW M, NEW o, NEW m, NEW last,
           SubmitsStaging(L, r, p, k, at, q, n, add, M, o, m, last), NEW at2,
           Transfers(p, k + 1) =>
               \A g \in 1 .. Len(L["caller"]) : Before(M, "caller", g, Lane(p[k + 1]), at2[k + 1].near)
    PROVE  CallerAdds(L, add, M, p, k, at2)
<1>1. /\ Submits(L, r, p, k, at, q, n, add, M) /\ p[k + 1].do = "call"
      /\ StagingOps(add["caller"], L, p[k + 1], o, m, last) /\ last = Len(M["comm"])
  BY DEF SubmitsStaging
<1>2. Contract(p) /\ k + 1 \in DOMAIN p /\ M \in Logs
  BY <1>1, SubmitsIs
<1>3. PICK y, step : y = add["caller"] /\ step = p[k + 1]
  OBVIOUS
<1>4. step.call \in Calls
  BY <1>1, <1>2, <1>3, CallIs
<1>5. /\ (Len(y) = 2 \/ Len(y) = 3) /\ y[1] = Produce(step.call) /\ y[2] = o
      /\ (Len(y) = 3 => y[3] = After("comm", last, Nothing))
      /\ o.op = "stage" /\ o.call = step.call
  BY <1>1, <1>3 DEF StagingOps
<1>6. After("comm", last, Nothing).op = "nothing"
  <2>1. last \in Nat
    BY <1>1, <1>2, LogIs DEF Streams
  <2>2. Nothing \in Ops
    BY <1>4, SomeOps
  <2>3. QED  BY <2>1, <2>2, WaitIs
<1>7. y[1].op = "produce" /\ y[1].call = step.call
  BY <1>5, ProduceIs
<1>8. \A j \in 1 .. Len(y) : j = 1 \/ j = 2 \/ (j = 3 /\ Len(y) = 3)
  <2>1. PICK d : d = Len(y)
    OBVIOUS
  <2>2. d = 2 \/ d = 3
    BY <1>5, <2>1
  <2>3. \A j \in 1 .. d : j = 1 \/ j = 2 \/ (j = 3 /\ d = 3)
    BY ONLY <2>2
  <2>4. QED  BY <2>1, <2>3
<1>9. \A j \in 1 .. Len(y) : y[j].op # "read" /\ (y[j].op = "stage" => j = 2)
  BY <1>5, <1>6, <1>7, <1>8
<1>10. QED
  BY <1>1, <1>3, <1>5, <1>7, <1>9 DEF CallerAdds

\* An asynchronous call is behind its staging copy, which is the last of the
\* caller's stream.
LEMMA AsyncBehind ==
    ASSUME NEW L, NEW r, NEW p, NEW k, NEW at, NEW q, NEW n, NEW add, NEW M, NEW z, NEW x, NEW l, NEW b, NEW m, NEW o,
           SubmitsAsync(L, r, p, k, at, q, n, add, M, z, x, l, b, m, o)
    PROVE  \A g \in 1 .. l : Before(M, "caller", g, "comm", b + 1)
<1>1. /\ Submits(L, r, p, k, at, q, n, add, M)
      /\ l = Len(L["caller"]) /\ b = Len(L["comm"])
      /\ IsBlock(z, r, p[k + 1], Filled(p, k + 1), m, x + Copied(r))
      /\ WaitsFirst(add["comm"], z, l + 2)
  BY DEF SubmitsAsync
<1>2. L \in Logs /\ add \in Logs /\ M \in Logs /\ Added(L, add, M)
  BY <1>1, SubmitsIs
<1>3. PICK v : v = add["comm"]
  OBVIOUS
<1>4. "caller" \in Streams /\ "comm" \in Streams
  BY DEF Streams
<1>5. l \in Nat /\ b \in Nat /\ Len(v) \in Nat
  BY <1>1, <1>2, <1>3, <1>4, LogIs
<1>6. v[1].on = "caller" /\ v[1].upto = l + 2 /\ Len(v) \in {5, 6}
  <2>1. PICK step, w, d, mark : step = p[k + 1] /\ w = Filled(p, k + 1) /\ d = x + Copied(r) /\ mark = l + 2
    OBVIOUS
  <2>2. WaitsFirst(v, z, mark) /\ IsBlock(z, r, step, w, m, d) /\ mark \in Nat
    BY <1>1, <1>3, <1>5, <2>1
  <2>3. QED  BY <2>1, <2>2, WaitsFirstIs
<1>7. Len(M["comm"]) = b + Len(v) /\ M["comm"][b + 1] = v[1]
  <2>1. 1 \in 1 .. Len(v)
    BY <1>6
  <2>2. QED  BY <1>1, <1>2, <1>3, <1>4, <2>1 DEF Added
<1>8. PICK h : h = b + 1
  OBVIOUS
<1>9. h \in 1 .. Len(M["comm"]) /\ h <= h
  <2>1. PICK i, j : i = Len(v) /\ j = Len(M["comm"])
    OBVIOUS
  <2>2. b \in Nat /\ i \in {5, 6} /\ j = b + i /\ h = b + 1
    BY <1>5, <1>6, <1>7, <1>8, <2>1
  <2>3. h \in 1 .. j /\ h <= h
    BY ONLY <2>2
  <2>4. QED  BY <2>1, <2>3
<1>10. \A g \in 1 .. l : M["comm"][h].upto >= g /\ M["comm"][h].on = "caller"
  BY <1>5, <1>6, <1>7, <1>8
<1>11. QED
  BY <1>8, <1>9, <1>10 DEF Before

------------------------------------------------------------------------------
(* One order for all that a rank submits, with which the waits agree. *)

\* Where operation t[k] of those a step gives to its streams stands in an order that
\* agrees with their waits: the opening barrier is 2 and 3, the copies 4, the closing
\* barrier 5 and 6.
Phase(step, t, k) ==
    CASE t = "xfer" -> 4
      [] t = "comm" -> k + 1
      [] OTHER -> IF step.do = "call" /\ step.async THEN (IF k <= 2 THEN k - 1 ELSE 8) ELSE k

\* What added operation t[k] waits for among the added ones is before it.
WaitsInTurn(L, add, step, t, k) ==
    LET o == add[t][k] IN
    \A j \in 1 .. Len(add[o.on]) : Len(L[o.on]) + j <= o.upto => Phase(step, o.on, j) < Phase(step, t, k)

\* That order has nine places, and on each stream it is that of the stream.
InTurns(L, add, step) ==
    \A t \in Streams : \A k \in 1 .. Len(add[t]) :
        /\ Phase(step, t, k) \in 0 .. 8
        /\ \A j \in 1 .. k : Phase(step, t, j) <= Phase(step, t, k)
        /\ WaitsInTurn(L, add, step, t, k)

\* What waits only for what was there before the step waits for nothing added.
LEMMA OldInTurn ==
    ASSUME NEW L \in Logs, NEW add \in Logs, NEW step, NEW t \in Streams, NEW k \in 1 .. Len(add[t]),
           NEW o, o = add[t][k], o.upto = 0 \/ o.upto <= Len(L[o.on])
    PROVE  WaitsInTurn(L, add, step, t, k)
<1>1. o \in Ops
  BY LogIs
<1>2. o.on \in Streams /\ o.upto \in Nat
  BY <1>1, OpIs
<1>3. PICK l, u, n : l = Len(L[o.on]) /\ u = o.upto /\ n = Len(add[o.on])
  OBVIOUS
<1>4. l \in Nat /\ u \in Nat /\ (u = 0 \/ u <= l) /\ n \in Nat
  BY <1>2, <1>3, LogIs
<1>5. \A j \in 1 .. n : ~ (l + j <= u)
  BY ONLY <1>4
<1>6. QED
  BY <1>3, <1>5 DEF WaitsInTurn

\* The order on one stream.
LEMMA PhasesRise ==
    ASSUME NEW step, NEW t \in Streams, NEW k \in Nat, k >= 1, k <= 8, t = "comm" => k <= 7
    PROVE  Phase(step, t, k) \in 0 .. 8 /\ \A j \in 1 .. k : Phase(step, t, j) <= Phase(step, t, k)
<1>1. CASE t = "xfer"
  BY <1>1 DEF Phase
<1>2. CASE t = "comm"
  BY <1>2 DEF Phase
<1>3. CASE t = "caller" /\ step.do = "call" /\ step.async
  BY <1>3 DEF Phase
<1>4. CASE t = "caller" /\ ~ (step.do = "call" /\ step.async)
  BY <1>4 DEF Phase
<1>5. QED
  BY <1>1, <1>2, <1>3, <1>4 DEF Streams

\* The transfer stream has one place for all a step gives to it.
LEMMA PhasesEqual ==
    ASSUME NEW step, NEW k, NEW j
    PROVE  Phase(step, "xfer", k) = 4 /\ Phase(step, "xfer", j) <= Phase(step, "xfer", k)
BY DEF Phase

\* A step that submits no call: all it gives to a stream waits for what was there.
LEMMA OldInTurns ==
    ASSUME NEW L \in Logs, NEW add \in Logs, NEW step,
           add["comm"] = <<>>, add["xfer"] = <<>>, Len(add["caller"]) <= 8,
           \A k \in 1 .. Len(add["caller"]) :
               add["caller"][k].upto = 0 \/ add["caller"][k].upto <= Len(L[add["caller"][k].on])
    PROVE  InTurns(L, add, step)
<1>1. ASSUME NEW t \in Streams, NEW k \in 1 .. Len(add[t])
      PROVE  /\ Phase(step, t, k) \in 0 .. 8
             /\ \A j \in 1 .. k : Phase(step, t, j) <= Phase(step, t, k)
             /\ WaitsInTurn(L, add, step, t, k)
  <2>1. t = "caller"
    <3>1. (\A j \in 1 .. Len(add["comm"]) : FALSE) /\ (\A j \in 1 .. Len(add["xfer"]) : FALSE)
      OBVIOUS
    <3>2. QED  BY <1>1, <3>1 DEF Streams
  <2>2. k \in Nat /\ k >= 1 /\ k <= 8
    <3>1. Len(add[t]) \in Nat
      BY LogIs
    <3>2. QED  BY <2>1, <3>1
  <2>3. WaitsInTurn(L, add, step, t, k)
    BY <2>1, OldInTurn
  <2>4. QED  BY <2>1, <2>2, <2>3, PhasesRise
<1>2. QED
  BY <1>1 DEF InTurns

\* The remote copies of a call wait for its opening barrier at most.
LEMMA CopiesInTurn ==
    ASSUME NEW L \in Logs, NEW add \in Logs, NEW step, NEW r, NEW s \in Streams, NEW ready, NEW w, NEW m,
           IsCopies(add["xfer"], r, s, ready, step, w, m),
           \A j \in 1 .. Len(add[s]) : Len(L[s]) + j <= ready => Phase(step, s, j) < 4,
           NEW k \in 1 .. Len(add["xfer"])
    PROVE  /\ Phase(step, "xfer", k) \in 0 .. 8
           /\ \A j \in 1 .. k : Phase(step, "xfer", j) <= Phase(step, "xfer", k)
           /\ WaitsInTurn(L, add, step, "xfer", k)
<1>1. add["xfer"][1].on = s /\ add["xfer"][1].upto = ready
      /\ \A j \in 1 .. Len(add["xfer"]) : j # 1 => add["xfer"][j].upto = 0
  BY DEF IsCopies
<1>2. WaitsInTurn(L, add, step, "xfer", k)
  <2>1. CASE k = 1
    BY <1>1, <2>1, PhasesEqual DEF WaitsInTurn
  <2>2. CASE k # 1
    BY <1>1, <2>2, OldInTurn DEF Streams
  <2>3. QED  BY <2>1, <2>2
<1>3. QED
  BY <1>2, PhasesEqual

\* The join.
LEMMA BehindTheCopies ==
    ASSUME NEW L, NEW add, NEW step, NEW t, NEW k, add[t][k].on = "xfer", Phase(step, t, k) > 4
    PROVE  WaitsInTurn(L, add, step, t, k)
<1>1. \A j : Phase(step, "xfer", j) = 4
  BY DEF Phase
<1>2. QED
  BY <1>1 DEF WaitsInTurn

\* A synchronous call.
LEMMA SyncInTurns ==
    ASSUME NEW L \in Logs, NEW add \in Logs, NEW r, NEW step, step.do = "call", ~ step.async, step.call \in Calls,
           NEW z, NEW x, NEW w, NEW d, IsBlock(z, r, step, w, 0, d),
           NEW l, l = Len(L["caller"]),
           add["caller"] = <<Produce(step.call)>> \o z, add["comm"] = <<>>,
           IsCopies(add["xfer"], r, "caller", l + 3, step, w, 0)
    PROVE  InTurns(L, add, step)
<1>1. /\ z \in Seq(Ops) /\ Len(z) \in {5, 6} /\ z[4].on = "xfer"
      /\ \A k \in 1 .. Len(z) : k = 4 \/ z[k].upto = 0
  BY BlockOps
<1>2. PICK y, n : y = add["caller"] /\ n = Len(y)
  OBVIOUS
<1>3. /\ n = 1 + Len(z) /\ y[1] = Produce(step.call)
      /\ \A k \in 1 .. n : k = 1 \/ (k - 1 \in 1 .. Len(z) /\ y[k] = z[k - 1])
  <2>1. PICK o : o = Produce(step.call)
    OBVIOUS
  <2>2. Prepends(y, o, z)
    BY <1>1, <1>2, <2>1, SomeOps DEF Prepends
  <2>3. QED  BY <1>2, <2>1, <2>2, Prepended
<1>4. n \in {6, 7} /\ l \in Nat
  <2>1. PICK b : b = Len(z)
    OBVIOUS
  <2>2. (b = 5 \/ b = 6) /\ n = 1 + b
    BY <1>1, <1>3, <2>1
  <2>3. n \in {6, 7}
    BY ONLY <2>2
  <2>4. QED  BY <2>3, LogIs DEF Streams
<1>5. \A k \in Nat : Phase(step, "caller", k) = k
  BY DEF Phase
<1>6. ASSUME NEW k \in 1 .. n
      PROVE  /\ Phase(step, "caller", k) \in 0 .. 8
             /\ \A j \in 1 .. k : Phase(step, "caller", j) <= Phase(step, "caller", k)
             /\ WaitsInTurn(L, add, step, "caller", k)
  <2>1. k \in Nat /\ k >= 1 /\ k <= 8
    BY <1>4
  <2>2. WaitsInTurn(L, add, step, "caller", k)
    <3>1. CASE y[k].upto = 0
      BY <1>2, <3>1, OldInTurn DEF Streams
    <3>2. CASE k = 5 /\ y[k] = z[4]
      <4>1. add["caller"][k].on = "xfer" /\ Phase(step, "caller", k) > 4
        BY <1>1, <1>2, <1>5, <2>1, <3>2
      <4>2. QED  BY <4>1, BehindTheCopies
    <3>3. k = 1 \/ (k - 1 \in 1 .. Len(z) /\ y[k] = z[k - 1] /\ (k - 1 = 4 \/ z[k - 1].upto = 0))
      BY <1>1, <1>3
    <3>4. k - 1 = 4 => k = 5
      BY <2>1
    <3>5. QED  BY <1>3, <3>1, <3>2, <3>3, <3>4, ProduceIs
  <2>3. QED  BY <2>1, <2>2, PhasesRise DEF Streams
<1>7. \A j \in 1 .. Len(add["caller"]) : Len(L["caller"]) + j <= l + 3 => Phase(step, "caller", j) < 4
  BY <1>4, <1>5
<1>8. "caller" \in Streams
  BY DEF Streams
<1>9. \A k \in 1 .. Len(add["comm"]) : FALSE
  OBVIOUS
<1>10. ASSUME NEW t \in Streams, NEW k \in 1 .. Len(add[t])
       PROVE  /\ Phase(step, t, k) \in 0 .. 8
              /\ \A j \in 1 .. k : Phase(step, t, j) <= Phase(step, t, k)
              /\ WaitsInTurn(L, add, step, t, k)
  <2>1. CASE t = "caller"
    BY <1>2, <1>6, <2>1
  <2>2. CASE t = "xfer"
    BY <1>7, <1>8, <2>2, CopiesInTurn
  <2>3. t # "comm"
    BY <1>9, <1>10
  <2>4. QED  BY <2>1, <2>2, <2>3 DEF Streams
<1>11. QED
  BY <1>10 DEF InTurns
\* An asynchronous call.
LEMMA AsyncInTurns ==
    ASSUME NEW L \in Logs, NEW add \in Logs, NEW r, NEW step, step.do = "call", step.async, step.call \in Calls,
           NEW z, NEW w, NEW d, NEW m, IsBlock(z, r, step, w, m, d),
           NEW l, l = Len(L["caller"]), NEW b, b = Len(L["comm"]), NEW o, NEW last \in Nat,
           StagingOps(add["caller"], L, step, o, m, last), WaitsFirst(add["comm"], z, l + 2),
           IsCopies(add["xfer"], r, "comm", b + 2, step, w, m)
    PROVE  InTurns(L, add, step)
<1>1. PICK y, v, n, c : y = add["caller"] /\ v = add["comm"] /\ n = Len(y) /\ c = Len(v)
  OBVIOUS
<1>2. l \in Nat /\ b \in Nat /\ l + 2 \in Nat
  BY LogIs DEF Streams
<1>3. /\ v[4].on = "xfer" /\ c \in {5, 6} /\ v[1].on = "caller" /\ v[1].upto = l + 2
      /\ \A j \in 1 .. c : j = 1 \/ j = 4 \/ v[j].upto = 0
  <2>1. PICK mark : mark = l + 2
    OBVIOUS
  <2>2. mark \in Nat /\ WaitsFirst(v, z, mark)
    BY <1>1, <1>2, <2>1
  <2>3. QED  BY <1>1, <2>1, <2>2, WaitsFirstIs, SMTT(60)
<1>4. /\ n = 2 \/ n = 3
      /\ y[1] = Produce(step.call) /\ y[2] = o
      /\ n = 3 => y[3] = After("comm", last, Nothing)
      /\ o.upto = 0 \/ (o.on = "comm" /\ o.upto <= Len(L["comm"]))
  BY <1>1 DEF StagingOps
<1>5. \A k : /\ Phase(step, "comm", k) = k + 1
             /\ Phase(step, "caller", k) = IF k <= 2 THEN k - 1 ELSE 8
  BY DEF Phase
<1>6. "caller" \in Streams /\ "comm" \in Streams /\ "xfer" \in Streams
  BY DEF Streams
<1>7. ASSUME NEW k \in 1 .. n  PROVE WaitsInTurn(L, add, step, "caller", k)
  <2>1. CASE k = 1
    <3>1. add["caller"][k].upto = 0
      BY <1>1, <1>4, <2>1, ProduceIs
    <3>2. QED  BY <1>1, <1>6, <3>1, OldInTurn
  <2>2. CASE k = 2
    <3>1. PICK e : e = add["caller"][k]
      OBVIOUS
    <3>2. e.upto = 0 \/ e.upto <= Len(L[e.on])
      BY <1>1, <1>4, <2>2, <3>1
    <3>3. QED  BY <1>1, <1>6, <3>1, <3>2, OldInTurn
  <2>3. CASE k = 3 /\ n = 3
    <3>1. add["caller"][k].on = "comm"
      <4>1. Nothing \in Ops
        BY SomeOps
      <4>2. QED  BY <1>1, <1>4, <2>3, <4>1, WaitIs
    <3>2. \A j \in 1 .. c : Phase(step, "comm", j) < Phase(step, "caller", k)
      BY <1>3, <1>5, <2>3
    <3>3. QED  BY <1>1, <3>1, <3>2 DEF WaitsInTurn
  <2>4. k = 1 \/ k = 2 \/ (k = 3 /\ n = 3)
    BY <1>4
  <2>5. QED  BY <2>1, <2>2, <2>3, <2>4
<1>8. ASSUME NEW k \in 1 .. c  PROVE WaitsInTurn(L, add, step, "comm", k)
  <2>1. CASE k = 1
    <3>1. Phase(step, "comm", k) = 2
      BY <1>5, <2>1
    <3>2. \A j \in 1 .. n : l + j <= l + 2 => Phase(step, "caller", j) < 2
      BY <1>2, <1>4, <1>5
    <3>3. QED  BY <1>1, <1>3, <2>1, <3>1, <3>2 DEF WaitsInTurn
  <2>2. CASE k = 4
    <3>1. Phase(step, "comm", k) > 4
      BY <1>5, <2>2
    <3>2. QED  BY <1>1, <1>3, <2>2, <3>1, BehindTheCopies
  <2>3. CASE v[k].upto = 0
    BY <1>1, <1>6, <2>3, OldInTurn
  <2>4. QED  BY <1>3, <2>1, <2>2, <2>3
<1>9. \A j \in 1 .. Len(add["comm"]) : Len(L["comm"]) + j <= b + 2 => Phase(step, "comm", j) < 4
  BY <1>1, <1>2, <1>3, <1>5
<1>10. ASSUME NEW t \in Streams, NEW k \in 1 .. Len(add[t])
       PROVE  /\ Phase(step, t, k) \in 0 .. 8
              /\ \A j \in 1 .. k : Phase(step, t, j) <= Phase(step, t, k)
              /\ WaitsInTurn(L, add, step, t, k)
  <2>1. CASE t = "caller"
    <3>1. k \in 1 .. n
      BY <1>1, <1>10, <2>1
    <3>2. k \in Nat /\ k >= 1 /\ k <= 8
      BY ONLY <1>4, <3>1
    <3>3. QED  BY <1>1, <1>7, <2>1, <3>1, <3>2, PhasesRise
  <2>2. CASE t = "xfer"
    BY <1>6, <1>9, <2>2, CopiesInTurn
  <2>3. CASE t = "comm"
    <3>1. k \in 1 .. c
      BY <1>1, <1>10, <2>3
    <3>2. k \in Nat /\ k >= 1 /\ k <= 8 /\ k <= 7
      BY ONLY <1>3, <3>1
    <3>3. QED  BY <1>1, <1>8, <2>3, <3>1, <3>2, PhasesRise
  <2>4. QED  BY <2>1, <2>2, <2>3 DEF Streams
<1>11. QED
  BY <1>10 DEF InTurns

\* A call that is refused: its wait on comm is behind its copy to staging.
LEMMA RefusedInTurns ==
    ASSUME NEW L \in Logs, NEW add \in Logs, NEW step, step.do = "call", step.async,
           NEW o, NEW m, NEW last, StagingOps(add["caller"], L, step, o, m, last),
           Len(add["caller"]) = 2, add["xfer"] = <<>>,
           Len(add["comm"]) = 1, add["comm"][1].on = "caller", add["comm"][1].upto = Len(L["caller"]) + 2
    PROVE  InTurns(L, add, step)
<1>1. PICK y, l : y = add["caller"] /\ l = Len(L["caller"])
  OBVIOUS
<1>2. l \in Nat
  BY <1>1, LogIs DEF Streams
<1>3. /\ y[1] = Produce(step.call) /\ y[2] = o
      /\ o.upto = 0 \/ (o.on = "comm" /\ o.upto <= Len(L["comm"]))
  BY <1>1 DEF StagingOps
<1>4. \A k : /\ Phase(step, "comm", k) = k + 1
             /\ Phase(step, "caller", k) = IF k <= 2 THEN k - 1 ELSE 8
  BY DEF Phase
<1>5. "caller" \in Streams /\ "comm" \in Streams
  BY DEF Streams
<1>6. ASSUME NEW k \in 1 .. 2  PROVE WaitsInTurn(L, add, step, "caller", k)
  <2>1. PICK e : e = add["caller"][k]
    OBVIOUS
  <2>2. CASE k = 1
    <3>1. e.upto = 0
      BY <1>1, <1>3, <2>1, <2>2, ProduceIs
    <3>2. QED  BY <1>5, <2>1, <3>1, OldInTurn
  <2>3. CASE k = 2
    <3>1. e.upto = 0 \/ e.upto <= Len(L[e.on])
      BY <1>1, <1>3, <2>1, <2>3
    <3>2. QED  BY <1>5, <2>1, <3>1, OldInTurn
  <2>4. QED  BY <2>2, <2>3
<1>7. WaitsInTurn(L, add, step, "comm", 1)
  <2>1. Phase(step, "comm", 1) = 2
    BY <1>4
  <2>2. \A j \in 1 .. 2 : Phase(step, "caller", j) < 2
    BY <1>4
  <2>3. QED  BY <2>1, <2>2 DEF WaitsInTurn
<1>8. /\ \A j \in 1 .. Len(add["xfer"]) : FALSE
      /\ \A j \in 1 .. Len(add["comm"]) : j = 1
      /\ \A j \in 1 .. Len(add["caller"]) : j \in Nat /\ j >= 1 /\ j <= 8 /\ j \in 1 .. 2
  OBVIOUS
<1>9. ASSUME NEW t \in Streams, NEW k \in 1 .. Len(add[t])
      PROVE  /\ Phase(step, t, k) \in 0 .. 8
             /\ \A j \in 1 .. k : Phase(step, t, j) <= Phase(step, t, k)
             /\ WaitsInTurn(L, add, step, t, k)
  <2>1. CASE t = "caller"
    <3>1. k \in Nat /\ k >= 1 /\ k <= 8 /\ k \in 1 .. 2
      BY <1>8, <1>9, <2>1
    <3>2. QED  BY <1>6, <2>1, <3>1, PhasesRise
  <2>2. CASE t = "comm"
    <3>1. k = 1
      BY <1>8, <1>9, <2>2
    <3>2. QED  BY <1>7, <2>2, <3>1, PhasesRise
  <2>3. t # "xfer"
    BY <1>8, <1>9
  <2>4. QED  BY <2>1, <2>2, <2>3 DEF Streams
<1>10. QED
  BY <1>9 DEF InTurns
\* The use of a result waits for what it was told when that was submitted.
LEMMA UseInTurns ==
    ASSUME NEW L, NEW r, NEW p, NEW k, NEW at, NEW q, NEW n, NEW add, NEW M, Submits(L, r, p, k, at, q, n, add, M),
           p[k + 1].do = "use", NEW res, Noted(p, k, at, res), NEW e, e = res[p[k + 1].call],
           Len(add["caller"]) = 1, add["comm"] = <<>>, add["xfer"] = <<>>,
           NEW o, o = add["caller"][1],
           IF e.async THEN o.on = "comm" /\ o.upto = e.at ELSE o.upto = 0
    PROVE  InTurns(L, add, p[k + 1])
<1>1. /\ Contract(p) /\ r \in Ranks /\ k \in Nat /\ k <= Len(p) /\ Told(L, r, p, k, at) /\ k + 1 \in DOMAIN p
      /\ L \in Logs /\ add \in Logs
  BY SubmitsIs
<1>2. PICK i \in 1 .. k : Transfers(p, i) /\ UsedAt(p, k + 1, i)
  <2>1. (k + 1) - 1 = k
    BY <1>1
  <2>2. \E i \in 1 .. (k + 1) - 1 : Transfers(p, i) /\ UsedAt(p, k + 1, i)
    BY <1>1 DEF Contract
  <2>3. QED  BY <2>1, <2>2
<1>3. o.upto = 0 \/ o.upto <= Len(L[o.on])
  <2>1. e = res[p[i].call]
    BY <1>2 DEF UsedAt
  <2>2. e.async = (p[i].async /\ HasRegistry) /\ (p[i].async => e.at = End(p[i], at[i].near))
    BY <1>2, <2>1 DEF Noted
  <2>3. End(p[i], at[i].near) <= Len(L[Lane(p[i])]) /\ p[i].async \in BOOLEAN
    BY <1>1, <1>2, TransferIs
  <2>4. QED  BY <2>2, <2>3 DEF Lane
<1>4. \A j \in 1 .. Len(add["caller"]) : j = 1
  OBVIOUS
<1>5. PICK step : step = p[k + 1]
  OBVIOUS
<1>6. \A j \in 1 .. Len(add["caller"]) :
         add["caller"][j].upto = 0 \/ add["caller"][j].upto <= Len(L[add["caller"][j].on])
  BY <1>3, <1>4
<1>7. InTurns(L, add, step)
  <2>1. Len(add["caller"]) <= 8
    OBVIOUS
  <2>2. QED  BY <1>1, <1>6, <2>1, OldInTurns
<1>8. QED
  BY <1>5, <1>7

\* How many operations come before a transfer's on the stream of its call: the
\* input is computed there, or nothing is.
Ahead(step) == IF step.async THEN 1 ELSE 2

\* Every operation of the log has a number: later on its stream it is no smaller,
\* what an operation waits for has a smaller one, and what step i gives to the
\* streams is numbered between 9 * i and 9 * i + 8, its transfer as Phase says.
TakesTurns(L, p, k, at, num) ==
    /\ \A s \in Streams : \A g \in 1 .. Len(L[s]) :
          /\ num[s][g] \in Nat /\ num[s][g] < 9 * (k + 1)
          /\ \A h \in 1 .. g : num[s][h] <= num[s][g]
          /\ \A j \in 1 .. Len(L[L[s][g].on]) : j <= L[s][g].upto => num[L[s][g].on][j] < num[s][g]
    /\ \A i \in 1 .. k : Transfers(p, i) =>
          \A d \in 0 .. 4 : num[Lane(p[i])][at[i].near + d] = 9 * i + 2 + d

\* One rank's step adds its operations behind all numbers there were.
TurnsOn(L, add, M, r, p, k, at, at2, num) ==
    /\ Told(L, r, p, k, at) /\ Contract(p) /\ r \in Ranks /\ k \in Nat /\ k + 1 \in DOMAIN p
    /\ TakesTurns(L, p, k, at, num) /\ Added(L, add, M) /\ InTurns(L, add, p[k + 1])
    /\ Told(M, r, p, k + 1, at2) /\ Places1(p, k, at, at2)
    /\ Transfers(p, k + 1) => at2[k + 1].near = Len(L[Lane(p[k + 1])]) + Ahead(p[k + 1])

\* What numbers the longer log.
Numbers(L, add, M, p, k, num, num2) ==
    /\ \A s \in Streams : \A g \in 1 .. Len(L[s]) : num2[s][g] = num[s][g]
    /\ \A s \in Streams : \A j \in 1 .. Len(add[s]) : num2[s][Len(L[s]) + j] = 9 * (k + 1) + Phase(p[k + 1], s, j)

\* There are such numbers.
LEMMA NumbersExist ==
    ASSUME NEW L, NEW add, NEW M, Added(L, add, M), NEW p, NEW k, NEW num
    PROVE  \E num2 : Numbers(L, add, M, p, k, num, num2)
<1>1. PICK num2 : num2 = [s \in Streams |-> [g \in 1 .. Len(M[s]) |->
                            IF g <= Len(L[s]) THEN num[s][g] ELSE 9 * (k + 1) + Phase(p[k + 1], s, g - Len(L[s]))]]
  OBVIOUS
<1>2. ASSUME NEW s \in Streams
      PROVE  /\ \A g \in 1 .. Len(L[s]) : num2[s][g] = num[s][g]
             /\ \A j \in 1 .. Len(add[s]) : num2[s][Len(L[s]) + j] = 9 * (k + 1) + Phase(p[k + 1], s, j)
  <2>1. PICK l, a, m, f : /\ l = Len(L[s]) /\ a = Len(add[s]) /\ m = Len(M[s]) /\ f = num2[s]
    OBVIOUS
  <2>2. l \in Nat /\ a \in Nat /\ m = l + a
    BY <2>1, LogIs DEF Added, Grown
  <2>3. f = [g \in 1 .. m |-> IF g <= l THEN num[s][g] ELSE 9 * (k + 1) + Phase(p[k + 1], s, g - l)]
    BY <1>1, <2>1
  <2>4. \A g \in 1 .. l : g \in 1 .. m /\ g <= l
    BY ONLY <2>2
  <2>5. \A j \in 1 .. a : l + j \in 1 .. m /\ ~ (l + j <= l) /\ (l + j) - l = j
    BY ONLY <2>2
  <2>6. \A g \in 1 .. l : f[g] = num[s][g]
    BY <2>3, <2>4
  <2>7. ASSUME NEW j \in 1 .. a  PROVE f[l + j] = 9 * (k + 1) + Phase(p[k + 1], s, j)
    <3>1. PICK g : g = l + j
      OBVIOUS
    <3>2. g \in 1 .. m /\ ~ (g <= l) /\ g - l = j
      BY <2>5, <2>7, <3>1
    <3>3. f[g] = 9 * (k + 1) + Phase(p[k + 1], s, g - l)
      BY <2>3, <3>2
    <3>4. QED  BY <3>1, <3>2, <3>3
  <2>8. QED  BY <2>1, <2>6, <2>7
<1>3. QED
  BY <1>2 DEF Numbers
\* What TakesTurns says of one operation.
InTurn(L, k, num, s, g) ==
    /\ num[s][g] \in Nat /\ num[s][g] < 9 * (k + 1)
    /\ \A h \in 1 .. g : num[s][h] <= num[s][g]
    /\ \A j \in 1 .. Len(L[L[s][g].on]) : j <= L[s][g].upto => num[L[s][g].on][j] < num[s][g]

\* The operations there were stay in turn, ...
LEMMA OldStaysInTurn ==
    ASSUME NEW L, NEW add, NEW M, NEW r, NEW p, NEW k, NEW at, NEW at2, NEW num, NEW num2,
           TurnsOn(L, add, M, r, p, k, at, at2, num), Numbers(L, add, M, p, k, num, num2),
           NEW s \in Streams, NEW g \in 1 .. Len(L[s])
    PROVE  InTurn(M, k + 1, num2, s, g)
<1>1. L \in Logs /\ M \in Logs /\ k \in Nat /\ Told(L, r, p, k, at)
  BY DEF TurnsOn, Added, Grown
<1>2. PICK o, l, n : o = L[s][g] /\ l = Len(L[s]) /\ n = Len(L[o.on])
  OBVIOUS
<1>3. o \in Ops /\ l \in Nat
  BY <1>1, <1>2, LogIs
<1>4. o.on \in Streams /\ o.upto \in Nat
  BY <1>3, OpIs
<1>5. M[s][g] = o /\ o.upto <= n
  BY <1>1, <1>2 DEF TurnsOn, Added, Grown, Told
<1>6. n \in Nat /\ Len(M[o.on]) \in Nat
  BY <1>1, <1>2, <1>4, LogIs
<1>7. InTurn(L, k, num, s, g)
  BY DEF TurnsOn, TakesTurns, InTurn
<1>8. (\A h \in 1 .. l : num2[s][h] = num[s][h]) /\ \A j \in 1 .. n : num2[o.on][j] = num[o.on][j]
  BY <1>2, <1>4 DEF Numbers
<1>9. num2[s][g] = num[s][g] /\ num[s][g] \in Nat /\ num[s][g] < 9 * (k + 1)
  BY <1>2, <1>7, <1>8 DEF InTurn
<1>10. \A h \in 1 .. g : num2[s][h] <= num2[s][g]
  <2>1. \A h \in 1 .. g : h \in 1 .. l
    BY <1>2, <1>3
  <2>2. \A h \in 1 .. g : num[s][h] <= num[s][g]
    BY <1>7 DEF InTurn
  <2>3. QED  BY <1>8, <1>9, <2>1, <2>2
<1>11. \A j \in 1 .. Len(M[o.on]) : j <= o.upto => num2[o.on][j] < num2[s][g]
  <2>1. \A j \in 1 .. Len(M[o.on]) : j <= o.upto => j \in 1 .. n
    <3>1. PICK m, u : m = Len(M[o.on]) /\ u = o.upto
      OBVIOUS
    <3>2. m \in Nat /\ u \in Nat /\ u <= n /\ n \in Nat
      BY <1>4, <1>5, <1>6, <3>1
    <3>3. \A j \in 1 .. m : j <= u => j \in 1 .. n
      BY ONLY <3>2
    <3>4. QED  BY <3>1, <3>3
  <2>2. \A j \in 1 .. n : j <= o.upto => num[o.on][j] < num[s][g]
    BY <1>2, <1>7 DEF InTurn
  <2>3. QED  BY <1>8, <1>9, <2>1, <2>2
<1>12. num2[s][g] < 9 * ((k + 1) + 1)
  <2>1. PICK x : x = num[s][g]
    OBVIOUS
  <2>2. x < 9 * ((k + 1) + 1)
    BY <1>1, <1>9, <2>1
  <2>3. QED  BY <1>9, <2>1, <2>2
<1>13. QED
  BY <1>5, <1>9, <1>10, <1>11, <1>12 DEF InTurn

\* ... and those that are added come after them.
LEMMA NewGetsInTurn ==
    ASSUME NEW L, NEW add, NEW M, NEW r, NEW p, NEW k, NEW at, NEW at2, NEW num, NEW num2,
           TurnsOn(L, add, M, r, p, k, at, at2, num), Numbers(L, add, M, p, k, num, num2),
           NEW s \in Streams, NEW g \in Nat, NEW j \in 1 .. Len(add[s]), g = Len(L[s]) + j
    PROVE  InTurn(M, k + 1, num2, s, g)
<1>1. L \in Logs /\ M \in Logs /\ add \in Logs /\ k \in Nat /\ Added(L, add, M)
  BY DEF TurnsOn, Added, Grown
<1>2. ASSUME NEW t \in Streams, NEW h \in 1 .. Len(M[t])
       PROVE  h \in 1 .. Len(L[t]) \/ \E i \in 1 .. Len(add[t]) : h = Len(L[t]) + i
  BY <1>1, <1>2, OldOrAdded
<1>3. PICK step, o, l, a, base : step = p[k + 1] /\ o = add[s][j] /\ l = Len(L[s]) /\ a = Len(add[s]) /\ base = 9 * (k + 1)
  OBVIOUS
<1>4. o \in Ops /\ l \in Nat /\ a \in Nat /\ base \in Nat
  BY <1>1, <1>3, LogIs, SMTT(60)
<1>5. o.on \in Streams /\ o.upto \in Nat
  BY <1>4, OpIs
<1>6. M[s][g] = o
  BY <1>1, <1>3 DEF Added
<1>7. /\ Phase(step, s, j) \in 0 .. 8
      /\ \A i \in 1 .. j : Phase(step, s, i) <= Phase(step, s, j)
      /\ WaitsInTurn(L, add, step, s, j)
  BY <1>3 DEF TurnsOn, InTurns
<1>8. num2[s][g] = base + Phase(step, s, j)
  BY <1>3 DEF Numbers
<1>9. \A t \in Streams : \A h \in 1 .. Len(L[t]) : num2[t][h] \in Nat /\ num2[t][h] < base
  <2>1. \A t \in Streams : \A h \in 1 .. Len(L[t]) : num[t][h] \in Nat /\ num[t][h] < base
    BY <1>3 DEF TurnsOn, TakesTurns
  <2>2. QED  BY <2>1 DEF Numbers
<1>10. num2[s][g] \in Nat /\ num2[s][g] >= base /\ num2[s][g] < 9 * ((k + 1) + 1)
  <2>1. PICK x, f : x = num2[s][g] /\ f = Phase(step, s, j)
    OBVIOUS
  <2>2. x = base + f /\ f \in 0 .. 8 /\ base = 9 * (k + 1) /\ k \in Nat
    BY <1>1, <1>3, <1>7, <1>8, <2>1
  <2>3. x \in Nat /\ x >= base /\ x < 9 * ((k + 1) + 1)
    BY ONLY <2>2
  <2>4. QED  BY <2>1, <2>3
<1>11. ASSUME NEW h \in 1 .. g  PROVE num2[s][h] <= num2[s][g]
  <2>1. CASE h <= l
    <3>1. h \in 1 .. l
      BY <2>1, <1>11, <1>4
    <3>2. num2[s][h] \in Nat /\ num2[s][h] < base
      BY <1>3, <1>9, <3>1
    <3>3. QED  BY <1>4, <1>10, <3>2
  <2>2. CASE h > l
    <3>1. PICK i : i = h - l
      OBVIOUS
    <3>2. g = l + j /\ j \in 1 .. a /\ h \in 1 .. g /\ h > l /\ i = h - l /\ l \in Nat /\ a \in Nat
      BY <1>3, <1>4, <1>11, <2>2, <3>1
    <3>7. i \in 1 .. j /\ h = l + i /\ i \in 1 .. a
      BY ONLY <3>2
    <3>3. num2[s][h] = base + Phase(step, s, i)
      BY <1>3, <3>7 DEF Numbers
    <3>4. Phase(step, s, i) <= Phase(step, s, j)
      BY <1>7, <3>7
    <3>5. Phase(step, s, i) \in 0 .. 8
      BY <1>3, <3>7 DEF TurnsOn, InTurns
    <3>6. QED  BY <1>4, <1>7, <1>8, <3>3, <3>4, <3>5, SMTT(60)
  <2>3. QED  BY <1>4, <1>11, <2>1, <2>2
<1>12. ASSUME NEW h \in 1 .. Len(M[o.on]), h <= o.upto  PROVE num2[o.on][h] < num2[s][g]
  <2>1. CASE h \in 1 .. Len(L[o.on])
    <3>1. num2[o.on][h] \in Nat /\ num2[o.on][h] < base
      BY <1>5, <1>9, <2>1
    <3>2. QED  BY <1>4, <1>10, <3>1
  <2>2. ASSUME NEW i \in 1 .. Len(add[o.on]), h = Len(L[o.on]) + i  PROVE num2[o.on][h] < num2[s][g]
    <3>1. Phase(step, o.on, i) < Phase(step, s, j)
      BY <1>3, <1>7, <1>12, <2>2 DEF WaitsInTurn
    <3>2. Phase(step, o.on, i) \in 0 .. 8
      BY <1>3, <1>5, <2>2 DEF TurnsOn, InTurns
    <3>3. num2[o.on][h] = base + Phase(step, o.on, i)
      BY <1>3, <1>5, <2>2 DEF Numbers
    <3>4. PICK x, y, u, v : /\ x = Phase(step, o.on, i) /\ y = Phase(step, s, j)
                            /\ u = num2[o.on][h] /\ v = num2[s][g]
      OBVIOUS
    <3>5. x < y /\ x \in 0 .. 8 /\ y \in 0 .. 8 /\ u = base + x /\ v = base + y
      BY <1>7, <1>8, <3>1, <3>2, <3>3, <3>4
    <3>6. u < v
      BY ONLY <1>4, <3>5
    <3>7. QED  BY <3>4, <3>6
  <2>3. h \in 1 .. Len(L[o.on]) \/ \E i \in 1 .. Len(add[o.on]) : h = Len(L[o.on]) + i
    BY <1>5, <1>12, <1>2
  <2>4. QED  BY <2>1, <2>2, <2>3
<1>13. QED
  BY <1>6, <1>10, <1>11, <1>12 DEF InTurn

\* A rank's turns go on with what its host submits.
LEMMA TurnsGrow ==
    ASSUME NEW L, NEW add, NEW M, NEW r, NEW p, NEW k, NEW at, NEW at2, NEW num,
           TurnsOn(L, add, M, r, p, k, at, at2, num)
    PROVE  \E num2 : TakesTurns(M, p, k + 1, at2, num2)
<1>1. /\ L \in Logs /\ M \in Logs /\ add \in Logs /\ k \in Nat /\ Added(L, add, M) /\ Told(L, r, p, k, at)
      /\ Told(M, r, p, k + 1, at2) /\ Contract(p) /\ r \in Ranks /\ k + 1 \in DOMAIN p /\ Places1(p, k, at, at2)
      /\ TakesTurns(L, p, k, at, num)
  BY DEF TurnsOn, Added, Grown
<1>2. PICK num2 : Numbers(L, add, M, p, k, num, num2)
  BY <1>1, NumbersExist
<1>3. ASSUME NEW s \in Streams, NEW g \in 1 .. Len(M[s])  PROVE InTurn(M, k + 1, num2, s, g)
  <2>1. CASE g \in 1 .. Len(L[s])
    BY <1>2, <2>1, OldStaysInTurn
  <2>2. CASE \E j \in 1 .. Len(add[s]) : g = Len(L[s]) + j
    BY <1>2, <2>2, NewGetsInTurn
  <2>3. g \in 1 .. Len(L[s]) \/ \E j \in 1 .. Len(add[s]) : g = Len(L[s]) + j
    <3>1. Added(L, add, M)
      BY <1>1
    <3>2. \/ g \in 1 .. Len(L[s]) /\ M[s][g] = L[s][g]
          \/ \E j \in 1 .. Len(add[s]) : g = Len(L[s]) + j /\ M[s][g] = add[s][j]
      BY <1>3, <3>1, OldOrAdded, SMTT(60)
    <3>3. QED  BY <3>2
  <2>4. QED  BY <2>1, <2>2, <2>3
<1>4. k <= Len(p) /\ k + 1 <= Len(p) /\ k + 1 \in Nat
  BY <1>1, ProgramIs
<1>5. ASSUME NEW i \in 1 .. k + 1, Transfers(p, i), NEW d \in 0 .. 4
      PROVE  num2[Lane(p[i])][at2[i].near + d] = 9 * i + 2 + d
  <2>1. CASE i \in 1 .. k
    <3>1. PICK s, a, e, l : s = Lane(p[i]) /\ a = at[i].near /\ e = End(p[i], a) /\ l = Len(L[s])
      OBVIOUS
    <3>2. s \in Streams /\ a \in Nat /\ a >= 1 /\ e \in Nat /\ e >= a + 4 /\ e <= l
      BY <1>1, <1>4, <1>5, <2>1, <3>1, TransferIs
    <3>3. l \in Nat
      BY <1>1, <3>1, <3>2, LogIs
    <3>4. a + d \in 1 .. l
      BY ONLY <3>2, <3>3, d \in 0 .. 4
    <3>5. num2[s][a + d] = num[s][a + d]
      BY <1>2, <3>1, <3>2, <3>4 DEF Numbers
    <3>6. num[s][a + d] = 9 * i + 2 + d
      BY <1>1, <1>5, <2>1, <3>1 DEF TakesTurns
    <3>7. at2[i].near = a
      BY <1>1, <2>1, <3>1 DEF Places1
    <3>8. QED  BY <3>1, <3>5, <3>6, <3>7
  <2>2. CASE i = k + 1
    <3>1. PICK s, step, a, e, l, b, m, h : /\ s = Lane(p[i]) /\ step = p[i] /\ a = at2[i].near /\ e = End(p[i], a) /\ l = Len(L[s])
                                     /\ b = Ahead(p[i]) /\ m = Len(M[s]) /\ h = Len(add[s])
      OBVIOUS
    <3>2. s \in Streams /\ e \in Nat /\ e >= a + 4 /\ e <= m /\ step.async \in BOOLEAN /\ step.do = "call"
      BY <1>1, <1>4, <1>5, <2>2, <3>1, TransferIs, SMTT(60)
    <3>3. l \in Nat /\ m \in Nat /\ h \in Nat
      BY <1>1, <3>1, <3>2, LogIs
    <3>4. a = l + b /\ m = l + h
      BY <1>1, <1>5, <2>2, <3>1, <3>2 DEF TurnsOn, Added
    <3>5. b \in {1, 2}
      BY <3>1 DEF Ahead
    <3>6. b + d \in 1 .. h /\ a + d = l + (b + d)
      BY ONLY <3>2, <3>3, <3>4, <3>5, d \in 0 .. 4
    <3>7. num2[s][l + (b + d)] = 9 * (k + 1) + Phase(p[k + 1], s, b + d)
      BY <1>2, <3>1, <3>2, <3>6 DEF Numbers
    <3>8. Phase(step, s, b + d) = 2 + d
      BY <3>1, <3>2 DEF Phase, Lane, Ahead
    <3>9. 9 * (k + 1) + (2 + d) = 9 * i + 2 + d
      BY <1>1, <2>2
    <3>10. num2[s][a + d] = 9 * i + 2 + d
      BY <2>2, <3>1, <3>6, <3>7, <3>8, <3>9
    <3>11. QED  BY <3>1, <3>10
  <2>3. QED  BY <1>1, <1>5, <2>1, <2>2
<1>6. TakesTurns(M, p, k + 1, at2, num2)
  BY <1>3, <1>5 DEF TakesTurns, InTurn
<1>7. QED
  BY <1>6
==============================================================================
