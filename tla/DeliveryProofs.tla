--------------------------- MODULE DeliveryProofs ----------------------------
(***************************************************************************)
(* What the ranks owe to each other through the barriers, for any number   *)
(* of ranks and any program the contract allows: nobody writes a window    *)
(* before its owner has read it, nobody reads one before everybody has     *)
(* written it, and what is read is the call's result.                      *)
(*                                                                         *)
(* One rank's log (ExchangeLog) says what that rank has done when it is    *)
(* past a barrier; the barriers, counted window by window, say that every  *)
(* other rank has come to the same one.  What is in a rank's buffers is    *)
(* told by the log too: by the last operation of it that has run and that  *)
(* writes there.                                                           *)
(***************************************************************************)
EXTENDS ExchangeProofs

------------------------------------------------------------------------------
(* The ranks' barriers. *)

\* Stream s of rank r is in a barrier of window w.
AtBarrier(r, s, w) == ticket[r][s] # 0 /\ Head(queue[r][s]).win = w

\* A stream's ticket is the number of the barrier it is in, its rank's last of that window.
Numbered(r) ==
    \A s \in Streams : ticket[r][s] # 0 =>
        /\ queue[r][s] # <<>> /\ Head(queue[r][s]).win \in Windows
        /\ ticket[r][s] = arrived[Head(queue[r][s]).win][r]

\* Rank r is ahead of nobody, but by the barrier it is in.
Abreast(r) ==
    \A w \in Windows, t \in Ranks :
        /\ arrived[w][r] <= arrived[w][t] + 1
        /\ (\A s \in Streams : ~ AtBarrier(r, s, w)) => arrived[w][r] <= arrived[w][t]

Together == \A r \in Ranks : Numbered(r) /\ Abreast(r)

\* The next operation of a stream.
LEMMA HeadIs ==
    ASSUME NEW L, NEW r, NEW p, NEW k, NEW at, NEW q, NEW n, Going(L, r, p, k, at, q, n), NEW s \in Streams
    PROVE  /\ n[s] \in Nat /\ Len(L[s]) \in Nat /\ n[s] <= Len(L[s])
           /\ q[s] # <<>> <=> n[s] + 1 <= Len(L[s])
           /\ q[s] # <<>> => Head(q[s]) = L[s][n[s] + 1] /\ n[s] + 1 \in 1 .. Len(L[s])
<1>1. L \in Logs /\ q \in Logs /\ Leftover(L, q, n)
  BY DEF Going
<1>2. /\ n[s] \in Nat /\ Len(q[s]) \in Nat /\ Len(L[s]) \in Nat /\ n[s] <= Len(L[s])
      /\ Len(L[s]) = n[s] + Len(q[s])
      /\ \A i \in 1 .. Len(q[s]) : q[s][i] = L[s][n[s] + i]
  BY <1>1, LeftoverIs
<1>3. q[s] \in Seq(Ops)
  BY <1>1 DEF Logs
<1>4. q[s] # <<>> <=> Len(q[s]) >= 1
  BY <1>2, <1>3
<1>5. q[s] # <<>> <=> n[s] + 1 <= Len(L[s])
  BY <1>2, <1>4
<1>6. ASSUME q[s] # <<>>  PROVE Head(q[s]) = L[s][n[s] + 1] /\ n[s] + 1 \in 1 .. Len(L[s])
  <2>1. 1 \in 1 .. Len(q[s])
    BY <1>2, <1>4, <1>6
  <2>2. Head(q[s]) = q[s][1]
    BY <1>3, <1>6
  <2>3. QED  BY <1>2, <1>5, <1>6, <2>1, <2>2
<1>7. QED
  BY <1>2, <1>5, <1>6

\* A stream in a barrier leaves it next.
LEMMA InBarrier ==
    ASSUME NEW L, NEW r, NEW p, NEW k, NEW at, NEW q, NEW n, Going(L, r, p, k, at, q, n),
           NEW tk, Inside(L, n, tk), NEW s \in Streams, tk[s] # 0
    PROVE  \E i \in 1 .. k : /\ Transfers(p, i) /\ s = Lane(p[i])
                             /\ n[s] = at[i].near \/ n[s] = at[i].near + 3
                             /\ q[s] # <<>> /\ Head(q[s]).op = "leave"
                             /\ Head(q[s]).win = Filled(p, i) /\ Filled(p, i) \in Windows
<1>1. PICK i \in 1 .. k :
         /\ Transfers(p, i) /\ s = Lane(p[i])
         /\ n[s] = at[i].near \/ n[s] = at[i].near + 3
         /\ n[s] + 1 \in 1 .. Len(L[s]) /\ L[s][n[s] + 1].op = "leave" /\ L[s][n[s] + 1].win = Filled(p, i)
  BY InsideIs
<1>2. Head(q[s]) = L[s][n[s] + 1] /\ q[s] # <<>>
  BY <1>1, HeadIs
<1>3. Contract(p) /\ r \in Ranks /\ k \in Nat /\ k <= Len(p) /\ Told(L, r, p, k, at)
  BY DEF Going
<1>4. Filled(p, i) \in Windows
  BY <1>1, <1>3, TransferIs
<1>5. QED
  BY <1>1, <1>2, <1>4

\* Two streams of one rank are in barriers of different windows.
LEMMA BarriersDiffer ==
    ASSUME NEW L, NEW r, NEW p, NEW k, NEW at, NEW q, NEW n, Going(L, r, p, k, at, q, n),
           NEW tk, Inside(L, n, tk), NEW s \in Streams, tk[s] # 0, NEW t \in Streams, tk[t] # 0, s # t
    PROVE  Head(q[s]).win # Head(q[t]).win
<1>1. PICK i \in 1 .. k : /\ Transfers(p, i) /\ s = Lane(p[i])
                          /\ n[s] = at[i].near \/ n[s] = at[i].near + 3
                          /\ Head(q[s]).win = Filled(p, i)
  BY InBarrier
<1>2. PICK j \in 1 .. k : /\ Transfers(p, j) /\ t = Lane(p[j])
                          /\ n[t] = at[j].near \/ n[t] = at[j].near + 3
                          /\ Head(q[t]).win = Filled(p, j)
  BY InBarrier
<1>3. i < j \/ j < i
  <2>1. k \in Nat
    BY DEF Going
  <2>2. i # j
    BY <1>1, <1>2
  <2>3. QED  BY <2>1, <2>2
<1>4. /\ n[Lane(p[i])] = at[i].near \/ n[Lane(p[i])] = at[i].near + 3
      /\ n[Lane(p[j])] = at[j].near \/ n[Lane(p[j])] = at[j].near + 3
  BY <1>1, <1>2
<1>5. ASSUME i < j, Filled(p, i) = Filled(p, j)  PROVE FALSE
  BY <1>1, <1>2, <1>4, <1>5, OneInside
<1>6. ASSUME j < i, Filled(p, j) = Filled(p, i)  PROVE FALSE
  BY <1>1, <1>2, <1>4, <1>6, OneInside
<1>7. QED
  BY <1>1, <1>2, <1>3, <1>5, <1>6

\* What the invariant says of a rank's log after a step.
LEMMA NextGoing ==
    ASSUME IInv', NEW r \in Ranks, NEW L, NEW at, Fits(L, at, r)'
    PROVE  /\ Going(L, r, program', pos'[r], at, queue'[r], ran'[r])
           /\ Inside(L, ran'[r], ticket'[r])
           /\ Counted(program', pos'[r], at, ran'[r], ArrivedAt(r)')
<1>1. Typing'
  BY DEF IInv
<1>2. /\ program' \in Programs /\ pos'[r] \in 0 .. Len(program')
      /\ queue'[r] \in Logs /\ ran'[r] \in [Streams -> Nat]
  BY <1>1 DEF Typing
<1>3. Contract(program') /\ Len(program') \in Nat
  BY <1>2, ProgramsAssumption, ProgramIs
<1>4. pos'[r] \in Nat /\ pos'[r] <= Len(program')
  BY <1>2, <1>3
<1>5. Fine(L, at, r, program', pos'[r], queue'[r], ran'[r], pool'[r], result'[r], ticket'[r], ArrivedAt(r)')
  BY DEF Fits
<1>6. Inside(L, ran'[r], ticket'[r]) /\ Counted(program', pos'[r], at, ran'[r], ArrivedAt(r)')
  BY <1>5 DEF Fine
<1>7. PICK k2 : k2 = pos'[r]
  OBVIOUS
<1>8. Going(L, r, program', k2, at, queue'[r], ran'[r])
  BY <1>2, <1>3, <1>4, <1>5, <1>7, FineGoing
<1>9. QED
  BY <1>6, <1>7, <1>8

\* ... and before it.
LEMMA NowGoing ==
    ASSUME IInv, NEW r \in Ranks, NEW L, NEW at, Fits(L, at, r)
    PROVE  /\ Going(L, r, program, pos[r], at, queue[r], ran[r])
           /\ Inside(L, ran[r], ticket[r])
           /\ Counted(program, pos[r], at, ran[r], ArrivedAt(r))
<1>1. Fine(L, at, r, program, pos[r], queue[r], ran[r], pool[r], result[r], ticket[r], ArrivedAt(r))
  BY DEF Fits
<1>2. QED
  BY <1>1, RankIs DEF Fine

\* The ranks stay together when those in a barrier stay in it.
LEMMA HeadsStay ==
    ASSUME Together, arrived' = arrived, ticket' = ticket,
           \A t \in Ranks, s \in Streams : ticket[t][s] # 0 =>
               queue'[t][s] # <<>> /\ Head(queue'[t][s]) = Head(queue[t][s])
    PROVE  Together'
<1>1. ASSUME NEW t \in Ranks  PROVE Numbered(t)'
  BY <1>1 DEF Together, Numbered
<1>2. ASSUME NEW t \in Ranks, NEW s \in Streams, NEW w, AtBarrier(t, s, w)  PROVE AtBarrier(t, s, w)'
  BY <1>2 DEF Together, Numbered, AtBarrier
<1>3. ASSUME NEW t \in Ranks  PROVE Abreast(t)'
  <2>1. Abreast(t)
    BY <1>3 DEF Together
  <2>2. QED  BY <1>2, <1>3, <2>1 DEF Abreast
<1>4. QED
  BY <1>1, <1>3 DEF Together

\* A log that only got longer has the same next operations.
LEMMA SameHead ==
    ASSUME NEW L, NEW M, Grown(L, M), NEW r, NEW p, NEW k, NEW k2, NEW at, NEW at2, NEW q, NEW q2, NEW n,
           Going(L, r, p, k, at, q, n), Going(M, r, p, k2, at2, q2, n), NEW s \in Streams, q[s] # <<>>
    PROVE  q2[s] # <<>> /\ Head(q2[s]) = Head(q[s])
<1>1. Head(q[s]) = L[s][n[s] + 1] /\ n[s] + 1 \in 1 .. Len(L[s]) /\ n[s] \in Nat /\ Len(L[s]) \in Nat
  BY HeadIs
<1>2. Len(M[s]) \in Nat /\ (q2[s] # <<>> <=> n[s] + 1 <= Len(M[s])) /\ (q2[s] # <<>> => Head(q2[s]) = M[s][n[s] + 1])
  BY HeadIs
<1>3. Len(L[s]) <= Len(M[s]) /\ M[s][n[s] + 1] = L[s][n[s] + 1]
  BY <1>1 DEF Grown
<1>4. QED
  BY <1>1, <1>2, <1>3

\* A step of a host is no part of a barrier.
LEMMA HostTogether ==
    ASSUME IInv, Together, NEW r \in Ranks, HostStep(r)
    PROVE  Together'
<1>1. arrived' = arrived /\ ticket' = ticket /\ ran' = ran /\ program' = program
  BY DEF HostStep
<1>2. PICK L, at : Fits(L, at, r)
  BY DEF IInv
<1>3. IInv' /\ Lengthened(L, at, r) /\ OthersStill(r)
  BY <1>2, HostStepKeeps
<1>4. ASSUME NEW t \in Ranks
      PROVE  \E K, M, a, b : Fits(K, a, t) /\ Fits(M, b, t)' /\ Grown(K, M)
  <2>1. CASE t = r
    BY <1>2, <1>3, <2>1 DEF Lengthened
  <2>2. CASE t # r
    <3>1. PICK K, a : Fits(K, a, t)
      BY <1>4 DEF IInv
    <3>2. Fits(K, a, t)'
      BY <1>3, <1>4, <2>2, <3>1 DEF OthersStill
    <3>3. K \in Logs
      BY <1>4, <3>1, NowGoing DEF Going
    <3>4. Grown(K, K)
      <4>1. \A s \in Streams : Len(K[s]) \in Nat
        BY <3>3, LogIs
      <4>2. QED  BY <3>3, <4>1 DEF Grown
    <3>5. QED  BY <3>1, <3>2, <3>4
  <2>3. QED  BY <2>1, <2>2
<1>5. ASSUME NEW t \in Ranks, NEW s \in Streams, queue[t][s] # <<>>
      PROVE  queue'[t][s] # <<>> /\ Head(queue'[t][s]) = Head(queue[t][s])
  <2>1. PICK K, M, a, b : Fits(K, a, t) /\ Fits(M, b, t)' /\ Grown(K, M)
    BY <1>4, <1>5
  <2>2. Going(K, t, program, pos[t], a, queue[t], ran[t])
    BY <1>5, <2>1, NowGoing
  <2>3. Going(M, t, program', pos'[t], b, queue'[t], ran'[t])
    BY <1>3, <1>5, <2>1, NextGoing
  <2>4. PICK p, k, k2, q, q2, n :
           p = program /\ k = pos[t] /\ k2 = pos'[t] /\ q = queue[t] /\ q2 = queue'[t] /\ n = ran[t]
    OBVIOUS
  <2>5. Going(K, t, p, k, a, q, n) /\ Going(M, t, p, k2, b, q2, n)
    BY <1>1, <2>2, <2>3, <2>4
  <2>6. q2[s] # <<>> /\ Head(q2[s]) = Head(q[s])
    BY <1>5, <2>1, <2>4, <2>5, SameHead
  <2>7. QED  BY <2>4, <2>6
<1>6. \A t \in Ranks, s \in Streams : ticket[t][s] # 0 => queue[t][s] # <<>>
  BY DEF Together, Numbered
<1>7. QED
  BY <1>1, <1>5, <1>6, HeadsStay

\* What a step of stream s of rank r leaves of the others' barriers.
LEMMA OthersTogether ==
    ASSUME Typing, Typing', Together, NEW r \in Ranks,
           \A t \in Ranks : t # r => /\ queue'[t] = queue[t] /\ ticket'[t] = ticket[t]
                                     /\ \A w \in Windows : arrived'[w][t] = arrived[w][t],
           \A w \in Windows : arrived'[w][r] >= arrived[w][r],
           NEW t \in Ranks, t # r
    PROVE  Numbered(t)' /\ Abreast(t)'
<1>1. Numbered(t) /\ Abreast(t)
  BY DEF Together
<1>2. \A w \in Windows, x \in Ranks : arrived[w][x] \in Nat /\ arrived'[w][x] \in Nat
  BY ExchangeAssumption DEF Typing
<1>3. Numbered(t)'
  BY <1>1, SMTT(60) DEF Numbered
<1>4. \A s \in Streams, w \in Windows : AtBarrier(t, s, w)' <=> AtBarrier(t, s, w)
  BY DEF AtBarrier
<1>5. \A w \in Windows, x \in Ranks : arrived'[w][x] >= arrived[w][x] /\ arrived'[w][t] = arrived[w][t]
  BY <1>2
<1>6. ASSUME NEW w \in Windows, NEW x \in Ranks
      PROVE  /\ arrived'[w][t] <= arrived'[w][x] + 1
             /\ (\A s \in Streams : ~ AtBarrier(t, s, w)') => arrived'[w][t] <= arrived'[w][x]
  <2>1. /\ arrived[w][t] <= arrived[w][x] + 1
        /\ (\A s \in Streams : ~ AtBarrier(t, s, w)) => arrived[w][t] <= arrived[w][x]
    BY <1>1, <1>6 DEF Abreast
  <2>2. arrived'[w][x] >= arrived[w][x] /\ arrived'[w][t] = arrived[w][t] /\ arrived[w][t] \in Nat
        /\ arrived[w][x] \in Nat /\ arrived'[w][x] \in Nat
    BY <1>2, <1>5, <1>6
  <2>3. (\A s \in Streams : ~ AtBarrier(t, s, w)') => (\A s \in Streams : ~ AtBarrier(t, s, w))
    BY <1>4, <1>6
  <2>4. QED  BY <2>1, <2>2, <2>3
<1>7. Abreast(t)'
  BY <1>6 DEF Abreast
<1>8. QED
  BY <1>3, <1>7

\* Any operation but a barrier's.
LEMMA QuietTogether ==
    ASSUME IInv, Together, NEW r \in Ranks, NEW s \in Streams, NEW o, o \notin {"arrive", "leave"}, RunsOp(r, s, o),
           arrived' = arrived, ticket' = ticket
    PROVE  Together'
<1>1. PICK L, at : Fits(L, at, r)
  BY DEF IInv
<1>2. Head(queue[r][s]).op = o
  BY DEF RunsOp, Ready
<1>3. ticket[r][s] = 0
  <2>1. SUFFICES ASSUME ticket[r][s] # 0  PROVE FALSE
    OBVIOUS
  <2>2. PICK p, k, q, n, tk : p = program /\ k = pos[r] /\ q = queue[r] /\ n = ran[r] /\ tk = ticket[r]
    OBVIOUS
  <2>3. Going(L, r, p, k, at, q, n) /\ Inside(L, n, tk) /\ tk[s] # 0
    BY <1>1, <2>1, <2>2, NowGoing
  <2>4. Head(q[s]).op = "leave"
    BY <2>3, InBarrier
  <2>5. QED  BY <1>2, <2>2, <2>4
<1>4. ASSUME NEW t \in Ranks, NEW x \in Streams, ticket[t][x] # 0
      PROVE  queue'[t][x] # <<>> /\ Head(queue'[t][x]) = Head(queue[t][x])
  <2>1. t # r \/ x # s
    BY <1>3, <1>4
  <2>2. queue'[t][x] = queue[t][x]
    BY <1>1, <1>4, <2>1, RunsOpIs
  <2>3. queue[t][x] # <<>>
    BY <1>4 DEF Together, Numbered
  <2>4. QED  BY <2>2, <2>3
<1>5. QED
  BY <1>4, HeadsStay

\* A rank that leaves a barrier is ahead of nobody: it waited for all.
LEMMA LeaveTogether ==
    ASSUME IInv, IInv', Together, NEW r \in Ranks, NEW s \in Streams, Leave(r, s)
    PROVE  Together'
<1>1. /\ RunsOp(r, s, "leave") /\ arrived' = arrived /\ ticket' = [ticket EXCEPT ![r][s] = 0]
      /\ \A t \in Ranks : arrived[Head(queue[r][s]).win][t] >= ticket[r][s]
  BY DEF Leave, RunsOp
<1>2. PICK L, at : Fits(L, at, r)
  BY DEF IInv
<1>3. Typing /\ Typing'
  BY DEF IInv
<1>4. /\ \A t \in Ranks : t # r => queue'[t] = queue[t]
      /\ \A x \in Streams : x # s => queue'[r][x] = queue[r][x]
  BY <1>1, <1>2, RunsOpIs
<1>5. /\ \A t \in Ranks : t # r => ticket'[t] = ticket[t]
      /\ \A x \in Streams : x # s => ticket'[r][x] = ticket[r][x]
      /\ ticket'[r][s] = 0
  BY <1>1, <1>3 DEF Typing
<1>6. \A w \in Windows, t \in Ranks : arrived[w][t] \in Nat
  BY <1>3, ExchangeAssumption DEF Typing
<1>7. ASSUME NEW t \in Ranks, t # r  PROVE Numbered(t)' /\ Abreast(t)'
  <2>1. \A x \in Ranks : x # r => /\ queue'[x] = queue[x] /\ ticket'[x] = ticket[x]
                                  /\ \A w \in Windows : arrived'[w][x] = arrived[w][x]
    BY <1>1, <1>4, <1>5
  <2>2. \A w \in Windows : arrived'[w][r] >= arrived[w][r]
    BY <1>1, <1>6
  <2>3. QED  BY <1>3, <1>7, <2>1, <2>2, OthersTogether
<1>8. Numbered(r) /\ Abreast(r)
  BY DEF Together
<1>9. Numbered(r)'
  BY <1>1, <1>4, <1>5, <1>8 DEF Numbered
<1>10. ASSUME NEW w \in Windows, NEW t \in Ranks
       PROVE  /\ arrived'[w][r] <= arrived'[w][t] + 1
              /\ (\A x \in Streams : ~ AtBarrier(r, x, w)') => arrived'[w][r] <= arrived'[w][t]
  <2>1. /\ arrived[w][r] <= arrived[w][t] + 1
        /\ (\A x \in Streams : ~ AtBarrier(r, x, w)) => arrived[w][r] <= arrived[w][t]
    BY <1>8, <1>10 DEF Abreast
  <2>2. ASSUME \A x \in Streams : ~ AtBarrier(r, x, w)'  PROVE arrived[w][r] <= arrived[w][t]
    <3>1. \A x \in Streams : x # s => ~ AtBarrier(r, x, w)
      BY <1>4, <1>5, <2>2 DEF AtBarrier
    <3>2. CASE AtBarrier(r, s, w)
      <4>1. ticket[r][s] = arrived[w][r] /\ Head(queue[r][s]).win = w
        BY <1>8, <3>2 DEF AtBarrier, Numbered
      <4>2. arrived[w][t] >= ticket[r][s]
        BY <1>1, <1>10, <4>1
      <4>3. QED  BY <1>6, <1>10, <4>1, <4>2
    <3>3. CASE ~ AtBarrier(r, s, w)
      BY <2>1, <3>1, <3>3
    <3>4. QED  BY <3>2, <3>3
  <2>3. QED  BY <1>1, <2>1, <2>2
<1>11. Abreast(r)'
  BY <1>10 DEF Abreast
<1>12. QED
  BY <1>7, <1>9, <1>11 DEF Together

\* A rank that comes to a barrier was in no other of that window, so it was ahead of nobody.
LEMMA ArriveTogether ==
    ASSUME IInv, IInv', Together, NEW r \in Ranks, NEW s \in Streams, Arrive(r, s),
           NEW L, NEW at, Fits(L, at, r), Fits(L, at, r)'
    PROVE  Together'
<1>1. RunsOp(r, s, "arrive")
  BY DEF Arrive, RunsOp
<1>2. PICK w : w = Head(queue[r][s]).win
  OBVIOUS
<1>3. arrived' = [arrived EXCEPT ![w][r] = @ + 1] /\ ticket' = [ticket EXCEPT ![r][s] = arrived[w][r] + 1]
  BY <1>2 DEF Arrive
<1>4. Typing /\ Typing'
  BY DEF IInv
<1>5. /\ Runs(L, r, program, pos[r], at, queue[r], ran[r], s, queue'[r], ran'[r])
      /\ Head(queue[r][s]) = L[s][ran[r][s] + 1] /\ L[s][ran[r][s] + 1].op = "arrive"
      /\ \A t \in Ranks : t # r => queue'[t] = queue[t]
      /\ \A x \in Streams : x # s => queue'[r][x] = queue[r][x]
  BY <1>1, RunsOpIs
<1>6. PICK p, k, q, n, tk, q2, n2, tk2 :
         /\ p = program /\ k = pos[r] /\ q = queue[r] /\ n = ran[r] /\ tk = ticket[r]
         /\ q2 = queue'[r] /\ n2 = ran'[r] /\ tk2 = ticket'[r]
  OBVIOUS
<1>7. /\ Runs(L, r, p, k, at, q, n, s, q2, n2) /\ L[s][n[s] + 1].op = "arrive" /\ L[s][n[s] + 1].win = w
      /\ Going(L, r, p, k, at, q, n) /\ Inside(L, n, tk)
  BY <1>2, <1>5, <1>6, NowGoing
<1>8. Going(L, r, p, k, at, q2, n2) /\ Inside(L, n2, tk2)
  <2>1. Inside(L, n2, tk2)
    BY <1>6, NextGoing
  <2>2. QED  BY <1>7, <2>1, GoingOn
<1>9. w \in Windows
  <2>1. PICK i \in 1 .. k, d \in {0, 3} : Turn(p, at, n, s, i, d) /\ L[s][n[s] + 1].win = Filled(p, i)
    BY <1>7, WhoseTurn
  <2>2. Contract(p) /\ r \in Ranks /\ k \in Nat /\ k <= Len(p) /\ Told(L, r, p, k, at)
    BY <1>7 DEF Going
  <2>3. Filled(p, i) \in Windows
    BY <2>1, <2>2, TransferIs DEF Turn
  <2>4. QED  BY <1>7, <2>1, <2>3
<1>10. \A v \in Windows, t \in Ranks : arrived[v][t] \in Nat
  BY <1>4, ExchangeAssumption DEF Typing
<1>11. /\ arrived'[w][r] = arrived[w][r] + 1
       /\ \A v \in Windows, t \in Ranks : v # w \/ t # r => arrived'[v][t] = arrived[v][t]
       /\ tk2[s] = arrived[w][r] + 1 /\ tk2[s] # 0
       /\ \A x \in Streams : x # s => tk2[x] = tk[x]
       /\ \A t \in Ranks : t # r => ticket'[t] = ticket[t]
  BY <1>3, <1>4, <1>6, <1>9, <1>10, SMTT(60) DEF Typing
<1>12. q2[s] # <<>> /\ Head(q2[s]).win = w
  <2>1. PICK i \in 1 .. k : /\ Transfers(p, i) /\ s = Lane(p[i])
                            /\ n2[s] = at[i].near \/ n2[s] = at[i].near + 3
                            /\ q2[s] # <<>> /\ Head(q2[s]).win = Filled(p, i)
    BY <1>8, <1>11, InBarrier
  <2>2. PICK d \in {0, 3} : n2[s] = at[i].near + d
    <3>1. at[i].near \in Nat
      BY <1>8, <2>1, TransferIs DEF Going
    <3>2. at[i].near = at[i].near + 0
      BY <3>1
    <3>3. QED  BY <2>1, <3>2
  <2>3. Contract(p) /\ r \in Ranks /\ k \in Nat /\ k <= Len(p) /\ Told(L, r, p, k, at)
    BY <1>7 DEF Going
  <2>4. L[s][n2[s]].win = Filled(p, i)
    BY <2>1, <2>2, <2>3, StartsAt
  <2>5. n2[s] = n[s] + 1
    BY <1>7 DEF Runs, Steps1
  <2>6. QED  BY <1>7, <2>1, <2>4, <2>5
<1>13. tk[s] = 0
  <2>1. SUFFICES ASSUME tk[s] # 0  PROVE FALSE
    OBVIOUS
  <2>2. Head(q[s]).op = "leave"
    BY <1>7, <2>1, InBarrier
  <2>3. QED  BY <1>5, <1>6, <2>2
<1>14. ASSUME NEW x \in Streams, tk[x] # 0
       PROVE  x # s /\ q2[x] = q[x] /\ tk2[x] = tk[x] /\ Head(q[x]).win # w
  <2>1. x # s /\ q2[x] = q[x] /\ tk2[x] = tk[x]
    BY <1>5, <1>6, <1>11, <1>13, <1>14
  <2>2. Head(q2[x]).win # Head(q2[s]).win
    BY <1>8, <1>11, <1>14, <2>1, BarriersDiffer
  <2>3. QED  BY <1>12, <2>1, <2>2
<1>15. Numbered(r) /\ Abreast(r)
  BY DEF Together
<1>16. Numbered(r)'
  <2>1. ASSUME NEW x \in Streams, ticket'[r][x] # 0
        PROVE  /\ queue'[r][x] # <<>> /\ Head(queue'[r][x]).win \in Windows
               /\ ticket'[r][x] = arrived'[Head(queue'[r][x]).win][r]
    <3>1. CASE x = s
      BY <1>6, <1>9, <1>11, <1>12, <3>1
    <3>2. CASE x # s
      <4>1. tk[x] # 0
        BY <1>6, <1>11, <2>1, <3>2
      <4>2. q2[x] = q[x] /\ tk2[x] = tk[x] /\ Head(q[x]).win # w
        BY <1>14, <2>1, <4>1
      <4>3. q[x] # <<>> /\ Head(q[x]).win \in Windows /\ tk[x] = arrived[Head(q[x]).win][r]
        BY <1>6, <1>15, <2>1, <4>1 DEF Numbered
      <4>4. arrived'[Head(q[x]).win][r] = arrived[Head(q[x]).win][r]
        BY <1>11, <4>2, <4>3
      <4>5. QED  BY <1>6, <4>2, <4>3, <4>4
    <3>3. QED  BY <3>1, <3>2
  <2>2. QED  BY <2>1 DEF Numbered
<1>17. \A x \in Streams : ~ AtBarrier(r, x, w)
  BY <1>6, <1>14 DEF AtBarrier
<1>18. AtBarrier(r, s, w)'
  BY <1>6, <1>11, <1>12 DEF AtBarrier
<1>19. \A x \in Streams, v \in Windows : AtBarrier(r, x, v) => AtBarrier(r, x, v)'
  BY <1>6, <1>14 DEF AtBarrier
<1>20. ASSUME NEW v \in Windows, NEW t \in Ranks
       PROVE  /\ arrived'[v][r] <= arrived'[v][t] + 1
              /\ (\A x \in Streams : ~ AtBarrier(r, x, v)') => arrived'[v][r] <= arrived'[v][t]
  <2>1. /\ arrived[v][r] <= arrived[v][t] + 1
        /\ (\A x \in Streams : ~ AtBarrier(r, x, v)) => arrived[v][r] <= arrived[v][t]
    BY <1>15, <1>20 DEF Abreast
  <2>2. CASE v # w
    <3>1. arrived'[v][r] = arrived[v][r] /\ arrived'[v][t] = arrived[v][t]
      BY <1>11, <1>20, <2>2
    <3>2. (\A x \in Streams : ~ AtBarrier(r, x, v)') => (\A x \in Streams : ~ AtBarrier(r, x, v))
      BY <1>19, <1>20
    <3>3. QED  BY <2>1, <3>1, <3>2
  <2>3. CASE v = w
    <3>1. arrived[w][r] <= arrived[w][t]
      BY <1>17, <2>1, <2>3
    <3>2. arrived'[w][r] = arrived[w][r] + 1 /\ (t # r => arrived'[w][t] = arrived[w][t])
      BY <1>9, <1>11, <1>20
    <3>3. arrived[w][r] \in Nat /\ arrived[w][t] \in Nat
      BY <1>9, <1>10, <1>20
    <3>4. arrived'[w][r] <= arrived'[w][t] + 1
      BY <3>1, <3>2, <3>3
    <3>5. QED  BY <1>18, <2>3, <3>4
  <2>4. QED  BY <2>2, <2>3
<1>21. Abreast(r)'
  BY <1>20 DEF Abreast
<1>22. ASSUME NEW t \in Ranks, t # r  PROVE Numbered(t)' /\ Abreast(t)'
  <2>1. \A x \in Ranks : x # r => /\ queue'[x] = queue[x] /\ ticket'[x] = ticket[x]
                                  /\ \A v \in Windows : arrived'[v][x] = arrived[v][x]
    BY <1>5, <1>11
  <2>2. \A v \in Windows : arrived'[v][r] >= arrived[v][r]
    BY <1>10, <1>11
  <2>3. QED  BY <1>4, <1>22, <2>1, <2>2, OthersTogether
<1>23. QED
  BY <1>16, <1>21, <1>22 DEF Together

\* Every step of a stream keeps the ranks together.
LEMMA StreamTogether ==
    ASSUME IInv, Together, NEW r \in Ranks, NEW s \in Streams, StreamStep(r, s)
    PROVE  Together'
<1>1. PICK L, at : Fits(L, at, r)
  BY DEF IInv
<1>2. IInv' /\ Fits(L, at, r)'
  BY <1>1, StreamStepKeeps
<1>3. CASE Arrive(r, s)
  BY <1>1, <1>2, <1>3, ArriveTogether
<1>4. CASE Leave(r, s)
  BY <1>2, <1>4, LeaveTogether
<1>5. ASSUME NEW o \in Names \ {"arrive", "leave"}, RunsOp(r, s, o), arrived' = arrived, ticket' = ticket
      PROVE  Together'
  <2>1. o \notin {"arrive", "leave"}
    BY <1>5
  <2>2. QED  BY <1>5, <2>1, QuietTogether
<1>6. CASE WaitDone(r, s)
  <2>1. RunsOp(r, s, "nothing") /\ arrived' = arrived /\ ticket' = ticket
    BY <1>6 DEF WaitDone, RunsOp
  <2>2. QED  BY <1>5, <2>1 DEF Names
<1>7. CASE PushShare(r, s)
  <2>1. RunsOp(r, s, "push") /\ arrived' = arrived /\ ticket' = ticket
    BY <1>7 DEF PushShare, RunsOp
  <2>2. QED  BY <1>5, <2>1, SMTT(60) DEF Names
<1>8. CASE RunProduce(r, s)
  <2>1. RunsOp(r, s, "produce") /\ arrived' = arrived /\ ticket' = ticket
    BY <1>8 DEF RunProduce, RunsOp
  <2>2. QED  BY <1>5, <2>1 DEF Names
<1>9. CASE Stage(r, s)
  <2>1. RunsOp(r, s, "stage") /\ arrived' = arrived /\ ticket' = ticket
    BY <1>9 DEF Stage, RunsOp
  <2>2. QED  BY <1>5, <2>1 DEF Names
<1>10. CASE RunCopyOut(r, s)
  <2>1. RunsOp(r, s, "copyout") /\ arrived' = arrived /\ ticket' = ticket
    BY <1>10 DEF RunCopyOut, RunsOp
  <2>2. QED  BY <1>5, <2>1 DEF Names
<1>11. CASE Read(r, s)
  <2>1. RunsOp(r, s, "read") /\ arrived' = arrived /\ ticket' = ticket
    BY <1>11 DEF Read, RunsOp
  <2>2. QED  BY <1>5, <2>1 DEF Names
<1>12. QED
  BY <1>3, <1>4, <1>6, <1>7, <1>8, <1>9, <1>10, <1>11 DEF StreamStep

\* The ranks start together.
LEMMA TogetherFirst == Init => Together
<1>1. SUFFICES ASSUME Init  PROVE Together
  OBVIOUS
<1>2. /\ arrived = [w \in Windows |-> [r \in Ranks |-> 0]]
      /\ ticket = [r \in Ranks |-> [s \in Streams |-> 0]]
  BY <1>1, Zenon DEF Init
<1>3. QED
  BY <1>2 DEF Together, Numbered, Abreast

\* No rank ever passes a barrier alone.
THEOREM StaysTogether == Spec => []Together
<1>1. Init => Together
  BY TogetherFirst
<1>2. IInv /\ Together /\ [Next]_vars => Together'
  <2>1. SUFFICES ASSUME IInv, Together, [Next]_vars  PROVE Together'
    OBVIOUS
  <2>2. CASE UNCHANGED vars
    BY <2>1, <2>2 DEF vars, host, Together, Numbered, Abreast, AtBarrier
  <2>3. CASE Next
    <3>1. CASE \E r \in Ranks : HostStep(r)
      BY <2>1, <3>1, HostTogether
    <3>2. CASE \E r \in Ranks : \E s \in Streams : StreamStep(r, s)
      BY <2>1, <3>2, StreamTogether
    <3>3. CASE Rest
      BY <2>2, <3>3 DEF Rest
    <3>4. QED  BY <2>3, <3>1, <3>2, <3>3 DEF Next
  <2>4. QED  BY <2>1, <2>2, <2>3
<1>3. Spec => []IInv
  BY Inductive
<1>4. QED
  BY <1>1, <1>2, <1>3, PTL DEF Spec

------------------------------------------------------------------------------
(* Past a barrier. *)

\* When a transfer has begun, the earlier ones into its window are over.
LEMMA EarlierOver ==
    ASSUME NEW L, NEW r, NEW p, NEW k, NEW at, NEW q, NEW n, Going(L, r, p, k, at, q, n),
           NEW i \in 1 .. k, NEW j \in 1 .. k, Transfers(p, i), Transfers(p, j), i < j, Filled(p, i) = Filled(p, j),
           Opened(p, at, n, j)
    PROVE  End(p[i], at[i].near) <= n[Lane(p[i])]
<1>1. /\ Contract(p) /\ r \in Ranks /\ k \in Nat /\ k <= Len(p) /\ Told(L, r, p, k, at)
      /\ L \in Logs /\ q \in Logs /\ Leftover(L, q, n) /\ Waited(L, n)
  BY DEF Going
<1>2. Before(L, Lane(p[i]), End(p[i], at[i].near), Lane(p[j]), at[j].near)
  <2>1. Ordered(L, r, p, at, i, j)
    BY <1>1 DEF Told
  <2>2. QED  BY <2>1 DEF Ordered
<1>3. Lane(p[i]) \in Streams /\ End(p[i], at[i].near) \in Nat
  BY <1>1, TransferIs
<1>4. Lane(p[j]) \in Streams /\ at[j].near \in Nat
  BY <1>1, TransferIs
<1>5. at[j].near <= n[Lane(p[j])]
  BY DEF Opened
<1>6. QED
  BY <1>1, <1>2, <1>3, <1>4, <1>5, WaitedBefore

\* A transfer that has its d-th barrier behind it, and so has been let through.
Past(p, at, n, i, d) ==
    IF d = 1 THEN at[i].near + 1 <= n[Lane(p[i])] ELSE at[i].near + 4 <= n[Lane(p[i])]

\* Once a rank is let through a barrier, every rank has come to it.
LEMMA AllCame ==
    ASSUME IInv, Together, NEW r \in Ranks, NEW L, NEW at, Fits(L, at, r),
           NEW i \in 1 .. pos[r], Transfers(program, i), NEW d \in {1, 2}, Past(program, at, ran[r], i, d),
           NEW t \in Ranks
    PROVE  arrived[Filled(program, i)][t] >= 2 * Nth(program, i) + d
<1>1. PICK p, k, q, n, tk, arr :
         p = program /\ k = pos[r] /\ q = queue[r] /\ n = ran[r] /\ tk = ticket[r] /\ arr = ArrivedAt(r)
  OBVIOUS
<1>2. Going(L, r, p, k, at, q, n) /\ Inside(L, n, tk) /\ Counted(p, k, at, n, arr) /\ Past(p, at, n, i, d)
  BY <1>1, NowGoing
<1>3. Contract(p) /\ k \in Nat /\ k <= Len(p) /\ Told(L, r, p, k, at) /\ n \in [Streams -> Nat]
  BY <1>2 DEF Going
<1>4. /\ i \in 1 .. k /\ i \in DOMAIN p /\ Transfers(p, i) /\ Lane(p[i]) \in Streams /\ at[i].near \in Nat
      /\ Filled(p, i) \in Windows
  BY <1>1, <1>2, <1>3, TransferIs
<1>5. PICK w : w = Filled(p, i)
  OBVIOUS
<1>6. w \in Windows /\ arr[w] = arrived[w][r] /\ arrived[w][r] \in Nat /\ arrived[w][t] \in Nat
  <2>1. Typing
    BY DEF IInv
  <2>2. \A x \in Ranks : arrived[w][x] \in Nat
    BY <1>4, <1>5, <2>1, ExchangeAssumption, SMTT(60) DEF Typing
  <2>3. QED  BY <1>1, <1>4, <1>5, <2>2, RankIs
<1>7. Nth(p, i) \in Nat
  BY <1>3, <1>4, EarlierIs
<1>8. arrived[w][r] >= 2 * Nth(p, i) + d
  <2>1. /\ Opened(p, at, n, i) => arr[w] >= 2 * Nth(p, i) + 1
        /\ Closed(p, at, n, i) => arr[w] >= 2 * Nth(p, i) + 2
    BY <1>2, <1>4, <1>5 DEF Counted
  <2>2. CASE d = 1
    <3>1. Opened(p, at, n, i)
      BY <1>2, <1>3, <1>4, <2>2 DEF Past, Opened
    <3>2. QED  BY <1>6, <2>1, <2>2, <3>1
  <2>3. CASE d = 2
    <3>1. Closed(p, at, n, i)
      BY <1>2, <1>3, <1>4, <2>3 DEF Past, Closed
    <3>2. QED  BY <1>6, <2>1, <2>3, <3>1
  <2>4. QED  BY <2>2, <2>3
<1>9. Abreast(r)
  BY DEF Together
<1>10. /\ arrived[w][r] <= arrived[w][t] + 1
       /\ (\A x \in Streams : ~ AtBarrier(r, x, w)) => arrived[w][r] <= arrived[w][t]
  BY <1>6, <1>9 DEF Abreast
<1>11. ASSUME NEW x \in Streams, AtBarrier(r, x, w)  PROVE arrived[w][t] >= 2 * Nth(p, i) + d
  <2>1. PICK j \in 1 .. k : /\ Transfers(p, j) /\ x = Lane(p[j])
                            /\ n[x] = at[j].near \/ n[x] = at[j].near + 3
                            /\ Head(q[x]).win = Filled(p, j)
    <3>1. tk[x] # 0
      BY <1>1, <1>11 DEF AtBarrier
    <3>2. QED  BY <1>2, <3>1, InBarrier
  <2>2. Filled(p, j) = w
    BY <1>1, <1>11, <2>1 DEF AtBarrier
  <2>3. /\ j \in DOMAIN p /\ Lane(p[j]) \in Streams /\ at[j].near \in Nat
        /\ End(p[j], at[j].near) \in Nat /\ End(p[j], at[j].near) >= at[j].near + 4
    BY <1>2, <1>3, <2>1, TransferIs
  <2>4. n[Lane(p[j])] \in Nat /\ n[Lane(p[i])] \in Nat
    BY <1>3, <1>4, <2>3
  <2>5. Nth(p, j) \in Nat
    BY <1>3, <2>3, EarlierIs
  <2>6. /\ Opened(p, at, n, j) => arr[w] >= 2 * Nth(p, j) + 1
        /\ Closed(p, at, n, j) => arr[w] >= 2 * Nth(p, j) + 2
    BY <1>2, <2>1, <2>2, <2>3 DEF Counted
  <2>7. Opened(p, at, n, j)
    BY <2>1, <2>3, <2>4 DEF Opened
  <2>8. CASE j = i
    <3>1. n[Lane(p[i])] = at[i].near + 3 /\ d = 1
      BY <1>2, <1>4, <2>1, <2>4, <2>8 DEF Past
    <3>2. Closed(p, at, n, j)
      BY <2>8, <2>3, <3>1 DEF Closed
    <3>3. QED  BY <1>6, <1>7, <1>10, <2>6, <2>8, <3>1, <3>2
  <2>9. CASE i < j
    <3>1. Nth(p, i) + 1 <= Nth(p, j)
      BY <1>3, <1>4, <1>5, <2>2, <2>3, <2>9, NthGrows
    <3>2. QED  BY <1>6, <1>7, <1>10, <2>5, <2>6, <2>7, <3>1
  <2>10. CASE j < i
    <3>1. Opened(p, at, n, i)
      BY <1>2, <1>4, <2>4 DEF Past, Opened
    <3>2. End(p[j], at[j].near) <= n[Lane(p[j])]
      BY <1>2, <1>4, <1>5, <2>1, <2>2, <2>10, <3>1, EarlierOver
    <3>3. QED  BY <2>1, <2>3, <2>4, <3>2
  <2>11. i = j \/ i < j \/ j < i
    BY <1>3, <1>4, <2>1
  <2>12. QED  BY <2>8, <2>9, <2>10, <2>11
<1>12. arrived[w][t] >= 2 * Nth(p, i) + d
  <2>1. CASE \E x \in Streams : AtBarrier(r, x, w)
    BY <1>11, <2>1
  <2>2. CASE \A x \in Streams : ~ AtBarrier(r, x, w)
    BY <1>6, <1>7, <1>8, <1>10, <2>2
  <2>3. QED  BY <2>1, <2>2
<1>13. QED
  BY <1>1, <1>5, <1>12

\* It has made the call, and opened the transfer or closed it.
LEMMA PeersCame ==
    ASSUME IInv, Together, NEW r \in Ranks, NEW L, NEW at, Fits(L, at, r),
           NEW i \in 1 .. pos[r], Transfers(program, i), NEW d \in {1, 2}, Past(program, at, ran[r], i, d),
           NEW t \in Ranks, NEW M, NEW at2, Fits(M, at2, t)
    PROVE  /\ i \in 1 .. pos[t]
           /\ Opened(program, at2, ran[t], i)
           /\ d = 2 => Closed(program, at2, ran[t], i)
<1>1. arrived[Filled(program, i)][t] >= 2 * Nth(program, i) + d
  BY AllCame
<1>2. /\ Contract(program) /\ pos[r] \in Nat /\ pos[r] <= Len(program) /\ Len(program) \in Nat /\ pos[t] \in Nat
      /\ \A w \in Windows : ArrivedAt(t)[w] = arrived[w][t]
  BY RankIs
<1>3. i \in DOMAIN program /\ i \in Nat /\ i >= 1
  BY <1>2, ProgramIs
<1>4. Nth(program, i) \in Nat
  BY <1>2, <1>3, EarlierIs
<1>5. Filled(program, i) \in Windows
  BY <1>2, <1>3, FilledIs
<1>6. arrived[Filled(program, i)][t] \in Nat
  <2>1. Typing
    BY DEF IInv
  <2>2. QED  BY <1>5, <2>1, ExchangeAssumption DEF Typing
<1>7. Counted(program, pos[t], at2, ran[t], ArrivedAt(t))
  BY NowGoing
<1>8. PICK c, m : c = ArrivedAt(t)[Filled(program, i)] /\ m = Nth(program, i)
  OBVIOUS
<1>9. c \in Nat /\ m \in Nat /\ c >= 2 * m + d
  BY <1>1, <1>2, <1>4, <1>5, <1>6, <1>8
<1>10. IF i <= pos[t] THEN /\ Opened(program, at2, ran[t], i) <=> c >= 2 * m + 1
                           /\ Closed(program, at2, ran[t], i) <=> c >= 2 * m + 2
       ELSE c <= 2 * m
  BY <1>3, <1>7, <1>8, SMTT(60) DEF Counted
<1>11. QED
  BY <1>2, <1>3, <1>9, <1>10

------------------------------------------------------------------------------
(* Readers wait for writers. *)

\* What a copy out of a window is of: a step whose transfer is over.
LEMMA CopiesOut ==
    ASSUME IInv, NEW r \in Ranks, NEW L, NEW at, Fits(L, at, r), NEW s \in Streams, Ready(r, s, "copyout")
    PROVE  \E i \in 1 .. pos[r] :
              /\ Transfers(program, i) /\ program[i].dest = "fresh" /\ Past(program, at, ran[r], i, 2)
              /\ Head(queue[r][s]).call = program[i].call /\ Head(queue[r][s]).win = Filled(program, i)
              /\ s = Lane(program[i]) /\ ran[r][s] + 1 = at[i].near + 5
<1>1. PICK p, k, n : p = program /\ k = pos[r] /\ n = ran[r]
  OBVIOUS
<1>2. /\ n[s] + 1 \in 1 .. Len(L[s]) /\ L[s][n[s] + 1].op = "copyout" /\ Head(queue[r][s]) = L[s][n[s] + 1]
  BY <1>1, NextRuns
<1>3. Going(L, r, p, k, at, queue[r], n)
  BY <1>1, NowGoing
<1>4. Contract(p) /\ k \in Nat /\ k <= Len(p) /\ Told(L, r, p, k, at) /\ n \in [Streams -> Nat]
  BY <1>3 DEF Going
<1>5. PICK i \in 1 .. k : /\ Transfers(p, i)
                          /\ L[s][n[s] + 1].win = Filled(p, i) /\ L[s][n[s] + 1].call = p[i].call
                          /\ Role(L[s][n[s] + 1], s, n[s] + 1, p[i], at[i].near)
  BY <1>2, <1>4, WhoseIs
<1>6. s = Lane(p[i]) /\ n[s] + 1 = at[i].near + 5 /\ p[i].dest = "fresh"
  BY <1>2, <1>5 DEF Role
<1>7. Past(p, at, n, i, 2)
  <2>1. at[i].near \in Nat /\ n[s] \in Nat
    BY <1>4, <1>5, TransferIs
  <2>2. at[i].near + 4 <= n[Lane(p[i])]
    BY <1>6, <2>1
  <2>3. QED  BY <2>2 DEF Past
<1>8. QED
  BY <1>1, <1>2, <1>5, <1>6, <1>7

\* What a read is of: a step whose transfer, and the copy out of it, is over.
LEMMA ReadsResult ==
    ASSUME IInv, NEW r \in Ranks, NEW L, NEW at, Fits(L, at, r), NEW s \in Streams, Ready(r, s, "read")
    PROVE  \E i \in 1 .. pos[r] :
              /\ Transfers(program, i) /\ Past(program, at, ran[r], i, 2)
              /\ End(program[i], at[i].near) <= ran[r][Lane(program[i])]
              /\ Head(queue[r][s]).call = program[i].call
              /\ Head(queue[r][s]).win = IF program[i].dest = "fresh" THEN <<"output", program[i].call>>
                                         ELSE Filled(program, i)
              /\ s = "caller" /\ ran[r][s] + 1 \in 1 .. Len(L[s]) /\ Head(queue[r][s]) = L[s][ran[r][s] + 1]
<1>1. PICK p, k, q, n : p = program /\ k = pos[r] /\ q = queue[r] /\ n = ran[r]
  OBVIOUS
<1>2. PICK q2, n2 : Runs(L, r, p, k, at, q, n, s, q2, n2)
  BY <1>1, NextRuns
<1>3. n[s] + 1 \in 1 .. Len(L[s]) /\ L[s][n[s] + 1].op = "read" /\ Head(q[s]) = L[s][n[s] + 1]
  BY <1>1, NextRuns
<1>4. /\ Contract(p) /\ k \in Nat /\ k <= Len(p) /\ Told(L, r, p, k, at) /\ n \in [Streams -> Nat]
      /\ L \in Logs /\ q \in Logs /\ Leftover(L, q, n) /\ Waited(L, n)
  BY <1>2 DEF Runs, Going
<1>5. s = "caller"
  <2>1. Known(L, r, p, k, at, s, n[s] + 1)
    BY <1>3, <1>4 DEF Told
  <2>2. QED  BY <1>3, <2>1 DEF Known
<1>6. PICK g : g = n[s] + 1
  OBVIOUS
<1>7. PICK i \in 1 .. k : ReadsFor(L, p, at, g, i)
  <2>1. Fine(L, at, r, p, k, q, n, pool[r], result[r], ticket[r], ArrivedAt(r))
    BY <1>1 DEF Fits
  <2>2. Reading(L, p, k, at)
    BY <2>1 DEF Fine
  <2>3. g \in 1 .. Len(L["caller"]) /\ L["caller"][g].op = "read"
    BY <1>3, <1>5, <1>6
  <2>4. QED  BY <2>2, <2>3 DEF Reading
<1>8. /\ Transfers(p, i) /\ L["caller"][g].call = p[i].call
      /\ L["caller"][g].win = IF p[i].dest = "fresh" THEN <<"output", p[i].call>> ELSE Filled(p, i)
      /\ Before(L, Lane(p[i]), End(p[i], at[i].near), "caller", g)
  BY <1>7 DEF ReadsFor
<1>9. PICK e, l : e = End(p[i], at[i].near) /\ l = Lane(p[i])
  OBVIOUS
<1>10. /\ l \in Streams /\ e \in Nat /\ at[i].near \in Nat /\ e >= at[i].near + 4 /\ e \in 1 .. Len(L[l])
       /\ Laid(L, r, p, at, i)
  <2>1. /\ Lane(p[i]) \in Streams /\ at[i].near \in Nat /\ at[i].near >= 1
        /\ End(p[i], at[i].near) \in Nat /\ End(p[i], at[i].near) >= at[i].near + 4
        /\ End(p[i], at[i].near) <= Len(L[Lane(p[i])]) /\ Laid(L, r, p, at, i)
    BY <1>4, <1>8, TransferIs
  <2>2. Len(L[l]) \in Nat
    BY <1>4, <1>9, <2>1, LogIs
  <2>3. QED  BY <1>9, <2>1, <2>2
<1>11. L[l][e].op # "read"
  <2>1. OwnShare(L[l], r, p[i], Filled(p, i), at[i].near)
    BY <1>9, <1>10 DEF Laid
  <2>2. e = IF p[i].dest = "fresh" THEN at[i].near + 5 ELSE at[i].near + 4
    BY <1>9, <1>10, EndIs
  <2>3. QED  BY <2>1, <2>2 DEF OwnShare
<1>12. l = s => e <= n[s]
  <2>1. SUFFICES ASSUME l = s  PROVE e <= n[s]
    OBVIOUS
  <2>2. e <= g \/ \E h \in 1 .. Len(L[s]) : h <= g /\ L[s][h].on = s /\ L[s][h].upto >= e
    BY <1>5, <1>8, <1>9, <2>1 DEF Before
  <2>3. e # g
    BY <1>3, <1>6, <1>11, <2>1
  <2>4. CASE e <= g
    BY <1>4, <1>6, <1>10, <2>3, <2>4
  <2>5. CASE \E h \in 1 .. Len(L[s]) : h <= g /\ L[s][h].on = s /\ L[s][h].upto >= e
    <3>1. PICK h \in 1 .. Len(L[s]) : h <= g /\ L[s][h].on = s /\ L[s][h].upto >= e
      BY <2>5
    <3>2. L[s][h].upto \in Nat
      BY <1>4, LogIs, OpIs
    <3>3. n[s] >= L[s][h].upto
      <4>1. CASE h = n[s] + 1
        BY <1>2, <3>1, <4>1 DEF Runs, Free1
      <4>2. CASE h # n[s] + 1
        <5>1. h \in 1 .. n[s]
          BY <1>4, <1>6, <3>1, <4>2
        <5>2. QED  BY <1>4, <3>1, <5>1 DEF Waited
      <4>3. QED  BY <4>1, <4>2
    <3>4. QED  BY <1>4, <1>10, <3>1, <3>2, <3>3, SMTT(60)
  <2>6. QED  BY <2>2, <2>4, <2>5
<1>13. e <= n[l]
  <2>1. Steps1(q, n, s, q2, n2) /\ Free1(L, n, s)
    BY <1>2 DEF Runs
  <2>2. Before(L, l, e, s, n[s] + 1)
    BY <1>5, <1>6, <1>8, <1>9
  <2>3. QED  BY <1>4, <1>10, <1>12, <2>1, <2>2, FreeBefore
<1>14. Past(p, at, n, i, 2)
  BY <1>4, <1>9, <1>10, <1>13 DEF Past
<1>15. QED
  BY <1>1, <1>3, <1>5, <1>6, <1>8, <1>9, <1>13, <1>14

\* What a rank that is past the closing barrier knows of the copies to it.
LEMMA NobodyPushes ==
    ASSUME IInv, Together, NEW r \in Ranks, NEW L, NEW at, Fits(L, at, r),
           NEW i \in 1 .. pos[r], Transfers(program, i), Past(program, at, ran[r], i, 2), NEW t \in Ranks
    PROVE  /\ Issued(t, program[i].call)
           /\ \A o \in Pushes(t) : o.call # program[i].call
<1>1. PICK M, at2 : Fits(M, at2, t)
  BY DEF IInv
<1>2. PICK d \in {1, 2} : d = 2
  OBVIOUS
<1>3. i \in 1 .. pos[t] /\ Closed(program, at2, ran[t], i)
  BY <1>1, <1>2, PeersCame
<1>4. Issued(t, program[i].call)
  BY <1>3 DEF Issued, Transfers
<1>5. ASSUME NEW o \in Pushes(t), o.call = program[i].call  PROVE FALSE
  <2>1. PICK j \in 1 .. pos[t] : /\ Transfers(program, j) /\ o.call = program[j].call
                                 /\ ~ Closed(program, at2, ran[t], j)
    BY <1>1, <1>5, PushIs
  <2>2. Contract(program) /\ i \in DOMAIN program /\ j \in DOMAIN program
    BY <1>3, <2>1, RankIs, ProgramIs
  <2>3. i = j
    BY <1>5, <2>1, <2>2, OneStep DEF Transfers
  <2>4. QED  BY <1>3, <2>1, <2>3
<1>6. QED
  BY <1>4, <1>5

\* The invariant implies that readers wait.
LEMMA ReadersFollow == IInv /\ Together => ReadersWait
<1>1. SUFFICES ASSUME IInv, Together, NEW r \in Ranks, NEW s \in Streams,
                      Ready(r, s, "copyout") \/ Ready(r, s, "read"), NEW t \in Ranks
               PROVE  /\ Issued(t, Head(queue[r][s]).call)
                      /\ \A o \in Pushes(t) : ~ (o.to = r /\ o.call = Head(queue[r][s]).call)
  BY DEF ReadersWait
<1>2. PICK L, at : Fits(L, at, r)
  BY <1>1 DEF IInv
<1>3. PICK i \in 1 .. pos[r] : /\ Transfers(program, i) /\ Past(program, at, ran[r], i, 2)
                               /\ Head(queue[r][s]).call = program[i].call
  <2>1. CASE Ready(r, s, "copyout")
    BY <1>1, <1>2, <2>1, CopiesOut
  <2>2. CASE Ready(r, s, "read")
    <3>1. \E i \in 1 .. pos[r] : 
              /\ Transfers(program, i) /\ Past(program, at, ran[r], i, 2)
              /\ End(program[i], at[i].near) <= ran[r][Lane(program[i])]
              /\ Head(queue[r][s]).call = program[i].call
              /\ Head(queue[r][s]).win = IF program[i].dest = "fresh" THEN <<"output", program[i].call>>
                                         ELSE Filled(program, i)
              /\ s = "caller" /\ ran[r][s] + 1 \in 1 .. Len(L[s]) /\ Head(queue[r][s]) = L[s][ran[r][s] + 1]
      BY <1>1, <1>2, <2>2, ReadsResult
    <3>2. QED  BY <3>1
  <2>3. QED  BY <1>1, <2>1, <2>2
<1>4. Issued(t, program[i].call) /\ \A o \in Pushes(t) : o.call # program[i].call
  BY <1>1, <1>2, <1>3, NobodyPushes, SMTT(60)
<1>5. QED
  BY <1>3, <1>4

------------------------------------------------------------------------------
(* Writers wait for readers. *)

\* What the next copy into a window is of: a step that is let through its opening barrier.
LEMMA PushesShare ==
    ASSUME IInv, NEW r \in Ranks, NEW L, NEW at, Fits(L, at, r), NEW s \in Streams, Ready(r, s, "push")
    PROVE  \E i \in 1 .. pos[r] :
              /\ Transfers(program, i) /\ Past(program, at, ran[r], i, 1)
              /\ Within(r, program, at, s, ran[r][s] + 1, i)
              /\ Head(queue[r][s]).call = program[i].call /\ Head(queue[r][s]).win = Filled(program, i)
              /\ Head(queue[r][s]).to \in Ranks
              /\ Head(queue[r][s]).buf = L[Lane(program[i])][at[i].near + 2].buf
<1>1. PICK p, k, q, n : p = program /\ k = pos[r] /\ q = queue[r] /\ n = ran[r]
  OBVIOUS
<1>2. PICK q2, n2 : Runs(L, r, p, k, at, q, n, s, q2, n2)
  BY <1>1, NextRuns
<1>3. /\ n[s] + 1 \in 1 .. Len(L[s]) /\ L[s][n[s] + 1].op = "push" /\ Head(q[s]) = L[s][n[s] + 1]
      /\ Head(q[s]) \in Ops
  BY <1>1, NextRuns
<1>4. /\ Contract(p) /\ k \in Nat /\ k <= Len(p) /\ Told(L, r, p, k, at) /\ n \in [Streams -> Nat]
      /\ L \in Logs /\ q \in Logs /\ Leftover(L, q, n) /\ Waited(L, n)
  BY <1>2 DEF Runs, Going
<1>5. PICK i \in 1 .. k : /\ Within(r, p, at, s, n[s] + 1, i) /\ Transfers(p, i)
                          /\ L[s][n[s] + 1].win = Filled(p, i) /\ L[s][n[s] + 1].call = p[i].call
                          /\ Role(L[s][n[s] + 1], s, n[s] + 1, p[i], at[i].near)
                          /\ L[s][n[s] + 1].buf = L[Lane(p[i])][at[i].near + 2].buf
  BY <1>3, <1>4, WhoseIs, SMTT(60)
<1>6. /\ Lane(p[i]) \in Streams /\ Lane(p[i]) \in {"caller", "comm"} /\ at[i].near \in Nat /\ at[i].far \in Nat
      /\ Laid(L, r, p, at, i)
  BY <1>4, <1>5, TransferIs
<1>7. at[i].near + 1 <= n[Lane(p[i])]
  <2>1. CASE s = "xfer"
    <3>1. Copied(r) \in Nat /\ n[s] \in Nat /\ Len(L[s]) \in Nat
      BY <1>4, CopiedIs, LogIs
    <3>2. PICK x, y, z, c : x = at[i].far /\ y = n[s] /\ z = Len(L[s]) /\ c = Copied(r)
      OBVIOUS
    <3>3. PICK m : m = y + 1
      OBVIOUS
    <3>4. x + 1 <= y + 1 /\ x + 1 \in 1 .. z
      <4>1. Within(r, p, at, s, m, i)
        BY <1>5, <3>2, <3>3
      <4>2. m - x \in 1 .. c
        BY <2>1, <3>2, <4>1, Zenon DEF Within
      <4>3. m \in 1 .. z
        BY <1>3, <3>2, <3>3
      <4>4. x \in Nat /\ y \in Nat /\ z \in Nat /\ c \in Nat
        BY <1>6, <3>1, <3>2
      <4>5. QED  BY <3>3, <4>2, <4>3, <4>4
    <3>5. L["xfer"][at[i].far + 1].on = Lane(p[i]) /\ L["xfer"][at[i].far + 1].upto >= at[i].near + 1
      BY <1>6 DEF Laid
    <3>6. Before(L, Lane(p[i]), at[i].near + 1, s, n[s] + 1)
      <4>1. PICK g : g = x + 1
        OBVIOUS
      <4>2. g \in 1 .. Len(L[s]) /\ g <= n[s] + 1 /\ L[s][g].on = Lane(p[i]) /\ L[s][g].upto >= at[i].near + 1
        BY <2>1, <3>2, <3>4, <3>5, <4>1
      <4>3. QED  BY <4>2 DEF Before
    <3>7. Steps1(q, n, s, q2, n2) /\ Free1(L, n, s) /\ Lane(p[i]) # s /\ at[i].near + 1 \in Nat
      BY <1>2, <1>6, <2>1 DEF Runs
    <3>8. QED  BY <1>4, <1>6, <3>6, <3>7, FreeBefore
  <2>2. CASE s # "xfer"
    <3>1. s = Lane(p[i]) /\ n[s] + 1 = at[i].near + 2
      BY <1>3, <1>5, <2>2 DEF Role
    <3>2. n[s] \in Nat
      BY <1>4
    <3>3. QED  BY <1>6, <3>1, <3>2
  <2>3. QED  BY <2>1, <2>2
<1>8. Past(p, at, n, i, 1)
  BY <1>7 DEF Past
<1>9. Head(q[s]).to \in Ranks
  BY <1>3, OpIs
<1>10. QED
  BY <1>1, <1>3, <1>5, <1>8, <1>9

\* Transfers into one window of the caller's share it.
LEMMA SharesWindow ==
    ASSUME NEW p, Contract(p), NEW i \in DOMAIN p, NEW j \in DOMAIN p, Transfers(p, i), Transfers(p, j),
           Filled(p, i) = Filled(p, j), p[i].dest # "fresh"
    PROVE  SharesBuffer(p, i, j)
<1>1. p[i].dest \in {"own", "lent"} /\ p[j].dest \in {"fresh", "own", "lent"}
  BY CallIs DEF Transfers
<1>2. PICK own, lent, sync, async : own = "own" /\ lent = "lent" /\ sync = "sync" /\ async = "async"
  OBVIOUS
<1>3. /\ p[i].dest = own => Filled(p, i) = <<own, 0>>
      /\ p[i].dest = lent => Filled(p, i) = <<lent, LentSlot(p, i)>>
  BY <1>2, FilledIs
<1>4. /\ p[j].dest = own => Filled(p, j) = <<own, 0>>
      /\ p[j].dest = lent => Filled(p, j) = <<lent, LentSlot(p, j)>>
      /\ p[j].dest = "fresh" => Filled(p, j) = <<async, 0>> \/ Filled(p, j) = <<sync, 0>>
  BY <1>2, FilledIs
<1>5. p[j].dest = p[i].dest /\ (p[i].dest = lent => LentSlot(p, i) = LentSlot(p, j))
  <2>1. own # lent /\ own # sync /\ own # async /\ lent # sync /\ lent # async
    BY <1>2
  <2>2. QED  BY <1>1, <1>2, <1>3, <1>4, <2>1
<1>6. QED
  BY <1>1, <1>2, <1>5 DEF SharesBuffer

\* A rank that has begun a transfer has read what was in its window before.
LEMMA HasRead ==
    ASSUME IInv, NEW t \in Ranks, NEW L, NEW at, Fits(L, at, t),
           NEW i \in 1 .. pos[t], NEW h \in 1 .. pos[t], i < h, Transfers(program, i), Transfers(program, h),
           Filled(program, i) = Filled(program, h), Opened(program, at, ran[t], h)
    PROVE  ~ StillReads(t, program[i].call)
<1>1. PICK p, k, q, n : p = program /\ k = pos[t] /\ q = queue[t] /\ n = ran[t]
  OBVIOUS
<1>2. Going(L, t, p, k, at, q, n)
  BY <1>1, NowGoing
<1>3. /\ Contract(p) /\ k \in Nat /\ k <= Len(p) /\ Told(L, t, p, k, at) /\ n \in [Streams -> Nat]
      /\ L \in Logs /\ q \in Logs /\ Leftover(L, q, n) /\ Waited(L, n)
  BY <1>2 DEF Going
<1>4. /\ i \in DOMAIN p /\ p[i].call \in Calls /\ Lane(p[i]) \in Streams /\ at[i].near \in Nat /\ p[i].do = "call"
      /\ End(p[i], at[i].near) \in Nat /\ Transfers(p, i)
  BY <1>1, <1>3, TransferIs, SMTT(60)
<1>5. /\ h \in DOMAIN p /\ Lane(p[h]) \in Streams /\ at[h].near \in Nat /\ Transfers(p, h)
      /\ at[h].near <= n[Lane(p[h])]
  BY <1>1, <1>3, TransferIs DEF Opened
<1>6. Fine(L, at, t, p, k, q, n, pool[t], result[t], ticket[t], ArrivedAt(t))
  BY <1>1 DEF Fits
<1>7. End(p[i], at[i].near) <= n[Lane(p[i])]
  BY <1>1, <1>2, EarlierOver
<1>8. Issued(t, p[i].call)
  BY <1>1, <1>4 DEF Issued
<1>9. ASSUME Queued(t, "copyout", p[i].call)  PROVE FALSE
  <2>1. PICK s \in Streams : \E e \in DOMAIN queue[t][s] :
           queue[t][s][e].op = "copyout" /\ queue[t][s][e].call = p[i].call
    BY <1>9 DEF Queued
  <2>2. PICK g \in DOMAIN queue[t][s] : queue[t][s][g].op = "copyout" /\ queue[t][s][g].call = p[i].call
    BY <2>1
  <2>3. g \in 1 .. Len(queue[t][s])
    <3>1. q[s] \in Seq(Ops)
      BY <1>3 DEF Logs
    <3>2. QED  BY <1>1, <2>2, <3>1
  <2>4. PICK j : j = n[s] + g
    OBVIOUS
  <2>5. j \in 1 .. Len(L[s]) /\ j > n[s] /\ n[s] \in Nat /\ L[s][j].op = "copyout" /\ L[s][j].call = p[i].call
    BY <1>1, <2>2, <2>3, <2>4, LeftIs
  <2>6. PICK m \in 1 .. k : /\ Transfers(p, m) /\ L[s][j].call = p[m].call
                            /\ Role(L[s][j], s, j, p[m], at[m].near)
    BY <1>3, <2>5, WhoseIs
  <2>7. m = i
    <3>1. m \in DOMAIN p
      BY <1>3, <2>6, TransferIs
    <3>2. QED  BY <1>3, <1>4, <2>5, <2>6, <3>1, OneStep DEF Transfers
  <2>8. s = Lane(p[i]) /\ j = at[i].near + 5 /\ p[i].dest = "fresh"
    BY <2>5, <2>6, <2>7 DEF Role
  <2>9. End(p[i], at[i].near) = at[i].near + 5
    BY <1>4, <2>8, EndIs
  <2>10. QED  BY <1>4, <1>7, <2>5, <2>8, <2>9
<1>10. ASSUME result[t][p[i].call].from[1] # "output"
       PROVE  \A u \in DOMAIN p : p[u].do = "use" /\ p[u].call = p[i].call => u < h
  <2>1. Noted(p, k, at, result[t])
    BY <1>6 DEF Fine
  <2>2. result[t][p[i].call].from = IF p[i].dest = "fresh" THEN <<"output", p[i].call>> ELSE Filled(p, i)
    BY <1>1, <1>4, <2>1 DEF Noted
  <2>3. p[i].dest # "fresh"
    BY <1>10, <2>2
  <2>4. SharesBuffer(p, i, h)
    BY <1>1, <1>3, <1>4, <1>5, <2>3, SharesWindow
  <2>5. \A u \in DOMAIN p : UsedAt(p, u, i) => u < h
    BY <1>3, <1>4, <1>5, <2>4 DEF Contract
  <2>6. QED  BY <2>5 DEF UsedAt
<1>11. ASSUME result[t][p[i].call].from[1] # "output", Queued(t, "read", p[i].call)  PROVE FALSE
  <2>1. PICK s \in Streams : \E e \in DOMAIN queue[t][s] :
           queue[t][s][e].op = "read" /\ queue[t][s][e].call = p[i].call
    BY <1>11 DEF Queued
  <2>2. PICK g \in DOMAIN queue[t][s] : queue[t][s][g].op = "read" /\ queue[t][s][g].call = p[i].call
    BY <2>1
  <2>3. g \in 1 .. Len(queue[t][s])
    <3>1. q[s] \in Seq(Ops)
      BY <1>3 DEF Logs
    <3>2. QED  BY <1>1, <2>2, <3>1
  <2>4. PICK j : j = n[s] + g
    OBVIOUS
  <2>5. j \in 1 .. Len(L[s]) /\ j > n[s] /\ n[s] \in Nat /\ L[s][j].op = "read" /\ L[s][j].call = p[i].call
    BY <1>1, <2>2, <2>3, <2>4, LeftIs
  <2>6. s = "caller"
    <3>1. Known(L, t, p, k, at, s, j)
      BY <1>3, <2>5 DEF Told
    <3>2. QED  BY <2>5, <3>1 DEF Known
  <2>7. \A u \in 1 .. k : p[u].do = "use" /\ p[u].call = L["caller"][j].call => u < h
    <3>1. \A u \in 1 .. k : u \in DOMAIN p
      BY <1>3, ProgramIs
    <3>2. QED  BY <1>10, <1>11, <2>5, <2>6, <3>1
  <2>8. Before(L, "caller", j, Lane(p[h]), at[h].near)
    <3>1. Reading(L, p, k, at)
      BY <1>6 DEF Fine
    <3>2. QED  BY <1>1, <1>5, <2>5, <2>6, <2>7, <3>1 DEF Reading
  <2>9. j <= n["caller"]
    <3>1. "caller" \in Streams /\ j \in Nat
      BY <2>5 DEF Streams
    <3>2. QED  BY <1>3, <1>5, <2>8, <3>1, WaitedBefore
  <2>10. QED  BY <2>5, <2>6, <2>9
<1>12. ASSUME result[t][p[i].call].from[1] # "output",
              NEW u \in k + 1 .. Len(p), p[u].do = "use", p[u].call = p[i].call
       PROVE  FALSE
  <2>1. u \in DOMAIN p /\ Len(p) \in Nat
    BY <1>3, <1>12, ProgramIs
  <2>2. u < h
    BY <1>10, <1>12, <2>1
  <2>3. QED  BY <1>1, <1>3, <1>12, <2>1, <2>2
<1>13. QED
  BY <1>1, <1>8, <1>9, <1>11, <1>12 DEF StillReads

\* The invariant implies that writers wait.
LEMMA WritersFollow == IInv /\ Together => WritersWait
<1>1. SUFFICES ASSUME IInv, Together, NEW r \in Ranks, NEW s \in Streams, Ready(r, s, "push"),
                      NEW i \in DOMAIN program, Transfers(program, i),
                      Filled(program, i) = Head(queue[r][s]).win, program[i].call < Head(queue[r][s]).call
               PROVE  ~ StillReads(Head(queue[r][s]).to, program[i].call)
  BY DEF WritersWait
<1>2. PICK L, at : Fits(L, at, r)
  BY <1>1 DEF IInv
<1>3. PICK h \in 1 .. pos[r] : /\ Transfers(program, h) /\ Past(program, at, ran[r], h, 1)
                               /\ Head(queue[r][s]).call = program[h].call
                               /\ Head(queue[r][s]).win = Filled(program, h) /\ Head(queue[r][s]).to \in Ranks
  BY <1>1, <1>2, PushesShare
<1>4. PICK t \in Ranks : t = Head(queue[r][s]).to
  BY <1>3
<1>5. PICK M, at2 : Fits(M, at2, t)
  BY <1>1, <1>4 DEF IInv
<1>6. PICK d \in {1, 2} : d = 1
  OBVIOUS
<1>7. h \in 1 .. pos[t] /\ Opened(program, at2, ran[t], h)
  BY <1>1, <1>2, <1>3, <1>4, <1>5, <1>6, PeersCame
<1>8. /\ Contract(program) /\ h \in DOMAIN program /\ DOMAIN program = 1 .. Len(program) /\ Len(program) \in Nat
      /\ pos[t] \in Nat /\ pos[t] <= Len(program)
  BY <1>1, <1>7, RankIs, ProgramIs
<1>9. i < h
  <2>1. program[i].call \in Nat /\ program[h].call \in Nat
    BY <1>1, <1>3, <1>8, CallIs DEF Transfers
  <2>2. h < i => program[h].call < program[i].call
    BY <1>1, <1>3, <1>8 DEF Contract, Transfers
  <2>3. program[i].call < program[h].call
    BY <1>1, <1>3
  <2>4. ~ (h < i) /\ h # i
    BY <2>1, <2>2, <2>3
  <2>5. QED  BY <1>1, <1>8, <2>4
<1>10. i \in 1 .. pos[t]
  BY <1>1, <1>7, <1>8, <1>9
<1>11. ~ StillReads(t, program[i].call)
  BY <1>1, <1>3, <1>5, <1>7, <1>9, <1>10, HasRead
<1>12. QED
  BY <1>4, <1>11

\* Safety: a rank reads a window only when every rank's copies into it have run.
\* The two barriers around a transfer order it against the writes of all ranks,
\* whatever their streams do in between.
THEOREM ReadersDoWait == Spec => []ReadersWait
<1>1. Spec => [](IInv /\ Together)
  BY Inductive, StaysTogether, PTL
<1>2. IInv /\ Together => ReadersWait
  BY ReadersFollow
<1>3. QED
  BY <1>1, <1>2, PTL

\* Safety: a copy into a rank's window runs only when that rank no longer has to
\* read from the window what an earlier transfer put there.
THEOREM WritersDoWait == Spec => []WritersWait
<1>1. Spec => [](IInv /\ Together)
  BY Inductive, StaysTogether, PTL
<1>2. IInv /\ Together => WritersWait
  BY WritersFollow
<1>3. QED
  BY <1>1, <1>2, PTL

------------------------------------------------------------------------------
(* What is in the buffers, as one rank's log tells it. *)

\* The copy o has run.
CopyRan(L, n, o) == o.op = "push" /\ \E s \in Streams : \E g \in 1 .. n[s] : o = L[s][g]

\* A copy for call c is left to run.
CopyLeft(q, c) == \E s \in Streams : \E j \in 1 .. Len(q[s]) : q[s][j].op = "push" /\ q[s][j].call = c

\* What a call's result must be.
Whole(c) == [x \in Ranks |-> c]

\* The caller's tensor holds the input that was computed last, ...
InputIs(L, n, in) ==
    \A g \in 1 .. n["caller"] :
        /\ L["caller"][g].op = "produce"
        /\ \A f \in g + 1 .. n["caller"] : L["caller"][f].op # "produce"
        => in = L["caller"][g].call

\* ... a staging buffer what was last copied into it, ...
StagedIs(L, n, st) ==
    \A g \in 1 .. n["caller"] :
        /\ L["caller"][g].op = "stage"
        /\ \A f \in g + 1 .. n["caller"] : ~ (L["caller"][f].op = "stage" /\ L["caller"][f].buf = L["caller"][g].buf)
        => st[L["caller"][g].buf] = L["caller"][g].call

\* ... this rank's part of a window the latest call it has copied there, ...
SharesAre(L, n, win) ==
    \A o : /\ CopyRan(L, n, o)
           /\ \A v : CopyRan(L, n, v) /\ v.win = o.win /\ v.to = o.to => v.call <= o.call
           => win[o.win][o.to] = o.call

\* ... a call's output tensor its result, when that was copied out.
OutputsAre(L, n, out) ==
    \A s \in Streams : \A g \in 1 .. n[s] :
        L[s][g].op = "copyout" => out[L[s][g].call] = Whole(L[s][g].call)

\* A call counts as sent from its last copy on.
SentIs(L, n, q, snt) ==
    \A c \in Calls : c \in snt <=> (\E o : CopyRan(L, n, o) /\ o.call = c) /\ ~ CopyLeft(q, c)

Stored(L, n, q, in, st, win, out, snt) ==
    /\ InputIs(L, n, in) /\ StagedIs(L, n, st) /\ SharesAre(L, n, win)
    /\ OutputsAre(L, n, out) /\ SentIs(L, n, q, snt)

\* When an operation runs, what has run is one more.
LEMMA OneMore ==
    ASSUME NEW L, NEW r, NEW p, NEW k, NEW at, NEW q, NEW n, NEW s, NEW q2, NEW n2,
           Runs(L, r, p, k, at, q, n, s, q2, n2)
    PROVE  /\ s \in Streams /\ n[s] \in Nat /\ n2[s] = n[s] + 1 /\ n[s] + 1 \in 1 .. Len(L[s])
           /\ L[s][n[s] + 1] \in Ops /\ Head(q[s]) = L[s][n[s] + 1]
           /\ \A t \in Streams : t # s => n2[t] = n[t]
           /\ \A t \in Streams : \A g \in 1 .. n2[t] : g \in 1 .. n[t] \/ (t = s /\ g = n[s] + 1)
           /\ \A t \in Streams : \A g \in 1 .. n[t] : g \in 1 .. n2[t] /\ g \in 1 .. Len(L[t])
           /\ n[s] + 1 \in 1 .. n2[s]
<1>1. /\ L \in Logs /\ q \in Logs /\ Leftover(L, q, n) /\ Steps1(q, n, s, q2, n2) /\ s \in Streams
      /\ n \in [Streams -> Nat]
  BY DEF Runs, Going, Steps1
<1>2. /\ n[s] + 1 \in 1 .. Len(L[s]) /\ Head(q[s]) = L[s][n[s] + 1] /\ n2[s] = n[s] + 1
      /\ \A t \in Streams : t # s => n2[t] = n[t]
  BY <1>1, LeftoverPops
<1>3. L[s][n[s] + 1] \in Ops
  BY <1>1, <1>2, LogIs
<1>4. ASSUME NEW t \in Streams
      PROVE  /\ \A g \in 1 .. n2[t] : g \in 1 .. n[t] \/ (t = s /\ g = n[s] + 1)
             /\ \A g \in 1 .. n[t] : g \in 1 .. n2[t] /\ g \in 1 .. Len(L[t])
  <2>1. n[t] \in Nat /\ n[t] <= Len(L[t]) /\ Len(L[t]) \in Nat
    BY <1>1, LeftoverIs
  <2>2. PICK x, y, z : x = n[t] /\ y = n2[t] /\ z = Len(L[t])
    OBVIOUS
  <2>3. y = x \/ (t = s /\ y = x + 1 /\ n[s] + 1 = y)
    BY <1>2, <2>2
  <2>4. x \in Nat /\ z \in Nat /\ x <= z
    BY <2>1, <2>2
  <2>5. /\ \A g \in 1 .. y : g \in 1 .. x \/ (t = s /\ g = y)
        /\ \A g \in 1 .. x : g \in 1 .. y /\ g \in 1 .. z
    BY <2>3, <2>4
  <2>6. QED  BY <2>2, <2>3, <2>5
<1>5. n[s] \in Nat
  BY <1>1
<1>6. n[s] + 1 \in 1 .. n2[s]
  BY <1>2, <1>5
<1>7. QED
  BY <1>1, <1>2, <1>3, <1>4, <1>5, <1>6

\* The copies that have run, and those that are left.
LEMMA CopiesTurn ==
    ASSUME NEW L, NEW r, NEW p, NEW k, NEW at, NEW q, NEW n, NEW s, NEW q2, NEW n2,
           Runs(L, r, p, k, at, q, n, s, q2, n2),
           NEW o, o = L[s][n[s] + 1]
    PROVE  /\ \A v : CopyRan(L, n2, v) <=> CopyRan(L, n, v) \/ (v = o /\ o.op = "push")
           /\ \A c : CopyLeft(q, c) <=> CopyLeft(q2, c) \/ (o.op = "push" /\ o.call = c)
<1>1. /\ s \in Streams /\ n[s] + 1 \in 1 .. n2[s]
      /\ \A t \in Streams : \A g \in 1 .. n2[t] : g \in 1 .. n[t] \/ (t = s /\ g = n[s] + 1)
      /\ \A t \in Streams : \A g \in 1 .. n[t] : g \in 1 .. n2[t]
      /\ Head(q[s]) = o
  BY OneMore
<1>2. ASSUME NEW v  PROVE CopyRan(L, n2, v) <=> CopyRan(L, n, v) \/ (v = o /\ o.op = "push")
  <2>1. ASSUME CopyRan(L, n2, v)  PROVE CopyRan(L, n, v) \/ (v = o /\ o.op = "push")
    BY <1>1, <2>1 DEF CopyRan
  <2>2. ASSUME CopyRan(L, n, v)  PROVE CopyRan(L, n2, v)
    BY <1>1, <2>2 DEF CopyRan
  <2>3. ASSUME v = o, o.op = "push"  PROVE CopyRan(L, n2, v)
    BY <1>1, <2>3 DEF CopyRan
  <2>4. QED  BY <2>1, <2>2, <2>3
<1>3. q \in Logs /\ q[s] # <<>> /\ q2 = [q EXCEPT ![s] = Tail(@)]
  BY DEF Runs, Steps1
<1>4. q[s] \in Seq(Ops) /\ DOMAIN q = Streams
  BY <1>1, <1>3 DEF Logs
<1>5. PICK a, b : a = q[s] /\ b = Tail(a)
  OBVIOUS
<1>6. q2[s] = b /\ \A t \in Streams : t # s => q2[t] = q[t]
  BY <1>1, <1>3, <1>4, <1>5
<1>7. /\ Len(a) \in Nat /\ Len(a) >= 1 /\ Len(b) = Len(a) - 1 /\ a[1] = o
      /\ \A j \in 1 .. Len(b) : b[j] = a[j + 1]
  BY <1>1, <1>3, <1>4, <1>5
<1>8. PICK x : x = Len(a)
  OBVIOUS
<1>9. /\ \A j \in 1 .. x : (j = 1 /\ a[j] = o) \/ \E i \in 1 .. Len(b) : a[j] = b[i]
      /\ \A j \in 1 .. Len(b) : \E i \in 1 .. x : b[j] = a[i]
      /\ 1 \in 1 .. x
  <2>1. x \in Nat /\ x >= 1 /\ Len(b) = x - 1
    BY <1>7, <1>8
  <2>2. ASSUME NEW j \in 1 .. x, j # 1  PROVE \E i \in 1 .. Len(b) : a[j] = b[i]
    <3>1. PICK i : i = j - 1
      OBVIOUS
    <3>2. i \in 1 .. Len(b) /\ j = i + 1
      BY <2>1, <2>2, <3>1
    <3>3. QED  BY <1>7, <3>2
  <2>3. ASSUME NEW j \in 1 .. Len(b)  PROVE \E i \in 1 .. x : b[j] = a[i]
    <3>1. j + 1 \in 1 .. x
      BY <2>1
    <3>2. QED  BY <1>7, <3>1
  <2>4. QED  BY <1>7, <2>1, <2>2, <2>3
<1>10. ASSUME NEW c  PROVE CopyLeft(q, c) <=> CopyLeft(q2, c) \/ (o.op = "push" /\ o.call = c)
  <2>1. ASSUME CopyLeft(q, c)  PROVE CopyLeft(q2, c) \/ (o.op = "push" /\ o.call = c)
    <3>1. PICK t \in Streams : \E j \in 1 .. Len(q[t]) : q[t][j].op = "push" /\ q[t][j].call = c
      BY <2>1 DEF CopyLeft
    <3>2. CASE t # s
      BY <1>6, <3>1, <3>2 DEF CopyLeft
    <3>3. CASE t = s
      <4>1. PICK j \in 1 .. x : a[j].op = "push" /\ a[j].call = c
        BY <1>5, <1>8, <3>1, <3>3
      <4>2. CASE a[j] = o
        BY <4>1, <4>2
      <4>3. CASE \E i \in 1 .. Len(b) : a[j] = b[i]
        BY <1>1, <1>6, <4>1, <4>3 DEF CopyLeft
      <4>4. QED  BY <1>9, <4>2, <4>3
    <3>4. QED  BY <3>2, <3>3
  <2>2. ASSUME CopyLeft(q2, c)  PROVE CopyLeft(q, c)
    <3>1. PICK t \in Streams : \E j \in 1 .. Len(q2[t]) : q2[t][j].op = "push" /\ q2[t][j].call = c
      BY <2>2 DEF CopyLeft
    <3>2. CASE t # s
      BY <1>6, <3>1, <3>2 DEF CopyLeft
    <3>3. CASE t = s
      <4>1. PICK j \in 1 .. Len(b) : b[j].op = "push" /\ b[j].call = c
        BY <1>6, <3>1, <3>3
      <4>2. PICK i \in 1 .. x : b[j] = a[i]
        BY <1>9
      <4>3. QED  BY <1>1, <1>5, <1>8, <4>1, <4>2 DEF CopyLeft
    <3>4. QED  BY <3>2, <3>3
  <2>3. ASSUME o.op = "push", o.call = c  PROVE CopyLeft(q, c)
    BY <1>1, <1>5, <1>7, <1>8, <1>9, <2>3 DEF CopyLeft
  <2>4. QED  BY <2>1, <2>2, <2>3
<1>11. QED
  BY <1>2, <1>10

\* The part of an operation of the caller's stream, or of a copy-out.
LEMMA PartIs ==
    ASSUME NEW L, NEW r, NEW p, NEW k, NEW at, NEW q, NEW n, Going(L, r, p, k, at, q, n),
           NEW s \in Streams, NEW g \in 1 .. Len(L[s])
    PROVE  /\ L[s][g].op \in {"stage", "produce", "read"} => s = "caller"
           /\ L[s][g].op = "stage" => L[s][g].buf \in Buffers
           /\ L[s][g].op \in {"push", "copyout"} => L[s][g].call \in Calls /\ L[s][g].win \in Windows
<1>1. /\ Contract(p) /\ r \in Ranks /\ k \in Nat /\ k <= Len(p) /\ Told(L, r, p, k, at)
  BY DEF Going
<1>2. Known(L, r, p, k, at, s, g)
  BY <1>1 DEF Told
<1>3. ASSUME L[s][g].op \in {"push", "copyout"}  PROVE L[s][g].call \in Calls /\ L[s][g].win \in Windows
  <2>1. PICK i \in 1 .. k : Transfers(p, i) /\ L[s][g].win = Filled(p, i) /\ L[s][g].call = p[i].call
    BY <1>1, <1>3, WhoseIs
  <2>2. QED  BY <1>1, <2>1, TransferIs
<1>4. QED
  BY <1>2, <1>3 DEF Known

\* The caller's tensor, when an operation runs.
LEMMA InputRuns ==
    ASSUME NEW L, NEW r, NEW p, NEW k, NEW at, NEW q, NEW n, NEW s, NEW q2, NEW n2,
           Runs(L, r, p, k, at, q, n, s, q2, n2),
           NEW o, o = L[s][n[s] + 1], NEW in, InputIs(L, n, in), NEW in2,
           in2 = IF o.op = "produce" THEN o.call ELSE in
    PROVE  InputIs(L, n2, in2)
<1>1. /\ s \in Streams /\ n[s] \in Nat /\ n2[s] = n[s] + 1 /\ n[s] + 1 \in 1 .. Len(L[s])
      /\ \A t \in Streams : t # s => n2[t] = n[t]
      /\ Going(L, r, p, k, at, q, n) /\ "caller" \in Streams
  BY OneMore DEF Runs, Streams
<1>2. o.op = "produce" => s = "caller"
  BY <1>1, PartIs
<1>3. CASE s # "caller"
  BY <1>1, <1>2, <1>3 DEF InputIs
<1>4. CASE s = "caller"
  <2>1. SUFFICES ASSUME NEW g \in 1 .. n2["caller"], L["caller"][g].op = "produce",
                        \A f \in g + 1 .. n2["caller"] : L["caller"][f].op # "produce"
                 PROVE  in2 = L["caller"][g].call
    BY DEF InputIs
  <2>2. PICK x : x = n["caller"]
    OBVIOUS
  <2>3. x \in Nat /\ n2["caller"] = x + 1 /\ o = L["caller"][x + 1]
    BY <1>1, <1>4, <2>2
  <2>4. CASE g = x + 1
    BY <2>1, <2>3, <2>4
  <2>5. CASE g # x + 1
    <3>1. g \in 1 .. x /\ x + 1 \in g + 1 .. x + 1 /\ \A f \in g + 1 .. x : f \in g + 1 .. x + 1
      BY <2>3, <2>5
    <3>2. o.op # "produce" /\ \A f \in g + 1 .. x : L["caller"][f].op # "produce"
      BY <2>1, <2>3, <3>1
    <3>3. in = L["caller"][g].call
      BY <2>1, <2>2, <3>1, <3>2 DEF InputIs
    <3>4. QED  BY <3>2, <3>3
  <2>6. QED  BY <2>4, <2>5
<1>5. QED
  BY <1>3, <1>4

\* What is staged is the call's own input: nothing was computed since.
LEMMA StagesInput ==
    ASSUME NEW L, NEW r, NEW p, NEW k, NEW at, NEW q, NEW n, NEW s, NEW q2, NEW n2,
           Runs(L, r, p, k, at, q, n, s, q2, n2),
           L[s][n[s] + 1].op = "stage", NEW in, InputIs(L, n, in), StagedInTurn(L)
    PROVE  in = L[s][n[s] + 1].call /\ s = "caller" /\ L[s][n[s] + 1].buf \in Buffers
<1>1. s \in Streams /\ n[s] \in Nat /\ n[s] + 1 \in 1 .. Len(L[s]) /\ Going(L, r, p, k, at, q, n)
  BY OneMore DEF Runs
<1>2. s = "caller" /\ L[s][n[s] + 1].buf \in Buffers
  BY <1>1, PartIs
<1>3. PICK x : x = n["caller"]
  OBVIOUS
<1>4. PICK g : g = x + 1
  OBVIOUS
<1>5. x \in Nat /\ g \in 1 .. Len(L["caller"]) /\ L["caller"][g].op = "stage"
  BY <1>1, <1>2, <1>3, <1>4
<1>6. /\ g > 1 /\ L["caller"][g - 1].op = "produce" /\ L["caller"][g - 1].call = L["caller"][g].call
  BY <1>5 DEF StagedInTurn
<1>7. g - 1 = x /\ x \in 1 .. x /\ \A f \in x + 1 .. x : L["caller"][f].op # "produce"
  BY <1>4, <1>5, <1>6
<1>8. in = L["caller"][x].call
  BY <1>3, <1>6, <1>7 DEF InputIs
<1>9. QED
  BY <1>2, <1>3, <1>4, <1>6, <1>7, <1>8

\* The staging buffers, when an operation runs.
LEMMA StagedRuns ==
    ASSUME NEW L, NEW r, NEW p, NEW k, NEW at, NEW q, NEW n, NEW s, NEW q2, NEW n2,
           Runs(L, r, p, k, at, q, n, s, q2, n2),
           NEW o, o = L[s][n[s] + 1], NEW st, StagedIs(L, n, st), NEW st2,
           o.op = "stage" => st2[o.buf] = o.call /\ \A m \in Buffers : m # o.buf => st2[m] = st[m],
           o.op # "stage" => st2 = st
    PROVE  StagedIs(L, n2, st2)
<1>1. /\ s \in Streams /\ n[s] \in Nat /\ n2[s] = n[s] + 1 /\ n[s] + 1 \in 1 .. Len(L[s])
      /\ \A t \in Streams : t # s => n2[t] = n[t]
      /\ Going(L, r, p, k, at, q, n) /\ "caller" \in Streams
      /\ \A g \in 1 .. n["caller"] : g \in 1 .. Len(L["caller"])
  BY OneMore DEF Runs, Streams
<1>2. o.op = "stage" => s = "caller"
  BY <1>1, PartIs
<1>3. CASE s # "caller"
  BY <1>1, <1>2, <1>3, SMTT(60) DEF StagedIs
<1>4. CASE s = "caller"
  <2>1. SUFFICES ASSUME NEW g \in 1 .. n2["caller"], L["caller"][g].op = "stage",
                        \A f \in g + 1 .. n2["caller"] :
                            ~ (L["caller"][f].op = "stage" /\ L["caller"][f].buf = L["caller"][g].buf)
                 PROVE  st2[L["caller"][g].buf] = L["caller"][g].call
    BY DEF StagedIs
  <2>2. PICK x : x = n["caller"]
    OBVIOUS
  <2>3. x \in Nat /\ n2["caller"] = x + 1 /\ o = L["caller"][x + 1]
    BY <1>1, <1>4, <2>2
  <2>4. CASE g = x + 1
    BY <2>1, <2>3, <2>4
  <2>5. CASE g # x + 1
    <3>1. g \in 1 .. x /\ x + 1 \in g + 1 .. x + 1 /\ \A f \in g + 1 .. x : f \in g + 1 .. x + 1
      BY <2>3, <2>5
    <3>2. /\ ~ (o.op = "stage" /\ o.buf = L["caller"][g].buf)
          /\ \A f \in g + 1 .. x : ~ (L["caller"][f].op = "stage" /\ L["caller"][f].buf = L["caller"][g].buf)
      BY <2>1, <2>3, <3>1
    <3>3. st[L["caller"][g].buf] = L["caller"][g].call
      BY <2>1, <2>2, <3>1, <3>2 DEF StagedIs
    <3>4. L["caller"][g].buf \in Buffers
      BY <1>1, <2>1, <2>2, <3>1, PartIs
    <3>5. QED  BY <3>2, <3>3, <3>4
  <2>6. QED  BY <2>4, <2>5
<1>5. QED
  BY <1>3, <1>4

\* The outputs, when an operation runs.
LEMMA OutputsRun ==
    ASSUME NEW L, NEW r, NEW p, NEW k, NEW at, NEW q, NEW n, NEW s, NEW q2, NEW n2,
           Runs(L, r, p, k, at, q, n, s, q2, n2),
           NEW o, o = L[s][n[s] + 1], NEW out, OutputsAre(L, n, out), NEW out2,
           o.op = "copyout" => /\ out2[o.call] = Whole(o.call)
                               /\ \A c \in Calls : c # o.call => out2[c] = out[c],
           o.op # "copyout" => out2 = out
    PROVE  OutputsAre(L, n2, out2)
<1>1. /\ Going(L, r, p, k, at, q, n)
      /\ \A t \in Streams : \A g \in 1 .. n2[t] : g \in 1 .. n[t] \/ (t = s /\ g = n[s] + 1)
      /\ \A t \in Streams : \A g \in 1 .. n[t] : g \in 1 .. Len(L[t])
  BY OneMore DEF Runs
<1>2. SUFFICES ASSUME NEW t \in Streams, NEW g \in 1 .. n2[t], L[t][g].op = "copyout"
               PROVE  out2[L[t][g].call] = Whole(L[t][g].call)
  BY DEF OutputsAre
<1>3. CASE t = s /\ g = n[s] + 1
  BY <1>2, <1>3
<1>4. CASE g \in 1 .. n[t]
  <2>1. out[L[t][g].call] = Whole(L[t][g].call)
    BY <1>2, <1>4 DEF OutputsAre
  <2>2. L[t][g].call \in Calls
    BY <1>1, <1>2, <1>4, PartIs
  <2>3. CASE o.op = "copyout" /\ L[t][g].call = o.call
    BY <2>3
  <2>4. CASE ~ (o.op = "copyout" /\ L[t][g].call = o.call)
    BY <2>1, <2>2, <2>4
  <2>5. QED  BY <2>3, <2>4
<1>5. QED
  BY <1>1, <1>3, <1>4

\* A copy that has run is some step's, whose opening barrier was left before.
LEMMA CopyRanIs ==
    ASSUME NEW L, NEW r, NEW p, NEW k, NEW at, NEW q, NEW n, Going(L, r, p, k, at, q, n), NEW v, CopyRan(L, n, v)
    PROVE  /\ v \in Ops /\ v.win \in Windows /\ v.call \in Calls
           /\ \E i \in 1 .. k : /\ Transfers(p, i) /\ v.win = Filled(p, i) /\ v.call = p[i].call
                                /\ Opened(p, at, n, i) /\ Past(p, at, n, i, 1)
<1>1. /\ Contract(p) /\ r \in Ranks /\ k \in Nat /\ k <= Len(p) /\ Told(L, r, p, k, at) /\ L \in Logs
      /\ q \in Logs /\ n \in [Streams -> Nat] /\ Leftover(L, q, n) /\ Waited(L, n)
  BY DEF Going
<1>2. PICK s \in Streams : \E g \in 1 .. n[s] : v = L[s][g] /\ v.op = "push"
  BY DEF CopyRan
<1>3. PICK g \in 1 .. n[s] : v = L[s][g] /\ v.op = "push"
  BY <1>2
<1>4. n[s] \in Nat /\ Len(L[s]) \in Nat /\ n[s] <= Len(L[s])
  BY <1>1, LeftoverIs
<1>5. g \in 1 .. Len(L[s])
  BY <1>4
<1>6. PICK i \in 1 .. k : /\ Within(r, p, at, s, g, i) /\ Transfers(p, i)
                          /\ L[s][g].win = Filled(p, i) /\ L[s][g].call = p[i].call
                          /\ Role(L[s][g], s, g, p[i], at[i].near)
  BY <1>1, <1>3, <1>5, WhoseIs
<1>7. /\ Lane(p[i]) \in Streams /\ at[i].near \in Nat /\ at[i].far \in Nat /\ Filled(p, i) \in Windows
      /\ p[i].call \in Calls /\ Laid(L, r, p, at, i)
  BY <1>1, <1>6, TransferIs
<1>8. at[i].near <= n[Lane(p[i])] /\ at[i].near + 1 <= n[Lane(p[i])]
  <2>1. PICK near, far, x, y : near = at[i].near /\ far = at[i].far /\ x = n[s] /\ y = n[Lane(p[i])]
    OBVIOUS
  <2>2. near \in Nat /\ far \in Nat /\ x \in Nat /\ y \in Nat /\ g \in 1 .. x
    BY <1>1, <1>4, <1>7, <2>1
  <2>3. CASE s = "xfer"
    <3>1. g - far \in 1 .. Copied(r)
      BY <1>6, <2>1, <2>3, Zenon DEF Within
    <3>2. Copied(r) \in Nat
      BY <1>1, CopiedIs
    <3>3. PICK c : c = Copied(r)
      OBVIOUS
    <3>4. far + 1 \in 1 .. x
      BY <2>2, <3>1, <3>2, <3>3
    <3>5. PICK h : h = far + 1
      BY SMTT(60)
    <3>6. L["xfer"][h].on = Lane(p[i]) /\ L["xfer"][h].upto >= near + 1 /\ h \in 1 .. n["xfer"]
      BY <1>7, <2>1, <2>3, <3>4, <3>5 DEF Laid
    <3>7. n[L["xfer"][h].on] >= L["xfer"][h].upto
      BY <1>1, <1>2, <2>3, <3>6 DEF Waited
    <3>8. L["xfer"][h].upto \in Nat
      <4>1. h \in 1 .. Len(L["xfer"])
        BY <1>4, <2>3, <3>6
      <4>2. L["xfer"][h] \in Ops
        BY <1>1, <2>3, <4>1, LogIs
      <4>3. QED  BY <4>2, OpIs
    <3>9. PICK u : u = L["xfer"][h].upto
      OBVIOUS
    <3>10. u >= near + 1 /\ y >= u /\ u \in Nat
      BY <2>1, <3>6, <3>7, <3>8, <3>9
    <3>11. near <= y /\ near + 1 <= y
      BY <2>2, <3>10
    <3>12. QED  BY <2>1, <3>11
  <2>4. CASE s # "xfer"
    <3>1. s = Lane(p[i]) /\ g = near + 2
      BY <1>3, <1>6, <2>1, <2>4 DEF Role
    <3>2. near <= x /\ near + 1 <= x
      BY <2>2, <3>1
    <3>3. QED  BY <2>1, <3>1, <3>2
  <2>5. QED  BY <2>3, <2>4
<1>9. v \in Ops
  BY <1>1, <1>3, <1>5, LogIs, SMTT(60)
<1>10. QED
  BY <1>3, <1>6, <1>7, <1>8, <1>9 DEF Opened, Past

\* The copy that is next: its step has begun and not been closed.
LEMMA CopyNext ==
    ASSUME NEW L, NEW r, NEW p, NEW k, NEW at, NEW q, NEW n, NEW s, NEW q2, NEW n2,
           Runs(L, r, p, k, at, q, n, s, q2, n2),
           L[s][n[s] + 1].op = "push"
    PROVE  \E i \in 1 .. k :
              /\ Transfers(p, i) /\ Within(r, p, at, s, n[s] + 1, i)
              /\ L[s][n[s] + 1].win = Filled(p, i) /\ L[s][n[s] + 1].call = p[i].call
              /\ Role(L[s][n[s] + 1], s, n[s] + 1, p[i], at[i].near)
              /\ L[s][n[s] + 1].buf = L[Lane(p[i])][at[i].near + 2].buf
              /\ ~ Closed(p, at, n, i) /\ Opened(p, at, n2, i)
<1>1. /\ Going(L, r, p, k, at, q, n)
      /\ Contract(p) /\ r \in Ranks /\ k \in Nat /\ k <= Len(p) /\ Told(L, r, p, k, at)
  BY DEF Runs, Going
<1>2. s \in Streams /\ n[s] \in Nat /\ n[s] + 1 \in 1 .. Len(L[s]) /\ n[s] + 1 \in 1 .. n2[s]
  BY OneMore
<1>3. PICK g : g = n[s] + 1
  OBVIOUS
<1>4. PICK i \in 1 .. k : /\ Within(r, p, at, s, g, i) /\ Transfers(p, i)
                          /\ L[s][g].win = Filled(p, i) /\ L[s][g].call = p[i].call
                          /\ Role(L[s][g], s, g, p[i], at[i].near)
                          /\ L[s][g].buf = L[Lane(p[i])][at[i].near + 2].buf
  <2>1. g \in 1 .. Len(L[s]) /\ L[s][g].op = "push"
    BY <1>2, <1>3
  <2>2. QED  BY <1>1, <1>2, <2>1, WhoseIs, SMTT(60)
<1>5. ~ Closed(p, at, n, i)
  <2>1. g \in Nat /\ g > n[s] /\ L[s][g].op = "push"
    BY <1>2, <1>3
  <2>2. QED  BY <1>1, <1>2, <1>4, <2>1, ClosedSent
<1>6. Opened(p, at, n2, i)
  <2>1. CopyRan(L, n2, L[s][g])
    BY <1>2, <1>3 DEF CopyRan
  <2>2. Going(L, r, p, k, at, q2, n2)
    BY GoingOn
  <2>3. PICK j \in 1 .. k : Transfers(p, j) /\ L[s][g].call = p[j].call /\ Opened(p, at, n2, j)
    BY <2>1, <2>2, CopyRanIs
  <2>4. i \in DOMAIN p /\ j \in DOMAIN p
    BY <1>1, <1>4, <2>3, TransferIs
  <2>5. i = j
    BY <1>1, <1>4, <2>3, <2>4, OneStep DEF Transfers
  <2>6. QED  BY <2>3, <2>5
<1>7. QED
  BY <1>3, <1>4, <1>5, <1>6

\* It is the latest into its window.
LEMMA CopiesInOrder ==
    ASSUME NEW L, NEW r, NEW p, NEW k, NEW at, NEW q, NEW n, NEW s, NEW q2, NEW n2,
           Runs(L, r, p, k, at, q, n, s, q2, n2),
           L[s][n[s] + 1].op = "push", NEW v, CopyRan(L, n, v), v.win = L[s][n[s] + 1].win
    PROVE  v.call <= L[s][n[s] + 1].call
<1>1. /\ Going(L, r, p, k, at, q, n)
      /\ Contract(p) /\ r \in Ranks /\ k \in Nat /\ k <= Len(p) /\ Told(L, r, p, k, at) /\ n \in [Streams -> Nat]
  BY DEF Runs, Going
<1>2. PICK i \in 1 .. k : /\ Transfers(p, i) /\ L[s][n[s] + 1].win = Filled(p, i)
                          /\ L[s][n[s] + 1].call = p[i].call /\ ~ Closed(p, at, n, i)
  BY CopyNext
<1>3. PICK j \in 1 .. k : /\ Transfers(p, j) /\ v.win = Filled(p, j) /\ v.call = p[j].call /\ Opened(p, at, n, j)
  BY <1>1, CopyRanIs
<1>4. /\ i \in DOMAIN p /\ j \in DOMAIN p /\ p[i].call \in Calls /\ p[j].call \in Calls
      /\ at[i].near \in Nat /\ End(p[i], at[i].near) \in Nat /\ End(p[i], at[i].near) >= at[i].near + 4
      /\ Lane(p[i]) \in Streams
  BY <1>1, <1>2, <1>3, TransferIs, SMTT(60)
<1>5. ~ (i < j)
  <2>1. SUFFICES ASSUME i < j  PROVE FALSE
    OBVIOUS
  <2>2. End(p[i], at[i].near) <= n[Lane(p[i])]
    BY <1>1, <1>2, <1>3, <2>1, EarlierOver
  <2>3. PICK near, e, y : near = at[i].near /\ e = End(p[i], at[i].near) /\ y = n[Lane(p[i])]
    OBVIOUS
  <2>4. near \in Nat /\ e \in Nat /\ y \in Nat /\ e >= near + 4 /\ e <= y
    BY <1>1, <1>4, <2>2, <2>3
  <2>5. near + 3 <= y
    BY <2>4
  <2>6. QED  BY <1>2, <2>3, <2>5 DEF Closed
<1>6. CASE i = j
  BY <1>2, <1>3, <1>4, <1>6 DEF Calls
<1>7. CASE j < i
  BY <1>1, <1>2, <1>3, <1>4, <1>7, SMTT(60) DEF Contract, Transfers, Calls
<1>8. QED
  BY <1>1, <1>5, <1>6, <1>7

\* What it copies is its call's own input: the caller's tensor and the staging
\* buffer are used again only when the call's copies have run.
LEMMA CopiesInput ==
    ASSUME NEW L, NEW r, NEW p, NEW k, NEW at, NEW q, NEW n, NEW s, NEW q2, NEW n2,
           Runs(L, r, p, k, at, q, n, s, q2, n2),
           NEW o, o = L[s][n[s] + 1], o.op = "push", NEW in, InputIs(L, n, in), NEW st, StagedIs(L, n, st),
           Restaged(L, p, k, at, n), StagedInTurn(L)
    PROVE  (IF o.buf = 0 THEN in ELSE st[o.buf]) = o.call
<1>1. /\ Going(L, r, p, k, at, q, n) /\ L \in Logs /\ q \in Logs /\ Leftover(L, q, n) /\ Waited(L, n)
      /\ Contract(p) /\ r \in Ranks /\ k \in Nat /\ k <= Len(p) /\ Told(L, r, p, k, at) /\ n \in [Streams -> Nat]
  BY DEF Runs, Going
<1>2. PICK i \in 1 .. k : /\ Transfers(p, i) /\ o.call = p[i].call /\ ~ Closed(p, at, n, i) /\ Opened(p, at, n2, i)
                          /\ o.buf = L[Lane(p[i])][at[i].near + 2].buf
                          /\ Role(o, s, n[s] + 1, p[i], at[i].near)
  BY CopyNext
<1>3. /\ i \in DOMAIN p /\ Lane(p[i]) \in Streams /\ Lane(p[i]) \in {"caller", "comm"}
      /\ at[i].near \in Nat /\ at[i].near >= 1 /\ Laid(L, r, p, at, i) /\ p[i].async \in BOOLEAN
      /\ p[i].call \in Calls
  BY <1>1, <1>2, TransferIs
<1>4. PICK a, y : a = at[i].near /\ y = n[Lane(p[i])]
  OBVIOUS
<1>5. a \in Nat /\ a >= 1 /\ y \in Nat /\ a <= y /\ ~ (a + 3 <= y)
  <2>1. a \in Nat /\ a >= 1 /\ y \in Nat /\ ~ (a + 3 <= y)
    BY <1>1, <1>2, <1>3, <1>4 DEF Closed
  <2>2. CASE s = Lane(p[i])
    <3>1. n[s] + 1 = a + 2
      BY <1>2, <1>3, <1>4, <2>2 DEF Role
    <3>2. QED  BY <1>4, <2>1, <2>2, <3>1
  <2>3. CASE s # Lane(p[i])
    <3>1. n2[Lane(p[i])] = n[Lane(p[i])]
      BY <1>3, <2>3, OneMore
    <3>2. QED  BY <1>2, <1>4, <2>1, <3>1 DEF Opened
  <2>4. QED  BY <2>2, <2>3
<1>6. CASE ~ p[i].async
  <2>1. Lane(p[i]) = "caller"
    BY <1>6, SMTT(60) DEF Lane
  <2>2. /\ L["caller"][a].op = "arrive" /\ L["caller"][a + 1].op = "leave" /\ L["caller"][a + 2].op = "push"
    BY <1>3, <1>4, <2>1, SMTT(60) DEF Laid, OwnShare
  <2>3. o.buf = 0 /\ a >= 2 /\ L["caller"][a - 1].op = "produce" /\ L["caller"][a - 1].call = p[i].call
    BY <1>2, <1>3, <1>4, <1>6, <2>1 DEF Laid, Given
  <2>4. PICK g : g = a - 1
    OBVIOUS
  <2>5. g \in 1 .. y /\ \A f \in g + 1 .. y : f = a \/ f = a + 1 \/ f = a + 2
    BY <1>5, <2>3, <2>4
  <2>6. \A f \in g + 1 .. y : L["caller"][f].op # "produce"
    BY <2>2, <2>5
  <2>7. in = L["caller"][g].call
    BY <1>4, <2>1, <2>3, <2>4, <2>5, <2>6 DEF InputIs
  <2>8. QED  BY <1>2, <2>3, <2>4, <2>7
<1>7. CASE p[i].async
  <2>1. Lane(p[i]) = "comm" /\ "caller" \in Streams /\ "comm" \in Streams
    BY <1>7 DEF Lane, Streams
  <2>2. PICK u : u = L["comm"][a].upto
    BY SMTT(60)
  <2>3. /\ L["comm"][a].on = "caller" /\ u \in 2 .. Len(L["caller"])
        /\ L["caller"][u].op = "stage" /\ L["caller"][u].call = o.call /\ L["caller"][u].buf = o.buf
        /\ o.buf \in Buffers
    BY <1>2, <1>3, <1>4, <1>7, <2>1, <2>2, Zenon DEF Laid, Given
  <2>4. PICK x, l : x = n["caller"] /\ l = Len(L["caller"])
    OBVIOUS
  <2>5. x \in Nat /\ l \in Nat /\ x <= l
    BY <1>1, <2>1, <2>4, LeftoverIs
  <2>6. x >= u
    <3>1. a \in 1 .. n["comm"]
      BY <1>4, <1>5, <2>1
    <3>2. n[L["comm"][a].on] >= L["comm"][a].upto
      BY <1>1, <2>1, <3>1 DEF Waited
    <3>3. QED  BY <2>2, <2>3, <2>4, <3>2
  <2>7. u \in 1 .. x
    BY <2>3, <2>4, <2>5, <2>6
  <2>8. ASSUME NEW f \in u + 1 .. x, L["caller"][f].op = "stage", L["caller"][f].buf = o.buf
        PROVE  FALSE
    <3>1. f \in Nat /\ f \in 1 .. l /\ u \in 1 .. f - 1 /\ f <= x
      BY <2>5, <2>7, <2>8
    <3>2. L["caller"][u].call < L["caller"][f].call
      BY <2>3, <2>4, <2>8, <3>1 DEF StagedInTurn
    <3>3. BufferOf(L, p, at, i) = L["caller"][f].buf
      BY <1>2, <2>1, <2>8 DEF BufferOf
    <3>4. Closed(p, at, n, i) \/ Before(L, "comm", a + 3, "caller", f)
      BY <1>2, <1>4, <1>7, <2>3, <2>4, <2>8, <3>1, <3>2, <3>3 DEF Restaged
    <3>5. Before(L, "comm", a + 3, "caller", f)
      BY <1>2, <3>4
    <3>6. PICK b : b = a + 3
      OBVIOUS
    <3>7. b \in Nat /\ f <= n["caller"]
      BY <1>5, <2>4, <3>1, <3>6
    <3>8. b <= n["comm"]
      BY <1>1, <2>1, <3>1, <3>5, <3>6, <3>7, WaitedBefore
    <3>9. QED  BY <1>4, <1>5, <2>1, <3>6, <3>8
  <2>9. st[L["caller"][u].buf] = L["caller"][u].call
    BY <2>3, <2>4, <2>7, <2>8 DEF StagedIs
  <2>10. o.buf # 0
    BY <2>3 DEF Buffers
  <2>11. QED  BY <2>3, <2>9, <2>10
<1>8. QED
  BY <1>3, <1>6, <1>7

\* The windows, when an operation runs.
LEMMA SharesRun ==
    ASSUME NEW L, NEW r, NEW p, NEW k, NEW at, NEW q, NEW n, NEW s, NEW q2, NEW n2,
           Runs(L, r, p, k, at, q, n, s, q2, n2),
           NEW o, o = L[s][n[s] + 1], NEW win, SharesAre(L, n, win), NEW win2,
           o.op = "push" => /\ win2[o.win][o.to] = o.call
                            /\ \A w \in Windows, x \in Ranks : w # o.win \/ x # o.to => win2[w][x] = win[w][x],
           o.op # "push" => win2 = win
    PROVE  SharesAre(L, n2, win2)
<1>1. Going(L, r, p, k, at, q, n)
  BY DEF Runs
<1>2. \A v : CopyRan(L, n2, v) <=> CopyRan(L, n, v) \/ (v = o /\ o.op = "push")
  BY CopiesTurn
<1>3. SUFFICES ASSUME NEW v, CopyRan(L, n2, v),
                      \A u : CopyRan(L, n2, u) /\ u.win = v.win /\ u.to = v.to => u.call <= v.call
               PROVE  win2[v.win][v.to] = v.call
  BY DEF SharesAre
<1>4. CASE v = o /\ o.op = "push"
  BY <1>4
<1>5. CASE CopyRan(L, n, v)
  <2>1. win[v.win][v.to] = v.call
    BY <1>2, <1>3, <1>5 DEF SharesAre
  <2>2. v \in Ops /\ v.win \in Windows /\ v.to \in Ranks /\ v.call \in Calls
    BY <1>1, <1>5, CopyRanIs, OpIs, SMTT(60)
  <2>3. CASE o.op = "push" /\ v.win = o.win /\ v.to = o.to
    <3>1. CopyRan(L, n2, o)
      BY <1>2, <2>3, SMTT(60)
    <3>2. o.call <= v.call
      BY <1>3, <2>3, <3>1, SMTT(60)
    <3>3. v.call <= o.call
      BY <1>5, <2>3, CopiesInOrder
    <3>4. o.call \in Calls
      <4>1. Going(L, r, p, k, at, q2, n2)
        BY GoingOn
      <4>2. QED  BY <3>1, <4>1, CopyRanIs
    <3>5. o.call = v.call
      BY <2>2, <3>2, <3>3, <3>4 DEF Calls
    <3>6. QED  BY <2>3, <3>5, SMTT(60)
  <2>4. CASE ~ (o.op = "push" /\ v.win = o.win /\ v.to = o.to)
    BY <2>1, <2>2, <2>4
  <2>5. QED  BY <2>3, <2>4
<1>6. QED
  BY <1>2, <1>3, <1>4, <1>5

\* Where a copy of a step goes.
LEMMA CopyGoesTo ==
    ASSUME NEW L, NEW r, NEW p, NEW k, NEW at, NEW q, NEW n, Going(L, r, p, k, at, q, n),
           NEW s \in Streams, NEW g \in 1 .. Len(L[s]), L[s][g].op = "push"
    PROVE  \E i \in 1 .. k :
              /\ Transfers(p, i) /\ L[s][g].call = p[i].call /\ g \in Nat
              /\ \/ /\ s = "xfer" /\ g - at[i].far \in 1 .. Copied(r)
                    /\ L[s][g].to = PeerOrder(r, WorldSize)[g - at[i].far]
                 \/ s = Lane(p[i]) /\ s # "xfer" /\ g = at[i].near + 2 /\ L[s][g].to = r
<1>1. /\ Contract(p) /\ r \in Ranks /\ k \in Nat /\ k <= Len(p) /\ Told(L, r, p, k, at) /\ L \in Logs
  BY DEF Going
<1>2. PICK i \in 1 .. k : /\ Within(r, p, at, s, g, i) /\ Transfers(p, i) /\ L[s][g].call = p[i].call
                          /\ Role(L[s][g], s, g, p[i], at[i].near)
  BY <1>1, WhoseIs
<1>3. Laid(L, r, p, at, i) /\ at[i].far \in Nat /\ Lane(p[i]) \in {"caller", "comm"}
  BY <1>1, <1>2, TransferIs
<1>4. Len(L[s]) \in Nat
  BY <1>1, LogIs
<1>5. g \in Nat
  BY <1>4
<1>6. CASE s = "xfer"
  <2>1. PICK x, c : x = at[i].far /\ c = g - x
    OBVIOUS
  <2>2. c \in 1 .. Copied(r)
    BY <1>2, <1>6, <2>1, ZenonT(60) DEF Within
  <2>3. L["xfer"][x + c].to = PeerOrder(r, WorldSize)[c]
    BY <1>3, <2>1, <2>2 DEF Laid, RemoteShares
  <2>4. x + c = g
    BY <1>3, <1>5, <2>1
  <2>5. QED  BY <1>2, <1>5, <1>6, <2>1, <2>2, <2>3, <2>4
<1>7. CASE s # "xfer"
  <2>1. s = Lane(p[i]) /\ g = at[i].near + 2
    BY <1>2, <1>7, SMTT(60) DEF Role
  <2>2. L[Lane(p[i])][at[i].near + 2].to = r
    BY <1>3 DEF Laid, OwnShare
  <2>3. QED  BY <1>2, <1>5, <1>7, <2>1, <2>2
<1>8. QED
  BY <1>6, <1>7

\* The copies of one call go to different ranks.
LEMMA CopiesApart ==
    ASSUME NEW L, NEW r, NEW p, NEW k, NEW at, NEW q, NEW n, Going(L, r, p, k, at, q, n),
           NEW s \in Streams, NEW g \in 1 .. Len(L[s]), L[s][g].op = "push",
           NEW t \in Streams, NEW h \in 1 .. Len(L[t]), L[t][h].op = "push",
           L[s][g].call = L[t][h].call, L[s][g].to = L[t][h].to
    PROVE  s = t /\ g = h
<1>1. /\ Contract(p) /\ r \in Ranks /\ k \in Nat /\ k <= Len(p) /\ Told(L, r, p, k, at)
  BY DEF Going
<1>2. PICK i \in 1 .. k :
              /\ Transfers(p, i) /\ L[s][g].call = p[i].call /\ g \in Nat
              /\ \/ /\ s = "xfer" /\ g - at[i].far \in 1 .. Copied(r)
                    /\ L[s][g].to = PeerOrder(r, WorldSize)[g - at[i].far]
                 \/ s = Lane(p[i]) /\ s # "xfer" /\ g = at[i].near + 2 /\ L[s][g].to = r
  BY CopyGoesTo
<1>3. PICK j \in 1 .. k :
              /\ Transfers(p, j) /\ L[t][h].call = p[j].call /\ h \in Nat
              /\ \/ /\ t = "xfer" /\ h - at[j].far \in 1 .. Copied(r)
                    /\ L[t][h].to = PeerOrder(r, WorldSize)[h - at[j].far]
                 \/ t = Lane(p[j]) /\ t # "xfer" /\ h = at[j].near + 2 /\ L[t][h].to = r
  BY CopyGoesTo
<1>4. i \in DOMAIN p /\ j \in DOMAIN p /\ at[i].far \in Nat
  BY <1>1, <1>2, <1>3, TransferIs, SMTT(60)
<1>5. i = j
  BY <1>1, <1>2, <1>3, <1>4, OneStep DEF Transfers
<1>6. PICK a, b, x : a = g - at[i].far /\ b = h - at[i].far /\ x = at[i].far
  OBVIOUS
<1>7. /\ \A c \in 1 .. Copied(r) : PeerOrder(r, WorldSize)[c] \in Ranks \ {r}
      /\ \A c, d \in 1 .. Copied(r) : PeerOrder(r, WorldSize)[c] = PeerOrder(r, WorldSize)[d] => c = d
  BY <1>1, CopiedIs
<1>8. CASE s = "xfer" /\ t = "xfer"
  <2>1. /\ a \in 1 .. Copied(r) /\ b \in 1 .. Copied(r)
        /\ PeerOrder(r, WorldSize)[a] = PeerOrder(r, WorldSize)[b]
    BY <1>2, <1>3, <1>5, <1>6, <1>8
  <2>2. a = b
    BY <1>7, <2>1
  <2>3. g = h
    BY <1>2, <1>3, <1>4, <1>6, <2>2
  <2>4. QED  BY <1>8, <2>3
<1>9. CASE s # "xfer" /\ t # "xfer"
  BY <1>2, <1>3, <1>5, <1>9
<1>10. CASE s = "xfer" /\ t # "xfer"
  <2>1. a \in 1 .. Copied(r) /\ PeerOrder(r, WorldSize)[a] = r
    BY <1>2, <1>3, <1>6, <1>10
  <2>2. QED  BY <1>7, <2>1
<1>11. CASE s # "xfer" /\ t = "xfer"
  <2>1. b \in 1 .. Copied(r) /\ PeerOrder(r, WorldSize)[b] = r
    BY <1>2, <1>3, <1>5, <1>6, <1>11
  <2>2. QED  BY <1>7, <2>1
<1>12. QED
  BY <1>8, <1>9, <1>10, <1>11

\* Another copy for o's call than o is left.
OthersLeft(q, o) ==
    \E s \in Streams : \E j \in 1 .. Len(q[s]) : q[s][j].op = "push" /\ q[s][j].call = o.call /\ q[s][j] # o

\* The last copy of a call: none is left when it has run.
LEMMA LastCopy ==
    ASSUME NEW L, NEW r, NEW p, NEW k, NEW at, NEW q, NEW n, NEW s, NEW q2, NEW n2,
           Runs(L, r, p, k, at, q, n, s, q2, n2),
           NEW o, o = L[s][n[s] + 1], o.op = "push"
    PROVE  CopyLeft(q2, o.call) <=> OthersLeft(q, o)
<1>1. /\ L \in Logs /\ q \in Logs /\ Leftover(L, q, n) /\ Going(L, r, p, k, at, q, n)
      /\ Steps1(q, n, s, q2, n2) /\ q[s] # <<>> /\ q2 = [q EXCEPT ![s] = Tail(@)] /\ s \in Streams
  BY DEF Runs, Going, Steps1
<1>2. q2 \in Logs /\ Leftover(L, q2, n2) /\ n2[s] = n[s] + 1 /\ Head(q[s]) = o /\ \A t \in Streams : t # s => n2[t] = n[t]
  BY <1>1, LeftoverPops
<1>3. q[s] \in Seq(Ops) /\ DOMAIN q = Streams
  BY <1>1 DEF Logs
<1>4. PICK a, b : a = q[s] /\ b = Tail(a)
  OBVIOUS
<1>5. q2[s] = b /\ \A t \in Streams : t # s => q2[t] = q[t]
  BY <1>1, <1>3, <1>4
<1>6. /\ Len(a) \in Nat /\ Len(a) >= 1 /\ Len(b) = Len(a) - 1 /\ a[1] = o
      /\ \A j \in 1 .. Len(b) : b[j] = a[j + 1]
  BY <1>1, <1>2, <1>3, <1>4
<1>7. PICK x : x = Len(a)
  OBVIOUS
<1>8. x \in Nat /\ x >= 1 /\ Len(b) = x - 1
  BY <1>6, <1>7
<1>9. ASSUME CopyLeft(q2, o.call)
      PROVE  \E t \in Streams : \E j \in 1 .. Len(q[t]) :
                 q[t][j].op = "push" /\ q[t][j].call = o.call /\ q[t][j] # o
  <2>1. PICK t \in Streams : \E j \in 1 .. Len(q2[t]) : q2[t][j].op = "push" /\ q2[t][j].call = o.call
    BY <1>9 DEF CopyLeft
  <2>2. PICK j \in 1 .. Len(q2[t]) : q2[t][j].op = "push" /\ q2[t][j].call = o.call
    BY <2>1
  <2>3. /\ n2[t] \in Nat /\ Len(q2[t]) \in Nat /\ Len(L[t]) = n2[t] + Len(q2[t])
        /\ \A i \in 1 .. Len(q2[t]) : q2[t][i] = L[t][n2[t] + i]
    <3>1. L \in Logs /\ q2 \in Logs /\ Leftover(L, q2, n2)
      BY <1>1, <1>2
    <3>2. QED  BY <3>1, LeftoverIs
  <2>4. PICK y, z, l : y = n2[t] /\ z = Len(q2[t]) /\ l = Len(L[t])
    OBVIOUS
  <2>5. PICK h : h = y + j
    OBVIOUS
  <2>6. h \in 1 .. l /\ h > y /\ y \in Nat
    BY <2>3, <2>4, <2>5
  <2>7. PICK m : m = n[s] + 1
    OBVIOUS
  <2>8. m \in 1 .. Len(L[s])
    BY <2>7, OneMore
  <2>9. q2[t][j] # o
    <3>1. SUFFICES ASSUME L[t][h] = L[s][m]  PROVE FALSE
      BY <2>3, <2>4, <2>5, <2>7
    <3>2. L[t][h].op = "push" /\ L[s][m].op = "push"
      BY <2>2, <2>3, <2>4, <2>5, <2>7
    <3>3. t = s /\ h = m
      BY <1>1, <2>4, <2>6, <2>8, <3>1, <3>2, CopiesApart, SMTT(60)
    <3>4. y = m
      BY <1>2, <2>4, <2>7, <3>3
    <3>5. QED  BY <2>6, <3>3, <3>4
  <2>10. CASE t # s
    BY <1>5, <2>2, <2>9, <2>10
  <2>11. CASE t = s
    <3>1. j \in 1 .. Len(b) /\ j + 1 \in 1 .. x /\ b[j] = a[j + 1]
      BY <1>5, <1>6, <1>8, <2>11
    <3>2. QED  BY <1>4, <1>5, <1>7, <2>2, <2>9, <2>11, <3>1, ZenonT(60)
  <2>12. QED  BY <2>10, <2>11
<1>10. ASSUME NEW t \in Streams, NEW j \in 1 .. Len(q[t]),
              q[t][j].op = "push", q[t][j].call = o.call, q[t][j] # o
       PROVE  CopyLeft(q2, o.call)
  <2>1. CASE t # s
    BY <1>5, <1>10, <2>1 DEF CopyLeft
  <2>2. CASE t = s
    <3>1. j # 1 /\ j \in 1 .. x
      BY <1>4, <1>6, <1>7, <1>10, <2>2
    <3>2. PICK i : i = j - 1
      OBVIOUS
    <3>3. i \in 1 .. Len(b) /\ i + 1 = j
      BY <1>8, <3>1, <3>2
    <3>4. b[i] = q[t][j]
      BY <1>4, <1>6, <2>2, <3>3
    <3>5. QED  BY <1>1, <1>5, <1>10, <3>3, <3>4 DEF CopyLeft
  <2>3. QED  BY <2>1, <2>2
<1>11. QED
  BY <1>9, <1>10 DEF OthersLeft

\* What counts as sent, when an operation runs.
LEMMA SentRuns ==
    ASSUME NEW L, NEW r, NEW p, NEW k, NEW at, NEW q, NEW n, NEW s, NEW q2, NEW n2,
           Runs(L, r, p, k, at, q, n, s, q2, n2),
           NEW o, o = L[s][n[s] + 1], NEW snt, SentIs(L, n, q, snt), NEW snt2,
           snt2 = IF o.op = "push" /\ ~ CopyLeft(q2, o.call) THEN snt \cup {o.call} ELSE snt
    PROVE  SentIs(L, n2, q2, snt2)
<1>1. /\ \A v : CopyRan(L, n2, v) <=> CopyRan(L, n, v) \/ (v = o /\ o.op = "push")
      /\ \A c : CopyLeft(q, c) <=> CopyLeft(q2, c) \/ (o.op = "push" /\ o.call = c)
  BY CopiesTurn
<1>2. SUFFICES ASSUME NEW c \in Calls
               PROVE  c \in snt2 <=> (\E v : CopyRan(L, n2, v) /\ v.call = c) /\ ~ CopyLeft(q2, c)
  BY DEF SentIs
<1>3. c \in snt <=> (\E v : CopyRan(L, n, v) /\ v.call = c) /\ ~ CopyLeft(q, c)
  BY DEF SentIs
<1>4. CASE o.op = "push" /\ o.call = c
  <2>1. c \notin snt
    BY <1>1, <1>3, <1>4
  <2>2. \E v : CopyRan(L, n2, v) /\ v.call = c
    BY <1>1, <1>4
  <2>3. c \in snt2 <=> ~ CopyLeft(q2, c)
    BY <1>4, <2>1
  <2>4. QED  BY <2>2, <2>3
<1>5. CASE ~ (o.op = "push" /\ o.call = c)
  <2>1. c \in snt2 <=> c \in snt
    BY <1>5
  <2>2. (\E v : CopyRan(L, n2, v) /\ v.call = c) <=> (\E v : CopyRan(L, n, v) /\ v.call = c)
    BY <1>1, <1>5
  <2>3. CopyLeft(q2, c) <=> CopyLeft(q, c)
    BY <1>1, <1>5
  <2>4. QED  BY <1>3, <2>1, <2>2, <2>3
<1>6. QED
  BY <1>4, <1>5

\* What has run stays as it is when a host submits more, and no copy that is
\* submitted then is of a call that has copied before.
LEMMA StoredGrows ==
    ASSUME NEW L, NEW M, Grown(L, M), NEW r, NEW p, NEW k, NEW k2, NEW at, NEW at2, NEW q, NEW q2, NEW n,
           Going(L, r, p, k, at, q, n), Going(M, r, p, k2, at2, q2, n), k <= k2, \A i \in 1 .. k : at2[i] = at[i],
           NEW in, NEW st, NEW win, NEW out, NEW snt, Stored(L, n, q, in, st, win, out, snt)
    PROVE  Stored(M, n, q2, in, st, win, out, snt)
<1>1. /\ L \in Logs /\ q \in Logs /\ Leftover(L, q, n) /\ M \in Logs /\ q2 \in Logs /\ Leftover(M, q2, n)
      /\ Contract(p) /\ r \in Ranks /\ k \in Nat /\ k <= Len(p) /\ Told(L, r, p, k, at)
      /\ k2 \in Nat /\ k2 <= Len(p) /\ Told(M, r, p, k2, at2)
      /\ \A t \in Streams : Len(L[t]) <= Len(M[t]) /\ \A g \in 1 .. Len(L[t]) : M[t][g] = L[t][g]
  BY DEF Going, Grown
<1>2. ASSUME NEW t \in Streams, NEW g \in 1 .. n[t]  PROVE M[t][g] = L[t][g]
  <2>1. n[t] \in Nat /\ Len(L[t]) \in Nat /\ n[t] <= Len(L[t])
    BY <1>1, LeftoverIs
  <2>2. g \in 1 .. Len(L[t])
    BY <2>1
  <2>3. QED  BY <1>1, <2>2
<1>3. \A v : CopyRan(M, n, v) <=> CopyRan(L, n, v)
  BY <1>2 DEF CopyRan
<1>4. "caller" \in Streams
  BY DEF Streams
<1>5. PICK x : x = n["caller"]
  OBVIOUS
<1>6. x \in Nat /\ \A g \in 1 .. x : M["caller"][g] = L["caller"][g] /\ \A f \in g + 1 .. x : f \in 1 .. x
  <2>1. x \in Nat
    BY <1>1, <1>4, <1>5, LeftoverIs
  <2>2. QED  BY <1>2, <1>4, <1>5, <2>1
<1>7. InputIs(M, n, in)
  <2>1. SUFFICES ASSUME NEW g \in 1 .. x, M["caller"][g].op = "produce",
                        \A f \in g + 1 .. x : M["caller"][f].op # "produce"
                 PROVE  in = M["caller"][g].call
    BY <1>5 DEF InputIs
  <2>2. L["caller"][g].op = "produce" /\ \A f \in g + 1 .. x : L["caller"][f].op # "produce"
    BY <1>6, <2>1
  <2>3. in = L["caller"][g].call
    BY <1>5, <2>2 DEF Stored, InputIs
  <2>4. QED  BY <1>6, <2>3
<1>8. StagedIs(M, n, st)
  <2>1. SUFFICES ASSUME NEW g \in 1 .. x, M["caller"][g].op = "stage",
                        \A f \in g + 1 .. x : ~ (M["caller"][f].op = "stage" /\ M["caller"][f].buf = M["caller"][g].buf)
                 PROVE  st[M["caller"][g].buf] = M["caller"][g].call
    BY <1>5 DEF StagedIs
  <2>2. /\ L["caller"][g].op = "stage"
        /\ \A f \in g + 1 .. x : ~ (L["caller"][f].op = "stage" /\ L["caller"][f].buf = L["caller"][g].buf)
    BY <1>6, <2>1
  <2>3. st[L["caller"][g].buf] = L["caller"][g].call
    BY <1>5, <2>2 DEF Stored, StagedIs
  <2>4. QED  BY <1>6, <2>3
<1>9. SharesAre(M, n, win)
  <2>1. SUFFICES ASSUME NEW o, CopyRan(M, n, o),
                        \A v : CopyRan(M, n, v) /\ v.win = o.win /\ v.to = o.to => v.call <= o.call
                 PROVE  win[o.win][o.to] = o.call
    BY DEF SharesAre
  <2>2. /\ CopyRan(L, n, o)
        /\ \A v : CopyRan(L, n, v) /\ v.win = o.win /\ v.to = o.to => v.call <= o.call
    BY <1>3, <2>1
  <2>3. SharesAre(L, n, win)
    BY DEF Stored
  <2>4. QED  BY <2>2, <2>3 DEF SharesAre
<1>10. OutputsAre(M, n, out)
  <2>1. OutputsAre(L, n, out)
    BY DEF Stored
  <2>2. SUFFICES ASSUME NEW s \in Streams, NEW g \in 1 .. n[s], M[s][g].op = "copyout"
                 PROVE  out[M[s][g].call] = Whole(M[s][g].call)
    BY DEF OutputsAre
  <2>3. L[s][g].op = "copyout" => out[L[s][g].call] = Whole(L[s][g].call)
    BY <2>1 DEF OutputsAre
  <2>4. M[s][g] = L[s][g]
    BY <1>2
  <2>5. QED  BY <2>2, <2>3, <2>4
<1>11. ASSUME NEW c, CopyLeft(q, c)  PROVE CopyLeft(q2, c)
  <2>1. PICK t \in Streams : \E j \in 1 .. Len(q[t]) : q[t][j].op = "push" /\ q[t][j].call = c
    BY <1>11 DEF CopyLeft
  <2>2. PICK j \in 1 .. Len(q[t]) : q[t][j].op = "push" /\ q[t][j].call = c
    BY <2>1
  <2>3. PICK y, a, b, l, m : y = n[t] /\ a = Len(q[t]) /\ b = Len(q2[t]) /\ l = Len(L[t]) /\ m = Len(M[t])
    OBVIOUS
  <2>4. /\ y \in Nat /\ a \in Nat /\ b \in Nat /\ l = y + a /\ m = y + b
        /\ \A i \in 1 .. a : q[t][i] = L[t][y + i]
        /\ \A i \in 1 .. b : q2[t][i] = M[t][y + i]
    BY <1>1, <2>3, LeftoverIs, SMTT(60)
  <2>5. l <= m /\ \A g \in 1 .. l : M[t][g] = L[t][g]
    BY <1>1, <2>3
  <2>6. j \in 1 .. b /\ y + j \in 1 .. l
    BY <2>3, <2>4, <2>5, SMTT(60)
  <2>7. q2[t][j] = q[t][j]
    BY <2>3, <2>4, <2>5, <2>6
  <2>8. QED  BY <2>2, <2>3, <2>6, <2>7 DEF CopyLeft
<1>12. ASSUME NEW v, CopyRan(L, n, v), CopyLeft(q2, v.call)  PROVE CopyLeft(q, v.call)
  <2>1. PICK t \in Streams : \E j \in 1 .. Len(q2[t]) : q2[t][j].op = "push" /\ q2[t][j].call = v.call
    BY <1>12 DEF CopyLeft
  <2>2. PICK j \in 1 .. Len(q2[t]) : q2[t][j].op = "push" /\ q2[t][j].call = v.call
    BY <2>1
  <2>3. PICK y, a, b, l, m : y = n[t] /\ a = Len(q[t]) /\ b = Len(q2[t]) /\ l = Len(L[t]) /\ m = Len(M[t])
    OBVIOUS
  <2>4. /\ y \in Nat /\ a \in Nat /\ b \in Nat /\ l = y + a /\ m = y + b
        /\ \A i \in 1 .. a : q[t][i] = L[t][y + i]
        /\ \A i \in 1 .. b : q2[t][i] = M[t][y + i]
    BY <1>1, <2>3, LeftoverIs, SMTT(60)
  <2>5. PICK h : h = y + j
    OBVIOUS
  <2>6. h \in 1 .. m /\ h > y /\ q2[t][j] = M[t][h]
    BY <2>3, <2>4, <2>5, SMTT(60)
  <2>7. PICK i \in 1 .. k : Transfers(p, i) /\ v.call = p[i].call
    BY <1>12, CopyRanIs
  <2>8. PICK d \in 1 .. k2 : /\ Transfers(p, d) /\ M[t][h].call = p[d].call
                             /\ \/ t = "xfer" /\ h - at2[d].far \in 1 .. Copied(r)
                                \/ t = Lane(p[d]) /\ h = at2[d].near + 2
    BY <2>2, <2>3, <2>6, CopyGoesTo
  <2>9. /\ i \in DOMAIN p /\ d \in DOMAIN p /\ at[i].far \in Nat /\ at[i].near \in Nat
        /\ End(p[i], at[i].near) \in Nat /\ End(p[i], at[i].near) >= at[i].near + 4
        /\ End(p[i], at[i].near) <= Len(L[Lane(p[i])]) /\ Laid(L, r, p, at, i)
    BY <1>1, <2>7, <2>8, TransferIs, ZenonT(60)
  <2>10. d = i
    BY <1>1, <2>2, <2>6, <2>7, <2>8, <2>9, OneStep, SMTT(60) DEF Transfers
  <2>11. at2[d] = at[i]
    BY <2>10
  <2>12. PICK near, far, c, e : /\ near = at[i].near /\ far = at[i].far /\ c = Copied(r)
                                /\ e = End(p[i], at[i].near)
    OBVIOUS
  <2>13. h <= l
    <3>1. CASE t = "xfer" /\ h - at2[d].far \in 1 .. Copied(r)
      <4>1. h - far \in 1 .. c /\ far + c <= l
        BY <2>3, <2>9, <2>11, <2>12, <3>1 DEF Laid, RemoteShares
      <4>2. c \in Nat /\ far \in Nat /\ h \in Nat /\ l \in Nat
        <5>1. c \in Nat
          BY <1>1, <2>12, CopiedIs
        <5>2. QED  BY <2>4, <2>6, <2>9, <2>12, <5>1, SMTT(60)
      <4>3. QED  BY <4>1, <4>2, SMTT(60)
    <3>2. CASE t = Lane(p[d]) /\ h = at2[d].near + 2
      <4>1. h = near + 2 /\ e <= l
        BY <2>3, <2>9, <2>10, <2>11, <2>12, <3>2
      <4>2. near \in Nat /\ e \in Nat /\ e >= near + 4 /\ l \in Nat
        BY <2>4, <2>9, <2>12
      <4>3. QED  BY <4>1, <4>2
    <3>3. QED  BY <2>8, <3>1, <3>2
  <2>14. j \in 1 .. a
    BY <2>4, <2>5, <2>6, <2>13, <2>3, SMTT(60)
  <2>15. q[t][j] = q2[t][j]
    <3>1. h \in 1 .. l
      BY <2>4, <2>6, <2>13
    <3>2. QED  BY <1>1, <2>3, <2>4, <2>5, <2>6, <2>14, <3>1
  <2>16. QED  BY <2>2, <2>3, <2>14, <2>15 DEF CopyLeft
<1>13. SentIs(M, n, q2, snt)
  <2>1. SUFFICES ASSUME NEW c \in Calls
                 PROVE  c \in snt <=> (\E v : CopyRan(M, n, v) /\ v.call = c) /\ ~ CopyLeft(q2, c)
    BY DEF SentIs
  <2>2. c \in snt <=> (\E v : CopyRan(L, n, v) /\ v.call = c) /\ ~ CopyLeft(q, c)
    BY DEF Stored, SentIs
  <2>3. QED  BY <1>3, <1>11, <1>12, <2>2
<1>14. QED
  BY <1>7, <1>8, <1>9, <1>10, <1>13 DEF Stored

------------------------------------------------------------------------------
(* Every rank's buffers. *)

\* Rank r's part of the windows.
Column(r) == [w \in Windows |-> [x \in Ranks |-> window[w][x][r]]]

StoredAt(L, r) == Stored(L, ran[r], queue[r], input[r], staged[r], Column(r), output[r], sent[r])

\* The invariant: every rank's buffers are as its log tells.
DInv ==
    /\ IInv /\ Together
    /\ output \in [Ranks -> [Calls -> [Ranks -> 0 .. MaxCalls]]] /\ sent \in [Ranks -> SUBSET Calls]
    /\ \A r \in Ranks : \E L, at : Fits(L, at, r) /\ StoredAt(L, r)

\* A step that is closed has copied its share to every rank.
LEMMA CopyMade ==
    ASSUME NEW L, NEW r, NEW p, NEW k, NEW at, NEW q, NEW n, Going(L, r, p, k, at, q, n),
           NEW i \in 1 .. k, Transfers(p, i), Closed(p, at, n, i), NEW t \in Ranks
    PROVE  \E v : CopyRan(L, n, v) /\ v.win = Filled(p, i) /\ v.call = p[i].call /\ v.to = t
<1>1. /\ Contract(p) /\ r \in Ranks /\ k \in Nat /\ k <= Len(p) /\ Told(L, r, p, k, at) /\ n \in [Streams -> Nat]
  BY DEF Going
<1>2. /\ Lane(p[i]) \in Streams /\ at[i].near \in Nat /\ at[i].near >= 1 /\ at[i].far \in Nat
      /\ Laid(L, r, p, at, i) /\ "xfer" \in Streams
      /\ End(p[i], at[i].near) \in Nat /\ End(p[i], at[i].near) >= at[i].near + 4
  BY <1>1, TransferIs DEF Streams
<1>3. /\ at[i].far + Copied(r) <= n["xfer"] /\ at[i].near + 3 <= n[Lane(p[i])]
  BY ClosedSent
<1>4. PICK a, x, y, z, e : /\ a = at[i].near /\ x = at[i].far /\ y = n[Lane(p[i])] /\ z = n["xfer"]
                           /\ e = End(p[i], at[i].near)
  OBVIOUS
<1>5. a \in Nat /\ a >= 1 /\ x \in Nat /\ y \in Nat /\ z \in Nat /\ a + 3 <= y /\ e \in Nat /\ e >= a + 4
  BY <1>1, <1>2, <1>3, <1>4
<1>6. CASE t = r
  <2>1. PICK g : g = a + 2
    OBVIOUS
  <2>2. g \in 1 .. y /\ g \in a .. e
    BY <1>5, <2>1, SMTT(60)
  <2>3. /\ L[Lane(p[i])][g].op = "push" /\ L[Lane(p[i])][g].to = r
        /\ L[Lane(p[i])][g].win = Filled(p, i) /\ L[Lane(p[i])][g].call = p[i].call
    BY <1>2, <1>4, <2>1, <2>2 DEF Laid, OwnShare
  <2>4. QED  BY <1>2, <1>4, <1>6, <2>2, <2>3 DEF CopyRan
<1>7. CASE t # r
  <2>1. PICK c \in 1 .. Copied(r) : PeerOrder(r, WorldSize)[c] = t
    BY <1>1, <1>7, CopiedIs
  <2>2. PICK g, d : g = x + c /\ d = Copied(r)
    OBVIOUS
  <2>3. d \in Nat /\ x + d <= z /\ c \in 1 .. d
    BY <1>1, <1>3, <1>4, <2>2, CopiedIs
  <2>4. g \in 1 .. z
    BY <1>5, <2>2, <2>3, SMTT(60)
  <2>5. /\ L["xfer"][g].op = "push" /\ L["xfer"][g].to = t
        /\ L["xfer"][g].win = Filled(p, i) /\ L["xfer"][g].call = p[i].call
    BY <1>2, <1>4, <2>1, <2>2 DEF Laid, RemoteShares
  <2>6. QED  BY <1>2, <1>4, <2>4, <2>5 DEF CopyRan
<1>8. QED
  BY <1>6, <1>7

\* A rank that is past a step's closing barrier and still has to read its window
\* finds every share of that step in it.
LEMMA WholeWindow ==
    ASSUME DInv, NEW r \in Ranks, NEW L, NEW at, Fits(L, at, r), NEW i \in 1 .. pos[r], Transfers(program, i),
           NEW d \in {1, 2}, d = 2, Past(program, at, ran[r], i, d), StillReads(r, program[i].call), NEW t \in Ranks
    PROVE  window[Filled(program, i)][r][t] = program[i].call
<1>1. IInv /\ Together
  BY DEF DInv
<1>2. PICK M, at2 : Fits(M, at2, t) /\ StoredAt(M, t)
  BY DEF DInv
<1>3. i \in 1 .. pos[t] /\ Closed(program, at2, ran[t], i)
  BY <1>1, <1>2, PeersCame
<1>4. PICK p, k, q, n : p = program /\ k = pos[t] /\ q = queue[t] /\ n = ran[t]
  OBVIOUS
<1>5. Going(M, t, p, k, at2, q, n)
  BY <1>1, <1>2, <1>4, NowGoing
<1>6. PICK v : CopyRan(M, n, v) /\ v.win = Filled(p, i) /\ v.call = p[i].call /\ v.to = r
  BY <1>3, <1>4, <1>5, CopyMade
<1>7. ASSUME NEW u, CopyRan(M, n, u), u.win = v.win, u.to = v.to  PROVE u.call <= v.call
  <2>1. PICK j \in 1 .. k : /\ Transfers(p, j) /\ u.win = Filled(p, j) /\ u.call = p[j].call /\ Past(p, at2, n, j, 1)
    BY <1>5, <1>7, CopyRanIs
  <2>2. PICK e \in {1, 2} : e = 1
    OBVIOUS
  <2>3. j \in 1 .. pos[r] /\ Opened(program, at, ran[r], j)
    BY <1>1, <1>2, <1>4, <2>1, <2>2, PeersCame
  <2>4. ~ (i < j)
    BY <1>1, <1>4, <1>6, <1>7, <2>1, <2>3, HasRead
  <2>5. /\ Contract(p) /\ i \in DOMAIN p /\ j \in DOMAIN p /\ p[i].call \in Calls /\ p[j].call \in Calls
        /\ i \in Nat /\ j \in Nat
    <3>1. /\ Contract(p) /\ t \in Ranks /\ k \in Nat /\ k <= Len(p) /\ Told(M, t, p, k, at2)
      BY <1>5 DEF Going
    <3>2. /\ i \in DOMAIN p /\ j \in DOMAIN p /\ p[i].call \in Calls /\ p[j].call \in Calls
      BY <1>3, <1>4, <2>1, <3>1, TransferIs
    <3>3. QED  BY <1>3, <1>4, <2>1, <3>1, <3>2
  <2>6. CASE i = j
    BY <1>6, <2>1, <2>5, <2>6 DEF Calls
  <2>7. CASE j < i
    BY <1>4, <1>6, <2>1, <2>5, <2>7 DEF Contract, Transfers, Calls
  <2>8. QED  BY <2>4, <2>5, <2>6, <2>7
<1>8. SharesAre(M, n, Column(t))
  BY <1>2, <1>4 DEF StoredAt, Stored
<1>9. Column(t)[v.win][v.to] = v.call
  BY <1>6, <1>7, <1>8 DEF SharesAre
<1>10. v.win \in Windows
  BY <1>5, <1>6, CopyRanIs
<1>11. QED
  BY <1>4, <1>6, <1>9, <1>10 DEF Column

\* What a rank copies out is the call's payload.
LEMMA CopiesOutWhole ==
    ASSUME DInv, NEW r \in Ranks, NEW s \in Streams, Ready(r, s, "copyout")
    PROVE  \A t \in Ranks : window[Head(queue[r][s]).win][r][t] = Head(queue[r][s]).call
<1>1. IInv /\ Together
  BY DEF DInv
<1>2. PICK L, at : Fits(L, at, r)
  BY DEF DInv
<1>3. PICK i \in 1 .. pos[r] : /\ Transfers(program, i) /\ Past(program, at, ran[r], i, 2)
                               /\ Head(queue[r][s]).call = program[i].call
                               /\ Head(queue[r][s]).win = Filled(program, i)
  BY <1>1, <1>2, CopiesOut
<1>4. StillReads(r, program[i].call)
  <2>1. queue[r][s] # <<>> /\ Head(queue[r][s]).op = "copyout" /\ queue[r][s] \in Seq(Ops)
    BY <1>1, RankIs DEF Ready, Logs
  <2>2. 1 \in DOMAIN queue[r][s] /\ queue[r][s][1] = Head(queue[r][s])
    BY <2>1
  <2>3. Queued(r, "copyout", program[i].call)
    BY <1>3, <2>1, <2>2 DEF Queued
  <2>4. QED  BY <2>3 DEF StillReads
<1>5. PICK d \in {1, 2} : d = 2
  OBVIOUS
<1>6. QED
  BY <1>2, <1>3, <1>4, <1>5, WholeWindow

\* What an operation does to its rank's buffers.
Does(o, q2, in, st, win, out, snt, in2, st2, win2, out2, snt2) ==
    /\ in2 = IF o.op = "produce" THEN o.call ELSE in
    /\ o.op = "stage" => st2[o.buf] = in /\ \A m \in Buffers : m # o.buf => st2[m] = st[m]
    /\ o.op # "stage" => st2 = st
    /\ o.op = "push" => /\ win2[o.win][o.to] = IF o.buf = 0 THEN in ELSE st[o.buf]
                        /\ \A w \in Windows, x \in Ranks : w # o.win \/ x # o.to => win2[w][x] = win[w][x]
    /\ o.op # "push" => win2 = win
    /\ o.op = "copyout" => /\ out2[o.call] = Whole(o.call)
                           /\ \A c \in Calls : c # o.call => out2[c] = out[c]
    /\ o.op # "copyout" => out2 = out
    /\ snt2 = IF o.op = "push" /\ ~ CopyLeft(q2, o.call) THEN snt \cup {o.call} ELSE snt

\* The buffers are then as the log tells that the operation has run.
LEMMA StoredRuns ==
    ASSUME NEW L, NEW r, NEW p, NEW k, NEW at, NEW q, NEW n, NEW s, NEW q2, NEW n2,
           Runs(L, r, p, k, at, q, n, s, q2, n2),
           NEW o, o = L[s][n[s] + 1], NEW in, NEW st, NEW win, NEW out, NEW snt, Stored(L, n, q, in, st, win, out, snt),
           NEW in2, NEW st2, NEW win2, NEW out2, NEW snt2,
           Does(o, q2, in, st, win, out, snt, in2, st2, win2, out2, snt2),
           Restaged(L, p, k, at, n), StagedInTurn(L)
    PROVE  Stored(L, n2, q2, in2, st2, win2, out2, snt2)
<1>1. /\ InputIs(L, n, in) /\ StagedIs(L, n, st) /\ SharesAre(L, n, win)
      /\ OutputsAre(L, n, out) /\ SentIs(L, n, q, snt)
  BY DEF Stored
<1>2. InputIs(L, n2, in2)
  <2>1. in2 = IF o.op = "produce" THEN o.call ELSE in
    BY DEF Does
  <2>2. QED  BY <1>1, <2>1, InputRuns
<1>3. StagedIs(L, n2, st2)
  <2>1. /\ o.op = "stage" => st2[o.buf] = in /\ \A m \in Buffers : m # o.buf => st2[m] = st[m]
        /\ o.op # "stage" => st2 = st
    BY DEF Does
  <2>2. o.op = "stage" => in = o.call
    BY <1>1, StagesInput
  <2>3. o.op = "stage" => st2[o.buf] = o.call /\ \A m \in Buffers : m # o.buf => st2[m] = st[m]
    BY <2>1, <2>2, SMTT(60)
  <2>4. QED  BY <1>1, <2>1, <2>3, StagedRuns, SMTT(60)
<1>4. SharesAre(L, n2, win2)
  <2>1. /\ o.op = "push" => /\ win2[o.win][o.to] = IF o.buf = 0 THEN in ELSE st[o.buf]
                            /\ \A w \in Windows, x \in Ranks : w # o.win \/ x # o.to => win2[w][x] = win[w][x]
        /\ o.op # "push" => win2 = win
    BY DEF Does
  <2>2. o.op = "push" => (IF o.buf = 0 THEN in ELSE st[o.buf]) = o.call
    BY <1>1, CopiesInput, SMTT(60)
  <2>3. o.op = "push" => /\ win2[o.win][o.to] = o.call
                         /\ \A w \in Windows, x \in Ranks : w # o.win \/ x # o.to => win2[w][x] = win[w][x]
    BY <2>1, <2>2
  <2>4. QED  BY <1>1, <2>1, <2>3, SharesRun, SMTT(60)
<1>5. OutputsAre(L, n2, out2)
  <2>1. /\ o.op = "copyout" => /\ out2[o.call] = Whole(o.call)
                               /\ \A c \in Calls : c # o.call => out2[c] = out[c]
        /\ o.op # "copyout" => out2 = out
    BY DEF Does
  <2>2. QED  BY <1>1, <2>1, OutputsRun, SMTT(60)
<1>6. SentIs(L, n2, q2, snt2)
  <2>1. snt2 = IF o.op = "push" /\ ~ CopyLeft(q2, o.call) THEN snt \cup {o.call} ELSE snt
    BY DEF Does
  <2>2. QED  BY <1>1, <2>1, SentRuns
<1>7. QED
  BY <1>2, <1>3, <1>4, <1>5, <1>6 DEF Stored

\* Stream s of rank r runs its next operation, which does that and nothing to other ranks.
Acts(r, s) ==
    /\ RunsOp(r, s, Head(queue[r][s]).op)
    /\ Does(Head(queue[r][s]), queue'[r], input[r], staged[r], Column(r), output[r], sent[r],
            input'[r], staged'[r], Column(r)', output'[r], sent'[r])
    /\ \A t \in Ranks : t # r => /\ input'[t] = input[t] /\ staged'[t] = staged[t] /\ Column(t)' = Column(t)
                                 /\ output'[t] = output[t] /\ sent'[t] = sent[t]
    /\ output' \in [Ranks -> [Calls -> [Ranks -> 0 .. MaxCalls]]] /\ sent' \in [Ranks -> SUBSET Calls]

\* Waits and barriers touch no buffer, ...
LEMMA QuietActs ==
    ASSUME DInv, NEW r \in Ranks, NEW s \in Streams, NEW o, RunsOp(r, s, o),
           o \notin {"produce", "stage", "push", "copyout"},
           input' = input, staged' = staged, window' = window, output' = output, sent' = sent
    PROVE  Acts(r, s)
<1>1. Head(queue[r][s]).op = o
  BY DEF RunsOp, Ready
<1>2. \A t \in Ranks : Column(t)' = Column(t)
  BY DEF Column
<1>3. Does(Head(queue[r][s]), queue'[r], input[r], staged[r], Column(r), output[r], sent[r],
           input'[r], staged'[r], Column(r)', output'[r], sent'[r])
  BY <1>1, <1>2 DEF Does
<1>4. QED
  BY <1>1, <1>2, <1>3 DEF Acts, DInv

\* ... an input is computed into the caller's tensor, ...
LEMMA ProduceActs ==
    ASSUME DInv, NEW r \in Ranks, NEW s \in Streams, RunProduce(r, s)
    PROVE  Acts(r, s)
<1>1. /\ RunsOp(r, s, "produce") /\ Head(queue[r][s]).op = "produce"
      /\ input' = [input EXCEPT ![r] = Head(queue[r][s]).call]
      /\ staged' = staged /\ window' = window /\ output' = output /\ sent' = sent
  BY DEF RunProduce, RunsOp, Ready
<1>2. DOMAIN input = Ranks
  BY DEF DInv, IInv, Typing
<1>3. input'[r] = Head(queue[r][s]).call /\ \A t \in Ranks : t # r => input'[t] = input[t]
  BY <1>1, <1>2
<1>4. \A t \in Ranks : Column(t)' = Column(t)
  BY <1>1, SMTT(60) DEF Column
<1>5. Does(Head(queue[r][s]), queue'[r], input[r], staged[r], Column(r), output[r], sent[r],
           input'[r], staged'[r], Column(r)', output'[r], sent'[r])
  BY <1>1, <1>3, <1>4 DEF Does
<1>6. QED
  BY <1>1, <1>3, <1>4, <1>5 DEF Acts, DInv

\* ... staged into the buffer of the slot, ...
LEMMA StageActs ==
    ASSUME DInv, NEW r \in Ranks, NEW s \in Streams, Stage(r, s)
    PROVE  Acts(r, s)
<1>1. /\ RunsOp(r, s, "stage") /\ Head(queue[r][s]).op = "stage"
      /\ staged' = [staged EXCEPT ![r][Head(queue[r][s]).buf] = input[r]]
      /\ input' = input /\ window' = window /\ output' = output /\ sent' = sent
  BY DEF Stage, RunsOp, Ready
<1>2. staged \in [Ranks -> [Buffers -> 0 .. MaxCalls]] /\ IInv
  BY DEF DInv, IInv, Typing
<1>3. Head(queue[r][s]).buf \in Buffers
  <2>1. PICK L, at : Fits(L, at, r)
    BY DEF DInv
  <2>2. PICK p, k, q, n : p = program /\ k = pos[r] /\ q = queue[r] /\ n = ran[r]
    OBVIOUS
  <2>3. Going(L, r, p, k, at, q, n)
    BY <1>2, <2>1, <2>2, NowGoing, SMTT(60)
  <2>4. /\ n[s] + 1 \in 1 .. Len(L[s]) /\ Head(q[s]) = L[s][n[s] + 1]
    BY <1>1, <1>2, <2>1, <2>2, RunsOpIs, NextIs DEF RunsOp, Ready
  <2>5. PICK g : g = n[s] + 1
    OBVIOUS
  <2>6. QED  BY <1>1, <2>2, <2>3, <2>4, <2>5, PartIs
<1>4. /\ staged'[r][Head(queue[r][s]).buf] = input[r]
      /\ \A m \in Buffers : m # Head(queue[r][s]).buf => staged'[r][m] = staged[r][m]
      /\ \A t \in Ranks : t # r => staged'[t] = staged[t]
  BY <1>1, <1>2, <1>3
<1>5. \A t \in Ranks : Column(t)' = Column(t)
  BY <1>1, SMTT(60) DEF Column
<1>6. Does(Head(queue[r][s]), queue'[r], input[r], staged[r], Column(r), output[r], sent[r],
           input'[r], staged'[r], Column(r)', output'[r], sent'[r])
  BY <1>1, <1>4, <1>5, SMTT(60) DEF Does
<1>7. QED
  BY <1>1, <1>4, <1>5, <1>6 DEF Acts, DInv

\* ... and a result copied out, whole, into the call's output tensor.
LEMMA CopyOutActs ==
    ASSUME DInv, NEW r \in Ranks, NEW s \in Streams, RunCopyOut(r, s)
    PROVE  Acts(r, s)
<1>1. /\ RunsOp(r, s, "copyout") /\ Ready(r, s, "copyout") /\ Head(queue[r][s]).op = "copyout"
      /\ output' = [output EXCEPT ![r][Head(queue[r][s]).call] = window[Head(queue[r][s]).win][r]]
      /\ input' = input /\ staged' = staged /\ window' = window /\ sent' = sent
  BY DEF RunCopyOut, RunsOp, Ready
<1>2. /\ output \in [Ranks -> [Calls -> [Ranks -> 0 .. MaxCalls]]] /\ IInv
      /\ window \in [Windows -> [Ranks -> [Ranks -> 0 .. MaxCalls]]]
  BY DEF DInv, IInv, Typing
<1>3. Head(queue[r][s]).call \in Calls /\ Head(queue[r][s]).win \in Windows
  <2>1. PICK L, at : Fits(L, at, r)
    BY DEF DInv
  <2>2. PICK p, k, q, n : p = program /\ k = pos[r] /\ q = queue[r] /\ n = ran[r]
    OBVIOUS
  <2>3. Going(L, r, p, k, at, q, n)
    BY <1>2, <2>1, <2>2, NowGoing, SMTT(60)
  <2>4. /\ n[s] + 1 \in 1 .. Len(L[s]) /\ Head(q[s]) = L[s][n[s] + 1]
    BY <1>1, <1>2, <2>1, <2>2, NextIs DEF Ready
  <2>5. PICK g : g = n[s] + 1
    OBVIOUS
  <2>6. QED  BY <1>1, <2>2, <2>3, <2>4, <2>5, PartIs
<1>4. PICK c, w : c = Head(queue[r][s]).call /\ w = Head(queue[r][s]).win
  OBVIOUS
<1>5. window[w][r] = Whole(c)
  <2>1. \A t \in Ranks : window[w][r][t] = c
    BY <1>1, <1>4, CopiesOutWhole
  <2>2. window[w][r] \in [Ranks -> 0 .. MaxCalls]
    BY <1>2, <1>3, <1>4
  <2>3. QED  BY <2>1, <2>2 DEF Whole
<1>6. output' = [output EXCEPT ![r][c] = window[w][r]] /\ c \in Calls /\ window[w][r] \in [Ranks -> 0 .. MaxCalls]
  BY <1>1, <1>2, <1>3, <1>4
<1>7. /\ output'[r][c] = window[w][r]
      /\ \A e \in Calls : e # c => output'[r][e] = output[r][e]
      /\ \A t \in Ranks : t # r => output'[t] = output[t]
      /\ output' \in [Ranks -> [Calls -> [Ranks -> 0 .. MaxCalls]]]
  BY <1>2, <1>6
<1>8. \A t \in Ranks : Column(t)' = Column(t)
  BY <1>1 DEF Column
<1>9. output'[r][c] = Whole(c)
  BY <1>5, <1>7, SMTT(60)
<1>10. Does(Head(queue[r][s]), queue'[r], input[r], staged[r], Column(r), output[r], sent[r],
            input'[r], staged'[r], Column(r)', output'[r], sent'[r])
  BY <1>1, <1>4, <1>7, <1>8, <1>9 DEF Does
<1>11. QED
  BY <1>1, <1>7, <1>8, <1>10, Zenon DEF Acts, DInv

\* o is in one of r's queues.
InQueue(r, o) == \E s \in Streams : \E j \in 1 .. Len(queue[r][s]) : o = queue[r][s][j]

\* The copies left are those in the queues.
LEMMA PushesAre ==
    ASSUME IInv, NEW r \in Ranks, NEW o
    PROVE  o \in Pushes(r) <=> o.op = "push" /\ InQueue(r, o)
<1>1. \A s \in Streams : queue[r][s] \in Seq(Ops)
  BY RankIs DEF Logs
<1>2. \A s \in Streams : o \in Range(queue[r][s]) <=> \E j \in 1 .. Len(queue[r][s]) : o = queue[r][s][j]
  <2>1. SUFFICES ASSUME NEW s \in Streams
                 PROVE  o \in Range(queue[r][s]) <=> \E j \in 1 .. Len(queue[r][s]) : o = queue[r][s][j]
    OBVIOUS
  <2>2. PICK z \in Seq(Ops) : z = queue[r][s]
    BY <1>1
  <2>3. DOMAIN z = 1 .. Len(z)
    OBVIOUS
  <2>4. o \in Range(z) <=> \E j \in 1 .. Len(z) : o = z[j]
    BY <2>3 DEF Range
  <2>5. QED  BY <2>2, <2>4
<1>3. o \in Pushes(r) <=> o.op = "push" /\ \E s \in Streams : o \in Range(queue[r][s])
  BY SMTT(60) DEF Pushes
<1>4. QED
  BY <1>2, <1>3 DEF InQueue

\* A copy writes this rank's part of one window, and its call counts as sent when no
\* other copy of it is left.
LEMMA PushActs ==
    ASSUME DInv, NEW r \in Ranks, NEW s \in Streams, PushShare(r, s)
    PROVE  Acts(r, s)
<1>1. PICK o, v, last : /\ o = Head(queue[r][s])
                        /\ v = IF o.buf = 0 THEN input[r] ELSE staged[r][o.buf]
                        /\ last = IF {u \in Pushes(r) : u.call = o.call} = {o} THEN {o.call} ELSE {}
  BY Zenon
<1>2. RunsOp(r, s, "push") /\ Ready(r, s, "push") /\ o.op = "push"
  BY <1>1, Zenon DEF PushShare, RunsOp, Ready
<1>3. window' = [window EXCEPT ![o.win][o.to][r] = v]
  BY <1>1, Zenon DEF PushShare
<1>4. sent' = [sent EXCEPT ![r] = sent[r] \cup last]
  <2>1. sent' = [sent EXCEPT ![r] = IF {u \in Pushes(r) : u.call = o.call} = {o} THEN @ \cup {o.call} ELSE @]
    BY <1>1, Zenon DEF PushShare
  <2>2. CASE {u \in Pushes(r) : u.call = o.call} = {o}
    BY <1>1, <2>1, <2>2, Zenon
  <2>3. CASE {u \in Pushes(r) : u.call = o.call} # {o}
    <3>1. sent' = [sent EXCEPT ![r] = sent[r]] /\ last = {}
      BY <1>1, <2>1, <2>3, Zenon
    <3>2. \A x : x \cup {} = x
      OBVIOUS
    <3>3. QED  BY <3>1, <3>2, Zenon
  <2>4. QED  BY <2>2, <2>3
<1>5. input' = input /\ staged' = staged /\ output' = output /\ IInv
  BY Zenon DEF PushShare, DInv
<1>6. sent \in [Ranks -> SUBSET Calls] /\ window \in [Windows -> [Ranks -> [Ranks -> 0 .. MaxCalls]]]
  BY Zenon DEF DInv, IInv, Typing
<1>7. PICK L, at : Fits(L, at, r)
  BY DEF DInv
<1>8. PICK p, k, q, n, q2, n2 : p = program /\ k = pos[r] /\ q = queue[r] /\ n = ran[r] /\ q2 = queue'[r] /\ n2 = ran'[r]
  OBVIOUS
<1>9. Runs(L, r, p, k, at, q, n, s, q2, n2) /\ o = L[s][n[s] + 1] /\ o \in Ops
  BY <1>1, <1>2, <1>5, <1>7, <1>8, RunsOpIs, SMTT(60)
<1>10. o.win \in Windows /\ o.call \in Calls /\ o.to \in Ranks
  <2>1. Going(L, r, p, k, at, q, n) /\ n[s] + 1 \in 1 .. Len(L[s])
    BY <1>9, OneMore DEF Runs
  <2>2. PICK g \in 1 .. Len(L[s]) : g = n[s] + 1
    BY <2>1, SMTT(60)
  <2>3. L[s][g].op \in {"push", "copyout"}
    BY <1>2, <1>9, <2>2, Zenon
  <2>4. L[s][g].call \in Calls /\ L[s][g].win \in Windows
    BY <2>1, <2>3, PartIs
  <2>5. QED  BY <1>9, <2>2, <2>4, OpIs
<1>11. \A w \in Windows, x \in Ranks, t \in Ranks :
         window'[w][x][t] = IF w = o.win /\ x = o.to /\ t = r THEN v ELSE window[w][x][t]
  BY <1>3, <1>6, <1>10
<1>12. \A t \in Ranks : t # r => Column(t)' = Column(t)
  <2>1. SUFFICES ASSUME NEW t \in Ranks, t # r  PROVE Column(t)' = Column(t)
    OBVIOUS
  <2>2. \A w \in Windows, x \in Ranks : window'[w][x][t] = window[w][x][t]
    BY <1>11, <2>1
  <2>3. QED  BY <2>2 DEF Column
<1>13. /\ Column(r)'[o.win][o.to] = v
       /\ \A w \in Windows, x \in Ranks : w # o.win \/ x # o.to => Column(r)'[w][x] = Column(r)[w][x]
  BY <1>10, <1>11 DEF Column
<1>14. {u \in Pushes(r) : u.call = o.call} = {o} <=> ~ CopyLeft(q2, o.call)
  <2>1. o \in Pushes(r)
    <3>1. s \in Streams /\ queue[r][s] # <<>> /\ queue[r][s] \in Seq(Ops)
      BY <1>2, <1>5, RankIs DEF Ready, Logs
    <3>2. 1 \in 1 .. Len(queue[r][s]) /\ o = queue[r][s][1]
      BY <1>1, <3>1, SMTT(60)
    <3>3. QED  BY <1>2, <1>5, <3>1, <3>2, PushesAre DEF InQueue
  <2>2. CopyLeft(q2, o.call) <=> OthersLeft(q, o)
    <3> HIDE DEF CopyLeft, OthersLeft
    <3> QED BY <1>2, <1>9, LastCopy, SMTT(60)
  <2>3. CopyLeft(q2, o.call) <=> \E u \in Pushes(r) : u.call = o.call /\ u # o
    <3>1. ASSUME NEW u \in Pushes(r), u.call = o.call, u # o  PROVE CopyLeft(q2, o.call)
      <4>1. u.op = "push" /\ InQueue(r, u)
        BY <1>5, PushesAre
      <4>2. OthersLeft(q, o)
        BY <1>8, <3>1, <4>1 DEF OthersLeft, InQueue
      <4>3. QED  BY <2>2, <4>2
    <3>2. ASSUME CopyLeft(q2, o.call)  PROVE \E u \in Pushes(r) : u.call = o.call /\ u # o
      <4>1. PICK t \in Streams : \E j \in 1 .. Len(q[t]) :
                                    q[t][j].op = "push" /\ q[t][j].call = o.call /\ q[t][j] # o
        BY <2>2, <3>2 DEF OthersLeft
      <4>2. PICK j \in 1 .. Len(q[t]) : q[t][j].op = "push" /\ q[t][j].call = o.call /\ q[t][j] # o
        BY <4>1
      <4>3. PICK u : u = q[t][j]
        OBVIOUS
      <4>4. u \in Pushes(r)
        BY <1>5, <1>8, <4>2, <4>3, PushesAre DEF InQueue
      <4>5. QED  BY <4>2, <4>3, <4>4
    <3>3. QED  BY <3>1, <3>2
  <2>4. QED  BY <2>1, <2>3, SMTT(60)
<1>15. sent'[r] = IF ~ CopyLeft(q2, o.call) THEN sent[r] \cup {o.call} ELSE sent[r]
  <2>1. sent'[r] = sent[r] \cup last
    BY <1>4, <1>6
  <2>2. CASE CopyLeft(q2, o.call)
    <3>1. last = {}
      BY <1>1, <1>14, <2>2, Zenon
    <3>2. QED  BY <2>1, <2>2, <3>1
  <2>3. CASE ~ CopyLeft(q2, o.call)
    <3>1. last = {o.call}
      BY <1>1, <1>14, <2>3, Zenon
    <3>2. QED  BY <2>1, <2>3, <3>1
  <2>4. QED  BY <2>2, <2>3
<1>16. \A t \in Ranks : t # r => sent'[t] = sent[t]
  BY <1>4, <1>6
<1>17. sent' \in [Ranks -> SUBSET Calls]
  <2>1. last \subseteq Calls
    BY <1>1, <1>10, Zenon
  <2>2. sent[r] \cup last \in SUBSET Calls
    BY <1>6, <2>1
  <2>3. QED  BY <1>4, <1>6, <2>2
<1>18. Does(o, q2, input[r], staged[r], Column(r), output[r], sent[r],
            input'[r], staged'[r], Column(r)', output'[r], sent'[r])
  BY <1>1, <1>2, <1>5, <1>13, <1>15, Zenon DEF Does
<1>19. output' \in [Ranks -> [Calls -> [Ranks -> 0 .. MaxCalls]]]
  BY <1>5 DEF DInv
<1>20. QED
  BY <1>1, <1>2, <1>5, <1>8, <1>12, <1>16, <1>17, <1>18, <1>19, Zenon DEF Acts

\* Who has every result in front of it has it all: each rank has sent its share, ...
LEMMA ReadsSent ==
    ASSUME DInv, NEW r \in Ranks, NEW L, NEW at, Fits(L, at, r), NEW i \in 1 .. pos[r], Transfers(program, i),
           NEW d \in {1, 2}, d = 2, Past(program, at, ran[r], i, d), NEW t \in Ranks
    PROVE  program[i].call \in sent[t]
<1>1. IInv /\ Together
  BY DEF DInv
<1>2. PICK M, at2 : Fits(M, at2, t) /\ StoredAt(M, t)
  BY DEF DInv
<1>3. i \in 1 .. pos[t] /\ Closed(program, at2, ran[t], i)
  BY <1>1, <1>2, PeersCame
<1>4. PICK p, k, q, n : p = program /\ k = pos[t] /\ q = queue[t] /\ n = ran[t]
  OBVIOUS
<1>5. Going(M, t, p, k, at2, q, n)
  BY <1>1, <1>2, <1>4, NowGoing
<1>6. \E v : CopyRan(M, n, v) /\ v.call = p[i].call
  BY <1>3, <1>4, <1>5, CopyMade
<1>7. \A o \in Pushes(t) : o.call # p[i].call
  BY <1>1, <1>4, NobodyPushes
<1>8. ~ CopyLeft(q, p[i].call)
  <2>1. SUFFICES ASSUME CopyLeft(q, p[i].call)  PROVE FALSE
    OBVIOUS
  <2>2. PICK s \in Streams : \E j \in 1 .. Len(q[s]) : q[s][j].op = "push" /\ q[s][j].call = p[i].call
    BY <2>1 DEF CopyLeft
  <2>3. PICK j \in 1 .. Len(q[s]) : q[s][j].op = "push" /\ q[s][j].call = p[i].call
    BY <2>2
  <2>4. PICK o : o = q[s][j]
    OBVIOUS
  <2>5. o \in Pushes(t)
    BY <1>1, <1>4, <2>3, <2>4, PushesAre DEF InQueue
  <2>6. QED  BY <1>7, <2>3, <2>4, <2>5
<1>9. p[i].call \in Calls
  <2>1. /\ Contract(p) /\ t \in Ranks /\ k \in Nat /\ k <= Len(p) /\ Told(M, t, p, k, at2)
    BY <1>5 DEF Going
  <2>2. QED  BY <1>3, <1>4, <2>1, TransferIs
<1>10. SentIs(M, n, q, sent[t])
  BY <1>2, <1>4 DEF StoredAt, Stored
<1>11. QED
  BY <1>4, <1>6, <1>8, <1>9, <1>10 DEF SentIs

\* ... and a rank that reads a result finds all of them.
LEMMA ReadsWhole ==
    ASSUME DInv, NEW r \in Ranks, NEW s \in Streams, Ready(r, s, "read")
    PROVE  /\ s = "caller" /\ Head(queue[r][s]).call \in Calls
           /\ Shares(r, Head(queue[r][s])) = Whole(Head(queue[r][s]).call)
           /\ \A t \in Ranks : Head(queue[r][s]).call \in sent[t]
<1>1. IInv /\ Together
  BY DEF DInv
<1>2. PICK L, at : Fits(L, at, r) /\ StoredAt(L, r)
  BY DEF DInv
<1>3. PICK o : o = Head(queue[r][s])
  OBVIOUS
<1>4. PICK i \in 1 .. pos[r] :
         /\ Transfers(program, i) /\ Past(program, at, ran[r], i, 2)
         /\ End(program[i], at[i].near) <= ran[r][Lane(program[i])]
         /\ o.call = program[i].call /\ s = "caller"
         /\ o.win = IF program[i].dest = "fresh" THEN <<"output", program[i].call>> ELSE Filled(program, i)
  BY <1>1, <1>2, <1>3, ReadsResult
<1>5. PICK d \in {1, 2} : d = 2
  OBVIOUS
<1>6. \A t \in Ranks : o.call \in sent[t]
  BY <1>2, <1>4, <1>5, ReadsSent
<1>7. PICK p, k, q, n : p = program /\ k = pos[r] /\ q = queue[r] /\ n = ran[r]
  OBVIOUS
<1>8. Going(L, r, p, k, at, q, n)
  BY <1>1, <1>2, <1>7, NowGoing
<1>9. /\ Contract(p) /\ r \in Ranks /\ k \in Nat /\ k <= Len(p) /\ Told(L, r, p, k, at) /\ n \in [Streams -> Nat]
  BY <1>8 DEF Going
<1>10. /\ i \in DOMAIN p /\ p[i].call \in Calls /\ Filled(p, i) \in Windows /\ Lane(p[i]) \in Streams
       /\ at[i].near \in Nat /\ at[i].near >= 1 /\ Laid(L, r, p, at, i)
  BY <1>4, <1>7, <1>9, TransferIs
<1>11. CASE p[i].dest = "fresh"
  <2>1. o.win[1] = "output"
    BY <1>4, <1>7, <1>11
  <2>2. PICK g, e, a : g = at[i].near + 5 /\ e = n[Lane(p[i])] /\ a = at[i].near
    OBVIOUS
  <2>3. g <= e /\ e \in Nat /\ g = End(p[i], a)
    BY <1>4, <1>7, <1>9, <1>10, <1>11, <2>2 DEF End
  <2>4. g \in 1 .. e /\ g \in a .. g
    BY <1>10, <2>2, <2>3
  <2>5. L[Lane(p[i])][g].op = "copyout" /\ L[Lane(p[i])][g].call = p[i].call
    <3>1. OwnShare(L[Lane(p[i])], r, p[i], Filled(p, i), a)
      BY <1>10, <2>2 DEF Laid
    <3>2. QED  BY <1>11, <2>2, <2>3, <2>4, <3>1 DEF OwnShare
  <2>6. OutputsAre(L, n, output[r])
    BY <1>2, <1>7 DEF StoredAt, Stored
  <2>7. output[r][p[i].call] = Whole(p[i].call)
    BY <1>10, <2>2, <2>4, <2>5, <2>6 DEF OutputsAre
  <2>8. QED  BY <1>3, <1>4, <1>6, <1>7, <1>10, <2>1, <2>7 DEF Shares
<1>12. CASE p[i].dest # "fresh"
  <2>1. o.win = Filled(p, i) /\ o.win \in Windows /\ o.win[1] # "output"
    <3>1. o.win = Filled(p, i) /\ o.win \in Windows
      BY <1>4, <1>7, <1>10, <1>12
    <3>2. QED  BY <3>1 DEF Windows
  <2>2. StillReads(r, p[i].call)
    <3>1. queue[r][s] # <<>> /\ queue[r][s] \in Seq(Ops) /\ o.op = "read"
      BY <1>1, <1>3, RankIs DEF Ready, Logs
    <3>2. 1 \in DOMAIN queue[r][s] /\ queue[r][s][1] = o
      BY <1>3, <3>1
    <3>3. Queued(r, "read", p[i].call)
      BY <1>4, <1>7, <3>1, <3>2 DEF Queued
    <3>4. Noted(p, k, at, result[r])
      BY <1>2, <1>7 DEF Fits, Fine
    <3>5. result[r][p[i].call].from = Filled(p, i)
      BY <1>4, <1>7, <1>12, <3>4 DEF Noted
    <3>6. QED  BY <2>1, <3>3, <3>5 DEF StillReads
  <2>3. \A t \in Ranks : window[o.win][r][t] = o.call
    BY <1>2, <1>4, <1>5, <1>7, <2>1, <2>2, WholeWindow
  <2>4. window[o.win][r] \in [Ranks -> 0 .. MaxCalls]
    BY <1>1, <2>1 DEF IInv, Typing
  <2>5. window[o.win][r] = Whole(o.call)
    BY <2>3, <2>4 DEF Whole
  <2>6. QED  BY <1>3, <1>4, <1>6, <1>7, <1>10, <2>1, <2>5 DEF Shares
<1>13. QED
  BY <1>11, <1>12

------------------------------------------------------------------------------
(* The buffers stay as told. *)

\* Every step of a stream runs one operation.
LEMMA StreamActs ==
    ASSUME DInv, NEW r \in Ranks, NEW s \in Streams, StreamStep(r, s)
    PROVE  Acts(r, s)
<1>1. ASSUME NEW o, RunsOp(r, s, o), o \in {"nothing", "arrive", "leave", "read"},
             input' = input, staged' = staged, window' = window, output' = output, sent' = sent
      PROVE  Acts(r, s)
  <2>1. o \notin {"produce", "stage", "push", "copyout"}
    BY <1>1
  <2>2. QED  BY <1>1, <2>1, QuietActs
<1>2. CASE WaitDone(r, s)
  <2>1. /\ RunsOp(r, s, "nothing")
        /\ input' = input /\ staged' = staged /\ window' = window /\ output' = output /\ sent' = sent
    BY <1>2 DEF WaitDone, RunsOp, data
  <2>2. QED  BY <1>1, <2>1
<1>3. CASE Arrive(r, s)
  <2>1. /\ RunsOp(r, s, "arrive")
        /\ input' = input /\ staged' = staged /\ window' = window /\ output' = output /\ sent' = sent
    BY <1>3 DEF Arrive, RunsOp, data
  <2>2. QED  BY <1>1, <2>1
<1>4. CASE Leave(r, s)
  <2>1. /\ RunsOp(r, s, "leave")
        /\ input' = input /\ staged' = staged /\ window' = window /\ output' = output /\ sent' = sent
    BY <1>4 DEF Leave, RunsOp, data
  <2>2. QED  BY <1>1, <2>1
<1>5. CASE PushShare(r, s)
  BY <1>5, PushActs
<1>6. CASE RunProduce(r, s)
  BY <1>6, ProduceActs
<1>7. CASE Stage(r, s)
  BY <1>7, StageActs
<1>8. CASE RunCopyOut(r, s)
  BY <1>8, CopyOutActs
<1>9. CASE Read(r, s)
  <2>1. /\ RunsOp(r, s, "read")
        /\ input' = input /\ staged' = staged /\ window' = window /\ output' = output /\ sent' = sent
    BY <1>9 DEF Read, RunsOp
  <2>2. QED  BY <1>1, <2>1
<1>10. QED
  BY <1>2, <1>3, <1>4, <1>5, <1>6, <1>7, <1>8, <1>9 DEF StreamStep

\* A step of a stream keeps the buffers of every rank as its log tells them.
LEMMA StreamDelivers ==
    ASSUME DInv, NEW r \in Ranks, NEW s \in Streams, StreamStep(r, s)
    PROVE  DInv'
<1>1. IInv /\ Together /\ Acts(r, s)
  BY StreamActs DEF DInv
<1>2. Together'
  BY <1>1, StreamTogether
<1>3. PICK L, at : Fits(L, at, r) /\ StoredAt(L, r)
  BY DEF DInv
<1>4. IInv' /\ Fits(L, at, r)' /\ OthersStill(r)
  BY <1>1, <1>3, StreamStepKeeps
<1>5. PICK p, k, q, n, q2, n2, o :
         /\ p = program /\ k = pos[r] /\ q = queue[r] /\ n = ran[r] /\ q2 = queue'[r] /\ n2 = ran'[r]
         /\ o = Head(queue[r][s])
  OBVIOUS
<1>6. /\ Runs(L, r, p, k, at, q, n, s, q2, n2) /\ o = L[s][n[s] + 1]
      /\ \A t \in Ranks : t # r => queue'[t] = queue[t] /\ ran'[t] = ran[t]
  <2>1. RunsOp(r, s, o.op)
    BY <1>1, <1>5 DEF Acts
  <2>2. QED  BY <1>1, <1>3, <1>5, <2>1, RunsOpIs
<1>7. Does(o, q2, input[r], staged[r], Column(r), output[r], sent[r],
           input'[r], staged'[r], Column(r)', output'[r], sent'[r])
  BY <1>1, <1>5 DEF Acts
<1>8. Restaged(L, p, k, at, n) /\ StagedInTurn(L)
  BY <1>3, <1>5 DEF Fits, Fine
<1>9. Stored(L, n, q, input[r], staged[r], Column(r), output[r], sent[r])
  BY <1>3, <1>5 DEF StoredAt
<1>10. Stored(L, n2, q2, input'[r], staged'[r], Column(r)', output'[r], sent'[r])
  <2>1. PICK in, st, win, out, snt, in2, st2, win2, out2, snt2 :
           /\ in = input[r] /\ st = staged[r] /\ win = Column(r) /\ out = output[r] /\ snt = sent[r]
           /\ in2 = input'[r] /\ st2 = staged'[r] /\ win2 = Column(r)' /\ out2 = output'[r] /\ snt2 = sent'[r]
    OBVIOUS
  <2>2. Does(o, q2, in, st, win, out, snt, in2, st2, win2, out2, snt2) /\ Stored(L, n, q, in, st, win, out, snt)
    BY <1>7, <1>9, <2>1
  <2>3. Stored(L, n2, q2, in2, st2, win2, out2, snt2)
    BY <1>6, <1>8, <2>2, StoredRuns
  <2>4. QED  BY <2>1, <2>3
<1>11. StoredAt(L, r)'
  BY <1>5, <1>10 DEF StoredAt
<1>12. ASSUME NEW t \in Ranks, t # r  PROVE \E M, at2 : Fits(M, at2, t)' /\ StoredAt(M, t)'
  <2>1. PICK M, at2 : Fits(M, at2, t) /\ StoredAt(M, t)
    BY <1>12 DEF DInv
  <2>2. Fits(M, at2, t)'
    BY <1>4, <1>12, <2>1 DEF OthersStill
  <2>3. /\ queue'[t] = queue[t] /\ ran'[t] = ran[t]
        /\ input'[t] = input[t] /\ staged'[t] = staged[t] /\ Column(t)' = Column(t)
        /\ output'[t] = output[t] /\ sent'[t] = sent[t]
    BY <1>1, <1>6, <1>12 DEF Acts
  <2>4. StoredAt(M, t)'
    BY <2>1, <2>3 DEF StoredAt
  <2>5. QED  BY <2>2, <2>4
<1>13. \A t \in Ranks : \E M, at2 : Fits(M, at2, t)' /\ StoredAt(M, t)'
  BY <1>4, <1>11, <1>12
<1>14. output' \in [Ranks -> [Calls -> [Ranks -> 0 .. MaxCalls]]] /\ sent' \in [Ranks -> SUBSET Calls]
  BY <1>1 DEF Acts
<1>15. QED
  BY <1>2, <1>4, <1>13, <1>14 DEF DInv

\* A step of a host changes no buffer, and what it adds to the log is left to run.
LEMMA HostDelivers ==
    ASSUME DInv, NEW r \in Ranks, HostStep(r)
    PROVE  DInv'
<1>1. IInv /\ Together
  BY DEF DInv
<1>2. Together'
  BY <1>1, HostTogether
<1>3. /\ ran' = ran /\ program' = program /\ pos' = [pos EXCEPT ![r] = @ + 1]
      /\ input' = input /\ staged' = staged /\ window' = window /\ output' = output /\ sent' = sent
  BY DEF HostStep, data
<1>4. PICK L, at : Fits(L, at, r) /\ StoredAt(L, r)
  BY DEF DInv
<1>5. IInv' /\ Lengthened(L, at, r) /\ OthersStill(r)
  BY <1>1, <1>4, HostStepKeeps
<1>6. PICK M, at2 : Fits(M, at2, r)' /\ Grown(L, M) /\ Places1(program, pos[r], at, at2)
  BY <1>5 DEF Lengthened
<1>7. PICK p, k, k2, q, q2, n : /\ p = program /\ k = pos[r] /\ k2 = pos'[r]
                                /\ q = queue[r] /\ q2 = queue'[r] /\ n = ran[r]
  OBVIOUS
<1>8. Going(L, r, p, k, at, q, n)
  BY <1>1, <1>4, <1>7, NowGoing
<1>9. Going(M, r, p, k2, at2, q2, n)
  BY <1>3, <1>5, <1>6, <1>7, NextGoing
<1>10. k <= k2 /\ \A i \in 1 .. k : at2[i] = at[i]
  <2>1. pos \in [Ranks -> 0 .. Len(program)] /\ k \in Nat
    BY <1>1, <1>7, <1>8 DEF IInv, Typing, Going
  <2>2. k2 = k + 1
    BY <1>3, <1>7, <2>1
  <2>3. QED  BY <1>6, <1>7, <2>1, <2>2 DEF Places1
<1>11. \A t \in Ranks : Column(t)' = Column(t)
  BY <1>3 DEF Column
<1>12. StoredAt(M, r)'
  <2>1. PICK in, st, win, out, snt :
           /\ in = input[r] /\ st = staged[r] /\ win = Column(r) /\ out = output[r] /\ snt = sent[r]
    OBVIOUS
  <2>2. Stored(L, n, q, in, st, win, out, snt)
    BY <1>4, <1>7, <2>1 DEF StoredAt
  <2>3. Stored(M, n, q2, in, st, win, out, snt)
    BY <1>6, <1>8, <1>9, <1>10, <2>2, StoredGrows
  <2>4. /\ n = ran'[r] /\ q2 = queue'[r] /\ in = input'[r] /\ st = staged'[r] /\ win = Column(r)'
        /\ out = output'[r] /\ snt = sent'[r]
    BY <1>3, <1>7, <1>11, <2>1
  <2>5. QED  BY <2>3, <2>4 DEF StoredAt
<1>13. ASSUME NEW t \in Ranks, t # r  PROVE \E K, at3 : Fits(K, at3, t)' /\ StoredAt(K, t)'
  <2>1. PICK K, at3 : Fits(K, at3, t) /\ StoredAt(K, t)
    BY <1>13 DEF DInv
  <2>2. Fits(K, at3, t)'
    BY <1>5, <1>13, <2>1, SMTT(60) DEF OthersStill
  <2>3. queue'[t] = queue[t]
    <3>1. queue \in [Ranks -> Logs]
      BY <1>1 DEF IInv, Typing
    <3>2. QED  BY <1>13, <3>1, Zenon DEF HostStep, SyncCall, AsyncCall, RefusedCall, Use, TimedWait, Staging, Submit
  <2>4. StoredAt(K, t)'
    BY <1>3, <1>11, <2>1, <2>3 DEF StoredAt
  <2>5. QED  BY <2>2, <2>4
<1>14. \A t \in Ranks : \E K, at3 : Fits(K, at3, t)' /\ StoredAt(K, t)'
  BY <1>6, <1>12, <1>13
<1>15. output' \in [Ranks -> [Calls -> [Ranks -> 0 .. MaxCalls]]] /\ sent' \in [Ranks -> SUBSET Calls]
  BY <1>3 DEF DInv
<1>16. QED
  BY <1>2, <1>5, <1>14, <1>15 DEF DInv

\* To begin with nothing has been computed, copied or sent.
LEMMA DeliveredFirst == Init => DInv
<1>1. SUFFICES ASSUME Init  PROVE DInv
  OBVIOUS
<1>2. IInv /\ Together
  BY <1>1, InitHolds, TogetherFirst
<1>3. /\ ran = [r \in Ranks |-> [s \in Streams |-> 0]] /\ sent = [r \in Ranks |-> {}]
      /\ output = [r \in Ranks |-> [c \in Calls |-> [s \in Ranks |-> 0]]]
  BY <1>1, Zenon DEF Init
<1>4. output \in [Ranks -> [Calls -> [Ranks -> 0 .. MaxCalls]]] /\ sent \in [Ranks -> SUBSET Calls]
  <2>1. 0 \in 0 .. MaxCalls
    BY ExchangeAssumption
  <2>2. QED  BY <1>3, <2>1
<1>5. ASSUME NEW r \in Ranks  PROVE \E L, at : Fits(L, at, r) /\ StoredAt(L, r)
  <2>1. PICK L, at : Fits(L, at, r)
    BY <1>2 DEF IInv
  <2>2. PICK n : n = ran[r]
    OBVIOUS
  <2>3. \A s \in Streams : n[s] = 0
    BY <1>3, <2>2
  <2>4. "caller" \in Streams /\ n["caller"] = 0
    BY <2>3 DEF Streams
  <2>5. ASSUME NEW v  PROVE ~ CopyRan(L, n, v)
    BY <2>3 DEF CopyRan
  <2>6. InputIs(L, n, input[r]) /\ StagedIs(L, n, staged[r])
    BY <2>4 DEF InputIs, StagedIs
  <2>7. SharesAre(L, n, Column(r))
    BY <2>5 DEF SharesAre
  <2>8. OutputsAre(L, n, output[r])
    BY <2>3 DEF OutputsAre
  <2>9. SentIs(L, n, queue[r], sent[r])
    BY <1>3, <2>5 DEF SentIs
  <2>10. StoredAt(L, r)
    BY <2>2, <2>6, <2>7, <2>8, <2>9 DEF StoredAt, Stored
  <2>11. QED  BY <2>1, <2>10
<1>6. QED
  BY <1>2, <1>4, <1>5 DEF DInv

\* A step that changes nothing.
LEMMA StutterDelivers ==
    ASSUME DInv, UNCHANGED vars
    PROVE  DInv'
<1>1. /\ queue' = queue /\ ran' = ran /\ input' = input /\ staged' = staged /\ window' = window
      /\ output' = output /\ sent' = sent
  BY DEF vars, data
<1>2. IInv' /\ \A t \in Ranks : \A L, at : Fits(L, at, t) => Fits(L, at, t)'
  BY StutterKeeps DEF DInv
<1>3. Together'
  BY DEF DInv, vars, host, Together, Numbered, Abreast, AtBarrier
<1>4. ASSUME NEW r \in Ranks  PROVE \E L, at : Fits(L, at, r)' /\ StoredAt(L, r)'
  <2>1. PICK L, at : Fits(L, at, r) /\ StoredAt(L, r)
    BY DEF DInv
  <2>2. Column(r)' = Column(r)
    BY <1>1 DEF Column
  <2>3. StoredAt(L, r)'
    BY <1>1, <2>1, <2>2 DEF StoredAt
  <2>4. QED  BY <1>2, <2>1, <2>3
<1>5. QED
  BY <1>1, <1>2, <1>3, <1>4 DEF DInv

\* The buffers of every rank always are as its log tells: the inductive invariant
\* of the data.
THEOREM DeliveryInductive == Spec => []DInv
<1>1. ASSUME DInv, [Next]_vars
      PROVE  DInv'
  <2>1. CASE UNCHANGED vars
    BY <1>1, <2>1, StutterDelivers
  <2>2. CASE Next
    BY <1>1, <2>1, <2>2, HostDelivers, StreamDelivers DEF Next, Rest
  <2>3. QED  BY <1>1, <2>1, <2>2
<1>2. QED
  BY <1>1, DeliveredFirst, PTL DEF Spec

\* Safety: when a rank's kernel is about to read the result of a call, that result
\* is the payload every rank has sent for this very call, wherever it is kept and
\* whatever calls were issued around it on the windows and buffers it reuses.
THEOREM ResultsIntact == Spec => []ResultIntact
<1>1. ASSUME DInv  PROVE ResultIntact
  <2>1. SUFFICES ASSUME NEW r \in Ranks, Ready(r, "caller", "read"), NEW t \in Ranks
                 PROVE  Shares(r, Head(queue[r].caller))[t] = Head(queue[r].caller).call
    BY DEF ResultIntact
  <2>2. PICK s \in Streams : s = "caller"
    BY DEF Streams
  <2>3. Shares(r, Head(queue[r][s])) = Whole(Head(queue[r][s]).call)
    BY <1>1, <2>1, <2>2, ReadsWhole
  <2>4. QED  BY <2>2, <2>3 DEF Whole
<1>2. QED
  BY <1>1, DeliveryInductive, PTL

------------------------------------------------------------------------------
(* The collective. *)

\* A copy is the rank's contribution to its call when it is the last, and no step
\* of the collective otherwise.
LEMMA PushContributes ==
    ASSUME DInv, NEW r \in Ranks, NEW s \in Streams, PushShare(r, s)
    PROVE  (\E c \in Calls : Promise!Contribute(r, c)) \/ (sent' = sent /\ got' = got)
<1>1. PICK o : o = Head(queue[r][s])
  BY SMTT(60)
<1>2. Acts(r, s) /\ IInv /\ o.op = "push" /\ queue[r][s] # <<>> /\ got' = got
  BY <1>1, PushActs, ZenonT(60) DEF DInv, PushShare, Ready
<1>3. sent'[r] = IF ~ CopyLeft(queue'[r], o.call) THEN sent[r] \cup {o.call} ELSE sent[r]
  BY <1>1, <1>2 DEF Acts, Does
<1>4. /\ \A t \in Ranks : t # r => sent'[t] = sent[t]
      /\ sent \in [Ranks -> SUBSET Calls] /\ sent' \in [Ranks -> SUBSET Calls]
  BY <1>2 DEF Acts, DInv
<1>5. CASE CopyLeft(queue'[r], o.call)
  BY <1>2, <1>3, <1>4, <1>5
<1>6. CASE ~ CopyLeft(queue'[r], o.call)
  <2>1. sent'[r] = sent[r] \cup {o.call}
    BY <1>3, <1>6
  <2>2. o.call \in Calls
    BY <1>4, <2>1
  <2>3. CopyLeft(queue[r], o.call)
    <3>1. queue[r][s] \in Seq(Ops)
      BY <1>2, RankIs DEF Logs
    <3>2. 1 \in 1 .. Len(queue[r][s]) /\ queue[r][s][1] = o
      BY <1>1, <1>2, <3>1
    <3>3. QED  BY <1>2, <3>2 DEF CopyLeft
  <2>4. o.call \notin sent[r]
    <3>1. PICK L : StoredAt(L, r)
      BY DEF DInv
    <3>2. SentIs(L, ran[r], queue[r], sent[r])
      BY <3>1 DEF StoredAt, Stored
    <3>3. QED  BY <2>2, <2>3, <3>2 DEF SentIs
  <2>5. sent' = [sent EXCEPT ![r] = @ \cup {o.call}]
    BY <1>4, <2>1
  <2>6. Promise!Contribute(r, o.call)
    BY <1>2, <2>4, <2>5 DEF Promise!Contribute
  <2>7. QED  BY <2>2, <2>6
<1>7. QED
  BY <1>5, <1>6

\* A read delivers the result of its call.
LEMMA ReadDelivers ==
    ASSUME DInv, NEW r \in Ranks, NEW s \in Streams, Read(r, s)
    PROVE  \E c \in Calls : Promise!Deliver(r, c)
<1>1. PICK c : c = Head(queue[r][s]).call
  OBVIOUS
<1>2. /\ c \in Calls /\ Shares(r, Head(queue[r][s])) = Whole(c)
      /\ \A t \in Ranks : c \in sent[t]
  BY <1>1, ReadsWhole DEF Read
<1>3. sent' = sent /\ got' = [got EXCEPT ![r][c] = Whole(c)]
  BY <1>1, <1>2 DEF Read
<1>4. Promise!Deliver(r, c)
  BY <1>2, <1>3 DEF Promise!Deliver, Whole
<1>5. QED
  BY <1>2, <1>4

\* Refinement: seen through what is sent and read, the streams, windows, barriers
\* and staging buffers of any number of ranks are the collective.
THEOREM ImplementsCollective == Spec => KeepsPromise
<1>1. Init => Promise!Init
  <2>1. SUFFICES ASSUME Init  PROVE Promise!Init
    OBVIOUS
  <2>2. /\ sent = [r \in Ranks |-> {}] /\ got = output
        /\ output = [r \in Ranks |-> [c \in Calls |-> [s \in Ranks |-> 0]]]
    BY <2>1, Zenon DEF Init
  <2>3. QED  BY <2>2 DEF Promise!Init, Promise!Unread
<1>2. ASSUME DInv, [Next]_vars
      PROVE  [Promise!Next]_(Promise!promise)
  <2>1. CASE sent' = sent /\ got' = got
    BY <2>1 DEF Promise!promise
  <2>2. ASSUME NEW r \in Ranks, NEW s \in Streams, StreamStep(r, s)
        PROVE  (\E c \in Calls : Promise!Contribute(r, c) \/ Promise!Deliver(r, c)) \/ (sent' = sent /\ got' = got)
    <3>1. CASE PushShare(r, s)
      BY <1>2, <2>2, <3>1, PushContributes
    <3>2. CASE Read(r, s)
      BY <1>2, <2>2, <3>2, ReadDelivers, SMTT(60)
    <3>3. CASE ~ PushShare(r, s) /\ ~ Read(r, s)
      BY <2>2, <3>3 DEF StreamStep, WaitDone, Arrive, Leave, RunProduce, Stage, RunCopyOut, data
    <3>4. QED  BY <3>1, <3>2, <3>3
  <2>3. ASSUME NEW r \in Ranks, HostStep(r)  PROVE sent' = sent /\ got' = got
    BY <2>3 DEF HostStep, data
  <2>4. CASE UNCHANGED vars
    BY <2>1, <2>4 DEF vars, data
  <2>5. CASE Next
    BY <2>1, <2>2, <2>3, <2>4, <2>5 DEF Next, Rest, Promise!Next
  <2>6. QED  BY <1>2, <2>4, <2>5
<1>3. QED
  BY <1>1, <1>2, DeliveryInductive, PTL DEF Spec, KeepsPromise, Promise!Spec

------------------------------------------------------------------------------
(* The waits never make a circle. *)

\* A stream's ticket is the number of the barrier of the transfer it is in.
Ticketed(p, k, at, n, tk) ==
    \A i \in 1 .. k, d \in {0, 3} :
        Transfers(p, i) /\ tk[Lane(p[i])] # 0 /\ n[Lane(p[i])] = at[i].near + d
            => tk[Lane(p[i])] = 2 * Nth(p, i) + (IF d = 0 THEN 1 ELSE 2)

\* Rank r's log is L, and num numbers it.
Seated(r, L, at, num) ==
    /\ Fits(L, at, r) /\ TakesTurns(L, program, pos[r], at, num)
    /\ Ticketed(program, pos[r], at, ran[r], ticket[r])

\* Every rank's log has numbers with which the waits agree.
Turning == \A r \in Ranks : \E L, at, num : Seated(r, L, at, num)

\* To begin with there is nothing to number.
LEMMA TurningFirst == Init => IInv /\ Turning
<1>1. SUFFICES ASSUME Init  PROVE IInv /\ Turning
  OBVIOUS
<1>2. IInv
  BY <1>1, InitHolds
<1>3. /\ pos = [r \in Ranks |-> 0] /\ ran = [r \in Ranks |-> [s \in Streams |-> 0]]
      /\ queue = [r \in Ranks |-> [s \in Streams |-> <<>>]]
      /\ ticket = [r \in Ranks |-> [s \in Streams |-> 0]]
  BY <1>1, Zenon DEF Init
<1>4. ASSUME NEW r \in Ranks  PROVE \E L, at, num : Seated(r, L, at, num)
  <2>1. PICK L, at : Fits(L, at, r)
    BY <1>2 DEF IInv
  <2>2. PICK p, k, q, n : p = program /\ k = pos[r] /\ q = queue[r] /\ n = ran[r]
    OBVIOUS
  <2>3. Going(L, r, p, k, at, q, n)
    BY <1>2, <1>4, <2>1, <2>2, NowGoing
  <2>4. k = 0 /\ \A s \in Streams : q[s] = <<>> /\ n[s] = 0
    BY <1>3, <1>4, <2>2
  <2>5. ASSUME NEW s \in Streams  PROVE Len(L[s]) = 0
    <3>1. Len(L[s]) \in Nat /\ ~ (n[s] + 1 <= Len(L[s]))
      BY <2>3, <2>4, <2>5, HeadIs
    <3>2. QED  BY <2>4, <2>5, <3>1
  <2>6. PICK num : num = 0
    OBVIOUS
  <2>7. TakesTurns(L, p, k, at, num)
    BY <2>4, <2>5 DEF TakesTurns
  <2>8. Ticketed(p, k, at, n, ticket[r])
    BY <2>4 DEF Ticketed
  <2>9. QED  BY <2>1, <2>2, <2>7, <2>8 DEF Seated
<1>5. QED
  BY <1>2, <1>4 DEF Turning

\* A ticket is taken when its barrier is started.
LEMMA TicketsRun ==
    ASSUME IInv, NEW r \in Ranks, NEW s \in Streams, StreamStep(r, s), NEW L, NEW at, Fits(L, at, r), Fits(L, at, r)', IInv',
           Ticketed(program, pos[r], at, ran[r], ticket[r])
    PROVE  Ticketed(program, pos[r], at, ran'[r], ticket'[r])
<1>1. PICK o : RunsOp(r, s, o) /\ (o # "arrive" => \A x \in Streams : x # s => ticket'[r][x] = ticket[r][x])
                               /\ (o = "arrive" => Arrive(r, s))
  <2>1. ticket \in [Ranks -> [Streams -> 0 .. 2 * MaxCalls]]
    BY DEF IInv, Typing
  <2>2. CASE Arrive(r, s)
    BY <2>2, Zenon DEF Arrive, RunsOp
  <2>3. CASE Leave(r, s)
    <3>1. RunsOp(r, s, "leave") /\ ticket' = [ticket EXCEPT ![r][s] = 0]
      BY <2>3, Zenon DEF Leave, RunsOp
    <3>2. \A x \in Streams : x # s => ticket'[r][x] = ticket[r][x]
      BY <2>1, <3>1
    <3>3. QED  BY <3>1, <3>2
  <2>4. CASE WaitDone(r, s)
    <3>1. RunsOp(r, s, "nothing") /\ ticket' = ticket
      BY <2>4 DEF WaitDone, RunsOp
    <3>2. QED  BY <3>1
  <2>5. CASE PushShare(r, s)
    <3>1. RunsOp(r, s, "push") /\ ticket' = ticket
      BY <2>5 DEF PushShare, RunsOp
    <3>2. QED  BY <3>1, SMTT(60)
  <2>6. CASE RunProduce(r, s)
    <3>1. RunsOp(r, s, "produce") /\ ticket' = ticket
      BY <2>6 DEF RunProduce, RunsOp
    <3>2. QED  BY <3>1
  <2>7. CASE Stage(r, s)
    <3>1. RunsOp(r, s, "stage") /\ ticket' = ticket
      BY <2>7 DEF Stage, RunsOp
    <3>2. QED  BY <3>1
  <2>8. CASE RunCopyOut(r, s)
    <3>1. RunsOp(r, s, "copyout") /\ ticket' = ticket
      BY <2>8 DEF RunCopyOut, RunsOp
    <3>2. QED  BY <3>1
  <2>9. CASE Read(r, s)
    <3>1. RunsOp(r, s, "read") /\ ticket' = ticket
      BY <2>9 DEF Read, RunsOp
    <3>2. QED  BY <3>1
  <2>10. QED
    BY <2>2, <2>3, <2>4, <2>5, <2>6, <2>7, <2>8, <2>9 DEF StreamStep
<1>2. PICK p, k, q, n, tk, q2, n2, tk2, arr :
         /\ p = program /\ k = pos[r] /\ q = queue[r] /\ n = ran[r] /\ tk = ticket[r]
         /\ q2 = queue'[r] /\ n2 = ran'[r] /\ tk2 = ticket'[r] /\ arr = ArrivedAt(r)
  OBVIOUS
<1>3. Runs(L, r, p, k, at, q, n, s, q2, n2) /\ L[s][n[s] + 1].op = o
  BY <1>1, <1>2, RunsOpIs
<1>4. Going(L, r, p, k, at, q, n) /\ Counted(p, k, at, n, arr) /\ Inside(L, n2, tk2) /\ arr \in [Windows -> Nat]
  BY <1>2, NowGoing, NextGoing, RankIs
<1>5. /\ Contract(p) /\ k \in Nat /\ k <= Len(p) /\ Told(L, r, p, k, at)
      /\ n \in [Streams -> Nat] /\ n2[s] = n[s] + 1 /\ \A x \in Streams : x # s => n2[x] = n[x]
  BY <1>3, <1>4 DEF Going, Runs, Steps1
<1>6. \A x \in Streams : x # s => tk2[x] = tk[x]
  <2>1. CASE o # "arrive"
    BY <1>1, <1>2, <2>1
  <2>2. CASE o = "arrive"
    <3>1. ticket \in [Ranks -> [Streams -> 0 .. 2 * MaxCalls]]
      BY DEF IInv, Typing
    <3>2. ticket' = [ticket EXCEPT ![r][s] = arrived[Head(queue[r][s]).win][r] + 1]
      BY <1>1, <2>2, Zenon DEF Arrive
    <3>3. QED  BY <1>2, <3>1, <3>2
  <2>3. QED  BY <2>1, <2>2
<1>7. ASSUME NEW i \in 1 .. k, NEW d \in {0, 3}, Transfers(p, i), tk2[Lane(p[i])] # 0, n2[Lane(p[i])] = at[i].near + d
      PROVE  tk2[Lane(p[i])] = 2 * Nth(p, i) + (IF d = 0 THEN 1 ELSE 2)
  <2>1. Lane(p[i]) \in Streams /\ at[i].near \in Nat
    BY <1>4, <1>5, <1>7, TransferIs
  <2>2. CASE Lane(p[i]) # s
    <3>1. tk[Lane(p[i])] # 0 /\ n[Lane(p[i])] = at[i].near + d
      BY <1>5, <1>6, <1>7, <2>1, <2>2
    <3>2. Ticketed(p, k, at, n, tk)
      BY <1>2
    <3>3. tk[Lane(p[i])] = 2 * Nth(p, i) + (IF d = 0 THEN 1 ELSE 2)
      BY <1>7, <3>1, <3>2 DEF Ticketed
    <3>4. QED  BY <1>6, <2>1, <2>2, <3>3
  <2>3. CASE Lane(p[i]) = s
    <3>1. o = "arrive"
      BY <1>3, <1>4, <1>5, <1>7, <2>3 DEF Inside
    <3>2. Turn(p, at, n, s, i, d) /\ L[s][n[s] + 1].win = Filled(p, i)
      <4>1. Turn(p, at, n, s, i, d)
        BY <1>5, <1>7, <2>3 DEF Turn
      <4>2. L[Lane(p[i])][at[i].near + d].win = Filled(p, i)
        BY <1>4, <1>5, <1>7, StartsAt, SMTT(60)
      <4>3. QED  BY <1>5, <1>7, <2>3, <4>1, <4>2
    <3>3. arr[Filled(p, i)] = 2 * Nth(p, i) + (IF d = 0 THEN 0 ELSE 1)
      BY <1>3, <1>4, <1>7, <3>2, TurnNumber
    <3>4. PICK w : w = Filled(p, i)
      OBVIOUS
    <3>5. w \in Windows /\ Nth(p, i) \in Nat
      <4>1. i \in DOMAIN p
        BY <1>4, <1>5, <1>7, TransferIs
      <4>2. QED  BY <1>4, <1>5, <1>7, <3>4, <4>1, TransferIs, EarlierIs
    <3>6. tk2[s] = arr[w] + 1
      <4>1. Head(queue[r][s]).win = w
        BY <1>1, <1>2, <3>2, <3>4, RunsOpIs
      <4>2. ticket' = [ticket EXCEPT ![r][s] = arrived[w][r] + 1]
        BY <1>1, <3>1, <4>1, Zenon DEF Arrive
      <4>3. ticket \in [Ranks -> [Streams -> 0 .. 2 * MaxCalls]]
        BY DEF IInv, Typing
      <4>4. arr[w] = arrived[w][r]
        BY <1>2, <3>5, RankIs
      <4>5. QED  BY <1>2, <4>2, <4>3, <4>4
    <3>7. tk2[s] = 2 * Nth(p, i) + (IF d = 0 THEN 0 ELSE 1) + 1
      BY <3>3, <3>4, <3>6
    <3>8. QED  BY <1>7, <2>3, <3>5, <3>7
  <2>4. QED  BY <2>2, <2>3
<1>8. QED
  BY <1>2, <1>7 DEF Ticketed

\* What a step leaves of a rank it is not of.
LEMMA OthersSeated ==
    ASSUME NEW r \in Ranks, OthersStill(r), NEW t \in Ranks, t # r,
           program' = program, pos'[t] = pos[t], ran'[t] = ran[t], ticket'[t] = ticket[t],
           NEW L, NEW at, NEW num, Seated(t, L, at, num)
    PROVE  Seated(t, L, at, num)'
<1>1. Fits(L, at, t)'
  BY DEF OthersStill, Seated
<1>2. QED
  BY <1>1 DEF Seated

\* Running an operation changes no number.
LEMMA StreamTurns ==
    ASSUME IInv, Turning, NEW r \in Ranks, NEW s \in Streams, StreamStep(r, s)
    PROVE  IInv' /\ Turning'
<1>1. PICK L, at, num : Seated(r, L, at, num)
  BY DEF Turning
<1>2. Fits(L, at, r) /\ TakesTurns(L, program, pos[r], at, num) /\ Ticketed(program, pos[r], at, ran[r], ticket[r])
  BY <1>1 DEF Seated
<1>3. IInv' /\ Fits(L, at, r)' /\ OthersStill(r)
  BY <1>2, StreamStepKeeps
<1>4. /\ \E o : RunsOp(r, s, o)
      /\ \A t \in Ranks : t # r => ticket'[t] = ticket[t]
  <2>1. ticket \in [Ranks -> [Streams -> 0 .. 2 * MaxCalls]]
    BY DEF IInv, Typing
  <2>2. CASE Arrive(r, s)
    <3>1. RunsOp(r, s, "arrive") /\ \E v : ticket' = [ticket EXCEPT ![r][s] = v]
      BY <2>2, Zenon DEF Arrive, RunsOp
    <3>2. QED  BY <2>1, <3>1
  <2>3. CASE Leave(r, s)
    <3>1. RunsOp(r, s, "leave") /\ ticket' = [ticket EXCEPT ![r][s] = 0]
      BY <2>3, Zenon DEF Leave, RunsOp
    <3>2. QED  BY <2>1, <3>1
  <2>4. CASE WaitDone(r, s)
    BY <2>4, SMTT(60) DEF WaitDone, RunsOp
  <2>5. CASE PushShare(r, s)
    BY <2>5, Zenon DEF PushShare, RunsOp
  <2>6. CASE RunProduce(r, s)
    BY <2>6 DEF RunProduce, RunsOp
  <2>7. CASE Stage(r, s)
    BY <2>7 DEF Stage, RunsOp
  <2>8. CASE RunCopyOut(r, s)
    BY <2>8 DEF RunCopyOut, RunsOp
  <2>9. CASE Read(r, s)
    BY <2>9 DEF Read, RunsOp
  <2>10. QED
    BY <2>2, <2>3, <2>4, <2>5, <2>6, <2>7, <2>8, <2>9 DEF StreamStep
<1>5. PICK o : RunsOp(r, s, o)
  BY <1>4
<1>6. program' = program /\ pos' = pos /\ \A t \in Ranks : t # r => ran'[t] = ran[t]
  <2>1. program' = program /\ pos' = pos
    BY <1>5 DEF RunsOp, Pop, host
  <2>2. QED  BY <1>2, <1>5, <2>1, RunsOpIs
<1>7. Ticketed(program, pos[r], at, ran'[r], ticket'[r])
  BY <1>2, <1>3, TicketsRun
<1>8. Seated(r, L, at, num)'
  BY <1>2, <1>3, <1>6, <1>7 DEF Seated
<1>9. ASSUME NEW t \in Ranks, t # r  PROVE \E K, at2, num2 : Seated(t, K, at2, num2)'
  <2>1. PICK K, at2, num2 : Seated(t, K, at2, num2)
    BY <1>9 DEF Turning
  <2>2. Seated(t, K, at2, num2)'
    BY <1>3, <1>4, <1>6, <1>9, <2>1, OthersSeated
  <2>3. QED  BY <2>2
<1>10. QED
  BY <1>3, <1>8, <1>9 DEF Turning

\* What a host submits is numbered behind all there was.
LEMMA HostTurns ==
    ASSUME IInv, Turning, NEW r \in Ranks, HostStep(r)
    PROVE  IInv' /\ Turning'
<1>1. PICK L, at, num : Seated(r, L, at, num)
  BY DEF Turning
<1>2. Fits(L, at, r) /\ TakesTurns(L, program, pos[r], at, num) /\ Ticketed(program, pos[r], at, ran[r], ticket[r])
  BY <1>1 DEF Seated
<1>3. IInv' /\ Lengthened(L, at, r) /\ OthersStill(r)
  BY <1>2, HostStepKeeps
<1>4. PICK M, at2, add :
         /\ Fits(M, at2, r)' /\ Places1(program, pos[r], at, at2)
         /\ Added(L, add, M) /\ InTurns(L, add, program[pos[r] + 1])
         /\ Transfers(program, pos[r] + 1) =>
               /\ at2[pos[r] + 1].near \in Nat
               /\ at2[pos[r] + 1].near > Len(L[Lane(program[pos[r] + 1])])
               /\ at2[pos[r] + 1].near = Len(L[Lane(program[pos[r] + 1])]) + Ahead(program[pos[r] + 1])
  BY <1>3 DEF Lengthened
<1>5. Moves(r)
  BY DEF HostStep, Moves
<1>6. /\ program' = program /\ ran' = ran /\ ticket' = ticket
      /\ pos'[r] = pos[r] + 1 /\ (\A t \in Ranks : t # r => pos'[t] = pos[t])
      /\ pos[r] + 1 \in DOMAIN program /\ pos[r] \in Nat
  BY <1>5, MovesIs
<1>7. PICK p, k, q, n, tk, q2 : p = program /\ k = pos[r] /\ q = queue[r] /\ n = ran[r] /\ tk = ticket[r] /\ q2 = queue'[r]
  OBVIOUS
<1>8. Going(L, r, p, k, at, q, n)
  BY <1>2, <1>7, NowGoing
<1>9. Going(M, r, p, k + 1, at2, q2, n)
  BY <1>3, <1>4, <1>6, <1>7, NextGoing
<1>10. TurnsOn(L, add, M, r, p, k, at, at2, num)
  BY <1>2, <1>4, <1>6, <1>7, <1>8, <1>9 DEF TurnsOn, Going
<1>11. PICK num2 : TakesTurns(M, p, k + 1, at2, num2)
  BY <1>10, TurnsGrow
<1>12. Ticketed(p, k + 1, at2, n, tk)
  <2>1. ASSUME NEW i \in 1 .. k + 1, NEW d \in {0, 3}, Transfers(p, i), tk[Lane(p[i])] # 0, n[Lane(p[i])] = at2[i].near + d
        PROVE  tk[Lane(p[i])] = 2 * Nth(p, i) + (IF d = 0 THEN 1 ELSE 2)
    <3>1. CASE i = k + 1
      <4>1. PICK s, a, l, c : s = Lane(p[i]) /\ a = at2[i].near /\ l = Len(L[s]) /\ c = n[s]
        OBVIOUS
      <4>2. a \in Nat /\ a > l /\ c = a + d
        BY <1>4, <1>7, <2>1, <3>1, <4>1
      <4>3. s \in Streams
        BY <4>1 DEF Lane, Streams
      <4>4. c \in Nat /\ l \in Nat /\ c <= l
        BY <1>8, <4>1, <4>3, HeadIs
      <4>5. QED  BY <4>2, <4>4
    <3>2. CASE i \in 1 .. k
      <4>1. at2[i] = at[i]
        BY <1>4, <1>7, <3>2 DEF Places1
      <4>2. Ticketed(p, k, at, n, tk)
        BY <1>2, <1>7
      <4>3. QED  BY <2>1, <3>2, <4>1, <4>2 DEF Ticketed
    <3>3. i = k + 1 \/ i \in 1 .. k
      BY <1>6, <1>7, <2>1
    <3>4. QED  BY <3>1, <3>2, <3>3
  <2>2. QED  BY <2>1 DEF Ticketed
<1>13. Seated(r, M, at2, num2)'
  BY <1>4, <1>6, <1>7, <1>11, <1>12 DEF Seated
<1>14. ASSUME NEW t \in Ranks, t # r  PROVE \E K, at3, num3 : Seated(t, K, at3, num3)'
  <2>1. PICK K, at3, num3 : Seated(t, K, at3, num3)
    BY <1>14 DEF Turning
  <2>2. Seated(t, K, at3, num3)'
    BY <1>3, <1>6, <1>14, <2>1, OthersSeated
  <2>3. QED  BY <2>2
<1>15. QED
  BY <1>3, <1>13, <1>14 DEF Turning

\* All that every rank submits has, always, an order with which the waits agree.
THEOREM TurnsTaken == Spec => [](IInv /\ Turning)
<1>1. ASSUME IInv /\ Turning, [Next]_vars
      PROVE  (IInv /\ Turning)'
  <2>1. CASE UNCHANGED vars
    <3>1. IInv' /\ \A t \in Ranks : \A L, at : Fits(L, at, t) => Fits(L, at, t)'
      BY <1>1, <2>1, StutterKeeps
    <3>2. program' = program /\ pos' = pos /\ ran' = ran /\ ticket' = ticket
      BY <2>1 DEF vars, host
    <3>3. ASSUME NEW t \in Ranks  PROVE \E L, at, num : Seated(t, L, at, num)'
      <4>1. PICK L, at, num : Seated(t, L, at, num)
        BY <1>1, <3>3 DEF Turning
      <4>2. Fits(L, at, t)'
        BY <3>1, <3>3, <4>1 DEF Seated
      <4>3. Seated(t, L, at, num)'
        BY <3>2, <4>1, <4>2 DEF Seated
      <4>4. QED  BY <4>3
    <3>4. QED  BY <3>1, <3>3 DEF Turning
  <2>2. CASE Next
    BY <1>1, <2>1, <2>2, HostTurns, StreamTurns DEF Next, Rest
  <2>3. QED  BY <1>1, <2>1, <2>2
<1>2. QED
  BY <1>1, TurningFirst, PTL DEF Spec

\* What the next operation of a stream waits for has run, when it is the least a rank has left.
LEMMA LeastIsFree ==
    ASSUME NEW L, NEW r, NEW p, NEW k, NEW at, NEW q, NEW n, Going(L, r, p, k, at, q, n),
           NEW num, TakesTurns(L, p, k, at, num), NEW s \in Streams, q[s] # <<>>,
           \A t \in Streams : q[t] # <<>> => num[s][n[s] + 1] <= num[t][n[t] + 1]
    PROVE  n[Head(q[s]).on] >= Head(q[s]).upto
<1>1. L \in Logs /\ Told(L, r, p, k, at)
  BY DEF Going
<1>2. PICK g, o, t, u : g = n[s] + 1 /\ o = L[s][g] /\ t = o.on /\ u = o.upto
  OBVIOUS
<1>3. g \in 1 .. Len(L[s]) /\ Head(q[s]) = o
  BY <1>2, HeadIs
<1>4. o \in Ops /\ t \in Streams /\ u \in Nat
  BY <1>1, <1>2, <1>3, LogIs, OpIs
<1>5. u <= Len(L[t])
  BY <1>1, <1>2, <1>3 DEF Told
<1>6. PICK m, l : m = n[t] /\ l = Len(L[t])
  OBVIOUS
<1>7. m \in Nat /\ l \in Nat /\ (q[t] # <<>> <=> m + 1 <= l)
  BY <1>4, <1>6, HeadIs
<1>8. ASSUME ~ (m >= u)  PROVE FALSE
  <2>1. m + 1 \in 1 .. l /\ m + 1 <= u
    BY <1>4, <1>5, <1>6, <1>7, <1>8
  <2>2. num[s][g] <= num[t][m + 1]
    BY <1>2, <1>4, <1>6, <1>7, <2>1, SMTT(60)
  <2>3. num[t][m + 1] < num[s][g] /\ num[s][g] \in Nat
    BY <1>2, <1>3, <1>6, <2>1 DEF TakesTurns
  <2>4. num[t][m + 1] \in Nat
    BY <1>4, <1>6, <2>1 DEF TakesTurns
  <2>5. QED  BY <2>2, <2>3, <2>4
<1>9. QED
  BY <1>2, <1>3, <1>6, <1>8

\* The number of a stream's next operation.
LEMMA NextNumber ==
    ASSUME NEW L, NEW r, NEW p, NEW k, NEW at, NEW q, NEW n, Going(L, r, p, k, at, q, n),
           NEW num, TakesTurns(L, p, k, at, num), NEW s \in Streams, q[s] # <<>>
    PROVE  num[s][n[s] + 1] \in Nat /\ num[s][n[s] + 1] < 9 * (k + 1)
<1>1. n[s] + 1 \in 1 .. Len(L[s])
  BY HeadIs
<1>2. QED
  BY <1>1 DEF TakesTurns

\* The barrier a stream is to leave, with its number.
LEMMA LeavesIs ==
    ASSUME NEW L, NEW r, NEW p, NEW k, NEW at, NEW q, NEW n, Going(L, r, p, k, at, q, n),
           NEW num, TakesTurns(L, p, k, at, num), NEW s \in Streams, q[s] # <<>>, Head(q[s]).op = "leave"
    PROVE  \E i \in 1 .. k, d \in {0, 3} :
              /\ Transfers(p, i) /\ s = Lane(p[i]) /\ n[s] = at[i].near + d /\ Head(q[s]).win = Filled(p, i)
              /\ num[s][n[s] + 1] = 9 * i + 3 + d
<1>1. Contract(p) /\ r \in Ranks /\ k \in Nat /\ k <= Len(p) /\ Told(L, r, p, k, at) /\ L \in Logs
  BY DEF Going
<1>2. PICK g, o, m : g = n[s] + 1 /\ o = L[s][g] /\ m = n[s]
  OBVIOUS
<1>3. g \in 1 .. Len(L[s]) /\ Head(q[s]) = o /\ m \in Nat
  BY <1>2, HeadIs
<1>4. o.op = "leave"
  BY <1>3
<1>5. PICK i \in 1 .. k : Transfers(p, i) /\ o.win = Filled(p, i) /\ Role(o, s, g, p[i], at[i].near)
  BY <1>1, <1>2, <1>3, <1>4, WhoseIs, SMTT(60)
<1>6. PICK a : a = at[i].near
  OBVIOUS
<1>7. a \in Nat
  BY <1>1, <1>5, <1>6, TransferIs
<1>8. s = Lane(p[i]) /\ (g = a + 1 \/ g = a + 4)
  BY <1>4, <1>5, <1>6 DEF Role
<1>9. PICK d \in {0, 3} : m = a + d /\ g = a + (d + 1) /\ d + 1 \in 0 .. 4
  BY <1>2, <1>3, <1>7, <1>8
<1>10. num[s][g] = 9 * i + 2 + (d + 1)
  BY <1>5, <1>6, <1>8, <1>9 DEF TakesTurns
<1>11. num[s][g] = 9 * i + 3 + d
  BY <1>1, <1>10
<1>12. QED
  BY <1>2, <1>3, <1>5, <1>6, <1>8, <1>9, <1>11

\* A rank that has made the call, and has only later operations left, has come to the barrier.
LEMMA HasCome ==
    ASSUME NEW L, NEW r, NEW p, NEW k, NEW at, NEW q, NEW n, Going(L, r, p, k, at, q, n),
           NEW num, TakesTurns(L, p, k, at, num), NEW arr, Counted(p, k, at, n, arr),
           NEW i \in 1 .. k, NEW d \in {0, 3}, Transfers(p, i),
           \A s \in Streams : q[s] # <<>> => 9 * i + 3 + d <= num[s][n[s] + 1]
    PROVE  arr[Filled(p, i)] >= 2 * Nth(p, i) + (IF d = 0 THEN 1 ELSE 2)
<1>1. Contract(p) /\ r \in Ranks /\ k \in Nat /\ k <= Len(p) /\ Told(L, r, p, k, at) /\ L \in Logs
  BY DEF Going
<1>2. PICK s, a, e, l, m : s = Lane(p[i]) /\ a = at[i].near /\ e = End(p[i], a) /\ l = Len(L[s]) /\ m = n[s]
  OBVIOUS
<1>3. s \in Streams /\ a \in Nat /\ a >= 1 /\ e \in Nat /\ e >= a + 4 /\ e <= l /\ i \in DOMAIN p
  BY <1>1, <1>2, TransferIs
<1>4. m \in Nat /\ l \in Nat /\ (q[s] # <<>> <=> m + 1 <= l)
  BY <1>2, <1>3, HeadIs
<1>5. ASSUME ~ (a + d <= m)  PROVE FALSE
  <2>1. m + 1 \in 1 .. a + d /\ a + d \in 1 .. l /\ m + 1 <= l /\ d \in 0 .. 4
    BY <1>3, <1>4, <1>5
  <2>2. num[s][m + 1] <= num[s][a + d]
    BY <1>2, <1>3, <2>1 DEF TakesTurns
  <2>3. num[s][a + d] = 9 * i + 2 + d
    BY <1>2, <2>1 DEF TakesTurns
  <2>4. 9 * i + 3 + d <= num[s][m + 1]
    BY <1>2, <1>3, <1>4, <2>1
  <2>5. num[s][m + 1] \in Nat
    BY <1>2, <1>3, <1>4, <2>1, NextNumber, SMTT(60)
  <2>6. i \in Nat /\ d \in Nat
    BY <1>1
  <2>7. QED  BY <2>2, <2>3, <2>4, <2>5, <2>6
<1>6. IF d = 0 THEN Opened(p, at, n, i) ELSE Closed(p, at, n, i)
  BY <1>2, <1>3, <1>4, <1>5 DEF Opened, Closed
<1>7. i <= k
  BY <1>1
<1>8. QED
  BY <1>3, <1>6, <1>7 DEF Counted

\* A rank whose host has not come to step i has run all it was given, when what it has left
\* comes no sooner than that step's.
LEMMA RunOut ==
    ASSUME NEW L, NEW r, NEW p, NEW k, NEW at, NEW q, NEW n, Going(L, r, p, k, at, q, n),
           NEW num, TakesTurns(L, p, k, at, num), NEW i \in Nat, k < i, NEW x \in Nat, 9 * i <= x,
           \A s \in Streams : q[s] # <<>> => x <= num[s][n[s] + 1]
    PROVE  \A s \in Streams : q[s] = <<>>
<1>1. SUFFICES ASSUME NEW s \in Streams, q[s] # <<>>  PROVE FALSE
  OBVIOUS
<1>2. num[s][n[s] + 1] \in Nat /\ num[s][n[s] + 1] < 9 * (k + 1)
  BY <1>1, NextNumber
<1>3. x <= num[s][n[s] + 1] /\ k \in Nat
  BY <1>1 DEF Going
<1>4. QED
  BY <1>2, <1>3

\* A host waits for nobody when its rank has run all it was given, unless to meet the others.
LEMMA HostGoes ==
    ASSUME IInv, NEW r \in Ranks, pos[r] < Len(program), \A s \in Streams : queue[r][s] = <<>>,
           program[pos[r] + 1].do = "meet" => Met(r)
    PROVE  HostCan(r)
<1>1. PICK L, at : Fits(L, at, r)
  BY DEF IInv
<1>2. PICK p, k, q, n, pl : p = program /\ k = pos[r] /\ q = queue[r] /\ n = ran[r] /\ pl = pool[r]
  OBVIOUS
<1>3. Going(L, r, p, k, at, q, n) /\ Released(L, p, k, at, n, pl) /\ pl \in Seq(Slots)
  BY <1>1, <1>2, NowGoing, RankIs DEF Fits, Fine
<1>4. "comm" \in Streams /\ "caller" \in Streams /\ "xfer" \in Streams
  BY DEF Streams
<1>5. n["comm"] = Len(L["comm"]) /\ n["comm"] \in Nat
  <2>1. n["comm"] \in Nat /\ Len(L["comm"]) \in Nat /\ n["comm"] <= Len(L["comm"]) /\ ~ (n["comm"] + 1 <= Len(L["comm"]))
    BY <1>2, <1>3, <1>4, HeadIs
  <2>2. QED  BY <2>1
<1>6. ASSUME NEW j \in DOMAIN pl  PROVE n["comm"] >= pl[j].upto
  <2>1. pl[j].upto <= Len(L["comm"])
    BY <1>3, <1>6 DEF Released
  <2>2. pl[j].upto \in Nat
    <3>1. pl \in Seq(Slots)
      BY <1>3
    <3>2. pl[j] \in Slots
      BY <1>6, <3>1
    <3>3. QED  BY <3>2 DEF Slots
  <2>3. QED  BY <1>5, <2>1, <2>2
<1>7. \A sh : EvictionDone(r, sh)
  BY <1>2, <1>6 DEF EvictionDone
<1>8. queue[r].caller = <<>> /\ queue[r].comm = <<>> /\ queue[r].xfer = <<>>
  BY <1>4
<1>9. QED
  BY <1>7, <1>8 DEF HostCan, DrainComm, XferDone

\* The rank that has taken the fewest steps.
LEMMA Hindmost ==
    ASSUME IInv
    PROVE  \E r \in Ranks : \A t \in Ranks : pos[r] <= pos[t]
<1>1. PICK S : S = {pos[t] : t \in Ranks}
  OBVIOUS
<1>2. \A t \in Ranks : pos[t] \in Nat
  BY RankIs
<1>3. S \in SUBSET Nat /\ S # {}
  <2>1. 0 \in Ranks
    BY ExchangeAssumption DEF Ranks
  <2>2. QED  BY <1>1, <1>2, <2>1
<1>4. PICK x \in S : \A y \in S : x <= y
  BY <1>3, LeastNat
<1>5. QED
  BY <1>1, <1>4

\* As long as anything is left to do somebody can do it: of all that the streams
\* still have to run, what comes first in the order of turns waits for nothing but a
\* host that is behind, and the host furthest behind can go on.
LEMMA SomebodyCan == IInv /\ Turning => NeverStuck
<1>1. SUFFICES ASSUME IInv, Turning, ~ Finished,
                      \A r \in Ranks : ~ HostCan(r) /\ \A s \in Streams : ~ StreamCan(r, s)
               PROVE  FALSE
  BY DEF NeverStuck
<1>2. PICK z : \A r \in Ranks : Seated(r, z[r][1], z[r][2], z[r][3])
  <2>1. \A r \in Ranks : \E y : Seated(r, y[1], y[2], y[3])
    <3>1. ASSUME NEW r \in Ranks  PROVE \E y : Seated(r, y[1], y[2], y[3])
      <4>1. PICK L, at, num : Seated(r, L, at, num)
        BY <1>1 DEF Turning
      <4>2. PICK y : y = <<L, at, num>>
        OBVIOUS
      <4>3. y[1] = L /\ y[2] = at /\ y[3] = num
        BY <4>2
      <4>4. QED  BY <4>1, <4>3
    <3>2. QED  BY <3>1
  <2>2. PICK f : f = [r \in Ranks |-> CHOOSE y : Seated(r, y[1], y[2], y[3])]
    OBVIOUS
  <2>3. ASSUME NEW r \in Ranks  PROVE Seated(r, f[r][1], f[r][2], f[r][3])
    <3>1. PICK y : y = CHOOSE x : Seated(r, x[1], x[2], x[3])
      OBVIOUS
    <3>2. Seated(r, y[1], y[2], y[3])
      BY <2>1, <2>3, <3>1, Zenon
    <3>3. f[r] = y
      BY <2>2, <2>3, <3>1
    <3>4. QED  BY <3>2, <3>3
  <2>4. QED  BY <2>3
<1>3. ASSUME NEW r \in Ranks
      PROVE  /\ Fits(z[r][1], z[r][2], r) /\ TakesTurns(z[r][1], program, pos[r], z[r][2], z[r][3])
             /\ Ticketed(program, pos[r], z[r][2], ran[r], ticket[r])
             /\ Going(z[r][1], r, program, pos[r], z[r][2], queue[r], ran[r])
             /\ Counted(program, pos[r], z[r][2], ran[r], ArrivedAt(r))
  <2>1. /\ Fits(z[r][1], z[r][2], r) /\ TakesTurns(z[r][1], program, pos[r], z[r][2], z[r][3])
        /\ Ticketed(program, pos[r], z[r][2], ran[r], ticket[r])
    BY <1>2, <1>3 DEF Seated
  <2>2. QED  BY <1>1, <1>3, <2>1, NowGoing
<1>4. PICK last \in Ranks : \A t \in Ranks : pos[last] <= pos[t]
  BY <1>1, Hindmost
<1>5. /\ Contract(program) /\ Len(program) \in Nat /\ DOMAIN program = 1 .. Len(program)
      /\ \A t \in Ranks : pos[t] \in Nat /\ pos[t] <= Len(program)
  <2>1. Contract(program)
    BY <1>1, <1>4, RankIs
  <2>2. Len(program) \in Nat /\ DOMAIN program = 1 .. Len(program)
    BY <2>1, ProgramIs
  <2>3. ASSUME NEW t \in Ranks  PROVE pos[t] \in Nat /\ pos[t] <= Len(program)
    BY <1>1, <2>3, RankIs
  <2>4. QED  BY <2>1, <2>2, <2>3
<1>6. PICK S : S = {x \in Nat : \E r \in Ranks, s \in Streams : queue[r][s] # <<>> /\ x = z[r][3][s][ran[r][s] + 1]}
  BY ZenonT(60)
<1>7. ASSUME NEW r \in Ranks, NEW s \in Streams, queue[r][s] # <<>>  PROVE  z[r][3][s][ran[r][s] + 1] \in S
  <2>1. PICK L, p, k, at, q, n, num : /\ L = z[r][1] /\ p = program /\ k = pos[r] /\ at = z[r][2]
                                      /\ q = queue[r] /\ n = ran[r] /\ num = z[r][3]
    OBVIOUS
  <2>2. Going(L, r, p, k, at, q, n) /\ TakesTurns(L, p, k, at, num)
    BY <1>3, <2>1
  <2>3. q[s] # <<>>
    BY <1>7, <2>1
  <2>4. num[s][n[s] + 1] \in Nat
    BY <2>2, <2>3, NextNumber, SMTT(60)
  <2>5. z[r][3][s][ran[r][s] + 1] \in Nat
    BY <2>1, <2>4
  <2>6. QED  BY <1>6, <1>7, <2>5, Zenon
<1>8. CASE S = {}
  <2>1. \A r \in Ranks, s \in Streams : queue[r][s] = <<>>
    BY <1>7, <1>8
  <2>2. pos[last] < Len(program)
    <3>1. ASSUME ~ (pos[last] < Len(program))  PROVE Finished
      <4>1. \A t \in Ranks : pos[t] = Len(program)
        BY <1>4, <1>5, <3>1
      <4>2. QED  BY <2>1, <4>1 DEF Finished
    <3>2. QED  BY <1>1, <3>1
  <2>3. Met(last)
    <3>1. "caller" \in Streams
      BY DEF Streams
    <3>2. \A t \in Ranks : pos[t] >= pos[last] /\ queue[t].caller = <<>>
      BY <1>4, <1>5, <2>1, <3>1
    <3>3. QED  BY <3>2 DEF Met
  <2>4. HostCan(last)
    BY <1>1, <2>1, <2>2, <2>3, HostGoes
  <2>5. QED  BY <1>1, <2>4
<1>9. CASE S # {}
  <2>1. PICK x \in S : \A y \in S : x <= y
    <3>1. S \in SUBSET Nat
      BY <1>6
    <3>2. QED  BY <1>9, <3>1, LeastNat
  <2>2. PICK r \in Ranks, s \in Streams : queue[r][s] # <<>> /\ x = z[r][3][s][ran[r][s] + 1]
    BY <1>6, <2>1
  <2>3. \A t \in Ranks, y \in Streams : queue[t][y] # <<>> => x <= z[t][3][y][ran[t][y] + 1]
    BY <1>7, <2>1
  <2>4. x \in Nat
    BY <1>6, <2>1
  <2>5. PICK p, k, q, n, tk, L, at, num :
           /\ p = program /\ k = pos[r] /\ q = queue[r] /\ n = ran[r] /\ tk = ticket[r]
           /\ L = z[r][1] /\ at = z[r][2] /\ num = z[r][3]
    OBVIOUS
  <2>6. Going(L, r, p, k, at, q, n) /\ TakesTurns(L, p, k, at, num) /\ Ticketed(p, k, at, n, tk)
    BY <1>3, <2>5
  <2>7. Ready(r, s, Head(queue[r][s]).op)
    <3>1. n[Head(q[s]).on] >= Head(q[s]).upto
      BY <2>2, <2>3, <2>5, <2>6, LeastIsFree
    <3>2. QED  BY <2>2, <2>5, <3>1 DEF Ready
  <2>8. /\ Head(queue[r][s]).op = "leave"
        /\ \E t \in Ranks : ~ (arrived[Head(queue[r][s]).win][t] >= ticket[r][s])
    BY <1>1, <2>2, <2>7 DEF StreamCan
  <2>9. PICK t \in Ranks : ~ (arrived[Head(queue[r][s]).win][t] >= tk[s])
    BY <2>5, <2>8, SMTT(60)
  <2>10. PICK i \in 1 .. k, d \in {0, 3} :
            /\ Transfers(p, i) /\ s = Lane(p[i]) /\ n[s] = at[i].near + d /\ Head(q[s]).win = Filled(p, i)
            /\ num[s][n[s] + 1] = 9 * i + 3 + d
    BY <2>2, <2>5, <2>6, <2>8, LeavesIs
  <2>11. i \in Nat /\ i <= Len(program) /\ i \in DOMAIN program /\ x = 9 * i + 3 + d /\ Filled(p, i) \in Windows
    <3>1. i \in Nat /\ i <= Len(program) /\ i \in DOMAIN program
      BY <1>5, <2>5, <2>10
    <3>2. Filled(p, i) \in Windows
      BY <1>5, <2>5, <2>10, <3>1, FilledIs
    <3>3. QED  BY <2>2, <2>5, <2>10, <3>1, <3>2
  <2>12. PICK a, w, m : a = ArrivedAt(t)[w] /\ w = Filled(p, i) /\ m = Nth(p, i)
    OBVIOUS
  <2>13. a = arrived[w][t] /\ a \in Nat /\ m \in Nat
    <3>1. ArrivedAt(t) \in [Windows -> Nat] /\ ArrivedAt(t)[w] = arrived[w][t]
      BY <1>1, <2>11, <2>12, RankIs
    <3>2. m \in Nat
      BY <1>5, <2>5, <2>11, <2>12, EarlierIs
    <3>3. QED  BY <2>11, <2>12, <3>1, <3>2
  <2>14. ~ (a >= tk[s])
    BY <2>5, <2>9, <2>10, <2>12, <2>13
  <2>15. tk[s] = 2 * m + (IF d = 0 THEN 1 ELSE 2)
    <3>1. tk[s] # 0
      BY <2>13, <2>14
    <3>2. QED  BY <2>6, <2>10, <2>12, <3>1 DEF Ticketed
  <2>16. pos[t] < i
    <3>1. ASSUME ~ (pos[t] < i)  PROVE FALSE
      <4>1. PICK kt, qt, nt, Lt, att, numt, at1 :
               /\ kt = pos[t] /\ qt = queue[t] /\ nt = ran[t] /\ at1 = ArrivedAt(t)
               /\ Lt = z[t][1] /\ att = z[t][2] /\ numt = z[t][3]
        OBVIOUS
      <4>2. Going(Lt, t, p, kt, att, qt, nt) /\ TakesTurns(Lt, p, kt, att, numt) /\ Counted(p, kt, att, nt, at1)
        BY <1>3, <2>5, <4>1
      <4>3. i \in 1 .. kt
        BY <1>5, <2>10, <2>11, <3>1, <4>1
      <4>4. \A y \in Streams : qt[y] # <<>> => 9 * i + 3 + d <= numt[y][nt[y] + 1]
        BY <2>3, <2>11, <4>1
      <4>5. at1[w] >= 2 * m + (IF d = 0 THEN 1 ELSE 2)
        BY <2>10, <2>12, <4>2, <4>3, <4>4, HasCome, SMTT(60)
      <4>6. QED  BY <2>12, <2>14, <2>15, <4>1, <4>5
    <3>2. QED  BY <3>1
  <2>17. pos[last] < i
    BY <1>4, <1>5, <2>11, <2>16
  <2>18. \A y \in Streams : queue[last][y] = <<>>
    <3>1. PICK kt, qt, nt, Lt, att, numt :
             /\ kt = pos[last] /\ qt = queue[last] /\ nt = ran[last]
             /\ Lt = z[last][1] /\ att = z[last][2] /\ numt = z[last][3]
      OBVIOUS
    <3>2. Going(Lt, last, p, kt, att, qt, nt) /\ TakesTurns(Lt, p, kt, att, numt)
      BY <1>3, <1>4, <2>5, <3>1
    <3>3. 9 * i <= x /\ kt < i
      BY <2>11, <2>17, <3>1
    <3>4. \A y \in Streams : qt[y] # <<>> => x <= numt[y][nt[y] + 1]
      BY <1>4, <2>3, <3>1
    <3>5. \A y \in Streams : qt[y] = <<>>
      BY <2>4, <2>11, <3>2, <3>3, <3>4, RunOut
    <3>6. QED  BY <3>1, <3>5
  <2>19. pos[last] < Len(program)
    BY <1>5, <2>11, <2>17
  <2>20. program[pos[last] + 1].do # "meet"
    <3>1. ASSUME program[pos[last] + 1].do = "meet"  PROVE FALSE
      <4>1. PICK m1 : m1 = pos[last] + 1
        OBVIOUS
      <4>2. m1 \in DOMAIN program /\ m1 <= i /\ m1 \in Nat
        BY <1>5, <2>11, <2>17, <2>19, <4>1
      <4>3. PICK e \in 1 .. m1 - 1 : program[e].do = "drain"
        BY <1>5, <3>1, <4>1, <4>2, DrainFirst
      <4>4. e \in DOMAIN program /\ e < i
        BY <1>5, <4>2, <4>3
      <4>5. program[i].do \in {"meet", "destroy"}
        BY <1>5, <2>11, <4>3, <4>4 DEF Contract
      <4>6. program[i].do = "call"
        BY <2>5, <2>10 DEF Transfers
      <4>7. QED  BY <4>5, <4>6
    <3>2. QED  BY <3>1
  <2>21. HostCan(last)
    BY <1>1, <2>18, <2>19, <2>20, HostGoes
  <2>22. QED  BY <1>1, <2>21
<1>10. QED
  BY <1>8, <1>9

\* Safety: whatever calls a group's program makes, on whichever streams, and however its
\* ranks run ahead of each other, they never all wait: no stream for another, no rank's
\* barrier for another's, no host for a stream or a rank.
THEOREM NobodyIsStuck == Spec => []NeverStuck
BY TurnsTaken, SomebodyCan, PTL
==============================================================================
