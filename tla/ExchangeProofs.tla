--------------------------- MODULE ExchangeProofs ----------------------------
(***************************************************************************)
(* For any number of ranks, any bounds and any program the contract        *)
(* allows: the safety of the streams, the staging pool and the windows.    *)
(*                                                                         *)
(* Every step of a rank is one of its host, which makes its log longer, or *)
(* one of a stream, which runs the log's next operation; what the log of   *)
(* such a rank is like is ExchangeLog's.  Here every action of Exchange is *)
(* one of the two, and the properties follow from the invariant IInv.      *)
(***************************************************************************)
EXTENDS ExchangeLog, SequenceTheorems

------------------------------------------------------------------------------
(* One rank, without the others. *)

\* The parts a step of a stream needs.
LEMMA FineGoing ==
    ASSUME NEW L, NEW at, NEW r \in Ranks, NEW p, NEW k \in Nat, NEW q \in Logs, NEW n \in [Streams -> Nat], NEW pl, NEW res,
           NEW tk, NEW arr, Fine(L, at, r, p, k, q, n, pl, res, tk, arr), Contract(p), k <= Len(p)
    PROVE  Going(L, r, p, k, at, q, n) /\ L \in Logs
BY DEF Fine, Going, Told

\* A stream runs an operation.
LEMMA StreamFine ==
    ASSUME NEW L, NEW at, NEW r, NEW p, NEW k, NEW q, NEW n, NEW pl, NEW res, NEW tk, NEW arr,
           Fine(L, at, r, p, k, q, n, pl, res, tk, arr),
           NEW s, NEW q2, NEW n2, Runs(L, r, p, k, at, q, n, s, q2, n2),
           NEW tk2, Inside(L, n2, tk2), NEW arr2, Counted(p, k, at, n2, arr2)
    PROVE  Fine(L, at, r, p, k, q2, n2, pl, res, tk2, arr2)
<1>1. /\ Told(L, r, p, k, at) /\ Noted(p, k, at, res) /\ Stocked(pl)
      /\ Released(L, p, k, at, n, pl) /\ Restaged(L, p, k, at, n)
      /\ Reading(L, p, k, at) /\ StagedInTurn(L)
  BY DEF Fine
<1>2. Going(L, r, p, k, at, q2, n2)
  BY GoingOn
<1>3. Released(L, p, k, at, n2, pl) /\ Restaged(L, p, k, at, n2)
  BY <1>1, PoolRuns
<1>4. QED
  BY <1>1, <1>2, <1>3 DEF Fine, Going

\* The host submits.
LEMMA HostFine ==
    ASSUME NEW L, NEW at, NEW r, NEW p, NEW k, NEW q, NEW n, NEW pl, NEW res, NEW tk, NEW arr \in [Windows -> Nat],
           Fine(L, at, r, p, k, q, n, pl, res, tk, arr),
           NEW add, NEW M, Submits(L, r, p, k, at, q, n, add, M),
           NEW q2, Appends(q, add, q2),
           NEW at2, Told(M, r, p, k + 1, at2), Places1(p, k, at, at2),
           NEW near \in Nat, Transfers(p, k + 1) => at2[k + 1].near = near /\ near > Len(L[Lane(p[k + 1])]),
           NEW res2, Noted(p, k + 1, at2, res2),
           NEW pl2, Stocked(pl2), Released(M, p, k + 1, at2, n, pl2), Restaged(M, p, k + 1, at2, n),
           Reading(M, p, k + 1, at2), StagedInTurn(M)
    PROVE  Fine(M, at2, r, p, k + 1, q2, n, pl2, res2, tk, arr)
<1>1. /\ Contract(p) /\ k \in Nat /\ k + 1 \in DOMAIN p /\ L \in Logs /\ M \in Logs /\ Added(L, add, M) /\ Grown(L, M)
  BY SubmitsIs
<1>2. Going(L, r, p, k, at, q, n) /\ q \in Logs /\ Leftover(L, q, n) /\ Waited(L, n)
  BY DEF Submits, Going
<1>3. Counted(p, k, at, n, arr) /\ Inside(L, n, tk)
  BY DEF Fine
<1>4. Leftover(M, q2, n)
  BY <1>1, <1>2, LeftoverGrows
<1>5. Waited(M, n)
  BY <1>1, <1>2, WaitedGrows
<1>6. Inside(M, n, tk)
  BY <1>1, <1>2, <1>3, InsideGrows
<1>7. Transfers(p, k + 1) => at2[k + 1].near = near /\ near > n[Lane(p[k + 1])]
  <2>1. ASSUME Transfers(p, k + 1)  PROVE near > n[Lane(p[k + 1])]
    <3>1. Lane(p[k + 1]) \in Streams
      BY DEF Lane, Streams
    <3>2. n[Lane(p[k + 1])] \in Nat /\ Len(L[Lane(p[k + 1])]) \in Nat /\ n[Lane(p[k + 1])] <= Len(L[Lane(p[k + 1])])
      BY <1>1, <1>2, <3>1, LeftoverIs
    <3>3. QED  BY <2>1, <3>2
  <2>2. QED  BY <2>1
<1>8. Counted(p, k + 1, at2, n, arr)
  BY <1>1, <1>2, <1>3, <1>7, CountedGrows
<1>9. QED
  BY <1>4, <1>5, <1>6, <1>8 DEF Fine

------------------------------------------------------------------------------
(* One rank among the others. *)

\* One rank's part of the state.
LEMMA RankIs ==
    ASSUME IInv, NEW r \in Ranks
    PROVE  /\ Contract(program) /\ program \in Programs
           /\ pos[r] \in Nat /\ pos[r] <= Len(program) /\ Len(program) \in Nat
           /\ queue[r] \in Logs /\ ran[r] \in [Streams -> Nat]
           /\ ArrivedAt(r) \in [Windows -> Nat] /\ \A w \in Windows : ArrivedAt(r)[w] = arrived[w][r]
           /\ pool[r] \in Seq(Slots)
           /\ \E L, at : Fits(L, at, r)
           /\ \A L, at : Fits(L, at, r) => Going(L, r, program, pos[r], at, queue[r], ran[r])
<1>1. Typing /\ \E L, at : Fits(L, at, r)
  BY DEF IInv
<1>2. program \in Programs /\ Contract(program) /\ program \in Seq(Steps)
  BY <1>1, ProgramsAssumption DEF Typing, Contract
<1>3. Len(program) \in Nat /\ pos[r] \in Nat /\ pos[r] <= Len(program)
  BY <1>1, <1>2 DEF Typing
<1>4. queue[r] \in Logs /\ ran[r] \in [Streams -> Nat] /\ pool[r] \in Seq(Slots)
  BY <1>1 DEF Typing
<1>5. ArrivedAt(r) \in [Windows -> Nat] /\ \A w \in Windows : ArrivedAt(r)[w] = arrived[w][r]
  <2>1. \A w \in Windows : arrived[w][r] \in Nat
    <3>1. MaxCalls \in Nat
      BY ExchangeAssumption
    <3>2. ASSUME NEW w \in Windows  PROVE arrived[w][r] \in Nat
      BY <1>1, <3>1 DEF Typing
    <3>3. QED  BY <3>2
  <2>2. QED  BY <2>1 DEF ArrivedAt
<1>6. ASSUME NEW L, NEW at, Fits(L, at, r)
      PROVE  Going(L, r, program, pos[r], at, queue[r], ran[r])
  BY <1>2, <1>3, <1>4, <1>6, FineGoing DEF Fits
<1>7. QED
  BY <1>1, <1>2, <1>3, <1>4, <1>5, <1>6

\* A step in which rank t has no part.
Untouched(t) ==
    /\ program' = program /\ pos'[t] = pos[t] /\ queue'[t] = queue[t] /\ ran'[t] = ran[t]
    /\ pool'[t] = pool[t] /\ result'[t] = result[t] /\ ticket'[t] = ticket[t]
    /\ \A w \in Windows : arrived'[w][t] = arrived[w][t]

\* A rank nothing is changed of fits as before.
LEMMA OthersFit ==
    ASSUME NEW t \in Ranks, Untouched(t), NEW L, NEW at, Fits(L, at, t)
    PROVE  Fits(L, at, t)'
<1>1. ArrivedAt(t)' = ArrivedAt(t)
  BY DEF Untouched, ArrivedAt
<1>2. QED
  BY <1>1 DEF Fits, Untouched

\* A step of rank r leaves every other log fitting its rank.
OthersStill(r) == \A t \in Ranks : \A L, at : t # r /\ Fits(L, at, t) => Fits(L, at, t)'

\* Every rank still has a log that fits it, when rank r has one.
LEMMA AllFit ==
    ASSUME IInv, NEW r \in Ranks, OthersStill(r), \E L, at : Fits(L, at, r)'
    PROVE  \A t \in Ranks : \E L, at : Fits(L, at, t)'
<1>1. ASSUME NEW t \in Ranks, t # r  PROVE \E L, at : Fits(L, at, t)'
  <2>1. PICK L, at : Fits(L, at, t)
    BY DEF IInv
  <2>2. Fits(L, at, t)'
    BY <1>1, <2>1 DEF OthersStill
  <2>3. QED  BY <2>2
<1>2. QED
  BY <1>1

------------------------------------------------------------------------------
(* A stream runs an operation. *)

\* Stream s of r runs its next operation, an o.
RunsOp(r, s, o) == Ready(r, s, o) /\ Pop(r, s)

\* Running an operation: the parts of the state it changes.
LEMMA RunsOpIs ==
    ASSUME IInv, NEW r \in Ranks, NEW s \in Streams, NEW o, RunsOp(r, s, o), NEW L, NEW at, Fits(L, at, r)
    PROVE  /\ Runs(L, r, program, pos[r], at, queue[r], ran[r], s, queue'[r], ran'[r])
           /\ Head(queue[r][s]) = L[s][ran[r][s] + 1] /\ L[s][ran[r][s] + 1].op = o
           /\ Head(queue[r][s]) \in Ops
           /\ queue' \in [Ranks -> Logs] /\ ran' \in [Ranks -> [Streams -> Nat]]
           /\ \A t \in Ranks : t # r => queue'[t] = queue[t] /\ ran'[t] = ran[t]
           /\ \A t \in Streams : t # s => queue'[r][t] = queue[r][t]
<1>1. /\ queue[r][s] # <<>> /\ Head(queue[r][s]).op = o
      /\ ran[r][Head(queue[r][s]).on] >= Head(queue[r][s]).upto
  BY DEF RunsOp, Ready
<1>2. /\ queue' = [queue EXCEPT ![r][s] = Tail(@)]
      /\ ran' = [ran EXCEPT ![r][s] = @ + 1]
  BY DEF RunsOp, Pop
<1>3. queue \in [Ranks -> Logs] /\ ran \in [Ranks -> [Streams -> Nat]]
  BY DEF IInv, Typing
<1>4. Going(L, r, program, pos[r], at, queue[r], ran[r])
  BY RankIs
<1>5. PICK q, n, q2, n2 : q = queue[r] /\ n = ran[r] /\ q2 = queue'[r] /\ n2 = ran'[r]
  OBVIOUS
<1>6. q2 = [q EXCEPT ![s] = Tail(@)] /\ n2 = [n EXCEPT ![s] = @ + 1]
  BY <1>2, <1>3, <1>5
<1>7. Steps1(q, n, s, q2, n2)
  BY <1>1, <1>3, <1>5, <1>6 DEF Steps1
<1>8. L \in Logs /\ Leftover(L, q, n)
  BY <1>4, <1>5 DEF Going
<1>9. Head(q[s]) = L[s][n[s] + 1] /\ q2 \in Logs /\ n2 \in [Streams -> Nat]
  BY <1>7, <1>8, LeftoverPops
<1>10. Free1(L, n, s)
  BY <1>1, <1>5, <1>9 DEF Free1
<1>11. Runs(L, r, program, pos[r], at, q, n, s, q2, n2)
  BY <1>4, <1>5, <1>7, <1>10 DEF Runs
<1>12. Head(q[s]) \in Ops
  <2>1. q[s] \in Seq(Ops) /\ q[s] # <<>>
    BY <1>1, <1>3, <1>5 DEF Logs
  <2>2. QED  BY <2>1
<1>13. /\ \A t \in Ranks : t # r => queue'[t] = queue[t] /\ ran'[t] = ran[t]
       /\ \A t \in Streams : t # s => queue'[r][t] = queue[r][t]
  BY <1>2, <1>3 DEF Logs
<1>14. queue' \in [Ranks -> Logs] /\ ran' \in [Ranks -> [Streams -> Nat]]
  <2>1. queue' = [queue EXCEPT ![r] = q2] /\ ran' = [ran EXCEPT ![r] = n2]
    BY <1>2, <1>3, <1>5
  <2>2. QED  BY <1>3, <1>9, <2>1
<1>15. QED
  BY <1>1, <1>5, <1>9, <1>11, <1>12, <1>13, <1>14

\* What was drained stays so when an operation runs: queues only shrink.
LEMMA RunsOpDrained ==
    ASSUME IInv, NEW r \in Ranks, NEW s \in Streams, NEW o, RunsOp(r, s, o)
    PROVE  Drained(program', pos', queue')
<1>1. queue' = [queue EXCEPT ![r][s] = Tail(@)] /\ program' = program /\ pos' = pos /\ queue[r][s] # <<>>
  BY DEF RunsOp, Ready, Pop, host
<1>2. queue \in [Ranks -> Logs] /\ Drained(program, pos, queue)
  BY DEF IInv, Typing
<1>3. ASSUME NEW t \in Ranks, NEW e \in Streams, queue[t][e] = <<>>  PROVE queue'[t][e] = <<>>
  BY <1>1, <1>2, <1>3 DEF Logs
<1>4. "comm" \in Streams /\ "caller" \in Streams
  BY DEF Streams
<1>5. QED
  BY <1>1, <1>2, <1>3, <1>4 DEF Drained

\* What the operation has done to the barriers and the data.
Effects(r, s, o) ==
    /\ RunsOp(r, s, o)
    /\ arrived' \in [Windows -> [Ranks -> 0 .. 2 * MaxCalls]]
    /\ ticket' \in [Ranks -> [Streams -> 0 .. 2 * MaxCalls]]
    /\ input' \in [Ranks -> 0 .. MaxCalls]
    /\ staged' \in [Ranks -> [Buffers -> 0 .. MaxCalls]]
    /\ window' \in [Windows -> [Ranks -> [Ranks -> 0 .. MaxCalls]]]
    /\ \A t \in Ranks : t # r => ticket'[t] = ticket[t] /\ \A w \in Windows : arrived'[w][t] = arrived[w][t]

\* Running an operation keeps the invariant when the rank's tickets and counts fit after it.
LEMMA OpKeeps ==
    ASSUME IInv, NEW r \in Ranks, NEW s \in Streams, NEW o, Effects(r, s, o), NEW L, NEW at, Fits(L, at, r),
           Inside(L, ran'[r], ticket'[r]), Counted(program, pos[r], at, ran'[r], ArrivedAt(r)')
    PROVE  IInv' /\ Fits(L, at, r)' /\ OthersStill(r)
<1>1. RunsOp(r, s, o) /\ program' = program /\ pos' = pos /\ lends' = lends /\ pool' = pool /\ result' = result
  BY DEF Effects, RunsOp, Pop, host
<1>2. /\ Runs(L, r, program, pos[r], at, queue[r], ran[r], s, queue'[r], ran'[r])
      /\ queue' \in [Ranks -> Logs] /\ ran' \in [Ranks -> [Streams -> Nat]]
      /\ \A t \in Ranks : t # r => queue'[t] = queue[t] /\ ran'[t] = ran[t]
  BY <1>1, RunsOpIs
<1>3. Typing'
  <2>1. Typing
    BY DEF IInv
  <2>2. QED  BY <1>1, <1>2, <2>1 DEF Typing, Effects
<1>4. Drained(program, pos, queue)'
  BY <1>1, RunsOpDrained
<1>5. Fits(L, at, r)'
  <2>1. Fine(L, at, r, program, pos[r], queue[r], ran[r], pool[r], result[r], ticket[r], ArrivedAt(r))
    BY DEF Fits
  <2>2. PICK q2, n2, tk2, arr2 : q2 = queue'[r] /\ n2 = ran'[r] /\ tk2 = ticket'[r] /\ arr2 = ArrivedAt(r)'
    OBVIOUS
  <2>3. /\ Runs(L, r, program, pos[r], at, queue[r], ran[r], s, q2, n2)
        /\ Inside(L, n2, tk2) /\ Counted(program, pos[r], at, n2, arr2)
    BY <1>2, <2>2
  <2>4. Fine(L, at, r, program, pos[r], q2, n2, pool[r], result[r], tk2, arr2)
    BY <2>1, <2>3, StreamFine
  <2>5. QED  BY <1>1, <2>2, <2>4 DEF Fits
<1>6. OthersStill(r)
  <2>1. ASSUME NEW t \in Ranks, t # r, NEW K, NEW ak, Fits(K, ak, t)  PROVE Fits(K, ak, t)'
    <3>1. Untouched(t)
      BY <1>1, <1>2, <2>1 DEF Untouched, Effects
    <3>2. QED  BY <2>1, <3>1, OthersFit
  <2>2. QED  BY <2>1 DEF OthersStill
<1>7. \A t \in Ranks : \E K, ak : Fits(K, ak, t)'
  BY <1>5, <1>6, AllFit
<1>8. QED
  BY <1>3, <1>4, <1>5, <1>6, <1>7 DEF IInv

\* Operation o of stream s starts no barrier, and ends one when it is a leave.
StartsNone(r, s, o) ==
    /\ o # "arrive" /\ arrived' = arrived
    /\ ticket' = IF o = "leave" THEN [ticket EXCEPT ![r][s] = 0] ELSE ticket

\* Any operation but the arrival at a barrier.
LEMMA OtherOpKeeps ==
    ASSUME IInv, NEW r \in Ranks, NEW L, NEW at, Fits(L, at, r), NEW s \in Streams, NEW o, RunsOp(r, s, o),
           StartsNone(r, s, o),
           input' \in [Ranks -> 0 .. MaxCalls], staged' \in [Ranks -> [Buffers -> 0 .. MaxCalls]],
           window' \in [Windows -> [Ranks -> [Ranks -> 0 .. MaxCalls]]]
    PROVE  IInv' /\ Fits(L, at, r)' /\ OthersStill(r)
<1>1. Fits(L, at, r)
  OBVIOUS
<1>2. /\ Runs(L, r, program, pos[r], at, queue[r], ran[r], s, queue'[r], ran'[r])
      /\ L[s][ran[r][s] + 1].op = o
  BY <1>1, RunsOpIs
<1>3. Typing
  BY DEF IInv
<1>4. /\ ticket' \in [Ranks -> [Streams -> 0 .. 2 * MaxCalls]]
      /\ \A t \in Ranks : t # r => ticket'[t] = ticket[t]
      /\ \A t \in Streams : t # s => ticket'[r][t] = ticket[r][t]
      /\ o = "leave" => ticket'[r][s] = 0
      /\ o # "leave" => ticket'[r][s] = ticket[r][s]
  <2>1. 0 \in 0 .. 2 * MaxCalls
    BY ExchangeAssumption
  <2>2. QED  BY <1>3, <2>1 DEF Typing, StartsNone
<1>5. Effects(r, s, o)
  BY <1>3, <1>4 DEF Effects, Typing, StartsNone
<1>6. Fine(L, at, r, program, pos[r], queue[r], ran[r], pool[r], result[r], ticket[r], ArrivedAt(r))
  BY <1>1 DEF Fits
<1>7. Inside(L, ran[r], ticket[r]) /\ Counted(program, pos[r], at, ran[r], ArrivedAt(r))
  BY <1>6 DEF Fine
<1>8. Inside(L, ran'[r], ticket'[r])
  <2>1. PICK q2, n2, tk2 : q2 = queue'[r] /\ n2 = ran'[r] /\ tk2 = ticket'[r]
    OBVIOUS
  <2>2. /\ Runs(L, r, program, pos[r], at, queue[r], ran[r], s, q2, n2)
        /\ \A t \in Streams : t # s => tk2[t] = ticket[r][t]
        /\ L[s][ran[r][s] + 1].op = "leave" => tk2[s] = 0
        /\ L[s][ran[r][s] + 1].op \notin {"arrive", "leave"} => tk2[s] = ticket[r][s]
    BY <1>2, <1>4, <2>1 DEF StartsNone
  <2>3. Inside(L, n2, tk2)
    BY <1>7, <2>2, InsideRuns
  <2>4. QED  BY <2>1, <2>3
<1>9. Counted(program, pos[r], at, ran'[r], ArrivedAt(r)')
  <2>1. ArrivedAt(r)' = ArrivedAt(r)
    BY DEF ArrivedAt, StartsNone
  <2>2. Counted(program, pos[r], at, ran'[r], ArrivedAt(r))
    BY <1>2, <1>7, QuietCounted DEF StartsNone
  <2>3. QED  BY <2>1, <2>2
<1>10. QED
  BY <1>1, <1>5, <1>8, <1>9, OpKeeps

\* An arrival is the next barrier of its window.
LEMMA ArriveKeeps ==
    ASSUME IInv, NEW r \in Ranks, NEW L, NEW at, Fits(L, at, r), NEW s \in Streams, Arrive(r, s)
    PROVE  IInv' /\ Fits(L, at, r)' /\ OthersStill(r)
<1>1. RunsOp(r, s, "arrive") /\ input' = input /\ staged' = staged /\ window' = window
  BY DEF Arrive, RunsOp, data
<1>2. Fits(L, at, r)
  OBVIOUS
<1>3. /\ Runs(L, r, program, pos[r], at, queue[r], ran[r], s, queue'[r], ran'[r])
      /\ Head(queue[r][s]) = L[s][ran[r][s] + 1] /\ L[s][ran[r][s] + 1].op = "arrive"
  BY <1>1, <1>2, RunsOpIs
<1>4. PICK w : w = Head(queue[r][s]).win
  OBVIOUS
<1>5. arrived' = [arrived EXCEPT ![w][r] = @ + 1] /\ ticket' = [ticket EXCEPT ![r][s] = arrived[w][r] + 1]
  BY <1>4 DEF Arrive
<1>6. PICK i \in 1 .. pos[r], d \in {0, 3} :
         Turn(program, at, ran[r], s, i, d) /\ L[s][ran[r][s] + 1].win = Filled(program, i)
  BY <1>3, WhoseTurn
<1>7. w = Filled(program, i) /\ Transfers(program, i)
  BY <1>3, <1>4, <1>6 DEF Turn
<1>8. /\ Contract(program) /\ pos[r] \in Nat /\ pos[r] <= Len(program)
      /\ ArrivedAt(r) \in [Windows -> Nat] /\ \A v \in Windows : ArrivedAt(r)[v] = arrived[v][r]
  BY RankIs
<1>9. Fine(L, at, r, program, pos[r], queue[r], ran[r], pool[r], result[r], ticket[r], ArrivedAt(r))
  BY <1>2 DEF Fits
<1>10. Inside(L, ran[r], ticket[r]) /\ Counted(program, pos[r], at, ran[r], ArrivedAt(r))
  BY <1>9 DEF Fine
<1>11. w \in Windows
  <2>1. i \in DOMAIN program
    BY <1>8, ProgramIs
  <2>2. QED  BY <1>7, <1>8, <2>1, FilledIs
<1>12. arrived[w][r] \in Nat /\ arrived[w][r] + 1 <= 2 * MaxCalls
  <2>1. ArrivedAt(r)[Filled(program, i)] + 1 <= 2 * MaxCalls
    BY <1>3, <1>6, <1>8, <1>10, TurnNumber
  <2>2. QED  BY <1>7, <1>8, <1>11, <2>1
<1>13. Typing
  BY DEF IInv
<1>14. arrived[w][r] + 1 \in 0 .. 2 * MaxCalls
  BY <1>12, ExchangeAssumption
<1>15. /\ arrived' \in [Windows -> [Ranks -> 0 .. 2 * MaxCalls]]
       /\ ticket' \in [Ranks -> [Streams -> 0 .. 2 * MaxCalls]]
       /\ \A t \in Ranks : t # r => ticket'[t] = ticket[t] /\ \A v \in Windows : arrived'[v][t] = arrived[v][t]
       /\ \A t \in Streams : t # s => ticket'[r][t] = ticket[r][t]
       /\ arrived'[w][r] = arrived[w][r] + 1
       /\ \A v \in Windows : v # w => arrived'[v][r] = arrived[v][r]
  BY <1>5, <1>11, <1>13, <1>14 DEF Typing
<1>16. Effects(r, s, "arrive")
  BY <1>1, <1>13, <1>15 DEF Effects, Typing
<1>17. Inside(L, ran'[r], ticket'[r])
  <2>1. PICK q2, n2, tk2 : q2 = queue'[r] /\ n2 = ran'[r] /\ tk2 = ticket'[r]
    OBVIOUS
  <2>2. /\ Runs(L, r, program, pos[r], at, queue[r], ran[r], s, q2, n2)
        /\ \A t \in Streams : t # s => tk2[t] = ticket[r][t]
        /\ L[s][ran[r][s] + 1].op = "leave" => tk2[s] = 0
        /\ L[s][ran[r][s] + 1].op \notin {"arrive", "leave"} => tk2[s] = ticket[r][s]
    BY <1>3, <1>15, <2>1
  <2>3. Inside(L, n2, tk2)
    BY <1>10, <2>2, InsideRuns
  <2>4. QED  BY <2>1, <2>3
<1>18. Counted(program, pos[r], at, ran'[r], ArrivedAt(r)')
  <2>1. PICK arr2 : arr2 = ArrivedAt(r)'
    OBVIOUS
  <2>2. arr2 = [ArrivedAt(r) EXCEPT ![Filled(program, i)] = @ + 1]
    BY <1>7, <1>8, <1>11, <1>15, <2>1 DEF ArrivedAt
  <2>3. PICK q2, n2 : q2 = queue'[r] /\ n2 = ran'[r]
    OBVIOUS
  <2>4. Runs(L, r, program, pos[r], at, queue[r], ran[r], s, q2, n2)
    BY <1>3, <2>3
  <2>5. Counted(program, pos[r], at, n2, arr2)
    BY <1>6, <1>8, <1>10, <2>2, <2>4, ArriveCounted
  <2>6. QED  BY <2>1, <2>3, <2>5
<1>19. QED
  BY <1>2, <1>16, <1>17, <1>18, OpKeeps, SMTT(60)

\* Every step of a stream keeps the invariant.
LEMMA StreamStepKeeps ==
    ASSUME IInv, NEW r \in Ranks, NEW L, NEW at, Fits(L, at, r), NEW s \in Streams, StreamStep(r, s)
    PROVE  IInv' /\ Fits(L, at, r)' /\ OthersStill(r)
<1>1. /\ input \in [Ranks -> 0 .. MaxCalls] /\ staged \in [Ranks -> [Buffers -> 0 .. MaxCalls]]
      /\ window \in [Windows -> [Ranks -> [Ranks -> 0 .. MaxCalls]]]
  BY DEF IInv, Typing
<1>2. ASSUME NEW o, RunsOp(r, s, o)
      PROVE  Head(queue[r][s]).call \in 0 .. MaxCalls /\ Head(queue[r][s]).buf \in {0} \cup Buffers
  <2>1. Head(queue[r][s]) \in Ops
    BY <1>2, RunsOpIs
  <2>2. QED  BY <2>1, OpIs
<1>3. CASE WaitDone(r, s)
  <2>1. /\ RunsOp(r, s, "nothing") /\ StartsNone(r, s, "nothing")
        /\ input' = input /\ staged' = staged /\ window' = window
    BY <1>3 DEF WaitDone, RunsOp, StartsNone, data
  <2>2. QED  BY <1>1, <2>1, OtherOpKeeps
<1>4. CASE Arrive(r, s)
  BY <1>4, ArriveKeeps
<1>5. CASE Leave(r, s)
  <2>1. /\ RunsOp(r, s, "leave") /\ StartsNone(r, s, "leave")
        /\ input' = input /\ staged' = staged /\ window' = window
    BY <1>5 DEF Leave, RunsOp, StartsNone, data
  <2>2. QED  BY <1>1, <2>1, OtherOpKeeps
<1>6. CASE PushShare(r, s)
  <2>1. RunsOp(r, s, "push") /\ StartsNone(r, s, "push") /\ input' = input /\ staged' = staged
    BY <1>6 DEF PushShare, RunsOp, StartsNone
  <2>2. window' \in [Windows -> [Ranks -> [Ranks -> 0 .. MaxCalls]]]
    <3>1. PICK h : h = Head(queue[r][s])
      OBVIOUS
    <3>2. PICK v : v = IF h.buf = 0 THEN input[r] ELSE staged[r][h.buf]
      OBVIOUS
    <3>3. v \in 0 .. MaxCalls
      BY <1>1, <1>2, <2>1, <3>1, <3>2
    <3>4. window' = [window EXCEPT ![h.win][h.to][r] = v]
      BY <1>6, <3>1, <3>2, Zenon DEF PushShare
    <3>5. QED  BY <1>1, <3>3, <3>4, ZenonT(60)
  <2>3. QED  BY <1>1, <2>1, <2>2, OtherOpKeeps, SMTT(60)
<1>7. CASE RunProduce(r, s)
  <2>1. RunsOp(r, s, "produce") /\ StartsNone(r, s, "produce") /\ staged' = staged /\ window' = window
    BY <1>7 DEF RunProduce, RunsOp, StartsNone
  <2>2. input' \in [Ranks -> 0 .. MaxCalls]
    BY <1>1, <1>2, <1>7, <2>1 DEF RunProduce
  <2>3. staged' \in [Ranks -> [Buffers -> 0 .. MaxCalls]]
        /\ window' \in [Windows -> [Ranks -> [Ranks -> 0 .. MaxCalls]]]
    BY <1>1, <2>1
  <2>4. QED  BY <2>1, <2>2, <2>3, OtherOpKeeps
<1>8. CASE Stage(r, s)
  <2>1. RunsOp(r, s, "stage") /\ StartsNone(r, s, "stage") /\ input' = input /\ window' = window
    BY <1>8 DEF Stage, RunsOp, StartsNone
  <2>2. staged' \in [Ranks -> [Buffers -> 0 .. MaxCalls]]
    BY <1>1, <1>8 DEF Stage
  <2>3. /\ input' \in [Ranks -> 0 .. MaxCalls]
        /\ window' \in [Windows -> [Ranks -> [Ranks -> 0 .. MaxCalls]]]
    BY <1>1, <2>1
  <2>4. QED  BY <2>1, <2>2, <2>3, OtherOpKeeps
<1>9. CASE RunCopyOut(r, s)
  <2>1. /\ RunsOp(r, s, "copyout") /\ StartsNone(r, s, "copyout")
        /\ input' = input /\ staged' = staged /\ window' = window
    BY <1>9 DEF RunCopyOut, RunsOp, StartsNone
  <2>2. QED  BY <1>1, <2>1, OtherOpKeeps
<1>10. CASE Read(r, s)
  <2>1. /\ RunsOp(r, s, "read") /\ StartsNone(r, s, "read")
        /\ input' = input /\ staged' = staged /\ window' = window
    BY <1>10 DEF Read, RunsOp, StartsNone
  <2>2. QED  BY <1>1, <2>1, OtherOpKeeps
<1>11. QED
  BY <1>3, <1>4, <1>5, <1>6, <1>7, <1>8, <1>9, <1>10 DEF StreamStep

------------------------------------------------------------------------------
(* The staging pool. *)

\* A set of slots has a first one.
LEMMA MinIn ==
    ASSUME NEW S \in SUBSET Nat, S # {}
    PROVE  Min(S) \in S
BY LeastNat DEF Min

\* The values of a function on a finite set are no more than its arguments.
LEMMA ImageBound ==
    ASSUME NEW D, IsFiniteSet(D), NEW f, DOMAIN f = D
    PROVE  /\ IsFiniteSet({f[k] : k \in D}) /\ Cardinality({f[k] : k \in D}) <= Cardinality(D)
           /\ Cardinality({f[k] : k \in D}) \in Nat
<1>1. PICK T : T = {f[k] : k \in D}
  OBVIOUS
<1>2. PICK g : g = [k \in D |-> f[k]]
  OBVIOUS
<1>3. g \in Surjection(D, T)
  BY <1>1, <1>2 DEF Surjection
<1>4. IsFiniteSet(T) /\ Cardinality(T) <= Cardinality(D)
  BY <1>3, FS_Surjection
<1>5. Cardinality(T) \in Nat
  BY <1>4, FS_CardinalityType
<1>6. QED
  BY <1>1, <1>4, <1>5

\* The sets of slots an allocation looks at are finite.
LEMMA PoolSets ==
    ASSUME NEW pl \in Seq(Slots)
    PROVE  /\ IsFiniteSet(DOMAIN pl) /\ Cardinality(DOMAIN pl) = Len(pl)
           /\ IsFiniteSet(Shapes(pl)) /\ Cardinality(Shapes(pl)) \in Nat /\ Shapes(pl) \subseteq Nat
           /\ \A sh : IsFiniteSet(OfShape(pl, sh)) /\ Cardinality(OfShape(pl, sh)) \in Nat
                      /\ OfShape(pl, sh) \subseteq DOMAIN pl
<1>1. DOMAIN pl = 1 .. Len(pl) /\ Len(pl) \in Nat /\ \A j \in DOMAIN pl : pl[j].shape \in Nat
  BY SlotIs
<1>2. IsFiniteSet(DOMAIN pl) /\ Cardinality(DOMAIN pl) = Len(pl)
  BY <1>1, FS_Interval, SMTT(60)
<1>3. PICK f : f = [k \in DOMAIN pl |-> pl[k].shape]
  OBVIOUS
<1>4. Shapes(pl) = {f[k] : k \in DOMAIN pl}
  BY <1>3 DEF Shapes
<1>5. IsFiniteSet(Shapes(pl)) /\ Cardinality(Shapes(pl)) \in Nat
  BY <1>2, <1>3, <1>4, ImageBound
<1>6. Shapes(pl) \subseteq Nat
  BY <1>1 DEF Shapes
<1>7. ASSUME NEW sh
      PROVE  IsFiniteSet(OfShape(pl, sh)) /\ Cardinality(OfShape(pl, sh)) \in Nat
             /\ OfShape(pl, sh) \subseteq DOMAIN pl
  <2>1. OfShape(pl, sh) \in SUBSET DOMAIN pl
    BY DEF OfShape
  <2>2. QED  BY <1>2, <2>1, FS_Subset, FS_CardinalityType
<1>8. QED
  BY <1>2, <1>5, <1>6, <1>7

\* The slots of k's shape up to slot k.
UpTo(pl, k) == {j \in 1 .. k : pl[j].shape = pl[k].shape}

\* Slots are counted up to one of them.
LEMMA UpToIs ==
    ASSUME NEW pl \in Seq(Slots), NEW k \in DOMAIN pl
    PROVE  /\ UpTo(pl, k) \subseteq OfShape(pl, pl[k].shape)
           /\ Cardinality(UpTo(pl, k)) \in Nat /\ Cardinality(UpTo(pl, k)) >= 1
           /\ Cardinality(UpTo(pl, k)) <= Cardinality(OfShape(pl, pl[k].shape))
           /\ \A j \in DOMAIN pl : j < k /\ pl[j].shape = pl[k].shape =>
                 Cardinality(UpTo(pl, j)) < Cardinality(UpTo(pl, k))
<1>1. DOMAIN pl = 1 .. Len(pl) /\ Len(pl) \in Nat
  BY SlotIs
<1>2. UpTo(pl, k) \in SUBSET OfShape(pl, pl[k].shape) /\ k \in UpTo(pl, k)
  BY <1>1 DEF UpTo, OfShape
<1>3. IsFiniteSet(OfShape(pl, pl[k].shape)) /\ Cardinality(OfShape(pl, pl[k].shape)) \in Nat
  BY PoolSets
<1>4. IsFiniteSet(UpTo(pl, k)) /\ Cardinality(UpTo(pl, k)) <= Cardinality(OfShape(pl, pl[k].shape))
  BY <1>2, <1>3, FS_Subset
<1>5. Cardinality(UpTo(pl, k)) \in Nat /\ Cardinality(UpTo(pl, k)) # 0
  BY <1>2, <1>4, FS_CardinalityType, FS_EmptySet
<1>6. ASSUME NEW j \in DOMAIN pl, j < k, pl[j].shape = pl[k].shape
      PROVE  Cardinality(UpTo(pl, j)) < Cardinality(UpTo(pl, k))
  <2>1. UpTo(pl, j) \in SUBSET UpTo(pl, k) /\ k \notin UpTo(pl, j)
    BY <1>1, <1>6 DEF UpTo
  <2>2. /\ Cardinality(UpTo(pl, j)) <= Cardinality(UpTo(pl, k)) /\ IsFiniteSet(UpTo(pl, j))
        /\ Cardinality(UpTo(pl, k)) = Cardinality(UpTo(pl, j)) => UpTo(pl, k) = UpTo(pl, j)
    BY <1>4, <2>1, FS_Subset
  <2>3. Cardinality(UpTo(pl, j)) \in Nat
    BY <2>2, FS_CardinalityType
  <2>4. Cardinality(UpTo(pl, k)) # Cardinality(UpTo(pl, j))
    BY <1>2, <2>1, <2>2
  <2>5. QED  BY <1>5, <2>2, <2>3, <2>4
<1>7. QED
  BY <1>2, <1>4, <1>5, <1>6

\* A pool that may have one more slot of the shape sh has a buffer to spare:
\* its slots are told apart by their shape and their place in it, of which there
\* are as many as buffers, and one is free.
LEMMA SpareBuffer ==
    ASSUME NEW pl, Stocked(pl), NEW sh \in Nat, Cardinality(Shapes(pl) \cup {sh}) <= MaxShapes,
           Cardinality(OfShape(pl, sh)) < StagingSlots
    PROVE  \E m \in Buffers : \A k \in DOMAIN pl : pl[k].buf # m
<1>1. pl \in Seq(Slots)
  BY DEF Stocked
<1>2. DOMAIN pl = 1 .. Len(pl) /\ Len(pl) \in Nat /\ IsFiniteSet(DOMAIN pl) /\ Cardinality(DOMAIN pl) = Len(pl)
  BY <1>1, SlotIs, PoolSets
<1>3. StagingSlots \in Nat /\ StagingSlots >= 1 /\ MaxShapes \in Nat
  BY ExchangeAssumption
<1>4. PICK S : S = Shapes(pl) \cup {sh}
  OBVIOUS
<1>5. IsFiniteSet(S) /\ Cardinality(S) \in Nat /\ Cardinality(S) <= MaxShapes
  <2>1. IsFiniteSet(Shapes(pl))
    BY <1>1, PoolSets
  <2>2. IsFiniteSet(S)
    BY <1>4, <2>1, FS_AddElement
  <2>3. QED  BY <1>4, <2>2, FS_CardinalityType
<1>6. PICK N : N = 1 .. StagingSlots
  OBVIOUS
<1>7. IsFiniteSet(N) /\ Cardinality(N) = StagingSlots
  BY <1>3, <1>6, FS_Interval
<1>8. PICK P : P = S \X N
  OBVIOUS
<1>9. IsFiniteSet(P) /\ Cardinality(P) = Cardinality(S) * StagingSlots
  BY <1>5, <1>7, <1>8, FS_Product
<1>10. PICK x : x = <<sh, StagingSlots>>
  OBVIOUS
<1>11. x \in P
  BY <1>3, <1>4, <1>6, <1>8, <1>10
<1>12. PICK T : T = P \ {x}
  OBVIOUS
<1>13. IsFiniteSet(T) /\ Cardinality(T) = Cardinality(P) - 1
  BY <1>9, <1>11, <1>12, FS_RemoveElement
<1>14. PICK f : f = [k \in DOMAIN pl |-> <<pl[k].shape, Cardinality(UpTo(pl, k))>>]
  OBVIOUS
<1>15. ASSUME NEW k \in DOMAIN pl  PROVE f[k] \in T
  <2>1. PICK h, c : h = pl[k].shape /\ c = Cardinality(UpTo(pl, k))
    OBVIOUS
  <2>2. c \in Nat /\ c >= 1 /\ c <= Cardinality(OfShape(pl, h)) /\ Cardinality(OfShape(pl, h)) \in Nat
    BY <1>1, <2>1, UpToIs, PoolSets
  <2>3. h \in Shapes(pl)
    BY <2>1 DEF Shapes
  <2>4. Cardinality(OfShape(pl, h)) <= StagingSlots
    BY <2>3 DEF Stocked
  <2>5. c \in N /\ h \in S
    BY <1>3, <1>4, <1>6, <2>2, <2>3, <2>4
  <2>6. h = sh => c # StagingSlots
    BY <1>3, <2>2
  <2>7. <<h, c>> \in P /\ <<h, c>> # x
    BY <1>8, <1>10, <2>5, <2>6
  <2>8. QED  BY <1>12, <1>14, <2>1, <2>7
<1>16. ASSUME NEW j \in DOMAIN pl, NEW k \in DOMAIN pl, j < k  PROVE f[j] # f[k]
  <2>1. CASE pl[j].shape # pl[k].shape
    BY <1>14, <2>1
  <2>2. CASE pl[j].shape = pl[k].shape
    <3>1. Cardinality(UpTo(pl, j)) < Cardinality(UpTo(pl, k)) /\ Cardinality(UpTo(pl, j)) \in Nat
          /\ Cardinality(UpTo(pl, k)) \in Nat
      BY <1>1, <1>16, <2>2, UpToIs
    <3>2. Cardinality(UpTo(pl, j)) # Cardinality(UpTo(pl, k))
      BY <3>1
    <3>3. QED  BY <1>14, <3>2
  <2>3. QED  BY <2>1, <2>2
<1>17. f \in Injection(DOMAIN pl, T)
  <2>1. f \in [DOMAIN pl -> T]
    BY <1>14, <1>15
  <2>2. \A j, k \in DOMAIN pl : f[j] = f[k] => j = k
    <3>1. \A j, k \in DOMAIN pl : j = k \/ j < k \/ k < j
      BY <1>2
    <3>2. QED  BY <1>16, <3>1
  <2>3. QED  BY <2>1, <2>2 DEF Injection, IsInjective
<1>18. Len(pl) <= Cardinality(T)
  BY <1>2, <1>13, <1>17, FS_Injection
<1>19. Cardinality(S) * StagingSlots <= MaxShapes * StagingSlots
  <2>1. PICK c, e : c = Cardinality(S) /\ e = MaxShapes - c
    OBVIOUS
  <2>2. c \in Nat /\ e \in Nat /\ MaxShapes = c + e
    BY <1>3, <1>5, <2>1
  <2>3. MaxShapes * StagingSlots = c * StagingSlots + e * StagingSlots
    BY <1>3, <2>2
  <2>4. e * StagingSlots >= 0 /\ c * StagingSlots \in Int /\ e * StagingSlots \in Int
    BY <1>3, <2>2
  <2>5. QED  BY <2>1, <2>3, <2>4
<1>20. Len(pl) < MaxShapes * StagingSlots
  <2>1. PICK a, b : a = Cardinality(S) * StagingSlots /\ b = MaxShapes * StagingSlots
    OBVIOUS
  <2>2. a \in Int /\ b \in Int
    BY <1>3, <1>5, <2>1
  <2>3. Len(pl) <= a - 1 /\ a <= b
    BY <1>9, <1>13, <1>18, <1>19, <2>1
  <2>4. QED  BY <1>2, <2>1, <2>2, <2>3
<1>21. IsFiniteSet(Buffers) /\ Cardinality(Buffers) = MaxShapes * StagingSlots
  <2>1. PICK b : b = MaxShapes * StagingSlots
    OBVIOUS
  <2>2. b \in Nat
    BY <1>3, <2>1
  <2>3. IsFiniteSet(1 .. b) /\ Cardinality(1 .. b) = b
    BY <2>2, FS_Interval
  <2>4. QED  BY <2>1, <2>3 DEF Buffers
<1>22. PICK g : g = [k \in DOMAIN pl |-> pl[k].buf]
  OBVIOUS
<1>23. PICK U : U = {g[k] : k \in DOMAIN pl}
  OBVIOUS
<1>24. IsFiniteSet(U) /\ Cardinality(U) <= Len(pl) /\ Cardinality(U) \in Nat
  BY <1>2, <1>22, <1>23, ImageBound
<1>25. ~ (Buffers \subseteq U)
  <2>1. SUFFICES ASSUME Buffers \subseteq U  PROVE FALSE
    OBVIOUS
  <2>2. Buffers \in SUBSET U
    BY <2>1
  <2>3. Cardinality(Buffers) <= Cardinality(U)
    BY <1>24, <2>2, FS_Subset
  <2>4. PICK a, b : a = Cardinality(U) /\ b = MaxShapes * StagingSlots
    OBVIOUS
  <2>5. a \in Nat /\ b \in Int /\ b <= a /\ a <= Len(pl) /\ Len(pl) < b /\ Len(pl) \in Nat
    BY <1>2, <1>3, <1>20, <1>21, <1>24, <2>3, <2>4
  <2>6. QED  BY ONLY <2>5
<1>26. QED
  BY <1>22, <1>23, <1>25

\* A slot is used again: its shape and its buffer stay.
LEMMA SlotReused ==
    ASSUME NEW pl, Stocked(pl), NEW k \in DOMAIN pl, NEW used \in Slots,
           used.shape = pl[k].shape, used.buf = pl[k].buf, NEW pl2, pl2 = [pl EXCEPT ![k] = used]
    PROVE  /\ Stocked(pl2) /\ pl2 \in Seq(Slots) /\ DOMAIN pl2 = DOMAIN pl /\ pl2[k] = used
           /\ \A j \in DOMAIN pl : j # k => pl2[j] = pl[j]
<1>1. pl \in Seq(Slots) /\ DOMAIN pl = 1 .. Len(pl) /\ Len(pl) \in Nat
  BY SlotIs DEF Stocked
<1>2. /\ pl2 \in Seq(Slots) /\ DOMAIN pl2 = DOMAIN pl /\ pl2[k] = used
      /\ \A j \in DOMAIN pl : j # k => pl2[j] = pl[j]
  BY <1>1
<1>3. \A j \in DOMAIN pl : pl2[j].shape = pl[j].shape /\ pl2[j].buf = pl[j].buf
  BY <1>2
<1>4. Shapes(pl2) = Shapes(pl) /\ \A sh : OfShape(pl2, sh) = OfShape(pl, sh)
  BY <1>2, <1>3 DEF Shapes, OfShape
<1>5. Cardinality(Shapes(pl2)) <= MaxShapes
  BY <1>4 DEF Stocked
<1>6. \A sh \in Shapes(pl2) : Cardinality(OfShape(pl2, sh)) <= StagingSlots
  BY <1>4 DEF Stocked
<1>7. \A i, j \in DOMAIN pl2 : pl2[i].buf = pl2[j].buf => i = j
  BY <1>2, <1>3 DEF Stocked
<1>8. Stocked(pl2)
  BY <1>2, <1>5, <1>6, <1>7 DEF Stocked
<1>9. QED
  BY <1>2, <1>8

\* A slot is built, with a buffer that no other has.
Builds(pl, used, pl2) ==
    /\ Stocked(pl) /\ used \in Slots /\ \A k \in DOMAIN pl : pl[k].buf # used.buf
    /\ Cardinality(Shapes(pl) \cup {used.shape}) <= MaxShapes
    /\ Cardinality(OfShape(pl, used.shape)) < StagingSlots
    /\ pl2 = Append(pl, used)

\* A slot that is built keeps the pool within its bounds.
LEMMA SlotBuilt ==
    ASSUME NEW pl, NEW used, NEW pl2, Builds(pl, used, pl2)
    PROVE  /\ Stocked(pl2) /\ pl2 \in Seq(Slots) /\ DOMAIN pl2 = DOMAIN pl \cup {Len(pl) + 1}
           /\ pl2[Len(pl) + 1] = used /\ \A j \in DOMAIN pl : pl2[j] = pl[j]
<1>1. /\ Stocked(pl) /\ used \in Slots /\ \A k \in DOMAIN pl : pl[k].buf # used.buf
      /\ Cardinality(Shapes(pl) \cup {used.shape}) <= MaxShapes
      /\ Cardinality(OfShape(pl, used.shape)) < StagingSlots
      /\ pl2 = Append(pl, used)
  BY DEF Builds
<1>2. pl \in Seq(Slots) /\ DOMAIN pl = 1 .. Len(pl) /\ Len(pl) \in Nat
  BY <1>1, SlotIs DEF Stocked
<1>3. PICK k, sh : k = Len(pl) + 1 /\ sh = used.shape
  OBVIOUS
<1>4. /\ pl2 \in Seq(Slots) /\ DOMAIN pl2 = DOMAIN pl \cup {k} /\ pl2[k] = used /\ k \notin DOMAIN pl
      /\ \A j \in DOMAIN pl : pl2[j] = pl[j]
  BY <1>1, <1>2, <1>3
<1>5. Shapes(pl2) = Shapes(pl) \cup {sh}
  BY <1>3, <1>4 DEF Shapes
<1>6. \A x : x # sh => OfShape(pl2, x) = OfShape(pl, x)
  BY <1>3, <1>4 DEF OfShape
<1>7. Cardinality(OfShape(pl2, sh)) <= StagingSlots
  <2>1. OfShape(pl2, sh) = OfShape(pl, sh) \cup {k}
    BY <1>3, <1>4 DEF OfShape
  <2>2. IsFiniteSet(OfShape(pl, sh)) /\ Cardinality(OfShape(pl, sh)) \in Nat /\ k \notin OfShape(pl, sh)
    BY <1>2, <1>4, PoolSets
  <2>3. Cardinality(OfShape(pl2, sh)) = Cardinality(OfShape(pl, sh)) + 1
    BY <2>1, <2>2, FS_AddElement
  <2>4. StagingSlots \in Nat
    BY ExchangeAssumption
  <2>5. QED  BY <1>1, <1>3, <2>2, <2>3, <2>4
<1>8. ASSUME NEW x \in Shapes(pl2)  PROVE Cardinality(OfShape(pl2, x)) <= StagingSlots
  <2>1. CASE x = sh
    BY <1>7, <2>1
  <2>2. CASE x # sh
    <3>1. x \in Shapes(pl)
      BY <1>5, <2>2
    <3>2. QED  BY <1>1, <1>6, <2>2, <3>1 DEF Stocked
  <2>3. QED  BY <2>1, <2>2
<1>9. \A i, j \in DOMAIN pl2 : pl2[i].buf = pl2[j].buf => i = j
  <2>1. ASSUME NEW i \in DOMAIN pl2, NEW j \in DOMAIN pl2, pl2[i].buf = pl2[j].buf  PROVE i = j
    <3>1. CASE i \in DOMAIN pl /\ j \in DOMAIN pl
      BY <1>1, <1>4, <2>1, <3>1 DEF Stocked
    <3>2. CASE i = k /\ j = k
      BY <3>2
    <3>3. CASE i = k /\ j \in DOMAIN pl
      BY <1>1, <1>4, <2>1, <3>3
    <3>4. CASE i \in DOMAIN pl /\ j = k
      BY <1>1, <1>4, <2>1, <3>4
    <3>5. QED  BY <1>4, <3>1, <3>2, <3>3, <3>4
  <2>2. QED  BY <2>1
<1>10. Cardinality(Shapes(pl2)) <= MaxShapes
  BY <1>1, <1>3, <1>5
<1>11. Stocked(pl2)
  BY <1>4, <1>8, <1>9, <1>10 DEF Stocked
<1>12. QED
  BY <1>3, <1>4, <1>11

\* stage on rank r, whose pool is pl: slot k with its buffer m, in the pool pl2, and
\* the copy o into it.
Stages(r, sh, last, pl, k, m, pl2, copy, o) ==
    /\ pl = pool[r] /\ Stocked(pl) /\ ran[r]["comm"] \in Nat /\ sh \in Nat /\ EvictionDone(r, sh)
    /\ last \in Nat /\ \A j \in DOMAIN pl : pl[j].upto <= last
    /\ k = SlotFor(r, sh) /\ m = BufferFor(r, sh)
    /\ copy \in Ops /\ o = (IF AtBound(r, sh) THEN After("comm", pl[k].upto, copy) ELSE copy)
    /\ LET used == [shape |-> sh, buf |-> m, upto |-> last] IN
       pl2 = IF k \in SlotsOf(r, sh) THEN [pl EXCEPT ![k] = used] ELSE Append(Kept(r, sh), used)

\* An evicted pool is within its bounds.
LEMMA EmptyStocked ==
    ASSUME NEW none, none = <<>>
    PROVE  Stocked(none) /\ Shapes(none) = {} /\ (\A sh : OfShape(none, sh) = {}) /\ Len(none) = 0
<1>1. Shapes(none) = {} /\ (\A sh : OfShape(none, sh) = {}) /\ none \in Seq(Slots) /\ Len(none) = 0
  BY DEF Shapes, OfShape
<1>2. Cardinality(Shapes(none)) <= MaxShapes
  <2>1. Cardinality({}) = 0
    BY FS_EmptySet
  <2>2. Cardinality(Shapes(none)) = 0
    BY <1>1, <2>1
  <2>3. QED  BY <2>2, ExchangeAssumption
<1>3. \A sh \in Shapes(none) : Cardinality(OfShape(none, sh)) <= StagingSlots
  BY <1>1
<1>4. \A j, k \in DOMAIN none : none[j].buf = none[k].buf => j = k
  OBVIOUS
<1>5. Stocked(none)
  BY <1>1, <1>2, <1>3, <1>4 DEF Stocked
<1>6. QED
  BY <1>1, <1>5

\* stage and release_staging, as the pool sees them.
LEMMA PoolTurns ==
    ASSUME NEW r, NEW sh, NEW last, NEW pl, NEW k, NEW m, NEW pl2, NEW copy, NEW o,
           Stages(r, sh, last, pl, k, m, pl2, copy, o)
    PROVE  /\ m \in Buffers /\ Stocked(pl2) /\ Turnover(pl, pl2, ran[r]["comm"], m, o, last)
           /\ o = copy \/ \E j \in DOMAIN pl : o = After("comm", pl[j].upto, copy)
<1>1. /\ pl = pool[r] /\ Stocked(pl) /\ ran[r]["comm"] \in Nat /\ sh \in Nat /\ EvictionDone(r, sh)
      /\ last \in Nat /\ \A j \in DOMAIN pl : pl[j].upto <= last
      /\ k = SlotFor(r, sh) /\ m = BufferFor(r, sh)
      /\ copy \in Ops /\ o = (IF AtBound(r, sh) THEN After("comm", pl[k].upto, copy) ELSE copy)
  BY DEF Stages
<1>2. PICK used : used = [shape |-> sh, buf |-> m, upto |-> last]
  OBVIOUS
<1>3. pl2 = IF k \in SlotsOf(r, sh) THEN [pl EXCEPT ![k] = used] ELSE Append(Kept(r, sh), used)
  BY <1>2 DEF Stages
<1>4. /\ pl \in Seq(Slots) /\ DOMAIN pl = 1 .. Len(pl) /\ Len(pl) \in Nat
      /\ \A j \in DOMAIN pl : pl[j] \in Slots /\ pl[j].shape \in Nat /\ pl[j].buf \in Buffers /\ pl[j].upto \in Nat
  BY <1>1, SlotIs DEF Stocked
<1>5. used.shape = sh /\ used.buf = m /\ used.upto = last /\ (m \in Buffers => used \in Slots)
  BY <1>1, <1>2 DEF Slots
<1>6. StagingSlots \in Nat /\ StagingSlots > 0 /\ MaxShapes \in Nat /\ MaxShapes > 0
  BY ExchangeAssumption
<1>7. CASE MustEvict(r, sh)
  <2>1. Kept(r, sh) = <<>> /\ SlotsOf(r, sh) = {} /\ FreeSlots(r, sh) = {}
    BY <1>7 DEF Kept, SlotsOf, FreeSlots
  <2>2. ~ AtBound(r, sh)
    BY <1>6, <2>1, FS_EmptySet DEF AtBound
  <2>3. o = copy /\ k \notin SlotsOf(r, sh) /\ pl2 = Append(<<>>, used)
    BY <1>1, <1>3, <2>1, <2>2
  <2>4. m \in Buffers
    <3>1. m = Min({b \in Buffers : \A j \in DOMAIN Kept(r, sh) : Kept(r, sh)[j].buf # b})
      BY <1>1, <2>3 DEF BufferFor, FreshBuffer
    <3>2. {b \in Buffers : \A j \in DOMAIN Kept(r, sh) : Kept(r, sh)[j].buf # b} = Buffers
      BY <2>1
    <3>3. Buffers \in SUBSET Nat /\ 1 \in Buffers
      <4>1. PICK b : b = MaxShapes * StagingSlots
        OBVIOUS
      <4>2. b \in Nat /\ b >= 1
        BY <1>6, <4>1
      <4>3. QED  BY <4>1, <4>2 DEF Buffers
    <3>4. QED  BY <3>1, <3>2, <3>3, MinIn
  <2>5. PICK none : none = <<>>
    OBVIOUS
  <2>6. Stocked(none) /\ Shapes(none) = {} /\ OfShape(none, used.shape) = {} /\ Len(none) = 0
    BY <2>5, EmptyStocked
  <2>7. Builds(none, used, pl2)
    <3>1. Cardinality(Shapes(none) \cup {used.shape}) <= MaxShapes
      <4>1. Shapes(none) \cup {used.shape} = {used.shape}
        BY <2>6
      <4>2. Cardinality({used.shape}) = 1
        BY FS_Singleton
      <4>3. QED  BY <1>6, <4>1, <4>2
    <3>2. Cardinality(OfShape(none, used.shape)) < StagingSlots
      BY <1>6, <2>6, FS_EmptySet
    <3>3. used \in Slots /\ pl2 = Append(none, used) /\ \A j \in DOMAIN none : none[j].buf # used.buf
      BY <1>5, <2>3, <2>4, <2>5
    <3>4. QED  BY <2>6, <3>1, <3>2, <3>3 DEF Builds
  <2>8. Stocked(pl2) /\ DOMAIN pl2 = DOMAIN none \cup {1} /\ pl2[1] = used
    <3>1. Stocked(pl2) /\ DOMAIN pl2 = DOMAIN none \cup {Len(none) + 1} /\ pl2[Len(none) + 1] = used
      BY <2>7, SlotBuilt
    <3>2. QED  BY <2>6, <3>1
  <2>9. \A j \in DOMAIN pl : ran[r]["comm"] >= pl[j].upto
    BY <1>1, <1>7 DEF EvictionDone
  <2>10. \A j \in DOMAIN pl2 : j = 1
    BY <2>5, <2>8
  <2>11. Turnover(pl, pl2, ran[r]["comm"], m, o, last)
    BY <1>1, <1>5, <2>8, <2>9, <2>10 DEF Turnover
  <2>12. QED  BY <2>3, <2>4, <2>8, <2>11
<1>8. CASE ~ MustEvict(r, sh)
  <2>1. Kept(r, sh) = pl /\ SlotsOf(r, sh) = OfShape(pl, sh)
    BY <1>1, <1>8 DEF Kept, SlotsOf, OfShape
  <2>2. FreeSlots(r, sh) = {j \in OfShape(pl, sh) : ran[r]["comm"] >= pl[j].upto}
    BY <1>1, <2>1 DEF FreeSlots
  <2>3. /\ OfShape(pl, sh) \subseteq DOMAIN pl /\ OfShape(pl, sh) \in SUBSET Nat
        /\ IsFiniteSet(OfShape(pl, sh)) /\ Cardinality(OfShape(pl, sh)) \in Nat
        /\ \A j \in OfShape(pl, sh) : pl[j].shape = sh
    <3>1. /\ OfShape(pl, sh) \subseteq DOMAIN pl /\ IsFiniteSet(OfShape(pl, sh))
          /\ Cardinality(OfShape(pl, sh)) \in Nat
      BY <1>4, PoolSets
    <3>2. OfShape(pl, sh) \in SUBSET Nat
      BY <1>4, <3>1
    <3>3. \A j \in OfShape(pl, sh) : pl[j].shape = sh
      BY DEF OfShape
    <3>4. QED  BY <3>1, <3>2, <3>3
  <2>4. Cardinality(OfShape(pl, sh)) <= StagingSlots
    <3>1. CASE sh \in Shapes(pl)
      BY <1>1, <3>1 DEF Stocked
    <3>2. CASE sh \notin Shapes(pl)
      <4>1. OfShape(pl, sh) = {}
        BY <3>2 DEF Shapes, OfShape
      <4>2. QED  BY <1>6, <4>1, FS_EmptySet
    <3>3. QED  BY <3>1, <3>2
  <2>5. CASE k \in OfShape(pl, sh)
    <3>1. m = pl[k].buf
      BY <1>1, <2>1, <2>5 DEF BufferFor
    <3>2. k \in DOMAIN pl /\ m \in Buffers /\ pl[k].shape = sh /\ pl[k].upto \in Nat /\ pl[k].upto <= last
      BY <1>1, <1>4, <2>3, <2>5, <3>1
    <3>3. pl2 = [pl EXCEPT ![k] = used]
      BY <1>3, <2>1, <2>5
    <3>4. /\ Stocked(pl2) /\ DOMAIN pl2 = DOMAIN pl /\ pl2[k] = used
          /\ \A j \in DOMAIN pl : j # k => pl2[j] = pl[j]
      BY <1>1, <1>5, <3>1, <3>2, <3>3, SlotReused
    <3>5. \/ ran[r]["comm"] >= pl[k].upto /\ o = copy
          \/ o = After("comm", pl[k].upto, copy)
      <4>1. CASE AtBound(r, sh)
        BY <1>1, <4>1
      <4>2. CASE ~ AtBound(r, sh)
        <5>1. FreeSlots(r, sh) # {}
          <6>1. SUFFICES ASSUME FreeSlots(r, sh) = {}  PROVE FALSE
            OBVIOUS
          <6>2. k = Len(pl) + 1
            BY <1>1, <2>1, <4>2, <6>1 DEF SlotFor
          <6>3. QED  BY <1>4, <3>2, <6>2
        <5>2. k = Min(FreeSlots(r, sh))
          BY <1>1, <5>1 DEF SlotFor
        <5>3. FreeSlots(r, sh) \in SUBSET Nat
          BY <2>2, <2>3
        <5>4. k \in FreeSlots(r, sh)
          BY <5>1, <5>2, <5>3, MinIn
        <5>5. QED  BY <1>1, <2>2, <4>2, <5>4
      <4>3. QED  BY <4>1, <4>2
    <3>6. \A j \in DOMAIN pl : pl[j].buf = m => j = k
      BY <1>1, <3>1, <3>2 DEF Stocked
    <3>7. After("comm", pl[k].upto, copy).on = "comm" /\ After("comm", pl[k].upto, copy).upto = pl[k].upto
      <4>1. PICK s, n : s = "comm" /\ n = pl[k].upto
        OBVIOUS
      <4>2. s \in Streams /\ n \in Nat
        BY <3>2, <4>1 DEF Streams
      <4>3. After(s, n, copy).on = s /\ After(s, n, copy).upto = n
        BY <1>1, <4>2, AfterIs
      <4>4. QED  BY <4>1, <4>3
    <3>8. \A j \in DOMAIN pl : pl[j].buf = m => ran[r]["comm"] >= pl[j].upto \/ (o.on = "comm" /\ o.upto >= pl[j].upto)
      <4>1. ran[r]["comm"] >= pl[k].upto \/ (o.on = "comm" /\ o.upto >= pl[k].upto)
        BY <3>2, <3>5, <3>7
      <4>2. QED  BY <3>6, <4>1
    <3>9. \A j \in DOMAIN pl : pl2[j].buf = pl[j].buf /\ pl2[j].upto >= pl[j].upto /\ pl2[j].upto <= last
      <4>1. ASSUME NEW j \in DOMAIN pl
            PROVE  pl2[j].buf = pl[j].buf /\ pl2[j].upto >= pl[j].upto /\ pl2[j].upto <= last
        <5>1. pl[j].upto \in Nat /\ pl[j].upto <= last
          BY <1>1, <1>4
        <5>2. CASE j = k
          BY <1>1, <1>5, <3>1, <3>4, <5>1, <5>2
        <5>3. CASE j # k
          BY <3>4, <5>1, <5>3
        <5>4. QED  BY <5>2, <5>3
      <4>2. QED  BY <4>1
    <3>10. \A j \in DOMAIN pl : \E j2 \in DOMAIN pl2 : pl2[j2].buf = pl[j].buf /\ pl2[j2].upto >= pl[j].upto
      BY <3>4, <3>9
    <3>11. \E j2 \in DOMAIN pl2 : pl2[j2].buf = m /\ pl2[j2].upto = last
      BY <1>5, <3>2, <3>4
    <3>12. Turnover(pl, pl2, ran[r]["comm"], m, o, last)
      BY <3>4, <3>8, <3>9, <3>10, <3>11 DEF Turnover
    <3>13. o = copy \/ \E j \in DOMAIN pl : o = After("comm", pl[j].upto, copy)
      BY <3>2, <3>5
    <3>14. QED  BY <3>2, <3>4, <3>12, <3>13
  <2>6. CASE k \notin OfShape(pl, sh)
    <3>1. FreeSlots(r, sh) = {}
      <4>1. SUFFICES ASSUME FreeSlots(r, sh) # {}  PROVE FALSE
        OBVIOUS
      <4>2. k = Min(FreeSlots(r, sh))
        BY <1>1, <4>1 DEF SlotFor
      <4>3. FreeSlots(r, sh) \in SUBSET Nat
        BY <2>2, <2>3
      <4>4. k \in FreeSlots(r, sh)
        BY <4>1, <4>2, <4>3, MinIn
      <4>5. QED  BY <2>2, <2>6, <4>4
    <3>2. ~ AtBound(r, sh)
      <4>1. SUFFICES ASSUME AtBound(r, sh)  PROVE FALSE
        OBVIOUS
      <4>2. k = Min(OfShape(pl, sh)) /\ Cardinality(OfShape(pl, sh)) = StagingSlots
        BY <1>1, <2>1, <3>1, <4>1 DEF SlotFor, AtBound
      <4>3. OfShape(pl, sh) # {}
        BY <1>6, <4>2, FS_EmptySet
      <4>4. QED  BY <2>3, <2>6, <4>2, <4>3, MinIn
    <3>3. o = copy /\ pl2 = Append(pl, used)
      BY <1>1, <1>3, <2>1, <2>6, <3>2
    <3>4. Cardinality(OfShape(pl, sh)) < StagingSlots
      <4>1. Cardinality(OfShape(pl, sh)) # StagingSlots
        BY <2>1, <3>1, <3>2 DEF AtBound
      <4>2. QED  BY <1>6, <2>3, <2>4, <4>1
    <3>5. Cardinality(Shapes(pl) \cup {sh}) <= MaxShapes
      <4>1. IsFiniteSet(Shapes(pl)) /\ Cardinality(Shapes(pl)) \in Nat /\ Cardinality(Shapes(pl)) <= MaxShapes
        BY <1>1, <1>4, PoolSets DEF Stocked
      <4>2. Cardinality(Shapes(pl)) < MaxShapes \/ sh \in Shapes(pl)
        <5>1. {pool[r][j].shape : j \in DOMAIN pool[r]} = Shapes(pl)
          BY <1>1 DEF Shapes
        <5>2. ~ (Cardinality(Shapes(pl)) >= MaxShapes /\ sh \notin Shapes(pl))
          BY <1>8, <5>1 DEF MustEvict
        <5>3. PICK c : c = Cardinality(Shapes(pl))
          OBVIOUS
        <5>4. c \in Nat /\ ~ (c >= MaxShapes /\ sh \notin Shapes(pl))
          BY <4>1, <5>2, <5>3
        <5>5. QED  BY <1>6, <5>3, <5>4
      <4>3. Cardinality(Shapes(pl) \cup {sh}) =
              IF sh \in Shapes(pl) THEN Cardinality(Shapes(pl)) ELSE Cardinality(Shapes(pl)) + 1
        BY <4>1, FS_AddElement
      <4>4. QED  BY <1>6, <4>1, <4>2, <4>3
    <3>6. PICK spare : spare = {b \in Buffers : \A j \in DOMAIN pl : pl[j].buf # b}
      OBVIOUS
    <3>7. spare # {} /\ spare \in SUBSET Nat
      <4>1. \E b \in Buffers : \A j \in DOMAIN pl : pl[j].buf # b
        BY <1>1, <3>4, <3>5, SpareBuffer
      <4>2. Buffers \in SUBSET Nat
        BY DEF Buffers
      <4>3. QED  BY <3>6, <4>1, <4>2
    <3>8. m = Min(spare)
      BY <1>1, <2>1, <2>6, <3>6 DEF BufferFor, FreshBuffer
    <3>9. m \in spare
      BY <3>7, <3>8, MinIn
    <3>10. m \in Buffers /\ \A j \in DOMAIN pl : pl[j].buf # m
      BY <3>6, <3>9
    <3>11. /\ Stocked(pl2) /\ DOMAIN pl2 = DOMAIN pl \cup {Len(pl) + 1} /\ pl2[Len(pl) + 1] = used
           /\ \A j \in DOMAIN pl : pl2[j] = pl[j]
      <4>1. Builds(pl, used, pl2)
        BY <1>1, <1>5, <3>3, <3>4, <3>5, <3>10 DEF Builds
      <4>2. Stocked(pl2) /\ DOMAIN pl2 = DOMAIN pl \cup {Len(pl) + 1} /\ pl2[Len(pl) + 1] = used
        BY <4>1, SlotBuilt
      <4>3. \A j \in DOMAIN pl : pl2[j] = pl[j]
        <5>1. pl2 = Append(pl, used)
          BY <3>3
        <5>2. ASSUME NEW j \in DOMAIN pl  PROVE pl2[j] = pl[j]
          BY <1>4, <5>1
        <5>3. QED  BY <5>2
      <4>4. QED  BY <4>2, <4>3
    <3>12. \A j \in DOMAIN pl : pl[j].upto >= pl[j].upto
      BY <1>4
    <3>13. \A j \in DOMAIN pl2 : pl2[j].upto <= last
      BY <1>1, <1>5, <3>11
    <3>14. Turnover(pl, pl2, ran[r]["comm"], m, o, last)
      BY <1>5, <3>10, <3>11, <3>12, <3>13 DEF Turnover
    <3>15. QED  BY <3>3, <3>10, <3>11, <3>14
  <2>7. QED  BY <2>5, <2>6
<1>9. QED
  BY <1>7, <1>8

------------------------------------------------------------------------------
(* A host takes a step. *)

\* Rank r's host takes its next step, and none of the streams' state changes.
Moves(r) ==
    /\ pos[r] < Len(program) /\ pos' = [pos EXCEPT ![r] = @ + 1]
    /\ UNCHANGED <<program, ran, arrived, ticket, data>>

\* It gives add to its streams.
HostSubmits(r, add) ==
    /\ Moves(r) /\ add \in Logs
    /\ queue' \in [Ranks -> Logs] /\ Appends(queue[r], add, queue'[r])
    /\ \A t \in Ranks : t # r => queue'[t] = queue[t]

\* A host that takes a step is at the next one.
LEMMA MovesIs ==
    ASSUME IInv, NEW r \in Ranks, Moves(r)
    PROVE  /\ program' = program /\ ran' = ran /\ arrived' = arrived /\ ticket' = ticket
           /\ input' = input /\ staged' = staged /\ window' = window
           /\ pos'[r] = pos[r] + 1 /\ (\A t \in Ranks : t # r => pos'[t] = pos[t])
           /\ pos' \in [Ranks -> 0 .. Len(program)]
           /\ pos[r] + 1 \in DOMAIN program /\ pos[r] \in Nat
<1>1. pos \in [Ranks -> 0 .. Len(program)]
  BY DEF IInv, Typing
<1>2. Contract(program) /\ pos[r] \in Nat
  BY RankIs
<1>3. DOMAIN program = 1 .. Len(program) /\ Len(program) \in Nat
  BY <1>2, ProgramIs
<1>4. pos' = [pos EXCEPT ![r] = @ + 1] /\ pos[r] < Len(program)
  BY DEF Moves
<1>5. pos[r] + 1 \in 0 .. Len(program) /\ pos[r] + 1 \in DOMAIN program
  BY <1>2, <1>3, <1>4
<1>6. pos'[r] = pos[r] + 1 /\ \A t \in Ranks : t # r => pos'[t] = pos[t]
  BY <1>1, <1>4
<1>7. pos' \in [Ranks -> 0 .. Len(program)]
  BY <1>1, <1>4, <1>5
<1>8. QED
  BY <1>2, <1>5, <1>6, <1>7 DEF Moves, data

\* It submits to its own log only.
LEMMA SubmitsNext ==
    ASSUME IInv, NEW r \in Ranks, NEW add, HostSubmits(r, add), NEW L, NEW at, Fits(L, at, r),
           NEW M, M = [s \in Streams |-> L[s] \o add[s]]
    PROVE  Submits(L, r, program, pos[r], at, queue[r], ran[r], add, M)
<1>1. Moves(r) /\ add \in Logs
  BY DEF HostSubmits
<1>2. pos[r] + 1 \in DOMAIN program
  BY <1>1, MovesIs
<1>3. Going(L, r, program, pos[r], at, queue[r], ran[r])
  BY RankIs
<1>4. QED
  BY <1>1, <1>2, <1>3 DEF Submits

\* What it has noted of its calls, lent windows and slots.
Books(r, L, add, M, at, at2) ==
    /\ HostSubmits(r, add) /\ M = [s \in Streams |-> L[s] \o add[s]]
    /\ Told(M, r, program, pos[r] + 1, at2) /\ Places1(program, pos[r], at, at2)
    /\ InTurns(L, add, program[pos[r] + 1])
    /\ Transfers(program, pos[r] + 1) =>
          /\ at2[pos[r] + 1].near \in Nat
          /\ at2[pos[r] + 1].near > Len(L[Lane(program[pos[r] + 1])])
          /\ at2[pos[r] + 1].near = Len(L[Lane(program[pos[r] + 1])]) + Ahead(program[pos[r] + 1])
          /\ at2[pos[r] + 1].far = Len(L["xfer"])
    /\ lends' = [t \in Ranks |-> LentBy(program', pos'[t])]
    /\ result' \in [Ranks -> [Calls -> [from : Places, async : BOOLEAN, at : Nat]]]
    /\ \A t \in Ranks : t # r => result'[t] = result[t] /\ pool'[t] = pool[t]
    /\ Notes(program, pos[r], at2, result[r], result'[r])
    /\ pool' \in [Ranks -> Seq(Slots)] /\ Stocked(pool'[r])
    /\ Released(M, program, pos[r] + 1, at2, ran[r], pool'[r])
    /\ Restaged(M, program, pos[r] + 1, at2, ran[r])
    /\ Reading(M, program, pos[r] + 1, at2) /\ StagedInTurn(M)
    /\ Drained(program', pos', queue')

\* The log is longer, and what was placed in it stays where it is.
Lengthened(L, at, r) ==
    \E M, at2, add :
        /\ Fits(M, at2, r)' /\ Grown(L, M) /\ Places1(program, pos[r], at, at2)
        /\ Added(L, add, M) /\ InTurns(L, add, program[pos[r] + 1])
        /\ Transfers(program, pos[r] + 1) =>
              /\ at2[pos[r] + 1].near \in Nat
              /\ at2[pos[r] + 1].near > Len(L[Lane(program[pos[r] + 1])])
              /\ at2[pos[r] + 1].near = Len(L[Lane(program[pos[r] + 1])]) + Ahead(program[pos[r] + 1])
              /\ at2[pos[r] + 1].far = Len(L["xfer"])

\* A step of a host keeps the invariant when it does for its own rank.
LEMMA HostKeeps ==
    ASSUME IInv, NEW r \in Ranks, NEW L, NEW at, Fits(L, at, r),
           NEW add, NEW M, NEW at2, Books(r, L, add, M, at, at2)
    PROVE  IInv' /\ Lengthened(L, at, r) /\ OthersStill(r)
<1>1. HostSubmits(r, add) /\ Moves(r) /\ M = [s \in Streams |-> L[s] \o add[s]]
  BY DEF Books, HostSubmits
<1>2. /\ program' = program /\ ran' = ran /\ arrived' = arrived /\ ticket' = ticket
      /\ input' = input /\ staged' = staged /\ window' = window
      /\ pos'[r] = pos[r] + 1 /\ (\A t \in Ranks : t # r => pos'[t] = pos[t])
      /\ pos' \in [Ranks -> 0 .. Len(program)]
      /\ pos[r] + 1 \in DOMAIN program /\ pos[r] \in Nat
  BY <1>1, MovesIs
<1>3. Typing'
  <2>1. Typing
    BY DEF IInv
  <2>2. queue' \in [Ranks -> Logs]
    BY <1>1 DEF HostSubmits
  <2>3. QED  BY <1>2, <2>1, <2>2 DEF Typing, Books
<1>4. Drained(program, pos, queue)'
  BY DEF Books
<1>5. OthersStill(r)
  <2>1. ASSUME NEW t \in Ranks, t # r, NEW K, NEW ak, Fits(K, ak, t)  PROVE Fits(K, ak, t)'
    <3>1. Untouched(t)
      BY <1>1, <1>2, <2>1 DEF Untouched, Books, HostSubmits
    <3>2. QED  BY <2>1, <3>1, OthersFit
  <2>2. QED  BY <2>1 DEF OthersStill
<1>6. Fits(M, at2, r)' /\ Grown(L, M) /\ Added(L, add, M)
  <2>1. PICK p, k, q, n, pl, res, tk, arr : /\ p = program /\ k = pos[r] /\ q = queue[r] /\ n = ran[r] /\ pl = pool[r]
                                            /\ res = result[r] /\ tk = ticket[r] /\ arr = ArrivedAt(r)
    OBVIOUS
  <2>2. PICK q2, pl2, res2 : q2 = queue'[r] /\ pl2 = pool'[r] /\ res2 = result'[r]
    OBVIOUS
  <2>3. Fine(L, at, r, p, k, q, n, pl, res, tk, arr) /\ arr \in [Windows -> Nat]
    BY <2>1, RankIs DEF Fits
  <2>4. Submits(L, r, p, k, at, q, n, add, M)
    BY <1>1, <2>1, SubmitsNext
  <2>5. Appends(q, add, q2)
    BY <1>1, <2>1, <2>2 DEF HostSubmits
  <2>6. Told(M, r, p, k + 1, at2) /\ Places1(p, k, at, at2)
    BY <2>1 DEF Books
  <2>7. PICK near \in Nat : Transfers(p, k + 1) => at2[k + 1].near = near /\ near > Len(L[Lane(p[k + 1])])
    <3>1. CASE Transfers(p, k + 1)
      BY <2>1, <3>1 DEF Books
    <3>2. CASE ~ Transfers(p, k + 1)
      BY <3>2
    <3>3. QED  BY <3>1, <3>2
  <2>8. Noted(p, k + 1, at2, res2)
    <3>1. Noted(p, k, at, res) /\ Notes(p, k, at2, res, res2)
      BY <2>1, <2>2, <2>3 DEF Fine, Books
    <3>2. Contract(p) /\ k \in Nat /\ k + 1 \in DOMAIN p
      BY <2>4, SubmitsIs
    <3>3. QED  BY <2>6, <3>1, <3>2, NotedGrows
  <2>9. /\ Stocked(pl2) /\ Released(M, p, k + 1, at2, n, pl2) /\ Restaged(M, p, k + 1, at2, n)
        /\ Reading(M, p, k + 1, at2) /\ StagedInTurn(M)
    BY <2>1, <2>2 DEF Books
  <2>10. Fine(M, at2, r, p, k + 1, q2, n, pl2, res2, tk, arr)
    BY <2>3, <2>4, <2>5, <2>6, <2>7, <2>8, <2>9, HostFine
  <2>11. ArrivedAt(r)' = ArrivedAt(r)
    BY <1>2 DEF ArrivedAt
  <2>12. Fits(M, at2, r)'
    BY <1>2, <2>1, <2>2, <2>10, <2>11 DEF Fits
  <2>13. QED  BY <2>4, <2>12, SubmitsIs
<1>7. \A t \in Ranks : \E K, ak : Fits(K, ak, t)'
  BY <1>5, <1>6, AllFit
<1>8. Lengthened(L, at, r)
  BY <1>6 DEF Lengthened, Books
<1>9. QED
  BY <1>3, <1>4, <1>5, <1>7, <1>8 DEF IInv

------------------------------------------------------------------------------
(* What the steps of a program leave of the end of the group. *)

\* No meeting without a drain before it.
LEMMA DrainFirst ==
    ASSUME NEW p, Contract(p), NEW m \in DOMAIN p, p[m].do = "meet"
    PROVE  \E i \in 1 .. m - 1 : p[i].do = "drain"
BY DEF Contract

\* A call or a use is before every drain and meeting, of any rank.
LEMMA NotYetDrained ==
    ASSUME IInv, NEW r \in Ranks, Moves(r), program[pos[r] + 1].do \notin {"meet", "destroy"}
    PROVE  /\ \A d \in 1 .. pos[r] : program[d].do # "drain"
           /\ \A t \in Ranks : \A m \in 1 .. pos[t] : program[m].do # "meet"
<1>1. Contract(program) /\ pos[r] \in Nat /\ pos[r] + 1 \in DOMAIN program /\ Drained(program, pos, queue)
  BY RankIs, MovesIs DEF IInv
<1>2. DOMAIN program = 1 .. Len(program) /\ Len(program) \in Nat
  BY <1>1, ProgramIs
<1>3. ASSUME NEW d \in 1 .. pos[r], program[d].do = "drain"  PROVE FALSE
  <2>1. d \in DOMAIN program /\ d < pos[r] + 1
    BY <1>1, <1>2
  <2>2. program[pos[r] + 1].do \in {"meet", "destroy"}
    BY <1>1, <1>3, <2>1 DEF Contract
  <2>3. QED  BY <2>2
<1>4. ASSUME NEW t \in Ranks, NEW m \in 1 .. pos[t], program[m].do = "meet"  PROVE FALSE
  <2>1. pos[t] \in Nat /\ pos[t] <= Len(program)
    BY RankIs
  <2>2. m \in DOMAIN program
    BY <1>2, <2>1
  <2>3. PICK i \in 1 .. m - 1 : program[i].do = "drain"
    <3>1. \E i \in 1 .. m - 1 : program[i].do = "drain"
      BY <1>1, <1>4, <2>2, DrainFirst
    <3>2. QED  BY <3>1
  <2>4. pos[r] >= m - 1
    BY <1>1, <1>4 DEF Drained
  <2>5. i \in 1 .. pos[r]
    BY <1>1, <2>1, <2>4
  <2>6. QED  BY <1>3, <2>3, <2>5
<1>5. QED
  BY <1>3, <1>4

\* A step that submits comes before any drain.
LEMMA DrainedCall ==
    ASSUME IInv, NEW r \in Ranks, Moves(r), program[pos[r] + 1].do \notin {"drain", "meet", "destroy"},
           \A t \in Ranks : t # r => queue'[t] = queue[t]
    PROVE  Drained(program', pos', queue')
<1>1. /\ program' = program /\ pos'[r] = pos[r] + 1 /\ (\A t \in Ranks : t # r => pos'[t] = pos[t])
      /\ pos[r] \in Nat
  BY MovesIs
<1>2. /\ \A d \in 1 .. pos[r] : program[d].do # "drain"
      /\ \A t \in Ranks : \A m \in 1 .. pos[t] : program[m].do # "meet"
  BY NotYetDrained
<1>3. ASSUME NEW t \in Ranks, NEW d \in 1 .. pos'[t], program[d].do = "drain"  PROVE queue'[t]["comm"] = <<>>
  <2>1. t # r
    <3>1. ASSUME t = r  PROVE FALSE
      <4>1. d \in 1 .. pos[r] \/ d = pos[r] + 1
        BY <1>1, <3>1
      <4>2. QED  BY <1>2, <1>3, <4>1
    <3>2. QED  BY <3>1
  <2>2. queue'[t] = queue[t] /\ d \in 1 .. pos[t]
    BY <1>1, <2>1
  <2>3. Drained(program, pos, queue)
    BY DEF IInv
  <2>4. QED  BY <1>3, <2>2, <2>3 DEF Drained
<1>4. ASSUME NEW t \in Ranks, NEW m \in 1 .. pos'[t]  PROVE program[m].do # "meet"
  <2>1. CASE t # r
    BY <1>1, <1>2, <2>1
  <2>2. CASE t = r
    <3>1. m \in 1 .. pos[r] \/ m = pos[r] + 1
      BY <1>1, <2>2
    <3>2. QED  BY <1>2, <3>1
  <2>3. QED  BY <2>1, <2>2
<1>5. QED
  BY <1>1, <1>3, <1>4 DEF Drained

\* The parts of destroy leave the streams as empty as they found them.
LEMMA DrainedRest ==
    ASSUME IInv, NEW r \in Ranks, Moves(r), queue' = queue,
           program[pos[r] + 1].do = "drain" => DrainComm(r),
           program[pos[r] + 1].do = "meet" => Met(r)
    PROVE  Drained(program', pos', queue')
<1>1. /\ program' = program /\ pos'[r] = pos[r] + 1 /\ (\A t \in Ranks : t # r => pos'[t] = pos[t])
      /\ pos[r] \in Nat
  BY MovesIs
<1>2. Drained(program, pos, queue)
  BY DEF IInv
<1>3. ASSUME NEW t \in Ranks, NEW d \in 1 .. pos'[t]  PROVE d \in 1 .. pos[t] \/ (t = r /\ d = pos[r] + 1)
  BY <1>1
<1>4. ASSUME NEW t \in Ranks, NEW d \in 1 .. pos'[t], program[d].do = "drain"  PROVE queue[t]["comm"] = <<>>
  <2>1. CASE d \in 1 .. pos[t]
    BY <1>2, <1>4, <2>1 DEF Drained
  <2>2. CASE t = r /\ d = pos[r] + 1
    BY <1>4, <2>2 DEF DrainComm
  <2>3. QED  BY <1>3, <2>1, <2>2
<1>5. ASSUME NEW t \in Ranks, NEW m \in 1 .. pos'[t], program[m].do = "meet", NEW u \in Ranks
      PROVE  pos'[u] >= m - 1 /\ queue[u]["caller"] = <<>>
  <2>1. pos[u] >= m - 1 /\ queue[u]["caller"] = <<>>
    <3>1. CASE m \in 1 .. pos[t]
      BY <1>2, <1>5, <3>1 DEF Drained
    <3>2. CASE t = r /\ m = pos[r] + 1
      BY <1>1, <1>5, <3>2 DEF Met
    <3>3. QED  BY <1>3, <3>1, <3>2
  <2>2. pos'[u] >= pos[u] /\ pos[u] \in Nat /\ pos'[u] \in Nat
    <3>1. pos[u] \in Nat
      BY RankIs
    <3>2. QED  BY <1>1, <3>1
  <2>3. m \in Nat
    BY <1>1, <1>3, <1>5
  <2>4. QED  BY <2>1, <2>2, <2>3
<1>6. QED
  BY <1>1, <1>4, <1>5 DEF Drained

------------------------------------------------------------------------------
(* What a step submits, in terms of the log. *)

\* An event recorded now is at the end of the log.
LEMMA MarkIs ==
    ASSUME IInv, NEW r \in Ranks, NEW L, NEW at, Fits(L, at, r), NEW s \in Streams
    PROVE  Mark(r, s) = Len(L[s]) /\ Len(L[s]) \in Nat
<1>1. Going(L, r, program, pos[r], at, queue[r], ran[r])
  BY RankIs
<1>2. L \in Logs /\ queue[r] \in Logs /\ Leftover(L, queue[r], ran[r])
  BY <1>1 DEF Going
<1>3. QED
  BY <1>2, LeftoverIs DEF Mark

\* Submit appends to the log.
LEMMA SubmitIs ==
    ASSUME IInv, NEW r \in Ranks, Moves(r), NEW a \in Seq(Ops), NEW b \in Seq(Ops), NEW c \in Seq(Ops),
           Submit(r, a, b, c)
    PROVE  \E add : HostSubmits(r, add) /\ add["caller"] = a /\ add["comm"] = b /\ add["xfer"] = c
<1>1. PICK add : add = [caller |-> a, comm |-> b, xfer |-> c]
  OBVIOUS
<1>2. add["caller"] = a /\ add["comm"] = b /\ add["xfer"] = c /\ add \in [Streams -> Seq(Ops)]
  BY <1>1 DEF Streams
<1>3. queue \in [Ranks -> Logs]
  BY DEF IInv, Typing
<1>4. PICK q : q = queue[r]
  OBVIOUS
<1>5. q["caller"] \in Seq(Ops) /\ q["comm"] \in Seq(Ops) /\ q["xfer"] \in Seq(Ops)
  BY <1>3, <1>4 DEF Logs, Streams
<1>6. PICK q2 : q2 = [caller |-> q["caller"] \o a, comm |-> q["comm"] \o b, xfer |-> q["xfer"] \o c]
  OBVIOUS
<1>7. queue' = [queue EXCEPT ![r] = q2]
  BY <1>3, <1>4, <1>6 DEF Submit
<1>8. q2["caller"] = q["caller"] \o a /\ q2["comm"] = q["comm"] \o b /\ q2["xfer"] = q["xfer"] \o c
  BY <1>6
<1>9. q2 \in Logs
  <2>1. q["caller"] \o a \in Seq(Ops) /\ q["comm"] \o b \in Seq(Ops) /\ q["xfer"] \o c \in Seq(Ops)
    BY <1>5
  <2>2. PICK x, y, z : x = q["caller"] \o a /\ y = q["comm"] \o b /\ z = q["xfer"] \o c
    OBVIOUS
  <2>3. x \in Seq(Ops) /\ y \in Seq(Ops) /\ z \in Seq(Ops) /\ q2 = [caller |-> x, comm |-> y, xfer |-> z]
    BY <1>6, <2>1, <2>2
  <2>4. q2 \in [Streams -> Seq(Ops)]
    BY ONLY <2>3 DEF Streams
  <2>5. QED  BY <2>4 DEF Logs
<1>10. /\ queue' \in [Ranks -> Logs] /\ queue'[r] = q2
       /\ \A t \in Ranks : t # r => queue'[t] = queue[t]
  BY <1>3, <1>7, <1>9
<1>11. Appends(q, add, q2)
  BY <1>2, <1>8 DEF Appends, Streams
<1>12. HostSubmits(r, add)
  BY <1>2, <1>4, <1>10, <1>11 DEF HostSubmits, Logs
<1>13. QED
  BY <1>2, <1>12

\* A step without operations leaves the log as it is.
LEMMA SubmitsNothing ==
    ASSUME IInv, NEW r \in Ranks, Moves(r), queue' = queue
    PROVE  \E add : HostSubmits(r, add) /\ \A s \in Streams : add[s] = <<>>
<1>1. PICK none : none = <<>>
  OBVIOUS
<1>2. PICK add : add = [s \in Streams |-> none]
  OBVIOUS
<1>3. queue \in [Ranks -> Logs]
  BY DEF IInv, Typing
<1>4. none \in Seq(Ops) /\ add \in Logs /\ \A s \in Streams : add[s] = none
  BY <1>1, <1>2 DEF Logs
<1>5. ASSUME NEW s \in Streams  PROVE queue[r][s] = queue[r][s] \o add[s]
  <2>1. queue[r][s] \in Seq(Ops)
    BY <1>3 DEF Logs
  <2>2. queue[r][s] = queue[r][s] \o none
    BY <1>1, <2>1
  <2>3. QED  BY <1>4, <2>2
<1>6. Appends(queue[r], add, queue'[r])
  BY <1>5 DEF Appends
<1>7. HostSubmits(r, add)
  BY <1>3, <1>4, <1>6 DEF HostSubmits
<1>8. QED
  BY <1>1, <1>4, <1>7

\* The rotation counts the lent calls.
LEMMA LentByGrows ==
    ASSUME NEW p, NEW k \in Nat
    PROVE  /\ LentBy(p, k) \in Nat
           /\ LentBy(p, k + 1) = LentBy(p, k) + (IF p[k + 1].do = "call" /\ p[k + 1].dest = "lent" THEN 1 ELSE 0)
<1>1. PICK A, B : /\ A = {j \in 1 .. k : p[j].do = "call" /\ p[j].dest = "lent"}
                  /\ B = {j \in 1 .. k + 1 : p[j].do = "call" /\ p[j].dest = "lent"}
  OBVIOUS
<1>2. IsFiniteSet(A) /\ Cardinality(A) \in Nat
  <2>1. IsFiniteSet(1 .. k) /\ A \subseteq 1 .. k
    BY <1>1, FS_Interval
  <2>2. QED  BY <2>1, FS_Subset, FS_CardinalityType
<1>3. CASE p[k + 1].do = "call" /\ p[k + 1].dest = "lent"
  <2>1. B = A \cup {k + 1} /\ k + 1 \notin A
    BY <1>1, <1>3
  <2>2. Cardinality(B) = Cardinality(A) + 1
    BY <1>2, <2>1, FS_AddElement
  <2>3. QED  BY <1>1, <1>2, <1>3, <2>2 DEF LentBy
<1>4. CASE ~ (p[k + 1].do = "call" /\ p[k + 1].dest = "lent")
  <2>1. B = A
    BY <1>1, <1>4
  <2>2. LentBy(p, k) = Cardinality(A) /\ LentBy(p, k + 1) = Cardinality(A)
    BY <1>1, <2>1 DEF LentBy
  <2>3. PICK card : card = Cardinality(A)
    OBVIOUS
  <2>4. card \in Nat /\ card = card + 0
    BY <1>2, <2>3
  <2>5. QED  BY <1>4, <2>2, <2>3, <2>4
<1>5. QED
  BY <1>3, <1>4

\* The rotation counter counts the lent calls of the program.
LEMMA LendsAre ==
    ASSUME IInv, NEW r \in Ranks, Moves(r)
    PROVE  /\ lends[r] = LentBy(program, pos[r]) /\ lends[r] \in Nat
           /\ \A up \in Nat : /\ up = IF program[pos[r] + 1].do = "call" /\ program[pos[r] + 1].dest = "lent" THEN 1 ELSE 0
                              /\ lends' = [lends EXCEPT ![r] = @ + up]
                              => lends' = [t \in Ranks |-> LentBy(program', pos'[t])]
<1>1. lends = [t \in Ranks |-> LentBy(program, pos[t])]
  BY DEF IInv, Typing
<1>2. /\ program' = program /\ pos'[r] = pos[r] + 1 /\ (\A t \in Ranks : t # r => pos'[t] = pos[t])
      /\ pos[r] \in Nat
  BY MovesIs
<1>3. lends[r] = LentBy(program, pos[r])
  BY <1>1
<1>4. PICK p, k : p = program /\ k = pos[r]
  OBVIOUS
<1>5. /\ LentBy(p, k) \in Nat
      /\ LentBy(p, k + 1) = LentBy(p, k) + (IF p[k + 1].do = "call" /\ p[k + 1].dest = "lent" THEN 1 ELSE 0)
  BY <1>2, <1>4, LentByGrows
<1>6. ASSUME NEW up \in Nat, up = IF p[k + 1].do = "call" /\ p[k + 1].dest = "lent" THEN 1 ELSE 0,
             lends' = [lends EXCEPT ![r] = @ + up]
      PROVE  lends' = [t \in Ranks |-> LentBy(program', pos'[t])]
  <2>1. lends'[r] = LentBy(program', pos'[r])
    BY <1>1, <1>2, <1>3, <1>4, <1>5, <1>6
  <2>2. \A t \in Ranks : lends'[t] = LentBy(program', pos'[t])
    <3>1. ASSUME NEW t \in Ranks, t # r  PROVE lends'[t] = LentBy(program', pos'[t])
      BY <1>1, <1>2, <1>6, <3>1
    <3>2. QED  BY <2>1, <3>1
  <2>3. DOMAIN lends' = Ranks /\ lends' = [t \in DOMAIN lends' |-> lends'[t]]
    BY <1>1, <1>6
  <2>4. QED  BY <2>2, <2>3
<1>7. QED
  BY <1>3, <1>4, <1>5, <1>6

\* The window a call asks for is the one the program says.
LEMMA WindowIs ==
    ASSUME IInv, NEW r \in Ranks, Moves(r), Transfers(program, pos[r] + 1)
    PROVE  /\ WindowFor(r, program[pos[r] + 1]) = Filled(program, pos[r] + 1)
           /\ Filled(program, pos[r] + 1) \in Windows
<1>1. Contract(program) /\ pos[r] \in Nat /\ pos[r] + 1 \in DOMAIN program
  BY RankIs, MovesIs
<1>2. PICK p, k : p = program /\ k = pos[r]
  OBVIOUS
<1>3. Filled(p, k + 1) \in Windows
  BY <1>1, <1>2, FilledIs
<1>4. lends[r] % LentSlots = LentSlot(p, k + 1)
  <2>1. lends[r] = LentBy(p, k) /\ (k + 1) - 1 = k
    BY <1>1, <1>2, LendsAre
  <2>2. QED  BY <2>1 DEF LentBy, LentSlot
<1>5. WindowFor(r, p[k + 1]) = Filled(p, k + 1)
  <2>1. p[k + 1].dest # "refused"
    BY <1>2 DEF Transfers
  <2>2. QED  BY <1>4, <2>1 DEF WindowFor, Filled
<1>6. QED
  BY <1>2, <1>3, <1>5

\* A step that is no lent call leaves the counter, ...
LEMMA LendsStay ==
    ASSUME IInv, NEW r \in Ranks, Moves(r), lends' = lends,
           ~ (program[pos[r] + 1].do = "call" /\ program[pos[r] + 1].dest = "lent")
    PROVE  lends' = [t \in Ranks |-> LentBy(program', pos'[t])]
<1>1. lends = [t \in Ranks |-> LentBy(program, pos[t])] /\ lends[r] \in Nat
  BY LendsAre DEF IInv, Typing
<1>2. lends' = [lends EXCEPT ![r] = @ + 0]
  BY <1>1
<1>3. QED
  BY <1>2, LendsAre

\* ... a lent call advances it.
LEMMA LendsCount ==
    ASSUME IInv, NEW r \in Ranks, Moves(r), program[pos[r] + 1].do = "call",
           lends' = [lends EXCEPT ![r] = @ + (IF program[pos[r] + 1].dest = "lent" THEN 1 ELSE 0)]
    PROVE  lends' = [t \in Ranks |-> LentBy(program', pos'[t])]
<1>1. PICK up : up = IF program[pos[r] + 1].dest = "lent" THEN 1 ELSE 0
  OBVIOUS
<1>2. up \in Nat
  BY <1>1
<1>3. QED
  BY <1>1, <1>2, LendsAre

\* Books that stay as they are.
Unbooked(r) ==
    /\ lends' = lends /\ pool' = pool /\ result' = result
    /\ program[pos[r] + 1].do # "call"

\* The caller's stream stays in turn.
LEMMA TurnsKept ==
    ASSUME IInv, NEW r \in Ranks, NEW L, NEW at, Fits(L, at, r), NEW add, HostSubmits(r, add),
           NEW M, M = [s \in Streams |-> L[s] \o add[s]], NEW at2, Places1(program, pos[r], at, at2),
           CallerAdds(L, add, M, program, pos[r], at2)
    PROVE  Reading(M, program, pos[r] + 1, at2) /\ StagedInTurn(M)
<1>1. PICK p, k, q, n : p = program /\ k = pos[r] /\ q = queue[r] /\ n = ran[r]
  OBVIOUS
<1>2. Submits(L, r, p, k, at, q, n, add, M)
  BY <1>1, SubmitsNext
<1>3. Reading(L, p, k, at) /\ StagedInTurn(L)
  BY <1>1 DEF Fits, Fine
<1>4. Places1(p, k, at, at2) /\ CallerAdds(L, add, M, p, k, at2)
  BY <1>1
<1>5. Reading(M, p, k + 1, at2) /\ StagedInTurn(M)
  BY <1>2, <1>3, <1>4, CallerGrows
<1>6. QED
  BY <1>1, <1>5

\* A step that transfers and stages nothing.
LEMMA QuietKeeps ==
    ASSUME IInv, NEW r \in Ranks, NEW L, NEW at, Fits(L, at, r), NEW add, HostSubmits(r, add), Unbooked(r),
           NEW M, M = [s \in Streams |-> L[s] \o add[s]], QuietStep(L, add, M, program, pos[r], at),
           \A j \in 1 .. Len(add["caller"]) : add["caller"][j].op # "stage",
           CallerAdds(L, add, M, program, pos[r], at), InTurns(L, add, program[pos[r] + 1]),
           Drained(program', pos', queue')
    PROVE  IInv' /\ Lengthened(L, at, r) /\ OthersStill(r)
<1>1. Moves(r)
  BY DEF HostSubmits
<1>2. PICK p, k, q, n, pl : p = program /\ k = pos[r] /\ q = queue[r] /\ n = ran[r] /\ pl = pool[r]
  OBVIOUS
<1>3. Submits(L, r, p, k, at, q, n, add, M)
  BY <1>2, SubmitsNext
<1>4. Contract(p) /\ k \in Nat /\ k + 1 \in DOMAIN p /\ Told(L, r, p, k, at) /\ Added(L, add, M)
      /\ Going(L, r, p, k, at, q, n)
  BY <1>3, SubmitsIs DEF Submits
<1>5. Told(M, r, p, k + 1, at)
  BY <1>2, <1>4, QuietTold
<1>6. Places1(p, k, at, at)
  BY DEF Places1
<1>7. ~ Transfers(p, k + 1)
  BY <1>2 DEF QuietStep
<1>8. Stocked(pl) /\ Released(L, p, k, at, n, pl) /\ Restaged(L, p, k, at, n) /\ pl \in Seq(Slots)
  BY <1>2 DEF Fits, Fine, Stocked
<1>9. Released(M, p, k + 1, at, n, pl) /\ Restaged(M, p, k + 1, at, n)
  BY <1>4, <1>6, <1>7, <1>8, PoolGrows
<1>10. Notes(p, k, at, result[r], result'[r])
  BY <1>7 DEF Notes, Unbooked
<1>11. lends' = [t \in Ranks |-> LentBy(program', pos'[t])]
  BY <1>1, LendsStay DEF Unbooked
<1>12. /\ result' \in [Ranks -> [Calls -> [from : Places, async : BOOLEAN, at : Nat]]]
       /\ pool' \in [Ranks -> Seq(Slots)]
       /\ \A t \in Ranks : t # r => result'[t] = result[t] /\ pool'[t] = pool[t]
  BY DEF Unbooked, IInv, Typing
<1>13. Reading(M, p, k + 1, at) /\ StagedInTurn(M)
  BY <1>2, <1>6, TurnsKept
<1>14. Books(r, L, add, M, at, at)
  BY <1>2, <1>5, <1>6, <1>7, <1>8, <1>9, <1>10, <1>11, <1>12, <1>13 DEF Books, Unbooked
<1>15. QED
  BY <1>14, HostKeeps

------------------------------------------------------------------------------
(* The steps of a host that transfer nothing. *)

\* The wait of the timed call and the parts of destroy.
LEMMA RestKeeps ==
    ASSUME IInv, NEW r \in Ranks, NEW L, NEW at, Fits(L, at, r), Moves(r),
           program[pos[r] + 1].do # "use", Unbooked(r), queue' = queue,
           program[pos[r] + 1].do = "drain" => DrainComm(r),
           program[pos[r] + 1].do = "meet" => Met(r)
    PROVE  IInv' /\ Lengthened(L, at, r) /\ OthersStill(r)
<1>1. Fits(L, at, r)
  OBVIOUS
<1>2. PICK add : HostSubmits(r, add) /\ \A s \in Streams : add[s] = <<>>
  BY SubmitsNothing
<1>3. PICK M : M = [s \in Streams |-> L[s] \o add[s]]
  OBVIOUS
<1>4. Submits(L, r, program, pos[r], at, queue[r], ran[r], add, M)
  BY <1>1, <1>2, <1>3, SubmitsNext
<1>5. QuietStep(L, add, M, program, pos[r], at)
  <2>1. PICK p, k, q, n : p = program /\ k = pos[r] /\ q = queue[r] /\ n = ran[r]
    OBVIOUS
  <2>2. Submits(L, r, p, k, at, q, n, add, M) /\ p[k + 1].do \notin {"call", "use"}
    BY <1>4, <2>1 DEF Unbooked
  <2>3. QuietStep(L, add, M, p, k, at)
    BY <1>2, <2>2, EmptyAdds
  <2>4. QED  BY <2>1, <2>3
<1>6. \A j \in 1 .. Len(add["caller"]) : add["caller"][j].op # "stage"
  <2>1. add["caller"] = <<>>
    BY <1>2 DEF Streams
  <2>2. QED  BY <2>1
<1>7. CallerAdds(L, add, M, program, pos[r], at)
  <2>1. add["caller"] = <<>>
    BY <1>2 DEF Streams
  <2>2. ~ Transfers(program, pos[r] + 1)
    BY DEF Transfers, Unbooked
  <2>3. QED  BY <2>1, <2>2, EmptyTurns
<1>8. Drained(program', pos', queue')
  BY DrainedRest
<1>9. InTurns(L, add, program[pos[r] + 1])
  <2>1. add["caller"] = <<>> /\ add["comm"] = <<>> /\ add["xfer"] = <<>>
    BY <1>2 DEF Streams
  <2>2. Len(add["caller"]) <= 8 /\ \A j \in 1 .. Len(add["caller"]) : FALSE
    BY <2>1
  <2>3. L \in Logs /\ add \in Logs
    BY <1>4, SubmitsIs
  <2>4. PICK step : step = program[pos[r] + 1]
    OBVIOUS
  <2>5. InTurns(L, add, step)
    BY <2>1, <2>2, <2>3, OldInTurns
  <2>6. QED  BY <2>4, <2>5
<1>10. QED
  BY <1>1, <1>2, <1>3, <1>5, <1>6, <1>7, <1>8, <1>9, QuietKeeps

\* The operation that reads the result e of call c.
ReadOf(e, c) == IF e.async THEN After("comm", e.at, Op("read", e.from, c)) ELSE Op("read", e.from, c)

\* The read that a use submits.
LEMMA ReadOfIs ==
    ASSUME NEW c \in Calls, NEW e \in [from : Places, async : BOOLEAN, at : Nat]
    PROVE  /\ ReadOf(e, c) \in Ops /\ ReadOf(e, c).op = "read"
           /\ ReadOf(e, c).call = c /\ ReadOf(e, c).win = e.from
           /\ IF e.async THEN ReadOf(e, c).on = "comm" /\ ReadOf(e, c).upto = e.at ELSE ReadOf(e, c).upto = 0
<1>1. PICK w, d, o : w = e.from /\ d = e.at /\ o = Op("read", w, c)
  OBVIOUS
<1>2. w \in Places /\ d \in Nat /\ "comm" \in Streams
  BY <1>1 DEF Streams
<1>3. o \in Ops
  BY <1>1, <1>2, SomeOps
<1>4. o.op = "read" /\ o.upto = 0 /\ o.call = c /\ o.win = w
  BY <1>1 DEF Op
<1>5. /\ After("comm", d, o) \in Ops /\ After("comm", d, o).op = "read"
      /\ After("comm", d, o).call = c /\ After("comm", d, o).win = w
      /\ After("comm", d, o).on = "comm" /\ After("comm", d, o).upto = d
  BY <1>2, <1>3, <1>4, AfterIs
<1>6. ReadOf(e, c) = IF e.async THEN After("comm", d, o) ELSE o
  BY <1>1 DEF ReadOf
<1>7. QED
  BY <1>1, <1>3, <1>4, <1>5, <1>6

\* A use.
LEMMA UseKeeps ==
    ASSUME IInv, NEW r \in Ranks, NEW L, NEW at, Fits(L, at, r), Moves(r),
           program[pos[r] + 1].do = "use", Use(r, program[pos[r] + 1])
    PROVE  IInv' /\ Lengthened(L, at, r) /\ OthersStill(r)
<1>1. Fits(L, at, r)
  OBVIOUS
<1>2. PICK p, k, q, n : p = program /\ k = pos[r] /\ q = queue[r] /\ n = ran[r]
  OBVIOUS
<1>3. PICK c, res : c = p[k + 1].call /\ res = result[r]
  OBVIOUS
<1>4. PICK e : e = res[c]
  OBVIOUS
<1>5. c \in Calls /\ Contract(p) /\ k + 1 \in DOMAIN p
  BY <1>2, <1>3, RankIs, MovesIs, UseIs
<1>6. e \in [from : Places, async : BOOLEAN, at : Nat]
  BY <1>3, <1>4, <1>5 DEF IInv, Typing
<1>7. PICK o, none : o = ReadOf(e, c) /\ none = <<>>
  OBVIOUS
<1>8. /\ o \in Ops /\ o.op = "read" /\ o.call = c /\ o.win = e.from
      /\ IF e.async THEN o.on = "comm" /\ o.upto = e.at ELSE o.upto = 0
  BY <1>5, <1>6, <1>7, ReadOfIs, SMTT(60)
<1>9. Submit(r, <<o>>, none, none) /\ Unbooked(r)
  BY <1>2, <1>3, <1>4, <1>7 DEF Use, ReadOf, Unbooked
<1>10. PICK y : y = <<o>>
  OBVIOUS
<1>11. y \in Seq(Ops) /\ none \in Seq(Ops) /\ Len(y) = 1 /\ y[1] = o /\ Submit(r, y, none, none)
  BY <1>7, <1>8, <1>9, <1>10
<1>12. PICK add : HostSubmits(r, add) /\ add["caller"] = y /\ add["comm"] = none /\ add["xfer"] = none
  BY <1>11, SubmitIs
<1>13. PICK M : M = [s \in Streams |-> L[s] \o add[s]]
  OBVIOUS
<1>14. Submits(L, r, p, k, at, q, n, add, M)
  BY <1>1, <1>2, <1>12, <1>13, SubmitsNext
<1>15. Noted(p, k, at, res)
  BY <1>1, <1>2, <1>3 DEF Fits, Fine
<1>16. QuietStep(L, add, M, p, k, at)
  <2>1. e = res[p[k + 1].call] /\ p[k + 1].do = "use" /\ e.async \in BOOLEAN /\ e.at \in Nat
    BY <1>2, <1>3, <1>4, <1>6
  <2>2. Len(add["caller"]) = 1 /\ add["comm"] = <<>> /\ add["xfer"] = <<>> /\ o = add["caller"][1]
    BY <1>7, <1>11, <1>12
  <2>3. QED  BY <1>8, <1>14, <1>15, <2>1, <2>2, UseAdds
<1>17. \A j \in 1 .. Len(add["caller"]) : add["caller"][j].op # "stage"
  <2>1. ASSUME NEW j \in 1 .. Len(y)  PROVE y[j].op # "stage"
    <3>1. j = 1
      BY <1>11
    <3>2. QED  BY <1>8, <1>11, <3>1
  <2>2. QED  BY <1>12, <2>1
<1>18. CallerAdds(L, add, M, p, k, at)
  <2>1. Len(add["caller"]) = 1 /\ o = add["caller"][1] /\ o.op = "read" /\ o.call = p[k + 1].call /\ o.win = e.from
    BY <1>3, <1>8, <1>11, <1>12
  <2>2. e.async => o.on = "comm" /\ o.upto = e.at
    BY <1>8
  <2>3. e = res[p[k + 1].call] /\ p[k + 1].do = "use"
    BY <1>2, <1>3, <1>4
  <2>4. QED  BY <1>14, <1>15, <2>1, <2>2, <2>3, UseTurns
<1>19. Drained(program', pos', queue')
  <2>1. \A t \in Ranks : t # r => queue'[t] = queue[t]
    BY <1>12 DEF HostSubmits
  <2>2. QED  BY <2>1, DrainedCall
<1>20. InTurns(L, add, p[k + 1])
  <2>1. e = res[p[k + 1].call] /\ p[k + 1].do = "use"
    BY <1>2, <1>3, <1>4
  <2>2. Len(add["caller"]) = 1 /\ add["comm"] = <<>> /\ add["xfer"] = <<>> /\ o = add["caller"][1]
    BY <1>7, <1>11, <1>12
  <2>3. IF e.async THEN o.on = "comm" /\ o.upto = e.at ELSE o.upto = 0
    BY <1>8
  <2>4. QED  BY <1>14, <1>15, <2>1, <2>2, <2>3, UseInTurns
<1>21. QED
  BY <1>1, <1>2, <1>9, <1>12, <1>13, <1>16, <1>17, <1>18, <1>19, <1>20, QuietKeeps

------------------------------------------------------------------------------
(* Calls. *)

\* What is noted of a result.
LEMMA SetResultIs ==
    ASSUME IInv, NEW r \in Ranks, NEW step, step.call \in Calls, NEW w \in Windows,
           NEW async \in BOOLEAN, NEW d \in Nat, SetResult(r, step, w, async, d)
    PROVE  /\ result' \in [Ranks -> [Calls -> [from : Places, async : BOOLEAN, at : Nat]]]
           /\ \A t \in Ranks : t # r => result'[t] = result[t]
           /\ \A c \in Calls : c # step.call => result'[r][c] = result[r][c]
           /\ result'[r][step.call].from = IF step.dest = "fresh" THEN <<"output", step.call>> ELSE w
           /\ result'[r][step.call].async = async /\ result'[r][step.call].at = d
<1>1. result \in [Ranks -> [Calls -> [from : Places, async : BOOLEAN, at : Nat]]]
  BY DEF IInv, Typing
<1>2. PICK from : from = IF step.dest = "fresh" THEN <<"output", step.call>> ELSE w
  OBVIOUS
<1>3. PICK e : e = [from |-> from, async |-> async, at |-> d]
  OBVIOUS
<1>4. from \in Places
  BY <1>2 DEF Places
<1>5. /\ e \in [from : Places, async : BOOLEAN, at : Nat]
      /\ e.from = from /\ e.async = async /\ e.at = d
  BY <1>3, <1>4
<1>6. result' = [result EXCEPT ![r][step.call] = e]
  BY <1>2, <1>3 DEF SetResult
<1>7. result' = [result EXCEPT ![r] = [result[r] EXCEPT ![step.call] = e]]
  BY <1>1, <1>6
<1>8. PICK c1, g : c1 = step.call /\ g = [result[r] EXCEPT ![c1] = e]
  OBVIOUS
<1>9. result[r] \in [Calls -> [from : Places, async : BOOLEAN, at : Nat]]
  BY <1>1
<1>10. /\ g \in [Calls -> [from : Places, async : BOOLEAN, at : Nat]]
       /\ g[c1] = e /\ \A c \in Calls : c # c1 => g[c] = result[r][c]
  BY <1>5, <1>8, <1>9
<1>11. result' = [result EXCEPT ![r] = g]
  BY <1>7, <1>8
<1>12. /\ result' \in [Ranks -> [Calls -> [from : Places, async : BOOLEAN, at : Nat]]]
       /\ result'[r] = g /\ \A t \in Ranks : t # r => result'[t] = result[t]
  BY <1>1, <1>10, <1>11
<1>13. QED
  BY <1>2, <1>5, <1>8, <1>10, <1>12

\* A step that transfers: where its operations are, and what the log is now.
LEMMA TransferSpots ==
    ASSUME NEW L, NEW r, NEW p, NEW k, NEW at, NEW q, NEW n, NEW add, NEW M, Submits(L, r, p, k, at, q, n, add, M),
           NEW s, NEW m, NEW b, TransferStep(L, add, M, r, p, k, at, s, m, b)
    PROVE  \E at2 : /\ Told(M, r, p, k + 1, at2) /\ Places1(p, k, at, at2)
                    /\ at2[k + 1].near = Len(L[s]) + b /\ s = Lane(p[k + 1]) /\ at2[k + 1].far = Len(L["xfer"])
                    /\ at2[k + 1].near \in Nat /\ at2[k + 1].near > Len(L[s])
                    /\ s \in Streams /\ b \in {1, 2} /\ Transfers(p, k + 1)
<1>1. /\ Contract(p) /\ k \in Nat /\ k + 1 \in DOMAIN p /\ r \in Ranks /\ Told(L, r, p, k, at) /\ L \in Logs
      /\ \A i \in 1 .. k : i \in DOMAIN p /\ i < k + 1
  BY SubmitsIs
<1>2. PICK at2 : at2 = [at EXCEPT ![k + 1] = Spot(L, s, b)]
  OBVIOUS
<1>3. Told(M, r, p, k + 1, at2)
  BY <1>1, <1>2, TransferTold
<1>4. at \in [DOMAIN p -> Spots]
  BY <1>1 DEF Told
<1>5. at2[k + 1] = Spot(L, s, b) /\ \A i \in 1 .. k : at2[i] = at[i]
  BY <1>1, <1>2, <1>4
<1>6. s = Lane(p[k + 1]) /\ b \in {1, 2} /\ Transfers(p, k + 1)
  BY DEF TransferStep, AddsTransfer
<1>7. s \in Streams
  BY <1>6 DEF Lane, Streams
<1>8. Len(L[s]) \in Nat
  BY <1>1, <1>7, LogIs
<1>9. at2[k + 1].near = Len(L[s]) + b /\ at2[k + 1].far = Len(L["xfer"])
  BY <1>5 DEF Spot
<1>10. QED
  BY <1>3, <1>5, <1>6, <1>7, <1>8, <1>9 DEF Places1

\* The operations of a call's transfer, as the model has them.
LEMMA BlockOf ==
    ASSUME IInv, NEW r \in Ranks, NEW L, NEW at, Fits(L, at, r), NEW step, step.call \in Calls,
           NEW w \in Windows, NEW m \in {0} \cup Buffers, NEW z, z = OnStream(r, w, m, step.call) \o CopyOut(step, w),
           NEW s \in {"caller", "comm"}, NEW ready \in Nat, NEW f, f = Remote(r, s, ready, w, m, step.call)
    PROVE  /\ IsBlock(z, r, step, w, m, Len(L["xfer"]) + Copied(r))
           /\ OnStream(r, w, m, step.call) \in Seq(Ops) /\ CopyOut(step, w) \in Seq(Ops)
           /\ IsCopies(f, r, s, ready, step, w, m)
<1>1. PICK d, c : d = RemoteDone(r) /\ c = step.call
  OBVIOUS
<1>2. d = Len(L["xfer"]) + Copied(r) /\ d \in Nat
  <2>1. "xfer" \in Streams
    BY DEF Streams
  <2>2. Mark(r, "xfer") = Len(L["xfer"]) /\ Len(L["xfer"]) \in Nat
    BY <2>1, MarkIs
  <2>3. Copied(r) \in Nat
    BY CopiedIs
  <2>4. QED  BY <1>1, <2>2, <2>3 DEF RemoteDone, Copied
<1>3. z = <<Op("arrive", w, c), Op("leave", w, c), Push(r, w, m, c),
            After("xfer", d, Op("arrive", w, c)), Op("leave", w, c)>> \o CopyOut(step, w)
  BY <1>1 DEF OnStream
<1>4. IsBlock(z, r, step, w, m, d)
  BY <1>1, <1>2, <1>3, BlockIs
<1>5. IsCopies(f, r, s, ready, step, w, m)
  <2>1. s \in Streams
    BY DEF Streams
  <2>2. f = Copies(r, s, ready, w, m, step.call)
    BY DEF Remote
  <2>3. QED  BY <2>1, <2>2, CopiesAre
<1>6. c \in Calls /\ "xfer" \in Streams /\ {"arrive", "leave", "copyout"} \subseteq Names
  BY <1>1 DEF Streams, Names
<1>7. PICK a, l, o, u, x : /\ a = Op("arrive", w, c) /\ l = Op("leave", w, c) /\ o = Push(r, w, m, c)
                           /\ u = After("xfer", d, a) /\ x = Op("copyout", w, c)
  OBVIOUS
<1>8. a \in Ops /\ l \in Ops /\ o \in Ops /\ x \in Ops
  BY <1>6, <1>7, SomeOps
<1>9. u \in Ops
  <2>1. PICK s1 : s1 = "xfer"
    OBVIOUS
  <2>2. s1 \in Streams /\ After(s1, d, a) \in Ops
    BY <1>2, <1>6, <1>8, <2>1, AfterIs
  <2>3. QED  BY <1>7, <2>1, <2>2
<1>10. OnStream(r, w, m, step.call) = <<a, l, o, u, l>>
  BY <1>1, <1>7 DEF OnStream
<1>11. <<a, l, o, u, l>> \in Seq(Ops)
  BY <1>8, <1>9
<1>12. CopyOut(step, w) \in Seq(Ops)
  BY <1>1, <1>7, <1>8 DEF CopyOut
<1>13. QED
  BY <1>2, <1>4, <1>5, <1>10, <1>11, <1>12

\* A synchronous call.
LEMMA SyncKeeps ==
    ASSUME IInv, NEW r \in Ranks, NEW L, NEW at, Fits(L, at, r), Moves(r),
           program[pos[r] + 1].do = "call", ~ program[pos[r] + 1].async, SyncCall(r, program[pos[r] + 1])
    PROVE  IInv' /\ Lengthened(L, at, r) /\ OthersStill(r)
<1>1. Fits(L, at, r)
  OBVIOUS
<1>2. PICK p, k, q, n, pl : p = program /\ k = pos[r] /\ q = queue[r] /\ n = ran[r] /\ pl = pool[r]
  OBVIOUS
<1>3. PICK step, c, w, x, l : /\ step = p[k + 1] /\ c = step.call /\ w = WindowFor(r, step)
                              /\ x = Len(L["xfer"]) /\ l = Len(L["caller"])
  OBVIOUS
<1>4. Contract(p) /\ k + 1 \in DOMAIN p
  BY <1>2, RankIs, MovesIs
<1>5. c \in Calls /\ step.dest \in {"fresh", "own"} /\ step.do = "call" /\ ~ step.async
  BY <1>2, <1>3, <1>4, CallIs
<1>6. Transfers(p, k + 1)
  BY <1>3, <1>5 DEF Transfers
<1>7. w = Filled(p, k + 1) /\ w \in Windows
  BY <1>2, <1>3, <1>6, WindowIs
<1>8. Mark(r, "caller") = l /\ l \in Nat
  BY <1>1, <1>3, MarkIs DEF Streams
<1>9. PICK z, f : z = OnStream(r, w, 0, c) \o CopyOut(step, w) /\ f = Remote(r, "caller", l + 3, w, 0, c)
  OBVIOUS
<1>10. /\ IsBlock(z, r, step, w, 0, x + Copied(r)) /\ IsCopies(f, r, "caller", l + 3, step, w, 0)
       /\ OnStream(r, w, 0, c) \in Seq(Ops) /\ CopyOut(step, w) \in Seq(Ops)
  <2>1. PICK m, s, ready : m = 0 /\ s = "caller" /\ ready = l + 3
    OBVIOUS
  <2>2. m \in {0} \cup Buffers /\ s \in {"caller", "comm"} /\ ready \in Nat
    BY <1>8, <2>1
  <2>3. z = OnStream(r, w, m, step.call) \o CopyOut(step, w) /\ f = Remote(r, s, ready, w, m, step.call)
    BY <1>3, <1>9, <2>1
  <2>4. /\ IsBlock(z, r, step, w, m, Len(L["xfer"]) + Copied(r)) /\ IsCopies(f, r, s, ready, step, w, m)
        /\ OnStream(r, w, m, step.call) \in Seq(Ops) /\ CopyOut(step, w) \in Seq(Ops)
    BY <1>1, <1>3, <1>5, <1>7, <2>2, <2>3, BlockOf
  <2>5. QED  BY <1>3, <2>1, <2>4
<1>11. PICK y, none : y = <<Produce(c)>> \o z /\ none = <<>>
  OBVIOUS
<1>12. Produce(c) \in Ops /\ z \in Seq(Ops) /\ f \in Seq(Ops) /\ none \in Seq(Ops)
  BY <1>5, <1>10, <1>11, SomeOps DEF IsBlock, IsCopies
<1>13. Prepends(y, Produce(c), z)
  BY <1>11, <1>12 DEF Prepends
<1>14. /\ y \in Seq(Ops) /\ y[1] = Produce(c)
       /\ \A j \in 1 .. Len(y) : j = 1 \/ (j - 1 \in 1 .. Len(z) /\ y[j] = z[j - 1])
  BY <1>13, Prepended, SMTT(60)
<1>15. Submit(r, y, none, f)
  <2>1. PICK a, u, v : a = <<Produce(c)>> /\ u = OnStream(r, w, 0, c) /\ v = CopyOut(step, w)
    OBVIOUS
  <2>2. a \in Seq(Ops) /\ u \in Seq(Ops) /\ v \in Seq(Ops)
    BY <1>10, <1>12, <2>1
  <2>3. (a \o u) \o v = a \o (u \o v)
    BY <2>2, ConcatAssociative
  <2>4. y = (<<Produce(c)>> \o OnStream(r, w, 0, c)) \o CopyOut(step, w)
    BY <1>9, <1>11, <2>1, <2>3
  <2>5. QED  BY <1>2, <1>3, <1>8, <1>9, <1>11, <2>4, Zenon DEF SyncCall
<1>16. PICK add : HostSubmits(r, add) /\ add["caller"] = y /\ add["comm"] = none /\ add["xfer"] = f
  BY <1>12, <1>14, <1>15, SubmitIs
<1>17. PICK M : M = [s \in Streams |-> L[s] \o add[s]]
  OBVIOUS
<1>18. Submits(L, r, p, k, at, q, n, add, M)
  BY <1>1, <1>2, <1>16, <1>17, SubmitsNext
<1>19. TransferStep(L, add, M, r, p, k, at, "caller", 0, 2)
  <2>1. IsBlock(z, r, p[k + 1], Filled(p, k + 1), 0, x + Copied(r))
        /\ IsCopies(add["xfer"], r, "caller", l + 3, p[k + 1], Filled(p, k + 1), 0)
    BY <1>3, <1>7, <1>10, <1>16
  <2>2. add["caller"] = <<Produce(p[k + 1].call)>> \o z /\ add["comm"] = <<>>
    BY <1>3, <1>11, <1>16
  <2>3. Transfers(p, k + 1) /\ ~ p[k + 1].async
    BY <1>3, <1>5, <1>6
  <2>4. QED  BY <1>3, <1>18, <2>1, <2>2, <2>3, SyncAdds
<1>20. PICK at2 : /\ Told(M, r, p, k + 1, at2) /\ Places1(p, k, at, at2)
                  /\ at2[k + 1].near = Len(L["caller"]) + 2
                  /\ at2[k + 1].near \in Nat /\ at2[k + 1].near > Len(L[Lane(p[k + 1])])
                  /\ at2[k + 1].far = Len(L["xfer"])
  BY <1>18, <1>19, TransferSpots
<1>21. /\ Stocked(pl) /\ pl \in Seq(Slots) /\ Released(M, p, k + 1, at2, n, pl) /\ Restaged(M, p, k + 1, at2, n)
  <2>1. Stocked(pl) /\ pl \in Seq(Slots) /\ Released(L, p, k, at, n, pl) /\ Restaged(L, p, k, at, n)
    BY <1>1, <1>2 DEF Fits, Fine, Stocked
  <2>2. \A j \in 1 .. Len(add["caller"]) : add["caller"][j].op # "stage"
    <3>1. \A j \in 1 .. Len(z) : z[j].op \notin {"stage", "produce", "read"}
      BY <1>10, BlockOps
    <3>2. Produce(c).op = "produce"
      BY ProduceIs
    <3>3. \A j \in 1 .. Len(y) : y[j].op # "stage"
      BY <1>14, <3>1, <3>2
    <3>4. QED  BY <1>16, <3>3
  <2>3. Going(L, r, p, k, at, q, n) /\ Added(L, add, M) /\ ~ (Transfers(p, k + 1) /\ p[k + 1].async)
    BY <1>3, <1>5, <1>18, SubmitsIs DEF Submits
  <2>4. QED  BY <1>20, <2>1, <2>2, <2>3, PoolGrows
<1>22. /\ result' \in [Ranks -> [Calls -> [from : Places, async : BOOLEAN, at : Nat]]]
       /\ (\A t \in Ranks : t # r => result'[t] = result[t])
       /\ Notes(p, k, at2, result[r], result'[r])
  <2>1. PICK off, d : off = FALSE /\ d = 0
    OBVIOUS
  <2>2. SetResult(r, step, w, off, d) /\ off \in BOOLEAN /\ d \in Nat /\ step.call \in Calls
    BY <1>2, <1>3, <1>5, <2>1 DEF SyncCall
  <2>3. /\ result' \in [Ranks -> [Calls -> [from : Places, async : BOOLEAN, at : Nat]]]
        /\ (\A t \in Ranks : t # r => result'[t] = result[t])
        /\ (\A e \in Calls : e # step.call => result'[r][e] = result[r][e])
        /\ result'[r][step.call].from = (IF step.dest = "fresh" THEN <<"output", step.call>> ELSE w)
        /\ result'[r][step.call].async = off
    BY <1>7, <2>2, SetResultIs
  <2>4. QED  BY <1>3, <1>5, <1>7, <2>1, <2>3 DEF Notes
<1>23. lends' = [t \in Ranks |-> LentBy(program', pos'[t])]
  <2>1. lends' = lends
    BY DEF SyncCall
  <2>2. QED  BY <1>2, <1>3, <1>5, <2>1, LendsStay
<1>24. pool' = pool /\ pool \in [Ranks -> Seq(Slots)]
  BY DEF SyncCall, IInv, Typing
<1>25. Drained(program', pos', queue')
  <2>1. \A t \in Ranks : t # r => queue'[t] = queue[t]
    BY <1>16 DEF HostSubmits
  <2>2. QED  BY <2>1, DrainedCall
<1>26. CallerAdds(L, add, M, p, k, at2)
  <2>1. \A j \in 1 .. Len(z) : z[j].op \notin {"stage", "produce", "read"}
    BY <1>10, BlockOps
  <2>2. Produce(c).op = "produce"
    BY ProduceIs
  <2>3. \A j \in 1 .. Len(y) : y[j].op \notin {"read", "stage"}
    BY <1>14, <2>1, <2>2
  <2>4. Lane(p[k + 1]) = "caller" /\ L \in Logs
    BY <1>3, <1>5, <1>18, SubmitsIs DEF Lane
  <2>5. QED  BY <1>16, <1>20, <2>3, <2>4, SyncTurns
<1>27. Reading(M, p, k + 1, at2) /\ StagedInTurn(M)
  BY <1>1, <1>2, <1>16, <1>17, <1>20, <1>26, TurnsKept
<1>28. InTurns(L, add, p[k + 1]) /\ at2[k + 1].near = Len(L[Lane(p[k + 1])]) + Ahead(p[k + 1])
  <2>1. IsBlock(z, r, step, w, 0, x + Copied(r)) /\ IsCopies(add["xfer"], r, "caller", l + 3, step, w, 0)
    BY <1>10, <1>16
  <2>2. add["caller"] = <<Produce(step.call)>> \o z /\ add["comm"] = <<>>
    BY <1>3, <1>11, <1>16
  <2>3. L \in Logs /\ add \in Logs /\ l = Len(L["caller"]) /\ step.call \in Calls /\ step.do = "call" /\ ~ step.async
    BY <1>3, <1>5, <1>18, SubmitsIs
  <2>4. PICK d : d = x + Copied(r)
    OBVIOUS
  <2>5. IsBlock(z, r, step, w, 0, d)
    BY <2>1, <2>4
  <2>6. InTurns(L, add, step)
    BY <2>1, <2>2, <2>3, <2>5, SyncInTurns
  <2>7. Lane(step) = "caller" /\ Ahead(step) = 2
    BY <2>3 DEF Lane, Ahead
  <2>8. QED  BY <1>3, <1>20, <2>6, <2>7
<1>29. Books(r, L, add, M, at, at2)
  BY <1>2, <1>16, <1>17, <1>20, <1>21, <1>22, <1>23, <1>24, <1>25, <1>27, <1>28 DEF Books
<1>30. QED
  BY <1>1, <1>29, HostKeeps

\* Staging gives add to the streams: the copy o into the buffer m, and on the comm
\* stream z, behind it.  A wait is the last of the caller's where e is 1.
Staged(r, L, step, z, f, e, add, o, m) ==
    /\ HostSubmits(r, add) /\ add["xfer"] = f
    /\ WaitsFirst(add["comm"], z, Len(L["caller"]) + 2)
    /\ StagingOps(add["caller"], L, step, o, m, Len(L["comm"]) + Len(z))
    /\ Len(add["caller"]) = 2 + e
    /\ m = BufferFor(r, step.shape[r]) /\ m \in Buffers
    /\ Stocked(pool'[r])
    /\ Turnover(pool[r], pool'[r], ran[r]["comm"], m, o, Len(L["comm"]) + Len(z))
    /\ pool' \in [Ranks -> Seq(Slots)] /\ \A t \in Ranks : t # r => pool'[t] = pool[t]
    /\ lends' = [t \in Ranks |-> LentBy(program', pos'[t])]

\* stage finds a buffer.
LEMMA BufferIs ==
    ASSUME IInv, NEW r \in Ranks, NEW sh \in Nat, EvictionDone(r, sh)
    PROVE  BufferFor(r, sh) \in Buffers
<1>1. PICK L, at : Fits(L, at, r)
  BY DEF IInv
<1>2. PICK pl, k, m, last, copy : /\ pl = pool[r] /\ k = SlotFor(r, sh) /\ m = BufferFor(r, sh)
                                  /\ last = Len(L["comm"]) /\ copy = Nothing
  OBVIOUS
<1>3. PICK o, used : /\ o = IF AtBound(r, sh) THEN After("comm", pl[k].upto, copy) ELSE copy
                     /\ used = [shape |-> sh, buf |-> m, upto |-> last]
  OBVIOUS
<1>4. PICK pl2 : pl2 = IF k \in SlotsOf(r, sh) THEN [pl EXCEPT ![k] = used] ELSE Append(Kept(r, sh), used)
  OBVIOUS
<1>5. Stocked(pl) /\ Released(L, program, pos[r], at, ran[r], pl) /\ last \in Nat /\ ran[r]["comm"] \in Nat
  <2>1. "comm" \in Streams
    BY DEF Streams
  <2>2. Len(L["comm"]) \in Nat
    BY <1>1, <2>1, MarkIs
  <2>3. ran[r]["comm"] \in Nat
    BY <2>1, RankIs
  <2>4. QED  BY <1>1, <1>2, <2>2, <2>3 DEF Fits, Fine
<1>6. \A j \in DOMAIN pl : pl[j].upto <= last
  BY <1>2, <1>5 DEF Released
<1>7. copy \in Ops
  <2>1. copy.op = "nothing" /\ copy.win = <<"none", 0>> /\ copy.call = 0 /\ copy.to = 0 /\ copy.buf = 0
        /\ copy.on = "xfer" /\ copy.upto = 0
    BY <1>2 DEF Nothing, Op
  <2>2. 0 \in Ranks /\ 0 \in 0 .. MaxCalls
    BY ExchangeAssumption DEF Ranks
  <2>3. QED  BY <1>2, <2>2 DEF Nothing, Op, Ops, Names, Places, Streams
<1>8. Stages(r, sh, last, pl, k, m, pl2, copy, o)
  BY <1>2, <1>3, <1>4, <1>5, <1>6, <1>7 DEF Stages
<1>9. QED
  BY <1>2, <1>8, PoolTurns

\* What Staging does to the pool and what it submits.
LEMMA StagingIs ==
    ASSUME IInv, NEW r \in Ranks, Moves(r), NEW L, NEW at, Fits(L, at, r),
           NEW step, step = program[pos[r] + 1], step.do = "call",
           NEW z \in Seq(Ops), z # <<>>, NEW f \in Seq(Ops), NEW e, NEW behind,
           \/ e = 0 /\ behind = <<>>
           \/ e = 1 /\ behind = <<After("comm", Len(L["comm"]) + Len(z), Nothing)>>,
           Staging(r, step, z, f, behind)
    PROVE  \E add, o, m : Staged(r, L, step, z, f, e, add, o, m)
<1>1. PICK pl, sh, k, m, c, l, b : /\ pl = pool[r] /\ sh = step.shape[r] /\ k = SlotFor(r, sh) /\ m = BufferFor(r, sh)
                                   /\ c = step.call /\ l = Len(L["caller"]) /\ b = Len(L["comm"])
  OBVIOUS
<1>2. c \in Calls /\ sh \in Nat
  <2>1. Contract(program) /\ pos[r] + 1 \in DOMAIN program
    BY RankIs, MovesIs
  <2>2. step.call \in Calls /\ step.shape \in [Ranks -> Nat]
    BY <2>1, CallIs
  <2>3. QED  BY <1>1, <2>2
<1>3. Mark(r, "caller") = l /\ l \in Nat /\ Mark(r, "comm") = b /\ b \in Nat
  <2>1. "caller" \in Streams /\ "comm" \in Streams
    BY DEF Streams
  <2>2. QED  BY <1>1, <2>1, MarkIs
<1>4. PICK last : last = b + Len(z)
  OBVIOUS
<1>5. last \in Nat /\ b <= last /\ Len(z) \in Nat /\ Len(z) >= 1
  <2>1. Len(z) \in Nat /\ Len(z) >= 1
    OBVIOUS
  <2>2. QED  BY <1>3, <1>4, <2>1
<1>6. PICK copy : copy = [Op("stage", <<"input", 0>>, c) EXCEPT !.buf = m]
  OBVIOUS
<1>7. PICK o : o = IF AtBound(r, sh) THEN After("comm", pl[k].upto, copy) ELSE copy
  OBVIOUS
<1>8. PICK y, v, used : /\ y = <<Produce(c), o>> \o behind
                        /\ v = <<After("caller", l + 2, Head(z))>> \o Tail(z)
                        /\ used = [shape |-> sh, buf |-> m, upto |-> last]
  BY Zenon
<1>9. EvictionDone(r, sh) /\ Submit(r, y, v, f)
  BY <1>1, <1>3, <1>6, <1>7, <1>8, Zenon DEF Staging
<1>10. PICK pl2 : pl2 = IF k \in SlotsOf(r, sh) THEN [pl EXCEPT ![k] = used] ELSE Append(Kept(r, sh), used)
  BY Zenon
<1>11. pool' = [pool EXCEPT ![r] = pl2]
  BY <1>1, <1>3, <1>4, <1>8, <1>10, Zenon DEF Staging
<1>12. pool \in [Ranks -> Seq(Slots)] /\ ran[r]["comm"] \in Nat
  BY SMTT(60) DEF IInv, Typing, Streams
<1>13. Stocked(pl) /\ (\A j \in DOMAIN pl : pl[j].upto <= b /\ pl[j].upto \in Nat)
  <2>1. Stocked(pool[r]) /\ Released(L, program, pos[r], at, ran[r], pool[r])
    BY DEF Fits, Fine
  <2>2. \A j \in DOMAIN pl : pl[j].upto \in Nat
    BY <1>1, <2>1, SlotIs DEF Stocked
  <2>3. QED  BY <1>1, <2>1, <2>2 DEF Released
<1>14. m \in Buffers => copy \in Ops /\ copy.op = "stage" /\ copy.call = c /\ copy.buf = m /\ copy.upto = 0
  <2>1. copy.op = "stage" /\ copy.call = c /\ copy.buf = m /\ copy.upto = 0
    BY <1>6 DEF Op
  <2>2. m \in Buffers => copy \in Ops
    BY <1>2, <1>6, SomeOps
  <2>3. QED  BY <2>1, <2>2
<1>15. \A j \in DOMAIN pl : pl[j].upto <= last
  BY <1>3, <1>5, <1>13
<1>16. m \in Buffers
  BY <1>1, <1>2, <1>9, BufferIs, SMTT(60)
<1>17. Stages(r, sh, last, pl, k, m, pl2, copy, o)
  BY <1>1, <1>2, <1>5, <1>7, <1>8, <1>9, <1>10, <1>12, <1>13, <1>14, <1>15, <1>16, Zenon DEF Stages
<1>18. /\ Stocked(pl2) /\ Turnover(pl, pl2, ran[r]["comm"], m, o, last)
       /\ o = copy \/ \E j \in DOMAIN pl : o = After("comm", pl[j].upto, copy)
  BY <1>17, PoolTurns
<1>19. /\ o \in Ops /\ o.op = "stage" /\ o.call = c /\ o.buf = m
       /\ o.upto = 0 \/ (o.on = "comm" /\ o.upto <= b)
  <2>1. CASE o = copy
    BY <1>14, <1>16, <2>1
  <2>2. CASE \E j \in DOMAIN pl : o = After("comm", pl[j].upto, copy)
    <3>1. PICK j \in DOMAIN pl : o = After("comm", pl[j].upto, copy)
      BY <2>2
    <3>2. PICK u, s : u = pl[j].upto /\ s = "comm"
      OBVIOUS
    <3>3. u \in Nat /\ u <= b /\ s \in Streams
      BY <1>13, <3>2 DEF Streams
    <3>4. /\ After(s, u, copy) \in Ops /\ After(s, u, copy).op = "stage" /\ After(s, u, copy).call = c
          /\ After(s, u, copy).buf = m /\ After(s, u, copy).on = s /\ After(s, u, copy).upto = u
      BY <1>14, <1>16, <3>3, AfterIs
    <3>5. QED  BY <3>1, <3>2, <3>3, <3>4
  <2>3. QED  BY <1>18, <2>1, <2>2
<1>20. Produce(c) \in Ops /\ Nothing \in Ops
  BY <1>2, SomeOps
<1>21. /\ y \in Seq(Ops) /\ Len(y) = 2 + e /\ y[1] = Produce(c) /\ y[2] = o
       /\ (Len(y) = 2 \/ Len(y) = 3) /\ (Len(y) = 3 => y[3] = After("comm", last, Nothing))
  <2>1. PICK a, d : a = Produce(c) /\ d = After("comm", last, Nothing)
    OBVIOUS
  <2>2. a \in Ops /\ o \in Ops /\ d \in Ops
    BY <1>5, <1>19, <1>20, <2>1, WaitIs
  <2>3. CASE e = 0 /\ behind = <<>>
    <3>1. y = <<a, o>>
      BY <1>8, <2>1, <2>3
    <3>2. QED  BY <2>1, <2>2, <2>3, <3>1
  <2>4. CASE e = 1 /\ behind = <<d>>
    <3>1. PICK g, h : g = <<a, o>> /\ h = <<d>>
      OBVIOUS
    <3>2. y = g \o h
      BY <1>8, <2>1, <2>4, <3>1
    <3>3. g \in Seq(Ops) /\ h \in Seq(Ops) /\ Len(g) = 2 /\ Len(h) = 1 /\ g[1] = a /\ g[2] = o /\ h[1] = d
      BY <2>2, <3>1
    <3>4. y \in Seq(Ops) /\ Len(y) = 3 /\ y[1] = a /\ y[2] = o /\ y[3] = d
      <4>1. /\ y \in Seq(Ops) /\ Len(y) = Len(g) + Len(h)
            /\ \A j \in 1 .. Len(g) + Len(h) : y[j] = IF j <= Len(g) THEN g[j] ELSE h[j - Len(g)]
        BY <3>2, <3>3, ConcatProperties
      <4>2. Len(y) = 3 /\ \A j \in 1 .. 3 : y[j] = IF j <= 2 THEN g[j] ELSE h[j - 2]
        BY <3>3, <4>1
      <4>3. QED  BY <3>3, <4>1, <4>2
    <3>5. QED  BY <2>1, <2>4, <3>4
  <2>5. QED  BY <1>1, <1>4, <2>1, <2>3, <2>4
<1>22. WaitsFirst(v, z, l + 2)
  <2>1. PICK h, t, g : h = Head(z) /\ t = Tail(z) /\ g = After("caller", l + 2, h)
    OBVIOUS
  <2>2. h = z[1] /\ h \in Ops /\ t \in Seq(Ops) /\ Len(t) = Len(z) - 1
        /\ \A j \in 1 .. Len(t) : t[j] = z[j + 1]
    BY <2>1
  <2>3. g \in Ops
    <3>1. PICK s, u : s = "caller" /\ u = l + 2
      OBVIOUS
    <3>2. s \in Streams /\ u \in Nat
      BY <1>3, <3>1 DEF Streams
    <3>3. After(s, u, h) \in Ops
      BY <2>2, <3>2, AfterIs
    <3>4. QED  BY <2>1, <3>1, <3>3
  <2>4. v = <<g>> \o t
    BY <1>8, <2>1
  <2>5. Prepends(v, g, t)
    BY <2>2, <2>3, <2>4 DEF Prepends
  <2>6. /\ v \in Seq(Ops) /\ Len(v) = 1 + Len(t) /\ v[1] = g
        /\ \A j \in 1 .. Len(v) : j = 1 \/ (j - 1 \in 1 .. Len(t) /\ v[j] = t[j - 1])
    BY <2>5, Prepended
  <2>7. Len(v) = Len(z)
    BY <1>5, <2>2, <2>6
  <2>8. ASSUME NEW j \in 1 .. Len(z), j # 1  PROVE v[j] = z[j]
    <3>1. j - 1 \in 1 .. Len(t) /\ v[j] = t[j - 1] /\ (j - 1) + 1 = j
      BY <2>6, <2>7, <2>8
    <3>2. QED  BY <2>2, <3>1
  <2>9. QED  BY <1>5, <2>1, <2>2, <2>6, <2>7, <2>8 DEF WaitsFirst
<1>23. v \in Seq(Ops)
  BY <1>22 DEF WaitsFirst
<1>24. PICK add : HostSubmits(r, add) /\ add["caller"] = y /\ add["comm"] = v /\ add["xfer"] = f
  BY <1>9, <1>21, <1>23, SubmitIs
<1>25. StagingOps(add["caller"], L, step, o, m, last)
  BY <1>1, <1>16, <1>19, <1>21, <1>24 DEF StagingOps
<1>26. /\ pool' \in [Ranks -> Seq(Slots)] /\ pool'[r] = pl2
       /\ \A t \in Ranks : t # r => pool'[t] = pool[t]
  BY <1>11, <1>12, <1>18 DEF Stocked
<1>27. lends' = [t \in Ranks |-> LentBy(program', pos'[t])]
  <2>1. lends' = [lends EXCEPT ![r] = @ + (IF program[pos[r] + 1].dest = "lent" THEN 1 ELSE 0)]
    BY DEF Staging
  <2>2. QED  BY <2>1, LendsCount
<1>28. Staged(r, L, step, z, f, e, add, o, m)
  BY <1>1, <1>4, <1>16, <1>18, <1>21, <1>22, <1>24, <1>25, <1>26, <1>27 DEF Staged
<1>29. QED
  BY <1>28

\* An asynchronous call.
LEMMA AsyncKeeps ==
    ASSUME IInv, NEW r \in Ranks, NEW L, NEW at, Fits(L, at, r), Moves(r),
           program[pos[r] + 1].do = "call", program[pos[r] + 1].async,
           program[pos[r] + 1].dest # "refused", AsyncCall(r, program[pos[r] + 1])
    PROVE  IInv' /\ Lengthened(L, at, r) /\ OthersStill(r)
<1>1. Fits(L, at, r)
  OBVIOUS
<1>2. PICK p, k, q, n, pl : p = program /\ k = pos[r] /\ q = queue[r] /\ n = ran[r] /\ pl = pool[r]
  OBVIOUS
<1>3. PICK step, c, w, x, l, b, mm : /\ step = p[k + 1] /\ c = step.call /\ w = WindowFor(r, step)
                                     /\ x = Len(L["xfer"]) /\ l = Len(L["caller"]) /\ b = Len(L["comm"])
                                     /\ mm = BufferFor(r, step.shape[r])
  OBVIOUS
<1>4. Contract(p) /\ k + 1 \in DOMAIN p
  BY <1>2, RankIs, MovesIs
<1>5. /\ c \in Calls /\ step.do = "call" /\ step.async /\ step.dest # "refused" /\ step.shape[r] \in Nat
      /\ step.async \in BOOLEAN
  BY <1>2, <1>3, <1>4, CallIs
<1>6. Transfers(p, k + 1)
  BY <1>3, <1>5 DEF Transfers
<1>7. w = Filled(p, k + 1) /\ w \in Windows
  BY <1>2, <1>3, <1>6, WindowIs
<1>8. Mark(r, "comm") = b /\ b \in Nat /\ l \in Nat
  <2>1. "caller" \in Streams /\ "comm" \in Streams
    BY DEF Streams
  <2>2. QED  BY <1>1, <1>3, <2>1, MarkIs
<1>9. mm \in Buffers
  <2>1. EvictionDone(r, step.shape[r])
    BY <1>2, <1>3, Zenon DEF AsyncCall, Staging
  <2>2. QED  BY <1>3, <1>5, <2>1, BufferIs, SMTT(60)
<1>10. PICK z, f : z = OnStream(r, w, mm, c) \o CopyOut(step, w) /\ f = Remote(r, "comm", b + 2, w, mm, c)
  OBVIOUS
<1>11. IsBlock(z, r, step, w, mm, x + Copied(r)) /\ IsCopies(f, r, "comm", b + 2, step, w, mm)
  <2>1. PICK s, ready : s = "comm" /\ ready = b + 2
    OBVIOUS
  <2>2. mm \in {0} \cup Buffers /\ s \in {"caller", "comm"} /\ ready \in Nat
    BY <1>8, <1>9, <2>1
  <2>3. z = OnStream(r, w, mm, step.call) \o CopyOut(step, w) /\ f = Remote(r, s, ready, w, mm, step.call)
    BY <1>3, <1>10, <2>1
  <2>4. IsBlock(z, r, step, w, mm, Len(L["xfer"]) + Copied(r)) /\ IsCopies(f, r, s, ready, step, w, mm)
    BY <1>1, <1>3, <1>5, <1>7, <2>2, <2>3, BlockOf, ZenonT(60)
  <2>5. QED  BY <1>3, <2>1, <2>4
<1>12. z \in Seq(Ops) /\ f \in Seq(Ops) /\ z # <<>> /\ Len(z) = End(step, 1) /\ Len(z) \in Nat
  <2>1. z \in Seq(Ops) /\ f \in Seq(Ops)
    BY <1>11 DEF IsBlock, IsCopies
  <2>2. Len(z) = End(step, 1) /\ Len(z) \in {5, 6}
    BY <1>11, BlockOps
  <2>3. QED  BY <2>1, <2>2
<1>13. PICK behind, e : /\ behind = IF HasRegistry THEN <<>> ELSE <<After("comm", b + Len(z), Nothing)>>
                        /\ e = IF HasRegistry THEN 0 ELSE 1
  OBVIOUS
<1>14. Staging(r, step, z, f, behind) /\ SetResult(r, step, w, HasRegistry, b + Len(z))
  <2>1. CommOps(r, step) \o CopyOut(step, w) = z /\ XferOps(r, step) = f
    BY <1>3, <1>8, <1>10 DEF CommOps, XferOps
  <2>2. AsyncCall(r, step)
    BY <1>2, <1>3
  <2>3. QED  BY <1>3, <1>8, <1>13, <2>1, <2>2 DEF AsyncCall
<1>15. \/ e = 0 /\ behind = <<>>
       \/ e = 1 /\ behind = <<After("comm", Len(L["comm"]) + Len(z), Nothing)>>
  BY <1>3, <1>13
<1>16. step = program[pos[r] + 1]
  BY <1>2, <1>3
<1>17. PICK add, o, m : Staged(r, L, step, z, f, e, add, o, m)
  BY <1>1, <1>5, <1>12, <1>14, <1>15, <1>16, StagingIs
<1>18. /\ HostSubmits(r, add) /\ add["xfer"] = f
       /\ WaitsFirst(add["comm"], z, l + 2)
       /\ StagingOps(add["caller"], L, step, o, mm, b + Len(z))
       /\ Len(add["caller"]) = 2 + e /\ m = mm
       /\ Stocked(pool'[r])
       /\ Turnover(pool[r], pool'[r], ran[r]["comm"], mm, o, b + Len(z))
       /\ pool' \in [Ranks -> Seq(Slots)] /\ (\A t \in Ranks : t # r => pool'[t] = pool[t])
       /\ lends' = [t \in Ranks |-> LentBy(program', pos'[t])]
  BY <1>3, <1>17 DEF Staged
<1>19. PICK M : M = [s \in Streams |-> L[s] \o add[s]]
  OBVIOUS
<1>20. Submits(L, r, p, k, at, q, n, add, M)
  BY <1>1, <1>2, <1>18, <1>19, SubmitsNext
<1>21. /\ TransferStep(L, add, M, r, p, k, at, "comm", mm, 1)
       /\ Len(M["comm"]) = b + End(p[k + 1], 1) /\ M["comm"][b + 3].buf = mm
       /\ \A g \in 1 .. l : Before(M, "caller", g, "comm", b + 1)
  <2>1. IsBlock(z, r, p[k + 1], Filled(p, k + 1), mm, x + Copied(r))
        /\ IsCopies(add["xfer"], r, "comm", b + 2, p[k + 1], Filled(p, k + 1), mm)
    BY <1>3, <1>7, <1>11, <1>18
  <2>2. Transfers(p, k + 1) /\ p[k + 1].async /\ StagingOps(add["caller"], L, p[k + 1], o, mm, b + Len(z))
    BY <1>3, <1>5, <1>6, <1>18
  <2>3. ~ HasRegistry => Len(add["caller"]) = 3
    BY <1>13, <1>18
  <2>4. SubmitsAsync(L, r, p, k, at, q, n, add, M, z, x, l, b, mm, o)
    BY <1>3, <1>18, <1>20, <2>1, <2>2, <2>3 DEF SubmitsAsync
  <2>5. \A g \in 1 .. l : Before(M, "caller", g, "comm", b + 1)
    BY <2>4, AsyncBehind
  <2>6. QED  BY <2>4, <2>5, AsyncAdds
<1>22. PICK at2 : /\ Told(M, r, p, k + 1, at2) /\ Places1(p, k, at, at2)
                  /\ at2[k + 1].near = b + 1
                  /\ at2[k + 1].near \in Nat /\ at2[k + 1].near > Len(L[Lane(p[k + 1])])
                  /\ at2[k + 1].far = Len(L["xfer"])
  BY <1>3, <1>20, <1>21, TransferSpots
<1>23. b + Len(z) = Len(M["comm"])
  BY <1>3, <1>12, <1>21
<1>24. /\ StagingStep(L, add, M, p, k, at2, mm) /\ add["caller"][2] = o
       /\ CallerAdds(L, add, M, p, k, at2)
  <2>1. SubmitsStaging(L, r, p, k, at, q, n, add, M, o, mm, b + Len(z))
    BY <1>3, <1>5, <1>18, <1>20, <1>23 DEF SubmitsStaging
  <2>2. StagingFits(add["caller"], M, p[k + 1], o, mm)
    <3>1. PICK last : last = b + Len(z)
      OBVIOUS
    <3>2. SubmitsStaging(L, r, p, k, at, q, n, add, M, o, mm, last)
      BY <2>1, <3>1
    <3>3. QED  BY <3>2, StagingOpsFit
  <2>3. /\ add["caller"][2] = o /\ o.call = p[k + 1].call /\ o.buf = mm
        /\ (\A j \in 1 .. Len(add["caller"]) : j # 2 => add["caller"][j].op # "stage")
        /\ Len(add["caller"]) >= 2
    BY <2>2 DEF StagingFits
  <2>4. at2[k + 1].near + 2 = b + 3 /\ at2[k + 1].near + 3 <= Len(M["comm"])
    <3>1. End(step, 1) >= 5 /\ End(step, 1) \in Nat
      BY <1>12, EndIs
    <3>2. PICK d, h : d = at2[k + 1].near /\ h = End(step, 1)
      OBVIOUS
    <3>3. d = b + 1 /\ h >= 5 /\ h \in Nat /\ b \in Nat /\ Len(M["comm"]) = b + h
      BY <1>3, <1>8, <1>21, <1>22, <3>1, <3>2
    <3>4. d + 2 = b + 3 /\ d + 3 <= b + h
      BY ONLY <3>3
    <3>5. QED  BY <3>2, <3>3, <3>4
  <2>5. M["comm"][at2[k + 1].near + 2].buf = mm
    BY <1>21, <2>4
  <2>6. p[k + 1].do = "call" /\ p[k + 1].async
    BY <1>3, <1>5
  <2>7. CallerAdds(L, add, M, p, k, at2)
    <3>1. PICK last : last = b + Len(z)
      OBVIOUS
    <3>2. SubmitsStaging(L, r, p, k, at, q, n, add, M, o, mm, last)
      BY <2>1, <3>1
    <3>3. Lane(p[k + 1]) = "comm"
      BY <2>6 DEF Lane
    <3>4. \A g \in 1 .. Len(L["caller"]) : Before(M, "caller", g, Lane(p[k + 1]), at2[k + 1].near)
      BY <1>3, <1>21, <1>22, <3>3
    <3>5. QED  BY <3>2, <3>4, StagingTurns
  <2>8. QED  BY <2>3, <2>4, <2>5, <2>6, <2>7 DEF StagingStep
<1>25. Released(M, p, k + 1, at2, n, pool'[r]) /\ Restaged(M, p, k + 1, at2, n)
  <2>1. PICK pl2, done, last : pl2 = pool'[r] /\ done = n["comm"] /\ last = Len(M["comm"])
    OBVIOUS
  <2>2. Turnover(pl, pl2, n["comm"], mm, add["caller"][2], Len(M["comm"]))
    BY <1>2, <1>18, <1>23, <1>24, <2>1
  <2>3. pl \in Seq(Slots) /\ Released(L, p, k, at, n, pl) /\ Restaged(L, p, k, at, n) /\ pl2 \in Seq(Slots)
    BY <1>1, <1>2, <1>18, <2>1 DEF Fits, Fine, Stocked
  <2>4. Going(L, r, p, k, at, q, n) /\ Added(L, add, M) /\ k + 1 \in DOMAIN p
    BY <1>20, SubmitsIs DEF Submits
  <2>5. Released(M, p, k + 1, at2, n, pl2) /\ Restaged(M, p, k + 1, at2, n)
    BY <1>22, <1>24, <2>2, <2>3, <2>4, PoolStages
  <2>6. QED  BY <2>1, <2>5
<1>26. /\ result' \in [Ranks -> [Calls -> [from : Places, async : BOOLEAN, at : Nat]]]
       /\ (\A t \in Ranks : t # r => result'[t] = result[t])
       /\ Notes(p, k, at2, result[r], result'[r])
  <2>1. PICK d : d = b + Len(z)
    OBVIOUS
  <2>2. SetResult(r, step, w, HasRegistry, d) /\ HasRegistry \in BOOLEAN /\ d \in Nat /\ step.call \in Calls
    BY <1>3, <1>5, <1>8, <1>12, <1>14, <2>1, ExchangeAssumption
  <2>3. /\ result' \in [Ranks -> [Calls -> [from : Places, async : BOOLEAN, at : Nat]]]
        /\ (\A t \in Ranks : t # r => result'[t] = result[t])
        /\ (\A t \in Calls : t # step.call => result'[r][t] = result[r][t])
        /\ result'[r][step.call].from = (IF step.dest = "fresh" THEN <<"output", step.call>> ELSE w)
        /\ result'[r][step.call].async = HasRegistry /\ result'[r][step.call].at = d
    BY <1>7, <2>2, SetResultIs
  <2>4. End(step, at2[k + 1].near) = d
    <3>1. at2[k + 1].near = b + 1
      BY <1>22
    <3>2. End(step, b + 1) = b + End(step, 1)
      BY <1>8 DEF End
    <3>3. QED  BY <1>12, <2>1, <3>1, <3>2
  <2>5. (step.async /\ HasRegistry) = HasRegistry
    BY <1>5, <2>2
  <2>6. QED  BY <1>3, <1>5, <1>7, <2>3, <2>4, <2>5 DEF Notes
<1>27. Drained(program', pos', queue')
  <2>1. \A t \in Ranks : t # r => queue'[t] = queue[t]
    BY <1>18 DEF HostSubmits
  <2>2. QED  BY <2>1, DrainedCall
<1>28. Reading(M, p, k + 1, at2) /\ StagedInTurn(M)
  BY <1>1, <1>2, <1>18, <1>19, <1>22, <1>24, TurnsKept
<1>29. InTurns(L, add, p[k + 1]) /\ at2[k + 1].near = Len(L[Lane(p[k + 1])]) + Ahead(p[k + 1])
  <2>1. PICK d, last : d = x + Copied(r) /\ last = b + Len(z)
    OBVIOUS
  <2>2. IsBlock(z, r, step, w, mm, d) /\ IsCopies(add["xfer"], r, "comm", b + 2, step, w, mm) /\ last \in Nat
    BY <1>8, <1>11, <1>12, <1>18, <2>1
  <2>3. StagingOps(add["caller"], L, step, o, mm, last) /\ WaitsFirst(add["comm"], z, l + 2)
    BY <1>18, <2>1
  <2>4. L \in Logs /\ add \in Logs /\ l = Len(L["caller"]) /\ b = Len(L["comm"])
        /\ step.call \in Calls /\ step.do = "call" /\ step.async
    BY <1>3, <1>5, <1>20, SubmitsIs
  <2>5. InTurns(L, add, step)
    BY <2>2, <2>3, <2>4, AsyncInTurns
  <2>6. Lane(step) = "comm" /\ Ahead(step) = 1
    BY <2>4 DEF Lane, Ahead
  <2>7. QED  BY <1>3, <1>22, <2>5, <2>6
<1>30. Books(r, L, add, M, at, at2)
  BY <1>2, <1>18, <1>19, <1>22, <1>25, <1>26, <1>27, <1>28, <1>29 DEF Books
<1>31. QED
  BY <1>1, <1>30, HostKeeps

\* A call that is refused after it was staged.
LEMMA RefusedKeeps ==
    ASSUME IInv, NEW r \in Ranks, NEW L, NEW at, Fits(L, at, r), Moves(r),
           program[pos[r] + 1].do = "call", program[pos[r] + 1].async,
           program[pos[r] + 1].dest = "refused", RefusedCall(r, program[pos[r] + 1])
    PROVE  IInv' /\ Lengthened(L, at, r) /\ OthersStill(r)
<1>1. Fits(L, at, r)
  OBVIOUS
<1>2. PICK p, k, q, n, pl : p = program /\ k = pos[r] /\ q = queue[r] /\ n = ran[r] /\ pl = pool[r]
  OBVIOUS
<1>3. PICK step, l, b, z, none, e : /\ step = p[k + 1] /\ l = Len(L["caller"]) /\ b = Len(L["comm"])
                                    /\ z = <<Nothing>> /\ none = <<>> /\ e = 0
  OBVIOUS
<1>4. Contract(p) /\ k + 1 \in DOMAIN p
  BY <1>2, RankIs, MovesIs
<1>5. step.call \in Calls /\ step.do = "call" /\ step.async /\ step.dest = "refused"
  BY <1>2, <1>3, <1>4, CallIs
<1>6. ~ Transfers(p, k + 1)
  BY <1>3, <1>5 DEF Transfers
<1>7. b \in Nat /\ l \in Nat
  <2>1. "caller" \in Streams /\ "comm" \in Streams
    BY DEF Streams
  <2>2. QED  BY <1>1, <1>3, <2>1, MarkIs
<1>8. z \in Seq(Ops) /\ none \in Seq(Ops) /\ z # <<>> /\ Len(z) = 1 /\ z[1] = Nothing
  <2>1. Nothing \in Ops
    BY <1>5, SomeOps
  <2>2. QED  BY <1>3, <2>1
<1>9. Staging(r, step, z, none, none) /\ result' = result
  BY <1>2, <1>3 DEF RefusedCall
<1>10. step = program[pos[r] + 1]
  BY <1>2, <1>3
<1>11. e = 0 /\ none = <<>>
  BY <1>3
<1>12. PICK add, o, m : Staged(r, L, step, z, none, e, add, o, m)
  BY <1>1, <1>5, <1>8, <1>9, <1>10, <1>11, StagingIs
<1>13. PICK last : last = b + 1
  OBVIOUS
<1>14. /\ HostSubmits(r, add) /\ add["xfer"] = none
       /\ WaitsFirst(add["comm"], z, l + 2)
       /\ StagingOps(add["caller"], L, step, o, m, last)
       /\ Len(add["caller"]) = 2
       /\ Stocked(pool'[r])
       /\ Turnover(pool[r], pool'[r], ran[r]["comm"], m, o, last)
       /\ pool' \in [Ranks -> Seq(Slots)] /\ (\A t \in Ranks : t # r => pool'[t] = pool[t])
       /\ lends' = [t \in Ranks |-> LentBy(program', pos'[t])]
  BY <1>3, <1>8, <1>12, <1>13 DEF Staged
<1>15. PICK M : M = [s \in Streams |-> L[s] \o add[s]]
  OBVIOUS
<1>16. Submits(L, r, p, k, at, q, n, add, M)
  BY <1>1, <1>2, <1>14, <1>15, SubmitsNext
<1>17. /\ Len(add["comm"]) = 1 /\ add["comm"][1].op = "nothing" /\ add["comm"][1].on = "caller"
       /\ add["comm"][1].upto = Len(L["caller"]) + 2
  <2>1. Len(add["comm"]) = 1 /\ add["comm"][1] = After("caller", l + 2, Nothing)
    BY <1>8, <1>14 DEF WaitsFirst
  <2>2. PICK s, u, h : s = "caller" /\ u = l + 2 /\ h = Nothing
    OBVIOUS
  <2>3. s \in Streams /\ u \in Nat /\ h \in Ops /\ h.op = "nothing"
    BY <1>5, <1>7, <2>2, SomeOps, ProduceIs DEF Streams
  <2>4. After(s, u, h).op = "nothing" /\ After(s, u, h).on = s /\ After(s, u, h).upto = u
    BY <2>3, AfterIs
  <2>5. QED  BY <1>3, <2>1, <2>2, <2>4
<1>18. /\ Contract(p) /\ k \in Nat /\ Told(L, r, p, k, at) /\ Added(L, add, M) /\ L \in Logs
       /\ Going(L, r, p, k, at, q, n)
  BY <1>16, SubmitsIs DEF Submits
<1>19. last = Len(M["comm"])
  <2>1. Len(M["comm"]) = Len(L["comm"]) + Len(add["comm"])
    BY <1>18 DEF Added, Streams
  <2>2. QED  BY <1>3, <1>13, <1>17, <2>1
<1>20. SubmitsStaging(L, r, p, k, at, q, n, add, M, o, m, last)
  BY <1>3, <1>5, <1>14, <1>16, <1>19 DEF SubmitsStaging
<1>21. QuietStep(L, add, M, p, k, at)
  <2>1. add["xfer"] = <<>>
    BY <1>3, <1>14
  <2>2. QED  BY <1>6, <1>14, <1>17, <1>20, <2>1, RefusedAdds
<1>22. Told(M, r, p, k + 1, at) /\ Places1(p, k, at, at)
  BY <1>4, <1>18, <1>21, QuietTold DEF Places1
<1>23. StagingStep(L, add, M, p, k, at, m) /\ add["caller"][2] = o
  <2>1. StagingFits(add["caller"], M, p[k + 1], o, m)
    BY <1>20, StagingOpsFit
  <2>2. QED  BY <1>3, <1>5, <1>6, <2>1 DEF StagingFits, StagingStep
<1>24. Released(M, p, k + 1, at, n, pool'[r]) /\ Restaged(M, p, k + 1, at, n)
  <2>1. PICK pl2 : pl2 = pool'[r]
    OBVIOUS
  <2>2. Turnover(pl, pl2, n["comm"], m, add["caller"][2], Len(M["comm"]))
    BY <1>2, <1>14, <1>19, <1>23, <2>1
  <2>3. pl \in Seq(Slots) /\ Released(L, p, k, at, n, pl) /\ Restaged(L, p, k, at, n) /\ pl2 \in Seq(Slots)
    BY <1>1, <1>2, <1>14, <2>1 DEF Fits, Fine, Stocked
  <2>4. Released(M, p, k + 1, at, n, pl2) /\ Restaged(M, p, k + 1, at, n)
    BY <1>4, <1>18, <1>22, <1>23, <2>2, <2>3, PoolStages
  <2>5. QED  BY <2>1, <2>4
<1>25. /\ result' \in [Ranks -> [Calls -> [from : Places, async : BOOLEAN, at : Nat]]]
       /\ (\A t \in Ranks : t # r => result'[t] = result[t])
       /\ Notes(p, k, at, result[r], result'[r])
  BY <1>6, <1>9 DEF Notes, IInv, Typing
<1>26. Drained(program', pos', queue')
  <2>1. \A t \in Ranks : t # r => queue'[t] = queue[t]
    BY <1>14 DEF HostSubmits
  <2>2. QED  BY <2>1, DrainedCall
<1>27. Reading(M, p, k + 1, at) /\ StagedInTurn(M)
  <2>1. CallerAdds(L, add, M, p, k, at)
    BY <1>6, <1>20, StagingTurns
  <2>2. QED  BY <1>1, <1>2, <1>14, <1>15, <1>22, <2>1, TurnsKept
<1>28. InTurns(L, add, p[k + 1])
  <2>1. StagingOps(add["caller"], L, step, o, m, last) /\ Len(add["caller"]) = 2 /\ add["xfer"] = <<>>
    BY <1>3, <1>14
  <2>2. L \in Logs /\ add \in Logs /\ step.do = "call" /\ step.async
    BY <1>5, <1>16, SubmitsIs
  <2>3. InTurns(L, add, step)
    BY <1>17, <2>1, <2>2, RefusedInTurns
  <2>4. QED  BY <1>3, <2>3
<1>29. Books(r, L, add, M, at, at)
  BY <1>2, <1>6, <1>14, <1>15, <1>22, <1>24, <1>25, <1>26, <1>27, <1>28 DEF Books
<1>30. QED
  BY <1>1, <1>29, HostKeeps

------------------------------------------------------------------------------
(* The invariant. *)

\* Every step of a host keeps the invariant.
LEMMA HostStepKeeps ==
    ASSUME IInv, NEW r \in Ranks, NEW L, NEW at, Fits(L, at, r), HostStep(r)
    PROVE  IInv' /\ Lengthened(L, at, r) /\ OthersStill(r)
<1>1. Moves(r)
  BY DEF HostStep, Moves
<1>2. PICK step : step = program[pos[r] + 1]
  OBVIOUS
<1>3. CASE step.do = "call" /\ ~ step.async /\ SyncCall(r, step)
  BY <1>1, <1>2, <1>3, SyncKeeps
<1>4. CASE step.do = "call" /\ step.async /\ step.dest # "refused" /\ AsyncCall(r, step)
  BY <1>1, <1>2, <1>4, AsyncKeeps
<1>5. CASE step.do = "call" /\ step.async /\ step.dest = "refused" /\ RefusedCall(r, step)
  BY <1>1, <1>2, <1>5, RefusedKeeps
<1>6. CASE step.do = "use" /\ Use(r, step)
  BY <1>1, <1>2, <1>6, UseKeeps
<1>7. CASE step.do = "timed" /\ TimedWait(r)
  <2>1. Unbooked(r) /\ queue' = queue
    BY <1>2, <1>7 DEF Unbooked, TimedWait
  <2>2. QED  BY <1>1, <1>2, <1>7, <2>1, RestKeeps
<1>8. CASE /\ \/ step.do = "drain" /\ DrainComm(r)
              \/ step.do = "meet" /\ Met(r)
              \/ step.do = "destroy" /\ XferDone(r)
           /\ UNCHANGED <<queue, lends, pool, result>>
  <2>1. Unbooked(r) /\ queue' = queue
    BY <1>2, <1>8 DEF Unbooked
  <2>2. QED  BY <1>1, <1>2, <1>8, <2>1, RestKeeps
<1>9. \/ step.do = "call" /\ ~ step.async /\ SyncCall(r, step)
      \/ step.do = "call" /\ step.async /\ step.dest # "refused" /\ AsyncCall(r, step)
      \/ step.do = "call" /\ step.async /\ step.dest = "refused" /\ RefusedCall(r, step)
      \/ step.do = "use" /\ Use(r, step)
      \/ step.do = "timed" /\ TimedWait(r)
      \/ /\ \/ step.do = "drain" /\ DrainComm(r)
            \/ step.do = "meet" /\ Met(r)
            \/ step.do = "destroy" /\ XferDone(r)
         /\ UNCHANGED <<queue, lends, pool, result>>
  BY <1>2 DEF HostStep
<1>10. QED
  BY <1>3, <1>4, <1>5, <1>6, <1>7, <1>8, <1>9

\* A step that changes nothing does.
LEMMA StutterKeeps ==
    ASSUME IInv, UNCHANGED vars
    PROVE  IInv' /\ \A t \in Ranks : \A L, at : Fits(L, at, t) => Fits(L, at, t)'
<1>1. /\ program' = program /\ pos' = pos /\ queue' = queue /\ ran' = ran /\ lends' = lends /\ pool' = pool
      /\ result' = result /\ arrived' = arrived /\ ticket' = ticket /\ input' = input /\ staged' = staged
      /\ window' = window
  BY DEF vars, host, data
<1>2. Typing' /\ Drained(program, pos, queue)'
  BY <1>1 DEF IInv, Typing, Drained
<1>3. ASSUME NEW t \in Ranks, NEW L, NEW at, Fits(L, at, t)  PROVE Fits(L, at, t)'
  <2>1. Untouched(t)
    BY <1>1 DEF Untouched
  <2>2. QED  BY <1>3, <2>1, OthersFit
<1>4. \A t \in Ranks : \E L, at : Fits(L, at, t)'
  <2>1. ASSUME NEW t \in Ranks  PROVE \E L, at : Fits(L, at, t)'
    <3>1. PICK L, at : Fits(L, at, t)
      BY DEF IInv
    <3>2. Fits(L, at, t)'
      BY <1>3, <3>1
    <3>3. QED  BY <3>2
  <2>2. QED  BY <2>1
<1>5. QED
  BY <1>2, <1>3, <1>4 DEF IInv

\* Nothing was submitted yet: the log is empty.
LEMMA InitHolds == Init => IInv
<1>1. SUFFICES ASSUME Init  PROVE IInv
  OBVIOUS
<1>2. /\ program \in Programs /\ pos = [r \in Ranks |-> 0] /\ queue = [r \in Ranks |-> [s \in Streams |-> <<>>]]
      /\ ran = [r \in Ranks |-> [s \in Streams |-> 0]] /\ lends = [r \in Ranks |-> 0]
      /\ pool = [r \in Ranks |-> <<>>] /\ result = [r \in Ranks |-> [c \in Calls |-> NoResult]]
      /\ arrived = [w \in Windows |-> [r \in Ranks |-> 0]] /\ ticket = [r \in Ranks |-> [s \in Streams |-> 0]]
      /\ input = [r \in Ranks |-> 0] /\ staged = [r \in Ranks |-> [m \in Buffers |-> 0]]
      /\ window = [w \in Windows |-> [r \in Ranks |-> [s \in Ranks |-> 0]]]
  BY <1>1, Zenon DEF Init
<1>3. Contract(program) /\ program \in Programs
  BY <1>2, ProgramsAssumption
<1>4. DOMAIN program = 1 .. Len(program) /\ Len(program) \in Nat
  BY <1>3, ProgramIs
<1>5. PICK none, zero : none = <<>> /\ zero = 0
  OBVIOUS
<1>6. PICK L, n : L = [s \in Streams |-> none] /\ n = [s \in Streams |-> zero]
  OBVIOUS
<1>7. /\ none \in Seq(Ops) /\ Len(none) = 0 /\ none \in Seq(Slots) /\ L \in Logs
      /\ (\A s \in Streams : L[s] = none /\ n[s] = 0) /\ n \in [Streams -> Nat]
  BY <1>5, <1>6 DEF Logs
<1>8. MaxCalls \in Nat
  BY ExchangeAssumption
<1>9. Typing
  <2>1. program \in Programs /\ pos \in [Ranks -> 0 .. Len(program)]
    BY <1>2, <1>3, <1>4
  <2>2. queue = [r \in Ranks |-> L] /\ ran = [r \in Ranks |-> n] /\ pool = [r \in Ranks |-> none]
    BY <1>2, <1>5, <1>6
  <2>3. queue \in [Ranks -> Logs] /\ ran \in [Ranks -> [Streams -> Nat]] /\ pool \in [Ranks -> Seq(Slots)]
    BY <1>7, <2>2
  <2>4. lends = [r \in Ranks |-> LentBy(program, pos[r])]
    <3>1. LentBy(program, 0) = 0
      <4>1. PICK A : A = {j \in 1 .. 0 : program[j].do = "call" /\ program[j].dest = "lent"}
        OBVIOUS
      <4>2. A = {}
        BY <4>1
      <4>3. Cardinality(A) = 0
        BY <4>2, FS_EmptySet
      <4>4. QED  BY <4>1, <4>3 DEF LentBy
    <3>2. \A r \in Ranks : pos[r] = 0 /\ lends[r] = 0
      BY <1>2
    <3>3. QED  BY <1>2, <3>1, <3>2
  <2>5. result \in [Ranks -> [Calls -> [from : Places, async : BOOLEAN, at : Nat]]]
    <3>1. NoResult \in [from : Places, async : BOOLEAN, at : Nat]
      BY DEF NoResult, Places
    <3>2. PICK e : e = NoResult
      OBVIOUS
    <3>3. QED  BY <1>2, <3>1, <3>2
  <2>6. /\ arrived \in [Windows -> [Ranks -> 0 .. 2 * MaxCalls]]
        /\ ticket \in [Ranks -> [Streams -> 0 .. 2 * MaxCalls]]
        /\ input \in [Ranks -> 0 .. MaxCalls] /\ staged \in [Ranks -> [Buffers -> 0 .. MaxCalls]]
        /\ window \in [Windows -> [Ranks -> [Ranks -> 0 .. MaxCalls]]]
    <3>1. 0 \in 0 .. MaxCalls /\ 0 \in 0 .. 2 * MaxCalls
      BY <1>8
    <3>2. QED  BY <1>2, <3>1
  <2>7. QED  BY <2>1, <2>3, <2>4, <2>5, <2>6 DEF Typing
<1>10. Drained(program, pos, queue)
  BY <1>2 DEF Drained
<1>11. PICK at : at = [i \in DOMAIN program |-> [near |-> zero, far |-> zero]]
  OBVIOUS
<1>12. at \in [DOMAIN program -> Spots]
  BY <1>5, <1>11 DEF Spots
<1>13. ASSUME NEW r \in Ranks  PROVE Fits(L, at, r)
  <2>1. PICK p, res, tk, arr : p = program /\ res = result[r] /\ tk = ticket[r] /\ arr = ArrivedAt(r)
    OBVIOUS
  <2>2. pos[r] = 0 /\ queue[r] = L /\ ran[r] = n /\ pool[r] = none /\ (\A s \in Streams : tk[s] = 0)
    BY <1>2, <1>5, <1>6, <2>1
  <2>3. \A w \in Windows : arr[w] = 0
    BY <1>2, <2>1 DEF ArrivedAt
  <2>4. Told(L, r, p, 0, at)
    BY <1>7, <1>12, <2>1 DEF Told
  <2>5. Noted(p, 0, at, res)
    BY DEF Noted
  <2>6. Leftover(L, L, n) /\ Waited(L, n)
    BY <1>7 DEF Leftover, Waited
  <2>7. Counted(p, 0, at, n, arr)
    <3>1. ASSUME NEW i \in DOMAIN p, Transfers(p, i)  PROVE i \notin 1 .. 0 /\ ~ i <= 0 /\ arr[Filled(p, i)] <= 2 * Nth(p, i)
      <4>1. Filled(p, i) \in Windows /\ i \in Nat /\ i >= 1
        BY <1>3, <1>4, <2>1, <3>1, FilledIs
      <4>2. Nth(p, i) \in Nat
        BY <1>3, <2>1, EarlierIs
      <4>3. QED  BY <2>3, <4>1, <4>2
    <3>2. QED  BY <3>1 DEF Counted
  <2>8. Inside(L, n, tk)
    BY <2>2 DEF Inside
  <2>9. Stocked(none)
    BY <1>5, EmptyStocked
  <2>10. Released(L, p, 0, at, n, none) /\ Restaged(L, p, 0, at, n)
    <3>1. DOMAIN none = {}
      BY <1>5
    <3>2. "caller" \in Streams
      BY DEF Streams
    <3>3. QED  BY <1>7, <3>1, <3>2 DEF Released, Restaged
  <2>11. Reading(L, p, 0, at) /\ StagedInTurn(L)
    <3>1. \A g \in 1 .. Len(L["caller"]) : FALSE
      BY <1>7 DEF Streams
    <3>2. QED  BY <3>1 DEF Reading, StagedInTurn
  <2>12. Fine(L, at, r, p, 0, L, n, none, res, tk, arr)
    BY <2>4, <2>5, <2>6, <2>7, <2>8, <2>9, <2>10, <2>11 DEF Fine
  <2>13. QED  BY <2>1, <2>2, <2>12 DEF Fits
<1>14. QED
  BY <1>9, <1>10, <1>13 DEF IInv

\* The log, the events and the windows of every rank always fit each other: the
\* inductive invariant of the streams.
THEOREM Inductive == Spec => []IInv
<1>1. ASSUME IInv, [Next]_vars
      PROVE  IInv'
  <2>1. CASE UNCHANGED vars
    BY <1>1, <2>1, StutterKeeps
  <2>2. ASSUME NEW r \in Ranks, HostStep(r) \/ \E s \in Streams : StreamStep(r, s)  PROVE IInv'
    <3>1. PICK L, at : Fits(L, at, r)
      BY <1>1 DEF IInv
    <3>2. QED  BY <1>1, <2>2, <3>1, HostStepKeeps, StreamStepKeeps
  <2>3. CASE Next
    BY <1>1, <2>2, <2>3, StutterKeeps DEF Next, Rest
  <2>4. QED  BY <1>1, <2>1, <2>3
<1>2. QED
  BY <1>1, InitHolds, PTL DEF Spec
------------------------------------------------------------------------------
(* What the streams still have to do. *)

\* What is left in a queue is in the log, behind all that has run.
LEMMA LeftIs ==
    ASSUME IInv, NEW r \in Ranks, NEW L, NEW at, Fits(L, at, r), NEW s \in Streams, NEW i \in 1 .. Len(queue[r][s])
    PROVE  /\ ran[r][s] \in Nat /\ ran[r][s] + i \in 1 .. Len(L[s]) /\ ran[r][s] + i > ran[r][s]
           /\ queue[r][s][i] = L[s][ran[r][s] + i] /\ queue[r][s][i] \in Ops
<1>1. L \in Logs /\ queue[r] \in Logs /\ Leftover(L, queue[r], ran[r])
  BY RankIs DEF Going
<1>2. /\ ran[r][s] \in Nat /\ Len(L[s]) = ran[r][s] + Len(queue[r][s])
      /\ queue[r][s][i] = L[s][ran[r][s] + i] /\ Len(queue[r][s]) \in Nat
  BY <1>1, LogIs DEF Leftover
<1>3. ran[r][s] + i \in 1 .. Len(L[s]) /\ ran[r][s] + i > ran[r][s]
  BY <1>2, SMTT(60)
<1>4. QED
  BY <1>1, <1>2, <1>3, LogIs

\* The next operation of a stream.
LEMMA NextIs ==
    ASSUME IInv, NEW r \in Ranks, NEW L, NEW at, Fits(L, at, r), NEW s \in Streams, queue[r][s] # <<>>
    PROVE  /\ ran[r][s] + 1 \in 1 .. Len(L[s]) /\ Head(queue[r][s]) = L[s][ran[r][s] + 1]
           /\ Head(queue[r][s]) \in Ops /\ 1 \in 1 .. Len(queue[r][s])
<1>1. queue[r] \in Logs
  BY RankIs
<1>2. queue[r][s] \in Seq(Ops)
  BY <1>1 DEF Logs
<1>3. 1 \in 1 .. Len(queue[r][s]) /\ Head(queue[r][s]) = queue[r][s][1]
  BY <1>2
<1>4. QED
  BY <1>3, LeftIs

\* A transfer whose closing barrier was started has sent all its shares.
LEMMA ClosedSent ==
    ASSUME NEW L, NEW r, NEW p, NEW k, NEW at, NEW q, NEW n, Going(L, r, p, k, at, q, n),
           NEW i \in 1 .. k, Transfers(p, i), Closed(p, at, n, i)
    PROVE  /\ at[i].far + Copied(r) <= n["xfer"] /\ at[i].near + 3 <= n[Lane(p[i])]
           /\ \A s \in Streams, j \in Nat : Within(r, p, at, s, j, i) /\ j > n[s] => L[s][j].op # "push"
<1>1. /\ Contract(p) /\ r \in Ranks /\ k \in Nat /\ k <= Len(p) /\ Told(L, r, p, k, at)
      /\ L \in Logs /\ q \in Logs /\ n \in [Streams -> Nat] /\ Leftover(L, q, n) /\ Waited(L, n)
  BY DEF Going
<1>2. PICK a, x, t, c : a = at[i].near /\ x = at[i].far /\ t = Lane(p[i]) /\ c = Copied(r)
  OBVIOUS
<1>3. a \in Nat /\ x \in Nat /\ t \in Streams /\ Laid(L, r, p, at, i) /\ c \in Nat /\ a >= 1
  BY <1>1, <1>2, TransferIs, CopiedIs
<1>4. a + 3 <= n[t] /\ L[t][a + 3].on = "xfer" /\ L[t][a + 3].upto >= x + c
  BY <1>2, <1>3 DEF Closed, Laid
<1>5. a + 3 \in 1 .. n[t] /\ n["xfer"] \in Nat /\ n[t] \in Nat
  <2>1. "xfer" \in Streams
    BY DEF Streams
  <2>2. QED  BY <1>1, <1>3, <1>4, <2>1
<1>6. n["xfer"] >= L[t][a + 3].upto
  BY <1>1, <1>3, <1>4, <1>5 DEF Waited
<1>7. L[t][a + 3].upto \in Nat
  <2>1. n[t] <= Len(L[t]) /\ Len(L[t]) \in Nat
    BY <1>1, <1>3, LeftoverIs
  <2>2. a + 3 \in 1 .. Len(L[t])
    BY <1>5, <2>1
  <2>3. L[t][a + 3] \in Ops
    BY <1>1, <1>3, <2>2, LogIs
  <2>4. QED  BY <2>3, OpIs
<1>8. x + c <= n["xfer"]
  BY <1>3, <1>4, <1>5, <1>6, <1>7
<1>9. ASSUME NEW s \in Streams, NEW j \in Nat, Within(r, p, at, s, j, i), j > n[s], L[s][j].op = "push"
      PROVE  FALSE
  <2>1. Role(L[s][j], s, j, p[i], a)
    BY <1>1, <1>2, <1>9, WithinIs
  <2>2. CASE s = "xfer"
    <3>1. j - x \in 1 .. c
      BY <1>2, <1>9, <2>2 DEF Within
    <3>2. QED  BY <1>3, <1>5, <1>8, <1>9, <2>2, <3>1
  <2>3. CASE s = t /\ j = a + 2
    BY <1>3, <1>4, <1>5, <1>9, <2>3
  <2>4. QED  BY <1>2, <1>9, <2>1, <2>2, <2>3 DEF Role
<1>10. QED
  BY <1>2, <1>4, <1>8, <1>9

------------------------------------------------------------------------------
(* The safety properties of one rank. *)

\* The four properties follow from the invariant.  Types, ...
LEMMA TypesFollow == IInv => TypeOK
<1>1. SUFFICES ASSUME IInv  PROVE TypeOK
  OBVIOUS
<1>2. /\ pos \in [Ranks -> 0 .. Len(program)]
      /\ ticket \in [Ranks -> [Streams -> 0 .. 2 * MaxCalls]]
      /\ input \in [Ranks -> 0 .. MaxCalls]
      /\ window \in [Windows -> [Ranks -> [Ranks -> 0 .. MaxCalls]]]
  BY <1>1 DEF IInv, Typing
<1>3. ASSUME NEW r \in Ranks, NEW s \in Streams, NEW i \in DOMAIN queue[r][s]
      PROVE  queue[r][s][i].upto <= Mark(r, queue[r][s][i].on)
  <2>1. PICK L, at : Fits(L, at, r)
    BY <1>1 DEF IInv
  <2>2. queue[r] \in Logs
    BY <1>1, RankIs
  <2>3. queue[r][s] \in Seq(Ops)
    BY <2>2 DEF Logs
  <2>4. i \in 1 .. Len(queue[r][s])
    BY <2>3
  <2>5. PICK j : j = ran[r][s] + i
    OBVIOUS
  <2>6. j \in 1 .. Len(L[s]) /\ queue[r][s][i] = L[s][j] /\ queue[r][s][i] \in Ops
    BY <1>1, <2>1, <2>4, <2>5, LeftIs
  <2>7. Told(L, r, program, pos[r], at)
    BY <1>1, <2>1, RankIs DEF Going
  <2>8. L[s][j].upto <= Len(L[L[s][j].on])
    BY <2>6, <2>7 DEF Told
  <2>9. L[s][j].on \in Streams
    BY <2>6, OpIs
  <2>10. Mark(r, L[s][j].on) = Len(L[L[s][j].on])
    BY <1>1, <2>1, <2>9, MarkIs
  <2>11. QED  BY <2>6, <2>8, <2>10
<1>4. QED
  BY <1>2, <1>3 DEF TypeOK

\* Of two transfers into one window, the later has not begun while the earlier one is in a barrier.
LEMMA OneInside ==
    ASSUME NEW L, NEW r, NEW p, NEW k, NEW at, NEW q, NEW n, Going(L, r, p, k, at, q, n),
           NEW i \in 1 .. k, NEW j \in 1 .. k, Transfers(p, i), Transfers(p, j), i < j, Filled(p, i) = Filled(p, j),
           n[Lane(p[i])] = at[i].near \/ n[Lane(p[i])] = at[i].near + 3
    PROVE  ~ (n[Lane(p[j])] = at[j].near \/ n[Lane(p[j])] = at[j].near + 3)
<1>1. /\ Contract(p) /\ r \in Ranks /\ k \in Nat /\ k <= Len(p) /\ Told(L, r, p, k, at)
      /\ L \in Logs /\ q \in Logs /\ n \in [Streams -> Nat] /\ Leftover(L, q, n) /\ Waited(L, n)
  BY DEF Going
<1>2. PICK s, t, a, e, b : s = Lane(p[i]) /\ t = Lane(p[j]) /\ a = at[i].near /\ e = End(p[i], a) /\ b = at[j].near
  OBVIOUS
<1>3. s \in Streams /\ t \in Streams /\ a \in Nat /\ e \in Nat /\ e >= a + 4 /\ b \in Nat
  BY <1>1, <1>2, TransferIs, SMTT(60)
<1>4. Before(L, s, e, t, b)
  BY <1>1, <1>2 DEF Told, Ordered
<1>5. SUFFICES ASSUME n[t] = b \/ n[t] = b + 3  PROVE FALSE
  BY <1>2
<1>6. b <= n[t] /\ n[t] \in Nat /\ n[s] \in Nat
  BY <1>1, <1>3, <1>5
<1>7. e <= n[s]
  BY <1>1, <1>3, <1>4, <1>6, WaitedBefore
<1>8. QED
  BY <1>2, <1>3, <1>6, <1>7

\* ... barriers of one window one at a time, ...
LEMMA OneBarrierFollows == IInv => OneBarrierPerWindow
<1>1. SUFFICES ASSUME IInv, NEW r \in Ranks, NEW s \in Streams, NEW t \in Streams,
                      s # t, ticket[r][s] # 0, ticket[r][t] # 0
               PROVE  Head(queue[r][s]).win # Head(queue[r][t]).win
  BY DEF OneBarrierPerWindow
<1>2. PICK L, at : Fits(L, at, r)
  BY <1>1 DEF IInv
<1>3. PICK p, k, q, n, tk : p = program /\ k = pos[r] /\ q = queue[r] /\ n = ran[r] /\ tk = ticket[r]
  OBVIOUS
<1>4. Going(L, r, p, k, at, q, n) /\ Inside(L, n, tk) /\ k \in Nat /\ L \in Logs /\ Leftover(L, q, n)
  BY <1>1, <1>2, <1>3, RankIs DEF Fits, Fine, Going
<1>5. ASSUME NEW u \in Streams, tk[u] # 0
      PROVE  \E i \in 1 .. k : /\ Transfers(p, i) /\ u = Lane(p[i])
                               /\ n[u] = at[i].near \/ n[u] = at[i].near + 3
                               /\ Head(q[u]).win = Filled(p, i)
  <2>1. PICK i \in 1 .. k : /\ Transfers(p, i) /\ u = Lane(p[i])
                            /\ n[u] = at[i].near \/ n[u] = at[i].near + 3
                            /\ n[u] + 1 \in 1 .. Len(L[u]) /\ L[u][n[u] + 1].win = Filled(p, i)
    BY <1>4, <1>5, InsideIs
  <2>2. q[u] # <<>>
    <3>1. Len(L[u]) = n[u] + Len(q[u]) /\ n[u] \in Nat /\ Len(L[u]) \in Nat
      BY <1>4, LogIs DEF Leftover
    <3>2. Len(q[u]) # 0
      BY <2>1, <3>1
    <3>3. QED  BY <3>2
  <2>3. Head(q[u]) = L[u][n[u] + 1]
    BY <1>1, <1>2, <1>3, <2>2, NextIs
  <2>4. QED  BY <2>1, <2>3
<1>6. PICK i \in 1 .. k : /\ Transfers(p, i) /\ s = Lane(p[i]) /\ Head(q[s]).win = Filled(p, i)
                          /\ n[s] = at[i].near \/ n[s] = at[i].near + 3
  BY <1>1, <1>3, <1>5
<1>7. PICK j \in 1 .. k : /\ Transfers(p, j) /\ t = Lane(p[j]) /\ Head(q[t]).win = Filled(p, j)
                          /\ n[t] = at[j].near \/ n[t] = at[j].near + 3
  BY <1>1, <1>3, <1>5
<1>8. i # j /\ (i < j \/ j < i)
  BY <1>1, <1>4, <1>6, <1>7
<1>9. Filled(p, i) # Filled(p, j)
  BY <1>4, <1>6, <1>7, <1>8, OneInside
<1>10. QED
  BY <1>3, <1>6, <1>7, <1>9

\* A stream whose next operation nothing holds can run it.
LEMMA NextRuns ==
    ASSUME IInv, NEW r \in Ranks, NEW L, NEW at, Fits(L, at, r), NEW s \in Streams, NEW o, Ready(r, s, o)
    PROVE  /\ \E q2, n2 : Runs(L, r, program, pos[r], at, queue[r], ran[r], s, q2, n2)
           /\ ran[r][s] + 1 \in 1 .. Len(L[s]) /\ L[s][ran[r][s] + 1].op = o
           /\ Head(queue[r][s]) = L[s][ran[r][s] + 1] /\ Head(queue[r][s]) \in Ops
<1>1. /\ queue[r][s] # <<>> /\ Head(queue[r][s]).op = o
      /\ ran[r][Head(queue[r][s]).on] >= Head(queue[r][s]).upto
  BY DEF Ready
<1>2. Going(L, r, program, pos[r], at, queue[r], ran[r])
  BY RankIs
<1>3. PICK q, n : q = queue[r] /\ n = ran[r]
  OBVIOUS
<1>4. q \in Logs /\ n \in [Streams -> Nat]
  BY <1>3, RankIs
<1>5. PICK q2, n2 : q2 = [q EXCEPT ![s] = Tail(@)] /\ n2 = [n EXCEPT ![s] = @ + 1]
  OBVIOUS
<1>6. Steps1(q, n, s, q2, n2)
  BY <1>1, <1>3, <1>4, <1>5 DEF Steps1
<1>7. n[s] + 1 \in 1 .. Len(L[s]) /\ Head(q[s]) = L[s][n[s] + 1] /\ Head(q[s]) \in Ops
  BY <1>1, <1>3, NextIs
<1>8. Free1(L, n, s)
  BY <1>1, <1>3, <1>7 DEF Free1
<1>9. Runs(L, r, program, pos[r], at, q, n, s, q2, n2)
  BY <1>2, <1>3, <1>6, <1>8 DEF Runs
<1>10. QED
  BY <1>1, <1>3, <1>7, <1>9

\* A copy that is still to run is a transfer's that has not sent all its shares.
LEMMA PushIs ==
    ASSUME IInv, NEW r \in Ranks, NEW L, NEW at, Fits(L, at, r), NEW o \in Pushes(r)
    PROVE  \E i \in 1 .. pos[r], s \in Streams, j \in Nat :
              /\ Transfers(program, i) /\ o.call = program[i].call /\ o.win = Filled(program, i)
              /\ o.buf = L[Lane(program[i])][at[i].near + 2].buf
              /\ ~ Closed(program, at, ran[r], i)
              /\ Within(r, program, at, s, j, i) /\ j > ran[r][s] /\ L[s][j] = o /\ j \in 1 .. Len(L[s])
              /\ Role(o, s, j, program[i], at[i].near)
<1>1. o.op = "push" /\ \E s \in Streams : o \in Range(queue[r][s])
  BY DEF Pushes
<1>2. PICK s \in Streams : o \in Range(queue[r][s])
  BY <1>1
<1>3. queue[r][s] \in Seq(Ops)
  BY RankIs DEF Logs
<1>4. PICK h \in 1 .. Len(queue[r][s]) : o = queue[r][s][h]
  BY <1>2, <1>3 DEF Range
<1>5. PICK p, k, q, n : p = program /\ k = pos[r] /\ q = queue[r] /\ n = ran[r]
  OBVIOUS
<1>6. PICK j : j = n[s] + h
  OBVIOUS
<1>7. n[s] \in Nat /\ j \in 1 .. Len(L[s]) /\ j > n[s] /\ o = L[s][j]
  BY <1>4, <1>5, <1>6, LeftIs
<1>8. Going(L, r, p, k, at, q, n)
  BY <1>5, RankIs
<1>9. /\ Contract(p) /\ k \in Nat /\ k <= Len(p) /\ Told(L, r, p, k, at) /\ L \in Logs
  BY <1>8 DEF Going
<1>10. PICK i \in 1 .. k : /\ Within(r, p, at, s, j, i) /\ Transfers(p, i)
                           /\ o.win = Filled(p, i) /\ o.call = p[i].call
                           /\ Role(o, s, j, p[i], at[i].near)
                           /\ o.buf = L[Lane(p[i])][at[i].near + 2].buf
  BY <1>1, <1>7, <1>9, WhoseIs
<1>11. j \in Nat
  <2>1. Len(L[s]) \in Nat
    BY <1>9, LogIs
  <2>2. QED  BY <1>7, <2>1
<1>12. ~ Closed(p, at, n, i)
  BY <1>1, <1>7, <1>8, <1>10, <1>11, ClosedSent
<1>13. QED
  BY <1>5, <1>7, <1>10, <1>11, <1>12

\* ... staging buffers kept until sent, ...
LEMMA StagedFollows == IInv => StagedUntilSent
<1>1. SUFFICES ASSUME IInv, NEW r \in Ranks, Ready(r, "caller", "stage"), NEW o \in Pushes(r),
                      o.buf = Head(queue[r]["caller"]).buf
               PROVE  o.call >= Head(queue[r]["caller"]).call
  BY DEF StagedUntilSent
<1>2. PICK L, at : Fits(L, at, r)
  BY <1>1 DEF IInv
<1>3. PICK p, k, q, n : p = program /\ k = pos[r] /\ q = queue[r] /\ n = ran[r]
  OBVIOUS
<1>4. PICK s, h : s = "caller" /\ h = n[s] + 1
  OBVIOUS
<1>5. s \in Streams /\ "comm" \in Streams
  BY <1>4 DEF Streams
<1>6. PICK q2, n2 : Runs(L, r, p, k, at, q, n, s, q2, n2)
  BY <1>1, <1>2, <1>3, <1>4, <1>5, NextRuns
<1>7. h \in 1 .. Len(L[s]) /\ L[s][h].op = "stage" /\ Head(q[s]) = L[s][h] /\ L[s][h] \in Ops
  BY <1>1, <1>2, <1>3, <1>4, <1>5, NextRuns
<1>8. /\ Going(L, r, p, k, at, q, n) /\ Steps1(q, n, s, q2, n2) /\ Free1(L, n, s)
      /\ Contract(p) /\ k \in Nat /\ k <= Len(p) /\ Told(L, r, p, k, at) /\ L \in Logs
      /\ Leftover(L, q, n) /\ Waited(L, n)
  BY <1>6 DEF Runs, Going
<1>9. PICK i \in 1 .. k : /\ Transfers(p, i) /\ o.call = p[i].call
                          /\ o.buf = L[Lane(p[i])][at[i].near + 2].buf /\ ~ Closed(p, at, n, i)
  BY <1>1, <1>2, <1>3, PushIs
<1>10. L[s][h].buf \in Buffers
  BY <1>5, <1>7, <1>8, SMTT(60) DEF Told, Known
<1>11. p[i].async /\ Lane(p[i]) = "comm" /\ at[i].near \in Nat
  <2>1. Laid(L, r, p, at, i) /\ p[i].async \in BOOLEAN /\ at[i].near \in Nat
    BY <1>1, <1>8, <1>9, TransferIs
  <2>2. L[Lane(p[i])][at[i].near + 2].buf # 0
    <3>1. 0 \notin Buffers
      BY ExchangeAssumption DEF Buffers
    <3>2. QED  BY <1>1, <1>3, <1>4, <1>7, <1>9, <1>10, <3>1
  <2>3. QED  BY <2>1, <2>2 DEF Laid, Lane
<1>12. BufferOf(L, p, at, i) = L[s][h].buf
  BY <1>1, <1>3, <1>4, <1>7, <1>9, <1>11 DEF BufferOf
<1>13. SUFFICES ASSUME p[i].call < L[s][h].call  PROVE FALSE
  <2>1. p[i].call \in Nat /\ L[s][h].call \in Nat
    <3>1. p[i].call \in Calls /\ L[s][h].call \in 0 .. MaxCalls
      BY <1>1, <1>7, <1>8, <1>9, TransferIs, OpIs
    <3>2. QED  BY <3>1, ExchangeAssumption DEF Calls
  <2>2. QED  BY <1>3, <1>4, <1>7, <1>9, <1>13, <2>1, SMTT(60)
<1>14. Restaged(L, p, k, at, n)
  BY <1>2, <1>3 DEF Fits, Fine
<1>15. Closed(p, at, n, i) \/ Before(L, "comm", at[i].near + 3, s, h)
  BY <1>4, <1>7, <1>9, <1>11, <1>12, <1>13, <1>14 DEF Restaged
<1>16. CASE Before(L, "comm", at[i].near + 3, s, h)
  <2>1. PICK t, a : t = "comm" /\ a = at[i].near + 3
    OBVIOUS
  <2>2. t \in Streams /\ a \in Nat /\ Before(L, t, a, s, n[s] + 1) /\ t # s
    BY <1>4, <1>5, <1>11, <1>16, <2>1
  <2>3. a <= n[t]
    BY <1>8, <2>2, FreeBefore
  <2>4. QED  BY <1>9, <1>11, <2>1, <2>3 DEF Closed
<1>17. QED
  BY <1>9, <1>15, <1>16

\* Once a stream has nothing left, the transfers on it have started their last barrier.
LEMMA RunOutCloses ==
    ASSUME NEW L, NEW r, NEW p, NEW k, NEW at, NEW q, NEW n, Going(L, r, p, k, at, q, n),
           NEW i \in 1 .. k, Transfers(p, i), q[Lane(p[i])] = <<>>
    PROVE  Closed(p, at, n, i)
<1>1. /\ Contract(p) /\ r \in Ranks /\ k \in Nat /\ k <= Len(p) /\ Told(L, r, p, k, at)
      /\ L \in Logs /\ q \in Logs /\ n \in [Streams -> Nat] /\ Leftover(L, q, n)
  BY DEF Going
<1>2. PICK a, t, e : a = at[i].near /\ t = Lane(p[i]) /\ e = End(p[i], a)
  OBVIOUS
<1>3. a \in Nat /\ t \in Streams /\ e \in Nat /\ e >= a + 4 /\ e <= Len(L[t])
  BY <1>1, <1>2, TransferIs
<1>4. Len(L[t]) = n[t] /\ n[t] \in Nat
  <2>1. Len(L[t]) = n[t] + Len(q[t]) /\ n[t] \in Nat
    BY <1>1, <1>3, LeftoverIs
  <2>2. Len(q[t]) = 0
    BY <1>2
  <2>3. QED  BY <2>1, <2>2
<1>5. a + 3 <= n[t]
  BY <1>3, <1>4
<1>6. QED
  BY <1>2, <1>5 DEF Closed

\* ... windows kept until all is run out.
LEMMA OutliveFollows == IInv => WindowsOutliveTransfers
<1>1. SUFFICES ASSUME IInv, NEW r \in Ranks, pos[r] > 0, program[pos[r]].do = "destroy",
                      NEW t \in Ranks, NEW s \in Streams, NEW i \in DOMAIN queue[t][s]
               PROVE  queue[t][s][i].op \notin {"arrive", "leave", "push", "copyout"}
  BY DEF WindowsOutliveTransfers
<1>2. PICK p : p = program
  OBVIOUS
<1>3. Contract(p) /\ Drained(p, pos, queue) /\ pos[r] \in Nat /\ pos[r] <= Len(p) /\ pos[t] \in Nat
  BY <1>1, <1>2, RankIs DEF IInv
<1>4. DOMAIN p = 1 .. Len(p) /\ Len(p) \in Nat
  BY <1>3, ProgramIs
<1>5. PICK m \in 1 .. pos[r] - 1 : p[m].do = "meet"
  <2>1. pos[r] \in DOMAIN p
    BY <1>1, <1>3, <1>4
  <2>2. QED  BY <1>1, <1>2, <1>3, <2>1 DEF Contract
<1>6. m \in 1 .. pos[r] /\ m \in DOMAIN p /\ m \in Nat
  BY <1>3, <1>4
<1>7. pos[t] >= m - 1 /\ queue[t]["caller"] = <<>>
  BY <1>3, <1>5, <1>6 DEF Drained
<1>8. PICK d \in 1 .. m - 1 : p[d].do = "drain"
  BY <1>3, <1>5, <1>6, DrainFirst
<1>9. queue[t]["comm"] = <<>>
  <2>1. d \in 1 .. pos[t]
    BY <1>3, <1>6, <1>7
  <2>2. QED  BY <1>3, <1>8, <2>1 DEF Drained
<1>10. queue[t][s] \in Seq(Ops)
  BY <1>1, RankIs DEF Logs
<1>11. s = "xfer"
  <2>1. queue[t][s] # <<>>
    BY <1>1
  <2>2. QED  BY <1>7, <1>9, <2>1 DEF Streams
<1>12. SUFFICES ASSUME queue[t][s][i].op \in {"arrive", "leave", "push", "copyout"}  PROVE FALSE
  OBVIOUS
<1>13. PICK L, at : Fits(L, at, t)
  BY <1>1 DEF IInv
<1>14. PICK j : j = ran[t][s] + i
  OBVIOUS
<1>15. j \in 1 .. Len(L[s]) /\ j > ran[t][s] /\ queue[t][s][i] = L[s][j] /\ ran[t][s] \in Nat
  <2>1. i \in 1 .. Len(queue[t][s])
    BY <1>1, <1>10
  <2>2. QED  BY <1>1, <1>13, <1>14, <2>1, LeftIs
<1>16. PICK k, q, n : k = pos[t] /\ q = queue[t] /\ n = ran[t]
  OBVIOUS
<1>17. Going(L, t, p, k, at, q, n)
  BY <1>1, <1>2, <1>13, <1>16, RankIs
<1>18. Told(L, t, p, k, at) /\ k \in Nat /\ k <= Len(p) /\ L \in Logs
  BY <1>17 DEF Going
<1>19. PICK g \in 1 .. k : /\ Within(t, p, at, s, j, g) /\ Transfers(p, g)
                           /\ Role(L[s][j], s, j, p[g], at[g].near)
  BY <1>1, <1>3, <1>11, <1>15, <1>18, WhoseIs
<1>20. Lane(p[g]) \in {"caller", "comm"}
  BY <1>1, <1>3, <1>18, <1>19, TransferIs
<1>21. Closed(p, at, n, g)
  BY <1>7, <1>9, <1>16, <1>17, <1>19, <1>20, RunOutCloses
<1>22. L[s][j].op = "push" /\ j \in Nat
  <2>1. Len(L[s]) \in Nat
    BY <1>18, LogIs
  <2>2. QED  BY <1>11, <1>15, <1>19, <1>20, <2>1 DEF Role
<1>23. QED
  BY <1>15, <1>16, <1>17, <1>19, <1>21, <1>22, ClosedSent

\* No wait is for an operation that is submitted later, and every value has its type.
THEOREM TypeCorrect == Spec => []TypeOK
BY Inductive, TypesFollow, PTL

\* A staging buffer is written again only when every copy out of it has run.
THEOREM StagedOnce == Spec => []StagedUntilSent
BY Inductive, StagedFollows, PTL

\* A rank is in at most one barrier of a window, on whichever streams its calls are.
THEOREM BarriersApart == Spec => []OneBarrierPerWindow
BY Inductive, OneBarrierFollows, PTL

\* Windows are freed only when no stream of any rank has anything left to do to one.
THEOREM FreedLast == Spec => []WindowsOutliveTransfers
BY Inductive, OutliveFollows, PTL
==============================================================================
