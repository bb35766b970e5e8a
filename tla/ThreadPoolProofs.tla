-------------------------- MODULE ThreadPoolProofs --------------------------
(***************************************************************************)
(* Proofs about ThreadPool, for every pool size, every number of rows and  *)
(* every width of the generation counter: each row is computed once, and   *)
(* no worker outlives the call it works for.                               *)
(***************************************************************************)
EXTENDS ThreadPool, FiniteSetTheorems, TLAPS

-----------------------------------------------------------------------------
(* The partition of the rows *)

\* The shares of all threads together are long enough.
LEMMA ShareFacts ==
  ASSUME NEW rows \in Nat, NEW threads \in Nat \ {0}
  PROVE  /\ RowsPerThread(rows, threads) \in Nat
         /\ threads * RowsPerThread(rows, threads) >= rows
<1> DEFINE sum == rows + threads - 1
<1>1. sum \in Nat
  OBVIOUS
<1>2. /\ sum \div threads \in Nat
      /\ sum % threads \in 0..(threads - 1)
      /\ sum = threads * (sum \div threads) + (sum % threads)
  <2> HIDE DEF sum
  <2> QED BY <1>1
<1>3. QED
  BY <1>2 DEF RowsPerThread

\* A row belongs to at most one thread.
LEMMA SharesDisjoint ==
  ASSUME NEW rows \in Nat, NEW threads \in Nat \ {0},
         NEW t \in Nat, NEW u \in Nat, t # u, PoolAssumption
  PROVE  RowsOf(t, rows, threads) \cap RowsOf(u, rows, threads) = {}
<1> DEFINE share == RowsPerThread(rows, threads)
<1>1. share \in Nat
  BY ShareFacts
<1>2. \A a, b \in Nat : a < b => (a + 1) * share <= b * share
  <2> SUFFICES ASSUME NEW a \in Nat, NEW b \in Nat, a < b
               PROVE  (a + 1) * share <= b * share
    OBVIOUS
  <2> HIDE DEF share
  <2>1. PICK d \in Nat : b = (a + 1) + d
    BY b - (a + 1) \in Nat
  <2>2. b * share = (a + 1) * share + d * share /\ d * share >= 0
    BY <1>1, <2>1
  <2>3. (a + 1) * share \in Nat /\ b * share \in Nat
    BY <1>1
  <2>4. QED
    BY <2>2, <2>3, <1>1
<1>3. SUFFICES ASSUME NEW r \in Row, r \in RowsOf(t, rows, threads),
                      r \in RowsOf(u, rows, threads)
               PROVE  FALSE
  BY DEF RowsOf
<1>4. /\ t * share <= r /\ r < (t + 1) * share
      /\ u * share <= r /\ r < (u + 1) * share
  BY <1>3 DEF RowsOf
<1>5. r \in Nat
  BY PoolAssumption DEF Row, PoolAssumption
<1> HIDE DEF share
<1>6. CASE t < u
  BY <1>1, <1>2, <1>4, <1>5, <1>6
<1>7. CASE u < t
  BY <1>1, <1>2, <1>4, <1>5, <1>7
<1>8. QED
  BY <1>6, <1>7

\* A row belongs to some thread.
LEMMA SharesCover ==
  ASSUME NEW rows \in Nat, NEW threads \in Nat \ {0}, NEW r \in Row, r < rows,
         PoolAssumption
  PROVE  \E t \in 0..(threads - 1) : r \in RowsOf(t, rows, threads)
<1> DEFINE share == RowsPerThread(rows, threads)
           t == r \div share
<1>1. share \in Nat /\ threads * share >= rows /\ r \in Nat
  BY ShareFacts, PoolAssumption DEF Row, PoolAssumption
<1>2. share > 0
  <2>1. share = 0 => threads * share = 0
    <3> HIDE DEF share
    <3> QED OBVIOUS
  <2>2. QED
    <3> HIDE DEF share
    <3> QED BY <1>1, <2>1
<1>3. /\ t \in Nat /\ r % share \in 0..(share - 1)
      /\ r = share * t + (r % share)
  <2> HIDE DEF share
  <2> QED BY <1>1, <1>2
<1>4. t * share <= r /\ r < (t + 1) * share
  <2> HIDE DEF share, t
  <2>1. (t + 1) * share = share * t + share /\ t * share = share * t
    BY <1>1, <1>3
  <2>2. QED
    BY <1>1, <1>3, <2>1
<1>5. t < threads
  <2> HIDE DEF share, t
  <2>1. ASSUME t >= threads PROVE FALSE
    <3>1. PICK d \in Nat : t = threads + d
      BY <1>3, <2>1, t - threads \in Nat
    <3>2. share * t = threads * share + share * d /\ share * d >= 0
      BY <1>1, <1>3, <3>1
    <3>3. share * t \in Nat /\ threads * share \in Nat
      BY <1>1, <1>3
    <3>4. QED
      BY <1>1, <1>3, <3>2, <3>3
  <2>2. QED
    BY <1>3, <2>1
<1>6. r \in RowsOf(t, rows, threads) /\ t \in 0..(threads - 1)
  BY <1>3, <1>4, <1>5 DEF RowsOf
<1>7. QED
  BY <1>6

-----------------------------------------------------------------------------
(* Counting the workers *)

\* The generation moves on, whatever the width of the counter.
LEMMA NextGeneration ==
  ASSUME PoolAssumption, generation \in 0..(Generations - 1)
  PROVE  /\ (generation + 1) % Generations \in 0..(Generations - 1)
         /\ (generation + 1) % Generations # generation
<1>1. CASE generation + 1 < Generations
  BY <1>1 DEF PoolAssumption
<1>2. CASE generation + 1 = Generations
  <2>1. (generation + 1) % Generations = 0
    BY <1>2 DEF PoolAssumption
  <2>2. QED
    BY <1>2, <2>1 DEF PoolAssumption
<1>3. QED
  BY <1>1, <1>2 DEF PoolAssumption

LEMMA LiveFacts ==
  ASSUME PoolAssumption, TypeOK
  PROVE  IsFiniteSet(Live) /\ Cardinality(Live) = nWorkers
<1>1. Live = 1..(nThreads - 1)
  BY DEF Live, Workers, TypeOK, PoolAssumption
<1>2. nThreads - 1 \in Int
  BY DEF TypeOK
<1>3. QED
  BY <1>1, <1>2, FS_Interval DEF nWorkers, TypeOK

LEMMA ReportedFacts ==
  ASSUME PoolAssumption, TypeOK
  PROVE  /\ IsFiniteSet(Reported)
         /\ Cardinality(Reported) \in Nat
         /\ Cardinality(Reported) <= nWorkers
         /\ Cardinality(Reported) = nWorkers => Reported = Live
<1>1. Reported \subseteq Live
  BY DEF Reported
<1>2. QED
  BY <1>1, LiveFacts, FS_Subset, FS_CardinalityType

-----------------------------------------------------------------------------
(* The inductive invariant *)

LEMMA IInvInit == PoolAssumption /\ Init => IInv
<1> SUFFICES ASSUME PoolAssumption, Init PROVE IInv
  OBVIOUS
<1> USE DEF Init, PoolAssumption
<1>1. TypeOK
  <2>1. /\ worker \in [Workers -> WorkerPc]
        /\ seen \in [Workers -> 0..(Generations - 1)]
        /\ taken \in [Workers -> 0..MaxRows]
        /\ runs \in [Row -> Nat]
    BY DEF WorkerPc
  <2>2. initialized \in BOOLEAN /\ shutdown \in BOOLEAN
    BY Zenon
  <2>3. /\ caller \in CallerPc
        /\ minRows \in Nat /\ n \in 0..MaxRows /\ nRows \in 0..MaxRows
    BY DEF CallerPc
  <2>4. /\ nThreads \in 0..MaxThreads /\ done \in 0..MaxThreads
        /\ generation \in 0..(Generations - 1)
    OBVIOUS
  <2>5. QED
    BY <2>1, <2>2, <2>3, <2>4, Zenon DEF TypeOK
<1>2. Live = {}
  BY DEF Live, Workers
<1>3. Pool /\ Generation /\ Counting /\ Shares /\ Calls
  BY <1>2 DEF Pool, Generation, Counting, Shares, Calls, Parallel
<1>4. QED
  BY <1>1, <1>3 DEF IInv

\* What the steps of a call that leave the workers alone share.
LEMMA CallStep ==
  ASSUME PoolAssumption, IInv, NEW rows \in RowCounts, NEW min \in MinRowCounts,
         Call(rows, min)
  PROVE  IInv'
<1> USE DEF Call
<1>1. TypeOK'
  <2>1. runs' \in [Row -> Nat] /\ n' \in 0..MaxRows /\ minRows' \in Nat /\ caller' \in CallerPc
    BY DEF PoolAssumption, CallerPc
  <2>2. QED
    BY <2>1 DEF IInv, TypeOK
<1>2. Live' = Live
  BY DEF Live
<1>3. Pool' /\ Generation'
  BY <1>2 DEF IInv, Pool, Generation, Parallel
<1>4. Counting' /\ Shares' /\ Calls'
  BY DEF Counting, Shares, Calls, Parallel
<1>5. QED
  BY <1>1, <1>3, <1>4 DEF IInv

LEMMA StartStep ==
  ASSUME PoolAssumption, IInv, Start
  PROVE  IInv'
<1> USE DEF Start
<1>1. CASE initialized
  <2>1. TypeOK' /\ Live' = Live
    BY <1>1 DEF IInv, TypeOK, CallerPc, Live
  <2>2. Pool' /\ Generation'
    BY <1>1, <2>1 DEF IInv, Pool, Generation, Parallel
  <2>3. Counting' /\ Shares' /\ Calls'
    BY <1>1 DEF IInv, Counting, Shares, Calls, Parallel
  <2>4. QED
    BY <2>1, <2>2, <2>3 DEF IInv
<1>2. CASE ~initialized
  <2>1. nThreads' \in 1..MaxThreads
    BY <1>2 DEF PoolAssumption
  <2>2. /\ worker' \in [Workers -> WorkerPc]
        /\ seen' \in [Workers -> 0..(Generations - 1)]
        /\ caller' \in CallerPc
        /\ generation' \in 0..(Generations - 1) /\ done' \in 0..MaxThreads
        /\ nThreads' \in 0..MaxThreads
    BY <1>2, <2>1 DEF WorkerPc, CallerPc, PoolAssumption
  <2>3. initialized' \in BOOLEAN /\ shutdown' \in BOOLEAN
    BY <1>2, Zenon
  <2>4. UNCHANGED <<n, minRows, nRows, taken, runs>> /\ TypeOK
    BY DEF IInv
  <2>5. TypeOK'
    BY <2>2, <2>3, <2>4, Zenon DEF TypeOK
  <2>6. Pool'
    BY <1>2, <2>1 DEF Pool, Live, Workers
  <2>7. Generation'
    BY <1>2 DEF Generation, Parallel, Live
  <2>8. Counting' /\ Shares' /\ Calls'
    BY DEF IInv, Counting, Shares, Calls, Parallel
  <2>9. QED
    BY <2>5, <2>6, <2>7, <2>8 DEF IInv
<1>3. QED
  BY <1>1, <1>2

LEMMA StartFailsStep ==
  ASSUME PoolAssumption, IInv, StartFails
  PROVE  IInv'
<1> USE DEF StartFails
<1>1. TypeOK' /\ Live' = Live
  BY DEF IInv, TypeOK, CallerPc, Live
<1>2. Pool' /\ Generation'
  BY <1>1 DEF IInv, Pool, Generation, Parallel
<1>3. Counting' /\ Shares' /\ Calls'
  BY DEF IInv, Counting, Shares, Calls, Parallel
<1>4. QED
  BY <1>1, <1>2, <1>3 DEF IInv

\* The job is published: every worker is now one generation behind, and none of
\* them sleeps.
LEMMA DispatchStep ==
  ASSUME PoolAssumption, IInv, Dispatch
  PROVE  IInv'
<1> USE DEF Dispatch
<1>0. Live' = Live
  BY DEF Live
<1>1. CASE nThreads <= 1 \/ n < minRows
  <2>1. TypeOK'
    BY <1>1 DEF IInv, TypeOK, CallerPc
  <2>2. Pool' /\ Generation'
    BY <1>0, <1>1 DEF IInv, Pool, Generation, Parallel
  <2>3. Counting' /\ Shares' /\ Calls'
    BY <1>1 DEF IInv, Counting, Shares, Calls, Parallel
  <2>4. QED
    BY <2>1, <2>2, <2>3 DEF IInv
<1>2. CASE ~(nThreads <= 1 \/ n < minRows)
  <2>0. nThreads \in Nat /\ nThreads > 1 /\ n \in Nat /\ minRows \in Nat
    BY <1>2 DEF IInv, TypeOK
  <2>1. /\ generation' \in 0..(Generations - 1)
        /\ generation' # generation
    BY <1>2, NextGeneration DEF IInv, TypeOK
  <2>2. TypeOK'
    <3>1. worker' \in [Workers -> WorkerPc] /\ caller' \in CallerPc
          /\ done' \in 0..MaxThreads
      BY <1>2 DEF IInv, TypeOK, WorkerPc, CallerPc, PoolAssumption
    <3>2. QED
      BY <1>2, <2>1, <3>1 DEF IInv, TypeOK
  <2>3. \A t \in Live : /\ seen'[t] = generation /\ seen'[t] # generation'
                        /\ worker'[t] = "check"
    <3>1. \A t \in Live : /\ seen[t] = generation
                          /\ worker[t] \in {"check", "sleep"}
      BY DEF IInv, Pool, Generation, Parallel, TypeOK, WorkerPc, Live
    <3>2. QED
      BY <1>2, <2>1, <3>1 DEF Live
  <2>4. Pool'
    BY <1>0, <1>2, <2>3 DEF IInv, Pool
  <2>5. Generation'
    BY <1>0, <1>2, <2>3 DEF IInv, Generation, Parallel
  <2>6. Counting'
    <3>1. Reported' = {}
      BY <1>0, <2>3 DEF Reported
    <3>2. QED
      BY <1>2, <3>1, FS_EmptySet DEF Counting
  <2>7. Shares'
    <3>1. \A t \in 0..(nThreads' - 1) : ~HasRun(t)'
      <4> SUFFICES ASSUME NEW t \in 0..(nThreads - 1) PROVE ~HasRun(t)'
        BY <1>2
      <4>1. CASE t = 0
        BY <1>2, <4>1 DEF HasRun
      <4>2. CASE t # 0
        <5>1. t \in Live
          BY <2>0, <4>2 DEF Live, Workers, IInv, TypeOK, PoolAssumption
        <5>2. QED
          BY <2>3, <4>2, <5>1 DEF HasRun
      <4>3. QED
        BY <4>1, <4>2
    <3>2. \A r \in Row : runs'[r] = 0
      BY DEF IInv, Calls
    <3>3. QED
      BY <1>0, <1>2, <2>0, <2>3, <3>1, <3>2 DEF Shares
  <2>8. Calls'
    BY <1>2 DEF Calls
  <2>9. QED
    BY <2>2, <2>4, <2>5, <2>6, <2>7, <2>8 DEF IInv
<1>3. QED
  BY <1>1, <1>2

\* A thread that runs its share for the first time runs on rows nobody else has.
LEMMA OwnShare ==
  ASSUME PoolAssumption, IInv, Parallel,
         NEW u \in 0..(nThreads - 1), ~HasRun(u),
         NEW r \in RowsOf(u, n, nThreads)
  PROVE  r \in Row /\ runs[r] = 0
<1>1. r \in Row
  BY DEF RowsOf
<1>2. nThreads \in Nat \ {0} /\ n \in Nat
  BY DEF IInv, TypeOK, Shares
<1>3. \A t \in 0..(nThreads - 1) : r \in RowsOf(t, n, nThreads) => t = u
  BY <1>2, SharesDisjoint
<1>4. QED
  BY <1>1, <1>3 DEF IInv, Shares

\* The caller runs the whole of a small job, or the share of thread 0.
LEMMA CallerRowsStep ==
  ASSUME PoolAssumption, IInv, CallerRows
  PROVE  IInv'
<1> USE DEF CallerRows
<1>0. Live' = Live
  BY DEF Live
<1>1. runs' \in [Row -> Nat]
  BY DEF Run, IInv, TypeOK
<1>2. TypeOK'
  BY <1>1 DEF IInv, TypeOK, CallerPc
<1>3. Pool' /\ Generation'
  BY <1>0 DEF IInv, Pool, Generation, Parallel
<1>4. CASE caller = "serial"
  <2>1. \A r \in Row : runs'[r] = IF r < n THEN 1 ELSE 0
    BY <1>4 DEF Run, IInv, Calls
  <2>2. Counting' /\ Shares' /\ Calls'
    BY <1>4, <2>1 DEF Counting, Shares, Calls, Parallel
  <2>3. QED
    BY <1>2, <1>3, <2>2 DEF IInv
<1>5. CASE caller = "rows"
  <2>1. Counting'
    BY <1>0, <1>5 DEF IInv, Counting, Reported, Parallel, nWorkers
  <2>2. Shares'
    <3> DEFINE mine == RowsOf(0, n, nThreads)
    <3>0. nThreads > 1 /\ nRows = n /\ nThreads \in Nat
      BY <1>5 DEF IInv, Shares, Parallel, TypeOK
    <3>1. 0 \in 0..(nThreads - 1) /\ ~HasRun(0) /\ HasRun(0)'
      BY <1>5, <3>0 DEF HasRun
    <3>2. \A t \in 0..(nThreads - 1) : t # 0 => HasRun(t)' = HasRun(t)
      BY DEF HasRun
    <3>3. \A r \in Row : r \in mine => runs[r] = 0
      BY <1>5, <3>1, OwnShare DEF Parallel
    <3>4. \A r \in Row : runs'[r] = IF r \in mine THEN 1 ELSE runs[r]
      BY <1>5, <3>3 DEF Run
    <3>5. \A r \in Row :
            (\E t \in 0..(nThreads - 1) : HasRun(t)' /\ r \in RowsOf(t, n, nThreads))
            <=> \/ r \in mine
                \/ \E t \in 0..(nThreads - 1) : HasRun(t) /\ r \in RowsOf(t, n, nThreads)
      BY <3>1, <3>2
    <3>6. \A r \in Row :
            runs[r] = IF \E t \in 0..(nThreads - 1) : HasRun(t) /\ r \in RowsOf(t, n, nThreads)
                      THEN 1 ELSE 0
      BY <1>5 DEF IInv, Shares, Parallel
    <3>7. \A r \in Row :
            runs'[r] = IF \E t \in 0..(nThreads - 1) : HasRun(t)' /\ r \in RowsOf(t, n, nThreads)
                       THEN 1 ELSE 0
      <4> HIDE DEF mine
      <4> QED BY <3>4, <3>5, <3>6
    <3>8. n' = n /\ nThreads' = nThreads /\ nRows' = nRows
          /\ worker' = worker /\ taken' = taken
      OBVIOUS
    <3>9. \A t \in Live : worker[t] = "rows" => taken[t] = n
      BY <1>5 DEF IInv, Shares, Parallel
    <3>10. QED
      BY <1>0, <3>0, <3>7, <3>8, <3>9 DEF Shares, RowsOf
  <2>3. Calls'
    BY <1>5 DEF Calls
  <2>4. QED
    BY <1>2, <1>3, <2>1, <2>2, <2>3 DEF IInv
<1>6. QED
  BY <1>4, <1>5

\* Everybody has reported: every share has been run, and the shares cover the
\* rows.
LEMMA WaitDoneStep ==
  ASSUME PoolAssumption, IInv, WaitDone
  PROVE  IInv'
<1> USE DEF WaitDone
<1>0. Live' = Live
  BY DEF Live
<1>1. TypeOK'
  BY DEF IInv, TypeOK, CallerPc
<1>2. CASE done < nWorkers
  <2>1. Pool' /\ Generation' /\ Calls'
    BY <1>0, <1>2 DEF IInv, Pool, Generation, Calls, Parallel
  <2>2. Counting'
    BY <1>0, <1>2 DEF IInv, Counting, Reported, Parallel, nWorkers
  <2>3. \A t \in 0..(nThreads - 1) : HasRun(t)' = HasRun(t)
    BY <1>2 DEF HasRun
  <2>4. Parallel /\ Shares
    BY DEF IInv, Parallel
  <2>5. Shares'
    BY <1>0, <2>3, <2>4 DEF Shares, RowsOf
  <2>6. QED
    BY <1>1, <2>1, <2>2, <2>5 DEF IInv
<1>3. CASE ~(done < nWorkers)
  <2>1. Reported = Live
    <3>1. done = Cardinality(Reported) /\ nWorkers \in Nat
      BY DEF IInv, Counting, Parallel, nWorkers, TypeOK
    <3>2. QED
      BY <1>3, <3>1, ReportedFacts DEF IInv
  <2>2. \A t \in Live : seen[t] = generation /\ worker[t] \in {"check", "sleep"}
    BY <2>1 DEF Reported
  <2>3. Pool' /\ Generation'
    BY <1>0, <1>3, <2>2 DEF IInv, Pool, Generation, Parallel
  <2>4. nThreads > 1 /\ nThreads \in Nat \ {0} /\ n \in Nat
    BY DEF IInv, Shares, Parallel, TypeOK
  <2>5. \A t \in 0..(nThreads - 1) : HasRun(t)
    <3> SUFFICES ASSUME NEW t \in 0..(nThreads - 1) PROVE HasRun(t)
      OBVIOUS
    <3>1. t # 0 => t \in Live
      BY <2>4 DEF Live, Workers, IInv, TypeOK, PoolAssumption
    <3>2. QED
      BY <2>2, <3>1 DEF HasRun
  <2>6. \A r \in Row : r < n => \E t \in 0..(nThreads - 1) : r \in RowsOf(t, n, nThreads)
    BY <2>4, SharesCover
  <2>7. \A r \in Row : runs[r] \in {0, 1} /\ (r < n => runs[r] = 1)
    BY <2>5, <2>6 DEF IInv, Shares, Parallel
  <2>8. Counting' /\ Shares' /\ Calls'
    BY <1>3, <2>7 DEF Counting, Shares, Calls, Parallel
  <2>9. QED
    BY <1>1, <2>3, <2>8 DEF IInv
<1>4. QED
  BY <1>2, <1>3

LEMMA ReturnStep ==
  ASSUME PoolAssumption, IInv, Return
  PROVE  IInv'
<1> USE DEF Return
<1>1. TypeOK' /\ Live' = Live
  BY DEF IInv, TypeOK, CallerPc, Live
<1>2. Pool' /\ Generation'
  BY <1>1 DEF IInv, Pool, Generation, Parallel
<1>3. Counting' /\ Shares' /\ Calls'
  BY DEF IInv, Counting, Shares, Calls, Parallel
<1>4. QED
  BY <1>1, <1>2, <1>3 DEF IInv

LEMMA ShutdownStep ==
  ASSUME PoolAssumption, IInv, Shutdown
  PROVE  IInv'
<1> USE DEF Shutdown
<1>1. Live' = Live
  BY DEF Live
<1>2. TypeOK'
  <2>1. worker' \in [Workers -> WorkerPc] /\ caller' \in CallerPc
        /\ generation' \in 0..(Generations - 1)
    BY NextGeneration DEF IInv, TypeOK, WorkerPc, CallerPc
  <2>2. shutdown' \in BOOLEAN
    BY Zenon
  <2>3. UNCHANGED <<n, minRows, initialized, nThreads, done, nRows, seen, taken, runs>>
    OBVIOUS
  <2>4. QED
    BY <2>1, <2>2, <2>3, Zenon DEF IInv, TypeOK
<1>3. \A t \in Workers : worker'[t] = IF worker[t] = "sleep" THEN "check" ELSE worker[t]
  OBVIOUS
<1>4. Pool'
  BY <1>1, <1>3 DEF IInv, Pool, Live
<1>5. Generation'
  BY <1>1, <1>3 DEF IInv, Generation, Live, Parallel
<1>6. Counting' /\ Shares' /\ Calls'
  BY DEF IInv, Counting, Shares, Calls, Parallel
<1>7. QED
  BY <1>2, <1>4, <1>5, <1>6 DEF IInv

LEMMA JoinStep ==
  ASSUME PoolAssumption, IInv, Join
  PROVE  IInv'
<1> USE DEF Join
<1>1. Live' = {}
  BY DEF Live, Workers
<1>2. TypeOK'
  <2>1. /\ caller' \in CallerPc /\ nThreads' \in 0..MaxThreads
        /\ generation' \in 0..(Generations - 1)
        /\ done' \in 0..MaxThreads /\ nRows' \in 0..MaxRows
    BY DEF PoolAssumption, CallerPc
  <2>2. initialized' \in BOOLEAN /\ shutdown' \in BOOLEAN
    BY Zenon
  <2>3. UNCHANGED <<n, minRows, worker, seen, taken, runs>>
    OBVIOUS
  <2>4. QED
    BY <2>1, <2>2, <2>3, Zenon DEF IInv, TypeOK
<1>3. Pool'
  <2>1. \A t \in Workers : worker[t] \in {"none", "gone"}
    <3> SUFFICES ASSUME NEW t \in Workers PROVE worker[t] \in {"none", "gone"}
      OBVIOUS
    <3>1. nThreads \in Nat /\ t \in Nat
      BY DEF IInv, TypeOK, Workers
    <3>2. CASE t < nThreads
      BY <3>2 DEF Live
    <3>3. CASE t >= nThreads
      BY <3>3 DEF IInv, Pool
    <3>4. QED
      BY <3>1, <3>2, <3>3
  <2>2. QED
    BY <1>1, <2>1 DEF Pool
<1>4. Generation' /\ Counting' /\ Shares' /\ Calls'
  BY <1>1 DEF IInv, Generation, Counting, Shares, Calls, Parallel
<1>5. QED
  BY <1>2, <1>3, <1>4 DEF IInv

\* A worker goes to sleep, takes the job, or leaves.
LEMMA WorkerTakeStep ==
  ASSUME PoolAssumption, IInv, NEW t \in Workers, WorkerTake(t)
  PROVE  IInv'
<1> USE DEF WorkerTake
<1>0. Live' = Live
  BY DEF Live
<1>1. t \in Live
  <2>1. nThreads \in Nat /\ t \in Nat
    BY DEF IInv, TypeOK, Workers
  <2>2. ~(t >= nThreads)
    BY DEF IInv, Pool
  <2>3. QED
    BY <2>1, <2>2 DEF Live
<1>2. TypeOK'
  <2>1. worker' \in [Workers -> WorkerPc]
    BY DEF IInv, TypeOK, WorkerPc
  <2>2. /\ seen' \in [Workers -> 0..(Generations - 1)]
        /\ taken' \in [Workers -> 0..MaxRows]
    BY DEF IInv, TypeOK
  <2>3. QED
    BY <2>1, <2>2 DEF IInv, TypeOK
<1>3. CASE shutdown
  <2>1. \A u \in Workers : worker'[u] = IF u = t THEN "gone" ELSE worker[u]
    BY <1>3 DEF IInv, TypeOK
  <2>2. caller = "join" /\ UNCHANGED <<seen, taken>>
    BY <1>3 DEF IInv, Pool
  <2>3. Pool' /\ Generation'
    BY <1>0, <1>1, <1>3, <2>1, <2>2 DEF IInv, Pool, Generation, Live, Parallel
  <2>4. Counting' /\ Shares' /\ Calls'
    BY <2>2 DEF IInv, Counting, Shares, Calls, Parallel
  <2>5. QED
    BY <1>2, <2>3, <2>4 DEF IInv
<1>4. CASE ~shutdown /\ seen[t] = generation
  <2>1. \A u \in Workers : worker'[u] = IF u = t THEN "sleep" ELSE worker[u]
    BY <1>4 DEF IInv, TypeOK
  <2>2. UNCHANGED <<seen, taken>>
    BY <1>4
  <2>3. Pool' /\ Generation'
    BY <1>0, <1>1, <1>4, <2>1, <2>2 DEF IInv, Pool, Generation, Live, Parallel
  <2>4. Reported' = Reported
    BY <1>0, <2>1, <2>2 DEF Reported, Live
  <2>5. Counting'
    BY <2>4 DEF IInv, Counting, Parallel, nWorkers
  <2>6. \A u \in 0..(nThreads - 1) : HasRun(u)' = HasRun(u)
    <3> SUFFICES ASSUME NEW u \in 0..(nThreads - 1) PROVE HasRun(u)' = HasRun(u)
      OBVIOUS
    <3>1. u # 0 => u \in Workers
      BY DEF Workers, IInv, TypeOK, PoolAssumption
    <3>2. QED
      BY <2>1, <2>2, <3>1 DEF HasRun
  <2>7. Shares'
    <3>1. \A u \in Live : worker'[u] = "rows" => worker[u] = "rows"
      BY <2>1 DEF Live
    <3>2. QED
      BY <1>0, <2>2, <2>6, <3>1 DEF IInv, Shares, Parallel, RowsOf
  <2>8. Calls'
    BY DEF IInv, Calls
  <2>9. QED
    BY <1>2, <2>3, <2>5, <2>7, <2>8 DEF IInv
<1>5. CASE ~shutdown /\ seen[t] # generation
  <2>1. /\ \A u \in Workers : worker'[u] = IF u = t THEN "rows" ELSE worker[u]
        /\ \A u \in Workers : seen'[u] = IF u = t THEN generation ELSE seen[u]
        /\ \A u \in Workers : taken'[u] = IF u = t THEN nRows ELSE taken[u]
    BY <1>5 DEF IInv, TypeOK
  <2>2. Parallel
    BY <1>1, <1>5 DEF IInv, Generation, Pool, Parallel
  <2>3. Pool' /\ Generation'
    BY <1>0, <1>1, <1>5, <2>1, <2>2 DEF IInv, Pool, Generation, Live, Parallel
  <2>4. Reported' = Reported
    BY <1>0, <1>5, <2>1 DEF Reported, Live
  <2>5. Counting'
    BY <2>4 DEF IInv, Counting, Parallel, nWorkers
  <2>6. \A u \in 0..(nThreads - 1) : HasRun(u)' = HasRun(u)
    <3> SUFFICES ASSUME NEW u \in 0..(nThreads - 1) PROVE HasRun(u)' = HasRun(u)
      OBVIOUS
    <3>1. u # 0 => u \in Workers
      BY DEF Workers, IInv, TypeOK, PoolAssumption
    <3>2. QED
      BY <1>5, <2>1, <3>1 DEF HasRun
  <2>7. Shares'
    <3>1. \A u \in Live : worker'[u] = "rows" => taken'[u] = n
      BY <2>1, <2>2 DEF Live, IInv, Shares
    <3>2. QED
      BY <1>0, <2>2, <2>6, <3>1 DEF IInv, Shares, Parallel, RowsOf
  <2>8. Calls'
    BY DEF IInv, Calls
  <2>9. QED
    BY <1>2, <2>3, <2>5, <2>7, <2>8 DEF IInv
<1>6. QED
  BY <1>3, <1>4, <1>5

\* A worker that runs or reports is a live one, in a call.
LEMMA Busy ==
  ASSUME PoolAssumption, IInv, NEW t \in Workers, worker[t] \in {"rows", "report"}
  PROVE  /\ t \in Live /\ t \in 0..(nThreads - 1) /\ t # 0
         /\ Parallel /\ seen[t] = generation
<1>1. nThreads \in Nat /\ t \in Nat /\ t # 0
  BY DEF IInv, TypeOK, Workers
<1>2. ~(t >= nThreads)
  BY DEF IInv, Pool
<1>3. t \in Live
  BY <1>1, <1>2 DEF Live
<1>4. QED
  BY <1>1, <1>2, <1>3 DEF IInv, Generation

LEMMA WorkerRowsStep ==
  ASSUME PoolAssumption, IInv, NEW t \in Workers, WorkerRows(t)
  PROVE  IInv'
<1> USE DEF WorkerRows
<1>0. Live' = Live
  BY DEF Live
<1>1. /\ t \in Live /\ t \in 0..(nThreads - 1) /\ t # 0
      /\ Parallel /\ seen[t] = generation
  BY Busy
<1>2. TypeOK'
  <2>1. worker' \in [Workers -> WorkerPc] /\ runs' \in [Row -> Nat]
    BY DEF IInv, TypeOK, WorkerPc, Run
  <2>2. QED
    BY <2>1 DEF IInv, TypeOK
<1>3. \A u \in Workers : worker'[u] = IF u = t THEN "report" ELSE worker[u]
  BY DEF IInv, TypeOK
<1>4. Pool' /\ Generation'
  BY <1>0, <1>1, <1>3 DEF IInv, Pool, Generation, Live, Parallel
<1>5. Counting'
  <2>1. Reported' = Reported
    BY <1>0, <1>3 DEF Reported, Live
  <2>2. QED
    BY <2>1 DEF IInv, Counting, Parallel, nWorkers
<1>6. Shares'
  <2> DEFINE mine == RowsOf(t, n, nThreads)
  <2>0. taken[t] = n
    BY <1>1 DEF IInv, Shares
  <2>1. ~HasRun(t) /\ HasRun(t)'
    BY <1>1, <1>3 DEF HasRun
  <2>2. \A u \in 0..(nThreads - 1) : u # t => HasRun(u)' = HasRun(u)
    <3> SUFFICES ASSUME NEW u \in 0..(nThreads - 1), u # t PROVE HasRun(u)' = HasRun(u)
      OBVIOUS
    <3>1. u # 0 => u \in Workers
      BY DEF Workers, IInv, TypeOK, PoolAssumption
    <3>2. QED
      BY <1>3, <3>1 DEF HasRun
  <2>3. \A r \in Row : r \in mine => runs[r] = 0
    BY <1>1, <2>1, OwnShare
  <2>4. \A r \in Row : runs'[r] = IF r \in mine THEN 1 ELSE runs[r]
    BY <2>0, <2>3 DEF Run
  <2>5. \A r \in Row :
          (\E u \in 0..(nThreads - 1) : HasRun(u)' /\ r \in RowsOf(u, n, nThreads))
          <=> \/ r \in mine
              \/ \E u \in 0..(nThreads - 1) : HasRun(u) /\ r \in RowsOf(u, n, nThreads)
    BY <1>1, <2>1, <2>2
  <2>6. \A r \in Row :
          runs[r] = IF \E u \in 0..(nThreads - 1) : HasRun(u) /\ r \in RowsOf(u, n, nThreads)
                    THEN 1 ELSE 0
    BY <1>1 DEF IInv, Shares
  <2>7. \A r \in Row :
          runs'[r] = IF \E u \in 0..(nThreads - 1) : HasRun(u)' /\ r \in RowsOf(u, n, nThreads)
                     THEN 1 ELSE 0
    <3> HIDE DEF mine
    <3> QED BY <2>4, <2>5, <2>6
  <2>8. n' = n /\ nThreads' = nThreads /\ nRows' = nRows /\ taken' = taken
    OBVIOUS
  <2>9. nThreads > 1 /\ nRows = n /\ \A u \in Live : worker'[u] = "rows" => taken[u] = n
    BY <1>1, <1>3 DEF IInv, Shares, Live
  <2>10. QED
    BY <1>0, <2>7, <2>8, <2>9 DEF Shares, RowsOf
<1>7. Calls'
  BY <1>1 DEF Calls, Parallel
<1>8. QED
  BY <1>2, <1>4, <1>5, <1>6, <1>7 DEF IInv

\* One more has reported; a caller that sleeps is woken by the last.
LEMMA WorkerReportStep ==
  ASSUME PoolAssumption, IInv, NEW t \in Workers, WorkerReport(t)
  PROVE  IInv'
<1> USE DEF WorkerReport
<1>0. Live' = Live /\ nWorkers' = nWorkers
  BY DEF Live, nWorkers
<1>1. /\ t \in Live /\ t \in 0..(nThreads - 1) /\ t # 0
      /\ Parallel /\ seen[t] = generation
  BY Busy
<1>2. \A u \in Workers : worker'[u] = IF u = t THEN "check" ELSE worker[u]
  BY DEF IInv, TypeOK
<1>3. Reported' = Reported \cup {t} /\ t \notin Reported
  BY <1>0, <1>1, <1>2 DEF Reported, Live
<1>4. /\ done' = Cardinality(Reported)' /\ done' <= nWorkers
      /\ done' \in Nat /\ nWorkers \in Nat /\ nWorkers <= MaxThreads
  <2>1. done = Cardinality(Reported)
    BY <1>1 DEF IInv, Counting
  <2>2. IsFiniteSet(Reported) /\ Cardinality(Reported) \in Nat
    BY ReportedFacts DEF IInv
  <2>3. Cardinality(Reported') = Cardinality(Reported) + 1
    BY <1>3, <2>2, FS_AddElement
  <2>4. Reported' \subseteq Live
    BY <1>0 DEF Reported
  <2>5. Cardinality(Reported') <= nWorkers
    BY <2>4, LiveFacts, FS_Subset DEF IInv
  <2>6. nWorkers \in Nat /\ nWorkers <= MaxThreads
    BY DEF IInv, TypeOK, nWorkers, PoolAssumption
  <2>7. QED
    BY <2>1, <2>2, <2>3, <2>5, <2>6
<1>5. TypeOK'
  <2>1. worker' \in [Workers -> WorkerPc] /\ caller' \in CallerPc
    BY DEF IInv, TypeOK, WorkerPc, CallerPc
  <2>2. done' \in 0..MaxThreads
    BY <1>4 DEF PoolAssumption
  <2>3. QED
    BY <2>1, <2>2 DEF IInv, TypeOK
<1>6. Parallel' /\ (caller' = "rows" <=> caller = "rows")
  BY <1>1 DEF Parallel
<1>7. Pool'
  BY <1>0, <1>1, <1>2, <1>6 DEF IInv, Pool, Live, Parallel
<1>8. Generation'
  BY <1>0, <1>1, <1>2, <1>6 DEF IInv, Generation, Live, Parallel
<1>9. Counting'
  BY <1>0, <1>4 DEF Counting
<1>10. Shares'
  <2>1. \A u \in 0..(nThreads - 1) : HasRun(u)' = HasRun(u)
    <3> SUFFICES ASSUME NEW u \in 0..(nThreads - 1) PROVE HasRun(u)' = HasRun(u)
      OBVIOUS
    <3>1. u # 0 => u \in Workers
      BY DEF Workers, IInv, TypeOK, PoolAssumption
    <3>2. QED
      BY <1>2, <1>6, <3>1 DEF HasRun
  <2>2. \A u \in Live : worker'[u] = "rows" => worker[u] = "rows"
    BY <1>2 DEF Live
  <2>3. QED
    BY <1>0, <1>1, <2>1, <2>2 DEF IInv, Shares, RowsOf
<1>11. Calls'
  BY <1>6 DEF Calls, Parallel
<1>12. QED
  BY <1>5, <1>7, <1>8, <1>9, <1>10, <1>11 DEF IInv

LEMMA SpuriousWakeupStep ==
  ASSUME PoolAssumption, IInv, SpuriousWakeup
  PROVE  IInv'
<1> USE DEF SpuriousWakeup
<1>0. Live' = Live
  BY DEF Live
<1>1. TypeOK'
  <2>1. worker' \in [Workers -> WorkerPc] /\ caller' \in CallerPc
    BY DEF IInv, TypeOK, WorkerPc, CallerPc
  <2>2. QED
    BY <2>1 DEF IInv, TypeOK
<1>2. /\ \A u \in Workers : \/ worker'[u] = worker[u]
                            \/ worker[u] = "sleep" /\ worker'[u] = "check"
      /\ \/ caller' = caller
         \/ caller = "sleep" /\ caller' = "check"
  <2>1. CASE caller = "sleep" /\ caller' = "check" /\ UNCHANGED worker
    BY <2>1
  <2>2. CASE \E t \in Workers : /\ worker[t] = "sleep"
                                /\ worker' = [worker EXCEPT ![t] = "check"]
                                /\ UNCHANGED caller
    <3>1. PICK t \in Workers : /\ worker[t] = "sleep"
                               /\ worker' = [worker EXCEPT ![t] = "check"]
                               /\ caller' = caller
      BY <2>2
    <3>2. \A u \in Workers : worker'[u] = IF u = t THEN "check" ELSE worker[u]
      BY <3>1 DEF IInv, TypeOK
    <3>3. QED
      BY <3>1, <3>2
  <2>3. QED
    BY <2>1, <2>2
<1>3. Pool' /\ Generation'
  BY <1>0, <1>2 DEF IInv, Pool, Generation, Live, Parallel
<1>4. Counting'
  <2>1. Reported' = Reported
    BY <1>0, <1>2 DEF Reported, Live
  <2>2. QED
    BY <1>2, <2>1 DEF IInv, Counting, Parallel, nWorkers
<1>5. Shares'
  <2>1. \A u \in 0..(nThreads - 1) : HasRun(u)' = HasRun(u)
    <3> SUFFICES ASSUME NEW u \in 0..(nThreads - 1) PROVE HasRun(u)' = HasRun(u)
      OBVIOUS
    <3>1. u # 0 => u \in Workers
      BY DEF Workers, IInv, TypeOK, PoolAssumption
    <3>2. QED
      BY <1>2, <3>1 DEF HasRun
  <2>2. \A u \in Live : worker'[u] = "rows" => worker[u] = "rows"
    BY <1>2 DEF Live
  <2>3. QED
    BY <1>0, <1>2, <2>1, <2>2 DEF IInv, Shares, Parallel, RowsOf
<1>6. Calls'
  BY <1>2 DEF IInv, Calls
<1>7. QED
  BY <1>1, <1>3, <1>4, <1>5, <1>6 DEF IInv

LEMMA IInvNext == PoolAssumption /\ IInv /\ [Next]_vars => IInv'
<1> SUFFICES ASSUME PoolAssumption, IInv, [Next]_vars PROVE IInv'
  OBVIOUS
<1>1. ASSUME NEW rows \in RowCounts, NEW min \in MinRowCounts, Call(rows, min)
      PROVE  IInv'
  BY <1>1, CallStep
<1>2. CASE Caller
  BY <1>2, StartStep, StartFailsStep, DispatchStep, CallerRowsStep, WaitDoneStep,
     ReturnStep, JoinStep DEF Caller
<1>3. CASE Shutdown
  BY <1>3, ShutdownStep
<1>4. ASSUME NEW t \in Workers, Worker(t) PROVE IInv'
  BY <1>4, WorkerTakeStep, WorkerRowsStep, WorkerReportStep DEF Worker
<1>5. CASE SpuriousWakeup
  BY <1>5, SpuriousWakeupStep
<1>6. CASE Ended \/ UNCHANGED vars
  <2>1. UNCHANGED vars
    BY <1>6 DEF Ended
  <2>2. TypeOK' /\ Pool' /\ Generation'
    BY <2>1 DEF vars, IInv, TypeOK, Pool, Generation, Live, Parallel
  <2>3. Counting' /\ Shares' /\ Calls'
    BY <2>1 DEF vars, IInv, Counting, Shares, Calls, Live, Parallel, Reported,
                HasRun, RowsOf, nWorkers
  <2>4. QED
    BY <2>2, <2>3 DEF IInv
<1>7. QED
  BY <1>1, <1>2, <1>3, <1>4, <1>5, <1>6 DEF Next

\* ds4_util.c: what holds of the pool between any two critical sections.
THEOREM IInvAlways == Spec => []IInv
<1>1. Init => IInv
  BY IInvInit, PoolAssumption
<1>2. IInv /\ [Next]_vars => IInv'
  BY IInvNext, PoolAssumption
<1>3. QED
  BY <1>1, <1>2, PTL DEF Spec

\* The fields of g_pool and the threads' counters keep their types; done never
\* exceeds the number of threads.
THEOREM TypeCorrect == Spec => []TypeOK
<1>1. IInv => TypeOK
  BY DEF IInv
<1>2. QED
  BY <1>1, IInvAlways, PTL

\* ds4_worker_main() runs a kernel's function only while the call that owns the
\* context is on the caller's stack, and on the rows of that call.
THEOREM ContextNeverOutlived == Spec => []NoWorkerBehind
<1>1. IInv => NoWorkerBehind
  <2> SUFFICES ASSUME IInv, NEW t \in Workers, worker[t] = "rows"
               PROVE  caller \in {"rows", "check", "sleep"} /\ taken[t] = n
    BY DEF NoWorkerBehind
  <2>1. t \in Live /\ Parallel
    BY Busy, PoolAssumption
  <2>2. QED
    BY <2>1 DEF IInv, Shares, Parallel
<1>2. QED
  BY <1>1, IInvAlways, PTL

\* ds4_parallel_for_min_rows() runs the function exactly once on every row, for
\* every number of rows and every number of threads.
THEOREM EveryRowOnce == Spec => []RowsOnce
<1>1. IInv => RowsOnce
  <2> SUFFICES ASSUME IInv PROVE RowsOnce
    OBVIOUS
  <2>1. \A r \in Row : runs[r] \in {0, 1}
    <3>1. CASE Parallel
      BY <3>1 DEF IInv, Shares
    <3>2. CASE ~Parallel
      BY <3>2 DEF IInv, TypeOK, CallerPc, Calls, Parallel
    <3>3. QED
      BY <3>1, <3>2
  <2>2. QED
    BY <2>1 DEF IInv, Calls, RowsOnce
<1>2. QED
  BY <1>1, IInvAlways, PTL

\* A worker or a caller sleeps only when the signal it needs is still to come.
THEOREM PoolWakeupsNotLost == Spec => []NoLostWakeup
<1>1. IInv => NoLostWakeup
  <2> SUFFICES ASSUME IInv PROVE NoLostWakeup
    OBVIOUS
  <2>1. ASSUME NEW t \in Workers, worker[t] = "sleep"
        PROVE  seen[t] = generation /\ ~shutdown
    <3>1. nThreads \in Nat /\ t \in Nat
      BY DEF IInv, TypeOK, Workers
    <3>2. ~(t >= nThreads)
      BY <2>1 DEF IInv, Pool
    <3>3. t \in Live
      BY <3>1, <3>2 DEF Live
    <3>4. QED
      BY <2>1, <3>3 DEF IInv, Generation
  <2>2. QED
    BY <2>1 DEF IInv, Counting, NoLostWakeup
<1>2. QED
  BY <1>1, IInvAlways, PTL

\* ds4_threads_shutdown() leaves no worker behind that could touch the memory of
\* the pool.
THEOREM ReleasedAfterJoin == Spec => []PoolReleased
<1>1. IInv => PoolReleased
  <2> SUFFICES ASSUME IInv, ~initialized, NEW t \in Workers
               PROVE  worker[t] \in {"none", "gone"}
    BY DEF PoolReleased
  <2>1. nThreads = 0 /\ t >= nThreads
    BY DEF IInv, Pool, TypeOK, Workers
  <2>2. QED
    BY <2>1 DEF IInv, Pool
<1>2. QED
  BY <1>1, IInvAlways, PTL

-----------------------------------------------------------------------------
(* The pool implements the parallel loop *)

\* A thread that runs rows nobody has run yet is one step of the loop.
LEMMA RunIsCompute ==
  ASSUME PoolAssumption, NEW S \in SUBSET Row, Run(S),
         \A r \in S : r < n /\ runs[r] = 0,
         caller \notin {"idle", "join"}, caller' \notin {"idle", "join"}, n' = n
  PROVE  Loop!Next
<1>1. runs' = [r \in Row |-> IF r \in S THEN 1 ELSE runs[r]]
  BY DEF Run, Row
<1>2. Loop!Compute(S)
  BY <1>1 DEF Loop!Compute, Loop!Row, Row
<1>3. QED
  BY <1>2 DEF Loop!Next, Loop!Row, Row

LEMMA LoopStep ==
  ASSUME PoolAssumption, IInv, [Next]_vars
  PROVE  [Loop!Next]_(Loop!vars)
<1> USE DEF Loop!vars
<1>1. ASSUME NEW rows \in RowCounts, NEW min \in MinRowCounts, Call(rows, min)
      PROVE  Loop!Next
  BY <1>1 DEF Call, Loop!Next, Loop!Call, Loop!Row, Row
<1>2. CASE Start \/ StartFails \/ Dispatch \/ WaitDone
  BY <1>2 DEF Start, StartFails, Dispatch, WaitDone
<1>3. CASE CallerRows
  <2>1. CASE caller = "serial"
    <3> DEFINE S == {r \in Row : r < n}
    <3>1. \A r \in S : r < n /\ runs[r] = 0
      BY <2>1 DEF IInv, Calls
    <3>2. Run(S) /\ caller' = "return" /\ n' = n
      BY <1>3, <2>1 DEF CallerRows
    <3> HIDE DEF S
    <3>3. S \in SUBSET Row
      BY DEF S
    <3>4. QED
      BY <2>1, <3>1, <3>2, <3>3, RunIsCompute
  <2>2. CASE caller = "rows"
    <3> DEFINE S == RowsOf(0, n, nThreads)
    <3>1. Parallel /\ 0 \in 0..(nThreads - 1) /\ ~HasRun(0)
      BY <2>2 DEF Parallel, IInv, Shares, TypeOK, HasRun
    <3>2. \A r \in S : r < n /\ runs[r] = 0
      BY <3>1, OwnShare DEF RowsOf
    <3>3. Run(S) /\ caller' = "check" /\ n' = n
      BY <1>3, <2>2 DEF CallerRows
    <3>4. S \in SUBSET Row
      BY DEF RowsOf
    <3> HIDE DEF S
    <3>5. QED
      BY <2>2, <3>2, <3>3, <3>4, RunIsCompute
  <2>3. QED
    BY <1>3, <2>1, <2>2 DEF CallerRows
<1>4. CASE Return
  BY <1>4 DEF Return, IInv, Calls, Loop!Next, Loop!Return, Loop!Row, Row
<1>5. CASE Shutdown \/ Join \/ SpuriousWakeup \/ Ended
  BY <1>5 DEF Shutdown, Join, SpuriousWakeup, Ended, vars
<1>6. ASSUME NEW t \in Workers, WorkerTake(t)
      PROVE  UNCHANGED Loop!vars
  BY <1>6 DEF WorkerTake
<1>7. ASSUME NEW t \in Workers, WorkerReport(t)
      PROVE  UNCHANGED Loop!vars
  BY <1>7 DEF WorkerReport
<1>8. ASSUME NEW t \in Workers, WorkerRows(t)
      PROVE  Loop!Next
  <2> DEFINE S == RowsOf(t, n, nThreads)
  <2>1. /\ t \in Live /\ t \in 0..(nThreads - 1) /\ t # 0
        /\ Parallel /\ worker[t] = "rows"
    BY <1>8, Busy DEF WorkerRows
  <2>2. ~HasRun(t) /\ taken[t] = n
    BY <2>1 DEF HasRun, IInv, Shares
  <2>3. \A r \in S : r < n /\ runs[r] = 0
    BY <2>1, <2>2, OwnShare DEF RowsOf
  <2>4. Run(S) /\ caller' = caller /\ n' = n
    BY <1>8, <2>2 DEF WorkerRows
  <2>5. S \in SUBSET Row /\ caller \notin {"idle", "join"}
    BY <2>1 DEF RowsOf, Parallel
  <2> HIDE DEF S
  <2>6. QED
    BY <2>3, <2>4, <2>5, RunIsCompute
<1>9. CASE UNCHANGED vars
  BY <1>9 DEF vars
<1>10. QED
  BY <1>1, <1>2, <1>3, <1>4, <1>5, <1>6, <1>7, <1>8, <1>9 DEF Next, Caller, Worker

\* ds4_parallel_for() implements the parallel loop its kernels are written for:
\* every row once, and all of them before it returns.
THEOREM LoopImplemented == Spec => ImplementsLoop
<1>1. Init => Loop!Init
  BY DEF Init, Loop!Init, Loop!Row, Row
<1>2. IInv /\ [Next]_vars => [Loop!Next]_(Loop!vars)
  BY LoopStep, PoolAssumption
<1>3. QED
  BY <1>1, <1>2, IInvAlways, PTL DEF Spec, Loop!Spec, ImplementsLoop
=============================================================================
