----------------------------- MODULE ThreadPool -----------------------------
(***************************************************************************)
(* The CPU worker pool of util/ds4_util.c: one calling thread hands a      *)
(* row-parallel job to persistent workers by a generation counter, does    *)
(* its own share, and waits until every worker has reported.               *)
(*                                                                         *)
(* A critical section of g_pool.mutex is one action.  A thread in          *)
(* pthread_cond_wait() is "sleep"; a signal or a spurious wakeup makes it  *)
(* test its loop condition again.  While a thread is in "rows" it runs the *)
(* kernel's function, whose context lives on the caller's stack.  A call   *)
(* made by that function runs serially in its own thread (g_parallel_depth)*)
(* and touches nothing of the pool; one made by the function of a serial   *)
(* call is a call of its own here.                                         *)
(*                                                                         *)
(* A "faulty variant" is no part of the specification: it is the           *)
(* definition below it with one plausible bug, kept to show that a         *)
(* property which holds of the code would notice the bug.                  *)
(***************************************************************************)
EXTENDS Naturals, FiniteSets

CONSTANTS
  MaxThreads,    \* DS4_MAX_THREADS
  ThreadCounts,  \* pool sizes the machine, DS4_THREADS and -t may ask for
  Generations,   \* values of g_pool.generation (2^32)
  MaxRows,       \* upper bound of the rows of a call
  RowCounts,     \* the numbers of rows calls have
  MinRowCounts   \* the values of min_parallel_rows calls have

ASSUME PoolAssumption ==
  /\ MaxThreads \in Nat \ {0}
  /\ ThreadCounts \subseteq 1..MaxThreads
  /\ Generations \in Nat /\ Generations >= 2
  /\ MaxRows \in Nat
  /\ RowCounts \subseteq 0..MaxRows
  /\ MinRowCounts \subseteq Nat

VARIABLES
  caller,        \* program counter of the calling thread
  n,             \* n_rows of the call
  minRows,       \* min_parallel_rows of the call
  initialized,   \* g_pool.initialized
  nThreads,      \* g_pool.n_threads
  generation,    \* g_pool.generation
  shutdown,      \* g_pool.shutdown
  done,          \* g_pool.done
  nRows,         \* g_pool.n_rows (with fn and ctx)
  worker,        \* [worker -> program counter of ds4_worker_main()]
  seen,          \* [worker -> seen_generation]
  taken,         \* [worker -> its copy of n_rows]
  runs           \* [row -> how often the function ran on it in this call]

vars == <<caller, n, minRows, initialized, nThreads, generation, shutdown, done,
          nRows, worker, seen, taken, runs>>

Workers  == 1..(MaxThreads - 1)
Row      == 0..(MaxRows - 1)
Live     == {t \in Workers : t < nThreads}
nWorkers == IF nThreads > 0 THEN nThreads - 1 ELSE 0

CallerPc == {"idle", "start", "dispatch", "serial", "rows", "check", "sleep",
             "return", "join", "dead"}
WorkerPc == {"none", "check", "sleep", "rows", "report", "gone"}

Init == /\ caller = "idle"
        /\ n = 0 /\ minRows = 0
        /\ initialized = FALSE
        /\ nThreads = 0 /\ generation = 0 /\ shutdown = FALSE
        /\ done = 0 /\ nRows = 0
        /\ worker = [t \in Workers |-> "none"]
        /\ seen = [t \in Workers |-> 0]
        /\ taken = [t \in Workers |-> 0]
        /\ runs = [r \in Row |-> 0]

\* Faulty variant: the division rounds down.
RowsPerThreadFloor(rows, threads) == rows \div threads

\* The rows of thread t, of which the calling thread is number 0.
RowsPerThread(rows, threads) == (rows + threads - 1) \div threads
RowsOf(t, rows, threads) ==
  LET share == RowsPerThread(rows, threads)
  IN  {r \in Row : t * share <= r /\ r < (t + 1) * share /\ r < rows}

\* fn(ctx, row0, row1)
Run(S) == runs' = [r \in Row |-> IF r \in S THEN runs[r] + 1 ELSE runs[r]]

-----------------------------------------------------------------------------
(* The calling thread: ds4_parallel_for_min_rows() and its callers *)

Call(rows, min) ==
  /\ caller = "idle"
  /\ caller' = "start"
  /\ n' = rows /\ minRows' = min
  /\ runs' = [r \in Row |-> 0]
  /\ UNCHANGED <<initialized, nThreads, generation, shutdown, done, nRows,
                 worker, seen, taken>>

\* ds4_threads_init() creates the pool on the first call.
Start ==
  /\ caller = "start"
  /\ caller' = "dispatch"
  /\ IF initialized
       THEN UNCHANGED <<initialized, nThreads, generation, shutdown, done, worker, seen>>
       ELSE /\ initialized' = TRUE
            /\ nThreads' \in ThreadCounts
            /\ generation' = 0 /\ shutdown' = FALSE /\ done' = 0
            /\ worker' = [t \in Workers |-> IF t < nThreads' THEN "check" ELSE "none"]
            /\ seen' = [t \in Workers |-> 0]
  /\ UNCHANGED <<n, minRows, nRows, taken, runs>>

\* pthread_create() fails: ds4_die() ends the process.
StartFails ==
  /\ caller = "start" /\ ~initialized
  /\ caller' = "dead"
  /\ UNCHANGED <<n, minRows, initialized, nThreads, generation, shutdown, done,
                 nRows, worker, seen, taken, runs>>

\* Faulty variants: done is not reset; nobody is woken.
DispatchKeepsDone ==
  /\ caller = "dispatch"
  /\ IF nThreads <= 1 \/ n < minRows
       THEN caller' = "serial" /\ UNCHANGED <<nRows, done, generation, worker>>
       ELSE /\ caller' = "rows"
            /\ nRows' = n /\ UNCHANGED done
            /\ generation' = (generation + 1) % Generations
            /\ worker' = [t \in Workers |-> IF worker[t] = "sleep" THEN "check" ELSE worker[t]]
  /\ UNCHANGED <<n, minRows, initialized, nThreads, shutdown, seen, taken, runs>>

DispatchSilently ==
  /\ caller = "dispatch"
  /\ IF nThreads <= 1 \/ n < minRows
       THEN caller' = "serial" /\ UNCHANGED <<nRows, done, generation>>
       ELSE /\ caller' = "rows"
            /\ nRows' = n /\ done' = 0
            /\ generation' = (generation + 1) % Generations
  /\ UNCHANGED <<n, minRows, initialized, nThreads, shutdown, worker, seen, taken, runs>>

\* A small job runs serially; any other is published under the mutex and
\* broadcast.
Dispatch ==
  /\ caller = "dispatch"
  /\ IF nThreads <= 1 \/ n < minRows
       THEN caller' = "serial" /\ UNCHANGED <<nRows, done, generation, worker>>
       ELSE /\ caller' = "rows"
            /\ nRows' = n /\ done' = 0
            /\ generation' = (generation + 1) % Generations
            /\ worker' = [t \in Workers |-> IF worker[t] = "sleep" THEN "check" ELSE worker[t]]
  /\ UNCHANGED <<n, minRows, initialized, nThreads, shutdown, seen, taken, runs>>

\* The caller runs everything, or the share of thread 0.
CallerRows ==
  /\ \/ caller = "serial" /\ Run({r \in Row : r < n}) /\ caller' = "return"
     \/ caller = "rows" /\ Run(RowsOf(0, n, nThreads)) /\ caller' = "check"
  /\ UNCHANGED <<n, minRows, initialized, nThreads, generation, shutdown, done,
                 nRows, worker, seen, taken>>

\* while (g_pool.done < g_pool.n_workers) pthread_cond_wait(&g_pool.done_cond, ...)
WaitDone ==
  /\ caller = "check"
  /\ caller' = IF done < nWorkers THEN "sleep" ELSE "return"
  /\ UNCHANGED <<n, minRows, initialized, nThreads, generation, shutdown, done,
                 nRows, worker, seen, taken, runs>>

Return ==
  /\ caller = "return"
  /\ caller' = "idle"
  /\ UNCHANGED <<n, minRows, initialized, nThreads, generation, shutdown, done,
                 nRows, worker, seen, taken, runs>>

\* ds4_threads_shutdown(): tell the workers, join them, destroy the pool.
Shutdown ==
  /\ caller = "idle" /\ initialized
  /\ caller' = "join"
  /\ shutdown' = TRUE
  /\ generation' = (generation + 1) % Generations
  /\ worker' = [t \in Workers |-> IF worker[t] = "sleep" THEN "check" ELSE worker[t]]
  /\ UNCHANGED <<n, minRows, initialized, nThreads, done, nRows, seen, taken, runs>>

\* Faulty variant: the pool is destroyed without joining.
JoinNobody ==
  /\ caller = "join"
  /\ caller' = "idle"
  /\ initialized' = FALSE
  /\ nThreads' = 0 /\ generation' = 0 /\ shutdown' = FALSE /\ done' = 0 /\ nRows' = 0
  /\ UNCHANGED <<n, minRows, worker, seen, taken, runs>>

Join ==
  /\ caller = "join"
  /\ \A t \in Live : worker[t] = "gone"
  /\ caller' = "idle"
  /\ initialized' = FALSE
  /\ nThreads' = 0 /\ generation' = 0 /\ shutdown' = FALSE /\ done' = 0 /\ nRows' = 0
  /\ UNCHANGED <<n, minRows, worker, seen, taken, runs>>

Caller == Start \/ StartFails \/ Dispatch \/ CallerRows \/ WaitDone \/ Return \/ Join

-----------------------------------------------------------------------------
(* ds4_worker_main() *)

\* Sleep until there is a new generation or a shutdown, then copy the job.
WorkerTake(t) ==
  /\ worker[t] = "check"
  /\ \/ /\ shutdown
        /\ worker' = [worker EXCEPT ![t] = "gone"]
        /\ UNCHANGED <<seen, taken>>
     \/ /\ ~shutdown /\ seen[t] = generation
        /\ worker' = [worker EXCEPT ![t] = "sleep"]
        /\ UNCHANGED <<seen, taken>>
     \/ /\ ~shutdown /\ seen[t] # generation
        /\ worker' = [worker EXCEPT ![t] = "rows"]
        /\ seen' = [seen EXCEPT ![t] = generation]
        /\ taken' = [taken EXCEPT ![t] = nRows]
  /\ UNCHANGED <<caller, n, minRows, initialized, nThreads, generation, shutdown,
                 done, nRows, runs>>

WorkerRows(t) ==
  /\ worker[t] = "rows"
  /\ Run(RowsOf(t, taken[t], nThreads))
  /\ worker' = [worker EXCEPT ![t] = "report"]
  /\ UNCHANGED <<caller, n, minRows, initialized, nThreads, generation, shutdown,
                 done, nRows, seen, taken>>

\* Count; the last worker signals the caller.
WorkerReport(t) ==
  /\ worker[t] = "report"
  /\ done' = done + 1
  /\ caller' = IF caller = "sleep" /\ done' = nWorkers THEN "check" ELSE caller
  /\ worker' = [worker EXCEPT ![t] = "check"]
  /\ UNCHANGED <<n, minRows, initialized, nThreads, generation, shutdown, nRows,
                 seen, taken, runs>>

Worker(t) == WorkerTake(t) \/ WorkerRows(t) \/ WorkerReport(t)

\* pthread_cond_wait() may return without a signal.
SpuriousWakeup ==
  /\ \/ caller = "sleep" /\ caller' = "check" /\ UNCHANGED worker
     \/ \E t \in Workers : /\ worker[t] = "sleep"
                           /\ worker' = [worker EXCEPT ![t] = "check"]
                           /\ UNCHANGED caller
  /\ UNCHANGED <<n, minRows, initialized, nThreads, generation, shutdown, done,
                 nRows, seen, taken, runs>>

Ended == caller = "dead" /\ UNCHANGED vars

Next == \/ \E rows \in RowCounts, min \in MinRowCounts : Call(rows, min)
        \/ Caller \/ Shutdown
        \/ \E t \in Workers : Worker(t)
        \/ SpuriousWakeup
        \/ Ended

\* Threads are scheduled and the kernel's function ends; nobody owes the pool a
\* call, and only signalled wakeups are counted on.
Spec == Init /\ [][Next]_vars
             /\ WF_vars(Caller) /\ \A t \in Workers : WF_vars(Worker(t))
-----------------------------------------------------------------------------
(* Properties *)

\* The variables have their types.
TypeOK ==
  /\ caller \in CallerPc
  /\ n \in 0..MaxRows
  /\ minRows \in Nat
  /\ initialized \in BOOLEAN
  /\ nThreads \in 0..MaxThreads
  /\ generation \in 0..(Generations - 1)
  /\ shutdown \in BOOLEAN
  /\ done \in 0..MaxThreads
  /\ nRows \in 0..MaxRows
  /\ worker \in [Workers -> WorkerPc]
  /\ seen \in [Workers -> 0..(Generations - 1)]
  /\ taken \in [Workers -> 0..MaxRows]
  /\ runs \in [Row -> Nat]

\* The context of a kernel lives on the caller's stack: no worker still runs the
\* function of a call that has ended, and none runs it on rows of another call.
NoWorkerBehind ==
  \A t \in Workers :
    worker[t] = "rows" => /\ caller \in {"rows", "check", "sleep"}
                          /\ taken[t] = n

\* When a call returns, its function ran exactly once on every row: the shares
\* of the threads neither overlap nor leave a row out, whatever the pool size.
RowsOnce ==
  /\ \A r \in Row : runs[r] <= 1
  /\ caller = "return" => \A r \in Row : r < n => runs[r] = 1

\* A thread sleeps only while its condition is false and the signal is still to
\* come: a worker that has done the current generation, or a caller for whom
\* some worker has yet to report.
NoLostWakeup ==
  /\ \A t \in Workers : worker[t] = "sleep" => seen[t] = generation /\ ~shutdown
  /\ caller = "sleep" => done < nWorkers

\* A pool is destroyed, or a new one created, when no worker of the old one can
\* touch it.
PoolReleased == ~initialized => \A t \in Workers : worker[t] \in {"none", "gone"}

\* A call returns and a shutdown comes to its end, unless the process dies.
CallReturns == (caller # "idle") ~> (caller \in {"idle", "dead"})

\* The abstract parallel loop (module ParallelFor).
Loop == INSTANCE ParallelFor WITH
          busy <- caller \notin {"idle", "join"},
          rows <- n

\* The pool implements the parallel loop, also when it falls back to a serial
\* one, and when the generation counter wraps.
ImplementsLoop == Loop!Spec
-----------------------------------------------------------------------------
(* The inductive invariant of the proofs *)

Parallel == caller \in {"rows", "check", "sleep"}

\* Between calls the workers have seen the last generation; during a call each
\* one is at it or, still awake, at the one before.
Generation ==
  /\ \A t \in Live : worker[t] = "sleep" => seen[t] = generation /\ ~shutdown
  /\ \A t \in Live : worker[t] \in {"rows", "report"} => Parallel /\ seen[t] = generation
  /\ caller \notin {"rows", "check", "sleep", "join"} => \A t \in Live : seen[t] = generation
  /\ \A t \in Live : worker[t] # "none"

\* The workers that have reported the call in progress.
Reported == {t \in Live : seen[t] = generation /\ worker[t] \in {"check", "sleep"}}

Counting == /\ Parallel => done = Cardinality(Reported)
            /\ caller = "sleep" => done < nWorkers

\* Which threads have run their share.
HasRun(t) == IF t = 0 THEN caller # "rows"
             ELSE seen[t] = generation /\ worker[t] \in {"report", "check", "sleep"}

Shares ==
  Parallel =>
    /\ nThreads > 1
    /\ nRows = n
    /\ \A t \in Live : worker[t] = "rows" => taken[t] = n
    /\ \A r \in Row : runs[r] = IF \E t \in 0..(nThreads - 1) :
                                     HasRun(t) /\ r \in RowsOf(t, n, nThreads)
                                  THEN 1 ELSE 0

Calls ==
  /\ caller \in {"start", "dispatch", "serial"} => \A r \in Row : runs[r] = 0
  /\ caller \in {"return", "idle", "join"} => \A r \in Row : runs[r] \in {0, 1}
  /\ caller = "return" => \A r \in Row : r < n => runs[r] = 1
  /\ caller = "dead" => \A r \in Row : runs[r] = 0

Pool ==
  /\ initialized <=> nThreads > 0
  /\ shutdown <=> caller = "join"
  /\ caller \in {"dispatch", "serial", "rows", "check", "sleep", "return", "join"} => initialized
  /\ \A t \in Workers : t >= nThreads => worker[t] \in {"none", "gone"}
  /\ \A t \in Live : worker[t] = "gone" => shutdown

\* The strengthening of the safety properties that every step preserves.
IInv == TypeOK /\ Pool /\ Generation /\ Counting /\ Shares /\ Calls
=============================================================================
