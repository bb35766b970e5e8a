---------------------------- MODULE ParallelFor ----------------------------
(***************************************************************************)
(* What ds4_parallel_for() promises a CPU kernel, without threads: a call  *)
(* runs the kernel's function exactly once on every row, in any order and  *)
(* in any grouping, and returns when no row is left.                       *)
(***************************************************************************)
EXTENDS Naturals

CONSTANTS MaxRows,    \* upper bound of the rows of a call
          RowCounts   \* the numbers of rows calls have

VARIABLES busy,   \* a call is in progress
          rows,   \* its number of rows
          runs    \* [row -> how often the function ran on it in this call]

vars == <<busy, rows, runs>>

Row == 0..(MaxRows - 1)

Init == busy = FALSE /\ rows = 0 /\ runs = [r \in Row |-> 0]

Call(n) == /\ ~busy
           /\ busy' = TRUE
           /\ rows' = n
           /\ runs' = [r \in Row |-> 0]

Compute(S) == /\ busy
              /\ \A r \in S : r < rows /\ runs[r] = 0
              /\ runs' = [r \in Row |-> IF r \in S THEN 1 ELSE runs[r]]
              /\ UNCHANGED <<busy, rows>>

Return == /\ busy
          /\ \A r \in Row : r < rows => runs[r] = 1
          /\ busy' = FALSE
          /\ UNCHANGED <<rows, runs>>

Next == \/ \E n \in RowCounts : Call(n)
        \/ \E S \in SUBSET Row : Compute(S)
        \/ Return

Spec == Init /\ [][Next]_vars
=============================================================================
