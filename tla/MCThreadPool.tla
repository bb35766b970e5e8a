---------------------------- MODULE MCThreadPool ----------------------------
(* Small instances of ThreadPool for TLC. *)
EXTENDS ThreadPool

\* A serial pool, and pools of two to four threads; calls with no row, with
\* fewer rows than threads, with shares of unequal size, and below the minimum.
MCThreadCounts == 1..4
MCRowCounts    == {0, 1, 2, 5}
MCMinRowCounts == {1, 2}
=============================================================================
