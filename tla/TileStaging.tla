---- MODULE TileStaging ----
(* One block of an attention kernel that serves eight heads with one staged  *)
(* copy of the keys: its warps fill shared memory together, wait at          *)
(* __syncthreads(), and each scores every row for its own head               *)
(* (ds4_cuda_attention.cuh, turbo4_attention.cuh). A warp runs on its own    *)
(* between barriers. Each warp copies its share of every row; a share of the *)
(* buffer holds the row whose bytes were written last.                       *)
EXTENDS Integers, FiniteSets

CONSTANTS Warps,    \* warps of the block
          Kernels   \* launches [rows, tile, buffers, passes, direct, trailing]: the keys
                    \* of the token, those of a tile, stages of shared memory, passes
                    \* over the keys, keys read from global memory, a barrier after
                    \* the last row

ASSUME StagingAssumption ==
  /\ IsFiniteSet(Warps) /\ Warps # {}
  /\ \A k \in Kernels : k.tile \in Nat \ {0} /\ k.buffers \in {1, 2} /\ {k.rows, k.passes} \subseteq Nat \ {0} /\ k.direct \in 0 .. k.rows
                       /\ k.trailing \in BOOLEAN

VARIABLES kernel,   \* the kernel of this launch
          pc,       \* warp -> where it is
          tileAt,   \* warp -> tiles it has finished, over all passes
          rowAt,    \* warp -> row of the tile it computes next
          listed,   \* raw_count and comp_count are set
          gathered, \* warps whose share of raw_rows is written
          shared,   \* kv_shared: <<stage, row of tile, share>> -> row
          flight    \* copies issued and not yet landed: <<warp, stage, row of tile, row>>

tileVars == <<kernel, pc, tileAt, rowAt, listed, gathered, shared, flight>>

NoKey == -1
Tiles(k) == (k.rows + k.tile - 1) \div k.tile
LastTile(k) == k.passes * Tiles(k)
Stage(k, i) == IF k.buffers = 2 THEN i % 2 ELSE 0
\* rows of tile i, by their place in it
TileRows(k, i) ==
  LET row0 == (i % Tiles(k)) * k.tile
      nr == IF k.rows - row0 < k.tile THEN k.rows - row0 ELSE k.tile
  IN [rr \in 0 .. nr - 1 |-> row0 + rr]
\* rows read from global memory by every warp itself are not staged
StagedRows(k, i) == {rr \in DOMAIN TileRows(k, i) : TileRows(k, i)[rr] >= k.direct}

Cells(k) == {<<s, rr, w>> : s \in 0 .. k.buffers - 1, rr \in 0 .. k.tile - 1, w \in Warps}

TileInit ==
  /\ kernel \in Kernels
  /\ pc = [w \in Warps |-> "count"]
  /\ tileAt = [w \in Warps |-> 0]
  /\ rowAt = [w \in Warps |-> 0]
  /\ listed = FALSE
  /\ gathered = {}
  /\ shared = [c \in Cells(kernel) |-> NoKey]
  /\ flight = {}

Goto(w, to) == pc' = [pc EXCEPT ![w] = to]

\* __syncthreads(): nobody passes until every warp has arrived.
After(at) ==
  CASE at = "counted" -> "gather"
    [] at = "listed" -> "issue"
    [] at = "staged" -> "compute"
    [] at = "scored" -> "issue"
AtBarrier == {"counted", "listed", "staged", "scored"}
Barrier ==
  /\ \A w \in Warps : pc[w] \in AtBarrier
  /\ pc' = [w \in Warps |-> After(pc[w])]
  /\ UNCHANGED <<kernel, tileAt, rowAt, listed, gathered, shared, flight>>

\* Thread 0 works out the window; the other warps go straight to the barrier.
First(w) == w = CHOOSE f \in Warps : TRUE
Count(w) ==
  /\ pc[w] = "count"
  /\ listed' = (listed \/ First(w))
  /\ Goto(w, "counted")
  /\ UNCHANGED <<kernel, tileAt, rowAt, gathered, shared, flight>>

\* Every thread writes its share of raw_rows, thread 0 the selected rows.
Gather(w) ==
  /\ pc[w] = "gather" /\ listed
  /\ gathered' = gathered \cup {w}
  /\ Goto(w, "listed")
  /\ UNCHANGED <<kernel, tileAt, rowAt, listed, shared, flight>>

\* The share of tile i a warp copies.
Copies(k, w, i) == {<<w, Stage(k, i), rr, TileRows(k, i)[rr]>> : rr \in StagedRows(k, i)}
Landed(copies) ==
  [c \in Cells(kernel) |->
     IF \E f \in copies : c = <<f[2], f[3], f[1]>>
     THEN (CHOOSE f \in copies : c = <<f[2], f[3], f[1]>>)[4] ELSE shared[c]]

\* Copy by the warp's own loads and stores: single buffered kernels.
CopyTile(w) ==
  /\ pc[w] = "issue" /\ tileAt[w] < LastTile(kernel) /\ kernel.buffers = 1
  /\ gathered = Warps
  /\ shared' = Landed(Copies(kernel, w, tileAt[w]))
  /\ Goto(w, "staged")
  /\ UNCHANGED <<kernel, tileAt, rowAt, listed, gathered, flight>>

\* __pipeline_memcpy_async: the next tile goes to the other stage (the first
\* iteration issues its own tile before it), and the loads of an older tile are
\* waited for.
IssueAsync(w) ==
  /\ pc[w] = "issue" /\ tileAt[w] < LastTile(kernel) /\ kernel.buffers = 2
  /\ gathered = Warps
  /\ flight' = flight \cup (IF tileAt[w] = 0 THEN Copies(kernel, w, 0) ELSE {})
                      \cup (IF tileAt[w] + 1 < LastTile(kernel) THEN Copies(kernel, w, tileAt[w] + 1) ELSE {})
  /\ Goto(w, "wait")
  /\ UNCHANGED <<kernel, tileAt, rowAt, listed, gathered, shared>>

\* The hardware finishes an asynchronous copy.
Land(f) ==
  /\ f \in flight
  /\ shared' = Landed({f})
  /\ flight' = flight \ {f}
  /\ UNCHANGED <<kernel, pc, tileAt, rowAt, listed, gathered>>

\* __pipeline_wait_prior(1): the warp's own copies of the current tile are done.
WaitPrior(w) ==
  /\ pc[w] = "wait" /\ Copies(kernel, w, tileAt[w]) \cap flight = {}
  /\ Goto(w, "staged")
  /\ UNCHANGED <<kernel, tileAt, rowAt, listed, gathered, shared, flight>>

\* Faulty variant for the checks: no barrier after the last row of a tile.
TileDoneUnsynced(w) ==
  /\ rowAt' = [rowAt EXCEPT ![w] = 0]
  /\ tileAt' = [tileAt EXCEPT ![w] = @ + 1]
  /\ Goto(w, "issue")
\* After the tile's last row: some kernels synchronise again before the next tile.
TileDone(w) ==
  /\ rowAt' = [rowAt EXCEPT ![w] = 0]
  /\ tileAt' = [tileAt EXCEPT ![w] = @ + 1]
  /\ Goto(w, IF kernel.trailing THEN "scored" ELSE "issue")

\* One row of the tile scored for the warp's head.
Compute(w) ==
  /\ pc[w] = "compute"
  /\ IF rowAt[w] + 1 \in DOMAIN TileRows(kernel, tileAt[w])
     THEN rowAt' = [rowAt EXCEPT ![w] = @ + 1] /\ UNCHANGED <<pc, tileAt>>
     ELSE TileDone(w)
  /\ UNCHANGED <<kernel, listed, gathered, shared, flight>>

TileNext ==
  \/ Barrier
  \/ \E w \in Warps : Count(w) \/ Gather(w) \/ CopyTile(w) \/ IssueAsync(w) \/ WaitPrior(w) \/ Compute(w)
  \/ \E f \in flight : Land(f)

TileSpec == TileInit /\ [][TileNext]_tileVars

\* "dequantized to FP32 in shared memory ONCE by the 256-thread block, then all 8
\* head-warps read the FP32 values from smem" (turbo4_attention.cuh): the row a
\* warp is scoring stands whole in its stage until the warp has moved on,
\* whatever the other warps do meanwhile.
TilesIntact ==
  \A w \in Warps :
    pc[w] = "compute" /\ rowAt[w] \in StagedRows(kernel, tileAt[w]) =>
      \A share \in Warps :
        shared[<<Stage(kernel, tileAt[w]), rowAt[w], share>>] = TileRows(kernel, tileAt[w])[rowAt[w]]
====
