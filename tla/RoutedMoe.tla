---- MODULE RoutedMoe ----
(* The routed experts of a layer (ds4_cuda_moe.cuh, routed_moe_launch in     *)
(* ds4_cuda_moe_dispatch.cuh). A pair is a token and one of its experts,     *)
(* numbered token * Slots + slot. What a kernel computes for a pair is known *)
(* by its input row, the expert whose weights were used and the format they  *)
(* were read as. Row and column blocking is left out.                        *)
EXTENDS Integers, Sequences, FiniteSets

CONSTANTS Experts,  \* 256
          Slots,    \* 6: n_expert
          TileM,    \* 8: pairs of an expert tile; 4 and 16 are its half and its double
          Large,    \* 128: tokens from which the prefill kernels are taken
          Launches  \* calls of routed_moe_launch

ASSUME MoeAssumption ==
  /\ {Experts, Slots, TileM, Large} \subseteq Nat \ {0} /\ TileM % 2 = 0
  \* every token has its Slots experts; the router leaves -1 for none
  /\ \A c \in Launches :
       /\ c.selected \in Seq(-1 .. Experts - 1) /\ c.selected # <<>>
       /\ Len(c.selected) % Slots = 0

VARIABLES call,    \* the launch: [selected, gate, down, roomy, small_x, small_mid, env]
          step,    \* the kernel to run next
          cursors, \* expert -> next free place of its run in sorted
          sorted,  \* sorted_pairs: place -> pair, where written
          gateBuf, \* gate tensor: pair -> value, or the quantized mid rows
          mid,     \* mid tensor: pair -> value
          downBuf, \* down tensor: pair -> value, or the quantized input rows
          out,     \* out tensor: token -> the pair results added up, by what added them
          scales,  \* device copies of the NVFP4 expert scales held
          ok       \* what the call returns

moeVars == <<call, step, cursors, sorted, gateBuf, mid, downBuf, out, scales, ok>>

Tokens(c) == Len(c.selected) \div Slots
Pairs(c) == 0 .. Len(c.selected) - 1
TokenOf(pair) == pair \div Slots
\* if (expert_i < 0) expert_i = 0
ExpertOf(c, pair) == IF c.selected[pair + 1] < 0 THEN 0 ELSE c.selected[pair + 1]
Lost == "garbage"
Unset == -1
Blank(c) == [p \in Pairs(c) |-> Lost]

(* The switches of the launch.                                               *)
Set(c, name) == name \in c.env
UseSorted(c) == Tokens(c) > 1
UseTiles(c) == UseSorted(c) /\ ~Set(c, "NO_EXPERT_TILES")
ExpertTileM(c) == IF Set(c, "TILE4") THEN TileM \div 2 ELSE TileM
UseP2(c) == UseSorted(c) /\ ~Set(c, "NO_P2")
UseAtomicDown(c) ==
  UseTiles(c) /\ (Set(c, "ATOMIC_DOWN") \/ (Tokens(c) >= Large /\ ~Set(c, "NO_ATOMIC_DOWN")))
UseGateRow2048(c) ==
  /\ UseTiles(c) /\ ExpertTileM(c) = TileM
  /\ Set(c, "GATE_ROW2048") \/ (Tokens(c) >= Large /\ ~Set(c, "NO_GATE_ROW"))
UseDownTile16(c) == UseAtomicDown(c) /\ ExpertTileM(c) = TileM /\ Tokens(c) >= Large /\ ~Set(c, "NO_DOWN_TILE16")
UseDownBlock16(c) == UseDownTile16(c) /\ c.small_mid /\ ~Set(c, "NO_DOWN_BLOCK16")
UseDecodeLut(c) == Tokens(c) = 1 /\ c.small_x /\ ~Set(c, "NO_DECODE_LUT_GATE")
UseDownRow2048(c) ==
  /\ UseAtomicDown(c) /\ ExpertTileM(c) = TileM
  /\ Set(c, "DOWN_ROW") \/ (UseDownTile16(c) /\ ~Set(c, "NO_DOWN_ROW"))
UseDirectSum(c) == Tokens(c) = 1 /\ ~Set(c, "NO_DIRECT_DOWN_SUM6")

(* Pairs sorted by expert.                                                   *)

\* moe_count_sorted_pairs_kernel
Counts(c) == [e \in 0 .. Experts - 1 |-> Cardinality({p \in Pairs(c) : ExpertOf(c, p) = e})]
\* moe_prefix_sorted_pairs_kernel
Offsets(c) == [e \in 0 .. Experts - 1 |-> Cardinality({p \in Pairs(c) : ExpertOf(c, p) < e})]

\* Faulty variant for the checks: the last, partial tile is not counted.
FullTiles(count, m) == count \div m
\* moe_build_expert_tile_offsets_kernel: tiles of m pairs an expert takes.
TilesOf(count, m) == (count + m - 1) \div m
\* moe_build_expert_tiles_kernel: the tiles, each an expert and the first of its
\* pairs that the tile takes.
ExpertTiles(c, m) ==
  UNION {{<<e, t * m>> : t \in 0 .. TilesOf(Counts(c)[e], m) - 1} : e \in 0 .. Experts - 1}

(* What a kernel works on: from the blocks, with the place in a block, to    *)
(* <<pair, expert>>.                                                         *)

\* one block row per pair, and one per place of sorted_pairs
PairWork(c) == [p \in Pairs(c) |-> <<p, ExpertOf(c, p)>>]
SortedWork(c, s) == [i \in Pairs(c) |-> <<s[i], ExpertOf(c, s[i])>>]
\* two places of sorted_pairs per block row
P2Work(c, s) ==
  LET rows == {b \in Pairs(c) : 2 * b < Len(c.selected)}
      places == {x \in rows \X {0, 1} : 2 * x[1] + x[2] < Len(c.selected)}
  IN [x \in places |-> <<s[2 * x[1] + x[2]], ExpertOf(c, s[2 * x[1] + x[2]])>>]
\* one block row per tile, with room for width pairs; the wide kernels leave out
\* the tiles whose start has bit 8 set.
LeftOut(tile, wide) == wide /\ (tile[2] \div TileM) % 2 = 1
TileWork(c, s, tiles, width, wide) ==
  LET places == {x \in tiles \X (0 .. width - 1) :
                   x[2] < Counts(c)[x[1][1]] - x[1][2] /\ ~LeftOut(x[1], wide)}
  IN [x \in places |-> <<s[Offsets(c)[x[1][1]] + x[1][2] + x[2]], x[1][1]>>]

Kernel(as, work) == [as |-> as, work |-> work]

(* Gate and up projections with the activation: one kernel runs.             *)
GateQwarp32(c) == Kernel("iq2", PairWork(c))
GateDecodeLut(c) == Kernel("iq2", PairWork(c))
GateDecodeNvfp4(c) == Kernel("nvfp4", PairWork(c))
GateDecodeQ4K(c) == Kernel("q4k", PairWork(c))
GateSorted(c, s) == Kernel("iq2", SortedWork(c, s))
GateSortedP2(c, s) == Kernel("iq2", P2Work(c, s))
GateTile4Row32(c, s) == Kernel("iq2", TileWork(c, s, ExpertTiles(c, ExpertTileM(c)), TileM \div 2, FALSE))
GateTile8Row32(c, s) == Kernel("iq2", TileWork(c, s, ExpertTiles(c, ExpertTileM(c)), TileM, FALSE))
GateTile8Row2048(c, s) == Kernel("iq2", TileWork(c, s, ExpertTiles(c, ExpertTileM(c)), TileM, FALSE))
GateTile8RowSpan(c, s) == Kernel("iq2", TileWork(c, s, ExpertTiles(c, ExpertTileM(c)), TileM, FALSE))
GateTile8Nvfp4(c, s) == Kernel("nvfp4", TileWork(c, s, ExpertTiles(c, ExpertTileM(c)), TileM, FALSE))
GateF32(c) == Kernel("iq2", PairWork(c))

\* The chain of routed_moe_launch before the gate/up launch.
GateKernel(c, s) ==
  IF c.gate = "nvfp4" THEN IF UseTiles(c) THEN GateTile8Nvfp4(c, s) ELSE GateDecodeNvfp4(c)
  ELSE IF UseTiles(c)
  THEN IF UseGateRow2048(c) THEN IF Set(c, "GATE_ROW2048") THEN GateTile8Row2048(c, s) ELSE GateTile8RowSpan(c, s)
       ELSE IF ExpertTileM(c) = TileM THEN GateTile8Row32(c, s) ELSE GateTile4Row32(c, s)
  ELSE IF UseP2(c) THEN GateSortedP2(c, s)
  ELSE IF UseSorted(c) THEN GateSorted(c, s)
  ELSE IF UseDecodeLut(c) THEN IF c.gate = "q4k" THEN GateDecodeQ4K(c) ELSE GateDecodeLut(c)
  ELSE GateQwarp32(c)

(* Down projections.                                                         *)
DownQwarp32(c) == Kernel("q2", PairWork(c))
DownSum6(c) == Kernel("q2", PairWork(c))
DownSum6Nvfp4(c) == Kernel("nvfp4", PairWork(c))
DownQ4KSum6(c) == Kernel("q4k", PairWork(c))
DownSorted(c, s) == Kernel("q2", SortedWork(c, s))
DownSortedP2(c, s) == Kernel("q2", P2Work(c, s))
DownTiles(c) == ExpertTiles(c, IF UseDownTile16(c) THEN 2 * TileM ELSE ExpertTileM(c))
DownTile4Row32(c, s) == Kernel("q2", TileWork(c, s, DownTiles(c), TileM \div 2, FALSE))
DownTile8Row32(c, s) == Kernel("q2", TileWork(c, s, DownTiles(c), TileM, FALSE))
DownTile16Row32(c, s) == Kernel("q2", TileWork(c, s, DownTiles(c), 2 * TileM, TRUE))
DownTile16Row2048(c, s) == Kernel("q2", TileWork(c, s, DownTiles(c), 2 * TileM, TRUE))
DownTile16RowSpan(c, s) == Kernel("q2", TileWork(c, s, DownTiles(c), 2 * TileM, TRUE))
DownTile16Nvfp4(c, s) == Kernel("nvfp4", TileWork(c, s, DownTiles(c), 2 * TileM, TRUE))
DownTile16Block16(c, s) == Kernel("q2", TileWork(c, s, DownTiles(c), 2 * TileM, TRUE))
DownF32(c) == Kernel("q2", PairWork(c))

\* The chain before the down launch. The direct kernels go by the type of the gate
\* weights.
DownKernel(c, s) ==
  IF UseDirectSum(c)
  THEN IF c.down = "nvfp4" THEN DownSum6Nvfp4(c)
       ELSE IF c.gate = "q4k" THEN DownQ4KSum6(c) ELSE DownSum6(c)
  ELSE IF c.down = "nvfp4" THEN DownTile16Nvfp4(c, s)
  ELSE IF UseTiles(c)
  THEN IF UseDownRow2048(c)
       THEN IF UseDownBlock16(c) THEN DownTile16Block16(c, s)
            ELSE IF Set(c, "DOWN_SPAN") THEN DownTile16RowSpan(c, s) ELSE DownTile16Row2048(c, s)
       ELSE IF UseDownTile16(c) THEN DownTile16Row32(c, s)
       ELSE IF ExpertTileM(c) = TileM THEN DownTile8Row32(c, s) ELSE DownTile4Row32(c, s)
  ELSE IF UseP2(c) THEN DownSortedP2(c, s)
  ELSE IF UseSorted(c) THEN DownSorted(c, s)
  ELSE DownQwarp32(c)

(* The launch.                                                               *)

MoeInit ==
  /\ call \in Launches
  /\ step = "begin"
  /\ cursors = [e \in 0 .. Experts - 1 |-> 0]
  /\ sorted = <<>>
  /\ gateBuf = Blank(call) /\ mid = Blank(call) /\ downBuf = Blank(call)
  /\ out = [t \in 0 .. Tokens(call) - 1 |-> <<Lost>>]
  /\ scales = 0
  /\ ok = FALSE

\* The expert scales are copied to the device, then the weights are looked up on
\* it, which may fail; the input is quantized into the down tensor, if it has the
\* room.
Begin ==
  /\ step = "begin"
  /\ scales' = (IF call.gate = "nvfp4" THEN 2 ELSE 0) + (IF call.down = "nvfp4" THEN 1 ELSE 0)
  /\ \/ ok' = FALSE /\ step' = "done" /\ UNCHANGED downBuf
     \/ /\ ok' = TRUE
        /\ IF call.roomy
           THEN /\ downBuf' = "xq"
                /\ step' = IF UseSorted(call) THEN "count" ELSE "gate"
           ELSE /\ step' = "gate f32" /\ UNCHANGED downBuf
  /\ UNCHANGED <<call, cursors, sorted, gateBuf, mid, out>>

\* Counting and the prefix sums, or no scratch memory for them.
CountPairs ==
  /\ step = "count"
  /\ \/ /\ cursors' = Offsets(call)
        /\ sorted' = [i \in Pairs(call) |-> Unset]
        /\ step' = "scatter" /\ UNCHANGED ok
     \/ ok' = FALSE /\ step' = "done" /\ UNCHANGED <<cursors, sorted>>
  /\ UNCHANGED <<call, gateBuf, mid, downBuf, out, scales>>

\* moe_scatter_sorted_pairs_kernel: the threads take their places in any order.
Scatter(pair) ==
  /\ step = "scatter" /\ pair \notin {sorted[i] : i \in Pairs(call)}
  /\ LET e == ExpertOf(call, pair)
     IN /\ sorted' = [sorted EXCEPT ![cursors[e]] = pair]
        /\ cursors' = [cursors EXCEPT ![e] = @ + 1]
  /\ step' = IF Unset \in {sorted'[i] : i \in Pairs(call)} THEN step ELSE "gate"
  /\ UNCHANGED <<call, gateBuf, mid, downBuf, out, scales, ok>>

\* What a gate kernel leaves for each pair it works on; x is its input.
GateRows(k, x) ==
  [p \in Pairs(call) |->
     LET mine == {i \in DOMAIN k.work : k.work[i][1] = p}
         expert == k.work[CHOOSE i \in mine : TRUE][2]
     IN IF mine = {} THEN Lost ELSE [x |-> x, pair |-> p, expert |-> expert, as |-> k.as]]
GateUpMid ==
  /\ step = "gate"
  /\ \E k \in {GateKernel(call, sorted)} : mid' = GateRows(k, downBuf)
  /\ step' = "quantize"
  /\ UNCHANGED <<call, cursors, sorted, gateBuf, downBuf, out, scales, ok>>

\* q8_K_quantize_kernel: the mid rows take the gate tensor.
QuantizeMid ==
  /\ step = "quantize"
  /\ gateBuf' = mid
  /\ step' = "down"
  /\ UNCHANGED <<call, cursors, sorted, mid, downBuf, out, scales, ok>>

Result(k, i, rows) == [mid |-> rows[k.work[i][1]], expert |-> k.work[i][2], as |-> k.as]
\* Results added straight to the tokens' rows, and results kept per pair.
AddedUp(k, rows) ==
  [t \in 0 .. Tokens(call) - 1 |->
     [i \in {j \in DOMAIN k.work : TokenOf(k.work[j][1]) = t} |-> Result(k, i, rows)]]
KeptRows(k, rows) ==
  [p \in Pairs(call) |->
     LET mine == {i \in DOMAIN k.work : k.work[i][1] = p}
     IN IF mine = {} THEN Lost ELSE Result(k, CHOOSE i \in mine : TRUE, rows)]

\* NVFP4 weights have no down kernel without tiles. The branch that says so clears
\* ok, which the result of the launch then overwrites.
NoDownKernel(c) == c.down = "nvfp4" /\ ~UseTiles(c) /\ ~UseDirectSum(c)

\* The down launch; out is cleared before an atomic kernel.
Down ==
  /\ step = "down"
  /\ \/ NoDownKernel(call) /\ step' = "sum" /\ UNCHANGED <<downBuf, out>>
     \/ /\ ~NoDownKernel(call)
        /\ \E k \in {DownKernel(call, sorted)} :
             IF UseDirectSum(call) \/ UseAtomicDown(call)
             THEN out' = AddedUp(k, gateBuf) /\ step' = "done" /\ UNCHANGED downBuf
             ELSE downBuf' = KeptRows(k, gateBuf) /\ step' = "sum" /\ UNCHANGED out
  /\ UNCHANGED <<call, cursors, sorted, gateBuf, mid, scales, ok>>

\* moe_sum_kernel. Where no down kernel ran, the tensor still holds the quantized
\* input, which is the result of no pair.
SumRows(rows) == [t \in 0 .. Tokens(call) - 1 |-> [e \in 1 .. Slots |-> rows[t * Slots + e - 1]]]
Sum ==
  /\ step = "sum"
  /\ out' = SumRows(IF NoDownKernel(call) THEN Blank(call) ELSE downBuf)
  /\ step' = "done"
  /\ UNCHANGED <<call, cursors, sorted, gateBuf, mid, downBuf, scales, ok>>

\* The path without quantized activations frees the scales when it is done.
PlainF32 ==
  /\ step = "gate f32"
  /\ \E g \in {GateF32(call)} : \E d \in {DownF32(call)} :
       /\ mid' = GateRows(g, "x")
       /\ downBuf' = KeptRows(d, mid')
       /\ out' = SumRows(downBuf')
  /\ scales' = 0
  /\ step' = "done"
  /\ UNCHANGED <<call, cursors, sorted, gateBuf, ok>>

MoeNext ==
  \/ Begin \/ CountPairs \/ GateUpMid \/ QuantizeMid \/ Down \/ Sum \/ PlainF32
  \/ \E pair \in Pairs(call) : Scatter(pair)

MoeSpec == MoeInit /\ [][MoeNext]_moeVars

\* The format the kernels read the weights in: Q4_K gate weights have a kernel for
\* one token only, the direct sum goes by the type of the gate weights, and the path
\* without quantized activations reads IQ2 and Q2.
GateRead(c) ==
  IF c.roomy /\ (c.gate = "nvfp4" \/ (c.gate = "q4k" /\ UseDecodeLut(c))) THEN c.gate ELSE "iq2"
DownRead(c) ==
  IF c.roomy /\ c.down = "nvfp4" THEN "nvfp4"
  ELSE IF c.roomy /\ UseDirectSum(c) /\ c.gate = "q4k" THEN "q4k" ELSE "q2"
\* What one pair contributes to its token.
Expected(c, pair) ==
  [mid |-> [x |-> IF c.roomy THEN "xq" ELSE "x", pair |-> pair, expert |-> ExpertOf(c, pair), as |-> GateRead(c)],
   expert |-> ExpertOf(c, pair), as |-> DownRead(c)]
\* Tiles of half the size, which the NVFP4 kernel reads in full width: adding
\* straight to the tokens' rows then takes some pairs twice.
Overlapping(c) == c.down = "nvfp4" /\ UseAtomicDown(c) /\ ExpertTileM(c) # TileM

\* However the pairs were sorted, tiled and summed, and although the tensors are
\* reused as scratch while the kernels run ("The direct decode kernel writes the
\* final token row", ds4_cuda_moe_dispatch.cuh), a call that reports success has
\* given every token the results of its own experts and of nobody else's, each
\* exactly once. The two exceptions are the code's: no result at all where the
\* weights have no down kernel, and some results twice where tiles overlap.
PairsSummedOnce ==
  step = "done" /\ ok =>
    \A t \in 0 .. Tokens(call) - 1 :
      IF call.roomy /\ NoDownKernel(call)
      THEN out[t] = [e \in 1 .. Slots |-> Lost]
      ELSE /\ {out[t][i] : i \in DOMAIN out[t]} = {Expected(call, t * Slots + e) : e \in 0 .. Slots - 1}
           /\ Overlapping(call) \/ Cardinality(DOMAIN out[t]) = Slots

\* "Cleanup device scale_2 arrays" (ds4_cuda_moe_dispatch.cuh): a call holds no
\* device memory when it has returned.
ScalesFreed == step = "done" => scales = 0
====
