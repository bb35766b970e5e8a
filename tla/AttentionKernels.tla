---- MODULE AttentionKernels ----
(* Which keys each attention kernel of ds4_cuda_attention.cuh and            *)
(* turbo4_attention.cuh gives to the softmax of one token, and which kernel  *)
(* the launchers of ds4_cuda_dispatch2.cuh choose. A key is a slot of the    *)
(* raw ring (or a row of the batch), or a compressed row. What a kernel      *)
(* gives is a function from the reads it makes to keys, so that a key read   *)
(* twice shows.                                                              *)
(*                                                                           *)
(* A launch is a record [n_tokens, pos0, n_raw, raw_cap, raw_start, n_comp,  *)
(* window, ratio, topk]; topk[t] is the row of the selection for token t.    *)
EXTENDS Integers, Sequences, FiniteSets, SequencesExt

CONSTANTS ScoreCap,     \* compressed scores the plain kernel's buffer holds
          RawRows,      \* raw_rows[256]
          CompRows,     \* comp_rows[512]
          WindowTokens  \* batches from this size on take the window kernels

ASSUME KernelAssumption ==
  {ScoreCap, RawRows, CompRows, WindowTokens} \subseteq Nat \ {0}

\* uint32_t arithmetic, at a width TLC's integers hold.
Word == 65536
U32(x) == x % Word
Least(a, b) == IF a < b THEN a ELSE b

RawKey(slot) == <<"raw", slot>>
CompKey(c) == <<"comp", c>>
Run(first, n) == [i \in 1 .. n |-> first + i - 1]

\* Every kernel scores its raw rows first: sr < raw_count ? raw : comp.
Scored(raw_rows, comp_rows) ==
  [sr \in 1 .. Len(raw_rows) + Len(comp_rows) |->
     IF sr <= Len(raw_rows) THEN RawKey(raw_rows[sr]) ELSE CompKey(comp_rows[sr - Len(raw_rows)])]
\* The kernels for eight heads stage their rows in tiles of four: a read is a
\* tile and a row of it.
InTiles(keys) ==
  [x \in {y \in (0 .. (Len(keys) + 3) \div 4 - 1) \X (0 .. 3) : y[2] < Len(keys) - 4 * y[1]} |->
     keys[4 * x[1] + x[2] + 1]]

\* Faulty variant for the checks: the window is one position too wide.
WideWindowSlots(a, t) ==
  LET qpos == a.pos0 + t
      first == U32(a.pos0 + a.n_tokens - a.n_raw)
      lo == IF a.window # 0 /\ qpos > a.window /\ qpos - a.window > first
            THEN qpos - a.window ELSE first
      hi == Least(qpos, U32(first + a.n_raw - 1))
      count == IF a.n_raw = 0 \/ qpos < first \/ hi < lo THEN 0
               ELSE Least(hi - lo + 1, RawRows)
  IN [i \in 1 .. count |-> (a.raw_start + lo - first + i - 1) % a.raw_cap]
\* The part every decode and indexed kernel begins with: the raw positions from
\* the window's first to the token's own, found in the ring from raw_start.
WindowSlots(a, t) ==
  LET qpos == a.pos0 + t
      first == U32(a.pos0 + a.n_tokens - a.n_raw)
      lo == IF a.window # 0 /\ qpos + 1 > a.window /\ qpos + 1 - a.window > first
            THEN qpos + 1 - a.window ELSE first
      hi == Least(qpos, U32(first + a.n_raw - 1))
      count == IF a.n_raw = 0 \/ qpos < first \/ hi < lo THEN 0
               ELSE Least(hi - lo + 1, RawRows)
  IN [i \in 1 .. count |-> (a.raw_start + lo - first + i - 1) % a.raw_cap]
AllSlots(a) == [i \in 1 .. Least(a.n_raw, RawRows) |-> (a.raw_start + i - 1) % a.raw_cap]

\* Compressed rows that end at or before the token. A launch for one token
\* without a ratio sees them all.
SingleAll(a) == a.n_tokens = 1 /\ a.ratio = 0
Visible(a, t) ==
  IF a.n_comp = 0 THEN 0
  ELSE IF a.ratio = 0 THEN a.n_comp
  ELSE Least((a.pos0 + t + 1) \div a.ratio, a.n_comp)

\* attention_decode_mixed_kernel
DecodeMixed(a, t) ==
  Scored(IF SingleAll(a) THEN AllSlots(a) ELSE WindowSlots(a, t), Run(0, Visible(a, t)))

\* attention_decode_mixed_heads8_online_kernel
DecodeMixedOnline(a, t) == InTiles(Scored(WindowSlots(a, t), Run(0, Visible(a, t))))

\* The numbers of a finite set in ascending order.
Ascending(S) ==
  CHOOSE e \in [1 .. Cardinality(S) -> S] : \A i, j \in 1 .. Cardinality(S) : i < j => e[i] < e[j]
\* Selected rows the token may see, as many as comp_rows holds.
Selected(a, t) ==
  LET seen == {i \in DOMAIN a.topk[t] : a.topk[t][i] \in 0 .. Visible(a, t) - 1}
  IN [i \in 1 .. Least(Cardinality(seen), CompRows) |-> a.topk[t][Ascending(seen)[i]]]

\* attention_indexed_mixed_kernel. Its threads append the rows to comp_rows in
\* any order; the sum does not depend on it.
IndexedMixed(a, t) == Scored(WindowSlots(a, t), Selected(a, t))

\* attention_indexed_mixed_heads8_rb4_kernel: a first pass of tiles leaves a score
\* for each row, a second one weighs its value by it.
IndexedRb4(a, t) ==
  LET keys == Scored(WindowSlots(a, t), Selected(a, t))
  IN [i \in 0 .. Len(keys) - 1 |-> InTiles(keys)[<<i \div 4, i % 4>>]]
\* attention_indexed_mixed_heads8_online_kernel: a single pass of tiles.
IndexedOnline(a, t) == InTiles(Scored(WindowSlots(a, t), Selected(a, t)))
\* attention_indexed_mixed_heads8_online_turbo4_kernel: one row at a time, the
\* compressed ones read in packed form.
IndexedPacked(a, t) == Scored(WindowSlots(a, t), Selected(a, t))

\* Rows of the batch itself: attention_prefill_raw_kernel.
PrefillRaw(a, t) ==
  LET count == Least(t + 1, a.window) IN Scored(Run(t + 1 - count, count), <<>>)

\* attention_prefill_raw_softmax_kernel over the scores of a whole-batch product:
\* a masked score is not read.
InWindow(a, t, k) == k <= t /\ (a.window = 0 \/ t - k < a.window)
PrefillRawSoftmax(a, t) ==
  [k \in {r \in 0 .. a.n_tokens - 1 : InWindow(a, t, r)} |-> RawKey(k)]

\* attention_prefill_mixed_kernel
PrefillMixed(a, t) ==
  LET start == IF a.window # 0 /\ t + 1 > a.window THEN t + 1 - a.window ELSE 0
  IN Scored(Run(start, t + 1 - start), Run(0, Least((t + 1) \div a.ratio, a.n_comp)))

\* attention_prefill_mixed_softmax_kernel: scores of the batch, then of the rows
PrefillMixedSoftmax(a, t) ==
  LET n == a.n_tokens
  IN [k \in {r \in 0 .. n + a.n_comp - 1 :
                IF r < n THEN InWindow(a, t, r) ELSE r - n < (t + 1) \div a.ratio} |->
        IF k < n THEN RawKey(k) ELSE CompKey(k - n)]

\* attention_static_mixed_heads8_online_kernel
StaticMixedOnline(a, t) ==
  LET count == IF a.window # 0 /\ t + 1 > a.window THEN a.window ELSE t + 1
      comp_count == IF a.n_comp = 0 \/ a.ratio = 0 THEN 0 ELSE Least((t + 1) \div a.ratio, a.n_comp)
  IN InTiles(Scored(Run(t + 1 - count, count), Run(0, comp_count)))

\* The launchers. opt holds the quality mode and whether cuBLAS is ready.
Reads(a, Kernel(_, _)) == [t \in 0 .. a.n_tokens - 1 |-> Kernel(a, t)]
Windowed(a, opt) == ~opt.quality /\ a.n_tokens >= WindowTokens

\* cuda_attention_score_buffer_fits
ScoreBufferFits(a) == a.n_comp <= ScoreCap

\* ds4_gpu_attention_decode_heads_tensor: the kernels are given no position, no
\* window and no ratio: all raw rows and all compressed rows are read.
DecodeHeads(a) ==
  LET all == [a EXCEPT !.n_tokens = 1, !.pos0 = 0, !.window = 0, !.ratio = 0]
  IN IF ScoreBufferFits(a) THEN Reads(all, DecodeMixed) ELSE Reads(all, DecodeMixedOnline)

\* attention_decode_batch_launch
DecodeBatch(a, opt) ==
  IF ~ScoreBufferFits(a) \/ (a.n_tokens > 1 /\ Windowed(a, opt))
  THEN Reads(a, DecodeMixedOnline)
  ELSE Reads(a, DecodeMixed)

\* ds4_gpu_attention_prefill_raw_heads_tensor
PrefillRawHeads(a, opt) ==
  IF a.n_tokens > 1 /\ Windowed(a, opt)
  THEN Reads([a EXCEPT !.n_comp = 0, !.ratio = 1], StaticMixedOnline)
  ELSE IF a.n_tokens > 1 /\ opt.cublas THEN Reads(a, PrefillRawSoftmax)
  ELSE Reads(a, PrefillRaw)

\* attention_prefill_mixed_launch
PrefillMixedHeads(a, opt) ==
  IF a.n_tokens > 1 /\ Windowed(a, opt) THEN Reads(a, StaticMixedOnline)
  ELSE IF a.n_tokens > 1 /\ opt.cublas THEN Reads(a, PrefillMixedSoftmax)
  ELSE Reads(a, PrefillMixed)

\* ds4_gpu_attention_indexed_mixed_batch_heads_tensor
IndexedHeads(a, opt) ==
  IF a.n_tokens = 1 \/ "NO_INDEXED_HEADS8" \in opt.env THEN Reads(a, IndexedMixed)
  ELSE IF "INDEXED_TWOPASS" \in opt.env THEN Reads(a, IndexedRb4)
  ELSE Reads(a, IndexedOnline)

\* ds4_gpu_attention_indexed_mixed_batch_heads_turbo4_tensor, for decode steps
IndexedHeadsPacked(a) == Reads(a, IndexedPacked)
====
