---- MODULE IndexerTopK ----
(* Scores and selection of the sparse-attention indexer                      *)
(* (ds4_cuda_indexer.cuh, launchers in ds4_cuda_dispatch1.cuh). A score is a *)
(* number or Hidden, which stands for -infinity; only the order of scores    *)
(* matters. A row is 0 .. n-1 -> score.                                      *)
EXTENDS Integers, Sequences, FiniteSets, SequencesExt

CONSTANTS TileSize,   \* 16: tokens and rows of a wmma tile
          SortSizes,  \* <<1024, 2048, 4096>>: what one block sorts
          K,          \* 512: rows selected
          MergeGroup  \* sets a merge block takes

ASSUME TopKAssumption ==
  /\ {TileSize, K, MergeGroup} \subseteq Nat \ {0} /\ MergeGroup > 1
  /\ Len(SortSizes) > 0 /\ SortSizes[Len(SortSizes)] >= MergeGroup * K

Hidden == -1
NoIdx == 65535  \* UINT32_MAX
Smaller(a, b) == IF a < b THEN a ELSE b

(* Scores: what each kernel writes for row c of token t, real being the score. *)

\* indexer_scores_kernel
ScorePlain(l, t, c, real) ==
  IF l.causal /\ c >= (l.pos0 + t + 1) \div l.ratio THEN Hidden ELSE real

\* indexer_score_one_direct_kernel
ScoreDirect(l, c, real) ==
  IF l.causal /\ c >= (IF l.ratio # 0 THEN (l.pos0 + 1) \div l.ratio ELSE l.n_comp) THEN Hidden ELSE real

\* Faulty variant for the checks: a tile is skipped by its first token.
ScoreTileFirst(l, t, c, real) ==
  LET tile_t == (t \div TileSize) * TileSize
      tile_c == (c \div TileSize) * TileSize
      max_visible == Smaller((l.pos0 + tile_t + 1) \div l.ratio, l.n_comp)
  IN IF l.causal /\ tile_c >= max_visible THEN Hidden
     ELSE IF l.causal /\ c >= (l.pos0 + t + 1) \div l.ratio THEN Hidden
     ELSE real
\* indexer_scores_wmma_kernel: a tile whose last token sees none of its rows is
\* hidden without being computed.
ScoreTile(l, t, c, real) ==
  LET tile_t == (t \div TileSize) * TileSize
      tile_c == (c \div TileSize) * TileSize
      last_token == Smaller(tile_t + TileSize, l.n_tokens)
      max_visible == IF last_token > tile_t
                     THEN Smaller((l.pos0 + last_token) \div l.ratio, l.n_comp) ELSE 0
  IN IF l.causal /\ tile_c >= max_visible THEN Hidden
     ELSE IF l.causal /\ c >= (l.pos0 + t + 1) \div l.ratio THEN Hidden
     ELSE real

\* indexer_scores_launch: which kernel a launch takes.
ScoreOf(l, opt, t, c, real) ==
  IF l.n_tokens = 1 /\ opt.direct THEN ScoreDirect(l, c, real)
  ELSE IF ~opt.quality /\ opt.wmma THEN ScoreTile(l, t, c, real)
  ELSE ScorePlain(l, t, c, real)

\* ds4_gpu_indexer_score_one_tensor, ..._prefill_tensor, ..._decode_batch_tensor
ScoreOneLaunch(n) == [n_comp |-> n, n_tokens |-> 1, pos0 |-> 0, ratio |-> 1, causal |-> FALSE]
BatchLaunch(n, tokens, pos0, ratio) ==
  [n_comp |-> n, n_tokens |-> tokens, pos0 |-> pos0, ratio |-> ratio, causal |-> TRUE]

(* Selection.                                                                *)

\* topk_score_better
Better(av, ai, bv, bi) == av > bv \/ (av = bv /\ ai < bi)

\* indexer_topk_kernel: insertion into the k best so far.
Insertion(row, n, k) ==
  LET Insert(sel, c) ==
        LET places == {p \in 0 .. k - 1 : p >= c \/ row[c] > row[sel[p]]}
            at == CHOOSE p \in places : \A q \in places : p <= q
        IN IF places = {} THEN sel
           ELSE [p \in 0 .. k - 1 |-> IF p < at THEN sel[p] ELSE IF p = at THEN c ELSE sel[p - 1]]
  IN FoldLeft(Insert, [p \in 0 .. k - 1 |-> 0], [i \in 1 .. n |-> i - 1])

\* Faulty variant for the checks: the direction of a run is taken from j.
CompareExchangeByJ(s, k, j) ==
  [i \in DOMAIN s |->
     LET other == IF (i \div j) % 2 = 0 THEN i + j ELSE i - j
         low == IF i < other THEN i ELSE other
         high == IF i < other THEN other ELSE i
         descending == (low \div j) % 2 = 0
         swap == IF descending THEN Better(s[high][1], s[high][2], s[low][1], s[low][2])
                 ELSE Better(s[low][1], s[low][2], s[high][1], s[high][2])
     IN IF swap THEN s[other] ELSE s[i]]
\* One round of the bitonic network: i and i ^ j are compared, the run's
\* direction is given by i & k.
CompareExchange(s, k, j) ==
  [i \in DOMAIN s |->
     LET other == IF (i \div j) % 2 = 0 THEN i + j ELSE i - j
         low == IF i < other THEN i ELSE other
         high == IF i < other THEN other ELSE i
         descending == (low \div k) % 2 = 0
         swap == IF descending THEN Better(s[high][1], s[high][2], s[low][1], s[low][2])
                 ELSE Better(s[low][1], s[low][2], s[high][1], s[high][2])
     IN IF swap THEN s[other] ELSE s[i]]

\* for (k = 2; k <= size; k <<= 1) for (j = k >> 1; j > 0; j >>= 1)
Rounds[size \in Nat, k \in Nat, j \in Nat] ==
  IF k > size THEN <<>>
  ELSE IF j = 0 THEN Rounds[size, 2 * k, k]
  ELSE <<<<k, j>>>> \o Rounds[size, k, j \div 2]
Bitonic(s, size) ==
  FoldLeft(LAMBDA acc, r : CompareExchange(acc, r[1], r[2]), s, Rounds[size, 2, 1])

Padding == <<Hidden, NoIdx>>
FirstOf(s, k) == [i \in 0 .. k - 1 |-> s[i][2]]

\* indexer_topk_1024_kernel and indexer_topk_pow2_kernel
SortRow(row, n, size, k) ==
  FirstOf(Bitonic([i \in 0 .. size - 1 |-> IF i < n THEN <<row[i], i>> ELSE Padding], size), k)

\* indexer_topk_chunk_pow2_kernel: the k best of one chunk, padding included.
SortChunk(row, n, size, k, chunk) ==
  LET start == chunk * size
      count == Smaller(n - start, size)
  IN FirstOf(Bitonic([i \in 0 .. size - 1 |->
                        IF i < count THEN <<row[start + i], start + i>> ELSE Padding], size), k)

\* indexer_topk_merge_pow2_kernel and indexer_topk_tree_merge_pow2_kernel: the k
\* best of count candidates.
MergeSets(row, n, size, k, cand, count) ==
  FirstOf(Bitonic([i \in 0 .. size - 1 |->
                     IF i < count
                     THEN LET idx == cand[i]
                          IN <<IF idx < n THEN row[idx] ELSE Hidden, idx>>
                     ELSE Padding], size), k)

RoundUp(a, b) == (a + b - 1) \div b
\* The levels of the tree: the sets, each a function 0 .. k - 1 -> row, are merged
\* by groups until one merge can take what is left.
MergeTree(row, n, size, k, chunks) ==
  LET Of(sets, g) ==
        LET rest == Len(sets) - g * MergeGroup
        IN [i \in 0 .. Smaller(rest, MergeGroup) * k - 1 |-> sets[g * MergeGroup + (i \div k) + 1][i % k]]
      Merged(sets, g) == MergeSets(row, n, size, k, Of(sets, g), Cardinality(DOMAIN Of(sets, g)))
      Up[sets \in Seq([0 .. k - 1 -> Nat])] ==
        IF Len(sets) <= MergeGroup THEN Merged(sets, 0)
        ELSE Up[[g \in 1 .. RoundUp(Len(sets), MergeGroup) |-> Merged(sets, g - 1)]]
  IN Up[chunks]

\* Faulty variant for the checks: the last chunk is left out.
ChunkedDropsRest(row, n, size, k) ==
  MergeTree(row, n, size, k, [c \in 1 .. n \div size |-> SortChunk(row, n, size, k, c - 1)])
Chunked(row, n, size, k) ==
  MergeTree(row, n, size, k, [c \in 1 .. RoundUp(n, size) |-> SortChunk(row, n, size, k, c - 1)])

\* ds4_gpu_indexer_topk_tensor: a row that fits one of the sorted sizes is
\* sorted at once, a longer one by chunks, any other request by insertion. off
\* holds the switches DS4_CUDA_NO_TOPK*.
SelectTopK(row, n, k, off) ==
  LET fits == {i \in DOMAIN SortSizes : n <= SortSizes[i] /\ ~(IF i = 1 THEN "sort_first" ELSE "sort") \in off}
      size == SortSizes[CHOOSE i \in fits : \A j \in fits : i <= j]
  IN IF k = K /\ fits # {} THEN SortRow(row, n, size, k)
     ELSE IF k = K /\ off \cap {"sort", "chunked"} = {}
     THEN Chunked(row, n, SortSizes[Len(SortSizes)], k)
     ELSE Insertion(row, n, k)

\* topk_mask_kernel: the rows the dense kernels may read.
Mask(sel, n, k) == [c \in 0 .. n - 1 |-> \E i \in 0 .. k - 1 : sel[i] = c]

(* What the selection promises.                                              *)
Best(row, n, k) ==
  LET Rank(c) == Cardinality({d \in 0 .. n - 1 : Better(row[d], d, row[c], c)})
  IN [i \in 0 .. k - 1 |-> CHOOSE c \in 0 .. n - 1 : Rank(c) = i]

\* Whatever kernels a row goes through, the k best are selected, best first and
\* the lower row first among equals, so that two requests which differ only in
\* length, mode or switches see the same rows.
SelectsBest(row, n, k, off) ==
  LET sel == SelectTopK(row, n, k, off)
  IN sel = Best(row, n, k) /\ \A c \in 0 .. n - 1 : Mask(sel, n, k)[c] <=> \E i \in 0 .. k - 1 : Best(row, n, k)[i] = c

\* No kernel shows a token a row that ends after it, or hides one it may see.
ScoresCausal(l, opt) ==
  \A t \in 0 .. l.n_tokens - 1 : \A c \in 0 .. l.n_comp - 1 :
    (ScoreOf(l, opt, t, c, 0) = Hidden) <=> (l.causal /\ (c + 1) * l.ratio > l.pos0 + t + 1)
====
