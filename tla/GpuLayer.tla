---- MODULE GpuLayer ----
(* One layer of the CUDA graph executor: the raw ring, the compressed rows   *)
(* with their rolling state and counter, and the captured decode tape, as    *)
(* the drivers of core/ds4_gpu.inc use the kernels. Positions stand for      *)
(* token projections. What an earlier prompt left in the ring and in the     *)
(* rows reads as nothing (None, NoRow). ratio 0 is a layer without           *)
(* compressor, 4 one with indexer, any other stands for 128.                 *)
EXTENDS KvCompressor, AttentionKernels

CONSTANTS Settings,     \* [ratio, quality, cublas, latest, graph, env] a process may run with
          Window, PrefillCap, RawCap, MaxPos, TopK,
          PromptLens(_) \* lengths of the prompts given to a layer of that ratio

ASSUME LayerAssumption ==
  /\ {Window, PrefillCap, RawCap, MaxPos, TopK} \subseteq Nat \ {0}
  /\ Window + PrefillCap <= RawCap /\ RawCap < Word
  /\ \A s \in Settings : s.ratio \in Nat

VARIABLES set,    \* the settings of this process
          pos,    \* tokens evaluated
          ring,   \* layer_raw_cache: slot -> position
          comp,   \* layer_attn_state_kv/score and layer_attn_comp_cache
          nComp,  \* layer_n_comp
          tape,   \* graph_exec: the launch captured, the position it was last used at
          reads,  \* what the last step's attention read, per token
          cold    \* history, for the properties: length of the last prompt begun at token 0

layerVars == <<set, pos, ring, comp, nComp, tape, reads, cold>>

Ratio == set.ratio
CompRatio == IF Ratio = 0 THEN 1 ELSE Ratio
NoTape == [captured |-> FALSE, used |-> 0, launch |-> <<>>, indexed |-> FALSE]
NoRows == [c \in 0 .. CompCap - 1 |-> NoRow]

\* store_raw_kv_batch_kernel
StoreRaw(r, pos0, n) ==
  [s \in 0 .. RawCap - 1 |->
     LET new == {p \in pos0 .. pos0 + n - 1 : p % RawCap = s}
     IN IF new = {} THEN r[s] ELSE CHOOSE p \in new : TRUE]

\* Faulty variant for the checks: one window row too few for a single token.
ShortSpan(pos0, n) ==
  LET needed == n + (IF n = 1 THEN Window - 2 ELSE Window - 2)
  IN Least(Least(needed, pos0 + n), RawCap)
\* gpu_graph_raw_span_for_batch
RawSpan(pos0, n) ==
  LET needed == n + (IF n = 1 THEN Window - 1 ELSE Window)
  IN Least(Least(needed, pos0 + n), RawCap)
\* gpu_graph_raw_start_for_span
RawStart(last, nRaw) == (last + 1 - nRaw) % RawCap

\* What the indexer selects for a token: the rows it may see, by score, then
\* rows it may not see, whose scores are -infinity.
Selection(n, visible, k) ==
  LET order == [i \in 1 .. n |->
                  IF i > visible THEN i - 1
                  ELSE IF set.latest THEN visible - i ELSE i - 1]
  IN SubSeq(order, 1, Least(k, n))

Launch(pos0, n, nRaw, start, rows) ==
  [n_tokens |-> n, pos0 |-> pos0, n_raw |-> nRaw, raw_cap |-> RawCap, raw_start |-> start,
   n_comp |-> rows, window |-> Window, ratio |-> CompRatio,
   topk |-> [t \in 0 .. n - 1 |->
               Selection(rows, Least((pos0 + t + 1) \div CompRatio, rows), TopK)]]

Indexed(rows) == Ratio = 4 /\ rows > TopK

\* The keys of a launch as the positions and rows they hold, per token.
Held(keys, pos0, Slot(_)) ==
  [t \in DOMAIN keys |->
     [at |-> pos0 + t,
      keys |-> [i \in DOMAIN keys[t] |->
                  IF keys[t][i][1] = "raw" THEN RawKey(Slot(keys[t][i][2])) ELSE keys[t][i]]]]

\* Attention of a batch at position zero: the raw rows are the batch's own, and
\* the ring's when the rows are selected.
PrefillReads(n, rows) ==
  LET a == Launch(0, n, n, 0, rows)
      opt == [quality |-> set.quality, cublas |-> set.cublas, env |-> set.env]
      InBatch(r) == r
      InRing(s) == StoreRaw(ring, 0, n)[s]
  IN IF Indexed(rows) THEN Held(IndexedHeads(a, opt), 0, InRing)
     ELSE IF Ratio # 0 /\ rows # 0 THEN Held(PrefillMixedHeads(a, opt), 0, InBatch)
     ELSE Held(PrefillRawHeads(a, opt), 0, InBatch)

\* Attention of a later batch: the ring linearised from the window's start.
ChunkReads(pos0, n, rows, stored) ==
  LET nRaw == RawSpan(pos0, n)
      a == Launch(pos0, n, nRaw, RawStart(pos0 + n - 1, nRaw), rows)
      opt == [quality |-> set.quality, cublas |-> set.cublas, env |-> set.env]
      InRing(s) == stored[s]
  IN Held(IF Indexed(rows) THEN IndexedHeads(a, opt) ELSE DecodeBatch(a, opt), pos0, InRing)

DecodeLaunch(p) ==
  LET nRaw == RawSpan(p, 1) IN Launch(p, 1, nRaw, RawStart(p, nRaw), nComp)
Packed == "KV_TURBO" \in set.env
\* A launch of the decode tape with the arguments the update table knows of: the
\* plain kernels have no position, the indexed kernel for unpacked rows is not in
\* the table. The selection is read from its tensor.
Replay(p) ==
  LET now == DecodeLaunch(p)
      old == [tape.launch EXCEPT !.topk = now.topk]
      spanned == [old EXCEPT !.n_raw = now.n_raw, !.raw_start = now.raw_start]
  IN IF ~tape.indexed THEN spanned
     ELSE IF Packed THEN [spanned EXCEPT !.pos0 = p]
     ELSE old
DecodeReads(a, indexed, p, stored) ==
  LET InRing(s) == stored[s]
  IN Held(IF indexed /\ Packed THEN IndexedHeadsPacked(a)
          ELSE IF indexed THEN IndexedHeads(a, [env |-> set.env])
          ELSE DecodeHeads(a), p, InRing)

\* compressor stage of a decode step: the row is emitted at the place its
\* position gives it; the counter is left alone.
DecodeComp(c, p) == EmitConditional([c EXCEPT !.state = Store(c.state, Ratio, p)], Ratio, p)

\* compressor stage of a batch at pos0 > 0, as [comp, n]
AppendRows(c, first, new) ==
  [r \in 0 .. CompCap - 1 |->
     IF r - first \in DOMAIN new THEN new[r - first] ELSE c.rows[r]]
\* Faulty variant for the checks: a resumed batch forgets the block before it.
AlignedWithoutReplay(c, n0, pos0, n) ==
  [comp |-> [state |-> IF Ratio = 4 THEN PrefillStateRatio4(pos0 + n - 4)
                       ELSE PrefillState(Ratio, pos0, n),
             rows |-> AppendRows(c, n0, PrefillRows(c.state, Ratio, pos0, n, FALSE))],
   n |-> n0 + n \div Ratio]
AlignedChunk(c, n0, pos0, n) ==
  [comp |-> [state |-> IF Ratio = 4 THEN PrefillStateRatio4(pos0 + n - 4)
                       ELSE PrefillState(Ratio, pos0, n),
             rows |-> AppendRows(c, n0, PrefillRows(c.state, Ratio, pos0, n, Ratio = 4))],
   n |-> n0 + n \div Ratio]
TokenByToken(c, n0, pos0, n) ==
  LET Step(acc, p) == [comp |-> Update(acc.comp, Ratio, p, acc.n),
                       n |-> IF Emits(Ratio, p) THEN acc.n + 1 ELSE acc.n]
  IN FoldLeft(Step, [comp |-> c, n |-> n0], [i \in 1 .. n |-> pos0 + i - 1])
ChunkComp(c, n0, pos0, n) ==
  IF Ratio = 0 THEN [comp |-> c, n |-> 0]
  ELSE IF pos0 % Ratio = 0 /\ n % Ratio = 0 THEN AlignedChunk(c, n0, pos0, n)
  ELSE TokenByToken(c, n0, pos0, n)

LayerInit ==
  /\ set \in Settings
  /\ pos = 0
  /\ ring = [s \in 0 .. RawCap - 1 |-> None]
  /\ comp = [state |-> FillState(CompRatio), rows |-> NoRows]
  /\ nComp = 0
  /\ tape = NoTape
  /\ reads = <<>>
  /\ cold = 0

\* A prompt that shares nothing with what is held, in one batch from token 0:
\* rows pooled over the batch, the state rebuilt from its last four tokens
\* (ratio 4). The tape is not touched.
Prefill(n) ==
  /\ n \in PromptLens(Ratio) /\ n <= PrefillCap /\ n <= MaxPos
  /\ Ratio = 4 => n >= 4
  /\ LET empty == [state |-> FillState(CompRatio), rows |-> NoRows]
         rows == PrefillRows(empty.state, CompRatio, 0, n, FALSE)
         total == IF Ratio = 0 THEN 0 ELSE n \div Ratio
     IN /\ total <= CompCap
        /\ comp' = IF Ratio = 0 THEN empty
                   ELSE [state |-> IF Ratio = 4 THEN PrefillStateRatio4(n - 4)
                                   ELSE PrefillState(Ratio, 0, n),
                         rows |-> AppendRows(empty, 0, rows)]
        /\ nComp' = total
        /\ reads' = PrefillReads(n, total)
  /\ ring' = StoreRaw([s \in 0 .. RawCap - 1 |-> None], 0, n)
  /\ pos' = n
  /\ cold' = n
  /\ UNCHANGED <<set, tape>>

\* gpu_graph_prefill_chunked_range: a batch that extends what is held, up to the
\* next multiple of the prefill cap.
Chunk(n) ==
  /\ pos > 0 /\ pos + n <= MaxPos /\ n <= PrefillCap - (pos % PrefillCap)
  /\ LET stored == StoreRaw(ring, pos, n)
     IN \E done \in {ChunkComp(comp, nComp, pos, n)} :
          /\ done.n <= CompCap
          /\ comp' = done.comp
          /\ nComp' = done.n
          /\ ring' = stored
          /\ reads' = ChunkReads(pos, n, done.n, stored)
  /\ pos' = pos + n
  /\ UNCHANGED <<set, tape, cold>>

\* gpu_graph_eval_token_raw_swa with manual dispatch.
Decode ==
  /\ ~set.graph /\ pos > 0 /\ pos < MaxPos
  /\ ring' = StoreRaw(ring, pos, 1)
  /\ comp' = IF Ratio = 0 THEN comp ELSE DecodeComp(comp, pos)
  /\ reads' = DecodeReads(DecodeLaunch(pos), Indexed(nComp), pos, ring')
  /\ pos' = pos + 1
  /\ UNCHANGED <<set, nComp, tape, cold>>

\* Faulty variant for the checks: a tape is kept across a gap.
KeepsTape == tape.captured
\* The tape serves a token unless positions were skipped since its last use.
TapeServes == tape.captured /\ (tape.used > 0 => pos = tape.used + 1)

\* gpu_graph_eval_token_raw_swa with a decode graph: the first token captures the
\* tape, later ones replay it with the arguments of the update table.
GraphDecode ==
  /\ set.graph /\ pos > 0 /\ pos < MaxPos
  /\ ring' = StoreRaw(ring, pos, 1)
  /\ comp' = IF Ratio = 0 THEN comp ELSE DecodeComp(comp, pos)
  /\ IF TapeServes
     THEN /\ reads' = DecodeReads(Replay(pos), tape.indexed, pos, ring')
          /\ tape' = [tape EXCEPT !.used = pos]
     ELSE /\ reads' = DecodeReads(DecodeLaunch(pos), Indexed(nComp), pos, ring')
          /\ tape' = [captured |-> TRUE, used |-> pos, launch |-> DecodeLaunch(pos),
                      indexed |-> Indexed(nComp)]
  /\ pos' = pos + 1
  /\ UNCHANGED <<set, nComp, cold>>

\* Faulty variant for the checks: the counter is not rewound with the state.
PrefixKeepsCount(one, both) == [comp |-> [both.comp EXCEPT !.state = one.comp.state], n |-> both.n]
\* spec_frontier_commit_prefix1: state and counter after the first token; the
\* rows stay, what the second token wrote is beyond the counter.
CommitPrefix1(one, both) == [comp |-> [both.comp EXCEPT !.state = one.comp.state], n |-> one.n]

\* A two-token verifier batch: both drafts, the first or none are accepted.
Verify(accepted) ==
  /\ pos > 0 /\ pos + 2 <= MaxPos /\ pos % PrefillCap # PrefillCap - 1
  /\ LET stored == StoreRaw(ring, pos, 2)
     IN \E both \in {ChunkComp(comp, nComp, pos, 2)}, one \in {ChunkComp(comp, nComp, pos, 1)} :
          /\ both.n <= CompCap
          /\ ring' = stored
          /\ reads' = ChunkReads(pos, 2, both.n, stored)
          /\ \E kept \in {IF accepted = 2 THEN both
                          ELSE IF accepted = 1 THEN CommitPrefix1(one, both)
                          ELSE [comp |-> [both.comp EXCEPT !.state = comp.state], n |-> nComp]} :
               comp' = kept.comp /\ nComp' = kept.n
  /\ pos' = pos + accepted
  /\ UNCHANGED <<set, tape, cold>>

LayerNext ==
  \/ \E n \in 1 .. PrefillCap : Prefill(n) \/ Chunk(n)
  \/ Decode
  \/ GraphDecode
  \/ \E accepted \in 0 .. 2 : Verify(accepted)

LayerSpec == LayerInit /\ [][LayerNext]_layerVars

(* Properties.                                                               *)

\* The rows counted are those of the whole blocks evaluated.
Counted == Ratio = 0 \/ nComp = pos \div Ratio

\* A resumed or decoded token finds the compressed rows of every finished block:
\* "n_comp (per-layer, evolves every 4 tokens for ratio-4 layers)"
\* (ds4_cuda.cu, graph update table), "compressor/indexer rows finalize in the
\* same order as a cold prompt" (ds4_session_sync).
RowsCounted == Counted

\* While the counter is that of the position, every counted row was pooled from
\* what RowPool names, each token with its own score term, however the tokens
\* came: one batch, resumed batches aligned or not, single tokens, verifier
\* batches accepted in part.
RowsPooled ==
  Ratio # 0 /\ Counted =>
    \A c \in 0 .. nComp - 1 : \A s \in 1 .. Stripes : comp.rows[c].pool[s] = RowPool(Ratio, cold, c)

\* "Rebuild ratio-4 compressor state after chunked prefill so a following decode
\* token sees the same rolling compression window" (ds4_gpu.inc, before
\* gpu_graph_refresh_ratio4_compressor_state): the same rows, each pooled from its
\* whole block and the block before it wherever the prompt ended.
RowsWhole ==
  Ratio # 0 /\ Counted =>
    \A c \in 0 .. nComp - 1 : \A s \in 1 .. Stripes : comp.rows[c].pool[s] = PoolOf(Ratio, c)

\* compressor_emit_conditional_kernel: the decode step that ends a block pools the
\* first 256 dimensions of the block's row, where the row belongs, whether or not
\* the counter has followed.
StripeEmitted ==
  [][(Decode \/ GraphDecode) /\ Ratio # 0 /\ Emits(Ratio, pos) =>
       comp'.rows[pos \div Ratio].pool[1] = RowPool(Ratio, cold, pos \div Ratio)]_layerVars

\* "Works for both attention (head_dim=512) and indexer (head_dim=128)"
\* (ds4_cuda_compressor.cuh, fused emit kernel): the decode step that ends a
\* block pools every dimension of its row.
RowsEmitted ==
  [][(Decode \/ GraphDecode) /\ Ratio # 0 /\ Emits(Ratio, pos) =>
       \A s \in 1 .. Stripes :
         comp'.rows[pos \div Ratio].pool[s] = RowPool(Ratio, cold, pos \div Ratio)]_layerVars

\* "RoPE tail: rotate comp_cache[comp_row] at position pos+1-ratio" (comment of
\* the fused emit kernel): a row is rotated for its block's first position.
RowsRotated ==
  Ratio # 0 /\ Counted => \A c \in 0 .. nComp - 1 : comp.rows[c].rope = c * Ratio

\* The tape the last token used was captured with the rows the layer counts now.
TapeCurrent ==
  set.graph /\ tape.captured /\ tape.used = pos - 1 => tape.launch.n_comp = nComp

\* Each token's attention reads exactly the raw positions of its window, found in
\* the ring after any wrap, and as many compressed rows as it may see (at most
\* TopK of them for a ratio-4 layer), none twice and none of its future.
AttendsExactly ==
  \A t \in DOMAIN reads :
    LET r == reads[t]
        first == IF r.at >= Window THEN r.at + 1 - Window ELSE 0
        visible == IF Ratio = 0 THEN 0 ELSE (r.at + 1) \div Ratio
        rows == {k \in Range(r.keys) : k[1] = "comp"}
    IN /\ IsInjective(r.keys)
       /\ Range(r.keys) \ rows = {RawKey(p) : p \in first .. r.at}
       /\ rows \subseteq {CompKey(c) : c \in 0 .. visible - 1}
       /\ Counted /\ TapeCurrent =>
            Cardinality(rows) = IF Ratio = 4 THEN Least(visible, TopK) ELSE visible
====
