---- MODULE MCGpu ----
\* Instance of the GPU models for TLC: one behaviour is a layer of the graph
\* executor, a block that stages tiles, a launch of the routed experts, or one
\* question to a pure algorithm.
EXTENDS GpuLayer, TileStaging, RoutedMoe, IndexerTopK, ExpertRouter, PackedRow

VARIABLES part, \* "layer", "tiles", "moe" or "ask"
          ask   \* the question

Process(r, q, cb, l, g, e) ==
  [ratio |-> r, quality |-> q, cublas |-> cb, latest |-> l, graph |-> g, env |-> e]
MCSettings ==
  {Process(4, FALSE, TRUE, TRUE, FALSE, {"NO_INDEXED_HEADS8"}),
   Process(4, TRUE, TRUE, FALSE, TRUE, {"KV_TURBO", "INDEXED_TWOPASS"}),
   Process(4, FALSE, TRUE, FALSE, TRUE, {"KV_TURBO"}),
   Process(3, FALSE, TRUE, FALSE, TRUE, {}), Process(3, TRUE, FALSE, FALSE, FALSE, {}),
   Process(3, TRUE, TRUE, FALSE, FALSE, {}), Process(0, FALSE, TRUE, FALSE, TRUE, {}),
   Process(0, TRUE, FALSE, FALSE, FALSE, {})}
\* The decode tape over unpacked rows.
UnpackedTape == {Process(4, FALSE, TRUE, FALSE, TRUE, {})}
\* A ratio-4 layer takes no batch of fewer than four tokens from token 0.
AnyPrompts(ratio) == IF ratio = 4 THEN 4 .. 8 ELSE {1, 5, 8}

MCSortSizes == <<2, 4>>
Staging(rows, tile, buffers, passes, direct, trailing) ==
  [rows |-> rows, tile |-> tile, buffers |-> buffers, passes |-> passes, direct |-> direct, trailing |-> trailing]
\* The rows-by-eight kernel (two passes), the online kernels over the batch, and
\* the decode kernels for contexts that fit their stages.
SafeKernels ==
  {Staging(3, 2, 1, 2, 0, TRUE), Staging(3, 2, 1, 1, 0, TRUE),
   Staging(3, 2, 2, 1, 0, FALSE), Staging(2, 1, 1, 1, 1, FALSE)}
\* The online decode kernel and the one over packed rows, for longer contexts.
RacyKernels == {Staging(5, 2, 2, 1, 0, FALSE), Staging(3, 1, 1, 1, 1, FALSE)}

MoeCall(selected, gate, down, env) ==
  [selected |-> selected, gate |-> gate, down |-> down, roomy |-> "f32" \notin env,
   small_x |-> "x" \notin env, small_mid |-> "mid" \notin env, env |-> env]
One == <<2, 1>>
Three == <<0, 1, 2, 0, 0, 1>>
Five == <<0, 1, 0, 1, 0, 2, -1, 2, 0, 1>>
MCLaunches ==
  {MoeCall(One, f[1], f[2], env) :
     f \in {<<"iq2", "q2">>, <<"nvfp4", "nvfp4">>, <<"q4k", "q4k">>},
     env \in {{}, {"NO_DECODE_LUT_GATE"}, {"NO_DIRECT_DOWN_SUM6"}}}
  \cup {MoeCall(One, f[1], f[2], {"f32"}) : f \in {<<"iq2", "q2">>, <<"nvfp4", "nvfp4">>}}
  \cup {MoeCall(One, "q4k", "q2", {}), MoeCall(One, "iq2", "q4k", {})}
  \cup {MoeCall(Three, "iq2", "q2", env) :
          env \in {{}, {"TILE4"}, {"TILE4", "ATOMIC_DOWN"}, {"ATOMIC_DOWN", "DOWN_ROW"}, {"NO_EXPERT_TILES"},
                   {"NO_EXPERT_TILES", "NO_P2"}, {"f32"}}}
  \cup {MoeCall(Three, "nvfp4", "nvfp4", env) :
          env \in {{}, {"NO_EXPERT_TILES"}, {"TILE4"}, {"TILE4", "ATOMIC_DOWN"}}}
  \cup {MoeCall(Three, "q4k", "q4k", {})}
  \cup {MoeCall(Five, "iq2", "q2", env) : env \in {{}, {"mid"}}}

\* Rows of scores: the visible ones come first.
ScoreRows(n) == UNION {{[c \in 0 .. n - 1 |-> IF c < v THEN f[c] ELSE Hidden] : f \in [0 .. v - 1 -> {0, 1}]} : v \in 0 .. n}
Selecting == UNION {{[kind |-> "select", row |-> row, n |-> n] : row \in ScoreRows(n)} : n \in {2, 4, 5, 9}}
Scoring ==
  {[kind |-> "score", l |-> l] :
     l \in {ScoreOneLaunch(3)} \cup {BatchLaunch(n, tokens, pos0, 2) : n \in {1, 3, 5}, tokens \in {1, 2, 3}, pos0 \in 0 .. 5}}
Routing ==
  UNION {{[kind |-> "route", prob |-> prob, bias |-> bias] : prob \in [0 .. n - 1 -> 0 .. 2], bias \in [0 .. n - 1 -> {0, 1}]} :
         n \in {3, 4}}
Packing == {[kind |-> "pack", head_dim |-> n + r, n_rot |-> r] : n \in 1 .. 5, r \in {2, 4}}

IdleLayer == LayerInit /\ set = CHOOSE x \in Settings : TRUE
IdleTiles == TileInit /\ kernel = CHOOSE k \in Kernels : TRUE
IdleMoe == MoeInit /\ call = CHOOSE c \in Launches : TRUE
GpuInit ==
  \/ part = "layer" /\ ask = <<>> /\ LayerInit /\ IdleTiles /\ IdleMoe
  \/ part = "tiles" /\ ask = <<>> /\ IdleLayer /\ TileInit /\ IdleMoe
  \/ part = "moe" /\ ask = <<>> /\ IdleLayer /\ IdleTiles /\ MoeInit
  \/ part = "ask" /\ ask \in Selecting \cup Scoring \cup Routing \cup Packing /\ IdleLayer /\ IdleTiles /\ IdleMoe
GpuNext ==
  \/ part = "layer" /\ LayerNext /\ UNCHANGED <<part, ask, tileVars, moeVars>>
  \/ part = "tiles" /\ TileNext /\ UNCHANGED <<part, ask, layerVars, moeVars>>
  \/ part = "moe" /\ MoeNext /\ UNCHANGED <<part, ask, layerVars, tileVars>>
GpuSpec == GpuInit /\ [][GpuNext]_<<part, ask, layerVars, tileVars, moeVars>>

\* "topk_score_better", "router_score_better" (ds4_cuda_indexer.cuh,
\* ds4_cuda_router.cuh): the kernels that score and select rows, and those that
\* select experts, agree whichever of them runs.
SelectionsAgree ==
  CASE part # "ask" -> TRUE
    [] ask.kind = "select" ->
         \A off \in SUBSET {"sort_first", "sort", "chunked"} : SelectsBest(ask.row, ask.n, K, off)
    [] ask.kind = "score" ->
         \A quality, wmma, direct \in BOOLEAN :
           ScoresCausal(ask.l, [quality |-> quality, wmma |-> wmma, direct |-> direct])
    [] ask.kind = "route" ->
         \A off \in SUBSET {"warp", "parallel"} : \A has_bias, hash_mode \in BOOLEAN :
           RoutesBest(<<ask.prob, ask.prob>>, ask.bias, has_bias, 0 :> <<0, 1>> @@ 1 :> <<2, 0>>,
                      <<1, 7>>, hash_mode, off)
    [] OTHER -> TRUE

\* "The 1-byte padding ensures the BF16 section starts at an even byte offset"
\* (ds4_turbo4.cu): every packed row reads back.
PacksReadBack == part = "ask" /\ ask.kind = "pack" => PackedReadsBack(ask.head_dim, ask.n_rot)
====
