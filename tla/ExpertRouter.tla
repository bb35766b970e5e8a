---- MODULE ExpertRouter ----
(* The choice of the experts of a token (ds4_cuda_router.cuh, launchers in   *)
(* ds4_cuda_dispatch3.cuh): three kernels, one of which runs. prob and bias  *)
(* are 0 .. n - 1 -> number, probabilities being known by their order.       *)
EXTENDS Integers, Sequences, FiniteSets, SequencesExt

CONSTANTS Lanes,   \* 32: lanes of a warp, a power of two
          PerLane, \* 8: experts a lane holds
          Picked   \* 6: experts of a token

ASSUME RouterAssumption == {Lanes, PerLane, Picked} \subseteq Nat \ {0}

NegInf == -1000   \* below every score
NoExpert == 65535 \* UINT32_MAX

Score(prob, bias, e) == prob[e] + bias[e]

\* The weights kept with a selection are probabilities, never biased scores.
Chosen(prob, sel) ==
  [sel |-> sel,
   w |-> [j \in DOMAIN sel |-> IF sel[j] \in DOMAIN prob THEN prob[sel[j]] ELSE 0]]

\* The row of the hash table of a token, row 0 for a token beyond it.
HashRow(hash, tok) == IF tok \in DOMAIN hash THEN hash[tok] ELSE hash[0]

\* One expert offered to the list sorted so far, -1 being a free place.
Offer(prob, bias, sel, e) ==
  LET places == {j \in 1 .. Picked : sel[j] < 0 \/ Score(prob, bias, e) > Score(prob, bias, sel[j])}
      at == CHOOSE j \in places : \A q \in places : j <= q
  IN IF places = {} THEN sel
     ELSE [j \in 1 .. Picked |-> IF j < at THEN sel[j] ELSE IF j = at THEN e ELSE sel[j - 1]]

\* router_select_kernel: one thread.
SelectSerial(prob, bias, hash, tok, hash_mode) ==
  IF hash_mode THEN Chosen(prob, HashRow(hash, tok))
  ELSE Chosen(prob, FoldLeft(LAMBDA sel, i : Offer(prob, bias, sel, i - 1),
                             [j \in 1 .. Picked |-> -1], [i \in 1 .. Cardinality(DOMAIN prob) |-> i]))

\* router_select_parallel_kernel: every thread leaves its expert's probability in
\* shared memory, and after the barrier thread 0 reads them there.
SelectParallel(prob, bias, hash, tok, hash_mode) ==
  LET sprob == [i \in DOMAIN prob |-> prob[i]]
  IN IF hash_mode THEN Chosen(sprob, HashRow(hash, tok))
     ELSE Chosen(sprob, FoldLeft(LAMBDA sel, i : Offer(sprob, bias, sel, i - 1),
                                 [j \in 1 .. Picked |-> -1], [i \in 1 .. Cardinality(DOMAIN prob) |-> i]))

\* router_score_better, on candidates <<score, expert, probability>>
ScoreBetter(a, b) == a[1] > b[1] \/ (a[1] = b[1] /\ a[2] < b[2])
BestOf(cands, from) == FoldLeft(LAMBDA best, c : IF ScoreBetter(c, best) THEN c ELSE best, from, cands)

\* Faulty variant for the checks: a lane keeps its own candidate on a tie.
ShuffleFirst(best, mask) ==
  [lane \in DOMAIN best |->
     LET other == best[IF (lane \div mask) % 2 = 0 THEN lane + mask ELSE lane - mask]
     IN IF other[1] > best[lane][1] THEN other ELSE best[lane]]
\* One __shfl_xor_sync round: every lane compares with lane ^ mask.
Shuffle(best, mask) ==
  [lane \in DOMAIN best |->
     LET other == best[IF (lane \div mask) % 2 = 0 THEN lane + mask ELSE lane - mask]
     IN IF ScoreBetter(other, best[lane]) THEN other ELSE best[lane]]
Masks[m \in Nat] == IF m = 0 THEN <<>> ELSE <<m>> \o Masks[m \div 2]

\* One pass over the lanes: the best of each lane, the best of the warp, whose
\* place in its lane is then emptied.
PickRound(acc) ==
  LET mine == [lane \in 0 .. Lanes - 1 |->
                 BestOf([j \in 1 .. PerLane |-> acc.local[lane][j]], <<NegInf, NoExpert, 0>>)]
      best == FoldLeft(Shuffle, mine, Masks[Lanes \div 2])
      Emptied(c, b) == IF c[2] = b[2] THEN <<NegInf, c[2], c[3]>> ELSE c
  IN [local |-> [lane \in 0 .. Lanes - 1 |-> [j \in 1 .. PerLane |-> Emptied(acc.local[lane][j], best[lane])]],
      out |-> Append(acc.out, best[0])]

\* router_select_warp_topk_kernel: lane holds the experts lane, lane + 32, ...
SelectWarp(prob, bias, hash, tok, hash_mode) ==
  LET Expert(lane, j) == lane + (j - 1) * Lanes
      local == [lane \in 0 .. Lanes - 1 |-> [j \in 1 .. PerLane |->
                  LET e == Expert(lane, j)
                  IN IF e \in DOMAIN prob THEN <<Score(prob, bias, e), e, prob[e]>> ELSE <<NegInf, e, 0>>]]
      picked == FoldLeft(LAMBDA acc, i : PickRound(acc), [local |-> local, out |-> <<>>], [i \in 1 .. Picked |-> i]).out
  IN IF hash_mode THEN Chosen(prob, HashRow(hash, tok))
     ELSE [sel |-> [k \in 1 .. Picked |-> picked[k][2]], w |-> [k \in 1 .. Picked |-> picked[k][3]]]

\* ds4_gpu_router_select_tensor (decode: the token by value) and
\* ds4_gpu_router_select_batch_tensor: a bias is not loaded for hashed layers; off
\* holds the switches DS4_CUDA_NO_*_ROUTER_SELECT.
RouterSelect(prob, bias, has_bias, hash, tok, hash_mode, off) ==
  LET b == IF has_bias /\ ~hash_mode THEN bias ELSE [e \in DOMAIN prob |-> 0]
  IN IF off = {} THEN SelectWarp(prob, b, hash, tok, hash_mode)
     ELSE IF "parallel" \notin off THEN SelectParallel(prob, b, hash, tok, hash_mode)
     ELSE SelectSerial(prob, b, hash, tok, hash_mode)
RouterSelectBatch(prob, bias, has_bias, hash, tokens, hash_mode, off) ==
  [t \in DOMAIN tokens |-> RouterSelect(prob[t], bias, has_bias, hash, tokens[t], hash_mode, off)]

\* What the router promises: the experts of highest score, best first and the
\* lower index first among equals, weighted by their probabilities; a hashed
\* layer takes its table's row whatever the probabilities are.
Routed(prob, bias, has_bias, hash, tok, hash_mode) ==
  LET S(e) == IF has_bias THEN Score(prob, bias, e) ELSE prob[e]
      Rank(e) == Cardinality({d \in DOMAIN prob : S(d) > S(e) \/ (S(d) = S(e) /\ d < e)})
      sel == IF hash_mode THEN HashRow(hash, tok)
             ELSE [j \in 1 .. Picked |-> CHOOSE e \in DOMAIN prob : Rank(e) = j - 1]
  IN [sel |-> sel, w |-> [j \in 1 .. Picked |-> prob[sel[j]]]]

RoutesBest(prob, bias, has_bias, hash, tokens, hash_mode, off) ==
  \A t \in DOMAIN tokens :
    RouterSelectBatch(prob, bias, has_bias, hash, tokens, hash_mode, off)[t]
      = Routed(prob[t], bias, has_bias, hash, tokens[t], hash_mode)
====
