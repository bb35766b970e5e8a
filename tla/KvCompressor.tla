---- MODULE KvCompressor ----
(* The compressed KV rows of one attention layer, and the rolling state they *)
(* are pooled from, as the CUDA kernels of ds4_cuda_compressor.cuh and their *)
(* launchers in ds4_cuda_dispatch2.cuh compute them.                         *)
(*                                                                           *)
(* A projected token is known by its position and by the phase of the        *)
(* positional term (ape) added to its score. A row of the rolling state      *)
(* holds one token or, when its score is -infinity, none: such a row has no  *)
(* weight in a pool. A ratio-4 token is projected twice as wide as a head:   *)
(* half 0 is pooled when the token is in the previous block, half 1 when it  *)
(* is in the current one. A compressed row is pooled in stripes of 256       *)
(* dimensions (Stripes of them, two for the 512-wide attention heads, one    *)
(* for the 128-wide indexer), then normalised and rotated for one position.  *)
EXTENDS Integers, Sequences, FiniteSets

CONSTANTS Stripes, CompCap

ASSUME CompressorAssumption == Stripes \in {1, 2} /\ CompCap \in Nat \ {0}

None == -1

Coff(ratio) == IF ratio = 4 THEN 2 ELSE 1
StateRows(ratio) == 0 .. Coff(ratio) * ratio - 1

Token(p, phase) == [pos |-> p, ape |-> phase]
NoToken == Token(None, None)

\* fill_f32_kernel over both state tensors: values 0, scores -infinity.
FillState(ratio) == [r \in StateRows(ratio) |-> NoToken]

\* Faulty variant for the checks: a ratio-4 token lands in the previous block.
StoreInPrevious(state, ratio, pos) == [state EXCEPT ![pos % ratio] = Token(pos, pos % ratio)]
\* compressor_store_kernel for one token, which every caller passes.
Store(state, ratio, pos) ==
  [state EXCEPT ![IF ratio = 4 THEN ratio + (pos % ratio) ELSE pos % ratio] =
     Token(pos, pos % ratio)]

\* compressor_set_rows_kernel: rows of the batch that starts at pos0.
SetRows(state, ratio, pos0, src0, dst0, rows) ==
  [r \in StateRows(ratio) |->
     IF r \in dst0 .. dst0 + rows - 1
     THEN Token(pos0 + src0 + r - dst0, (pos0 + src0 + r - dst0) % ratio)
     ELSE state[r]]

Weighted(tokens, half) == {<<t.pos, t.ape, half>> : t \in tokens \ {NoToken}}

\* Row c of a batch: for ratio 4 the block before it, taken from the batch or,
\* for the first row of a resumed batch, from the rolling state.
PrefillPool(state, ratio, pos0, c, replay) ==
  LET Block(b) == {Token(pos0 + t, (pos0 + t) % ratio) : t \in b * ratio .. b * ratio + ratio - 1}
      Previous == IF c > 0 THEN Block(c - 1)
                  ELSE IF replay THEN {state[r] : r \in 0 .. 3} ELSE {}
  IN IF ratio = 4 THEN Weighted(Previous, 0) \cup Weighted(Block(c), 1)
     ELSE Weighted(Block(c), 0)

\* The row a full rolling state pools to.
UpdatePool(state, ratio) ==
  IF ratio = 4
  THEN Weighted({state[r] : r \in 0 .. 3}, 0) \cup Weighted({state[ratio + r] : r \in 0 .. 3}, 1)
  ELSE Weighted({state[r] : r \in 0 .. ratio - 1}, 0)

\* compressor_shift_ratio4_kernel: the current block becomes the previous one
\* and stays where it was until the next four tokens overwrite it.
ShiftRatio4(state) == [r \in StateRows(4) |-> IF r < 4 THEN state[r + 4] ELSE state[r]]

\* A row of the compressed cache: what each stripe was pooled from, the position
\* it was rotated for, and the position the packed copy was taken at.
Row(pool, stripes, rope) == [pool |-> [s \in stripes |-> pool], rope |-> rope]
NoRow == Row({}, 1 .. Stripes, None)

\* rms_norm and rope_tail_kernel over the n rows of a batch: row c of the tensor
\* is rotated for position pos0 + c.
RopeTail(pos0, c) == pos0 + c

PrefillRows(state, ratio, pos0, n, replay) ==
  [c \in 0 .. n \div ratio - 1 |->
     Row(PrefillPool(state, ratio, pos0, c, replay), 1 .. Stripes, RopeTail(pos0, c))]

\* Faulty variant for the checks: the rest is stored over the previous block.
KeepRestInPrevious(ratio, pos0, n) ==
  LET cutoff == (n \div ratio) * ratio
  IN SetRows(FillState(ratio), ratio, pos0, cutoff, 0, n - cutoff)
\* The state ds4_gpu_compressor_prefill_tensor leaves: the last whole block as
\* the previous one (ratio 4) and the tokens of the unfinished block.
PrefillState(ratio, pos0, n) ==
  LET cutoff == (n \div ratio) * ratio
      previous == IF ratio = 4 /\ cutoff >= ratio
                  THEN SetRows(FillState(ratio), ratio, pos0, cutoff - ratio, 0, ratio)
                  ELSE FillState(ratio)
  IN SetRows(previous, ratio, pos0, cutoff, IF ratio = 4 THEN ratio ELSE 0, n - cutoff)

\* ds4_gpu_compressor_prefill_ratio4_replay_tensor pools with the rolling state
\* as the block before, then leaves its own last block as the previous one.
ReplayState(pos0, n) == SetRows(FillState(4), 4, pos0, n - 4, 0, 4)

\* ds4_gpu_compressor_prefill_state_ratio4_tensor: four tokens from pos0 on
\* become the previous block, the current one is empty.
PrefillStateRatio4(pos0) == SetRows(FillState(4), 4, pos0, 0, 0, 4)

Emits(ratio, pos) == (pos + 1) % ratio = 0

\* ds4_gpu_compressor_update_tensor: store, and at the end of a block pool the
\* row, rotate it for the block's first position and shift the state.
Update(comp, ratio, pos, comp_row) ==
  LET stored == Store(comp.state, ratio, pos)
  IN IF ~Emits(ratio, pos) THEN [comp EXCEPT !.state = stored]
     ELSE [state |-> IF ratio = 4 THEN ShiftRatio4(stored) ELSE stored,
           rows |-> [comp.rows EXCEPT ![comp_row] =
                       Row(UpdatePool(stored, ratio), 1 .. Stripes, pos + 1 - ratio)]]

\* Faulty variant for the checks: the state is shifted before it is pooled.
EmitShifted(comp, ratio, pos) ==
  LET comp_row == (pos + 1) \div ratio - 1
      shifted == IF ratio = 4 THEN ShiftRatio4(comp.state) ELSE comp.state
  IN IF ~Emits(ratio, pos) \/ comp_row >= CompCap THEN comp
     ELSE [state |-> shifted,
           rows |-> [comp.rows EXCEPT ![comp_row] =
                       Row(UpdatePool(shifted, ratio), 1 .. Stripes, pos + 1 - ratio)]]
\* compressor_emit_conditional_kernel: one block of 256 threads, each pooling at
\* most one dimension, so a stripe beyond the first keeps what it held.
EmitConditional(comp, ratio, pos) ==
  LET comp_row == (pos + 1) \div ratio - 1
      pooled == Row(UpdatePool(comp.state, ratio), 1 .. Stripes, pos + 1 - ratio)
  IN IF ~Emits(ratio, pos) \/ comp_row >= CompCap THEN comp
     ELSE [state |-> IF ratio = 4 THEN ShiftRatio4(comp.state) ELSE comp.state,
           rows |-> [comp.rows EXCEPT ![comp_row] =
                       [pooled EXCEPT !.pool = [s \in 1 .. Stripes |->
                          IF s = 1 THEN pooled.pool[1] ELSE comp.rows[comp_row].pool[s]]]]]

(* What a compressed row stands for.                                         *)
\* Row c covers its own block and, for ratio 4, the block before it.
PoolOf(ratio, c) ==
  LET Block(b, half) == {<<p, p % ratio, half>> : p \in b * ratio .. b * ratio + ratio - 1}
  IN IF ratio = 4 THEN (IF c > 0 THEN Block(c - 1, 0) ELSE {}) \cup Block(c, 1)
     ELSE Block(c, 0)
\* What it is pooled from after a prompt of n tokens, whose last four are left as
\* the previous block and none as the current one: a ratio-4 row the prompt did
\* not finish has the tokens since the prompt, and the prompt's last four when the
\* prompt ended in its block. It is PoolOf when n is a multiple of four.
RowPool(ratio, n, c) ==
  LET Since(b, half) == {<<p, p % 4, half>> : p \in {q \in b * 4 .. b * 4 + 3 : c < n \div 4 \/ q >= n}}
      Kept == {<<p, p % 4, 0>> : p \in {q \in n - 4 .. n - 1 : q >= 0}}
  IN IF ratio # 4 THEN PoolOf(ratio, c)
     ELSE Since(c, 1) \cup (IF c = n \div 4 THEN Kept ELSE IF c > 0 THEN Since(c - 1, 0) ELSE {})
====
