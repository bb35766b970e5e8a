---- MODULE PackedRow ----
(* The packed form of a compressed row (ds4_turbo4.cu): one byte for each    *)
(* value that is not rotated, one scale for each block of them, a byte of    *)
(* padding, two bytes for each rotated value. The writers and the readers of *)
(* the format each compute the offsets themselves. A byte is known by what   *)
(* was written there.                                                        *)
EXTENDS Integers, FiniteSets

CONSTANT BlockLen  \* TURBO4_BLOCK

ASSUME BlockAssumption == BlockLen \in Nat \ {0}

Blocks(n_nope) == (n_nope + BlockLen - 1) \div BlockLen

\* The values the threads of a block of the kernels take together for block b.
BlockValues(n_nope, b) == {b * BlockLen + i : i \in 0 .. BlockLen - 1} \cap (0 .. n_nope - 1)

\* turbo4_row_bytes
RowBytes(head_dim, n_rot) ==
  LET total == (head_dim - n_rot) + Blocks(head_dim - n_rot) + 1 + 2 * n_rot
  IN ((total + 7) \div 8) * 8

\* What turbo4_pack_kernel and turbo4_pack_conditional_kernel store for a row, as
\* <<offset, byte>>; the scale of a block is that of its largest value.
PackStores(head_dim, n_rot) ==
  LET n_nope == head_dim - n_rot
      scale_out == n_nope
      rot_out == scale_out + Blocks(n_nope) + 1
  IN {<<scale_out + b, <<"scale", b>>>> : b \in 0 .. Blocks(n_nope) - 1}
     \cup (UNION {{<<d, <<"e4m3", d, b>>>> : d \in BlockValues(n_nope, b)} : b \in 0 .. Blocks(n_nope) - 1})
     \cup (UNION {{<<rot_out + 2 * i, <<"bf16 low", n_nope + i>>>>,
                   <<rot_out + 2 * i + 1, <<"bf16 high", n_nope + i>>>>} : i \in 0 .. n_rot - 1})

\* Faulty variant for the checks: the padding byte is forgotten.
ElemNoPad(head_dim, n_rot, dim) ==
  LET n_nope == head_dim - n_rot
      rot == n_nope + Blocks(n_nope)
  IN IF dim < n_nope THEN <<dim, n_nope + dim \div BlockLen>>
     ELSE <<rot + 2 * (dim - n_nope), rot + 2 * (dim - n_nope) + 1>>
\* _t4_elem of the attention kernel: the offsets of the bytes value dim is read
\* from.
Elem(head_dim, n_rot, dim) ==
  LET n_nope == head_dim - n_rot
      rot == n_nope + Blocks(n_nope) + 1
  IN IF dim < n_nope THEN <<dim, n_nope + dim \div BlockLen>>
     ELSE <<rot + 2 * (dim - n_nope), rot + 2 * (dim - n_nope) + 1>>

\* turbo4_packed_elem, the reader by sections.
PackedElem(head_dim, n_rot, dim) ==
  LET scale == head_dim - n_rot
      rot == scale + Blocks(scale) + 1
      at == rot + 2 * (dim - scale)
  IN IF dim < scale THEN <<dim, scale + dim \div BlockLen>> ELSE <<at, at + 1>>
\* _t4_row_stride: where the attention kernel expects the next row.
RowStride(head_dim, n_rot) ==
  LET n_nope == head_dim - n_rot
      total == n_nope + Blocks(n_nope) + 1 + 2 * n_rot
  IN total + ((8 - (total % 8)) % 8)

\* turbo4_unpack_kernel walks the blocks of a row.
UnpackReads(head_dim, n_rot) ==
  LET n_nope == head_dim - n_rot
      rot_in == n_nope + Blocks(n_nope) + 1
  IN (UNION {{<<d, <<d, n_nope + b>>>> : d \in BlockValues(n_nope, b)} : b \in 0 .. Blocks(n_nope) - 1})
     \cup {<<n_nope + i, <<rot_in + 2 * i, rot_in + 2 * i + 1>>>> : i \in 0 .. n_rot - 1}

\* What the bytes at two offsets of a packed row were written for.
MeaningAt(stores, at) == {s[2] : s \in {q \in stores : q[1] = at}}
Meaning(stores, offsets) == <<MeaningAt(stores, offsets[1]), MeaningAt(stores, offsets[2])>>
Wanted(head_dim, n_rot, dim) ==
  IF dim < head_dim - n_rot THEN <<{<<"e4m3", dim, dim \div BlockLen>>}, {<<"scale", dim \div BlockLen>>}>>
  ELSE <<{<<"bf16 low", dim>>}, {<<"bf16 high", dim>>}>>

\* "The 1-byte padding ensures the BF16 section starts at an even byte offset"
\* (ds4_turbo4.cu), and the format is written in two places and read in three: every
\* value is read from the bytes written for it and from the scale of its own
\* block, no byte is written twice or beyond the row, and when the values and
\* scales are odd in number the two-byte loads are aligned.
PackedReadsBack(head_dim, n_rot) ==
  LET stores == PackStores(head_dim, n_rot)
      n_nope == head_dim - n_rot
  IN /\ \A dim \in 0 .. head_dim - 1 :
          /\ Meaning(stores, Elem(head_dim, n_rot, dim)) = Wanted(head_dim, n_rot, dim)
          /\ <<dim, Elem(head_dim, n_rot, dim)>> \in UnpackReads(head_dim, n_rot)
          /\ PackedElem(head_dim, n_rot, dim) = Elem(head_dim, n_rot, dim)
     /\ RowStride(head_dim, n_rot) = RowBytes(head_dim, n_rot)
     /\ Cardinality({s[1] : s \in stores}) = Cardinality(stores)
     /\ \A s \in stores : s[1] < RowBytes(head_dim, n_rot)
     /\ (n_nope + Blocks(n_nope)) % 2 = 1 =>
          \A i \in 0 .. n_rot - 1 : Elem(head_dim, n_rot, n_nope + i)[1] % 2 = 0
====
