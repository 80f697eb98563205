----------------------------- MODULE GpuKernels -----------------------------
(***************************************************************************)
(* The index arithmetic of the CUDA kernels of src/h3_gpu_cuda.cu that do  *)
(* more than pass an element through: which cells of its tensors each      *)
(* thread reads and writes.  A launcher checks the sizes of the tensors    *)
(* (GpuOps) and the kernels index them unchecked; nothing orders two       *)
(* threads.  A kernel is a record: op, what its launcher checked; threads, *)
(* how many; writes and reads, for each thread, a set of cells <<tensor,   *)
(* index>>, the tensor by its position in op.out or op.in; whole, whether  *)
(* one launch fills its outputs; expected, the cells of its first input a  *)
(* thread has to take by the definition of the operation, where that says  *)
(* more than the arithmetic.  A thread stands for a whole block where the  *)
(* block only shares a sum.  Module GpuLaunch runs them.                   *)
(***************************************************************************)
EXTENDS GpuOps, FiniteSets, SequencesExt

Cells(tensor, indexes) == {<< tensor, i >> : i \in indexes}

Run(base, length) == base .. base + length - 1

\* No definition but the arithmetic itself.
Unstated == [t \in {} |-> {}]

Kernel(op, threads, writes(_), reads(_)) ==
  [op |-> op, threads |-> threads, whole |-> TRUE, expected |-> Unstated,
   writes |-> [t \in 0..threads - 1 |-> writes(t)],
   reads  |-> [t \in 0..threads - 1 |-> reads(t)]]

\* A launch that fills only the rows its map names.
Partial(kernel) == [kernel EXCEPT !.whole = FALSE]

\* Digit i of a thread number that counts through the extents, the last
\* fastest: the code's chains of % and /.
Digit(extents, i, number) ==
  (number \div FoldSeq(LAMBDA e, p : e * p, 1, SubSeq(extents, i + 1, Len(extents))))
    % extents[i]

\* The place of the coordinates in an array of these extents, the last fastest.
Flat(extents, at) ==
  FoldLeftDomain(LAMBDA acc, i : acc * extents[i] + at[i], 0, extents)

-----------------------------------------------------------------------------
(* Rows by themselves, and elements by themselves. *)

\* A block, or a thread, a row of the first input and of the first output; of the
\* other tensors, those in vectors have an element a column, the rest one a row.
RowKernel(op, rows, width, vectors) ==
  LET others(t, needs, whole) ==
        UNION {IF i \in whole THEN Cells(i, 0..width - 1) ELSE Cells(i, {t}) : i \in 2..Len(needs)}
  IN Kernel(op, rows, LAMBDA t : Cells(1, Run(t * width, width)) \cup others(t, op.out, {}),
                      LAMBDA t : Cells(1, Run(t * width, width)) \cup others(t, op.in, vectors))

\* The sums are shared by the threads of a block, and the row is read again after.
RmsNormKernel(rows, width)      == RowKernel(RmsNorm(F32, rows, width), rows, width, {2})
LayerNormKernel(rows, width)    == RowKernel(LayerNorm(F32, rows, width), rows, width, {2, 3})
WeightNormKernel(outer, inner)  == RowKernel(WeightNorm(outer, inner), outer, inner, {})
QuantizeRowsKernel(rows, width) == RowKernel(QuantizeRows(rows, width), rows, width, {})

\* h3_binary_bf16_kernel, h3_geglu_kernel: a thread an element.
BinaryKernel(count) ==
  LET cell(t) == Cells(1, {t})
  IN Kernel(Binary(BF16, count), count, cell, LAMBDA t : cell(t) \cup Cells(2, {t}))

\* h3_scale_add_kernel, h3_snake_kernel: a scale a column.
ScaleAddKernel(rows, width) ==
  LET cell(t) == Cells(1, {t})
  IN Kernel(ScaleAdd(rows, width), rows * width, cell,
            LAMBDA t : cell(t) \cup Cells(2, {t}) \cup Cells(3, {t % width}))
Snake1dKernel(batch, length, channels) ==
  LET cell(t) == Cells(1, {t})
  IN Kernel(Snake1d(batch, length, channels), batch * length * channels, cell,
            LAMBDA t : cell(t) \cup Cells(2, {t % channels}))

\* h3_euler_kernel: a sample at an offset of the latent, and its velocities.
EulerKernel(offset, count) ==
  LET sample(t) == Cells(1, {offset + t})
  IN Partial(Kernel(Euler(offset, count), count, sample,
                    LAMBDA t : Cells(1, {t}) \cup Cells(2, {t}) \cup Cells(3, {offset + t})))

-----------------------------------------------------------------------------
(* Rows and maps of rows. *)

\* h3_patch_scatter_kernel, a thread a source row: its row of the hidden, or
\* none when the map names a row past the last.  Input 1 is the temporary.
PatchScatter(outRows, map, width) ==
  LET rows == Len(map)
  IN Partial(Kernel(Op(TRUE, << Need(BF16, outRows * width) >>,
                       << Need(F32, rows * width), Need(U32, rows) >>, 1), rows,
       LAMBDA t : IF map[t + 1] < outRows THEN Cells(1, Run(map[t + 1] * width, width))
                                          ELSE {},
       LAMBDA t : Cells(1, Run(t * width, width)) \cup Cells(2, {t})))

\* h3_quantize_head_major_kernel: a head-major row gathered into a plain one.
QuantizeHeadMajor(rows, heads, headDim) ==
  LET columns == heads * headDim
  IN Kernel(Op(TRUE, << Need(I8, rows * columns), Need(F32, rows) >>,
               << Need(BF16, rows * columns) >>, 1), rows,
       LAMBDA t : Cells(1, {t * columns + h * headDim + d : h \in 0..heads - 1,
                                                            d \in 0..headDim - 1})
                  \cup Cells(2, {t}),
       LAMBDA t : Cells(1, {(h * rows + t) * headDim + d : h \in 0..heads - 1,
                                                           d \in 0..headDim - 1}))

\* h3_linear_int8_kernel: a thread a column of a row.
LinearInt8Kernel(rows, inDim, outDim) ==
  LET row(t) == t \div outDim
      column(t) == t % outDim
  IN Kernel(LinearInt8Quantized(rows, inDim, outDim), rows * outDim,
       LAMBDA t : Cells(1, {row(t) * outDim + column(t)}),
       LAMBDA t : Cells(1, Run(row(t) * inDim, inDim)) \cup Cells(2, {row(t)})
                  \cup Cells(3, Run(column(t) * inDim, inDim)) \cup Cells(4, {column(t)}))

\* h3_adaln_kernel, a block a row: the modulation row the map names.
AdalnKernel(offset, map, width, slots, shift, scale) ==
  LET rows == Len(map)
      base(t) == map[t + 1] * slots * width
  IN Kernel(Adaln(BF16, offset, rows, width, slots, shift, scale, 1 + Max({map[i] : i \in 1..rows})),
            rows,
       LAMBDA t : Cells(1, Run(t * width, width)),
       LAMBDA t : Cells(1, Run(offset + t * width, width)) \cup Cells(2, Run(0, width))
                  \cup Cells(3, Run(base(t) + shift * width, width)
                                \cup Run(base(t) + scale * width, width))
                  \cup Cells(4, {t}))

\* h3_gate_kernel, a thread a column of a row.
GateKernel(map, width, slots, gate) ==
  LET rows == Len(map)
      column(t) == t % width
      row(t) == t \div width
  IN Kernel(Gate(BF16, rows, width, slots, gate, 1 + Max({map[i] : i \in 1..rows})),
            rows * width,
       LAMBDA t : Cells(1, {row(t) * width + column(t)}),
       LAMBDA t : Cells(1, {row(t) * width + column(t)})
                  \cup Cells(2, {row(t) * width + column(t)})
                  \cup Cells(3, {map[row(t) + 1] * slots * width + gate * width + column(t)})
                  \cup Cells(4, {row(t)}))

\* A faulty form: an identifier is not compared with the vocabulary.
EmbeddingKernel_Trusting(ids, vocab, width) ==
  LET column(t) == t % width
      token(t) == t \div width
  IN Kernel(Embedding(Len(ids), vocab, width), Len(ids) * width,
       LAMBDA t : Cells(1, {token(t) * width + column(t)}),
       LAMBDA t : Cells(2, {token(t)}) \cup Cells(1, {ids[token(t) + 1] * width + column(t)}))

\* h3_embedding_kernel.
EmbeddingKernel(ids, vocab, width) ==
  LET tokens == Len(ids)
      column(t) == t % width
      token(t) == t \div width
  IN Kernel(Embedding(tokens, vocab, width), tokens * width,
       LAMBDA t : Cells(1, {token(t) * width + column(t)}),
       LAMBDA t : Cells(2, {token(t)}) \cup
                  IF ids[token(t) + 1] < vocab
                  THEN Cells(1, {ids[token(t) + 1] * width + column(t)}) ELSE {})

\* h3_swiglu_kernel: gates in the first half of a fused row, ups in the second.
SwigluKernel(rows, width) ==
  LET base(t) == (t \div width) * width * 2
      column(t) == t % width
  IN Kernel(Swiglu(BF16, rows, width), rows * width,
       LAMBDA t : Cells(1, {(t \div width) * width + column(t)}),
       LAMBDA t : Cells(1, {base(t) + column(t), base(t) + width + column(t)}))

-----------------------------------------------------------------------------
(* Token reduction: rows pooled in pairs and expanded again. *)

\* No baseline row: UINT32_MAX.
NoRow == -1

\* h3_token_pool_kernel, a thread a column of a pooled row.
TokenPoolKernel(inRows, pairs, baseline, baseRows, width) ==
  LET rows == Len(pairs)
      column(t) == t % width
      row(t) == t \div width
      both(t) == {pairs[row(t) + 1][1], pairs[row(t) + 1][2]}
      source(t) == {r * width + column(t) : r \in both(t)}
      kept(t) == baseline[row(t) + 1]
  IN Partial(Kernel(
       TokenPool(0, 0, 0, inRows, rows, baseRows, width,
                 1 + Max(UNION {both(t) : t \in 0..rows * width - 1})), rows * width,
       LAMBDA t : Cells(1, {row(t) * width + column(t)}) \cup Cells(2, source(t))
                  \cup IF kept(t) # NoRow THEN Cells(3, {kept(t) * width + column(t)})
                                          ELSE {},
       LAMBDA t : Cells(1, source(t)) \cup Cells(2, {row(t)})
                  \cup Cells(3, {row(t) * 2, row(t) * 2 + 1})))

\* h3_token_expand_kernel, a thread a column of an expanded row.
TokenExpandKernel(parents, reducedRows, baseline, baseRows, exact, width) ==
  LET rows == Len(parents)
      column(t) == t % width
      row(t) == t \div width
      parent(t) == parents[row(t) + 1]
      kept(t) == baseline[parent(t) + 1]
  IN Kernel(TokenExpand(0, 0, rows, reducedRows, baseRows, width, exact,
                        1 + Max({parents[i] : i \in 1..rows})), rows * width,
       LAMBDA t : Cells(1, {row(t) * width + column(t)}),
       LAMBDA t : Cells(5, {row(t)}) \cup Cells(4, {parent(t)})
                  \cup Cells(2, {parent(t) * width + column(t)})
                  \cup IF row(t) < exact \/ kept(t) = NoRow THEN {}
                       ELSE Cells(3, {kept(t) * width + column(t)})
                            \cup Cells(1, {row(t) * width + column(t)}))

-----------------------------------------------------------------------------
(* Heads. *)

\* h3_qkv_rope_kernel, a thread a dimension of a head of a row.  Grouped, a
\* head's q, k and v lie together; otherwise all the q's come first.
QkvRopeKernel(sequence, heads, headDim, half, grouped, normalize) ==
  LET inner == heads * headDim
      dim(t) == t % headDim
      head(t) == (t \div headDim) % heads
      row(t) == t \div inner
      q(t) == row(t) * inner * 3 + head(t) * headDim * (IF grouped THEN 3 ELSE 1)
      k(t) == q(t) + (IF grouped THEN headDim ELSE inner)
      v(t) == k(t) + (IF grouped THEN headDim ELSE inner)
      pair(t) == IF dim(t) < half THEN dim(t) + half ELSE dim(t) - half
      rotated(t) == dim(t) < half * 2
      taken(t) == IF normalize THEN 0..headDim - 1
                  ELSE {dim(t)} \cup IF rotated(t) THEN {pair(t)} ELSE {}
      out(t) == (head(t) * sequence + row(t)) * headDim + dim(t)
      angle(t) == IF rotated(t) THEN {row(t) * half + (dim(t) % half)} ELSE {}
  IN Kernel(QkvRope(BF16, sequence, heads, headDim, half, FALSE), sequence * inner,
       LAMBDA t : Cells(1, {out(t)}) \cup Cells(2, {out(t)}) \cup Cells(3, {out(t)}),
       LAMBDA t : Cells(1, {q(t) + d : d \in taken(t)} \cup {k(t) + d : d \in taken(t)}
                           \cup {v(t) + dim(t)})
                  \cup Cells(2, angle(t)) \cup Cells(3, angle(t)))

\* h3_attention_kernel, a block a query: its head's keys up to its own row
\* when causal; both layouts of the inputs and of the output.
AttentionKernel(batch, sequence, heads, kvHeads, headDim, causal, majorIn, majorOut) ==
  LET head(t) == t % heads
      row(t) == (t \div heads) % sequence
      b(t) == t \div (heads * sequence)
      kvHead(t) == head(t) \div (heads \div kvHeads)
      base(major, n, h, r, i) == headDim * (IF major THEN (i * n + h) * sequence + r
                                                     ELSE (i * sequence + r) * n + h)
      keys(t) == UNION {Run(base(majorIn, kvHeads, kvHead(t), r, b(t)), headDim) :
                          r \in 0..(IF causal THEN row(t) ELSE sequence - 1)}
  IN Kernel(Attention(BF16, batch, sequence, heads, kvHeads, headDim, causal),
            batch * sequence * heads,
       LAMBDA t : Cells(1, Run(base(majorOut, heads, head(t), row(t), b(t)), headDim)),
       LAMBDA t : Cells(1, Run(base(majorIn, heads, head(t), row(t), b(t)), headDim))
                  \cup Cells(2, keys(t)) \cup Cells(3, keys(t)))

\* h3_attention_tiled_*_kernel, a block eight queries of a head: the last block
\* of a head has queries past the end, which compute and store nothing.
TiledAttentionKernel(type, sequence, heads, headDim, majorOut) ==
  LET head(t) == t % heads
      rows(t) == Run((t \div heads) * 8, 8) \cap 0..sequence - 1
      base(major, h, r) == headDim * (IF major THEN h * sequence + r ELSE r * heads + h)
      span(major, h, from) == UNION {Run(base(major, h, r), headDim) : r \in from}
      keys(t) == span(TRUE, head(t), 0..sequence - 1)
  IN Kernel(Attention(type, 1, sequence, heads, heads, headDim, FALSE), heads * ((sequence + 7) \div 8),
       LAMBDA t : Cells(1, span(majorOut, head(t), rows(t))),
       LAMBDA t : Cells(1, span(TRUE, head(t), rows(t))) \cup Cells(2, keys(t)) \cup Cells(3, keys(t)))

\* h3_rope_text_kernel, a thread a head of a row, in place; key heads end first.
RopeTextKernel(sequence, heads, kvHeads, headDim) ==
  LET most == Larger(heads, kvHeads)
      head(t) == t \div sequence
      row(t) == t % sequence
      own(t, n) == IF head(t) < n THEN Run((row(t) * n + head(t)) * headDim, headDim) ELSE {}
      cells(t) == Cells(1, own(t, heads)) \cup Cells(2, own(t, kvHeads))
      angles(t) == Run(row(t) * (headDim \div 2), headDim \div 2)
  IN Kernel(RopeText(sequence, heads, kvHeads, headDim), sequence * most, cells,
       LAMBDA t : cells(t) \cup Cells(3, angles(t)) \cup Cells(4, angles(t)))

\* h3_text_qk_rope_kernel, a thread a dimension of a head of a row.
TextQkRopeKernel(sequence, heads, kvHeads, headDim) ==
  LET half == headDim \div 2
      dim(t) == t % headDim
      head(t) == (t \div headDim) % heads
      row(t) == t \div (headDim * heads)
      base(t, n) == (row(t) * n + head(t)) * headDim
      angle(t) == {row(t) * half + (dim(t) % half)}
      keyed(t, cells) == IF head(t) < kvHeads THEN cells ELSE {}
  IN Kernel(TextQkRope(sequence, heads, kvHeads, headDim), sequence * heads * headDim,
       LAMBDA t : Cells(1, {base(t, heads) + dim(t)})
                  \cup keyed(t, Cells(2, {base(t, kvHeads) + dim(t)})),
       LAMBDA t : Cells(1, Run(base(t, heads), headDim))
                  \cup keyed(t, Cells(2, Run(base(t, kvHeads), headDim)))
                  \cup Cells(3, Run(0, headDim)) \cup Cells(4, Run(0, headDim))
                  \cup Cells(5, angle(t)) \cup Cells(6, angle(t)))

\* h3_head_rms_kernel, a thread a head of a row, in place.
HeadRmsKernel(sequence, heads, headDim) ==
  LET own(t) == Run(((t % sequence) * heads + (t \div sequence)) * headDim, headDim)
  IN Kernel(HeadRmsNorm(sequence, heads, headDim), sequence * heads,
       LAMBDA t : Cells(1, own(t)),
       LAMBDA t : Cells(1, own(t)) \cup Cells(2, Run(0, headDim)))

\* h3_audio_qkv_split_kernel: row-major thirds to head-major, the bias added.
AudioQkvSplitKernel(batch, length, heads, headDim) ==
  LET width == heads * headDim
      column(t) == t % width
      row(t) == t \div width
      out(t) == Flat(<< batch, heads, length, headDim >>,
                     << row(t) \div length, column(t) \div headDim,
                        row(t) % length, column(t) % headDim >>)
  IN Kernel(AudioQkvSplit(batch, length, heads, headDim), batch * length * width,
       LAMBDA t : {<< o, out(t) >> : o \in 1..3},
       LAMBDA t : Cells(1, {row(t) * width * 3 + i * width + column(t) : i \in 0..2})
                  \cup {<< i, column(t) >> : i \in 2..4})

\* h3_audio_pool_kernel: a column pools headDim / outDim of every head's.
AudioPoolKernel(batch, length, heads, headDim, outDim) ==
  LET pool == headDim \div outDim
  IN Kernel(AudioAttentionPool(batch, length, heads, headDim, outDim),
            batch * length * outDim,
       LAMBDA t : Cells(1, {t}),
       LAMBDA t : Cells(1, UNION {Run(((t \div outDim) * heads + h) * headDim
                                        + (t % outDim) * pool, pool) : h \in 0..heads - 1}))

-----------------------------------------------------------------------------
(* Time and volume. *)

Clamp(low, x, high) == IF x < low THEN low ELSE IF x > high THEN high ELSE x

\* The samples output time `out` of h3_conv1d_kernel takes, by tap.
ConvTaps(out, length, kernel, stride, padding, dilation) ==
  {<< tap, out * stride - padding + tap * dilation >> : tap \in 0..kernel - 1}
    \cap (0..kernel - 1) \X (0..length - 1)

\* The samples output time `out` of h3_conv_transpose1d_kernel takes, by tap.
TransposeTaps(out, length, kernel, stride, padding) ==
  {<< tap, (out + padding - tap) \div stride >> :
     tap \in {k \in 0..kernel - 1 : /\ out + padding - k >= 0
                                    /\ (out + padding - k) % stride = 0}}
    \cap (0..kernel - 1) \X (0..length - 1)

\* h3_conv1d_kernel and h3_conv_transpose1d_kernel index alike once the taps
\* are known, but for the weight: [out][in][tap] against [in][out][tap].
TimeKernel(op, batch, length, outLength, inCh, outCh, kernel, taps(_), transposed) ==
  LET channel(t) == t % outCh
      time(t) == (t \div outCh) % outLength
      b(t) == t \div (outCh * outLength)
      weight(t, c, tap) == IF transposed THEN (c * outCh + channel(t)) * kernel + tap
                                         ELSE (channel(t) * inCh + c) * kernel + tap
  IN Kernel(op, batch * outLength * outCh,
       LAMBDA t : Cells(1, {(b(t) * outLength + time(t)) * outCh + channel(t)}),
       LAMBDA t : Cells(1, {(b(t) * length + at[2]) * inCh + c :
                              at \in taps(time(t)), c \in 0..inCh - 1})
                  \cup Cells(2, {weight(t, c, at[1]) :
                                   at \in taps(time(t)), c \in 0..inCh - 1}))

Conv1dKernel(batch, length, inCh, outCh, kernel, stride, padding, dilation) ==
  TimeKernel(Conv1d(batch, length, inCh, outCh, kernel, stride, padding, dilation, FALSE),
    batch, length, WindowCount(length + 2 * padding, dilation * (kernel - 1) + 1, stride),
    inCh, outCh, kernel,
    LAMBDA out : ConvTaps(out, length, kernel, stride, padding, dilation), FALSE)

ConvTranspose1dKernel(batch, length, inCh, outCh, kernel, stride, padding) ==
  TimeKernel(ConvTranspose1d(batch, length, inCh, outCh, kernel, stride, padding, FALSE),
    batch, length, (length - 1) * stride + kernel - 2 * padding,
    inCh, outCh, kernel,
    LAMBDA out : TransposeTaps(out, length, kernel, stride, padding), TRUE)

\* The samples output time `out` of the anti-aliased activation takes: twelve
\* taps of the signal at twice the rate, each twelve taps of the input, the
\* ends repeated.
SnakeSamples(out, length) ==
  UNION {LET raw == Clamp(0, 2 * out + down - 5, 2 * length - 1) + 15
         IN {Clamp(0, (raw - up) \div 2 - 5, length - 1) :
               up \in {u \in 0..SnakeTaps - 1 : raw - u >= 0 /\ (raw - u) % 2 = 0}} :
         down \in 0..SnakeTaps - 1}

\* h3_alias_free_snake_kernel.
SnakeKernel(batch, length, channels) ==
  LET channel(t) == t % channels
      time(t) == (t \div channels) % length
      b(t) == t \div (channels * length)
      at(t, i) == (b(t) * length + i) * channels + channel(t)
  IN Kernel(AliasFreeSnake(batch, length, channels), batch * length * channels,
       LAMBDA t : Cells(1, {at(t, time(t))}),
       LAMBDA t : Cells(1, {at(t, i) : i \in SnakeSamples(time(t), length)})
                  \cup Cells(2, {channel(t)}) \cup Cells(3, {channel(t)})
                  \cup Cells(4, Run(0, SnakeTaps)) \cup Cells(5, Run(0, SnakeTaps)))

\* h3_reflect: the edge itself is not repeated.
Reflect(x, length) ==
  IF x < 0 THEN -x ELSE IF x >= length THEN 2 * length - x - 2 ELSE x

\* h3_vae_pad_kernel, a thread a channel of a column of a plane.
VaePadKernel(batch, box, channels, pads) ==
  LET padded == PaddedBox(box, pads)
      extents == << batch, padded[1], padded[2], padded[3], channels >>
      at(t, i) == Digit(extents, i, t)
  IN Kernel(VaePad(batch, box, channels, pads), batch * Volume(padded) * channels,
       LAMBDA t : Cells(1, {Flat(extents, [i \in 1..5 |-> at(t, i)])}),
       LAMBDA t : IF at(t, 2) < pads[1] THEN {}
                  ELSE Cells(1, {Flat(<< batch, box[1], box[2], box[3], channels >>,
                         << at(t, 1), at(t, 2) - pads[1],
                            Reflect(at(t, 3) - pads[2], box[2]),
                            Reflect(at(t, 4) - pads[4], box[3]), at(t, 5) >>)}))

\* h3_conv3d_kernel, a thread an output channel of an output place.
Conv3dKernel(batch, box, inCh, outCh, kernel, stride) ==
  LET out == ConvolvedBox(box, kernel, stride)
      extents == << batch, out[1], out[2], out[3], outCh >>
      at(t, i) == Digit(extents, i, t)
      window == (0..kernel[1] - 1) \X (0..kernel[2] - 1) \X (0..kernel[3] - 1)
  IN Kernel(Conv3d(batch, box, inCh, outCh, kernel, stride, FALSE),
            batch * Volume(out) * outCh,
       LAMBDA t : Cells(1, {Flat(extents, [i \in 1..5 |-> at(t, i)])}),
       LAMBDA t : Cells(1, {Flat(<< batch, box[1], box[2], box[3], inCh >>,
                              << at(t, 1), at(t, 2) * stride[1] + k[1],
                                 at(t, 3) * stride[2] + k[2],
                                 at(t, 4) * stride[3] + k[3], c >>) :
                              k \in window, c \in 0..inCh - 1})
                  \cup Cells(2, {Flat(<< outCh, inCh, kernel[1], kernel[2], kernel[3] >>,
                                   << at(t, 5), c, k[1], k[2], k[3] >>) :
                                   k \in window, c \in 0..inCh - 1}))

\* h3_group_norm_silu_kernel, a thread a group of a frame, in place.
GroupNormKernel(batch, box, channels, groups) ==
  LET each == channels \div groups
      group(t) == t % groups
      own(t) == {((t \div groups) * box[2] * box[3] + place) * channels
                   + group(t) * each + c : place \in 0..box[2] * box[3] - 1,
                                           c \in 0..each - 1}
      weights(t) == Run(group(t) * each, each)
  IN Kernel(GroupNormSilu(batch, box, channels, groups), batch * box[1] * groups,
       LAMBDA t : Cells(1, own(t)),
       LAMBDA t : Cells(1, own(t)) \cup Cells(2, weights(t)) \cup Cells(3, weights(t)))

-----------------------------------------------------------------------------
(* What a thread has to take, by definition of the operation. *)

Expecting(kernel, indexes(_)) ==
  [kernel EXCEPT !.expected = [t \in 0..kernel.threads - 1 |-> indexes(t)]]

\* The second kernel after the first, which made its input i as output from[i]:
\* what the first read becomes what the second reads, all as one input.
After(first, second, from) ==
  LET makers(i, index) == {u \in 0..first.threads - 1 : << from[i], index >> \in first.writes[u]}
      sources(t) == UNION {UNION {first.reads[u] : u \in makers(c[1], c[2])} :
                             c \in {c \in second.reads[t] : c[1] \in DOMAIN from}}
  IN [second EXCEPT !.op = [second.op EXCEPT !.in = first.op.in],
                    !.reads = [t \in 0..second.threads - 1 |-> sources(t)]]

\* DiT: QKV and RoPE, then attention: a head depends on that head's q, k and v,
\* of every row.
HeadsTogether(sequence, heads, headDim, half, grouped) ==
  LET inner == heads * headDim
      place(row, head, part) ==
        row * 3 * inner + (IF grouped THEN (head * 3 + part) * headDim
                                      ELSE part * inner + head * headDim)
  IN Expecting(After(QkvRopeKernel(sequence, heads, headDim, half, grouped, TRUE),
                     AttentionKernel(1, sequence, heads, heads, headDim, FALSE, TRUE, FALSE),
                     << 1, 2, 3 >>),
       LAMBDA t : UNION {Run(place(row, t % heads, part), headDim) :
                           row \in 0..sequence - 1, part \in 0..2})

\* DiT in INT8: head-major attention, then the quantiser: a row takes the
\* queries of that row, of every head.
RowsTogether(sequence, heads, headDim) ==
  Expecting(After(AttentionKernel(1, sequence, heads, heads, headDim, FALSE, TRUE, TRUE),
                  QuantizeHeadMajor(sequence, heads, headDim), << 1 >>),
    LAMBDA t : UNION {Run((h * sequence + t) * headDim, headDim) : h \in 0..heads - 1})

\* Audio VAE: split, causal attention, pool: a step depends on its own and the
\* earlier steps of its batch, on no later one.
NoLookAhead(batch, length, heads, headDim, outDim) ==
  LET width == heads * headDim
  IN Expecting(After(After(AudioQkvSplitKernel(batch, length, heads, headDim),
                           AttentionKernel(batch, length, heads, heads, headDim, TRUE, TRUE, FALSE),
                           << 1, 2, 3 >>),
                     AudioPoolKernel(batch, length, heads, headDim, outDim), << 1 >>),
       LAMBDA t : LET row == t \div outDim
                  IN Run((row - (row % length)) * 3 * width, ((row % length) + 1) * 3 * width))

\* Text encoder: norm and RoPE, then grouped causal attention, all row-major: a
\* query depends on its own row and head of q.
OwnQuery(sequence, heads, kvHeads, headDim) ==
  Expecting(After(TextQkRopeKernel(sequence, heads, kvHeads, headDim),
                  AttentionKernel(1, sequence, heads, kvHeads, headDim, TRUE, FALSE, FALSE),
                  << 1 >>),
    LAMBDA t : Run(t * headDim, headDim))

\* A transposed convolution spreads sample i, by tap, over i * stride + tap,
\* less the padding.
Adjoint(batch, length, inCh, outCh, kernel, stride, padding) ==
  LET outLength == (length - 1) * stride + kernel - 2 * padding
  IN Expecting(ConvTranspose1dKernel(batch, length, inCh, outCh, kernel, stride, padding),
       LAMBDA t : {((t \div (outCh * outLength)) * length + i) * inCh + c :
                     c \in 0..inCh - 1,
                     i \in {i \in 0..length - 1 : \E tap \in 0..kernel - 1 :
                              i * stride + tap - padding = (t \div outCh) % outLength}})

\* The activation is centred: it takes the five samples before and after.
Centred(batch, length, channels) ==
  Expecting(SnakeKernel(batch, length, channels),
    LAMBDA t : {((t \div (channels * length)) * length
                   + Clamp(0, ((t \div channels) % length) + j, length - 1)) * channels
                  + (t % channels) : j \in -5..5})

\* Reflection is the walk that turns back at each edge, of period 2 * (n - 1).
Mirrored(box, channels, pads) ==
  LET padded == PaddedBox(box, pads)
      at(t, i) == Digit(<< padded[1], padded[2], padded[3], channels >>, i, t)
      walk(x, n) == LET m == (x + 2 * (n - 1)) % (2 * (n - 1))
                    IN IF m < n THEN m ELSE 2 * (n - 1) - m
  IN Expecting(VaePadKernel(1, box, channels, pads),
       LAMBDA t : IF at(t, 1) < pads[1] THEN {}
                  ELSE {(((at(t, 1) - pads[1]) * box[2] + walk(at(t, 2) - pads[2], box[2]))
                           * box[3] + walk(at(t, 3) - pads[4], box[3])) * channels + at(t, 4)})
=============================================================================
