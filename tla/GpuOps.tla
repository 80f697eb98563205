------------------------------- MODULE GpuOps -------------------------------
(***************************************************************************)
(* The operations of the CUDA backend, src/h3_gpu_cuda.cu, as what each    *)
(* asks of a call: a launcher validates the shape, then that every tensor  *)
(* has the type and at least the elements its kernels touch, and refuses   *)
(* the call (h3_set_error, 0) otherwise.                                   *)
(*                                                                         *)
(* An operation is a record:                                               *)
(*   shape   what the launcher demands of the dimensions alone;            *)
(*   out     the tensors written, in, the tensors read, in the order of    *)
(*           the C parameters: each a type and a least number of elements; *)
(*   inPlace the pairs (output, input), by position, that may be the same  *)
(*           tensor: a thread reads of it only what it writes itself;      *)
(*   reach   elements a kernel reads of an input through an index that the *)
(*           launcher does not look at (the row map of a modulation): the  *)
(*           caller alone answers for these;                               *)
(*   grid    the larger of the y and z extents of the grids it launches,   *)
(*           which CUDA limits to 65535 whatever the card.                 *)
(* Values are abstracted; so are the temporaries an operation allocates on *)
(* the stream.                                                             *)
(***************************************************************************)
EXTENDS Integers, Sequences, FiniteSetsExt

F32  == "F32"
BF16 == "BF16"
I8   == "I8"
U32  == "U32"

\* h3_tensor_is: the type and at least this many elements.  spans are the ranges
\* <<from, to>> of elements that the kernels touch.
NeedOf(type, elements, spans) == [type |-> type, elements |-> elements, spans |-> spans]

Need(type, elements) == NeedOf(type, elements, {<< 0, elements >>})
NeedAt(type, offset, elements) == NeedOf(type, offset + elements, {<< offset, offset + elements >>})

Optional(given, need) == IF given THEN << need >> ELSE << >>

Larger(a, b) == IF a > b THEN a ELSE b

\* CUDA rejects a launch with more blocks than this along y or z.
GridLimit == 65535

Op(shape, out, in, grid) ==
  [shape |-> shape, out |-> out, in |-> in, grid |-> grid,
   inPlace |-> {}, reach |-> {}]

InPlace(op, pairs) == [op EXCEPT !.inPlace = pairs]

Reaching(op, position, elements) ==
  [op EXCEPT !.reach = @ \cup {[at |-> position, elements |-> elements]}]

Positive(dims) == \A i \in DOMAIN dims : dims[i] > 0

-----------------------------------------------------------------------------
(* Copies and projections. *)

\* h3_copy, with both offsets: the range must lie within each tensor.
Copy(type, toOffset, fromOffset, elements) ==
  Op(TRUE, << NeedAt(type, toOffset, elements) >>,
     << NeedAt(type, fromOffset, elements) >>, 1)

\* h3_gpu_linear_f32 and h3_gpu_linear_bf16: output = input * weight^T + bias.
Linear(type, rows, inDim, outDim, bias) ==
  Op(Positive(<< rows, inDim, outDim >>),
     << Need(type, rows * outDim) >>,
     << Need(type, rows * inDim), Need(type, outDim * inDim) >>
       \o Optional(bias, Need(type, outDim)), 1)

\* h3_gpu_patch_linear_bf16_offset: F32 latents into a BF16 hidden at an
\* offset; the width is DiT's and the latents are audio (32) or video (96).
PatchLinear(toOffset, fromOffset, rows, inDim, outDim, bias) ==
  Op(rows > 0 /\ outDim = 5376 /\ inDim \in {32, 96},
     << NeedAt(BF16, toOffset, rows * outDim) >>,
     << NeedAt(F32, fromOffset, rows * inDim), Need(F32, outDim * inDim) >>
       \o Optional(bias, Need(F32, outDim)), 1)

\* h3_gpu_patch_linear_bf16_map: the same, each row to the row the map names;
\* into are the ranges of rows it names.
PatchLinearMap(outputRows, into, inDim, outDim, bias) ==
  LET rows == FoldSet(LAMBDA r, sum : sum + r[2] - r[1], 0, into)
  IN Op(rows > 0 /\ outputRows > 0 /\ outDim = 5376 /\ inDim \in {32, 96},
        << NeedOf(BF16, outputRows * outDim, {<< r[1] * outDim, r[2] * outDim >> : r \in into}) >>,
        << Need(F32, rows * inDim), Need(F32, outDim * inDim) >>
          \o Optional(bias, Need(F32, outDim)) \o << Need(U32, rows) >>, 1)

-----------------------------------------------------------------------------
(* INT8: rows are quantised with one F32 scale each. *)

\* h3_quantize_rows.
QuantizeRows(rows, columns) ==
  Op(Positive(<< rows, columns >>),
     << Need(I8, rows * columns), Need(F32, rows) >>,
     << Need(BF16, rows * columns) >>, 1)

\* h3_linear_int8_quantized: quantised input, its scales, weight, weight scales.
LinearInt8Quantized(rows, inDim, outDim) ==
  Op(TRUE, << Need(BF16, rows * outDim) >>,
     << Need(I8, rows * inDim), Need(F32, rows),
        Need(I8, outDim * inDim), Need(F32, outDim) >>, rows)

\* h3_gpu_linear_int8_bf16: quantises the input into scratch, then multiplies.
LinearInt8(rows, inDim, outDim) ==
  Op(Positive(<< rows, inDim, outDim >>),
     << Need(BF16, rows * outDim), Need(I8, rows * inDim), Need(F32, rows) >>,
     << Need(BF16, rows * inDim), Need(I8, outDim * inDim), Need(F32, outDim) >>,
     rows)

\* h3_gpu_linear_int8_head_major_bf16: the input is laid out head by head.
LinearInt8HeadMajor(rows, heads, headDim, outDim) ==
  Op(Positive(<< rows, heads, headDim, outDim >>),
     << Need(BF16, rows * outDim), Need(I8, rows * heads * headDim), Need(F32, rows) >>,
     << Need(BF16, rows * heads * headDim),
        Need(I8, outDim * heads * headDim), Need(F32, outDim) >>, rows)

\* h3_gpu_mlp_int8_bf16: fc1, swiglu and fc2 share one scratch for quantised
\* rows, wide enough for the input and for the activation.  An input already
\* quantised is still validated, but its values are the scratch's, which fc1
\* has read when the activation is quantised over them.
MlpInt8(rows, inDim, hidden, outDim, quantized) ==
  LET input == Need(BF16, rows * inDim)
  IN InPlace(
       Op(Positive(<< rows, inDim, hidden, outDim >>),
          << Need(BF16, rows * outDim), Need(BF16, rows * hidden),
             Need(I8, rows * Larger(inDim, hidden)), Need(F32, rows) >>,
          << IF quantized THEN [input EXCEPT !.spans = {}] ELSE input,
             Need(I8, 2 * hidden * inDim), Need(F32, 2 * hidden),
             Need(I8, outDim * hidden), Need(F32, outDim) >>
            \o (IF quantized THEN << Need(I8, rows * inDim), Need(F32, rows) >> ELSE << >>),
          rows),
       IF quantized THEN {<< 3, 6 >>, << 4, 7 >>} ELSE {})

-----------------------------------------------------------------------------
(* Attention and convolutions over time. *)

\* h3_attention_dispatch.  The tiled kernels take eight queries a block and
\* stand for cuDNN's too (one block row for all queries): they serve a batch
\* of one, every key visible, as many key heads as query heads.
Attention(type, batch, sequence, queryHeads, kvHeads, headDim, causal) ==
  LET tiled == /\ batch = 1 /\ ~causal /\ queryHeads = kvHeads
               /\ headDim = (IF type = BF16 THEN 128 ELSE 64)
  IN Op(/\ Positive(<< batch, sequence, queryHeads, kvHeads, headDim >>)
        /\ queryHeads % kvHeads = 0 /\ headDim <= 1024,
        << Need(type, batch * sequence * queryHeads * headDim) >>,
        << Need(type, batch * sequence * queryHeads * headDim),
           Need(type, batch * sequence * kvHeads * headDim),
           Need(type, batch * sequence * kvHeads * headDim) >>,
        Larger(batch, IF tiled THEN (sequence + 7) \div 8 ELSE sequence))

\* h3_gpu_sdpa_f32, h3_gpu_sdpa_bf16 and its head-major output.
Sdpa(type, sequence, heads, headDim) ==
  Attention(type, 1, sequence, heads, heads, headDim, FALSE)

\* h3_gpu_sdpa_causal_f32.
SdpaCausal(batch, sequence, heads, headDim) ==
  Attention(F32, batch, sequence, heads, heads, headDim, TRUE)

\* h3_gpu_gqa_causal_bf16.
GqaCausal(sequence, queryHeads, kvHeads, headDim) ==
  Attention(BF16, 1, sequence, queryHeads, kvHeads, headDim, TRUE)

\* The steps at which a window of `effective` fits, stride apart.
WindowCount(padded, effective, stride) == (padded - effective) \div stride + 1

\* h3_gpu_conv1d_stride_f32.
Conv1d(batch, length, inCh, outCh, kernel, stride, padding, dilation, bias) ==
  LET effective == dilation * (kernel - 1) + 1
      outLength == WindowCount(length + 2 * padding, effective, stride)
  IN Op(/\ Positive(<< batch, length, inCh, outCh, kernel, stride, dilation >>)
        /\ length + 2 * padding >= effective,
        << Need(F32, batch * outLength * outCh) >>,
        << Need(F32, batch * length * inCh), Need(F32, outCh * inCh * kernel) >>
          \o Optional(bias, Need(F32, outCh)), 1)

\* h3_gpu_conv_transpose1d_f32.
ConvTranspose1d(batch, length, inCh, outCh, kernel, stride, padding, bias) ==
  LET full      == (length - 1) * stride + kernel
      outLength == full - 2 * padding
  IN Op(/\ Positive(<< batch, length, inCh, outCh, kernel, stride >>)
        /\ full >= 2 * padding,
        << Need(F32, batch * outLength * outCh) >>,
        << Need(F32, batch * length * inCh), Need(F32, inCh * outCh * kernel) >>
          \o Optional(bias, Need(F32, outCh)), 1)

-----------------------------------------------------------------------------
(* The audio VAE's own operations. *)

\* h3_gpu_audio_qkv_split_f32.
AudioQkvSplit(batch, length, heads, headDim) ==
  LET width == heads * headDim
      third == Need(F32, batch * length * width)
  IN Op(Positive(<< batch, length, width >>), << third, third, third >>,
        << Need(F32, batch * length * width * 3), Need(F32, width),
           Need(F32, width), Need(F32, width) >>, 1)

\* h3_gpu_audio_attention_pool_f32: the mean over the heads and over groups of
\* headDim / outDim columns.
AudioAttentionPool(batch, length, heads, headDim, outDim) ==
  Op(Positive(<< batch, length, heads, headDim, outDim >>) /\ headDim % outDim = 0,
     << Need(F32, batch * length * outDim) >>,
     << Need(F32, batch * length * heads * headDim) >>, 1)

\* The taps of each of the two resampling filters.
SnakeTaps == 12

\* h3_gpu_alias_free_snake_f32: input, alpha, beta, up and down filters.
AliasFreeSnake(batch, length, channels) ==
  Op(Positive(<< batch, length, channels >>),
     << Need(F32, batch * length * channels) >>,
     << Need(F32, batch * length * channels), Need(F32, channels),
        Need(F32, channels), Need(F32, SnakeTaps), Need(F32, SnakeTaps) >>, 1)

-----------------------------------------------------------------------------
(* Volumes, channels last. *)

Volume(box) == box[1] * box[2] * box[3]

\* The box with the pads: front, top, bottom, left, right.
PaddedBox(box, pads) ==
  << box[1] + pads[1], box[2] + pads[2] + pads[3], box[3] + pads[4] + pads[5] >>

\* h3_gpu_vae_encoder_pad_f32: zeros in front, reflection at the four sides.
VaePad(batch, box, channels, pads) ==
  LET padded == PaddedBox(box, pads)
  IN Op(/\ Positive(<< batch, box[1], channels >>) /\ box[2] >= 2 /\ box[3] >= 2
        /\ Larger(pads[2], pads[3]) < box[2] /\ Larger(pads[4], pads[5]) < box[3],
        << Need(F32, batch * Volume(padded) * channels) >>,
        << Need(F32, batch * Volume(box) * channels) >>,
        Larger(padded[3], batch * padded[1] * padded[2]))

\* The box a convolution leaves of one: no padding of its own.
ConvolvedBox(box, kernel, stride) ==
  [i \in 1..3 |-> WindowCount(box[i], kernel[i], stride[i])]

\* h3_gpu_conv3d_f32.
Conv3d(batch, box, inCh, outCh, kernel, stride, bias) ==
  Op(/\ Positive(<< batch, inCh, outCh >>) /\ Positive(kernel) /\ Positive(stride)
     /\ \A i \in 1..3 : box[i] >= kernel[i],
     << Need(F32, batch * Volume(ConvolvedBox(box, kernel, stride)) * outCh) >>,
     << Need(F32, batch * Volume(box) * inCh),
        Need(F32, outCh * inCh * Volume(kernel)) >> \o Optional(bias, Need(F32, outCh)), 1)

\* h3_gpu_vae_encoder_group_norm_silu_f32: one thread a frame and group.
GroupNormSilu(batch, box, channels, groups) ==
  InPlace(Op(/\ Positive(<< batch, channels, groups >>) /\ Positive(box)
             /\ channels % groups = 0,
             << Need(F32, batch * Volume(box) * channels) >>,
             << Need(F32, batch * Volume(box) * channels), Need(F32, channels),
                Need(F32, channels) >>, 1), {<< 1, 1 >>})

-----------------------------------------------------------------------------
(* Elementwise operations: one thread an element. *)

\* h3_gpu_silu_f32, h3_gpu_clip_f32, h3_gpu_silu_bf16 and h3_gpu_gelu_bf16.
Unary(type, n) == InPlace(Op(TRUE, << Need(type, n) >>, << Need(type, n) >>, 1), {<< 1, 1 >>})

\* h3_gpu_cast_f32_to_bf16 and h3_gpu_cast_bf16_to_f32.
Cast(to, from, n) == Op(TRUE, << Need(to, n) >>, << Need(from, n) >>, 1)

\* h3_binary_bf16 (add, sub, silu_mul), h3_gpu_add_scaled_f32, h3_gpu_geglu_f32.
Binary(type, n) ==
  InPlace(Op(TRUE, << Need(type, n) >>, << Need(type, n), Need(type, n) >>, 1), {<< 1, 1 >>, << 1, 2 >>})

\* h3_gpu_euler_bf16: the sample is read and written, in F32.
Euler(offset, n) ==
  InPlace(Op(TRUE, << NeedAt(F32, offset, n) >>,
             << Need(BF16, n), Need(BF16, n), NeedAt(F32, offset, n) >>, 1),
          {<< 1, 3 >>})

\* h3_gpu_scale_add_f32: residual + branch * scale, the scale by column.
ScaleAdd(rows, width) ==
  InPlace(Op(Positive(<< rows, width >>), << Need(F32, rows * width) >>,
             << Need(F32, rows * width), Need(F32, rows * width), Need(F32, width) >>,
             rows), {<< 1, 1 >>, << 1, 2 >>})

\* h3_gpu_snake1d_f32.
Snake1d(batch, length, channels) ==
  InPlace(Op(Positive(<< batch, length, channels >>),
             << Need(F32, batch * length * channels) >>,
             << Need(F32, batch * length * channels), Need(F32, channels) >>, 1), {<< 1, 1 >>})

\* h3_swiglu_dispatch: each fused row holds the gates, then the ups.
Swiglu(type, rows, width) ==
  Op(Positive(<< rows, width >>), << Need(type, rows * width) >>,
     << Need(type, rows * width * 2) >>, rows)

\* h3_gpu_embedding_bf16: weight, token ids; an id past the vocabulary is zeros.
Embedding(tokens, vocab, width) ==
  Op(Positive(<< tokens, width, vocab >>), << Need(BF16, tokens * width) >>,
     << Need(BF16, vocab * width), Need(U32, tokens) >>, tokens)

-----------------------------------------------------------------------------
(* Norms: one block, or one thread, a row. *)

\* h3_gpu_rms_norm_f32 and h3_gpu_rms_norm_bf16.
RmsNorm(type, rows, width) ==
  InPlace(Op(Positive(<< rows, width >>), << Need(type, rows * width) >>,
             << Need(type, rows * width), Need(type, width) >>, 1),
          {<< 1, 1 >>})

\* h3_gpu_layer_norm_f32 and h3_gpu_layer_norm_bf16.
LayerNorm(type, rows, width) ==
  InPlace(Op(Positive(<< rows, width >>), << Need(type, rows * width) >>,
             << Need(type, rows * width), Need(type, width), Need(type, width) >>, 1),
          {<< 1, 1 >>})

\* h3_gpu_weight_norm_f32: vector, magnitude.
WeightNorm(outer, inner) ==
  InPlace(Op(Positive(<< outer, inner >>), << Need(F32, outer * inner) >>,
             << Need(F32, outer * inner), Need(F32, outer) >>, 1), {<< 1, 1 >>})

\* h3_gpu_head_rms_norm_bf16 works on its tensor in place.
HeadRmsNorm(sequence, heads, headDim) ==
  InPlace(Op(Positive(<< sequence, heads, headDim >>),
             << Need(BF16, sequence * heads * headDim) >>,
             << Need(BF16, sequence * heads * headDim), Need(BF16, headDim) >>,
             heads), {<< 1, 1 >>})

-----------------------------------------------------------------------------
(* Modulation: the row map names, for each row, one of mapped modulation   *)
(* rows of slots * width elements.  Neither its values nor the             *)
(* modulation's size are validated, so the kernels reach as far as the map *)
(* sends them.                                                             *)

\* h3_gpu_adaln_f32, h3_gpu_adaln_bf16 and its offset form: input, norm
\* weight, modulation, row map.
Adaln(type, offset, rows, width, slots, shift, scale, mapped) ==
  Reaching(InPlace(Op(Positive(<< rows, width >>) /\ shift < slots /\ scale < slots,
                      << Need(type, rows * width) >>,
                      << NeedAt(type, offset, rows * width), Need(type, width),
                         Need(type, 0), Need(U32, rows) >>, 1),
                   IF offset = 0 THEN {<< 1, 1 >>} ELSE {}),
           3, mapped * slots * width)

\* h3_gate_dispatch: residual, branch, modulation, row map.
Gate(type, rows, width, slots, gate, mapped) ==
  Reaching(InPlace(Op(Positive(<< rows, width >>) /\ gate < slots,
                      << Need(type, rows * width) >>,
                      << Need(type, rows * width), Need(type, rows * width),
                         Need(type, 0), Need(U32, rows) >>, rows),
                   {<< 1, 1 >>, << 1, 2 >>}),
           3, mapped * slots * width)

\* h3_gpu_gate_adaln_bf16: the gated residual, then its AdaLN.  Residual,
\* branch, norm weight, gate modulation, norm modulation, row map.
GateAdaln(rows, width, slots, gate, shift, scale, mapped) ==
  LET whole == Need(BF16, rows * width)
      op == Op(/\ Positive(<< rows, width >>)
               /\ gate < slots /\ shift < slots /\ scale < slots,
               << whole, whole >>,
               << whole, whole, Need(BF16, width), Need(BF16, 0), Need(BF16, 0),
                  Need(U32, rows) >>, rows)
  IN Reaching(Reaching(InPlace(op, {1, 2} \X {1, 2}), 4, mapped * slots * width),
              5, mapped * slots * width)

\* h3_gpu_gate_adaln_quantize_int8: the same, quantised into padded rows.
GateAdalnQuantize(rows, padded, width, slots, gate, shift, scale, mapped) ==
  LET op == GateAdaln(rows, width, slots, gate, shift, scale, mapped)
  IN [op EXCEPT !.shape = @ /\ padded >= rows,
                !.out = << op.out[1], Need(I8, padded * width), Need(F32, padded) >>]

\* h3_gpu_adaln_linear_bf16: output and the rows' inverse RMS; input, norm
\* weight, modulation, row map, weight.  The inverse is launched on the input
\* before AdaLN validates it.
AdalnLinear(offset, rows, width, outDim, slots, shift, scale, mapped, bias) ==
  LET norm == Adaln(BF16, offset, rows, width, slots, shift, scale, mapped)
  IN [norm EXCEPT !.shape = @ /\ outDim > 0,
                  !.out = << Need(BF16, rows * outDim), Need(F32, rows) >>,
                  !.in = @ \o << Need(BF16, outDim * width) >>
                           \o Optional(bias, Need(BF16, outDim)),
                  !.inPlace = {}]

-----------------------------------------------------------------------------
(* Heads and rotary embedding: a row of qkv to head-major q, k and v. *)

\* h3_qkv_validate and its launchers (qkv_rope, video, grouped, vision): qkv,
\* cosines, sines and, weighted, the norms of q and k.
QkvRope(type, sequence, heads, headDim, ropeHalf, weighted) ==
  LET third == Need(type, sequence * heads * headDim)
  IN Op(Positive(<< sequence, heads, headDim >>) /\ ropeHalf <= headDim \div 2,
        << third, third, third >>,
        << Need(type, 3 * sequence * heads * headDim),
           Need(type, sequence * ropeHalf), Need(type, sequence * ropeHalf) >>
          \o Optional(weighted, Need(type, headDim))
          \o Optional(weighted, Need(type, headDim)), Larger(heads, sequence))

\* h3_gpu_grouped_qkv_linear_rope_bf16: q, k, v and the qkv scratch; cosines,
\* sines, norms, then the input and the weight.
GroupedQkvLinearRope(rows, inDim, heads, headDim, ropeHalf) ==
  LET rope   == QkvRope(BF16, rows, heads, headDim, ropeHalf, TRUE)
      linear == Linear(BF16, rows, inDim, 3 * heads * headDim, FALSE)
  IN [rope EXCEPT !.shape = @ /\ linear.shape,
                  !.out = @ \o linear.out, !.in = Tail(@) \o linear.in]

\* h3_gpu_grouped_qkv_linear_rope_int8: quantised scratch in place of qkv.  An
\* input already quantised is not looked at, only the scratch.
GroupedQkvLinearRopeInt8(rows, inDim, heads, headDim, ropeHalf, quantized) ==
  LET rope    == QkvRope(BF16, rows, heads, headDim, ropeHalf, TRUE)
      linear  == LinearInt8(rows, inDim, 3 * heads * headDim)
      already == LinearInt8Quantized(rows, inDim, 3 * heads * headDim)
  IN IF quantized
     THEN [rope EXCEPT !.in = Tail(@) \o already.in, !.grid = Larger(@, rows)]
     ELSE [rope EXCEPT !.shape = @ /\ linear.shape, !.grid = Larger(@, rows),
                       !.out = @ \o Tail(linear.out), !.in = Tail(@) \o linear.in]

\* h3_gpu_rope_text_bf16: q and k rotated in place, a thread a row and head.
RopeText(sequence, queryHeads, kvHeads, headDim) ==
  LET q == Need(BF16, sequence * queryHeads * headDim)
      k == Need(BF16, sequence * kvHeads * headDim)
      r == Need(F32, sequence * (headDim \div 2))
  IN InPlace(Op(/\ Positive(<< sequence, queryHeads, kvHeads, headDim >>)
                /\ headDim % 2 = 0,
                << q, k >>, << q, k, r, r >>, Larger(queryHeads, kvHeads)),
             {<< 1, 1 >>, << 2, 2 >>})

\* h3_gpu_text_qk_rope_bf16: norm and rotation, a thread a dimension, which
\* reads its head's other dimensions: never in place.
TextQkRope(sequence, queryHeads, kvHeads, headDim) ==
  LET q == Need(BF16, sequence * queryHeads * headDim)
      k == Need(BF16, sequence * kvHeads * headDim)
      r == Need(BF16, sequence * (headDim \div 2))
      n == Need(BF16, headDim)
  IN Op(/\ Positive(<< sequence, queryHeads, kvHeads, headDim >>)
        /\ headDim % 2 = 0 /\ queryHeads >= kvHeads,
        << q, k >>, << q, k, n, n, r, r >>, Larger(queryHeads, sequence))

-----------------------------------------------------------------------------
(* Token reduction. *)

\* h3_gpu_token_pool_bf16: output, originals, baseline; input, baseline
\* indices, pairs.  Neither the pairs nor the indices are looked at: the rows
\* they name are reached in the input.
TokenPool(inOffset, origOffset, baseOffset, inRows, rows, baseRows, width, named) ==
  Reaching(Op(Positive(<< inRows, rows, baseRows, width >>),
              << Need(BF16, rows * width), NeedAt(BF16, origOffset, inRows * width),
                 NeedAt(BF16, baseOffset, baseRows * width) >>,
              << NeedAt(BF16, inOffset, inRows * width), Need(U32, rows),
                 Need(U32, 2 * rows) >>, rows),
           1, inOffset + named * width)

\* h3_gpu_token_expand_delta_bf16: originals, reduced, baseline, baseline
\* indices, parents.
TokenExpand(origOffset, baseOffset, rows, reducedRows, baseRows, width, exact, named) ==
  Reaching(InPlace(Op(Positive(<< rows, reducedRows, baseRows, width >>) /\ exact <= rows,
                      << Need(BF16, rows * width) >>,
                      << NeedAt(BF16, origOffset, rows * width),
                         Need(BF16, reducedRows * width),
                         NeedAt(BF16, baseOffset, baseRows * width),
                         Need(U32, reducedRows), Need(U32, rows) >>, rows),
                   IF origOffset = 0 THEN {<< 1, 1 >>} ELSE {}),
           2, named * width)

\* h3_gpu_mlp_bf16 and h3_gpu_mlp_nax_bf16: output and, given, the activation.
Mlp(rows, inDim, hidden, outDim, activated) ==
  Op(Positive(<< rows, inDim, hidden, outDim >>),
     << Need(BF16, rows * outDim) >> \o Optional(activated, Need(BF16, rows * hidden)),
     << Need(BF16, rows * inDim), Need(BF16, 2 * hidden * inDim),
        Need(BF16, outDim * hidden) >>, rows)

\* h3_gpu_token_pool_adaln_bf16 and h3_gpu_token_expand_adaln_bf16: the
\* residual the first makes, then its AdaLN by weight, modulation and row map.
ThenAdaln(op, rows, width, slots, shift, scale, mapped) ==
  LET norm == Adaln(BF16, 0, rows, width, slots, shift, scale, mapped)
  IN [op EXCEPT !.shape = @ /\ norm.shape,
                !.out = << @[1] >> \o norm.out \o Tail(@),
                !.in = @ \o Tail(norm.in),
                !.reach = @ \cup {[at |-> Len(op.in) + 2,
                                   elements |-> mapped * slots * width]}]
=============================================================================
