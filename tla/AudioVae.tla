------------------------------ MODULE AudioVae ------------------------------
(***************************************************************************)
(* src/h3_audio_vae.c: the decoder from stereo latents to a waveform and   *)
(* the encoder from a waveform to latents, as programs of GpuProgram.      *)
(* Rows are stereo * length; "hidden" is audio_context.hidden, which each  *)
(* stage replaces.                                                         *)
(***************************************************************************)
EXTENDS GpuCommands

LATENT_CHANNELS == 32
LATENT_DIM == 2048
DECODER_DIM == 1024
STEREO == 2
STAGES == 7
RESBLOCKS == 3
RESIDUAL_PAIRS == 3
HOP_LENGTH == 800

upsample_rates     == << 5, 5, 2, 2, 2, 2, 2 >>
upsample_kernels   == << 9, 9, 4, 4, 4, 4, 4 >>
residual_kernels   == << 3, 7, 11 >>
residual_dilations == << 1, 3, 5 >>

-----------------------------------------------------------------------------
(* Convolutions.  A normalised one is loaded as a vector and a magnitude,  *)
(* which a command turns into its weight; a transposed one has its input   *)
(* channels outermost.                                                     *)

AudioConv(name, inCh, outCh, kernel, padding, dilation, stride, transpose, bias) ==
  [weight |-> name \o ".weight", vector |-> name \o ".vector", magnitude |-> name \o ".magnitude",
   bias |-> name \o ".bias", hasBias |-> bias, inCh |-> inCh, outCh |-> outCh, kernel |-> kernel,
   padding |-> padding, dilation |-> dilation, stride |-> stride, transpose |-> transpose]

ConvTensors(conv) == {conv.weight, conv.vector, conv.magnitude, conv.bias}
Outer(conv) == IF conv.transpose THEN conv.inCh ELSE conv.outCh
Inner(conv) == (IF conv.transpose THEN conv.outCh ELSE conv.inCh) * conv.kernel

load_bias(conv) == IF conv.hasBias THEN From(conv.bias, F32, conv.outCh) ELSE << >>

load_plain_conv(conv) == From(conv.weight, F32, conv.outCh * conv.inCh * conv.kernel) \o load_bias(conv)

load_normalized_conv(conv) ==
  From(conv.vector, F32, Outer(conv) * Inner(conv)) \o From(conv.magnitude, F32, Outer(conv))
  \o New(conv.weight, F32, Outer(conv) * Inner(conv)) \o load_bias(conv)

normalize_conv(conv) ==
  Call(WeightNorm(Outer(conv), Inner(conv)), << conv.weight >>, << conv.vector, conv.magnitude >>)

retire_normalization_inputs(conv) == Free({conv.vector, conv.magnitude})

\* run_conv, and the encoder's calls of h3_gpu_conv1d_stride_f32.
run_conv(output, input, conv, length) ==
  Call(IF conv.transpose
       THEN ConvTranspose1d(STEREO, length, conv.inCh, conv.outCh, conv.kernel, conv.stride,
                            conv.padding, conv.hasBias)
       ELSE Conv1d(STEREO, length, conv.inCh, conv.outCh, conv.kernel, conv.stride, conv.padding,
                   conv.dilation, conv.hasBias),
       << output >>, << input, conv.weight >> \o Optional(conv.hasBias, conv.bias))

load_activation(name, channels) == From(name \o ".alpha", F32, channels) \o From(name \o ".beta", F32, channels)

run_activation(output, input, name, length, channels) ==
  Call(AliasFreeSnake(STEREO, length, channels), << output >>,
       << input, name \o ".alpha", name \o ".beta", "upsample_filter", "downsample_filter" >>)

Added(target, source, count) == Call(Binary(F32, count), << target >>, << target, source >>)

Sized(names, count) == Times(Len(names), LAMBDA i : New(names[i], F32, count))

-----------------------------------------------------------------------------
(* h3_audio_vae_decode. *)

load_filters == From("upsample_filter", F32, SnakeTaps) \o From("downsample_filter", F32, SnakeTaps)

prepare_input(length) ==
  LET projection == AudioConv("dec_in_proj", LATENT_CHANNELS, LATENT_DIM, 1, 0, 1, 1, FALSE, TRUE)
      pre == AudioConv("conv_pre", LATENT_DIM, DECODER_DIM, 7, 3, 1, 1, FALSE, TRUE)
      own == {"latent", "projected", "pre"} \cup ConvTensors(projection) \cup ConvTensors(pre)
  IN Within(own,
       Host \o From("latent", F32, STEREO * length * LATENT_CHANNELS)
       \o load_plain_conv(projection) \o load_normalized_conv(pre)
       \o New("projected", F32, STEREO * length * LATENT_DIM)
       \o New("pre", F32, STEREO * length * DECODER_DIM)
       \o Begin \o normalize_conv(pre)
       \o run_conv("projected", "latent", projection, length)
       \o run_conv("pre", "projected", pre, length)
       \o Submit \o Move("hidden", "pre") \o Free(own))

\* The weights of a stage, counted from one.
Channels(index) == DECODER_DIM \div 2^index

Upsample(index) ==
  AudioConv("ups", DECODER_DIM \div 2^(index - 1), Channels(index), upsample_kernels[index],
            (upsample_kernels[index] - upsample_rates[index]) \div 2, 1, upsample_rates[index], TRUE, TRUE)

Part(block, pair, name) == "resblock" \o ToString(block) \o "." \o ToString(pair) \o name

Conv1(index, block, pair) ==
  LET kernel == residual_kernels[block]
  IN AudioConv(Part(block, pair, ".conv1"), Channels(index), Channels(index), kernel,
               (residual_dilations[pair] * (kernel - 1)) \div 2, residual_dilations[pair], 1, FALSE, TRUE)
Conv2(index, block, pair) ==
  LET kernel == residual_kernels[block]
  IN AudioConv(Part(block, pair, ".conv2"), Channels(index), Channels(index), kernel,
               (kernel - 1) \div 2, 1, 1, FALSE, TRUE)

EachPair(Body(_, _)) ==
  Times(RESBLOCKS, LAMBDA block : Times(RESIDUAL_PAIRS, LAMBDA pair : Body(block, pair)))

load_stage(index) ==
  load_normalized_conv(Upsample(index))
  \o EachPair(LAMBDA block, pair :
       load_activation(Part(block, pair, ".act1"), Channels(index))
       \o load_activation(Part(block, pair, ".act2"), Channels(index))
       \o load_normalized_conv(Conv1(index, block, pair))
       \o load_normalized_conv(Conv2(index, block, pair)))

StageTensors(index) ==
  LET loaded == load_stage(index)
  IN ConvTensors(Upsample(index)) \cup {loaded[i].name : i \in DOMAIN loaded}

\* One command makes every weight of the stage, then the parts are dropped.
normalize_stage(index) ==
  Begin \o normalize_conv(Upsample(index))
  \o EachPair(LAMBDA block, pair :
       normalize_conv(Conv1(index, block, pair)) \o normalize_conv(Conv2(index, block, pair)))
  \o Submit
  \o retire_normalization_inputs(Upsample(index))
  \o EachPair(LAMBDA block, pair :
       retire_normalization_inputs(Conv1(index, block, pair))
       \o retire_normalization_inputs(Conv2(index, block, pair)))

\* The length a stage leaves.
Expanded(length, index) ==
  (length - 1) * upsample_rates[index] + upsample_kernels[index]
    - 2 * ((upsample_kernels[index] - upsample_rates[index]) \div 2)

LengthAfter(length) ==
  LET after[i \in 0..STAGES] == IF i = 0 THEN length ELSE Expanded(after[i - 1], i)
  IN after

\* A residual block: pairs of activation and convolution added to its target.
run_resblock(index, block, length) ==
  LET count  == STEREO * length * Channels(index)
      target == IF block = 1 THEN "sum" ELSE "work"
      pairOf(pair) ==
        run_activation("activated", target, Part(block, pair, ".act1"), length, Channels(index))
        \o run_conv("branch", "activated", Conv1(index, block, pair), length)
        \o run_activation("activated", "branch", Part(block, pair, ".act2"), length, Channels(index))
        \o run_conv("branch", "activated", Conv2(index, block, pair), length)
        \o Added(target, "branch", count)
  IN Call(Copy(F32, 0, 0, count), << target >>, << "upsampled" >>)
     \o Times(RESIDUAL_PAIRS, pairOf)
     \o (IF block = 1 THEN << >> ELSE Added("sum", "work", count))

\* The stage's result is the mean of its three residual blocks.
run_stage(index, inputLength) ==
  LET length  == Expanded(inputLength, index)
      scratch == << "upsampled", "sum", "work", "activated", "branch" >>
  IN Within(ToSet(scratch),
       Sized(scratch, STEREO * length * Channels(index))
       \o Begin \o run_conv("upsampled", "hidden", Upsample(index), inputLength)
       \o Times(RESBLOCKS, LAMBDA block : run_resblock(index, block, length))
       \o Submit
       \o Free({"hidden"}) \o Move("hidden", "sum") \o Free(ToSet(scratch)))

decode_output(length) ==
  LET post == AudioConv("conv_post", Channels(STAGES), 1, 7, 3, 1, 1, FALSE, FALSE)
      own  == {"activated", "waveform", "post.alpha", "post.beta"} \cup ConvTensors(post)
  IN Within(own,
       load_activation("post", Channels(STAGES)) \o load_normalized_conv(post)
       \o New("activated", F32, STEREO * length * Channels(STAGES)) \o New("waveform", F32, STEREO * length)
       \o Begin \o normalize_conv(post)
       \o run_activation("activated", "hidden", "post", length, Channels(STAGES))
       \o run_conv("waveform", "activated", post, length)
       \o Call(Unary(F32, STEREO * length), << "waveform" >>, << "waveform" >>)
       \o Submit \o Host \o ReadFrom("waveform", F32, STEREO * length)
       \o Free(own))

\* cleanup() of the context; the weights of a stage are freed with the stage.
Context == {"upsample_filter", "downsample_filter", "hidden"}

h3_audio_vae_decode(length) ==
  Within(Context,
    Host \o load_filters \o prepare_input(length)
    \o Times(STAGES, LAMBDA index :
         LET own == StageTensors(index)
         IN Within(own, load_stage(index) \o normalize_stage(index)
                        \o run_stage(index, LengthAfter(length)[index - 1]))
            \o Free(own))
    \o decode_output(LengthAfter(length)[STAGES]))
  \o Free(Context)

-----------------------------------------------------------------------------
(* h3_audio_vae_encode. *)

ENCODER_STAGES == 5
ENCODER_RESIDUALS == 3
ENCODER_HEADS == 8
ENCODER_DIM == 64

encoder_strides   == << 2, 4, 4, 5, 5 >>
encoder_dilations == << 1, 3, 9 >>

\* encoder_initial: the last hop is filled with silence.
Hops(samples) == (samples + HOP_LENGTH - 1) \div HOP_LENGTH

encoder_initial(samples) ==
  LET padded == Hops(samples) * HOP_LENGTH
      conv   == AudioConv("block.0", 1, ENCODER_DIM, 7, 3, 1, 1, FALSE, TRUE)
      own    == {"input", "initial"} \cup ConvTensors(conv)
  IN Within(own,
       Host \o From("input", F32, STEREO * padded) \o New("initial", F32, STEREO * padded * ENCODER_DIM)
       \o load_normalized_conv(conv)
       \o Begin \o normalize_conv(conv) \o run_conv("initial", "input", conv, padded) \o Submit
       \o Move("hidden", "initial") \o Free(own))

Snaked(output, input, alpha, length, channels) ==
  Call(Snake1d(STEREO, length, channels), << output >>, << input, alpha >>)

encoder_residual(residual, length, channels) ==
  LET dilation == encoder_dilations[residual]
      conv1 == AudioConv("res.1", channels, channels, 7, 3 * dilation, dilation, 1, FALSE, TRUE)
      conv2 == AudioConv("res.3", channels, channels, 1, 0, 1, 1, FALSE, TRUE)
      count == STEREO * length * channels
      own   == {"alpha1", "alpha2", "activated", "branch"} \cup ConvTensors(conv1) \cup ConvTensors(conv2)
  IN Within(own,
       From("alpha1", F32, channels) \o load_normalized_conv(conv1)
       \o From("alpha2", F32, channels) \o load_normalized_conv(conv2)
       \o Sized(<< "activated", "branch" >>, count)
       \o Begin \o normalize_conv(conv1) \o normalize_conv(conv2)
       \o Snaked("activated", "hidden", "alpha1", length, channels)
       \o run_conv("branch", "activated", conv1, length)
       \o Snaked("activated", "branch", "alpha2", length, channels)
       \o run_conv("branch", "activated", conv2, length)
       \o Added("hidden", "branch", count)
       \o Submit \o Free(own))

Strided(stage, channels) ==
  LET stride == encoder_strides[stage]
  IN AudioConv("down", channels, channels * 2, stride * 2, (stride + 1) \div 2, 1, stride, FALSE, TRUE)

\* encoder_conv_length.
EncoderConvLength(length, conv) ==
  WindowCount(length + 2 * conv.padding, conv.dilation * (conv.kernel - 1) + 1, conv.stride)

encoder_downsample(stage, length, channels) ==
  LET conv == Strided(stage, channels)
      own  == {"alpha", "activated", "down"} \cup ConvTensors(conv)
  IN Within(own,
       From("alpha", F32, channels) \o load_normalized_conv(conv)
       \o New("activated", F32, STEREO * length * channels)
       \o New("down", F32, STEREO * EncoderConvLength(length, conv) * channels * 2)
       \o Begin \o normalize_conv(conv)
       \o Snaked("activated", "hidden", "alpha", length, channels)
       \o run_conv("down", "activated", conv, length)
       \o Submit \o Free({"hidden"}) \o Move("hidden", "down") \o Free(own))

EncoderLengths(samples) ==
  LET before[i \in 1..ENCODER_STAGES + 1] ==
        IF i = 1 THEN Hops(samples) * HOP_LENGTH
        ELSE EncoderConvLength(before[i - 1], Strided(i - 1, ENCODER_DIM * 2^(i - 2)))
  IN before

encoder_final_conv(length) ==
  LET conv == AudioConv("block.7", LATENT_DIM, LATENT_DIM, 3, 1, 1, 1, FALSE, TRUE)
      own  == {"alpha", "activated", "final"} \cup ConvTensors(conv)
  IN Within(own,
       From("alpha", F32, LATENT_DIM) \o load_normalized_conv(conv)
       \o Sized(<< "activated", "final" >>, STEREO * length * LATENT_DIM)
       \o Begin \o normalize_conv(conv)
       \o Snaked("activated", "hidden", "alpha", length, LATENT_DIM)
       \o run_conv("final", "activated", conv, length)
       \o Submit \o Free({"hidden"}) \o Move("hidden", "final") \o Free(own))

load_norm(name, width) == From(name \o "_w", F32, width) \o From(name \o "_b", F32, width)
load_linear(name, inDim, outDim) == From(name \o "_w", F32, outDim * inDim) \o From(name \o "_b", F32, outDim)

LayerNormed(output, input, name, rows, width) ==
  Call(LayerNorm(F32, rows, width), << output >>, << input, name \o "_w", name \o "_b" >>)
Projected(output, input, name, rows, inDim, outDim) ==
  Call(Linear(F32, rows, inDim, outDim, TRUE), << output >>, << input, name \o "_w", name \o "_b" >>)

encoder_projection_branch(rows) ==
  LET own == {"norm3_w", "norm3_b", "proj_w", "proj_b", "normalized", "projected"}
  IN Within(own,
       load_norm("norm3", LATENT_DIM) \o load_linear("proj", LATENT_DIM, LATENT_CHANNELS)
       \o New("normalized", F32, rows * LATENT_DIM) \o New("projected", F32, rows * LATENT_CHANNELS)
       \o Begin \o LayerNormed("normalized", "hidden", "norm3", rows, LATENT_DIM)
       \o Projected("projected", "normalized", "proj", rows, LATENT_DIM, LATENT_CHANNELS)
       \o Submit \o Move("base", "projected") \o Free(own))

encoder_attention_branch(length) ==
  LET rows == STEREO * length
      headDim == LATENT_DIM \div ENCODER_HEADS
      wide == << "normalized", "query", "key", "value", "attended" >>
      own  == {"norm1_w", "norm1_b", "qkv_w", "q_bias", "k_bias", "v_bias", "proj_w", "proj_b",
               "qkv", "pooled", "projected"} \cup ToSet(wide)
  IN Within(own,
       load_norm("norm1", LATENT_DIM) \o From("qkv_w", F32, LATENT_DIM * 3 * LATENT_DIM)
       \o From("q_bias", F32, LATENT_DIM) \o From("k_bias", F32, LATENT_DIM) \o From("v_bias", F32, LATENT_DIM)
       \o load_linear("proj", LATENT_CHANNELS, LATENT_CHANNELS)
       \o Sized(wide, rows * LATENT_DIM) \o New("qkv", F32, rows * LATENT_DIM * 3)
       \o Sized(<< "pooled", "projected" >>, rows * LATENT_CHANNELS)
       \o Begin \o LayerNormed("normalized", "hidden", "norm1", rows, LATENT_DIM)
       \o Call(Linear(F32, rows, LATENT_DIM, LATENT_DIM * 3, FALSE), << "qkv" >>, << "normalized", "qkv_w" >>)
       \o Call(AudioQkvSplit(STEREO, length, ENCODER_HEADS, headDim), << "query", "key", "value" >>,
               << "qkv", "q_bias", "k_bias", "v_bias" >>)
       \o Call(SdpaCausal(STEREO, length, ENCODER_HEADS, headDim), << "attended" >>, << "query", "key", "value" >>)
       \o Call(AudioAttentionPool(STEREO, length, ENCODER_HEADS, headDim, LATENT_CHANNELS),
               << "pooled" >>, << "attended" >>)
       \o Projected("projected", "pooled", "proj", rows, LATENT_CHANNELS, LATENT_CHANNELS)
       \o Added("base", "projected", rows * LATENT_CHANNELS)
       \o Submit \o Free(own))

encoder_mlp(rows) ==
  LET narrow == << "norm2", "normm", "branch" >>
      doubled == << "gate", "linear", "geglu" >>
      own == {"n2_w", "n2_b", "nm_w", "nm_b", "w0_w", "w0_b", "w1_w", "w1_b", "w2_w", "w2_b"}
             \cup ToSet(narrow) \cup ToSet(doubled)
  IN Within(own,
       load_norm("n2", LATENT_CHANNELS) \o load_norm("nm", LATENT_CHANNELS)
       \o load_linear("w0", LATENT_CHANNELS, LATENT_CHANNELS * 2)
       \o load_linear("w1", LATENT_CHANNELS, LATENT_CHANNELS * 2)
       \o load_linear("w2", LATENT_CHANNELS * 2, LATENT_CHANNELS)
       \o Sized(narrow, rows * LATENT_CHANNELS) \o Sized(doubled, rows * LATENT_CHANNELS * 2)
       \o Begin \o LayerNormed("norm2", "base", "n2", rows, LATENT_CHANNELS)
       \o LayerNormed("normm", "norm2", "nm", rows, LATENT_CHANNELS)
       \o Projected("gate", "normm", "w0", rows, LATENT_CHANNELS, LATENT_CHANNELS * 2)
       \o Projected("linear", "normm", "w1", rows, LATENT_CHANNELS, LATENT_CHANNELS * 2)
       \o Call(Binary(F32, rows * LATENT_CHANNELS * 2), << "geglu" >>, << "gate", "linear" >>)
       \o Projected("branch", "geglu", "w2", rows, LATENT_CHANNELS * 2, LATENT_CHANNELS)
       \o Added("base", "branch", rows * LATENT_CHANNELS)
       \o Submit \o Free(own))

encoder_output(length) ==
  LET conv  == AudioConv("mean_proj", LATENT_CHANNELS, LATENT_CHANNELS, 1, 0, 1, 1, FALSE, TRUE)
      count == STEREO * length * LATENT_CHANNELS
      own   == {"latent"} \cup ConvTensors(conv)
  IN Within(own,
       New("latent", F32, count) \o load_plain_conv(conv)
       \o Begin \o run_conv("latent", "base", conv, length) \o Submit
       \o Host \o ReadFrom("latent", F32, count)
       \o Free(own))

h3_audio_vae_encode(samples) ==
  LET lengths == EncoderLengths(samples)
      last    == lengths[ENCODER_STAGES + 1]
      width(stage) == ENCODER_DIM * 2^(stage - 1)
  IN Within(Context \cup {"base"},
       Host \o encoder_initial(samples)
       \o Times(ENCODER_STAGES, LAMBDA stage :
            Times(ENCODER_RESIDUALS, LAMBDA r : encoder_residual(r, lengths[stage], width(stage)))
            \o encoder_downsample(stage, lengths[stage], width(stage)))
       \o encoder_final_conv(last)
       \o encoder_projection_branch(STEREO * last)
       \o encoder_attention_branch(last)
       \o encoder_mlp(STEREO * last)
       \o encoder_output(last))
     \o Free(Context \cup {"base"})
=============================================================================
