---------------------------- MODULE VideoEncoder ----------------------------
(***************************************************************************)
(* src/h3_video_encoder.c: the causal video VAE encoder over one tile, as  *)
(* a program of GpuProgram.  Each convolution and each residual block is a *)
(* command of its own; the volume it leaves replaces the one it was given. *)
(***************************************************************************)
EXTENDS GpuCommands

RGB_CHANNELS == 3
LATENT_CHANNELS == 24
MOMENT_CHANNELS == 48
LEVELS == 6
BLOCKS == 2
GROUPS == 32

level_channels == << 128, 256, 256, 512, 512, 1024 >>
space_strides  == << 2, 2, 2, 2, 1, 1 >>
time_strides   == << 1, 2, 2, 1, 1, 1 >>

-----------------------------------------------------------------------------
(* Weights.  Volumes are << depth, height, width >>; pads are in front and *)
(* at the four sides, as GpuOps has them.                                  *)

EncoderConv(name, inCh, outCh, kernel, stride, pads) ==
  [name |-> name, weight |-> name \o ".weight", bias |-> name \o ".bias",
   inCh |-> inCh, outCh |-> outCh, kernel |-> << kernel, kernel, kernel >>,
   stride |-> stride, pads |-> pads]

Same(name, inCh, outCh) == EncoderConv(name, inCh, outCh, 3, << 1, 1, 1 >>, << 2, 1, 1, 1, 1 >>)
OneByOne(name, inCh, outCh) == EncoderConv(name, inCh, outCh, 1, << 1, 1, 1 >>, << 0, 0, 0, 0, 0 >>)

BlockName(level, block, part) == "down" \o ToString(level) \o "." \o ToString(block) \o part

InputChannels(level, block) ==
  IF block > 1 THEN level_channels[level]
  ELSE IF level > 1 THEN level_channels[level - 1] ELSE 128

Conv1(level, block) ==
  Same(BlockName(level, block, ".conv1"), InputChannels(level, block), level_channels[level])
Conv2(level, block) ==
  Same(BlockName(level, block, ".conv2"), level_channels[level], level_channels[level])
Shortcut(level, block) ==
  OneByOne(BlockName(level, block, ".nin_shortcut"), InputChannels(level, block), level_channels[level])
HasShortcut(level, block) == InputChannels(level, block) /= level_channels[level]

\* Time and space shrink together; a strided axis is padded at its end only.
Downsample(level) ==
  LET tail == IF space_strides[level] = 2 THEN 1 ELSE 0
  IN EncoderConv("down" \o ToString(level) \o ".downsample",
                 level_channels[level], level_channels[level], 3,
                 << time_strides[level], space_strides[level], space_strides[level] >>,
                 << 2, 0, tail, 0, tail >>)
HasDownsample(level) == space_strides[level] * time_strides[level] > 1

ConvIn  == Same("conv_in", RGB_CHANNELS, 128)
ConvOut == Same("conv_out", 1024, MOMENT_CHANNELS)
Quant   == OneByOne("quant", MOMENT_CHANNELS, MOMENT_CHANNELS)

load_conv(conv) ==
  From(conv.weight, F32, conv.outCh * conv.inCh * Volume(conv.kernel))
  \o From(conv.bias, F32, conv.outCh)

load_norm(name, channels) ==
  From(name \o ".weight", F32, channels) \o From(name \o ".bias", F32, channels)

load_block(level, block) ==
  load_norm(BlockName(level, block, ".norm1"), InputChannels(level, block))
  \o load_conv(Conv1(level, block))
  \o load_norm(BlockName(level, block, ".norm2"), level_channels[level])
  \o load_conv(Conv2(level, block))
  \o (IF HasShortcut(level, block) THEN load_conv(Shortcut(level, block)) ELSE << >>)

load_weights ==
  load_conv(ConvIn)
  \o Times(LEVELS, LAMBDA level :
       Times(BLOCKS, LAMBDA block : load_block(level, block))
       \o (IF HasDownsample(level) THEN load_conv(Downsample(level)) ELSE << >>))
  \o load_norm("norm_out", 1024) \o load_conv(ConvOut) \o load_conv(Quant)

\* cleanup() names every tensor load_weights may have filled.
Weights == LET loaded == load_weights IN {loaded[i].name : i \in DOMAIN loaded}

-----------------------------------------------------------------------------
(* The forward pass. *)

\* conv_op: the pad into a scratch, when the convolution has one, then Conv3d.
conv_op(output, input, conv, box, padded) ==
  IF padded = ""
  THEN Call(Conv3d(1, box, conv.inCh, conv.outCh, conv.kernel, conv.stride, TRUE),
            << output >>, << input, conv.weight, conv.bias >>)
  ELSE Call(VaePad(1, box, conv.inCh, conv.pads), << padded >>, << input >>)
       \o Call(Conv3d(1, PaddedBox(box, conv.pads), conv.inCh, conv.outCh, conv.kernel, conv.stride, TRUE),
               << output >>, << padded, conv.weight, conv.bias >>)

\* The box that run_conv computes for its output.
ConvBox(conv, box) == ConvolvedBox(PaddedBox(box, conv.pads), conv.kernel, conv.stride)

run_conv(output, input, conv, box) ==
  Within({"padded", output},
    New("padded", F32, Volume(PaddedBox(box, conv.pads)) * conv.inCh)
    \o New(output, F32, Volume(ConvBox(conv, box)) * conv.outCh)
    \o Begin \o conv_op(output, input, conv, box, "padded") \o Submit
    \o Free({"padded"}))

BlockScratch == {"norm1", "pad1", "inner", "norm2", "pad2", "shortcut"}

\* run_block: norm, conv, norm, conv and the residual, projected when the
\* number of channels changes.
run_block(output, input, level, block, box) ==
  LET inCh   == InputChannels(level, block)
      outCh  == level_channels[level]
      count  == Volume(box) * outCh
      padded == Volume(PaddedBox(box, << 2, 1, 1, 1, 1 >>))
      norm(result, source, name, channels) ==
        Call(GroupNormSilu(1, box, channels, GROUPS), << result >>,
             << source, BlockName(level, block, name) \o ".weight", BlockName(level, block, name) \o ".bias" >>)
      added(residual) == Call(Binary(F32, count), << output >>, << residual, output >>)
  IN Within(BlockScratch \cup {output},
       New("norm1", F32, Volume(box) * inCh) \o New("pad1", F32, padded * inCh)
       \o New("inner", F32, count) \o New("norm2", F32, count)
       \o New("pad2", F32, padded * outCh) \o New(output, F32, count)
       \o (IF HasShortcut(level, block) THEN New("shortcut", F32, count) ELSE << >>)
       \o Begin
       \o norm("norm1", input, ".norm1", inCh)
       \o conv_op("inner", "norm1", Conv1(level, block), box, "pad1")
       \o norm("norm2", "inner", ".norm2", outCh)
       \o conv_op(output, "norm2", Conv2(level, block), box, "pad2")
       \o (IF HasShortcut(level, block)
           THEN conv_op("shortcut", input, Shortcut(level, block), box, "") \o added("shortcut")
           ELSE added(input))
       \o Submit \o Free(BlockScratch))

\* The stages between the pixels and the output norm: conv_in, then the blocks
\* of each level and its downsampling.
Stages ==
  << << "in" >> >>
  \o Times(LEVELS, LAMBDA level :
       [block \in 1..BLOCKS |-> << "block", level, block >>]
       \o (IF HasDownsample(level) THEN << << "down", level >> >> ELSE << >>))

StageConv(stage) == IF stage[1] = "in" THEN ConvIn ELSE Downsample(stage[2])

\* The box each stage works on.
BoxBefore(box) ==
  LET before[i \in 1..Len(Stages) + 1] ==
        IF i = 1 THEN box
        ELSE IF Stages[i - 1][1] = "block" THEN before[i - 1]
             ELSE ConvBox(StageConv(Stages[i - 1]), before[i - 1])
  IN before

\* A stage makes the next volume of the present one, which the code frees
\* whether the stage succeeds or not.
run_stage(stage, box) ==
  Within({"hidden"},
    IF stage[1] = "block" THEN run_block("next", "hidden", stage[2], stage[3], box)
                          ELSE run_conv("next", "hidden", StageConv(stage), box))
  \o Free({"hidden"}) \o Move("hidden", "next")

OutputScratch == {"norm", "out_padded", "moments", "moments_quant"}

\* encode_tile: pixels to latent means, which the host normalises.
encode_tile(frames, height, width) ==
  LET boxes  == BoxBefore(<< frames, height, width >>)
      box    == boxes[Len(Stages) + 1]
      moment == Volume(box) * MOMENT_CHANNELS
  IN Host \o From("hidden", F32, frames * height * width * RGB_CHANNELS)
     \o Times(Len(Stages), LAMBDA i : run_stage(Stages[i], boxes[i]))
     \o Within(OutputScratch \cup {"hidden"},
          New("norm", F32, Volume(box) * 1024)
          \o New("out_padded", F32, Volume(PaddedBox(box, << 2, 1, 1, 1, 1 >>)) * 1024)
          \o New("moments", F32, moment) \o New("moments_quant", F32, moment)
          \o Begin
          \o Call(GroupNormSilu(1, box, 1024, GROUPS), << "norm" >>, << "hidden", "norm_out.weight", "norm_out.bias" >>)
          \o conv_op("moments", "norm", ConvOut, box, "out_padded")
          \o conv_op("moments_quant", "moments", Quant, box, "")
          \o Submit
          \o Host \o ReadFrom("moments_quant", F32, moment)
          \o Free({"hidden"} \cup OutputScratch))

\* The time, height and width of the latents of one tile.
LatentBox(frames, height, width) == BoxBefore(<< frames, height, width >>)[Len(Stages) + 1]

\* h3_video_vae_encode over one tile; the tiles of a larger picture run one
\* after the other with the same weights.
h3_video_vae_encode(frames, height, width, tiles) ==
  Within(Weights, Host \o load_weights \o Host
                  \o Times(tiles, LAMBDA i : encode_tile(frames, height, width)) \o Host)
  \o Free(Weights)
=============================================================================
