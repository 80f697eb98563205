---------------------------- MODULE MCGpuProgram ----------------------------
(***************************************************************************)
(* The networks as programs of GpuProgram, on the smallest pictures, clips *)
(* and sounds that reach their edges: an odd number of patches, more than  *)
(* one chunk of latents, more rows than a group of the attention.  Each    *)
(* program is a definition without parameters, so that TLC unrolls it once.*)
(***************************************************************************)
EXTENDS GpuCommands

Vision == INSTANCE VisionEncoder
Video == INSTANCE VideoEncoder
Audio == INSTANCE AudioVae
VideoVae == INSTANCE VideoVae
Text == INSTANCE TextEncoder
Dit == INSTANCE DitModel WITH H3_DIT_BLOCKS <- 4

None == << >>

VideoChunk == VideoVae!decode_chunked(2, 3, 2)
VideoResident == VideoVae!Resident(2, 3)
VideoTileAgain == VideoVae!decode_tile(2, 3)
VideoDiagnostic == VideoVae!h3_video_vae_decode(2, 3)
VisionPicture == Vision!h3_vision_encode_bf16(32, 64)
VideoTile == Video!h3_video_vae_encode(5, 32, 48, 2)
AudioDecode == Audio!h3_audio_vae_decode(2)
AudioEncode == Audio!h3_audio_vae_encode(1)

\* Five tokens, two pictures of one token each, and four of the layers.
Prompt == Text!text_encode_bf16_impl(5, << [start |-> 1, tokens |-> 1], [start |-> 3, tokens |-> 1] >>, 4)

SegmentOf(kind, rows) == [kind |-> kind, rows |-> rows]

\* Two latent frames of 4x6: rows of three patches, the last without a neighbour.
Plain == [segments |-> << SegmentOf("text", 3), SegmentOf("audio", 2), SegmentOf("video", 12) >>,
          latent |-> << 2, 4, 6 >>, audio |-> 1]
\* Wider: what is left of qkv when the rows are fewer holds them all.
Wide == [segments |-> << SegmentOf("text", 3), SegmentOf("audio", 2), SegmentOf("video", 20) >>,
         latent |-> << 2, 4, 10 >>, audio |-> 1]
Conditioned == [Plain EXCEPT !.segments =
  << SegmentOf("text", 3), SegmentOf("cond", 6), SegmentOf("ref_audio", 2), SegmentOf("ref_image", 6), SegmentOf("audio", 2), SegmentOf("video", 12) >>]

Alone == [layout |-> Plain, order |-> (0 :> "same") @@ (1 :> "before") @@ (2 :> "same"), tags |-> {0},
          clean |-> [s \in 0..2 |-> {}], active |-> 0..3, ranked |-> FALSE,
          reduction |-> [begin |-> 0, end |-> 0, early |-> 0, earlyEnd |-> 0], int8 |-> {}, interval |-> 1,
          commands |-> 0, selected |-> 0..2, reuse |-> 1, sampler |-> "cpu", window |-> 1, preview |-> FALSE,
          again |-> FALSE]

\* Everything at once: references, pooled tokens, quantised projections, blocks
\* reused, and a second run.
Loaded == [Alone EXCEPT !.layout = Conditioned, !.tags = {0, 1}, !.reduction = [begin |-> 1, end |-> 3, early |-> 1, earlyEnd |-> 4],
                        !.int8 = {"mlp", "qkv", "out"}, !.interval = 2, !.commands = 2, !.again = TRUE]

\* The latents stay on the GPU, steps share a command, every other is extrapolated.
OnGpu == [Alone EXCEPT !.sampler = "gpu", !.window = 2, !.selected = {0, 2}, !.reuse = 2, !.active = {0, 1, 3},
                       !.ranked = TRUE, !.int8 = {"qkv"}]

\* A preview after each step.
Previewed == [OnGpu EXCEPT !.layout = Wide, !.preview = TRUE, !.reduction = [begin |-> 0, end |-> 2, early |-> 0, earlyEnd |-> 2], !.int8 = {"mlp"}]

\* Of a latent of two frames of 4x6 in 24 channels, and one audio frame of 64.
Velocities == [video_output |-> 24 * 2 * 4 * 6, audio_output |-> 64]

Dits == [i \in 1..4 |-> LET dit == << Alone, Loaded, OnGpu, Previewed >>[i]
                        IN Program(None, Dit!Life(dit), None, IF i <= 2 THEN Velocities ELSE None)]

MCPrograms ==
  << Program(None, VideoTile, None, [moments_quant |-> 2 * 2 * 3 * 48]),
     Program(None, VisionPicture, None, [merged |-> 2 * 5120]),
     Program(None, AudioDecode, None, [waveform |-> 3200]),
     Program(None, AudioEncode, None, [latent |-> 64]),
     Program(None, Prompt, None, [hidden |-> 5 * 5120]),
     Program(None, VideoChunk, None, [projected |-> (7 * 2 * 3 + 5) * 3 * 4 * 16 * 16]),
     Program(VideoResident, VideoTileAgain, None, None), Program(None, VideoDiagnostic, None, None) >> \o Dits
=============================================================================
