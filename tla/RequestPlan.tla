----------------------------- MODULE RequestPlan -----------------------------
(***************************************************************************)
(* From a request to the sizes the engine works with: what h3_generate     *)
(* refuses, the frames and latents of the clip, and the packed layout with *)
(* the place in time of every row (src/h3.c, src/h3_host.c).               *)
(*                                                                         *)
(* A request has the canvas (width, height), the internal canvas (render,  *)
(* << 0, 0 >> when not set), the frames asked for, anchors, a subset of    *)
(* {"first", "last"}, and references, in order.  A reference has its kind, *)
(* the canvas its medium is scaled to, the frames that FFmpeg decodes of   *)
(* it, up to the request's, and the samples of its sound.  Times are in    *)
(* thirds of an audio latent: a frame of the video is five of them.        *)
(***************************************************************************)
EXTENDS Integers, Sequences, FiniteSetsExt, SequencesExt

Rows == INSTANCE DitRows
Gpu == INSTANCE GpuOps
Transformer == INSTANCE DitModel WITH H3_DIT_BLOCKS <- 50

H3_CANVAS_MULTIPLE == 32
H3_MAX_PIXELS == 768 * 1344
H3_VAE_SPATIAL_RATIO == 16
MIN_SAMPLES == 64000
AUDIO_RATE == 32000
HOP_LENGTH == 800

h3_align_frame_count(requested) ==
  LET value == IF requested < 5 THEN 5 ELSE requested
  IN value + ((17 - ((value - 5) % 17)) % 17)

h3_video_latent_t(frames) == IF frames <= 5 THEN 2 ELSE ((frames - 5) \div 17) * 5 + 2

h3_video_encoder_latent_t(frames) == IF frames > 0 THEN (frames + 3) \div 4 ELSE 0

\* llround of frames * 40 / 24: halves go up, and do not occur.
h3_temporal(requested) ==
  LET frames == h3_align_frame_count(requested)
  IN [frame_count |-> frames, video_t |-> h3_video_latent_t(frames), audio_t |-> (10 * frames + 3) \div 6]

\* h3_ffmpeg_read_video_f32 keeps as many frames as the decoder's chunks have.
CutFrames(frames) == Max({n \in 5..frames : n % 17 = 5})

-----------------------------------------------------------------------------
(* h3_valid_params, and the refusals of h3_generate.                       *)

Canvas(width, height) ==
  /\ width >= 32 /\ height >= 32
  /\ width % H3_CANVAS_MULTIPLE = 0 /\ height % H3_CANVAS_MULTIPLE = 0

ValidCanvas(r) ==
  /\ Canvas(r.width, r.height) /\ r.width * r.height <= H3_MAX_PIXELS
  /\ r.render # << 0, 0 >> =>
       /\ Canvas(r.render[1], r.render[2])
       /\ r.render[1] <= r.width /\ r.render[2] <= r.height
       /\ r.render[1] * r.height = r.render[2] * r.width

OfKinds(references, kinds) == Cardinality({i \in DOMAIN references : references[i].kind \in kinds})

ValidReferences(r) ==
  LET of(kinds) == OfKinds(r.references, kinds)
  IN r.references # << >> =>
       /\ Len(r.references) <= 12 /\ r.anchors = {}
       /\ of({"image"}) <= 9 /\ of({"video", "silent_video", "video_audio"}) <= 3
       /\ of({"audio", "video", "video_audio"}) <= 3
       /\ of({"image", "video", "silent_video", "video_audio"}) > 0

\* The samples read of a reference: a soundtrack is cut at the end of its clip.
SoundOf(reference) ==
  LET whole == reference.samples
      clip  == (CutFrames(reference.frames) * 4000 + 1) \div 3
  IN CASE reference.kind = "audio"                   -> whole
       [] reference.kind \in {"video", "video_audio"} -> Min({whole, clip})
       [] OTHER                                      -> 0

Sounding(r) == {i \in DOMAIN r.references : r.references[i].kind \in {"audio", "video", "video_audio"}}

ValidSound(r) ==
  /\ \A i \in Sounding(r) : SoundOf(r.references[i]) >= MIN_SAMPLES
  /\ FoldSet(LAMBDA i, sum : sum + SoundOf(r.references[i]), 0, Sounding(r)) <= AUDIO_RATE * 15

h3_valid_params(r) ==
  /\ ValidCanvas(r)
  /\ r.frames >= 5 /\ h3_align_frame_count(r.frames) <= 362
  /\ ValidReferences(r)

AcceptedRequest(r) ==
  /\ h3_valid_params(r)
  /\ h3_align_frame_count(r.frames) >= 22
  /\ \A i \in DOMAIN r.references : r.references[i].kind # "audio" /\ r.references[i].kind # "image" => r.references[i].frames >= 5
  /\ ValidSound(r)

-----------------------------------------------------------------------------
(* h3_layout_build.                                                        *)

Latent(width, height) == << height \div H3_VAE_SPATIAL_RATIO, width \div H3_VAE_SPATIAL_RATIO >>

\* The canvas the clip is generated on.
Rendered(r) == IF r.render = << 0, 0 >> THEN << r.width, r.height >> ELSE r.render

\* A faulty form: a row for each latent and not for each patch of four.
frame_rows_Unpatched(latent) == latent[1] * latent[2]

frame_rows(latent) == (latent[1] \div 2) * (latent[2] \div 2)

\* h3_frame_per_token times h3_frame_rescale.
TokenSpan(index) == IF index % 5 = 0 THEN 5 ELSE 20

\* A faulty form: a token of the video lasts as long as any other.
h3_video_span_sum_Even(latent_t) == latent_t * 20

h3_video_span_sum(latent_t) == FoldSet(LAMBDA i, sum : sum + TokenSpan(i), 0, 0..latent_t - 1)

\* A segment: its kind, its rows, and the time it takes.
Segment(kind, rows, from, until) == [kind |-> kind, rows |-> rows, from |-> from, until |-> until]

\* The latents of a reference: time, and the latents of its sound.
ReferenceLatents(reference) ==
  [t |-> IF reference.kind = "audio" THEN 0
         ELSE h3_video_encoder_latent_t(IF reference.kind = "image" THEN 1 ELSE CutFrames(reference.frames)),
   canvas |-> Latent(reference.canvas[1], reference.canvas[2]),
   audio_t |-> (SoundOf(reference) + HOP_LENGTH - 1) \div HOP_LENGTH]

\* The segments of a reference, and how far it moves the cursor.
ReferenceSegments(reference, cursor) ==
  LET latents == ReferenceLatents(reference)
      heard == 3 * latents.audio_t
      seen  == h3_video_span_sum(latents.t)
      sound == IF latents.audio_t = 0 THEN << >>
               ELSE << Segment("ref_audio", 2 * latents.audio_t, cursor, cursor + heard) >>
  IN CASE reference.kind = "image" ->
            [segments |-> << Segment("ref_image", frame_rows(latents.canvas), cursor, cursor + 3) >>, span |-> 3]
       [] reference.kind = "audio" -> [segments |-> sound, span |-> heard]
       [] OTHER -> [segments |-> sound \o << Segment("ref_image", latents.t * frame_rows(latents.canvas), cursor, cursor + seen) >>,
                    span |-> Max({heard, seen})]

\* The keyframes have the time of the frame they anchor, counted from the text's end.
KeyframeTime(anchor, tokens, latent_t) ==
  IF anchor = "first" THEN 3 * tokens ELSE 3 * tokens + h3_video_span_sum(latent_t) - 5

h3_layout_build(r) ==
  LET temporal == h3_temporal(r.frames)
      latent   == Latent(Rendered(r)[1], Rendered(r)[2])
      text     == << Segment("text", r.tokens, 0, 3 * r.tokens) >>
      cond(a)  == LET time == KeyframeTime(a, r.tokens, temporal.video_t)
                  IN IF a \in r.anchors THEN << Segment("cond", frame_rows(latent), time, time + 5) >> ELSE << >>
      after    == FoldLeft(LAMBDA acc, reference :
                             LET next == ReferenceSegments(reference, acc.cursor)
                             IN [segments |-> acc.segments \o next.segments, cursor |-> acc.cursor + next.span],
                           [segments |-> text \o cond("first") \o cond("last"), cursor |-> 3 * r.tokens],
                           r.references)
      audio    == Segment("audio", 2 * temporal.audio_t, after.cursor, after.cursor + 3 * temporal.audio_t)
      video    == Segment("video", temporal.video_t * frame_rows(latent),
                          after.cursor, after.cursor + h3_video_span_sum(temporal.video_t))
  IN [segments |-> after.segments \o << audio, video >>,
      latent |-> << temporal.video_t, latent[1], latent[2] >>, audio |-> temporal.audio_t]

\* The rows of conditions that h3_generate packs: of each anchor or reference in
\* turn, what its encoders give.
PackedRows(r) ==
  LET latent == Latent(Rendered(r)[1], Rendered(r)[2])
      picture(reference) == LET l == ReferenceLatents(reference) IN (l.t * l.canvas[1] * l.canvas[2]) \div 4
      sum(Of(_)) == FoldLeft(LAMBDA n, reference : n + Of(reference), 0, r.references)
  IN [videoCondition |-> Cardinality(r.anchors) * ((latent[1] * latent[2]) \div 4)
                         + sum(LAMBDA x : IF x.kind = "audio" THEN 0 ELSE picture(x)),
      audioCondition |-> sum(LAMBDA x : 2 * ReferenceLatents(x).audio_t)]

-----------------------------------------------------------------------------
VARIABLES request,
          planned,  \* its layout, << >> until there is one
          encoded   \* the rows of conditions encoded for it

planVars == << request, planned, encoded >>

\* The sides of a canvas a medium is scaled to are multiples of 32.
Sides == {n \in Nat : n > 0 /\ n % H3_CANVAS_MULTIPLE = 0}

References ==
  [kind : {"image", "audio", "video", "silent_video", "video_audio"}, canvas : Sides \X Sides,
   frames : Nat, samples : Nat]

\* What a caller may ask for; a prompt has at least the tokens of its template.
Requests ==
  [width : Int, height : Int, render : Int \X Int, frames : Int, anchors : SUBSET {"first", "last"},
   references : Seq(References), tokens : Nat \ {0}]

PlanInit == request \in Requests /\ planned = << >> /\ encoded = << >>

\* h3_generate goes on with a request it accepts.
BuildLayout ==
  /\ planned = << >> /\ AcceptedRequest(request)
  /\ planned' = h3_layout_build(request)
  /\ encoded' = PackedRows(request)
  /\ UNCHANGED request

PlanSpec == PlanInit /\ [][BuildLayout]_planVars

Planned == planned # << >>

\* Every request that is accepted has a layout: as the DiT demands it, with as
\* many rows of conditions as were encoded, and with the whole chunks of latents that the
\* video VAE decodes into the frames announced.
LayoutFits ==
  Planned =>
    LET total(kind) == Rows!RowsOf(planned, {kind})
    IN /\ Rows!validate_layout(planned, request.tokens,
            [videoCondition |-> encoded.videoCondition, audioCondition |-> encoded.audioCondition,
             video |-> total("video"), audio |-> total("audio")])
       /\ Rows!CanReduce(planned)
       /\ planned.latent[1] >= 7 /\ (planned.latent[1] - 2) % 5 = 0
       /\ 17 * ((planned.latent[1] - 2) \div 5) + 5 = h3_temporal(request.frames).frame_count

\* In the time of the rotary embedding the items of a request follow each other,
\* none reaches into the next, a keyframe has the time of the frame it anchors, and sound
\* and picture of the clip end within a third of an audio latent of each other.
TimelineHolds ==
  Planned =>
    LET segments == planned.segments
        last == Len(segments)
        frames == h3_temporal(request.frames).frame_count
        together(s, t) == s.from = t.from /\ {s.kind, t.kind} \in {{"audio", "video"}, {"ref_audio", "ref_image"}}
        apart(s, t) == s.until <= t.from \/ t.until <= s.from
    IN /\ \A i \in 1..last, j \in 1..last :
            i < j => \/ segments[i].kind = "cond"
                     \/ apart(segments[i], segments[j])
                     \/ together(segments[i], segments[j])
       /\ \A i \in 1..last : segments[i].kind = "cond" =>
            (segments[i].from - segments[last].from) \in {0, 5 * (frames - 1)}
       /\ segments[last].until - segments[last - 1].until \in -1..1

\* What is planned for an accepted request can be generated (h3_layout_build).
PlanHolds == LayoutFits /\ TimelineHolds

\* What the README offers can be generated: a request within the released canvas
\* and the released number of frames is launched, in every layer, with a grid
\* that CUDA takes (h3_gpu_qkv_rope_bf16 and its like have a row of blocks a token).
LaunchesFit ==
  Planned =>
    Gpu!QkvRope(Gpu!BF16, Rows!sequence(planned), Transformer!HEADS, Transformer!HEAD_DIM, Transformer!ROPE_HALF, TRUE).grid
      <= Gpu!GridLimit
=============================================================================
