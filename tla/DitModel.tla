------------------------------ MODULE DitModel ------------------------------
(***************************************************************************)
(* src/h3_dit.c and src/h3_dit_schedule.c as programs of GpuProgram: the   *)
(* life of a DiT from h3_dit_load to h3_dit_free, with the denoising runs  *)
(* in between.  A DiT, d, is a record:                                     *)
(*   layout, order, tags, clean   the rows and times of DitRows;           *)
(*   active     the blocks that run, ranked: by the gates of the schedule; *)
(*   reduction  the block where tokens are pooled and those where they are *)
(*              restored, in early steps and later; begin = end: never;    *)
(*   int8       the projections quantised as they are loaded;              *)
(*   interval   core_reuse_interval; commands, command_block_interval;     *)
(*   selected   the steps evaluated, the others extrapolated;              *)
(*   sampler    "gpu" or "cpu", with the window of steps in a command and  *)
(*              whether each step is previewed.                            *)
(* The switches that exist for diagnosis are left as they are by default,  *)
(* and the weights that are streamed from disk are DitStream's.            *)
(***************************************************************************)
EXTENDS GpuCommands, DitRows

CONSTANT H3_DIT_BLOCKS   \* 50

TEXT_DIM == 5120
HIDDEN == 5376
HEADS == 56
HEAD_DIM == 128
INNER == HEADS * HEAD_DIM
FFN == 14336
VIDEO_CHANNELS == 24
VIDEO_PATCH == 96
AUDIO_CHANNELS == 32
AUDIO_STREAMS == 2
ROPE_FREQS == 16
ROPE_HALF == 48
SLOTS == 6
FINAL_SLOTS == 2
TIME_INPUT == 256
TIME_HIDDEN == 5376
H3_DIT_TIME_DIM == 2688
BLOCK_OUTPUT == H3_DIT_MODALITIES * SLOTS * HIDDEN
FINAL_OUTPUT == FINAL_SLOTS * HIDDEN

Of(owner, field) == owner \o "." \o field
Block(index) == "blocks." \o ToString(index)
Refiner(index) == "refiner." \o ToString(index)
At(step, map) == map \o "." \o ToString(step)

\* validate_layout.
text_rows(d)   == RowsOf(d.layout, {"text"})
video_condition_rows(d) == RowsOf(d.layout, {"cond", "ref_image"})
audio_condition_rows(d) == RowsOf(d.layout, {"ref_audio"})
video_rows(d)  == RowsOf(d.layout, {"video"})
audio_rows(d)  == RowsOf(d.layout, {"audio"})
video_total_rows(d) == RowsOf(d.layout, VideoKinds)
audio_total_rows(d) == RowsOf(d.layout, AudioKinds)
token_reduction(d) == d.reduction.begin < d.reduction.end
steps(d) == Cardinality(DOMAIN d.order)
schedule(d) == prepare_rows(d.order, video_condition_rows(d) > 0, audio_condition_rows(d) > 0)

-----------------------------------------------------------------------------
(* The weights of a block. *)

MatrixFields == {"qkv", "qkv_int8", "qkv_scales", "out", "out_int8", "out_scales", "fc1", "fc2",
                 "fc1_int8", "fc1_scales", "fc2_int8", "fc2_scales"}
BlockNames(owner) == {Of(owner, f) : f \in MatrixFields \cup {"norm1", "norm2", "q_norm", "k_norm"}}

free_block(owner) == Free(BlockNames(owner))

load_block(owner) ==
  LET bf(field, elements) == From(Of(owner, field), BF16, elements)
  IN bf("norm1", HIDDEN) \o bf("norm2", HIDDEN) \o bf("qkv", INNER * 3 * HIDDEN)
     \o bf("q_norm", HEAD_DIM) \o bf("k_norm", HEAD_DIM) \o bf("out", HIDDEN * INNER)
     \o bf("fc1", FFN * 2 * HIDDEN) \o bf("fc2", HIDDEN * FFN)

\* A weight quantised by row, and the BF16 one it replaces.
Quantized(owner, field, rows, columns) ==
  LET int8 == Of(owner, field \o "_int8")
      scales == Of(owner, field \o "_scales")
  IN [new  |-> New(int8, I8, rows * columns) \o New(scales, F32, rows),
      call |-> Call(QuantizeRows(rows, columns), << int8, scales >>, << Of(owner, field) >>)]

quantize_block_mlp(owner) ==
  LET fc1 == Quantized(owner, "fc1", FFN * 2, HIDDEN)
      fc2 == Quantized(owner, "fc2", HIDDEN, FFN)
  IN fc1.new \o fc2.new \o Begin \o fc1.call \o fc2.call \o Submit
     \o Free({Of(owner, "fc1"), Of(owner, "fc2")})

quantize_block_qkv(owner) ==
  LET qkv == Quantized(owner, "qkv", INNER * 3, HIDDEN)
  IN qkv.new \o Begin \o qkv.call \o Submit \o Free({Of(owner, "qkv")})

quantize_block_attention_out(owner) ==
  LET out == Quantized(owner, "out", HIDDEN, INNER)
  IN out.new \o Begin \o out.call \o Submit \o Free({Of(owner, "out")})

-----------------------------------------------------------------------------
(* The prompt, through two blocks of its own. *)

\* Half 0: the heads are normalised and not rotated, and the tables of the
\* rotation are any tensor.
run_refiner_block(owner, rows) ==
  LET w(field) == Of(owner, field)
      residual == Call(Binary(BF16, rows * HIDDEN), << "refined_text" >>, << "refined_text", "branch" >>)
  IN Call(RmsNorm(BF16, rows, HIDDEN), << "norm" >>, << "refined_text", w("norm1") >>)
     \o Call(Linear(BF16, rows, HIDDEN, INNER * 3, FALSE), << "fused" >>, << "norm", w("qkv") >>)
     \o Call(QkvRope(BF16, rows, HEADS, HEAD_DIM, 0, TRUE), << "q", "k", "v" >>,
             << "fused", w("q_norm"), w("q_norm"), w("q_norm"), w("k_norm") >>)
     \o Call(Sdpa(BF16, rows, HEADS, HEAD_DIM), << "heads" >>, << "q", "k", "v" >>)
     \o Call(Linear(BF16, rows, INNER, HIDDEN, FALSE), << "branch" >>, << "heads", w("out") >>)
     \o residual
     \o Call(RmsNorm(BF16, rows, HIDDEN), << "norm" >>, << "refined_text", w("norm2") >>)
     \o Call(Linear(BF16, rows, HIDDEN, FFN * 2, FALSE), << "ff" >>, << "norm", w("fc1") >>)
     \o Call(Swiglu(BF16, rows, FFN), << "swiglu" >>, << "ff" >>)
     \o Call(Linear(BF16, rows, FFN, HIDDEN, FALSE), << "branch" >>, << "swiglu", w("fc2") >>)
     \o residual

refine_text(d) ==
  LET rows == text_rows(d)
      row(name, width) == New(name, BF16, rows * width)
      scratch == {"source", "condition_w", "condition_b", "refiner_norm", "norm", "fused", "q", "k", "v",
                  "heads", "branch", "ff", "swiglu"} \cup BlockNames(Refiner(0)) \cup BlockNames(Refiner(1))
  IN Within(scratch,
       From("source", BF16, rows * TEXT_DIM) \o From("condition_w", BF16, HIDDEN * TEXT_DIM)
       \o From("condition_b", BF16, HIDDEN) \o load_block(Refiner(0)) \o load_block(Refiner(1))
       \o From("refiner_norm", BF16, HIDDEN)
       \o row("refined_text", HIDDEN) \o row("norm", HIDDEN) \o row("fused", INNER * 3) \o row("q", INNER)
       \o row("k", INNER) \o row("v", INNER) \o row("heads", INNER) \o row("branch", HIDDEN)
       \o row("ff", FFN * 2) \o row("swiglu", FFN)
       \o Begin
       \o Call(Linear(BF16, rows, TEXT_DIM, HIDDEN, TRUE), << "refined_text" >>,
               << "source", "condition_w", "condition_b" >>)
       \o run_refiner_block(Refiner(0), rows) \o run_refiner_block(Refiner(1), rows)
       \o Call(RmsNorm(BF16, rows, HIDDEN), << "refined_text" >>, << "refined_text", "refiner_norm" >>)
       \o Submit)
     \o Free(scratch)

-----------------------------------------------------------------------------
(* The schedule: the modulations of every block for every time. *)

time_embeddings(rows) ==
  LET scratch == {"time_input", "in_w", "in_b", "out_w", "out_b", "time_hidden", "time_activated",
                  "time_output", "time_bf16"}
  IN Within(scratch \cup {"time"},
       From("time_input", F32, rows * TIME_INPUT)
       \o From("in_w", F32, TIME_HIDDEN * TIME_INPUT) \o From("in_b", F32, TIME_HIDDEN)
       \o From("out_w", F32, H3_DIT_TIME_DIM * TIME_HIDDEN) \o From("out_b", F32, H3_DIT_TIME_DIM)
       \o New("time_hidden", F32, rows * TIME_HIDDEN) \o New("time_activated", F32, rows * TIME_HIDDEN)
       \o New("time_output", F32, rows * H3_DIT_TIME_DIM) \o New("time_bf16", BF16, rows * H3_DIT_TIME_DIM)
       \o New("time", BF16, rows * H3_DIT_TIME_DIM)
       \o Begin
       \o Call(Linear(F32, rows, TIME_INPUT, TIME_HIDDEN, TRUE), << "time_hidden" >>, << "time_input", "in_w", "in_b" >>)
       \o Call(Unary(F32, rows * TIME_HIDDEN), << "time_activated" >>, << "time_hidden" >>)
       \o Call(Linear(F32, rows, TIME_HIDDEN, H3_DIT_TIME_DIM, TRUE), << "time_output" >>,
               << "time_activated", "out_w", "out_b" >>)
       \o Call(Cast(BF16, F32, rows * H3_DIT_TIME_DIM), << "time_bf16" >>, << "time_output" >>)
       \o Call(Unary(BF16, rows * H3_DIT_TIME_DIM), << "time" >>, << "time_bf16" >>)
       \o Submit)
     \o Free(scratch)

Projected(name, rows, outDim) ==
  Within({"weight", "bias", "time"},
    From("weight", BF16, outDim * H3_DIT_TIME_DIM) \o From("bias", BF16, outDim)
    \o New(name, BF16, rows * outDim) \o Begin
    \o Call(Linear(BF16, rows, H3_DIT_TIME_DIM, outDim, TRUE), << name >>, << "time", "weight", "bias" >>)
    \o Submit)
  \o Free({"weight", "bias"})

ScheduleNames == {Of(Block(i), "adaln") : i \in 0..H3_DIT_BLOCKS - 1} \cup {"final"}

h3_dit_schedule_precompute(d) ==
  LET rows == schedule(d).count
  IN Host \o time_embeddings(rows)
     \o Times(H3_DIT_BLOCKS, LAMBDA i : Projected(Of(Block(i - 1), "adaln"), rows, BLOCK_OUTPUT))
     \o Projected("final", rows, FINAL_OUTPUT) \o Free({"time"})

\* The gates of all blocks but the first two and the last are read, and the
\* modulations of the blocks that do not run are freed.
configure_gate_ranked_blocks(d) ==
  IF d.ranked
  THEN Times(H3_DIT_BLOCKS - 3,
             LAMBDA i : Look(Of(Block(i + 1), "adaln"), BF16, schedule(d).count * BLOCK_OUTPUT))
  ELSE << >>

h3_dit_schedule_prune(d) == Free({Of(Block(i), "adaln") : i \in (0..H3_DIT_BLOCKS - 1) \ d.active})

-----------------------------------------------------------------------------
(* The tables. *)

prepare_rope(d) ==
  LET count == sequence(d.layout) * ROPE_HALF
      reduced == reduced_sequence(d.layout) * ROPE_HALF
      if(code) == IF token_reduction(d) THEN code ELSE << >>
      f32 == {"cos_f32", "sin_f32", "reduced_cos_f32", "reduced_sin_f32"}
      cast(to, from, elements) == Call(Cast(BF16, F32, elements), << to >>, << from >>)
  IN Within({"inverse"}, From("inverse", F32, ROPE_FREQS) \o ReadFrom("inverse", F32, ROPE_FREQS))
     \o Free({"inverse"}) \o Host
     \o Within(f32,
          From("cos_f32", F32, count) \o From("sin_f32", F32, count)
          \o if(From("reduced_cos_f32", F32, reduced) \o From("reduced_sin_f32", F32, reduced))
          \o New("rope_cos", BF16, count) \o New("rope_sin", BF16, count)
          \o if(New("reduced_rope_cos", BF16, reduced) \o New("reduced_rope_sin", BF16, reduced))
          \o Begin \o cast("rope_cos", "cos_f32", count) \o cast("rope_sin", "sin_f32", count)
          \o if(cast("reduced_rope_cos", "reduced_cos_f32", reduced)
                \o cast("reduced_rope_sin", "reduced_sin_f32", reduced))
          \o Submit)
     \o Free(f32)

prepare_maps(d) ==
  Host \o Times(steps(d), LAMBDA i :
    Host
    \o (IF token_reduction(d) THEN From(At(i - 1, "reduced_row_map"), U32, reduced_sequence(d.layout)) ELSE << >>)
    \o From(At(i - 1, "row_map"), U32, sequence(d.layout))
    \o From(At(i - 1, "final_audio_map"), U32, audio_rows(d))
    \o From(At(i - 1, "final_video_map"), U32, video_rows(d)))

Segments(d, kinds) == {i \in DOMAIN d.layout.segments : d.layout.segments[i].kind \in kinds}
Mapped(d, kinds) == Cardinality(Segments(d, kinds)) > 1

prepare_projection_maps(d) ==
  Host \o (IF Mapped(d, VideoKinds) THEN From("video_projection_map", U32, video_total_rows(d)) ELSE << >>)
  \o (IF Mapped(d, AudioKinds) THEN From("audio_projection_map", U32, audio_total_rows(d)) ELSE << >>)

prepare_token_reduction_maps(d) ==
  IF token_reduction(d)
  THEN Host \o From("token_pool_pairs", U32, reduced_sequence(d.layout) * 2)
       \o From("token_baseline_indices", U32, reduced_sequence(d.layout))
       \o From("token_expand_parents", U32, sequence(d.layout))
  ELSE << >>

-----------------------------------------------------------------------------
(* Loading and freeing. *)

Heads == << [field |-> "video_w", elements |-> VIDEO_PATCH * HIDDEN], [field |-> "video_b", elements |-> VIDEO_PATCH],
            [field |-> "audio_w", elements |-> AUDIO_CHANNELS * HIDDEN], [field |-> "audio_b", elements |-> AUDIO_CHANNELS] >>

\* The heads come as F32 and are cast, all four or none.
load_heads ==
  LET each(Code(_)) == Times(4, LAMBDA i : Code(Heads[i]))
      head(h) == Of("final", h.field)
      target(h) == Of("target", h.field)
  IN each(LAMBDA h : From(head(h), F32, h.elements))
     \o Within({target(Heads[i]) : i \in 1..4},
          each(LAMBDA h : New(target(h), BF16, h.elements)) \o Begin
          \o each(LAMBDA h : Call(Cast(BF16, F32, h.elements), << target(h) >>, << head(h) >>)) \o Submit)
     \o Free({head(Heads[i]) : i \in 1..4})
     \o each(LAMBDA h : Move(head(h), target(h)))

load_core(d) ==
  LET block(i) ==
        IF i \notin d.active THEN << >>
        ELSE load_block(Block(i))
             \o (IF "mlp" \in d.int8 THEN quantize_block_mlp(Block(i)) ELSE << >>)
             \o (IF "qkv" \in d.int8 THEN quantize_block_qkv(Block(i)) ELSE << >>)
             \o (IF "out" \in d.int8 THEN quantize_block_attention_out(Block(i)) ELSE << >>)
  IN Times(H3_DIT_BLOCKS, LAMBDA i : block(i - 1))
     \o From("video_patch_w", F32, HIDDEN * VIDEO_PATCH) \o From("video_patch_b", F32, HIDDEN)
     \o From("audio_patch_w", F32, HIDDEN * AUDIO_CHANNELS) \o From("audio_patch_b", F32, HIDDEN)
     \o From("final_norm", BF16, HIDDEN) \o load_heads

\* Rows are quantised in groups of 128.
Padded(rows) == ((rows + 127) \div 128) * 128

\* The rows from before pooling lie behind those in use, if qkv has room for both.
\* The guards that keep the offsets below UINT32_MAX (1515-1516, 1525-1526) are left
\* out: the number is beyond TLC's integers, and no layout here comes near it.
token_original_in_qkv(d) ==
  reduced_sequence(d.layout) * INNER * 3 + sequence(d.layout) * HIDDEN <= sequence(d.layout) * INNER * 3
token_original(d) == IF token_original_in_qkv(d) THEN "qkv" ELSE "token_original"
token_original_offset(d) == IF token_original_in_qkv(d) THEN reduced_sequence(d.layout) * INNER * 3 ELSE 0

\* A faulty form: the baseline starts where the pooled video does.
token_baseline_offset_AtVideo(d) == target_start(d.layout, "video") * HIDDEN

token_baseline_offset(d) == reduced_sequence(d.layout) * HIDDEN

\* attention_heads and mod_mlp are qkv, and mlp_output is attention_output.
allocate_activations(d) ==
  LET rows == sequence(d.layout)
      row(name, width) == New(name, BF16, rows * width)
      if(condition, code) == IF condition THEN code ELSE << >>
  IN New("video_input", F32, video_total_rows(d) * VIDEO_PATCH)
     \o New("audio_input", F32, audio_total_rows(d) * AUDIO_CHANNELS)
     \o row("a", HIDDEN) \o row("c", HIDDEN) \o row("qkv", INNER * 3) \o row("query", INNER)
     \o row("key", INNER) \o row("value", INNER) \o row("b", HIDDEN)
     \o New("final_audio_inverse", F32, audio_rows(d)) \o New("final_video_inverse", F32, video_rows(d))
     \o New("audio_output", BF16, audio_rows(d) * AUDIO_CHANNELS)
     \o New("video_output", BF16, video_rows(d) * VIDEO_PATCH)
     \o if("mlp" \in d.int8, row("activated", FFN))
     \o if(d.int8 # {}, New("int8_activation", I8, Padded(rows) * FFN)
                        \o New("int8_scales", F32, Padded(rows) * (FFN \div 1024)))
     \o if(token_reduction(d) /\ ~token_original_in_qkv(d), row("token_original", HIDDEN))
     \o if(d.interval > 1, row("core_input", HIDDEN) \o row("core_residual", HIDDEN))

\* The rows of the conditions, in front of those of the targets.
write_conditions(d) ==
  LET if(condition, code) == IF condition THEN code ELSE << >>
  IN if(video_condition_rows(d) > 0, WriteAt("video_input", F32, 0, video_condition_rows(d) * VIDEO_PATCH))
     \o if(audio_condition_rows(d) > 0, WriteAt("audio_input", F32, 0, audio_condition_rows(d) * AUDIO_CHANNELS))

load_dit(d) ==
  Host \o refine_text(d) \o h3_dit_schedule_precompute(d) \o configure_gate_ranked_blocks(d)
  \o h3_dit_schedule_prune(d) \o prepare_rope(d) \o prepare_maps(d) \o prepare_projection_maps(d)
  \o prepare_token_reduction_maps(d) \o load_core(d) \o allocate_activations(d) \o write_conditions(d)

\* h3_dit_free: all that a DiT may hold.
Owned(d) ==
  {At(s, map) : s \in DOMAIN d.order, map \in {"row_map", "reduced_row_map", "final_audio_map", "final_video_map"}}
  \cup UNION {BlockNames(Block(i)) : i \in 0..H3_DIT_BLOCKS - 1} \cup ScheduleNames
  \cup {Of("final", Heads[i].field) : i \in 1..4}
  \cup {"refined_text", "rope_cos", "rope_sin", "reduced_rope_cos", "reduced_rope_sin", "video_patch_w",
        "video_patch_b", "audio_patch_w", "audio_patch_b", "final_norm", "video_input", "audio_input",
        "video_projection_map", "audio_projection_map", "a", "b", "c", "core_input", "core_residual", "qkv",
        "query", "key", "value", "token_pool_pairs", "token_baseline_indices", "token_expand_parents",
        "token_original", "activated", "int8_activation", "int8_scales", "final_audio_inverse",
        "final_video_inverse", "audio_output", "video_output", "previous_audio_velocity",
        "previous_video_velocity"}

-----------------------------------------------------------------------------
(* A forward, as the code it adds to a program: which buffers are hidden,  *)
(* attention_output and mod_attention, whether tokens are pooled, and what *)
(* the block before left to this one, go from step to step.                *)

Fresh == [code |-> << >>, hidden |-> "a", attention |-> "b", modulated |-> "c", reduced |-> FALSE,
          adaln |-> FALSE, quantized |-> FALSE, count |-> 0, cached |-> FALSE, completed |-> 0]

Then(s, code) == [s EXCEPT !.code = @ \o code]

\* One projection for all the segments of a kind if there is more than one.
Pack(d, s) ==
  LET source(kinds, input, channels, weight, bias, map) ==
        LET of == Segments(d, kinds)
            first(i) == FoldSet(LAMBDA j, sum : sum + d.layout.segments[j].rows, 0, {j \in of : j < i})
        IN IF Mapped(d, kinds)
           THEN Call(PatchLinearMap(sequence(d.layout), {<< start(d.layout, i), stop(d.layout, i) >> : i \in of},
                                    channels, HIDDEN, TRUE),
                     << s.hidden >>, << input, weight, bias, map >>)
           ELSE FlattenSeq([n \in 1..Cardinality(of) |->
                  LET i == SetToSortSeq(of, <)[n]
                  IN Call(PatchLinear(start(d.layout, i) * HIDDEN, first(i) * channels,
                                      d.layout.segments[i].rows, channels, HIDDEN, TRUE),
                          << s.hidden >>, << input, weight, bias >>)])
  IN source(VideoKinds, "video_input", VIDEO_PATCH, "video_patch_w", "video_patch_b", "video_projection_map")
     \o source(AudioKinds, "audio_input", AUDIO_CHANNELS, "audio_patch_w", "audio_patch_b", "audio_projection_map")
     \o Call(Copy(BF16, 0, 0, text_rows(d) * HIDDEN), << s.hidden >>, << "refined_text" >>)

Rows(d, s) == IF s.reduced THEN reduced_sequence(d.layout) ELSE sequence(d.layout)
RowMap(s, step) == At(step, IF s.reduced THEN "reduced_row_map" ELSE "row_map")
ModulationRows(d, step) == 1 + Max(row_map(d.layout, schedule(d), step, d.tags, d.clean[step]))

\* The two operations of the reduction, and their first inputs.
Pooling(layout, original, baseline) ==
  TokenPool(0, original, baseline, sequence(layout), reduced_sequence(layout), token_baseline_rows(layout), HIDDEN,
            1 + Max(UNION {Range(token_pool_sources(layout, row)) : row \in 0..reduced_sequence(layout) - 1}))

Expanding(layout, original, baseline) ==
  TokenExpand(original, baseline, sequence(layout), reduced_sequence(layout), token_baseline_rows(layout), HIDDEN,
              target_start(layout, "video"), 1 + Max({token_reduced_parent(layout, row) : row \in 0..sequence(layout) - 1}))

\* With the normalisation of the block that follows, when it runs.
Fused(d, op, rows, step) == ThenAdaln(op, rows, HIDDEN, SLOTS, 0, 1, ModulationRows(d, step))
AdalnInputs(block, map) == << Of(Block(block), "norm1"), Of(Block(block), "adaln"), map >>

Entering(d, s, step, block, pool) ==
  LET ins == << s.hidden, "token_baseline_indices", "token_pool_pairs" >>
  IN IF block \in d.active
     THEN Call(Fused(d, pool, reduced_sequence(d.layout), step),
               << s.attention, s.modulated, token_original(d), s.attention >>,
               ins \o AdalnInputs(block, At(step, "reduced_row_map")))
     ELSE Call(pool, << s.attention, token_original(d), s.attention >>, ins)

Enter(d, s, step, block) ==
  [Then(s, Entering(d, s, step, block, Pooling(d.layout, token_original_offset(d), token_baseline_offset(d))))
   EXCEPT !.hidden = s.attention, !.attention = s.hidden, !.reduced = TRUE,
          !.adaln = block \in d.active, !.quantized = FALSE]

Leaving(d, s, step, block, expand) ==
  LET ins == << token_original(d), s.hidden, s.hidden, "token_baseline_indices", "token_expand_parents" >>
  IN IF block \in d.active
     THEN [Then(s, Call(Fused(d, expand, sequence(d.layout), step), << s.attention, s.modulated >>,
                        ins \o AdalnInputs(block, At(step, "row_map"))))
           EXCEPT !.hidden = s.attention, !.attention = s.hidden, !.reduced = FALSE, !.adaln = TRUE,
                  !.quantized = FALSE]
     ELSE [Then(s, Call(expand, << s.modulated >>, ins))
           EXCEPT !.hidden = s.modulated, !.modulated = s.hidden, !.reduced = FALSE, !.adaln = FALSE,
                  !.quantized = FALSE]

Leave(d, s, step, block) ==
  Leaving(d, s, step, block, Expanding(d.layout, token_original_offset(d), token_baseline_offset(d)))

\* A block over so many rows, whose map names so many of the modulations.
BlockOver(d, s, index, fuseNext, rows, map, mapped) ==
  LET w(field) == Of(Block(index), field)
      cos == IF s.reduced THEN "reduced_rope_cos" ELSE "rope_cos"
      sin == IF s.reduced THEN "reduced_rope_sin" ELSE "rope_sin"
      rope == << cos, sin, w("q_norm"), w("k_norm") >>
      int8 == << "int8_activation", "int8_scales" >>
      next == Block(index + 1)
      qkv == IF "qkv" \in d.int8
             THEN Call(GroupedQkvLinearRopeInt8(rows, HIDDEN, HEADS, HEAD_DIM, ROPE_HALF, s.quantized),
                       << "query", "key", "value" >> \o (IF s.quantized THEN << >> ELSE int8),
                       rope \o (IF s.quantized THEN int8 ELSE << s.modulated >>) \o << w("qkv_int8"), w("qkv_scales") >>)
             ELSE Call(GroupedQkvLinearRope(rows, HIDDEN, HEADS, HEAD_DIM, ROPE_HALF),
                       << "query", "key", "value", "qkv" >>, rope \o << s.modulated, w("qkv") >>)
      out == IF "out" \in d.int8
             THEN Call(LinearInt8HeadMajor(rows, HEADS, HEAD_DIM, HIDDEN), << s.attention >> \o int8,
                       << "qkv", w("out_int8"), w("out_scales") >>)
             ELSE Call(Linear(BF16, rows, INNER, HIDDEN, FALSE), << s.attention >>, << "qkv", w("out") >>)
      gated(quantized, to, branch, norm, modulation, gate, shift, scale) ==
        LET ins == << s.hidden, branch, norm, w("adaln"), modulation, map >>
        IN IF quantized
           THEN Call(GateAdalnQuantize(rows, Padded(rows), HIDDEN, SLOTS, gate, shift, scale, mapped),
                     << s.hidden >> \o int8, ins)
           ELSE Call(GateAdaln(rows, HIDDEN, SLOTS, gate, shift, scale, mapped), << s.hidden, to >>, ins)
      mlp == IF "mlp" \in d.int8
             THEN Call(MlpInt8(rows, HIDDEN, FFN, HIDDEN, TRUE), << s.attention, "activated" >> \o int8,
                       << "qkv", w("fc1_int8"), w("fc1_scales"), w("fc2_int8"), w("fc2_scales") >> \o int8)
             ELSE Call(Mlp(rows, HIDDEN, FFN, HIDDEN, FALSE), << s.attention >>, << "qkv", w("fc1"), w("fc2") >>)
  IN [Then(s,
        (IF s.adaln THEN << >>
         ELSE Call(Adaln(BF16, 0, rows, HIDDEN, SLOTS, 0, 1, mapped), << s.modulated >>,
                   << s.hidden, w("norm1"), w("adaln"), map >>))
        \o qkv \o Call(Sdpa(BF16, rows, HEADS, HEAD_DIM), << "qkv" >>, << "query", "key", "value" >>) \o out
        \o gated("mlp" \in d.int8, "qkv", s.attention, w("norm2"), w("adaln"), 2, 3, 4) \o mlp
        \o (IF fuseNext
            THEN gated("qkv" \in d.int8, s.modulated, s.attention, Of(next, "norm1"), Of(next, "adaln"), 5, 0, 1)
            ELSE Call(Gate(BF16, rows, HIDDEN, SLOTS, 5, mapped), << s.hidden >>,
                      << s.hidden, s.attention, w("adaln"), map >>)))
      EXCEPT !.adaln = fuseNext, !.quantized = fuseNext /\ "qkv" \in d.int8, !.completed = @ + 1]

\* run_block, and what it leaves to the block after it.
run_block(d, s, step, index, fuseNext) ==
  BlockOver(d, s, index, fuseNext, Rows(d, s), RowMap(s, step), ModulationRows(d, step))

\* The audio's rows, then the video's, where the layout has them.
FinalHead(d, s, step) ==
  LET head(kind, rows, channels, row) ==
        Call(AdalnLinear(target_start(d.layout, kind) * HIDDEN, rows, HIDDEN, channels, FINAL_SLOTS, 0, 1, row + 1, TRUE),
             << kind \o "_output", "final_" \o kind \o "_inverse" >>,
             << s.hidden, "final_norm", "final", At(step, "final_" \o kind \o "_map"),
                Of("final", kind \o "_w"), Of("final", kind \o "_b") >>)
  IN head("audio", audio_rows(d), AUDIO_CHANNELS, schedule(d).audio[step])
     \o head("video", video_rows(d), VIDEO_PATCH, schedule(d).video[step])

\* Whether the blocks are evaluated, or the residual of an earlier step is added.
Evaluates(d, s, step) == d.interval = 1 \/ ~s.cached \/ s.count % d.interval = 0 \/ step = steps(d) - 1

ReductionEnd(d, step) == IF step < d.reduction.early THEN d.reduction.earlyEnd ELSE d.reduction.end

AtBoundary(d, s, step, block) ==
  IF ~token_reduction(d) THEN s
  ELSE IF block = d.reduction.begin THEN Enter(d, s, step, block)
  ELSE IF block = ReductionEnd(d, step) THEN Leave(d, s, step, block) ELSE s

FusesNext(d, step, block) ==
  /\ block + 1 \in d.active
  /\ token_reduction(d) => block + 1 \notin {d.reduction.begin, ReductionEnd(d, step)}

Continued(d, s, commands) ==
  IF commands > 0 /\ s.completed < Cardinality(d.active) /\ s.completed % commands = 0
  THEN Then(s, Continue) ELSE s

TurnOf(d, s, step, block, commands) ==
  IF block \in d.active
  THEN Continued(d, run_block(d, s, step, block, FusesNext(d, step, block)), commands)
  ELSE [s EXCEPT !.adaln = FALSE, !.quantized = FALSE]

Whole(d) == sequence(d.layout) * HIDDEN

Entered(d, s) ==
  IF d.interval > 1 THEN Then(s, Call(Copy(BF16, 0, 0, Whole(d)), << "core_input" >>, << s.hidden >>)) ELSE s

Restored(d, s, step) ==
  IF token_reduction(d) /\ ReductionEnd(d, step) = H3_DIT_BLOCKS THEN Leave(d, s, step, H3_DIT_BLOCKS) ELSE s

Kept(d, s) ==
  IF d.interval > 1
  THEN [Then(s, Call(Binary(BF16, Whole(d)), << "core_residual" >>, << s.hidden, "core_input" >>))
        EXCEPT !.cached = TRUE]
  ELSE s

Reused(d, s) == Then(s, Call(Binary(BF16, Whole(d)), << s.hidden >>, << s.hidden, "core_residual" >>))

Evaluated(d, s, step, commands) ==
  LET after[n \in 0..H3_DIT_BLOCKS] ==
        IF n = 0 THEN Entered(d, s)
        ELSE TurnOf(d, AtBoundary(d, after[n - 1], step, n - 1), step, n - 1, commands)
  IN Kept(d, Restored(d, after[H3_DIT_BLOCKS], step))

Core(d, s, step, commands) ==
  IF Evaluates(d, s, step) THEN Evaluated(d, s, step, commands) ELSE Reused(d, s)

Headed(d, s, step) == [Then(s, FinalHead(d, s, step)) EXCEPT !.count = @ + 1]

encode_forward(d, s, step, commands) ==
  Headed(d, Core(d, [Then(s, Pack(d, s)) EXCEPT !.completed = 0, !.adaln = FALSE, !.quantized = FALSE],
                 step, commands), step)

-----------------------------------------------------------------------------
(* Denoising. *)

video_elements(d) == video_rows(d) * VIDEO_PATCH
audio_elements(d) == audio_rows(d) * AUDIO_CHANNELS
video_offset(d) == video_condition_rows(d) * VIDEO_PATCH
audio_offset(d) == audio_condition_rows(d) * AUDIO_CHANNELS

write_latents(d) ==
  Host \o WriteAt("video_input", F32, video_offset(d), video_elements(d))
  \o WriteAt("audio_input", F32, audio_offset(d), audio_elements(d))

h3_dit_forward(d, s, step) ==
  Then(encode_forward(d, Then(s, write_latents(d) \o Begin), step, d.commands),
       Submit \o ReadFrom("video_output", BF16, video_elements(d))
       \o ReadFrom("audio_output", BF16, audio_elements(d)) \o Host)

\* h3_dit_denoise_euler_preview: the latents are the host's between steps.
denoise_cpu(d, s) ==
  LET after[n \in 0..steps(d)] ==
        IF n = 0 THEN s
        ELSE Then(IF n - 1 \in d.selected THEN h3_dit_forward(d, after[n - 1], n - 1) ELSE after[n - 1], Host)
  IN after[steps(d)]

ensure_previous_velocities(d) ==
  New("previous_video_velocity", BF16, video_elements(d)) \o New("previous_audio_velocity", BF16, audio_elements(d))

\* denoise_euler_gpu: the latents stay in the inputs, and a command may hold
\* several steps.  Before a step is evaluated again, its last velocities are kept.
Earlier(d, step) == {t \in d.selected : t < step}

\* There is a velocity of before the last: it is kept aside.
KeepsVelocity(d, step) == step \in d.selected /\ Earlier(d, step) # {} /\ d.reuse > 1

StepBegun(d, s, step) ==
  LET copy(kind, n) == Call(Copy(BF16, 0, 0, n), << "previous_" \o kind \o "_velocity" >>, << kind \o "_output" >>)
  IN Then(s, (IF step > 0 /\ ~s.finished[step - 1] THEN << >> ELSE Begin)
             \o (IF KeepsVelocity(d, step)
                 THEN copy("video", video_elements(d)) \o copy("audio", audio_elements(d)) ELSE << >>))

StepForward(d, s, step) ==
  IF step \in d.selected THEN encode_forward(d, s, step, IF d.window = 1 THEN 0 ELSE d.commands) ELSE s

StepEnded(d, s, step) ==
  LET evaluate == step \in d.selected
      open == {t \in Earlier(d, step) : \A u \in t..step - 1 : ~s.finished[u]}
      previous == IF evaluate THEN KeepsVelocity(d, step) ELSE ExtrapolatedFrom(d.selected, step)[2] >= 0
      euler(kind, offset, n) ==
        Call(Euler(offset, n), << kind \o "_input" >>,
             << kind \o "_output", IF previous THEN "previous_" \o kind \o "_velocity" ELSE kind \o "_output",
                kind \o "_input" >>)
      pending == Cardinality(open) + (IF evaluate THEN 1 ELSE 0)
      finish == d.preview \/ step + 1 = steps(d) \/ (d.window > 0 /\ pending >= d.window)
  IN [Then(s, euler("video", video_offset(d), video_elements(d))
              \o euler("audio", audio_offset(d), audio_elements(d))
              \o (IF ~(evaluate \/ d.preview) THEN << >> ELSE IF finish THEN Submit ELSE Continue)
              \o (IF d.preview THEN ReadAt("video_input", F32, video_offset(d), video_elements(d)) \o Host ELSE << >>))
      EXCEPT !.finished[step] = (evaluate \/ d.preview) /\ finish]

LatentsRead(d, s) ==
  Then(s, (IF s.finished[steps(d) - 1] THEN << >> ELSE Submit)
          \o ReadAt("video_input", F32, video_offset(d), video_elements(d))
          \o ReadAt("audio_input", F32, audio_offset(d), audio_elements(d)) \o Host)

\* denoise_euler_gpu: the latents stay in the inputs, and a command may hold
\* several steps.  Before a step is evaluated again, its last velocities are kept.
denoise_euler_gpu(d, s) ==
  LET after[n \in 0..steps(d)] ==
        IF n = 0
        THEN [finished |-> [t \in DOMAIN d.order |-> FALSE]]
             @@ Then(s, (IF d.reuse > 1 THEN ensure_previous_velocities(d) ELSE << >>) \o write_latents(d))
        ELSE StepEnded(d, StepForward(d, StepBegun(d, after[n - 1], n - 1), n - 1), n - 1)
  IN LatentsRead(d, after[steps(d)])

Denoised(d, s) == IF d.sampler = "gpu" THEN denoise_euler_gpu(d, s) ELSE denoise_cpu(d, s)

\* A DiT that is kept for a second run: h3_dit_reset_run, and the buffers where
\* the first run left them.
Again(d, s) ==
  IF d.again THEN Denoised(d, [Then(s, write_conditions(d)) EXCEPT !.count = 0, !.cached = FALSE]) ELSE s

Runs(d) == Again(d, Denoised(d, Fresh)).code

Life(d) == Within(Owned(d), load_dit(d) \o Runs(d)) \o Free(Owned(d))
=============================================================================
