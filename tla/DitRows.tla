------------------------------- MODULE DitRows -------------------------------
(***************************************************************************)
(* The rows the DiT works on: the packed layout, the modulation row of     *)
(* each, the pooling of video tokens, the patches of a latent, and the     *)
(* steps a denoising run evaluates.  Pure functions of src/h3_dit.c and    *)
(* src/h3_dit_schedule.c; rows, steps and indices count from 0 as there.   *)
(*                                                                         *)
(* A layout is [segments, latent, audio]: the segments in order, each of a *)
(* kind and a number of rows, the latent's frames, height and width, and   *)
(* its audio frames.                                                       *)
(***************************************************************************)
EXTENDS Integers, Sequences, FiniteSetsExt, SequencesExt

H3_DIT_MODALITIES == 3

VideoKinds == {"cond", "ref_image", "video"}
AudioKinds == {"ref_audio", "audio"}

\* The rows of the first segments that are of these kinds.
RowsAmong(layout, first, kinds) ==
  LET total[n \in 0..first] ==
        IF n = 0 THEN 0
        ELSE total[n - 1] + (IF layout.segments[n].kind \in kinds THEN layout.segments[n].rows ELSE 0)
  IN total[first]

RowsOf(layout, kinds) == RowsAmong(layout, Len(layout.segments), kinds)

start(layout, index) == RowsAmong(layout, index - 1, {"text"} \cup VideoKinds \cup AudioKinds)

stop(layout, index) == start(layout, index) + layout.segments[index].rows

sequence(layout) == start(layout, Len(layout.segments) + 1)

\* Where the one segment of a target kind starts.
target_start(layout, kind) ==
  start(layout, CHOOSE i \in DOMAIN layout.segments : layout.segments[i].kind = kind)

\* tokens is the length of the embedded prompt; rows are the counts that the
\* layout announces of each kind.
validate_layout(layout, tokens, rows) ==
  LET segments == layout.segments
      of(kind) == {i \in DOMAIN segments : segments[i].kind = kind}
  IN /\ tokens > 0
     /\ Len(segments) >= 3 /\ segments[1].kind = "text" /\ segments[Len(segments)].kind = "video"
     /\ layout.latent[1] >= 1 /\ layout.audio >= 1
     /\ \A i \in 2..3 : layout.latent[i] >= 2 /\ layout.latent[i] % 2 = 0
     /\ RowsOf(layout, {"text"}) = tokens
     /\ RowsOf(layout, {"cond", "ref_image"}) = rows.videoCondition
     /\ RowsOf(layout, {"ref_audio"}) = rows.audioCondition
     /\ RowsOf(layout, {"video"}) = rows.video /\ RowsOf(layout, {"audio"}) = rows.audio
     /\ Cardinality(of("video")) = 1 /\ Cardinality(of("audio")) = 1

-----------------------------------------------------------------------------
(* Token reduction: two neighbours of a row of the video become one token. *)

Halved(n) == (n + 1) \div 2

\* configure_token_reduction's rows, for a video that ends the layout.
reduced_video_rows(layout) ==
  layout.latent[1] * (layout.latent[2] \div 2) * Halved(layout.latent[3] \div 2)

token_baseline_rows(layout) == RowsOf(layout, {"video"}) - reduced_video_rows(layout)
reduced_sequence(layout) == target_start(layout, "video") + reduced_video_rows(layout)

CanReduce(layout) ==
  /\ layout.latent[1] * (layout.latent[2] \div 2) * (layout.latent[3] \div 2) = RowsOf(layout, {"video"})
  /\ target_start(layout, "video") + RowsOf(layout, {"video"}) = sequence(layout)

token_pool_sources(layout, row) ==
  LET video == target_start(layout, "video")
      width == layout.latent[3] \div 2
      local == row - video
      first == video + (local \div Halved(width)) * width + (local % Halved(width)) * 2
  IN IF row < video THEN << row, row >>
     ELSE << first, IF ((first - video) % width) + 1 < width THEN first + 1 ELSE first >>

token_reduced_parent(layout, row) ==
  LET video == target_start(layout, "video")
      width == layout.latent[3] \div 2
      local == row - video
  IN IF row < video THEN row
     ELSE video + (local \div width) * Halved(width) + (local % width) \div 2

\* prepare_token_reduction_maps: the tokens made of two rows keep a baseline, in
\* their order.
Pooled(layout) ==
  {row \in target_start(layout, "video")..reduced_sequence(layout) - 1 :
     token_pool_sources(layout, row)[1] # token_pool_sources(layout, row)[2]}

baseline_index(layout, row) == Cardinality({r \in Pooled(layout) : r < row})

-----------------------------------------------------------------------------
(* Time: a row of the schedule for each distinct time of a step, then one  *)
(* for the conditions of each kind.  order tells, for each step, whether   *)
(* the video's time is before the audio's, after it or the same.           *)

\* prepare_rows.
RowsBefore(order, step) ==
  2 * step - Cardinality({s \in 0..step - 1 : order[s] = "same"})

prepare_rows(order, visualCondition, audioCondition) ==
  LET steps  == DOMAIN order
      count  == RowsBefore(order, Cardinality(steps))
      visual == IF visualCondition THEN 1 ELSE 0
  IN [video  |-> [s \in steps |-> RowsBefore(order, s) + (IF order[s] = "after" THEN 1 ELSE 0)],
      audio  |-> [s \in steps |-> RowsBefore(order, s) + (IF order[s] = "before" THEN 1 ELSE 0)],
      visual |-> IF visualCondition THEN count ELSE -1,
      heard  |-> IF audioCondition THEN count + visual ELSE -1,
      count  |-> count + visual + (IF audioCondition THEN 1 ELSE 0)]

\* h3_dit_schedule_row_map: the modulation row of each row of the layout.  A text
\* row has the modality of its tag.  clean holds the kinds whose target is already
\* as clean as a condition at this step: they share its row.
Modulation(schedule, step, kind, tag, clean) ==
  LET visual == IF "video" \in clean THEN schedule.video[step] ELSE schedule.visual
      heard  == IF "audio" \in clean THEN schedule.audio[step] ELSE schedule.heard
  IN CASE kind = "text"                   -> schedule.video[step] * H3_DIT_MODALITIES + tag
       [] kind \in {"cond", "ref_image"}  -> visual * H3_DIT_MODALITIES
       [] kind = "ref_audio"              -> heard * H3_DIT_MODALITIES + 2
       [] kind = "audio"                  -> schedule.audio[step] * H3_DIT_MODALITIES + 2
       [] kind = "video"                  -> schedule.video[step] * H3_DIT_MODALITIES

row_map(layout, schedule, step, tags, clean) ==
  {Modulation(schedule, step, segment.kind, tag, clean) : segment \in Range(layout.segments), tag \in tags}

-----------------------------------------------------------------------------
(* Patches: a row of four positions of every channel, and the two audio    *)
(* streams one after the other.  Each gives, for an element of the rows,   *)
(* the element of the latent it is.                                        *)

patchify_video(channels, box, element) ==
  LET inRow   == element % (channels * 4)
      row     == element \div (channels * 4)
      channel == inRow \div 4
      width   == box[3] \div 2
      t       == row \div ((box[2] \div 2) * width)
      h       == 2 * ((row \div width) % (box[2] \div 2)) + (inRow % 4) \div 2
      w       == 2 * (row % width) + (inRow % 2)
  IN ((channel * box[1] + t) * box[2] + h) * box[3] + w

pack_audio(channels, time, element) ==
  LET channel == element % channels
      t       == (element \div channels) % time
      stream  == element \div (channels * time)
  IN (channel * 2 + stream) * time + t

-----------------------------------------------------------------------------
(* Which steps are evaluated, and which blocks run. *)

h3_dit_reuse_schedule(steps, interval) ==
  {step \in 0..steps - 1 : step = steps - 1 \/ step % interval = 0}

\* parse_reuse_steps: a list from the environment, or -1 where it is refused.
AcceptedReuseSteps(steps, list) ==
  /\ \A i \in DOMAIN list : list[i] \in 0..steps - 1
  /\ \A i \in DOMAIN list : i > 1 => list[i - 1] < list[i]
  /\ {0, steps - 1} \subseteq Range(list)

\* The evaluated steps a skipped one is extrapolated from: the last, and the one
\* before it if there is one.
ExtrapolatedFrom(selected, step) ==
  LET before == {s \in selected : s < step}
      last   == Max(before)
      older  == before \ {last}
  IN << last, IF older = {} THEN -1 ELSE Max(older) >>

\* configure_active_blocks: the skipped blocks are spread, the first and the last
\* always run.
configure_active_blocks(blocks, active) ==
  LET skipped == blocks - active
      spread(index) == ((2 * index + 1) * blocks) \div (2 * skipped)
      kept(block) == IF block = 0 THEN 1 ELSE IF block >= blocks - 1 THEN blocks - 2 ELSE block
  IN (0..blocks - 1) \ {kept(spread(index)) : index \in 0..skipped - 1}
=============================================================================
