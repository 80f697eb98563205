---------------------------- MODULE VisionEncoder ----------------------------
(***************************************************************************)
(* src/h3_vision_encoder.c: the Qwen vision tower over one or two frames,  *)
(* as a program of GpuProgram.                                             *)
(***************************************************************************)
EXTENDS GpuCommands

VISION_HIDDEN == 1152
VISION_INTERMEDIATE == 4304
VISION_HEADS == 16
VISION_HEAD_DIM == 72
VISION_ROPE_HALF == 36
PATCH == 16
TEMPORAL_PATCH == 2
MERGE == 2
PATCH_DIM == 3 * TEMPORAL_PATCH * PATCH * PATCH
MERGE_DIM == VISION_HIDDEN * MERGE * MERGE
POSITION_SIDE == 48
OUTPUT_WIDTH == 5120

VISION_LAYERS == 27

\* The layers, counted from one, after which run_merger taps the hidden states.
Deepstacks == << 9, 17, 25 >>

-----------------------------------------------------------------------------
(* prepare_patch_rows, prepare_position_rows and prepare_rope walk the     *)
(* grid in the same order: the four patches that the merger joins follow   *)
(* each other.  Row r (from 0) of any of the three is this patch.          *)

PatchOfRow(gridW, r) ==
  LET block == r \div (MERGE * MERGE)
      inner == r % (MERGE * MERGE)
  IN << (block \div (gridW \div MERGE)) * MERGE + (inner \div MERGE),
        (block % (gridW \div MERGE)) * MERGE + (inner % MERGE) >>

\* The pixel that element e of a patch row holds: frame, channel, y, x.  One
\* frame stands for both.
PixelOf(frames, gridW, r, e) ==
  LET patch == PatchOfRow(gridW, r)
      at    == e % (PATCH * PATCH)
      plane == e \div (PATCH * PATCH)
  IN << IF frames = 1 THEN 0 ELSE plane % TEMPORAL_PATCH, plane \div TEMPORAL_PATCH,
        patch[1] * PATCH + (at \div PATCH), patch[2] * PATCH + (at % PATCH) >>

\* The two learned positions between which row or column i of grid is
\* interpolated; the upper is clamped to the table.
PositionsAround(grid, i) ==
  LET low == (i * (POSITION_SIDE - 1)) \div (grid - 1)
  IN << low, IF low + 1 < POSITION_SIDE THEN low + 1 ELSE low >>
-----------------------------------------------------------------------------
BlockWeights == {"norm1_w", "norm1_b", "qkv_w", "qkv_b", "out_w", "out_b",
                 "norm2_w", "norm2_b", "fc1_w", "fc1_b", "fc2_w", "fc2_b"}

free_block_weights == Free(BlockWeights)

load_block_weights ==
  Within(BlockWeights,
    From("norm1_w", BF16, VISION_HIDDEN) \o From("norm1_b", BF16, VISION_HIDDEN)
    \o From("qkv_w", BF16, VISION_HIDDEN * 3 * VISION_HIDDEN)
    \o From("qkv_b", BF16, VISION_HIDDEN * 3)
    \o From("out_w", BF16, VISION_HIDDEN * VISION_HIDDEN)
    \o From("out_b", BF16, VISION_HIDDEN)
    \o From("norm2_w", BF16, VISION_HIDDEN) \o From("norm2_b", BF16, VISION_HIDDEN)
    \o From("fc1_w", BF16, VISION_INTERMEDIATE * VISION_HIDDEN)
    \o From("fc1_b", BF16, VISION_INTERMEDIATE)
    \o From("fc2_w", BF16, VISION_HIDDEN * VISION_INTERMEDIATE)
    \o From("fc2_b", BF16, VISION_HIDDEN))

\* A layer: attention over all rows, then the MLP, each added to hidden.
run_block(rows) ==
  LET residual == Call(Binary(BF16, rows * VISION_HIDDEN), << "hidden" >>, << "hidden", "branch" >>)
  IN Begin
     \o Call(LayerNorm(BF16, rows, VISION_HIDDEN), << "norm" >>, << "hidden", "norm1_w", "norm1_b" >>)
     \o Call(Linear(BF16, rows, VISION_HIDDEN, VISION_HIDDEN * 3, TRUE), << "qkv" >>, << "norm", "qkv_w", "qkv_b" >>)
     \o Call(QkvRope(BF16, rows, VISION_HEADS, VISION_HEAD_DIM, VISION_ROPE_HALF, FALSE),
             << "query", "key", "value" >>, << "qkv", "rope_cos", "rope_sin" >>)
     \o Call(Sdpa(BF16, rows, VISION_HEADS, VISION_HEAD_DIM), << "heads" >>, << "query", "key", "value" >>)
     \o Call(Linear(BF16, rows, VISION_HIDDEN, VISION_HIDDEN, TRUE), << "branch" >>, << "heads", "out_w", "out_b" >>)
     \o residual
     \o Call(LayerNorm(BF16, rows, VISION_HIDDEN), << "norm" >>, << "hidden", "norm2_w", "norm2_b" >>)
     \o Call(Linear(BF16, rows, VISION_HIDDEN, VISION_INTERMEDIATE, TRUE), << "fc1" >>, << "norm", "fc1_w", "fc1_b" >>)
     \o Call(Unary(BF16, rows * VISION_INTERMEDIATE), << "activated" >>, << "fc1" >>)
     \o Call(Linear(BF16, rows, VISION_INTERMEDIATE, VISION_HIDDEN, TRUE), << "branch" >>, << "activated", "fc2_w", "fc2_b" >>)
     \o residual
     \o Submit

\* The merger joins four rows into one.  The final one normalises each patch,
\* a deepstack one the joined row.
run_merger(patchRows, deepstack, output) ==
  LET rows      == patchRows \div (MERGE * MERGE)
      normWidth == IF deepstack THEN MERGE_DIM ELSE VISION_HIDDEN
      normRows  == IF deepstack THEN rows ELSE patchRows
      own == {"m_norm_w", "m_norm_b", "m_fc1_w", "m_fc1_b", "m_fc2_w", "m_fc2_b",
              "m_norm", "m_fc1", "m_activated"}
  IN Within(own \cup {output},
       From("m_norm_w", BF16, normWidth) \o From("m_norm_b", BF16, normWidth)
       \o From("m_fc1_w", BF16, MERGE_DIM * MERGE_DIM) \o From("m_fc1_b", BF16, MERGE_DIM)
       \o From("m_fc2_w", BF16, OUTPUT_WIDTH * MERGE_DIM) \o From("m_fc2_b", BF16, OUTPUT_WIDTH)
       \o New("m_norm", BF16, patchRows * VISION_HIDDEN)
       \o New("m_fc1", BF16, rows * MERGE_DIM) \o New("m_activated", BF16, rows * MERGE_DIM)
       \o New(output, BF16, rows * OUTPUT_WIDTH)
       \o Begin
       \o Call(LayerNorm(BF16, normRows, normWidth), << "m_norm" >>, << "hidden", "m_norm_w", "m_norm_b" >>)
       \o Call(Linear(BF16, rows, MERGE_DIM, MERGE_DIM, TRUE), << "m_fc1" >>, << "m_norm", "m_fc1_w", "m_fc1_b" >>)
       \o Call(Unary(BF16, rows * MERGE_DIM), << "m_activated" >>, << "m_fc1" >>)
       \o Call(Linear(BF16, rows, MERGE_DIM, OUTPUT_WIDTH, TRUE), << output >>, << "m_activated", "m_fc2_w", "m_fc2_b" >>)
       \o Submit \o Free(own))

-----------------------------------------------------------------------------
(* h3_vision_encode_bf16. *)

PatchInputs == {"patches", "position", "patch_w", "patch_b"}

\* A faulty form: the tables of the rotary embedding are left to nobody.
Tower_NoRope == {"merged", "deepstack0", "deepstack1", "deepstack2", "hidden", "norm", "qkv",
                 "query", "key", "value", "heads", "branch", "fc1", "activated"}

\* What the end of the function frees.
Tower == {"merged", "deepstack0", "deepstack1", "deepstack2", "hidden", "norm", "qkv",
          "query", "key", "value", "heads", "branch", "fc1", "activated",
          "rope_cos", "rope_sin"}
prepare_inputs ==
  Within({"position_weight"},
    From("position_weight", BF16, POSITION_SIDE * POSITION_SIDE * VISION_HIDDEN)
    \o ReadFrom("position_weight", BF16, POSITION_SIDE * POSITION_SIDE * VISION_HIDDEN)
    \o Host \o Free({"position_weight"}))

patch_embed(rows) ==
  Within(PatchInputs \cup {"rope_cos", "rope_sin", "hidden"},
    From("patches", BF16, rows * PATCH_DIM) \o From("position", BF16, rows * VISION_HIDDEN)
    \o From("rope_cos", BF16, rows * VISION_ROPE_HALF) \o From("rope_sin", BF16, rows * VISION_ROPE_HALF)
    \o From("patch_w", BF16, VISION_HIDDEN * PATCH_DIM) \o From("patch_b", BF16, VISION_HIDDEN)
    \o New("hidden", BF16, rows * VISION_HIDDEN)
    \o Begin
    \o Call(Linear(BF16, rows, PATCH_DIM, VISION_HIDDEN, TRUE), << "hidden" >>, << "patches", "patch_w", "patch_b" >>)
    \o Call(Binary(BF16, rows * VISION_HIDDEN), << "hidden" >>, << "hidden", "position" >>)
    \o Submit \o Free(PatchInputs))

activations(rows) ==
  LET one(name) == New(name, BF16, rows * VISION_HIDDEN)
  IN one("norm") \o New("qkv", BF16, rows * VISION_HIDDEN * 3)
     \o one("query") \o one("key") \o one("value") \o one("heads") \o one("branch")
     \o New("fc1", BF16, rows * VISION_INTERMEDIATE) \o New("activated", BF16, rows * VISION_INTERMEDIATE)

DeepstackName == << "deepstack0", "deepstack1", "deepstack2" >>

layer(rows, l) ==
  Within(BlockWeights, load_block_weights \o run_block(rows))
  \o free_block_weights
  \o Times(3, LAMBDA i : IF Deepstacks[i] = l THEN run_merger(rows, TRUE, DeepstackName[i]) ELSE << >>)

\* The results are read into buffers of the host, all of the same size.
h3_vision_encode_bf16(height, width) ==
  LET rows    == (height \div PATCH) * (width \div PATCH)
      outputs == << "merged" >> \o DeepstackName
  IN prepare_inputs \o patch_embed(rows)
     \o Within(Tower,
          activations(rows)
          \o Times(VISION_LAYERS, LAMBDA l : layer(rows, l))
          \o run_merger(rows, FALSE, "merged")
          \o Host
          \o Times(4, LAMBDA i : ReadFrom(outputs[i], BF16, (rows \div (MERGE * MERGE)) * OUTPUT_WIDTH)))
     \o Free(Tower)
=============================================================================
