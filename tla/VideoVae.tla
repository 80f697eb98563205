------------------------------ MODULE VideoVae ------------------------------
(***************************************************************************)
(* src/h3_video_vae.c: the transformer that decodes one tile of one chunk  *)
(* of video latents, as programs of GpuProgram.  The resident decoder      *)
(* keeps its weights and activations between calls: loading it, decoding a *)
(* tile with it and freeing it are programs of their own.  The diagnostic  *)
(* path loads, uses and frees one layer at a time.                         *)
(***************************************************************************)
EXTENDS GpuCommands

LATENT_CHANNELS == 24
CHUNK_LATENT_TIME == 7
HIDDEN == 2048
LAYERS == 36
HEADS == 32
HEAD_DIM == 64
INNER == 2048
FFN == 8192
REGISTERS == 4
SUFFIX == 5
ROPE_HALF == 24
OUTPUT_PATCH == 3072

Patches(height, width) == CHUNK_LATENT_TIME * height * width
Sequence(height, width) == Patches(height, width) + SUFFIX

-----------------------------------------------------------------------------
\* The weights of a layer; each layer of vae->blocks has its own.
Of(index, field) == "block" \o ToString(index) \o "." \o field

BlockFields == {"norm1", "qkv_w", "qkv_b", "out_w", "out_b", "scale1",
                "norm2", "w1", "w1_b", "w2", "w2_b", "scale2"}
BlockNames(index) == {Of(index, field) : field \in BlockFields}

free_block(index) == Free(BlockNames(index))

load_block(index) ==
  LET f1(field, width) == From(Of(index, field), F32, width)
      f2(field, rows, columns) == From(Of(index, field), F32, rows * columns)
  IN f1("norm1", HIDDEN) \o f2("qkv_w", INNER * 3, HIDDEN) \o f1("qkv_b", INNER * 3)
     \o f2("out_w", HIDDEN, INNER) \o f1("out_b", HIDDEN) \o f1("scale1", HIDDEN)
     \o f1("norm2", HIDDEN) \o f2("w1", FFN * 2, HIDDEN) \o f1("w1_b", FFN * 2)
     \o f2("w2", HIDDEN, FFN) \o f1("w2_b", HIDDEN) \o f1("scale2", HIDDEN)

InputWeights  == {"post_w", "post_b", "embed_w", "embed_b", "registers"}
OutputWeights == {"norm_out_w", "norm_out_b", "proj_w", "proj_b"}

load_input_weights ==
  From("post_w", F32, LATENT_CHANNELS * LATENT_CHANNELS) \o From("post_b", F32, LATENT_CHANNELS)
  \o From("embed_w", F32, HIDDEN * LATENT_CHANNELS) \o From("embed_b", F32, HIDDEN)
  \o From("registers", F32, REGISTERS * HIDDEN)

load_output_weights ==
  From("norm_out_w", F32, HIDDEN) \o From("norm_out_b", F32, HIDDEN)
  \o From("proj_w", F32, OUTPUT_PATCH * HIDDEN) \o From("proj_b", F32, OUTPUT_PATCH)

load_resident_weights ==
  load_input_weights \o Times(LAYERS, load_block) \o load_output_weights

prepare_input(height, width) == Host \o From("latent", F32, Patches(height, width) * LATENT_CHANNELS)

prepare_rope(height, width) ==
  Host \o From("rope_cos", F32, Sequence(height, width) * ROPE_HALF)
  \o From("rope_sin", F32, Sequence(height, width) * ROPE_HALF)

Activations == {"post", "patch_hidden", "hidden", "norm", "qkv", "query", "key", "value",
                "heads", "branch", "ff1", "activated", "projected"}

allocate_activations(height, width) ==
  LET per(name, patchWidth) == New(name, F32, Patches(height, width) * patchWidth)
      row(name, rowWidth) == New(name, F32, Sequence(height, width) * rowWidth)
  IN per("post", LATENT_CHANNELS) \o per("patch_hidden", HIDDEN)
     \o row("hidden", HIDDEN) \o row("norm", HIDDEN) \o row("qkv", INNER * 3)
     \o row("query", INNER) \o row("key", INNER) \o row("value", INNER) \o row("heads", INNER)
     \o row("branch", HIDDEN) \o row("ff1", FFN * 2) \o row("activated", FFN)
     \o row("projected", OUTPUT_PATCH)

\* cleanup(): everything a vae_context may hold.
Context ==
  UNION {BlockNames(index) : index \in 1..LAYERS} \cup InputWeights \cup OutputWeights
  \cup {"latent", "rope_cos", "rope_sin"} \cup Activations

-----------------------------------------------------------------------------
(* The transformer.  A sequence is the patches, then registers, then a row *)
(* of zeros.                                                               *)

\* A faulty form: the row of zeros at the end is left as it was allocated.
pack_NoZero(height, width) ==
  LET patches == Patches(height, width)
  IN Call(Linear(F32, patches, LATENT_CHANNELS, LATENT_CHANNELS, TRUE), << "post" >>, << "latent", "post_w", "post_b" >>)
     \o Call(Linear(F32, patches, LATENT_CHANNELS, HIDDEN, TRUE), << "patch_hidden" >>, << "post", "embed_w", "embed_b" >>)
     \o Call(Copy(F32, 0, 0, patches * HIDDEN), << "hidden" >>, << "patch_hidden" >>)
     \o Call(Copy(F32, patches * HIDDEN, 0, REGISTERS * HIDDEN), << "hidden" >>, << "registers" >>)

pack(height, width) ==
  LET patches == Patches(height, width)
  IN Call(Linear(F32, patches, LATENT_CHANNELS, LATENT_CHANNELS, TRUE), << "post" >>, << "latent", "post_w", "post_b" >>)
     \o Call(Linear(F32, patches, LATENT_CHANNELS, HIDDEN, TRUE), << "patch_hidden" >>, << "post", "embed_w", "embed_b" >>)
     \o Call(Copy(F32, 0, 0, patches * HIDDEN), << "hidden" >>, << "patch_hidden" >>)
     \o Call(Copy(F32, patches * HIDDEN, 0, REGISTERS * HIDDEN), << "hidden" >>, << "registers" >>)
     \o Call(Copy(F32, (patches + REGISTERS) * HIDDEN, 0, HIDDEN), << "hidden" >>, << "zero" >>)

run_block(index, rows) ==
  LET w(field) == Of(index, field)
      residual(scale) == Call(ScaleAdd(rows, HIDDEN), << "hidden" >>, << "hidden", "branch", w(scale) >>)
  IN Call(RmsNorm(F32, rows, HIDDEN), << "norm" >>, << "hidden", w("norm1") >>)
     \o Call(Linear(F32, rows, HIDDEN, INNER * 3, TRUE), << "qkv" >>, << "norm", w("qkv_w"), w("qkv_b") >>)
     \o Call(QkvRope(F32, rows, HEADS, HEAD_DIM, ROPE_HALF, FALSE),
             << "query", "key", "value" >>, << "qkv", "rope_cos", "rope_sin" >>)
     \o Call(Sdpa(F32, rows, HEADS, HEAD_DIM), << "heads" >>, << "query", "key", "value" >>)
     \o Call(Linear(F32, rows, INNER, HIDDEN, TRUE), << "branch" >>, << "heads", w("out_w"), w("out_b") >>)
     \o residual("scale1")
     \o Call(RmsNorm(F32, rows, HIDDEN), << "norm" >>, << "hidden", w("norm2") >>)
     \o Call(Linear(F32, rows, HIDDEN, FFN * 2, TRUE), << "ff1" >>, << "norm", w("w1"), w("w1_b") >>)
     \o Call(Swiglu(F32, rows, FFN), << "activated" >>, << "ff1" >>)
     \o Call(Linear(F32, rows, FFN, HIDDEN, TRUE), << "branch" >>, << "activated", w("w2"), w("w2_b") >>)
     \o residual("scale2")

project(rows) ==
  Call(LayerNorm(F32, rows, HIDDEN), << "norm" >>, << "hidden", "norm_out_w", "norm_out_b" >>)
  \o Call(Linear(F32, rows, HIDDEN, OUTPUT_PATCH, TRUE), << "projected" >>, << "norm", "proj_w", "proj_b" >>)

\* One layer in memory at a time.
run_decoder(height, width) ==
  LET rows == Sequence(height, width)
  IN Within({"zero"}, From("zero", F32, HIDDEN) \o Begin \o pack(height, width) \o Submit)
     \o Free({"zero"}) \o Free(InputWeights)
     \o Times(LAYERS, LAMBDA index : load_block(index) \o Begin \o run_block(index, rows) \o Submit
                                     \o free_block(index))
     \o load_output_weights \o Begin \o project(rows) \o Submit \o Free(OutputWeights)

\* Every layer is resident, and the whole tile is one command.
run_resident_tile(height, width) ==
  LET rows == Sequence(height, width)
  IN Within({"zero"},
       From("zero", F32, HIDDEN) \o Begin \o pack(height, width)
       \o Times(LAYERS, LAMBDA index : run_block(index, rows)) \o project(rows) \o Submit)
     \o Free({"zero"})

\* unpack_frame_range reads every row, whichever frames it unpacks.
unpack(height, width) == Host \o ReadFrom("projected", F32, Sequence(height, width) * OUTPUT_PATCH)

-----------------------------------------------------------------------------
(* The programs, over the height and width of a tile in latents. *)

load(height, width) ==
  Host \o load_resident_weights \o prepare_rope(height, width) \o allocate_activations(height, width)

\* A tile of decoder_decode_chunk: the input of the tile before it is freed, and
\* the new one stays with the decoder.  A failure frees nothing of the decoder's.
decode_tile(height, width) ==
  Host \o Free({"latent"}) \o prepare_input(height, width)
  \o run_resident_tile(height, width) \o unpack(height, width)

\* decode_chunked, and a resident decoder from its load to its free.
decode_chunked(height, width, tiles) ==
  Within(Context, load(height, width) \o Times(tiles, LAMBDA i : decode_tile(height, width)))
  \o Free(Context)

\* What h3_video_vae_decoder_load leaves, and the input of the latest tile.
Resident(height, width) ==
  LET code == load(height, width) \o prepare_input(height, width)
      made == {i \in DOMAIN code : code[i].do \in {"new", "from"}}
  IN [name \in {code[i].name : i \in made} |->
        code[CHOOSE i \in made : code[i].name = name].need]

\* h3_video_vae_decode where one tile and one chunk are enough.
h3_video_vae_decode(height, width) ==
  Within(Context, Host \o load_input_weights \o prepare_input(height, width)
                  \o prepare_rope(height, width) \o allocate_activations(height, width)
                  \o run_decoder(height, width) \o unpack(height, width))
  \o Free(Context)
=============================================================================
