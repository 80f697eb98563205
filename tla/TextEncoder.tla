----------------------------- MODULE TextEncoder -----------------------------
(***************************************************************************)
(* src/h3_text_encoder.c as a program of GpuProgram: the prompt, with the  *)
(* pictures the user gave spliced into it, through the layers of Qwen.     *)
(* Here the layers are loaded one after the other, H3_QWEN_PREFETCH=0; the *)
(* ring that reads them ahead is TextPrefetch's.  spans are the vision     *)
(* spans, each of a start and a number of tokens.                          *)
(***************************************************************************)
EXTENDS GpuCommands, FiniteSets

TEXT_VOCAB == 151936
TEXT_HIDDEN == 5120
TEXT_INTERMEDIATE == 25600
TEXT_QUERY_HEADS == 64
TEXT_KV_HEADS == 8
TEXT_HEAD_DIM == 128
TEXT_QUERY_DIM == TEXT_QUERY_HEADS * TEXT_HEAD_DIM
TEXT_KV_DIM == TEXT_KV_HEADS * TEXT_HEAD_DIM
TEXT_ROPE_HALF == TEXT_HEAD_DIM \div 2

Deepstack(layer) == "deepstack." \o ToString(layer)

\* The spans lie within the prompt, in order and apart.
ValidSpans(tokens, spans) ==
  \A i \in DOMAIN spans :
    /\ spans[i].tokens > 0 /\ spans[i].start + spans[i].tokens <= tokens
    /\ spans[i].start >= (IF i = 1 THEN 0 ELSE spans[i - 1].start + spans[i - 1].tokens)

LayerWeights == {"input_norm", "q_proj", "k_proj", "v_proj", "query_norm", "key_norm", "o_proj", "post_norm",
                 "gate_proj", "up_proj", "down_proj"}

layer_weights_load ==
  From("input_norm", BF16, TEXT_HIDDEN) \o From("q_proj", BF16, TEXT_QUERY_DIM * TEXT_HIDDEN)
  \o From("k_proj", BF16, TEXT_KV_DIM * TEXT_HIDDEN) \o From("v_proj", BF16, TEXT_KV_DIM * TEXT_HIDDEN)
  \o From("query_norm", BF16, TEXT_HEAD_DIM) \o From("key_norm", BF16, TEXT_HEAD_DIM)
  \o From("o_proj", BF16, TEXT_HIDDEN * TEXT_QUERY_DIM) \o From("post_norm", BF16, TEXT_HIDDEN)
  \o From("gate_proj", BF16, TEXT_INTERMEDIATE * TEXT_HIDDEN) \o From("up_proj", BF16, TEXT_INTERMEDIATE * TEXT_HIDDEN)
  \o From("down_proj", BF16, TEXT_HIDDEN * TEXT_INTERMEDIATE)

encode_layer(tokens) ==
  LET linear(to, from, weight, inDim, outDim) ==
        Call(Linear(BF16, tokens, inDim, outDim, FALSE), << to >>, << from, weight >>)
      norm(weight) == Call(RmsNorm(BF16, tokens, TEXT_HIDDEN), << "norm" >>, << "hidden", weight >>)
      head(name, weight, heads) == Call(HeadRmsNorm(tokens, heads, TEXT_HEAD_DIM), << name >>, << name, weight >>)
      add(name) == Call(Binary(BF16, tokens * TEXT_HIDDEN), << "hidden" >>, << "hidden", name >>)
  IN norm("input_norm")
     \o linear("query", "norm", "q_proj", TEXT_HIDDEN, TEXT_QUERY_DIM)
     \o linear("key", "norm", "k_proj", TEXT_HIDDEN, TEXT_KV_DIM)
     \o linear("value", "norm", "v_proj", TEXT_HIDDEN, TEXT_KV_DIM)
     \o head("query", "query_norm", TEXT_QUERY_HEADS) \o head("key", "key_norm", TEXT_KV_HEADS)
     \o Call(RopeText(tokens, TEXT_QUERY_HEADS, TEXT_KV_HEADS, TEXT_HEAD_DIM), << "query", "key" >>,
             << "query", "key", "rope_cos", "rope_sin" >>)
     \o Call(GqaCausal(tokens, TEXT_QUERY_HEADS, TEXT_KV_HEADS, TEXT_HEAD_DIM), << "attention_heads" >>,
             << "query", "key", "value" >>)
     \o linear("attention_output", "attention_heads", "o_proj", TEXT_QUERY_DIM, TEXT_HIDDEN) \o add("attention_output")
     \o norm("post_norm")
     \o linear("gate", "norm", "gate_proj", TEXT_HIDDEN, TEXT_INTERMEDIATE)
     \o linear("up", "norm", "up_proj", TEXT_HIDDEN, TEXT_INTERMEDIATE)
     \o Call(Binary(BF16, tokens * TEXT_INTERMEDIATE), << "gate" >>, << "gate", "up" >>)
     \o linear("mlp_output", "gate", "down_proj", TEXT_INTERMEDIATE, TEXT_HIDDEN) \o add("mlp_output")

\* The tensors that live as long as the call, in the order of their allocation.
activations(tokens, spans) ==
  LET row(name, width) == New(name, BF16, tokens * width)
  IN From("ids", U32, tokens) \o From("rope_cos", F32, tokens * TEXT_ROPE_HALF)
     \o From("rope_sin", F32, tokens * TEXT_ROPE_HALF)
     \o row("hidden", TEXT_HIDDEN) \o row("norm", TEXT_HIDDEN) \o row("query", TEXT_QUERY_DIM)
     \o row("key", TEXT_KV_DIM) \o row("value", TEXT_KV_DIM) \o row("attention_heads", TEXT_QUERY_DIM)
     \o row("attention_output", TEXT_HIDDEN) \o row("gate", TEXT_INTERMEDIATE) \o row("up", TEXT_INTERMEDIATE)
     \o row("mlp_output", TEXT_HIDDEN)
     \o (IF spans = << >> THEN << >>
         ELSE Host \o Times(3, LAMBDA i : From(Deepstack(i - 1), BF16, tokens * TEXT_HIDDEN)))

\* The axis of the position that rotates a pair of dimensions: of a picture's
\* three, time has what the other two leave.
RopeAxis(multimodal, index) == IF multimodal /\ index < 60 THEN index % 3 ELSE 0

\* The layers after the third add nothing of the pictures.
text_encode_bf16_impl(tokens, spans, layers) ==
  LET owned == {"ids", "rope_cos", "rope_sin", "hidden", "norm", "query", "key", "value", "attention_heads",
                "attention_output", "gate", "up", "mlp_output", "embed_tokens"}
               \cup LayerWeights \cup {Deepstack(i) : i \in 0..2}
      splice(i) == Ranging("write", "hidden", BF16, spans[i].start * TEXT_HIDDEN, spans[i].tokens * TEXT_HIDDEN)
      layer(i) ==
        layer_weights_load \o Begin \o encode_layer(tokens)
        \o (IF i < 3 /\ spans # << >>
            THEN Call(Binary(BF16, tokens * TEXT_HIDDEN), << "hidden" >>, << "hidden", Deepstack(i) >>) ELSE << >>)
        \o Submit \o Free(LayerWeights)
  IN Within(owned,
       Host \o activations(tokens, spans)
       \o From("embed_tokens", BF16, TEXT_VOCAB * TEXT_HIDDEN) \o Begin
       \o Call(Embedding(tokens, TEXT_VOCAB, TEXT_HIDDEN), << "hidden" >>, << "embed_tokens", "ids" >>)
       \o Submit \o Free({"embed_tokens"})
       \o Times(Len(spans), splice) \o Times(layers, LAMBDA i : layer(i - 1))
       \o Host \o ReadFrom("hidden", BF16, tokens * TEXT_HIDDEN) \o Host)
     \o Free(owned)
=============================================================================
